------------------------------ MODULE Patterns ------------------------------
(***************************************************************************)
(* The regular expressions of the walkers of pass 1 that look for a value  *)
(* wherever it is written, as predicates on a span of a text: on its       *)
(* atoms, and on those before and after it.                                *)
(***************************************************************************)
EXTENDS TokenLoop

CONSTANTS
    Numbers,            \* the labels of digits
    Tlds,               \* those of letters, two or more
    InternalSuffixes,   \* the private ones among these: corp, local, lan, ...
    Uppers,             \* those of capital letters
    Singles             \* those of one character

ASSUME ClassAssumption ==
    /\ Numbers \cup Tlds \cup InternalSuffixes \cup Uppers \subseteq Labels
    /\ InternalSuffixes \subseteq Tlds /\ Singles \subseteq Short
    /\ Labels \cap (Punctuation \cup Indexes) = {}

Dot     == Lit(".")
Dash    == Lit("-")
At      == Lit("@")
Comma   == Lit(",")
Equals  == Lit("=")
Percent == Lit("%")
Slashes == Lit("\\\\")      \* a backslash, as Tcl writes it in quotes

Letters == Labels \ Numbers
IsAddress(atom, tag) == atom[1] = tag

Before(text, a) == IF a = 1 THEN Gap ELSE text[a - 1]
After(text, b)  == IF b = Len(text) THEN Gap ELSE text[b + 1]

\* re.finditer: the matches that a scan from left to right takes.
Spans(text) == {span \in (DOMAIN text) \X (DOMAIN text) : span[1] <= span[2]}
Listing(text, matches) ==
    LET taken  == Taken(matches)
        starts == Listed(DOMAIN taken)
    IN  [n \in DOMAIN starts |-> SubSeq(text, starts[n], taken[starts[n]])]
FindAll(text, IsMatch(_, _)) ==
    Listing(text, {span \in Spans(text) : IsMatch(span[1], span[2])})

\* A find of one kind for every match.
FoundAs(kind, texts) == [n \in DOMAIN texts |-> Find(kind, texts[n])]

---------------------------------------------------------------------------
(***************************************************************************)
(* Names of hosts.                                                         *)
(***************************************************************************)
\* Labels separated by dots, the last of them a top level domain.
IsDomain(name, tlds) ==
    /\ Len(name) >= 3 /\ name[1] \in Labels
    /\ name[Len(name) - 1] = Dot /\ name[Len(name)] \in tlds
    /\ \A k \in DOMAIN name :
          /\ name[k] \in Labels \cup {Dot, Dash}
          /\ name[k] = Dot => name[k + 1] \in Labels

EndsName(text, b) == After(text, b) \in Punctuation \ {Dash}

\* _FQDN_RE: a name in a private domain.
InternalNames(text) ==
    FindAll(text, LAMBDA a, b :
        /\ IsDomain(SubSeq(text, a, b), InternalSuffixes)
        /\ Before(text, a) \in Punctuation \ {Dash} /\ EndsName(text, b))

\* _PERMISSIVE_FQDN_RE: any name of three labels or more.
AnyNames(text) ==
    FindAll(text, LAMBDA a, b :
        /\ IsDomain(SubSeq(text, a, b), Tlds)
        /\ Cardinality({k \in a .. b : text[k] = Dot}) >= 2
        /\ Before(text, a) \in Punctuation \ {Dash, Dot} /\ EndsName(text, b))

\* _EMAIL_RE
Emails(text) ==
    FindAll(text, LAMBDA a, b :
        /\ \E at \in a + 1 .. b - 1 :
              /\ text[at] = At
              /\ \A k \in a .. at - 1 : text[k] \in Labels \cup Indexes \cup {Dot, Dash}
              /\ IsDomain(SubSeq(text, at + 1, b), Tlds)
        /\ Before(text, a) \in Punctuation \ {Dash, Dot} /\ EndsName(text, b))

---------------------------------------------------------------------------
(***************************************************************************)
(* Addresses.                                                              *)
(***************************************************************************)
Numeric(atom) == atom \in Numbers \cup {Dot} \/ IsAddress(atom, "ipv4")

\* _IPV4_INFIX_RE: anything but digits and dots may be around it.
InfixAddresses(text) ==
    FindAll(text, LAMBDA a, b :
        /\ a = b /\ IsAddress(text[a], "ipv4")
        /\ ~Numeric(Before(text, a)) /\ ~Numeric(After(text, b)))

\* _IPV4_LITERAL_RE, _IPV4_IN_QSTRING_RE: it is a word.
QuotedAddresses(text) ==
    FindAll(text, LAMBDA a, b :
        /\ a = b /\ IsAddress(text[a], "ipv4")
        /\ Before(text, a) \in Punctuation \ {Dash, Dot} /\ EndsName(text, b))

\* _IPV6_BRACKETED_RE, _IPV6_WITH_SUFFIX_RE: the word is an address, with a
\* port or a route domain.
Suffixed(text, from, separators) ==
    \/ Len(text) = from - 1
    \/ Len(text) = from + 1 /\ text[from] \in separators
LeadingAddress6(text) ==
    CASE text # <<>> /\ IsAddress(text[1], "ipv6") /\ Suffixed(text, 2, {Dot, Percent}) ->
            <<SubSeq(text, 1, 1)>>
      [] Len(text) >= 3 /\ text[1] = Lit("[") /\ IsAddress(text[2], "ipv6")
             /\ text[3] = Lit("]") /\ Suffixed(text, 4, {Colon}) ->
            <<SubSeq(text, 2, 2)>>
      [] OTHER -> <<>>

---------------------------------------------------------------------------
(***************************************************************************)
(* Names of a directory and of file shares, session variables, requests.   *)
(***************************************************************************)
RdnKeys == {Lit("CN"), Lit("OU"), Lit("DC")}
DnStops == {Comma, Equals, Quote, Slashes}

\* _DN_RE with _qualifies_as_ad_dn: two parts key=value or more, with commas
\* between them, one of them DC=.  A value ends at a comma only.
IsDn(span) ==
    LET starts == {1} \cup {k + 1 : k \in {k \in DOMAIN span : span[k] = Comma}}
    IN  /\ Cardinality(starts) >= 2
        /\ \A k \in starts : /\ k + 2 \in DOMAIN span /\ span[k] \in RdnKeys
                             /\ span[k + 1] = Equals /\ span[k + 2] \notin DnStops
        /\ \A k \in DOMAIN span : span[k] \in DnStops \ {Comma} => k - 1 \in starts
HasDc(dn) == \E k \in DOMAIN dn : dn[k] = Lit("DC")
DistinguishedNames(text) ==
    LET names == FindAll(text, LAMBDA a, b :
                     Before(text, a) \in Punctuation /\ IsDn(SubSeq(text, a, b)))
    IN  Picked(names, {n \in DOMAIN names : HasDc(names[n])})

\* _NETBIOS_RE: the word before a backslash, unless it is a word of Tcl.
NetbiosSkip == {Lit("set"), Lit("log")}
NetbiosNames(text) ==
    FindAll(text, LAMBDA a, b :
        /\ a = b /\ text[a] \in Letters \ NetbiosSkip
        /\ Before(text, a) \in Punctuation \ {Dash} /\ After(text, b) = Slashes)

\* _UNC_RE: \\server\share
UncPaths(text) ==
    FindAll(text, LAMBDA a, b :
        \E server \in a + 2 .. b - 2 :
            /\ text[server] \in Letters /\ text[b] \in Labels
            /\ \A k \in a .. b - 1 : k # server => text[k] = Slashes
            /\ b - server \in {2, 3})

\* _SESSION_VAR_RE with _select_target: the segment after session that the
\* customer chose.  What F5 chose is kept, except the name after custom.
BuiltinNamespaces == {Lit("logon"), Lit("policy"), Lit("custom")}
SegmentStart == Letters \cup Indexes
SessionVars(text) ==
    FindAll(text, LAMBDA a, b :
        /\ text[a] = Lit("session") /\ Before(text, a) \in Punctuation \ {Dot}
        /\ b - a \in {2, 4}
        /\ \A k \in {a + 2, b} : text[k - 1] = Dot /\ text[k] \in SegmentStart)
Segment(var) ==
    CASE Len(var) = 5 /\ var[3] = Lit("custom") -> <<var[5]>>
      [] var[3] \notin BuiltinNamespaces -> <<var[3]>>
      [] OTHER -> <<>>

\* _HTTP_REQUEST_LINE_RE: the path of a request, GET <path> HTTP/.
RequestPaths(text) ==
    LET requests == FindAll(text, LAMBDA a, b :
                        /\ b - a >= 4 /\ text[a] = Lit("GET") /\ text[a + 1] = Gap
                        /\ text[a + 2] = Slash /\ text[b] = Lit("HTTP/1.1")
                        /\ text[b - 1] = Gap /\ \A k \in a + 2 .. b - 2 : text[k] # Gap)
    IN  IF requests = <<>> THEN <<>>
        ELSE <<SubSeq(requests[1], 3, Len(requests[1]) - 2)>>

\* _is_url_shaped: a path, or http:// and a host and a path.
IsUrl(text) ==
    \/ StartsWithSlash(text)
    \/ /\ Len(text) >= 6 /\ SubSeq(text, 1, 4) = <<Lit("https"), Colon, Slash, Slash>>
       /\ text[5] # Slash /\ \E k \in 6 .. Len(text) : text[k] = Slash

\* _REALM_RE
IsRealm(text) ==
    /\ Len(text) >= 3 /\ text[1] \in Uppers
    /\ text[Len(text) - 1] = Dot /\ text[Len(text)] \in Uppers
    /\ \A k \in DOMAIN text : text[k] \in Uppers \cup {Dot, Dash}
===========================================================================
