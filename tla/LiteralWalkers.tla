--------------------------- MODULE LiteralWalkers ---------------------------
(***************************************************************************)
(* The walkers of pass 1 that look for values of a certain shape inside    *)
(* every word or every quoted string, and the two that give session words  *)
(* a vocabulary word: the walker of session variables, and the walker of   *)
(* the iRule identifiers that contain a session word.                      *)
(***************************************************************************)
EXTENDS Patterns

Underscore == Lit("_")

\* A token that is a description somewhere is passed over.
IsDescription(k) == <<"DESC", tokens[k].text>> \in DOMAIN book.by_original
\* A mutation of Searched: quoted strings are passed over.
Searched_WordsOnly(k) ==
    IF Is(k, "WORD") /\ ~IsDescription(k) THEN tokens[k].text ELSE <<>>
Searched(k) ==
    IF (Is(k, "WORD") \/ Is(k, "QSTRING")) /\ ~IsDescription(k) THEN tokens[k].text ELSE <<>>

---------------------------------------------------------------------------
\* discover_ip_literals (pass 1.5).  The net 0 stands for net masks, which this
\* walker passes over.
VersionFields == {"version", "software-version"}
WildcardWords == Words({"any", "any6", "all"})

NoMasks(addresses) ==
    Picked(addresses, {n \in DOMAIN addresses :
                          addresses[n][1][1] = "ipv4" => addresses[n][1][2][1] # 0})

IpLiterals(k) ==
    IF Is(k, "WORD") /\ Name(k - 1) \notin VersionFields /\ tokens[k].text \notin WildcardWords
    THEN Found(FoundAs("IPADDR", NoMasks(LeadingAddress6(tokens[k].text)
                                             \o InfixAddresses(tokens[k].text))))
    ELSE Nothing

\* The first loop of discover_ad_dns: quoted strings.
AdDns(k) ==
    Found(IF Is(k, "QSTRING") /\ ~IsDescription(k)
          THEN FoundAs("AD_GROUP_DN", DistinguishedNames(Content(tokens[k].text))) ELSE <<>>)

\* discover_fqdns
Fqdns(k) == Found(FoundAs("FQDN", InternalNames(Searched(k))))

\* discover_irule_tcl_literals: five scans of every quoted string of an iRule.
LiteralFinds(k) ==
    IF Is(k, "QSTRING") /\ ~IsDescription(k)
    THEN LET content == Content(tokens[k].text)
         IN  FoundAs("AD_NETBIOS", NetbiosNames(content))
                 \o FoundAs("UNC_PATH", UncPaths(content))
                 \o FoundAs("FQDN", AnyNames(content))
                 \o FoundAs("USERNAME", Emails(content))
                 \o FoundAs("IPADDR", QuotedAddresses(content))
    ELSE <<>>

---------------------------------------------------------------------------
(***************************************************************************)
(* Session words.                                                          *)
(***************************************************************************)
\* preregister_session_ns_collisions: the vocabulary words that are written
\* in the file, without a suffix.
PlainWordsIn(text) ==
    {text[k][2][1] : k \in {k \in DOMAIN text :
        /\ text[k][1] = "word" /\ text[k][2][2] = 0
        /\ k > 1 => text[k - 1] \in Punctuation
        /\ k < Len(text) => text[k + 1] \in Punctuation}}

\* A mutation of Preregister: the words of the file are not remembered.
Preregister_Nothing ==
    /\ pass \in {"prescan", "preregister"} /\ ~AtEnd
    /\ RecordNothing
    /\ Advance(Len(tokens)) /\ NoDiagnostics /\ UNCHANGED <<depth, in_rule, blocks>>
\* scan_many does this for every file before it scans the first, and scan once
\* more for its own, before the walker of session variables.
Preregister ==
    /\ pass \in {"prescan", "preregister"} /\ ~AtEnd
    /\ LG!MarkSessionNsUnsafe(UNION {PlainWordsIn(token.text) : token \in Range(tokens)})
    /\ UNCHANGED order
    /\ Advance(Len(tokens)) /\ NoDiagnostics /\ UNCHANGED <<depth, in_rule, blocks>>

\* discover_apm_session_namespaces
SessionWordsIn(k) ==
    LET vars  == SessionVars(Searched(k))
        words == [n \in DOMAIN vars |-> Segment(vars[n])]
    IN  Found(FoundAs("SESSION_NS",
            Picked(words, {n \in DOMAIN words : words[n] # <<>> /\ words[n][1] \notin Singles})))

\* discover_irule_tcl_identifiers: the places in a word where a session word
\* stands alone, or between separators.
KnownSessionWord(atom) == <<"SESSION_NS", atom>> \in DOMAIN book.by_original
Separators == {Colon, Underscore}
Places(word) ==
    {k \in DOMAIN word :
        /\ KnownSessionWord(word[k])
        /\ k > 1 => word[k - 1] \in Separators
        /\ k < Len(word) => word[k + 1] \in Indexes \cup {Colon}}

\* foo and then _01 reads like the vocabulary word foo_01.
Cycled(word, k) == k + 1 \in DOMAIN word /\ word[k + 1][1] = "cycle"
Rewritten(word) ==
    FlattenSeq([k \in DOMAIN word |->
        LET new == book.by_original[<<"SESSION_NS", word[k]>>]
        IN  CASE k \notin Places(word) /\ k - 1 \in Places(word) /\ Cycled(word, k - 1)
                     /\ book.by_original[<<"SESSION_NS", word[k - 1]>>][2][2] = 0 -> <<>>
              [] k \in Places(word) /\ Cycled(word, k) /\ new[2][2] = 0 ->
                    <<<<"word", <<new[2][1], word[k + 1][2]>>>>>>
              [] k \in Places(word) /\ ~(Cycled(word, k) /\ new[2][2] = 0) -> <<new>>
              [] OTHER -> <<word[k]>>])

IdentifierFinds(k) ==
    LET word == tokens[k].text
    IN  IF /\ Is(k, "WORD") /\ ~StartsWithSlash(word)
           /\ ~(Len(word) = 1 /\ word[1] \in Short)
           /\ Places(word) # {} /\ Rewritten(word) # word
        THEN <<[Find("IRULE_IDENT", word) EXCEPT !.as = Rewritten(word)]>>
        ELSE <<>>

---------------------------------------------------------------------------
DiscoverIpLiterals   == Loop("ips", IpLiterals(i))
DiscoverAdDns        == Loop("ad_dns", AdDns(i))
DiscoverFqdns        == Loop("fqdns", Fqdns(i))
DiscoverSessionWords == Loop("sessions", SessionWordsIn(i))

LiteralNext ==
    \/ DiscoverIpLiterals \/ DiscoverAdDns \/ DiscoverFqdns
    \/ Preregister \/ DiscoverSessionWords
===========================================================================
