----------------------------- MODULE TokenLoop -----------------------------
(***************************************************************************)
(* What the walkers of pass 1 share.  A walker (a discovery module of      *)
(* src/src/veil) goes through the tokens of one source file and enters     *)
(* what it finds in the one ledger all files and all walkers share.        *)
(*                                                                         *)
(* A text is a sequence of atoms, see TextWalk.  An atom is a string that  *)
(* no walker looks into, or something that can read like a placeholder:    *)
(*    <<"lit", string>>             any other piece of text                *)
(*    <<"ipv4", <<net, host>>>>     an address; the nets 1 .. NumDocs are  *)
(*                                  the documentation nets, and the net 0  *)
(*                                  stands for net masks                   *)
(*    <<"ipv6", <<net, host, spelling>>>>                                  *)
(*    <<"word", <<vocabulary word, cycle>>>>    foo, foo_01                *)
(*    <<"cycle", cycle>>            the suffix _01 after another word      *)
(*    <<"stamp", <<year, instant>>>>                                       *)
(*    <<kind, number>>              an opaque placeholder                  *)
(***************************************************************************)
EXTENDS Integers, FiniteSets, SequencesExt, Book, TextWalk

CONSTANTS
    Sources,        \* the lists of files the program may be given
    SourceNets, NumDocs, NumHosts,          \* see IPv4Pool
    SourceNets6, Hosts6, Spellings, NumDocs6,   \* see IPv6Pool
    Vocab, MaxCycle,                        \* see SessionVocab
    LastSecond,     \* the last value of a seconds field
    Labels,         \* atoms of letters and digits: [A-Za-z0-9][A-Za-z0-9-]*
    Short           \* the atoms of at most three characters

VARIABLES
    files,      \* the source files, each a sequence of tokens [kind, text]
    file,       \* the file being read
    pass,       \* the walker at work, or what the program does afterwards
    i,          \* the position of its loop
    j,          \* the number of the find in the token that is handled next
    depth,      \* its count of open braces
    in_rule,    \* whether it is in an iRule body (rule_entry_depth)
    blocks,     \* the nested loops of a block walker: see BlockWalkers
    order,      \* the placeholders, in the order of insertion
    book, frozen, referenced,               \* the ledger
    subnet_map, next_subnet_idx, used, collapsed_sources,   \* its allocators
    subnet_map6, next_subnet_idx6, used6,
    session_ns_unsafe, assigned_count,
    unknown_top_level, malformed_paths,     \* Diagnostics: places <<file, position>>
    ipv4_subnet_collapsed                   \* Diagnostics: the nets reported

loop        == <<file, pass, i, j, depth, in_rule, blocks>>
allocators  == <<subnet_map, next_subnet_idx, used, collapsed_sources,
                 subnet_map6, next_subnet_idx6, used6, session_ns_unsafe, assigned_count>>
ledger      == <<book, frozen, referenced, order, allocators>>
diagnostics == <<unknown_top_level, malformed_paths, ipv4_subnet_collapsed>>
discovery_vars == <<files, loop, ledger, diagnostics>>

\* A dictionary, given as a set of pairs.
Table(pairs) ==
    [word \in {pair[1] : pair \in pairs} |-> (CHOOSE pair \in pairs : pair[1] = word)[2]]

Lit(string) == <<"lit", string>>
Word(string) == <<Lit(string)>>
Words(strings) == {Word(string) : string \in strings}

Slash == Lit("/")
Colon == Lit(":")
Quote == Lit("\"")
Hash  == Lit("#")
Gap   == Lit(" ")       \* white space between tokens

\* The kinds in the order of class Kind, in which pass 2 looks texts up.
KindOrder ==
    <<"POOL", "VS", "NODE", "MON", "IRULE", "PARTITION", "UNK", "IPADDR", "DESC",
      "PROFILE", "GTM_POOL", "GTM_WIDEIP", "GTM_SERVER", "GTM_DC", "DG", "SNAT",
      "SNATPOOL", "VADDR", "VLAN", "ROUTE_DOMAIN", "SELF_IP", "TRUNK", "GTM_REGION",
      "APM_POLICY", "APM_PROFILE", "FIREWALL_POLICY", "FIREWALL_RULE_LIST",
      "FIREWALL_ADDRESS_LIST", "FIREWALL_PORT_LIST", "IRULE_COMMENT", "FQDN",
      "AD_GROUP_DN", "REMOTE_ROLE", "SNMP_COMMUNITY", "SNMP_TRAP",
      "SNMP_COMMUNITY_SECRET", "SYS_CONTACT", "SYS_LOCATION", "SYSLOG_SERVER",
      "SSHD_BANNER", "CERT_KEY_CHAIN", "CLIENT_POLICY", "USERNAME", "KRB_REALM",
      "LDAP_FILTER", "SAML_ENTITY_ID", "SAML_SSO_URI", "SAML_SLO_URI",
      "SAML_SLO_RESPONSE_URI", "OAUTH_AUDIENCE", "OAUTH_ISSUER", "OAUTH_KEY_ID",
      "MONITOR_RECV", "DATA_GROUP_RECORD", "APM_VAR_LITERAL", "MONITOR_PATH",
      "SESSION_NS", "AD_ATTR", "AD_NETBIOS", "UNC_PATH", "TIMESTAMP", "IRULE_IDENT">>
RenderedKinds == {"IPADDR", "SESSION_NS", "TIMESTAMP", "IRULE_IDENT"}

---------------------------------------------------------------------------
TokenKinds == {"WORD", "QSTRING", "LBRACE", "RBRACE", "COMMENT"}

\* The program is given at least one file.  A file is a sequence of tokens,
\* none at all in an empty one, and the text of a token a sequence of atoms.
ASSUME SourceAssumption ==
    \A source \in Sources :
        /\ source \in Seq(Range(source)) \ {<<>>}
        /\ \A toks \in Range(source) :
              /\ toks \in Seq([kind : TokenKinds, text : {token.text : token \in Range(toks)}])
              /\ \A token \in Range(toks) : token.text \in Seq(Range(token.text))

---------------------------------------------------------------------------
(***************************************************************************)
(* Tokens and texts.                                                       *)
(***************************************************************************)
tokens == files[file]
AtEnd  == i > Len(tokens)

Is(k, kind) == k \in DOMAIN tokens /\ tokens[k].kind = kind
IsIn(k, texts) == Is(k, "WORD") /\ tokens[k].text \in texts

Content(quoted) == SubSeq(quoted, 2, Len(quoted) - 1)
StartsWithSlash(text) == text # <<>> /\ text[1] = Slash

\* The string of a token that is one plain word.
Name(k) ==
    IF Is(k, "WORD") /\ Len(tokens[k].text) = 1 /\ tokens[k].text[1][1] = "lit"
    THEN tokens[k].text[1][2] ELSE ""

\* The value after a field: a bare word, or what is between the quotes.
Value(k) == IF tokens[k].kind = "QSTRING" THEN Content(tokens[k].text) ELSE tokens[k].text
HasValue(k) == (Is(k, "QSTRING") \/ Is(k, "WORD")) /\ Value(k) # <<>>

\* _split_partition_path: /partition/leaf, neither of them empty.
SecondSlashes(text) == {k \in 3 .. Len(text) - 1 : text[k] = Slash}
IsPath(text) == StartsWithSlash(text) /\ SecondSlashes(text) # {} /\ text[2] # Slash
PartitionOf(path) == SubSeq(path, 2, Min(SecondSlashes(path)) - 1)
LeafOf(path) == SubSeq(path, Min(SecondSlashes(path)) + 1, Len(path))

\* The text of tokens with the white space between them.
Spaced(toks) ==
    FlattenSeq([k \in DOMAIN toks |-> (IF k > 1 THEN <<Gap>> ELSE <<>>) \o toks[k].text])

\* The braces that close the one at k: none, or one position.
Open(toks, from, to) ==
    Cardinality({k \in from .. to : toks[k].kind = "LBRACE"})
Closed(toks, from, to) ==
    Cardinality({k \in from .. to : toks[k].kind = "RBRACE"})
Closing(toks, k) ==
    {m \in k + 1 .. Len(toks) :
        /\ Open(toks, k, m) = Closed(toks, k, m)
        /\ \A earlier \in k .. m - 1 : Open(toks, k, earlier) > Closed(toks, k, earlier)}

\* ltm rule <path> {
RuleShape(toks, k) ==
    /\ k + 3 \in DOMAIN toks
    /\ toks[k] = [kind |-> "WORD", text |-> Word("ltm")]
    /\ toks[k + 1] = [kind |-> "WORD", text |-> Word("rule")]
    /\ toks[k + 2].kind = "WORD" /\ toks[k + 3].kind = "LBRACE"

---------------------------------------------------------------------------
(***************************************************************************)
(* The ledger.  The originals of addresses, session words and timestamps   *)
(* are what module Ledger has for them, all others are texts.              *)
(***************************************************************************)
LG == INSTANCE Ledger WITH
          PathKinds <- {}, TextKinds <- Range(KindOrder) \ (RenderedKinds \cup {"PARTITION"}),
          Partitions <- {}, Leaves <- {}, Names <- {}, SessionWords <- Labels \cup Indexes,
          Years <- {}, Instants <- {}, Identifiers <- {}, IdentTexts <- {}

IsAtom(text, tag) == Len(text) = 1 /\ text[1][1] = tag

KeyText(kind, text) ==
    CASE kind \in {"IPADDR", "SESSION_NS"} -> text[1]
      [] kind = "TIMESTAMP" -> text[1][2]
      [] OTHER -> text

\* (kind, text) in ledger.by_original
Known(kind, text) ==
    /\ kind \in {"IPADDR", "SESSION_NS", "TIMESTAMP"} => Len(text) = 1
    /\ kind = "TIMESTAMP" => IsAtom(text, "stamp")
    /\ <<kind, KeyText(kind, text)>> \in DOMAIN book.by_original
PlaceholderOf(kind, text) == book.by_original[<<kind, KeyText(kind, text)>>]

OriginalText(entry) ==
    CASE entry.kind \in {"IPADDR", "SESSION_NS"} -> <<entry.original>>
      [] entry.kind = "TIMESTAMP" -> <<<<"stamp", entry.original>>>>
      [] OTHER -> entry.original

\* What is written for a placeholder.  An iRule identifier has a text that
\* may be several atoms long.
TextOf(ph) == IF ph[1] = "text" THEN ph[2] ELSE <<ph>>
TextKey(text) == IF IsAtom(text, "word") THEN text[1] ELSE <<"text", text>>

\* The path is registered under another kind than UNK and its own.
RegisteredElsewhere(kind, path) ==
    \E other \in Range(KindOrder) \ {"UNK", kind} : Known(other, path)

---------------------------------------------------------------------------
(***************************************************************************)
(* Steps of a loop.                                                        *)
(***************************************************************************)
Advance(n) == i' = i + n /\ j' = 1 /\ UNCHANGED <<files, file, pass>>

\* The new entries come last; the partition of a path before the path.
Added == DOMAIN book'.entries \ DOMAIN book.entries
Ordered ==
    order' = order \o SetToSeq({ph \in Added : ph[1] = "PARTITION"})
                   \o SetToSeq({ph \in Added : ph[1] # "PARTITION"})

\* What a walker that finds something does to the ledger.
Record(b) == book' = b /\ Ordered /\ UNCHANGED <<frozen, referenced, allocators>>
RecordNothing == UNCHANGED ledger

RecordIf(condition, kind, text) ==
    IF condition THEN Record(Intern(book, kind, text, None)) ELSE RecordNothing

\* A path and its partition.
WithPath(b, kind, path) ==
    Intern(InternPartition(b, PartitionOf(path)), kind, path, PartitionOf(path))

\* _register
Register(kind, k, path) ==
    IF IsPath(path)
    THEN Record(WithPath(book, kind, path)) /\ UNCHANGED malformed_paths
    ELSE /\ malformed_paths' = malformed_paths \cup {<<file, k>>}
         /\ RecordNothing

NoDiagnostics == UNCHANGED diagnostics

\* A find is a record [kind, text], with what it is rewritten to in as when
\* the walker has rendered it.
Find(kind, text) == [kind |-> kind, text |-> text, as |-> <<>>]
FindIf(condition, kind, text) == IF condition THEN <<Find(kind, text)>> ELSE <<>>

Atom(find) == find.text[1]

\* The intern method for the kind is called; it gives a known text its old
\* placeholder.
InternFind(find) ==
    IF Known(find.kind, find.text) THEN RecordNothing
    ELSE /\ CASE find.kind = "IPADDR" /\ Atom(find)[1] = "ipv4" -> LG!InternIpv4(Atom(find)[2])
              [] find.kind = "IPADDR" /\ Atom(find)[1] = "ipv6" -> LG!InternIpv6(Atom(find)[2])
              [] find.kind = "TIMESTAMP"   -> LG!InternTimestamp(Atom(find)[2])
              [] find.kind = "SESSION_NS"  -> LG!InternSessionNamespaceWord(Atom(find))
              [] find.kind = "IRULE_IDENT" -> LG!InternIruleIdent(find.text, TextKey(find.as))
              [] OTHER -> LG!InternText(find.kind, find.text)
         /\ Ordered

\* A method that has entered nothing new has raised an error.  Two walkers do
\* not catch it, and the program ends.
Aborts(find) ==
    /\ pass \in {"ips", "timestamps"}
    /\ ~Known(find.kind, find.text) /\ book' = book

\* A token is left after the last of the finds in it.
Look(finds, width) ==
    IF j \notin DOMAIN finds THEN RecordNothing /\ Advance(width)
    ELSE /\ InternFind(finds[j])
         /\ CASE Aborts(finds[j]) -> pass' = "aborted" /\ UNCHANGED <<files, file, i, j>>
              [] ~Aborts(finds[j]) /\ j < Len(finds) ->
                    j' = j + 1 /\ UNCHANGED <<files, file, pass, i>>
              [] OTHER -> Advance(width)

\* One token of a loop that only looks at tokens.
Loop(walker, found) ==
    /\ pass = walker /\ ~AtEnd
    /\ Look(found.finds, found.width)
    /\ NoDiagnostics /\ UNCHANGED <<depth, in_rule, blocks>>

Found(finds)  == [finds |-> finds, width |-> 1]
Nothing       == Found(<<>>)
Passed(finds) == [finds |-> finds, width |-> 2]     \* a field and its value

\* Braces are counted the same way by every walker that counts them.
Count(k) ==
    depth' = CASE tokens[k].kind = "LBRACE" -> depth + 1
               [] tokens[k].kind = "RBRACE" -> depth - 1
               [] OTHER -> depth

\* A loop starts anew at the first token.
Rewind == i' = 1 /\ j' = 1 /\ depth' = 0 /\ in_rule' = FALSE /\ blocks' = <<>>
===========================================================================
