--------------------------- MODULE ProgramProofs ---------------------------
(***************************************************************************)
(* Proofs about module Substitute: what the whole program does to the      *)
(* ledger.  Every walker of every file enters what it finds in one table;  *)
(* the table stays a code book, and all that pass 2 looks up is in it.     *)
(* The report of collapsed nets leaves out only what stands in strings.    *)
(***************************************************************************)
EXTENDS SubstituteProofs

---------------------------------------------------------------------------
(* The kinds. *)

Kinds == Range(KindOrder)

LEMMA KindsAre ==
    Kinds =
       {"POOL", "VS", "NODE", "MON", "IRULE", "PARTITION", "UNK", "IPADDR", "DESC",
        "PROFILE", "GTM_POOL", "GTM_WIDEIP", "GTM_SERVER", "GTM_DC", "DG", "SNAT",
        "SNATPOOL", "VADDR", "VLAN", "ROUTE_DOMAIN", "SELF_IP", "TRUNK", "GTM_REGION",
        "APM_POLICY", "APM_PROFILE", "FIREWALL_POLICY", "FIREWALL_RULE_LIST",
        "FIREWALL_ADDRESS_LIST", "FIREWALL_PORT_LIST", "IRULE_COMMENT", "FQDN",
        "AD_GROUP_DN", "REMOTE_ROLE", "SNMP_COMMUNITY", "SNMP_TRAP",
        "SNMP_COMMUNITY_SECRET", "SYS_CONTACT", "SYS_LOCATION", "SYSLOG_SERVER",
        "SSHD_BANNER", "CERT_KEY_CHAIN", "CLIENT_POLICY", "USERNAME", "KRB_REALM",
        "LDAP_FILTER", "SAML_ENTITY_ID", "SAML_SSO_URI", "SAML_SLO_URI",
        "SAML_SLO_RESPONSE_URI", "OAUTH_AUDIENCE", "OAUTH_ISSUER", "OAUTH_KEY_ID",
        "MONITOR_RECV", "DATA_GROUP_RECORD", "APM_VAR_LITERAL", "MONITOR_PATH",
        "SESSION_NS", "AD_ATTR", "AD_NETBIOS", "UNC_PATH", "TIMESTAMP", "IRULE_IDENT"}
  BY DEF Kinds, Range, KindOrder

---------------------------------------------------------------------------
(***************************************************************************)
(* The table.                                                              *)
(***************************************************************************)
\* The two dictionaries are inverse to each other.
InverseBook(b) ==
    /\ \A key \in DOMAIN b.by_original :
          /\ b.by_original[key] \in DOMAIN b.entries
          /\ KeyOf(b.entries[b.by_original[key]]) = key
    /\ \A ph \in DOMAIN b.entries :
          /\ KeyOf(b.entries[ph]) \in DOMAIN b.by_original
          /\ b.by_original[KeyOf(b.entries[ph])] = ph

\* No number after the counter of a kind is in use.
CountersAhead(b) ==
    /\ b.counters \in [Kinds -> Nat]
    /\ \A kind \in Kinds, n \in Nat :
          b.counters[kind] < n => <<kind, n>> \notin DOMAIN b.entries

PartitionEntered(b, partition) ==
    partition \in {None, Common} \/ <<"PARTITION", partition>> \in DOMAIN b.by_original

PartitionsThere(b) ==
    \A ph \in DOMAIN b.entries : PartitionEntered(b, b.entries[ph].partition)

BookOK(b) == InverseBook(b) /\ CountersAhead(b) /\ PartitionsThere(b)

\* c has what b has, and finitely many entries more.
Follows(c, b) ==
    /\ \A ph \in DOMAIN b.entries :
          ph \in DOMAIN c.entries /\ KeyOf(c.entries[ph]) = KeyOf(b.entries[ph])
    /\ DOMAIN b.by_original \subseteq DOMAIN c.by_original
    /\ IsFiniteSet(DOMAIN c.entries \ DOMAIN b.entries)

LEMMA FollowsItself ==
    ASSUME NEW b
    PROVE  Follows(b, b)
  BY FS_EmptySet DEF Follows

LEMMA FollowsOn ==
    ASSUME NEW b, NEW c, NEW d, Follows(c, b), Follows(d, c)
    PROVE  Follows(d, b)
  <1>1. DOMAIN d.entries \ DOMAIN b.entries \subseteq
            (DOMAIN d.entries \ DOMAIN c.entries) \cup (DOMAIN c.entries \ DOMAIN b.entries)
    OBVIOUS
  <1>2. IsFiniteSet(DOMAIN d.entries \ DOMAIN b.entries)
    BY <1>1, FS_Union, FS_Subset DEF Follows
  <1>3. QED
    BY <1>2 DEF Follows

\* What one entry adds.
LEMMA EnterAdds ==
    ASSUME NEW b, NEW kind, NEW original, NEW partition, NEW text,
           NEW c, c = Enter(b, kind, original, partition, text)
    PROVE  /\ DOMAIN c.entries = DOMAIN b.entries \cup {text}
           /\ c.entries[text] = Entry(kind, original, partition)
           /\ \A t \in DOMAIN b.entries : t # text => c.entries[t] = b.entries[t]
           /\ DOMAIN c.by_original = DOMAIN b.by_original \cup {<<kind, original>>}
           /\ c.by_original[<<kind, original>>] = text
           /\ \A key \in DOMAIN b.by_original :
                 key # <<kind, original>> => c.by_original[key] = b.by_original[key]
           /\ c.counters = [b.counters EXCEPT ![kind] = @ + 1]
  BY DEF Enter, Bind

\* A text that no number will ever be.
Rendering(text) == \A kind \in Kinds, n \in Nat : text # <<kind, n>>

\* A new original under a new text keeps the table.
LEMMA EnterKeeps ==
    ASSUME NEW b, BookOK(b),
           NEW kind \in Kinds, NEW original, <<kind, original>> \notin DOMAIN b.by_original,
           NEW partition, PartitionEntered(b, partition),
           NEW text, text \notin DOMAIN b.entries,
           text = <<kind, b.counters[kind] + 1>> \/ Rendering(text),
           NEW c, c = Enter(b, kind, original, partition, text)
    PROVE  BookOK(c) /\ Follows(c, b)
  <1>1. /\ DOMAIN c.entries = DOMAIN b.entries \cup {text}
        /\ c.entries[text] = Entry(kind, original, partition)
        /\ \A t \in DOMAIN b.entries : t # text => c.entries[t] = b.entries[t]
        /\ DOMAIN c.by_original = DOMAIN b.by_original \cup {<<kind, original>>}
        /\ c.by_original[<<kind, original>>] = text
        /\ \A key \in DOMAIN b.by_original :
              key # <<kind, original>> => c.by_original[key] = b.by_original[key]
        /\ c.counters = [b.counters EXCEPT ![kind] = @ + 1]
    BY EnterAdds
  <1>2. KeyOf(c.entries[text]) = <<kind, original>> /\ c.entries[text].partition = partition
    BY <1>1 DEF KeyOf, Entry
  <1>3. Follows(c, b)
    <2>1. DOMAIN c.entries \ DOMAIN b.entries \subseteq {text} /\ IsFiniteSet({text})
      BY <1>1, FS_Singleton
    <2>2. IsFiniteSet(DOMAIN c.entries \ DOMAIN b.entries)
      BY <2>1, FS_Subset
    <2>3. QED
      BY <1>1, <2>2 DEF Follows
  <1>4. InverseBook(c)
    <2>1. \A key \in DOMAIN c.by_original :
             /\ c.by_original[key] \in DOMAIN c.entries
             /\ KeyOf(c.entries[c.by_original[key]]) = key
      BY <1>1, <1>2 DEF BookOK, InverseBook
    <2>2. \A t \in DOMAIN c.entries :
             /\ KeyOf(c.entries[t]) \in DOMAIN c.by_original
             /\ c.by_original[KeyOf(c.entries[t])] = t
      BY <1>1, <1>2 DEF BookOK, InverseBook
    <2>3. QED
      BY <2>1, <2>2 DEF InverseBook
  <1>5. CountersAhead(c)
    <2>1. b.counters \in [Kinds -> Nat]
      BY DEF BookOK, CountersAhead
    <2>2. c.counters \in [Kinds -> Nat]
      BY <1>1, <2>1
    <2>3. ASSUME NEW k \in Kinds, NEW n \in Nat, c.counters[k] < n
          PROVE  <<k, n>> \notin DOMAIN c.entries
      <3>1. /\ b.counters[k] \in Nat /\ b.counters[kind] \in Nat
            /\ c.counters[k] = IF k = kind THEN b.counters[k] + 1 ELSE b.counters[k]
        BY <1>1, <2>1
      <3>2. b.counters[k] < n /\ (k = kind => n # b.counters[kind] + 1)
        BY <2>3, <3>1
      <3>3. <<k, n>> \notin DOMAIN b.entries
        BY <3>2 DEF BookOK, CountersAhead
      <3>4. text # <<k, n>>
        BY <3>2 DEF Rendering
      <3>5. QED
        BY <1>1, <3>3, <3>4
    <2>4. QED
      BY <2>2, <2>3 DEF CountersAhead
  <1>6. PartitionsThere(c)
    BY <1>1, <1>2 DEF BookOK, PartitionsThere, PartitionEntered
  <1>7. QED
    BY <1>3, <1>4, <1>5, <1>6 DEF BookOK

\* intern keeps the table, and the original is in it afterwards.
LEMMA InternKeeps ==
    ASSUME NEW b, BookOK(b), NEW kind \in Kinds, NEW original,
           NEW partition, PartitionEntered(b, partition),
           NEW c, c = Intern(b, kind, original, partition)
    PROVE  BookOK(c) /\ Follows(c, b) /\ <<kind, original>> \in DOMAIN c.by_original
  <1>1. CASE <<kind, original>> \in DOMAIN b.by_original
    BY <1>1, FollowsItself DEF Intern
  <1>2. CASE <<kind, original>> \notin DOMAIN b.by_original
    <2> DEFINE text == <<kind, b.counters[kind] + 1>>
    <2>1. c = Enter(b, kind, original, partition, text)
      BY <1>2 DEF Intern, Number
    <2>2. text \notin DOMAIN b.entries
      BY DEF BookOK, CountersAhead
    <2>3. text = <<kind, b.counters[kind] + 1>>
      OBVIOUS
    <2> HIDE DEF text
    <2>4. <<kind, original>> \in DOMAIN c.by_original
      BY <2>1, EnterGrows
    <2>5. QED
      BY <1>2, <2>1, <2>2, <2>3, <2>4, EnterKeeps
  <1>3. QED
    BY <1>1, <1>2

\* So does the registration of a path with its partition.
LEMMA WithPathKeeps ==
    ASSUME NEW b, BookOK(b), NEW kind \in Kinds, NEW path
    PROVE  BookOK(WithPath(b, kind, path)) /\ Follows(WithPath(b, kind, path), b)
  <1> DEFINE partition == PartitionOf(path)
             c == InternPartition(b, partition)
             d == Intern(c, kind, path, partition)
  <1>1. WithPath(b, kind, path) = d
    BY DEF WithPath
  <1>2. BookOK(c) /\ Follows(c, b) /\ PartitionEntered(c, partition)
    <2>1. CASE partition = Common
      BY <2>1, FollowsItself DEF InternPartition, PartitionEntered
    <2>2. CASE partition # Common
      <3>1. c = Intern(b, "PARTITION", partition, None)
        BY <2>2 DEF InternPartition
      <3>2. "PARTITION" \in Kinds /\ PartitionEntered(b, None)
        BY KindsAre DEF PartitionEntered
      <3>3. QED
        <4> HIDE DEF c, partition
        <4> QED BY <3>1, <3>2, InternKeeps DEF PartitionEntered
    <2>3. QED
      BY <2>1, <2>2
  <1>3. BookOK(d) /\ Follows(d, c)
    <2> HIDE DEF c, partition
    <2> QED BY <1>2, InternKeeps
  <1>4. QED
    <2> HIDE DEF c, d, partition
    <2> QED BY <1>1, <1>2, <1>3, FollowsOn

---------------------------------------------------------------------------
(* The methods of the ledger. *)

Keeps == BookOK(book') /\ Follows(book', book)

\* The new placeholders, if any, come last in the order of insertion.
InOrder == Ordered \/ UNCHANGED <<book, order>>

LEMMA SameMethods ==
    ASSUME NEW b, NEW kind, NEW original, NEW text
    PROVE  /\ LG!Enter(b, kind, original, None, text) = Enter(b, kind, original, None, text)
           /\ LG!Intern(b, kind, original, None) = Intern(b, kind, original, None)
           /\ LG!EnterRendered(b, kind, original, text) = EnterRendered(b, kind, original, text)
  BY DEF LG!Enter, LG!Intern, LG!EnterRendered, LG!Bind, LG!Entry, LG!Number,
         Enter, Intern, EnterRendered, Bind, Entry, Number

\* What a method may do to the table: nothing, intern a text, or enter a text
\* of its own choice that is no entry yet.
LEMMA MethodKeeps ==
    ASSUME BookOK(book), NEW kind \in Kinds, NEW original, NEW text,
           <<kind, original>> \notin DOMAIN book.by_original,
           \/ UNCHANGED book
           \/ book' = LG!Intern(book, kind, original, None)
           \/ /\ Rendering(text)
              /\ \/ book' = LG!EnterRendered(book, kind, original, text)
                 \/ /\ text \notin DOMAIN book.entries
                    /\ book' = LG!Enter(book, kind, original, None, text)
    PROVE  Keeps
  <1>1. PartitionEntered(book, None)
    BY DEF PartitionEntered
  <1>2. CASE UNCHANGED book
    BY <1>2, FollowsItself DEF Keeps
  <1>3. CASE book' = Intern(book, kind, original, None)
    BY <1>1, <1>3, InternKeeps DEF Keeps
  <1>4. CASE /\ Rendering(text) /\ text \notin DOMAIN book.entries
             /\ book' = Enter(book, kind, original, None, text)
    BY <1>1, <1>4, EnterKeeps DEF Keeps
  <1>5. QED
    BY <1>2, <1>3, <1>4, SameMethods DEF EnterRendered

LEMMA TaggedRendering ==
    ASSUME NEW tag, tag \notin Kinds, NEW rest
    PROVE  Rendering(<<tag, rest>>)
  BY DEF Rendering

LEMMA Ipv4Keeps ==
    ASSUME BookOK(book), NEW addr, LG!InternIpv4(addr)
    PROVE  Keeps /\ UNCHANGED <<frozen, referenced>>
  <1>1. <<"IPADDR", <<"ipv4", addr>>>> \notin DOMAIN book.by_original
    BY DEF LG!InternIpv4, LG!Known
  <1>2. "IPADDR" \in Kinds /\ \A slot : Rendering(<<"ipv4", slot>>)
    BY KindsAre, TaggedRendering
  <1>3. \/ UNCHANGED book
        \/ \E slot : book' = LG!EnterRendered(book, "IPADDR", <<"ipv4", addr>>, <<"ipv4", slot>>)
    BY DEF LG!InternIpv4
  <1>4. QED
    BY <1>1, <1>2, <1>3, MethodKeeps DEF LG!InternIpv4

LEMMA Ipv6Keeps ==
    ASSUME BookOK(book), NEW lit, LG!InternIpv6(lit)
    PROVE  Keeps /\ UNCHANGED <<frozen, referenced>>
  <1>1. <<"IPADDR", <<"ipv6", lit>>>> \notin DOMAIN book.by_original
    BY DEF LG!InternIpv6, LG!Known
  <1>2. "IPADDR" \in Kinds /\ \A slot : Rendering(<<"ipv6", slot>>)
    BY KindsAre, TaggedRendering
  <1>3. \/ UNCHANGED book
        \/ \E slot : book' = LG!EnterRendered(book, "IPADDR", <<"ipv6", lit>>, <<"ipv6", slot>>)
    BY DEF LG!InternIpv6
  <1>4. QED
    BY <1>1, <1>2, <1>3, MethodKeeps DEF LG!InternIpv6

LEMMA TimestampKeeps ==
    ASSUME BookOK(book), NEW stamp, LG!InternTimestamp(stamp)
    PROVE  Keeps /\ UNCHANGED <<frozen, referenced>>
  <1>1. <<"TIMESTAMP", stamp>> \notin DOMAIN book.by_original
    BY DEF LG!InternTimestamp, LG!Known
  <1>2. "TIMESTAMP" \in Kinds /\ \A rest : Rendering(<<"stamp", rest>>)
    BY KindsAre, TaggedRendering
  <1>3. \/ UNCHANGED book
        \/ \E rest : /\ <<"stamp", rest>> \notin DOMAIN book.entries
                     /\ book' = LG!Enter(book, "TIMESTAMP", stamp, None, <<"stamp", rest>>)
    BY DEF LG!InternTimestamp, LG!FreeSecond, LG!StampText
  <1>4. QED
    BY <1>1, <1>2, <1>3, MethodKeeps DEF LG!InternTimestamp

LEMMA SessionWordKeeps ==
    ASSUME BookOK(book), NEW word, LG!InternSessionNamespaceWord(word)
    PROVE  Keeps /\ UNCHANGED <<frozen, referenced>>
  <1>1. <<"SESSION_NS", word>> \notin DOMAIN book.by_original
    BY DEF LG!InternSessionNamespaceWord, LG!Known
  <1>2. "SESSION_NS" \in Kinds /\ \A rest : Rendering(<<"word", rest>>)
    BY KindsAre, TaggedRendering
  <1>3. \E rest : book' = LG!EnterRendered(book, "SESSION_NS", word, <<"word", rest>>)
    BY DEF LG!InternSessionNamespaceWord
  <1>4. QED
    BY <1>1, <1>2, <1>3, MethodKeeps DEF LG!InternSessionNamespaceWord

LEMMA IdentifierKeeps ==
    ASSUME BookOK(book), NEW identifier, NEW as,
           LG!InternIruleIdent(identifier, TextKey(as))
    PROVE  Keeps /\ UNCHANGED <<frozen, referenced>>
  <1>1. <<"IRULE_IDENT", identifier>> \notin DOMAIN book.by_original
    BY DEF LG!InternIruleIdent, LG!Known
  <1>2. "IRULE_IDENT" \in Kinds
    BY KindsAre
  <1>3. Rendering(TextKey(as))
    <2>1. \A kind \in Kinds, n \in Nat : <<kind, n>>[1] # "word" /\ <<kind, n>>[1] # "text"
      BY KindsAre
    <2>2. QED
      BY <2>1 DEF Rendering, TextKey, IsAtom
  <1>4. book' = LG!EnterRendered(book, "IRULE_IDENT", identifier, TextKey(as))
    BY DEF LG!InternIruleIdent
  <1>5. QED
    BY <1>1, <1>2, <1>3, <1>4, MethodKeeps DEF LG!InternIruleIdent

LEMMA TextKeeps ==
    ASSUME BookOK(book), NEW kind \in Kinds, NEW name, LG!InternText(kind, name)
    PROVE  Keeps /\ UNCHANGED <<frozen, referenced>>
  <1>1. book' = Intern(book, kind, name, None)
    BY SameMethods DEF LG!InternText
  <1>2. QED
    BY <1>1, InternKeeps DEF LG!InternText, PartitionEntered, Keeps

\* A find that is interned.
LEMMA FindKeeps ==
    ASSUME BookOK(book), NEW find, find.kind \in Kinds, InternFind(find)
    PROVE  Keeps /\ InOrder /\ UNCHANGED <<frozen, referenced>>
  <1>1. InOrder
    BY DEF InternFind, InOrder, RecordNothing, ledger
  <1>2. CASE Known(find.kind, find.text)
    BY <1>1, <1>2, FollowsItself DEF InternFind, RecordNothing, ledger, Keeps, InOrder
  <1>3. CASE LG!InternIpv4(Atom(find)[2])
    BY <1>1, <1>3, Ipv4Keeps
  <1>4. CASE LG!InternIpv6(Atom(find)[2])
    BY <1>1, <1>4, Ipv6Keeps
  <1>5. CASE LG!InternTimestamp(Atom(find)[2])
    BY <1>1, <1>5, TimestampKeeps
  <1>6. CASE LG!InternSessionNamespaceWord(Atom(find))
    BY <1>1, <1>6, SessionWordKeeps
  <1>7. CASE LG!InternIruleIdent(find.text, TextKey(find.as))
    BY <1>1, <1>7, IdentifierKeeps
  <1>8. CASE LG!InternText(find.kind, find.text)
    BY <1>1, <1>8, TextKeeps
  <1>9. QED
    BY <1>2, <1>3, <1>4, <1>5, <1>6, <1>7, <1>8 DEF InternFind

\* The walkers that enter a text or a path themselves.
LEMMA RecordKeeps ==
    ASSUME BookOK(book), NEW kind \in Kinds, NEW text, NEW condition \in BOOLEAN,
           RecordIf(condition, kind, text) \/ RecordNothing
               \/ Record(WithPath(book, kind, text))
    PROVE  Keeps /\ InOrder /\ UNCHANGED <<frozen, referenced>>
  <1>1. CASE RecordNothing
    BY <1>1, FollowsItself DEF RecordNothing, ledger, Keeps, InOrder
  <1>2. CASE Record(Intern(book, kind, text, None))
    BY <1>2, InternKeeps DEF Record, PartitionEntered, Keeps, InOrder
  <1>3. CASE Record(WithPath(book, kind, text))
    BY <1>3, WithPathKeeps DEF Record, Keeps, InOrder
  <1>4. QED
    BY <1>1, <1>2, <1>3 DEF RecordIf

LEMMA RegisterKeeps ==
    ASSUME BookOK(book), NEW kind \in Kinds, NEW k, NEW path, Register(kind, k, path)
    PROVE  Keeps /\ InOrder /\ UNCHANGED <<frozen, referenced>>
  BY RecordKeeps DEF Register

---------------------------------------------------------------------------
(***************************************************************************)
(* What the walkers find.                                                  *)
(***************************************************************************)
\* A list of finds of kinds of the ledger.
Finds(f) == \E S : f \in Seq(S) /\ \A find \in S : find.kind \in Kinds

\* A text, or an empty one.
IsText(text) == text \in Seq(Range(text))

LEMMA FindsMember ==
    ASSUME NEW f, Finds(f), NEW n \in DOMAIN f
    PROVE  f[n].kind \in Kinds
  BY DEF Finds

LEMMA FindsJoined ==
    ASSUME NEW f, NEW g, Finds(f), Finds(g)
    PROVE  Finds(f \o g)
  <1>1. PICK S : f \in Seq(S) /\ \A find \in S : find.kind \in Kinds
    BY DEF Finds
  <1>2. PICK T : g \in Seq(T) /\ \A find \in T : find.kind \in Kinds
    BY DEF Finds
  <1>3. f \in Seq(S \cup T) /\ g \in Seq(S \cup T)
    BY <1>1, <1>2
  <1>4. f \o g \in Seq(S \cup T) /\ \A find \in S \cup T : find.kind \in Kinds
    BY <1>1, <1>2, <1>3
  <1>5. QED
    BY <1>4 DEF Finds

LEMMA FindIfFinds ==
    ASSUME NEW condition, NEW kind \in Kinds, NEW text
    PROVE  Finds(FindIf(condition, kind, text))
  <1>1. FindIf(condition, kind, text) \in Seq({Find(kind, text)})
    <2>1. \A find : <<find>> \in Seq({find}) /\ <<>> \in Seq({find})
      OBVIOUS
    <2>2. QED
      BY <2>1 DEF FindIf
  <1>2. Find(kind, text).kind = kind
    BY DEF Find
  <1>3. QED
    BY <1>1, <1>2 DEF Finds

LEMMA NoFinds == Finds(<<>>)
  <1>1. PICK S : S = {}
    OBVIOUS
  <1>2. <<>> \in Seq(S) /\ \A find \in S : find.kind \in Kinds
    BY <1>1
  <1>3. QED
    BY <1>2 DEF Finds

LEMMA FoundAsFinds ==
    ASSUME NEW kind \in Kinds, NEW texts, NEW n \in Nat, DOMAIN texts = 1 .. n
    PROVE  Finds(FoundAs(kind, texts))
  <1>1. FoundAs(kind, texts) = [m \in 1 .. n |-> Find(kind, texts[m])]
    BY DEF FoundAs
  <1>2. FoundAs(kind, texts) \in Seq({Find(kind, texts[m]) : m \in 1 .. n})
    <2>1. FoundAs(kind, texts) \in [1 .. n -> {Find(kind, texts[m]) : m \in 1 .. n}]
      BY <1>1
    <2>2. \A S, f : f \in [1 .. n -> S] => f \in Seq(S)
      OBVIOUS
    <2>3. QED
      BY <2>1, <2>2
  <1>3. \A find \in {Find(kind, texts[m]) : m \in 1 .. n} : find.kind = kind
    BY DEF Find
  <1>4. QED
    BY <1>1, <1>2, <1>3 DEF Finds

\* Positions in a text are finitely many.
LEMMA ListedShape ==
    ASSUME NEW T, IsFiniteSet(T)
    PROVE  \E n \in Nat : DOMAIN Listed(T) = 1 .. n
  BY FS_CardinalityType DEF Listed

LEMMA PickedShape ==
    ASSUME NEW s, NEW n \in Nat, DOMAIN s = 1 .. n, NEW T \in SUBSET (1 .. n)
    PROVE  \E m \in Nat : DOMAIN Picked(s, T) = 1 .. m
  <1>1. IsFiniteSet(1 .. n)
    BY FS_Interval
  <1>2. IsFiniteSet(T)
    BY <1>1, FS_Subset
  <1>3. QED
    BY <1>2, ListedShape DEF Picked

\* A scan from left to right takes a set of spans, whatever the matches: what
\* comes after the first m positions does not change what was taken in them.
LEMMA LeftmostExists ==
    ASSUME NEW ends, NEW n \in Nat, DOMAIN ends \subseteq 1 .. n
    PROVE  \E T \in SUBSET DOMAIN ends :
              \A a \in DOMAIN ends : a \in T <=> \A b \in T : b < a => ends[b] < a
  <1> DEFINE Upto(m) == {a \in DOMAIN ends : a < m}
             Scan(T, m) == /\ T \subseteq Upto(m)
                           /\ \A a \in Upto(m) : a \in T <=> \A b \in T : b < a => ends[b] < a
             Bad == {m \in Nat : ~\E T : Scan(T, m)}
  <1>1. \A m \in Nat : \E T : Scan(T, m)
    <2>1. \E T : Scan(T, 0)
      <3>1. Scan({}, 0)
        OBVIOUS
      <3> HIDE DEF Scan
      <3>2. QED
        BY <3>1
    <2>2. ASSUME NEW k \in Nat, \E T : Scan(T, k)
          PROVE  \E T : Scan(T, k + 1)
      <3>1. PICK T : Scan(T, k)
        BY <2>2
      <3>2. \A a \in Upto(k + 1) : a \in Upto(k) \/ a = k
        OBVIOUS
      <3>3. Upto(k) \subseteq Upto(k + 1) /\ \A a \in Upto(k) : a < k /\ a \in Nat
        OBVIOUS
      <3>4. CASE k \in DOMAIN ends /\ \A b \in T : ends[b] < k
        <4>1. Scan(T \cup {k}, k + 1)
          BY <3>1, <3>2, <3>3, <3>4
        <4> HIDE DEF Scan
        <4>2. QED
          BY <4>1
      <3>5. CASE ~(k \in DOMAIN ends /\ \A b \in T : ends[b] < k)
        <4>1. Scan(T, k + 1)
          BY <3>1, <3>2, <3>3, <3>5
        <4> HIDE DEF Scan
        <4>2. QED
          BY <4>1
      <3>6. QED
        BY <3>4, <3>5
    <2> HIDE DEF Scan
    <2>3. SUFFICES ASSUME Bad # {} PROVE FALSE
      OBVIOUS
    <2>4. PICK m \in Bad : \A k \in Bad : m <= k
      BY <2>3, LeastNumber, Bad \subseteq Nat
    <2>5. m \in Nat /\ m # 0
      BY <2>1, <2>4
    <2>6. PICK k \in Nat : k + 1 = m
      <3>1. m - 1 \in Nat /\ (m - 1) + 1 = m
        BY <2>5
      <3>2. QED
        BY <3>1
    <2>7. k \notin Bad
      BY <2>4, <2>6
    <2>8. \E T : Scan(T, m)
      BY <2>2, <2>6, <2>7
    <2>9. QED
      BY <2>4, <2>8
  <1>2. PICK T : Scan(T, n + 1)
    BY <1>1
  <1>3. Upto(n + 1) = DOMAIN ends
    OBVIOUS
  <1>4. QED
    BY <1>2, <1>3

\* So what a scan takes begins where some match begins.
LEMMA TakenStarts ==
    ASSUME NEW spans, NEW n \in Nat, \A span \in spans : span[1] \in 1 .. n
    PROVE  DOMAIN Taken(spans) \subseteq {span[1] : span \in spans}
  <1>1. DOMAIN Longest(spans) = {span[1] : span \in spans}
    BY DEF Longest
  <1>2. DOMAIN Longest(spans) \subseteq 1 .. n
    BY <1>1
  <1>3. Leftmost(Longest(spans)) \subseteq DOMAIN Longest(spans)
    <2> DEFINE ends == Longest(spans)
    <2> HIDE DEF ends
    <2>1. DOMAIN ends \subseteq 1 .. n => Leftmost(ends) \subseteq DOMAIN ends
      BY LeftmostExists DEF Leftmost
    <2>2. QED
      BY <1>2, <2>1 DEF ends
  <1>4. QED
    BY <1>1, <1>3 DEF Taken

LEMMA ListingShape ==
    ASSUME NEW text, IsText(text), NEW matches, matches \subseteq Spans(text)
    PROVE  \E n \in Nat : DOMAIN Listing(text, matches) = 1 .. n
  <1>1. PICK n \in Nat : DOMAIN text = 1 .. n
    BY DEF IsText
  <1>2. DOMAIN Taken(matches) \subseteq 1 .. n
    BY <1>1, TakenStarts DEF Spans
  <1>3. IsFiniteSet(1 .. n)
    BY FS_Interval
  <1>4. IsFiniteSet(DOMAIN Taken(matches))
    BY <1>2, <1>3, FS_Subset
  <1>5. QED
    BY <1>4, ListedShape DEF Listing

LEMMA ListingFinds ==
    ASSUME NEW text, IsText(text), NEW kind \in Kinds, NEW texts,
           \E matches \in SUBSET Spans(text) : texts = Listing(text, matches)
    PROVE  Finds(FoundAs(kind, texts))
  BY ListingShape, FoundAsFinds

LEMMA ScansAreListings ==
    ASSUME NEW text
    PROVE  /\ \E matches \in SUBSET Spans(text) : NetbiosNames(text) = Listing(text, matches)
           /\ \E matches \in SUBSET Spans(text) : UncPaths(text) = Listing(text, matches)
           /\ \E matches \in SUBSET Spans(text) : AnyNames(text) = Listing(text, matches)
           /\ \E matches \in SUBSET Spans(text) : Emails(text) = Listing(text, matches)
           /\ \E matches \in SUBSET Spans(text) : QuotedAddresses(text) = Listing(text, matches)
  <1>1. \E matches \in SUBSET Spans(text) : NetbiosNames(text) = Listing(text, matches)
    BY DEF NetbiosNames, FindAll
  <1>2. \E matches \in SUBSET Spans(text) : UncPaths(text) = Listing(text, matches)
    BY DEF UncPaths, FindAll
  <1>3. \E matches \in SUBSET Spans(text) : AnyNames(text) = Listing(text, matches)
    BY DEF AnyNames, FindAll
  <1>4. \E matches \in SUBSET Spans(text) : Emails(text) = Listing(text, matches)
    BY DEF Emails, FindAll
  <1>5. \E matches \in SUBSET Spans(text) : QuotedAddresses(text) = Listing(text, matches)
    BY DEF QuotedAddresses, FindAll
  <1>6. QED
    BY <1>1, <1>2, <1>3, <1>4, <1>5

LEMMA SequencesAreTexts ==
    ASSUME NEW S, NEW text \in Seq(S)
    PROVE  IsText(text)
  <1>1. \A n \in DOMAIN text : text[n] \in Range(text)
    BY DEF Range
  <1>2. QED
    BY <1>1 DEF IsText

LEMMA TokenShape ==
    ASSUME FilesOK, NEW k \in DOMAIN tokens
    PROVE  IsText(tokens[k].text) /\ tokens[k].kind \in TokenKinds
  <1>1. tokens \in Range(files) /\ tokens[k] \in Range(tokens)
    BY DEF FilesOK, tokens, Range
  <1>2. PICK S : tokens \in Seq([kind : TokenKinds, text : S])
    BY <1>1, SourceAssumption DEF FilesOK
  <1>3. tokens[k] \in [kind : TokenKinds, text : S]
    <2>1. \A R : \A s \in Seq(R) : \A n \in DOMAIN s : s[n] \in R
      OBVIOUS
    <2>2. QED
      BY <1>2, <2>1
  <1>4. IsText(tokens[k].text)
    BY <1>1, SourceAssumption DEF FilesOK, IsText
  <1>5. QED
    BY <1>3, <1>4

LEMMA ContentIsText ==
    ASSUME NEW text, IsText(text)
    PROVE  IsText(Content(text))
  <1>1. Content(text) \in Seq(Range(text))
    BY DEF IsText, Content
  <1>2. QED
    BY <1>1, SequencesAreTexts

\* A dictionary maps its words to what some pair says.
LEMMA TableRange ==
    ASSUME NEW pairs, NEW word \in DOMAIN Table(pairs)
    PROVE  \E pair \in pairs : pair[1] = word /\ Table(pairs)[word] = pair[2]
  BY DEF Table

\* What a loop looks at: the finds have kinds, and the next token is there when
\* two are passed.
OfKinds(f) == \A n \in DOMAIN f : f[n].kind \in Kinds
FoundOK(found) ==
    /\ OfKinds(found.finds)
    /\ found.width = 1 \/ (found.width = 2 /\ i + 1 \in DOMAIN tokens)

LEMMA FindsOfKinds ==
    ASSUME NEW f, Finds(f)
    PROVE  OfKinds(f)
  BY FindsMember DEF OfKinds

LEMMA FoundAsKinds ==
    ASSUME NEW kind \in Kinds, NEW texts
    PROVE  OfKinds(FoundAs(kind, texts))
  BY DEF OfKinds, FoundAs, Find

LEMMA FindIfKinds ==
    ASSUME NEW condition, NEW kind \in Kinds, NEW text
    PROVE  OfKinds(FindIf(condition, kind, text))
  BY FindIfFinds, FindsOfKinds

LEMMA NothingOK == FoundOK(Nothing)
  BY NoFinds, FindsOfKinds DEF Nothing, Found, FoundOK

LEMMA PassedOK ==
    ASSUME NEW f, OfKinds(f), i + 1 \in DOMAIN tokens
    PROVE  FoundOK(Passed(f))
  BY DEF Passed, FoundOK

LEMMA FoundIsOK ==
    ASSUME NEW f, OfKinds(f)
    PROVE  FoundOK(Found(f))
  BY DEF Found, FoundOK

---------------------------------------------------------------------------
(* The walkers of fields. *)

LEMMA SamlKindsAre ==
    ASSUME NEW word \in DOMAIN SamlKinds
    PROVE  SamlKinds[word] \in Kinds
  BY TableRange, KindsAre DEF SamlKinds

LEMMA FieldsFind ==
    /\ FoundOK(Usernames(i)) /\ FoundOK(MonitorRecv(i)) /\ FoundOK(Timestamps(i))
    /\ FoundOK(ApmVarLiterals(i)) /\ FoundOK(BaseDns(i)) /\ FoundOK(KrbRealms(i))
    /\ FoundOK(SamlValues(i))
  <1>1. FoundOK(Usernames(i))
    BY PassedOK, FindIfKinds, NothingOK, KindsAre DEF Usernames, Field
  <1>2. FoundOK(MonitorRecv(i))
    BY PassedOK, FindIfKinds, NothingOK, KindsAre DEF MonitorRecv, Field
  <1>3. FoundOK(Timestamps(i))
    BY PassedOK, FindIfKinds, NothingOK, KindsAre DEF Timestamps, Field
  <1>4. FoundOK(ApmVarLiterals(i))
    BY PassedOK, FindIfKinds, NothingOK, KindsAre DEF ApmVarLiterals, Field
  <1>5. FoundOK(BaseDns(i))
    BY PassedOK, FindIfKinds, NothingOK, KindsAre DEF BaseDns, Field
  <1>6. FoundOK(KrbRealms(i))
    BY PassedOK, FindIfKinds, NothingOK, KindsAre DEF KrbRealms, Field
  <1>7. FoundOK(SamlValues(i))
    BY PassedOK, FindIfKinds, NothingOK, SamlKindsAre DEF SamlValues, Field
  <1>8. QED
    BY <1>1, <1>2, <1>3, <1>4, <1>5, <1>6, <1>7

LEMMA QuotedContentIsText ==
    ASSUME FilesOK, NEW k
    PROVE  IsText(QuotedContent(k))
  <1>1. CASE Is(k, "QSTRING")
    BY <1>1, TokenShape, ContentIsText DEF Is, QuotedContent
  <1>2. CASE ~Is(k, "QSTRING")
    <2>1. <<>> \in Seq({})
      OBVIOUS
    <2>2. QED
      BY <1>2, <2>1, SequencesAreTexts DEF QuotedContent
  <1>3. QED
    BY <1>1, <1>2

LEMMA RequestPathFinds == Finds(RequestPath(i + 1))
  <1> DEFINE paths == RequestPaths(QuotedContent(i + 1))
             chosen == {n \in DOMAIN paths : paths[n] \notin PathAllowlist}
  <1>1. PICK n \in Nat : DOMAIN paths = 1 .. n
    <2>1. paths = <<>> \/ \E path : paths = <<path>>
      BY DEF RequestPaths
    <2>2. DOMAIN <<>> = 1 .. 0 /\ \A path : DOMAIN <<path>> = 1 .. 1
      OBVIOUS
    <2> HIDE DEF paths
    <2>3. QED
      BY <2>1, <2>2
  <1>2. RequestPath(i + 1) = FoundAs("MONITOR_PATH", Picked(paths, chosen))
    BY DEF RequestPath
  <1>3. chosen \in SUBSET (1 .. n)
    BY <1>1
  <1> HIDE DEF paths, chosen
  <1>4. PICK m \in Nat : DOMAIN Picked(paths, chosen) = 1 .. m
    BY <1>1, <1>3, PickedShape
  <1>5. QED
    BY <1>2, <1>4, FoundAsFinds, KindsAre

LEMMA MonitorPathsFind ==
    ASSUME FilesOK
    PROVE  FoundOK(MonitorPaths(i))
  <1>1. Finds(AddressesIn(i + 1))
    BY QuotedContentIsText, ScansAreListings, ListingFinds, KindsAre DEF AddressesIn
  <1>2. Finds(RequestPath(i + 1))
    BY RequestPathFinds
  <1>3. Finds(RequestPath(i + 1) \o AddressesIn(i + 1))
    BY <1>1, <1>2, FindsJoined
  <1>4. /\ OfKinds(RequestPath(i + 1) \o AddressesIn(i + 1))
        /\ OfKinds(AddressesIn(i + 1))
    BY <1>1, <1>3, FindsOfKinds
  <1>5. OfKinds(ExpectedPath(i + 1)) /\ OfKinds(UrlValue(i + 1))
    BY FindIfKinds, KindsAre DEF ExpectedPath, UrlValue
  <1>6. QED
    BY <1>4, <1>5, PassedOK, NothingOK DEF MonitorPaths, Field

---------------------------------------------------------------------------
(* The walkers of literals. *)

LEMMA LiteralsFind ==
    /\ FoundOK(IpLiterals(i)) /\ FoundOK(AdDns(i)) /\ FoundOK(Fqdns(i))
    /\ FoundOK(SessionWordsIn(i))
  <1>1. FoundOK(IpLiterals(i))
    BY FoundIsOK, FoundAsKinds, NothingOK, KindsAre DEF IpLiterals
  <1>2. FoundOK(AdDns(i))
    <2>1. OfKinds(<<>>)
      BY NoFinds, FindsOfKinds
    <2>2. QED
      BY <2>1, FoundIsOK, FoundAsKinds, KindsAre DEF AdDns
  <1>3. FoundOK(Fqdns(i))
    BY FoundIsOK, FoundAsKinds, KindsAre DEF Fqdns
  <1>4. FoundOK(SessionWordsIn(i))
    BY FoundIsOK, FoundAsKinds, KindsAre DEF SessionWordsIn
  <1>5. QED
    BY <1>1, <1>2, <1>3, <1>4

LEMMA IruleLiteralsFind ==
    ASSUME FilesOK
    PROVE  OfKinds(LiteralFinds(i))
  <1>1. CASE Is(i, "QSTRING") /\ ~IsDescription(i)
    <2> DEFINE content == Content(tokens[i].text)
    <2>1. IsText(content)
      BY <1>1, TokenShape, ContentIsText DEF Is
    <2>2. LiteralFinds(i) = FoundAs("AD_NETBIOS", NetbiosNames(content))
                                \o FoundAs("UNC_PATH", UncPaths(content))
                                \o FoundAs("FQDN", AnyNames(content))
                                \o FoundAs("USERNAME", Emails(content))
                                \o FoundAs("IPADDR", QuotedAddresses(content))
      BY <1>1 DEF LiteralFinds
    <2> HIDE DEF content
    <2>3. /\ Finds(FoundAs("AD_NETBIOS", NetbiosNames(content)))
          /\ Finds(FoundAs("UNC_PATH", UncPaths(content)))
          /\ Finds(FoundAs("FQDN", AnyNames(content)))
          /\ Finds(FoundAs("USERNAME", Emails(content)))
          /\ Finds(FoundAs("IPADDR", QuotedAddresses(content)))
      BY <2>1, ScansAreListings, ListingFinds, KindsAre
    <2>4. Finds(LiteralFinds(i))
      BY <2>2, <2>3, FindsJoined
    <2>5. QED
      BY <2>4, FindsOfKinds
  <1>2. CASE ~(Is(i, "QSTRING") /\ ~IsDescription(i))
    BY <1>2, NoFinds, FindsOfKinds DEF LiteralFinds
  <1>3. QED
    BY <1>1, <1>2

LEMMA IdentifiersFind == OfKinds(IdentifierFinds(i))
  <1>1. CASE IdentifierFinds(i) = <<>>
    BY <1>1, NoFinds, FindsOfKinds
  <1>2. CASE IdentifierFinds(i) # <<>>
    <2> DEFINE find == [Find("IRULE_IDENT", tokens[i].text) EXCEPT !.as = Rewritten(tokens[i].text)]
    <2>1. IdentifierFinds(i) = <<find>>
      BY <1>2 DEF IdentifierFinds
    <2>2. find.kind \in Kinds
      BY KindsAre DEF Find
    <2> HIDE DEF find
    <2>3. QED
      BY <2>1, <2>2 DEF OfKinds
  <1>3. QED
    BY <1>1, <1>2

LEMMA BlockItemsFind ==
    OfKinds(AttrFinds(i)) /\ OfKinds(AudienceItems(i)) /\ OfKinds(<<>>)
  BY FindIfKinds, NoFinds, FindsOfKinds, KindsAre DEF AttrFinds, AudienceItems

---------------------------------------------------------------------------
(***************************************************************************)
(* The tables of the walkers of blocks: what they name are kinds of the    *)
(* ledger and levels of the same walker.                                   *)
(***************************************************************************)
LevelOK(level, levels) ==
    /\ level.bucket \in Kinds \cup {""}
    /\ level.opens \in levels \cup {""}
    /\ \A word \in DOMAIN level.inner : level.inner[word] \in levels
    /\ \A word \in DOMAIN level.fields : level.fields[word] \in Kinds

WalkerOK(walker) ==
    /\ \A block \in walker.blocks : block.level \in DOMAIN walker.levels
    /\ \A name \in DOMAIN walker.levels : LevelOK(walker.levels[name], DOMAIN walker.levels)

LEMMA EmptyTable == DOMAIN Table({}) = {}
  BY DEF Table

LEMMA OneEntry ==
    ASSUME NEW word, NEW value
    PROVE  DOMAIN Table({<<word, value>>}) = {word} /\ Table({<<word, value>>})[word] = value
  BY DEF Table

\* The kinds of level the tables are made of.
LEMMA PlainOK ==
    ASSUME NEW levels
    PROVE  LevelOK(Plain, levels)
  BY EmptyTable DEF Plain, LevelOK

LEMMA InsideOK ==
    ASSUME NEW word, NEW levels, NEW level \in levels
    PROVE  LevelOK(Inside(word, level), levels)
  BY TableRange, EmptyTable DEF Inside, Plain, LevelOK

LEMMA PathsOK ==
    ASSUME NEW kind \in Kinds, NEW levels, NEW level \in levels \cup {""}
    PROVE  LevelOK(Paths(kind, level), levels)
  BY EmptyTable DEF Paths, Plain, LevelOK

LEMMA ClosedPathsOK ==
    ASSUME NEW kind \in Kinds, NEW levels
    PROVE  LevelOK(Paths(kind, ""), levels)
  BY PathsOK

LEMMA NamesOK ==
    ASSUME NEW kind \in Kinds, NEW levels
    PROVE  LevelOK(Names(kind), levels)
  BY EmptyTable DEF Names, Plain, LevelOK

LEMMA FieldsOK ==
    ASSUME NEW pairs, \A pair \in pairs : pair[2] \in Kinds, NEW levels
    PROVE  LevelOK(Fields(pairs), levels)
  BY TableRange, EmptyTable DEF Fields, Plain, LevelOK

LEMMA OneLevel ==
    ASSUME NEW walker, NEW name, NEW level, walker.levels = Table({<<name, level>>}),
           LevelOK(level, {name}), \A block \in walker.blocks : block.level = name
    PROVE  WalkerOK(walker)
  <1>1. DOMAIN walker.levels = {name} /\ walker.levels[name] = level
    BY OneEntry
  <1>2. QED
    BY <1>1 DEF WalkerOK

LEMMA WalkersOfOneLevel ==
    /\ WalkerOK(SshdBanners) /\ WalkerOK(CertKeychains) /\ WalkerOK(ClientPolicies)
    /\ WalkerOK(IruleBodies) /\ WalkerOK(Audiences)
  <1>1. WalkerOK(SshdBanners)
    <2> DEFINE pairs == {"banner-text", "pre-login-banner", "post-login-banner"}
                            \X {"SSHD_BANNER"}
    <2>1. SshdBanners.levels = Table({<<"sshd", Fields(pairs)>>})
      BY DEF SshdBanners
    <2>2. \A pair \in pairs : pair[2] \in Kinds
      BY KindsAre
    <2>3. \A block \in SshdBanners.blocks : block.level = "sshd"
      BY DEF SshdBanners, Block
    <2>4. LevelOK(Fields(pairs), {"sshd"})
      <3> HIDE DEF pairs
      <3> QED BY <2>2, FieldsOK
    <2>5. QED
      BY <2>1, <2>3, <2>4, OneLevel
  <1>2. WalkerOK(CertKeychains)
    <2>1. CertKeychains.levels = Table({<<"cert-key-chain", Names("CERT_KEY_CHAIN")>>})
      BY DEF CertKeychains
    <2>2. LevelOK(Names("CERT_KEY_CHAIN"), {"cert-key-chain"})
      BY NamesOK, KindsAre
    <2>3. \A block \in CertKeychains.blocks : block.level = "cert-key-chain"
      BY DEF CertKeychains, Block
    <2>4. QED
      BY <2>1, <2>2, <2>3, OneLevel
  <1>3. WalkerOK(ClientPolicies)
    <2>1. ClientPolicies.levels = Table({<<"client-policy", Names("CLIENT_POLICY")>>})
      BY DEF ClientPolicies
    <2>2. LevelOK(Names("CLIENT_POLICY"), {"client-policy"})
      BY NamesOK, KindsAre
    <2>3. \A block \in ClientPolicies.blocks : block.level = "client-policy"
      BY DEF ClientPolicies, Block
    <2>4. QED
      BY <2>1, <2>2, <2>3, OneLevel
  <1>4. WalkerOK(IruleBodies)
    <2>1. IruleBodies.levels = Table({<<"irule", Plain>>})
      BY DEF IruleBodies
    <2>2. LevelOK(Plain, {"irule"})
      BY PlainOK
    <2>3. \A block \in IruleBodies.blocks : block.level = "irule"
      BY DEF IruleBodies, Block
    <2>4. QED
      BY <2>1, <2>2, <2>3, OneLevel
  <1>5. WalkerOK(Audiences)
    <2>1. Audiences.levels = Table({<<"audience", Plain>>})
      BY DEF Audiences
    <2>2. LevelOK(Plain, {"audience"})
      BY PlainOK
    <2>3. \A block \in Audiences.blocks : block.level = "audience"
      BY DEF Audiences, Block
    <2>4. QED
      BY <2>1, <2>2, <2>3, OneLevel
  <1>6. QED
    BY <1>1, <1>2, <1>3, <1>4, <1>5

LEMMA ManyLevels ==
    ASSUME NEW walker, NEW pairs, walker.levels = Table(pairs),
           NEW levels, \A name : name \in levels <=> \E pair \in pairs : pair[1] = name,
           \A pair \in pairs : LevelOK(pair[2], levels),
           \A block \in walker.blocks : block.level \in levels
    PROVE  WalkerOK(walker)
  <1>1. DOMAIN walker.levels = levels
    BY DEF Table
  <1>2. ASSUME NEW name \in DOMAIN walker.levels
        PROVE  LevelOK(walker.levels[name], levels)
    BY TableRange
  <1>3. QED
    BY <1>1, <1>2 DEF WalkerOK

LEMMA WalkersOfManyLevels ==
    /\ WalkerOK(RemoteRoles) /\ WalkerOK(Snmp) /\ WalkerOK(Syslog)
    /\ WalkerOK(DataGroupRecords) /\ WalkerOK(LdapFilters) /\ WalkerOK(AdQueryAttrnames)
  <1>1. WalkerOK(RemoteRoles)
    <2> DEFINE levels == {"remote-role", "role-info"}
               bucket == Paths("REMOTE_ROLE", "")
               pairs == {<<"remote-role", Inside("role-info", "role-info")>>, <<"role-info", bucket>>}
    <2>1. RemoteRoles.levels = Table(pairs)
      BY DEF RemoteRoles
    <2>2. \A name : name \in levels <=> \E pair \in pairs : pair[1] = name
      OBVIOUS
    <2>3. LevelOK(Inside("role-info", "role-info"), levels)
      BY InsideOK
    <2>4. LevelOK(bucket, levels)
      BY ClosedPathsOK, KindsAre
    <2>5. \A pair \in pairs : LevelOK(pair[2], levels)
      <3> HIDE DEF levels, bucket
      <3> QED BY <2>3, <2>4
    <2>6. \A block \in RemoteRoles.blocks : block.level \in levels
      BY DEF RemoteRoles, Block
    <2> HIDE DEF levels, pairs
    <2>7. QED
      BY <2>1, <2>2, <2>5, <2>6, ManyLevels
  <1>2. WalkerOK(Syslog)
    <2> DEFINE levels == {"syslog", "remote-servers"}
               bucket == Paths("SYSLOG_SERVER", "")
               pairs == {<<"syslog", Inside("remote-servers", "remote-servers")>>, <<"remote-servers", bucket>>}
    <2>1. Syslog.levels = Table(pairs)
      BY DEF Syslog
    <2>2. \A name : name \in levels <=> \E pair \in pairs : pair[1] = name
      OBVIOUS
    <2>3. LevelOK(Inside("remote-servers", "remote-servers"), levels)
      BY InsideOK
    <2>4. LevelOK(bucket, levels)
      BY ClosedPathsOK, KindsAre
    <2>5. \A pair \in pairs : LevelOK(pair[2], levels)
      <3> HIDE DEF levels, bucket
      <3> QED BY <2>3, <2>4
    <2>6. \A block \in Syslog.blocks : block.level \in levels
      BY DEF Syslog, Block
    <2> HIDE DEF levels, pairs
    <2>7. QED
      BY <2>1, <2>2, <2>5, <2>6, ManyLevels
  <1>3. WalkerOK(DataGroupRecords)
    <2> DEFINE levels == {"data-group", "records"}
               pairs == {<<"data-group", Inside("records", "records")>>,
                         <<"records", Names("DATA_GROUP_RECORD")>>}
    <2>1. DataGroupRecords.levels = Table(pairs)
      BY DEF DataGroupRecords
    <2>2. \A name : name \in levels <=> \E pair \in pairs : pair[1] = name
      OBVIOUS
    <2>3. /\ LevelOK(Inside("records", "records"), levels)
          /\ LevelOK(Names("DATA_GROUP_RECORD"), levels)
      BY InsideOK, NamesOK, KindsAre
    <2>4. \A pair \in pairs : LevelOK(pair[2], levels)
      BY <2>3
    <2>5. \A block \in DataGroupRecords.blocks : block.level \in levels
      BY DEF DataGroupRecords, Block
    <2> HIDE DEF levels, pairs
    <2>6. QED
      BY <2>1, <2>2, <2>4, <2>5, ManyLevels
  <1>4. WalkerOK(LdapFilters)
    <2> DEFINE level == [Fields({<<"filter", "LDAP_FILTER">>}) EXCEPT !.deep = TRUE]
    <2>1. LdapFilters.levels = Table({<<"ldap", level>>})
      BY DEF LdapFilters
    <2>2. LevelOK(Fields({<<"filter", "LDAP_FILTER">>}), {"ldap"})
      BY FieldsOK, KindsAre
    <2>3. LevelOK(level, {"ldap"})
      BY <2>2 DEF LevelOK, Fields, Plain
    <2>4. \A block \in LdapFilters.blocks : block.level = "ldap"
      BY DEF LdapFilters, Block
    <2> HIDE DEF level
    <2>5. QED
      BY <2>1, <2>3, <2>4, OneLevel
  <1>5. WalkerOK(AdQueryAttrnames)
    <2> DEFINE levels == {"query", "attrnames"}
               level == [Inside("query-attrname", "attrnames") EXCEPT !.deep = TRUE]
               pairs == {<<"query", level>>, <<"attrnames", Plain>>}
    <2>1. AdQueryAttrnames.levels = Table(pairs)
      BY DEF AdQueryAttrnames
    <2>2. \A name : name \in levels <=> \E pair \in pairs : pair[1] = name
      OBVIOUS
    <2>3. LevelOK(Inside("query-attrname", "attrnames"), levels) /\ LevelOK(Plain, levels)
      BY InsideOK, PlainOK
    <2>4. LevelOK(level, levels)
      BY <2>3 DEF LevelOK, Inside, Plain
    <2>5. \A block \in AdQueryAttrnames.blocks : block.level \in levels
      BY DEF AdQueryAttrnames, Block
    <2> HIDE DEF levels, level
    <2>6. \A pair \in pairs : LevelOK(pair[2], levels)
      BY <2>3, <2>4
    <2> HIDE DEF pairs
    <2>7. QED
      BY <2>1, <2>2, <2>5, <2>6, ManyLevels
  <1>6. WalkerOK(Snmp)
    <2> DEFINE levels == {"snmp", "communities", "traps", "community", "trap"}
               fields == {<<"sys-contact", "SYS_CONTACT">>, <<"sys-location", "SYS_LOCATION">>}
               inner == {<<"communities", "communities">>, <<"traps", "traps">>}
               snmp == [Fields(fields) EXCEPT !.inner = Table(inner)]
               secret == Fields({<<"community-name", "SNMP_COMMUNITY_SECRET">>})
               trap == Fields({<<"community", "SNMP_COMMUNITY_SECRET">>})
               pairs == {<<"snmp", snmp>>,
                         <<"communities", Paths("SNMP_COMMUNITY", "community")>>,
                         <<"traps", Paths("SNMP_TRAP", "trap")>>,
                         <<"community", secret>>, <<"trap", trap>>}
    <2>1. Snmp.levels = Table(pairs)
      BY DEF Snmp
    <2>2. \A name : name \in levels <=> \E pair \in pairs : pair[1] = name
      <3> HIDE DEF snmp, secret, trap
      <3> QED OBVIOUS
    <2>3. \A block \in Snmp.blocks : block.level \in levels
      BY DEF Snmp, Block
    <2>4. /\ LevelOK(Paths("SNMP_COMMUNITY", "community"), levels)
          /\ LevelOK(Paths("SNMP_TRAP", "trap"), levels)
      BY PathsOK, KindsAre
    <2>5. LevelOK(secret, levels) /\ LevelOK(trap, levels)
      BY FieldsOK, KindsAre
    <2>6. LevelOK(snmp, levels)
      <3>1. LevelOK(Fields(fields), levels)
        BY FieldsOK, KindsAre
      <3>2. \A word \in DOMAIN Table(inner) : Table(inner)[word] \in levels
        BY TableRange
      <3>3. snmp = [Fields(fields) EXCEPT !.inner = Table(inner)]
        OBVIOUS
      <3> HIDE DEF levels, inner, snmp
      <3>4. QED
        BY <3>1, <3>2, <3>3 DEF LevelOK, Fields, Plain
    <2> HIDE DEF levels, snmp, secret, trap
    <2>7. \A pair \in pairs : LevelOK(pair[2], levels)
      BY <2>4, <2>5, <2>6
    <2> HIDE DEF pairs
    <2>8. QED
      BY <2>1, <2>2, <2>3, <2>7, ManyLevels
  <1>7. QED
    BY <1>1, <1>2, <1>3, <1>4, <1>5, <1>6

\* So every walker has a table, and it is in order.
LEMMA WalkersInOrder ==
    ASSUME NEW walker \in BlockPasses
    PROVE  WalkerOK(BlockWalkers[walker])
  <1>1. BlockWalkers[walker] \in
            {RemoteRoles, Snmp, Syslog, SshdBanners, CertKeychains, ClientPolicies,
             LdapFilters, AdQueryAttrnames, Audiences, DataGroupRecords, IruleBodies}
    BY DEF BlockWalkers, BlockPasses
  <1>2. QED
    BY <1>1, WalkersOfOneLevel, WalkersOfManyLevels

---------------------------------------------------------------------------
(***************************************************************************)
(* The invariant of the program.  The table is in order as long as the     *)
(* loops are: what a walker of blocks enters depends on its stack, and     *)
(* what pass 2 looks up on the kinds and the texts of the tokens.          *)
(***************************************************************************)
Scanning == Range(Passes) \cup {"prescan"}
Sealed   == {"substitute", "restore", "done"}

PassOK ==
    /\ pass \in Scanning \cup Sealed \cup {"aborted"}
    /\ frozen \in BOOLEAN /\ (frozen <=> pass \in Sealed)

\* The stack of a walker of blocks has levels of its table; no other has one.
Frames(walker) == [level : DOMAIN BlockWalkers[walker].levels, depth : Nat \ {0}]
BlocksOK ==
    /\ pass \in BlockPasses => blocks \in Seq(Frames(pass))
    /\ pass \notin BlockPasses => blocks = <<>>

\* The position is in what is read, or behind it; the loop that looks at a file
\* as a whole makes one step.
PositionOK ==
    /\ i \in Nat \ {0}
    /\ pass \in {"restore", "done"} => i <= Len(out[file]) + 1
    /\ pass \notin {"restore", "done"} => i <= Len(tokens) + 1
    /\ pass \in {"prescan", "preregister"} => i = 1 \/ i = Len(tokens) + 1
LoopOK == PositionOK /\ j \in Nat \ {0} /\ depth \in Int /\ in_rule \in BOOLEAN

\* The order of insertion lists the entries, each once.
OrderOK ==
    /\ IsText(order) /\ IsInjective(order)
    /\ Range(order) = DOMAIN book.entries

ReferencedOK == referenced \subseteq DOMAIN book.entries

OutputOK ==
    /\ DOMAIN out = DOMAIN files /\ DOMAIN restored = DOMAIN files
    /\ \A f \in DOMAIN files : IsText(out[f])
    /\ orphan_entries \subseteq (DOMAIN files) \X (DOMAIN book.entries)

IsPlace(place) == place[1] \in DOMAIN files /\ place[2] \in DOMAIN files[place[1]]
PlacesOK ==
    /\ \A place \in unknown_top_level : IsPlace(place)
    /\ \A place \in malformed_paths : IsPlace(place)
    /\ \A place \in unredacted_description : IsPlace(place)

PInv ==
    /\ FilesOK /\ PassOK /\ BlocksOK /\ LoopOK
    /\ BookOK(book) /\ OrderOK /\ ReferencedOK
    /\ OutputOK /\ PlacesOK

---------------------------------------------------------------------------
(* The order of insertion. *)

\* A list of a set, without repetition.
Lists(s, S) ==
    /\ s \in Seq(S) /\ Range(s) = S
    /\ \A a, b \in DOMAIN s : s[a] = s[b] => a = b

\* A finite set is listed without repetition.
LEMMA SetListed ==
    ASSUME NEW S, IsFiniteSet(S), NEW s, s = SetToSeq(S)
    PROVE  Lists(s, S)
  <1> DEFINE n == Cardinality(S)
  <1>1. n \in Nat /\ \E f \in [1 .. n -> S] : IsInjective(f)
    BY FS_CardinalityType DEF ExistsBijection, Bijection, Injection
  <1>2. s \in [1 .. n -> S] /\ IsInjective(s)
    BY <1>1 DEF SetToSeq
  <1>3. IsFiniteSet(1 .. n) /\ Cardinality(1 .. n) = n
    BY <1>1, FS_Interval
  <1>4. s \in Surjection(1 .. n, S)
    <2>1. s \in Injection(1 .. n, S)
      BY <1>2 DEF Injection
    <2>2. QED
      BY <1>3, <2>1, FS_Injection
  <1>5. Range(s) = S
    <2>1. \A x \in S : \E k \in 1 .. n : s[k] = x
      BY <1>4 DEF Surjection
    <2>2. QED
      BY <1>2, <2>1 DEF Range
  <1>6. s \in Seq(S)
    BY <1>1, <1>2
  <1>7. QED
    BY <1>2, <1>5, <1>6 DEF IsInjective, Lists

\* Two lists without a common element make one list.
LEMMA ListsJoined ==
    ASSUME NEW S, NEW T, S \cap T = {},
           NEW s, Lists(s, S), NEW t, Lists(t, T)
    PROVE  Lists(s \o t, S \cup T)
  <1> DEFINE u == s \o t
  <1>0. /\ s \in Seq(S) /\ Range(s) = S /\ \A a, b \in DOMAIN s : s[a] = s[b] => a = b
        /\ t \in Seq(T) /\ Range(t) = T /\ \A a, b \in DOMAIN t : t[a] = t[b] => a = b
    BY DEF Lists
  <1>1. s \in Seq(S \cup T) /\ t \in Seq(S \cup T)
    BY <1>0
  <1>2. u \in Seq(S \cup T)
    BY <1>1
  <1>3. /\ Len(s) \in Nat /\ Len(t) \in Nat
        /\ DOMAIN s = 1 .. Len(s) /\ DOMAIN t = 1 .. Len(t)
        /\ DOMAIN u = 1 .. Len(s) + Len(t)
    BY <1>1
  <1>4. /\ \A a \in 1 .. Len(s) : u[a] = s[a]
        /\ \A a \in Len(s) + 1 .. Len(s) + Len(t) : u[a] = t[a - Len(s)]
    BY <1>1
  <1>5. \A a \in DOMAIN u :
           \/ a \in DOMAIN s /\ u[a] = s[a] /\ u[a] \in S
           \/ /\ a \notin DOMAIN s /\ a - Len(s) \in DOMAIN t
              /\ u[a] = t[a - Len(s)] /\ u[a] \in T
    <2>1. ASSUME NEW a \in DOMAIN u, a \notin DOMAIN s
          PROVE  a - Len(s) \in DOMAIN t /\ u[a] = t[a - Len(s)]
      BY <1>3, <1>4, <2>1
    <2>2. (\A a \in DOMAIN s : s[a] \in S) /\ (\A a \in DOMAIN t : t[a] \in T)
      BY <1>0
    <2>3. QED
      BY <1>3, <1>4, <2>1, <2>2
  <1>6. Range(u) = S \cup T
    <2>1. ASSUME NEW x \in S PROVE \E a \in DOMAIN u : u[a] = x
      <3>1. PICK a \in DOMAIN s : s[a] = x
        BY <1>0 DEF Range
      <3>2. QED
        BY <1>3, <1>4, <3>1
    <2>2. ASSUME NEW x \in T PROVE \E a \in DOMAIN u : u[a] = x
      <3>1. PICK a \in DOMAIN t : t[a] = x
        BY <1>0 DEF Range
      <3>2. a + Len(s) \in DOMAIN u /\ a + Len(s) \in Len(s) + 1 .. Len(s) + Len(t)
        BY <1>3, <3>1
      <3>3. (a + Len(s)) - Len(s) = a
        BY <1>3, <3>1
      <3>4. QED
        BY <1>4, <3>1, <3>2, <3>3
    <2>3. \A a \in DOMAIN u : u[a] \in S \cup T
      BY <1>5
    <2> HIDE DEF u
    <2>4. \A x : x \in {u[a] : a \in DOMAIN u} <=> x \in S \cup T
      BY <2>1, <2>2, <2>3
    <2>5. QED
      BY <2>4 DEF Range
  <1>7. ASSUME NEW a \in DOMAIN u, NEW b \in DOMAIN u, u[a] = u[b]
        PROVE  a = b
    <2>1. a \in DOMAIN s <=> b \in DOMAIN s
      BY <1>5, <1>7
    <2>2. CASE a \in DOMAIN s
      BY <1>0, <1>3, <1>4, <1>7, <2>1, <2>2
    <2>3. CASE a \notin DOMAIN s
      <3>1. a - Len(s) = b - Len(s)
        BY <1>0, <1>5, <1>7, <2>1, <2>3
      <3>2. QED
        BY <1>3, <3>1
    <2>4. QED
      BY <2>2, <2>3
  <1>8. QED
    BY <1>2, <1>6, <1>7 DEF Lists

LEMMA OrderKept ==
    ASSUME OrderOK, Keeps, InOrder
    PROVE  OrderOK'
  <1>1. CASE UNCHANGED <<book, order>>
    BY <1>1 DEF OrderOK, IsText
  <1>2. CASE Ordered
    <2> DEFINE S == DOMAIN book.entries
               P == {ph \in Added : ph[1] = "PARTITION"}
               Q == {ph \in Added : ph[1] # "PARTITION"}
               p == SetToSeq(P)
               q == SetToSeq(Q)
    <2>1. Lists(order, S)
      BY DEF OrderOK, IsText, IsInjective, Lists
    <2>2. IsFiniteSet(P) /\ IsFiniteSet(Q)
      <3>1. P \subseteq Added /\ Q \subseteq Added /\ IsFiniteSet(Added)
        BY DEF Keeps, Follows, Added
      <3> HIDE DEF P, Q
      <3>2. QED
        BY <3>1, FS_Subset
    <2>3. /\ S \cap P = {} /\ (S \cup P) \cap Q = {}
          /\ (S \cup P) \cup Q = DOMAIN book'.entries
      BY DEF Keeps, Follows, Added
    <2>4. order' = (order \o p) \o q
      BY <1>2 DEF Ordered
    <2> HIDE DEF S, P, Q
    <2>5. Lists(p, P) /\ Lists(q, Q)
      BY <2>2, SetListed
    <2> HIDE DEF p, q
    <2>6. Lists(order \o p, S \cup P)
      BY <2>1, <2>3, <2>5, ListsJoined
    <2>7. Lists((order \o p) \o q, (S \cup P) \cup Q)
      BY <2>3, <2>5, <2>6, ListsJoined
    <2>8. /\ order' \in Seq(Range(order')) /\ Range(order') = DOMAIN book'.entries
          /\ \A a, b \in DOMAIN order' : order'[a] = order'[b] => a = b
      BY <2>3, <2>4, <2>7 DEF Lists
    <2>9. QED
      BY <2>8 DEF OrderOK, IsText, IsInjective
  <1>3. QED
    BY <1>1, <1>2 DEF InOrder

---------------------------------------------------------------------------
(***************************************************************************)
(* Pass 1, one walker at a time.                                           *)
(***************************************************************************)
\* What a walker may do.
Scans ==
    /\ pass \in Scanning
    /\ UNCHANGED <<files, file, frozen, referenced>>
    /\ pass' = pass \/ (pass' = "aborted" /\ pass \notin BlockPasses)
    /\ Keeps /\ InOrder
    /\ BlocksOK' /\ LoopOK' /\ PlacesOK'

LEMMA PassNames ==
    /\ Scanning \cap Sealed = {} /\ "aborted" \notin Scanning \cup Sealed \cup BlockPasses
    /\ BlockPasses \subseteq Scanning \ {"prescan", "preregister"}
  BY DEF Scanning, Sealed, BlockPasses, Passes, Range

LEMMA ScansStep ==
    ASSUME PInv, Scans, UNCHANGED results
    PROVE  PInv'
  <1>1. FilesOK'
    BY DEF PInv, FilesOK, Scans
  <1>2. PassOK'
    BY PassNames DEF PInv, PassOK, Scans
  <1>3. BlocksOK' /\ LoopOK' /\ PlacesOK' /\ BookOK(book)'
    BY DEF Scans, Keeps, BookOK, InverseBook, CountersAhead, PartitionsThere, PartitionEntered
  <1>4. OrderOK'
    BY OrderKept DEF PInv, Scans
  <1>5. DOMAIN book.entries \subseteq DOMAIN book'.entries
    BY DEF Scans, Keeps, Follows
  <1>6. ReferencedOK'
    BY <1>5 DEF PInv, ReferencedOK, Scans
  <1>7. OutputOK'
    <2>1. UNCHANGED <<files, out, restored, orphan_entries>>
      BY DEF Scans, results
    <2>2. QED
      BY <1>5, <2>1 DEF PInv, OutputOK, IsText
  <1>8. QED
    BY <1>1, <1>2, <1>3, <1>4, <1>6, <1>7 DEF PInv

\* Where a walker is in the file.
LEMMA AtToken ==
    ASSUME PInv, ~AtEnd, pass \notin {"restore", "done"}
    PROVE  /\ Len(tokens) \in Nat /\ DOMAIN tokens = 1 .. Len(tokens)
           /\ i \in Nat \ {0} /\ i <= Len(tokens) /\ i \in DOMAIN tokens
  BY FileShape DEF PInv, FilesOK, LoopOK, PositionOK, AtEnd, tokens

\* It goes on to a token, or to the end.
LEMMA AdvanceOK ==
    ASSUME PInv, ~AtEnd, pass \in Scanning \ {"prescan", "preregister"},
           NEW n \in Int, i + n \in 1 .. Len(tokens) + 1, Advance(n)
    PROVE  PositionOK' /\ (j \in Nat \ {0})' /\ UNCHANGED <<files, file, pass>>
  <1>1. UNCHANGED <<files, file, pass>> /\ i' = i + n /\ j' = 1
    BY DEF Advance
  <1>2. pass \notin {"restore", "done"}
    BY PassNames DEF Sealed
  <1>3. i' \in Nat \ {0} /\ i' <= Len(tokens) + 1
    BY <1>1, <1>2, AtToken
  <1>4. PositionOK'
    BY <1>1, <1>2, <1>3 DEF PositionOK, tokens
  <1>5. QED
    BY <1>1, <1>4

LEMMA BlocksStay ==
    ASSUME PInv, UNCHANGED <<pass, blocks>>
    PROVE  BlocksOK'
  BY DEF PInv, BlocksOK, Frames

LEMMA PlacesStay ==
    ASSUME PInv, NoDiagnostics, UNCHANGED <<files, unredacted_description>>
    PROVE  PlacesOK'
  BY DEF PInv, PlacesOK, IsPlace, NoDiagnostics, diagnostics

\* A walker looks at a token and handles a find.
LEMMA LookKeeps ==
    ASSUME PInv, ~AtEnd, pass \in Scanning \ {"prescan", "preregister"},
           NEW finds, NEW width, OfKinds(finds),
           width = 1 \/ (width = 2 /\ i + 1 \in DOMAIN tokens),
           Look(finds, width)
    PROVE  /\ Keeps /\ InOrder /\ UNCHANGED <<files, file, frozen, referenced>>
           /\ pass' = pass \/ (pass' = "aborted" /\ pass \notin BlockPasses)
           /\ PositionOK' /\ (j \in Nat \ {0})'
  <1>1. pass \notin {"restore", "done"}
    BY PassNames DEF Sealed
  <1>2. width \in Int /\ i + width \in 1 .. Len(tokens) + 1
    BY <1>1, AtToken
  <1>3. BookOK(book) /\ PositionOK /\ j \in Nat \ {0}
    BY DEF PInv, LoopOK
  <1>4. CASE j \notin DOMAIN finds
    <2>1. Keeps /\ InOrder /\ UNCHANGED <<frozen, referenced>>
      BY <1>3, <1>4, FollowsItself DEF Look, RecordNothing, ledger, Keeps, InOrder
    <2>2. PositionOK' /\ (j \in Nat \ {0})' /\ UNCHANGED <<files, file, pass>>
      BY <1>2, <1>4, AdvanceOK DEF Look
    <2>3. QED
      BY <2>1, <2>2
  <1>5. CASE j \in DOMAIN finds
    <2>1. InternFind(finds[j]) /\ finds[j].kind \in Kinds
      BY <1>5 DEF Look, OfKinds
    <2>2. Keeps /\ InOrder /\ UNCHANGED <<frozen, referenced>>
      BY <1>3, <2>1, FindKeeps
    <2>3. CASE Aborts(finds[j])
      <3>1. pass' = "aborted" /\ UNCHANGED <<files, file, i, j>> /\ pass \notin BlockPasses
        BY <1>5, <2>3 DEF Look, Aborts, BlockPasses
      <3>2. PositionOK'
        BY <1>1, <1>3, <3>1 DEF PositionOK, tokens
      <3>3. QED
        BY <1>3, <2>2, <3>1, <3>2
    <2>4. CASE ~Aborts(finds[j]) /\ j < Len(finds)
      <3>1. j' = j + 1 /\ UNCHANGED <<files, file, pass, i>>
        BY <1>5, <2>4 DEF Look
      <3>2. PositionOK'
        BY <1>1, <1>3, <3>1 DEF PositionOK, tokens
      <3>3. QED
        BY <1>3, <2>2, <3>1, <3>2
    <2>5. CASE ~Aborts(finds[j]) /\ ~(j < Len(finds))
      <3>1. Advance(width)
        BY <1>5, <2>5 DEF Look
      <3>2. PositionOK' /\ (j \in Nat \ {0})' /\ UNCHANGED <<files, file, pass>>
        BY <1>2, <3>1, AdvanceOK
      <3>3. QED
        BY <2>2, <3>2
    <2>6. QED
      BY <2>3, <2>4, <2>5
  <1>6. QED
    BY <1>4, <1>5

LEMMA LoopScans ==
    ASSUME PInv, NEW walker \in Scanning \ ({"prescan", "preregister"} \cup BlockPasses),
           NEW found, FoundOK(found), Loop(walker, found), UNCHANGED results
    PROVE  Scans
  <1>1. /\ pass = walker /\ ~AtEnd /\ Look(found.finds, found.width)
        /\ NoDiagnostics /\ UNCHANGED <<depth, in_rule, blocks>>
    BY DEF Loop
  <1>2. /\ OfKinds(found.finds)
        /\ found.width = 1 \/ (found.width = 2 /\ i + 1 \in DOMAIN tokens)
    BY DEF FoundOK
  <1>3. /\ Keeps /\ InOrder /\ UNCHANGED <<files, file, frozen, referenced>>
        /\ pass' = pass \/ (pass' = "aborted" /\ pass \notin BlockPasses)
        /\ PositionOK' /\ (j \in Nat \ {0})'
    BY <1>1, <1>2, LookKeeps
  <1>4. LoopOK'
    BY <1>1, <1>3 DEF PInv, LoopOK
  <1>5. BlocksOK'
    BY <1>1, <1>3, PassNames DEF PInv, BlocksOK
  <1>6. PlacesOK'
    BY <1>1, <1>3, PlacesStay DEF results
  <1>7. QED
    BY <1>1, <1>3, <1>4, <1>5, <1>6 DEF Scans

LEMMA LoopNames ==
    {"usernames", "monitor_recv", "monitor_paths", "timestamps", "apm_var_literals",
     "base_dns", "krb_realms", "ips", "ad_dns", "fqdns", "sessions"}
        \subseteq Scanning \ ({"prescan", "preregister"} \cup BlockPasses)
  BY DEF Scanning, BlockPasses, Passes, Range

LEMMA FieldsScan ==
    ASSUME PInv, FieldNext, UNCHANGED results
    PROVE  Scans
  <1>1. FilesOK
    BY DEF PInv
  <1>2. PICK walker, found :
            /\ walker \in {"usernames", "monitor_recv", "monitor_paths", "timestamps",
                           "apm_var_literals", "base_dns", "krb_realms"}
            /\ FoundOK(found) /\ Loop(walker, found)
    BY <1>1, FieldsFind, MonitorPathsFind
       DEF FieldNext, DiscoverUsernames, DiscoverMonitorRecv, DiscoverMonitorPaths,
           DiscoverTimestamps, DiscoverApmVarLiterals, DiscoverBaseDns, DiscoverKrbRealms
  <1>3. QED
    BY <1>2, LoopNames, LoopScans

LEMMA PreregisterScans ==
    ASSUME PInv, Preregister, UNCHANGED results
    PROVE  Scans
  <1>1. /\ pass \in {"prescan", "preregister"} /\ ~AtEnd /\ Advance(Len(tokens))
        /\ NoDiagnostics /\ UNCHANGED <<depth, in_rule, blocks, order>>
    BY DEF Preregister
  <1>2. UNCHANGED <<book, frozen, referenced>>
    BY DEF Preregister, LG!MarkSessionNsUnsafe, LG!v4
  <1>3. /\ UNCHANGED <<files, file, pass>> /\ i' = i + Len(tokens) /\ j' = 1
    BY <1>1 DEF Advance
  <1>4. pass \in Scanning
    BY <1>1 DEF Scanning, Range, Passes
  <1>5. i = 1 /\ Len(tokens) \in Nat
    BY <1>1, AtToken DEF PInv, LoopOK, PositionOK
  <1>6. i' = Len(tokens) + 1
    BY <1>3, <1>5
  <1>7. PositionOK'
    BY <1>1, <1>3, <1>5, <1>6 DEF PositionOK, tokens
  <1>8. LoopOK'
    BY <1>1, <1>3, <1>7 DEF PInv, LoopOK
  <1>9. Keeps /\ InOrder
    BY <1>1, <1>2, FollowsItself DEF PInv, Keeps, InOrder
  <1>10. BlocksOK' /\ PlacesOK'
    BY <1>1, <1>3, BlocksStay, PlacesStay DEF results
  <1>11. QED
    BY <1>2, <1>3, <1>4, <1>8, <1>9, <1>10 DEF Scans

LEMMA LiteralsScan ==
    ASSUME PInv, LiteralNext, UNCHANGED results
    PROVE  Scans
  <1>1. CASE Preregister
    BY <1>1, PreregisterScans
  <1>2. CASE ~Preregister
    <2>1. PICK walker, found :
              /\ walker \in {"ips", "ad_dns", "fqdns", "sessions"}
              /\ FoundOK(found) /\ Loop(walker, found)
      BY <1>2, LiteralsFind
         DEF LiteralNext, DiscoverIpLiterals, DiscoverAdDns, DiscoverFqdns, DiscoverSessionWords
    <2>2. QED
      BY <2>1, LoopNames, LoopScans
  <1>3. QED
    BY <1>1, <1>2

---------------------------------------------------------------------------
(* The walkers that have loops of their own. *)

LEMMA StepScans ==
    ASSUME PInv, ~AtEnd, pass \in Scanning \ {"prescan", "preregister"},
           NEW n \in Int, i + n \in 1 .. Len(tokens) + 1, Advance(n),
           Keeps, InOrder, UNCHANGED <<frozen, referenced>>,
           depth' \in Int, in_rule' \in BOOLEAN, BlocksOK', PlacesOK'
    PROVE  Scans
  <1>1. PositionOK' /\ (j \in Nat \ {0})' /\ UNCHANGED <<files, file, pass>>
    BY AdvanceOK
  <1>2. QED
    BY <1>1 DEF Scans, LoopOK

LEMMA NothingKept ==
    ASSUME PInv, RecordNothing
    PROVE  Keeps /\ InOrder /\ UNCHANGED <<frozen, referenced>>
  BY FollowsItself DEF PInv, RecordNothing, ledger, Keeps, InOrder

LEMMA LoopTypes ==
    ASSUME PInv
    PROVE  depth \in Int /\ in_rule \in BOOLEAN
  BY DEF PInv, LoopOK

LEMMA CountOK ==
    ASSUME PInv, Count(i)
    PROVE  depth' \in Int
  <1>1. depth' \in {depth + 1, depth - 1, depth}
    BY DEF Count
  <1>2. QED
    BY <1>1, LoopTypes

LEMMA DescriptionsScan ==
    ASSUME PInv, UNCHANGED results,
           DiscoverDescriptionValue \/ DiscoverDescriptionBraced \/ DiscoverNoDescription
    PROVE  Scans
  <1>1. /\ pass = "descriptions" /\ ~AtEnd /\ UNCHANGED <<depth, in_rule, blocks>>
        /\ NoDiagnostics
    BY DEF DiscoverDescriptionValue, DiscoverDescriptionBraced, DiscoverNoDescription,
           InDescriptions
  <1>2. pass \in Scanning \ {"prescan", "preregister"} /\ pass \notin {"restore", "done"}
    BY <1>1 DEF Scanning, Passes, Range
  <1>3. BookOK(book) /\ "DESC" \in Kinds
    BY KindsAre DEF PInv
  <1>4. Keeps /\ InOrder /\ UNCHANGED <<frozen, referenced>>
    <2>1. CASE DiscoverDescriptionValue
      BY <1>3, <2>1, RecordKeeps DEF DiscoverDescriptionValue
    <2>2. CASE DiscoverDescriptionBraced
      BY <1>3, <2>2, RecordKeeps DEF DiscoverDescriptionBraced
    <2>3. CASE DiscoverNoDescription
      BY <2>3, NothingKept DEF DiscoverNoDescription
    <2>4. QED
      BY <2>1, <2>2, <2>3
  <1>5. Advance(1) \/ (Advance(2) /\ i + 1 \in DOMAIN tokens)
    BY DEF DiscoverDescriptionValue, DiscoverDescriptionBraced, DiscoverNoDescription, Is
  <1>6. PICK n \in {1, 2} : Advance(n) /\ i + n \in 1 .. Len(tokens) + 1
    BY <1>1, <1>2, <1>5, AtToken
  <1>7. UNCHANGED <<files, pass, unredacted_description>>
    BY <1>6 DEF Advance, results
  <1>8. BlocksOK' /\ PlacesOK'
    BY <1>1, <1>7, BlocksStay, PlacesStay
  <1>9. QED
    BY <1>1, <1>2, <1>4, <1>6, <1>8, LoopTypes, StepScans

LEMMA CommentsScan ==
    ASSUME PInv, UNCHANGED results, EnterRule \/ CountBrace \/ DiscoverComment
    PROVE  Scans
  <1>1. pass = "comments" /\ ~AtEnd /\ NoDiagnostics /\ UNCHANGED blocks
    BY DEF EnterRule, CountBrace, DiscoverComment, InComments
  <1>2. pass \in Scanning \ {"prescan", "preregister"} /\ pass \notin {"restore", "done"}
    BY <1>1 DEF Scanning, Passes, Range
  <1>3. BookOK(book) /\ "IRULE_COMMENT" \in Kinds
    BY KindsAre DEF PInv
  <1>4. Keeps /\ InOrder /\ UNCHANGED <<frozen, referenced>>
    <2>1. CASE DiscoverComment
      <3>1. (in_rule /\ tokens[i].kind = "COMMENT") \in BOOLEAN
        OBVIOUS
      <3>2. QED
        BY <1>3, <2>1, <3>1, RecordKeeps DEF DiscoverComment
    <2>2. CASE EnterRule \/ CountBrace
      BY <2>2, NothingKept DEF EnterRule, CountBrace
    <2>3. QED
      BY <2>1, <2>2
  <1>5. depth' \in Int /\ in_rule' \in BOOLEAN
    <2>1. CASE EnterRule
      BY <2>1, LoopTypes DEF EnterRule
    <2>2. CASE CountBrace
      BY <2>2, LoopTypes, CountOK DEF CountBrace
    <2>3. CASE DiscoverComment
      BY <2>3, LoopTypes DEF DiscoverComment
    <2>4. QED
      BY <2>1, <2>2, <2>3
  <1>6. Advance(1) \/ (Advance(4) /\ i + 3 \in DOMAIN tokens)
    BY DEF EnterRule, CountBrace, DiscoverComment, EntersRule, RuleShape
  <1>7. PICK n \in {1, 4} : Advance(n) /\ i + n \in 1 .. Len(tokens) + 1
    BY <1>1, <1>2, <1>6, AtToken
  <1>8. UNCHANGED <<files, pass, unredacted_description>>
    BY <1>7 DEF Advance, results
  <1>9. BlocksOK' /\ PlacesOK'
    BY <1>1, <1>8, BlocksStay, PlacesStay
  <1>10. QED
    BY <1>1, <1>2, <1>4, <1>5, <1>7, <1>9, StepScans

\* The greatest of some positions is one of them.
LEMMA GreatestNumber ==
    ASSUME NEW n \in Nat, NEW T, T \subseteq 1 .. n, T # {}
    PROVE  Max(T) \in T /\ \A y \in T : y <= Max(T)
  <1> DEFINE D == {n - x : x \in T}
  <1>1. D \subseteq Nat /\ D # {}
    <2>1. PICK x : x \in T
      OBVIOUS
    <2>2. n - x \in D
      BY <2>1
    <2>3. \A y \in T : n - y \in Nat
      OBVIOUS
    <2>4. QED
      BY <2>2, <2>3
  <1>2. PICK d \in D : \A e \in D : d <= e
    <2> HIDE DEF D
    <2> QED BY <1>1, LeastNumber
  <1>3. PICK x \in T : d = n - x
    BY <1>2
  <1>4. \A y \in T : y <= x
    <2>1. ASSUME NEW y \in T PROVE y <= x
      <3>1. n - y \in D
        OBVIOUS
      <3>2. n - x <= n - y
        BY <1>2, <1>3, <3>1
      <3>3. x \in Nat /\ y \in Nat
        BY <1>3
      <3>4. QED
        BY <3>2, <3>3
    <2>2. QED
      BY <2>1
  <1>5. QED
    BY <1>4 DEF Max

\* The headers name kinds of the ledger.
LEMMA HeaderKinds ==
    ASSUME NEW header \in Headers
    PROVE  header.kind \in Kinds
  <1>1. CASE header \in LtmHeaders
    <2>1. PICK pair : /\ pair \in TwoWordKinds
                      /\ header.kind = pair[2] \/ header.kind \in {"MON", "DG", "PROFILE"}
      <3>1. TwoWordKinds # {}
        BY DEF TwoWordKinds
      <3>2. QED
        BY <1>1, <3>1 DEF LtmHeaders, Header
    <2>2. QED
      BY <2>1, KindsAre DEF TwoWordKinds
  <1>2. CASE header \in GtmHeaders \cup NetHeaders
    BY <1>2, KindsAre DEF GtmHeaders, NetHeaders, Header
  <1>3. CASE header \in ApmHeaders \cup SecurityHeaders
    BY <1>3, KindsAre DEF ApmHeaders, SecurityHeaders, Header
  <1>4. QED
    BY <1>1, <1>2, <1>3 DEF Headers

\* One more place in a file is reported, or none.
LEMMA PlaceAdded ==
    ASSUME PInv, NEW places, \A place \in places : IsPlace(place),
           NEW k \in DOMAIN tokens, NEW more, more \in {places, places \cup {<<file, k>>}}
    PROVE  \A place \in more : IsPlace(place)
  BY DEF PInv, FilesOK, IsPlace, tokens

LEMMA ObjectsScan ==
    ASSUME PInv, UNCHANGED results,
           SkipBody \/ RegisterObject \/ RecordUnknownTopLevel \/ SkipTopLevel
    PROVE  Scans
  <1>1. pass = "objects" /\ ~AtEnd /\ UNCHANGED <<in_rule, blocks>>
    BY DEF SkipBody, RegisterObject, RecordUnknownTopLevel, SkipTopLevel, InObjects
  <1>2. pass \in Scanning \ {"prescan", "preregister"} /\ pass \notin {"restore", "done"}
    BY <1>1 DEF Scanning, Passes, Range
  <1>3. BookOK(book) /\ "UNK" \in Kinds
    BY KindsAre DEF PInv
  <1>4. /\ Len(tokens) \in Nat /\ DOMAIN tokens = 1 .. Len(tokens)
        /\ i \in Nat \ {0} /\ i <= Len(tokens) /\ i \in DOMAIN tokens
    BY <1>1, <1>2, AtToken
  <1> DEFINE
        Step(n, unknown, malformed) ==
            /\ Keeps /\ InOrder /\ UNCHANGED <<frozen, referenced>> /\ depth' \in Int
            /\ n \in Int /\ i + n \in 1 .. Len(tokens) + 1 /\ Advance(n)
            /\ unknown \in DOMAIN tokens /\ malformed \in DOMAIN tokens
            /\ unknown_top_level' \in
                   {unknown_top_level, unknown_top_level \cup {<<file, unknown>>}}
            /\ malformed_paths' \in {malformed_paths, malformed_paths \cup {<<file, malformed>>}}
  <1>5. \E n, unknown, malformed : Step(n, unknown, malformed)
    <2>1. CASE SkipBody \/ SkipTopLevel
      <3>1. Keeps /\ InOrder /\ UNCHANGED <<frozen, referenced>>
        BY <2>1, NothingKept DEF SkipBody, SkipTopLevel
      <3>2. Advance(1) /\ i + 1 \in 1 .. Len(tokens) + 1
        BY <1>4, <2>1 DEF SkipBody, SkipTopLevel
      <3>3. depth' \in Int
        BY <2>1, CountOK, LoopTypes DEF SkipBody, SkipTopLevel
      <3>4. UNCHANGED <<unknown_top_level, malformed_paths>>
        BY <2>1 DEF SkipBody, SkipTopLevel, NoDiagnostics, diagnostics
      <3>5. Step(1, i, i)
        BY <1>4, <3>1, <3>2, <3>3, <3>4
      <3> HIDE DEF Step
      <3>6. QED
        BY <3>5
    <2>2. CASE RegisterObject
      <3>1. PICK header \in Recognised :
               /\ \/ RecordNothing /\ UNCHANGED malformed_paths
                  \/ Register(header.kind, PathPlace(header), tokens[PathPlace(header)].text)
               /\ Advance(PathPlace(header) + 2 - i)
        BY <2>2 DEF RegisterObject
      <3>2. PICK k : k = PathPlace(header)
        OBVIOUS
      <3>3. header \in Headers /\ k \in DOMAIN tokens /\ k + 1 \in DOMAIN tokens
        BY <3>1, <3>2 DEF Recognised, Is
      <3>4. PICK n \in Int : n = k + 2 - i
        BY <1>4, <3>3
      <3>5. Advance(n) /\ i + n \in 1 .. Len(tokens) + 1
        <4>1. i + n = k + 2
          BY <1>4, <3>3, <3>4
        <4>2. k + 2 \in 1 .. Len(tokens) + 1
          BY <1>4, <3>3
        <4>3. QED
          BY <3>1, <3>2, <3>4, <4>1, <4>2
      <3>6. Keeps /\ InOrder /\ UNCHANGED <<frozen, referenced>>
        BY <1>3, <3>1, <3>3, NothingKept, HeaderKinds, RegisterKeeps
      <3>7. malformed_paths' \in {malformed_paths, malformed_paths \cup {<<file, k>>}}
        BY <3>1, <3>2 DEF Register
      <3>8. depth' \in Int /\ UNCHANGED unknown_top_level
        BY <2>2 DEF RegisterObject
      <3>9. Step(n, i, k)
        BY <1>4, <3>3, <3>5, <3>6, <3>7, <3>8
      <3> HIDE DEF Step
      <3>10. QED
        BY <3>9
    <2>3. CASE RecordUnknownTopLevel
      <3> DEFINE brace == Min(Braces)
                 paths == HeaderPaths(brace)
      <3>1. brace \in i + 1 .. Len(tokens)
        <4>1. Braces \subseteq Nat /\ Braces # {} /\ Braces \subseteq i + 1 .. Len(tokens)
          BY <1>4, <2>3 DEF RecordUnknownTopLevel, Braces
        <4>2. Min(Braces) \in Braces
          BY <4>1, MinInSet
        <4>3. QED
          BY <4>1, <4>2
      <3>2. /\ \/ RecordNothing /\ UNCHANGED malformed_paths
               \/ paths # {} /\ Register("UNK", Max(paths), Value(Max(paths)))
            /\ Advance(brace + 1 - i) /\ depth' = 1
            /\ unknown_top_level' = unknown_top_level \cup {<<file, i>>}
        BY <2>3 DEF RecordUnknownTopLevel
      <3> HIDE DEF brace
      <3>3. paths # {} => Max(paths) \in DOMAIN tokens
        <4>1. paths \subseteq 1 .. Len(tokens)
          BY <1>4, <3>1 DEF HeaderPaths
        <4> HIDE DEF paths
        <4>2. QED
          BY <1>4, <4>1, GreatestNumber
      <3>4. PICK k \in DOMAIN tokens : paths # {} => k = Max(paths)
        BY <1>4, <3>3
      <3> HIDE DEF paths
      <3>5. Keeps /\ InOrder /\ UNCHANGED <<frozen, referenced>>
        BY <1>3, <3>2, NothingKept, RegisterKeeps
      <3>6. malformed_paths' \in {malformed_paths, malformed_paths \cup {<<file, k>>}}
        BY <3>2, <3>4 DEF Register
      <3>7. PICK n \in Int : n = brace + 1 - i
        BY <1>4, <3>1
      <3>8. Advance(n) /\ i + n \in 1 .. Len(tokens) + 1
        <4>1. i + n = brace + 1
          BY <1>4, <3>1, <3>7
        <4>2. QED
          BY <1>4, <3>1, <3>2, <3>7, <4>1
      <3>9. Step(n, i, k)
        BY <1>4, <3>2, <3>5, <3>6, <3>8
      <3> HIDE DEF Step
      <3>10. QED
        BY <3>9
    <2>4. QED
      BY <2>1, <2>2, <2>3
  <1>6. PICK n, unknown, malformed : Step(n, unknown, malformed)
    BY <1>5
  <1>7. UNCHANGED <<files, pass, unredacted_description>>
    BY <1>6 DEF Advance, results
  <1>8. BlocksOK'
    BY <1>1, <1>7, BlocksStay
  <1>9. PlacesOK'
    <2>1. /\ \A place \in unknown_top_level' : IsPlace(place)
          /\ \A place \in malformed_paths' : IsPlace(place)
      <3>1. /\ \A place \in unknown_top_level : IsPlace(place)
            /\ \A place \in malformed_paths : IsPlace(place)
        BY DEF PInv, PlacesOK
      <3>2. QED
        BY <1>6, <3>1, PlaceAdded
    <2>2. \A place : IsPlace(place) => IsPlace(place)'
      BY <1>7 DEF IsPlace
    <2>3. QED
      BY <1>7, <2>1, <2>2 DEF PInv, PlacesOK
  <1>10. in_rule' \in BOOLEAN
    BY <1>1, LoopTypes
  <1>11. QED
    BY <1>1, <1>2, <1>6, <1>8, <1>9, <1>10, StepScans

---------------------------------------------------------------------------
(* The walkers of blocks. *)

\* The running loop is one of the levels of the walker.
LEMMA TopOK ==
    ASSUME PInv, pass \in BlockPasses, blocks # <<>>
    PROVE  /\ Top.level \in DOMAIN BlockWalkers[pass].levels /\ Top.depth \in Nat \ {0}
           /\ Top \in Frames(pass) /\ Under \in Seq(Frames(pass))
           /\ LevelOK(Sought, DOMAIN BlockWalkers[pass].levels)
  <1>1. blocks \in Seq(Frames(pass))
    BY DEF PInv, BlocksOK
  <1>2. Top \in Frames(pass) /\ Under \in Seq(Frames(pass))
    BY <1>1 DEF Top, Under
  <1>3. Top.level \in DOMAIN BlockWalkers[pass].levels /\ Top.depth \in Nat \ {0}
    BY <1>2 DEF Frames
  <1>4. WalkerOK(BlockWalkers[pass])
    BY WalkersInOrder
  <1>5. LevelOK(Sought, DOMAIN BlockWalkers[pass].levels)
    BY <1>3, <1>4 DEF WalkerOK, Sought
  <1>6. QED
    BY <1>2, <1>3, <1>5

LEMMA RunningOK ==
    ASSUME NEW walker, NEW level \in DOMAIN BlockWalkers[walker].levels
    PROVE  Running(level) \in Frames(walker)
  BY DEF Running, Frames

LEMMA BlocksPushed ==
    ASSUME PInv, pass \in BlockPasses, pass' = pass,
           NEW level \in DOMAIN BlockWalkers[pass].levels,
           blocks' = Append(blocks, Running(level)) \/ blocks' = <<Running(level)>>
    PROVE  BlocksOK'
  <1>1. blocks \in Seq(Frames(pass)) /\ Running(level) \in Frames(pass)
    BY RunningOK DEF PInv, BlocksOK
  <1>2. blocks' \in Seq(Frames(pass))
    <2>1. \A S : \A s \in Seq(S) : \A x \in S : Append(s, x) \in Seq(S) /\ <<x>> \in Seq(S)
      OBVIOUS
    <2>2. QED
      BY <1>1, <2>1
  <1>3. QED
    BY <1>2 DEF BlocksOK, Frames

\* A step of such a walker.
LEMMA BlockStepScans ==
    ASSUME PInv, UNCHANGED results, InWalker,
           NEW n \in Int, i + n \in 1 .. Len(tokens) + 1, Advance(n),
           Keeps, InOrder, UNCHANGED <<frozen, referenced>>, BlocksOK'
    PROVE  Scans
  <1>1. pass \in BlockPasses /\ ~AtEnd /\ NoDiagnostics /\ UNCHANGED <<depth, in_rule>>
    BY DEF InWalker
  <1>2. pass \in Scanning \ {"prescan", "preregister"}
    BY <1>1, PassNames
  <1>3. UNCHANGED <<files, unredacted_description>>
    BY DEF Advance, results
  <1>4. PlacesOK'
    BY <1>1, <1>3, PlacesStay
  <1>5. depth' \in Int /\ in_rule' \in BOOLEAN
    BY <1>1, LoopTypes
  <1>6. QED
    BY <1>1, <1>2, <1>4, <1>5, StepScans

LEMMA InWalkerAt ==
    ASSUME PInv, InWalker
    PROVE  /\ pass \in BlockPasses
           /\ Len(tokens) \in Nat /\ DOMAIN tokens = 1 .. Len(tokens)
           /\ i \in Nat \ {0} /\ i <= Len(tokens) /\ i \in DOMAIN tokens
           /\ i + 1 \in 1 .. Len(tokens) + 1
           /\ i + 1 \in DOMAIN tokens => i + 2 \in 1 .. Len(tokens) + 1
  <1>1. pass \in BlockPasses /\ ~AtEnd /\ pass \notin {"restore", "done"}
    BY DEF InWalker, BlockPasses
  <1>2. QED
    BY <1>1, AtToken

LEMMA EnterBlockScans ==
    ASSUME PInv, UNCHANGED results, EnterBlock
    PROVE  Scans
  <1>1. InWalker /\ RecordNothing
    BY DEF EnterBlock
  <1>2. PICK end \in HeaderEnds :
            Advance(end.brace + 1 - i) /\ blocks' = <<Running(end.level)>>
    BY DEF EnterBlock
  <1>3. PICK k \in i + 1 .. Len(tokens), block \in BlockWalkers[pass].blocks :
            end = [brace |-> k, level |-> block.level]
    BY DEF HeaderEnds
  <1>4. /\ Len(tokens) \in Nat /\ i \in Nat \ {0} /\ pass \in BlockPasses
    BY <1>1, InWalkerAt
  <1>5. PICK n \in Int : n = k + 1 - i
    BY <1>4
  <1>6. Advance(n) /\ i + n \in 1 .. Len(tokens) + 1
    <2>1. i + n = k + 1
      BY <1>4, <1>5
    <2>2. Advance(n)
      BY <1>2, <1>3, <1>5
    <2>3. QED
      BY <1>4, <2>1, <2>2
  <1>7. block.level \in DOMAIN BlockWalkers[pass].levels /\ end.level = block.level
    BY <1>3, <1>4, WalkersInOrder DEF WalkerOK
  <1>8. BlocksOK'
    BY <1>2, <1>4, <1>6, <1>7, BlocksPushed DEF Advance
  <1>9. QED
    BY <1>1, <1>6, <1>8, NothingKept, BlockStepScans

LEMMA CountBlockBraceScans ==
    ASSUME PInv, UNCHANGED results, CountBlockBrace
    PROVE  Scans
  <1>1. InWalker /\ RecordNothing /\ Advance(1) /\ blocks # <<>>
    BY DEF CountBlockBrace
  <1>2. i + 1 \in 1 .. Len(tokens) + 1 /\ pass \in BlockPasses
    BY <1>1, InWalkerAt
  <1>3. PICK change \in {1, -1} : blocks' = Braced(change)
    BY DEF CountBlockBrace
  <1>4. blocks' \in Seq(Frames(pass))
    <2>1. Top \in Frames(pass) /\ Under \in Seq(Frames(pass)) /\ Top.depth \in Nat \ {0}
      BY <1>1, <1>2, TopOK
    <2>2. CASE Top.depth + change = 0
      BY <1>3, <2>1, <2>2 DEF Braced
    <2>3. CASE Top.depth + change # 0
      <3>1. Top.depth + change \in Nat \ {0}
        BY <2>1, <2>3
      <3>2. [Top EXCEPT !.depth = @ + change] \in Frames(pass)
        BY <2>1, <3>1 DEF Frames
      <3>3. blocks' = Append(Under, [Top EXCEPT !.depth = @ + change])
        BY <1>3, <2>3 DEF Braced
      <3>4. QED
        BY <2>1, <3>2, <3>3
    <2>4. QED
      BY <2>2, <2>3
  <1>5. BlocksOK'
    BY <1>1, <1>2, <1>4 DEF BlocksOK, Frames, Advance
  <1>6. QED
    BY <1>1, <1>2, <1>5, NothingKept, BlockStepScans

LEMMA EnterInnerScans ==
    ASSUME PInv, UNCHANGED results, EnterInner
    PROVE  Scans
  <1>1. /\ InWalker /\ AtInner /\ RecordNothing /\ Advance(2)
        /\ blocks' = Append(blocks, Running(Sought.inner[Name(i)]))
    BY DEF EnterInner
  <1>2. blocks # <<>> /\ Name(i) \in DOMAIN Sought.inner /\ i + 1 \in DOMAIN tokens
    BY <1>1 DEF AtInner, AtWord, Is
  <1>3. i + 2 \in 1 .. Len(tokens) + 1 /\ pass \in BlockPasses
    BY <1>1, <1>2, InWalkerAt
  <1>4. Sought.inner[Name(i)] \in DOMAIN BlockWalkers[pass].levels
    BY <1>2, <1>3, TopOK DEF LevelOK
  <1>5. BlocksOK'
    BY <1>1, <1>3, <1>4, BlocksPushed DEF Advance
  <1>6. QED
    BY <1>1, <1>3, <1>5, NothingKept, BlockStepScans

LEMMA RegisterBucketScans ==
    ASSUME PInv, UNCHANGED results, RegisterBucket
    PROVE  Scans
  <1>1. InWalker /\ AtBucket
    BY DEF RegisterBucket
  <1>2. blocks # <<>> /\ Sought.bucket # "" /\ i + 1 \in DOMAIN tokens
    BY <1>1 DEF AtBucket, AtWord, Is
  <1>3. /\ i + 1 \in 1 .. Len(tokens) + 1 /\ i + 2 \in 1 .. Len(tokens) + 1
        /\ pass \in BlockPasses
    BY <1>1, <1>2, InWalkerAt
  <1>4. LevelOK(Sought, DOMAIN BlockWalkers[pass].levels)
    BY <1>2, <1>3, TopOK
  <1>5. Sought.bucket \in Kinds
    BY <1>2, <1>4 DEF LevelOK
  <1>6. Keeps /\ InOrder /\ UNCHANGED <<frozen, referenced>>
    <2>1. \/ RecordIf(TRUE, Sought.bucket, tokens[i].text) \/ RecordNothing
          \/ Record(WithPath(book, Sought.bucket, tokens[i].text))
      <3>1. \/ ~Sought.paths
            \/ /\ Sought.paths /\ IsPath(tokens[i].text)
               /\ ~RegisteredElsewhere(Sought.bucket, tokens[i].text)
            \/ /\ Sought.paths
               /\ ~(IsPath(tokens[i].text)
                       /\ ~RegisteredElsewhere(Sought.bucket, tokens[i].text))
        OBVIOUS
      <3>2. QED
        BY <3>1 DEF RegisterBucket
    <2>2. QED
      BY <1>5, <2>1, RecordKeeps DEF PInv
  <1>7. PICK n \in {1, 2} : /\ Advance(n)
                            /\ \/ UNCHANGED blocks
                               \/ /\ Sought.opens # ""
                                  /\ blocks' = Append(blocks, Running(Sought.opens))
    BY DEF RegisterBucket
  <1>8. UNCHANGED pass
    BY <1>7 DEF Advance
  <1>9. BlocksOK'
    <2>1. CASE UNCHANGED blocks
      BY <1>8, <2>1, BlocksStay
    <2>2. CASE Sought.opens # "" /\ blocks' = Append(blocks, Running(Sought.opens))
      BY <1>3, <1>4, <1>8, <2>2, BlocksPushed DEF LevelOK
    <2>3. QED
      BY <1>7, <2>1, <2>2
  <1>10. n \in Int /\ i + n \in 1 .. Len(tokens) + 1
    <2>1. n = 1 \/ n = 2
      BY <1>7
    <2>2. QED
      BY <1>3, <2>1
  <1>11. QED
    BY <1>1, <1>6, <1>7, <1>9, <1>10, BlockStepScans

LEMMA DiscoverFieldScans ==
    ASSUME PInv, UNCHANGED results, DiscoverField
    PROVE  Scans
  <1>1. /\ InWalker /\ AtField /\ Advance(2) /\ UNCHANGED blocks
        /\ RecordIf(HasValue(i + 1), Sought.fields[Name(i)], Value(i + 1))
    BY DEF DiscoverField
  <1>2. /\ blocks # <<>> /\ Name(i) \in DOMAIN Sought.fields /\ i + 1 \in DOMAIN tokens
    BY <1>1 DEF AtField, AtWord
  <1>3. i + 2 \in 1 .. Len(tokens) + 1 /\ pass \in BlockPasses
    BY <1>1, <1>2, InWalkerAt
  <1>4. Sought.fields[Name(i)] \in Kinds
    BY <1>2, <1>3, TopOK DEF LevelOK
  <1>5. HasValue(i + 1) \in BOOLEAN
    BY DEF HasValue
  <1>6. Keeps /\ InOrder /\ UNCHANGED <<frozen, referenced>>
    BY <1>1, <1>4, <1>5, RecordKeeps DEF PInv
  <1>7. BlocksOK'
    BY <1>1, BlocksStay DEF Advance
  <1>8. QED
    BY <1>1, <1>3, <1>6, <1>7, BlockStepScans

LEMMA BlocksScan ==
    ASSUME PInv, UNCHANGED results, BlockNext
    PROVE  Scans
  BY EnterBlockScans, CountBlockBraceScans, EnterInnerScans, RegisterBucketScans,
     DiscoverFieldScans DEF BlockNext

LEMMA OthersScan ==
    ASSUME PInv, UNCHANGED results,
           \/ DiscoverQueryAttrname \/ DiscoverSamlOauth
           \/ DiscoverIruleLiteral \/ DiscoverIruleIdentifier \/ SkipOther
    PROVE  Scans
  <1>1. AtOther
    BY DEF DiscoverQueryAttrname, DiscoverSamlOauth, DiscoverIruleLiteral,
           DiscoverIruleIdentifier, SkipOther
  <1>2. /\ pass \in BlockPasses /\ ~AtEnd /\ NoDiagnostics /\ UNCHANGED <<depth, in_rule>>
        /\ UNCHANGED blocks
    BY <1>1 DEF AtOther, InWalker
  <1>3. pass \in Scanning \ {"prescan", "preregister"}
    BY <1>2, PassNames
  <1>4. FilesOK
    BY DEF PInv
  <1>5. PICK finds, width :
            /\ OfKinds(finds) /\ Look(finds, width)
            /\ width = 1 \/ (width = 2 /\ i + 1 \in DOMAIN tokens)
    <2>1. CASE DiscoverSamlOauth
      BY <2>1, FieldsFind, BlockItemsFind DEF DiscoverSamlOauth, FoundOK
    <2>2. CASE DiscoverQueryAttrname
      BY <2>2, BlockItemsFind DEF DiscoverQueryAttrname
    <2>3. CASE DiscoverIruleLiteral
      BY <1>4, <2>3, IruleLiteralsFind, BlockItemsFind DEF DiscoverIruleLiteral
    <2>4. CASE DiscoverIruleIdentifier
      BY <2>4, IdentifiersFind, BlockItemsFind DEF DiscoverIruleIdentifier
    <2>5. CASE SkipOther
      BY <2>5, BlockItemsFind DEF SkipOther
    <2>6. QED
      BY <2>1, <2>2, <2>3, <2>4, <2>5
  <1>6. /\ Keeps /\ InOrder /\ UNCHANGED <<files, file, frozen, referenced>>
        /\ pass' = pass
        /\ PositionOK' /\ (j \in Nat \ {0})'
    BY <1>2, <1>3, <1>5, LookKeeps
  <1>7. LoopOK'
    BY <1>2, <1>6, LoopTypes DEF LoopOK
  <1>8. BlocksOK' /\ PlacesOK'
    BY <1>2, <1>6, BlocksStay, PlacesStay DEF results
  <1>9. QED
    BY <1>3, <1>6, <1>7, <1>8 DEF Scans

---------------------------------------------------------------------------
(* From one walker to the next. *)

LEMMA BeginsAnew ==
    ASSUME Rewind, pass' \notin {"restore", "done"}, (Len(tokens) \in Nat)'
    PROVE  LoopOK' /\ BlocksOK'
  <1>1. i' = 1 /\ j' = 1 /\ depth' = 0 /\ in_rule' = FALSE /\ blocks' = <<>>
    BY DEF Rewind
  <1>2. PositionOK'
    BY <1>1 DEF PositionOK
  <1>3. \A S : <<>> \in Seq(S)
    OBVIOUS
  <1>4. BlocksOK'
    BY <1>1, <1>3 DEF BlocksOK
  <1>5. (j \in Nat \ {0})' /\ depth' \in Int
    BY <1>1
  <1>6. in_rule' \in BOOLEAN
    BY <1>1, Zenon
  <1>7. QED
    BY <1>2, <1>4, <1>5, <1>6 DEF LoopOK

\* The walkers follow each other, and pass 2 follows the last.
LEMMA NextNames ==
    ASSUME PInv, NextWalker
    PROVE  pass' \in Scanning \cup {"substitute"} /\ pass \in Scanning /\ file' \in DOMAIN files
  <1>1. /\ Len(files) \in Nat \ {0} /\ DOMAIN files = 1 .. Len(files)
        /\ file \in DOMAIN files
    BY FileShape DEF PInv, FilesOK
  <1>2. pass \in Scanning
    BY DEF NextWalker, Scanning
  <1>3. CASE pass = "prescan"
    <2>1. NextFile("prescan", "objects")
      BY <1>3, PassOrder DEF NextWalker
    <2>2. pass' \in {"prescan", "objects"} /\ file' \in DOMAIN files
      BY <1>1, <2>1 DEF NextFile
    <2>3. {"prescan", "objects"} \subseteq Scanning
      BY DEF Scanning, Range, Passes
    <2>4. QED
      BY <1>2, <2>2, <2>3
  <1>4. CASE pass = "irule_identifiers"
    <2>1. NextFile("objects", "substitute")
      BY <1>4, PassOrder DEF NextWalker
    <2>2. pass' \in {"objects", "substitute"} /\ file' \in DOMAIN files
      BY <1>1, <2>1 DEF NextFile
    <2>3. "objects" \in Scanning
      BY DEF Scanning, Range, Passes
    <2>4. QED
      BY <1>2, <2>2, <2>3
  <1>5. CASE pass \notin {"prescan", "irule_identifiers"}
    <2>1. PICK p \in DOMAIN Passes : pass = Passes[p] /\ pass' = Passes[p + 1]
      BY <1>5, PassOrder DEF NextWalker
    <2>2. UNCHANGED file
      BY <1>5, PassOrder DEF NextWalker
    <2>3. p # 27
      BY <1>5, <2>1 DEF Passes
    <2>4. p \in 1 .. 26
      BY <2>1, <2>3, PassOrder
    <2>5. QED
      BY <1>1, <1>2, <2>1, <2>2, <2>4, PassOrder DEF Scanning
  <1>6. QED
    BY <1>3, <1>4, <1>5

LEMMA NextWalkerKeeps ==
    ASSUME PInv, NextWalker, UNCHANGED results
    PROVE  PInv'
  <1>1. /\ pass' \in Scanning \cup {"substitute"} /\ pass \in Scanning
        /\ file' \in DOMAIN files
    BY NextNames
  <1>2. /\ UNCHANGED <<files, book, referenced, order, out, restored, orphan_entries,
                       unredacted_description, unknown_top_level, malformed_paths>>
        /\ Rewind /\ frozen' = (pass' = "substitute")
    BY DEF NextWalker, results
  <1>3. FilesOK'
    BY <1>1, <1>2 DEF PInv, FilesOK
  <1>4. (Len(tokens) \in Nat)'
    <2>1. \A f \in DOMAIN files : Len(files[f]) \in Nat
      BY FileShape DEF PInv, FilesOK
    <2>2. QED
      BY <1>1, <1>2, <2>1 DEF tokens
  <1>5. pass' \notin {"restore", "done"}
    BY <1>1, PassNames DEF Sealed
  <1>6. LoopOK' /\ BlocksOK'
    BY <1>2, <1>4, <1>5, BeginsAnew
  <1>7. PassOK'
    <2>1. pass' \in Sealed <=> pass' = "substitute"
      BY <1>1, PassNames DEF Sealed
    <2>2. frozen' \in BOOLEAN /\ (frozen' <=> pass' = "substitute")
      BY <1>2
    <2>3. pass' \in Scanning \cup Sealed \cup {"aborted"}
      BY <1>1 DEF Sealed
    <2>4. QED
      BY <2>1, <2>2, <2>3 DEF PassOK
  <1>8. BookOK(book)' /\ OrderOK' /\ ReferencedOK' /\ OutputOK' /\ PlacesOK'
    BY <1>2 DEF PInv, BookOK, InverseBook, CountersAhead, PartitionsThere, PartitionEntered,
                OrderOK, ReferencedOK, OutputOK, PlacesOK, IsPlace, IsText
  <1>9. QED
    BY <1>3, <1>6, <1>7, <1>8 DEF PInv

---------------------------------------------------------------------------
(* What pass 2 refers to. *)

\* Every span a walk takes is the longest match where it begins.
LEMMA TakenMatches ==
    ASSUME NEW spans, NEW n \in Nat,
           \A span \in spans : span[1] \in 1 .. n /\ span[2] \in 1 .. n,
           NEW a \in DOMAIN Taken(spans)
    PROVE  \E span \in spans : span[1] = a /\ span[2] = Taken(spans)[a]
  <1> DEFINE ends == {span[2] : span \in {other \in spans : other[1] = a}}
  <1>1. PICK span \in spans : span[1] = a
    BY TakenStarts
  <1>2. span[2] \in ends /\ ends \subseteq 1 .. n
    BY <1>1
  <1>3. Max(ends) \in ends
    <2> HIDE DEF ends
    <2> QED BY <1>2, GreatestNumber
  <1>4. Taken(spans)[a] = Max(ends)
    <2>1. a \in Leftmost(Longest(spans)) /\ Taken(spans)[a] = Longest(spans)[a]
      BY DEF Taken
    <2>2. Longest(spans)[a] = Max(ends)
      BY <1>1 DEF Longest
    <2>3. QED
      BY <2>1, <2>2
  <1>5. QED
    BY <1>3, <1>4

\* The forms a walk puts in have entries of those it was given.
LEMMA WalkEntries ==
    ASSUME NEW s, IsText(s), NEW forms, NEW m \in Nat, DOMAIN forms = 1 .. m,
           NEW E, \A k \in DOMAIN forms : \A form \in forms[k] : form.entry \in E
    PROVE  Walk(s, forms).entries \subseteq E
  <1> DEFINE spans == Matches(s, forms)
             taken == Taken(spans)
  <1>1. PICK n \in Nat : DOMAIN s = 1 .. n
    BY DEF IsText
  <1>2. ASSUME NEW span \in spans
        PROVE  \E k \in DOMAIN forms : \E form \in forms[k] :
                  /\ span[1] \in DOMAIN s /\ FitsAt(s, span[1], form)
                  /\ span[2] = span[1] + Len(form.from) - 1
    BY DEF Matches, Range
  <1>3. \A span \in spans : span[1] \in 1 .. n /\ span[2] \in 1 .. n
    BY <1>1, <1>2 DEF FitsAt
  <1> HIDE DEF spans
  <1>4. ASSUME NEW a \in DOMAIN taken
        PROVE  Preferred(s, a, taken[a], forms).entry \in E
    <2> DEFINE Filling(k) == {form \in forms[k] :
                                  FitsAt(s, a, form) /\ a + Len(form.from) - 1 = taken[a]}
               places == {k \in DOMAIN forms : Filling(k) # {}}
               first == Min(places)
    <2>1. PICK span \in spans : span[1] = a /\ span[2] = taken[a]
      BY <1>3, TakenMatches
    <2>2. PICK k \in DOMAIN forms : \E form \in forms[k] :
              FitsAt(s, a, form) /\ taken[a] = a + Len(form.from) - 1
      BY <1>2, <2>1
    <2>3. k \in places
      BY <2>2
    <2>4. first \in places
      <3>1. places \subseteq Nat
        OBVIOUS
      <3> HIDE DEF places
      <3>2. QED
        BY <2>3, <3>1, MinInSet
    <2>5. (CHOOSE f \in Filling(first) : TRUE) \in Filling(first) /\ first \in DOMAIN forms
      <3> HIDE DEF first, Filling
      <3> QED BY <2>4
    <2>6. Preferred(s, a, taken[a], forms) = CHOOSE f \in Filling(first) : TRUE
      BY DEF Preferred
    <2>7. Preferred(s, a, taken[a], forms) \in forms[first]
      <3>1. Filling(first) \subseteq forms[first]
        OBVIOUS
      <3> HIDE DEF Filling, first
      <3>2. QED
        BY <2>5, <2>6, <3>1
    <2>8. QED
      <3> HIDE DEF first
      <3> QED BY <2>5, <2>7
  <1>5. Walk(s, forms) = Replaced(s, forms, taken)
    <2>1. Replaced(s, forms, taken) \in {Replaced(s, forms, t) : t \in {taken}}
      OBVIOUS
    <2>2. \A walked \in {Replaced(s, forms, t) : t \in {taken}} :
              walked = Replaced(s, forms, taken)
      OBVIOUS
    <2>3. QED
      BY <2>1, <2>2, Zenon DEF Walk, spans
  <1>6. Replaced(s, forms, taken).entries
            = {Preferred(s, a, taken[a], forms).entry : a \in DOMAIN taken}
    <2> HIDE DEF taken
    <2> QED BY DEF Replaced
  <1>7. QED
    <2> HIDE DEF taken
    <2> QED BY <1>4, <1>5, <1>6

LEMMA KnownIsEntry ==
    ASSUME PInv, NEW kind, NEW text, Known(kind, text)
    PROVE  PlaceholderOf(kind, text) \in DOMAIN book.entries
  BY DEF PInv, BookOK, InverseBook, Known, PlaceholderOf

LEMMA PartitionRefsAreEntries ==
    ASSUME PInv, NEW ph \in DOMAIN book.entries
    PROVE  PartitionRefs(ph) \subseteq DOMAIN book.entries
  BY DEF PInv, BookOK, InverseBook, PartitionsThere, PartitionEntered, PartitionRefs,
         PlaceholderOf, KeyText

LEMMA ExactIsEntry ==
    ASSUME PInv, NEW text, ExactKinds(text) # {}
    PROVE  Exact(text) \in DOMAIN book.entries
  <1>1. DOMAIN KindOrder \subseteq Nat
    BY DEF KindOrder
  <1>2. ExactKinds(text) \subseteq Nat
    BY <1>1 DEF ExactKinds
  <1>3. Min(ExactKinds(text)) \in ExactKinds(text)
    BY <1>2, MinInSet
  <1>4. Known(KindOrder[Min(ExactKinds(text))], text)
    BY <1>3 DEF ExactKinds
  <1>5. QED
    BY <1>4, KnownIsEntry DEF Exact

LEMMA FormsAreOfEntries ==
    ASSUME PInv
    PROVE  /\ \E m \in Nat : DOMAIN ForwardForms = 1 .. m
           /\ \A k \in DOMAIN ForwardForms : \A form \in ForwardForms[k] :
                 form.entry \in DOMAIN book.entries
  <1>1. order \in Seq(Range(order)) /\ Range(order) = DOMAIN book.entries
    BY DEF PInv, OrderOK, IsText
  <1>2. \A k \in DOMAIN order : order[k] \in DOMAIN book.entries
    BY <1>1 DEF Range
  <1>3. ASSUME NEW ph, NEW form \in FormsOf(ph)
        PROVE  form.entry = ph
    <2> DEFINE text == OriginalText(book.entries[ph])
               leaf == LeafOf(text)
               whole == Form(text, Rendered(ph), ph, book.entries[ph].kind = "FQDN")
               colon == ColonForm(ph, book.entries[ph].partition, leaf)
               alone == Form(leaf, <<ph>>, ph, TRUE)
    <2>1. whole.entry = ph /\ colon.entry = ph /\ alone.entry = ph
      BY DEF Form, ColonForm
    <2>2. FormsOf(ph) \subseteq {whole, colon, alone}
      <3>1. \A A, B, C : ({whole} \cup (IF A THEN {} ELSE {colon})
                                    \cup (IF B /\ C THEN {alone} ELSE {}))
                             \subseteq {whole, colon, alone}
        OBVIOUS
      <3>2. QED
        BY <3>1 DEF FormsOf
    <2> HIDE DEF whole, colon, alone
    <2>3. QED
      BY <2>1, <2>2
  <1>4. DOMAIN ForwardForms = DOMAIN order
        /\ \A k \in DOMAIN order : ForwardForms[k] = FormsOf(order[k])
    BY DEF ForwardForms
  <1>5. QED
    BY <1>1, <1>2, <1>3, <1>4

\* What pass 2 writes for a token refers to entries.
LEMMA EmittedRefs ==
    ASSUME PInv, NEW token, IsText(token.text)
    PROVE  Emitted(token).refs \subseteq DOMAIN book.entries
  <1>1. Walk(token.text, ForwardForms).entries \subseteq DOMAIN book.entries
    BY FormsAreOfEntries, WalkEntries
  <1>2. CASE token.kind = "WORD" /\ ExactKinds(token.text) # {}
    <2>1. Emitted(token).refs = {Exact(token.text)} \cup PartitionRefs(Exact(token.text))
      BY <1>2 DEF Emitted
    <2>2. QED
      BY <1>2, <2>1, ExactIsEntry, PartitionRefsAreEntries
  <1>3. CASE \/ token.kind = "WORD" /\ ExactKinds(token.text) = {}
             \/ token.kind = "QSTRING"
    BY <1>1, <1>3 DEF Emitted
  <1>4. CASE token.kind = "COMMENT" /\ Known("IRULE_COMMENT", token.text)
    <2>1. Emitted(token).refs = {PlaceholderOf("IRULE_COMMENT", token.text)}
      BY <1>4 DEF Emitted
    <2>2. QED
      BY <1>4, <2>1, KnownIsEntry
  <1>5. CASE /\ token.kind \notin {"WORD", "QSTRING"}
             /\ ~(token.kind = "COMMENT" /\ Known("IRULE_COMMENT", token.text))
    BY <1>5 DEF Emitted
  <1>6. QED
    BY <1>2, <1>3, <1>4, <1>5

---------------------------------------------------------------------------
(* The steps of pass 2. *)

LEMMA TextsJoined ==
    ASSUME NEW s, IsText(s), NEW t, IsText(t)
    PROVE  IsText(s \o t)
  <1>1. s \in Seq(Range(s) \cup Range(t)) /\ t \in Seq(Range(s) \cup Range(t))
    BY DEF IsText
  <1>2. s \o t \in Seq(Range(s) \cup Range(t))
    BY <1>1
  <1>3. QED
    BY <1>2, SequencesAreTexts

LEMMA ShortTexts ==
    ASSUME NEW a, NEW b, NEW c
    PROVE  IsText(<<>>) /\ IsText(<<a>>) /\ IsText(<<a, b, c>>)
  <1>1. PICK S : S = {a, b, c}
    OBVIOUS
  <1>2. <<>> \in Seq(S) /\ <<a>> \in Seq(S) /\ <<a, b, c>> \in Seq(S)
    BY <1>1
  <1>3. QED
    BY <1>2, SequencesAreTexts

LEMMA FunctionsAreTexts ==
    ASSUME NEW n \in Nat, NEW s, s = [k \in 1 .. n |-> s[k]]
    PROVE  IsText(s)
  <1>1. s \in [1 .. n -> Range(s)]
    BY DEF Range
  <1>2. QED
    BY <1>1 DEF IsText

\* What a step of pass 2 does.
Writes ==
    /\ InPass2
    /\ UNCHANGED <<files, book, frozen, order, blocks, restored, orphan_entries,
                   unknown_top_level, malformed_paths>>
    /\ \E n \in Int : i + n \in 1 .. Len(tokens) + 1 /\ Advance(n)
    /\ depth' \in Int /\ in_rule' \in BOOLEAN
    /\ \E pieces : IsText(pieces) /\ Write(pieces)
    /\ \E refs \in SUBSET DOMAIN book.entries : Refer(refs)
    /\ unredacted_description' \in
           {unredacted_description, unredacted_description \cup {<<file, i>>}}

LEMMA WritesStep ==
    ASSUME PInv, Writes
    PROVE  PInv'
  <1>1. PICK n \in Int : i + n \in 1 .. Len(tokens) + 1 /\ Advance(n)
    BY DEF Writes
  <1>2. /\ UNCHANGED <<files, file, pass, book, frozen, order, blocks, restored,
                       orphan_entries, unknown_top_level, malformed_paths>>
        /\ i' = i + n /\ j' = 1
        /\ pass = "substitute" /\ ~AtEnd
    BY <1>1 DEF Writes, InPass2, Advance
  <1>3. /\ Len(tokens) \in Nat /\ i \in DOMAIN tokens
    BY <1>2, AtToken
  <1>4. FilesOK' /\ PassOK' /\ BlocksOK' /\ BookOK(book)' /\ OrderOK'
    BY <1>2 DEF PInv, FilesOK, PassOK, BlocksOK, Frames, BookOK, InverseBook, CountersAhead,
                PartitionsThere, PartitionEntered, OrderOK, IsText
  <1>5. LoopOK'
    <2>1. PositionOK'
      BY <1>1, <1>2, <1>3 DEF PositionOK, tokens
    <2>2. (j \in Nat \ {0})' /\ depth' \in Int /\ in_rule' \in BOOLEAN
      BY <1>2 DEF Writes
    <2>3. QED
      BY <2>1, <2>2 DEF LoopOK
  <1>6. ReferencedOK'
    BY <1>2 DEF PInv, ReferencedOK, Writes, Refer
  <1>7. OutputOK'
    <2>1. PICK pieces : IsText(pieces) /\ Write(pieces)
      BY DEF Writes
    <2>2. PICK gap : /\ IsText(gap)
                     /\ out' = [out EXCEPT ![file] = (@ \o gap) \o pieces]
      <3>1. IsText(IF i > 1 THEN <<GapPiece>> ELSE <<>>)
        BY ShortTexts
      <3>2. QED
        BY <2>1, <3>1 DEF Write
    <2>3. /\ DOMAIN out = DOMAIN files /\ DOMAIN restored = DOMAIN files
          /\ \A f \in DOMAIN files : IsText(out[f])
          /\ orphan_entries \subseteq (DOMAIN files) \X (DOMAIN book.entries)
      BY DEF PInv, OutputOK
    <2>4. DOMAIN out' = DOMAIN files
      BY <2>2, <2>3
    <2>5. ASSUME NEW f \in DOMAIN files PROVE IsText(out'[f])
      <3>1. IsText((out[f] \o gap) \o pieces)
        BY <2>1, <2>2, <2>3, TextsJoined
      <3>2. out'[f] = IF f = file THEN (out[f] \o gap) \o pieces ELSE out[f]
        BY <2>2, <2>3
      <3>3. QED
        BY <2>3, <3>1, <3>2
    <2>6. \A f \in DOMAIN files : IsText(out'[f]) <=> IsText(out[f])'
      BY DEF IsText
    <2>7. /\ DOMAIN restored' = DOMAIN files
          /\ orphan_entries' \subseteq (DOMAIN files) \X (DOMAIN book'.entries)
          /\ DOMAIN files' = DOMAIN files
      BY <1>2, <2>3
    <2>8. \A f \in DOMAIN files' : IsText(out'[f])
      BY <2>5, <2>7
    <2>9. QED
      BY <2>4, <2>7, <2>8 DEF OutputOK, IsText
  <1>8. PlacesOK'
    <2>1. \A place \in unredacted_description' : IsPlace(place)
      BY <1>3, PlaceAdded DEF PInv, PlacesOK, Writes
    <2>2. \A place : IsPlace(place) => IsPlace(place)'
      BY <1>2 DEF IsPlace
    <2>3. QED
      BY <1>2, <2>1, <2>2 DEF PInv, PlacesOK
  <1>9. QED
    BY <1>4, <1>5, <1>6, <1>7, <1>8 DEF PInv

LEMMA Pass2At ==
    ASSUME PInv, InPass2
    PROVE  /\ Len(tokens) \in Nat /\ DOMAIN tokens = 1 .. Len(tokens)
           /\ i \in Nat \ {0} /\ i <= Len(tokens) /\ i \in DOMAIN tokens
           /\ i + 1 \in 1 .. Len(tokens) + 1
           /\ \A k \in {1, 3} : i + k \in DOMAIN tokens =>
                  i + k + 1 \in 1 .. Len(tokens) + 1
  <1>1. ~AtEnd /\ pass \notin {"restore", "done"}
    BY DEF InPass2
  <1>2. QED
    BY <1>1, AtToken

LEMMA PlaceholderOrNothing ==
    /\ {} \in SUBSET DOMAIN book.entries
    /\ \A ph \in DOMAIN book.entries : {ph} \in SUBSET DOMAIN book.entries
  OBVIOUS

LEMMA EnterRuleBodyWrites ==
    ASSUME PInv, EnterRuleBody
    PROVE  Writes
  <1>1. /\ InPass2 /\ EntersRule /\ Pass2Keeps /\ UNCHANGED unredacted_description
        /\ in_rule' = TRUE /\ depth' = depth + 1 /\ Advance(4)
    BY DEF EnterRuleBody
  <1>2. i + 3 \in DOMAIN tokens
    BY <1>1 DEF EntersRule, RuleShape
  <1>3. i + 4 \in 1 .. Len(tokens) + 1 /\ \A k \in i .. i + 3 : k \in DOMAIN tokens
    BY <1>1, <1>2, Pass2At
  <1>4. \E pieces : IsText(pieces) /\ Write(pieces)
    <2>1. PICK pieces : /\ pieces = [k \in 1 .. 7 |-> pieces[k]]
                        /\ Write(pieces)
      BY DEF EnterRuleBody
    <2>2. QED
      BY <2>1, FunctionsAreTexts
  <1>5. \E refs \in SUBSET DOMAIN book.entries : Refer(refs)
    <2>1. PICK refs : refs = UNION {Emitted(tokens[k]).refs : k \in i .. i + 3}
      OBVIOUS
    <2>2. \A k \in i .. i + 3 : Emitted(tokens[k]).refs \subseteq DOMAIN book.entries
      BY <1>3, TokenShape, EmittedRefs DEF PInv
    <2>3. Refer(refs)
      BY <2>1 DEF EnterRuleBody
    <2>4. QED
      BY <2>1, <2>2, <2>3
  <1>6. UNCHANGED <<files, book, frozen, order, blocks, restored, orphan_entries,
                    unknown_top_level, malformed_paths>>
    BY <1>1 DEF Pass2Keeps, diagnostics, Advance
  <1>7. depth' \in Int /\ in_rule' \in BOOLEAN
    BY <1>1, LoopTypes
  <1>8. QED
    BY <1>1, <1>3, <1>4, <1>5, <1>6, <1>7 DEF Writes

LEMMA RedactDescriptionWrites ==
    ASSUME PInv, RedactDescription,
           \E n \in Int : i + n \in 1 .. Len(tokens) + 1 /\ Advance(n),
           \E pieces : IsText(pieces) /\ Write(pieces),
           \E refs \in SUBSET DOMAIN book.entries : Refer(refs)
    PROVE  Writes
  <1>1. InPass2 /\ Pass2Keeps /\ UNCHANGED <<depth, in_rule, unredacted_description>>
    BY DEF RedactDescription
  <1>2. UNCHANGED <<files, book, frozen, order, blocks, restored, orphan_entries,
                    unknown_top_level, malformed_paths>>
    BY <1>1 DEF Pass2Keeps, diagnostics, Advance
  <1>3. QED
    BY <1>1, <1>2, LoopTypes DEF Writes

LEMMA RedactValueWrites ==
    ASSUME PInv, RedactValue
    PROVE  Writes
  <1>1. RedactDescription /\ Advance(2) /\ i + 1 \in DOMAIN tokens /\ InPass2
    BY DEF RedactValue, Is, RedactDescription
  <1>2. i + 2 \in 1 .. Len(tokens) + 1
    <2>1. i + 1 + 1 \in 1 .. Len(tokens) + 1 /\ i \in Nat
      BY <1>1, Pass2At
    <2>2. QED
      BY <2>1
  <1>3. \E kind, text, refs :
            /\ refs \in SUBSET DOMAIN book.entries
            /\ WriteDescription(kind, text) /\ Refer(refs)
    <2>1. CASE Known("DESC", tokens[i + 1].text)
      BY <2>1, KnownIsEntry, PlaceholderOrNothing DEF RedactValue
    <2>2. CASE ~Known("DESC", tokens[i + 1].text)
      BY <2>2, PlaceholderOrNothing DEF RedactValue
    <2>3. QED
      BY <2>1, <2>2
  <1>4. \E pieces : IsText(pieces) /\ Write(pieces)
    BY <1>3, ShortTexts DEF WriteDescription
  <1>5. QED
    BY <1>1, <1>2, <1>3, <1>4, RedactDescriptionWrites

\* The closing brace is one of the tokens.
LEMMA ClosingAt ==
    ASSUME PInv, InPass2, Closing(tokens, i + 1) # {}
    PROVE  Min(Closing(tokens, i + 1)) \in i + 2 .. Len(tokens)
  <1>1. i \in Nat /\ Len(tokens) \in Nat
    BY Pass2At
  <1>2. ASSUME NEW m \in Closing(tokens, i + 1)
        PROVE  m \in i + 2 .. Len(tokens) /\ m \in Nat
    <2>1. m \in (i + 1) + 1 .. Len(tokens)
      BY DEF Closing
    <2>2. QED
      BY <1>1, <2>1
  <1>3. Closing(tokens, i + 1) \subseteq Nat
    BY <1>2
  <1>4. QED
    BY <1>2, <1>3, MinInSet

LEMMA RedactBracedWrites ==
    ASSUME PInv, RedactBraced
    PROVE  Writes
  <1> DEFINE m == Min(Closing(tokens, i + 1))
  <1>1. /\ RedactDescription /\ InPass2 /\ Closing(tokens, i + 1) # {}
        /\ Known("DESC", BracedSpan) /\ Advance(m + 1 - i)
    BY DEF RedactBraced, RedactDescription
  <1>2. m \in i + 2 .. Len(tokens) /\ i \in Nat \ {0} /\ Len(tokens) \in Nat
    BY <1>1, ClosingAt, Pass2At
  <1> HIDE DEF m
  <1>3. PICK n \in Int : n = m + 1 - i
    BY <1>2
  <1>4. i + n \in 1 .. Len(tokens) + 1 /\ Advance(n)
    BY <1>1, <1>2, <1>3
  <1>5. \E text, refs :
            /\ refs \in SUBSET DOMAIN book.entries
            /\ WriteDescription("QSTRING", text) /\ Refer(refs)
    BY <1>1, KnownIsEntry, PlaceholderOrNothing DEF RedactBraced
  <1>6. \E pieces : IsText(pieces) /\ Write(pieces)
    BY <1>5, ShortTexts DEF WriteDescription
  <1>7. QED
    BY <1>1, <1>4, <1>5, <1>6, RedactDescriptionWrites

LEMMA KeepBracedWrites ==
    ASSUME PInv, KeepBraced
    PROVE  Writes
  <1> DEFINE last == IF Closing(tokens, i + 1) = {} THEN Len(tokens)
                     ELSE Min(Closing(tokens, i + 1))
  <1>1. /\ InPass2 /\ Pass2Keeps /\ UNCHANGED <<depth, in_rule>> /\ Refer({})
        /\ unredacted_description' = unredacted_description \cup {<<file, i>>}
    BY DEF KeepBraced
  <1>2. /\ \E piece : Write(<<tokens[i], GapPiece, piece>>)
        /\ Advance(last + 1 - i)
    BY DEF KeepBraced
  <1>3. last \in i .. Len(tokens) /\ i \in Nat \ {0} /\ Len(tokens) \in Nat
    BY <1>1, ClosingAt, Pass2At
  <1> HIDE DEF last
  <1>4. PICK n \in Int : n = last + 1 - i
    BY <1>3
  <1>5. i + n \in 1 .. Len(tokens) + 1 /\ Advance(n)
    BY <1>2, <1>3, <1>4
  <1>6. \E pieces : IsText(pieces) /\ Write(pieces)
    BY <1>2, ShortTexts
  <1>7. UNCHANGED <<files, book, frozen, order, blocks, restored, orphan_entries,
                    unknown_top_level, malformed_paths>>
    BY <1>1, <1>5 DEF Pass2Keeps, diagnostics, Advance
  <1>8. QED
    BY <1>1, <1>5, <1>6, <1>7, LoopTypes, PlaceholderOrNothing DEF Writes

LEMMA KeepFieldWrites ==
    ASSUME PInv, KeepField
    PROVE  Writes
  <1>1. RedactDescription /\ InPass2 /\ Advance(1) /\ Refer({})
    BY DEF KeepField, RedactDescription
  <1>2. i + 1 \in 1 .. Len(tokens) + 1
    BY <1>1, Pass2At
  <1>3. \E pieces : IsText(pieces) /\ Write(pieces)
    <2>1. IsText(<<tokens[i]>>) /\ IsText(IF i < Len(tokens) THEN <<GapPiece>> ELSE <<>>)
      BY ShortTexts
    <2>2. QED
      BY <2>1, TextsJoined DEF KeepField
  <1>4. QED
    BY <1>1, <1>2, <1>3, PlaceholderOrNothing, RedactDescriptionWrites

LEMMA EmitTokenWrites ==
    ASSUME PInv, EmitToken
    PROVE  Writes
  <1>1. /\ InPass2 /\ Pass2Keeps /\ Count(i) /\ Advance(1)
        /\ in_rule' = (in_rule /\ ~LeavesRule(i)) /\ UNCHANGED unredacted_description
        /\ Refer(Emitted(tokens[i]).refs)
        /\ \E piece : Write(<<piece>>)
    BY DEF EmitToken
  <1>2. i + 1 \in 1 .. Len(tokens) + 1 /\ i \in DOMAIN tokens
    BY <1>1, Pass2At
  <1>3. Emitted(tokens[i]).refs \subseteq DOMAIN book.entries
    BY <1>2, TokenShape, EmittedRefs DEF PInv
  <1>4. depth' \in Int /\ in_rule' \in BOOLEAN
    BY <1>1, CountOK, LoopTypes
  <1>5. UNCHANGED <<files, book, frozen, order, blocks, restored, orphan_entries,
                    unknown_top_level, malformed_paths>>
    BY <1>1 DEF Pass2Keeps, diagnostics, Advance
  <1>6. \E pieces : IsText(pieces) /\ Write(pieces)
    BY <1>1, ShortTexts
  <1>7. QED
    BY <1>1, <1>2, <1>3, <1>4, <1>5, <1>6 DEF Writes

\* The end of a file, and deobfuscation.
LEMMA FinishFileKeeps ==
    ASSUME PInv, FinishFile
    PROVE  PInv'
  <1>1. /\ pass = "substitute" /\ Rewind
        /\ orphan_entries' = orphan_entries \cup ({file} \X Orphans)
        /\ UNCHANGED <<files, book, frozen, referenced, order, unknown_top_level,
                       malformed_paths, out, restored, unredacted_description>>
    BY DEF FinishFile, ledger, diagnostics
  <1>2. \/ pass' = "substitute" /\ file < Len(files) /\ file' = file + 1
        \/ pass' = "restore" /\ file' = 1
    BY <1>1 DEF FinishFile
  <1>3. /\ Len(files) \in Nat \ {0} /\ DOMAIN files = 1 .. Len(files)
        /\ file \in DOMAIN files /\ \A f \in DOMAIN files : Len(files[f]) \in Nat
    BY FileShape DEF PInv, FilesOK
  <1>4. file' \in DOMAIN files
    BY <1>2, <1>3
  <1>5. /\ FilesOK' /\ BookOK(book)' /\ OrderOK' /\ ReferencedOK' /\ PlacesOK'
    BY <1>1, <1>4 DEF PInv, FilesOK, BookOK, InverseBook, CountersAhead, PartitionsThere,
        PartitionEntered, OrderOK, ReferencedOK, PlacesOK, IsPlace, IsText
  <1>6. PassOK'
    BY <1>1, <1>2 DEF PInv, PassOK, Sealed
  <1>7. OutputOK'
    <2>1. Orphans \subseteq DOMAIN book.entries
      BY DEF Orphans
    <2>2. orphan_entries' \subseteq (DOMAIN files) \X (DOMAIN book.entries)
      BY <1>1, <1>3, <2>1 DEF PInv, OutputOK
    <2>3. QED
      BY <1>1, <2>2 DEF PInv, OutputOK, IsText
  <1>8. LoopOK' /\ BlocksOK'
    <2>1. i' = 1 /\ j' = 1 /\ depth' = 0 /\ in_rule' = FALSE /\ blocks' = <<>>
      BY <1>1 DEF Rewind
    <2>2. (Len(out[file]) \in Nat)'
      BY <1>1, <1>4 DEF PInv, OutputOK, IsText
    <2>3. (Len(tokens) \in Nat)'
      BY <1>1, <1>3, <1>4 DEF tokens
    <2>4. PositionOK'
      BY <2>1, <2>2, <2>3 DEF PositionOK
    <2>5. (j \in Nat \ {0})' /\ depth' \in Int
      BY <2>1
    <2>6. in_rule' \in BOOLEAN
      BY <2>1, Zenon
    <2>7. BlocksOK'
      BY <1>2, <2>1 DEF BlocksOK, BlockPasses
    <2>8. QED
      BY <2>4, <2>5, <2>6, <2>7 DEF LoopOK
  <1>9. QED
    BY <1>5, <1>6, <1>7, <1>8 DEF PInv

LEMMA RestorePieceKeeps ==
    ASSUME PInv, RestorePiece
    PROVE  PInv'
  <1>1. /\ pass = "restore" /\ i <= Len(out[file]) /\ Advance(1)
        /\ UNCHANGED <<depth, in_rule, blocks, book, frozen, referenced, order,
                       unknown_top_level, malformed_paths, out, orphan_entries,
                       unredacted_description>>
        /\ DOMAIN restored' = DOMAIN restored
    BY DEF RestorePiece, ledger, diagnostics
  <1>2. UNCHANGED <<files, file, pass>> /\ i' = i + 1 /\ j' = 1
    BY <1>1 DEF Advance
  <1>3. /\ FilesOK' /\ PassOK' /\ BlocksOK' /\ BookOK(book)' /\ OrderOK' /\ ReferencedOK'
        /\ OutputOK' /\ PlacesOK'
    BY <1>1, <1>2 DEF PInv, FilesOK, PassOK, BlocksOK, Frames, BookOK, InverseBook,
        CountersAhead, PartitionsThere, PartitionEntered, OrderOK, ReferencedOK, OutputOK,
        PlacesOK, IsPlace, IsText
  <1>4. PositionOK'
    <2>1. i \in Nat \ {0}
      BY DEF PInv, LoopOK, PositionOK
    <2>2. Len(out[file]) \in Nat
      BY DEF PInv, FilesOK, OutputOK, IsText
    <2>3. QED
      BY <1>1, <1>2, <2>1, <2>2 DEF PositionOK
  <1>5. LoopOK'
    BY <1>1, <1>2, <1>4, LoopTypes DEF LoopOK
  <1>6. QED
    BY <1>3, <1>5 DEF PInv

LEMMA FinishRestoreKeeps ==
    ASSUME PInv, FinishRestore
    PROVE  PInv'
  <1>1. /\ pass = "restore" /\ Rewind
        /\ UNCHANGED <<files, book, frozen, referenced, order, unknown_top_level,
                       malformed_paths, out, restored, orphan_entries,
                       unredacted_description>>
    BY DEF FinishRestore, ledger, diagnostics, results
  <1>2. \/ pass' = "restore" /\ file < Len(files) /\ file' = file + 1
        \/ pass' = "done" /\ file' = file
    BY <1>1 DEF FinishRestore
  <1>3. /\ Len(files) \in Nat \ {0} /\ DOMAIN files = 1 .. Len(files)
        /\ file \in DOMAIN files /\ \A f \in DOMAIN files : Len(files[f]) \in Nat
    BY FileShape DEF PInv, FilesOK
  <1>4. file' \in DOMAIN files
    BY <1>2, <1>3
  <1>5. /\ FilesOK' /\ BookOK(book)' /\ OrderOK' /\ ReferencedOK' /\ OutputOK' /\ PlacesOK'
    BY <1>1, <1>4 DEF PInv, FilesOK, BookOK, InverseBook, CountersAhead, PartitionsThere,
        PartitionEntered, OrderOK, ReferencedOK, OutputOK, PlacesOK, IsPlace, IsText
  <1>6. PassOK'
    BY <1>1, <1>2 DEF PInv, PassOK, Sealed
  <1>7. LoopOK' /\ BlocksOK'
    <2>1. i' = 1 /\ j' = 1 /\ depth' = 0 /\ in_rule' = FALSE /\ blocks' = <<>>
      BY <1>1 DEF Rewind
    <2>2. (Len(out[file]) \in Nat)'
      BY <1>1, <1>4 DEF PInv, OutputOK, IsText
    <2>3. PositionOK'
      BY <1>2, <2>1, <2>2 DEF PositionOK
    <2>4. (j \in Nat \ {0})' /\ depth' \in Int
      BY <2>1
    <2>5. in_rule' \in BOOLEAN
      BY <2>1, Zenon
    <2>6. BlocksOK'
      BY <1>2, <2>1 DEF BlocksOK, BlockPasses
    <2>7. QED
      BY <2>3, <2>4, <2>5, <2>6 DEF LoopOK
  <1>8. QED
    BY <1>5, <1>6, <1>7 DEF PInv

---------------------------------------------------------------------------
(* The invariant is inductive. *)

LEMMA InitPInv == Init => PInv
  <1>1. SUFFICES ASSUME Init PROVE PInv
    OBVIOUS
  <1>2. /\ files \in Sources /\ file = 1 /\ pass = "prescan" /\ i = 1 /\ j = 1
        /\ depth = 0 /\ in_rule = FALSE /\ blocks = <<>>
        /\ book = EmptyBook(Kinds) /\ order = <<>> /\ frozen = FALSE /\ referenced = {}
        /\ unknown_top_level = {} /\ malformed_paths = {} /\ unredacted_description = {}
        /\ orphan_entries = {}
        /\ out = [f \in DOMAIN files |-> <<>>] /\ restored = [f \in DOMAIN files |-> <<>>]
    BY <1>1 DEF Init, ScannerInit, Kinds
  <1>3. FilesOK /\ Len(tokens) \in Nat
    BY <1>2, FileShape DEF FilesOK, tokens
  <1>4. PassOK
    <2>1. "prescan" \in Scanning /\ "prescan" \notin Sealed
      BY DEF Scanning, Sealed
    <2>2. frozen \in BOOLEAN /\ ~frozen
      BY <1>2, Zenon
    <2>3. QED
      BY <1>2, <2>1, <2>2 DEF PassOK
  <1>5. BlocksOK
    BY <1>2 DEF BlocksOK, BlockPasses
  <1>6. LoopOK
    <2>1. in_rule \in BOOLEAN
      BY <1>2, Zenon
    <2>2. QED
      BY <1>2, <1>3, <2>1 DEF LoopOK, PositionOK
  <1>7. BookOK(book)
    <2>1. DOMAIN book.entries = {} /\ DOMAIN book.by_original = {}
      BY <1>2 DEF EmptyBook
    <2>2. book.counters \in [Kinds -> Nat]
      BY <1>2 DEF EmptyBook
    <2>3. QED
      BY <2>1, <2>2 DEF BookOK, InverseBook, CountersAhead, PartitionsThere
  <1>8. OrderOK
    <2>1. DOMAIN book.entries = {}
      BY <1>2 DEF EmptyBook
    <2>2. DOMAIN order = {}
      BY <1>2
    <2>3. IsText(order)
      BY <1>2, ShortTexts
    <2>4. QED
      BY <2>1, <2>2, <2>3 DEF OrderOK, IsInjective, Range
  <1>9. ReferencedOK /\ PlacesOK
    BY <1>2 DEF ReferencedOK, PlacesOK
  <1>10. OutputOK
    BY <1>2, ShortTexts DEF OutputOK
  <1>11. QED
    BY <1>3, <1>4, <1>5, <1>6, <1>7, <1>8, <1>9, <1>10 DEF PInv

LEMMA StutterKeeps ==
    ASSUME PInv, UNCHANGED vars
    PROVE  PInv'
  <1>1. UNCHANGED <<files, file, pass, i, j, depth, in_rule, blocks, book, frozen, order,
                    referenced, unknown_top_level, malformed_paths, out, restored,
                    orphan_entries, unredacted_description>>
    BY DEF vars, discovery_vars, loop, ledger, diagnostics, results
  <1>2. FilesOK' /\ PassOK' /\ BlocksOK' /\ LoopOK'
    BY <1>1 DEF PInv, FilesOK, PassOK, BlocksOK, Frames, LoopOK, PositionOK, tokens
  <1>3. BookOK(book)' /\ OrderOK' /\ ReferencedOK' /\ OutputOK' /\ PlacesOK'
    BY <1>1 DEF PInv, BookOK, InverseBook, CountersAhead, PartitionsThere, PartitionEntered,
                OrderOK, ReferencedOK, OutputOK, PlacesOK, IsPlace, IsText
  <1>4. QED
    BY <1>2, <1>3 DEF PInv

\* A step of pass 1 that stays with a walker.
LEMMA ScannerScans ==
    ASSUME PInv, ScannerNext, UNCHANGED results, ~NextWalker
    PROVE  Scans
  BY DescriptionsScan, CommentsScan, ObjectsScan, BlocksScan, FieldsScan, LiteralsScan,
     OthersScan DEF ScannerNext, DiscoveryNext

LEMMA Pass2Writes ==
    ASSUME PInv,
           \/ EnterRuleBody \/ RedactValue \/ RedactBraced
           \/ KeepBraced \/ KeepField \/ EmitToken
    PROVE  Writes
  BY EnterRuleBodyWrites, RedactValueWrites, RedactBracedWrites, KeepBracedWrites,
     KeepFieldWrites, EmitTokenWrites

LEMMA StepKeepsPInv == PInv /\ [Next]_vars => PInv'
  <1>1. SUFFICES ASSUME PInv, [Next]_vars PROVE PInv'
    OBVIOUS
  <1>2. CASE ScannerNext /\ UNCHANGED results /\ ~NextWalker
    BY <1>1, <1>2, ScannerScans, ScansStep
  <1>3. CASE NextWalker /\ UNCHANGED results
    BY <1>1, <1>3, NextWalkerKeeps
  <1>4. CASE \/ EnterRuleBody \/ RedactValue \/ RedactBraced
             \/ KeepBraced \/ KeepField \/ EmitToken
    BY <1>1, <1>4, Pass2Writes, WritesStep
  <1>5. CASE FinishFile \/ RestorePiece \/ FinishRestore
    BY <1>1, <1>5, FinishFileKeeps, RestorePieceKeeps, FinishRestoreKeeps
  <1>6. CASE UNCHANGED vars
    BY <1>1, <1>6, StutterKeeps
  <1>7. QED
    BY <1>1, <1>2, <1>3, <1>4, <1>5, <1>6 DEF Next

\* Every walker leaves the table, the loops and the output in order.
THEOREM ProgramInOrder == Spec => []PInv
  BY InitPInv, StepKeepsPInv, PTL DEF Spec

---------------------------------------------------------------------------
(* What pass 2 looks up. *)

LEMMA LookupsOfOrder ==
    ASSUME PInv
    PROVE  LookupsSucceed
  <1>1. InverseBook(book) /\ PartitionsThere(book)
    BY DEF PInv, BookOK
  <1>2. LG!BookInverse
    BY <1>1 DEF LG!BookInverse, LG!Inverse, LG!KeyOf, InverseBook, KeyOf
  <1>3. ASSUME NEW ph \in DOMAIN book.entries,
               book.entries[ph].partition \notin {None, Common}
        PROVE  Known("PARTITION", book.entries[ph].partition)
    BY <1>1, <1>3 DEF PartitionsThere, PartitionEntered, Known, KeyText
  <1>4. QED
    BY <1>2, <1>3 DEF LookupsSucceed

\* Whatever pass 2 looks up is there, after whatever the walkers of all the
\* files have entered: the error at substitute.py:330 is never raised.
THEOREM LookupsOfSpecSucceed == Spec => []LookupsSucceed
  BY ProgramInOrder, LookupsOfOrder, PTL

---------------------------------------------------------------------------
(* The types. *)

\* The greater one of two lengths.
LEMMA GreaterLength ==
    ASSUME NEW m \in Nat, NEW n \in Nat
    PROVE  Max({m, n}) \in Nat /\ m <= Max({m, n}) /\ n <= Max({m, n})
  BY DEF Max

LEMMA TypesOfOrder ==
    ASSUME PInv
    PROVE  TypeOK
  <1>1. file \in DOMAIN files /\ Len(tokens) \in Nat
    BY FileShape DEF PInv, FilesOK, tokens
  <1>2. Len(out[file]) \in Nat
    BY <1>1 DEF PInv, OutputOK, IsText
  <1>3. pass \in Range(Passes) \cup {"prescan", "substitute", "restore", "done", "aborted"}
    BY DEF PInv, PassOK, Scanning, Sealed
  <1>4. i \in 1 .. Max({Len(tokens), Len(out[file])}) + 1
    <2> DEFINE m == Len(tokens)
               n == Len(out[file])
               most == Max({m, n})
    <2>1. most \in Nat /\ m <= most /\ n <= most
      <3>1. m \in Nat /\ n \in Nat
        BY <1>1, <1>2
      <3> HIDE DEF m, n
      <3>2. QED
        BY <3>1, GreaterLength
    <2>2. i \in Nat \ {0} /\ (i <= n + 1 \/ i <= m + 1)
      BY DEF PInv, LoopOK, PositionOK
    <2>3. m \in Nat /\ n \in Nat
      BY <1>1, <1>2
    <2>4. i \in 1 .. most + 1
      <3> HIDE DEF m, n, most
      <3>1. QED
        BY <2>1, <2>2, <2>3
    <2>5. QED
      BY <2>4
  <1>5. j \in Nat \ {0} /\ depth \in Int /\ in_rule \in BOOLEAN /\ frozen \in BOOLEAN
    BY DEF PInv, LoopOK, PassOK
  <1>6. ASSUME NEW k \in DOMAIN blocks
        PROVE  /\ pass \in BlockPasses /\ blocks[k].level \in DOMAIN BlockWalkers[pass].levels
               /\ blocks[k].depth \in Nat \ {0}
    <2>1. pass \in BlockPasses
      <3>1. blocks # <<>>
        BY <1>6
      <3>2. QED
        BY <3>1 DEF PInv, BlocksOK
    <2>2. blocks \in Seq(Frames(pass))
      BY <2>1 DEF PInv, BlocksOK
    <2>3. blocks[k] \in Frames(pass)
      BY <1>6, <2>2
    <2>4. QED
      BY <2>1, <2>3 DEF Frames
  <1>7. /\ DOMAIN book.entries = Range(order) /\ IsInjective(order)
        /\ referenced \subseteq DOMAIN book.entries
    BY DEF PInv, OrderOK, ReferencedOK
  <1>8. /\ DOMAIN out = DOMAIN files /\ DOMAIN restored = DOMAIN files
        /\ orphan_entries \subseteq (DOMAIN files) \X (DOMAIN book.entries)
    BY DEF PInv, OutputOK
  <1>9. \A place \in unredacted_description \cup unknown_top_level \cup malformed_paths :
           place[1] \in DOMAIN files /\ place[2] \in DOMAIN files[place[1]]
    BY DEF PInv, PlacesOK, IsPlace
  <1>10. QED
    BY <1>1, <1>3, <1>4, <1>5, <1>6, <1>7, <1>8, <1>9 DEF TypeOK

\* No loop of either pass leaves its file, the stack of a walker of blocks has
\* only levels of its table, the order of insertion lists each entry once, and
\* all that is referred to or reported is there.
THEOREM TypesOfSpec == Spec => []TypeOK
  BY ProgramInOrder, TypesOfOrder, PTL

---------------------------------------------------------------------------
(***************************************************************************)
(* The program implements the code book.                                   *)
(***************************************************************************)
decode == [ph \in DOMAIN book.entries |-> KeyOf(book.entries[ph])]

LEMMA InitIsEmptyBook == Init => CB!Init
  BY DEF Init, ScannerInit, EmptyBook, CB!Init

\* Originals are not shared.
LEMMA OrderIsUnambiguous ==
    ASSUME NEW b, InverseBook(b)
    PROVE  CB!Unambiguous([ph \in DOMAIN b.entries |-> KeyOf(b.entries[ph])])
  BY DEF InverseBook, CB!Unambiguous

\* A walker extends the book.
LEMMA ScansExtend ==
    ASSUME PInv, Scans
    PROVE  CB!Extend
  <1>1. ~frozen /\ frozen' = frozen
    BY PassNames DEF PInv, PassOK, Scans
  <1>2. /\ \A ph \in DOMAIN book.entries :
              /\ ph \in DOMAIN book'.entries
              /\ KeyOf(book'.entries[ph]) = KeyOf(book.entries[ph])
        /\ InverseBook(book')
    BY DEF Scans, Keeps, Follows, BookOK
  <1>3. decode' = [ph \in DOMAIN book'.entries |-> KeyOf(book'.entries[ph])]
    BY DEF decode, KeyOf
  <1>4. CB!Unambiguous(decode')
    BY <1>2, <1>3, OrderIsUnambiguous
  <1>5. \A ph \in DOMAIN decode : ph \in DOMAIN decode' /\ decode'[ph] = decode[ph]
    BY <1>2, <1>3 DEF decode
  <1>6. QED
    BY <1>1, <1>4, <1>5 DEF CB!Extend, decode, CB!Unambiguous

\* A step without an entry stutters.
LEMMA BookStands ==
    ASSUME UNCHANGED <<book, frozen>>
    PROVE  UNCHANGED CB!vars
  BY DEF CB!vars

LEMMA WalkerChangeSeals ==
    ASSUME PInv, NextWalker
    PROVE  [CB!Next]_CB!vars
  <1>1. book' = book /\ frozen' = (pass' = "substitute") /\ pass \in Scanning
    BY NextNames DEF NextWalker
  <1>2. frozen = FALSE
    BY <1>1, PassNames DEF PInv, PassOK
  <1>3. CASE pass' = "substitute"
    <2>1. frozen' = TRUE
      BY <1>1, <1>3
    <2>2. CB!Seal
      BY <1>1, <2>1 DEF CB!Seal
    <2>3. QED
      BY <2>2 DEF CB!Next
  <1>4. CASE pass' # "substitute"
    <2>1. UNCHANGED <<book, frozen>>
      BY <1>1, <1>2, <1>4
    <2>2. QED
      BY <2>1, BookStands
  <1>5. QED
    BY <1>3, <1>4

LEMMA StepIsOfCodebook ==
    ASSUME PInv, [Next]_vars
    PROVE  [CB!Next]_CB!vars
  <1>1. CASE ScannerNext /\ UNCHANGED results /\ ~NextWalker
    BY <1>1, ScannerScans, ScansExtend DEF CB!Next
  <1>2. CASE NextWalker
    BY <1>2, WalkerChangeSeals
  <1>3. CASE \/ EnterRuleBody \/ RedactValue \/ RedactBraced
             \/ KeepBraced \/ KeepField \/ EmitToken
    <2>1. UNCHANGED <<book, frozen>>
      BY <1>3, Pass2Writes DEF Writes
    <2>2. QED
      BY <2>1, BookStands
  <1>4. CASE FinishFile \/ RestorePiece \/ FinishRestore \/ UNCHANGED vars
    <2>1. UNCHANGED <<book, frozen>>
      BY <1>4 DEF FinishFile, RestorePiece, FinishRestore, vars, discovery_vars, ledger
    <2>2. QED
      BY <2>1, BookStands
  <1>5. QED
    BY <1>1, <1>2, <1>3, <1>4 DEF Next

\* All the program does to the ledger is to use it as a code book.
THEOREM ProgramIsCodebook == Spec => IsCodebook
  BY ProgramInOrder, InitIsEmptyBook, StepIsOfCodebook, PTL DEF Spec, IsCodebook, CB!Spec

---------------------------------------------------------------------------
(***************************************************************************)
(* The report of collapsed nets.  It is made before the walkers of strings *)
(* run, so what is missing from it stands in a string of the file at hand. *)
(***************************************************************************)
Unreported == collapsed_sources \ ipv4_subnet_collapsed
UnreportedIn(toks) == \A net \in Unreported : NetInString(net, toks)

AfterIps == Range(Passes) \ {"objects", "ips"}

ReportInv ==
    /\ pass \in AfterIps => UnreportedIn(tokens)
    /\ pass \in Sealed => UnreportedIn(files[Len(files)])

\* What a step collapses.
CollapsesInStrings ==
    \A net \in collapsed_sources' \ collapsed_sources : NetInString(net, tokens)

\* An address that a walker finds is written in a string.
InString(find) == find.kind = "IPADDR" => NetInString(Atom(find)[2][1], tokens)
InStrings(f) == \A n \in DOMAIN f : InString(f[n])

\* Only an address makes its net collapse.
LEMMA FindCollapses ==
    ASSUME NEW find, InternFind(find), NEW net \in collapsed_sources' \ collapsed_sources
    PROVE  find.kind = "IPADDR" /\ net = Atom(find)[2][1]
  <1>1. CASE UNCHANGED collapsed_sources
    BY <1>1
  <1>2. CASE find.kind = "IPADDR" /\ LG!InternIpv4(Atom(find)[2])
    BY <1>2 DEF LG!InternIpv4, LG!V4!Allocate, LG!V4!AllocatePreserved,
                LG!V4!AllocateFallback, LG!V4!Exhausted, LG!V4!Collapse
  <1>3. CASE ~(find.kind = "IPADDR" /\ LG!InternIpv4(Atom(find)[2]))
    <2>1. UNCHANGED collapsed_sources
      BY <1>3 DEF InternFind, RecordNothing, ledger, allocators, LG!InternIpv6,
                  LG!InternTimestamp, LG!InternSessionNamespaceWord, LG!InternIruleIdent,
                  LG!InternText, LG!v4
    <2>2. QED
      BY <2>1
  <1>4. QED
    BY <1>2, <1>3

LEMMA LookCollapses ==
    ASSUME NEW finds, NEW width, InStrings(finds), Look(finds, width)
    PROVE  CollapsesInStrings
  <1>1. CASE j \notin DOMAIN finds
    BY <1>1 DEF Look, RecordNothing, ledger, allocators, CollapsesInStrings
  <1>2. CASE j \in DOMAIN finds
    <2>1. InternFind(finds[j]) /\ InString(finds[j])
      BY <1>2 DEF Look, InStrings
    <2>2. QED
      BY <2>1, FindCollapses DEF InString, CollapsesInStrings
  <1>3. QED
    BY <1>1, <1>2

\* Most walkers find no addresses.
LEMMA NoFindInStrings == InStrings(<<>>)
  BY DEF InStrings

LEMMA FoundAsInStrings ==
    ASSUME NEW kind, kind # "IPADDR", NEW texts
    PROVE  InStrings(FoundAs(kind, texts))
  BY DEF InStrings, InString, FoundAs, Find

LEMMA FindIfInStrings ==
    ASSUME NEW condition, NEW kind, kind # "IPADDR", NEW text
    PROVE  InStrings(FindIf(condition, kind, text))
  <1>1. InString(Find(kind, text))
    BY DEF InString, Find
  <1>2. InStrings(<<Find(kind, text)>>)
    BY <1>1 DEF InStrings
  <1>3. QED
    BY <1>2, NoFindInStrings DEF FindIf

LEMMA NothingInStrings == InStrings(Nothing.finds)
  BY NoFindInStrings DEF Nothing, Found

LEMMA PassedInStrings ==
    ASSUME NEW f, InStrings(f)
    PROVE  InStrings(Passed(f).finds) /\ InStrings(Found(f).finds)
  BY DEF Passed, Found

LEMMA JoinedInStrings ==
    ASSUME NEW f, NEW g, Finds(f), Finds(g), InStrings(f), InStrings(g)
    PROVE  InStrings(f \o g)
  <1>1. PICK S : f \in Seq(S) /\ \A find \in S : find.kind \in Kinds
    BY DEF Finds
  <1>2. PICK T : g \in Seq(T) /\ \A find \in T : find.kind \in Kinds
    BY DEF Finds
  <1>3. ASSUME NEW n \in DOMAIN (f \o g)
        PROVE  \/ n \in DOMAIN f /\ (f \o g)[n] = f[n]
               \/ n - Len(f) \in DOMAIN g /\ (f \o g)[n] = g[n - Len(f)]
    BY <1>1, <1>2
  <1>4. QED
    BY <1>3 DEF InStrings

\* A list of positions has nothing else in it.
LEMMA ListedMember ==
    ASSUME NEW m \in Nat, NEW T \in SUBSET (1 .. m), NEW n \in DOMAIN Listed(T)
    PROVE  Listed(T)[n] \in T
  <1> DEFINE Upto(x) == {y \in T : y <= x}
             Far == {x \in Nat : n <= Cardinality(Upto(x))}
  <1>0. \A y \in T : y \in Int /\ 1 <= y /\ y <= m
    OBVIOUS
  <1>1. IsFiniteSet(T) /\ \A x : IsFiniteSet(Upto(x))
    <2>1. IsFiniteSet(1 .. m)
      BY FS_Interval
    <2>2. QED
      BY <2>1, FS_Subset
  <1>2. Cardinality(T) \in Nat /\ \A x : Cardinality(Upto(x)) \in Nat
    <2> HIDE DEF Upto
    <2> QED BY <1>1, FS_CardinalityType
  <1>3. n \in 1 .. Cardinality(T)
    BY <1>2 DEF Listed
  <1>4. m \in Far
    <2>1. Upto(m) = T
      <3> HIDE DEF Far
      <3> QED BY <1>0
    <2> HIDE DEF Upto
    <2>2. QED
      BY <1>2, <1>3, <2>1
  <1>5. PICK x \in Far : \A y \in Far : x <= y
    <2> HIDE DEF Upto
    <2>1. Far \subseteq Nat /\ Far # {}
      BY <1>4
    <2> HIDE DEF Far
    <2>2. QED
      BY <2>1, LeastNumber
  <1>6. x # 0
    <2>1. Upto(0) = {}
      <3>1. \A y \in T : ~(y <= 0)
        <4> HIDE DEF Far
        <4> QED BY <1>0
      <3>2. QED
        BY <3>1, Zenon
    <2>2. Cardinality(Upto(0)) = 0
      BY <2>1, FS_EmptySet
    <2> HIDE DEF Upto
    <2>3. QED
      BY <1>2, <1>3, <2>2
  <1>7. x - 1 \in Nat /\ x - 1 \notin Far
    <2>1. x \in Nat
      OBVIOUS
    <2> HIDE DEF Far
    <2>2. QED
      BY <1>5, <1>6, <2>1
  <1>8. Upto(x) = Upto(x - 1) \cup (IF x \in T THEN {x} ELSE {})
    <2>1. x \in Int
      OBVIOUS
    <2> HIDE DEF Far
    <2>2. \A y \in T : y <= x <=> y <= x - 1 \/ y = x
      BY <1>0, <2>1
    <2>3. QED
      BY <2>1, <2>2
  <1>9. x \in T /\ Cardinality(Upto(x)) = n
    <2>1. Cardinality(Upto(x - 1)) < n /\ n <= Cardinality(Upto(x))
      <3> HIDE DEF Upto
      <3> QED BY <1>2, <1>3, <1>7
    <2>2. x \in T
      <3>1. x \notin T => Upto(x) = Upto(x - 1)
        BY <1>8
      <3> HIDE DEF Upto
      <3>2. QED
        BY <1>2, <1>3, <2>1, <3>1
    <2>3. x \notin Upto(x - 1) /\ Upto(x) = Upto(x - 1) \cup {x}
      BY <1>7, <1>8, <2>2
    <2>4. Cardinality(Upto(x)) = Cardinality(Upto(x - 1)) + 1
      <3> HIDE DEF Upto
      <3> QED BY <1>1, <2>3, FS_AddElement
    <2> HIDE DEF Upto
    <2>5. QED
      BY <1>2, <1>3, <2>1, <2>2, <2>4
  <1>10. Listed(T)[n] = CHOOSE y \in T : Cardinality(Upto(y)) = n
    BY <1>3 DEF Listed
  <1> HIDE DEF Upto
  <1>11. QED
    BY <1>9, <1>10

\* What the scan for addresses takes from a text are addresses in it.
LEMMA QuotedAddressesAre ==
    ASSUME NEW text, IsText(text), NEW n \in DOMAIN QuotedAddresses(text)
    PROVE  \E a \in DOMAIN text :
              IsAddress(text[a], "ipv4") /\ QuotedAddresses(text)[n] = <<text[a]>>
  <1> DEFINE matches == {span \in Spans(text) :
                            /\ span[1] = span[2] /\ IsAddress(text[span[1]], "ipv4")
                            /\ Before(text, span[1]) \in Punctuation \ {Dash, Dot}
                            /\ EndsName(text, span[2])}
             taken  == Taken(matches)
             starts == Listed(DOMAIN taken)
  <1>1. PICK m \in Nat : DOMAIN text = 1 .. m /\ Len(text) = m
    BY DEF IsText
  <1>2. QuotedAddresses(text) = Listing(text, matches)
    BY DEF QuotedAddresses, FindAll
  <1>3. \A span \in matches : span[1] \in 1 .. m /\ span[2] \in 1 .. m
    BY <1>1 DEF Spans
  <1>4. \A span \in matches : span[1] = span[2] /\ IsAddress(text[span[1]], "ipv4")
    OBVIOUS
  <1> HIDE DEF matches
  <1>5. /\ n \in DOMAIN starts
        /\ QuotedAddresses(text)[n] = SubSeq(text, starts[n], taken[starts[n]])
    BY <1>2 DEF Listing
  <1>6. DOMAIN taken \in SUBSET (1 .. m)
    BY <1>3, TakenStarts
  <1>7. starts[n] \in DOMAIN taken
    <2> HIDE DEF taken
    <2> QED BY <1>5, <1>6, ListedMember
  <1>8. PICK span \in matches : span[1] = starts[n] /\ span[2] = taken[starts[n]]
    BY <1>3, <1>7, TakenMatches
  <1>9. starts[n] \in 1 .. m /\ QuotedAddresses(text)[n] = SubSeq(text, starts[n], starts[n])
    BY <1>3, <1>4, <1>5, <1>8
  <1>10. IsAddress(text[starts[n]], "ipv4")
    BY <1>4, <1>8
  <1>11. \A a \in 1 .. m : SubSeq(text, a, a) = <<text[a]>>
    <2>1. \A S : \A s \in Seq(S) : \A a \in 1 .. Len(s) : SubSeq(s, a, a) = <<s[a]>>
      <3> TAKE S
      <3> TAKE s \in Seq(S)
      <3> TAKE a \in 1 .. Len(s)
      <3>1. SubSeq(s, a, a) \in Seq(S) /\ Len(SubSeq(s, a, a)) = 1 /\ SubSeq(s, a, a)[1] = s[a]
        OBVIOUS
      <3>2. \A t \in Seq(S) : Len(t) = 1 => t = <<t[1]>>
        OBVIOUS
      <3>3. QED
        BY <3>1, <3>2
    <2>2. QED
      BY <1>1, <2>1 DEF IsText
  <1> HIDE DEF starts
  <1>12. QED
    BY <1>1, <1>9, <1>10, <1>11

\* So those found between the quotes of a string are written in it.
LEMMA QuotedInStrings ==
    ASSUME FilesOK, NEW k, Is(k, "QSTRING")
    PROVE  LET content == Content(tokens[k].text)
           IN  InStrings(FoundAs("IPADDR", QuotedAddresses(content)))
  <1> DEFINE quoted  == tokens[k].text
             content == Content(quoted)
             found   == QuotedAddresses(content)
  <1>1. IsText(quoted) /\ IsText(content) /\ k \in DOMAIN tokens
    BY TokenShape, ContentIsText DEF Is
  <1>2. tokens[k] \in Range(tokens) /\ tokens[k].kind = "QSTRING"
    BY DEF Is, Range
  <1>3. ASSUME NEW a \in DOMAIN content
        PROVE  content[a] = quoted[a + 1] /\ a + 1 \in DOMAIN quoted
    BY <1>1 DEF Content, IsText
  <1>4. ASSUME NEW n \in DOMAIN found
        PROVE  NetInString(found[n][1][2][1], tokens)
    <2>1. PICK a \in DOMAIN content :
              IsAddress(content[a], "ipv4") /\ found[n] = <<content[a]>>
      <3> HIDE DEF content
      <3> QED BY <1>1, QuotedAddressesAre
    <2>2. IsAddress(quoted[a + 1], "ipv4") /\ found[n][1] = quoted[a + 1]
          /\ a + 1 \in DOMAIN quoted
      <3> HIDE DEF found, content, quoted
      <3> QED BY <1>3, <2>1
    <2> HIDE DEF found, content
    <2>3. QED
      BY <1>2, <2>2 DEF NetInString
  <1>5. InStrings(FoundAs("IPADDR", found))
    <2> HIDE DEF found
    <2> QED BY <1>4 DEF InStrings, InString, FoundAs, Find, Atom
  <1>6. QED
    BY <1>5

---------------------------------------------------------------------------
(* The walkers find addresses in strings, except the walker of addresses. *)

LEMMA SamlIsNoAddress ==
    ASSUME NEW word \in DOMAIN SamlKinds
    PROVE  SamlKinds[word] # "IPADDR"
  BY TableRange DEF SamlKinds

LEMMA FieldsInStrings ==
    /\ InStrings(Usernames(i).finds) /\ InStrings(MonitorRecv(i).finds)
    /\ InStrings(Timestamps(i).finds) /\ InStrings(ApmVarLiterals(i).finds)
    /\ InStrings(BaseDns(i).finds) /\ InStrings(KrbRealms(i).finds)
    /\ InStrings(SamlValues(i).finds)
    /\ InStrings(AdDns(i).finds) /\ InStrings(Fqdns(i).finds)
    /\ InStrings(SessionWordsIn(i).finds)
  <1>1. InStrings(Usernames(i).finds)
    BY PassedInStrings, FindIfInStrings, NothingInStrings DEF Usernames
  <1>2. InStrings(MonitorRecv(i).finds)
    BY PassedInStrings, FindIfInStrings, NothingInStrings DEF MonitorRecv
  <1>3. InStrings(Timestamps(i).finds)
    BY PassedInStrings, FindIfInStrings, NothingInStrings DEF Timestamps
  <1>4. InStrings(ApmVarLiterals(i).finds)
    BY PassedInStrings, FindIfInStrings, NothingInStrings DEF ApmVarLiterals
  <1>5. InStrings(BaseDns(i).finds)
    BY PassedInStrings, FindIfInStrings, NothingInStrings DEF BaseDns
  <1>6. InStrings(KrbRealms(i).finds)
    BY PassedInStrings, FindIfInStrings, NothingInStrings DEF KrbRealms
  <1>7. InStrings(SamlValues(i).finds)
    BY PassedInStrings, FindIfInStrings, NothingInStrings, SamlIsNoAddress
       DEF SamlValues, Field
  <1>8. InStrings(AdDns(i).finds)
    BY PassedInStrings, FoundAsInStrings, NoFindInStrings DEF AdDns
  <1>9. InStrings(Fqdns(i).finds)
    BY PassedInStrings, FoundAsInStrings DEF Fqdns
  <1>10. InStrings(SessionWordsIn(i).finds)
    BY PassedInStrings, FoundAsInStrings DEF SessionWordsIn
  <1>11. QED
    BY <1>1, <1>2, <1>3, <1>4, <1>5, <1>6, <1>7, <1>8, <1>9, <1>10

\* The monitors' requests and answers.
LEMMA MonitorsInStrings ==
    ASSUME FilesOK
    PROVE  InStrings(MonitorPaths(i).finds)
  <1>1. InStrings(AddressesIn(i + 1)) /\ Finds(AddressesIn(i + 1))
    <2>1. Finds(AddressesIn(i + 1))
      BY QuotedContentIsText, ScansAreListings, ListingFinds, KindsAre DEF AddressesIn
    <2>2. CASE Is(i + 1, "QSTRING")
      BY <2>1, <2>2, QuotedInStrings DEF AddressesIn, QuotedContent
    <2>3. CASE ~Is(i + 1, "QSTRING")
      <3>1. IsText(<<>>) /\ DOMAIN <<>> = {}
        <4>1. <<>> \in Seq({}) /\ DOMAIN <<>> = {}
          OBVIOUS
        <4>2. QED
          BY <4>1, SequencesAreTexts
      <3>2. AddressesIn(i + 1) = FoundAs("IPADDR", QuotedAddresses(<<>>))
        BY <2>3 DEF AddressesIn, QuotedContent
      <3>3. DOMAIN QuotedAddresses(<<>>) = {}
        BY <3>1, QuotedAddressesAre
      <3>4. DOMAIN AddressesIn(i + 1) = {}
        BY <3>2, <3>3 DEF FoundAs
      <3>5. QED
        BY <2>1, <3>4 DEF InStrings
    <2>4. QED
      BY <2>2, <2>3
  <1>2. InStrings(RequestPath(i + 1)) /\ Finds(RequestPath(i + 1))
    <2>1. InStrings(RequestPath(i + 1))
      BY FoundAsInStrings DEF RequestPath
    <2>2. Finds(RequestPath(i + 1))
      BY RequestPathFinds
    <2>3. QED
      BY <2>1, <2>2
  <1>3. InStrings(RequestPath(i + 1) \o AddressesIn(i + 1))
    BY <1>1, <1>2, JoinedInStrings
  <1>4. InStrings(ExpectedPath(i + 1)) /\ InStrings(UrlValue(i + 1))
    BY FindIfInStrings DEF ExpectedPath, UrlValue
  <1>5. QED
    BY <1>1, <1>3, <1>4, PassedInStrings, NothingInStrings DEF MonitorPaths

\* The strings of iRules.
LEMMA IrulesInStrings ==
    ASSUME FilesOK
    PROVE  InStrings(LiteralFinds(i))
  <1>1. CASE Is(i, "QSTRING") /\ ~IsDescription(i)
    <2> DEFINE content == Content(tokens[i].text)
               names   == FoundAs("AD_NETBIOS", NetbiosNames(content))
               shares  == FoundAs("UNC_PATH", UncPaths(content))
               hosts   == FoundAs("FQDN", AnyNames(content))
               users   == FoundAs("USERNAME", Emails(content))
               found   == FoundAs("IPADDR", QuotedAddresses(content))
    <2>1. IsText(content)
      BY <1>1, TokenShape, ContentIsText DEF Is
    <2>2. LiteralFinds(i) = names \o shares \o hosts \o users \o found
      BY <1>1 DEF LiteralFinds
    <2>3. InStrings(found)
      BY <1>1, QuotedInStrings
    <2> HIDE DEF content
    <2>4. Finds(names) /\ Finds(shares) /\ Finds(hosts) /\ Finds(users) /\ Finds(found)
      BY <2>1, ScansAreListings, ListingFinds, KindsAre
    <2>5. InStrings(names) /\ InStrings(shares) /\ InStrings(hosts) /\ InStrings(users)
      BY FoundAsInStrings DEF names, shares, hosts, users
    <2> HIDE DEF names, shares, hosts, users, found
    <2>6. Finds(names \o shares) /\ InStrings(names \o shares)
      BY <2>4, <2>5, FindsJoined, JoinedInStrings
    <2>7. Finds(names \o shares \o hosts) /\ InStrings(names \o shares \o hosts)
      BY <2>4, <2>5, <2>6, FindsJoined, JoinedInStrings
    <2>8. Finds(names \o shares \o hosts \o users) /\ InStrings(names \o shares \o hosts \o users)
      BY <2>4, <2>5, <2>7, FindsJoined, JoinedInStrings
    <2>9. QED
      BY <2>2, <2>3, <2>4, <2>8, JoinedInStrings
  <1>2. CASE ~(Is(i, "QSTRING") /\ ~IsDescription(i))
    BY <1>2, NoFindInStrings DEF LiteralFinds
  <1>3. QED
    BY <1>1, <1>2

LEMMA ItemsInStrings ==
    /\ InStrings(AttrFinds(i)) /\ InStrings(AudienceItems(i)) /\ InStrings(<<>>)
    /\ InStrings(IdentifierFinds(i))
  <1>1. InStrings(AttrFinds(i)) /\ InStrings(AudienceItems(i)) /\ InStrings(<<>>)
    BY FindIfInStrings, NoFindInStrings DEF AttrFinds, AudienceItems
  <1>2. InStrings(IdentifierFinds(i))
    <2> DEFINE find == [Find("IRULE_IDENT", tokens[i].text) EXCEPT !.as = Rewritten(tokens[i].text)]
    <2>1. InString(find)
      BY DEF InString, Find
    <2>2. IdentifierFinds(i) \in {<<find>>, <<>>}
      BY DEF IdentifierFinds
    <2> HIDE DEF find
    <2>3. QED
      BY <1>1, <2>1, <2>2 DEF InStrings
  <1>3. QED
    BY <1>1, <1>2

---------------------------------------------------------------------------
(* The steps of pass 1. *)

\* What a walker may do to the report.
Surveys ==
    /\ UNCHANGED ipv4_subnet_collapsed
    /\ pass \in AfterIps => CollapsesInStrings

LEMMA SurveysStep ==
    ASSUME ReportInv, Scans, Surveys
    PROVE  ReportInv'
  <1>1. pass' \notin Sealed
    BY PassNames DEF Scans, AfterIps
  <1>2. pass' \in AfterIps => pass \in AfterIps
    BY PassNames DEF Scans, AfterIps, Scanning
  <1>3. UNCHANGED <<tokens, ipv4_subnet_collapsed>>
    BY DEF Scans, Surveys, tokens
  <1>4. ASSUME pass \in AfterIps PROVE UnreportedIn(tokens)'
    BY <1>3, <1>4 DEF ReportInv, Surveys, CollapsesInStrings, UnreportedIn, Unreported, NetInString
  <1>5. QED
    BY <1>1, <1>2, <1>4 DEF ReportInv

\* Walkers that collapse nothing.
LEMMA QuietSurveys ==
    ASSUME UNCHANGED <<collapsed_sources, ipv4_subnet_collapsed>>
    PROVE  Surveys
  BY DEF Surveys, CollapsesInStrings

LEMMA LookSurveys ==
    ASSUME NEW finds, NEW width, Look(finds, width), InStrings(finds) \/ pass = "ips",
           UNCHANGED ipv4_subnet_collapsed
    PROVE  Surveys
  BY LookCollapses DEF Surveys, AfterIps

LEMMA LoopSurveys ==
    ASSUME NEW walker, NEW found, Loop(walker, found),
           InStrings(found.finds) \/ walker = "ips"
    PROVE  Surveys
  BY LookSurveys DEF Loop, NoDiagnostics, diagnostics

LEMMA DiscoverySurveys ==
    ASSUME DiscoveryNext
    PROVE  Surveys
  <1>1. CASE SkipBody \/ RegisterObject \/ RecordUnknownTopLevel \/ SkipTopLevel
    <2>1. UNCHANGED ipv4_subnet_collapsed
      BY <1>1 DEF SkipBody, RegisterObject, RecordUnknownTopLevel, SkipTopLevel, InObjects
    <2>2. UNCHANGED collapsed_sources
      BY <1>1, RecordGrows, RegisterGrows
         DEF SkipBody, RegisterObject, RecordUnknownTopLevel, SkipTopLevel
    <2>3. QED
      BY <2>1, <2>2, QuietSurveys
  <1>2. CASE \/ DiscoverDescriptionValue \/ DiscoverDescriptionBraced \/ DiscoverNoDescription
             \/ EnterRule \/ CountBrace \/ DiscoverComment
    <2>1. UNCHANGED ipv4_subnet_collapsed
      BY <1>2 DEF DiscoverDescriptionValue, DiscoverDescriptionBraced, DiscoverNoDescription,
                  EnterRule, CountBrace, DiscoverComment, InDescriptions, InComments,
                  NoDiagnostics, diagnostics
    <2>2. UNCHANGED collapsed_sources
      BY <1>2, RecordGrows
         DEF DiscoverDescriptionValue, DiscoverDescriptionBraced, DiscoverNoDescription,
             EnterRule, CountBrace, DiscoverComment
    <2>3. QED
      BY <2>1, <2>2, QuietSurveys
  <1>3. QED
    BY <1>1, <1>2 DEF DiscoveryNext

LEMMA BlocksSurvey ==
    ASSUME BlockNext
    PROVE  Surveys
  <1>1. UNCHANGED ipv4_subnet_collapsed
    BY DEF BlockNext, EnterBlock, CountBlockBrace, EnterInner, RegisterBucket, DiscoverField,
           InWalker, NoDiagnostics, diagnostics
  <1>2. UNCHANGED collapsed_sources
    BY RecordGrows
       DEF BlockNext, EnterBlock, CountBlockBrace, EnterInner, RegisterBucket, DiscoverField
  <1>3. QED
    BY <1>1, <1>2, QuietSurveys

LEMMA FieldsSurvey ==
    ASSUME FilesOK, FieldNext \/ LiteralNext
    PROVE  Surveys
  <1>1. CASE FieldNext
    BY <1>1, FieldsInStrings, MonitorsInStrings, LoopSurveys
       DEF FieldNext, DiscoverUsernames, DiscoverMonitorRecv, DiscoverMonitorPaths,
           DiscoverTimestamps, DiscoverApmVarLiterals, DiscoverBaseDns, DiscoverKrbRealms
  <1>2. CASE LiteralNext /\ ~Preregister
    BY <1>2, FieldsInStrings, LoopSurveys
       DEF LiteralNext, DiscoverIpLiterals, DiscoverAdDns, DiscoverFqdns, DiscoverSessionWords
  <1>3. CASE Preregister
    BY <1>3, QuietSurveys
       DEF Preregister, LG!MarkSessionNsUnsafe, LG!v4, NoDiagnostics, diagnostics
  <1>4. QED
    BY <1>1, <1>2, <1>3

LEMMA OthersSurvey ==
    ASSUME FilesOK,
           \/ DiscoverQueryAttrname \/ DiscoverSamlOauth
           \/ DiscoverIruleLiteral \/ DiscoverIruleIdentifier \/ SkipOther
    PROVE  Surveys
  <1>1. UNCHANGED ipv4_subnet_collapsed
    BY DEF DiscoverQueryAttrname, DiscoverSamlOauth, DiscoverIruleLiteral,
           DiscoverIruleIdentifier, SkipOther, AtOther, InWalker, NoDiagnostics, diagnostics
  <1>2. PICK finds, width : Look(finds, width) /\ InStrings(finds)
    <2>1. CASE DiscoverSamlOauth
      BY <2>1, FieldsInStrings, ItemsInStrings DEF DiscoverSamlOauth
    <2>2. CASE DiscoverQueryAttrname
      BY <2>2, ItemsInStrings DEF DiscoverQueryAttrname
    <2>3. CASE DiscoverIruleLiteral
      BY <2>3, IrulesInStrings, ItemsInStrings DEF DiscoverIruleLiteral
    <2>4. CASE DiscoverIruleIdentifier
      BY <2>4, ItemsInStrings DEF DiscoverIruleIdentifier
    <2>5. CASE SkipOther
      BY <2>5, ItemsInStrings DEF SkipOther
    <2>6. QED
      BY <2>1, <2>2, <2>3, <2>4, <2>5
  <1>3. QED
    BY <1>1, <1>2, LookSurveys

LEMMA ScannerSurveys ==
    ASSUME PInv, ScannerNext, ~NextWalker
    PROVE  Surveys
  BY DiscoverySurveys, BlocksSurvey, FieldsSurvey, OthersSurvey DEF ScannerNext, PInv

\* From one walker to the next: after that of addresses nothing is missing.
LEMMA NextWalkerReports ==
    ASSUME PInv, ReportInv, NextWalker
    PROVE  ReportInv'
  <1>1. /\ UNCHANGED <<files, collapsed_sources>>
        /\ ipv4_subnet_collapsed \subseteq ipv4_subnet_collapsed'
    BY DEF NextWalker, allocators, ReportCollapsed
  <1>2. \A toks : UnreportedIn(toks) => UnreportedIn(toks)'
    BY <1>1 DEF UnreportedIn, Unreported, NetInString
  <1>3. Len(files) \in Nat /\ file \in 1 .. Len(files)
    BY FileShape DEF PInv, FilesOK
  <1>4. CASE pass = "prescan"
    <2>1. NextFile("prescan", "objects")
      BY <1>4, PassOrder DEF NextWalker
    <2>2. pass' \in {"prescan", "objects"}
      BY <2>1 DEF NextFile
    <2>3. QED
      BY <2>2, PassOrder DEF ReportInv, AfterIps, Sealed
  <1>5. CASE pass = "irule_identifiers"
    <2>1. NextFile("objects", "substitute")
      BY <1>5, PassOrder DEF NextWalker
    <2>2. pass' = "objects" \/ (pass' = "substitute" /\ file = Len(files))
      BY <1>3, <2>1 DEF NextFile
    <2>3. UnreportedIn(files[file])
      BY <1>5 DEF ReportInv, AfterIps, Passes, Range, tokens
    <2>4. CASE pass' = "objects"
      BY <2>4, PassOrder DEF ReportInv, AfterIps, Sealed
    <2>5. CASE pass' = "substitute" /\ file = Len(files)
      <3>1. UnreportedIn(files[Len(files)])'
        BY <1>1, <1>2, <2>3, <2>5
      <3>2. pass' \notin AfterIps
        BY <2>5, PassOrder DEF AfterIps
      <3>3. QED
        BY <3>1, <3>2 DEF ReportInv, AfterIps
    <2>6. QED
      BY <2>2, <2>4, <2>5
  <1>6. CASE pass \notin {"prescan", "irule_identifiers"}
    <2>1. PICK p \in DOMAIN Passes : pass = Passes[p] /\ pass' = Passes[p + 1]
      BY <1>6, PassOrder DEF NextWalker
    <2>2. UNCHANGED file
      BY <1>6, PassOrder DEF NextWalker
    <2>3. p \in 1 .. 26 /\ pass \in Range(Passes)
      <3>1. p # 27
        BY <1>6, <2>1 DEF Passes
      <3>2. QED
        BY <2>1, <3>1, PassOrder DEF Range
    <2>4. pass' \in Range(Passes)
      BY <2>1, <2>3, PassOrder
    <2>5. pass' \notin Sealed
      BY <2>4, PassOrder DEF Sealed
    <2>6. CASE pass = "ips"
      <3>1. Unreported' = {}
        BY <1>1, <2>6 DEF NextWalker, ReportCollapsed, Unreported
      <3>2. QED
        BY <2>5, <3>1 DEF ReportInv, UnreportedIn
    <2>7. CASE pass = "objects"
      <3>1. \A q \in 1 .. 26 : Passes[q] = "objects" => Passes[q + 1] = "ips"
        BY DEF Passes
      <3>2. pass' = "ips"
        BY <2>1, <2>3, <2>7, <3>1
      <3>3. QED
        BY <2>5, <3>2 DEF ReportInv, AfterIps
    <2>8. CASE pass \notin {"objects", "ips"}
      <3>1. UnreportedIn(tokens)
        BY <2>3, <2>8 DEF ReportInv, AfterIps
      <3>2. UnreportedIn(tokens)'
        BY <1>1, <1>2, <2>2, <3>1 DEF tokens
      <3>3. QED
        BY <2>5, <3>2 DEF ReportInv
    <2>9. QED
      BY <2>6, <2>7, <2>8
  <1>7. QED
    BY <1>4, <1>5, <1>6

---------------------------------------------------------------------------
(* All steps together. *)

\* Nothing is collapsed or reported after pass 1.
LEMMA ReportStands ==
    ASSUME ReportInv, UNCHANGED <<files, collapsed_sources, ipv4_subnet_collapsed>>,
           \/ UNCHANGED <<file, pass>>
           \/ pass \in Sealed /\ pass' \in Sealed
    PROVE  ReportInv'
  <1>1. UNCHANGED Unreported
    BY DEF Unreported
  <1>2. Sealed \cap AfterIps = {}
    BY PassOrder DEF Sealed, AfterIps
  <1>3. QED
    BY <1>1, <1>2 DEF ReportInv, UnreportedIn, NetInString, tokens

LEMMA InitReportInv == Init => ReportInv
  <1>1. Init => pass = "prescan"
    BY DEF Init, ScannerInit
  <1>2. QED
    BY <1>1, PassOrder DEF ReportInv, AfterIps, Sealed

LEMMA StepKeepsReportInv == PInv /\ ReportInv /\ [Next]_vars => ReportInv'
  <1>1. SUFFICES ASSUME PInv, ReportInv, [Next]_vars PROVE ReportInv'
    OBVIOUS
  <1>2. CASE ScannerNext /\ UNCHANGED results /\ ~NextWalker
    BY <1>1, <1>2, ScannerScans, ScannerSurveys, SurveysStep
  <1>3. CASE NextWalker
    BY <1>1, <1>3, NextWalkerReports
  <1>4. CASE \/ EnterRuleBody \/ RedactValue \/ RedactBraced
             \/ KeepBraced \/ KeepField \/ EmitToken
    <2>1. /\ pass = "substitute" /\ UNCHANGED <<files, file, pass>>
          /\ UNCHANGED <<collapsed_sources, ipv4_subnet_collapsed>>
      BY <1>4 DEF EnterRuleBody, RedactValue, RedactBraced, KeepBraced, KeepField, EmitToken,
                  RedactDescription, InPass2, Pass2Keeps, allocators, diagnostics, Advance
    <2>2. QED
      BY <1>1, <2>1, ReportStands
  <1>5. CASE FinishFile \/ RestorePiece \/ FinishRestore
    <2>1. /\ pass \in Sealed /\ pass' \in Sealed
          /\ UNCHANGED <<files, collapsed_sources, ipv4_subnet_collapsed>>
      BY <1>5 DEF FinishFile, RestorePiece, FinishRestore, Advance, ledger, allocators,
                  diagnostics, results, Sealed
    <2>2. QED
      BY <1>1, <2>1, ReportStands
  <1>6. CASE UNCHANGED vars
    <2>1. UNCHANGED <<files, file, pass, collapsed_sources, ipv4_subnet_collapsed>>
      BY <1>6 DEF vars, discovery_vars, loop, ledger, allocators, diagnostics
    <2>2. QED
      BY <1>1, <2>1, ReportStands
  <1>7. QED
    BY <1>1, <1>2, <1>3, <1>4, <1>5, <1>6 DEF Next

\* What is missing from the report are nets with an address in a string of the
\* last file: all that words collapsed, and strings of earlier files, is in it.
THEOREM CollapsesAreReported == Spec => []CollapsesOfWordsReported
  <1>1. ReportInv => CollapsesOfWordsReported
    BY DEF ReportInv, CollapsesOfWordsReported, Sanitized, Sealed, UnreportedIn, Unreported
  <1>2. Spec => []ReportInv
    BY ProgramInOrder, InitReportInv, StepKeepsReportInv, PTL DEF Spec
  <1>3. QED
    BY <1>1, <1>2, PTL
===========================================================================
