-------------------------- MODULE AllocatorProofs --------------------------
(***************************************************************************)
(* The allocators within the ledger, seen through its table: the IPv6 pool *)
(* keeps the structure of the networks, and the session vocabulary runs as *)
(* module SessionVocab says and passes over no word it could use.          *)
(***************************************************************************)
EXTENDS AnswerFile, LedgerProofs

---------------------------------------------------------------------------
(***************************************************************************)
(* The IPv6 pool within the ledger.  A literal that was given an address   *)
(* keeps the documentation /64 of its own /64, because no other entry is   *)
(* ever made under its key and no /64 is given a second one.               *)
(***************************************************************************)

Literals6 == SourceNets6 \X Hosts6 \X Spellings
Key6(lit) == <<"IPADDR", <<"ipv6", lit>>>>

\* Every /64 has a documentation /64 of its own, of those given so far.
Owners6 ==
    /\ \A net \in SourceNets6 : subnet_map6[net] <= next_subnet_idx6
    /\ \A m, n \in SourceNets6 :
          subnet_map6[m] = subnet_map6[n] /\ subnet_map6[m] # 0 => m = n

\* A literal stands under the documentation /64 of its /64, with its host part.
Placed6(b, map) ==
    \A lit \in Literals6 :
        Key6(lit) \in DOMAIN b.by_original =>
            /\ b.by_original[Key6(lit)] = <<"ipv6", <<map[lit[1]], lit[2]>>>>
            /\ map[lit[1]] # 0

Pool6Inv == Owners6 /\ Placed6(book, subnet_map6)

---------------------------------------------------------------------------
\* An entry under another key leaves the literals where they are.
LEMMA OtherKeyKeepsPlaces ==
    ASSUME NEW b, NEW map, Placed6(b, map), NEW kind, NEW original, NEW partition, NEW text,
           \A lit \in Literals6 : Key6(lit) # <<kind, original>>
    PROVE  Placed6(Enter(b, kind, original, partition, text), map)
  <1> DEFINE c == Enter(b, kind, original, partition, text)
  <1>1. /\ DOMAIN c.by_original = DOMAIN b.by_original \cup {<<kind, original>>}
        /\ \A key \in DOMAIN b.by_original :
              key # <<kind, original>> => c.by_original[key] = b.by_original[key]
    BY DEF Enter, Bind
  <1> HIDE DEF c
  <1>2. ASSUME NEW lit \in Literals6, Key6(lit) \in DOMAIN c.by_original
        PROVE  /\ c.by_original[Key6(lit)] = <<"ipv6", <<map[lit[1]], lit[2]>>>>
               /\ map[lit[1]] # 0
    <2>1. Key6(lit) \in DOMAIN b.by_original /\ c.by_original[Key6(lit)] = b.by_original[Key6(lit)]
      BY <1>1, <1>2
    <2>2. QED
      BY <2>1 DEF Placed6
  <1>3. Placed6(c, map)
    BY <1>2 DEF Placed6
  <1>4. QED
    BY <1>3 DEF c

LEMMA InternKeepsPlaces ==
    ASSUME NEW b, NEW map, Placed6(b, map), NEW kind, kind # "IPADDR",
           NEW original, NEW partition
    PROVE  Placed6(Intern(b, kind, original, partition), map)
  <1>1. \A lit \in Literals6 : Key6(lit) # <<kind, original>>
    BY DEF Key6
  <1>2. Placed6(Enter(b, kind, original, partition, <<kind, Number(b, kind)>>), map)
    BY <1>1, OtherKeyKeepsPlaces
  <1>3. QED
    BY <1>2 DEF Intern

LEMMA RenderedKeepsPlaces ==
    ASSUME NEW b, NEW map, Placed6(b, map), NEW kind, NEW original, NEW text,
           \A lit \in Literals6 : Key6(lit) # <<kind, original>>
    PROVE  Placed6(EnterRendered(b, kind, original, text), map)
  <1>1. Placed6(Enter(b, kind, original, None, text), map)
    BY OtherKeyKeepsPlaces
  <1>2. QED
    BY <1>1 DEF EnterRendered

\* A /64 that claims a documentation /64 takes the next one, or keeps its own.
LEMMA ClaimKeepsOwners6 ==
    ASSUME PoolsTypeOK, Owners6, NEW net \in SourceNets6, V6!ClaimDocsNet(net)
    PROVE  /\ Owners6'
           /\ subnet_map6'[net] = V6!DocsNet(net) /\ subnet_map6'[net] # 0
           /\ \A other \in SourceNets6 :
                 subnet_map6[other] # 0 => subnet_map6'[other] = subnet_map6[other]
  <1> USE DEF PoolsTypeOK, V6!ClaimDocsNet
  <1>1. /\ subnet_map6 \in [SourceNets6 -> Nat] /\ next_subnet_idx6 \in Nat
        /\ subnet_map6' = [subnet_map6 EXCEPT ![net] = V6!DocsNet(net)]
    BY SizeAssumption
  <1>2. CASE subnet_map6[net] # 0
    <2>1. subnet_map6' = subnet_map6 /\ next_subnet_idx6' = next_subnet_idx6
          /\ V6!DocsNet(net) = subnet_map6[net]
      BY <1>1, <1>2 DEF V6!DocsNet, V6!Known
    <2>2. QED
      BY <1>2, <2>1 DEF Owners6
  <1>3. CASE subnet_map6[net] = 0
    <2>1. /\ V6!DocsNet(net) = next_subnet_idx6 + 1
          /\ next_subnet_idx6' = next_subnet_idx6 + 1
      BY <1>3 DEF V6!DocsNet, V6!Known
    <2>2. /\ subnet_map6'[net] = next_subnet_idx6 + 1
          /\ \A other \in SourceNets6 :
                other # net => subnet_map6'[other] = subnet_map6[other]
      BY <1>1, <2>1
    <2>3. \A other \in SourceNets6 :
              subnet_map6[other] \in Nat /\ subnet_map6[other] <= next_subnet_idx6
      BY <1>1 DEF Owners6
    <2>4. Owners6'
      BY <1>1, <2>1, <2>2, <2>3 DEF Owners6
    <2>5. QED
      BY <1>1, <1>3, <2>1, <2>2, <2>4
  <1>4. QED
    BY <1>2, <1>3

\* Literals keep their places when their own /64s keep theirs.
LEMMA MapKeepsPlaces ==
    ASSUME NEW b, NEW map, NEW new, Placed6(b, map),
           \A net \in SourceNets6 : map[net] # 0 => new[net] = map[net]
    PROVE  Placed6(b, new)
  <1>1. \A lit \in Literals6 : lit[1] \in SourceNets6
    BY DEF Literals6
  <1>2. QED
    BY <1>1 DEF Placed6

LEMMA Ipv6KeepsPool6 ==
    ASSUME PoolsTypeOK, Pool6Inv, NEW lit \in Literals6, InternIpv6(lit)
    PROVE  Pool6Inv'
  <1>0. lit[1] \in SourceNets6
    BY DEF Literals6
  <1>1. ASSUME NEW slot, V6!Allocate(lit, slot),
               book' = EnterRendered(book, "IPADDR", <<"ipv6", lit>>, <<"ipv6", slot>>)
        PROVE  Pool6Inv'
    <2>1. V6!ClaimDocsNet(lit[1]) /\ slot = <<V6!DocsNet(lit[1]), lit[2]>>
      BY <1>1 DEF V6!Allocate, V6!OwnSlot
    <2>2. /\ Owners6' /\ subnet_map6'[lit[1]] = V6!DocsNet(lit[1]) /\ subnet_map6'[lit[1]] # 0
          /\ \A net \in SourceNets6 :
                subnet_map6[net] # 0 => subnet_map6'[net] = subnet_map6[net]
      BY <1>0, <2>1, ClaimKeepsOwners6 DEF Pool6Inv
    <2>3. Placed6(book, subnet_map6')
      BY <2>2, MapKeepsPlaces DEF Pool6Inv
    <2>4. CASE book' = book
      BY <2>2, <2>3, <2>4 DEF Pool6Inv
    <2>5. CASE book' = Enter(book, "IPADDR", <<"ipv6", lit>>, None, <<"ipv6", slot>>)
      <3>1. /\ DOMAIN book'.by_original = DOMAIN book.by_original \cup {Key6(lit)}
            /\ book'.by_original[Key6(lit)] = <<"ipv6", slot>>
            /\ \A key \in DOMAIN book.by_original :
                  key # Key6(lit) => book'.by_original[key] = book.by_original[key]
        BY <2>5 DEF Enter, Bind, Key6
      <3>2. ASSUME NEW other \in Literals6, Key6(other) \in DOMAIN book'.by_original
            PROVE  /\ book'.by_original[Key6(other)]
                          = <<"ipv6", <<subnet_map6'[other[1]], other[2]>>>>
                   /\ subnet_map6'[other[1]] # 0
        <4>1. CASE other = lit
          BY <2>1, <2>2, <3>1, <4>1
        <4>2. CASE other # lit
          <5>1. Key6(other) # Key6(lit)
            BY <4>2 DEF Key6
          <5>2. QED
            BY <2>3, <3>1, <3>2, <5>1 DEF Placed6
        <4>3. QED
          BY <4>1, <4>2
      <3>3. Placed6(book', subnet_map6')
        BY <3>2 DEF Placed6
      <3>4. QED
        BY <2>2, <3>3 DEF Pool6Inv
    <2>6. QED
      BY <1>1, <2>4, <2>5 DEF EnterRendered
  <1>2. CASE V6!Collides(lit) /\ UNCHANGED book
    <2>1. /\ Owners6'
          /\ \A net \in SourceNets6 :
                subnet_map6[net] # 0 => subnet_map6'[net] = subnet_map6[net]
      BY <1>0, <1>2, ClaimKeepsOwners6 DEF Pool6Inv, V6!Collides
    <2>2. QED
      BY <1>2, <2>1, MapKeepsPlaces DEF Pool6Inv
  <1>3. CASE V6!Exhausted(lit) /\ UNCHANGED book
    BY <1>3 DEF V6!Exhausted, V6!pool, Pool6Inv, Owners6
  <1>4. QED
    BY <1>1, <1>2, <1>3 DEF InternIpv6

\* The steps of the other families do not touch the pool.
LEMMA OthersKeepPool6 ==
    ASSUME Pool6Inv, UNCHANGED v6, Placed6(book', subnet_map6)
    PROVE  Pool6Inv'
  BY DEF Pool6Inv, Owners6, v6

LEMMA Pool6Step == IInv /\ Pool6Inv /\ [Next]_vars => Pool6Inv'
  <1> SUFFICES ASSUME IInv, Pool6Inv, [Next]_vars PROVE Pool6Inv'
    OBVIOUS
  <1>0. "IPADDR" \notin OpaqueKinds
    BY KindAssumption DEF RenderedKinds
  <1>1. ASSUME NEW kind \in TextKinds, NEW name \in Names, InternText(kind, name)
        PROVE  Pool6Inv'
    <2>1. kind # "IPADDR"
      BY <1>0 DEF OpaqueKinds
    <2>2. QED
      BY <1>1, <2>1, InternKeepsPlaces, OthersKeepPool6 DEF InternText, Pool6Inv
  <1>2. ASSUME NEW kind \in PathKinds, NEW path \in Paths, RegisterPath(kind, path)
        PROVE  Pool6Inv'
    <2>1. kind # "IPADDR"
      BY <1>0 DEF OpaqueKinds
    <2>2. Placed6(InternPartition(book, path[1]), subnet_map6)
      BY InternKeepsPlaces DEF InternPartition, Pool6Inv
    <2>3. QED
      BY <1>2, <2>1, <2>2, InternKeepsPlaces, OthersKeepPool6 DEF RegisterPath
  <1>3. ASSUME NEW addr, InternIpv4(addr)
        PROVE  Pool6Inv'
    <2>1. \A lit \in Literals6 : Key6(lit) # <<"IPADDR", <<"ipv4", addr>>>>
      BY DEF Key6
    <2>2. ASSUME NEW slot,
                 book' = EnterRendered(book, "IPADDR", <<"ipv4", addr>>, <<"ipv4", slot>>)
          PROVE  Placed6(book', subnet_map6)
      BY <2>1, <2>2, RenderedKeepsPlaces DEF Pool6Inv
    <2>3. QED
      BY <1>3, <2>2, OthersKeepPool6 DEF InternIpv4, Pool6Inv
  <1>4. ASSUME NEW lit \in Literals6, InternIpv6(lit)
        PROVE  Pool6Inv'
    BY <1>4, Ipv6KeepsPool6 DEF IInv
  <1>5. ASSUME NEW kind \in {"SESSION_NS", "IRULE_IDENT"}, NEW original, NEW text,
               book' = EnterRendered(book, kind, original, text), UNCHANGED v6
        PROVE  Pool6Inv'
    <2>1. \A lit \in Literals6 : Key6(lit) # <<kind, original>>
      BY DEF Key6
    <2>2. QED
      BY <1>5, <2>1, RenderedKeepsPlaces, OthersKeepPool6 DEF Pool6Inv
  <1>6. ASSUME NEW stamp, InternTimestamp(stamp)
        PROVE  Pool6Inv'
    <2>1. \A lit \in Literals6 : Key6(lit) # <<"TIMESTAMP", stamp>>
      BY DEF Key6
    <2>2. ASSUME NEW text, book' = Enter(book, "TIMESTAMP", stamp, None, text)
          PROVE  Placed6(book', subnet_map6)
      BY <2>1, <2>2, OtherKeyKeepsPlaces DEF Pool6Inv
    <2>3. QED
      BY <1>6, <2>2, OthersKeepPool6 DEF InternTimestamp, Pool6Inv
  <1>7. ASSUME NEW word, InternSessionNamespaceWord(word)
        PROVE  Pool6Inv'
    BY <1>5, <1>7 DEF InternSessionNamespaceWord
  <1>8. ASSUME NEW identifier, NEW text, InternIruleIdent(identifier, text)
        PROVE  Pool6Inv'
    BY <1>5, <1>8 DEF InternIruleIdent
  <1>9. CASE UNCHANGED <<book, v6>>
    BY <1>9, OthersKeepPool6 DEF Pool6Inv
  <1>10. QED
    BY <1>1, <1>2, <1>3, <1>4, <1>6, <1>7, <1>8, <1>9
       DEF Next, vars, Literals6, MarkSessionNsUnsafe, RecordReference, Freeze

\* IPv6 literals of one /64 stay in one /64 and keep their host parts, literals
\* of two are kept apart, and no two share an address.
THEOREM LedgerIpv6Structure == Spec => []Ipv6StructureKept
  <1>1. Init => Pool6Inv
    BY DEF Init, EmptyBook, Pool6Inv, Owners6, Placed6
  <1>2. IInv /\ Pool6Inv => Ipv6StructureKept
    <2> SUFFICES ASSUME IInv, Pool6Inv,
                        NEW a \in Literals6, NEW b \in Literals6,
                        Key6(a) \in DOMAIN book.by_original,
                        Key6(b) \in DOMAIN book.by_original
                 PROVE  LET place(lit) == book.by_original[Key6(lit)][2]
                        IN  /\ place(a) = place(b) => a = b
                            /\ place(a)[1] = place(b)[1] <=> a[1] = b[1]
                            /\ place(a)[2] = a[2]
      BY DEF Ipv6StructureKept, V6!StructurePreserved, Literals6, Key6
    <2> DEFINE texta == book.by_original[Key6(a)]
               textb == book.by_original[Key6(b)]
    <2>1. /\ texta = <<"ipv6", <<subnet_map6[a[1]], a[2]>>>> /\ subnet_map6[a[1]] # 0
          /\ textb = <<"ipv6", <<subnet_map6[b[1]], b[2]>>>> /\ subnet_map6[b[1]] # 0
      BY DEF Pool6Inv, Placed6
    <2>2. a[1] \in SourceNets6 /\ b[1] \in SourceNets6
      BY DEF Literals6
    <2>3. subnet_map6[a[1]] = subnet_map6[b[1]] <=> a[1] = b[1]
      BY <2>1, <2>2 DEF Pool6Inv, Owners6
    <2>4. texta = textb => a = b
      <3>1. KeyOf(book.entries[texta]) = Key6(a) /\ KeyOf(book.entries[textb]) = Key6(b)
        BY DEF IInv, Sound, Inverse
      <3>2. Key6(a) = Key6(b) => a = b
        BY DEF Key6
      <3>3. QED
        BY <3>1, <3>2
    <2>5. texta[2] = textb[2] => texta = textb
      BY <2>1
    <2>6. QED
      BY <2>1, <2>3, <2>4, <2>5
  <1>3. QED
    BY <1>1, <1>2, Pool6Step, LedgerInvariant, PTL DEF Spec

---------------------------------------------------------------------------
(***************************************************************************)
(* The session vocabulary within the ledger.  Seen through the table, the  *)
(* ledger takes the steps of SessionVocab and no others; and the counter   *)
(* of the allocator has never passed a word it could have used, although   *)
(* identifiers take words too, and words become unsafe at any time.        *)
(***************************************************************************)

\* What VW sees of a table.
MintedIn(b) ==
    [o \in {x \in SessionWords : <<"SESSION_NS", x>> \in DOMAIN b.by_original}
        |-> b.by_original[<<"SESSION_NS", o>>][2]]
ForeignIn(b) ==
    {text[2] : text \in {t \in DOMAIN b.entries :
                   t \in WordTexts /\ b.entries[t].kind # "SESSION_NS"}}

\* The candidates that are entries, of whatever kind.
Taken(b) == {text[2] : text \in {t \in DOMAIN b.entries : t \in WordTexts}}

\* The entries of session words are vocabulary words.  Without it a session
\* word might hold a candidate that the table does not show to be taken.
WordsApart(b) ==
    \A text \in DOMAIN b.entries :
        b.entries[text].kind = "SESSION_NS" =>
            text \in WordTexts /\ b.entries[text].original \in SessionWords

SameWords(c, b) ==
    /\ MintedIn(c) = MintedIn(b) /\ ForeignIn(c) = ForeignIn(b)
    /\ WordsApart(c)

LEMMA SeenByVocab ==
    /\ VW!vars = <<session_ns_unsafe, assigned_count, MintedIn(book), ForeignIn(book)>>
    /\ VW!vars' = <<session_ns_unsafe', assigned_count', MintedIn(book'), ForeignIn(book')>>
  BY DEF VW!vars, Answers, MintedIn, ForeignIn

LEMMA WordText ==
    ASSUME NEW text \in WordTexts
    PROVE  text = <<"word", text[2]>> /\ text[2] \in VW!Candidates
  BY DEF WordTexts, VW!Candidates, VW!Plain, VW!Size, VW!Cycles

LEMMA CandidateText ==
    ASSUME NEW candidate \in VW!Candidates
    PROVE  <<"word", candidate>> \in WordTexts
  BY DEF WordTexts, VW!Candidates, VW!Plain, VW!Size, VW!Cycles

\* What the allocator takes for taken are the vocabulary words in the table.
LEMMA EntriesAreTaken ==
    ASSUME NEW b, Inverse(b), WordsApart(b)
    PROVE  ForeignIn(b) \cup {MintedIn(b)[w] : w \in DOMAIN MintedIn(b)} = Taken(b)
  <1>1. ASSUME NEW w \in DOMAIN MintedIn(b)
        PROVE  MintedIn(b)[w] \in Taken(b)
    <2> DEFINE text == b.by_original[<<"SESSION_NS", w>>]
    <2>1. <<"SESSION_NS", w>> \in DOMAIN b.by_original /\ MintedIn(b)[w] = text[2]
      BY DEF MintedIn
    <2>2. text \in DOMAIN b.entries /\ KeyOf(b.entries[text]) = <<"SESSION_NS", w>>
      BY <2>1 DEF Inverse
    <2>3. b.entries[text].kind = "SESSION_NS"
      BY <2>2 DEF KeyOf
    <2>4. text \in WordTexts
      BY <2>2, <2>3 DEF WordsApart
    <2>5. QED
      BY <2>1, <2>2, <2>4 DEF Taken
  <1>2. ForeignIn(b) \subseteq Taken(b)
    BY DEF ForeignIn, Taken
  <1>3. ASSUME NEW text \in DOMAIN b.entries, text \in WordTexts,
               b.entries[text].kind = "SESSION_NS"
        PROVE  \E w \in DOMAIN MintedIn(b) : text[2] = MintedIn(b)[w]
    <2> DEFINE w == b.entries[text].original
    <2>1. w \in SessionWords /\ KeyOf(b.entries[text]) = <<"SESSION_NS", w>>
      BY <1>3 DEF WordsApart, KeyOf
    <2>2. /\ <<"SESSION_NS", w>> \in DOMAIN b.by_original
          /\ b.by_original[<<"SESSION_NS", w>>] = text
      BY <2>1 DEF Inverse
    <2>3. w \in DOMAIN MintedIn(b) /\ MintedIn(b)[w] = text[2]
      BY <2>1, <2>2 DEF MintedIn
    <2>4. QED
      BY <2>3
  <1>4. Taken(b) \subseteq ForeignIn(b) \cup {MintedIn(b)[w] : w \in DOMAIN MintedIn(b)}
    BY <1>3 DEF Taken, ForeignIn
  <1>5. QED
    BY <1>1, <1>2, <1>4

---------------------------------------------------------------------------
(***************************************************************************)
(* What an entry of each family does to the words.                         *)
(***************************************************************************)
LEMMA OtherEntryKeepsWords ==
    ASSUME NEW b, WordsApart(b), NEW kind, kind # "SESSION_NS",
           NEW original, NEW partition, NEW text, text \notin WordTexts
    PROVE  SameWords(Enter(b, kind, original, partition, text), b)
  <1> DEFINE c == Enter(b, kind, original, partition, text)
  <1>1. /\ DOMAIN c.entries = DOMAIN b.entries \cup {text}
        /\ c.entries[text].kind = kind
        /\ \A t \in DOMAIN b.entries : t # text => c.entries[t] = b.entries[t]
        /\ DOMAIN c.by_original = DOMAIN b.by_original \cup {<<kind, original>>}
        /\ \A key \in DOMAIN b.by_original :
              key # <<kind, original>> => c.by_original[key] = b.by_original[key]
    BY DEF Enter, Bind, Entry
  <1> HIDE DEF c
  <1>2. /\ DOMAIN MintedIn(c) = DOMAIN MintedIn(b)
        /\ \A w \in DOMAIN MintedIn(b) : MintedIn(c)[w] = MintedIn(b)[w]
    BY <1>1 DEF MintedIn
  <1>3. MintedIn(c) = MintedIn(b)
    BY <1>2 DEF MintedIn
  <1>4. ForeignIn(c) = ForeignIn(b)
    <2>1. {t \in DOMAIN c.entries : t \in WordTexts /\ c.entries[t].kind # "SESSION_NS"}
              = {t \in DOMAIN b.entries : t \in WordTexts /\ b.entries[t].kind # "SESSION_NS"}
      BY <1>1
    <2>2. QED
      BY <2>1 DEF ForeignIn
  <1>5. WordsApart(c)
    BY <1>1 DEF WordsApart
  <1>6. SameWords(c, b)
    BY <1>3, <1>4, <1>5 DEF SameWords
  <1>7. QED
    BY <1>6 DEF c

LEMMA InternKeepsWords ==
    ASSUME NEW b, WordsApart(b), NEW kind \in OpaqueKinds, NEW original, NEW partition
    PROVE  SameWords(Intern(b, kind, original, partition), b)
  <1>1. kind # "SESSION_NS" /\ kind # "word"
    BY KindAssumption DEF RenderedKinds, Tags
  <1>2. <<kind, Number(b, kind)>> \notin WordTexts
    BY <1>1 DEF WordTexts
  <1>3. SameWords(Enter(b, kind, original, partition, <<kind, Number(b, kind)>>), b)
    BY <1>1, <1>2, OtherEntryKeepsWords
  <1>4. QED
    BY <1>3 DEF Intern, SameWords

LEMMA RenderedKeepsWords ==
    ASSUME NEW b, WordsApart(b), NEW kind, kind # "SESSION_NS", NEW original,
           NEW text, text \notin WordTexts
    PROVE  SameWords(EnterRendered(b, kind, original, text), b)
  <1>1. SameWords(Enter(b, kind, original, None, text), b)
    BY OtherEntryKeepsWords
  <1>2. QED
    BY <1>1 DEF EnterRendered, SameWords

\* A session word is bound to its candidate.
LEMMA WordIsBound ==
    ASSUME NEW b, WordsApart(b), NEW word \in SessionWords, NEW text \in WordTexts,
           text \notin DOMAIN b.entries,
           NEW c, c = Enter(b, "SESSION_NS", word, None, text)
    PROVE  /\ MintedIn(c) = VW!Bind(MintedIn(b), word, text[2])
           /\ ForeignIn(c) = ForeignIn(b) /\ WordsApart(c)
  <1>1. /\ DOMAIN c.entries = DOMAIN b.entries \cup {text}
        /\ c.entries[text] = Entry("SESSION_NS", word, None)
        /\ \A t \in DOMAIN b.entries : c.entries[t] = b.entries[t]
        /\ DOMAIN c.by_original = DOMAIN b.by_original \cup {<<"SESSION_NS", word>>}
        /\ c.by_original[<<"SESSION_NS", word>>] = text
        /\ \A key \in DOMAIN b.by_original :
              key # <<"SESSION_NS", word>> => c.by_original[key] = b.by_original[key]
    BY DEF Enter, Bind
  <1>2. c.entries[text].kind = "SESSION_NS" /\ c.entries[text].original = word
    BY <1>1 DEF Entry
  <1>3. MintedIn(c) = VW!Bind(MintedIn(b), word, text[2])
    <2>1. DOMAIN MintedIn(c) = DOMAIN MintedIn(b) \cup {word}
      BY <1>1 DEF MintedIn
    <2>2. MintedIn(c)[word] = text[2]
      BY <1>1, <2>1 DEF MintedIn
    <2>3. \A w \in DOMAIN MintedIn(b) : w # word => MintedIn(c)[w] = MintedIn(b)[w]
      BY <1>1 DEF MintedIn
    <2>4. MintedIn(c) = [w \in DOMAIN MintedIn(c) |-> MintedIn(c)[w]]
      BY DEF MintedIn
    <2>5. QED
      BY <2>1, <2>2, <2>3, <2>4 DEF VW!Bind
  <1>4. ForeignIn(c) = ForeignIn(b)
    <2>1. {t \in DOMAIN c.entries : t \in WordTexts /\ c.entries[t].kind # "SESSION_NS"}
              = {t \in DOMAIN b.entries : t \in WordTexts /\ b.entries[t].kind # "SESSION_NS"}
      BY <1>1, <1>2
    <2>2. QED
      BY <2>1 DEF ForeignIn
  <1>5. WordsApart(c)
    BY <1>1, <1>2 DEF WordsApart
  <1>6. QED
    BY <1>3, <1>4, <1>5

\* An identifier that reads like a candidate makes it foreign.
LEMMA IdentIsForeign ==
    ASSUME NEW b, WordsApart(b), NEW identifier, NEW text \in WordTexts,
           text \notin DOMAIN b.entries,
           NEW c, c = Enter(b, "IRULE_IDENT", identifier, None, text)
    PROVE  /\ MintedIn(c) = MintedIn(b)
           /\ ForeignIn(c) = ForeignIn(b) \cup {text[2]} /\ WordsApart(c)
  <1>1. /\ DOMAIN c.entries = DOMAIN b.entries \cup {text}
        /\ c.entries[text].kind = "IRULE_IDENT"
        /\ \A t \in DOMAIN b.entries : c.entries[t] = b.entries[t]
        /\ DOMAIN c.by_original = DOMAIN b.by_original \cup {<<"IRULE_IDENT", identifier>>}
        /\ \A key \in DOMAIN b.by_original :
              key # <<"IRULE_IDENT", identifier>> => c.by_original[key] = b.by_original[key]
    BY DEF Enter, Bind, Entry
  <1>2. /\ DOMAIN MintedIn(c) = DOMAIN MintedIn(b)
        /\ \A w \in DOMAIN MintedIn(b) : MintedIn(c)[w] = MintedIn(b)[w]
    BY <1>1 DEF MintedIn
  <1>3. MintedIn(c) = MintedIn(b)
    BY <1>2 DEF MintedIn
  <1>4. ForeignIn(c) = ForeignIn(b) \cup {text[2]}
    <2>1. {t \in DOMAIN c.entries : t \in WordTexts /\ c.entries[t].kind # "SESSION_NS"}
              = {t \in DOMAIN b.entries : t \in WordTexts /\ b.entries[t].kind # "SESSION_NS"}
                    \cup {text}
      BY <1>1
    <2>2. QED
      BY <2>1 DEF ForeignIn
  <1>5. WordsApart(c)
    BY <1>1 DEF WordsApart
  <1>6. QED
    BY <1>3, <1>4, <1>5

---------------------------------------------------------------------------
(***************************************************************************)
(* Every step of the ledger is a step of the vocabulary, or none.          *)
(***************************************************************************)
LEMMA NoWordsNoStep ==
    ASSUME SameWords(book', book), UNCHANGED words
    PROVE  WordsApart(book') /\ UNCHANGED VW!vars
  BY SeenByVocab DEF SameWords, words

LEMMA WordStep ==
    ASSUME IInv, WordsApart(book), NEW word \in SessionWords,
           InternSessionNamespaceWord(word)
    PROVE  WordsApart(book') /\ VW!InternWord(word)
  <1>1. PICK candidate \in VW!Candidates, position \in 0 .. (MaxCycle + 1) * VW!Size :
            /\ VW!NextPlaceholder(candidate, position)
            /\ VW!Advance(position)
            /\ book' = EnterRendered(book, "SESSION_NS", word, <<"word", candidate>>)
    BY DEF InternSessionNamespaceWord
  <1> DEFINE text == <<"word", candidate>>
  <1>2. text \in WordTexts /\ text[2] = candidate
    BY CandidateText
  <1>3. VW!Available(candidate)
    BY <1>1 DEF VW!NextPlaceholder, VW!FoundAt
  <1>4. VW!Entries = Taken(book)
    BY EntriesAreTaken DEF IInv, Sound, VW!Entries, Answers, MintedIn, ForeignIn
  <1>5. text \notin DOMAIN book.entries
    BY <1>2, <1>3, <1>4 DEF VW!Available, Taken
  <1>6. book' = Enter(book, "SESSION_NS", word, None, text)
    BY <1>1, <1>5 DEF EnterRendered
  <1> HIDE DEF text
  <1>7. /\ MintedIn(book') = VW!Bind(MintedIn(book), word, candidate)
        /\ ForeignIn(book') = ForeignIn(book) /\ WordsApart(book')
    BY <1>2, <1>5, <1>6, WordIsBound
  <1>8. word \notin DOMAIN MintedIn(book)
    BY DEF MintedIn, InternSessionNamespaceWord, Known
  <1>9. VW!InternWord(word)
    BY <1>1, <1>7, <1>8 DEF VW!InternWord, InternSessionNamespaceWord,
       Answers, MintedIn, ForeignIn
  <1>10. QED
    BY <1>7, <1>9

LEMMA IdentStep ==
    ASSUME IInv, WordsApart(book), NEW identifier, NEW text \in IdentTexts,
           InternIruleIdent(identifier, text)
    PROVE  WordsApart(book') /\ [VW!Next]_VW!vars
  <1>1. UNCHANGED words /\ book' = EnterRendered(book, "IRULE_IDENT", identifier, text)
    BY DEF InternIruleIdent
  <1>2. CASE text \in DOMAIN book.entries
    <2>1. SameWords(book', book)
      BY <1>1, <1>2 DEF EnterRendered, SameWords
    <2>2. QED
      BY <1>1, <2>1, NoWordsNoStep
  <1>3. CASE text \notin WordTexts
    <2>1. SameWords(book', book)
      BY <1>1, <1>3, RenderedKeepsWords
    <2>2. QED
      BY <1>1, <2>1, NoWordsNoStep
  <1>4. CASE text \in WordTexts /\ text \notin DOMAIN book.entries
    <2>1. book' = Enter(book, "IRULE_IDENT", identifier, None, text)
      BY <1>1, <1>4 DEF EnterRendered
    <2>2. /\ MintedIn(book') = MintedIn(book)
          /\ ForeignIn(book') = ForeignIn(book) \cup {text[2]} /\ WordsApart(book')
      BY <1>4, <2>1, IdentIsForeign
    <2>3. VW!Entries = Taken(book)
      BY EntriesAreTaken DEF IInv, Sound, VW!Entries, Answers, MintedIn, ForeignIn
    <2>4. \A t \in WordTexts : t[2] = text[2] => t = text
      BY <1>4, WordText
    <2>5. text[2] \notin VW!Entries
      BY <1>4, <2>3, <2>4 DEF Taken
    <2>6. VW!InternForeign(text[2])
      BY <1>1, <2>2, <2>5 DEF VW!InternForeign, words, Answers, MintedIn, ForeignIn
    <2>7. QED
      BY <1>4, <2>2, <2>6, WordText DEF VW!Next
  <1>5. QED
    BY <1>2, <1>3, <1>4

LEMMA VocabStep ==
    ASSUME IInv, WordsApart(book), [Next]_vars
    PROVE  WordsApart(book') /\ [VW!Next]_VW!vars
  <1> DEFINE Step == WordsApart(book') /\ [VW!Next]_VW!vars
  <1>0. /\ TextKinds \cup PathKinds \cup {"PARTITION"} \subseteq OpaqueKinds
        /\ \A x : <<"ipv4", x>> \notin WordTexts /\ <<"ipv6", x>> \notin WordTexts
                  /\ <<"stamp", x>> \notin WordTexts
    BY DEF OpaqueKinds, WordTexts
  <1>1. ASSUME SameWords(book', book), UNCHANGED words
        PROVE  Step
    BY <1>1, NoWordsNoStep
  <1>2. ASSUME NEW kind \in TextKinds, NEW name \in Names, InternText(kind, name)
        PROVE  Step
    BY <1>0, <1>1, <1>2, InternKeepsWords DEF InternText
  <1>3. ASSUME NEW kind \in PathKinds, NEW path \in Paths, RegisterPath(kind, path)
        PROVE  Step
    <2> DEFINE b == InternPartition(book, path[1])
    <2>1. SameWords(b, book)
      BY <1>0, InternKeepsWords DEF InternPartition, SameWords
    <2>2. book' = Intern(b, kind, path, path[1]) /\ UNCHANGED words
      BY <1>3 DEF RegisterPath
    <2> HIDE DEF b
    <2>3. SameWords(book', b)
      BY <1>0, <2>1, <2>2, InternKeepsWords DEF SameWords
    <2>4. SameWords(book', book)
      BY <2>1, <2>3 DEF SameWords
    <2>5. QED
      BY <1>1, <2>2, <2>4
  <1>4. ASSUME NEW addr, InternIpv4(addr)
        PROVE  Step
    <2>1. ASSUME NEW slot,
                 book' = EnterRendered(book, "IPADDR", <<"ipv4", addr>>, <<"ipv4", slot>>)
          PROVE  SameWords(book', book)
      BY <1>0, <2>1, RenderedKeepsWords
    <2>2. QED
      BY <1>1, <1>4, <2>1 DEF InternIpv4, SameWords
  <1>5. ASSUME NEW lit, InternIpv6(lit)
        PROVE  Step
    <2>1. ASSUME NEW slot,
                 book' = EnterRendered(book, "IPADDR", <<"ipv6", lit>>, <<"ipv6", slot>>)
          PROVE  SameWords(book', book)
      BY <1>0, <2>1, RenderedKeepsWords
    <2>2. QED
      BY <1>1, <1>5, <2>1 DEF InternIpv6, SameWords
  <1>6. ASSUME NEW found \in SUBSET VW!Plain, MarkSessionNsUnsafe(found)
        PROVE  Step
    <2>1. VW!MarkUnsafe(found)
      BY <1>6 DEF MarkSessionNsUnsafe, VW!MarkUnsafe, Answers
    <2>2. QED
      BY <1>6, <2>1 DEF VW!Next, MarkSessionNsUnsafe
  <1>7. ASSUME NEW word \in SessionWords, InternSessionNamespaceWord(word)
        PROVE  Step
    BY <1>7, WordStep DEF VW!Next
  <1>8. ASSUME NEW stamp, InternTimestamp(stamp)
        PROVE  Step
    <2>1. ASSUME NEW second,
                 book' = Enter(book, "TIMESTAMP", stamp, None, StampText(stamp[1], second))
          PROVE  SameWords(book', book)
      BY <1>0, <2>1, OtherEntryKeepsWords DEF StampText
    <2>2. QED
      BY <1>1, <1>8, <2>1 DEF InternTimestamp, SameWords
  <1>9. ASSUME NEW identifier, NEW text \in IdentTexts, InternIruleIdent(identifier, text)
        PROVE  Step
    BY <1>9, IdentStep
  <1>10. CASE UNCHANGED <<book, words>>
    BY <1>1, <1>10 DEF SameWords
  <1>11. QED
    BY <1>2, <1>3, <1>4, <1>5, <1>6, <1>7, <1>8, <1>9, <1>10
       DEF Next, vars, RecordReference, Freeze

LEMMA WordsApartHolds == Spec => []WordsApart(book)
  <1>1. Init => WordsApart(book)
    BY DEF Init, EmptyBook, WordsApart
  <1>2. IInv /\ WordsApart(book) /\ [Next]_vars => WordsApart(book)'
    BY VocabStep
  <1>3. QED
    BY <1>1, <1>2, LedgerInvariant, PTL DEF Spec

\* The ledger implements SessionVocab: the words it gives out are chosen as the
\* allocator promises, and an iRule identifier that comes out as such a word is
\* refused or kept apart from them.
THEOREM LedgerUsesVocab == Spec => UsesVocab
  <1>1. Init => VW!Init
    BY DEF Init, EmptyBook, VW!Init, Answers
  <1>2. IInv /\ WordsApart(book) /\ [Next]_vars => [VW!Next]_VW!vars
    BY VocabStep
  <1>3. QED
    BY <1>1, <1>2, LedgerInvariant, WordsApartHolds, PTL DEF Spec, UsesVocab, VW!Spec

---------------------------------------------------------------------------
(***************************************************************************)
(* The counter.  A search that ends in a later cycle passes the rest of    *)
(* its own cycle, all of the cycles between and the beginning of the last; *)
(* a search that ends in its own cycle never wraps around to the slots     *)
(* before the counter, because the invariant says that those are taken.    *)
(***************************************************************************)
LEMMA Division ==
    ASSUME NEW p \in Nat, NEW s \in Nat, s > 0
    PROVE  /\ p \div s \in Nat /\ p % s \in 0 .. s - 1
           /\ p = ((p \div s) * s) + (p % s)
           /\ (p \div s) * s <= p /\ p < ((p \div s) + 1) * s
  OBVIOUS

LEMMA InCycle ==
    ASSUME NEW p \in Nat, NEW q \in Nat, NEW s \in Nat, s > 0,
           q * s <= p, p < (q + 1) * s
    PROVE  p \div s = q
  OBVIOUS

LEMMA CycleSlot ==
    ASSUME NEW q \in Nat, NEW r \in Nat, NEW s \in Nat, s > 0, r < s
    PROVE  ((q * s) + r) \div s = q /\ ((q * s) + r) % s = r
  OBVIOUS

LEMMA LaterCycle ==
    ASSUME NEW q \in Nat, NEW r \in Nat, NEW s \in Nat, q < r
    PROVE  (q + 1) * s <= r * s /\ (q + 1) * s = (q * s) + s
  OBVIOUS

LEMMA VocabSize == VW!Size \in Nat /\ VW!Size > 0
  BY SizeAssumption DEF VW!Size

SlotOf(position) == VW!Candidate(position, position \div VW!Size)

\* The search passes only slots that cannot be used, and gives out the
\* candidate of the slot where it ends.
LEMMA SearchPasses ==
    ASSUME assigned_count \in Nat, VW!PassedSlotsAreUnusable,
           NEW candidate, NEW position, VW!NextPlaceholder(candidate, position)
    PROVE  /\ position \in Nat /\ candidate = SlotOf(position)
           /\ \A p \in 0 .. position - 1 : ~VW!Available(SlotOf(p))
  <1> DEFINE S == VW!Size
             C == assigned_count \div S
             r == assigned_count % S
  <1>1. S \in Nat /\ S > 0
    BY VocabSize
  <1>2. /\ C \in Nat /\ r \in 0 .. S - 1 /\ assigned_count = (C * S) + r
        /\ C * S <= assigned_count /\ assigned_count < (C + 1) * S
    BY <1>1, Division
  <1>3. C = VW!Cycle
    BY DEF VW!Cycle
  <1>4. PICK cycle \in C .. MaxCycle, offset \in 0 .. S - 1 :
            /\ \A earlier \in C .. cycle - 1 : VW!FullCycle(earlier)
            /\ VW!FoundAt(cycle, offset)
            /\ position = VW!SearchFrom(cycle) + offset
            /\ candidate = VW!Candidate(position, cycle)
    BY <1>3 DEF VW!NextPlaceholder
  <1>5. \A p \in 0 .. assigned_count - 1 : ~VW!Available(SlotOf(p))
    BY DEF VW!PassedSlotsAreUnusable, SlotOf
  <1>6. MaxCycle \in Nat
    BY SizeAssumption
  <1> HIDE DEF S, C, r
  <1>7. cycle \in Nat /\ offset \in Nat /\ offset < S /\ C <= cycle
    BY <1>1, <1>2, <1>4, <1>6
  <1>8. CASE cycle = C
    <2>1. /\ position = assigned_count + offset
          /\ VW!Available(VW!Candidate(assigned_count + offset, C))
          /\ \A o \in 0 .. offset - 1 : ~VW!Available(VW!Candidate(assigned_count + o, C))
      BY <1>3, <1>4, <1>8 DEF VW!FoundAt, VW!SearchFrom
    <2>2. position < (C + 1) * S
      <3> SUFFICES ASSUME position >= (C * S) + S PROVE FALSE
        BY <1>1, <1>2, <1>7, <2>1, LaterCycle
      <3> DEFINE before == position - S
      <3>1. /\ before \in Nat /\ before < assigned_count
            /\ C * S <= before /\ before < (C * S) + S
            /\ (C + 1) * S = (C * S) + S
        BY <1>1, <1>2, <1>7, <2>1
      <3>2. before \div S = C
        BY <1>1, <1>2, <3>1, InCycle
      <3>3. ~VW!Available(VW!Candidate(before, C))
        BY <1>5, <3>1, <3>2 DEF SlotOf, S
      <3>4. before % S = position % S
        <4>1. before = (C * S) + (before % S) /\ before % S \in 0 .. S - 1
          BY <1>1, <3>1, <3>2, Division
        <4>2. position = ((C + 1) * S) + (before % S)
          BY <1>1, <1>2, <1>7, <2>1, <3>1, <4>1
        <4>3. C + 1 \in Nat /\ before % S \in Nat /\ before % S < S
          BY <1>1, <1>2, <4>1
        <4> HIDE DEF before
        <4>4. (((C + 1) * S) + (before % S)) % S = before % S
          BY <1>1, <4>3, CycleSlot
        <4>5. QED
          BY <4>2, <4>4
      <3>5. VW!Candidate(before, C) = VW!Candidate(position, C)
        BY <3>4 DEF VW!Candidate, S
      <3>6. QED
        BY <2>1, <3>3, <3>5
    <2>3. \A p \in Nat : assigned_count <= p /\ p <= position => p \div S = C
      BY <1>1, <1>2, <1>7, <2>1, <2>2, InCycle
    <2>4. ASSUME NEW p \in 0 .. position - 1, assigned_count <= p
          PROVE  ~VW!Available(SlotOf(p))
      <3>1. p - assigned_count \in 0 .. offset - 1 /\ assigned_count + (p - assigned_count) = p
        BY <1>2, <1>7, <2>1, <2>4
      <3>2. p \div S = C
        BY <1>2, <1>7, <2>1, <2>3, <2>4
      <3>3. QED
        BY <2>1, <3>1, <3>2 DEF SlotOf, S
    <2>5. position \in Nat /\ position \div S = C
      BY <1>7, <2>1, <2>3
    <2>6. QED
      BY <1>4, <1>5, <1>8, <2>4, <2>5 DEF SlotOf, S
  <1>9. CASE cycle # C
    <2>1. C < cycle
      BY <1>2, <1>7, <1>9
    <2>2. /\ position = (cycle * S) + offset
          /\ \A o \in 0 .. offset - 1 : ~VW!Available(VW!Candidate((cycle * S) + o, cycle))
      BY <1>3, <1>4, <1>9 DEF VW!FoundAt, VW!SearchFrom, S
    <2>3. \A o \in 0 .. S - 1 : ~VW!Available(VW!Candidate(assigned_count + o, C))
      <3>1. VW!FullCycle(C)
        BY <1>2, <1>4, <1>7, <2>1
      <3>2. QED
        BY <1>3, <3>1 DEF VW!FullCycle, VW!SearchFrom, S
    <2>4. ASSUME NEW e \in Nat, C < e, e < cycle, NEW o \in 0 .. S - 1
          PROVE  ~VW!Available(VW!Candidate((e * S) + o, e))
      <3>1. VW!FullCycle(e) /\ e # VW!Cycle
        BY <1>2, <1>3, <1>4, <1>7, <2>4
      <3>2. QED
        BY <3>1, <2>4 DEF VW!FullCycle, VW!SearchFrom, S
    <2>5. ASSUME NEW p \in 0 .. position - 1, assigned_count <= p
          PROVE  ~VW!Available(SlotOf(p))
      <3> DEFINE e == p \div S
                 o == p % S
      <3>1. /\ p \in Nat /\ e \in Nat /\ o \in 0 .. S - 1 /\ p = (e * S) + o
            /\ e * S <= p /\ p < (e + 1) * S
        BY <1>1, <1>7, <2>2, <2>5, Division
      <3>2. SlotOf(p) = VW!Candidate(p, e)
        BY DEF SlotOf, S
      <3> HIDE DEF e, o
      <3>3. C <= e
        <4> SUFFICES ASSUME e < C PROVE FALSE
          BY <1>2, <3>1
        <4>1. (e + 1) * S <= C * S
          BY <1>1, <1>2, <3>1, LaterCycle
        <4>2. QED
          BY <1>1, <1>2, <2>5, <3>1, <4>1
      <3>4. e <= cycle
        <4> SUFFICES ASSUME cycle < e PROVE FALSE
          BY <1>7, <3>1
        <4>1. (cycle * S) + S <= e * S
          BY <1>1, <1>7, <3>1, LaterCycle
        <4>2. QED
          BY <1>1, <1>7, <2>2, <2>5, <3>1, <4>1
      <3>5. CASE e = C
        <4>1. p - assigned_count \in 0 .. S - 1 /\ assigned_count + (p - assigned_count) = p
          BY <1>1, <1>2, <2>5, <3>1, <3>5
        <4>2. QED
          BY <2>3, <3>2, <3>5, <4>1
      <3>6. CASE e = cycle
        <4>1. o \in 0 .. offset - 1
          BY <1>1, <1>7, <2>2, <2>5, <3>1, <3>6
        <4>2. QED
          BY <2>2, <3>1, <3>2, <3>6, <4>1
      <3>7. CASE e # C /\ e # cycle
        BY <1>2, <1>7, <2>4, <3>1, <3>2, <3>3, <3>4, <3>7
      <3>8. QED
        BY <3>5, <3>6, <3>7
    <2>6. position \in Nat /\ position \div S = cycle
      BY <1>1, <1>7, <2>2, CycleSlot
    <2>7. QED
      BY <1>4, <1>5, <2>5, <2>6 DEF SlotOf, S
  <1>10. QED
    BY <1>8, <1>9

\* Every step of the vocabulary leaves the slots before its counter unusable:
\* what is taken or unsafe stays so, and the candidate that is given out at the
\* end of a search becomes taken.
LEMMA CounterStep ==
    ASSUME assigned_count \in Nat, VW!PassedSlotsAreUnusable, [VW!Next]_VW!vars
    PROVE  VW!PassedSlotsAreUnusable'
  <1> DEFINE minted == Answers("SESSION_NS", SessionWords)
             foreign == ForeignIn(book)
  <1>1. /\ VW!Entries = foreign \cup {minted[w] : w \in DOMAIN minted}
        /\ VW!Entries' = foreign' \cup {minted'[w] : w \in DOMAIN minted'}
    BY DEF VW!Entries, ForeignIn
  <1>2. \A p \in 0 .. assigned_count - 1 : ~VW!Available(SlotOf(p))
    BY DEF VW!PassedSlotsAreUnusable, SlotOf
  <1>3. ASSUME VW!Entries \subseteq VW!Entries', session_ns_unsafe \subseteq session_ns_unsafe',
               \A p \in 0 .. assigned_count' - 1 :
                   ~VW!Available(SlotOf(p)) \/ SlotOf(p) \in VW!Entries'
        PROVE  VW!PassedSlotsAreUnusable'
    <2>1. \A p \in 0 .. assigned_count' - 1 : ~VW!Available(SlotOf(p))'
      BY <1>3 DEF VW!Available, SlotOf, VW!Candidate
    <2>2. QED
      BY <2>1 DEF VW!PassedSlotsAreUnusable, SlotOf, VW!Candidate
  <1>4. ASSUME NEW found, VW!MarkUnsafe(found)
        PROVE  VW!PassedSlotsAreUnusable'
    BY <1>1, <1>2, <1>3, <1>4 DEF VW!MarkUnsafe, ForeignIn
  <1>5. ASSUME NEW candidate, VW!InternForeign(candidate)
        PROVE  VW!PassedSlotsAreUnusable'
    BY <1>1, <1>2, <1>3, <1>5 DEF VW!InternForeign, ForeignIn
  <1>6. ASSUME NEW word, VW!InternWord(word)
        PROVE  VW!PassedSlotsAreUnusable'
    <2>1. PICK candidate, position :
              /\ VW!NextPlaceholder(candidate, position)
              /\ minted' = VW!Bind(minted, word, candidate)
              /\ VW!Advance(position)
      BY <1>6 DEF VW!InternWord
    <2>2. /\ position \in Nat /\ candidate = SlotOf(position)
          /\ \A p \in 0 .. position - 1 : ~VW!Available(SlotOf(p))
      BY <2>1, SearchPasses
    <2>3. /\ word \notin DOMAIN minted /\ foreign' = foreign
          /\ session_ns_unsafe' = session_ns_unsafe
      BY <1>6 DEF VW!InternWord, ForeignIn
    <2>4. /\ DOMAIN minted' = DOMAIN minted \cup {word} /\ minted'[word] = candidate
          /\ \A w \in DOMAIN minted : minted'[w] = minted[w]
      BY <2>1, <2>3 DEF VW!Bind
    <2> HIDE DEF minted, foreign
    <2>5. VW!Entries \subseteq VW!Entries' /\ candidate \in VW!Entries'
      BY <1>1, <2>3, <2>4
    <2>6. \A p \in 0 .. assigned_count' - 1 :
              ~VW!Available(SlotOf(p)) \/ SlotOf(p) \in VW!Entries'
      <3>1. assigned_count' = position + 1
        BY <2>1 DEF VW!Advance
      <3>2. \A p \in 0 .. assigned_count' - 1 : p \in 0 .. position - 1 \/ p = position
        BY <2>2, <3>1
      <3>3. QED
        BY <2>2, <2>5, <3>2
    <2>7. QED
      BY <1>3, <2>3, <2>5, <2>6
  <1>7. CASE UNCHANGED VW!vars
    BY <1>1, <1>2, <1>3, <1>7 DEF VW!vars, ForeignIn
  <1>8. QED
    BY <1>4, <1>5, <1>6, <1>7 DEF VW!Next

\* The counter of the vocabulary never passed a word it could have used, however
\* identifiers, pre-scans and session words followed each other: no word of the
\* vocabulary is wasted, and a suffix is added only when all words are gone.
THEOREM LedgerSessionWords == Spec => []SessionWordsUsed
  <1>1. Init => VW!PassedSlotsAreUnusable
    BY DEF Init, VW!PassedSlotsAreUnusable
  <1>2. IInv /\ WordsApart(book) /\ VW!PassedSlotsAreUnusable /\ [Next]_vars
            => VW!PassedSlotsAreUnusable'
    <2>1. IInv => assigned_count \in Nat
      BY DEF IInv, PoolsTypeOK
    <2>2. QED
      BY <2>1, VocabStep, CounterStep
  <1>3. Spec => []VW!PassedSlotsAreUnusable
    BY <1>1, <1>2, LedgerInvariant, WordsApartHolds, PTL DEF Spec
  <1>4. QED
    BY <1>3, PTL DEF SessionWordsUsed
===========================================================================
