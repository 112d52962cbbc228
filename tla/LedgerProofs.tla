--------------------------- MODULE LedgerProofs ---------------------------
(***************************************************************************)
(* What the ledger guarantees for every set of kinds, names, addresses and *)
(* vocabulary words.  The first part is about one entry added to the table *)
(* and does not mention the state; the second follows the actions.         *)
(***************************************************************************)
EXTENDS Ledger, TLAPS

\* The table invariant, except for the partitions: see RegisterPathKeeps.
Sound(b) == BookTypeOK(b) /\ Inverse(b) /\ Numbered(b)

\* c holds everything b holds.
Extends(c, b) ==
    /\ \A text \in DOMAIN b.entries :
          text \in DOMAIN c.entries /\ c.entries[text] = b.entries[text]
    /\ DOMAIN b.by_original \subseteq DOMAIN c.by_original

\* c holds everything b holds and maybe opaque entries of one partition.
AddsOpaque(c, b, partition) ==
    /\ Extends(c, b)
    /\ \A text \in DOMAIN c.entries \ DOMAIN b.entries :
          text \in OpaqueTexts /\ c.entries[text].partition = partition

---------------------------------------------------------------------------
\* The dictionaries after one entry is added.
LEMMA EnterEffect ==
    ASSUME NEW b, NEW kind, NEW original, NEW partition, NEW text,
           NEW c, c = Enter(b, kind, original, partition, text)
    PROVE  /\ c = [entries |-> c.entries, by_original |-> c.by_original,
                   counters |-> c.counters]
           /\ DOMAIN c.entries = DOMAIN b.entries \cup {text}
           /\ c.entries[text] = Entry(kind, original, partition)
           /\ \A t \in DOMAIN b.entries : t # text => c.entries[t] = b.entries[t]
           /\ c.entries = [t \in DOMAIN c.entries |-> c.entries[t]]
           /\ DOMAIN c.by_original = DOMAIN b.by_original \cup {<<kind, original>>}
           /\ c.by_original[<<kind, original>>] = text
           /\ \A key \in DOMAIN b.by_original :
                 key # <<kind, original>> => c.by_original[key] = b.by_original[key]
           /\ c.by_original = [key \in DOMAIN c.by_original |-> c.by_original[key]]
           /\ c.counters = [b.counters EXCEPT ![kind] = @ + 1]
  BY DEF Enter, Bind

\* A new original under a new text keeps the dictionaries well typed and
\* inverse to each other.
LEMMA EnterKeepsInverse ==
    ASSUME NEW b, BookTypeOK(b), Inverse(b),
           NEW kind \in Kinds, NEW original \in Originals,
           NEW partition \in Partitions \cup {None}, NEW text \in Texts,
           <<kind, original>> \notin DOMAIN b.by_original,
           text \notin DOMAIN b.entries,
           NEW c, c = Enter(b, kind, original, partition, text)
    PROVE  BookTypeOK(c) /\ Inverse(c) /\ Extends(c, b)
  <1>1. /\ c = [entries |-> c.entries, by_original |-> c.by_original,
                counters |-> c.counters]
        /\ DOMAIN c.entries = DOMAIN b.entries \cup {text}
        /\ c.entries[text] = Entry(kind, original, partition)
        /\ \A t \in DOMAIN b.entries : t # text => c.entries[t] = b.entries[t]
        /\ c.entries = [t \in DOMAIN c.entries |-> c.entries[t]]
        /\ DOMAIN c.by_original = DOMAIN b.by_original \cup {<<kind, original>>}
        /\ c.by_original[<<kind, original>>] = text
        /\ \A key \in DOMAIN b.by_original :
              key # <<kind, original>> => c.by_original[key] = b.by_original[key]
        /\ c.by_original = [key \in DOMAIN c.by_original |-> c.by_original[key]]
        /\ c.counters = [b.counters EXCEPT ![kind] = @ + 1]
    BY EnterEffect
  <1>2. Extends(c, b)
    BY <1>1 DEF Extends
  <1>3. BookTypeOK(c)
    <2>1. DOMAIN c.entries \subseteq Texts
      BY <1>1 DEF BookTypeOK
    <2>2. Entry(kind, original, partition) \in
             [kind : Kinds, original : Originals, partition : Partitions \cup {None}]
      BY DEF Entry
    <2>3. c.entries \in [DOMAIN c.entries ->
             [kind : Kinds, original : Originals, partition : Partitions \cup {None}]]
      BY <1>1, <2>2 DEF BookTypeOK
    <2>4. DOMAIN c.by_original \subseteq Kinds \X Originals
      BY <1>1 DEF BookTypeOK
    <2>5. c.by_original \in [DOMAIN c.by_original -> Texts]
      BY <1>1 DEF BookTypeOK
    <2>6. c.counters \in [Kinds -> Nat]
      BY <1>1 DEF BookTypeOK
    <2>7. QED
      BY <1>1, <2>1, <2>3, <2>4, <2>5, <2>6 DEF BookTypeOK
  <1>4. KeyOf(c.entries[text]) = <<kind, original>>
    BY <1>1 DEF KeyOf, Entry
  <1>5. Inverse(c)
    <2>1. \A key \in DOMAIN c.by_original :
             /\ c.by_original[key] \in DOMAIN c.entries
             /\ KeyOf(c.entries[c.by_original[key]]) = key
      BY <1>1, <1>4 DEF Inverse
    <2>2. \A t \in DOMAIN c.entries :
             /\ KeyOf(c.entries[t]) \in DOMAIN c.by_original
             /\ c.by_original[KeyOf(c.entries[t])] = t
      BY <1>1, <1>4 DEF Inverse
    <2>3. QED
      BY <2>1, <2>2 DEF Inverse
  <1>6. QED
    BY <1>2, <1>3, <1>5

\* The number intern gives out is the first one the kind has not used.
LEMMA NumberIsFresh ==
    ASSUME NEW b, Sound(b), NEW kind \in OpaqueKinds
    PROVE  /\ Number(b, kind) = b.counters[kind] + 1
           /\ b.counters[kind] \in Nat
           /\ <<kind, Number(b, kind)>> \in OpaqueTexts
           /\ <<kind, Number(b, kind)>> \notin DOMAIN b.entries
  <1>1. Number(b, kind) = b.counters[kind] + 1 /\ b.counters[kind] \in Nat
    BY DEF Number, Sound, BookTypeOK, Kinds
  <1>2. <<kind, Number(b, kind)>> \in OpaqueTexts
    BY <1>1 DEF OpaqueTexts
  <1>3. ASSUME <<kind, Number(b, kind)>> \in DOMAIN b.entries PROVE FALSE
    <2>1. Number(b, kind) \in {text[2] : text \in {t \in DOMAIN b.entries : t[1] = kind}}
      BY <1>3
    <2>2. Number(b, kind) \in 1 .. b.counters[kind]
      BY <2>1 DEF Sound, Numbered
    <2>3. QED
      BY <1>1, <2>2
  <1>4. QED
    BY <1>1, <1>2, <1>3

\* intern keeps the table sound, whatever it is asked.
LEMMA InternKeeps ==
    ASSUME NEW b, Sound(b),
           NEW kind \in OpaqueKinds, NEW original \in Originals,
           NEW partition \in Partitions \cup {None},
           NEW c, c = Intern(b, kind, original, partition)
    PROVE  /\ Sound(c)
           /\ AddsOpaque(c, b, partition)
           /\ <<kind, original>> \in DOMAIN c.by_original
  <1>1. CASE <<kind, original>> \in DOMAIN b.by_original
    BY <1>1 DEF Intern, AddsOpaque, Extends
  <1>2. CASE <<kind, original>> \notin DOMAIN b.by_original
    <2> DEFINE text == <<kind, Number(b, kind)>>
    <2>1. c = Enter(b, kind, original, partition, text)
      BY <1>2 DEF Intern
    <2>2. /\ Number(b, kind) = b.counters[kind] + 1 /\ b.counters[kind] \in Nat
          /\ text \in OpaqueTexts /\ text \notin DOMAIN b.entries
      BY NumberIsFresh
    <2>3. BookTypeOK(c) /\ Inverse(c) /\ Extends(c, b)
      BY <1>2, <2>1, <2>2, EnterKeepsInverse DEF Sound, Texts, Kinds
    <2>4. /\ DOMAIN c.entries = DOMAIN b.entries \cup {text}
          /\ c.entries[text] = Entry(kind, original, partition)
          /\ DOMAIN c.by_original = DOMAIN b.by_original \cup {<<kind, original>>}
          /\ c.counters = [b.counters EXCEPT ![kind] = @ + 1]
      BY <2>1 DEF Enter, Bind
    <2>5. Numbered(c)
      <3> SUFFICES ASSUME NEW k \in OpaqueKinds
                   PROVE  {t[2] : t \in {u \in DOMAIN c.entries : u[1] = k}}
                              = 1 .. c.counters[k]
        BY DEF Numbered
      <3>1. {t[2] : t \in {u \in DOMAIN b.entries : u[1] = k}} = 1 .. b.counters[k]
        BY DEF Sound, Numbered
      <3>2. b.counters \in [Kinds -> Nat]
        BY DEF Sound, BookTypeOK
      <3>3. CASE k = kind
        <4>1. c.counters[k] = b.counters[k] + 1
          BY <2>4, <3>2, <3>3 DEF Kinds
        <4>2. {t[2] : t \in {u \in DOMAIN c.entries : u[1] = k}}
                 = {t[2] : t \in {u \in DOMAIN b.entries : u[1] = k}}
                       \cup {b.counters[k] + 1}
          BY <2>2, <2>4, <3>3
        <4>3. 1 .. b.counters[k] + 1 = (1 .. b.counters[k]) \cup {b.counters[k] + 1}
          BY <2>2, <3>3
        <4>4. QED
          BY <3>1, <4>1, <4>2, <4>3
      <3>4. CASE k # kind
        <4>1. c.counters[k] = b.counters[k]
          BY <2>4, <3>2, <3>4 DEF Kinds
        <4>2. {u \in DOMAIN c.entries : u[1] = k} = {u \in DOMAIN b.entries : u[1] = k}
          BY <2>4, <3>4
        <4>3. QED
          BY <3>1, <4>1, <4>2
      <3>5. QED
        BY <3>3, <3>4
    <2>6. c.entries[text].partition = partition
      BY <2>4 DEF Entry
    <2>7. QED
      BY <2>1, <2>2, <2>3, <2>4, <2>5, <2>6 DEF Sound, AddsOpaque
  <1>3. QED
    BY <1>1, <1>2

\* The texts of the rendered kinds never read like an opaque placeholder.
LEMMA RenderedIsNotOpaque ==
    ASSUME NEW text \in Texts \ OpaqueTexts
    PROVE  text[1] \notin OpaqueKinds
  <1>1. CASE text \in Docs4Texts \cup Docs6Texts \cup WordTexts \cup StampTexts
    BY <1>1, KindAssumption DEF Docs4Texts, Docs6Texts, WordTexts, StampTexts, Tags
  <1>2. CASE text \in IdentTexts
    BY <1>2, IdentAssumption
  <1>3. QED
    BY <1>1, <1>2 DEF Texts

\* A new original of a rendered kind under a new text keeps the table sound.
LEMMA EnterRenderedKeeps ==
    ASSUME NEW b, Sound(b),
           NEW kind \in RenderedKinds, NEW original \in Originals,
           NEW text \in Texts \ OpaqueTexts,
           <<kind, original>> \notin DOMAIN b.by_original,
           text \notin DOMAIN b.entries,
           NEW c, c = Enter(b, kind, original, None, text)
    PROVE  /\ Sound(c)
           /\ Extends(c, b)
           /\ DOMAIN c.entries = DOMAIN b.entries \cup {text}
           /\ DOMAIN c.by_original = DOMAIN b.by_original \cup {<<kind, original>>}
           /\ c.entries[text].partition = None
  <1>1. BookTypeOK(c) /\ Inverse(c) /\ Extends(c, b)
    BY EnterKeepsInverse DEF Sound, Kinds
  <1>2. /\ DOMAIN c.entries = DOMAIN b.entries \cup {text}
        /\ c.entries[text] = Entry(kind, original, None)
        /\ DOMAIN c.by_original = DOMAIN b.by_original \cup {<<kind, original>>}
        /\ c.counters = [b.counters EXCEPT ![kind] = @ + 1]
    BY DEF Enter, Bind
  <1>3. Numbered(c)
    <2> SUFFICES ASSUME NEW k \in OpaqueKinds
                 PROVE  {t[2] : t \in {u \in DOMAIN c.entries : u[1] = k}}
                            = 1 .. c.counters[k]
      BY DEF Numbered
    <2>1. b.counters \in [Kinds -> Nat]
      BY DEF Sound, BookTypeOK
    <2>2. k # kind
      BY KindAssumption
    <2>3. c.counters[k] = b.counters[k]
      BY <1>2, <2>1, <2>2 DEF Kinds
    <2>4. text[1] # k
      BY RenderedIsNotOpaque
    <2>5. {u \in DOMAIN c.entries : u[1] = k} = {u \in DOMAIN b.entries : u[1] = k}
      BY <1>2, <2>4
    <2>6. QED
      BY <2>3, <2>5 DEF Sound, Numbered
  <1>4. c.entries[text].partition = None
    BY <1>2 DEF Entry
  <1>5. QED
    BY <1>1, <1>2, <1>3, <1>4 DEF Sound

---------------------------------------------------------------------------
(***************************************************************************)
(* The inductive invariant.  The table alone would not carry                *)
(* AddressesAccounted through an address that is interned: the pools must  *)
(* be known to give out slots of their own, and no other kind a text that  *)
(* reads like an address.                                                  *)
(***************************************************************************)
PoolsTypeOK ==
    /\ subnet_map \in [SourceNets -> 0 .. NumDocs]
    /\ next_subnet_idx \in 0 .. NumDocs
    /\ used \subseteq V4!Slots /\ collapsed_sources \subseteq SourceNets
    /\ subnet_map6 \in [SourceNets6 -> 0 .. NumDocs6]
    /\ next_subnet_idx6 \in 0 .. NumDocs6
    /\ used6 \subseteq V6!Slots
    /\ session_ns_unsafe \subseteq VW!Plain /\ assigned_count \in Nat

IInv ==
    /\ Sound(book)
    /\ PartitionsEntered(book)
    /\ frozen \in BOOLEAN
    /\ referenced \subseteq DOMAIN book.entries
    /\ PoolsTypeOK
    /\ AddressesAccounted

\* What every step does to the table: it adds entries, and none once frozen.
Grows ==
    /\ Extends(book', book)
    /\ frozen \/ frozen' => book' = book
    /\ frozen => frozen'

\* The families of texts do not meet, except identifiers and words.
LEMMA TextsDisjoint ==
    /\ (OpaqueTexts \cup WordTexts \cup StampTexts \cup IdentTexts)
           \cap (Docs4Texts \cup Docs6Texts) = {}
    /\ Docs4Texts \cap Docs6Texts = {}
    /\ (Docs4Texts \cup Docs6Texts \cup WordTexts \cup StampTexts \cup IdentTexts)
           \subseteq Texts \ OpaqueTexts
  <1> USE KindAssumption, IdentAssumption
      DEF OpaqueTexts, Docs4Texts, Docs6Texts, WordTexts, StampTexts, Tags
  <1>1. OpaqueTexts \cap (Docs4Texts \cup Docs6Texts \cup WordTexts \cup StampTexts) = {}
    OBVIOUS
  <1>2. IdentTexts \cap (OpaqueTexts \cup Docs4Texts \cup Docs6Texts) = {}
    OBVIOUS
  <1>3. (WordTexts \cup StampTexts) \cap (Docs4Texts \cup Docs6Texts) = {}
    OBVIOUS
  <1>4. Docs4Texts \cap Docs6Texts = {}
    OBVIOUS
  <1>5. QED
    BY <1>1, <1>2, <1>3, <1>4 DEF Texts

\* Adding opaque entries leaves the address entries alone.
LEMMA OpaqueKeepsAddresses ==
    ASSUME IInv, UNCHANGED <<used, used6>>, Extends(book', book),
           \A text \in DOMAIN book'.entries \ DOMAIN book.entries :
               text \notin Docs4Texts \cup Docs6Texts
    PROVE  AddressesAccounted'
  <1>1. DOMAIN book'.entries \cap Docs4Texts = DOMAIN book.entries \cap Docs4Texts
    BY DEF Extends
  <1>2. DOMAIN book'.entries \cap Docs6Texts = DOMAIN book.entries \cap Docs6Texts
    BY DEF Extends
  <1>3. QED
    BY <1>1, <1>2 DEF IInv, AddressesAccounted, Docs4Texts, Docs6Texts

\* New entries without a partition, or whose partition is entered, keep the
\* partitions entered.
LEMMA NewEntriesKeepPartitions ==
    ASSUME NEW b, NEW c, PartitionsEntered(b), Extends(c, b),
           \A text \in DOMAIN c.entries \ DOMAIN b.entries :
               c.entries[text].partition \in Partitions \ {Common} =>
                   <<"PARTITION", c.entries[text].partition>> \in DOMAIN c.by_original
    PROVE  PartitionsEntered(c)
  BY DEF PartitionsEntered, Extends

LEMMA InternTextKeeps ==
    ASSUME IInv, NEW kind \in TextKinds, NEW name \in Names, InternText(kind, name)
    PROVE  IInv' /\ Grows
  <1>1. Sound(book') /\ AddsOpaque(book', book, None)
    <2>1. /\ kind \in OpaqueKinds /\ name \in Originals
          /\ None \in Partitions \cup {None}
      BY DEF OpaqueKinds, Originals
    <2>2. Sound(book) /\ book' = Intern(book, kind, name, None)
      BY DEF IInv, InternText
    <2>3. QED
      BY <2>1, <2>2, InternKeeps
  <1>2. PartitionsEntered(book')
    BY <1>1, NewEntriesKeepPartitions, KindAssumption DEF IInv, AddsOpaque
  <1>3. AddressesAccounted'
    BY <1>1, OpaqueKeepsAddresses, TextsDisjoint DEF InternText, v4, v6, AddsOpaque
  <1>4. PoolsTypeOK'
    BY DEF IInv, InternText, v4, v6, words, PoolsTypeOK, V4!Slots, V6!Slots, VW!Plain
  <1>5. QED
    BY <1>1, <1>2, <1>3, <1>4 DEF IInv, InternText, Grows, AddsOpaque, Extends

\* The partition is entered before the path that needs it.
LEMMA RegisterPathKeeps ==
    ASSUME IInv, NEW kind \in PathKinds, NEW path \in Paths, RegisterPath(kind, path)
    PROVE  IInv' /\ Grows
  <1> DEFINE b == InternPartition(book, path[1])
  <1>0. /\ path[1] \in Partitions \cup {None}
        /\ path \in Originals /\ path[1] \in Originals /\ None \in Partitions \cup {None}
        /\ kind \in OpaqueKinds /\ "PARTITION" \in OpaqueKinds
    BY DEF Paths, Originals, OpaqueKinds
  <1>1. /\ Sound(b) /\ AddsOpaque(b, book, None)
        /\ path[1] # Common => <<"PARTITION", path[1]>> \in DOMAIN b.by_original
    <2>1. CASE path[1] = Common
      BY <2>1 DEF InternPartition, IInv, AddsOpaque, Extends
    <2>2. CASE path[1] # Common
      <3>1. Sound(book) /\ b = Intern(book, "PARTITION", path[1], None)
        BY <2>2 DEF InternPartition, IInv
      <3> HIDE DEF b
      <3>2. QED
        BY <1>0, <2>2, <3>1, InternKeeps
    <2>3. QED
      BY <2>1, <2>2
  <1>2. PartitionsEntered(b)
    BY <1>1, NewEntriesKeepPartitions, KindAssumption DEF IInv, AddsOpaque
  <1>3. Sound(book') /\ AddsOpaque(book', b, path[1])
    <2>1. book' = Intern(b, kind, path, path[1])
      BY DEF RegisterPath
    <2> HIDE DEF b
    <2>2. QED
      BY <1>0, <1>1, <2>1, InternKeeps
  <1> HIDE DEF b
  <1>4. PartitionsEntered(book')
    BY <1>1, <1>2, <1>3, NewEntriesKeepPartitions DEF AddsOpaque, Extends
  <1>5. /\ Extends(book', book)
        /\ \A text \in DOMAIN book'.entries \ DOMAIN book.entries : text \in OpaqueTexts
    BY <1>1, <1>3 DEF AddsOpaque, Extends
  <1>6. AddressesAccounted'
    BY <1>5, OpaqueKeepsAddresses, TextsDisjoint DEF RegisterPath, v4, v6
  <1>7. PoolsTypeOK'
    BY DEF IInv, RegisterPath, v4, v6, words, PoolsTypeOK, V4!Slots, V6!Slots, VW!Plain
  <1>8. QED
    BY <1>3, <1>4, <1>5, <1>6, <1>7 DEF IInv, RegisterPath, Grows, Extends

\* A new original of a rendered kind under a new text keeps what IInv says of
\* the table; the state of the pools is not looked at.
LEMMA RenderedKeepsBook ==
    ASSUME IInv, NEW kind \in RenderedKinds, NEW original \in Originals,
           NEW text \in Texts \ OpaqueTexts, ~Known(kind, original),
           text \notin DOMAIN book.entries,
           book' = Enter(book, kind, original, None, text)
    PROVE  /\ Sound(book') /\ Extends(book', book) /\ PartitionsEntered(book')
           /\ DOMAIN book'.entries = DOMAIN book.entries \cup {text}
  <1>1. /\ Sound(book') /\ Extends(book', book)
        /\ DOMAIN book'.entries = DOMAIN book.entries \cup {text}
        /\ book'.entries[text].partition = None
    <2>1. Sound(book) /\ <<kind, original>> \notin DOMAIN book.by_original
      BY DEF IInv, Known
    <2>2. QED
      BY <2>1, EnterRenderedKeeps
  <1>2. PartitionsEntered(book')
    BY <1>1, NewEntriesKeepPartitions, KindAssumption DEF IInv
  <1>3. QED
    BY <1>1, <1>2

\* The same for a text that does not read like an address, entered or refused.
LEMMA OtherTextKeepsBook ==
    ASSUME IInv, NEW kind \in RenderedKinds, NEW original \in Originals,
           NEW text \in WordTexts \cup StampTexts \cup IdentTexts,
           ~Known(kind, original),
           book' = EnterRendered(book, kind, original, text),
           UNCHANGED <<used, used6>>
    PROVE  /\ Sound(book') /\ Extends(book', book) /\ PartitionsEntered(book')
           /\ AddressesAccounted'
  <1>1. CASE text \in DOMAIN book.entries
    BY <1>1 DEF EnterRendered, IInv, Extends, AddressesAccounted
  <1>2. CASE text \notin DOMAIN book.entries
    <2>1. text \in Texts \ OpaqueTexts /\ text \notin Docs4Texts \cup Docs6Texts
      BY TextsDisjoint
    <2>2. book' = Enter(book, kind, original, None, text)
      BY <1>2 DEF EnterRendered
    <2>3. /\ Sound(book') /\ Extends(book', book) /\ PartitionsEntered(book')
          /\ DOMAIN book'.entries = DOMAIN book.entries \cup {text}
      BY <1>2, <2>1, <2>2, RenderedKeepsBook
    <2>4. AddressesAccounted'
      BY <2>1, <2>3, OpaqueKeepsAddresses
    <2>5. QED
      BY <2>3, <2>4
  <1>3. QED
    BY <1>1, <1>2

\* The allocator finds its slot unused, so the table has no entry for it.
LEMMA Ipv4Keeps ==
    ASSUME IInv, NEW addr \in SourceNets \X (0 .. NumHosts - 1), InternIpv4(addr)
    PROVE  IInv' /\ Grows
  <1>1. PoolsTypeOK'
    <2>1. V4!ClaimDocsNet(addr[1]) /\ addr[1] \in SourceNets
      BY DEF InternIpv4, V4!Allocate, V4!AllocatePreserved, V4!AllocateFallback,
             V4!Exhausted
    <2>2. V4!DocsNet(addr[1]) \in 0 .. NumDocs
      BY <2>1, SizeAssumption DEF IInv, PoolsTypeOK, V4!DocsNet
    <2>3. subnet_map' \in [SourceNets -> 0 .. NumDocs] /\ next_subnet_idx' \in 0 .. NumDocs
      BY <2>1, <2>2 DEF IInv, PoolsTypeOK, V4!ClaimDocsNet
    <2>4. /\ used' \subseteq V4!Slots
          /\ collapsed_sources' \subseteq SourceNets
      BY <2>1 DEF IInv, PoolsTypeOK, InternIpv4, V4!Collapse, V4!Allocate,
         V4!AllocatePreserved, V4!AllocateFallback, V4!Exhausted
    <2>5. QED
      BY <2>3, <2>4 DEF IInv, PoolsTypeOK, InternIpv4, v6, words, V4!Slots,
         V4!DocsNets, V4!Hosts, V6!Slots, V6!DocsNets, VW!Plain, VW!Size
  <1>2. CASE \E slot \in V4!Slots :
               /\ V4!Allocate(addr, slot)
               /\ book' = EnterRendered(book, "IPADDR", <<"ipv4", addr>>, <<"ipv4", slot>>)
    <2>1. PICK slot \in V4!Slots :
               /\ V4!Allocate(addr, slot)
               /\ book' = EnterRendered(book, "IPADDR", <<"ipv4", addr>>, <<"ipv4", slot>>)
      BY <1>2
    <2> DEFINE text == <<"ipv4", slot>>
    <2>2. slot \notin used /\ used' = used \cup {slot}
      BY <2>1 DEF V4!Allocate, V4!AllocatePreserved, V4!AllocateFallback,
                  V4!FirstFree, V4!CanPreserve
    <2>3. text \in Docs4Texts /\ text \notin Docs6Texts /\ text \in Texts \ OpaqueTexts
      BY TextsDisjoint DEF V4!Slots, V4!DocsNets, V4!Hosts, Docs4Texts
    <2>4. text \notin DOMAIN book.entries
      BY <2>2, <2>3 DEF IInv, AddressesAccounted
    <2>5. /\ "IPADDR" \in RenderedKinds /\ <<"ipv4", addr>> \in Originals
          /\ ~Known("IPADDR", <<"ipv4", addr>>)
      BY DEF RenderedKinds, Originals, Addresses, InternIpv4
    <2>6. book' = Enter(book, "IPADDR", <<"ipv4", addr>>, None, text)
      BY <2>1, <2>4 DEF EnterRendered
    <2>7. /\ Sound(book') /\ Extends(book', book) /\ PartitionsEntered(book')
          /\ DOMAIN book'.entries = DOMAIN book.entries \cup {text}
      BY <2>3, <2>4, <2>5, <2>6, RenderedKeepsBook
    <2>8. AddressesAccounted'
      <3>1. DOMAIN book'.entries \cap Docs4Texts = {"ipv4"} \X used'
        BY <2>2, <2>3, <2>7 DEF IInv, AddressesAccounted
      <3>2. DOMAIN book'.entries \cap Docs6Texts = {"ipv6"} \X used6'
        BY <2>3, <2>7 DEF IInv, AddressesAccounted, InternIpv4, v6
      <3>3. QED
        BY <3>1, <3>2 DEF AddressesAccounted, Docs4Texts, Docs6Texts
    <2>9. QED
      BY <1>1, <2>7, <2>8 DEF IInv, Grows, InternIpv4
  <1>3. CASE V4!Exhausted(addr) /\ UNCHANGED book
    <2>1. UNCHANGED <<book, frozen, referenced, used, used6>>
      BY <1>3 DEF V4!Exhausted, InternIpv4, v6
    <2>2. QED
      BY <1>1, <2>1 DEF IInv, Grows, Extends, AddressesAccounted
  <1>4. QED
    BY <1>2, <1>3 DEF InternIpv4

LEMMA Ipv6Keeps ==
    ASSUME IInv, NEW lit \in SourceNets6 \X Hosts6 \X Spellings, InternIpv6(lit)
    PROVE  IInv' /\ Grows
  <1>0. lit[1] \in SourceNets6 /\ lit[2] \in Hosts6
    OBVIOUS
  <1>1. ASSUME NEW slot \in V6!Slots, V6!Allocate(lit, slot),
               book' = EnterRendered(book, "IPADDR", <<"ipv6", lit>>, <<"ipv6", slot>>)
        PROVE  IInv' /\ Grows
    <2> DEFINE text == <<"ipv6", slot>>
    <2>1. slot \notin used6 /\ used6' = used6 \cup {slot} /\ V6!ClaimDocsNet(lit[1])
      BY <1>1 DEF V6!Allocate, V6!SlotFree
    <2>2. text \in Docs6Texts /\ text \notin Docs4Texts /\ text \in Texts \ OpaqueTexts
      BY TextsDisjoint DEF V6!Slots, V6!DocsNets, Docs6Texts
    <2>3. text \notin DOMAIN book.entries
      BY <2>1, <2>2 DEF IInv, AddressesAccounted
    <2>4. /\ "IPADDR" \in RenderedKinds /\ <<"ipv6", lit>> \in Originals
          /\ ~Known("IPADDR", <<"ipv6", lit>>)
      BY DEF RenderedKinds, Originals, Addresses6, InternIpv6
    <2>5. book' = Enter(book, "IPADDR", <<"ipv6", lit>>, None, text)
      BY <1>1, <2>3 DEF EnterRendered
    <2>6. /\ Sound(book') /\ Extends(book', book) /\ PartitionsEntered(book')
          /\ DOMAIN book'.entries = DOMAIN book.entries \cup {text}
      BY <2>2, <2>3, <2>4, <2>5, RenderedKeepsBook
    <2>7. AddressesAccounted'
      <3>1. DOMAIN book'.entries \cap Docs6Texts = {"ipv6"} \X used6'
        BY <2>1, <2>2, <2>6 DEF IInv, AddressesAccounted
      <3>2. DOMAIN book'.entries \cap Docs4Texts = {"ipv4"} \X used'
        BY <2>2, <2>6 DEF IInv, AddressesAccounted, InternIpv6, v4
      <3>3. QED
        BY <3>1, <3>2 DEF AddressesAccounted, Docs4Texts, Docs6Texts
    <2>8. PoolsTypeOK'
      <3>1. V6!DocsNet(lit[1]) \in 0 .. NumDocs6
        BY <1>0, <1>1, SizeAssumption
           DEF IInv, PoolsTypeOK, V6!DocsNet, V6!Allocate, V6!HasDocsNet, V6!Known
      <3>2. subnet_map6' \in [SourceNets6 -> 0 .. NumDocs6]
        BY <1>0, <2>1, <3>1 DEF IInv, PoolsTypeOK, V6!ClaimDocsNet
      <3>3. next_subnet_idx6' \in 0 .. NumDocs6
        BY <2>1, <3>1 DEF IInv, PoolsTypeOK, V6!ClaimDocsNet, V6!DocsNet
      <3>4. QED
        BY <2>1, <3>2, <3>3 DEF IInv, PoolsTypeOK, InternIpv6, v4, words,
           V4!Slots, V4!DocsNets, V4!Hosts, V6!Slots, V6!DocsNets, VW!Plain, VW!Size
    <2>9. QED
      BY <2>6, <2>7, <2>8 DEF IInv, Grows, InternIpv6
  <1>2. CASE V6!Collides(lit) /\ UNCHANGED book
    <2>1. /\ V6!ClaimDocsNet(lit[1]) /\ V6!DocsNet(lit[1]) <= NumDocs6
          /\ UNCHANGED <<book, frozen, referenced, v4, words, used6>>
      BY <1>2 DEF V6!Collides, V6!HasDocsNet, InternIpv6
    <2>2. V6!DocsNet(lit[1]) \in 0 .. NumDocs6
      BY <1>0, <2>1, SizeAssumption DEF IInv, PoolsTypeOK, V6!DocsNet, V6!Known
    <2>3. subnet_map6' \in [SourceNets6 -> 0 .. NumDocs6]
      BY <1>0, <2>1, <2>2 DEF IInv, PoolsTypeOK, V6!ClaimDocsNet
    <2>4. next_subnet_idx6' \in 0 .. NumDocs6
      BY <2>1, <2>2 DEF IInv, PoolsTypeOK, V6!ClaimDocsNet, V6!DocsNet
    <2>5. PoolsTypeOK'
      BY <2>1, <2>3, <2>4 DEF IInv, PoolsTypeOK, v4, words,
         V4!Slots, V4!DocsNets, V4!Hosts, V6!Slots, V6!DocsNets, VW!Plain, VW!Size
    <2>6. QED
      BY <2>1, <2>5 DEF IInv, Grows, Extends, AddressesAccounted, v4
  <1>3. CASE V6!Exhausted(lit) /\ UNCHANGED book
    <2>1. UNCHANGED vars
      BY <1>3 DEF V6!Exhausted, V6!pool, InternIpv6, vars, v6
    <2>2. QED
      BY <2>1 DEF IInv, Grows, Extends, AddressesAccounted, PoolsTypeOK,
         vars, v4, v6, words, V4!Slots, V4!DocsNets, V4!Hosts, V6!Slots, V6!DocsNets,
         VW!Plain, VW!Size
  <1>4. QED
    BY <1>1, <1>2, <1>3 DEF InternIpv6

LEMMA MarkKeeps ==
    ASSUME IInv, NEW found \in SUBSET VW!Plain, MarkSessionNsUnsafe(found)
    PROVE  IInv' /\ Grows
  <1>1. UNCHANGED <<book, frozen, referenced, v4, v6>>
    BY DEF MarkSessionNsUnsafe
  <1>2. PoolsTypeOK'
    BY <1>1 DEF MarkSessionNsUnsafe, IInv, PoolsTypeOK, v4, v6, V4!Slots, V4!DocsNets,
       V4!Hosts, V6!Slots, V6!DocsNets, VW!Plain, VW!Size
  <1>3. QED
    BY <1>1, <1>2 DEF IInv, Grows, Extends, AddressesAccounted, v4, v6

LEMMA WordKeeps ==
    ASSUME IInv, NEW word \in SessionWords, InternSessionNamespaceWord(word)
    PROVE  IInv' /\ Grows
  <1>1. PICK candidate \in VW!Candidates, position \in 0 .. (MaxCycle + 1) * VW!Size :
            /\ VW!Advance(position)
            /\ book' = EnterRendered(book, "SESSION_NS", word, <<"word", candidate>>)
    BY DEF InternSessionNamespaceWord
  <1>2. UNCHANGED <<frozen, referenced, v4, v6, session_ns_unsafe>>
    BY DEF InternSessionNamespaceWord
  <1>3. <<"word", candidate>> \in WordTexts
    BY DEF VW!Candidates, VW!Plain, VW!Cycles, VW!Size, WordTexts
  <1>4. /\ "SESSION_NS" \in RenderedKinds /\ word \in Originals
        /\ ~Known("SESSION_NS", word)
    BY DEF RenderedKinds, Originals, InternSessionNamespaceWord
  <1>5. UNCHANGED <<used, used6>>
    BY <1>2 DEF v4, v6
  <1>6. /\ Sound(book') /\ Extends(book', book) /\ PartitionsEntered(book')
        /\ AddressesAccounted'
    BY <1>1, <1>3, <1>4, <1>5, OtherTextKeepsBook
  <1>7. PoolsTypeOK'
    BY <1>1, <1>2, SizeAssumption DEF IInv, PoolsTypeOK, v4, v6, VW!Advance, V4!Slots,
       V4!DocsNets, V4!Hosts, V6!Slots, V6!DocsNets, VW!Plain, VW!Size
  <1>8. QED
    BY <1>2, <1>6, <1>7 DEF IInv, Grows, InternSessionNamespaceWord, Extends

LEMMA TimestampKeeps ==
    ASSUME IInv, NEW stamp \in Timestamps, InternTimestamp(stamp)
    PROVE  IInv' /\ Grows
  <1>1. ~frozen /\ UNCHANGED <<frozen, referenced, v4, v6, words>>
    BY DEF InternTimestamp
  <1>2. PoolsTypeOK'
    BY <1>1 DEF IInv, PoolsTypeOK, v4, v6, words, V4!Slots,
       V4!DocsNets, V4!Hosts, V6!Slots, V6!DocsNets, VW!Plain, VW!Size
  <1>3. ASSUME NEW second \in Seconds, FreeSecond(stamp[1], second),
               book' = Enter(book, "TIMESTAMP", stamp, None, StampText(stamp[1], second))
        PROVE  IInv' /\ Grows
    <2> DEFINE text == StampText(stamp[1], second)
    <2>1. text \in StampTexts /\ text \notin DOMAIN book.entries
      BY <1>3 DEF StampText, StampTexts, FreeSecond, Timestamps
    <2>2. /\ "TIMESTAMP" \in RenderedKinds /\ stamp \in Originals
          /\ ~Known("TIMESTAMP", stamp)
      BY DEF RenderedKinds, Originals, InternTimestamp
    <2>3. book' = EnterRendered(book, "TIMESTAMP", stamp, text)
      BY <1>3, <2>1 DEF EnterRendered
    <2>4. text \in WordTexts \cup StampTexts \cup IdentTexts /\ UNCHANGED <<used, used6>>
      BY <1>1, <2>1 DEF v4, v6
    <2> HIDE DEF text
    <2>5. /\ Sound(book') /\ Extends(book', book) /\ PartitionsEntered(book')
          /\ AddressesAccounted'
      BY <2>2, <2>3, <2>4, OtherTextKeepsBook
    <2>6. QED
      BY <1>1, <1>2, <2>5 DEF IInv, Grows, Extends
  <1>4. CASE UNCHANGED book
    BY <1>1, <1>2, <1>4 DEF IInv, Grows, Extends, AddressesAccounted, v4, v6
  <1>5. QED
    BY <1>3, <1>4 DEF InternTimestamp

LEMMA IdentKeeps ==
    ASSUME IInv, NEW identifier \in Identifiers, NEW text \in IdentTexts,
           InternIruleIdent(identifier, text)
    PROVE  IInv' /\ Grows
  <1>1. /\ UNCHANGED <<frozen, referenced, v4, v6, words>> /\ ~frozen
        /\ book' = EnterRendered(book, "IRULE_IDENT", identifier, text)
    BY DEF InternIruleIdent
  <1>2. /\ "IRULE_IDENT" \in RenderedKinds /\ identifier \in Originals
        /\ ~Known("IRULE_IDENT", identifier)
        /\ text \in WordTexts \cup StampTexts \cup IdentTexts
        /\ UNCHANGED <<used, used6>>
    BY <1>1 DEF RenderedKinds, Originals, InternIruleIdent, v4, v6
  <1>3. /\ Sound(book') /\ Extends(book', book) /\ PartitionsEntered(book')
        /\ AddressesAccounted'
    BY <1>1, <1>2, OtherTextKeepsBook
  <1>4. PoolsTypeOK'
    BY <1>1 DEF IInv, PoolsTypeOK, v4, v6, words, V4!Slots,
       V4!DocsNets, V4!Hosts, V6!Slots, V6!DocsNets, VW!Plain, VW!Size
  <1>5. QED
    BY <1>1, <1>3, <1>4 DEF IInv, Grows, Extends

\* Pass 2, freeze and a step that does nothing leave the table and the
\* allocators alone.
LEMMA SealedKeeps ==
    ASSUME IInv, UNCHANGED <<book, v4, v6, words>>, frozen' \in BOOLEAN,
           frozen => frozen', referenced' \subseteq DOMAIN book.entries
    PROVE  IInv' /\ Grows
  <1>1. PoolsTypeOK'
    BY DEF IInv, PoolsTypeOK, v4, v6, words, V4!Slots,
       V4!DocsNets, V4!Hosts, V6!Slots, V6!DocsNets, VW!Plain, VW!Size
  <1>2. QED
    BY <1>1 DEF IInv, Grows, Extends, AddressesAccounted, v4, v6

---------------------------------------------------------------------------
LEMMA InitHolds == Init => IInv
  <1> SUFFICES ASSUME Init PROVE IInv
    OBVIOUS
  <1>1. /\ DOMAIN book.entries = {} /\ DOMAIN book.by_original = {}
        /\ book = [entries |-> book.entries, by_original |-> book.by_original,
                   counters |-> book.counters]
        /\ book.counters = [kind \in Kinds |-> 0]
        /\ book.entries = [text \in {} |-> 0] /\ book.by_original = [key \in {} |-> 0]
    BY DEF Init, EmptyBook
  <1>2. BookTypeOK(book) /\ Inverse(book) /\ PartitionsEntered(book)
    BY <1>1 DEF BookTypeOK, Inverse, PartitionsEntered
  <1>3. Numbered(book)
    BY <1>1 DEF Numbered, Kinds
  <1>4. PoolsTypeOK
    BY SizeAssumption DEF Init, PoolsTypeOK
  <1>5. QED
    BY <1>1, <1>2, <1>3, <1>4 DEF Init, IInv, Sound, AddressesAccounted

LEMMA StepKeeps == IInv /\ [Next]_vars => IInv' /\ Grows
  <1> SUFFICES ASSUME IInv, [Next]_vars PROVE IInv' /\ Grows
    OBVIOUS
  <1>1. ASSUME NEW kind \in TextKinds, NEW name \in Names, InternText(kind, name)
        PROVE  IInv' /\ Grows
    BY <1>1, InternTextKeeps
  <1>2. ASSUME NEW kind \in PathKinds, NEW path \in Paths, RegisterPath(kind, path)
        PROVE  IInv' /\ Grows
    BY <1>2, RegisterPathKeeps
  <1>3. ASSUME NEW addr \in SourceNets \X (0 .. NumHosts - 1), InternIpv4(addr)
        PROVE  IInv' /\ Grows
    BY <1>3, Ipv4Keeps
  <1>4. ASSUME NEW lit \in SourceNets6 \X Hosts6 \X Spellings, InternIpv6(lit)
        PROVE  IInv' /\ Grows
    BY <1>4, Ipv6Keeps
  <1>5. ASSUME NEW found \in SUBSET VW!Plain, MarkSessionNsUnsafe(found)
        PROVE  IInv' /\ Grows
    BY <1>5, MarkKeeps
  <1>6. ASSUME NEW word \in SessionWords, InternSessionNamespaceWord(word)
        PROVE  IInv' /\ Grows
    BY <1>6, WordKeeps
  <1>7. ASSUME NEW stamp \in Timestamps, InternTimestamp(stamp)
        PROVE  IInv' /\ Grows
    BY <1>7, TimestampKeeps
  <1>8. ASSUME NEW identifier \in Identifiers, NEW text \in IdentTexts,
               InternIruleIdent(identifier, text)
        PROVE  IInv' /\ Grows
    BY <1>8, IdentKeeps
  <1>9. ASSUME NEW text \in DOMAIN book.entries, RecordReference(text)
        PROVE  IInv' /\ Grows
    BY <1>9, SealedKeeps DEF RecordReference, IInv
  <1>10. CASE Freeze
    BY <1>10, SealedKeeps DEF Freeze, IInv
  <1>11. CASE UNCHANGED vars
    BY <1>11, SealedKeeps DEF vars, IInv
  <1>12. QED
    BY <1>1, <1>2, <1>3, <1>4, <1>5, <1>6, <1>7, <1>8, <1>9, <1>10, <1>11 DEF Next

\* The inductive invariant holds in every reachable state of the ledger.
THEOREM LedgerInvariant == Spec => []IInv
  <1>1. Init => IInv
    BY InitHolds
  <1>2. IInv /\ [Next]_vars => IInv'
    BY StepKeeps
  <1>3. QED
    BY <1>1, <1>2, PTL DEF Spec

\* The dictionaries, the counters and the allocators keep their types.
THEOREM LedgerTypeOK == Spec => []TypeOK
  <1>1. IInv => TypeOK
    BY DEF IInv, Sound, PoolsTypeOK, TypeOK
  <1>2. QED
    BY <1>1, LedgerInvariant, PTL

\* entries and by_original stay inverse to each other, so that what the
\* answer file keeps, the entries, determines the whole table.
THEOREM LedgerInverse == Spec => []BookInverse
  <1>1. IInv => BookInverse
    BY DEF IInv, Sound, BookInverse
  <1>2. QED
    BY <1>1, LedgerInvariant, PTL

\* The numbers of every kind are 1 up to its counter, without gaps.
THEOREM LedgerNumbered == Spec => []BookNumbered
  <1>1. IInv => BookNumbered
    BY DEF IInv, Sound, BookNumbered
  <1>2. QED
    BY <1>1, LedgerInvariant, PTL

\* The partition of every path in the table is in the table.
THEOREM LedgerPartitions == Spec => []BookPartitions
  <1>1. IInv => BookPartitions
    BY DEF IInv, BookPartitions
  <1>2. QED
    BY <1>1, LedgerInvariant, PTL

\* The addresses the pools gave away are the address entries: intern_ipaddr
\* never meets an entry under the address it was given.
THEOREM LedgerAddresses == Spec => []AddressesAccounted
  <1>1. IInv => AddressesAccounted
    BY DEF IInv
  <1>2. QED
    BY <1>1, LedgerInvariant, PTL

\* The ledger implements the code book: no placeholder ever stands for two
\* originals, none is changed or dropped, and freeze really ends the growth.
THEOREM LedgerIsCodebook == Spec => IsCodebook
  <1> DEFINE decoded == [text \in DOMAIN book.entries |-> KeyOf(book.entries[text])]
  <1>1. Init => CB!Init
    BY DEF Init, EmptyBook, CB!Init
  <1>2. ASSUME IInv, [Next]_vars
        PROVE  [CB!Next]_CB!vars
    <2>1. IInv' /\ Grows
      BY <1>2, StepKeeps
    <2>2. CASE book' = book
      <3>1. CASE frozen' = frozen
        BY <2>2, <3>1 DEF CB!vars
      <3>2. CASE frozen' # frozen
        BY <1>2, <2>1, <2>2, <3>2 DEF IInv, Grows, CB!Next, CB!Seal
      <3>3. QED
        BY <3>1, <3>2
    <2>3. CASE book' # book
      <3>1. frozen = FALSE /\ frozen' = FALSE
        BY <1>2, <2>1, <2>3 DEF Grows, IInv
      <3>2. \A text \in DOMAIN decoded :
               text \in DOMAIN decoded' /\ decoded'[text] = decoded[text]
        BY <2>1 DEF Grows, Extends
      <3>3. CB!Unambiguous(decoded')
        <4>1. Inverse(book')
          BY <2>1 DEF IInv, Sound
        <4>2. QED
          BY <4>1 DEF Inverse, CB!Unambiguous
      <3>4. CB!Extend
        BY <3>1, <3>2, <3>3 DEF CB!Extend
      <3>5. QED
        BY <3>4 DEF CB!Next
    <2>4. QED
      BY <2>2, <2>3
  <1>3. QED
    BY <1>1, <1>2, LedgerInvariant, PTL DEF Spec, IsCodebook, CB!Spec
===========================================================================
