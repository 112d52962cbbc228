------------------------------ MODULE Ledger ------------------------------
(***************************************************************************)
(* Ledger (src/src/veil/ledger.py): the two-way table of a run of veil.    *)
(* Pass 1 interns every identifier it discovers and gets a placeholder;    *)
(* the table is frozen; pass 2 replaces originals by placeholders and      *)
(* records a reference for each.                                           *)
(*                                                                         *)
(* Most kinds get an opaque placeholder KIND_NNNN.  Four kinds have one    *)
(* that reads like the original: an IP literal becomes a documentation     *)
(* address, a session word a vocabulary word, a timestamp the first second *)
(* of its year, an iRule identifier the same identifier with its session   *)
(* words replaced.                                                         *)
(*                                                                         *)
(* A placeholder text is a pair of a tag and what follows: <<kind, number>>*)
(* for an opaque one, and <<"ipv4", slot>>, <<"word", candidate>>,         *)
(* <<"stamp", year and second>>, or any text of IdentTexts for the others. *)
(***************************************************************************)
EXTENDS Naturals, Sequences, Book

CONSTANTS
    PathKinds,      \* kinds of objects named by a path /Partition/leaf
    TextKinds,      \* kinds of values without a partition
    Partitions,     \* the partitions
    Leaves,         \* the rest of a path
    Names,          \* originals of the text kinds
    SourceNets, NumDocs, NumHosts,          \* see IPv4Pool
    SourceNets6, Hosts6, Spellings, NumDocs6,   \* see IPv6Pool
    Vocab, SessionWords, MaxCycle,          \* see SessionVocab
    Years,          \* the years of timestamps
    Instants,       \* the moments of a year
    LastSecond,     \* the last value of a seconds field: 59
    Identifiers,    \* iRule identifiers that contain a session word
    IdentTexts      \* the texts they may be rewritten to

VARIABLES
    book,               \* entries, by_original and counters: see Book
    frozen,             \* _frozen
    referenced,         \* the placeholders with a non-empty references list
    subnet_map, next_subnet_idx, used, collapsed_sources,   \* _ipv4_allocator
    subnet_map6, next_subnet_idx6, used6,                   \* _ipv6_allocator
    session_ns_unsafe, assigned_count           \* SESSION_NS allocator state

v4    == <<subnet_map, next_subnet_idx, used, collapsed_sources>>
v6    == <<subnet_map6, next_subnet_idx6, used6>>
words == <<session_ns_unsafe, assigned_count>>
vars  == <<book, frozen, referenced, v4, v6, words>>

OpaqueKinds   == {"PARTITION"} \cup PathKinds \cup TextKinds
RenderedKinds == {"IPADDR", "SESSION_NS", "TIMESTAMP", "IRULE_IDENT"}
Kinds         == OpaqueKinds \cup RenderedKinds

Paths      == Partitions \X Leaves
Timestamps == Years \X Instants
Seconds    == 0 .. LastSecond

\* What an entry of each family stands for.
Addresses  == {"ipv4"} \X (SourceNets \X (0 .. NumHosts - 1))
Addresses6 == {"ipv6"} \X (SourceNets6 \X Hosts6 \X Spellings)
Originals  == Partitions \cup Paths \cup Names \cup Addresses \cup Addresses6
                  \cup SessionWords \cup Timestamps \cup Identifiers

OpaqueTexts == OpaqueKinds \X (Nat \ {0})
Docs4Texts  == {"ipv4"} \X ((1 .. NumDocs) \X (0 .. NumHosts - 1))
Docs6Texts  == {"ipv6"} \X ((1 .. NumDocs6) \X Hosts6)
WordTexts   == {"word"} \X ({Vocab[i] : i \in 1 .. Len(Vocab)} \X (0 .. MaxCycle))
StampTexts  == {"stamp"} \X (Years \X Seconds)
Texts       == OpaqueTexts \cup Docs4Texts \cup Docs6Texts \cup WordTexts
                   \cup StampTexts \cup IdentTexts
Tags        == {"ipv4", "ipv6", "word", "stamp"}

ASSUME KindAssumption ==
    /\ OpaqueKinds \cap (RenderedKinds \cup Tags) = {}
    /\ "PARTITION" \notin PathKinds \cup TextKinds
    /\ Common \in Partitions /\ None \notin Partitions
    /\ LastSecond \in Nat
ASSUME SizeAssumption ==
    /\ NumDocs \in Nat \ {0} /\ NumHosts \in Nat \ {0} /\ NumDocs6 \in Nat
    /\ Vocab \in Seq(STRING) /\ Len(Vocab) > 0 /\ MaxCycle \in Nat
\* An identifier is rewritten by putting vocabulary words in place of session
\* words; what comes out may be a bare vocabulary word, but not a KIND_NNNN
\* text, an address or a timestamp.
ASSUME IdentAssumption ==
    \A text \in IdentTexts :
        /\ text = <<text[1], text[2]>>
        /\ text[1] \notin OpaqueKinds \cup {"ipv4", "ipv6", "stamp"}

---------------------------------------------------------------------------
(***************************************************************************)
(* The allocators, seen through the table: the answers they have given are *)
(* what by_original holds.                                                 *)
(***************************************************************************)
Answers(kind, originals) ==
    [o \in {x \in originals : <<kind, x>> \in DOMAIN book.by_original}
        |-> book.by_original[<<kind, o>>][2]]

V4 == INSTANCE IPv4Pool WITH
          rendered <- [a \in {x \in SourceNets \X (0 .. NumHosts - 1) :
                                <<"IPADDR", <<"ipv4", x>>>> \in DOMAIN book.by_original}
                         |-> book.by_original[<<"IPADDR", <<"ipv4", a>>>>][2]]

V6 == INSTANCE IPv6Pool WITH
          SourceNets <- SourceNets6, Hosts <- Hosts6, NumDocs <- NumDocs6,
          subnet_map <- subnet_map6, next_subnet_idx <- next_subnet_idx6,
          used <- used6, raised <- {},
          rendered <- [a \in {x \in SourceNets6 \X Hosts6 \X Spellings :
                                <<"IPADDR", <<"ipv6", x>>>> \in DOMAIN book.by_original}
                         |-> book.by_original[<<"IPADDR", <<"ipv6", a>>>>][2]]

VW == INSTANCE SessionVocab WITH
          Words <- SessionWords,
          minted <- Answers("SESSION_NS", SessionWords),
          foreign <- {text[2] : text \in {t \in DOMAIN book.entries :
                          t \in WordTexts /\ book.entries[t].kind # "SESSION_NS"}}

---------------------------------------------------------------------------
Init ==
    /\ book = EmptyBook(Kinds)
    /\ frozen = FALSE
    /\ referenced = {}
    /\ subnet_map = [net \in SourceNets |-> 0]
    /\ next_subnet_idx = 0 /\ used = {} /\ collapsed_sources = {}
    /\ subnet_map6 = [net \in SourceNets6 |-> 0]
    /\ next_subnet_idx6 = 0 /\ used6 = {}
    /\ session_ns_unsafe = {} /\ assigned_count = 0

Known(kind, original) == <<kind, original>> \in DOMAIN book.by_original

\* A mutation of InternText: a frozen ledger is not refused.
InternText_AfterFreeze(kind, name) ==
    /\ book' = Intern(book, kind, name, None)
    /\ UNCHANGED <<frozen, referenced, v4, v6, words>>
\* A walker interns a value that has no partition.
InternText(kind, name) ==
    /\ ~frozen
    /\ book' = Intern(book, kind, name, None)
    /\ UNCHANGED <<frozen, referenced, v4, v6, words>>

\* A mutation of RegisterPath: the path is recorded as its own partition.
RegisterPath_WholePath(kind, path) ==
    /\ ~frozen
    /\ book' = Intern(InternPartition(book, path[1]), kind, path, path)
    /\ UNCHANGED <<frozen, referenced, v4, v6, words>>
\* _register: first the partition of the path, then the path itself.
RegisterPath(kind, path) ==
    /\ ~frozen
    /\ book' = Intern(InternPartition(book, path[1]), kind, path, path[1])
    /\ UNCHANGED <<frozen, referenced, v4, v6, words>>

\* intern_ipaddr on an IPv4 literal.  When the pool is exhausted it raises.
InternIpv4(addr) ==
    /\ ~frozen
    /\ ~Known("IPADDR", <<"ipv4", addr>>)
    /\ \/ \E slot \in V4!Slots :
            /\ V4!Allocate(addr, slot)
            /\ book' = EnterRendered(book, "IPADDR", <<"ipv4", addr>>, <<"ipv4", slot>>)
       \/ V4!Exhausted(addr) /\ UNCHANGED book
    /\ UNCHANGED <<frozen, referenced, v6, words>>

\* intern_ipaddr on an IPv6 literal.  A second spelling of an address raises.
InternIpv6(lit) ==
    /\ ~frozen
    /\ ~Known("IPADDR", <<"ipv6", lit>>)
    /\ \/ \E slot \in V6!Slots :
            /\ V6!Allocate(lit, slot)
            /\ book' = EnterRendered(book, "IPADDR", <<"ipv6", lit>>, <<"ipv6", slot>>)
       \/ V6!Collides(lit) /\ UNCHANGED book
       \/ V6!Exhausted(lit) /\ UNCHANGED book
    /\ UNCHANGED <<frozen, referenced, v4, words>>

\* The pre-scan of a source file; it may run at any time, even after freeze.
MarkSessionNsUnsafe(found) ==
    /\ session_ns_unsafe' = session_ns_unsafe \cup found
    /\ UNCHANGED <<book, frozen, referenced, v4, v6, assigned_count>>

\* A mutation of InternSessionNamespaceWord: the counter is not moved.
InternSessionNamespaceWord_CounterKept(word) ==
    /\ ~frozen
    /\ ~Known("SESSION_NS", word)
    /\ \E candidate \in VW!Candidates, position \in 0 .. (MaxCycle + 1) * VW!Size :
          /\ VW!NextPlaceholder(candidate, position)
          /\ book' = EnterRendered(book, "SESSION_NS", word, <<"word", candidate>>)
    /\ UNCHANGED <<frozen, referenced, v4, v6, words>>
InternSessionNamespaceWord(word) ==
    /\ ~frozen
    /\ ~Known("SESSION_NS", word)
    /\ \E candidate \in VW!Candidates, position \in 0 .. (MaxCycle + 1) * VW!Size :
          /\ VW!NextPlaceholder(candidate, position)
          /\ VW!Advance(position)
          /\ book' = EnterRendered(book, "SESSION_NS", word, <<"word", candidate>>)
    /\ UNCHANGED <<frozen, referenced, v4, v6, session_ns_unsafe>>

StampText(year, second) == <<"stamp", <<year, second>>>>

FreeSecond(year, second) == StampText(year, second) \notin DOMAIN book.entries

\* The first free second of the year stands for the timestamp.  When all are
\* taken _next_unique_timestamp raises an error.
InternTimestamp(stamp) ==
    /\ ~frozen
    /\ ~Known("TIMESTAMP", stamp)
    /\ \/ \E second \in Seconds :
            /\ FreeSecond(stamp[1], second)
            /\ \A earlier \in 0 .. second - 1 : ~FreeSecond(stamp[1], earlier)
            /\ book' = Enter(book, "TIMESTAMP", stamp, None, StampText(stamp[1], second))
       \/ (\A second \in Seconds : ~FreeSecond(stamp[1], second)) /\ UNCHANGED book
    /\ UNCHANGED <<frozen, referenced, v4, v6, words>>

\* The walker has replaced the session words of the identifier.
InternIruleIdent(identifier, text) ==
    /\ ~frozen
    /\ ~Known("IRULE_IDENT", identifier)
    /\ book' = EnterRendered(book, "IRULE_IDENT", identifier, text)
    /\ UNCHANGED <<frozen, referenced, v4, v6, words>>

\* record_reference raises KeyError for a placeholder the table does not hold.
\* Only pass 2 calls it, and pass 2 begins with freeze.
RecordReference(text) ==
    /\ frozen
    /\ text \in DOMAIN book.entries
    /\ referenced' = referenced \cup {text}
    /\ UNCHANGED <<book, frozen, v4, v6, words>>

Freeze ==
    /\ frozen' = TRUE
    /\ UNCHANGED <<book, referenced, v4, v6, words>>

Next ==
    \/ \E kind \in TextKinds, name \in Names : InternText(kind, name)
    \/ \E kind \in PathKinds, path \in Paths : RegisterPath(kind, path)
    \/ \E addr \in SourceNets \X (0 .. NumHosts - 1) : InternIpv4(addr)
    \/ \E lit \in SourceNets6 \X Hosts6 \X Spellings : InternIpv6(lit)
    \/ \E found \in SUBSET VW!Plain : MarkSessionNsUnsafe(found)
    \/ \E word \in SessionWords : InternSessionNamespaceWord(word)
    \/ \E stamp \in Timestamps : InternTimestamp(stamp)
    \/ \E identifier \in Identifiers, text \in IdentTexts :
            InternIruleIdent(identifier, text)
    \/ \E text \in DOMAIN book.entries : RecordReference(text)
    \/ Freeze

Spec == Init /\ [][Next]_vars

---------------------------------------------------------------------------
BookTypeOK(b) ==
    /\ b = [entries |-> b.entries, by_original |-> b.by_original, counters |-> b.counters]
    /\ DOMAIN b.entries \subseteq Texts
    /\ b.entries \in [DOMAIN b.entries ->
           [kind : Kinds, original : Originals, partition : Partitions \cup {None}]]
    /\ DOMAIN b.by_original \subseteq Kinds \X Originals
    /\ b.by_original \in [DOMAIN b.by_original -> Texts]
    /\ b.counters \in [Kinds -> Nat]

TypeOK ==
    /\ BookTypeOK(book)
    /\ frozen \in BOOLEAN
    /\ referenced \subseteq DOMAIN book.entries
    /\ subnet_map \in [SourceNets -> 0 .. NumDocs]
    /\ next_subnet_idx \in 0 .. NumDocs
    /\ used \subseteq V4!Slots /\ collapsed_sources \subseteq SourceNets
    /\ subnet_map6 \in [SourceNets6 -> 0 .. NumDocs6]
    /\ next_subnet_idx6 \in 0 .. NumDocs6
    /\ used6 \subseteq V6!Slots
    /\ session_ns_unsafe \subseteq VW!Plain /\ assigned_count \in Nat

\* The two dictionaries are inverse to each other: substitute looks an
\* original up in by_original, reverse_substitute a placeholder in entries,
\* and the answer file stores entries alone.
Inverse(b) ==
    /\ \A key \in DOMAIN b.by_original :
          /\ b.by_original[key] \in DOMAIN b.entries
          /\ KeyOf(b.entries[b.by_original[key]]) = key
    /\ \A text \in DOMAIN b.entries :
          /\ KeyOf(b.entries[text]) \in DOMAIN b.by_original
          /\ b.by_original[KeyOf(b.entries[text])] = text

\* The numbers of a kind are consecutive and end at its counter, which the
\* reader of an answer file therefore recovers as the largest number.
Numbered(b) ==
    \A kind \in OpaqueKinds :
        {text[2] : text \in {t \in DOMAIN b.entries : t[1] = kind}} = 1 .. b.counters[kind]

\* The placeholder of a path is written with the placeholder of its
\* partition, so the partition of every path must be an entry:
\* _render_placeholder raises an error otherwise.
PartitionsEntered(b) ==
    \A text \in DOMAIN b.entries :
        b.entries[text].partition \in Partitions \ {Common} =>
            <<"PARTITION", b.entries[text].partition>> \in DOMAIN b.by_original

BookInverse    == Inverse(book)
BookNumbered   == Numbered(book)
BookPartitions == PartitionsEntered(book)

\* The documentation addresses the pools gave away are exactly the address
\* entries.  An address an allocator hands out is therefore never an entry
\* already, and the collision error of intern_ipaddr cannot be raised.
AddressesAccounted ==
    /\ DOMAIN book.entries \cap Docs4Texts = {"ipv4"} \X used
    /\ DOMAIN book.entries \cap Docs6Texts = {"ipv6"} \X used6

\* The ledger is a code book, and each allocator behaves as specified.
CB == INSTANCE Codebook WITH
          decode <- [text \in DOMAIN book.entries |-> KeyOf(book.entries[text])],
          sealed <- frozen
IsCodebook == CB!Spec
UsesVocab  == VW!Spec
===========================================================================
