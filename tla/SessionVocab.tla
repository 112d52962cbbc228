--------------------------- MODULE SessionVocab ---------------------------
(***************************************************************************)
(* The allocator of SESSION_NS placeholders (src/src/veil/ledger.py,       *)
(* _next_session_ns_placeholder) with the pre-scan that protects it        *)
(* (src/src/veil/apm_session_var_discovery.py).                            *)
(*                                                                         *)
(* A session namespace word becomes a word of a fixed vocabulary; once the *)
(* vocabulary is used up, a word with a suffix (foo_01).  A candidate is   *)
(* <<vocabulary word, cycle>>; cycle 0 is the plain word.  The allocator   *)
(* counts candidates from 0 and skips those that cannot be used.           *)
(***************************************************************************)
EXTENDS Naturals, Sequences

CONSTANTS
    Vocab,          \* the vocabulary: a sequence of words
    Words,          \* the session words a configuration may use
    MaxCycle        \* bound of the model: the last suffix tried

VARIABLES
    session_ns_unsafe,  \* vocabulary words found in a source file
    assigned_count,     \* _session_ns_assigned_count
    minted,             \* session word -> candidate, as by_original holds it
    foreign             \* candidates the ledger holds under another kind: an
                        \* IRULE_IDENT such as foo_01, rewritten from acme_01

vars == <<session_ns_unsafe, assigned_count, minted, foreign>>

Size       == Len(Vocab)
Plain      == {Vocab[i] : i \in 1 .. Size}
Cycles     == 0 .. MaxCycle
Candidates == Plain \X Cycles
Entries    == foreign \cup {minted[w] : w \in DOMAIN minted}

\* Assignment to a dictionary key.
Bind(f, key, value) ==
    [x \in DOMAIN f \cup {key} |-> IF x = key THEN value ELSE f[x]]

---------------------------------------------------------------------------
Init ==
    /\ session_ns_unsafe = {}
    /\ assigned_count = 0
    /\ minted = [w \in {} |-> 0]
    /\ foreign = {}

\* preregister_session_ns_collisions: words are the vocabulary words that
\* occur in one source text.
MarkUnsafe(words) ==
    /\ session_ns_unsafe' = session_ns_unsafe \cup words
    /\ UNCHANGED <<assigned_count, minted, foreign>>

\* The candidate at a position, in the suffix cycle that is being tried.
Candidate(position, cycle) == <<Vocab[(position % Size) + 1], cycle>>

Available(candidate) ==
    /\ candidate \notin Entries
    /\ ~(candidate[2] = 0 /\ candidate[1] \in session_ns_unsafe)

Cycle == assigned_count \div Size

\* Where the search of a cycle begins: at the counter in the current cycle,
\* at the first word of a later one.
SearchFrom(cycle) == IF cycle = Cycle THEN assigned_count ELSE cycle * Size

\* One round of the loop: the search of a cycle succeeds at an offset, after
\* it found nothing at the offsets before; or it fails at all of them.
FoundAt(cycle, offset) ==
    /\ Available(Candidate(SearchFrom(cycle) + offset, cycle))
    /\ \A o \in 0 .. offset - 1 : ~Available(Candidate(SearchFrom(cycle) + o, cycle))
FullCycle(cycle) ==
    \A o \in 0 .. Size - 1 : ~Available(Candidate(SearchFrom(cycle) + o, cycle))

\* The search goes from the current cycle to the first that is not full.
NextPlaceholder(candidate, position) ==
    \E cycle \in Cycle .. MaxCycle, offset \in 0 .. Size - 1 :
        /\ \A earlier \in Cycle .. cycle - 1 : FullCycle(earlier)
        /\ FoundAt(cycle, offset)
        /\ position = SearchFrom(cycle) + offset
        /\ candidate = Candidate(position, cycle)

\* A mutation of Advance: the counter passes the next slot as well.
Advance_Twice(position) == assigned_count' = position + 2
Advance(position) == assigned_count' = position + 1

InternWord(word) ==
    /\ word \notin DOMAIN minted
    /\ \E candidate \in Candidates, position \in 0 .. (MaxCycle + 1) * Size :
          /\ NextPlaceholder(candidate, position)
          /\ minted' = Bind(minted, word, candidate)
          /\ Advance(position)
    /\ UNCHANGED <<session_ns_unsafe, foreign>>

\* intern_irule_ident enters a text that reads like a candidate.
InternForeign(candidate) ==
    /\ candidate \notin Entries
    /\ foreign' = foreign \cup {candidate}
    /\ UNCHANGED <<session_ns_unsafe, assigned_count, minted>>

Next ==
    \/ \E words \in SUBSET Plain : MarkUnsafe(words)
    \/ \E word \in Words : InternWord(word)
    \/ \E candidate \in Candidates : InternForeign(candidate)

Spec == Init /\ [][Next]_vars

---------------------------------------------------------------------------
\* The counter may skip forward over slots it found unusable; it never skips
\* a usable one: whatever lies before it is taken or unsafe.
PassedSlotsAreUnusable ==
    \A position \in 0 .. assigned_count - 1 :
        ~Available(Candidate(position, position \div Size))
===========================================================================
