----------------------------- MODULE AnswerFile -----------------------------
(***************************************************************************)
(* What the answer file keeps of a ledger (src/src/veil/answer_file.py):   *)
(* its entries.  The reader makes the other two dictionaries anew, and     *)
(* freezes the ledger.  The diagnostics and the names of the sources,      *)
(* which are copied, and the encryption are left out; see Cli.             *)
(***************************************************************************)
EXTENDS Ledger

\* dump_unsafe: one row for every entry.
Rows(b) ==
    {[placeholder |-> text, kind |-> b.entries[text].kind,
      original |-> b.entries[text].original, partition |-> b.entries[text].partition] :
        text \in DOMAIN b.entries}

\* The number after the last underscore of a placeholder, as in POOL_0001 and
\* in foo_01; others do not move a counter.
Suffix(text) ==
    CASE text[1] \in OpaqueKinds -> text[2]
      [] text[1] = "word" -> text[2][2]
      [] OTHER -> 0

SuffixesOf(rows, kind) ==
    {Suffix(row.placeholder) : row \in {r \in rows : r.kind = kind}}

\* A mutation of ReadCounter: a smaller number replaces a larger one.
ReadCounter_Lowest(rows, kind) ==
    IF SuffixesOf(rows, kind) = {} THEN 0
    ELSE CHOOSE n \in SuffixesOf(rows, kind) : \A m \in SuffixesOf(rows, kind) : n <= m
ReadCounter(rows, kind) ==
    CHOOSE n \in {0} \cup SuffixesOf(rows, kind) :
        \A m \in {0} \cup SuffixesOf(rows, kind) : m <= n

\* _ledger_from_entries
RowOf(rows, text) == CHOOSE row \in rows : row.placeholder = text
RowFor(rows, key) == CHOOSE row \in rows : KeyOf(row) = key

LedgerFromEntries(rows) ==
    [entries |-> [text \in {row.placeholder : row \in rows} |->
                     Entry(RowOf(rows, text).kind, RowOf(rows, text).original,
                           RowOf(rows, text).partition)],
     by_original |-> [key \in {KeyOf(row) : row \in rows} |-> RowFor(rows, key).placeholder],
     counters |-> [kind \in Kinds |-> ReadCounter(rows, kind)]]

---------------------------------------------------------------------------
\* The texts KIND_NNNN are those of their own kinds.  The reader takes the kind
\* from the row and the number from the text, so it depends on this.
KindsMatch(b) ==
    \A text \in DOMAIN b.entries :
        \A kind \in OpaqueKinds : text[1] = kind <=> b.entries[text].kind = kind
BookKinds == KindsMatch(book)

\* A ledger that is written to the answer file at any moment and read back is
\* the same ledger: every original is found under its placeholder, every
\* placeholder under its original, and the counters of opaque kinds continue
\* where they were.
ReadsBack ==
    LET read == LedgerFromEntries(Rows(book))
    IN  /\ read.entries = book.entries
        /\ read.by_original = book.by_original
        /\ \A kind \in OpaqueKinds : read.counters[kind] = book.counters[kind]

\* The IPv6 pool keeps its promises within the ledger: literals of one /64 stay
\* together with their host parts, and literals of two are kept apart.
Ipv6StructureKept == V6!StructurePreserved

\* The counter of the vocabulary never passed a word it could have used.
SessionWordsUsed == VW!PassedSlotsAreUnusable
===========================================================================
