------------------------------- MODULE Book -------------------------------
(***************************************************************************)
(* The table of a ledger (src/src/veil/ledger.py): operators on a record   *)
(* of the three dictionaries of class Ledger.  entries maps the text of a  *)
(* placeholder to its entry, by_original a kind and an original to that    *)
(* text, and counters a kind to the number of its entries.                 *)
(*                                                                         *)
(* The text of an opaque placeholder KIND_NNNN is the pair <<kind, NNNN>>. *)
(***************************************************************************)
EXTENDS Naturals

CONSTANTS
    Common,     \* the partition every device has; it is never renamed
    None        \* Python's None

\* Assignment to a dictionary key.
Bind(f, key, value) ==
    [x \in DOMAIN f \cup {key} |-> IF x = key THEN value ELSE f[x]]

EmptyBook(kinds) == [entries     |-> [text \in {} |-> 0],
                     by_original |-> [key \in {} |-> 0],
                     counters    |-> [kind \in kinds |-> 0]]

Entry(kind, original, partition) ==
    [kind |-> kind, original |-> original, partition |-> partition]

KeyOf(entry) == <<entry.kind, entry.original>>

\* A new entry enters both dictionaries; the counter of its kind moves.
Enter(b, kind, original, partition, text) ==
    [entries     |-> Bind(b.entries, text, Entry(kind, original, partition)),
     by_original |-> Bind(b.by_original, <<kind, original>>, text),
     counters    |-> [b.counters EXCEPT ![kind] = @ + 1]]

\* Mutations of Number: numbering from zero, and a number shared by kinds.
Number_FromZero(b, kind) == b.counters[kind]
Number_Stuck(b, kind) == 1
Number(b, kind) == b.counters[kind] + 1

\* intern: the old placeholder of a known original, a new number otherwise.
Intern(b, kind, original, partition) ==
    IF <<kind, original>> \in DOMAIN b.by_original THEN b
    ELSE Enter(b, kind, original, partition, <<kind, Number(b, kind)>>)

\* A mutation of InternPartition: partitions are not entered at all.
InternPartition_Skipped(b, partition) == b

\* intern_partition: Common stays literal.
InternPartition(b, partition) ==
    IF partition = Common THEN b ELSE Intern(b, "PARTITION", partition, None)

\* A mutation of EnterRendered: the text is not looked up first.
EnterRendered_Unchecked(b, kind, original, text) ==
    Enter(b, kind, original, None, text)

\* The four intern_* methods that choose the text themselves raise an error,
\* and enter nothing, when the text is an entry already.
EnterRendered(b, kind, original, text) ==
    IF text \in DOMAIN b.entries THEN b ELSE Enter(b, kind, original, None, text)
===========================================================================
