----------------------------- MODULE Codebook -----------------------------
(***************************************************************************)
(* What the ledger promises its callers: a code book.  Every placeholder   *)
(* stands for one original, every original has one placeholder, entries    *)
(* are never changed or removed, and nothing is added once it is sealed.   *)
(* The answer file is written from the sealed book and the sanitized       *)
(* output from the same book, so that one decodes the other.               *)
(***************************************************************************)

VARIABLES
    decode,     \* placeholder -> what it stands for
    sealed      \* whether the book may still grow

vars == <<decode, sealed>>

Unambiguous(f) == \A p, q \in DOMAIN f : f[p] = f[q] => p = q

Init == DOMAIN decode = {} /\ sealed = FALSE

\* Some new originals get new placeholders.
Extend ==
    /\ ~sealed
    /\ \A p \in DOMAIN decode : p \in DOMAIN decode' /\ decode'[p] = decode[p]
    /\ Unambiguous(decode')
    /\ sealed' = sealed

Seal ==
    /\ sealed' = TRUE
    /\ decode' = decode

Next == Extend \/ Seal

Spec == Init /\ [][Next]_vars
===========================================================================
