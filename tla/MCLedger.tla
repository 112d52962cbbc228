----------------------------- MODULE MCLedger -----------------------------
(***************************************************************************)
(* Constants for the runs of Ledger.  Every run gives families of kinds    *)
(* something to intern and leaves the others empty.  Families of kinds     *)
(* share texts in one place here: an iRule identifier may be rewritten to  *)
(* a bare vocabulary word.                                                 *)
(***************************************************************************)
EXTENDS AnswerFile

MCVocab == <<"foo", "bar">>
NoVocab == <<"foo">>

\* An identifier rewritten to a bare vocabulary word, and one that keeps a
\* text of its own.
MCIdentTexts == {<<"word", <<"bar", 0>>>>, <<"ident", "static::jwt_foo_debug">>}
===========================================================================
