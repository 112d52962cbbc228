----------------------------- MODULE TextWalk -----------------------------
(***************************************************************************)
(* The substring walker of src/src/veil/substitute.py: it goes through the *)
(* text of one token from left to right, and wherever a known form begins  *)
(* replaces it, provided both ends of the form are word boundaries.  Pass  *)
(* 2 walks with the originals, deobfuscation with the placeholders.        *)
(*                                                                         *)
(* A text is a sequence of atoms.  An atom is a piece that no form cuts:   *)
(* a run of word characters, or one punctuation character.  Two runs may   *)
(* be adjacent: "bobby" is <<bob, by>>, and bob is not bounded there.      *)
(***************************************************************************)
EXTENDS Naturals, FiniteSets, SequencesExt

CONSTANTS
    Punctuation,    \* atoms that are not word characters
    Indexes         \* atoms of word characters that begin with an underscore

\* The numbers of a finite set in increasing order, and the elements of a
\* sequence at some positions.
Listed(T) ==
    [n \in 1 .. Cardinality(T) |-> CHOOSE x \in T : Cardinality({y \in T : y <= x}) = n]
Picked(s, positions) ==
    [n \in DOMAIN Listed(positions) |-> s[Listed(positions)[n]]]

\* What a scan from left to right takes of a set of spans <<begin, end>>: the
\* leftmost, and of those that begin there the longest, then the same in what
\* comes after it.  The result maps where a span begins to where it ends.
Longest(spans) ==
    [a \in {span[1] : span \in spans} |->
        Max({span[2] : span \in {other \in spans : other[1] = a}})]
Leftmost(ends) ==
    CHOOSE T \in SUBSET DOMAIN ends :
        \A a \in DOMAIN ends : a \in T <=> \A b \in T : b < a => ends[b] < a
Taken(spans) == [a \in Leftmost(Longest(spans)) |-> Longest(spans)[a]]

---------------------------------------------------------------------------
\* The character after a form ends it.  For most forms an underscore is a
\* word character; a loose form may be followed by one, as in the file names
\* <name>_<index> of the F5 file store.
Bounds(atom, loose) == atom \in Punctuation \/ (loose /\ atom \in Indexes)

LeftOk(s, i) == i = 1 \/ s[i - 1] \in Punctuation

RightOk(s, end, loose) == end > Len(s) \/ Bounds(s[end], loose)

\* forms has a set of records [from, to, entry, loose] for every entry, in the
\* order in which the entries were made: what to look for, what to put in its
\* place, the entry, and the kind of right boundary.
FitsAt(s, i, form) ==
    /\ i + Len(form.from) - 1 \in DOMAIN s
    /\ SubSeq(s, i, i + Len(form.from) - 1) = form.from
    /\ LeftOk(s, i)
    /\ RightOk(s, i + Len(form.from), form.loose)

Matches(s, forms) ==
    UNION {{<<i, i + Len(form.from) - 1>> : i \in {k \in DOMAIN s : FitsAt(s, k, form)}} :
              form \in UNION Range(forms)}

\* The sort of the forms by length is stable, so that of two that fill the same
\* span it is the one whose entry was made first.
Preferred(s, i, end, forms) ==
    LET Filling(k) == {form \in forms[k] : FitsAt(s, i, form) /\ i + Len(form.from) - 1 = end}
        first == Min({k \in DOMAIN forms : Filling(k) # {}})
    IN  CHOOSE form \in Filling(first) : TRUE

\* The rewritten text, and the entries that were used.  (TLC computes what a
\* bound variable stands for once, and a parameter each time it is used.)
Replaced(s, forms, taken) ==
    LET chosen == [i \in DOMAIN taken |-> Preferred(s, i, taken[i], forms)]
    IN  [text |-> FlattenSeq([k \in DOMAIN s |->
                      CASE k \in DOMAIN taken -> chosen[k].to
                        [] \E i \in DOMAIN taken : i < k /\ k <= taken[i] -> <<>>
                        [] OTHER -> <<s[k]>>]),
         entries |-> {chosen[i].entry : i \in DOMAIN taken}]
Walk(s, forms) ==
    CHOOSE walked \in {Replaced(s, forms, taken) : taken \in {Taken(Matches(s, forms))}} : TRUE

\* Some form of a set still occurs in a text, with boundaries on both sides.
Occurs(s, forms) ==
    \E i \in DOMAIN s, form \in forms : FitsAt(s, i, form)
===========================================================================
