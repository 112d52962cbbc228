------------------------- MODULE SubstituteProofs -------------------------
(***************************************************************************)
(* Proofs about module Substitute: what the two passes owe to each other.  *)
(***************************************************************************)
EXTENDS Substitute, TLAPS, WellFoundedInduction, FiniteSetTheorems

---------------------------------------------------------------------------
(* Sets of positions. *)

\* A non-empty set of numbers has a least one.
LEMMA LeastNumber ==
    ASSUME NEW T, T \subseteq Nat, T # {}
    PROVE  \E x \in T : \A y \in T : x <= y
  <1>1. PICK x \in T : \A y \in T : ~ (<<y, x>> \in OpToRel(<, Nat))
    BY NatLessThanWellFounded, WFMin, Zenon
  <1>2. \A y \in T : ~ (y < x)
    BY <1>1 DEF OpToRel
  <1>3. QED
    BY <1>2

\* Min is in the set.
LEMMA MinInSet ==
    ASSUME NEW T, T \subseteq Nat, T # {}
    PROVE  Min(T) \in T /\ \A y \in T : Min(T) <= y
  BY LeastNumber DEF Min

\* What closes a brace is a brace.
LEMMA ClosingIsBrace ==
    ASSUME NEW toks, NEW n \in Nat, Len(toks) = n,
           NEW k \in Nat, NEW m \in Closing(toks, k)
    PROVE  m \in k + 1 .. n /\ toks[m].kind = "RBRACE"
  <1> DEFINE opening(to) == {p \in k .. to : toks[p].kind = "LBRACE"}
             closing(to) == {p \in k .. to : toks[p].kind = "RBRACE"}
  <1>1. /\ m \in k + 1 .. n
        /\ Cardinality(opening(m)) = Cardinality(closing(m))
        /\ \A earlier \in k .. m - 1 :
              Cardinality(opening(earlier)) > Cardinality(closing(earlier))
    BY DEF Closing, Open, Closed
  <1>2. Cardinality(opening(m - 1)) > Cardinality(closing(m - 1))
    <2>1. m - 1 \in k .. m - 1
      BY <1>1
    <2>2. QED
      BY <1>1, <2>1
  <1>3. IsFiniteSet(k .. m)
    BY <1>1, FS_Interval
  <1>4. IsFiniteSet(opening(m)) /\ IsFiniteSet(closing(m))
    BY <1>3, FS_Subset
  <1>5. opening(m - 1) \subseteq opening(m)
    BY <1>1
  <1>6. /\ Cardinality(opening(m - 1)) <= Cardinality(opening(m))
        /\ Cardinality(opening(m)) \in Nat /\ Cardinality(closing(m)) \in Nat
        /\ Cardinality(opening(m - 1)) \in Nat
    <2>1. IsFiniteSet(opening(m - 1))
      BY <1>4, <1>5, FS_Subset
    <2>2. QED
      BY <1>4, <1>5, <2>1, FS_Subset, FS_CardinalityType
  <1>7. ASSUME toks[m].kind # "RBRACE" PROVE FALSE
    <2>1. closing(m) = closing(m - 1)
      BY <1>1, <1>7
    <2>2. QED
      <3> HIDE DEF opening, closing
      <3> QED BY <1>1, <1>2, <1>6, <2>1
  <1>8. QED
    BY <1>1, <1>7

---------------------------------------------------------------------------
(***************************************************************************)
(* The walk of pass 1.7.  It passes over the value of a description field, *)
(* so that a value that is itself such a word is never taken for a field.  *)
(* Pass 2 passes over it, too, but only outside iRules: inside it looks at *)
(* every token, and comes back to the positions of pass 1.7 at the brace   *)
(* that ends the rule.                                                     *)
(***************************************************************************)
IsField(toks, k) ==
    k \in DOMAIN toks /\ toks[k].kind = "WORD" /\ toks[k].text \in DescFields

\* A field with a value that is a word or a string.
Skips(toks, k) ==
    /\ IsField(toks, k)
    /\ k + 1 \in DOMAIN toks /\ toks[k + 1].kind \in {"QSTRING", "WORD"}

Following(toks, k) == IF Skips(toks, k) THEN k + 2 ELSE k + 1

\* The span after a field, and whether the ledger has it.
Span(toks, k) == Spaced(SubSeq(toks, k + 1, Min(Closing(toks, k + 1))))
SpanKnown(toks, k) ==
    /\ IsField(toks, k)
    /\ k + 1 \in DOMAIN toks /\ toks[k + 1].kind = "LBRACE"
    /\ Closing(toks, k + 1) # {}
    => <<"DESC", Span(toks, k)>> \in DOMAIN book.by_original

\* V holds the positions of the walk up to n, and what is before n is known.
Walked(toks, V, n) ==
    /\ V \subseteq Nat \ {0} /\ 1 \in V
    /\ \A k \in V : k < n => Following(toks, k) \in V /\ SpanKnown(toks, k)

Complete(toks) == \E V : Walked(toks, V, Len(toks) + 1)

\* The walk leaves out no two positions in a row.
LEMMA NoTwoLeftOut ==
    ASSUME NEW toks, NEW V, NEW n \in Nat, Walked(toks, V, n),
           NEW m \in Nat \ {0}, m < n
    PROVE  m \in V \/ m + 1 \in V
  <1> DEFINE Gaps == {k \in 1 .. m : k \notin V /\ k + 1 \notin V}
  <1>1. SUFFICES ASSUME Gaps # {} PROVE FALSE
    BY <1>1
  <1>2. PICK k \in Gaps : \A other \in Gaps : k <= other
    BY <1>1, LeastNumber, Gaps \subseteq Nat
  <1>3. k # 1
    BY <1>2 DEF Walked
  <1>4. k - 1 \in V
    <2>1. k - 1 \notin Gaps /\ k - 1 \in 1 .. m
      BY <1>2, <1>3
    <2>2. QED
      BY <1>2, <1>3, <2>1
  <1>5. Following(toks, k - 1) \in V
    BY <1>2, <1>4 DEF Walked
  <1>6. Following(toks, k - 1) \in {k, k + 1}
    BY <1>2 DEF Following
  <1>7. QED
    BY <1>2, <1>5, <1>6

\* A position that is not that of a value is on the walk.
LEMMA WalkMeets ==
    ASSUME NEW toks, NEW V, NEW n \in Nat, Walked(toks, V, n),
           NEW k \in Nat \ {0}, k <= n, ~Skips(toks, k - 1)
    PROVE  k \in V
  <1>1. SUFFICES ASSUME k \notin V PROVE FALSE
    OBVIOUS
  <1>2. k # 1
    BY <1>1 DEF Walked
  <1>3. k - 1 \in V
    BY <1>1, <1>2, NoTwoLeftOut, k - 1 \in Nat \ {0}, k - 1 < n, (k - 1) + 1 = k
  <1>4. Following(toks, k - 1) = k
    BY DEF Following
  <1>5. QED
    BY <1>1, <1>3, <1>4 DEF Walked

\* So the position after a brace is on it.
LEMMA WalkMeetsBrace ==
    ASSUME NEW toks, NEW n \in Nat, Len(toks) = n, DOMAIN toks = 1 .. n,
           NEW V, Walked(toks, V, n + 1),
           NEW k \in 1 .. n, toks[k].kind = "RBRACE"
    PROVE  k + 1 \in V
  <1>1. ~Skips(toks, k - 1)
    BY DEF Skips
  <1>2. k \in V
    BY <1>1, WalkMeets, n + 1 \in Nat
  <1>3. Following(toks, k) = k + 1
    BY DEF Following, Skips, IsField
  <1>4. QED
    BY <1>2, <1>3 DEF Walked

---------------------------------------------------------------------------
(* The ledger grows. *)

Grows == DOMAIN book.by_original \subseteq DOMAIN book'.by_original

LEMMA EnterGrows ==
    ASSUME NEW b, NEW kind, NEW original, NEW partition, NEW text
    PROVE  DOMAIN Enter(b, kind, original, partition, text).by_original
               = DOMAIN b.by_original \cup {<<kind, original>>}
  <1>1. Enter(b, kind, original, partition, text).by_original
            = Bind(b.by_original, <<kind, original>>, text)
    BY DEF Enter
  <1>2. QED
    BY <1>1 DEF Bind

LEMMA InternGrows ==
    ASSUME NEW b, NEW kind, NEW original, NEW partition
    PROVE  DOMAIN Intern(b, kind, original, partition).by_original
               = DOMAIN b.by_original \cup {<<kind, original>>}
  BY EnterGrows DEF Intern

LEMMA WithPathGrows ==
    ASSUME NEW b, NEW kind, NEW path
    PROVE  DOMAIN b.by_original \subseteq DOMAIN WithPath(b, kind, path).by_original
  BY InternGrows DEF WithPath, InternPartition

LEMMA RecordGrows ==
    ASSUME NEW kind, NEW text, NEW condition,
           RecordIf(condition, kind, text) \/ RecordNothing
               \/ Record(WithPath(book, kind, text))
    PROVE  Grows /\ UNCHANGED collapsed_sources
  BY InternGrows, WithPathGrows
     DEF RecordIf, RecordNothing, Record, Grows, ledger, allocators

LEMMA RegisterGrows ==
    ASSUME NEW kind, NEW k, NEW path, Register(kind, k, path)
    PROVE  Grows /\ UNCHANGED collapsed_sources
  BY RecordGrows DEF Register

\* The methods of the ledger, too.
LEMMA RenderedGrows ==
    ASSUME NEW kind, NEW original, NEW text,
           book' = LG!EnterRendered(book, kind, original, text)
               \/ book' = LG!Enter(book, kind, original, None, text)
               \/ book' = LG!Intern(book, kind, original, None)
               \/ UNCHANGED book
    PROVE  DOMAIN book.by_original \subseteq DOMAIN book'.by_original
  <1>1. ASSUME NEW t
        PROVE  DOMAIN book.by_original \subseteq
                   DOMAIN LG!Enter(book, kind, original, None, t).by_original
    <2>1. LG!Enter(book, kind, original, None, t).by_original
              = LG!Bind(book.by_original, <<kind, original>>, t)
      BY DEF LG!Enter
    <2>2. QED
      BY <2>1 DEF LG!Bind
  <1>2. QED
    BY <1>1 DEF LG!EnterRendered, LG!Intern

LEMMA AddressGrows ==
    ASSUME NEW addr, LG!InternIpv4(addr)
    PROVE  Grows
  BY RenderedGrows DEF LG!InternIpv4, Grows

LEMMA FindGrows ==
    ASSUME NEW find, InternFind(find)
    PROVE  Grows
  <1>1. CASE Known(find.kind, find.text)
    BY <1>1 DEF InternFind, RecordNothing, Grows, ledger, allocators
  <1>2. CASE LG!InternIpv4(Atom(find)[2])
    BY <1>2, AddressGrows
  <1>3. CASE LG!InternIpv6(Atom(find)[2])
    BY <1>3, RenderedGrows DEF LG!InternIpv6, Grows
  <1>4. CASE LG!InternTimestamp(Atom(find)[2])
    BY <1>4, RenderedGrows DEF LG!InternTimestamp, Grows
  <1>5. CASE LG!InternSessionNamespaceWord(Atom(find))
    BY <1>5, RenderedGrows DEF LG!InternSessionNamespaceWord, Grows
  <1>6. CASE LG!InternIruleIdent(find.text, TextKey(find.as))
    BY <1>6, RenderedGrows DEF LG!InternIruleIdent, Grows
  <1>7. CASE LG!InternText(find.kind, find.text)
    BY <1>7, RenderedGrows DEF LG!InternText, Grows
  <1>8. QED
    BY <1>1, <1>2, <1>3, <1>4, <1>5, <1>6, <1>7 DEF InternFind

---------------------------------------------------------------------------
(***************************************************************************)
(* The invariant.  A file that pass 1.7 has left has all its descriptions  *)
(* in the ledger; pass 1.7 is on its walk, and so is pass 2 outside iRules.*)
(***************************************************************************)
EarlyPasses == {"objects", "ips", "descriptions"}

FilesOK ==
    /\ files \in Sources /\ file \in DOMAIN files

LeftFilesComplete ==
    pass \in Range(Passes) =>
        \A f \in 1 .. file : f < file \/ pass \notin EarlyPasses => Complete(files[f])

OnTheWalk ==
    pass = "descriptions" =>
        \E V : V \subseteq 1 .. i /\ i \in V /\ Walked(tokens, V, i)

OnTheSameWalk ==
    pass = "substitute" =>
        /\ \A f \in DOMAIN files : Complete(files[f])
        /\ i \in Nat \ {0}
        /\ \E V : /\ Walked(tokens, V, Len(tokens) + 1)
                  /\ in_rule \/ AtEnd \/ i \in V

IInv ==
    /\ FilesOK
    /\ LeftFilesComplete
    /\ OnTheWalk
    /\ OnTheSameWalk
    /\ PassesAgree

\* What the assumption on the files says.
LEMMA FileShape ==
    ASSUME files \in Sources
    PROVE  /\ Len(files) \in Nat \ {0} /\ DOMAIN files = 1 .. Len(files)
           /\ \A f \in DOMAIN files :
                 Len(files[f]) \in Nat /\ DOMAIN files[f] = 1 .. Len(files[f])
  <1>1. files \in Seq(Range(files)) /\ files # <<>>
    BY SourceAssumption
  <1>2. Len(files) \in Nat \ {0} /\ DOMAIN files = 1 .. Len(files)
    BY <1>1
  <1>3. ASSUME NEW f \in DOMAIN files
        PROVE  Len(files[f]) \in Nat /\ DOMAIN files[f] = 1 .. Len(files[f])
    <2>1. files[f] \in Range(files)
      BY DEF Range
    <2>2. \A toks \in Range(files) :
             toks \in Seq([kind : TokenKinds, text : {token.text : token \in Range(toks)}])
      BY SourceAssumption
    <2> DEFINE S == [kind : TokenKinds, text : {token.text : token \in Range(files[f])}]
    <2>3. files[f] \in Seq(S)
      BY <2>1, <2>2
    <2> HIDE DEF S
    <2>4. QED
      BY <2>3
  <1>4. QED
    BY <1>2, <1>3

\* Every list of files may be given a program; the first is the base file.
LEMMA InitIInv == Init => IInv
  <1>1. SUFFICES ASSUME Init PROVE IInv
    OBVIOUS
  <1>2. FilesOK
    BY <1>1, FileShape DEF Init, ScannerInit, FilesOK
  <1>3. pass = "prescan" /\ "prescan" \notin Range(Passes)
    BY <1>1 DEF Init, ScannerInit, Range, Passes
  <1>4. QED
    BY <1>1, <1>2, <1>3
       DEF Init, ScannerInit, IInv, LeftFilesComplete, OnTheWalk, OnTheSameWalk,
           PassesAgree

\* What the walkers other than that of descriptions do to this.
Elsewhere ==
    /\ pass \notin {"descriptions", "substitute"}
    /\ UNCHANGED <<files, file>>
    /\ pass' \in {pass, "aborted"}
    /\ Grows
    /\ UNCHANGED <<ipv4_subnet_collapsed, unredacted_description>>

LEMMA WalkedGrows ==
    ASSUME NEW toks, NEW V, NEW n, Walked(toks, V, n),
           DOMAIN book.by_original \subseteq DOMAIN book'.by_original
    PROVE  Walked(toks, V, n)'
  BY DEF Walked, SpanKnown, Following, Skips, IsField, Span

LEMMA CompleteGrows ==
    ASSUME NEW toks, Complete(toks),
           DOMAIN book.by_original \subseteq DOMAIN book'.by_original
    PROVE  Complete(toks)'
  BY WalkedGrows DEF Complete

LEMMA ElsewhereStep ==
    IInv /\ Elsewhere => IInv'
  <1>1. SUFFICES ASSUME IInv, Elsewhere PROVE IInv'
    OBVIOUS
  <1>2. pass' \notin {"descriptions", "substitute"}
    BY <1>1 DEF Elsewhere
  <1>3. FilesOK'
    BY <1>1 DEF IInv, FilesOK, Elsewhere
  <1>4. LeftFilesComplete'
    <2>1. pass' \in Range(Passes)' => pass' = pass
      BY <1>1 DEF Elsewhere, Range, Passes
    <2>2. ASSUME NEW f, Complete(files[f]) PROVE Complete(files[f])'
      BY <1>1, <2>2, CompleteGrows DEF Elsewhere, Grows, Complete, Walked, SpanKnown,
            Following, Skips, IsField, Span
    <2>3. QED
      BY <1>1, <2>1, <2>2 DEF IInv, LeftFilesComplete, Elsewhere
  <1>5. PassesAgree'
    BY <1>1 DEF IInv, PassesAgree, Elsewhere
  <1>6. QED
    BY <1>2, <1>3, <1>4, <1>5 DEF IInv, OnTheWalk, OnTheSameWalk

---------------------------------------------------------------------------
(* Pass 1.7. *)

\* A step of the walk of descriptions, when it leaves the field behind known.
LEMMA DescriptionStep ==
    ASSUME IInv, pass = "descriptions", ~AtEnd,
           UNCHANGED <<files, file, pass, unredacted_description>>,
           Grows, i' = Following(tokens, i), \A k \in {i} : SpanKnown(tokens, k)'
    PROVE  IInv'
  <1>1. FilesOK' /\ PassesAgree' /\ OnTheSameWalk'
    BY DEF IInv, FilesOK, PassesAgree, OnTheSameWalk
  <1>2. LeftFilesComplete'
    <2>1. ASSUME NEW f, Complete(files[f]) PROVE Complete(files[f])'
      BY <2>1, CompleteGrows DEF Grows, Complete, Walked, SpanKnown,
            Following, Skips, IsField, Span
    <2>2. QED
      BY <2>1 DEF IInv, LeftFilesComplete
  <1>3. OnTheWalk'
    <2>1. PICK V : V \subseteq 1 .. i /\ i \in V /\ Walked(tokens, V, i)
      BY DEF IInv, OnTheWalk
    <2>2. i \in Nat \ {0} /\ V \subseteq Nat \ {0}
      BY <2>1 DEF Walked
    <2>3. i' \in {i + 1, i + 2}
      BY DEF Following
    <2> PICK W : W = V \cup {i'}
      OBVIOUS
    <2>4. W \subseteq 1 .. i'
      <3>1. \A k \in V : k \in 1 .. i'
        BY <2>1, <2>2, <2>3
      <3>2. i' \in 1 .. i'
        BY <2>2, <2>3
      <3>3. QED
        BY <3>1, <3>2
    <2>5. \A k \in V : k < i => Following(tokens, k) \in V /\ SpanKnown(tokens, k)'
      <3>1. \A k : SpanKnown(tokens, k) => SpanKnown(tokens, k)'
        BY DEF SpanKnown, IsField, Span, Grows, tokens
      <3>2. QED
        BY <2>1, <3>1 DEF Walked
    <2>6. \A k \in W : k < i' =>
              Following(tokens, k) \in W /\ SpanKnown(tokens, k)'
      <3>1. SUFFICES ASSUME NEW k \in V, k < i'
                     PROVE  Following(tokens, k) \in W /\ SpanKnown(tokens, k)'
        BY <2>2, <2>3
      <3>2. k < i \/ k = i
        BY <2>1, <2>2
      <3>3. QED
        BY <2>5, <3>1, <3>2
    <2>7. W \subseteq Nat \ {0} /\ 1 \in W /\ i' \in W
      <3>1. 1 \in V
        BY <2>1 DEF Walked
      <3>2. i' \in Nat \ {0}
        BY <2>2, <2>3
      <3>3. QED
        BY <2>2, <3>1, <3>2
    <2>8. Walked(tokens, W, i)'
      BY <2>6, <2>7 DEF Walked, Following, Skips, IsField, tokens
    <2>9. QED
      BY <2>4, <2>7, <2>8 DEF OnTheWalk
  <1>4. QED
    BY <1>1, <1>2, <1>3 DEF IInv

LEMMA ValueStep ==
    IInv /\ DiscoverDescriptionValue /\ UNCHANGED results => IInv'
  <1>1. SUFFICES ASSUME IInv, DiscoverDescriptionValue, UNCHANGED results PROVE IInv'
    OBVIOUS
  <1>2. Grows
    BY <1>1, RecordGrows DEF DiscoverDescriptionValue
  <1>3. i' = Following(tokens, i)
    BY <1>1 DEF DiscoverDescriptionValue, Advance, Following, Skips, IsField, IsIn, Is
  <1>4. \A k \in {i} : SpanKnown(tokens, k)'
    BY <1>1 DEF DiscoverDescriptionValue, Advance, SpanKnown, Is, tokens
  <1>5. QED
    BY <1>1, <1>2, <1>3, <1>4, DescriptionStep
       DEF DiscoverDescriptionValue, InDescriptions, NoDiagnostics, diagnostics, Advance, results

LEMMA BracedStep ==
    IInv /\ DiscoverDescriptionBraced /\ UNCHANGED results => IInv'
  <1>1. SUFFICES ASSUME IInv, DiscoverDescriptionBraced, UNCHANGED results PROVE IInv'
    OBVIOUS
  <1>2. Grows
    BY <1>1, RecordGrows DEF DiscoverDescriptionBraced
  <1>3. i' = Following(tokens, i)
    BY <1>1 DEF DiscoverDescriptionBraced, Advance, Following, Skips, IsField, Is
  <1>4. Closing(tokens, i + 1) # {} =>
            <<"DESC", Span(tokens, i)>> \in DOMAIN book'.by_original
    BY <1>1, InternGrows DEF DiscoverDescriptionBraced, RecordIf, Record, Span
  <1>5. \A k \in {i} : SpanKnown(tokens, k)'
    BY <1>1, <1>4 DEF DiscoverDescriptionBraced, Advance, SpanKnown, Span, tokens
  <1>6. QED
    BY <1>1, <1>2, <1>3, <1>5, DescriptionStep
       DEF DiscoverDescriptionBraced, InDescriptions, NoDiagnostics, diagnostics, Advance, results

LEMMA NoDescriptionStep ==
    IInv /\ DiscoverNoDescription /\ UNCHANGED results => IInv'
  <1>1. SUFFICES ASSUME IInv, DiscoverNoDescription, UNCHANGED results PROVE IInv'
    OBVIOUS
  <1>2. Grows
    BY <1>1 DEF DiscoverNoDescription, RecordNothing, ledger, allocators, Grows
  <1>3. i' = Following(tokens, i)
    BY <1>1 DEF DiscoverNoDescription, Advance, Following, Skips, IsField, IsIn, Is
  <1>4. \A k \in {i} : SpanKnown(tokens, k)'
    BY <1>1 DEF DiscoverNoDescription, Advance, SpanKnown, IsField, IsIn, Is, tokens
  <1>5. QED
    BY <1>1, <1>2, <1>3, <1>4, DescriptionStep
       DEF DiscoverNoDescription, InDescriptions, NoDiagnostics, diagnostics, Advance, results

---------------------------------------------------------------------------
(* The other walkers. *)

\* A loop passes a token, or handles a find in it.
LEMMA LookStays ==
    ASSUME NEW finds, NEW width, Look(finds, width)
    PROVE  Grows /\ UNCHANGED <<files, file>> /\ pass' \in {pass, "aborted"}
  <1>1. CASE j \notin DOMAIN finds
    BY <1>1 DEF Look, RecordNothing, ledger, allocators, Grows, Advance
  <1>2. CASE j \in DOMAIN finds
    <2>1. Grows
      BY <1>2, FindGrows DEF Look
    <2>2. QED
      BY <1>2, <2>1 DEF Look, Advance
  <1>3. QED
    BY <1>1, <1>2

LEMMA LoopIsElsewhere ==
    ASSUME NEW walker, walker \notin {"descriptions", "substitute"}, NEW found,
           Loop(walker, found), UNCHANGED results
    PROVE  Elsewhere
  BY LookStays DEF Loop, NoDiagnostics, diagnostics, results, Elsewhere

LEMMA ObjectsAreElsewhere ==
    ASSUME SkipBody \/ RegisterObject \/ RecordUnknownTopLevel \/ SkipTopLevel,
           UNCHANGED results
    PROVE  Elsewhere
  <1>1. Grows
    BY RecordGrows, RegisterGrows
       DEF SkipBody, RegisterObject, RecordUnknownTopLevel, SkipTopLevel
  <1>2. UNCHANGED <<files, file, pass>>
    BY DEF SkipBody, RegisterObject, RecordUnknownTopLevel, SkipTopLevel, Advance
  <1>3. pass = "objects" /\ UNCHANGED ipv4_subnet_collapsed
    BY DEF SkipBody, RegisterObject, RecordUnknownTopLevel, SkipTopLevel, InObjects
  <1>4. QED
    BY <1>1, <1>2, <1>3 DEF Elsewhere, results

LEMMA CommentsAreElsewhere ==
    ASSUME EnterRule \/ CountBrace \/ DiscoverComment, UNCHANGED results
    PROVE  Elsewhere
  <1>1. Grows
    BY RecordGrows DEF EnterRule, CountBrace, DiscoverComment
  <1>2. UNCHANGED <<files, file, pass>>
    BY DEF EnterRule, CountBrace, DiscoverComment, Advance
  <1>3. pass = "comments" /\ UNCHANGED ipv4_subnet_collapsed
    BY DEF EnterRule, CountBrace, DiscoverComment, InComments, NoDiagnostics, diagnostics
  <1>4. QED
    BY <1>1, <1>2, <1>3 DEF Elsewhere, results

LEMMA BlocksAreElsewhere ==
    ASSUME BlockNext, UNCHANGED results
    PROVE  Elsewhere
  <1>1. Grows
    BY RecordGrows
       DEF BlockNext, EnterBlock, CountBlockBrace, EnterInner, RegisterBucket, DiscoverField
  <1>2. UNCHANGED <<files, file, pass>>
    BY DEF BlockNext, EnterBlock, CountBlockBrace, EnterInner, RegisterBucket, DiscoverField,
           Advance
  <1>3. pass \in BlockPasses /\ UNCHANGED ipv4_subnet_collapsed
    BY DEF BlockNext, EnterBlock, CountBlockBrace, EnterInner, RegisterBucket, DiscoverField,
           InWalker, NoDiagnostics, diagnostics
  <1>4. QED
    BY <1>1, <1>2, <1>3 DEF Elsewhere, results, BlockPasses

LEMMA OthersAreElsewhere ==
    ASSUME \/ DiscoverQueryAttrname \/ DiscoverSamlOauth
           \/ DiscoverIruleLiteral \/ DiscoverIruleIdentifier \/ SkipOther,
           UNCHANGED results
    PROVE  Elsewhere
  <1>1. PICK finds, width : Look(finds, width)
    BY DEF DiscoverQueryAttrname, DiscoverSamlOauth, DiscoverIruleLiteral,
           DiscoverIruleIdentifier, SkipOther
  <1>2. pass \in BlockPasses /\ UNCHANGED ipv4_subnet_collapsed
    BY DEF DiscoverQueryAttrname, DiscoverSamlOauth, DiscoverIruleLiteral,
           DiscoverIruleIdentifier, SkipOther, AtOther, InWalker, NoDiagnostics, diagnostics
  <1>3. QED
    BY <1>1, <1>2, LookStays DEF Elsewhere, results, BlockPasses

LEMMA PreregisterIsElsewhere ==
    ASSUME Preregister, UNCHANGED results
    PROVE  Elsewhere
  BY DEF Preregister, LG!MarkSessionNsUnsafe, LG!v4, Advance, NoDiagnostics, diagnostics,
         results, Elsewhere, Grows

LEMMA FieldsAreElsewhere ==
    ASSUME FieldNext \/ LiteralNext, UNCHANGED results
    PROVE  Elsewhere
  <1>1. CASE Preregister
    BY <1>1, PreregisterIsElsewhere
  <1>2. CASE FieldNext
    BY <1>2, LoopIsElsewhere
       DEF FieldNext, DiscoverUsernames, DiscoverMonitorRecv, DiscoverMonitorPaths,
           DiscoverTimestamps, DiscoverApmVarLiterals, DiscoverBaseDns, DiscoverKrbRealms
  <1>3. CASE LiteralNext /\ ~Preregister
    BY <1>3, LoopIsElsewhere
       DEF LiteralNext, DiscoverIpLiterals, DiscoverAdDns, DiscoverFqdns, DiscoverSessionWords
  <1>4. QED
    BY <1>1, <1>2, <1>3

---------------------------------------------------------------------------
(* From one walker to the next. *)

LEMMA PassOrder ==
    /\ DOMAIN Passes = 1 .. 27
    /\ Passes[1] = "objects" /\ Last(Passes) = "irule_identifiers"
    /\ Range(Passes) \cap {"prescan", "substitute", "restore", "done"} = {}
    /\ \A p \in 1 .. 26 :
          /\ Passes[p + 1] = "descriptions" => Passes[p] = "ips"
          /\ Passes[p + 1] \in Range(Passes)
          /\ Passes[p + 1] \notin EarlyPasses => Passes[p] \notin EarlyPasses \ {"descriptions"}
  <1>1. DOMAIN Passes = 1 .. 27
    BY DEF Passes
  <1>2. /\ Passes[1] = "objects" /\ Last(Passes) = "irule_identifiers"
        /\ Range(Passes) \cap {"prescan", "substitute", "restore", "done"} = {}
    BY DEF Passes, Last, Range
  <1>3. ASSUME NEW p \in 1 .. 26
        PROVE  /\ Passes[p + 1] = "descriptions" => Passes[p] = "ips"
               /\ Passes[p + 1] \notin EarlyPasses =>
                      Passes[p] \notin EarlyPasses \ {"descriptions"}
    BY DEF Passes, EarlyPasses
  <1>4. ASSUME NEW p \in 1 .. 26 PROVE Passes[p + 1] \in Range(Passes)
    BY <1>1 DEF Range
  <1>5. QED
    BY <1>1, <1>2, <1>3, <1>4

\* A step keeps what is complete when it keeps the ledger.
LEMMA CompleteStays ==
    ASSUME UNCHANGED <<files, book>>, NEW f, Complete(files[f])
    PROVE  Complete(files[f])'
  BY DEF Complete, Walked, SpanKnown, Following, Skips, IsField, Span

LEMMA NextWalkerStep ==
    IInv /\ NextWalker /\ UNCHANGED results => IInv'
  <1>1. SUFFICES ASSUME IInv, NextWalker, UNCHANGED results PROVE IInv'
    OBVIOUS
  <1>2. /\ UNCHANGED <<files, book, unredacted_description>>
        /\ i' = 1 /\ AtEnd
    BY <1>1 DEF NextWalker, allocators, results, Rewind
  <1>3. /\ files \in Sources /\ file \in DOMAIN files
        /\ Len(files) \in Nat \ {0} /\ DOMAIN files = 1 .. Len(files)
        /\ Len(tokens) \in Nat
    BY <1>1, FileShape DEF IInv, FilesOK, tokens
  <1>4. PassesAgree'
    BY <1>1, <1>2 DEF IInv, PassesAgree
  <1>5. ASSUME NEW f, Complete(files[f]) PROVE Complete(files[f])'
    BY <1>2, <1>5, CompleteStays
  <1>6. CASE pass = "prescan"
    <2>1. NextFile("prescan", "objects")
      BY <1>1, <1>6, PassOrder DEF NextWalker
    <2>2. /\ pass' = "prescan" \/ (pass' = "objects" /\ file' = 1)
          /\ file' \in DOMAIN files
      BY <1>3, <2>1 DEF NextFile
    <2>3. FilesOK' /\ OnTheWalk' /\ OnTheSameWalk'
      BY <1>2, <1>3, <2>2 DEF FilesOK, OnTheWalk, OnTheSameWalk
    <2>4. LeftFilesComplete'
      BY <2>2, PassOrder DEF LeftFilesComplete, EarlyPasses, Range
    <2>5. QED
      BY <1>4, <2>3, <2>4 DEF IInv
  <1>7. CASE pass = "irule_identifiers"
    <2>1. NextFile("objects", "substitute")
      BY <1>1, <1>7, PassOrder DEF NextWalker
    <2>2. \A f \in 1 .. file : Complete(files[f])
      BY <1>1, <1>7 DEF IInv, LeftFilesComplete, EarlyPasses, Range, Passes
    <2>3. \/ file < Len(files) /\ pass' = "objects" /\ file' = file + 1
          \/ file = Len(files) /\ pass' = "substitute" /\ file' = 1
      BY <1>3, <2>1 DEF NextFile
    <2>4. FilesOK' /\ OnTheWalk'
      BY <1>2, <1>3, <2>3 DEF FilesOK, OnTheWalk
    <2>5. LeftFilesComplete'
      <3>1. CASE pass' = "objects"
        <4>1. \A f \in 1 .. file' : f < file' => Complete(files[f])'
          BY <1>3, <1>5, <2>2, <2>3, <3>1
        <4>2. QED
          BY <1>2, <3>1, <4>1 DEF LeftFilesComplete, EarlyPasses
      <3>2. CASE pass' = "substitute"
        BY <3>2, PassOrder DEF LeftFilesComplete, Range
      <3>3. QED
        BY <2>3, <3>1, <3>2
    <2>6. OnTheSameWalk'
      <3>1. SUFFICES ASSUME pass' = "substitute" PROVE OnTheSameWalk'
        BY DEF OnTheSameWalk
      <3>2. \A f \in DOMAIN files : Complete(files[f])'
        BY <1>3, <1>5, <2>2, <2>3, <3>1
      <3>3. Complete(tokens)'
        <4>1. Complete(files[1])'
          BY <1>3, <3>2
        <4>2. QED
          BY <1>2, <2>3, <3>1, <4>1 DEF tokens
      <3>4. \E V : Walked(tokens, V, Len(tokens) + 1)' /\ 1 \in V
        BY <3>3 DEF Complete, Walked
      <3>5. QED
        BY <1>2, <3>2, <3>4 DEF OnTheSameWalk
    <2>7. QED
      BY <1>4, <2>4, <2>5, <2>6 DEF IInv
  <1>8. CASE pass \notin {"prescan", "irule_identifiers"}
    <2>1. PICK p \in DOMAIN Passes : pass = Passes[p] /\ pass' = Passes[p + 1]
      BY <1>1, <1>8, PassOrder DEF NextWalker
    <2>2. UNCHANGED file
      BY <1>1, <1>8, PassOrder DEF NextWalker
    <2>3. p \in 1 .. 26 /\ pass \in Range(Passes)
      <3>1. p # 27
        BY <1>8, <2>1 DEF Passes
      <3>2. QED
        BY <2>1, <3>1, PassOrder DEF Range
    <2>4. /\ pass' = "descriptions" => pass = "ips"
          /\ pass' \notin EarlyPasses => pass \notin EarlyPasses \ {"descriptions"}
          /\ pass' # "substitute"
      BY <2>1, <2>3, PassOrder
    <2>5. FilesOK' /\ OnTheSameWalk'
      BY <1>2, <1>3, <2>2, <2>4 DEF FilesOK, OnTheSameWalk
    <2>6. OnTheWalk'
      <3>1. Walked(tokens, {1}, i)'
        BY <1>2 DEF Walked
      <3>2. QED
        BY <1>2, <3>1 DEF OnTheWalk
    <2>7. pass = "descriptions" => Complete(tokens)
      <3>1. SUFFICES ASSUME pass = "descriptions" PROVE Complete(tokens)
        OBVIOUS
      <3>2. PICK V : V \subseteq 1 .. i /\ i \in V /\ Walked(tokens, V, i)
        BY <1>1, <3>1 DEF IInv, OnTheWalk
      <3>3. i \in Nat /\ \A k \in V : k < Len(tokens) + 1 => k < i
        BY <1>2, <1>3, <3>2 DEF Walked, AtEnd
      <3>4. Walked(tokens, V, Len(tokens) + 1)
        BY <3>2, <3>3 DEF Walked
      <3>5. QED
        BY <3>4 DEF Complete
    <2>8. LeftFilesComplete'
      <3>1. \A f \in 1 .. file : f < file \/ pass' \notin EarlyPasses => Complete(files[f])
        BY <1>1, <1>3, <2>3, <2>4, <2>7 DEF IInv, LeftFilesComplete, EarlyPasses, tokens
      <3>2. QED
        BY <1>2, <1>5, <2>2, <3>1 DEF LeftFilesComplete
    <2>9. QED
      BY <1>4, <2>5, <2>6, <2>8 DEF IInv
  <1>9. QED
    BY <1>6, <1>7, <1>8

---------------------------------------------------------------------------
(* Pass 2. *)

\* Positions of pass 2 in a file: where the walk of pass 1.7 has been.
LEMMA Pass2Step ==
    ASSUME IInv, InPass2,
           UNCHANGED <<files, file, pass, book>>,
           i' \in Nat \ {0},
           \A V : Walked(tokens, V, Len(tokens) + 1) /\ (in_rule \/ i \in V) =>
                      in_rule' \/ i' > Len(tokens) \/ i' \in V,
           \/ UNCHANGED unredacted_description
           \/ /\ unredacted_description' = unredacted_description \cup {<<file, i>>}
              /\ Closing(tokens, i + 1) = {}
    PROVE  IInv'
  <1>1. pass = "substitute" /\ ~AtEnd
    BY DEF InPass2
  <1>2. FilesOK' /\ OnTheWalk'
    BY <1>1 DEF IInv, FilesOK, OnTheWalk
  <1>3. LeftFilesComplete'
    BY <1>1, PassOrder DEF LeftFilesComplete, Range
  <1>4. PassesAgree'
    <2>1. SUFFICES ASSUME NEW place \in unredacted_description'
                   PROVE  Closing(files[place[1]], place[2] + 1) = {}
      BY DEF PassesAgree
    <2>2. CASE place \in unredacted_description
      BY <2>2 DEF IInv, PassesAgree
    <2>3. CASE place = <<file, i>> /\ Closing(tokens, i + 1) = {}
      BY <2>3 DEF tokens
    <2>4. QED
      BY <2>1, <2>2, <2>3
  <1>5. OnTheSameWalk'
    <2>1. \A f \in DOMAIN files : Complete(files[f])'
      BY <1>1, CompleteStays DEF IInv, OnTheSameWalk
    <2>2. PICK V : Walked(tokens, V, Len(tokens) + 1) /\ (in_rule \/ AtEnd \/ i \in V)
      BY <1>1 DEF IInv, OnTheSameWalk
    <2>3. in_rule' \/ i' > Len(tokens) \/ i' \in V
      BY <1>1, <2>2
    <2>4. Walked(tokens, V, Len(tokens) + 1)'
      BY <2>2 DEF Walked, SpanKnown, Following, Skips, IsField, Span, tokens
    <2>5. in_rule' \/ AtEnd' \/ i' \in V
      BY <2>3 DEF AtEnd, tokens
    <2>6. QED
      BY <2>1, <2>4, <2>5 DEF OnTheSameWalk
  <1>6. QED
    BY <1>2, <1>3, <1>4, <1>5 DEF IInv

\* What holds in pass 2.
LEMMA Pass2Facts ==
    ASSUME IInv, InPass2
    PROVE  /\ i \in Nat \ {0} /\ Len(tokens) \in Nat /\ i <= Len(tokens)
           /\ DOMAIN tokens = 1 .. Len(tokens)
  BY FileShape DEF IInv, FilesOK, OnTheSameWalk, InPass2, AtEnd, tokens

LEMMA EnterRuleBodyStep ==
    IInv /\ EnterRuleBody => IInv'
  <1>1. SUFFICES ASSUME IInv, EnterRuleBody PROVE IInv'
    OBVIOUS
  <1>2. InPass2 /\ in_rule' = TRUE /\ i' = i + 4
    BY <1>1 DEF EnterRuleBody, Advance
  <1>3. UNCHANGED <<files, file, pass, book, unredacted_description>>
    BY <1>1 DEF EnterRuleBody, Advance, Pass2Keeps, allocators, diagnostics
  <1>4. i' \in Nat \ {0}
    BY <1>1, <1>2, Pass2Facts
  <1>5. QED
    BY <1>1, <1>2, <1>3, <1>4, Pass2Step

LEMMA RedactValueStep ==
    IInv /\ RedactValue => IInv'
  <1>1. SUFFICES ASSUME IInv, RedactValue PROVE IInv'
    OBVIOUS
  <1>2. InPass2 /\ ~in_rule /\ i' = i + 2
    BY <1>1 DEF RedactValue, RedactDescription, AtDescription, Advance
  <1>3. UNCHANGED <<files, file, pass, book, unredacted_description>>
    BY <1>1 DEF RedactValue, RedactDescription, Advance, Pass2Keeps, allocators, diagnostics
  <1>4. Following(tokens, i) = i + 2
    BY <1>1 DEF RedactValue, RedactDescription, AtDescription, IsIn, Is, Following, Skips,
           IsField
  <1>5. i \in Nat \ {0} /\ i < Len(tokens) + 1 /\ i' \in Nat \ {0}
    BY <1>1, <1>2, Pass2Facts
  <1>6. QED
    BY <1>1, <1>2, <1>3, <1>4, <1>5, Pass2Step DEF Walked

LEMMA RedactBracedStep ==
    IInv /\ RedactBraced => IInv'
  <1>1. SUFFICES ASSUME IInv, RedactBraced PROVE IInv'
    OBVIOUS
  <1> DEFINE m == Min(Closing(tokens, i + 1))
  <1>2. InPass2 /\ i' = i + (m + 1 - i)
    BY <1>1 DEF RedactBraced, RedactDescription, Advance
  <1>3. UNCHANGED <<files, file, pass, book, unredacted_description>>
    BY <1>1 DEF RedactBraced, RedactDescription, Advance, Pass2Keeps, allocators, diagnostics
  <1>4. /\ i \in Nat \ {0} /\ Len(tokens) \in Nat /\ DOMAIN tokens = 1 .. Len(tokens)
        /\ i + 1 \in Nat
    BY <1>1, <1>2, Pass2Facts
  <1>5. m \in Closing(tokens, i + 1)
    <2>1. Closing(tokens, i + 1) \subseteq Nat
      BY <1>4 DEF Closing
    <2>2. QED
      BY <1>1, <2>1, MinInSet DEF RedactBraced
  <1>6. m \in 1 .. Len(tokens) /\ tokens[m].kind = "RBRACE"
    BY <1>4, <1>5, ClosingIsBrace
  <1>7. i' = m + 1 /\ i' \in Nat \ {0}
    BY <1>2, <1>4, <1>6
  <1>8. \A V : Walked(tokens, V, Len(tokens) + 1) => i' \in V
    BY <1>4, <1>6, <1>7, WalkMeetsBrace
  <1>9. QED
    BY <1>1, <1>2, <1>3, <1>7, <1>8, Pass2Step

LEMMA KeepBracedStep ==
    IInv /\ KeepBraced => IInv'
  <1>1. SUFFICES ASSUME IInv, KeepBraced PROVE IInv'
    OBVIOUS
  <1>2. InPass2 /\ ~in_rule
    BY <1>1 DEF KeepBraced, AtDescription
  <1>3. /\ UNCHANGED <<files, file, pass, book>>
        /\ unredacted_description' = unredacted_description \cup {<<file, i>>}
    BY <1>1 DEF KeepBraced, Advance, Pass2Keeps, allocators, diagnostics
  <1>4. i \in Nat \ {0} /\ Len(tokens) \in Nat /\ i < Len(tokens) + 1
    BY <1>1, <1>2, Pass2Facts
  <1>5. Closing(tokens, i + 1) = {}
    <2>1. SUFFICES ASSUME Closing(tokens, i + 1) # {} PROVE FALSE
      OBVIOUS
    <2>2. PICK V : Walked(tokens, V, Len(tokens) + 1) /\ i \in V
      BY <1>1, <1>2 DEF IInv, OnTheSameWalk, InPass2
    <2>3. SpanKnown(tokens, i)
      BY <1>4, <2>2 DEF Walked
    <2>4. <<"DESC", Span(tokens, i)>> \in DOMAIN book.by_original
      BY <1>1, <2>1, <2>3 DEF SpanKnown, KeepBraced, AtDescription, IsIn, Is, IsField
    <2>5. ~Known("DESC", Span(tokens, i))
      BY <1>1, <2>1 DEF KeepBraced, BracedSpan, Span
    <2>6. QED
      BY <2>4, <2>5 DEF Known, KeyText
  <1>6. i' = Len(tokens) + 1
    <2>1. i' = i + (Len(tokens) + 1 - i)
      BY <1>1, <1>5 DEF KeepBraced, Advance
    <2>2. QED
      BY <1>4, <2>1
  <1>7. i' \in Nat \ {0} /\ i' > Len(tokens)
    BY <1>4, <1>6
  <1>8. QED
    BY <1>1, <1>2, <1>3, <1>5, <1>7, Pass2Step

LEMMA KeepFieldStep ==
    IInv /\ KeepField => IInv'
  <1>1. SUFFICES ASSUME IInv, KeepField PROVE IInv'
    OBVIOUS
  <1>2. InPass2 /\ ~in_rule /\ i' = i + 1
    BY <1>1 DEF KeepField, RedactDescription, AtDescription, Advance
  <1>3. UNCHANGED <<files, file, pass, book, unredacted_description>>
    BY <1>1 DEF KeepField, RedactDescription, Advance, Pass2Keeps, allocators, diagnostics
  <1>4. Following(tokens, i) = i + 1
    BY <1>1 DEF KeepField, Is, Following, Skips
  <1>5. i \in Nat \ {0} /\ i < Len(tokens) + 1 /\ i' \in Nat \ {0}
    BY <1>1, <1>2, Pass2Facts
  <1>6. QED
    BY <1>1, <1>2, <1>3, <1>4, <1>5, Pass2Step DEF Walked

LEMMA EmitTokenStep ==
    IInv /\ EmitToken => IInv'
  <1>1. SUFFICES ASSUME IInv, EmitToken PROVE IInv'
    OBVIOUS
  <1>2. /\ InPass2 /\ i' = i + 1
        /\ in_rule' = (in_rule /\ ~LeavesRule(i))
        /\ ~EntersRule /\ ~AtDescription
    BY <1>1 DEF EmitToken, Advance
  <1>3. UNCHANGED <<files, file, pass, book, unredacted_description>>
    BY <1>1 DEF EmitToken, Advance, Pass2Keeps, allocators, diagnostics
  <1>4. /\ i \in 1 .. Len(tokens) /\ i' \in Nat \ {0} /\ i < Len(tokens) + 1
        /\ Len(tokens) \in Nat /\ DOMAIN tokens = 1 .. Len(tokens)
    BY <1>1, <1>2, Pass2Facts
  <1>5. ASSUME NEW V, Walked(tokens, V, Len(tokens) + 1), in_rule \/ i \in V
        PROVE  in_rule' \/ i' \in V
    <2>1. CASE in_rule
      <3>1. CASE LeavesRule(i)
        BY <1>2, <1>4, <1>5, <3>1, WalkMeetsBrace DEF LeavesRule
      <3>2. QED
        BY <1>2, <2>1, <3>1
    <2>2. CASE ~in_rule
      <3>1. Following(tokens, i) = i + 1
        BY <1>2, <2>2 DEF AtDescription, IsIn, Is, Following, Skips, IsField
      <3>2. QED
        BY <1>2, <1>4, <1>5, <2>2, <3>1 DEF Walked
    <2>3. QED
      BY <2>1, <2>2
  <1>6. QED
    BY <1>1, <1>2, <1>3, <1>4, <1>5, Pass2Step

LEMMA FinishFileStep ==
    IInv /\ FinishFile => IInv'
  <1>1. SUFFICES ASSUME IInv, FinishFile PROVE IInv'
    OBVIOUS
  <1>2. /\ UNCHANGED <<files, book, unredacted_description>>
        /\ i' = 1 /\ pass = "substitute"
    BY <1>1 DEF FinishFile, Rewind, ledger, allocators, diagnostics
  <1>3. \/ pass' = "substitute" /\ file < Len(files) /\ file' = file + 1
        \/ pass' = "restore" /\ file' = 1
    BY <1>1, <1>2 DEF FinishFile
  <1>4. /\ files \in Sources /\ file \in DOMAIN files
        /\ Len(files) \in Nat \ {0} /\ DOMAIN files = 1 .. Len(files)
    BY <1>1, FileShape DEF IInv, FilesOK
  <1>5. file' \in DOMAIN files
    BY <1>3, <1>4
  <1>6. PassesAgree' /\ FilesOK' /\ OnTheWalk'
    BY <1>1, <1>2, <1>3, <1>4, <1>5 DEF IInv, PassesAgree, FilesOK, OnTheWalk
  <1>7. LeftFilesComplete'
    BY <1>3, PassOrder DEF LeftFilesComplete, Range
  <1>8. OnTheSameWalk'
    <2>1. \A f \in DOMAIN files : Complete(files[f])'
      BY <1>1, <1>2, CompleteStays DEF IInv, OnTheSameWalk
    <2>2. PICK f \in DOMAIN files : f = file'
      BY <1>5
    <2>3. Complete(tokens)'
      <3>1. Complete(files[f])'
        BY <2>1
      <3>2. QED
        BY <2>2, <3>1 DEF tokens
    <2>4. \E V : Walked(tokens, V, Len(tokens) + 1)' /\ 1 \in V
      BY <2>3 DEF Complete, Walked
    <2>5. QED
      BY <1>2, <2>1, <2>4 DEF OnTheSameWalk
  <1>9. QED
    BY <1>6, <1>7, <1>8 DEF IInv

---------------------------------------------------------------------------
(* Deobfuscation, and all steps together. *)

LEMMA RestoreStep ==
    IInv /\ (RestorePiece \/ FinishRestore) => IInv'
  <1>1. SUFFICES ASSUME IInv, RestorePiece \/ FinishRestore PROVE IInv'
    OBVIOUS
  <1>2. /\ UNCHANGED <<files, book, unredacted_description>>
        /\ pass' \in {"restore", "done"}
        /\ file' = file \/ (file' = file + 1 /\ file < Len(files))
    BY <1>1 DEF RestorePiece, FinishRestore, Advance, ledger, allocators, diagnostics, results
  <1>3. FilesOK'
    BY <1>1, <1>2, FileShape DEF IInv, FilesOK
  <1>4. LeftFilesComplete'
    BY <1>2, PassOrder DEF LeftFilesComplete, Range
  <1>5. PassesAgree' /\ OnTheWalk' /\ OnTheSameWalk'
    BY <1>1, <1>2 DEF IInv, PassesAgree, OnTheWalk, OnTheSameWalk
  <1>6. QED
    BY <1>3, <1>4, <1>5 DEF IInv

LEMMA StutterStep ==
    IInv /\ UNCHANGED vars => IInv'
  <1>1. SUFFICES ASSUME IInv, UNCHANGED vars PROVE IInv'
    OBVIOUS
  <1>2. UNCHANGED <<files, file, pass, i, in_rule, book, unredacted_description>>
    BY <1>1 DEF vars, discovery_vars, loop, ledger, allocators, diagnostics, results
  <1>3. \A f : Complete(files[f]) => Complete(files[f])'
    BY <1>2, CompleteStays
  <1>4. FilesOK' /\ PassesAgree' /\ LeftFilesComplete'
    BY <1>1, <1>2, <1>3 DEF IInv, FilesOK, PassesAgree, LeftFilesComplete
  <1>5. OnTheWalk'
    BY <1>1, <1>2 DEF IInv, OnTheWalk, Walked, SpanKnown, Following, Skips, IsField, Span, tokens
  <1>6. OnTheSameWalk'
    BY <1>1, <1>2, <1>3
       DEF IInv, OnTheSameWalk, AtEnd, Walked, SpanKnown, Following, Skips, IsField, Span, tokens
  <1>7. QED
    BY <1>4, <1>5, <1>6 DEF IInv

\* The invariant is inductive.
LEMMA StepKeepsIInv == IInv /\ [Next]_vars => IInv'
  <1>1. SUFFICES ASSUME IInv, [Next]_vars PROVE IInv'
    OBVIOUS
  <1>2. CASE ScannerNext /\ UNCHANGED results
    <2>1. CASE DiscoveryNext
      BY <1>1, <1>2, <2>1, ValueStep, BracedStep, NoDescriptionStep,
         ObjectsAreElsewhere, CommentsAreElsewhere, ElsewhereStep DEF DiscoveryNext
    <2>2. CASE BlockNext
      BY <1>1, <1>2, <2>2, BlocksAreElsewhere, ElsewhereStep
    <2>3. CASE FieldNext \/ LiteralNext
      BY <1>1, <1>2, <2>3, FieldsAreElsewhere, ElsewhereStep
    <2>4. CASE \/ DiscoverQueryAttrname \/ DiscoverSamlOauth
               \/ DiscoverIruleLiteral \/ DiscoverIruleIdentifier \/ SkipOther
      BY <1>1, <1>2, <2>4, OthersAreElsewhere, ElsewhereStep
    <2>5. CASE NextWalker
      BY <1>1, <1>2, <2>5, NextWalkerStep
    <2>6. QED
      BY <1>2, <2>1, <2>2, <2>3, <2>4, <2>5 DEF ScannerNext
  <1>3. CASE UNCHANGED vars
    BY <1>1, <1>3, StutterStep
  <1>4. QED
    BY <1>1, <1>2, <1>3, EnterRuleBodyStep, RedactValueStep, RedactBracedStep,
       KeepBracedStep, KeepFieldStep, EmitTokenStep, FinishFileStep, RestoreStep DEF Next

\* Pass 1.7 and pass 2 stay on one walk through the descriptions of a file.
THEOREM WalksAgree == Spec => []IInv
  BY InitIInv, StepKeepsIInv, PTL DEF Spec

\* Every description that pass 2 looks up is in the ledger: what it leaves
\* unredacted is a brace that the file never closes.
THEOREM DescriptionsAgree == Spec => []PassesAgree
  <1>1. IInv => PassesAgree
    BY DEF IInv
  <1>2. QED
    BY <1>1, WalksAgree, PTL
===========================================================================
