----------------------------- MODULE CommentProofs -----------------------------
(***************************************************************************)
(* Proofs about the comments of iRules in module Substitute: the walker of *)
(* pass 1.8 counts braces from the first token of a file on, and what it   *)
(* takes for the body of a rule contains what the braces of the rule       *)
(* enclose.                                                                *)
(***************************************************************************)
EXTENDS SubstituteProofs

---------------------------------------------------------------------------
(* Counting braces. *)

Marked(toks, kind, from, to) == {k \in from .. to : toks[k].kind = kind}

\* What is counted up to a position and after it.
LEMMA CountSplits ==
    ASSUME NEW toks, NEW kind, NEW m \in Nat \ {0}, NEW c \in Nat, m <= c + 1
    PROVE  /\ Cardinality(Marked(toks, kind, 1, m - 1)) \in Nat
           /\ Cardinality(Marked(toks, kind, m, c)) \in Nat
           /\ Cardinality(Marked(toks, kind, 1, c))
                  = Cardinality(Marked(toks, kind, 1, m - 1))
                    + Cardinality(Marked(toks, kind, m, c))
  <1> DEFINE S == Marked(toks, kind, 1, m - 1)
             T == Marked(toks, kind, m, c)
  <1>1. IsFiniteSet(S) /\ IsFiniteSet(T)
    <2>1. IsFiniteSet(1 .. m - 1) /\ IsFiniteSet(m .. c)
      BY FS_Interval
    <2>2. QED
      BY <2>1, FS_Subset DEF Marked
  <1>2. Marked(toks, kind, 1, c) = S \cup T
    BY DEF Marked
  <1>3. S \cap T = {}
    BY DEF Marked
  <1>4. Cardinality(S \cup T) = Cardinality(S) + Cardinality(T) - Cardinality(S \cap T)
    <2> HIDE DEF S, T
    <2> QED BY <1>1, FS_Union
  <1>5. Cardinality(S \cap T) = 0
    BY <1>3, FS_EmptySet
  <1>6. Cardinality(S) \in Nat /\ Cardinality(T) \in Nat
    BY <1>1, FS_CardinalityType
  <1> HIDE DEF S, T
  <1>7. Cardinality(S \cup T) = Cardinality(S) + Cardinality(T)
    BY <1>4, <1>5, <1>6
  <1>8. QED
    BY <1>2, <1>6, <1>7 DEF S, T

\* One position counts when it is of the kind.
LEMMA CountOne ==
    ASSUME NEW toks, NEW kind, NEW k \in Nat
    PROVE  Cardinality(Marked(toks, kind, k, k)) = IF toks[k].kind = kind THEN 1 ELSE 0
  <1>1. CASE toks[k].kind = kind
    <2>1. Marked(toks, kind, k, k) = {k}
      BY <1>1 DEF Marked
    <2>2. QED
      BY <1>1, <2>1, FS_Singleton
  <1>2. CASE toks[k].kind # kind
    <2>1. Marked(toks, kind, k, k) = {}
      BY <1>2 DEF Marked
    <2>2. QED
      BY <1>2, <2>1, FS_EmptySet
  <1>3. QED
    BY <1>1, <1>2

\* The braces that are open before the token at k.
Depth(toks, k) == Open(toks, 1, k - 1) - Closed(toks, 1, k - 1)

LEMMA DepthStep ==
    ASSUME NEW toks, NEW k \in Nat \ {0}
    PROVE  /\ Depth(toks, k) \in Int
           /\ Depth(toks, k + 1) = CASE toks[k].kind = "LBRACE" -> Depth(toks, k) + 1
                                     [] toks[k].kind = "RBRACE" -> Depth(toks, k) - 1
                                     [] OTHER -> Depth(toks, k)
  <1> DEFINE before(kind) == Cardinality(Marked(toks, kind, 1, k - 1))
             here(kind) == IF toks[k].kind = kind THEN 1 ELSE 0
             upto(kind) == Cardinality(Marked(toks, kind, 1, k))
  <1>1. \A kind : before(kind) \in Nat /\ upto(kind) = before(kind) + here(kind)
    <2>1. SUFFICES ASSUME NEW kind
                   PROVE  before(kind) \in Nat /\ upto(kind) = before(kind) + here(kind)
      OBVIOUS
    <2>2. k \in Nat /\ k <= k + 1
      OBVIOUS
    <2>3. /\ before(kind) \in Nat
          /\ upto(kind) = before(kind) + Cardinality(Marked(toks, kind, k, k))
      BY <2>2, CountSplits, Zenon
    <2>4. Cardinality(Marked(toks, kind, k, k)) = here(kind)
      BY CountOne
    <2> HIDE DEF before, upto, here
    <2>5. QED
      BY <2>3, <2>4
  <1>2. /\ Depth(toks, k) = before("LBRACE") - before("RBRACE")
        /\ Depth(toks, k + 1) = upto("LBRACE") - upto("RBRACE")
    <2>1. (k + 1) - 1 = k
      OBVIOUS
    <2>2. QED
      BY <2>1 DEF Depth, Open, Closed, Marked
  <1> HIDE DEF before, upto
  <1>3. QED
    BY <1>1, <1>2

\* Counted from a place where none is open, it is the same count.
LEMMA DepthFrom ==
    ASSUME NEW toks, NEW h \in Nat \ {0}, NEW p \in Nat, h <= p, Depth(toks, h) = 0
    PROVE  /\ Depth(toks, p + 1) = Open(toks, h, p) - Closed(toks, h, p)
           /\ Open(toks, h, p) \in Nat /\ Closed(toks, h, p) \in Nat
  <1> DEFINE before(kind) == Cardinality(Marked(toks, kind, 1, h - 1))
             after(kind) == Cardinality(Marked(toks, kind, h, p))
             upto(kind) == Cardinality(Marked(toks, kind, 1, p))
  <1>1. \A kind : /\ before(kind) \in Nat /\ after(kind) \in Nat
                  /\ upto(kind) = before(kind) + after(kind)
    <2>1. SUFFICES ASSUME NEW kind
                   PROVE  /\ before(kind) \in Nat /\ after(kind) \in Nat
                          /\ upto(kind) = before(kind) + after(kind)
      OBVIOUS
    <2>2. h <= p + 1
      OBVIOUS
    <2>3. /\ Cardinality(Marked(toks, kind, 1, h - 1)) \in Nat
          /\ Cardinality(Marked(toks, kind, h, p)) \in Nat
          /\ Cardinality(Marked(toks, kind, 1, p))
                 = Cardinality(Marked(toks, kind, 1, h - 1))
                   + Cardinality(Marked(toks, kind, h, p))
      BY <2>2, CountSplits
    <2>4. QED
      BY <2>3
  <1>2. before("LBRACE") = before("RBRACE")
    <2>1. Depth(toks, h) = before("LBRACE") - before("RBRACE")
      BY DEF Depth, Open, Closed, Marked
    <2> HIDE DEF before
    <2>2. QED
      BY <1>1, <2>1
  <1>3. Depth(toks, p + 1) = upto("LBRACE") - upto("RBRACE")
    <2>1. (p + 1) - 1 = p
      OBVIOUS
    <2>2. QED
      BY <2>1 DEF Depth, Open, Closed, Marked
  <1>4. Open(toks, h, p) = after("LBRACE") /\ Closed(toks, h, p) = after("RBRACE")
    BY DEF Open, Closed, Marked
  <1> HIDE DEF before, after, upto
  <1>5. QED
    BY <1>1, <1>2, <1>3, <1>4

---------------------------------------------------------------------------
(***************************************************************************)
(* The walk of pass 1.8.  R holds the positions up to n that it takes for  *)
(* those of a rule; the comments at them are known.                        *)
(***************************************************************************)
Begins(toks, k) == Depth(toks, k) = 0 /\ RuleShape(toks, k)
Ends(toks, k)   == Depth(toks, k) = 1 /\ toks[k].kind = "RBRACE"

CommentKnown(toks, k) ==
    toks[k].kind = "COMMENT" => <<"IRULE_COMMENT", toks[k].text>> \in DOMAIN book.by_original

Ruled(toks, R, n) ==
    \A k \in 1 .. n - 1 :
        /\ k \notin R /\ Begins(toks, k) => k + 1 \in R
        /\ k \in R /\ ~Ends(toks, k) => k + 1 \in R
        /\ k \in R => CommentKnown(toks, k)

RuledComplete(toks) == \E R : Ruled(toks, R, Len(toks) + 1)

\* A header is followed by the first position of the body, where one brace is
\* open.
LEMMA HeaderEnters ==
    ASSUME NEW toks, NEW h \in Nat \ {0}, Begins(toks, h)
    PROVE  /\ Depth(toks, h + 1) = 0 /\ Depth(toks, h + 2) = 0
           /\ Depth(toks, h + 3) = 0 /\ Depth(toks, h + 4) = 1
           /\ \A k \in h .. h + 3 :
                 ~Ends(toks, k) /\ toks[k].kind # "COMMENT"
  <1>1. /\ toks[h].kind = "WORD" /\ toks[h + 1].kind = "WORD"
        /\ toks[h + 2].kind = "WORD" /\ toks[h + 3].kind = "LBRACE"
    BY DEF Begins, RuleShape
  <1>2. Depth(toks, h) = 0
    BY DEF Begins
  <1>3. Depth(toks, h + 1) = 0
    BY <1>1, <1>2, DepthStep
  <1>4. Depth(toks, h + 2) = 0
    <2>1. Depth(toks, (h + 1) + 1) = Depth(toks, h + 1)
      BY <1>1, DepthStep, h + 1 \in Nat \ {0}
    <2>2. QED
      BY <1>3, <2>1
  <1>5. Depth(toks, h + 3) = 0
    <2>1. Depth(toks, (h + 2) + 1) = Depth(toks, h + 2)
      BY <1>1, DepthStep, h + 2 \in Nat \ {0}
    <2>2. QED
      BY <1>4, <2>1
  <1>6. Depth(toks, h + 4) = 1
    <2>1. Depth(toks, (h + 3) + 1) = Depth(toks, h + 3) + 1
      BY <1>1, DepthStep, h + 3 \in Nat \ {0}
    <2>2. QED
      BY <1>5, <2>1
  <1>7. \A k \in h .. h + 3 : k \in {h, h + 1, h + 2, h + 3}
    OBVIOUS
  <1>8. QED
    BY <1>1, <1>3, <1>4, <1>5, <1>6, <1>7 DEF Ends

\* What the braces of a rule enclose lies in R.
LEMMA BodyIsRuled ==
    ASSUME NEW toks, NEW n \in Nat, Len(toks) = n, DOMAIN toks = 1 .. n,
           NEW R, Ruled(toks, R, n + 1),
           NEW k \in 1 .. n, InRuleBody(toks, k)
    PROVE  k \in R
  <1>1. PICK h \in 1 .. k - 4 :
            /\ RuleShape(toks, h)
            /\ Open(toks, 1, h - 1) = Closed(toks, 1, h - 1)
            /\ \A closing \in Closing(toks, h + 3) : k < closing
    BY DEF InRuleBody
  <1>2. h \in Nat \ {0} /\ h + 4 <= k
    BY <1>1
  <1>3. Begins(toks, h)
    <2>1. Open(toks, 1, h - 1) \in Int
      <3>1. IsFiniteSet(1 .. h - 1)
        BY <1>2, FS_Interval
      <3>2. QED
        BY <3>1, FS_Subset, FS_CardinalityType DEF Open
    <2>2. QED
      BY <1>1, <2>1 DEF Begins, Depth
  <1>4. h + 4 \in R
    <2>1. h + 1 \in R
      BY <1>2, <1>3, HeaderEnters DEF Ruled
    <2>2. h + 2 \in R
      BY <1>2, <1>3, <2>1, HeaderEnters, (h + 1) + 1 = h + 2 DEF Ruled
    <2>3. h + 3 \in R
      BY <1>2, <1>3, <2>2, HeaderEnters, (h + 2) + 1 = h + 3 DEF Ruled
    <2>4. QED
      BY <1>2, <1>3, <2>3, HeaderEnters, (h + 3) + 1 = h + 4 DEF Ruled
  <1> DEFINE Lost == {p \in h + 4 .. k : p \notin R \/ Depth(toks, p) < 1}
  <1>5. Lost = {}
    <2>1. SUFFICES ASSUME Lost # {} PROVE FALSE
      OBVIOUS
    <2>2. PICK q \in Lost : \A other \in Lost : q <= other
      BY <1>2, <2>1, LeastNumber, Lost \subseteq Nat
    <2>3. q # h + 4
      BY <1>2, <1>3, <1>4, <2>2, HeaderEnters
    <2>4. PICK p \in Nat : q = p + 1
      BY <1>2, <2>2, q - 1 \in Nat, q = (q - 1) + 1
    <2>5. p \in h + 4 .. k - 1 /\ p \in Nat \ {0}
      BY <1>2, <2>2, <2>3, <2>4
    <2>6. \A r \in h + 4 .. p : r \in R /\ Depth(toks, r) >= 1
      <3>1. SUFFICES ASSUME NEW r \in h + 4 .. p PROVE r \in R /\ Depth(toks, r) >= 1
        OBVIOUS
      <3>2. r \notin Lost /\ r \in h + 4 .. k /\ r \in Nat \ {0}
        BY <1>2, <2>2, <2>4, <2>5
      <3>3. Depth(toks, r) \in Int
        BY <3>2, DepthStep
      <3>4. QED
        BY <3>2, <3>3
    <2>7. ~Ends(toks, p)
      <3>1. SUFFICES ASSUME Ends(toks, p) PROVE FALSE
        OBVIOUS
      <3>2. PICK g \in Nat \ {0} : g = h + 3 /\ Depth(toks, g) = 0
        BY <1>2, <1>3, HeaderEnters
      <3>3. Depth(toks, p + 1) = 0
        BY <2>5, <3>1, DepthStep DEF Ends
      <3>4. Open(toks, h + 3, p) = Closed(toks, h + 3, p)
        <4>1. g <= p
          BY <2>5, <3>2
        <4>2. /\ Depth(toks, p + 1) = Open(toks, g, p) - Closed(toks, g, p)
              /\ Open(toks, g, p) \in Nat /\ Closed(toks, g, p) \in Nat
          BY <2>5, <3>2, <4>1, DepthFrom
        <4>3. QED
          BY <3>2, <3>3, <4>2
      <3>5. \A earlier \in h + 3 .. p - 1 :
                Open(toks, h + 3, earlier) > Closed(toks, h + 3, earlier)
        <4>1. SUFFICES ASSUME NEW earlier \in h + 3 .. p - 1
                       PROVE  Open(toks, h + 3, earlier) > Closed(toks, h + 3, earlier)
          OBVIOUS
        <4>2. earlier \in Nat /\ g <= earlier /\ earlier + 1 \in h + 4 .. p
          BY <1>2, <2>5, <3>2, <4>1
        <4>3. Depth(toks, earlier + 1) >= 1
          BY <2>6, <4>2
        <4>4. /\ Depth(toks, earlier + 1) = Open(toks, g, earlier) - Closed(toks, g, earlier)
              /\ Open(toks, g, earlier) \in Nat /\ Closed(toks, g, earlier) \in Nat
          BY <3>2, <4>2, DepthFrom
        <4>5. QED
          BY <3>2, <4>3, <4>4
      <3>6. p \in Closing(toks, h + 3)
        BY <1>2, <2>5, <3>4, <3>5 DEF Closing
      <3>7. QED
        BY <1>1, <2>5, <3>6
    <2>8. q \in R
      BY <2>4, <2>5, <2>6, <2>7 DEF Ruled
    <2>9. Depth(toks, q) >= 1
      <3>1. Depth(toks, p) \in Int /\ Depth(toks, p) >= 1
        BY <2>5, <2>6, DepthStep
      <3>2. Depth(toks, p + 1) = CASE toks[p].kind = "LBRACE" -> Depth(toks, p) + 1
                                   [] toks[p].kind = "RBRACE" -> Depth(toks, p) - 1
                                   [] OTHER -> Depth(toks, p)
        BY <2>5, DepthStep
      <3>3. toks[p].kind = "RBRACE" => Depth(toks, p) # 1
        BY <2>7 DEF Ends
      <3>4. QED
        BY <2>4, <3>1, <3>2, <3>3
    <2>10. QED
      <3>1. Depth(toks, q) \in Int
        BY <2>4, DepthStep
      <3>2. QED
        BY <2>2, <2>8, <2>9, <3>1
  <1>6. QED
    BY <1>2, <1>5

---------------------------------------------------------------------------
(***************************************************************************)
(* The invariant, beside that of SubstituteProofs.  Pass 1.8 is on its     *)
(* walk, and a file that it has left is walked to its end.                 *)
(***************************************************************************)
OnTheBraces ==
    pass = "comments" =>
        /\ i \in Nat \ {0} /\ depth = Depth(tokens, i) /\ in_rule \in BOOLEAN
        /\ \E R : R \subseteq 1 .. i /\ (in_rule <=> i \in R) /\ Ruled(tokens, R, i)

LeftFilesRuled ==
    /\ pass \in Range(Passes) =>
          \A f \in 1 .. file :
              f < file \/ pass \notin EarlyPasses \cup {"comments"} => RuledComplete(files[f])
    /\ pass = "substitute" \/ Sanitized => \A f \in DOMAIN files : RuledComplete(files[f])

CInv == OnTheBraces /\ LeftFilesRuled

LEMMA InitCInv == Init => CInv
  BY DEF Init, ScannerInit, CInv, OnTheBraces, LeftFilesRuled, Sanitized, Range, Passes

LEMMA RuledGrows ==
    ASSUME UNCHANGED files, DOMAIN book.by_original \subseteq DOMAIN book'.by_original,
           NEW f, RuledComplete(files[f])
    PROVE  RuledComplete(files[f])'
  <1>1. \A k : CommentKnown(files[f], k) => CommentKnown(files[f], k)'
    BY DEF CommentKnown
  <1>2. \A k : /\ Begins(files[f], k)' = Begins(files[f], k)
               /\ Ends(files[f], k)' = Ends(files[f], k)
    BY DEF Begins, Ends, Depth, Open, Closed, RuleShape
  <1>3. PICK R : Ruled(files[f], R, Len(files[f]) + 1)
    BY DEF RuledComplete
  <1>4. Ruled(files[f], R, Len(files[f]) + 1)'
    BY <1>1, <1>2, <1>3 DEF Ruled
  <1>5. QED
    BY <1>4 DEF RuledComplete

\* A step that is not one of pass 1.8.
Away ==
    /\ pass # "comments"
    /\ UNCHANGED <<files, file>>
    /\ pass' \in {pass, "aborted"}
    /\ DOMAIN book.by_original \subseteq DOMAIN book'.by_original

LEMMA AwayStep == CInv /\ Away => CInv'
  <1>1. SUFFICES ASSUME CInv, Away PROVE CInv'
    OBVIOUS
  <1>2. OnTheBraces'
    BY <1>1 DEF Away, OnTheBraces
  <1>3. \A f : RuledComplete(files[f]) => RuledComplete(files[f])'
    BY <1>1, RuledGrows DEF Away
  <1>4. pass' \in Range(Passes)' => pass' = pass
    BY <1>1 DEF Away, Range, Passes
  <1>5. LeftFilesRuled'
    BY <1>1, <1>3, <1>4 DEF CInv, LeftFilesRuled, Away, Sanitized
  <1>6. QED
    BY <1>2, <1>5 DEF CInv

---------------------------------------------------------------------------
(* Pass 1.8. *)

\* A step of the walk: the positions up to n have been looked at.
LEMMA CommentStep ==
    ASSUME CInv, pass = "comments", UNCHANGED <<files, file, pass>>, Grows,
           i' \in Nat, i' > i, depth' = Depth(tokens, i'),
           in_rule' \in BOOLEAN,
           NEW n, n = i',
           \A R : R \subseteq 1 .. i /\ (in_rule <=> i \in R) =>
               LET W == R \cup (IF in_rule' THEN i + 1 .. n ELSE {})
               IN  \A k \in i .. n - 1 :
                     /\ k \notin W /\ Begins(tokens, k) => k + 1 \in W
                     /\ k \in W /\ ~Ends(tokens, k) => k + 1 \in W
                     /\ k \in W => \A m \in {k} : CommentKnown(tokens, m)'
    PROVE  CInv'
  <1>1. LeftFilesRuled'
    <2>1. \A f : RuledComplete(files[f]) => RuledComplete(files[f])'
      BY RuledGrows DEF Grows
    <2>2. QED
      BY <2>1 DEF CInv, LeftFilesRuled, Sanitized
  <1>2. OnTheBraces'
    <2>1. PICK R : R \subseteq 1 .. i /\ (in_rule <=> i \in R) /\ Ruled(tokens, R, i)
      BY DEF CInv, OnTheBraces
    <2>2. i \in Nat \ {0} /\ n \in Nat /\ n > i
      BY DEF CInv, OnTheBraces
    <2> PICK W : W = R \cup (IF in_rule' THEN i + 1 .. n ELSE {})
      OBVIOUS
    <2>3. W \subseteq 1 .. n /\ (in_rule' <=> n \in W)
      BY <2>1, <2>2
    <2>4. \A k \in 1 .. n - 1 :
              /\ k \notin W /\ Begins(tokens, k) => k + 1 \in W
              /\ k \in W /\ ~Ends(tokens, k) => k + 1 \in W
              /\ k \in W => \A m \in {k} : CommentKnown(tokens, m)'
      <3>1. SUFFICES ASSUME NEW k \in 1 .. n - 1
                     PROVE  /\ k \notin W /\ Begins(tokens, k) => k + 1 \in W
                            /\ k \in W /\ ~Ends(tokens, k) => k + 1 \in W
                            /\ k \in W => \A m \in {k} : CommentKnown(tokens, m)'
        OBVIOUS
      <3>2. CASE k \in 1 .. i - 1
        <4>1. k \in W <=> k \in R
          BY <2>1, <2>2, <3>2
        <4>2. /\ k \notin R /\ Begins(tokens, k) => k + 1 \in R
              /\ k \in R /\ ~Ends(tokens, k) => k + 1 \in R
              /\ k \in R => CommentKnown(tokens, k)
          BY <2>1, <3>2 DEF Ruled
        <4>3. CommentKnown(tokens, k) => \A m \in {k} : CommentKnown(tokens, m)'
          BY DEF CommentKnown, Grows, tokens
        <4>4. QED
          BY <4>1, <4>2, <4>3
      <3>3. CASE k \in i .. n - 1
        BY <2>1, <3>3
      <3>4. k \in 1 .. i - 1 \/ k \in i .. n - 1
        BY ONLY <2>2, <3>1
      <3>5. QED
        BY <3>2, <3>3, <3>4
    <2>5. Ruled(tokens, W, n)'
      <3>1. \A k : Begins(tokens, k)' = Begins(tokens, k) /\ Ends(tokens, k)' = Ends(tokens, k)
        BY DEF Begins, Ends, Depth, Open, Closed, RuleShape, tokens
      <3>2. \A k : (\A m \in {k} : CommentKnown(tokens, m)') => CommentKnown(tokens, k)'
        BY DEF CommentKnown
      <3>3. QED
        BY <2>4, <3>1, <3>2 DEF Ruled
    <2>6. depth' = Depth(tokens, n)'
      BY DEF Depth, Open, Closed, tokens
    <2>7. Ruled(tokens, W, i)' /\ depth' = Depth(tokens, i)'
      BY <2>5, <2>6 DEF Ruled, Depth, Open, Closed
    <2>8. W \subseteq (1 .. i)' /\ (in_rule' <=> (i \in W)') /\ i' \in Nat \ {0}
      BY <2>2, <2>3
    <2>9. QED
      BY <2>7, <2>8 DEF OnTheBraces
  <1>3. QED
    BY <1>1, <1>2 DEF CInv

\* A token that begins no rule.
LEMMA OneTokenStep ==
    ASSUME CInv, InComments, ~EntersRule, UNCHANGED <<files, file, pass>>, Grows,
           i' = i + 1, Count(i), in_rule' = (in_rule /\ ~LeavesRule(i)),
           in_rule => \A m \in {i} : CommentKnown(tokens, m)'
    PROVE  CInv'
  <1>1. PICK n : n = i'
    OBVIOUS
  <1>2. pass = "comments" /\ i \in Nat \ {0} /\ depth = Depth(tokens, i)
    BY DEF InComments, CInv, OnTheBraces
  <1>3. i' \in Nat /\ i' > i /\ n = i + 1 /\ in_rule' \in BOOLEAN
    BY <1>1, <1>2
  <1>4. depth' = Depth(tokens, i')
    <2>1. Depth(tokens, i + 1) = CASE tokens[i].kind = "LBRACE" -> Depth(tokens, i) + 1
                                   [] tokens[i].kind = "RBRACE" -> Depth(tokens, i) - 1
                                   [] OTHER -> Depth(tokens, i)
      BY <1>2, DepthStep
    <2>2. QED
      BY <1>2, <2>1 DEF Count
  <1>5. ~in_rule => ~Begins(tokens, i)
    BY <1>2 DEF EntersRule, Begins
  <1>6. in_rule /\ ~Ends(tokens, i) => in_rule'
    BY <1>2 DEF LeavesRule, Ends
  <1>7. ASSUME NEW R, R \subseteq 1 .. i /\ (in_rule <=> i \in R)
        PROVE  LET W == R \cup (IF in_rule' THEN i + 1 .. n ELSE {})
               IN  \A k \in i .. n - 1 :
                     /\ k \notin W /\ Begins(tokens, k) => k + 1 \in W
                     /\ k \in W /\ ~Ends(tokens, k) => k + 1 \in W
                     /\ k \in W => \A m \in {k} : CommentKnown(tokens, m)'
    <2> DEFINE W == R \cup (IF in_rule' THEN i + 1 .. n ELSE {})
    <2>1. SUFFICES ASSUME NEW k \in i .. n - 1
                   PROVE  /\ k \notin W /\ Begins(tokens, k) => k + 1 \in W
                          /\ k \in W /\ ~Ends(tokens, k) => k + 1 \in W
                          /\ k \in W => \A m \in {k} : CommentKnown(tokens, m)'
      OBVIOUS
    <2>2. k = i
      BY <1>2, <1>3, <2>1
    <2>3. i \in W <=> in_rule
      BY <1>2, <1>7
    <2>4. in_rule' => i + 1 \in W
      BY <1>2, <1>3
    <2> HIDE DEF W
    <2>5. QED
      BY <1>5, <1>6, <2>2, <2>3, <2>4
  <1>8. QED
    BY <1>1, <1>2, <1>3, <1>4, <1>7, CommentStep

LEMMA CountBraceStep == CInv /\ CountBrace => CInv'
  <1>1. SUFFICES ASSUME CInv, CountBrace PROVE CInv'
    OBVIOUS
  <1>2. /\ InComments /\ ~EntersRule /\ UNCHANGED <<files, file, pass>> /\ i' = i + 1
        /\ Count(i) /\ in_rule' = (in_rule /\ ~LeavesRule(i)) /\ UNCHANGED book
        /\ tokens[i].kind # "COMMENT"
    BY <1>1 DEF CountBrace, Advance, RecordNothing, ledger
  <1>3. Grows
    BY <1>1 DEF CountBrace, RecordNothing, ledger, allocators, Grows
  <1>4. \A m \in {i} : CommentKnown(tokens, m)'
    BY <1>2 DEF CommentKnown, tokens
  <1>5. QED
    BY <1>1, <1>2, <1>3, <1>4, OneTokenStep

LEMMA DiscoverCommentStep == CInv /\ DiscoverComment => CInv'
  <1>1. SUFFICES ASSUME CInv, DiscoverComment PROVE CInv'
    OBVIOUS
  <1>2. /\ InComments /\ ~EntersRule /\ UNCHANGED <<files, file, pass>> /\ i' = i + 1
        /\ UNCHANGED <<depth, in_rule>> /\ tokens[i].kind \notin {"LBRACE", "RBRACE"}
        /\ RecordIf(in_rule /\ tokens[i].kind = "COMMENT", "IRULE_COMMENT", tokens[i].text)
    BY <1>1 DEF DiscoverComment, Advance
  <1>3. Grows
    BY <1>2, RecordGrows
  <1>4. Count(i)
    BY <1>2 DEF Count
  <1>5. in_rule' = (in_rule /\ ~LeavesRule(i))
    <2>1. in_rule \in BOOLEAN
      BY <1>1, <1>2 DEF CInv, OnTheBraces, InComments
    <2>2. QED
      BY <1>2, <2>1 DEF LeavesRule
  <1>6. in_rule => \A m \in {i} : CommentKnown(tokens, m)'
    BY <1>2, InternGrows DEF CommentKnown, RecordIf, Record, tokens
  <1>7. QED
    BY <1>1, <1>2, <1>3, <1>4, <1>5, <1>6, OneTokenStep

\* The header of a rule is passed in one step.
LEMMA EnterRuleStep == CInv /\ EnterRule => CInv'
  <1>1. SUFFICES ASSUME CInv, EnterRule PROVE CInv'
    OBVIOUS
  <1>2. /\ InComments /\ EntersRule /\ UNCHANGED <<files, file, pass, book>> /\ i' = i + 4
        /\ in_rule' = TRUE /\ depth' = depth + 1
    BY <1>1 DEF EnterRule, Advance, RecordNothing, ledger
  <1>3. Grows
    BY <1>1 DEF EnterRule, RecordNothing, ledger, allocators, Grows
  <1>4. PICK n : n = i'
    OBVIOUS
  <1>5. /\ pass = "comments" /\ i \in Nat \ {0} /\ Begins(tokens, i) /\ ~in_rule
        /\ depth = 0
    BY <1>1, <1>2 DEF InComments, CInv, OnTheBraces, EntersRule, Begins
  <1>6. /\ depth' = Depth(tokens, i')
        /\ \A k \in i .. i + 3 : tokens[k].kind # "COMMENT"
    BY <1>2, <1>5, HeaderEnters
  <1>7. i' \in Nat /\ i' > i /\ n = i + 4 /\ in_rule' \in BOOLEAN
    BY <1>2, <1>4, <1>5
  <1>8. ASSUME NEW R, R \subseteq 1 .. i /\ (in_rule <=> i \in R)
        PROVE  LET W == R \cup (IF in_rule' THEN i + 1 .. n ELSE {})
               IN  \A k \in i .. n - 1 :
                     /\ k \notin W /\ Begins(tokens, k) => k + 1 \in W
                     /\ k \in W /\ ~Ends(tokens, k) => k + 1 \in W
                     /\ k \in W => \A m \in {k} : CommentKnown(tokens, m)'
    <2> DEFINE W == R \cup (IF in_rule' THEN i + 1 .. n ELSE {})
    <2>1. SUFFICES ASSUME NEW k \in i .. n - 1
                   PROVE  k + 1 \in W /\ \A m \in {k} : CommentKnown(tokens, m)'
      BY Zenon
    <2>2. k + 1 \in W
      BY <1>2, <1>5, <1>7, <2>1
    <2>3. \A m \in {k} : CommentKnown(tokens, m)'
      <3>1. k \in i .. i + 3
        BY <1>5, <1>7, <2>1
      <3>2. tokens[k].kind # "COMMENT"
        BY <1>6, <3>1
      <3>3. UNCHANGED tokens
        BY <1>2 DEF tokens
      <3>4. QED
        BY <3>2, <3>3 DEF CommentKnown
    <2>4. QED
      BY <2>2, <2>3
  <1>9. QED
    BY <1>1, <1>3, <1>2, <1>4, <1>5, <1>6, <1>7, <1>8, CommentStep

---------------------------------------------------------------------------
(* The other steps. *)

\* The other walkers and pass 2 stay away from pass 1.8.
LEMMA ElsewhereIsAway ==
    ASSUME Elsewhere, pass # "comments"
    PROVE  Away
  BY DEF Elsewhere, Grows, Away

LEMMA ObjectsAndDescriptionsAreAway ==
    ASSUME UNCHANGED results,
           \/ SkipBody \/ RegisterObject \/ RecordUnknownTopLevel \/ SkipTopLevel
           \/ DiscoverDescriptionValue \/ DiscoverDescriptionBraced \/ DiscoverNoDescription
    PROVE  Away
  <1>1. CASE SkipBody \/ RegisterObject \/ RecordUnknownTopLevel \/ SkipTopLevel
    <2>1. pass = "objects"
      BY <1>1 DEF SkipBody, RegisterObject, RecordUnknownTopLevel, SkipTopLevel, InObjects
    <2>2. QED
      BY <1>1, <2>1, ObjectsAreElsewhere, ElsewhereIsAway
  <1>2. CASE \/ DiscoverDescriptionValue \/ DiscoverDescriptionBraced
             \/ DiscoverNoDescription
    <2>1. Grows
      <3>1. CASE DiscoverDescriptionValue
        BY <3>1, RecordGrows DEF DiscoverDescriptionValue
      <3>2. CASE DiscoverDescriptionBraced
        BY <3>2, RecordGrows DEF DiscoverDescriptionBraced
      <3>3. CASE DiscoverNoDescription
        BY <3>3 DEF DiscoverNoDescription, RecordNothing, ledger, allocators, Grows
      <3>4. QED
        BY <1>2, <3>1, <3>2, <3>3
    <2>2. pass = "descriptions" /\ UNCHANGED <<files, file, pass>>
      BY <1>2 DEF DiscoverDescriptionValue, DiscoverDescriptionBraced,
                  DiscoverNoDescription, InDescriptions, Advance
    <2>3. QED
      BY <2>1, <2>2 DEF Away, Grows
  <1>3. QED
    BY <1>1, <1>2

LEMMA WalkersAreAway ==
    ASSUME UNCHANGED results,
           \/ BlockNext \/ FieldNext \/ LiteralNext
           \/ DiscoverQueryAttrname \/ DiscoverSamlOauth
           \/ DiscoverIruleLiteral \/ DiscoverIruleIdentifier \/ SkipOther
    PROVE  Away
  <1>1. CASE BlockNext
    <2>1. pass \in BlockPasses
      BY <1>1 DEF BlockNext, EnterBlock, CountBlockBrace, EnterInner, RegisterBucket,
                  DiscoverField, InWalker
    <2>2. QED
      BY <1>1, <2>1, BlocksAreElsewhere, ElsewhereIsAway DEF BlockPasses
  <1>2. CASE \/ DiscoverQueryAttrname \/ DiscoverSamlOauth
             \/ DiscoverIruleLiteral \/ DiscoverIruleIdentifier \/ SkipOther
    <2>1. pass \in BlockPasses
      BY <1>2 DEF DiscoverQueryAttrname, DiscoverSamlOauth, DiscoverIruleLiteral,
                  DiscoverIruleIdentifier, SkipOther, AtOther, InWalker
    <2>2. QED
      BY <1>2, <2>1, OthersAreElsewhere, ElsewhereIsAway DEF BlockPasses
  <1>3. CASE FieldNext \/ LiteralNext
    <2>1. pass # "comments"
      BY <1>3 DEF FieldNext, DiscoverUsernames, DiscoverMonitorRecv, DiscoverMonitorPaths,
                  DiscoverTimestamps, DiscoverApmVarLiterals, DiscoverBaseDns,
                  DiscoverKrbRealms, LiteralNext, DiscoverIpLiterals, DiscoverAdDns,
                  DiscoverFqdns, DiscoverSessionWords, Preregister, Loop
    <2>2. QED
      BY <1>3, <2>1, FieldsAreElsewhere, ElsewhereIsAway
  <1>4. QED
    BY <1>1, <1>2, <1>3

LEMMA Pass2IsAway ==
    ASSUME \/ EnterRuleBody \/ RedactValue \/ RedactBraced \/ KeepBraced \/ KeepField
           \/ EmitToken \/ RestorePiece
    PROVE  Away
  <1>1. pass \in {"substitute", "restore"}
    BY DEF EnterRuleBody, RedactValue, RedactBraced, KeepBraced, KeepField, EmitToken,
           RestorePiece, RedactDescription, InPass2
  <1>2. UNCHANGED <<files, file, pass, book>>
    BY DEF EnterRuleBody, RedactValue, RedactBraced, KeepBraced, KeepField, EmitToken,
           RestorePiece, RedactDescription, Pass2Keeps, Advance, ledger
  <1>3. QED
    BY <1>1, <1>2 DEF Away

LEMMA CommentsInOrder ==
    \A p \in 1 .. 26 :
        /\ Passes[p + 1] = "comments" => Passes[p] = "descriptions"
        /\ Passes[p + 1] \notin EarlyPasses \cup {"comments"} => Passes[p] \notin EarlyPasses
  BY DEF Passes, EarlyPasses

LEMMA NextWalkerKeepsCInv ==
    IInv /\ CInv /\ NextWalker => CInv'
  <1>1. SUFFICES ASSUME IInv, CInv, NextWalker PROVE CInv'
    OBVIOUS
  <1>2. UNCHANGED <<files, book>> /\ i' = 1 /\ depth' = 0 /\ in_rule' = FALSE /\ AtEnd
    BY <1>1 DEF NextWalker, Rewind
  <1>3. /\ file \in DOMAIN files
        /\ Len(files) \in Nat \ {0} /\ DOMAIN files = 1 .. Len(files)
        /\ Len(tokens) \in Nat
    BY <1>1, FileShape DEF IInv, FilesOK, tokens
  <1>4. OnTheBraces'
    <2>1. Ruled(tokens, {}, i)'
      BY <1>2 DEF Ruled
    <2>2. Depth(tokens, i)' = 0
      <3>1. Open(tokens, 1, 0)' = 0 /\ Closed(tokens, 1, 0)' = 0
        <4>1. 1 .. 0 = {}
          OBVIOUS
        <4>2. QED
          BY <4>1, FS_EmptySet DEF Open, Closed
      <3>2. QED
        BY <1>2, <3>1 DEF Depth
    <2>3. {} \subseteq (1 .. i)' /\ (in_rule' <=> (i \in {})') /\ in_rule' \in BOOLEAN
      BY <1>2
    <2>4. QED
      BY <1>2, <2>1, <2>2, <2>3 DEF OnTheBraces
  <1>5. \A f : RuledComplete(files[f]) => RuledComplete(files[f])'
    BY <1>2, RuledGrows
  <1>6. CASE pass = "prescan"
    <2>1. NextFile("prescan", "objects")
      BY <1>1, <1>6, PassOrder DEF NextWalker
    <2>2. pass' = "prescan" \/ (pass' = "objects" /\ file' = 1)
      BY <2>1 DEF NextFile
    <2>3. LeftFilesRuled'
      BY <2>2, PassOrder DEF LeftFilesRuled, EarlyPasses, Range, Sanitized
    <2>4. QED
      BY <1>4, <2>3 DEF CInv
  <1>7. CASE pass = "irule_identifiers"
    <2>1. NextFile("objects", "substitute")
      BY <1>1, <1>7, PassOrder DEF NextWalker
    <2>2. \A f \in 1 .. file : RuledComplete(files[f])'
      <3>1. \A f \in 1 .. file : RuledComplete(files[f])
        BY <1>1, <1>7 DEF CInv, LeftFilesRuled, EarlyPasses, Range, Passes
      <3>2. QED
        BY <1>5, <3>1
    <2>3. \/ file < Len(files) /\ pass' = "objects" /\ file' = file + 1
          \/ file = Len(files) /\ pass' = "substitute" /\ file' = 1
      BY <1>3, <2>1 DEF NextFile
    <2>4. LeftFilesRuled'
      <3>1. CASE pass' = "objects"
        <4>1. \A f \in 1 .. file' : f < file' => RuledComplete(files[f])'
          BY <1>3, <2>2, <2>3, <3>1
        <4>2. QED
          BY <3>1, <4>1 DEF LeftFilesRuled, EarlyPasses, Sanitized
      <3>2. CASE pass' = "substitute"
        <4>1. \A f \in DOMAIN files' : RuledComplete(files[f])'
          BY <1>2, <1>3, <2>2, <2>3, <3>2
        <4>2. QED
          BY <3>2, <4>1, PassOrder DEF LeftFilesRuled, Range
      <3>3. QED
        BY <2>3, <3>1, <3>2
    <2>5. QED
      BY <1>4, <2>4 DEF CInv
  <1>8. CASE pass \notin {"prescan", "irule_identifiers"}
    <2>1. PICK p \in DOMAIN Passes : pass = Passes[p] /\ pass' = Passes[p + 1]
      BY <1>1, <1>8, PassOrder DEF NextWalker
    <2>2. UNCHANGED file
      BY <1>1, <1>8, PassOrder DEF NextWalker
    <2>3. p \in 1 .. 26 /\ pass \in Range(Passes)
      <3>1. p # 27
        BY <1>8, <2>1 DEF Passes
      <3>2. QED
        BY <2>1, <3>1, PassOrder DEF Range
    <2>4. pass = "comments" => RuledComplete(tokens)
      <3>1. SUFFICES ASSUME pass = "comments" PROVE RuledComplete(tokens)
        OBVIOUS
      <3>2. PICK R : Ruled(tokens, R, i)
        BY <1>1, <3>1 DEF CInv, OnTheBraces
      <3>3. i \in Nat /\ i >= Len(tokens) + 1
        BY <1>1, <1>2, <1>3, <3>1 DEF CInv, OnTheBraces, AtEnd
      <3>4. Ruled(tokens, R, Len(tokens) + 1)
        <4>1. \A k \in 1 .. (Len(tokens) + 1) - 1 : k \in 1 .. i - 1
          BY <1>3, <3>3
        <4>2. QED
          BY <3>2, <4>1 DEF Ruled
      <3>5. QED
        BY <3>4 DEF RuledComplete
    <2>5. \A f \in 1 .. file :
              f < file \/ pass' \notin EarlyPasses \cup {"comments"} => RuledComplete(files[f])
      <3>1. SUFFICES ASSUME NEW f \in 1 .. file,
                            f < file \/ pass' \notin EarlyPasses \cup {"comments"}
                     PROVE  RuledComplete(files[f])
        OBVIOUS
      <3>2. CASE f < file \/ pass \notin EarlyPasses \cup {"comments"}
        BY <1>1, <2>3, <3>1, <3>2 DEF CInv, LeftFilesRuled
      <3>3. CASE f = file /\ pass \in EarlyPasses \cup {"comments"}
        <4>1. pass' \notin EarlyPasses \cup {"comments"}
          BY <1>3, <3>1, <3>3
        <4>2. pass = "comments"
          BY <2>1, <2>3, <3>3, <4>1, CommentsInOrder
        <4>3. QED
          BY <2>4, <3>3, <4>2 DEF tokens
      <3>4. f < file \/ f = file
        BY <1>3, <3>1
      <3>5. QED
        BY <3>2, <3>3, <3>4
    <2>6. pass' \notin {"substitute", "restore", "done"}
      BY <2>1, <2>3, PassOrder
    <2>7. LeftFilesRuled'
      BY <1>5, <2>2, <2>5, <2>6 DEF LeftFilesRuled, Sanitized
    <2>8. QED
      BY <1>4, <2>7 DEF CInv
  <1>9. QED
    BY <1>6, <1>7, <1>8

LEMMA FinishKeepsCInv == CInv /\ (FinishFile \/ FinishRestore) => CInv'
  <1>1. SUFFICES ASSUME CInv, FinishFile \/ FinishRestore PROVE CInv'
    OBVIOUS
  <1>2. /\ UNCHANGED <<files, book>> /\ pass \in {"substitute", "restore"}
        /\ pass' \in {"substitute", "restore", "done"}
    BY <1>1 DEF FinishFile, FinishRestore, ledger
  <1>3. \A f : RuledComplete(files[f]) => RuledComplete(files[f])'
    BY <1>2, RuledGrows
  <1>4. OnTheBraces'
    BY <1>2 DEF OnTheBraces
  <1>5. LeftFilesRuled'
    BY <1>1, <1>2, <1>3, PassOrder DEF CInv, LeftFilesRuled, Sanitized, Range
  <1>6. QED
    BY <1>4, <1>5 DEF CInv

LEMMA StutterKeepsCInv == CInv /\ UNCHANGED vars => CInv'
  <1>1. SUFFICES ASSUME CInv, UNCHANGED vars PROVE CInv'
    OBVIOUS
  <1>2. UNCHANGED <<files, file, pass, i, depth, in_rule, book>>
    BY <1>1 DEF vars, discovery_vars, loop, ledger
  <1>3. \A f : RuledComplete(files[f]) => RuledComplete(files[f])'
    BY <1>2, RuledGrows
  <1>4. LeftFilesRuled'
    BY <1>1, <1>2, <1>3 DEF CInv, LeftFilesRuled, Sanitized
  <1>5. OnTheBraces'
    <2>1. SUFFICES ASSUME pass = "comments" PROVE OnTheBraces'
      BY <1>2 DEF OnTheBraces
    <2>2. UNCHANGED tokens
      BY <1>2 DEF tokens
    <2>3. Depth(tokens, i)' = Depth(tokens, i)
      BY <1>2, <2>2 DEF Depth, Open, Closed
    <2>4. \A R : Ruled(tokens, R, i) => Ruled(tokens, R, i)'
      <3>1. \A k : /\ Begins(tokens, k)' = Begins(tokens, k)
                   /\ Ends(tokens, k)' = Ends(tokens, k)
                   /\ CommentKnown(tokens, k)' = CommentKnown(tokens, k)
        BY <1>2, <2>2
           DEF Begins, Ends, CommentKnown, Depth, Open, Closed, RuleShape
      <3>2. QED
        BY <1>2, <3>1 DEF Ruled
    <2>5. QED
      BY <1>1, <1>2, <2>1, <2>3, <2>4 DEF CInv, OnTheBraces
  <1>6. QED
    BY <1>4, <1>5 DEF CInv

\* The invariant is inductive.
LEMMA StepKeepsCInv == IInv /\ CInv /\ [Next]_vars => CInv'
  <1>1. SUFFICES ASSUME IInv, CInv, [Next]_vars PROVE CInv'
    OBVIOUS
  <1>2. CASE ScannerNext /\ UNCHANGED results
    <2>1. CASE EnterRule \/ CountBrace \/ DiscoverComment
      BY <1>1, <2>1, EnterRuleStep, CountBraceStep, DiscoverCommentStep
    <2>2. CASE DiscoveryNext /\ ~(EnterRule \/ CountBrace \/ DiscoverComment)
      BY <1>1, <1>2, <2>2, ObjectsAndDescriptionsAreAway, AwayStep DEF DiscoveryNext
    <2>3. CASE \/ BlockNext \/ FieldNext \/ LiteralNext
               \/ DiscoverQueryAttrname \/ DiscoverSamlOauth
               \/ DiscoverIruleLiteral \/ DiscoverIruleIdentifier \/ SkipOther
      BY <1>1, <1>2, <2>3, WalkersAreAway, AwayStep
    <2>4. CASE NextWalker
      BY <1>1, <2>4, NextWalkerKeepsCInv
    <2>5. QED
      BY <1>2, <2>1, <2>2, <2>3, <2>4 DEF ScannerNext
  <1>3. CASE UNCHANGED vars
    BY <1>1, <1>3, StutterKeepsCInv
  <1>4. CASE \/ EnterRuleBody \/ RedactValue \/ RedactBraced \/ KeepBraced \/ KeepField
             \/ EmitToken \/ RestorePiece
    BY <1>1, <1>4, Pass2IsAway, AwayStep
  <1>5. CASE FinishFile \/ FinishRestore
    BY <1>1, <1>5, FinishKeepsCInv
  <1>6. QED
    BY <1>1, <1>2, <1>3, <1>4, <1>5 DEF Next

\* Pass 1.8 takes for bodies of rules what, and more than what, the braces of
\* the rules enclose, and has entered every comment there.
LEMMA RuledKnown ==
    ASSUME IInv, CInv
    PROVE  CommentsKnown
  <1>1. SUFFICES ASSUME pass = "substitute" \/ Sanitized,
                        NEW f \in DOMAIN files, NEW k \in DOMAIN files[f],
                        files[f][k].kind = "COMMENT", InRuleBody(files[f], k)
                 PROVE  Known("IRULE_COMMENT", files[f][k].text)
    BY DEF CommentsKnown
  <1>2. PICK n \in Nat : Len(files[f]) = n /\ DOMAIN files[f] = 1 .. n
    BY <1>1, FileShape DEF IInv, FilesOK
  <1>3. PICK R : Ruled(files[f], R, n + 1)
    BY <1>1, <1>2 DEF CInv, LeftFilesRuled, RuledComplete
  <1>4. k \in R
    BY <1>1, <1>2, <1>3, BodyIsRuled
  <1>5. CommentKnown(files[f], k)
    BY <1>1, <1>2, <1>3, <1>4 DEF Ruled
  <1>6. QED
    BY <1>1, <1>5 DEF CommentKnown, Known, KeyText

\* When pass 2 begins, and ever after, each comment in the body of an iRule is
\* in the ledger: in every file, and however deep in the body.
THEOREM CommentsAreKnown == Spec => []CommentsKnown
  <1>1. IInv /\ CInv /\ [Next]_vars => CInv'
    BY StepKeepsCInv
  <1>2. IInv /\ CInv => CommentsKnown
    BY RuledKnown
  <1>3. QED
    BY <1>1, <1>2, InitCInv, WalksAgree, PTL DEF Spec
===========================================================================
