-------------------------- MODULE AnswerFileProofs --------------------------
(***************************************************************************)
(* The answer file determines the ledger, whatever was entered.  The       *)
(* dictionaries come back because they are inverse to each other, and the  *)
(* counters because the numbers of a kind have no gaps, and the texts with *)
(* these numbers are entries of that kind.                                 *)
(***************************************************************************)
EXTENDS AnswerFile, LedgerProofs

---------------------------------------------------------------------------
(***************************************************************************)
(* The texts KIND_NNNN belong to their kinds.                              *)
(***************************************************************************)
LEMMA EnterKeepsKinds ==
    ASSUME NEW b, KindsMatch(b), NEW kind, NEW original, NEW partition, NEW text,
           \A k \in OpaqueKinds : text[1] = k <=> kind = k
    PROVE  KindsMatch(Enter(b, kind, original, partition, text))
  <1> DEFINE c == Enter(b, kind, original, partition, text)
  <1>1. /\ DOMAIN c.entries = DOMAIN b.entries \cup {text}
        /\ c.entries[text].kind = kind
        /\ \A t \in DOMAIN b.entries : t # text => c.entries[t] = b.entries[t]
    BY DEF Enter, Bind, Entry
  <1>2. QED
    BY <1>1 DEF KindsMatch

LEMMA InternKeepsKinds ==
    ASSUME NEW b, KindsMatch(b), NEW kind, NEW original, NEW partition
    PROVE  KindsMatch(Intern(b, kind, original, partition))
  <1> DEFINE text == <<kind, Number(b, kind)>>
  <1>1. KindsMatch(Enter(b, kind, original, partition, text))
    BY EnterKeepsKinds
  <1>2. QED
    BY <1>1 DEF Intern

LEMMA RenderedKeepsKinds ==
    ASSUME NEW b, KindsMatch(b), NEW kind \in RenderedKinds, NEW original, NEW text,
           text[1] \notin OpaqueKinds
    PROVE  KindsMatch(EnterRendered(b, kind, original, text))
  <1>1. kind \notin OpaqueKinds
    BY KindAssumption
  <1>2. KindsMatch(Enter(b, kind, original, None, text))
    BY <1>1, EnterKeepsKinds
  <1>3. QED
    BY <1>2 DEF EnterRendered

LEMMA KindsStep == BookKinds /\ [Next]_vars => BookKinds'
  <1> SUFFICES ASSUME BookKinds, [Next]_vars PROVE BookKinds'
    OBVIOUS
  <1>0. {"ipv4", "ipv6", "word", "stamp"} \cap OpaqueKinds = {}
    BY KindAssumption DEF Tags
  <1>1. ASSUME NEW kind \in TextKinds, NEW name \in Names, InternText(kind, name)
        PROVE  BookKinds'
    BY <1>1, InternKeepsKinds DEF InternText, BookKinds
  <1>2. ASSUME NEW kind \in PathKinds, NEW path \in Paths, RegisterPath(kind, path)
        PROVE  BookKinds'
    <2>1. KindsMatch(InternPartition(book, path[1]))
      BY InternKeepsKinds DEF BookKinds, InternPartition
    <2>2. QED
      BY <1>2, <2>1, InternKeepsKinds DEF RegisterPath, BookKinds
  <1>3. ASSUME NEW addr, InternIpv4(addr)
        PROVE  BookKinds'
    <2>1. ASSUME NEW slot,
                 book' = EnterRendered(book, "IPADDR", <<"ipv4", addr>>, <<"ipv4", slot>>)
          PROVE  BookKinds'
      <3>1. <<"ipv4", slot>>[1] \notin OpaqueKinds /\ "IPADDR" \in RenderedKinds
        BY <1>0 DEF RenderedKinds
      <3>2. QED
        BY <2>1, <3>1, RenderedKeepsKinds DEF BookKinds
    <2>2. QED
      BY <1>3, <2>1 DEF InternIpv4, BookKinds
  <1>4. ASSUME NEW lit, InternIpv6(lit)
        PROVE  BookKinds'
    <2>1. ASSUME NEW slot,
                 book' = EnterRendered(book, "IPADDR", <<"ipv6", lit>>, <<"ipv6", slot>>)
          PROVE  BookKinds'
      <3>1. <<"ipv6", slot>>[1] \notin OpaqueKinds /\ "IPADDR" \in RenderedKinds
        BY <1>0 DEF RenderedKinds
      <3>2. QED
        BY <2>1, <3>1, RenderedKeepsKinds DEF BookKinds
    <2>2. QED
      BY <1>4, <2>1 DEF InternIpv6, BookKinds
  <1>5. ASSUME NEW word, InternSessionNamespaceWord(word)
        PROVE  BookKinds'
    <2>1. PICK candidate :
              book' = EnterRendered(book, "SESSION_NS", word, <<"word", candidate>>)
      BY <1>5 DEF InternSessionNamespaceWord
    <2>2. <<"word", candidate>>[1] \notin OpaqueKinds /\ "SESSION_NS" \in RenderedKinds
      BY <1>0 DEF RenderedKinds
    <2>3. QED
      BY <2>1, <2>2, RenderedKeepsKinds DEF BookKinds
  <1>6. ASSUME NEW stamp, InternTimestamp(stamp)
        PROVE  BookKinds'
    <2>1. ASSUME NEW second,
                 book' = Enter(book, "TIMESTAMP", stamp, None, StampText(stamp[1], second))
          PROVE  BookKinds'
      <3>1. StampText(stamp[1], second)[1] = "stamp"
        BY DEF StampText
      <3>2. "stamp" \notin OpaqueKinds /\ "TIMESTAMP" \notin OpaqueKinds
        BY <1>0, KindAssumption DEF RenderedKinds
      <3>3. \A k \in OpaqueKinds :
                StampText(stamp[1], second)[1] = k <=> "TIMESTAMP" = k
        BY <3>1, <3>2
      <3>4. QED
        BY <2>1, <3>3, EnterKeepsKinds DEF BookKinds
    <2>2. QED
      BY <1>6, <2>1 DEF InternTimestamp, BookKinds
  <1>7. ASSUME NEW identifier, NEW text \in IdentTexts, InternIruleIdent(identifier, text)
        PROVE  BookKinds'
    <2>1. text[1] \notin OpaqueKinds /\ "IRULE_IDENT" \in RenderedKinds
      BY IdentAssumption DEF RenderedKinds
    <2>2. QED
      BY <1>7, <2>1, RenderedKeepsKinds DEF InternIruleIdent, BookKinds
  <1>8. CASE UNCHANGED book
    BY <1>8 DEF BookKinds
  <1>9. QED
    BY <1>1, <1>2, <1>3, <1>4, <1>5, <1>6, <1>7, <1>8
       DEF Next, vars, MarkSessionNsUnsafe, RecordReference, Freeze

\* A text KIND_NNNN is never an entry of another kind, and an entry of an opaque
\* kind has no other text.
THEOREM AnswerKinds == Spec => []BookKinds
  <1>1. Init => BookKinds
    BY DEF Init, EmptyBook, BookKinds, KindsMatch
  <1>2. QED
    BY <1>1, KindsStep, PTL DEF Spec

---------------------------------------------------------------------------
(***************************************************************************)
(* Reading back.                                                           *)
(***************************************************************************)
\* There is one row for a text, and with an inverse table one for a key.
LEMMA RowsOfTable ==
    ASSUME NEW b, BookTypeOK(b), NEW rows, rows = Rows(b)
    PROVE  /\ {row.placeholder : row \in rows} = DOMAIN b.entries
           /\ {KeyOf(row) : row \in rows} = {KeyOf(b.entries[text]) : text \in DOMAIN b.entries}
           /\ \A row \in rows : /\ row.placeholder \in DOMAIN b.entries
                                /\ row.kind = b.entries[row.placeholder].kind
                                /\ row.original = b.entries[row.placeholder].original
                                /\ row.partition = b.entries[row.placeholder].partition
           /\ \A text \in DOMAIN b.entries : \E row \in rows : row.placeholder = text
  <1> DEFINE RowAt(text) ==
                 [placeholder |-> text, kind |-> b.entries[text].kind,
                  original |-> b.entries[text].original,
                  partition |-> b.entries[text].partition]
  <1>1. rows = {RowAt(text) : text \in DOMAIN b.entries}
    BY DEF Rows
  <1>2. \A row \in rows : /\ row.placeholder \in DOMAIN b.entries
                          /\ row.kind = b.entries[row.placeholder].kind
                          /\ row.original = b.entries[row.placeholder].original
                          /\ row.partition = b.entries[row.placeholder].partition
    BY <1>1
  <1>3. \A text \in DOMAIN b.entries : RowAt(text) \in rows /\ RowAt(text).placeholder = text
    BY <1>1
  <1> HIDE DEF RowAt
  <1>4. {row.placeholder : row \in rows} = DOMAIN b.entries
    BY <1>2, <1>3
  <1>5. \A row \in rows : KeyOf(row) = KeyOf(b.entries[row.placeholder])
    BY <1>2 DEF KeyOf
  <1>6. {KeyOf(row) : row \in rows} = {KeyOf(b.entries[text]) : text \in DOMAIN b.entries}
    BY <1>2, <1>3, <1>5
  <1>7. QED
    BY <1>2, <1>3, <1>4, <1>6

LEMMA EntriesReadBack ==
    ASSUME NEW b, BookTypeOK(b)
    PROVE  LedgerFromEntries(Rows(b)).entries = b.entries
  <1> DEFINE rows == Rows(b)
             read == LedgerFromEntries(rows).entries
  <1>1. DOMAIN read = DOMAIN b.entries
    BY RowsOfTable DEF LedgerFromEntries
  <1>2. ASSUME NEW text \in DOMAIN b.entries
        PROVE  read[text] = b.entries[text]
    <2>1. RowOf(rows, text) \in rows /\ RowOf(rows, text).placeholder = text
      BY RowsOfTable DEF RowOf
    <2>2. /\ RowOf(rows, text).kind = b.entries[text].kind
          /\ RowOf(rows, text).original = b.entries[text].original
          /\ RowOf(rows, text).partition = b.entries[text].partition
      BY <2>1, RowsOfTable
    <2>3. text \in {row.placeholder : row \in rows}
      BY RowsOfTable
    <2>4. read[text] = Entry(b.entries[text].kind, b.entries[text].original,
                             b.entries[text].partition)
      BY <2>2, <2>3 DEF LedgerFromEntries
    <2>5. b.entries[text] \in [kind : Kinds, original : Originals,
                               partition : Partitions \cup {None}]
      BY DEF BookTypeOK
    <2>6. QED
      BY <2>4, <2>5 DEF Entry
  <1>3. /\ read = [text \in DOMAIN read |-> read[text]]
        /\ b.entries = [text \in DOMAIN b.entries |-> b.entries[text]]
    BY DEF LedgerFromEntries, BookTypeOK
  <1>4. QED
    BY <1>1, <1>2, <1>3

LEMMA OriginalsReadBack ==
    ASSUME NEW b, BookTypeOK(b), Inverse(b)
    PROVE  LedgerFromEntries(Rows(b)).by_original = b.by_original
  <1> DEFINE rows == Rows(b)
             read == LedgerFromEntries(rows).by_original
  <1>1. {KeyOf(row) : row \in rows} = DOMAIN b.by_original
    <2>1. {KeyOf(b.entries[text]) : text \in DOMAIN b.entries} = DOMAIN b.by_original
      BY DEF Inverse
    <2>2. QED
      BY <2>1, RowsOfTable
  <1>2. DOMAIN read = DOMAIN b.by_original
    BY <1>1 DEF LedgerFromEntries
  <1>3. ASSUME NEW key \in DOMAIN b.by_original
        PROVE  read[key] = b.by_original[key]
    <2>1. \E row \in rows : KeyOf(row) = key
      BY <1>1
    <2>2. RowFor(rows, key) \in rows /\ KeyOf(RowFor(rows, key)) = key
      BY <2>1 DEF RowFor
    <2>3. LET text == RowFor(rows, key).placeholder
          IN  text \in DOMAIN b.entries /\ KeyOf(b.entries[text]) = key
      BY <2>2, RowsOfTable DEF KeyOf
    <2>4. RowFor(rows, key).placeholder = b.by_original[key]
      BY <2>3 DEF Inverse
    <2>5. QED
      BY <1>1, <2>4 DEF LedgerFromEntries
  <1>4. /\ read = [key \in DOMAIN read |-> read[key]]
        /\ b.by_original = [key \in DOMAIN b.by_original |-> b.by_original[key]]
    BY DEF LedgerFromEntries, BookTypeOK
  <1>5. QED
    BY <1>2, <1>3, <1>4

\* The numbers of an opaque kind are 1 up to its counter.
LEMMA CountersReadBack ==
    ASSUME NEW b, BookTypeOK(b), Numbered(b), KindsMatch(b), NEW kind \in OpaqueKinds
    PROVE  LedgerFromEntries(Rows(b)).counters[kind] = b.counters[kind]
  <1> DEFINE rows == Rows(b)
             last == b.counters[kind]
  <1>1. last \in Nat
    BY DEF BookTypeOK, Kinds
  <1>2. SuffixesOf(rows, kind) = 1 .. last
    <2>1. \A row \in rows : row.kind = kind <=> row.placeholder[1] = kind
      BY RowsOfTable DEF KindsMatch
    <2>2. \A row \in rows : row.kind = kind => Suffix(row.placeholder) = row.placeholder[2]
      <3>1. "word" \notin OpaqueKinds
        BY KindAssumption DEF Tags
      <3>2. QED
        BY <2>1, <3>1 DEF Suffix
    <2>3. SuffixesOf(rows, kind)
              = {row.placeholder[2] : row \in {r \in rows : r.placeholder[1] = kind}}
      BY <2>1, <2>2 DEF SuffixesOf
    <2>4. @ = {text[2] : text \in {t \in DOMAIN b.entries : t[1] = kind}}
      BY RowsOfTable
    <2>5. QED
      BY <2>3, <2>4 DEF Numbered
  <1>3. ReadCounter(rows, kind) = last
    <2>1. /\ last \in {0} \cup 1 .. last
          /\ \A m \in {0} \cup 1 .. last : m <= last
      BY <1>1
    <2>2. \A n \in {0} \cup 1 .. last :
              (\A m \in {0} \cup 1 .. last : m <= n) => n = last
      BY <1>1, <2>1
    <2>3. QED
      BY <1>2, <2>1, <2>2 DEF ReadCounter
  <1>4. QED
    BY <1>3 DEF LedgerFromEntries, Kinds

\* A ledger that is written and read back at any moment is the same ledger.
THEOREM AnswerReadsBack == Spec => []ReadsBack
  <1>1. IInv /\ BookKinds => ReadsBack
    <2> SUFFICES ASSUME IInv, BookKinds PROVE ReadsBack
      OBVIOUS
    <2>1. BookTypeOK(book) /\ Inverse(book) /\ Numbered(book) /\ KindsMatch(book)
      BY DEF IInv, Sound, BookKinds
    <2>2. LedgerFromEntries(Rows(book)).entries = book.entries
      BY <2>1, EntriesReadBack
    <2>3. LedgerFromEntries(Rows(book)).by_original = book.by_original
      BY <2>1, OriginalsReadBack
    <2>4. \A kind \in OpaqueKinds :
              LedgerFromEntries(Rows(book)).counters[kind] = book.counters[kind]
      BY <2>1, CountersReadBack
    <2>5. QED
      BY <2>2, <2>3, <2>4 DEF ReadsBack
  <1>2. QED
    BY <1>1, LedgerInvariant, AnswerKinds, PTL
===========================================================================
