---------------------------- MODULE Substitute ----------------------------
(***************************************************************************)
(* Pass 2 of veil and its inverse (src/src/veil/substitute.py), composed   *)
(* with pass 1 (Scanner).  Once every file has been scanned, substitute    *)
(* is called on each file in turn with the ledger they share, and          *)
(* reverse_substitute on each sanitized file.                              *)
(*                                                                         *)
(* The output is a sequence of pieces: tokens, and gaps of white space.    *)
(* No placeholder contains white space, a quote or a brace, so that the    *)
(* tokenizer cuts the output into exactly these tokens.                    *)
(***************************************************************************)
EXTENDS Scanner

VARIABLES
    out,                \* the sanitized files
    restored,           \* the deobfuscated files, as texts
    orphan_entries,     \* Diagnostics: places <<file, placeholder>>
    unredacted_description  \* Diagnostics: places <<file, position>>

results == <<out, restored, orphan_entries, unredacted_description>>
vars    == <<discovery_vars, results>>

Piece(kind, text) == [kind |-> kind, text |-> text]
GapPiece == Piece("GAP", <<Gap>>)
Joined(pieces) == FlattenSeq([k \in DOMAIN pieces |-> pieces[k].text])
TokensOf(pieces) == SelectSeq(pieces, LAMBDA piece : piece.kind # "GAP")

---------------------------------------------------------------------------
(***************************************************************************)
(* What stands for an entry, and the forms of it that the walker looks for *)
(* in a text.                                                              *)
(***************************************************************************)
PartitionText(partition) ==
    IF partition = Common THEN partition ELSE <<PlaceholderOf("PARTITION", partition)>>

\* _render_placeholder: /partition/placeholder for a path.
Rendered(ph) ==
    LET partition == book.entries[ph].partition
    IN  IF partition = None THEN TextOf(ph)
        ELSE <<Slash>> \o PartitionText(partition) \o <<Slash, ph>>

\* The partition placeholder that is written along with a path.
PartitionRefs(ph) ==
    LET partition == book.entries[ph].partition
    IN  IF partition \in {None, Common} THEN {}
        ELSE {PlaceholderOf("PARTITION", partition)}

Form(from, to, ph, loose) == [from |-> from, to |-> to, entry |-> ph, loose |-> loose]

\* :partition:leaf, as in the names of files in the file store.
ColonForm(ph, partition, leaf) ==
    Form(<<Colon>> \o partition \o <<Colon>> \o leaf,
         <<Colon>> \o PartitionText(partition) \o <<Colon, ph>>, ph, TRUE)

\* _FQDN_LEAF_RE.  A name that is an FQDN entry is left to that entry.
IsFqdnLeaf(leaf) ==
    /\ Len(leaf) >= 3 /\ leaf[1] \in Labels
    /\ leaf[Len(leaf) - 1] = Dot /\ leaf[Len(leaf)] \in Letters
    /\ \A k \in DOMAIN leaf : leaf[k] \in Labels \cup {Dot, Dash}
    /\ ~Known("FQDN", leaf)

ShortNumbers == Short \cap Numbers

\* The original itself, and for a path its colon form and, when it looks like
\* a domain name, its leaf alone.
FormsOf(ph) ==
    LET entry == book.entries[ph]
        text  == OriginalText(entry)
        leaf  == LeafOf(text)
    IN  IF \/ entry.kind \in {"DESC", "IRULE_COMMENT"} \/ text = <<>>
           \/ Len(text) = 1 /\ text[1] \in ShortNumbers
        THEN {}
        ELSE {Form(text, Rendered(ph), ph, entry.kind = "FQDN")}
                \cup (IF entry.partition = None THEN {}
                      ELSE {ColonForm(ph, entry.partition, leaf)})
                \cup (IF entry.partition # None /\ IsFqdnLeaf(leaf)
                      THEN {Form(leaf, <<ph>>, ph, TRUE)} ELSE {})

ForwardForms == [k \in DOMAIN order |-> FormsOf(order[k])]

\* A mutation of Inverted: the loose right boundary is forgotten.
Inverted_Strict(form) == Form(form.to, form.from, form.entry, FALSE)
Inverted(form) == Form(form.to, form.from, form.entry, form.loose)

ReverseForms ==
    [k \in DOMAIN order |-> {Inverted(form) : form \in FormsOf(order[k])}]

---------------------------------------------------------------------------
(***************************************************************************)
(* _emit_token: what is written for a token, and the entries it uses.      *)
(***************************************************************************)
ExactKinds(text) == {k \in DOMAIN KindOrder : Known(KindOrder[k], text)}
Exact(text) == PlaceholderOf(KindOrder[Min(ExactKinds(text))], text)

\* A mutation of Emitted: nothing is looked for inside a bare word.
Emitted_NoInfix(token) ==
    LET exact   == Exact(token.text)
        comment == PlaceholderOf("IRULE_COMMENT", token.text)
        walked  == Walk(token.text, ForwardForms)
    IN  CASE token.kind = "WORD" /\ ExactKinds(token.text) # {} ->
                [text |-> Rendered(exact), refs |-> {exact} \cup PartitionRefs(exact)]
          [] token.kind = "QSTRING" -> [text |-> walked.text, refs |-> walked.entries]
          [] token.kind = "COMMENT" /\ Known("IRULE_COMMENT", token.text) ->
                [text |-> <<Hash, comment>>, refs |-> {comment}]
          [] OTHER -> [text |-> token.text, refs |-> {}]
Emitted(token) ==
    LET exact   == Exact(token.text)
        comment == PlaceholderOf("IRULE_COMMENT", token.text)
        walked  == Walk(token.text, ForwardForms)
    IN  CASE token.kind = "WORD" /\ ExactKinds(token.text) # {} ->
                [text |-> Rendered(exact), refs |-> {exact} \cup PartitionRefs(exact)]
          [] token.kind = "WORD" /\ ExactKinds(token.text) = {} ->
                [text |-> walked.text, refs |-> walked.entries]
          [] token.kind = "QSTRING" -> [text |-> walked.text, refs |-> walked.entries]
          [] token.kind = "COMMENT" /\ Known("IRULE_COMMENT", token.text) ->
                [text |-> <<Hash, comment>>, refs |-> {comment}]
          [] OTHER -> [text |-> token.text, refs |-> {}]

\* The white space before the token at i is copied, then the pieces follow.
Write(pieces) ==
    out' = [out EXCEPT ![file] = @ \o (IF i > 1 THEN <<GapPiece>> ELSE <<>>) \o pieces]

Refer(refs) == referenced' = referenced \cup refs

InPass2 == pass = "substitute" /\ ~AtEnd
Pass2Keeps == UNCHANGED <<book, frozen, order, allocators, blocks, diagnostics,
                          restored, orphan_entries>>

---------------------------------------------------------------------------
(***************************************************************************)
(* substitute: the loop of pass 2.                                         *)
(***************************************************************************)
\* ltm rule <path> { at the top level is written as a whole.
EnterRuleBody ==
    /\ InPass2 /\ EntersRule
    /\ Write([k \in 1 .. 7 |->
                IF k % 2 = 0 THEN GapPiece
                ELSE LET token == tokens[i + (k \div 2)]
                     IN  Piece(token.kind, Emitted(token).text)])
    /\ Refer(UNION {Emitted(tokens[k]).refs : k \in i .. i + 3})
    /\ in_rule' = TRUE /\ depth' = depth + 1
    /\ Advance(4) /\ Pass2Keeps /\ UNCHANGED unredacted_description

\* A description field outside iRules: the field is written as it is.
AtDescription == ~EntersRule /\ ~in_rule /\ IsIn(i, DescFields)

RedactDescription ==
    /\ InPass2 /\ AtDescription
    /\ Pass2Keeps /\ UNCHANGED <<depth, in_rule, unredacted_description>>

WriteDescription(kind, text) == Write(<<tokens[i], GapPiece, Piece(kind, text)>>)

\* A value between quotes, or a bare word: the placeholder takes its place.
RedactValue ==
    /\ RedactDescription
    /\ Is(i + 1, "QSTRING") \/ Is(i + 1, "WORD")
    /\ LET value == tokens[i + 1]
           ph    == PlaceholderOf("DESC", value.text)
       IN  IF Known("DESC", value.text)
           THEN /\ WriteDescription(value.kind, IF value.kind = "QSTRING"
                                                THEN <<Quote, ph, Quote>> ELSE <<ph>>)
                /\ Refer({ph})
           ELSE WriteDescription(value.kind, value.text) /\ Refer({})
    /\ Advance(2)

\* A span in braces becomes a quoted placeholder.
BracedSpan == Spaced(SubSeq(tokens, i + 1, Min(Closing(tokens, i + 1))))
RedactBraced ==
    /\ RedactDescription
    /\ Is(i + 1, "LBRACE") /\ Closing(tokens, i + 1) # {}
    /\ Known("DESC", BracedSpan)
    /\ LET ph == PlaceholderOf("DESC", BracedSpan)
       IN  WriteDescription("QSTRING", <<Quote, ph, Quote>>) /\ Refer({ph})
    /\ Advance(Min(Closing(tokens, i + 1)) + 1 - i)

\* A span that is not closed, or that pass 1 did not find, is written as it
\* is and reported.
KeepBraced ==
    /\ InPass2 /\ AtDescription
    /\ Is(i + 1, "LBRACE")
    /\ LET closing == Closing(tokens, i + 1)
           last    == IF closing = {} THEN Len(tokens) ELSE Min(closing)
       IN  /\ closing # {} => ~Known("DESC", BracedSpan)
           /\ Write(<<tokens[i], GapPiece,
                      Piece("SPAN", Spaced(SubSeq(tokens, i + 1, last)))>>)
           /\ Advance(last + 1 - i)
    /\ unredacted_description' = unredacted_description \cup {<<file, i>>}
    /\ Refer({}) /\ Pass2Keeps /\ UNCHANGED <<depth, in_rule>>

\* Nothing that could be a value follows.  The white space after the field is
\* written here, and again before the next token.
KeepField ==
    /\ RedactDescription
    /\ ~(Is(i + 1, "QSTRING") \/ Is(i + 1, "WORD") \/ Is(i + 1, "LBRACE"))
    /\ Write(<<tokens[i]>> \o (IF i < Len(tokens) THEN <<GapPiece>> ELSE <<>>))
    /\ Refer({}) /\ Advance(1)

\* Every other token, with braces counted.
EmitToken ==
    /\ InPass2 /\ ~EntersRule /\ ~AtDescription
    /\ LET emitted == Emitted(tokens[i])
       IN  Write(<<Piece(tokens[i].kind, emitted.text)>>) /\ Refer(emitted.refs)
    /\ Count(i) /\ in_rule' = (in_rule /\ ~LeavesRule(i))
    /\ Advance(1) /\ Pass2Keeps /\ UNCHANGED unredacted_description

\* _check_orphan_entries: an entry without a reference, unless its original is
\* that of an entry with one, or a part of it.
IsPart(small, big) ==
    \E k \in 1 .. Len(big) - Len(small) + 1 : SubSeq(big, k, k + Len(small) - 1) = small
Orphans ==
    {ph \in DOMAIN book.entries \ referenced :
        \A other \in referenced :
            ~IsPart(OriginalText(book.entries[ph]), OriginalText(book.entries[other]))}

\* The end of a file: the check is made, and the next file is begun.
FinishFile ==
    /\ pass = "substitute" /\ AtEnd
    /\ orphan_entries' = orphan_entries \cup ({file} \X Orphans)
    /\ IF file < Len(files) THEN file' = file + 1 /\ pass' = pass
       ELSE file' = 1 /\ pass' = "restore"
    /\ Rewind
    /\ UNCHANGED <<files, ledger, diagnostics, out, restored, unredacted_description>>

---------------------------------------------------------------------------
(***************************************************************************)
(* reverse_substitute.  It looks tokens up in three maps, for words, for   *)
(* quoted strings and for comments, and walks through the others.  It also *)
(* counts braces, but what it writes does not depend on the count.         *)
(***************************************************************************)
Quoted(ph) == /\ book.entries[ph].kind = "DESC"
              /\ book.entries[ph].original[1] \in {Quote, Lit("{")}

ReverseWords ==
    {ph \in DOMAIN book.entries : ~Quoted(ph) /\ book.entries[ph].kind # "IRULE_COMMENT"}
\* A mutation of ReverseKey: the map of the comments is not consulted.
ReverseKey_NoComments(piece, ph) ==
    CASE piece.kind = "WORD"    -> ph \in ReverseWords /\ Rendered(ph) = piece.text
      [] piece.kind = "QSTRING" -> Quoted(ph) /\ <<Quote, ph, Quote>> = piece.text
      [] OTHER -> FALSE
ReverseKey(piece, ph) ==
    CASE piece.kind = "WORD"    -> ph \in ReverseWords /\ Rendered(ph) = piece.text
      [] piece.kind = "QSTRING" -> Quoted(ph) /\ <<Quote, ph, Quote>> = piece.text
      [] piece.kind = "COMMENT" ->
            book.entries[ph].kind = "IRULE_COMMENT" /\ <<Hash, ph>> = piece.text
      [] OTHER -> FALSE

\* A span that pass 2 kept is one piece here; reverse_substitute, which cuts the
\* output into tokens again, walks through its words and strings.
ReverseEmitted(piece) ==
    LET keys == {ph \in DOMAIN book.entries : ReverseKey(piece, ph)}
    IN  CASE keys # {} -> OriginalText(book.entries[CHOOSE ph \in keys : TRUE])
          [] keys = {} /\ piece.kind \in {"WORD", "QSTRING"} -> Walk(piece.text, ReverseForms).text
          [] OTHER -> piece.text

RestorePiece ==
    /\ pass = "restore" /\ i <= Len(out[file])
    /\ restored' = [restored EXCEPT ![file] = @ \o ReverseEmitted(out[file][i])]
    /\ Advance(1)
    /\ UNCHANGED <<depth, in_rule, blocks, ledger, diagnostics, out,
                   orphan_entries, unredacted_description>>

FinishRestore ==
    /\ pass = "restore" /\ i > Len(out[file])
    /\ IF file < Len(files) THEN file' = file + 1 /\ pass' = pass
       ELSE file' = file /\ pass' = "done"
    /\ Rewind
    /\ UNCHANGED <<files, ledger, diagnostics, results>>

---------------------------------------------------------------------------
Init ==
    /\ ScannerInit
    /\ out = [f \in DOMAIN files |-> <<>>]
    /\ restored = [f \in DOMAIN files |-> <<>>]
    /\ orphan_entries = {} /\ unredacted_description = {}

Next ==
    \/ ScannerNext /\ UNCHANGED results
    \/ EnterRuleBody
    \/ RedactValue \/ RedactBraced \/ KeepBraced \/ KeepField
    \/ EmitToken
    \/ FinishFile
    \/ RestorePiece \/ FinishRestore

\* The program runs until it is done: every step is the next one of a loop.
Spec == Init /\ [][Next]_vars /\ WF_vars(Next)

---------------------------------------------------------------------------
TypeOK ==
    /\ file \in DOMAIN files
    /\ pass \in Range(Passes) \cup {"prescan", "substitute", "restore", "done", "aborted"}
    /\ i \in 1 .. Max({Len(tokens), Len(out[file])}) + 1 /\ j \in Nat \ {0}
    /\ depth \in Int /\ in_rule \in BOOLEAN
    /\ \A k \in DOMAIN blocks :
          /\ pass \in BlockPasses /\ blocks[k].level \in DOMAIN BlockWalkers[pass].levels
          /\ blocks[k].depth \in Nat \ {0}
    /\ DOMAIN book.entries = Range(order) /\ IsInjective(order)
    /\ referenced \subseteq DOMAIN book.entries /\ frozen \in BOOLEAN
    /\ DOMAIN out = DOMAIN files /\ DOMAIN restored = DOMAIN files
    /\ orphan_entries \subseteq (DOMAIN files) \X (DOMAIN book.entries)
    /\ \A place \in unredacted_description \cup unknown_top_level \cup malformed_paths :
          place[1] \in DOMAIN files /\ place[2] \in DOMAIN files[place[1]]

Sanitized == pass \in {"restore", "done"}

\* Whatever pass 2 looks up is there: an original leads to the entry that was
\* made for it, by whichever walker of whichever file, and the partition of a
\* path, which is written along with it, has an entry of its own.  Otherwise
\* substitute.py:330 ends the program: "ledger invariant violated".
LookupsSucceed ==
    /\ LG!BookInverse
    /\ \A ph \in DOMAIN book.entries :
          LET partition == book.entries[ph].partition
          IN  partition \notin {None, Common} => Known("PARTITION", partition)

\* All the program does to the ledger is to use it as a code book: whatever the
\* walkers enter, no placeholder changes its meaning or gets a second one, and
\* nothing is entered after pass 1.
CB == INSTANCE Codebook WITH
          decode <- [ph \in DOMAIN book.entries |-> KeyOf(book.entries[ph])],
          sealed <- frozen
IsCodebook == CB!Spec

\* A token of a source file that reads like a placeholder, and that pass 2
\* leaves as it is: deobfuscation takes it for that placeholder.  Plain
\* vocabulary words are none, the pre-scan keeps them from becoming one.
IsImpostor(token) ==
    /\ token.kind \in {"WORD", "QSTRING"}
    /\ Emitted(token).text = token.text
    /\ \E k \in DOMAIN token.text :
          \/ token.text[k][1] \in {"stamp", "cycle"} \cup Range(KindOrder)
          \/ token.text[k][1] = "ipv4" /\ token.text[k][2][1] \in 1 .. NumDocs
          \/ token.text[k][1] = "ipv6" /\ token.text[k][2][1] \in 1 .. NumDocs6
          \/ token.text[k][1] = "word" /\ token.text[k][2][2] # 0
Impostors == {token \in UNION {Range(files[f]) : f \in DOMAIN files} : IsImpostor(token)}

\* A description field without a value: what follows is no word, string or brace.
NoValue(toks) ==
    {k \in DOMAIN toks :
        /\ toks[k].kind = "WORD" /\ toks[k].text \in DescFields
        /\ k < Len(toks) => toks[k + 1].kind \in {"RBRACE", "COMMENT"}}

\* Deobfuscation gives back the source, to the last blank, although pass 2
\* replaces whole tokens, parts of tokens and spans of tokens, and the inverse
\* sees only what pass 2 wrote.  Impostors are another matter, see ByteExact;
\* and after a field without a value the white space is doubled, see KeepField.
RoundTrip ==
    pass = "done" /\ Impostors = {} /\ (\A f \in DOMAIN files : NoValue(files[f]) = {}) =>
        \A f \in DOMAIN files : restored[f] = Spaced(files[f])

\* README.md:109 says that the round trip is exact to the byte for every shape
\* the parser covers.
ByteExact == pass = "done" => \A f \in DOMAIN files : restored[f] = Spaced(files[f])

\* For any file without impostors, a truncated one included, it gives back the
\* tokens.
Squeezed(text) ==
    LET keep == {k \in DOMAIN text : k = 1 \/ text[k] # Gap \/ text[k - 1] # Gap}
    IN  Picked(text, keep)
TokensRestored ==
    pass = "done" /\ Impostors = {} =>
        \A f \in DOMAIN files : Squeezed(restored[f]) = Spaced(files[f])

\* No original that was put into the ledger, in whatever file, can be read at
\* word boundaries in a sanitized file, neither as a word nor inside one or in a
\* quoted string; unless it is a part of what is written for another one.
NothingSurvives ==
    pass = "done" =>
        LET forms == {form \in UNION Range(ForwardForms) :
                         \A ph \in DOMAIN book.entries : ~Occurs(Rendered(ph), {form})}
        IN  \A f \in DOMAIN files : \A piece \in Range(out[f]) :
                piece.kind \in {"WORD", "QSTRING"} => ~Occurs(piece.text, forms)

\* The token at k lies in the body of an iRule at the top level of the file.
InRuleBody(toks, k) ==
    \E h \in 1 .. k - 4 :
        /\ RuleShape(toks, h)
        /\ Open(toks, 1, h - 1) = Closed(toks, 1, h - 1)
        /\ \A closing \in Closing(toks, h + 3) : k < closing

\* When pass 2 begins every comment in the body of an iRule is in the ledger.
\* Pass 1.8 tells bodies by a count of braces that it keeps from the first token
\* on, and loses when it misses one; the body is what its own braces enclose.
CommentsKnown ==
    pass = "substitute" \/ Sanitized =>
        \A f \in DOMAIN files : \A k \in DOMAIN files[f] :
            files[f][k].kind = "COMMENT" /\ InRuleBody(files[f], k) =>
                Known("IRULE_COMMENT", files[f][k].text)

\* The comments of iRules are gone from the sanitized files: pass 2 writes a
\* comment as it is when pass 1.8 has not entered it.
CommentsRedacted ==
    Sanitized =>
        \A f \in DOMAIN files : \A k \in DOMAIN files[f] :
            files[f][k].kind = "COMMENT" /\ InRuleBody(files[f], k) =>
                files[f][k].text \notin {piece.text : piece \in Range(out[f])}

\* In a sanitized file a description field outside iRules is followed by a
\* placeholder or an empty string, and by nothing that was in the source.
DescriptionsRedacted ==
    Sanitized =>
        \A f \in DOMAIN files : LET toks == TokensOf(out[f]) IN
            \A k \in DOMAIN toks :
                /\ toks[k].text \in DescFields /\ ~InRuleBody(toks, k)
                /\ k + 1 \in DOMAIN toks /\ toks[k + 1].kind \in {"WORD", "QSTRING"}
                /\ toks[k + 1].text # <<Quote, Quote>>
                => \E ph \in DOMAIN book.entries :
                      /\ book.entries[ph].kind = "DESC"
                      /\ toks[k + 1].text \in {<<ph>>, <<Quote, ph, Quote>>}

\* Pass 1.7 finds every description that pass 2 looks up: only a brace that is
\* never closed leaves one unredacted.
PassesAgree ==
    \A place \in unredacted_description :
        Closing(files[place[1]], place[2] + 1) = {}

\* Every loop comes to an end, and the program with it.
Finishes == <>(pass \in {"done", "aborted"})

\* diagnostics.py:42-46 says of an orphan that it received zero references
\* during pass 2.
OrphansUnreferenced ==
    Sanitized => \A orphan \in orphan_entries : orphan[2] \notin referenced

---------------------------------------------------------------------------
\* The names of session variables in the files up to f.
SessionWordsUpTo(f) ==
    UNION {UNION {{Segment(var) : var \in Range(SessionVars(token.text))} :
                     token \in {t \in Range(files[g]) : t.kind \in {"WORD", "QSTRING"}}} :
              g \in 1 .. f}

\* An identifier in an iRule that is built with the name of a session variable
\* of the same file, or of an earlier one, is not left as it is: what the last
\* walkers see depends on what was found before them, in the whole ledger.
IdentifiersRewritten ==
    Sanitized =>
        \A f \in DOMAIN files : \A k \in DOMAIN files[f] :
            LET word == files[f][k].text
            IN  /\ files[f][k].kind = "WORD" /\ ~StartsWithSlash(word)
                /\ InRuleBody(files[f], k)
                /\ \E n \in Places(word) : <<word[n]>> \in SessionWordsUpTo(f)
                => word \notin {piece.text : piece \in Range(out[f])}

\* docs/architecture.md:368-370 says that collapsed source nets surface via
\* ipv4_subnet_collapsed: each that lost its structure, wherever its addresses
\* were written, is reported by the time the files are written.
CollapsesReported == Sanitized => collapsed_sources \subseteq ipv4_subnet_collapsed

\* An address of the net is written in a string.
NetInString(net, toks) ==
    \E token \in Range(toks) :
        /\ token.kind = "QSTRING"
        /\ \E k \in DOMAIN token.text :
              IsAddress(token.text[k], "ipv4") /\ token.text[k][2][1] = net

\* What is missing from the report can only be nets with an address in a string of
\* the last file.  The report is made before the walkers of strings, and again for
\* the next file: what words collapse, and strings of earlier files, is in it.
CollapsesOfWordsReported ==
    Sanitized =>
        \A net \in collapsed_sources \ ipv4_subnet_collapsed :
            NetInString(net, files[Len(files)])
===========================================================================
