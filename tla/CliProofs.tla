----------------------------- MODULE CliProofs -----------------------------
(***************************************************************************)
(* The properties of Cli, for any argument lists, any files and any number *)
(* of commands.  Some hold only if the user's paths do not coincide; these *)
(* conditions are predicates on the running command (AnswerApart,          *)
(* OutputsApart) and are named in the theorems that need them.             *)
(***************************************************************************)
EXTENDS Cli, TLAPS, SequenceTheorems, WellFoundedInduction

\* obfuscate is not told to write an output over its own answer file.
AnswerApart ==
    job.cmd = "obfuscate" => \A k \in DOMAIN job.labels : OutputPath(k) # job.args.answer

\* No two outputs of the running command have one path.
OutputsApart ==
    \A j, k \in DOMAIN job.labels : OutputPath(j) = OutputPath(k) => j = k

\* The answer file of obfuscate is not named like a temporary file.
AnswerNotTmp == job.cmd = "obfuscate" /\ job.args.answer # None => ~IsTmp(job.args.answer)

\* The outputs are no answer files before they are written.
NoAnswerOverwritten ==
    pc = "output" => \A k \in DOMAIN job.labels :
        k >= job.next /\ Exists(OutputPath(k)) => ~IsAnswer(files[OutputPath(k)])

---------------------------------------------------------------------------
(* The inductive invariant, in parts. *)

BeforeAnswer == {"decide", "passphrase", "answer"}
OfAnswer     == {"tmp", "replace"}
OfOutputs    == {"mkdir", "output", "filling"}

\* The shape of a job, and which commands get where.
JobShape ==
    /\ job = [cmd |-> job.cmd, args |-> job.args, multi |-> job.multi, labels |-> job.labels,
              contents |-> job.contents, key |-> job.key, next |-> job.next]
    /\ Len(job.labels) \in Nat /\ DOMAIN job.labels = 1 .. Len(job.labels)
    /\ DOMAIN job.contents = DOMAIN job.labels /\ Len(job.contents) = Len(job.labels)
    /\ job.next \in Nat
JobRuns ==
    /\ job.cmd = "none" => pc = "idle" /\ job = NoJob /\ files = before
    /\ job.cmd # "none" => job.args \in Obfuscations \cup Deobfuscations
    /\ pc \in OfAnswer \cup {"decide"} => job.cmd = "obfuscate"
    /\ pc \in BeforeAnswer \cup OfAnswer \cup {"mkdir"} => job.next = 1
    /\ pc = "filling" => job.next \in DOMAIN job.labels
    /\ job.cmd = "obfuscate" /\ pc \notin {"idle", "decide"} =>
          job.args.answer # None /\ ~job.args.dry_run
    /\ job.cmd = "obfuscate" /\ pc # "idle" => job.key \in 1 .. begun

\* Without --force, what was there is not in the way.
PathsFree ==
    job.cmd # "none" /\ ~job.args.force =>
        /\ pc \in OfOutputs \/ (job.cmd = "obfuscate" /\ pc \notin {"idle", "decide"}) =>
              \A k \in DOMAIN job.labels : OutputPath(k) # Std => OutputPath(k) \notin DOMAIN before
        /\ job.cmd = "obfuscate" /\ pc \notin {"idle", "decide"} =>
              job.args.answer \notin DOMAIN before

\* The files that the running command has made so far.
Made ==
    IF pc \in OfAnswer THEN {TmpOf(job.args.answer)}
    ELSE IF pc \in OfOutputs THEN
        (IF job.cmd = "obfuscate" THEN {job.args.answer} ELSE {})
            \cup {OutputPath(k) : k \in {j \in DOMAIN job.labels :
                                             j < job.next \/ (j = job.next /\ pc = "filling")}}
    ELSE {}
OnlyMade ==
    /\ pc # "idle" => DOMAIN files \subseteq DOMAIN before \cup Made
    /\ pc \in BeforeAnswer \/ (pc = "mkdir" /\ job.cmd = "deobfuscate") => files = before

\* The answer file is whole before the first output; what is done is done.
AnswerWritten ==
    job.cmd = "obfuscate" /\ pc \in OfOutputs /\ AnswerApart =>
        Exists(job.args.answer) /\ files[job.args.answer] = AnswerContent
ContentOf(k) ==
    IF job.cmd = "obfuscate" THEN Sanitized(job.contents[k], job.key)
    ELSE Restored(job.contents[k], job.key)
OutputsWritten ==
    /\ pc \in OfOutputs /\ OutputsApart =>
          \A k \in DOMAIN job.labels :
              k < job.next /\ OutputPath(k) # Std =>
                  Exists(OutputPath(k)) /\ files[OutputPath(k)] = ContentOf(k)
    /\ pc = "filling" =>
          NextOutput # Std /\ Exists(NextOutput) /\ files[NextOutput] = Truncated(OutputContent)

\* What is on disk or was read is made of things that are, and of keys in a set.
\* G is a set of contents that holds the parts of its members.
Closed(G, keys, count) ==
    \A c \in G :
        /\ IsSanitized(c) => c[2] \in G /\ c[3] \in keys
        /\ c[1] = "truncated" => c[2] \in G
        /\ IsAnswer(c) => c[2] \in 1 .. count
        /\ IsArchive(c) => /\ c[2] \in Seq(Range(c[2]))
                           /\ \A k \in DOMAIN c[2] : c[2][k].content \in G
Known(fs, contents, keys, count) ==
    \E G :
        /\ Closed(G, keys, count)
        /\ \A path \in DOMAIN fs : fs[path] \in G
        /\ \A k \in DOMAIN contents : contents[k] \in G

IInv ==
    /\ TypeOK
    /\ JobShape /\ JobRuns
    /\ PathsFree /\ OnlyMade
    /\ AnswerWritten /\ OutputsWritten
    /\ Known(files, job.contents, 1 .. begun, begun)

\* What a command writes when it succeeds.
OutputsDone ==
    pc = "idle" /\ exit = 0 /\ job.cmd # "none" /\ ~(job.cmd = "obfuscate" /\ job.args.dry_run) =>
        \A k \in DOMAIN job.contents :
            OutputPath(k) # Std => Exists(OutputPath(k)) /\ files[OutputPath(k)] = ContentOf(k)

Safe ==
    /\ OldFilesKept /\ RefusalWritesNothing
    /\ OutputsApart => OutputsDone
    /\ AnswerApart /\ OutputsApart => SuccessIsDecodable
    /\ OutputsApart => SuccessRestores
---------------------------------------------------------------------------
(* The job of a new command. *)

LEMMA AppendToPair ==
    ASSUME NEW a, NEW b, NEW c, NEW s, s = Append(<<a, b>>, c)
    PROVE  Len(s) = 3 /\ DOMAIN s = 1 .. 3 /\ s[1] = a /\ s[2] = b /\ s[3] = c
  <1> DEFINE S == {a, b, c}
             t == <<a, b>>
  <1>1. t \in Seq(S) /\ Len(t) = 2 /\ t[1] = a /\ t[2] = b /\ c \in S
    OBVIOUS
  <1> HIDE DEF S, t
  <1>2. s = Append(t, c)
    BY DEF t
  <1>3. s \in Seq(S) /\ Len(s) = 3 /\ s[3] = c
    BY <1>1, <1>2, AppendProperties
  <1>4. s[1] = a /\ s[2] = b
    BY <1>1, <1>2, AppendProperties
  <1>5. DOMAIN s = 1 .. 3
    BY <1>3, LenProperties
  <1>6. QED
    BY <1>3, <1>4, <1>5

LEMMA LabelsOfArchive ==
    /\ Len(RequiredMembers) = 2 /\ DOMAIN RequiredMembers = 1 .. 2
    /\ Len(ConfigMembers) = 3 /\ DOMAIN ConfigMembers = 1 .. 3
    /\ RequiredMembers[1] = Member("bigip_base") /\ RequiredMembers[2] = Member("bigip")
    /\ ConfigMembers[1] = Member("bigip_base") /\ ConfigMembers[2] = Member("bigip")
    /\ ConfigMembers[3] = Member("bigip_user")
  <1>1. ConfigMembers = Append(<<Member("bigip_base"), Member("bigip")>>, Member("bigip_user"))
    BY DEF ConfigMembers, RequiredMembers
  <1>2. QED
    BY <1>1, AppendToPair DEF RequiredMembers

LEMMA NewLabels ==
    ASSUME NEW cmd, NEW args \in Obfuscations \cup Deobfuscations
    PROVE  LET labels == SourceLabels(cmd, args)
           IN  Len(labels) \in Nat /\ DOMAIN labels = 1 .. Len(labels)
  <1>1. Len(args.inputs) \in Nat /\ DOMAIN args.inputs = 1 .. Len(args.inputs)
    BY ArgumentsAssumption, LenProperties
  <1>2. QED
    BY <1>1, LabelsOfArchive DEF SourceLabels, ExtractedLabels

LEMMA NewJobShape ==
    ASSUME NEW cmd, NEW args \in Obfuscations \cup Deobfuscations, job' = NewJob(cmd, args)
    PROVE  JobShape'
  <1> DEFINE labels == SourceLabels(cmd, args)
             contents == [k \in DOMAIN labels |-> SourceContent(cmd, args, labels[k])]
  <1>1. /\ job'.labels = labels /\ job'.contents = contents /\ job'.next = 1
        /\ job' = [cmd |-> job'.cmd, args |-> job'.args, multi |-> job'.multi,
                   labels |-> job'.labels, contents |-> job'.contents,
                   key |-> job'.key, next |-> job'.next]
    BY DEF NewJob, Job
  <1>2. Len(labels) \in Nat /\ DOMAIN labels = 1 .. Len(labels)
    BY NewLabels
  <1> HIDE DEF labels
  <1>3. DOMAIN contents = DOMAIN labels /\ Len(contents) = Len(labels)
    BY <1>2
  <1>4. QED
    BY <1>1, <1>2, <1>3 DEF JobShape

\* What a running command never changes.
Steady ==
    /\ job'.cmd = job.cmd /\ job'.args = job.args /\ job'.multi = job.multi
    /\ job'.labels = job.labels /\ job'.contents = job.contents
    /\ before' = before /\ begun' = begun

LEMMA JobIsSteady ==
    ASSUME JobShape, Run \/ Kill
    PROVE  Steady /\ JobShape'
  <1>1. CASE UNCHANGED <<job, before, begun>>
    BY <1>1 DEF Steady, JobShape
  <1>2. ASSUME job' = [job EXCEPT !.next = @ + 1], UNCHANGED <<before, begun>>
        PROVE  Steady /\ JobShape'
    BY <1>2 DEF Steady, JobShape
  <1>3. ASSUME NEW key, job' = [job EXCEPT !.key = key], UNCHANGED <<before, begun>>
        PROVE  Steady /\ JobShape'
    BY <1>3 DEF Steady, JobShape
  <1>4. CASE ReadAnswer
    BY <1>1, <1>3, <1>4 DEF ReadAnswer
  <1>5. CASE FillOutput \/ PrintOutput
    BY <1>2, <1>5 DEF FillOutput, PrintOutput
  <1>6. CASE \/ \E diag, leak \in BOOLEAN : Decide(diag, leak)
             \/ GetPassphrase \/ OpenTmp \/ FillTmp \/ ReplaceAnswer \/ FailAnswer
             \/ MakeDir \/ OpenOutput \/ FailOutput \/ Finish \/ Kill
    BY <1>1, <1>6 DEF Decide, GetPassphrase, OpenTmp, FillTmp, ReplaceAnswer, FailAnswer,
                      MakeDir, OpenOutput, FailOutput, Finish, Kill
  <1>7. QED
    BY <1>4, <1>5, <1>6 DEF Run

LEMMA SteadyPaths ==
    ASSUME Steady
    PROVE  /\ \A k : (OutputPath(k))' = OutputPath(k)
           /\ AnswerApart' = AnswerApart /\ OutputsApart' = OutputsApart
  BY DEF Steady, OutputPath, AnswerApart, OutputsApart

LEMMA AnswerKeys ==
    ASSUME NEW count, NEW keys, Known(files, job.contents, keys, count),
           NEW path \in DOMAIN files, IsAnswer(files[path])
    PROVE  files[path][2] \in 1 .. count
  BY DEF Known, Closed

LEMMA PutKeys ==
    ASSUME TypeOK, Known(files, job.contents, 1 .. begun, begun),
           NEW path, NEW content, Put(path, content)
    PROVE  given_up' \subseteq 1 .. begun
  BY AnswerKeys DEF Put, TypeOK, Exists

---------------------------------------------------------------------------
(* Types, and the course of a command. *)

LEMMA BeginTyped ==
    ASSUME TypeOK, NEW cmd \in {"obfuscate", "deobfuscate"},
           NEW args \in Obfuscations \cup Deobfuscations, Begin(cmd, args)
    PROVE  TypeOK' /\ JobShape' /\ JobRuns'
  <1>1. /\ pc = "idle" /\ begun < MaxCommands /\ begun' = begun + 1 /\ before' = files
        /\ files' = files /\ given_up' = given_up
    BY DEF Begin
  <1>2. begun' \in 0 .. MaxCommands /\ given_up' \subseteq 1 .. begun'
    BY <1>1, BoundAssumption DEF TypeOK
  <1>3. CASE job' = EmptyJob(cmd, args) /\ pc' = "idle" /\ exit' \in {1, 2, 3}
    BY <1>1, <1>2, <1>3 DEF EmptyJob, Job, TypeOK, JobShape, JobRuns, BeforeAnswer, OfAnswer
  <1>4. CASE /\ job' = NewJob(cmd, args) /\ exit' = exit
             /\ pc' = IF cmd = "obfuscate" THEN "decide" ELSE "passphrase"
    <2>1. JobShape'
      BY <1>4, NewJobShape
    <2>2. /\ job'.cmd = cmd /\ job'.args = args /\ job'.next = 1
          /\ job'.key = IF cmd = "obfuscate" THEN begun + 1 ELSE 0
      BY <1>4 DEF NewJob, Job
    <2>3. job'.key \in 0 .. begun' /\ job'.next \in 1 .. Len(job'.contents) + 1
      BY <1>1, <2>1, <2>2 DEF TypeOK, JobShape
    <2>4. TypeOK'
      BY <1>2, <1>4, <2>2, <2>3 DEF TypeOK
    <2>5. JobRuns'
      BY <1>1, <1>4, <2>2 DEF TypeOK, JobRuns, BeforeAnswer, OfAnswer
    <2>6. QED
      BY <2>1, <2>4, <2>5
  <1>5. QED
    BY <1>3, <1>4 DEF Begin, Exit, Goto

LEMMA RunTyped ==
    ASSUME TypeOK, JobShape, JobRuns, Known(files, job.contents, 1 .. begun, begun), Run \/ Kill
    PROVE  TypeOK' /\ JobRuns'
  <1>1. Steady /\ JobShape'
    BY JobIsSteady
  <1>2. pc # "idle" /\ job.cmd \in {"obfuscate", "deobfuscate"}
        /\ job.args \in Obfuscations \cup Deobfuscations
    BY DEF JobRuns, TypeOK, Run, Decide, GetPassphrase, OpenTmp, FillTmp, ReplaceAnswer,
           FailAnswer, ReadAnswer, MakeDir, OpenOutput, FillOutput, PrintOutput, FailOutput,
           Finish, Kill
  <1>3. ASSUME UNCHANGED job, Exit(0) \/ Exit(1) \/ Exit(2) \/ Exit(3) \/ Exit(4) \/ Exit(5) \/ Exit(Killed),
               given_up' = given_up
        PROVE  TypeOK' /\ JobRuns'
    BY <1>1, <1>2, <1>3 DEF Exit, TypeOK, JobRuns, BeforeAnswer, OfAnswer, Steady
  <1>4. ASSUME UNCHANGED job, NEW label, Goto(label), given_up' \subseteq 1 .. begun,
               label \in BeforeAnswer \cup OfAnswer \cup OfOutputs,
               label \in OfAnswer \cup {"decide"} => job.cmd = "obfuscate",
               label \in BeforeAnswer \cup OfAnswer \cup {"mkdir"} => job.next = 1,
               label = "filling" => job.next \in DOMAIN job.labels,
               job.cmd = "obfuscate" /\ label # "decide" =>
                   job.args.answer # None /\ ~job.args.dry_run
        PROVE  TypeOK' /\ JobRuns'
    BY <1>1, <1>2, <1>4 DEF Goto, TypeOK, JobRuns, BeforeAnswer, OfAnswer, OfOutputs, Steady
  <1>5. CASE \E diag, leak \in BOOLEAN : Decide(diag, leak)
    BY <1>3, <1>4, <1>5 DEF Decide, JobRuns, TypeOK, BeforeAnswer, OfAnswer, OfOutputs
  <1>6. CASE GetPassphrase
    BY <1>3, <1>4, <1>6 DEF GetPassphrase, JobRuns, TypeOK, BeforeAnswer, OfAnswer, OfOutputs
  <1>7. CASE OpenTmp
    BY <1>4, <1>7, PutKeys DEF OpenTmp, JobRuns, BeforeAnswer, OfAnswer, OfOutputs
  <1>8. CASE FillTmp
    BY <1>4, <1>8, PutKeys DEF FillTmp, JobRuns, BeforeAnswer, OfAnswer, OfOutputs
  <1>9. CASE ReplaceAnswer
    <2>1. given_up' \subseteq 1 .. begun
      BY <1>9, AnswerKeys DEF ReplaceAnswer, TypeOK, Exists
    <2>2. QED
      BY <1>4, <1>9, <2>1 DEF ReplaceAnswer, JobRuns, BeforeAnswer, OfAnswer, OfOutputs
  <1>10. CASE FailAnswer \/ FailOutput \/ Finish \/ Kill
    BY <1>3, <1>10 DEF FailAnswer, FailOutput, Finish, Kill
  <1>11. CASE ReadAnswer
    <2>1. CASE UNCHANGED job /\ (Exit(2) \/ Exit(3) \/ Exit(4))
      BY <1>3, <1>11, <2>1 DEF ReadAnswer
    <2>2. CASE Exists(job.args.answer) /\ IsAnswer(files[job.args.answer])
               /\ job' = [job EXCEPT !.key = files[job.args.answer][2]] /\ Goto("mkdir")
      <3>1. files[job.args.answer][2] \in 1 .. begun
        BY <2>2, AnswerKeys DEF Exists
      <3>2. job'.key = files[job.args.answer][2] /\ job'.next = job.next /\ job.next = 1
        BY <1>11, <2>2 DEF JobShape, JobRuns, BeforeAnswer, ReadAnswer
      <3>3. QED
        BY <1>1, <1>2, <1>11, <2>2, <3>1, <3>2
           DEF ReadAnswer, Goto, TypeOK, JobRuns, BeforeAnswer, OfAnswer, Steady
    <2>3. QED
      BY <1>11, <2>1, <2>2 DEF ReadAnswer
  <1>12. CASE MakeDir
    BY <1>3, <1>4, <1>12 DEF MakeDir, JobRuns, TypeOK, BeforeAnswer, OfAnswer, OfOutputs
  <1>13. CASE OpenOutput
    BY <1>4, <1>13, PutKeys
       DEF OpenOutput, JobShape, JobRuns, TypeOK, BeforeAnswer, OfAnswer, OfOutputs
  <1>14. ASSUME job' = [job EXCEPT !.next = @ + 1], job.next \in DOMAIN job.labels,
                pc' = "output", exit' = exit, given_up' \subseteq 1 .. begun,
                pc \in OfOutputs
         PROVE  TypeOK' /\ JobRuns'
    <2>1. /\ job'.next = job.next + 1 /\ job'.key = job.key
          /\ job'.next \in 1 .. Len(job'.contents) + 1
      BY <1>1, <1>14 DEF JobShape, Steady
    <2>2. QED
      BY <1>1, <1>2, <1>14, <2>1
         DEF TypeOK, JobRuns, BeforeAnswer, OfAnswer, OfOutputs, Steady
  <1>15. CASE FillOutput
    BY <1>14, <1>15, PutKeys DEF FillOutput, Goto, JobRuns, OfOutputs
  <1>16. CASE PrintOutput
    BY <1>14, <1>16 DEF PrintOutput, JobShape, TypeOK, OfOutputs
  <1>17. QED
    BY <1>5, <1>6, <1>7, <1>8, <1>9, <1>10, <1>11, <1>12, <1>13, <1>15, <1>16 DEF Run
---------------------------------------------------------------------------
(* Names, and dictionaries. *)

LEMMA TmpIsTmp ==
    ASSUME NEW path \in Path
    PROVE  IsTmp(TmpOf(path)) /\ TmpOf(path) \in Path
  <1> DEFINE tags == Append(path.tags, "tmp")
  <1>1. path.tags \in Seq(Names) /\ "tmp" \in Names
    BY DEF Path, Names
  <1>2. tags \in Seq(Names) /\ Len(tags) = Len(path.tags) + 1 /\ tags[Len(path.tags) + 1] = "tmp"
    BY <1>1, AppendProperties
  <1>3. Len(path.tags) \in Nat
    BY <1>1, LenProperties
  <1>4. tags # <<>> /\ Last(tags) = "tmp"
    BY <1>2, <1>3, EmptySeq DEF Last
  <1>5. TmpOf(path).tags = tags
    BY DEF TmpOf, Tagged, Path
  <1>6. TmpOf(path) \in Path
    BY <1>2 DEF TmpOf, Tagged, Path
  <1>7. QED
    BY <1>4, <1>5, <1>6 DEF IsTmp

LEMMA BindIs ==
    ASSUME NEW f, NEW key, NEW value
    PROVE  /\ DOMAIN Bind(f, key, value) = DOMAIN f \cup {key}
           /\ Bind(f, key, value)[key] = value
           /\ \A x \in DOMAIN f : x # key => Bind(f, key, value)[x] = f[x]
  BY DEF Bind

LEMMA WithoutIs ==
    ASSUME NEW f, NEW key
    PROVE  /\ DOMAIN Without(f, key) = DOMAIN f \ {key}
           /\ \A x \in DOMAIN f : x # key => Without(f, key)[x] = f[x]
  BY DEF Without

\* The answer file that obfuscate writes has a path.
LEMMA AnswerIsPath ==
    ASSUME TypeOK, JobRuns, job.cmd = "obfuscate", pc \notin {"idle", "decide"}
    PROVE  job.args.answer \in Path /\ IsTmp(TmpOf(job.args.answer))
  BY ArgumentsAssumption, TmpIsTmp DEF TypeOK, JobRuns

---------------------------------------------------------------------------
(* Files: what is in the way, and what a command has made. *)

LEMMA BeginFiles ==
    ASSUME NEW cmd \in {"obfuscate", "deobfuscate"},
           NEW args \in Obfuscations \cup Deobfuscations, Begin(cmd, args)
    PROVE  PathsFree' /\ OnlyMade' /\ AnswerWritten' /\ OutputsWritten'
  <1>1. /\ before' = files' /\ pc' \in {"idle", "decide", "passphrase"}
        /\ job'.cmd = cmd /\ (cmd = "obfuscate" => pc' # "passphrase")
    BY DEF Begin, Exit, Goto, EmptyJob, NewJob, Job
  <1>2. PathsFree'
    BY <1>1 DEF PathsFree, OfOutputs
  <1>3. OnlyMade'
    BY <1>1 DEF OnlyMade
  <1>4. QED
    BY <1>1, <1>2, <1>3 DEF AnswerWritten, OutputsWritten, OfOutputs

LEMMA RunPaths ==
    ASSUME TypeOK, JobShape, JobRuns, PathsFree, OnlyMade, Run \/ Kill
    PROVE  PathsFree'
  <1>1. Steady
    BY JobIsSteady
  <1> DEFINE outputs == \A k \in DOMAIN job.labels :
                            OutputPath(k) # Std => OutputPath(k) \notin DOMAIN before
             answer  == job.args.answer \notin DOMAIN before
  <1>2. job'.cmd = job.cmd /\ job'.args = job.args /\ outputs' = outputs /\ answer' = answer
    BY <1>1, SteadyPaths DEF Steady
  <1>3. job.cmd # "none" /\ ~job.args.force =>
            /\ pc \in OfOutputs \/ (job.cmd = "obfuscate" /\ pc \notin {"idle", "decide"}) => outputs
            /\ job.cmd = "obfuscate" /\ pc \notin {"idle", "decide"} => answer
    BY DEF PathsFree
  <1>4. ~OutputExists /\ files = before => outputs
    BY DEF OutputExists, Exists
  <1>5. ~Exists(job.args.answer) /\ files = before => answer
    BY DEF Exists
  <1>6. pc \in BeforeAnswer => files = before
    BY DEF OnlyMade
  <1> HIDE DEF outputs, answer
  <1>7. job.cmd # "none" /\ ~job.args.force =>
            /\ pc' \in OfOutputs \/ (job.cmd = "obfuscate" /\ pc' \notin {"idle", "decide"}) => outputs
            /\ job.cmd = "obfuscate" /\ pc' \notin {"idle", "decide"} => answer
    <2> USE DEF OfOutputs
    <2>1. CASE \E diag, leak \in BOOLEAN : Decide(diag, leak)
      BY <1>4, <1>5, <1>6, <2>1 DEF Decide, BeforeAnswer, Exit, Goto
    <2>2. CASE ReadAnswer
      BY <1>4, <1>6, <2>2 DEF ReadAnswer, BeforeAnswer, Exit, Goto
    <2>3. CASE GetPassphrase \/ OpenTmp \/ FillTmp \/ ReplaceAnswer \/ FailAnswer \/ Kill
      BY <1>3, <2>3 DEF GetPassphrase, OpenTmp, FillTmp, ReplaceAnswer, FailAnswer, Kill,
                        JobRuns, OfAnswer, Exit, Goto
    <2>4. CASE MakeDir \/ OpenOutput \/ FillOutput \/ PrintOutput \/ FailOutput \/ Finish
      BY <1>3, <2>4 DEF MakeDir, OpenOutput, FillOutput, PrintOutput, FailOutput, Finish, Exit, Goto
    <2>5. QED
      BY <2>1, <2>2, <2>3, <2>4 DEF Run
  <1>8. QED
    BY <1>2, <1>7 DEF PathsFree, outputs, answer

LEMMA RunMade ==
    ASSUME TypeOK, JobShape, JobRuns, OnlyMade, Run \/ Kill
    PROVE  OnlyMade'
  <1>1. Steady
    BY JobIsSteady
  <1> DEFINE done(next, filling) ==
                 {OutputPath(k) : k \in {j \in DOMAIN job.labels :
                                             j < next \/ (j = next /\ filling)}}
             own  == IF job.cmd = "obfuscate" THEN {job.args.answer} ELSE {}
             tmp  == TmpOf(job.args.answer)
             made == IF pc' \in OfAnswer THEN {tmp}
                     ELSE IF pc' \in OfOutputs THEN own \cup done(job'.next, pc' = "filling")
                     ELSE {}
  <1>2. Made' = made
    BY <1>1, SteadyPaths DEF Made, Steady
  <1>3. Made = IF pc \in OfAnswer THEN {tmp}
               ELSE IF pc \in OfOutputs THEN own \cup done(job.next, pc = "filling")
               ELSE {}
    BY DEF Made
  <1>4. /\ DOMAIN files \subseteq DOMAIN before \cup Made
        /\ pc \in BeforeAnswer \/ (pc = "mkdir" /\ job.cmd = "deobfuscate") => files = before
        /\ pc # "idle"
    BY DEF OnlyMade, Run, Decide, GetPassphrase, OpenTmp, FillTmp, ReplaceAnswer, FailAnswer,
           ReadAnswer, MakeDir, OpenOutput, FillOutput, PrintOutput, FailOutput, Finish, Kill
  <1>5. before' = before /\ job'.cmd = job.cmd
    BY <1>1 DEF Steady
  <1>6. SUFFICES ASSUME pc' # "idle"
                 PROVE  /\ DOMAIN files' \subseteq DOMAIN before \cup made
                        /\ pc' \in BeforeAnswer \/ (pc' = "mkdir" /\ job.cmd = "deobfuscate") =>
                               files' = before
    BY <1>2, <1>5 DEF OnlyMade, BeforeAnswer
  <1>7. CASE /\ \/ \E diag, leak \in BOOLEAN : Decide(diag, leak)
                \/ GetPassphrase \/ ReadAnswer
    BY <1>4, <1>6, <1>7 DEF Decide, GetPassphrase, ReadAnswer, Exit, Goto, BeforeAnswer
  <1>8. CASE OpenTmp
    <2>1. DOMAIN files' = DOMAIN files \cup {tmp}
      BY <1>8, BindIs DEF OpenTmp, Put
    <2>2. QED
      BY <1>3, <1>4, <1>8, <2>1 DEF OpenTmp, Goto, BeforeAnswer, OfAnswer
  <1>9. CASE FillTmp
    <2>1. DOMAIN files' = DOMAIN files \cup {tmp}
      BY <1>9, BindIs DEF FillTmp, Put
    <2>2. QED
      BY <1>3, <1>4, <1>9, <2>1 DEF FillTmp, Goto, BeforeAnswer, OfAnswer
  <1>10. CASE ReplaceAnswer
    <2>1. job.cmd = "obfuscate"
      BY <1>10 DEF ReplaceAnswer, JobRuns, OfAnswer
    <2>2. DOMAIN files' = (DOMAIN files \cup {job.args.answer}) \ {tmp}
      <3> DEFINE written == Bind(files, job.args.answer, AnswerContent)
      <3>1. files' = Without(written, tmp)
        BY <1>10 DEF ReplaceAnswer
      <3>2. DOMAIN written = DOMAIN files \cup {job.args.answer}
        BY Zenon DEF Bind
      <3> HIDE DEF written
      <3>3. QED
        BY <3>1, <3>2, WithoutIs
    <2>3. QED
      BY <1>3, <1>4, <1>10, <2>1, <2>2
         DEF ReplaceAnswer, Goto, BeforeAnswer, OfAnswer, OfOutputs
  <1>11. CASE MakeDir
    BY <1>3, <1>4, <1>6, <1>11 DEF MakeDir, Goto, Exit, BeforeAnswer, OfAnswer, OfOutputs
  <1>12. CASE OpenOutput
    <2>1. job.next \in DOMAIN job.labels
      BY <1>12 DEF OpenOutput, JobShape, TypeOK
    <2>2. DOMAIN files' = DOMAIN files \cup {OutputPath(job.next)}
      BY <1>12, BindIs DEF OpenOutput, Put, NextOutput
    <2>3. QED
      BY <1>3, <1>4, <1>12, <2>1, <2>2 DEF OpenOutput, Goto, BeforeAnswer, OfAnswer, OfOutputs
  <1>13. ASSUME pc \in {"filling", "output"}, pc' = "output", job'.next = job.next + 1,
                job.next \in DOMAIN job.labels
         PROVE  Made \cup {OutputPath(job.next)} \subseteq made
    BY <1>3, <1>13 DEF OfAnswer, OfOutputs, JobShape
  <1>14. CASE FillOutput
    <2>1. DOMAIN files' = DOMAIN files \cup {OutputPath(job.next)}
      BY <1>14, BindIs DEF FillOutput, Put, NextOutput
    <2>2. job.next \in DOMAIN job.labels /\ job'.next = job.next + 1
      BY <1>14 DEF FillOutput, JobRuns, JobShape
    <2>3. QED
      BY <1>4, <1>13, <1>14, <2>1, <2>2 DEF FillOutput, Goto, BeforeAnswer
  <1>15. CASE PrintOutput
    <2>1. job.next \in DOMAIN job.labels /\ job'.next = job.next + 1
      BY <1>15 DEF PrintOutput, JobShape, TypeOK
    <2>2. QED
      BY <1>4, <1>13, <1>15, <2>1 DEF PrintOutput, BeforeAnswer
  <1>16. CASE FailAnswer \/ FailOutput \/ Finish \/ Kill
    BY <1>6, <1>16 DEF FailAnswer, FailOutput, Finish, Kill, Exit
  <1>17. QED
    BY <1>7, <1>8, <1>9, <1>10, <1>11, <1>12, <1>14, <1>15, <1>16 DEF Run

---------------------------------------------------------------------------
(* Files: what is written stays written. *)

LEMMA SteadyContents ==
    ASSUME JobShape, JobRuns, Run \/ Kill, job.cmd = "obfuscate" \/ pc # "answer"
    PROVE  /\ job'.key = job.key
           /\ AnswerContent' = AnswerContent
           /\ \A k : (ContentOf(k))' = ContentOf(k)
  <1>1. Steady
    BY JobIsSteady
  <1>2. CASE UNCHANGED job
    BY <1>2 DEF AnswerContent, Basenames, ContentOf
  <1>3. ASSUME job' = [job EXCEPT !.next = @ + 1]
        PROVE  job'.key = job.key
    BY <1>3 DEF JobShape
  <1>4. job'.key = job.key
    BY <1>2, <1>3 DEF Run, Decide, GetPassphrase, OpenTmp, FillTmp, ReplaceAnswer, FailAnswer,
           ReadAnswer, MakeDir, OpenOutput, FillOutput, PrintOutput, FailOutput, Finish, Kill
  <1>5. Basenames' = Basenames
    BY <1>1 DEF Steady, Basenames
  <1>6. QED
    BY <1>1, <1>4, <1>5 DEF Steady, AnswerContent, ContentOf

\* The outputs, one after the other.
LEMMA NextOutputIs ==
    ASSUME TypeOK, JobShape, JobRuns
    PROVE  /\ pc = "output" /\ job.next <= Len(job.contents) => job.next \in DOMAIN job.labels
           /\ pc = "filling" => job.next \in DOMAIN job.labels
           /\ OutputContent = ContentOf(job.next) /\ NextOutput = OutputPath(job.next)
           /\ FillOutput \/ PrintOutput => job'.next = job.next + 1
  BY DEF TypeOK, JobShape, JobRuns, OutputContent, ContentOf, NextOutput, FillOutput, PrintOutput

LEMMA RunAnswer ==
    ASSUME TypeOK, JobShape, JobRuns, AnswerWritten, Run \/ Kill
    PROVE  AnswerWritten'
  <1>1. Steady /\ job'.cmd = job.cmd /\ job'.args = job.args
    BY JobIsSteady DEF Steady
  <1>2. SUFFICES ASSUME job.cmd = "obfuscate", pc' \in OfOutputs, AnswerApart
                 PROVE  job.args.answer \in DOMAIN files' /\ files'[job.args.answer] = AnswerContent
    <2>1. job.cmd = "obfuscate" => AnswerContent' = AnswerContent
      BY SteadyContents
    <2>2. AnswerApart' = AnswerApart
      BY <1>1, SteadyPaths
    <2>3. QED
      BY <1>1, <1>2, <2>1, <2>2 DEF AnswerWritten, Exists
  <1>3. pc \in OfOutputs => /\ job.args.answer \in DOMAIN files
                            /\ files[job.args.answer] = AnswerContent
    BY <1>2 DEF AnswerWritten, Exists
  <1>4. CASE ReplaceAnswer
    <2> DEFINE answer == job.args.answer
               written == Bind(files, answer, AnswerContent)
    <2>1. IsTmp(TmpOf(answer)) /\ answer # TmpOf(answer)
      <3>1. answer \in Path /\ IsTmp(TmpOf(answer))
        BY <1>2, <1>4, AnswerIsPath DEF ReplaceAnswer
      <3>2. Len(Append(answer.tags, "tmp")) = Len(answer.tags) + 1 /\ Len(answer.tags) \in Nat
        BY <3>1, AppendProperties, LenProperties DEF Path, Names
      <3>3. TmpOf(answer).tags = Append(answer.tags, "tmp")
        BY <3>1 DEF TmpOf, Tagged, Path
      <3>4. QED
        BY <3>1, <3>2, <3>3
    <2>2. files' = Without(written, TmpOf(answer))
      BY <1>4 DEF ReplaceAnswer
    <2>3. answer \in DOMAIN written /\ written[answer] = AnswerContent
      BY Zenon DEF Bind
    <2> HIDE DEF written
    <2>4. QED
      BY <2>1, <2>2, <2>3, WithoutIs
  <1>5. CASE MakeDir \/ PrintOutput
    BY <1>3, <1>5 DEF MakeDir, PrintOutput, OfOutputs
  <1>6. ASSUME NEW path, NEW content, files' = Bind(files, path, content),
               path # job.args.answer, pc \in OfOutputs
        PROVE  job.args.answer \in DOMAIN files' /\ files'[job.args.answer] = AnswerContent
    BY <1>3, <1>6 DEF Bind
  <1>7. CASE OpenOutput \/ FillOutput
    <2>1. NextOutput # job.args.answer /\ pc \in OfOutputs
      BY <1>2, <1>7, NextOutputIs DEF AnswerApart, OpenOutput, FillOutput, OfOutputs
    <2>2. QED
      BY <1>6, <1>7, <2>1 DEF OpenOutput, FillOutput, Put
  <1>8. QED
    BY <1>2, <1>4, <1>5, <1>7
       DEF Run, Decide, GetPassphrase, OpenTmp, FillTmp, FailAnswer, ReadAnswer, FailOutput,
           Finish, Kill, Exit, Goto, OfOutputs

LEMMA RunOutputs ==
    ASSUME TypeOK, JobShape, JobRuns, JobRuns', OutputsWritten, Run \/ Kill
    PROVE  OutputsWritten'
  <1>1. Steady /\ JobShape'
    BY JobIsSteady
  <1> DEFINE Written(k, fs) == OutputPath(k) \in DOMAIN fs /\ fs[OutputPath(k)] = ContentOf(k)
  <1>2. /\ pc \in OfOutputs => \A k : (ContentOf(k))' = ContentOf(k)
        /\ job'.labels = job.labels /\ OutputsApart' = OutputsApart
        /\ \A k : (OutputPath(k))' = OutputPath(k)
    BY <1>1, SteadyContents, SteadyPaths DEF Steady, OfOutputs
  <1>3. CASE pc' \notin OfOutputs
    BY <1>3 DEF OutputsWritten, OfOutputs
  <1>4. CASE pc' = "mkdir"
    <2>1. job'.next = 1
      BY <1>4 DEF JobRuns
    <2>2. QED
      BY <1>1, <1>4, <2>1 DEF OutputsWritten, JobShape
  <1>5. ASSUME pc \in OfOutputs, pc' = "output",
               OutputsApart => \A k \in DOMAIN job.labels :
                   k < job'.next /\ OutputPath(k) # Std => Written(k, files')
        PROVE  OutputsWritten'
    BY <1>2, <1>5 DEF OutputsWritten, Exists
  <1>6. pc \in OfOutputs /\ OutputsApart => \A k \in DOMAIN job.labels :
            k < job.next /\ OutputPath(k) # Std => Written(k, files)
    BY DEF OutputsWritten, Exists
  <1>7. CASE MakeDir /\ pc' = "output"
    BY <1>5, <1>6, <1>7 DEF MakeDir, OfOutputs
  <1>8. ASSUME OpenOutput \/ FillOutput
        PROVE  /\ pc \in OfOutputs /\ job.next \in DOMAIN job.labels
               /\ NextOutput \in DOMAIN files'
               /\ OutputsApart => \A k \in DOMAIN job.labels :
                      k < job.next /\ OutputPath(k) # Std => Written(k, files')
    <2>1. pc \in OfOutputs /\ job.next \in DOMAIN job.labels /\ NextOutput = OutputPath(job.next)
      BY <1>8, NextOutputIs DEF OpenOutput, FillOutput, OfOutputs
    <2>2. /\ NextOutput \in DOMAIN files'
          /\ \A p \in DOMAIN files : p # NextOutput => p \in DOMAIN files' /\ files'[p] = files[p]
      BY <1>8 DEF OpenOutput, FillOutput, Put, Bind
    <2>3. QED
      BY <1>6, <2>1, <2>2 DEF OutputsApart, JobShape
  <1>9. CASE OpenOutput
    <2>1. job' = job /\ NextOutput # Std /\ files'[NextOutput] = Truncated(OutputContent)
          /\ pc' = "filling" /\ NextOutput' = NextOutput /\ OutputContent' = OutputContent
      <3>1. job' = job /\ NextOutput # Std /\ pc' = "filling"
            /\ files' = Bind(files, NextOutput, Truncated(OutputContent))
        BY <1>9 DEF OpenOutput, Put, Goto
      <3>2. NextOutput' = NextOutput /\ OutputContent' = OutputContent
        BY <3>1 DEF NextOutput, OutputPath, OutputContent
      <3>3. QED
        BY <3>1, <3>2 DEF Bind
    <2>2. QED
      BY <1>2, <1>8, <1>9, <2>1 DEF OutputsWritten, Exists
  <1>10. CASE FillOutput
    <2>1. /\ job'.next = job.next + 1 /\ files'[NextOutput] = ContentOf(job.next)
          /\ NextOutput = OutputPath(job.next) /\ pc' = "output"
      <3>1. pc' = "output" /\ files' = Bind(files, NextOutput, OutputContent)
        BY <1>10 DEF FillOutput, Put, Goto
      <3>2. files'[NextOutput] = OutputContent
        BY <3>1 DEF Bind
      <3>3. QED
        BY <1>10, <3>1, <3>2, NextOutputIs
    <2>2. QED
      BY <1>5, <1>8, <1>10, <2>1 DEF JobShape
  <1>11. CASE PrintOutput
    BY <1>5, <1>6, <1>11, NextOutputIs DEF PrintOutput, JobShape, OfOutputs
  <1>12. QED
    BY <1>3, <1>4, <1>7, <1>9, <1>10, <1>11
       DEF Run, Decide, GetPassphrase, OpenTmp, FillTmp, ReplaceAnswer, FailAnswer, ReadAnswer,
           MakeDir, FailOutput, Finish, Kill, Exit, Goto, OfOutputs

---------------------------------------------------------------------------
(* What a command may never do, and what its success means. *)

LEMMA RunKeepsOldFiles ==
    ASSUME TypeOK, JobShape, JobRuns, PathsFree, OutputsWritten, OldFilesKept, Run \/ Kill
    PROVE  OldFilesKept'
  <1>1. Steady
    BY JobIsSteady
  <1>2. SUFFICES ASSUME job.cmd # "none", ~job.args.force,
                        NEW p \in DOMAIN before, ~IsTmp(p)
                 PROVE  p \in DOMAIN files' /\ files'[p] = before[p]
    BY <1>1 DEF OldFilesKept, Steady, IsTmp, Exists
  <1>3. p \in DOMAIN files /\ files[p] = before[p]
    BY <1>2 DEF OldFilesKept, Exists
  <1>4. ASSUME NEW path, NEW content, Put(path, content), path # p
        PROVE  p \in DOMAIN files' /\ files'[p] = before[p]
    BY <1>3, <1>4 DEF Put, Bind
  <1>5. pc \in OfAnswer \/ (pc = "answer" /\ job.cmd = "obfuscate") =>
            p # TmpOf(job.args.answer) /\ p # job.args.answer
    BY <1>2, AnswerIsPath DEF PathsFree, JobRuns, OfAnswer
  <1>6. CASE OpenTmp \/ FillTmp
    BY <1>4, <1>5, <1>6 DEF OpenTmp, FillTmp, OfAnswer
  <1>7. CASE ReplaceAnswer
    BY <1>3, <1>5, <1>7 DEF ReplaceAnswer, OfAnswer, Bind, Without
  <1>8. CASE FailAnswer
    BY <1>3, <1>5, <1>8 DEF FailAnswer, OfAnswer, Without
  <1>9. CASE OpenOutput \/ FillOutput
    <2>1. NextOutput # Std
      BY <1>9 DEF OpenOutput, FillOutput, OutputsWritten
    <2>2. NextOutput # p
      BY <1>2, <1>9, <2>1, NextOutputIs DEF PathsFree, OpenOutput, FillOutput, OfOutputs
    <2>3. QED
      BY <1>4, <1>9, <2>2 DEF OpenOutput, FillOutput
  <1>10. CASE UNCHANGED files
    BY <1>3, <1>10
  <1>11. QED
    BY <1>6, <1>7, <1>8, <1>9, <1>10
       DEF Run, Decide, GetPassphrase, ReadAnswer, MakeDir, PrintOutput, FailOutput, Finish, Kill

LEMMA RunSafe ==
    ASSUME TypeOK, JobShape, JobRuns, PathsFree, OnlyMade, AnswerWritten, OutputsWritten, Safe,
           Run \/ Kill
    PROVE  Safe'
  <1>1. Steady /\ pc # "idle"
    BY JobIsSteady DEF Run, Decide, GetPassphrase, OpenTmp, FillTmp, ReplaceAnswer, FailAnswer,
           ReadAnswer, MakeDir, OpenOutput, FillOutput, PrintOutput, FailOutput, Finish, Kill
  <1>2. OldFilesKept'
    BY RunKeepsOldFiles DEF Safe
  <1>3. ASSUME pc' = "idle"
        PROVE  \/ exit' \in {3, Killed} \* A failure in the middle, or a kill.
               \/ files' = before /\ exit' \in {1, 2, 4, 5}
               \/ files' = before /\ exit' = 0 /\ job.cmd = "obfuscate" /\ job.args.dry_run
               \/ Finish /\ exit' = 0
    <2>1. pc \in BeforeAnswer => files = before
      BY DEF OnlyMade
    <2>2. CASE (\E diag, leak \in BOOLEAN : Decide(diag, leak)) \/ GetPassphrase \/ ReadAnswer
      BY <1>3, <2>1, <2>2
         DEF Decide, GetPassphrase, ReadAnswer, Exit, Goto, BeforeAnswer, JobRuns, OfAnswer
    <2>3. CASE \/ OpenTmp \/ FillTmp \/ ReplaceAnswer \/ MakeDir \/ OpenOutput \/ FillOutput
               \/ PrintOutput
      BY <1>3, <2>3 DEF OpenTmp, FillTmp, ReplaceAnswer, MakeDir, OpenOutput, FillOutput,
                        PrintOutput, Exit, Goto
    <2>4. CASE FailAnswer \/ FailOutput \/ Finish \/ Kill
      BY <2>4 DEF FailAnswer, FailOutput, Finish, Kill, Exit
    <2>5. QED
      BY <2>2, <2>3, <2>4 DEF Run
  <1>4. RefusalWritesNothing'
    BY <1>1, <1>3 DEF RefusalWritesNothing, Steady, Finish, JobRuns, Killed
  <1>5. CASE ~Finish
    BY <1>1, <1>2, <1>3, <1>4, <1>5
       DEF Safe, OutputsDone, SuccessIsDecodable, SuccessRestores, Steady, Killed
  <1>6. CASE Finish
    <2>1. /\ job' = job /\ files' = files /\ pc = "output"
          /\ \A k \in DOMAIN job.labels : k < job.next
          /\ DOMAIN job.contents = DOMAIN job.labels
      BY <1>6 DEF Finish, JobShape
    <2>2. AnswerApart' = AnswerApart /\ OutputsApart' = OutputsApart
      BY <1>1, SteadyPaths
    <2>3. ASSUME OutputsApart
          PROVE  \A k \in DOMAIN job.contents : OutputPath(k) # Std =>
                     OutputPath(k) \in DOMAIN files /\ files[OutputPath(k)] = ContentOf(k)
      BY <2>1, <2>3 DEF OutputsWritten, OfOutputs, Exists
    <2>4. ASSUME AnswerApart, OutputsApart
          PROVE  SuccessIsDecodable'
      BY <2>1, <2>3, <2>4
         DEF SuccessIsDecodable, AnswerWritten, OfOutputs, ContentOf, Exists, OutputPath,
             AnswerContent, Basenames
    <2>5. ASSUME OutputsApart
          PROVE  SuccessRestores'
      BY <2>1, <2>3, <2>5 DEF SuccessRestores, ContentOf, Restored, Exists, OutputPath
    <2>6. ASSUME OutputsApart
          PROVE  OutputsDone'
      BY <2>1, <2>3, <2>6 DEF OutputsDone, Exists, OutputPath, ContentOf
    <2>7. QED
      BY <1>2, <1>4, <2>2, <2>4, <2>5, <2>6 DEF Safe
  <1>7. QED
    BY <1>5, <1>6

LEMMA BeginSafe ==
    ASSUME NEW cmd \in {"obfuscate", "deobfuscate"},
           NEW args \in Obfuscations \cup Deobfuscations, Begin(cmd, args)
    PROVE  Safe'
  <1>1. /\ before' = files' /\ (pc' = "idle" => exit' \in {1, 2, 3})
    BY DEF Begin, Exit, Goto
  <1>2. QED
    BY <1>1 DEF Safe, OldFilesKept, RefusalWritesNothing, OutputsDone, SuccessIsDecodable,
                SuccessRestores, Exists

---------------------------------------------------------------------------
(* Contents: every one that a step makes is made of known ones. *)

\* G stays closed when it takes a new content, whole or truncated.
Takes(G, new, keys, count) == Closed(G \cup {new, Truncated(new)}, keys, count)

LEMMA NewContents ==
    ASSUME NEW G, NEW keys, NEW keys2, keys \subseteq keys2,
           NEW count \in Nat, NEW count2 \in Nat, count <= count2, Closed(G, keys, count)
    PROVE  /\ Closed(G, keys2, count2)
           /\ \A key \in 1 .. count2 : \A passphrase, names :
                  Takes(G, Answer(key, passphrase, names), keys2, count2)
           /\ \A text \in G, key \in keys2 : Takes(G, Sanitized(text, key), keys2, count2)
           /\ \A content \in G : \A key : Takes(G, Restored(content, key), keys2, count2)
  <1> USE DEF Closed, IsSanitized, IsAnswer, IsArchive
  <1>1. Closed(G, keys2, count2)
    OBVIOUS
  <1>2. ASSUME NEW new, new \in G \/ \/ new[1] = "garbled"
                                     \/ new[1] = "answer" /\ new[2] \in 1 .. count2
                                     \/ new[1] = "sanitized" /\ new[2] \in G /\ new[3] \in keys2
        PROVE  Takes(G, new, keys2, count2)
    <2> DEFINE H == G \cup {new, Truncated(new)}
    <2>1. Truncated(new)[1] = "truncated" /\ Truncated(new)[2] = new
      BY DEF Truncated
    <2>2. ASSUME NEW c \in H
          PROVE  /\ c[1] = "sanitized" => c[2] \in H /\ c[3] \in keys2
                 /\ c[1] = "truncated" => c[2] \in H
                 /\ c[1] = "answer" => c[2] \in 1 .. count2
                 /\ c[1] = "archive" => /\ c[2] \in Seq(Range(c[2]))
                                        /\ \A k \in DOMAIN c[2] : c[2][k].content \in H
      BY <1>1, <1>2, <2>1, <2>2
    <2>3. QED
      BY <2>2 DEF Takes
  <1>3. \A key, passphrase, names : LET new == Answer(key, passphrase, names)
                                    IN  new[1] = "answer" /\ new[2] = key
    BY DEF Answer
  <1>4. \A text, key : LET new == Sanitized(text, key)
                       IN  new[1] = "sanitized" /\ new[2] = text /\ new[3] = key
    BY DEF Sanitized
  <1>5. \A content \in G : \A key : LET new == Restored(content, key)
                                IN  new \in G \/ new[1] = "garbled"
    BY DEF Restored, Garbled
  <1> HIDE DEF Closed, IsSanitized, IsAnswer, IsArchive
  <1>6. QED
    BY <1>1, <1>2, <1>3, <1>4, <1>5

LEMMA RunKnown ==
    ASSUME TypeOK, JobShape, JobRuns, Run \/ Kill,
           NEW keys, NEW keys2, keys \subseteq keys2, Known(files, job.contents, keys, begun),
           job.cmd = "obfuscate" /\ pc \in OfOutputs => job.key \in keys2
    PROVE  Known(files', job'.contents, keys2, begun')
  <1>1. job'.contents = job.contents /\ begun' = begun /\ begun \in Nat /\ begun <= begun
    BY JobIsSteady DEF Steady, TypeOK
  <1>2. PICK G : /\ Closed(G, keys, begun)
                 /\ \A path \in DOMAIN files : files[path] \in G
                 /\ \A k \in DOMAIN job.contents : job.contents[k] \in G
    BY DEF Known
  <1>3. /\ Closed(G, keys2, begun)
        /\ \A key \in 1 .. begun : \A passphrase, names :
               Takes(G, Answer(key, passphrase, names), keys2, begun)
        /\ \A text \in G, key \in keys2 : Takes(G, Sanitized(text, key), keys2, begun)
        /\ \A content \in G : \A key : Takes(G, Restored(content, key), keys2, begun)
    BY <1>1, <1>2, NewContents, Zenon
  <1>4. ASSUME \A p \in DOMAIN files' : p \in DOMAIN files /\ files'[p] = files[p]
        PROVE  Known(files', job'.contents, keys2, begun')
    BY <1>1, <1>2, <1>3, <1>4 DEF Known
  <1>5. ASSUME NEW new, NEW path, Takes(G, new, keys2, begun),
               \/ files' = Bind(files, path, new)
               \/ files' = Bind(files, path, Truncated(new))
               \/ \E other : files' = Without(Bind(files, path, new), other)
        PROVE  Known(files', job'.contents, keys2, begun')
    <2>1. \A p \in DOMAIN files' : \/ p = path /\ files'[p] \in {new, Truncated(new)}
                                   \/ p \in DOMAIN files /\ files'[p] = files[p]
      <3>1. CASE files' = Bind(files, path, new) \/ files' = Bind(files, path, Truncated(new))
        BY <3>1 DEF Bind
      <3>2. ASSUME NEW other, files' = Without(Bind(files, path, new), other)
            PROVE  \A p \in DOMAIN files' : \/ p = path /\ files'[p] = new
                                            \/ p \in DOMAIN files /\ files'[p] = files[p]
        BY <3>2 DEF Bind, Without
      <3>3. QED
        BY <1>5, <3>1, <3>2
    <2>2. Known(files', job.contents, keys2, begun)
      <3> DEFINE H == G \cup {new, Truncated(new)}
      <3>1. Closed(H, keys2, begun)
        BY <1>5 DEF Takes
      <3>2. (\A p \in DOMAIN files' : files'[p] \in H) /\ \A k \in DOMAIN job.contents : job.contents[k] \in H
        BY <1>2, <2>1
      <3> HIDE DEF H
      <3>3. QED
        BY <3>1, <3>2 DEF Known
    <2>3. QED
      BY <1>1, <2>2
  <1>6. CASE OpenTmp \/ FillTmp \/ ReplaceAnswer
    <2>1. job.key \in 1 .. begun
      BY <1>6 DEF OpenTmp, FillTmp, ReplaceAnswer, JobRuns, OfAnswer
    <2>2. Takes(G, AnswerContent, keys2, begun)
      BY <1>3, <2>1 DEF AnswerContent
    <2>3. QED
      BY <1>5, <1>6, <2>2 DEF OpenTmp, FillTmp, ReplaceAnswer, Put
  <1>7. CASE OpenOutput \/ FillOutput
    <2>1. job.contents[job.next] \in G /\ pc \in OfOutputs
      BY <1>2, <1>7, NextOutputIs DEF OpenOutput, FillOutput, JobShape, OfOutputs
    <2>2. Takes(G, OutputContent, keys2, begun)
      BY <1>3, <2>1 DEF OutputContent
    <2>3. QED
      BY <1>5, <1>7, <2>2 DEF OpenOutput, FillOutput, Put
  <1>8. CASE FailAnswer
    BY <1>4, <1>8 DEF FailAnswer, Without
  <1>9. QED
    BY <1>4, <1>6, <1>7, <1>8
       DEF Run, Decide, GetPassphrase, ReadAnswer, MakeDir, PrintOutput, FailOutput, Finish, Kill

---------------------------------------------------------------------------
(* Archives. *)

\* A non-empty set of indices has a last one.
LEMMA LastIndex ==
    ASSUME NEW n \in Nat, NEW I, I \subseteq 1 .. n, I # {}
    PROVE  \E i \in I : \A j \in I : i >= j
  <1> DEFINE T == {n - i : i \in I}
  <1>1. T \subseteq Nat /\ T # {}
    <2>1. \A i \in I : n - i \in Nat
      OBVIOUS
    <2>2. QED
      BY <2>1
  <1>2. PICK x \in T : \A y \in T : ~ (<<y, x>> \in OpToRel(<, Nat))
    BY <1>1, NatLessThanWellFounded, WFMin, Zenon
  <1>3. \A y \in T : ~ (y < x)
    BY <1>1, <1>2 DEF OpToRel
  <1>4. PICK i \in I : x = n - i
    OBVIOUS
  <1>5. \A j \in I : ~ (n - j < n - i)
    BY <1>3, <1>4
  <1>6. QED
    BY <1>5

\* The member that counts is the last one of its name.
LEMMA MemberIsLast ==
    ASSUME NEW archive, archive[2] \in Seq(Range(archive[2])),
           NEW label \in Labels(archive)
    PROVE  \E i \in DOMAIN archive[2] :
               /\ archive[2][i].label = label
               /\ \A j \in DOMAIN archive[2] : j > i => archive[2][j].label # label
               /\ MemberContent(archive, label) = archive[2][i].content
  <1> DEFINE members == archive[2]
             I == {i \in 1 .. Len(members) : members[i].label = label}
  <1>1. Len(members) \in Nat /\ DOMAIN members = 1 .. Len(members)
    BY LenProperties
  <1>2. I # {}
    BY <1>1 DEF Labels, Range
  <1>3. \E i \in I : \A j \in I : i >= j
    <2> HIDE DEF I
    <2>1. I \subseteq 1 .. Len(members)
      BY DEF I
    <2>2. QED
      BY <1>1, <1>2, <2>1, LastIndex
  <1>4. Max(I) \in I /\ \A j \in I : Max(I) >= j
    <2> HIDE DEF I
    <2>1. QED
      BY <1>3 DEF Max
  <1>5. SelectLastInSeq(members, LAMBDA member : member.label = label) = Max(I)
    BY <1>2 DEF SelectLastInSeq
  <1>6. MemberContent(archive, label) = members[Max(I)].content
    BY <1>5 DEF MemberContent
  <1>7. \A j \in DOMAIN members : j > Max(I) => members[j].label # label
    <2> SUFFICES ASSUME NEW j \in DOMAIN members, j > Max(I), members[j].label = label
                 PROVE  FALSE
      OBVIOUS
    <2>1. j \in I
      BY <1>1
    <2>2. Max(I) >= j /\ Max(I) \in Nat /\ j \in Nat
      <3> HIDE DEF I
      <3>1. I \subseteq 1 .. Len(members)
        BY DEF I
      <3>2. QED
        BY <1>4, <2>1, <3>1
    <2> HIDE DEF I
    <2>3. QED
      BY <2>2
  <1>8. QED
    BY <1>1, <1>4, <1>6, <1>7

\* What an archive holds is read from it.
LEMMA ArchiveSources ==
    ASSUME NEW cmd, NEW args \in Obfuscations \cup Deobfuscations,
           ArgumentsOK(cmd, args), Readable(cmd, args), Expands(cmd, args)
    PROVE  LET labels == SourceLabels(cmd, args)
           IN  /\ DOMAIN args.inputs = {1} /\ args.inputs[1] \in DOMAIN files
               /\ IsArchive(files[args.inputs[1]]) /\ Extractable(files[args.inputs[1]])
               /\ labels = ExtractedLabels(files[args.inputs[1]])
               /\ Range(labels) = Range(ConfigMembers) \cap Labels(files[args.inputs[1]])
  <1> DEFINE archive == files[args.inputs[1]]
  <1>1. ~Multi(args) /\ Extractable(archive)
    BY DEF ArgumentsOK, Readable
  <1>2. PICK k \in DOMAIN args.inputs : IsUcsFile(args.inputs[k])
    BY DEF Expands
  <1>3. DOMAIN args.inputs = {1} /\ k = 1
    <2>1. DOMAIN args.inputs = 1 .. Len(args.inputs) /\ Len(args.inputs) \in Nat
      BY ArgumentsAssumption, LenProperties
    <2>2. Len(args.inputs) <= 1
      BY <1>1, <2>1 DEF Multi
    <2>3. QED
      BY <1>2, <2>1, <2>2
  <1>4. Range(RequiredMembers) \subseteq Labels(archive)
    BY <1>1 DEF Extractable
  <1>5. Range(ConfigMembers) = Range(RequiredMembers) \cup {Member("bigip_user")}
    BY LabelsOfArchive DEF Range
  <1>6. SourceLabels(cmd, args) = ExtractedLabels(archive)
    BY DEF SourceLabels
  <1>7. Range(ExtractedLabels(archive)) = Range(ConfigMembers) \cap Labels(archive)
    BY <1>4, <1>5 DEF ExtractedLabels
  <1>8. QED
    BY <1>1, <1>2, <1>3, <1>6, <1>7 DEF IsUcsFile, Exists

LEMMA SourcesKnown ==
    ASSUME NEW cmd, NEW args \in Obfuscations \cup Deobfuscations,
           ArgumentsOK(cmd, args), Readable(cmd, args),
           NEW G, NEW keys, NEW count, Closed(G, keys, count), \A p \in DOMAIN files : files[p] \in G,
           NEW k \in DOMAIN SourceLabels(cmd, args)
    PROVE  SourceContent(cmd, args, SourceLabels(cmd, args)[k]) \in G \cup {StdText}
  <1> DEFINE label == SourceLabels(cmd, args)[k]
  <1>1. CASE Expands(cmd, args)
    <2> DEFINE archive == files[args.inputs[1]]
    <2>1. archive \in G /\ IsArchive(archive) /\ label \in Labels(archive)
      BY <1>1, ArchiveSources DEF Range
    <2>2. archive[2] \in Seq(Range(archive[2]))
          /\ \A i \in DOMAIN archive[2] : archive[2][i].content \in G
      BY <2>1 DEF Closed
    <2>3. SourceContent(cmd, args, label) = MemberContent(archive, label)
      BY <1>1 DEF SourceContent
    <2>4. QED
      BY <2>1, <2>2, <2>3, MemberIsLast
  <1>2. CASE ~Expands(cmd, args)
    BY <1>2 DEF SourceLabels, SourceContent, Readable, ReadableFile, Exists
  <1>3. QED
    BY <1>1, <1>2

LEMMA BeginKnown ==
    ASSUME TypeOK, NEW cmd \in {"obfuscate", "deobfuscate"},
           NEW args \in Obfuscations \cup Deobfuscations, Begin(cmd, args),
           NEW keys, NEW keys2, keys \subseteq keys2, Known(files, job.contents, keys, begun)
    PROVE  Known(files', job'.contents, keys2, begun')
  <1>1. files' = files /\ begun' = begun + 1 /\ begun \in Nat /\ begun + 1 \in Nat /\ begun <= begun + 1
    BY DEF Begin, TypeOK
  <1>2. PICK G : Closed(G, keys, begun) /\ \A path \in DOMAIN files : files[path] \in G
    BY DEF Known
  <1> DEFINE H == G \cup {StdText}
  <1>3. Closed(H, keys2, begun + 1)
    <2>1. Closed(G, keys2, begun + 1)
      BY <1>1, <1>2, NewContents, Zenon
    <2>2. ASSUME NEW c \in H
          PROVE  /\ c[1] = "sanitized" => c[2] \in H /\ c[3] \in keys2
                 /\ c[1] = "truncated" => c[2] \in H
                 /\ c[1] = "answer" => c[2] \in 1 .. begun + 1
                 /\ c[1] = "archive" => /\ c[2] \in Seq(Range(c[2]))
                                        /\ \A k \in DOMAIN c[2] : c[2][k].content \in H
      <3> USE DEF Closed, IsSanitized, IsAnswer, IsArchive
      <3>1. CASE c \in G
        BY <2>1, <3>1
      <3>2. CASE c = StdText
        BY <3>2, FilesAssumption
      <3>3. QED
        BY <3>1, <3>2
    <2> HIDE DEF H
    <2>3. QED
      BY <2>2 DEF Closed, IsSanitized, IsAnswer, IsArchive
  <1>4. \A k \in DOMAIN job'.contents : job'.contents[k] \in H
    <2>1. CASE job' = EmptyJob(cmd, args)
      BY <2>1 DEF EmptyJob, Job
    <2>2. CASE ArgumentsOK(cmd, args) /\ Readable(cmd, args) /\ job' = NewJob(cmd, args)
      <3> DEFINE labels == SourceLabels(cmd, args)
      <3>1. job'.contents = [k \in DOMAIN labels |-> SourceContent(cmd, args, labels[k])]
        BY <2>2 DEF NewJob, Job
      <3>2. \A k \in DOMAIN labels : SourceContent(cmd, args, labels[k]) \in H
        BY <1>2, <2>2, SourcesKnown
      <3> HIDE DEF labels, H
      <3>3. QED
        BY <3>1, <3>2
    <2>3. QED
      BY <2>1, <2>2 DEF Begin
  <1> HIDE DEF H
  <1>5. \A path \in DOMAIN files : files[path] \in H
    BY <1>2 DEF H
  <1>6. QED
    BY <1>1, <1>3, <1>4, <1>5 DEF Known

---------------------------------------------------------------------------
(* The invariant holds. *)

LEMMA InitKnown ==
    ASSUME Init, NEW keys
    PROVE  Known(files, job.contents, keys, begun)
  <1> DEFINE contents == {files[path] : path \in DOMAIN files}
             members  == {files[path][2][k].content :
                             path \in {p \in DOMAIN files : IsArchive(files[p])},
                             k \in UNION {DOMAIN files[q][2] : q \in DOMAIN files}}
             G == contents \cup {c \in members : c[1] = "text"}
  <1>1. files = InitialFiles /\ job.contents = <<>>
    BY DEF Init, NoJob, Job
  <1>2. ASSUME NEW c \in G
        PROVE  \/ c[1] = "text"
               \/ /\ c[1] = "archive" /\ c[2] \in Seq(Range(c[2]))
                  /\ \A k \in DOMAIN c[2] : c[2][k].content \in G
    <2>1. CASE c[1] = "text"
      BY <2>1
    <2>2. CASE c \in contents /\ c[1] # "text"
      <3>1. PICK path \in DOMAIN files : c = files[path]
        BY <2>2
      <3>2. /\ c[1] = "archive" /\ c[2] \in Seq(Range(c[2]))
            /\ \A k \in DOMAIN c[2] : c[2][k].content[1] = "text"
        BY <1>1, <2>2, <3>1, FilesAssumption
      <3>3. \A k \in DOMAIN c[2] : c[2][k].content \in members
        BY <3>1, <3>2 DEF IsArchive
      <3> HIDE DEF members
      <3>4. QED
        BY <3>2, <3>3
    <2>3. QED
      BY <2>1, <2>2
  <1>3. \A path \in DOMAIN files : files[path] \in G
    OBVIOUS
  <1> HIDE DEF G
  <1>4. Closed(G, keys, begun)
    BY <1>2 DEF Closed, IsSanitized, IsAnswer, IsArchive
  <1>5. QED
    BY <1>1, <1>3, <1>4 DEF Known

LEMMA InitInvariant ==
    ASSUME Init
    PROVE  IInv /\ Safe
  <1> USE DEF Init, NoJob, Job
  <1>1. TypeOK
    BY BoundAssumption DEF TypeOK
  <1>2. JobShape /\ JobRuns
    BY DEF JobShape, JobRuns, BeforeAnswer, OfAnswer
  <1>3. PathsFree /\ OnlyMade /\ AnswerWritten /\ OutputsWritten
    BY DEF PathsFree, OnlyMade, AnswerWritten, OutputsWritten, BeforeAnswer, OfOutputs
  <1>4. Safe
    BY DEF Safe, OldFilesKept, RefusalWritesNothing, OutputsDone, SuccessIsDecodable,
           SuccessRestores
  <1>5. QED
    BY <1>1, <1>2, <1>3, <1>4, InitKnown DEF IInv

LEMMA StutterInvariant ==
    ASSUME IInv, Safe, UNCHANGED vars
    PROVE  IInv' /\ Safe'
  <1> USE DEF vars
  <1>1. TypeOK' /\ JobShape' /\ JobRuns'
    BY DEF IInv, TypeOK, JobShape, JobRuns
  <1>2. Steady
    BY DEF Steady
  <1>3. PathsFree' /\ OnlyMade'
    BY DEF IInv, PathsFree, OnlyMade, Made, OutputPath
  <1>4. AnswerWritten' /\ OutputsWritten'
    BY <1>2, SteadyPaths DEF IInv, AnswerWritten, OutputsWritten, OutputPath, AnswerContent,
       Basenames, ContentOf, NextOutput, OutputContent, Exists
  <1>5. Known(files', job'.contents, 1 .. begun', begun')
    BY DEF IInv
  <1>6. OldFilesKept' /\ RefusalWritesNothing'
    BY DEF Safe, OldFilesKept, RefusalWritesNothing, Exists
  <1>7. /\ SuccessIsDecodable' = SuccessIsDecodable /\ SuccessRestores' = SuccessRestores
        /\ OutputsDone' = OutputsDone
    BY DEF SuccessIsDecodable, SuccessRestores, OutputsDone, OutputPath, AnswerContent, Basenames,
           ContentOf, Exists
  <1>8. QED
    BY <1>1, <1>2, <1>3, <1>4, <1>5, <1>6, <1>7, SteadyPaths DEF IInv, Safe

LEMMA BeginInvariant ==
    ASSUME IInv, NEW cmd \in {"obfuscate", "deobfuscate"},
           NEW args \in Obfuscations \cup Deobfuscations, Begin(cmd, args)
    PROVE  IInv' /\ Safe'
  <1>1. begun' = begun + 1 /\ begun \in Nat
    BY DEF Begin, IInv, TypeOK
  <1>2. 1 .. begun \subseteq 1 .. begun'
    BY <1>1
  <1>3. TypeOK' /\ JobShape' /\ JobRuns'
    BY BeginTyped DEF IInv
  <1>4. Known(files', job'.contents, 1 .. begun', begun')
    BY <1>2, BeginKnown DEF IInv
  <1>5. QED
    BY <1>3, <1>4, BeginFiles, BeginSafe DEF IInv

LEMMA RunInvariant ==
    ASSUME IInv, Safe, Run \/ Kill
    PROVE  IInv' /\ Safe'
  <1>1. TypeOK' /\ JobRuns' /\ JobShape'
    BY RunTyped, JobIsSteady DEF IInv
  <1>2. PathsFree' /\ OnlyMade' /\ AnswerWritten' /\ OutputsWritten'
    BY <1>1, RunPaths, RunMade, RunAnswer, RunOutputs DEF IInv
  <1>3. Known(files', job'.contents, 1 .. begun', begun')
    <2>1. begun' = begun
      BY JobIsSteady DEF IInv, Steady
    <2>2. job.cmd = "obfuscate" /\ pc \in OfOutputs => job.key \in 1 .. begun
      BY DEF IInv, JobRuns, OfOutputs
    <2>3. QED
      BY <2>1, <2>2, RunKnown DEF IInv
  <1>4. Safe'
    BY RunSafe DEF IInv
  <1>5. QED
    BY <1>1, <1>2, <1>3, <1>4 DEF IInv

\* The properties' common ground: the inductive invariant holds at all times.
THEOREM CliInvariant == Spec => [](IInv /\ Safe)
  <1>1. Init => IInv /\ Safe
    BY InitInvariant
  <1>2. IInv /\ Safe /\ [Next]_vars => IInv' /\ Safe'
    BY StutterInvariant, BeginInvariant, RunInvariant DEF Next
  <1>3. QED
    BY <1>1, <1>2, PTL DEF Spec

\* Without --force no file that existed when a command began is touched, its
\* temporary file apart, whatever the arguments and however the command ends.
THEOREM OldFilesAreKept == Spec => []OldFilesKept
  BY CliInvariant, PTL DEF Safe

\* A command that refuses, and a dry run, has written nothing.
THEOREM RefusalIsHarmless == Spec => []RefusalWritesNothing
  BY CliInvariant, PTL DEF Safe

\* The types, for any arguments and files.
THEOREM CliTypeOK == Spec => []TypeOK
  BY CliInvariant, PTL DEF IInv

\* Exit code 0 of obfuscate: every sanitized file is there and so is its key,
\* if the outputs of that command have paths of their own.
THEOREM SuccessMeansDecodable == Spec => [](AnswerApart /\ OutputsApart => SuccessIsDecodable)
  BY CliInvariant, PTL DEF Safe

\* Exit code 0 of deobfuscate: every original is there, if the outputs of
\* that command have paths of their own.
THEOREM SuccessMeansRestored == Spec => [](OutputsApart => SuccessRestores)
  BY CliInvariant, PTL DEF Safe

---------------------------------------------------------------------------
(* Archives are read whole. *)

LastOfName(members, i) ==
    \A j \in DOMAIN members : j > i => members[j].label # members[i].label

\* The command's sources are the configurations in the archive at a path,
\* each once.
ReadWhole(path) ==
    LET members == before[path][2] IN
    /\ job.multi
    /\ job.args.output_dir \in Names \/ job.args.dry_run
    /\ \A k \in DOMAIN job.labels : job.labels[k] \in Range(ConfigMembers)
    /\ \A j, k \in DOMAIN job.labels : job.labels[j] = job.labels[k] => j = k
    /\ \A i \in DOMAIN members :
          members[i].label \in Range(ConfigMembers) /\ LastOfName(members, i) =>
              \E k \in DOMAIN job.labels : /\ job.labels[k] = members[i].label
                                           /\ job.contents[k] = members[i].content
ArchiveRead ==
    job.cmd = "obfuscate" /\ (pc # "idle" \/ exit = 0) =>
        \A path \in Range(job.args.inputs) \cap DOMAIN before :
            IsArchive(before[path]) => ReadWhole(path)

LEMMA ConfigMembersDiffer ==
    /\ \A j, k \in DOMAIN ConfigMembers : ConfigMembers[j] = ConfigMembers[k] => j = k
    /\ \A j, k \in DOMAIN RequiredMembers : RequiredMembers[j] = RequiredMembers[k] => j = k
    /\ \A label \in Range(ConfigMembers) :
          label \in {Member("bigip_base"), Member("bigip"), Member("bigip_user")}
  <1>1. /\ Member("bigip_base") # Member("bigip") /\ Member("bigip_base") # Member("bigip_user")
        /\ Member("bigip") # Member("bigip_user")
    BY DEF Member
  <1>2. QED
    BY <1>1, LabelsOfArchive DEF Range

LEMMA BeginReadsArchive ==
    ASSUME IInv, NEW cmd \in {"obfuscate", "deobfuscate"},
           NEW args \in Obfuscations \cup Deobfuscations, Begin(cmd, args), Std \notin DOMAIN files
    PROVE  ArchiveRead'
  <1>1. before' = files /\ (pc' = "idle" => exit' \in {1, 2, 3})
    BY DEF Begin, Exit, Goto
  <1>2. CASE pc' = "idle"
    BY <1>1, <1>2 DEF ArchiveRead
  <1>3. SUFFICES ASSUME pc' # "idle", cmd = "obfuscate",
                        ArgumentsOK(cmd, args), Readable(cmd, args), job' = NewJob(cmd, args),
                        NEW path \in Range(args.inputs) \cap DOMAIN files, IsArchive(files[path])
                 PROVE  ReadWhole(path)'
    <2>1. CASE job' = EmptyJob(cmd, args) /\ pc' = "idle"
      BY <1>2, <2>1
    <2>2. CASE ArgumentsOK(cmd, args) /\ Readable(cmd, args) /\ job' = NewJob(cmd, args)
      <3>1. job'.cmd = cmd /\ job'.args = args
        BY <2>2 DEF NewJob, Job
      <3>2. QED
        BY <1>1, <1>2, <1>3, <2>2, <3>1 DEF ArchiveRead
    <2>3. QED
      BY <2>1, <2>2 DEF Begin, Exit
  <1> DEFINE labels   == SourceLabels(cmd, args)
             contents == [k \in DOMAIN labels |-> SourceContent(cmd, args, labels[k])]
             archive  == files[path]
  <1>4. /\ job'.args = args /\ job'.multi = (Multi(args) \/ Expands(cmd, args))
        /\ job'.labels = labels /\ job'.contents = contents
    BY <1>3 DEF NewJob, Job
  <1>5. PICK input \in DOMAIN args.inputs : args.inputs[input] = path
    BY <1>3 DEF Range
  <1>6. Expands(cmd, args)
    BY <1>3, <1>5 DEF Readable, ReadableFile
  <1>7. /\ DOMAIN args.inputs = {1} /\ path = args.inputs[1]
        /\ labels = ExtractedLabels(archive)
        /\ Range(labels) = Range(ConfigMembers) \cap Labels(archive)
    BY <1>3, <1>5, <1>6, ArchiveSources
  <1>8. args.output_dir \in Names \/ args.dry_run
    BY <1>3, <1>6, ArgumentsAssumption DEF ArgumentsOK
  <1>9. /\ \A j \in DOMAIN labels : labels[j] \in Range(ConfigMembers)
        /\ \A j, l \in DOMAIN labels : labels[j] = labels[l] => j = l
    <2>1. \A j \in DOMAIN labels : labels[j] \in Range(labels)
      BY DEF Range
    <2>2. \A j, l \in DOMAIN labels : labels[j] = labels[l] => j = l
      BY <1>7, ConfigMembersDiffer DEF ExtractedLabels
    <2>3. QED
      BY <1>7, <2>1, <2>2
  <1>10. ASSUME NEW i \in DOMAIN archive[2], archive[2][i].label \in Range(ConfigMembers),
                LastOfName(archive[2], i)
         PROVE  \E j \in DOMAIN labels : /\ labels[j] = archive[2][i].label
                                         /\ contents[j] = archive[2][i].content
    <2> DEFINE label == archive[2][i].label
    <2>1. archive[2] \in Seq(Range(archive[2]))
      BY <1>3 DEF IInv, Known, Closed
    <2>2. label \in Labels(archive)
      BY DEF Labels, Range
    <2>3. PICK j \in DOMAIN labels : labels[j] = label
      BY <1>7, <1>10, <2>2 DEF Range
    <2>4. PICK l \in DOMAIN archive[2] :
              /\ archive[2][l].label = label
              /\ \A m \in DOMAIN archive[2] : m > l => archive[2][m].label # label
              /\ MemberContent(archive, label) = archive[2][l].content
      BY <2>1, <2>2, MemberIsLast
    <2>5. l = i
      <3>1. i \in Nat /\ l \in Nat
        BY <2>1, LenProperties
      <3>2. QED
        BY <1>10, <2>4, <3>1 DEF LastOfName
    <2>6. contents[j] = SourceContent(cmd, args, label)
      BY <2>3
    <2>7. SourceContent(cmd, args, label) = MemberContent(archive, label)
      BY <1>6, <1>7 DEF SourceContent
    <2>8. QED
      BY <2>3, <2>4, <2>5, <2>6, <2>7
  <1> HIDE DEF labels, contents, archive
  <1>11. before'[path] = archive
    BY <1>1 DEF archive
  <1>12. QED
    BY <1>4, <1>6, <1>8, <1>9, <1>10, <1>11 DEF ReadWhole

LEMMA RunReadsArchive ==
    ASSUME JobShape, ArchiveRead, Run \/ Kill
    PROVE  ArchiveRead'
  <1>1. Steady /\ pc # "idle"
    BY JobIsSteady DEF Run, Decide, GetPassphrase, OpenTmp, FillTmp, ReplaceAnswer, FailAnswer,
           ReadAnswer, MakeDir, OpenOutput, FillOutput, PrintOutput, FailOutput, Finish, Kill
  <1>2. QED
    BY <1>1 DEF ArchiveRead, ReadWhole, Steady, LastOfName

\* "-" is never a file.
LEMMA RunFiles ==
    ASSUME IInv, Std \notin DOMAIN files, Run \/ Kill
    PROVE  Std \notin DOMAIN files'
  <1>1. /\ OpenTmp \/ FillTmp \/ ReplaceAnswer => job.args.answer # Std /\ TmpOf(job.args.answer) # Std
    BY AnswerIsPath, TmpIsTmp, NotPathsAssumption
       DEF IInv, JobRuns, OfAnswer, OpenTmp, FillTmp, ReplaceAnswer
  <1>2. OpenOutput \/ FillOutput => NextOutput # Std
    BY DEF IInv, OutputsWritten, OpenOutput, FillOutput
  <1>3. CASE OpenTmp \/ FillTmp \/ OpenOutput \/ FillOutput
    BY <1>1, <1>2, <1>3 DEF OpenTmp, FillTmp, OpenOutput, FillOutput, Put, Bind
  <1>4. CASE ReplaceAnswer
    BY <1>1, <1>4 DEF ReplaceAnswer, Bind, Without
  <1>5. CASE FailAnswer
    BY <1>5 DEF FailAnswer, Without
  <1>6. QED
    BY <1>3, <1>4, <1>5
       DEF Run, Decide, GetPassphrase, ReadAnswer, MakeDir, PrintOutput, FailOutput, Finish, Kill

\* The outputs for an archive have paths of their own.
LEMMA ArchiveOutputs ==
    ASSUME ArchiveRead, job.cmd = "obfuscate", pc # "idle" \/ exit = 0, ~job.args.dry_run,
           NEW path \in Range(job.args.inputs) \cap DOMAIN before, IsArchive(before[path])
    PROVE  /\ OutputsApart
           /\ \A k \in DOMAIN job.labels : /\ OutputPath(k) # Std
                                            /\ OutputPath(k) = [job.labels[k] EXCEPT !.dir = job.args.output_dir]
  <1>1. /\ job.multi /\ job.args.output_dir \in Names
        /\ \A k \in DOMAIN job.labels : job.labels[k] \in Range(ConfigMembers)
        /\ \A j, k \in DOMAIN job.labels : job.labels[j] = job.labels[k] => j = k
    BY DEF ArchiveRead, ReadWhole
  <1>2. \A k \in DOMAIN job.labels :
            OutputPath(k) = [job.labels[k] EXCEPT !.dir = job.args.output_dir]
    BY <1>1 DEF OutputPath
  <1>3. \A label \in Range(ConfigMembers) : \E base \in Names : label = Member(base)
    BY ConfigMembersDiffer DEF Names
  <1>4. \A base \in Names : LET out == [Member(base) EXCEPT !.dir = job.args.output_dir]
                            IN  out \in Path /\ out.base = base
    BY <1>1, EmptySeq DEF Member, Path
  <1>5. OutputsApart
    <2>1. SUFFICES ASSUME NEW j \in DOMAIN job.labels, NEW k \in DOMAIN job.labels,
                          OutputPath(j) = OutputPath(k)
                   PROVE  j = k
      BY DEF OutputsApart
    <2>2. PICK base \in Names : job.labels[j] = Member(base)
      BY <1>1, <1>3
    <2>3. PICK other \in Names : job.labels[k] = Member(other)
      BY <1>1, <1>3
    <2>4. OutputPath(j).base = base /\ OutputPath(k).base = other
      BY <1>2, <1>4, <2>2, <2>3
    <2>5. QED
      BY <1>1, <2>1, <2>2, <2>3, <2>4
  <1>6. \A k \in DOMAIN job.labels : OutputPath(k) \in Path
    BY <1>1, <1>2, <1>3, <1>4
  <1>7. QED
    BY <1>2, <1>5, <1>6, NotPathsAssumption

LEMMA RecoveredArchive ==
    ASSUME IInv, Safe, ArchiveRead
    PROVE  ArchiveRecovered
  <1> SUFFICES ASSUME pc = "idle", exit = 0, job.cmd = "obfuscate", ~job.args.dry_run,
                      NEW path \in Range(job.args.inputs) \cap DOMAIN before, IsArchive(before[path]),
                      NEW i \in DOMAIN before[path][2],
                      before[path][2][i].label \in Range(ConfigMembers),
                      LastOfName(before[path][2], i)
               PROVE  LET out == [before[path][2][i].label EXCEPT !.dir = job.args.output_dir]
                      IN  Exists(out) /\ files[out] = Sanitized(before[path][2][i].content, job.key)
    BY DEF ArchiveRecovered, LastOfName
  <1>1. PICK k \in DOMAIN job.labels : /\ job.labels[k] = before[path][2][i].label
                                       /\ job.contents[k] = before[path][2][i].content
    BY DEF ArchiveRead, ReadWhole
  <1>2. OutputsApart /\ OutputPath(k) # Std
        /\ OutputPath(k) = [before[path][2][i].label EXCEPT !.dir = job.args.output_dir]
    BY <1>1, ArchiveOutputs
  <1>3. k \in DOMAIN job.contents
    BY DEF IInv, JobShape
  <1>4. QED
    BY <1>1, <1>2, <1>3 DEF Safe, OutputsDone, ContentOf

\* Exit code 0 of obfuscate with an archive: every configuration that the
\* archive would restore is in the output directory, sanitized.
THEOREM ArchivesAreRecovered == Spec => []ArchiveRecovered
  <1> DEFINE Inv == ArchiveRead /\ Std \notin DOMAIN files
  <1>1. Init => Inv
    BY FilesAssumption, NotPathsAssumption DEF Init, NoJob, Job, ArchiveRead
  <1>2. IInv /\ Inv /\ [Next]_vars => Inv'
    <2>1. ASSUME IInv, Inv, UNCHANGED vars
          PROVE  Inv'
      BY <2>1 DEF vars, ArchiveRead, ReadWhole, LastOfName
    <2>2. ASSUME IInv, Inv, NEW cmd \in {"obfuscate", "deobfuscate"},
                 NEW args \in Obfuscations \cup Deobfuscations, Begin(cmd, args)
          PROVE  Inv'
      <3>1. files' = files
        BY <2>2 DEF Begin
      <3>2. QED
        BY <2>2, <3>1, BeginReadsArchive
    <2>3. ASSUME IInv, Inv, Run \/ Kill
          PROVE  Inv'
      BY <2>3, RunReadsArchive, RunFiles DEF IInv
    <2>4. QED
      BY <2>1, <2>2, <2>3 DEF Next
  <1>3. IInv /\ Safe /\ Inv => ArchiveRecovered
    BY RecoveredArchive
  <1>4. QED
    BY <1>1, <1>2, <1>3, CliInvariant, PTL DEF Spec

---------------------------------------------------------------------------
(* The key of a sanitized file. *)

\* The keys that no command takes away unless it is given --force: those of
\* the answer files that were there, and of the one it writes itself.  Other
\* answer files (a temporary one; a copy that was restored) are not counted.
StaysAnswer(path) ==
    /\ IsAnswer(files[path]) /\ ~IsTmp(path)
    /\ path \in DOMAIN before \/ (job.cmd = "obfuscate" /\ path = job.args.answer)
CoveredKeys == given_up \cup {files[p][2] : p \in {q \in DOMAIN files : StaysAnswer(q)}}

\* What is on disk or was read needs no other keys.
KeysCovered == Known(files, job.contents, CoveredKeys, begun)

LEMMA BeginCovers ==
    ASSUME NEW cmd, NEW args, Begin(cmd, args)
    PROVE  CoveredKeys \subseteq CoveredKeys'
  <1>1. files' = files /\ before' = files /\ given_up' = given_up
    BY DEF Begin
  <1>2. \A path \in DOMAIN files : StaysAnswer(path) => StaysAnswer(path)'
    BY <1>1 DEF StaysAnswer, IsTmp
  <1>3. QED
    BY <1>1, <1>2 DEF CoveredKeys

LEMMA RunCovers ==
    ASSUME IInv, AnswerApart, Run \/ Kill
    PROVE  CoveredKeys \subseteq CoveredKeys'
  <1>1. Steady
    BY JobIsSteady DEF IInv
  <1>2. \A path \in DOMAIN files : path \in DOMAIN files' /\ files'[path] = files[path] =>
            (StaysAnswer(path) => StaysAnswer(path)')
    BY <1>1 DEF StaysAnswer, Steady, IsTmp
  <1>3. SUFFICES ASSUME given_up \subseteq given_up',
                        NEW path \in DOMAIN files, StaysAnswer(path),
                        ~(path \in DOMAIN files' /\ files'[path] = files[path])
                 PROVE  files[path][2] \in given_up'
    <2>1. given_up \subseteq given_up'
      BY DEF Run, Decide, GetPassphrase, OpenTmp, FillTmp, ReplaceAnswer, FailAnswer,
             ReadAnswer, MakeDir, OpenOutput, FillOutput, PrintOutput, FailOutput, Finish, Kill,
             Put
    <2>2. QED
      BY <1>2, <1>3, <2>1 DEF CoveredKeys
  <1>4. ASSUME NEW other, NEW content, Put(other, content)
        PROVE  path = other /\ (job.args.force => files[path][2] \in given_up')
    <2>1. path = other
      BY <1>3, <1>4 DEF Put, Bind
    <2>2. QED
      BY <1>3, <1>4, <2>1 DEF Put, Exists, StaysAnswer
  <1>5. pc \in OfAnswer \/ (pc = "answer" /\ job.cmd = "obfuscate") =>
            path # TmpOf(job.args.answer)
    BY <1>3, AnswerIsPath DEF IInv, JobRuns, OfAnswer, StaysAnswer
  <1>6. CASE OpenTmp \/ FillTmp
    BY <1>4, <1>5, <1>6 DEF OpenTmp, FillTmp, OfAnswer
  <1>7. CASE ReplaceAnswer
    <2>1. path = job.args.answer
      BY <1>3, <1>5, <1>7 DEF ReplaceAnswer, OfAnswer, Bind, Without
    <2>2. ~job.args.force => path \notin DOMAIN before
      BY <1>7, <2>1 DEF ReplaceAnswer, IInv, PathsFree, JobRuns, OfAnswer
    <2>3. path \in DOMAIN before
      BY <1>5, <1>7 DEF ReplaceAnswer, IInv, OnlyMade, Made, OfAnswer
    <2>4. QED
      BY <1>3, <1>7, <2>1, <2>2, <2>3 DEF ReplaceAnswer, Exists, StaysAnswer
  <1>8. CASE FailAnswer
    BY <1>3, <1>5, <1>8 DEF FailAnswer, OfAnswer, Without
  <1>9. CASE OpenOutput \/ FillOutput
    <2>1. path = NextOutput /\ (job.args.force => files[path][2] \in given_up')
      BY <1>4, <1>9 DEF OpenOutput, FillOutput
    <2>2. /\ NextOutput # Std /\ pc \in OfOutputs /\ NextOutput = OutputPath(job.next)
          /\ job.next \in DOMAIN job.labels
      BY <1>9, NextOutputIs DEF OpenOutput, FillOutput, OfOutputs, IInv, OutputsWritten
    <2>3. ~job.args.force => path \notin DOMAIN before
      BY <2>1, <2>2 DEF IInv, PathsFree, JobRuns, OfOutputs
    <2>4. ~(job.cmd = "obfuscate" /\ path = job.args.answer)
      BY <2>1, <2>2 DEF AnswerApart
    <2>5. QED
      BY <1>3, <2>1, <2>3, <2>4 DEF StaysAnswer
  <1>10. CASE UNCHANGED files
    BY <1>3, <1>10
  <1>11. QED
    BY <1>6, <1>7, <1>8, <1>9, <1>10
       DEF Run, Decide, GetPassphrase, ReadAnswer, MakeDir, PrintOutput, FailOutput, Finish, Kill

LEMMA OwnKeyCovered ==
    ASSUME IInv, AnswerApart, AnswerNotTmp, job.cmd = "obfuscate", pc \in OfOutputs
    PROVE  job.key \in CoveredKeys
  <1>1. /\ job.args.answer \in DOMAIN files /\ files[job.args.answer] = AnswerContent
        /\ ~IsTmp(job.args.answer)
    BY DEF IInv, AnswerWritten, AnswerNotTmp, JobRuns, OfOutputs, Exists
  <1>2. IsAnswer(AnswerContent) /\ AnswerContent[2] = job.key
    BY DEF AnswerContent, Answer, IsAnswer
  <1>3. QED
    BY <1>1, <1>2 DEF CoveredKeys, StaysAnswer

\* Crash safety, for any sequence of commands: whatever is killed or fails,
\* a sanitized file on disk has its key on disk, unless --force replaced that
\* answer file; provided that no command is told to write an output over its
\* own answer file, or an answer file under a temporary file's name.
THEOREM KeysAreOnDisk == Spec /\ []AnswerApart /\ []AnswerNotTmp => []KeyOnDisk
  <1>1. Init => KeysCovered
    BY InitKnown DEF KeysCovered
  <1>2. IInv /\ AnswerApart /\ AnswerNotTmp /\ KeysCovered /\ [Next]_vars => KeysCovered'
    <2>1. ASSUME KeysCovered, UNCHANGED vars
          PROVE  KeysCovered'
      BY <2>1 DEF KeysCovered, CoveredKeys, StaysAnswer, IsTmp, vars
    <2>2. ASSUME IInv, KeysCovered, NEW cmd \in {"obfuscate", "deobfuscate"},
                 NEW args \in Obfuscations \cup Deobfuscations, Begin(cmd, args)
          PROVE  KeysCovered'
      BY <2>2, BeginCovers, BeginKnown DEF KeysCovered, IInv
    <2>3. ASSUME IInv, AnswerApart, AnswerNotTmp, KeysCovered, Run \/ Kill
          PROVE  KeysCovered'
      BY <2>3, RunCovers, OwnKeyCovered, RunKnown DEF KeysCovered, IInv
    <2>4. QED
      BY <2>1, <2>2, <2>3 DEF Next
  <1>3. KeysCovered => KeyOnDisk
    <2> SUFFICES ASSUME KeysCovered, NEW p \in DOMAIN files, IsSanitized(Whole(files[p]))
                 PROVE  Whole(files[p])[3] \in CoveredKeys
      BY DEF KeyOnDisk, KeysNeeded, KeysOnDisk, CoveredKeys, StaysAnswer
    <2>1. PICK G : Closed(G, CoveredKeys, begun) /\ files[p] \in G
      BY DEF KeysCovered, Known
    <2>2. Whole(files[p]) \in G
      BY <2>1 DEF Closed, Whole
    <2>3. QED
      BY <2>1, <2>2 DEF Closed
  <1>4. QED
    BY <1>1, <1>2, <1>3, CliInvariant, PTL DEF Spec

---------------------------------------------------------------------------
(* Answer files, step by step. *)

LEMMA AnswerStaysWhole ==
    ASSUME IInv, AnswerApart, OutputsApart, job.args.force => NoAnswerOverwritten, Run \/ Kill,
           NEW p \in DOMAIN files, IsAnswer(files[p]), ~IsTmp(p)
    PROVE  p \in DOMAIN files' /\ IsAnswer(files'[p])
  <1>1. pc \in OfAnswer \/ (pc = "answer" /\ job.cmd = "obfuscate") => p # TmpOf(job.args.answer)
    BY AnswerIsPath DEF IInv, JobRuns, OfAnswer
  <1>2. ASSUME NEW path, NEW content, Put(path, content), p # path
        PROVE  p \in DOMAIN files' /\ IsAnswer(files'[p])
    BY <1>2 DEF Put, Bind
  <1>3. CASE OpenTmp \/ FillTmp
    BY <1>1, <1>2, <1>3 DEF OpenTmp, FillTmp, OfAnswer
  <1>4. CASE ReplaceAnswer
    <2>1. IsAnswer(AnswerContent)
      BY DEF AnswerContent, Answer, IsAnswer
    <2>2. QED
      BY <1>1, <1>4, <2>1 DEF ReplaceAnswer, OfAnswer, Bind, Without
  <1>5. CASE FailAnswer
    BY <1>1, <1>5 DEF FailAnswer, OfAnswer, Without
  <1>6. CASE OpenOutput
    <2>1. /\ NextOutput # Std /\ pc = "output" /\ NextOutput = OutputPath(job.next)
          /\ job.next \in DOMAIN job.labels /\ job.next \in Nat
      BY <1>6, NextOutputIs DEF OpenOutput, IInv, JobShape
    <2>2. CASE p = NextOutput
      <3>1. p \notin Made
        <4>1. ~(job.cmd = "obfuscate" /\ p = job.args.answer)
          BY <2>1, <2>2 DEF AnswerApart
        <4>2. \A k \in DOMAIN job.labels : p = OutputPath(k) => k = job.next
          BY <2>1, <2>2 DEF OutputsApart
        <4>3. QED
          BY <2>1, <4>1, <4>2 DEF Made, OfAnswer, OfOutputs
      <3>2. p \in DOMAIN before
        BY <2>1, <3>1 DEF IInv, OnlyMade
      <3>3. job.args.force
        BY <2>1, <2>2, <3>2 DEF IInv, PathsFree, JobRuns, OfOutputs
      <3>4. QED
        BY <2>1, <2>2, <3>3 DEF NoAnswerOverwritten, Exists
    <2>3. CASE p # NextOutput
      BY <1>2, <1>6, <2>3 DEF OpenOutput
    <2>4. QED
      BY <2>2, <2>3
  <1>7. CASE FillOutput
    <2>1. files[NextOutput] = Truncated(OutputContent)
      BY <1>7 DEF FillOutput, IInv, OutputsWritten
    <2>2. p # NextOutput
      BY <2>1 DEF Truncated, IsAnswer
    <2>3. QED
      BY <1>2, <1>7, <2>2 DEF FillOutput
  <1>8. CASE UNCHANGED files
    BY <1>8
  <1>9. QED
    BY <1>3, <1>4, <1>5, <1>6, <1>7, <1>8
       DEF Run, Decide, GetPassphrase, ReadAnswer, MakeDir, PrintOutput, FailOutput, Finish, Kill

\* The atomic write: at no moment is an answer file missing or half-written,
\* whatever fails or is killed; provided that outputs have paths of their own
\* and, with --force, are not written over answer files.
THEOREM AnswersAreAtomic ==
    Spec /\ []AnswerApart /\ []OutputsApart /\ [](job.args.force => NoAnswerOverwritten)
        => AnswerAtomic
  <1> DEFINE Kept == \A p \in DOMAIN files :
                         IsAnswer(files[p]) /\ ~IsTmp(p) => p \in DOMAIN files' /\ IsAnswer(files'[p])
  <1>1. IInv /\ AnswerApart /\ OutputsApart /\ (job.args.force => NoAnswerOverwritten)
            /\ [Next]_vars => [Kept]_files
    <2>1. ASSUME NEW cmd, NEW args, Begin(cmd, args)
          PROVE  files' = files
      BY <2>1 DEF Begin
    <2>2. QED
      BY <2>1, AnswerStaysWhole DEF Next, vars
  <1>2. QED
    BY <1>1, CliInvariant, PTL DEF Spec, AnswerAtomic

---------------------------------------------------------------------------
(* When outputs have paths of their own. *)

DifferentNames ==
    \A j, k \in DOMAIN job.labels : Basenames[j] = Basenames[k] => j = k

\* Several sources are files, each with a name.
JobInputs ==
    /\ job.multi \/ Len(job.labels) <= 1
    /\ job.multi => \A k \in DOMAIN job.labels : job.labels[k] \in Path

LEMMA BeginInputs ==
    ASSUME NEW cmd \in {"obfuscate", "deobfuscate"},
           NEW args \in Obfuscations \cup Deobfuscations, Begin(cmd, args)
    PROVE  JobInputs'
  <1> DEFINE labels == SourceLabels(cmd, args)
  <1>1. CASE job' = EmptyJob(cmd, args)
    BY <1>1, EmptySeq DEF EmptyJob, Job, JobInputs
  <1>2. ASSUME ArgumentsOK(cmd, args), Readable(cmd, args), job' = NewJob(cmd, args)
        PROVE  JobInputs'
    <2>1. job'.labels = labels /\ job'.multi = (Multi(args) \/ Expands(cmd, args))
      BY <1>2 DEF NewJob, Job
    <2>2. CASE Expands(cmd, args)
      <3>1. \A k \in DOMAIN labels : labels[k] \in Range(ConfigMembers)
        BY <1>2, <2>2, ArchiveSources DEF Range
      <3>2. Range(ConfigMembers) \subseteq Path
        <4>1. \A base \in Names : Member(base) \in Path
          BY EmptySeq DEF Member, Path, Names
        <4>2. "bigip_base" \in Names /\ "bigip" \in Names /\ "bigip_user" \in Names
          BY DEF Names
        <4>3. QED
          BY ConfigMembersDiffer, <4>1, <4>2
      <3>3. QED
        BY <2>1, <2>2, <3>1, <3>2 DEF JobInputs
    <2>3. CASE ~Expands(cmd, args)
      <3>1. labels = args.inputs /\ args.inputs \in Seq(Path \cup {Std})
        BY <2>3, ArgumentsAssumption DEF SourceLabels
      <3>2. Len(args.inputs) \in Nat
            /\ \A k \in DOMAIN args.inputs : args.inputs[k] \in Path \cup {Std}
        BY <3>1, LenProperties, ElementOfSeq
      <3>3. Multi(args) => Std \notin Range(args.inputs)
        BY <1>2, <2>3 DEF ArgumentsOK, OutputFlagsOK
      <3>4. job'.labels = args.inputs /\ (job'.multi <=> Len(args.inputs) > 1)
        BY <2>1, <2>3, <3>1 DEF Multi
      <3>5. Len(args.inputs) > 1 => \A k \in DOMAIN args.inputs : args.inputs[k] \in Path
        BY <3>2, <3>3 DEF Multi, Range
      <3>6. QED
        BY <3>2, <3>4, <3>5 DEF JobInputs
    <2>4. QED
      BY <2>2, <2>3
  <1>3. QED
    BY <1>1, <1>2 DEF Begin

\* The outputs of a command have paths of their own whenever its inputs
\* differ in their names: the condition of the theorems above, as a user
\* meets it.
THEOREM NamesSuffice == Spec => [](DifferentNames => OutputsApart)
  <1>1. Init => JobInputs
    BY EmptySeq DEF Init, NoJob, Job, JobInputs
  <1>2. IInv /\ JobInputs /\ [Next]_vars => JobInputs'
    <2>1. ASSUME IInv, JobInputs, Run \/ Kill
          PROVE  JobInputs'
      BY <2>1, JobIsSteady DEF IInv, Steady, JobInputs
    <2>2. QED
      BY <2>1, BeginInputs DEF Next, vars, JobInputs
  <1>3. IInv /\ JobInputs => (DifferentNames => OutputsApart)
    <2> SUFFICES ASSUME IInv, JobInputs, DifferentNames,
                        NEW j \in DOMAIN job.labels, NEW k \in DOMAIN job.labels,
                        OutputPath(j) = OutputPath(k)
                 PROVE  j = k
      BY DEF OutputsApart
    <2>1. CASE ~job.multi
      BY <2>1 DEF JobInputs, IInv, JobShape
    <2>2. CASE job.multi
      <3>1. \A i \in DOMAIN job.labels :
                /\ job.labels[i] \in Path /\ Basenames[i] = <<job.labels[i].base, job.labels[i].tags>>
                /\ OutputPath(i).base = job.labels[i].base /\ OutputPath(i).tags = job.labels[i].tags
        BY <2>2, NotPathsAssumption DEF JobInputs, Basenames, Basename, OutputPath, Path
      <3>2. Basenames[j] = Basenames[k]
        BY <3>1
      <3>3. QED
        BY <3>2 DEF DifferentNames
    <2>3. QED
      BY <2>1, <2>2
  <1>4. QED
    BY <1>1, <1>2, <1>3, CliInvariant, PTL DEF Spec
===========================================================================
