-------------------------------- MODULE Cli --------------------------------
(***************************************************************************)
(* The two commands of veil (src/src/veil/cli.py) and the files they leave *)
(* on disk.  `veil obfuscate` writes the answer file, which is the key to  *)
(* its sanitized output, and then the output; `veil deobfuscate` reads     *)
(* both and writes the restored files.  A command may be killed between    *)
(* any two file operations, and every file operation may fail.             *)
(*                                                                         *)
(* A command is one pass over the program counter pc: "decide" (obfuscate  *)
(* has scanned and substituted), "passphrase", "answer" (write the answer  *)
(* file, or read it), "tmp" and "replace" (the atomic write), "mkdir",     *)
(* "output" and "filling" (one output file after the other), "idle".       *)
(*                                                                         *)
(* A path is [dir, base, tags]: tags stands for the parts of the name that *)
(* the program appends or looks at (.sanitized, .restored, .tmp, .ucs).    *)
(*                                                                         *)
(* An input of obfuscate may be a UCS archive, a backup of the appliance:  *)
(* its configurations (src/src/veil/ucs_archive.py) are then the inputs.   *)
(***************************************************************************)
EXTENDS Naturals, Sequences, SequencesExt

CONSTANTS
    Obfuscations,       \* the argument lists obfuscate may be given
    Deobfuscations,     \* the argument lists deobfuscate may be given
    InitialFiles,       \* the files there are before the first command
    StdText,            \* what standard input holds
    Std,                \* the argument "-"
    None,               \* an option that is not given
    MaxCommands         \* bound of the model: how many commands are run

VARIABLES
    files,      \* path -> content, for the files that exist
    pc,         \* where the running command is
    job,        \* its arguments and local variables
    begun,      \* how many commands were begun; it numbers the keys
    exit,       \* the exit code of the last command
    before,     \* history: the files when the last command began
    given_up    \* history: the keys whose answer file --force replaced

vars == <<files, pc, job, begun, exit, before, given_up>>

\* The names in a path; those of the program are spelled out.
Names == STRING \cup {"config", "bigip_base", "bigip", "bigip_user",
                      "ucs", "sanitized", "restored", "tmp"}
Path  == [dir : Names, base : Names, tags : Seq(Names)]

ASSUME BoundAssumption == MaxCommands \in Nat
ASSUME NotPathsAssumption == Std \notin Path /\ None \notin Names
ASSUME ArgumentsAssumption ==
    \A args \in Obfuscations \cup Deobfuscations :
        /\ args.inputs \in Seq(Path \cup {Std})
        /\ args.answer \in Path \cup {None} /\ args.output_dir \in Names \cup {None}
        /\ args.force \in BOOLEAN /\ args.dry_run \in BOOLEAN
\* No file is of veil's own making before the first command.
ASSUME FilesAssumption ==
    /\ StdText[1] = "text"
    /\ DOMAIN InitialFiles \subseteq Path
    /\ \A path \in DOMAIN InitialFiles :
          \/ InitialFiles[path][1] = "text"
          \/ /\ InitialFiles[path][1] = "archive"
             /\ InitialFiles[path][2] \in Seq(Range(InitialFiles[path][2]))
             /\ \A k \in DOMAIN InitialFiles[path][2] :
                   InitialFiles[path][2][k].content[1] = "text"

---------------------------------------------------------------------------
(* Contents of files.  Text, ledgers and encryption are other modules'     *)
(* matter: what counts here is which key a content belongs to.             *)
Sanitized(text, key)            == <<"sanitized", text, key>>
Answer(key, passphrase, names)  == <<"answer", key, passphrase, names>>
Truncated(content)              == <<"truncated", content>>
\* reverse_substitute with the key of another run: something else.
Garbled                         == <<"garbled">>
\* A member is [label, content, good]; good says that it is a regular file,
\* not too large, and UTF-8.
Archive(members)                == <<"archive", members>>

IsSanitized(content) == content[1] = "sanitized"
IsAnswer(content)    == content[1] = "answer"
IsArchive(content)   == content[1] = "archive"

Restored(content, key) ==
    IF IsSanitized(content) /\ content[3] = key THEN content[2] ELSE Garbled

Exists(path) == path \in DOMAIN files

\* Assignment to a dictionary key, and its removal.
Bind(f, key, value) ==
    [x \in DOMAIN f \cup {key} |-> IF x = key THEN value ELSE f[x]]
Without(f, key) == [x \in DOMAIN f \ {key} |-> f[x]]

---------------------------------------------------------------------------
(* Names of files. *)
Tagged(path, tag) == [path EXCEPT !.tags = Append(@, tag)]
TmpOf(path)       == Tagged(path, "tmp")
Basename(path)    == IF path = Std THEN <<"-", <<>>>> ELSE <<path.base, path.tags>>

\* _derive_obfuscate_output and _derive_deobfuscate_output.
Derived(cmd, path) ==
    IF path = Std THEN Std
    ELSE IF cmd = "obfuscate" THEN Tagged(path, "sanitized")
    ELSE IF path.tags # <<>> /\ Last(path.tags) = "sanitized"
        THEN Tagged([path EXCEPT !.tags = Front(@)], "restored")
        ELSE Tagged(path, "restored")

---------------------------------------------------------------------------
(* Archives. *)
Member(name) == [dir |-> "config", base |-> name, tags |-> <<>>]

\* CONFIG_MEMBERS_REQUIRED and CONFIG_MEMBERS, in the order of the scan.
RequiredMembers == <<Member("bigip_base"), Member("bigip")>>
ConfigMembers   == Append(RequiredMembers, Member("bigip_user"))

NamedUcs(path)  == path # Std /\ path.tags # <<>> /\ Last(path.tags) = "ucs"
IsUcsFile(path) == NamedUcs(path) /\ Exists(path) /\ IsArchive(files[path])

Labels(archive) == {member.label : member \in Range(archive[2])}
Extractable(archive) ==
    /\ \A member \in Range(archive[2]) : member.label \in Range(ConfigMembers) => member.good
    /\ Range(RequiredMembers) \subseteq Labels(archive)

\* A mutation of MemberContent: the earlier of two members counts.
MemberContent_First(archive, label) ==
    archive[2][SelectInSeq(archive[2], LAMBDA member : member.label = label)].content

\* Of two members with one name the later one counts.
MemberContent(archive, label) ==
    archive[2][SelectLastInSeq(archive[2], LAMBDA member : member.label = label)].content

\* The configurations that are there, in the order of the scan.
ExtractedLabels(archive) ==
    IF Range(ConfigMembers) \subseteq Labels(archive) THEN ConfigMembers ELSE RequiredMembers

---------------------------------------------------------------------------
(* The arguments of a command. *)
Multi(args) == Len(args.inputs) > 1

\* _validate_obfuscate_output_flags, and the same tests in _cmd_deobfuscate.
OutputFlagsOK(args) ==
    IF Multi(args)
        THEN /\ args.output = None
             /\ args.output_dir # None \/ args.dry_run
             /\ Std \notin Range(args.inputs)
        ELSE args.output_dir = None

\* obfuscate takes an archive for what it holds; deobfuscate knows of none.
Expands(cmd, args) ==
    cmd = "obfuscate" /\ \E k \in DOMAIN args.inputs : IsUcsFile(args.inputs[k])

\* _maybe_expand_ucs_inputs: one archive, no other input, several outputs;
\* and no file that only has the name of an archive.
ArgumentsOK(cmd, args) ==
    IF Expands(cmd, args)
        THEN ~Multi(args) /\ args.output = None /\ (args.output_dir # None \/ args.dry_run)
        ELSE /\ cmd = "obfuscate" => \A k \in DOMAIN args.inputs : ~NamedUcs(args.inputs[k])
             /\ OutputFlagsOK(args)

\* Except for its members an archive is not UTF-8.
ReadableFile(path) == Exists(path) /\ ~IsArchive(files[path])
Readable(cmd, args) ==
    IF Expands(cmd, args) THEN Extractable(files[args.inputs[1]])
    ELSE \A k \in DOMAIN args.inputs : args.inputs[k] = Std \/ ReadableFile(args.inputs[k])

\* sources_data: a label and a content for each source.
SourceLabels(cmd, args) ==
    IF Expands(cmd, args) THEN ExtractedLabels(files[args.inputs[1]]) ELSE args.inputs
SourceContent(cmd, args, label) ==
    IF Expands(cmd, args) THEN MemberContent(files[args.inputs[1]], label)
    ELSE IF label = Std THEN StdText
    ELSE files[label]

---------------------------------------------------------------------------
(* What a command works on once its sources are read. *)
Job(cmd, args, multi, labels, contents, key) ==
    [cmd |-> cmd, args |-> args, multi |-> multi, labels |-> labels,
     contents |-> contents, key |-> key, next |-> 1]

NoJob == Job("none", None, FALSE, <<>>, <<>>, 0)
\* A command that has read nothing.
EmptyJob(cmd, args) == Job(cmd, args, FALSE, <<>>, <<>>, 0)

NewJob(cmd, args) ==
    LET labels == SourceLabels(cmd, args) IN
    Job(cmd, args, Multi(args) \/ Expands(cmd, args), labels,
        [k \in DOMAIN labels |-> SourceContent(cmd, args, labels[k])],
        IF cmd = "obfuscate" THEN begun + 1 ELSE 0)

Basenames == [k \in DOMAIN job.labels |-> Basename(job.labels[k])]

\* The k-th output.
OutputPath(k) ==
    IF job.multi THEN [job.labels[k] EXCEPT !.dir = job.args.output_dir]
    ELSE IF job.args.output # None THEN job.args.output
    ELSE Derived(job.cmd, job.args.inputs[1])

\* The output that would be overwritten.
OutputExists ==
    \E k \in DOMAIN job.labels : OutputPath(k) # Std /\ Exists(OutputPath(k))

---------------------------------------------------------------------------
\* How a shell reports a process that was killed.
Killed == 137

Init ==
    /\ files = InitialFiles /\ before = InitialFiles
    /\ pc = "idle" /\ job = NoJob /\ begun = 0 /\ exit = 0 /\ given_up = {}

Goto(label) == pc' = label /\ UNCHANGED exit
Exit(code)  == pc' = "idle" /\ exit' = code

\* A file is replaced, and with --force the answer file it may have been.
Put(path, content) ==
    /\ files' = Bind(files, path, content)
    /\ given_up' = IF job.args.force /\ Exists(path) /\ IsAnswer(files[path])
                       THEN given_up \cup {files[path][2]} ELSE given_up

\* Up to the passphrase, or for obfuscate the decision to write: argument
\* errors (an archive that cannot even be opened counts as a file with a
\* false name), unreadable input, and an exception that nothing catches (a
\* traceback, exit code 1): text that is not UTF-8, an archive that ends in
\* the middle, and what scan or substitute raise.
Begin(cmd, args) ==
    /\ pc = "idle" /\ begun < MaxCommands
    /\ begun' = begun + 1
    /\ before' = files
    /\ \/ /\ ~ArgumentsOK(cmd, args) \/ Expands(cmd, args)
          /\ job' = EmptyJob(cmd, args) /\ Exit(2)
       \/ /\ ArgumentsOK(cmd, args)
          /\ job' = EmptyJob(cmd, args) /\ (Exit(1) \/ Exit(3))
       \/ /\ ArgumentsOK(cmd, args) /\ Readable(cmd, args)
          /\ job' = NewJob(cmd, args)
          /\ Goto(IF cmd = "obfuscate" THEN "decide" ELSE "passphrase")
    /\ UNCHANGED <<files, given_up>>

\* A mutation of Decide: only the output files are looked for.
Decide_OutputsOnly(diag, leak) ==
    /\ pc = "decide"
    /\ LET args == job.args IN
       IF args.dry_run THEN Exit(0)
       ELSE IF diag /\ ~args.allow_incomplete THEN Exit(1)
       ELSE IF leak /\ args.strict THEN Exit(5)
       ELSE IF args.answer = None THEN Exit(2)
       ELSE IF ~args.force /\ OutputExists THEN Exit(2)
       ELSE Goto("passphrase")
    /\ UNCHANGED <<files, job, begun, before, given_up>>

\* obfuscate, between the substitution and the passphrase: diag says that
\* there are diagnostics, leak that the leak detector found something.
Decide(diag, leak) ==
    /\ pc = "decide"
    /\ LET args == job.args IN
       IF args.dry_run THEN Exit(0)
       ELSE IF diag /\ ~args.allow_incomplete THEN Exit(1)
       ELSE IF leak /\ args.strict THEN Exit(5)
       ELSE IF args.answer = None THEN Exit(2)
       ELSE IF ~args.force /\ (Exists(args.answer) \/ OutputExists)
           THEN Exit(2)
       ELSE Goto("passphrase")
    /\ UNCHANGED <<files, job, begun, before, given_up>>

\* A mutation of GetPassphrase: the output is written before the answer file.
GetPassphrase_OutputFirst ==
    /\ pc = "passphrase"
    /\ Goto(IF job.cmd = "obfuscate" THEN "mkdir" ELSE "answer") \/ Exit(2) \/ Exit(3)
    /\ UNCHANGED <<files, job, begun, before, given_up>>

\* The prompt may be cancelled (2), the passphrase file unreadable (3).
GetPassphrase ==
    /\ pc = "passphrase"
    /\ Goto("answer") \/ Exit(2) \/ Exit(3)
    /\ UNCHANGED <<files, job, begun, before, given_up>>

AnswerContent ==
    Answer(job.key, job.args.passphrase,
           IF job.multi THEN Basenames ELSE None)

\* A mutation of OpenTmp: the answer file is written in place.
OpenTmp_InPlace ==
    /\ pc = "answer" /\ job.cmd = "obfuscate"
    /\ Put(job.args.answer, Truncated(AnswerContent)) /\ Goto("tmp")
    /\ UNCHANGED <<job, begun, before>>

\* write_answer_file: _atomic_write.
OpenTmp ==
    /\ pc = "answer" /\ job.cmd = "obfuscate"
    /\ Put(TmpOf(job.args.answer), Truncated(AnswerContent)) /\ Goto("tmp")
    /\ UNCHANGED <<job, begun, before>>

FillTmp ==
    /\ pc = "tmp"
    /\ Put(TmpOf(job.args.answer), AnswerContent) /\ Goto("replace")
    /\ UNCHANGED <<job, begun, before>>

\* os.replace is atomic.
ReplaceAnswer ==
    /\ pc = "replace"
    /\ files' = Without(Bind(files, job.args.answer, AnswerContent), TmpOf(job.args.answer))
    /\ given_up' = IF job.args.force /\ Exists(job.args.answer) /\ IsAnswer(files[job.args.answer])
                       THEN given_up \cup {files[job.args.answer][2]} ELSE given_up
    /\ Goto("mkdir")
    /\ UNCHANGED <<job, begun, before>>

\* _atomic_write removes its temporary file when something failed, and
\* ignores a failure to remove it.
FailAnswer ==
    /\ pc \in {"answer", "tmp", "replace"} /\ job.cmd = "obfuscate"
    /\ files' = files \/ files' = Without(files, TmpOf(job.args.answer))
    /\ Exit(3)
    /\ UNCHANGED <<job, begun, before, given_up>>

\* deobfuscate: read_answer_file, the test of the recorded sources, and the
\* test of the existing outputs.
ReadAnswer ==
    /\ pc = "answer" /\ job.cmd = "deobfuscate"
    /\ LET args   == job.args
           answer == files[args.answer] IN
       IF ~Exists(args.answer) THEN Exit(3) /\ UNCHANGED job
       ELSE IF ~IsAnswer(answer) THEN Exit(3) /\ UNCHANGED job
       ELSE IF answer[3] # args.passphrase THEN Exit(4) /\ UNCHANGED job
       ELSE IF answer[4] # None /\ answer[4] # Basenames THEN Exit(2) /\ UNCHANGED job
       ELSE IF ~args.force /\ OutputExists THEN Exit(2) /\ UNCHANGED job
       ELSE Goto("mkdir") /\ job' = [job EXCEPT !.key = answer[2]]
    /\ UNCHANGED <<files, begun, before, given_up>>

\* The output directory, in multi-file mode.
MakeDir ==
    /\ pc = "mkdir"
    /\ Goto("output") \/ (job.multi /\ Exit(3))
    /\ UNCHANGED <<files, job, begun, before, given_up>>

OutputContent ==
    IF job.cmd = "obfuscate" THEN Sanitized(job.contents[job.next], job.key)
    ELSE Restored(job.contents[job.next], job.key)

NextOutput == OutputPath(job.next)

\* The outputs are written one after the other, each in place: open
\* truncates the file, write fills it.  "-" writes to standard output.
OpenOutput ==
    /\ pc = "output" /\ job.next <= Len(job.contents)
    /\ NextOutput # Std
    /\ Put(NextOutput, Truncated(OutputContent)) /\ Goto("filling")
    /\ UNCHANGED <<job, begun, before>>

\* Mutations of FillOutput: the same output again, and every other one.
FillOutput_Stuck ==
    /\ pc = "filling"
    /\ Put(NextOutput, OutputContent) /\ Goto("output")
    /\ UNCHANGED <<job, begun, before>>
FillOutput_SkipsOne ==
    /\ pc = "filling"
    /\ Put(NextOutput, OutputContent) /\ Goto("output")
    /\ job' = [job EXCEPT !.next = @ + 2]
    /\ UNCHANGED <<begun, before>>

FillOutput ==
    /\ pc = "filling"
    /\ Put(NextOutput, OutputContent) /\ Goto("output")
    /\ job' = [job EXCEPT !.next = @ + 1]
    /\ UNCHANGED <<begun, before>>

PrintOutput ==
    /\ pc = "output" /\ job.next <= Len(job.contents)
    /\ NextOutput = Std
    /\ job' = [job EXCEPT !.next = @ + 1]
    /\ UNCHANGED <<files, pc, begun, exit, before, given_up>>

\* Mutations of FailOutput: the error is swallowed, by either command or by
\* deobfuscate alone.
FailOutput_RestoreSwallowed ==
    /\ pc = "filling" \/ (pc = "output" /\ job.next <= Len(job.contents))
    /\ Exit(IF job.cmd = "deobfuscate" THEN 0 ELSE 3)
    /\ UNCHANGED <<files, job, begun, before, given_up>>
FailOutput_Swallowed ==
    /\ pc = "filling" \/ (pc = "output" /\ job.next <= Len(job.contents))
    /\ Exit(0)
    /\ UNCHANGED <<files, job, begun, before, given_up>>

FailOutput ==
    /\ pc = "filling" \/ (pc = "output" /\ job.next <= Len(job.contents))
    /\ Exit(3)
    /\ UNCHANGED <<files, job, begun, before, given_up>>

\* A mutation of Finish: --strict is honoured after the fact.
Finish_LateLeak ==
    /\ pc = "output" /\ job.next > Len(job.contents)
    /\ Exit(0) \/ (job.cmd = "obfuscate" /\ job.args.strict /\ Exit(5))
    /\ UNCHANGED <<files, job, begun, before, given_up>>

Finish ==
    /\ pc = "output" /\ job.next > Len(job.contents)
    /\ Exit(0)
    /\ UNCHANGED <<files, job, begun, before, given_up>>

\* The process is killed.
Kill ==
    /\ pc # "idle"
    /\ Exit(Killed)
    /\ UNCHANGED <<files, job, begun, before, given_up>>

\* What the process does by itself.
Run ==
    \/ \E diag, leak \in BOOLEAN : Decide(diag, leak)
    \/ GetPassphrase
    \/ OpenTmp \/ FillTmp \/ ReplaceAnswer \/ FailAnswer
    \/ ReadAnswer
    \/ MakeDir
    \/ OpenOutput \/ FillOutput \/ PrintOutput \/ FailOutput
    \/ Finish

Next ==
    \/ \E args \in Obfuscations : Begin("obfuscate", args)
    \/ \E args \in Deobfuscations : Begin("deobfuscate", args)
    \/ Run
    \/ Kill

\* A process that is not killed goes on.
Spec == Init /\ [][Next]_vars /\ WF_vars(Run)

---------------------------------------------------------------------------
TypeOK ==
    /\ pc \in {"idle", "decide", "passphrase", "answer", "tmp", "replace",
               "mkdir", "output", "filling"}
    /\ exit \in 0 .. 5 \cup {Killed}
    /\ begun \in 0 .. MaxCommands
    /\ job.cmd \in {"none", "obfuscate", "deobfuscate"}
    /\ job.args \in Obfuscations \cup Deobfuscations \cup {None}
    /\ job.key \in 0 .. begun
    /\ job.next \in 1 .. Len(job.contents) + 1
    /\ given_up \subseteq 1 .. begun

IsTmp(path) == path.tags # <<>> /\ Last(path.tags) = "tmp"

\* The keys on disk, and the keys that some sanitized file, whole or
\* truncated, needs.
KeysOnDisk == {files[p][2] : p \in {q \in DOMAIN files : IsAnswer(files[q])}}
Whole(content) == IF content[1] = "truncated" THEN content[2] ELSE content
KeysNeeded ==
    {Whole(files[p])[3] : p \in {q \in DOMAIN files : IsSanitized(Whole(files[q]))}}

\* Crash safety: whatever is killed or fails, and whenever, a sanitized file
\* on disk has its answer file on disk, unless --force replaced that one.
KeyOnDisk == KeysNeeded \subseteq KeysOnDisk \cup given_up

\* An answer file is at no moment missing or half-written: a reader finds
\* the old one or the new one.
AnswerAtomic ==
    [][\A p \in DOMAIN files :
          IsAnswer(files[p]) /\ ~IsTmp(p) => p \in DOMAIN files' /\ IsAnswer(files'[p])]_files

\* Without --force no file that existed when the command began is touched,
\* the temporary file apart, however the command ends.
OldFilesKept ==
    job.cmd # "none" /\ ~job.args.force =>
        \A p \in DOMAIN before : IsTmp(p) \/ (Exists(p) /\ files[p] = before[p])

\* A command that refuses (fail-closed, argument error, wrong passphrase,
\* leak) has written nothing, and neither has a dry run.
RefusalWritesNothing ==
    pc = "idle" /\ (exit \in {1, 2, 4, 5} \/ (exit = 0 /\ job.cmd = "obfuscate" /\ job.args.dry_run))
        => files = before

\* Exit code 0 of obfuscate means that every input can be recovered: its
\* sanitized form is where it belongs, and so is the key.
SuccessIsDecodable ==
    pc = "idle" /\ exit = 0 /\ job.cmd = "obfuscate" /\ ~job.args.dry_run =>
        /\ Exists(job.args.answer) /\ files[job.args.answer] = AnswerContent
        /\ \A k \in DOMAIN job.contents :
              OutputPath(k) # Std =>
                  /\ Exists(OutputPath(k))
                  /\ files[OutputPath(k)] = Sanitized(job.contents[k], job.key)

\* Exit code 0 of obfuscate with an archive means that every configuration
\* which unpacking the archive would leave (the last member of each name)
\* can be recovered from the output directory.
ArchiveRecovered ==
    pc = "idle" /\ exit = 0 /\ job.cmd = "obfuscate" /\ ~job.args.dry_run =>
        \A path \in Range(job.args.inputs) \cap DOMAIN before :
            LET members == before[path][2]
                out(i)  == [members[i].label EXCEPT !.dir = job.args.output_dir]
            IN  IsArchive(before[path]) =>
                    \A i \in DOMAIN members :
                        /\ members[i].label \in Range(ConfigMembers)
                        /\ \A j \in DOMAIN members : j > i => members[j].label # members[i].label
                        => /\ Exists(out(i))
                           /\ files[out(i)] = Sanitized(members[i].content, job.key)

\* Exit code 0 of deobfuscate means that every sanitized file of the answer
\* file's run was turned back into its original.
SuccessRestores ==
    pc = "idle" /\ exit = 0 /\ job.cmd = "deobfuscate" =>
        \A k \in DOMAIN job.contents :
            LET out     == OutputPath(k)
                content == job.contents[k]
            IN  out # Std /\ IsSanitized(content) /\ content[3] = job.key =>
                    Exists(out) /\ files[out] = content[2]

\* A command ends, one way or another.
Finishes == pc # "idle" ~> pc = "idle"
===========================================================================
