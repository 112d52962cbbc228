------------------------------- MODULE MCCli -------------------------------
(***************************************************************************)
(* Constants for the runs of Cli: two configuration files a and b, and     *)
(* archives; or two files of the same name in different directories.       *)
(***************************************************************************)
EXTENDS Cli, FiniteSets

CONSTANTS pw1, pw2

P(dir, base, tags) == [dir |-> dir, base |-> base, tags |-> tags]

InA == P("in", "a", <<>>)
InB == P("in", "b", <<>>)
Key == P("in", "key", <<>>)

\* A whole archive, with members nobody reads and an older bigip; one
\* without bigip_base; one whose bigip is a link; and no archive.
Backup  == P("in", "backup", <<"ucs">>)
Partial == P("in", "partial", <<"ucs">>)
Linked  == P("in", "linked", <<"ucs">>)
Renamed == P("in", "renamed", <<"ucs">>)

File(label, content) == [label |-> label, content |-> <<"text", content>>, good |-> TRUE]
Link(label)          == [File(label, "target") EXCEPT !.good = FALSE]

MCInitialFiles ==
    [p \in {InA, InB, Backup, Partial, Linked, Renamed} |->
        CASE p = Backup  -> Archive(<<File(Member("bigip_user"), "user"),
                                      File(Member("bigip"), "old"), Link(Member("license")),
                                      File(Member("bigip"), "main"),
                                      File(Member("bigip_base"), "base")>>)
          [] p = Partial -> Archive(<<File(Member("bigip"), "main")>>)
          [] p = Linked  -> Archive(<<File(Member("bigip_base"), "base"), Link(Member("bigip"))>>)
          [] OTHER       -> <<"text", p.base>>]
MCStdText      == <<"text", "stdin">>

Args(inputs, output, output_dir, answer) ==
    [inputs |-> inputs, output |-> output, output_dir |-> output_dir, answer |-> answer,
     force |-> FALSE, allow_incomplete |-> FALSE, strict |-> FALSE, dry_run |-> FALSE,
     passphrase |-> pw1]

WithForce(args) == {[a EXCEPT !.force = f] : a \in args, f \in BOOLEAN}

\* One file; two files; standard input; archives; arguments that are
\* refused.
Single == Args(<<InA>>, None, None, Key)
Both   == Args(<<InA, InB>>, None, "out", Key)
Ucs    == Args(<<Backup>>, None, "out", Key)
MCObfuscations ==
    WithForce({Single, Both, [Single EXCEPT !.inputs = <<Std>>]})
        \cup {[Single EXCEPT !.strict = TRUE], [Both EXCEPT !.dry_run = TRUE, !.output_dir = None],
              [Single EXCEPT !.answer = None, !.allow_incomplete = TRUE],
              [Both EXCEPT !.output_dir = None]}
        \cup {[Ucs EXCEPT !.inputs = i] :
                  i \in {<<Backup>>, <<Partial>>, <<Linked>>, <<Renamed>>, <<Backup, InA>>}}
        \cup {[Ucs EXCEPT !.output = P("out", "a", <<>>)], [Ucs EXCEPT !.output_dir = None],
              [Ucs EXCEPT !.force = TRUE]}
MCDeobfuscations ==
    {Args(<<P("in", "a", <<"sanitized">>)>>, None, None, Key),
     [Args(<<P("in", "a", <<"sanitized">>)>>, None, None, Key) EXCEPT !.passphrase = pw2],
     [Args(<<P("out", "a", <<>>), P("out", "b", <<>>)>>, None, "back", Key) EXCEPT !.force = TRUE],
     Args(<<P("out", "b", <<>>), P("out", "a", <<>>)>>, None, "back", Key),
     Args(<<P("out", "bigip_base", <<>>), P("out", "bigip", <<>>), P("out", "bigip_user", <<>>)>>,
          None, "back", Key),
     Args(<<Std>>, P("in", "plain", <<>>), None, Key)}

\* Two inputs of one name, from two directories.
MCInitialTwins == [p \in {InA, P("other", "a", <<>>)} |-> <<"text", p.dir>>]
MCTwins        == {Args(<<InA, P("other", "a", <<>>)>>, None, "out", Key)}
MCNone         == {}
===========================================================================
