# Verification of f5-veil

f5-veil replaces the identifiers of a BIG-IP configuration by placeholders, so
that the configuration can be shown to others, and puts them back afterwards.
The answer file, written by `veil obfuscate` next to the sanitized output, is
the only key. This directory holds TLA+ models of the program, the TLC
configurations that check them on small instances, and proofs checked by TLAPS
of what holds for instances of any size. All paths below are relative to the
repository; `src/veil/x.py` is shortened to `x.py`.

Contents: [the system](#the-system), [what could go wrong](#what-could-go-wrong),
[modules](#the-modules), [runs](#the-runs), [disagreements](#where-code-and-documents-disagree),
[proofs](#what-is-proved), [what is left out](#what-is-not-modelled), [plan](#plan).

## The system

The program is sequential: one process, one thread, no callbacks. What makes it
hard is that several independent passes must agree about the same text, that
pass 2 must have an inverse which sees only its output, that allocators run out,
and that two files on disk are worth nothing without each other.

| component | state | operations | calls |
|---|---|---|---|
| ledger (`ledger.py`, class `Ledger`) | `entries`, `by_original`, `counters`, `_frozen`, references | `intern`, `intern_ipaddr`, `intern_session_namespace_word`, `intern_timestamp`, `intern_irule_ident`, `intern_partition`, `mark_session_ns_unsafe`, `record_reference`, `freeze` | the allocators |
| IPv4 allocator | `subnet_map`, `next_subnet_idx`, `used`, `collapsed_sources` | `allocate`, `_fallback` | |
| IPv6 allocator | `subnet_map`, `next_subnet_idx`, `used` | `allocate` | |
| session vocabulary | `_session_ns_unsafe`, `_session_ns_assigned_count` | `_next_session_ns_placeholder`, the pre-scan | |
| scanner (`scanner.py`) | position, depth, `Diagnostics` | `scan`, `scan_many`, header matching, the order of the walkers | ledger, walkers |
| walkers (`*_discovery.py`) | position, depth | `discover_*` | ledger |
| substitution (`substitute.py`) | position, depth, `rule_entry_depth`, output, `Diagnostics` | `substitute`, `reverse_substitute`, the substring walker | ledger |
| tokenizer (`tokenizer.py`) | position | `tokenize` | |
| leak detector (`leak_detector.py`) | none | `scan_leaks` | |
| answer file (`answer_file.py`) | a file | `write_answer_file`, `read_answer_file` | ledger |
| UCS archives (`ucs_archive.py`) | none | selection of members | |
| command line (`cli.py`) | files on disk | `obfuscate`, `deobfuscate` | all of the above |

`veil obfuscate` reads every input, calls `scan_many` (all walkers on the first
file, then all on the second, with one ledger), calls `substitute` on each file,
asks the leak detector, refuses if there are diagnostics, and then writes the
answer file and the outputs, in this order. `veil deobfuscate` reads the answer
file, rebuilds the ledger and calls `reverse_substitute` on each input.

What makes each part correct:

* **ledger**: the two dictionaries are inverse to each other, nothing is changed
  or removed, nothing is added after the freeze; each partition a path mentions is
  an entry itself; numbers of a kind are consecutive, because the counter is not
  stored in the answer file.
* **allocators**: no two originals share a placeholder; structure is kept where
  no collapse is recorded; no usable slot is lost.
* **scanner, walkers and substitution together**: what is written can be turned
  back into what was read, nothing entered in the ledger can still be read, and
  the passes agree about where rules, comments and descriptions are.
* **command line**: a sanitized file is never on disk without its key, whatever
  is killed or fails; a refusal writes nothing; success means that the inputs can
  be recovered.

## What could go wrong

`PROJECT.json` lists the hazards one by one with their lines. They are of six kinds.

1. *Crashes between writes* (`cli.py:322-350`, `answer_file.py:272-283`). `Cli`
   kills the process between any two file operations and lets each of them fail.
2. *Exhaustion and wrap-around* of the documentation networks, the session
   vocabulary and the sixty seconds of a timestamp (`ledger.py:568-596, 633-647,
   759-824`). The runs are small enough for all three to run out.
3. *Originals that meet*: in one text (`bob` and `bobby`), as two spellings of one
   address, or as a rewritten identifier that equals a vocabulary word.
4. *Passes that cut the text independently*: brace counting in
   `irule_comment_discovery.py:63-115` and `substitute.py:166-228`, braced
   descriptions in `description_discovery.py:117-156` and `substitute.py:368-474`.
5. *State read too early*: the orphan check after every file
   (`substitute.py:231`), the test for existing files before the passphrase prompt, the
   walkers that look at what earlier walkers and earlier files have put into the ledger
   (`scanner.py:310-352`, `irule_tcl_literal_discovery.py:507-589`), the report of
   collapsed nets (`ip_discovery.py:155-158`).
6. *Expressions that should agree*: pass 1, the word boundaries of pass 2 and the leak
   detector each decide where an address or a name ends (`fqdn_discovery.py:67-76`,
   `substitute.py:85-100`, `leak_detector.py:87-141`).

## The modules

| module | models | extends / instantiates |
|---|---|---|
| `Book` | the dictionaries of class `Ledger` as a record, and what `intern` does to it | |
| `Codebook` | abstract specification: a growing code that is sealed once | |
| `IPv4Pool`, `IPv6Pool`, `SessionVocab` | the three allocators | |
| `Ledger` | class `Ledger`, its allocators included | `Book`; instances of the allocators and of `Codebook` |
| `AnswerFile` | the rows written for a ledger, and the ledger read from rows | `Ledger` |
| `TextWalk` | the substring walker of `substitute.py` | |
| `TokenLoop` | what the walkers share: variables, tokens, steps of a loop, calls of the ledger | `Book`, `TextWalk`; an instance of `Ledger` |
| `Discovery` | the passes 1, 1.7 and 1.8: headers of objects, descriptions, comments | `TokenLoop` |
| `BlockWalkers` | the walkers that look into blocks of one kind | `TokenLoop` |
| `Patterns` | the regular expressions of the walkers | `TokenLoop` |
| `FieldWalkers` | the walkers that look for the value of certain fields | `Patterns` |
| `LiteralWalkers` | the walkers that look for values of a certain shape, and for session words | `Patterns` |
| `Scanner` | pass 1: `scan` and `scan_many` | the three modules of walkers, `Discovery` |
| `Substitute` | pass 2 and its inverse, composed with pass 1 | `Scanner`; an instance of `Codebook` |
| `LeakDetector` | three scans of the leak detector, over what pass 2 wrote | `Substitute` |
| `Cli` | both commands and the files on disk | |
| `MC*` | constants and source files for TLC | `MCLedger` extends `AnswerFile`, `MCSubstitute` extends `LeakDetector`, the others the module they are named after |
| `IPv4PoolProofs`, `LedgerProofs`, `AnswerFileProofs`, `AllocatorProofs` | theorems about the ledger and its allocators | `IPv4Pool`, `Ledger`, `AnswerFile` |
| `SubstituteProofs`, `CommentProofs` | theorems about descriptions and comments in pass 1 and pass 2 | `Substitute` |
| `ProgramProofs` | theorems about every step of the program | `SubstituteProofs` |
| `CliProofs` | theorems about the files on disk | `Cli` |

A definition whose name ends in an underscore and a word (`FirstFree_Reused`) and
whose comment calls it a mutation is a faulty variant of the definition after it.
No specification uses it. Putting it in place of the right one makes the property
named with it in `PROJECT.json` fail: this shows that the property depends on the
code it is about.

### Ledger and its allocators

A placeholder text is a pair: `<<"POOL", 3>>` is `POOL_0003`, `<<"ipv4", <<1, 42>>>>`
is `192.0.2.42`, `<<"word", <<"foo", 1>>>>` is `foo_01`, `<<"stamp", <<y, 7>>>>` is
`y-01-01:00:00:07`. Each method of class `Ledger` is an action. A call that returns
an old placeholder changes nothing and is a stutter; a call that raises is the
action with the dictionaries unchanged and the allocator as far as it got, since
`intern_ipaddr` has asked its allocator before it can fail.

`IPv4Pool` has `NumDocs` networks of `NumHosts` addresses (3 and 256 in the code).
`AllocatePreserved` is the path of `allocate` that returns early, `AllocateFallback`
the other one, and `FirstFree` the double loop of `_fallback`. `IPv6Pool` keys a
literal by its spelling, as the ledger does. In `SessionVocab` the recursion of
`_next_session_ns_placeholder` is unrolled: a search through the current cycle from
the counter, then through each later one from its beginning, until one finds a
usable candidate. `MaxCycle` bounds the suffixes; the code has no bound.

`Ledger` does not repeat the allocators: it instantiates their modules with its own
variables. What an allocator module calls its answers (`rendered`, `minted`) is
`by_original` of the ledger, seen through a state function. `UsesVocab` states that
the ledger refines `SessionVocab`, with the entries of other kinds as `foreign`;
`IsCodebook` that it refines `Codebook`.

`AnswerFile` has no actions: `Rows` is what `dump_unsafe` hands to the writer, and
`LedgerFromEntries` what `_ledger_from_entries` makes of it. `ReadsBack` compares the two
in every state of the ledger. The reader takes the kind of an entry from its row, and the
number of its counter from the placeholder text.

### Pass 1

A source file is a sequence of tokens `[kind, text]`, as the tokenizer delivers
them, and a text is a sequence of atoms: runs of word characters and single
punctuation characters. White space between tokens is one atom. Anything that can read
like a placeholder is an atom that says what it reads like: an address is its network and
its host, `foo_01` a vocabulary word and a cycle, a timestamp its year and the moment. A
rewritten address is again an address. So the program can meet its own placeholders in
a source, and the model sees it happen.

Each step of a loop in the code is a step of the model, with the same look-ahead and the
same advance. `pass` says which loop is running, `i`, `depth` and `in_rule` are its
locals (`rule_entry_depth` is `None` or 0, since rules are only entered at depth 0). A
token in which a walker finds several values takes a step for each, counted by `j`: the
ledger is called once for each.

The block walkers of the code are functions that call each other, one for every level of
nesting, each with its own count of braces. Their control is the same in all of them, so
that a walker is a table (`RemoteRoles`, `Snmp`, ...): the header of its blocks, and for
each level the inner blocks that begin another level, the values of fields and the names
of nested blocks that it looks for. `blocks` is the stack of the running functions. The
steps (`EnterBlock`, `CountBlockBrace`, `EnterInner`, `RegisterBucket`, `DiscoverField`)
are common, and what a walker does with any other token is a step in `Scanner`.

`FieldWalkers` and `LiteralWalkers` have an operator for each walker that says what it
finds at a token and how many tokens it passes; `Loop` of `TokenLoop` is the step. The
regular expressions are predicates on the atoms of a span and of its neighbours;
`FindAll` is `re.finditer`. The lists of words in the code (built-in profiles, standard
attributes, values like `none`) are represented by a few of their members.

`Scanner` runs the walkers in the order of `scan`, file by file, after the pre-scan of all
files. The allocators are those of `Ledger`, through an instance. When one raises an
error the walkers of addresses and timestamps do not catch it, and the program ends
(`Aborts`).

### Pass 2 and the leak detector

`substitute` runs on each file with the orphan check at its end, then
`reverse_substitute` on what was written.

`Emitted` is `_emit_token`: first the exact match, by kinds in the order of the
enum, then the walk. `ForwardForms` is the table of
`_build_substring_render_map`: for a path the text itself, the colon form of the
file store, and the leaf alone when it looks like a domain name. `ReverseForms` is
its inverse, and `ReverseKey` stands for the three tables of exact matches.
The tables of the code are sorted by length; `Preferred` picks the longest form
that fits, and of two equal ones the older. At one position any two forms that fit
are prefixes of one another, so that counting atoms gives the order that counting
characters does. The walk itself is written without recursion: of all the spans that some
form fits (`Matches`), `Taken` are those that a scan from left to right takes, the longest
where one begins and then the next behind its end, and `Replaced` is the text with these
rewritten. `FindAll`, for the expressions of pass 1, is the same scan. The form of a host name may be followed by an underscore, as in the
names of the file store: `Bounds` is the test of both boundary sets.

`LeakDetector` has the scans for addresses and for internal names, with the boundaries of
their own expressions.

### Cli

A path is a directory, a base name and the suffixes the program appends, so that
two different arguments may denote one file. A content is its kind, and the key it
belongs to; the key of a run is its number. Each file operation is two steps where
the code's is (`open` truncates, `write` fills) and one where the system makes it
atomic (`os.replace`). `Kill` may happen at any step, the failures wherever the code
catches an `OSError`. `Begin` takes all the inputs at once: nothing is written
before they are read. An input may be a UCS archive, a sequence of members of which some
are links or too large; the configurations in it then take the place of the inputs
(`ExtractedLabels`, `MemberContent`, `ucs_archive.py:131-185`), and the refusals of
`_maybe_expand_ucs_inputs` are in `ArgumentsOK`. The diagnostics and the leaks of a run are choices. `before`
and `given_up` are history variables.

## The runs

The runs that pass explore all reachable states. Sizes are distinct states.

| run | instance | checks | states |
|---|---|---|---|
| `IPv4Pool` | 3 source nets, 2 documentation nets, 3 hosts | `Injective`, `UncollapsedNetsKeepStructure` | 20950 |
| `LedgerBook` | a kind of paths in 2 partitions, a name, 2 source nets of each family with 2 hosts, pools of one net | `BookInverse`, `BookNumbered`, `BookPartitions`, `ReadsBack`, `Ipv6StructureKept`, `AddressesAccounted`, `IsCodebook` | 610318 |
| `LedgerRendered` | 3 words for a vocabulary of 2, suffixes 0 to 2, 3 timestamps for 2 seconds, an identifier that may become a vocabulary word | `BookInverse`, `SessionWordsUsed`, `UsesVocab` | 97406 |
| `Substitute` | 214 malformed files: the block of every block walker cut off after each token, and files with fields without values, unclosed braces, bad paths | `TokensRestored`, `DescriptionsRedacted`, `PassesAgree`, `Finishes` | 51791 |
| `Literals` | 2598 lists of one or two files | `RoundTrip`, `NothingSurvives`, `CommentsKnown`, `CommentsRedacted`, `IdentifiersRewritten`, `CollapsesOfWordsReported`, `LookupsSucceed`, `NothingDetected`, `IsCodebook` | 774688 |
| `Cli` | 3 commands out of 24 argument lists, four files named as archives | `KeyOnDisk`, `AnswerAtomic`, `OldFilesKept`, `RefusalWritesNothing`, `SuccessIsDecodable`, `ArchiveRecovered`, `SuccessRestores`, `Finishes` | 101341 |

`TypeOK` of `Ledger` is checked by `LedgerBook` and not again by `LedgerRendered`, that of
`Substitute` by the run of this name, whose inputs are more unusual than those of `Literals`;
the other runs check the one of their module. `IPv6Pool` and `SessionVocab` have no runs of their own that pass: what they
promise is checked inside the ledger (`Ipv6StructureKept`, `SessionWordsUsed`), where the
other kinds compete with them.

**Why these bounds.** *IPv4Pool*: the interesting cases are a net without a documentation
net, an owner whose slot was taken, and exhaustion; two documentation nets, one net
more than that, and nine addresses for six slots give all three, and two owners are
needed for one to suffer from the other's fallback. *LedgerBook*: two paths, and kinds of
paths and of names, are needed for a number to be shared wrongly; with four addresses for
a pool of two, and four IPv6 literals and their other spellings for one documentation
net, both pools run out. *LedgerRendered*: one foreign and one unsafe word are enough to
fill a cycle of two, so that three words reach the later suffixes; with three timestamps for
two seconds the seconds run out. *Literals*: every pair of the 42 kinds of lines meets
in one iRule, and every pair of the lines with addresses and session words in two files;
the first ones share the names `bob` and `acme`, so that walkers compete for them. Eight more
lines (`BoundaryLines`) have addresses and names where one expression sees their end and
another does not: a prefix length, a URL, a range, an underscore, a hyphen; each stands by
itself and next to every line with addresses. Its one
documentation net is the net of some addresses in the source, and its vocabulary words
occur in the source, with a suffix and without. *Substitute*: all block walkers, each with
the levels its block has, and the end of the file at each place. *Cli*: three commands are
an obfuscation, a forced repetition and a deobfuscation, in any order; two inputs are
the least for which one output can fail after another; the archives are one with an older
member of the same name and members nobody reads, one that lacks a required member, one
with a link, and a text that is only named like one.

**Deadlock** is not checked: every one of these systems may stop, because a ledger is
complete, no more commands are given, or the work is done.

**Fairness.** Only `Substitute` and `Cli` state any: weak fairness of the next step of a
sequential program that is not killed (`WF_vars(Next)`, and `WF_vars(Run)`, which
does not include `Kill` or the user's next command). `Finishes` then says that no loop
stands still: each of them advances its position on every path, including those for a
token that is the last of its file.

### Properties worth a word

* `UncollapsedNetsKeepStructure` is about the allocator's set `collapsed_sources`: of two
  networks that are not in it, addresses were in one network exactly when they still are.
  That `_fallback` may take the slots of an owner does not break it, because the owner gets
  into the set when it finds its slot taken. A reader of the sanitized output sees less than
  this: the program's warning names only a part of the set (run `LateCollapses`).
* `SessionWordsUsed`: the counter of the session vocabulary is moved forward over
  slots that were found unusable, and at a turn to the start of the next cycle. A slot
  that is passed must never become usable again, or short word lists would get suffixes.
* `AddressesAccounted` is why the two "investigate allocator state" errors of
  `intern_ipaddr` cannot happen; the one inside the IPv6 allocator can, see below.
* `ReadsBack` holds because the texts `KIND_NNNN` are those of the kind they name
  (`BookKinds`), and because a number is never left out. Of the counters it compares those
  of opaque kinds: those of the others are not used for anything.
* `NothingSurvives` asks whether an original of the ledger occurs, at word boundaries, in
  any word or quoted string of any output. `NothingDetected` asks the detector instead,
  which knows nothing of the ledger and has boundaries of its own: together they say that
  what pass 1 finds goes, and that what the detector looks for is found. The three sets of
  expressions do not agree everywhere, and the places where they do not are named
  (`PassedOver`): an address that touches a word, as in `web_10.1.1.1` (`Attached`); an IPv6
  address with a prefix length, in a URL or in a string (`UnreadIpv6`, see
  below); an address of a range in a string (`InRange`); a host name next to a hyphen
  (`Hyphenated`); an address after a field such as `version`; and a string that is a
  description elsewhere. What the detector finds in an output must be what it finds in such
  a token of the source, and the sources of the run have each of them: without any one of the
  exemptions TLC finds a counterexample. Strings outside iRules, in which only the monitor
  walker looks for addresses, are checked for names only.
* `RoundTrip` compares the restored text with the source, blanks included, for
  sources that do not contain a text that reads like a placeholder and stays as it is
  (`Impostors`; of the addresses only those of documentation networks). Plain vocabulary words are no impostors: that the pre-scan of all files
  keeps them from becoming placeholders is a part of what is checked. `TokensRestored` is
  what is left of it for truncated files, in which a field may lack its value.
* `IdentifiersRewritten` depends on the order of walkers and files: the identifier walker
  of a file sees the session words of that file and of earlier ones. For a session word that
  only a later file has, the identifier stays; that is why files are given in the order
  base file, main file (`scanner.py:319-323`).
* `CollapsesReported` says what the documents say, that every collapsed net is reported when
  the files are written, and the run `LateCollapses` shows that it fails. The report is made by
  the address walker of each file; nets that a later walker collapses, from a string in an
  iRule or a monitor, are reported only if another file follows. `CollapsesOfWordsReported` is
  what remains: a net that is missing from the report has an address in a string of the last
  file. It also says that nothing of the earlier files is missing.

* `LookupsSucceed` is what stands between a walker and the error at `substitute.py:330`. A
  path is entered by one of a dozen walkers, and its partition by the same one, or by an
  earlier one of an earlier file; pass 2 meets it much later. `IsCodebook` says of the
  whole program what the run `LedgerBook` says of the ledger alone: the walkers use it
  through its methods only, in any order, and stop before pass 2.

* `KeyOnDisk` has one exception, the answer files that `--force` replaced.

## Where code and documents disagree

Each of these has a run in which TLC finds a behaviour of the code that violates what is
said of it. All were reproduced with the program itself.

| run | what happens |
|---|---|
| `IPv6Spellings` | `fc00::1` and `FC00::1` in one file: the "unexpected" collision (`ledger.py:818-822`) |
| `CliBasenames` | two inputs of one base name: one output, exit code 0 (`cli.py:88-91`) |
| `SubstituteFilters` | `(cn=bob)(ou=hr)`: the placeholders touch and are not restored (`substitute.py:23-24, 1124-1130`) |
| `SubstituteTwoFiles` | entries of the second file are reported as orphans after the first (`substitute.py:231`, `diagnostics.py:42-46`) |
| `FirstSecond` | two timestamps of a year, one of them its first second: both are restored as the other one (`timestamp_discovery.py:97-102`, `README.md:109`) |
| `LateCollapses` | a net collapsed by a string of the last file is not reported (`ip_discovery.py:155-158`, `docs/architecture.md:368-370`, `diagnostics.py:51-53`) |

Some more were met on the way and have no run of their own:

* A word of an IPv6 address and a prefix length, such as `fc00:1::5/64` in a `net self`, and a URL
  with an IPv6 address match no expression of the address walker (`ip_discovery.py:52-58`): they
  stay, and the leak detector reports them. By `ip_discovery.py:3-5` and
  `docs/architecture.md:97-99` the first one is entered, as `10.1.1.5/24` is. `NothingDetected`
  names the exemption (`UnreadIpv6`) and fails without it.
* A string that equals a description somewhere is skipped by the FQDN walker wherever it is
  written (`fqdn_discovery.py:94-96`, "already covered by DESC redaction"), and pass 2 redacts it
  only as the value of a description: a host name in a string of an iRule stays. This is an
  exemption of `NothingDetected`, too.
* The leak detector exempts placeholders by a list of kinds that lacks `MONITOR_PATH`,
  `AD_ATTR`, `AD_NETBIOS` and `UNC_PATH` (`leak_detector.py:156-172`): with `--strict`, a file
  with one of these placeholders is refused.
* `_next_unique_timestamp` calls two timestamps with one coarse form extremely rare
  (`ledger.py:634-638`); any two of a year have one, and the sixty-first ends the program.
* A description inside an iRule is entered by pass 1.7 and not replaced by pass 2
  (`description_discovery.py:78-132`, `substitute.py:192-208`): its entry is an orphan.

* The IPv4 fallback packs addresses into slots of the first three networks as well, so
  that an owner may find the slot of its host taken (`ledger.py:777-789`); by
  `docs/architecture.md:364-367` it leaves these alone. Each network
  it happens to is recorded as collapsed, which is what `UncollapsedNetsKeepStructure` is
  about.
* With `--force`, a kill between the answer file and the output leaves the output of the
  earlier run without its key; `cli.py:4-7` says that this never happens. `KeyOnDisk`
  states the exception.
* An archive that ends in the middle raises `EOFError` in `tarfile`, which
  `extract_ucs_configs` does not catch (`ucs_archive.py:122-168`): a traceback and exit code
  1, where an unreadable input gives 3. `Begin` has it among the uncaught exceptions.
* One path given as `--output` and as `--answer-file`: the output overwrites the key, and
  the exit code is 0. `SuccessIsDecodable` fails if `Cli` is given such arguments.
* A field such as `description` without a value: the white space after it is written
  twice (`KeepField`; `substitute.py:5-7, 383-390`). Hence `TokensRestored` beside
  `RoundTrip`.
* `README.md:230-231` gives 4 as the exit code for diagnostics, where `cli.py:39-44` has
  1, and 4 is a failed decryption; `docs/architecture.md:559` counts every diagnostics
  field as a reason to refuse, where `ipv4_subnet_collapsed` is a warning.

## What is proved

TLAPS checks the following for all values of the constants. The assumptions are the
`ASSUME`s of the modules, which TLC evaluates in every run: pools and vocabulary are not
empty, the kinds of the ledger are distinct, `Common` is a partition, and an identifier
is never rewritten to a text that reads like an opaque placeholder, an address or a
timestamp (`IdentAssumption`; the code rewrites identifiers by replacing session words,
`irule_tcl_literal_discovery.py`). Of the files, pass 1 is given at least one, and a file is a
sequence of tokens, possibly empty, each with a sequence of atoms as its text
(`SourceAssumption`). Of the command line: arguments are
paths or `-` (`ArgumentsAssumption`), and before the first command no file is an answer file or
an output of veil (`FilesAssumption`).

| theorem | says |
|---|---|
| `PoolTypeOK`, `PoolInjective`, `PoolKeepsStructure` | the invariants of the run `IPv4Pool`, for any number of nets and hosts |
| `LedgerTypeOK`, `LedgerInverse`, `LedgerNumbered`, `LedgerPartitions`, `LedgerAddresses` | the invariants of the two ledger runs |
| `LedgerIsCodebook` | `Spec => IsCodebook`: the ledger implements the code book |
| `AnswerReadsBack` | the ledger that is read from its rows is the ledger that was written |
| `LedgerIpv6Structure` | IPv6 literals keep their networks apart and their host parts, within the ledger |
| `LedgerUsesVocab` | `Spec => UsesVocab`: the ledger implements the session vocabulary |
| `LedgerSessionWords` | `SessionWordsUsed`: no word that could be used is passed over |
| `DescriptionsAgree` | `PassesAgree`: what pass 2 leaves of a description is an unclosed brace |
| `CommentsAreKnown` | `CommentsKnown`: pass 1.8 misses no comment that the braces of an iRule enclose |
| `ProgramInOrder` | the inductive invariant of the whole program, from which the next four follow |
| `LookupsOfSpecSucceed` | `LookupsSucceed`: what pass 2 looks up is there, whatever was entered by whom |
| `TypesOfSpec` | `TypeOK` of `Substitute`: no loop leaves its file, no block walker its table |
| `CollapsesAreReported` | `CollapsesOfWordsReported`, for any files, pools and numbers of nets |
| `ProgramIsCodebook` | `Spec => IsCodebook`: the program implements the code book |
| `CliTypeOK`, `OldFilesAreKept`, `RefusalIsHarmless`, `ArchivesAreRecovered` | `TypeOK`, `OldFilesKept`, `RefusalWritesNothing` and `ArchiveRecovered`, for any number of commands and files |
| `SuccessMeansDecodable`, `SuccessMeansRestored`, `KeysAreOnDisk`, `AnswersAreAtomic` | `SuccessIsDecodable`, `SuccessRestores`, `KeyOnDisk` and `AnswerAtomic`, under the conditions below |
| `NamesSuffice` | inputs with different base names have different outputs |

**IPv4Pool.** `Injective` is inductive with `TypeOK`. The structure property is not: it
needs that a documentation net has one owner, that the index counts the owners, and
that an answer either lies in its net's own documentation net with its host octet or
its net is recorded as collapsed. `RenderKeeps` and `RefuseKeeps` show one action each;
`ClaimKeepsOwners` is the part of both that claims a net.

**Ledger.** The inductive invariant `IInv` is `TypeOK`, the four invariants above and
nothing about the allocators beyond `AddressesAccounted`: since every `intern_*`
method looks its text up before it enters it, the dictionaries stay inverse to each
other whatever an allocator answers. The exceptions are `intern`, which does not look:
there `NumberIsFresh` derives from `BookNumbered` that the next number is new; and
the timestamps, whose search ends at a free text. `EnterKeepsInverse` is the heart: to
enter a new key with a new text keeps two dictionaries inverse. Each action has a lemma,
`StepKeeps` puts them together, and shows beside the invariant that a step only adds
entries (`Grows`), and none when the ledger is frozen, from which the refinement
follows.

**Answer file.** `ReadsBack` needs that a row determines its entry and a key its row, which
is `BookInverse`, and for the counters `BookNumbered` and `BookKinds`: the texts with the tag
of an opaque kind are those of that kind. `BookKinds` is inductive beside `IInv`; each method
enters a text whose tag is its kind, or none of the opaque ones (`AnswerKinds`).

**IPv6 within the ledger.** The pool's own state says which documentation net a source net
has (`Owners6`: no two the same), and `Placed6` ties the dictionaries to it: the literal of
an entry stands in the documentation net of its net. `Placed6` survives the other families of kinds
because they enter under other keys; `OtherKeyKeepsPlaces` is used for each of them. That
no two literals share an address then follows from `BookInverse`.

**Session words.** That the ledger refines `SessionVocab` is not a matter of looking at one action,
since the state the allocator module speaks of (`minted`, `foreign`) is a view of the dictionaries.
`WordsApart`, inductive beside `IInv`, says that the entries of kind `SESSION_NS` are vocabulary
words of session words; so the view loses nothing, and `VocabStep` maps each of the ten kinds of
steps of the ledger to a step of the vocabulary or to a stutter: an identifier that is
rewritten to a bare vocabulary word to the step that adds a foreign word, a pre-scan to the one
that marks unsafe words. For `SessionWordsUsed` the counter's arithmetic has to be done for
all sizes of the vocabulary (`Division`, `InCycle`, `CycleSlot`, `LaterCycle`). `SearchPasses` is the point of it: the slots
before the counter are taken, therefore a search that stays in its cycle passes only taken ones.

**Pass 1.7 and pass 2.** Both loops pass over the value of a description, so that a value that
is itself the word `description` is not taken for a field; but pass 2 does so only outside iRules,
and after a span in braces it goes on behind it, where pass 1.7 goes on inside. So they visit
different positions, and `PassesAgree` depends on their meeting again. `Walked(toks, V, n)` says
that `V` holds the positions of the walk of pass 1.7 up to `n` and that what it met is in the
ledger. The walk leaves out no two positions in a row (`NoTwoLeftOut`), hence it meets every
position that is not a value (`WalkMeets`), hence the one after every closing brace
(`WalkMeetsBrace`), and a brace is where pass 2 leaves an iRule and where a span ends
(`ClosingIsBrace`). The invariant `IInv` adds that every file pass 1.7 has left is complete, which
the walkers that follow, in the same file and in later ones, cannot undo, since the ledger only
grows (`FindGrows`); `Elsewhere` is what all of them have in common.

**Pass 1.8.** The walker of comments does not look for the brace that closes a rule: it counts from
the first token of the file on and leaves the rule when the count is back at one. `CommentsKnown`
speaks of the other notion, of what lies before the brace that closes the rule's own.
`Depth(toks, k)` is the count at a position, `DepthStep` says what one token does to it, and
`DepthFrom` that it is the same when it is begun at the rule. `Ruled(toks, R, n)` says that the
walk up to `n` took the positions in `R` for those of a rule and entered the comments there.
`BodyIsRuled` connects the two: the first position of a body at which the walk could have been
lost would come after a brace that closes the rule. The invariant `CInv`, inductive beside
`IInv`, has the walk of the file at hand and of each file that pass 1.8 has left (`OnTheBraces`,
`LeftFilesRuled`); the steps of all other walkers and of pass 2 are `Away`. The theorem needs that
the braces before the rule are balanced, which is what a rule at the top level means
(`InRuleBody`); of those after it, nothing.

**Command line.** The invariant `IInv` relates the files to the place where the running command is: before
the answer file nothing has changed (`OnlyMade`), from the first output on the answer file
is whole (`AnswerWritten`), the outputs before the current one are written (`OutputsWritten`),
and without `--force` the paths that are written were free when the command began
(`PathsFree`). `Known` says that what is on disk was made with keys of commands that were begun, so that
the key of the next command is new. `KeyOnDisk` speaks of the whole history; it is proved from `IInv`
with a second invariant, `KeysCovered`, and `AnswerAtomic` step by step from `IInv`. Some of the
properties have exceptions in the code, which the bounded run does not meet and the theorems
name as conditions on the running command:

* `AnswerApart`: the output is not written over the answer file of the same command. The program
  does not check this (see above).
* `OutputsApart`: no two outputs have one path. That fails for two inputs of one base name, the run
  `CliBasenames`; `NamesSuffice` shows that it fails in no other way.
* `AnswerNotTmp`: no answer file is named like the temporary file of another one, `x.tmp`.
* `NoAnswerOverwritten`: with `--force`, no output is written over an answer file.

TLC evaluated each of them in every state of the run `Cli`, where they hold: the properties that the
run checks without conditions are the conclusions of the theorems there.

**The whole program.** `ProgramProofs` goes through every action of `Substitute`, that is every
walker of pass 1, both loops of pass 2 and the inverse, with one invariant, `PInv`. TLC evaluated
it on the run `Substitute` before it was proved. Neither `LookupsSucceed` nor `TypeOK` is
inductive, and neither can be proved without parts of the other:

* What intern makes up is new only if the counters are ahead of the numbers in use
  (`CountersAhead`), and a rendered text can never be a number that is still to come, since it is no
  pair of a kind and a number (`Rendering`). The counters exist for the kinds of `KindOrder` only, so that
  every find has to have one of these (`OfKinds`); that is a lemma for each of the walkers.
* The kind a block walker enters is in the level of its table on top of its stack. So its
  frames must be levels of its own table (`BlocksOK`), every inner block must lead to another
  level of it, and every bucket to a kind: `WalkersInOrder`, a fact about the twelve tables.
* The walkers look ahead by a different number of tokens, to a value, over a header, or to the
  brace that closes a span. That the position stays in the file (`PositionOK`) needs for each
  of these that the tokens which were looked at exist; for a truncated file that is the guard, not
  the advance.
* The forms that pass 2 looks for are made from the order of insertion. Every reference it
  records is an entry only if `order` lists the entries and nothing else (`OrderOK`), and
  if what a walk takes from a text is one of its forms (`TakenMatches`, `WalkEntries`). The partition of
  an infix match is not recorded, as in the code.

`Keeps` says of a step that the table stays in order and that the entries in it keep their
meaning (`Follows`); `EnterKeeps` shows it for one entry, `InternKeeps` and `MethodKeeps` for the
methods, `FindKeeps` for what a walker does with a find. `Scans` is what a step of pass 1 may do, and `Writes` a
step of pass 2; there is a lemma that says so for every action or family of actions, and
`ScansStep` and `WritesStep` conclude from these that `PInv` is kept. For the refinement,
`Follows` and the inverse dictionaries give that a step of pass 1 is `Extend`, the change
to pass 2 is `Seal`, and all others stutter.

For `CollapsesAreReported` a second invariant, `ReportInv`, follows the nets that are collapsed and
not in the report (`Unreported`). The address walker of a file leaves none. After it, each
unreported net has an address in a string of the file at hand, since only the walkers of strings
find addresses then: of every walker there is a lemma that says so (`FieldsInStrings`,
`MonitorsInStrings`, `IrulesInStrings`, ...), and what one finds is an atom of the token it looks at
because a scan takes only what matches (`ListedMember`, `TakenMatches`). Pass 2 begins
after the last walker of the last file, so that the file at hand is then that one
(`NextWalkerReports`); and pass 2 and its inverse collapse nothing (`ReportStands`).

**Only model-checked.** Of `Substitute`: `RoundTrip`, `TokensRestored`, `DescriptionsRedacted`,
`CommentsRedacted`, `IdentifiersRewritten` and `NothingSurvives`, and `NothingDetected` of
`LeakDetector`. All of them compare the atoms of texts that were written with those of texts that were
read, and the texts are put together by the concatenation of a sequence of sequences (`FlattenSeq`): what it
yields is defined by recursion, and induction over data is beyond TLAPS here. `CommentsRedacted` and
`IdentifiersRewritten` hold besides only for sources like those of the run: a file may contain the very
text that pass 2 writes for another comment. So the proofs reach as far as what
is looked up (`CommentsKnown`, `PassesAgree`, `LookupsSucceed`), and TLC checks what is then written.
Liveness (`Finishes`) and `ENABLED` are out of reach, too.

## What is not modelled

* Characters. The tokenizer is a scanner of characters, and the models start from its tokens.
  What an escaped brace does to the count of braces is therefore not visible in them. The
  regular expressions are modelled on atoms: what they make of malformed numbers and of
  upper and lower case is left out, and of prefix lengths only whether a word with one is
  matched.
* The lists of words in the walkers are represented by some of their members, since all
  members are treated alike.
* The leak detector's scans for MAC addresses, paths and barewords. They are lists of
  words and shapes whose verdict is a heuristic; `Cli` has the verdict as a choice.
* The wording of some paths: a restored file without suffix is named a little differently from
  one with a suffix (`cli.py:625-636`), where `Derived` has one rule for both. A span that pass 2
  reports and keeps is one piece for the inverse, which in the code cuts it into tokens again;
  no source of the runs has a text in such a span that would be restored.
* Encryption and JSON, and the version numbers of the answer file: `Cli` knows whether a
  passphrase fits.
* The tar format: a member of an archive is good or not. Loss of power: files that were written are taken to stay written,
  since the program does not call `fsync`.

## Plan

Done: all the modules above and their proofs. What could follow, in this order:

1. *Tokenizer*: an algorithm over a small alphabet against a reference definition; that
   it cuts the output of pass 2 into the pieces `Substitute` assumes.
2. *Exhaustion in pass 1*: sources with more addresses than the pool of `Literals` has, with
   what each walker does then.
3. *Leak detector*: the scan for barewords on rendered placeholders.
