--------------------------- MODULE MCSubstitute ---------------------------
(***************************************************************************)
(* Source files for the runs of Substitute.  A file is a list of sections, *)
(* a section a header and a body in braces.                                *)
(***************************************************************************)
EXTENDS LeakDetector

\* The classes of atoms.
Ip(net, host)       == <<"ipv4", <<net, host>>>>
Ip6(net, host, spelling) == <<"ipv6", <<net, host, spelling>>>>
VocabWord(word, cycle) == <<"word", <<word, cycle>>>>
Cycled1             == <<"cycle", 1>>
Stamp(year, moment) == <<"stamp", <<year, moment>>>>

MCVocab  == <<"foo", "bar">>
Lits(strings) == {Lit(string) : string \in strings}
MCCommon == Word("Common")
MCPunctuation ==
    {Slash, Colon, Quote, Hash, Gap, Dot, Dash, At, Comma, Equals, Percent, Slashes}
    \cup Lits({"{", "}", "(", ")", "&", "[", "]"})
MCIndexes == {Lit("_1"), Lit("_"), Cycled1}
MCNumbers == Lits({"80", "24"})
MCInternal == Lits({"corp"})
MCTlds    == Lits({"com", "corp", "lan"})
MCUppers  == Lits({"EX", "AD"})
MCShort   == Lits({"80", "24", "x"})
MCSingles == {Lit("x")}
MCLabels  == MCNumbers \cup MCTlds \cup MCUppers \cup MCSingles
    \cup Lits({"bob", "web", "acme", "site", "session", "globex", "host"})
    \cup {VocabWord(MCVocab[n], cycle) : n \in DOMAIN MCVocab, cycle \in 0 .. 2}

W(text)  == Piece("WORD", text)
Q(text)  == Piece("QSTRING", <<Quote>> \o text \o <<Quote>>)
C(name)  == Piece("COMMENT", <<Hash, Lit(name)>>)
LB       == Piece("LBRACE", <<Lit("{")>>)
RB       == Piece("RBRACE", <<Lit("}")>>)
Ws(strings) == [n \in DOMAIN strings |-> W(Word(strings[n]))]
Section(header, body) == header \o <<LB>> \o body \o <<RB>>
Path(partition, leaf) == <<Slash, Lit(partition), Slash>> \o leaf

bob      == Lit("bob")
WebPath  == Path("Common", Word("web"))
SiteName == <<Lit("site"), Dot, Lit("com")>>
SitePath == Path("acme", SiteName)
Filter(name) == <<Lit("("), Lit(name), Lit(")")>>

---------------------------------------------------------------------------
(***************************************************************************)
(* Run Substitute: objects, descriptions, comments, and blocks.            *)
(***************************************************************************)
Description == W(Word("description"))
\* A description in its three forms, a filter, references to objects, and
\* comments, one of them after a nested brace.
Lines ==
    {<<Description, Q(<<bob>>)>>,
     <<Description, W(<<bob>>)>>,
     <<Description, LB, W(<<bob>>), RB>>,
     <<Q(<<bob, Colon>> \o SitePath \o <<Colon, bob, Lit("by")>>)>>,
     <<W(WebPath \o <<Colon, Lit("80")>>), W(SitePath)>>,
     <<W(<<Colon, Lit("acme"), Colon>> \o SiteName \o <<Lit("_1")>>)>>,
     <<LB, Q(<<bob>>), RB, C("note")>>}

Pool    == Ws(<<"ltm", "pool">>) \o <<W(WebPath)>>
Rule    == Ws(<<"ltm", "rule">>) \o <<W(SitePath)>>
Monitor == Ws(<<"ltm", "monitor", "ldap">>) \o <<W(WebPath)>>

\* A section for each walker of blocks.
Roles  == Section(Ws(<<"auth", "remote-role">>),
                  Section(Ws(<<"role-info">>), Section(<<W(WebPath)>>, Ws(<<"user", "bob">>))))
SnmpSection == Section(Ws(<<"sys", "snmp">>),
                  Ws(<<"sys-contact", "bob">>)
                  \o Section(Ws(<<"communities">>),
                             Section(<<W(WebPath)>>, Ws(<<"community-name", "bob">>)))
                  \o Section(Ws(<<"traps">>), Section(<<W(SitePath)>>, Ws(<<"community">>))))
SyslogSection == Section(Ws(<<"sys", "syslog">>),
                  Section(Ws(<<"remote-servers">>), Section(<<W(SitePath)>>, <<>>)))
Sshd   == Section(Ws(<<"sys", "sshd">>), <<W(Word("banner-text")), Q(<<bob>>)>>)
Chains == Section(Ws(<<"ltm", "profile", "tcp">>) \o <<W(Path("Common", Word("tcp")))>>,
                  Section(Ws(<<"cert-key-chain">>), Section(Ws(<<"bob">>), <<W(SitePath)>>)))
Groups == Section(Ws(<<"ltm", "data-group", "internal">>) \o <<W(SitePath)>>,
                  Section(Ws(<<"records">>), Section(Ws(<<"bob">>), <<>>)))
Ldap   == Section(Ws(<<"auth", "ldap">>) \o <<W(WebPath)>>,
                  Section(Ws(<<"query-attrname">>), Ws(<<"acme", "cn">>))
                  \o <<W(Word("filter")), Q(Filter("cn=bob"))>>)
Claims == Section(Ws(<<"apm", "oauth">>) \o <<Q(SitePath)>>,
                  Section(Ws(<<"audience">>), Ws(<<"bob", "any">>)) \o Ws(<<"audience", "acme">>))
Sections == {Roles, SnmpSection, SyslogSection, Sshd, Chains, Groups, Ldap, Claims}

\* A rule with a line, before or after a section, in one file or in two; and a
\* section that is cut off somewhere.
Files == {Section(header, line) : header \in {Pool, Rule}, line \in Lines}
Cut(section) == {SubSeq(section, 1, n) : n \in DOMAIN section}
MCSources ==
    {<<first \o second>> : first \in Files, second \in Sections}
    \cup {<<first, second>> : first \in {Roles, Sshd}, second \in Files}

\* Files that end too soon or are not what TMSH writes: a field without a
\* value, a path without a partition, a number.
OddLines ==
    {<<Description>>,
     <<Description, Q(<<>>)>>,
     <<Description, LB, W(<<bob>>)>>,
     <<W(Word("user")), Q(Word("80"))>>,
     <<C("note")>>}
OddHeaders ==
    {Ws(<<"ltm", "pool", "web">>), Rule, Ws(<<"ltm", "pool">>),
     <<C("note")>> \o Ws(<<"auth", "ldap">>) \o <<Q(SitePath)>>}
MCOddSources ==
    {<<header \o <<LB>> \o first \o second>> :
        header \in OddHeaders, first \in OddLines, second \in OddLines \cup {<<RB>>}}
MCBlockSources == {<<part>> : part \in UNION {Cut(section) : section \in Sections}} \cup MCOddSources

---------------------------------------------------------------------------
(***************************************************************************)
(* Run Literals: values of a certain shape.                                *)
(***************************************************************************)
HostName == <<Lit("host"), Dot, Lit("corp")>>
Url      == <<Lit("https"), Colon, Slash, Slash>> \o HostName \o <<Slash, Lit("acme")>>
Request(path) == <<Lit("GET"), Gap>> \o path \o <<Gap, Lit("HTTP/1.1")>>
BobDn    == <<Lit("CN"), Equals, bob, Comma, Lit("DC"), Equals, Lit("corp")>>
acme     == Lit("acme")
FooWord  == VocabWord("foo", 0)
Sess(words) == <<Lit("session")>> \o FlattenSeq([n \in DOMAIN words |-> <<Dot, words[n]>>])
With(word, value) == <<W(Word(word)), value>>

AddressLines ==
    {With("destination", W(<<Ip(5, 1), Colon, Lit("80")>>)),
     With("version", W(<<Ip(6, 1)>>)),
     With("mask", W(<<Ip(0, 1)>>)),
     With("uri", W(<<Lit("https"), Colon, Slash, Slash, Ip(6, 2), Slash, acme>>)),
     With("destination", W(<<Lit("["), Ip6(1, 0, 1), Lit("]"), Colon, Lit("80")>>)),
     With("address", W(<<Ip6(1, 0, 2)>>)),
     With("address", W(<<Ip6(2, 0, 1), Percent, Lit("80")>>)),
     With("address", W(Word("any"))),
     With("address", W(<<Ip(1, 0)>>)),
     With("address", W(<<Lit("web"), Underscore, Ip(5, 1)>>)),
     With("recv", Q(<<Ip(1, 0)>>)),
     With("recv", Q(<<Ip(5, 0), Gap, Ip(0, 1)>>))}
FieldLines ==
    {With("send", Q(Request(<<Slash, acme>>) \o <<Gap, Ip(5, 2)>>)),
     With("recv", W(<<bob>>)),
     With("success-match-value", W(<<Slash, acme>>)),
     With("entity-id", Q(Url)),
     With("uri", W(Url)),
     With("user", W(<<bob>>)),
     With("creation-time", W(<<Stamp(1, 5)>>)),
     With("creation-time", W(<<Stamp(1, 6)>>)),
     With("last-modified-time", W(<<Stamp(1, 0)>>)),
     With("expression", Q(<<Lit("return"), Gap, Lit("{"), acme, Lit("}")>>)),
     With("base-dn", W(BobDn)),
     With("realm", W(<<Lit("EX"), Dot, Lit("AD")>>))}
TextLines ==
    {<<Q(<<bob>> \o <<Gap>> \o BobDn)>>,
     <<Q(HostName)>>,
     With("description", Q(HostName)),
     <<W(HostName \o <<Lit("_1")>>)>>,
     <<Q(<<acme, Slashes, bob>>)>>,
     <<Q(<<Slashes, Slashes, Lit("host"), Slashes, Lit("web")>>)>>,
     <<Q(<<bob, At>> \o SiteName \o <<Gap, Lit("web"), Dot>> \o SiteName)>>,
     <<Q(<<Ip(6, 0)>>)>>}
SessionLines ==
    {<<W(Sess(<<acme>>))>>,
     <<Q(Sess(<<Lit("custom"), acme, Lit("x")>>))>>,
     <<Q(Sess(<<Lit("globex"), Lit("x")>>))>>,
     <<W(Sess(<<Lit("logon"), acme>>))>>,
     <<W(<<acme, Lit("_1")>>)>>,
     <<W(<<acme, Cycled1>>)>>,
     <<W(<<Lit("globex"), Lit("_"), acme>>)>>,
     <<W(<<acme>>)>>,
     <<W(<<FooWord>>)>>,
     <<Q(<<FooWord, Lit("_1")>>)>>}

\* Addresses and names where one expression sees their end and another does not.
BoundaryLines ==
    {With("address", W(<<Ip6(2, 0, 1), Slash, Lit("24")>>)),
     With("redirect", W(<<Lit("https"), Colon, Slash, Slash,
                          Lit("["), Ip6(2, 0, 1), Lit("]"), Slash, acme>>)),
     <<Q(<<Ip6(2, 0, 1)>>)>>,
     <<Q(<<Ip(5, 1), Dash, Ip(5, 2)>>)>>,
     <<W(<<Ip(5, 1), Dash, Ip(5, 2)>>)>>,
     <<W(<<Ip(5, 1), Lit("_1")>>)>>,
     <<Q(<<Ip(6, 1), Slash, Lit("24")>>)>>,
     <<Q(HostName \o <<Dash, Lit("web")>>)>>}

\* Two lines of an iRule, one line each of two, and one of a pool.
LiteralLines == AddressLines \cup FieldLines \cup TextLines \cup SessionLines
MCLiteralSources ==
    {<<Section(Rule, first \o second)>> : first, second \in LiteralLines}
    \cup {<<Section(Rule, first), Section(Rule, second)>> :
              first, second \in AddressLines \cup SessionLines}
    \cup {<<Section(Pool, line)>> : line \in LiteralLines \cup BoundaryLines}
    \cup {<<Section(Rule, first \o second)>> :
              first \in BoundaryLines, second \in AddressLines \cup BoundaryLines}
MCWholeSources == MCSources \cup MCLiteralSources

---------------------------------------------------------------------------
\* Two filters, and an expression that combines them.
MCFilterSources ==
    {<<Section(Monitor, <<W(Word("filter")), W(Filter("cn=bob"))>>)
       \o Section(Monitor, <<W(Word("filter")), W(Filter("ou=hr"))>>)
       \o Section(Rule, <<Q(<<Lit("("), Lit("&")>> \o Filter("cn=bob") \o Filter("ou=hr")
                            \o <<Lit(")")>>)>>)>>}

\* Two files, each with a pool of its own.
MCTwoFiles ==
    {<<Section(Pool, <<>>), Section(Ws(<<"ltm", "pool">>) \o <<W(SitePath)>>, <<>>)>>}

\* Two timestamps of a year, one of them its first second.
MCFirstSecond ==
    {<<Section(Pool, With("creation-time", W(<<Stamp(1, first)>>))
                     \o With("last-modified-time", W(<<Stamp(1, second)>>)))>> :
        first, second \in {0, 5}}

\* Two nets for one documentation net, the second in a string of an iRule.
MCLateCollapses ==
    {<<Section(Pool, With("address", W(<<Ip(5, 1)>>)))
       \o Section(Rule, <<Q(<<Ip(6, 0)>>)>>)>>}
===========================================================================
