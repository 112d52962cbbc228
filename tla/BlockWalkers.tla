--------------------------- MODULE BlockWalkers ---------------------------
(***************************************************************************)
(* The walkers of pass 1 that look into the blocks of one kind.  They have *)
(* the same shape: an outer loop goes to the header of such a block, and   *)
(* one function for every level of nesting goes through its body, counting *)
(* braces, until the brace that closes it.  What each looks for is in the  *)
(* tables below; the steps are common.                                     *)
(***************************************************************************)
EXTENDS TokenLoop

\* The header of a block: words, at least and at most so many other words,
\* and a brace; then a body of the given level.
Block(words, least, most, level) ==
    [words |-> words, least |-> least, most |-> most, level |-> level]
AnyNumber == 9

\* One level of a block:
\*   inner   the names of the blocks that begin a level of their own
\*   bucket  the kind of the names of all other blocks in it, if they are found
\*   opens   the level those blocks begin, if they do
\*   paths   whether those names are paths or bare words
\*   fields  the kinds of the values that follow certain words
\*   deep    whether it looks for these in nested blocks, too
Plain == [inner |-> Table({}), bucket |-> "", opens |-> "", paths |-> FALSE,
          fields |-> Table({}), deep |-> FALSE]
Inside(word, level) == [Plain EXCEPT !.inner = Table({<<word, level>>})]
Paths(kind, level) == [Plain EXCEPT !.bucket = kind, !.paths = TRUE, !.opens = level]
Names(kind) == [Plain EXCEPT !.bucket = kind]
Fields(pairs) == [Plain EXCEPT !.fields = Table(pairs)]

---------------------------------------------------------------------------
(***************************************************************************)
(* The walkers, in the order they run.                                     *)
(***************************************************************************)
\* auth remote-role { role-info { /path { ... } } }
RemoteRoles ==
    [blocks |-> {Block(<<"auth", "remote-role">>, 0, 0, "remote-role")},
     levels |-> Table({<<"remote-role", Inside("role-info", "role-info")>>,
                       <<"role-info", Paths("REMOTE_ROLE", "")>>})]

\* sys snmp { communities { /path { community-name secret } } traps ... }
Snmp ==
    [blocks |-> {Block(<<"sys", "snmp">>, 0, 0, "snmp")},
     levels |-> Table({
         <<"snmp", [Fields({<<"sys-contact", "SYS_CONTACT">>, <<"sys-location", "SYS_LOCATION">>})
                        EXCEPT !.inner = Table({<<"communities", "communities">>,
                                                <<"traps", "traps">>})]>>,
         <<"communities", Paths("SNMP_COMMUNITY", "community")>>,
         <<"traps", Paths("SNMP_TRAP", "trap")>>,
         <<"community", Fields({<<"community-name", "SNMP_COMMUNITY_SECRET">>})>>,
         <<"trap", Fields({<<"community", "SNMP_COMMUNITY_SECRET">>})>>})]

\* sys syslog { remote-servers { /path { ... } } }
Syslog ==
    [blocks |-> {Block(<<"sys", "syslog">>, 0, 0, "syslog")},
     levels |-> Table({<<"syslog", Inside("remote-servers", "remote-servers")>>,
                       <<"remote-servers", Paths("SYSLOG_SERVER", "")>>})]

\* sys sshd { banner-text value }
SshdBanners ==
    [blocks |-> {Block(<<"sys", "sshd">>, 0, 0, "sshd")},
     levels |-> Table({<<"sshd", Fields({"banner-text", "pre-login-banner", "post-login-banner"}
                                            \X {"SSHD_BANNER"})>>})]

\* cert-key-chain { name { ... } }, client-policy { name { ... } }
CertKeychains ==
    [blocks |-> {Block(<<"cert-key-chain">>, 0, 0, "cert-key-chain")},
     levels |-> Table({<<"cert-key-chain", Names("CERT_KEY_CHAIN")>>})]
ClientPolicies ==
    [blocks |-> {Block(<<"client-policy">>, 0, 0, "client-policy")},
     levels |-> Table({<<"client-policy", Names("CLIENT_POLICY")>>})]

\* ltm data-group internal /path { records { name { ... } } }
DataGroupRecords ==
    [blocks |-> {Block(<<"ltm", "data-group", type>>, 0, 1, "data-group") :
                    type \in {"internal", "external"}},
     levels |-> Table({<<"data-group", Inside("records", "records")>>,
                       <<"records", Names("DATA_GROUP_RECORD")>>})]

LdapHeaders ==
    {<<"apm", "aaa", "ldap">>, <<"apm", "aaa", "active-directory">>, <<"auth", "ldap">>,
     <<"auth", "active-directory">>, <<"ltm", "monitor", "ldap">>}

\* auth ldap /path { filter value }
LdapFilters ==
    [blocks |-> {Block(header, 0, AnyNumber, "ldap") : header \in LdapHeaders},
     levels |-> Table({<<"ldap", [Fields({<<"filter", "LDAP_FILTER">>}) EXCEPT !.deep = TRUE]>>})]

\* auth ldap /path { query-attrname { name name } }: the names are found by
\* AttrFinds.
AdQueryAttrnames ==
    [blocks |-> {Block(header, 0, AnyNumber, "query") :
                    header \in LdapHeaders \cup {<<"apm", "policy", "agent", "aaa-active-directory">>,
                                                 <<"apm", "policy", "agent", "aaa-ldap">>}},
     levels |-> Table({<<"query", [Inside("query-attrname", "attrnames") EXCEPT !.deep = TRUE]>>,
                       <<"attrnames", Plain>>})]

StandardAdAttrs == Words({"cn", "mail", "memberOf"})
AttrFinds(k) ==
    FindIf(Is(k, "WORD") /\ tokens[k].text \notin StandardAdAttrs
               /\ ~(Len(tokens[k].text) = 1 /\ tokens[k].text[1] \in Short),
           "AD_ATTR", tokens[k].text)

\* The places where the iRule walkers look for literals and identifiers: iRule
\* bodies and the expressions of access policies.
IruleBodies ==
    [blocks |-> {Block(<<"ltm", "rule">>, 0, AnyNumber, "irule"),
                 Block(<<"apm", "policy">>, 1, AnyNumber, "irule"),
                 Block(<<"apm", "sso">>, 1, AnyNumber, "irule")},
     levels |-> Table({<<"irule", Plain>>})]

\* saml_oauth_discovery looks into one list: audience { value value }
Audiences ==
    [blocks |-> {Block(<<"audience">>, 0, 0, "audience")},
     levels |-> Table({<<"audience", Plain>>})]

BlockPasses ==
    {"remote_roles", "snmp", "syslog", "sshd", "cert_keychains", "client_policies",
     "filters", "ad_attrs", "saml_oauth", "data_groups", "irule_literals",
     "irule_identifiers"}
BlockWalkers ==
    [walker \in BlockPasses |->
        CASE walker = "remote_roles"      -> RemoteRoles
          [] walker = "snmp"              -> Snmp
          [] walker = "syslog"            -> Syslog
          [] walker = "sshd"              -> SshdBanners
          [] walker = "cert_keychains"    -> CertKeychains
          [] walker = "client_policies"   -> ClientPolicies
          [] walker = "filters"           -> LdapFilters
          [] walker = "ad_attrs"          -> AdQueryAttrnames
          [] walker = "saml_oauth"        -> Audiences
          [] walker = "data_groups"       -> DataGroupRecords
          [] walker \in {"irule_literals", "irule_identifiers"} -> IruleBodies]

---------------------------------------------------------------------------
(***************************************************************************)
(* The steps.  blocks is the stack of the running loops: the name of the   *)
(* level and the number of braces open in it.                              *)
(***************************************************************************)
Running(level) == [level |-> level, depth |-> 1]

InWalker == pass \in BlockPasses /\ ~AtEnd /\ NoDiagnostics /\ UNCHANGED <<depth, in_rule>>

\* A header at i ends with the brace at k: only words may come before.
EndsHeader(k, block) ==
    /\ tokens[k].kind = "LBRACE"
    /\ k - i - Len(block.words) \in block.least .. block.most
    /\ \A n \in DOMAIN block.words : IsIn(i + n - 1, {Word(block.words[n])})
    /\ \A n \in i .. k - 1 : tokens[n].kind = "WORD"
HeaderEnds ==
    UNION {{[brace |-> k, level |-> block.level] :
                block \in {b \in BlockWalkers[pass].blocks : EndsHeader(k, b)}} :
              k \in i + 1 .. Len(tokens)}

EnterBlock ==
    /\ InWalker /\ blocks = <<>>
    /\ \E end \in HeaderEnds :
          Advance(end.brace + 1 - i) /\ blocks' = <<Running(end.level)>>
    /\ RecordNothing

Top   == blocks[Len(blocks)]
Under == SubSeq(blocks, 1, Len(blocks) - 1)
Sought == BlockWalkers[pass].levels[Top.level]
InReach == Top.depth = 1 \/ Sought.deep

\* A mutation of Braced: a level is left only by the brace after its last one.
Braced_OffByOne(change) ==
    IF Top.depth + change < 0 THEN Under
    ELSE Append(Under, [Top EXCEPT !.depth = @ + change])
\* Braces are counted; the one that closes the level ends its loop.
Braced(change) ==
    IF Top.depth + change = 0 THEN Under
    ELSE Append(Under, [Top EXCEPT !.depth = @ + change])

CountBlockBrace ==
    /\ InWalker /\ blocks # <<>> /\ tokens[i].kind \in {"LBRACE", "RBRACE"}
    /\ blocks' = Braced(IF tokens[i].kind = "LBRACE" THEN 1 ELSE -1)
    /\ Advance(1) /\ RecordNothing

AtWord == blocks # <<>> /\ Is(i, "WORD") /\ InReach

AtInner == AtWord /\ Name(i) \in DOMAIN Sought.inner /\ Is(i + 1, "LBRACE")
EnterInner ==
    /\ InWalker /\ AtInner
    /\ blocks' = Append(blocks, Running(Sought.inner[Name(i)]))
    /\ Advance(2) /\ RecordNothing

\* A path must be well formed and not be the name of another object; a path
\* that is not is passed over silently.
AtBucket ==
    /\ AtWord /\ ~AtInner /\ Sought.bucket # "" /\ Is(i + 1, "LBRACE")
    /\ StartsWithSlash(tokens[i].text) = Sought.paths
RegisterBucket ==
    /\ InWalker /\ AtBucket
    /\ LET name == tokens[i].text
       IN  CASE ~Sought.paths -> RecordIf(TRUE, Sought.bucket, name)
             [] Sought.paths /\ IsPath(name) /\ ~RegisteredElsewhere(Sought.bucket, name) ->
                    Record(WithPath(book, Sought.bucket, name))
             [] OTHER -> RecordNothing
    /\ IF Sought.opens = "" THEN UNCHANGED blocks /\ Advance(1)
       ELSE blocks' = Append(blocks, Running(Sought.opens)) /\ Advance(2)

\* The token after the field is its value, or is passed over.
AtField == AtWord /\ Name(i) \in DOMAIN Sought.fields /\ i + 1 \in DOMAIN tokens
DiscoverField ==
    /\ InWalker /\ AtField
    /\ RecordIf(HasValue(i + 1), Sought.fields[Name(i)], Value(i + 1))
    /\ Advance(2) /\ UNCHANGED blocks

\* No other step applies: the loop looks at the token and passes it.
AtOther ==
    /\ InWalker
    /\ IF blocks = <<>> THEN HeaderEnds = {}
       ELSE ~(AtInner \/ AtBucket \/ AtField) /\ tokens[i].kind \notin {"LBRACE", "RBRACE"}
    /\ UNCHANGED blocks

BlockNext ==
    \/ EnterBlock \/ CountBlockBrace \/ EnterInner \/ RegisterBucket \/ DiscoverField
===========================================================================
