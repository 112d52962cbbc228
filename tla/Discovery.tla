----------------------------- MODULE Discovery -----------------------------
(***************************************************************************)
(* The walkers of pass 1 that have a loop of their own: object headers     *)
(* (pass 1, src/src/veil/scanner.py), descriptions (1.7) and comments in   *)
(* iRules (1.8).  The walkers are the control of the code, token by token. *)
(***************************************************************************)
EXTENDS TokenLoop

(***************************************************************************)
(* The headers of objects: <module> <word> <path> {, with a type before    *)
(* the path in some, and the kind of the object.                           *)
(***************************************************************************)
Header(words, types, kind) == [words |-> words, types |-> types, kind |-> kind]

TwoWordKinds ==
    {<<"pool", "POOL">>, <<"virtual", "VS">>, <<"node", "NODE">>, <<"rule", "IRULE">>,
     <<"snat", "SNAT">>, <<"snatpool", "SNATPOOL">>, <<"virtual-address", "VADDR">>}
LtmHeaders ==
    {Header(<<"ltm", pair[1]>>, 0, pair[2]) : pair \in TwoWordKinds}
    \cup {Header(<<"ltm", "monitor">>, 1, "MON"), Header(<<"ltm", "data-group">>, 1, "DG"),
          Header(<<"ltm", "profile">>, 1, "PROFILE")}
GtmHeaders ==
    {Header(<<"gtm", "server">>, 0, "GTM_SERVER"), Header(<<"gtm", "datacenter">>, 0, "GTM_DC"),
     Header(<<"gtm", "region">>, 0, "GTM_REGION"),
     Header(<<"gtm", "pool">>, 1, "GTM_POOL"), Header(<<"gtm", "wideip">>, 1, "GTM_WIDEIP")}
NetHeaders ==
    {Header(<<"net", "vlan">>, 0, "VLAN"), Header(<<"net", "route-domain">>, 0, "ROUTE_DOMAIN"),
     Header(<<"net", "self">>, 0, "SELF_IP"), Header(<<"net", "trunk">>, 0, "TRUNK")}
ApmHeaders ==
    {Header(<<"apm", "policy">>, 1, "APM_POLICY"), Header(<<"apm", "profile">>, 1, "APM_PROFILE")}
SecurityHeaders ==
    {Header(<<"security", "firewall", "policy">>, 0, "FIREWALL_POLICY"),
     Header(<<"security", "firewall", "rule-list">>, 0, "FIREWALL_RULE_LIST"),
     Header(<<"security", "firewall", "address-list">>, 0, "FIREWALL_ADDRESS_LIST"),
     Header(<<"security", "firewall", "port-list">>, 0, "FIREWALL_PORT_LIST")}
Headers == LtmHeaders \cup GtmHeaders \cup NetHeaders \cup ApmHeaders \cup SecurityHeaders

\* The profiles every device has; the names of the others are customers'.
BuiltinProfiles == Words({"http", "tcp", "clientssl", "serverssl", "cookie"})

KnownModules == Words({"ltm", "gtm", "net", "sys", "auth", "apm", "asm", "pem",
                       "security", "wom", "ilx", "cli"})
DescFields == Words({"description", "caption"})

---------------------------------------------------------------------------
(***************************************************************************)
(* Pass 1: object headers.  The body of a block is skipped.                *)
(***************************************************************************)
InObjects == pass = "objects" /\ ~AtEnd /\ UNCHANGED <<in_rule, blocks, ipv4_subnet_collapsed>>

SkipBody ==
    /\ InObjects /\ depth # 0
    /\ Count(i) /\ Advance(1)
    /\ RecordNothing /\ NoDiagnostics

PathPlace(header) == i + Len(header.words) + header.types
Recognised ==
    {header \in Headers :
        /\ i + 3 \in DOMAIN tokens
        /\ \A k \in DOMAIN header.words : IsIn(i + k - 1, {Word(header.words[k])})
        /\ Is(PathPlace(header), "WORD") /\ Is(PathPlace(header) + 1, "LBRACE")}

\* _is_builtin_profile_path
IsBuiltinProfile(path) ==
    IsPath(path) /\ PartitionOf(path) = Common /\ LeafOf(path) \in BuiltinProfiles

RegisterObject ==
    /\ InObjects /\ depth = 0
    /\ \E header \in Recognised :
          /\ LET path == tokens[PathPlace(header)].text
             IN  IF header.kind = "PROFILE" /\ IsBuiltinProfile(path)
                 THEN RecordNothing /\ UNCHANGED malformed_paths
                 ELSE Register(header.kind, PathPlace(header), path)
          /\ Advance(PathPlace(header) + 2 - i)
    /\ depth' = 1
    /\ UNCHANGED unknown_top_level

\* The header of a block of another kind ends at the next brace.
Braces == {k \in i + 1 .. Len(tokens) : tokens[k].kind = "LBRACE"}
HeaderPaths(brace) ==
    {k \in i + 1 .. brace - 1 : HasValue(k) /\ StartsWithSlash(Value(k))}

\* The rightmost path is registered as UNK unless it has another kind.
RecordUnknownTopLevel ==
    /\ InObjects /\ depth = 0
    /\ Recognised = {} /\ IsIn(i, KnownModules) /\ Braces # {}
    /\ LET brace == Min(Braces)
           paths == HeaderPaths(brace)
           path  == Value(Max(paths))
       IN  /\ IF paths # {} /\ ~RegisteredElsewhere("UNK", path)
              THEN Register("UNK", Max(paths), path)
              ELSE RecordNothing /\ UNCHANGED malformed_paths
           /\ Advance(brace + 1 - i)
    /\ depth' = 1
    /\ unknown_top_level' = unknown_top_level \cup {<<file, i>>}

SkipTopLevel ==
    /\ InObjects /\ depth = 0
    /\ Recognised = {} /\ (~IsIn(i, KnownModules) \/ Braces = {})
    /\ Advance(1)
    /\ RecordNothing /\ NoDiagnostics /\ UNCHANGED depth

---------------------------------------------------------------------------
(***************************************************************************)
(* Pass 1.7: the value after a description field, in any context.          *)
(***************************************************************************)
InDescriptions ==
    pass = "descriptions" /\ ~AtEnd /\ UNCHANGED <<depth, in_rule, blocks>> /\ NoDiagnostics

\* A mutation of DiscoverDescriptionValue: bare words are passed over.
DiscoverDescriptionValue_QuotedOnly ==
    /\ InDescriptions /\ IsIn(i, DescFields)
    /\ \/ Is(i + 1, "QSTRING") /\ RecordIf(Content(tokens[i + 1].text) # <<>>,
                                           "DESC", tokens[i + 1].text)
       \/ Is(i + 1, "WORD") /\ RecordNothing
    /\ Advance(2)
DiscoverDescriptionValue ==
    /\ InDescriptions /\ IsIn(i, DescFields)
    /\ \/ Is(i + 1, "QSTRING") /\ RecordIf(Content(tokens[i + 1].text) # <<>>,
                                           "DESC", tokens[i + 1].text)
       \/ Is(i + 1, "WORD") /\ RecordIf(TRUE, "DESC", tokens[i + 1].text)
    /\ Advance(2)

\* A mutation of DiscoverDescriptionBraced: the span is not recorded.
DiscoverDescriptionBraced_Skipped ==
    /\ InDescriptions /\ IsIn(i, DescFields) /\ Is(i + 1, "LBRACE")
    /\ RecordNothing /\ Advance(1)
\* The whole span in braces is the value.  The walker goes on inside it.
DiscoverDescriptionBraced ==
    /\ InDescriptions /\ IsIn(i, DescFields) /\ Is(i + 1, "LBRACE")
    /\ LET closing == Closing(tokens, i + 1)
       IN  RecordIf(closing # {}, "DESC", Spaced(SubSeq(tokens, i + 1, Min(closing))))
    /\ Advance(1)

\* A mutation of DiscoverNoDescription: a field without a value is not passed.
DiscoverNoDescription_Stuck ==
    /\ InDescriptions /\ ~IsIn(i, DescFields)
    /\ RecordNothing
    /\ Advance(1)
DiscoverNoDescription ==
    /\ InDescriptions
    /\ IsIn(i, DescFields) => ~(Is(i + 1, "QSTRING") \/ Is(i + 1, "WORD") \/ Is(i + 1, "LBRACE"))
    /\ RecordNothing
    /\ Advance(1)

---------------------------------------------------------------------------
(***************************************************************************)
(* Pass 1.8: the comments of iRule bodies.                                 *)
(***************************************************************************)
EntersRule == ~in_rule /\ depth = 0 /\ RuleShape(tokens, i)
InComments == pass = "comments" /\ ~AtEnd /\ NoDiagnostics /\ UNCHANGED blocks

EnterRule ==
    /\ InComments /\ EntersRule
    /\ in_rule' = TRUE /\ depth' = depth + 1
    /\ Advance(4) /\ RecordNothing

\* A mutation of LeavesRule: the first closing brace ends the rule.
LeavesRule_FirstBrace(k) == tokens[k].kind = "RBRACE"
\* The closing brace that brings the count back to where the rule began.
LeavesRule(k) == tokens[k].kind = "RBRACE" /\ depth = 1

CountBrace ==
    /\ InComments /\ ~EntersRule /\ tokens[i].kind \in {"LBRACE", "RBRACE"}
    /\ Count(i) /\ in_rule' = (in_rule /\ ~LeavesRule(i))
    /\ Advance(1) /\ RecordNothing

DiscoverComment ==
    /\ InComments /\ ~EntersRule /\ tokens[i].kind \notin {"LBRACE", "RBRACE"}
    /\ RecordIf(in_rule /\ tokens[i].kind = "COMMENT", "IRULE_COMMENT", tokens[i].text)
    /\ Advance(1) /\ UNCHANGED <<depth, in_rule>>

---------------------------------------------------------------------------
DiscoveryNext ==
    \/ SkipBody \/ RegisterObject \/ RecordUnknownTopLevel \/ SkipTopLevel
    \/ DiscoverDescriptionValue \/ DiscoverDescriptionBraced \/ DiscoverNoDescription
    \/ EnterRule \/ CountBrace \/ DiscoverComment
===========================================================================
