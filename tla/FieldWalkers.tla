---------------------------- MODULE FieldWalkers ----------------------------
(***************************************************************************)
(* The walkers of pass 1 that look for the value after certain words,      *)
(* wherever these are.  For each there is an operator that says what it    *)
(* finds at a token, and how many tokens it passes.                        *)
(***************************************************************************)
EXTENDS Patterns

SkipValues  == Words({"none", "default", "any", "all", "auto", "enabled", "disabled"})
SkipNames   == SkipValues \cup Words({"true", "false", "yes", "no"})

\* One of the fields, and a token after it.
Field(k, names) == Name(k) \in names /\ k + 1 \in DOMAIN tokens

\* There is a value at k, and it is none of some; nor a path.
IsValue(k, skip) == HasValue(k) /\ Value(k) \notin skip
IsName(k, skip)  == IsValue(k, skip) /\ ~StartsWithSlash(Value(k))

---------------------------------------------------------------------------
\* discover_usernames (pass 1.85g)
UsernameFields == {"admin-name", "basic-auth-username", "user", "server-name"}

Usernames(k) ==
    IF Field(k, UsernameFields)
    THEN Passed(FindIf(IsName(k + 1, SkipNames), "USERNAME", Value(k + 1)))
    ELSE Nothing

\* discover_saml_oauth.  A list audience { value value } is walked like a block,
\* see Audiences in BlockWalkers.
SamlKinds ==
    Table({<<"entity-id", "SAML_ENTITY_ID">>, <<"sso-uri", "SAML_SSO_URI">>,
           <<"single-logout-uri", "SAML_SLO_URI">>,
           <<"single-logout-response-uri", "SAML_SLO_RESPONSE_URI">>,
           <<"issuer", "OAUTH_ISSUER">>, <<"key-id", "OAUTH_KEY_ID">>,
           <<"audience", "OAUTH_AUDIENCE">>})
UrlKinds == Range(SamlKinds) \ {"OAUTH_KEY_ID"}

SamlValues(k) ==
    IF Field(k, DOMAIN SamlKinds)
    THEN Passed(FindIf(IsName(k + 1, SkipValues), SamlKinds[Name(k)], Value(k + 1)))
    ELSE Nothing
AudienceItems(k) == FindIf(IsName(k, SkipValues), "OAUTH_AUDIENCE", Value(k))

\* discover_monitor_recv
MonitorRecv(k) ==
    IF Field(k, {"recv"})
    THEN Passed(FindIf(IsValue(k + 1, SkipValues), "MONITOR_RECV", Value(k + 1)))
    ELSE Nothing

---------------------------------------------------------------------------
(***************************************************************************)
(* discover_monitor_paths: the requests monitors send, addresses in these  *)
(* and in the answers they expect, and the fields that hold a URL.         *)
(***************************************************************************)
PathAllowlist == {<<Slash>>, <<Slash, Lit("login")>>, <<Slash, Lit("health")>>}

QuotedContent(k) == IF Is(k, "QSTRING") THEN Content(tokens[k].text) ELSE <<>>

RequestPath(k) ==
    LET paths == RequestPaths(QuotedContent(k))
    IN  FoundAs("MONITOR_PATH",
                Picked(paths, {n \in DOMAIN paths : paths[n] \notin PathAllowlist}))
AddressesIn(k) == FoundAs("IPADDR", QuotedAddresses(QuotedContent(k)))

\* The path that is expected: a value that begins with a slash.
ExpectedPath(k) ==
    FindIf(IsValue(k, PathAllowlist) /\ StartsWithSlash(Value(k)), "MONITOR_PATH", Value(k))

\* A URL that is a SAML or OAuth name already keeps that kind.
UrlValue(k) ==
    FindIf(/\ IsValue(k, PathAllowlist) /\ IsUrl(Value(k))
           /\ \A kind \in UrlKinds : ~Known(kind, Value(k)),
           "MONITOR_PATH", Value(k))

MonitorPaths(k) ==
    CASE Field(k, {"send"}) -> Passed(RequestPath(k + 1) \o AddressesIn(k + 1))
      [] Field(k, {"recv"}) -> Passed(AddressesIn(k + 1))
      [] Field(k, {"success-match-value"}) -> Passed(ExpectedPath(k + 1))
      [] Field(k, {"request-value", "uri", "application-uri"}) -> Passed(UrlValue(k + 1))
      [] OTHER -> Nothing

---------------------------------------------------------------------------
\* discover_timestamps.  The first second of a year stands for itself.
Timestamps(k) ==
    IF Field(k, {"creation-time", "last-modified-time"})
    THEN Passed(FindIf(/\ Is(k + 1, "WORD") /\ IsAtom(tokens[k + 1].text, "stamp")
                       /\ tokens[k + 1].text[1][2][2] # 0,
                       "TIMESTAMP", tokens[k + 1].text))
    ELSE Nothing

\* discover_apm_var_literals: expression "return {literal}"
ReturnLiteral(content) ==
    SubSeq(content, 4, Len(content) - 1)
ApmVarLiterals(k) ==
    IF Field(k, {"expression"}) /\ Is(k + 1, "QSTRING")
    THEN LET content == Content(tokens[k + 1].text)
         IN  Passed(FindIf(/\ Len(content) >= 5
                           /\ SubSeq(content, 1, 3) = <<Lit("return"), Gap, Lit("{")>>
                           /\ {n \in 4 .. Len(content) : content[n] = Lit("}")} = {Len(content)}
                           /\ ReturnLiteral(content) \notin SkipValues,
                           "APM_VAR_LITERAL", ReturnLiteral(content)))
    ELSE Nothing

\* The second loop of discover_ad_dns: base-dn value
BaseDns(k) ==
    IF Field(k, {"base-dn", "search-base-dn", "search-dn"}) /\ Is(k + 1, "WORD")
    THEN Passed(FindIf(DistinguishedNames(tokens[k + 1].text) = <<tokens[k + 1].text>>,
                       "AD_GROUP_DN", tokens[k + 1].text))
    ELSE Nothing

\* discover_krb_realms: realm VALUE, unless it has another kind.
KrbRealms(k) ==
    IF Field(k, {"realm"}) /\ Is(k + 1, "WORD")
    THEN LET value == tokens[k + 1].text
         IN  Passed(FindIf(/\ IsRealm(value)
                           /\ \A kind \in Range(KindOrder) \ {"KRB_REALM"} : ~Known(kind, value),
                           "KRB_REALM", value))
    ELSE Nothing

---------------------------------------------------------------------------
DiscoverUsernames      == Loop("usernames", Usernames(i))
DiscoverMonitorRecv    == Loop("monitor_recv", MonitorRecv(i))
DiscoverMonitorPaths   == Loop("monitor_paths", MonitorPaths(i))
DiscoverTimestamps     == Loop("timestamps", Timestamps(i))
DiscoverApmVarLiterals == Loop("apm_var_literals", ApmVarLiterals(i))
DiscoverBaseDns        == Loop("base_dns", BaseDns(i))
DiscoverKrbRealms      == Loop("krb_realms", KrbRealms(i))

FieldNext ==
    \/ DiscoverUsernames \/ DiscoverMonitorRecv \/ DiscoverMonitorPaths
    \/ DiscoverTimestamps \/ DiscoverApmVarLiterals \/ DiscoverBaseDns \/ DiscoverKrbRealms
===========================================================================
