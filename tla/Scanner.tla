------------------------------ MODULE Scanner ------------------------------
(***************************************************************************)
(* Pass 1 as a whole (src/src/veil/scanner.py): scan_many goes through the *)
(* files, and scan lets the walkers loose on a file one after the other.   *)
(* All files and all walkers share one ledger.                             *)
(***************************************************************************)
EXTENDS Discovery, BlockWalkers, FieldWalkers, LiteralWalkers

\* A mutation of Passes: the iRule walker looks for identifiers first.
Passes_IdentifiersFirst ==
    <<"objects", "ips", "descriptions", "comments", "remote_roles", "snmp", "syslog",
      "sshd", "cert_keychains", "client_policies", "usernames", "filters", "ad_attrs",
      "saml_oauth", "monitor_recv", "monitor_paths", "data_groups", "timestamps",
      "apm_var_literals", "ad_dns", "base_dns", "irule_literals", "fqdns", "krb_realms",
      "preregister", "irule_identifiers", "sessions">>
\* The walkers in the order scan calls them.
Passes ==
    <<"objects", "ips", "descriptions", "comments", "remote_roles", "snmp", "syslog",
      "sshd", "cert_keychains", "client_policies", "usernames", "filters", "ad_attrs",
      "saml_oauth", "monitor_recv", "monitor_paths", "data_groups", "timestamps",
      "apm_var_literals", "ad_dns", "base_dns", "irule_literals", "fqdns", "krb_realms",
      "preregister", "sessions", "irule_identifiers">>

\* A token of a block that is none of those the steps of BlockWalkers handle.
DiscoverQueryAttrname ==
    /\ pass = "ad_attrs" /\ AtOther
    /\ Look(IF blocks # <<>> /\ Top.level = "attrnames" THEN AttrFinds(i) ELSE <<>>, 1)
DiscoverSamlOauth ==
    /\ pass = "saml_oauth" /\ AtOther
    /\ IF blocks = <<>> THEN Look(SamlValues(i).finds, SamlValues(i).width)
       ELSE Look(IF Top.depth = 1 THEN AudienceItems(i) ELSE <<>>, 1)
DiscoverIruleLiteral ==
    /\ pass = "irule_literals" /\ AtOther
    /\ Look(IF blocks # <<>> THEN LiteralFinds(i) ELSE <<>>, 1)
DiscoverIruleIdentifier ==
    /\ pass = "irule_identifiers" /\ AtOther
    /\ Look(IF blocks # <<>> THEN IdentifierFinds(i) ELSE <<>>, 1)
SkipOther ==
    /\ pass \notin {"ad_attrs", "saml_oauth", "irule_literals", "irule_identifiers"}
    /\ AtOther
    /\ Look(<<>>, 1)

\* The walker of addresses reports the nets that have been collapsed so far.
\* A mutation of ReportCollapsed: only the first file is reported.
ReportCollapsed_First ==
    ipv4_subnet_collapsed' =
        IF pass = "ips" /\ file = 1 THEN collapsed_sources ELSE ipv4_subnet_collapsed
ReportCollapsed ==
    ipv4_subnet_collapsed' =
        ipv4_subnet_collapsed \cup (IF pass = "ips" THEN collapsed_sources ELSE {})

NextFile(first, last) ==
    IF file < Len(files) THEN pass' = first /\ file' = file + 1
    ELSE pass' = last /\ file' = 1

\* After the last walker the next file is scanned, and after the last file
\* the ledger is frozen and pass 2 begins with the first.
NextWalker ==
    /\ pass \in Range(Passes) \cup {"prescan"} /\ AtEnd
    /\ CASE pass = "prescan"    -> NextFile("prescan", Passes[1])
         [] pass = Last(Passes) -> NextFile(Passes[1], "substitute")
         [] OTHER -> /\ \E p \in DOMAIN Passes : pass = Passes[p] /\ pass' = Passes[p + 1]
                     /\ file' = file
    /\ frozen' = (pass' = "substitute")
    /\ Rewind
    /\ ReportCollapsed
    /\ UNCHANGED <<files, book, referenced, order, allocators, unknown_top_level, malformed_paths>>

ScannerInit ==
    /\ files \in Sources
    /\ file = 1 /\ pass = "prescan" /\ i = 1 /\ j = 1
    /\ depth = 0 /\ in_rule = FALSE /\ blocks = <<>>
    /\ book = EmptyBook(Range(KindOrder)) /\ order = <<>>
    /\ frozen = FALSE /\ referenced = {}
    /\ subnet_map = [net \in SourceNets |-> 0] /\ next_subnet_idx = 0
    /\ used = {} /\ collapsed_sources = {}
    /\ subnet_map6 = [net \in SourceNets6 |-> 0] /\ next_subnet_idx6 = 0 /\ used6 = {}
    /\ session_ns_unsafe = {} /\ assigned_count = 0
    /\ unknown_top_level = {} /\ malformed_paths = {} /\ ipv4_subnet_collapsed = {}

ScannerNext ==
    \/ DiscoveryNext \/ BlockNext \/ FieldNext \/ LiteralNext
    \/ DiscoverQueryAttrname \/ DiscoverSamlOauth
    \/ DiscoverIruleLiteral \/ DiscoverIruleIdentifier \/ SkipOther
    \/ NextWalker
===========================================================================
