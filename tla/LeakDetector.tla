---------------------------- MODULE LeakDetector ----------------------------
(***************************************************************************)
(* The leak detector (src/src/veil/leak_detector.py) looks through what    *)
(* pass 2 wrote, with expressions of its own, for addresses that are not   *)
(* public and for names of hosts in private domains.  Its other scans, for *)
(* MAC addresses, paths and words that look like identifiers, are left     *)
(* out.  In the model the nets that are neither masks nor documentation    *)
(* are the private ones.                                                   *)
(***************************************************************************)
EXTENDS Substitute

IsPrivate4(address) == address[1] \notin 0 .. NumDocs
IsPrivate6(address) == address[1] \notin 1 .. NumDocs6

\* _scan_ipv4: neither digits nor dots around the address.
ScanIpv4(text) ==
    FindAll(text, LAMBDA a, b :
        /\ a = b /\ IsAddress(text[a], "ipv4") /\ IsPrivate4(text[a][2])
        /\ ~Numeric(Before(text, a)) /\ ~Numeric(After(text, b)))

\* _scan_ipv6: neither hexadecimal digits nor colons around it.
ScanIpv6(text) ==
    FindAll(text, LAMBDA a, b :
        /\ a = b /\ IsAddress(text[a], "ipv6") /\ IsPrivate6(text[a][2])
        /\ {Before(text, a), After(text, b)} \cap (Labels \cup {Colon}) = {})

\* _scan_internal_fqdns: \b around the name.  A hyphen may follow, which ends
\* no name for the walker of pass 1.
ScanInternalFqdns(text) ==
    FindAll(text, LAMBDA a, b :
        /\ IsDomain(SubSeq(text, a, b), InternalSuffixes)
        /\ Before(text, a) \in Punctuation /\ After(text, b) \in Punctuation)

\* scan_leaks
Leaks(text) == ScanIpv4(text) \o ScanIpv6(text) \o ScanInternalFqdns(text)

---------------------------------------------------------------------------
\* What pass 1 or pass 2 leaves, and the detector sees.  An address that touches
\* a word, as in web_10.1.1.1: the walker finds it, and pass 2 has no boundary there.
Attached(text) ==
    \E k \in DOMAIN text : /\ text[k][1] \in {"ipv4", "ipv6"}
                           /\ ~({Before(text, k), After(text, k)} \subseteq Punctuation)

\* An IPv6 address with a prefix length, in a URL, in a list, or in a string:
\* no expression of pass 1 matches it.
UnreadIpv6(text) ==
    LeadingAddress6(text) = <<>> /\ \E k \in DOMAIN text : IsAddress(text[k], "ipv6")

\* An address of a range in a string, 10.0.0.1-10.0.0.5: the walkers of strings
\* take the hyphen for a part of the word.
InRange(token) ==
    token.kind = "QSTRING"
    /\ \E k \in DOMAIN token.text :
          /\ IsAddress(token.text[k], "ipv4")
          /\ Dash \in {Before(token.text, k), After(token.text, k)}

\* A host name with a hyphen right before or behind it, host.corp-web: the walker
\* sees no end of a name at the hyphen.
Hyphenated(text) ==
    \E span \in Spans(text) :
        /\ IsDomain(SubSeq(text, span[1], span[2]), InternalSuffixes)
        /\ Dash \in {Before(text, span[1]), After(text, span[2])}

\* The tokens in which something may stay.
PassedOver(f) ==
    {k \in DOMAIN files[f] : LET token == files[f][k] IN
        \/ Known("DESC", token.text)
        \/ k > 1 /\ files[f][k - 1].text \in Words(VersionFields)
        \/ Attached(token.text) \/ UnreadIpv6(token.text)
        \/ InRange(token) \/ Hyphenated(token.text)}

\* Of a source file the detector finds in the words, and in the strings of iRules,
\* of the output nothing that it would not find in one of the tokens above; and no
\* other internal name in any string.  The expressions of pass 1, the word
\* boundaries of pass 2, and those of the detector were written separately.
\* Addresses in other strings are left out, for which only monitors have a walker;
\* so are comments, and braced values that pass 2 reports and keeps.
NothingDetected ==
    pass = "done" =>
        \A f \in DOMAIN files :
            LET toks    == TokensOf(out[f])
                excused == UNION {Range(Leaks(files[f][k].text)) : k \in PassedOver(f)}
            IN  \A k \in DOMAIN toks :
                    /\ toks[k].kind \in {"WORD", "QSTRING"} =>
                          Range(ScanInternalFqdns(toks[k].text)) \subseteq excused
                    /\ \/ toks[k].kind = "WORD"
                       \/ toks[k].kind = "QSTRING" /\ InRuleBody(toks, k)
                       => Range(Leaks(toks[k].text)) \subseteq excused
===========================================================================
