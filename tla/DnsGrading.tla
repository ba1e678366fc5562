----------------------------- MODULE DnsGrading -----------------------------
(***************************************************************************)
(* The grades a DNS check gives, as functions of what it found.  A grade   *)
(* is [status, fix]: fix is the record to publish, or None.                *)
(*                                                                         *)
(* An SPF record is the sequence of its terms after v=spf1; a DKIM record  *)
(* is the key it publishes; a TXT record at _dmarc is [v, p, rua, stray],  *)
(* whether it starts as a DMARC record, its p=, whether it has a rua=, and *)
(* whether the text has "p=quarantine" or "p=reject" anywhere but in p=    *)
(* (in sp=, np=, a longer word).  MX hosts, TLS reports, MTA-STS and BIMI  *)
(* are what their grades tell apart.                                       *)
(***************************************************************************)
EXTENDS Naturals, Sequences, SequencesExt

CONSTANT None

Grade(status, fix) == [status |-> status, fix |-> fix]

\* The term an SPF record needs for mail sent through a provider of this type.
providerMechanism(type) ==
    CASE type = "gmail" -> "include:google"
      [] type = "ses"   -> "include:ses"
      [] type = "m365"  -> "include:outlook"
      [] OTHER          -> None

\* The types of the enabled providers in the chains of the domain's rules, and of all enabled
\* providers when those name none.
routedProviderTypes(chains, providers) ==
    LET named == UNION chains IN
    {providers[p].type : p \in {q \in DOMAIN providers : providers[q].enabled /\ (named = {} \/ q \in named)}}

\* What checkDomain requires of the SPF record.
Required(types) == {providerMechanism(t) : t \in types} \ {None}
-----------------------------------------------------------------------------
\* published: the first TXT record at the selector, or None.
gradeDkim(published, key, rotation) ==
    IF rotation = "revoked" THEN Grade(IF published = None THEN "ok" ELSE "warning", None)
    ELSE IF published = key THEN Grade("ok", None)
    ELSE Grade(IF rotation = "active" THEN "error" ELSE "warning", key)

QualifiedAll == {"-all", "~all", "?all", "+all"}
All == QualifiedAll \cup {"all"}
FindsAll == QualifiedAll \cup {"include:x-all"}   \* the pattern finds an all in the name too

buildSpf(includes) == includes \o <<"-all">>

\* Variant: the missing terms are appended to a record that has an all.
mergeSpfAppends(record, missing) ==
    IF SelectInSeq(record, LAMBDA t : t \in All) > 0 THEN record \o missing
    ELSE record \o missing \o <<"-all">>

\* Before the first all, or at the end with an all of their own.
mergeSpf(record, missing) ==
    LET all == SelectInSeq(record, LAMBDA t : t \in All) IN
    IF all > 0 THEN SubSeq(record, 1, all - 1) \o missing \o SubSeq(record, all, Len(record))
               ELSE record \o missing \o <<"-all">>

\* required is a set: the order its terms are proposed in tells nothing.
gradeSpf(records, required) ==
    IF records = <<>> THEN Grade("error", buildSpf(SetToSeq(required)))
    ELSE IF Len(records) > 1 THEN Grade("error", None)
    ELSE LET terms == ToSet(records[1])
             missing == required \ terms IN
         IF missing # {} THEN Grade("warning", mergeSpf(records[1], SetToSeq(missing)))
         ELSE IF terms \cap FindsAll = {} THEN Grade("warning", None)
         ELSE Grade(IF required = {} THEN "info" ELSE "ok", None)

Enforces(p) == p \in {"quarantine", "reject"}

\* The DMARC record looked at, the first of several, or 0.
FirstDmarc(records) == SelectInSeq(records, LAMBDA r : r.v)

gradeDmarc(records) ==
    LET first == FirstDmarc(records) IN
    IF first = 0 THEN Grade("error", [v |-> TRUE, p |-> "reject", rua |-> TRUE, stray |-> FALSE])
    ELSE Grade(IF Enforces(records[first].p) /\ records[first].rua THEN "ok" ELSE "warning", None)

gradeMx(exchanges) == Grade("info", None)
gradeTlsRpt(records) == Grade("info", None)

\* An address by the range it is in; an IPv4 address mapped into IPv6 is in its own.
PrivateRange == {"unspecified", "loopback", "private", "link-local", "unique-local"}
isPrivateAddr(addr) == addr \in PrivateRange

\* host: [addrs, from, served]: the addresses found for the policy's name (none for an implausible
\* one), the address that the fetch, which looks the name up again, then reads from, and what
\* the server at each address replies: [ok, big, mode].
safeFetchText(host) ==
    LET reply == host.served[host.from] IN
    IF host.addrs = {} \/ (\E a \in host.addrs : isPrivateAddr(a)) \/ ~reply.ok \/ reply.big
    THEN None ELSE reply.mode

\* policy: the mode of the policy file, or None when it could not be fetched.
gradeMtaSts(txt, policy) ==
    Grade(IF txt = None \/ policy \in {"enforce", "testing"} THEN "info" ELSE "warning", None)

\* What a look at a domain can find, where the shape matters.
DmarcPolicy == {"none", "quarantine", "reject", None}
DmarcRecord == [v : BOOLEAN, p : DmarcPolicy, rua : BOOLEAN, stray : BOOLEAN]
IsSequence(s) == s \in Seq(ToSet(s))
Found(zone) ==
    /\ DOMAIN zone = {"dkim", "spf", "dmarc", "mx", "tlsRpt", "stsTxt", "stsHost", "bimi"}
    /\ IsSequence(zone.spf) /\ \A record \in ToSet(zone.spf) : IsSequence(record)
    /\ zone.dmarc \in Seq(DmarcRecord)
    /\ zone.stsTxt # None => zone.stsHost.addrs \cup {zone.stsHost.from} \subseteq PrivateRange \cup {"public"}

\* txt: [logo], whether the record has one.
gradeBimi(txt, dmarcEnforcing) ==
    Grade(IF txt = None \/ (txt.logo /\ dmarcEnforcing) THEN "info" ELSE "warning", None)

\* The worst of the grades; "info" is no problem.
rollup(grades) ==
    LET statuses == {grades[i].status : i \in DOMAIN grades} IN
    IF "error" \in statuses THEN "error" ELSE IF "warning" \in statuses THEN "warning" ELSE "ok"
-----------------------------------------------------------------------------
\* Variant: any DMARC record counts as enforcing.
dmarcPresent(records) == records # <<>>

\* What BIMI takes for an enforcing policy: the pattern in any of the TXT records, DMARC or not.
dmarcEnforcing(records) == \E i \in DOMAIN records : Enforces(records[i].p) \/ records[i].stray

\* The grades of one domain but DKIM's (checkDomain).
RecordGrades(zone, required) ==
    <<gradeSpf(zone.spf, required), gradeDmarc(zone.dmarc), gradeMx(zone.mx), gradeTlsRpt(zone.tlsRpt),
      gradeMtaSts(zone.stsTxt, IF zone.stsTxt = None THEN None ELSE safeFetchText(zone.stsHost)),
      gradeBimi(zone.bimi, dmarcEnforcing(zone.dmarc))>>
-----------------------------------------------------------------------------
(* How receivers read an SPF record (RFC 7208, 4.6.2 and 6.1): terms are   *)
(* tried in order, all matches everything, redirect applies without an all. *)
Authorized(record) ==
    LET all == SelectInSeq(record, LAMBDA t : t \in All)
        end == IF all > 0 THEN all - 1 ELSE Len(record) IN
    {record[i] : i \in 1 .. end} \ (IF all > 0 THEN {"redirect"} ELSE {})
=============================================================================
