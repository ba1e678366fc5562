------------------------------ MODULE DkimKeys ------------------------------
(***************************************************************************)
(* The DKIM keys of one relay domain, from the requests that generate them *)
(* through the database and the delivery worker's reload to the DNS zone,  *)
(* and the checks that compare the zone with the database.  A generation   *)
(* is four autocommitted queries; delivery reads the active rows first and *)
(* their secrets one by one afterwards.                                    *)
(*                                                                         *)
(* A key pair is named after the request that minted it, one of a client's *)
(* own is "foreign"; a secret is named after the selector it belongs to    *)
(* (dkim/<domain>/<selector>), "elsewhere" is any other name.              *)
(***************************************************************************)
EXTENDS DnsGrading, FiniteSets

CONSTANTS
    Selector,    \* selectors operators choose
    Generation,  \* requests that generate a key
    OldKey,      \* the key some domains start with
    Start,       \* starting points [zone, chains, providers, keyed, requests]: the zone, the chains of the
                 \* domain's rules, the providers [type, enabled], the selectors OldKey is active on and
                 \* signing with, and the budget
    Written,     \* rows clients write by hand
    MaxFaults    \* bound on failures, deaths, deletions and rows written by hand

Key == Generation \cup {OldKey, "foreign"}
Ref == Selector \cup {"elsewhere"}
Rotation == {"active", "retiring", "revoked"}
KeyRow == [key : Key, ref : Ref, rotation : Rotation]
Signer == [sel : Selector, key : Key]
Load == [todo : SUBSET [sel : Selector, ref : Ref], found : Signer \cup {None}]

ASSUME DkimAssumption ==
    /\ OldKey \notin Generation /\ "foreign" \notin Generation \cup {OldKey}
    /\ MaxFaults \in Nat /\ Written \subseteq KeyRow
    /\ None \notin Key \cup {"enforce", "testing"} \cup KeyRow \cup Signer \cup Load
    /\ \A s \in Start :
          /\ Found(s.zone) /\ s.requests \in Nat
          /\ s.keyed \subseteq Selector /\ \A x, y \in s.keyed : x = y

VARIABLES
    zone,     \* DNS: [dkim, spf, dmarc, ...], dkim[s] the key published at s or None
    types,    \* types of the enabled providers the domain is routed through
    keys,     \* dkim_keys: per selector [key, ref, rotation], key the public half, or None
    secret,   \* secrets: per name the private half stored, or None
    gen,      \* per request [pc, sel]
    signer,   \* delivery: the signer in use, [sel, key] or None
    load,     \* delivery: the reload under way, [todo, found], todo the rows [sel, ref] whose secret
              \* is still to be read, or None
    pending,  \* delivery: config.changed events or a start not yet acted on
    faults, requests

\* What happened: "died" in the middle of a request, "overlap" of two generations, a selector
\* made active beside another one ("doubled"), a row "edited" by hand, a secret "deleted" or
\* "replaced" by a client, or something "unread" by a reload.
VARIABLE mishaps

dbVars == <<keys, secret>>
vars == <<zone, types, keys, secret, gen, signer, load, pending, faults, requests, mishaps>>

\* The row of a generated key.
OwnRow(s, key) == [key |-> key, ref |-> s, rotation |-> "active"]

Init ==
    \E s \in Start :
        /\ zone = s.zone /\ types = routedProviderTypes(s.chains, s.providers) /\ requests = s.requests
        /\ keys = [x \in Selector |-> IF x \in s.keyed THEN OwnRow(x, OldKey) ELSE None]
        /\ secret = [x \in Ref |-> IF x \in s.keyed THEN OldKey ELSE None]
        /\ gen = [g \in Generation |-> [pc |-> "idle", sel |-> None]]
        /\ signer = IF s.keyed = {} THEN None ELSE [sel |-> CHOOSE x \in s.keyed : TRUE, key |-> OldKey]
        /\ load = None /\ pending = FALSE
        /\ faults = 0 /\ mishaps = {}

Active == {s \in Selector : keys[s] # None /\ keys[s].rotation = "active"}
UnderWay(g) == gen[g].pc \notin {"idle", "done", "replied"}
Goto(g, l) == gen' = [gen EXCEPT ![g].pc = l]
Fault == faults < MaxFaults /\ faults' = faults + 1
-----------------------------------------------------------------------------
\* POST /api/dkim-keys/generate: mint a pair for a selector, new or used before.
Begin(g) ==
    /\ gen[g].pc = "idle" /\ requests > 0 /\ requests' = requests - 1
    /\ \E s \in Selector : gen' = [gen EXCEPT ![g] = [pc |-> "minted", sel |-> s]]
    /\ mishaps' = mishaps \cup (IF \E h \in Generation : UnderWay(h) THEN {"overlap"} ELSE {})
    /\ UNCHANGED <<zone, types, dbVars, signer, load, pending, faults>>

rest == <<zone, types, signer, load, faults, requests, mishaps>>

\* Variant: a secret that is there already is kept (ON CONFLICT DO NOTHING).
PutSecretOnce(g, from, to) ==
    /\ gen[g].pc = from /\ Goto(g, to)
    /\ secret' = [secret EXCEPT ![gen[g].sel] = IF @ = None THEN g ELSE @]
    /\ UNCHANGED <<rest, keys, pending>>

PutSecret(g, from, to) ==
    /\ gen[g].pc = from /\ Goto(g, to)
    /\ secret' = [secret EXCEPT ![gen[g].sel] = g]
    /\ UNCHANGED <<rest, keys, pending>>

Retire(g, from, to) ==
    /\ gen[g].pc = from /\ Goto(g, to)
    /\ keys' = [s \in Selector |-> IF s \in Active THEN [keys[s] EXCEPT !.rotation = "retiring"] ELSE keys[s]]
    /\ UNCHANGED <<rest, secret, pending>>

Activate(g, from, to) ==
    /\ gen[g].pc = from /\ Goto(g, to)
    /\ keys' = [keys EXCEPT ![gen[g].sel] = OwnRow(gen[g].sel, g)]
    /\ UNCHANGED <<rest, secret, pending>>

\* config.changed, and the record to publish in the reply.
Announce(g) ==
    /\ gen[g].pc = "active" /\ Goto(g, "replied") /\ pending' = TRUE
    /\ UNCHANGED <<rest, dbVars>>

\* Variant: the row first, the private key after it.
GenerateRowFirst(g) ==
    \/ Retire(g, "minted", "retired") \/ Activate(g, "retired", "stored")
    \/ PutSecret(g, "stored", "active") \/ Announce(g)

Generate(g) ==
    \/ PutSecret(g, "minted", "stored") \/ Retire(g, "stored", "retired")
    \/ Activate(g, "retired", "active") \/ Announce(g)

\* A query fails, or the process dies: what was written stays.
GenerateFails(g) ==
    /\ UnderWay(g) /\ Goto(g, "done") /\ Fault /\ mishaps' = mishaps \cup {"died"}
    /\ UNCHANGED <<zone, types, dbVars, signer, load, pending, requests>>

\* config.changed follows the write, unless the process dies between the two.
Tell(what) ==
    \/ pending' = TRUE /\ UNCHANGED faults /\ mishaps' = mishaps \cup what
    \/ Fault /\ mishaps' = mishaps \cup what \cup {"died"} /\ UNCHANGED pending

others == <<zone, types, gen, signer, load>>

\* PUT /api/dkim-keys/:id of the rotation, whatever it was and whatever the other rows have.
SetRotation ==
    /\ requests > 0 /\ requests' = requests - 1
    /\ \E s \in Selector, rotation \in Rotation :
          /\ keys[s] # None /\ keys' = [keys EXCEPT ![s].rotation = rotation]
          /\ Tell(IF rotation = "active" /\ (Active \ {s} # {} \/ \E g \in Generation : gen[g].pc = "retired")
                  THEN {"doubled"} ELSE {})
    /\ UNCHANGED <<others, secret>>

\* DELETE of the row: the secret stays.
DeleteKey ==
    /\ requests > 0 /\ requests' = requests - 1
    /\ \E s \in Selector : keys[s] # None /\ keys' = [keys EXCEPT ![s] = None]
    /\ Tell({}) /\ UNCHANGED <<others, secret>>

\* POST of a row, PUT of any of its columns, or of another selector nobody has.
EditKey ==
    /\ \E s, t \in Selector : \E row \in Written \cup {keys[s]} :
          /\ row # None /\ (t = s \/ keys[t] = None)
          /\ keys' = [keys EXCEPT ![s] = None, ![t] = row]
    /\ Fault /\ mishaps' = mishaps \cup {"edited"} /\ pending' \in {pending, TRUE}
    /\ UNCHANGED <<others, secret, requests>>

\* DELETE /api/secrets/:ref.
DeleteSecret ==
    /\ \E r \in Ref : secret[r] # None /\ secret' = [secret EXCEPT ![r] = None]
    /\ Fault /\ mishaps' = mishaps \cup {"deleted"} /\ pending' \in {pending, TRUE}
    /\ UNCHANGED <<others, keys, requests>>

\* PUT /api/secrets/:ref: a client stores a private key of its own, or what is none.
SetSecret ==
    /\ \E r \in Ref : secret' = [secret EXCEPT ![r] = "foreign"]
    /\ Fault /\ mishaps' = mishaps \cup {"replaced"} /\ pending' \in {pending, TRUE}
    /\ UNCHANGED <<others, keys, requests>>
-----------------------------------------------------------------------------
Unread == Fault /\ mishaps' = mishaps \cup {"unread"}

\* Delivery's buildState: the active rows, or none when their query fails; then the secret of
\* each in the order of the rows; of several signers of the domain the last one stays.
LoadRows ==
    /\ pending /\ load = None /\ pending' = FALSE
    /\ \/ /\ load' = [todo |-> {[sel |-> s, ref |-> keys[s].ref] : s \in Active}, found |-> None]
          /\ UNCHANGED <<faults, mishaps>>
       \/ load' = [todo |-> {}, found |-> None] /\ Unread
    /\ UNCHANGED <<zone, types, dbVars, gen, signer, requests>>

\* A secret that is missing, unreadable or no key is skipped.
FetchSecret ==
    /\ load # None
    /\ \E r \in load.todo :
          \/ /\ secret[r.ref] # None
             /\ load' = [todo |-> load.todo \ {r}, found |-> [sel |-> r.sel, key |-> secret[r.ref]]]
             /\ UNCHANGED <<faults, mishaps>>
          \/ /\ load' = [load EXCEPT !.todo = @ \ {r}]
             /\ IF secret[r.ref] \in {None, "foreign"} THEN UNCHANGED <<faults, mishaps>> ELSE Unread
    /\ UNCHANGED <<zone, types, dbVars, gen, signer, pending, requests>>

Install ==
    /\ load # None /\ load.todo = {}
    /\ signer' = load.found /\ load' = None
    /\ UNCHANGED <<zone, types, dbVars, gen, pending, faults, requests, mishaps>>

\* The worker dies; its successor builds its state before it consumes.
Restart ==
    /\ Fault /\ signer' = None /\ load' = None /\ pending' = TRUE
    /\ UNCHANGED <<zone, types, dbVars, gen, requests, mishaps>>
-----------------------------------------------------------------------------
required == Required(types)
DkimGrade(s) == gradeDkim(zone.dkim[s], keys[s].key, keys[s].rotation)

\* The domain's owner publishes what a check proposes, or what the reply to a generation
\* said; and removes a key that is no longer listed, or revoked.
Publish ==
    /\ \/ \E s \in Selector :
             /\ keys[s] # None /\ DkimGrade(s).fix # None
             /\ zone' = [zone EXCEPT !.dkim[s] = DkimGrade(s).fix]
       \/ \E g \in Generation :
             /\ gen[g].pc = "replied"
             /\ zone' = [zone EXCEPT !.dkim[gen[g].sel] = g]
       \/ \E s \in Selector :
             /\ IF keys[s] = None THEN TRUE ELSE keys[s].rotation = "revoked"
             /\ zone' = [zone EXCEPT !.dkim[s] = None]
       \/ /\ gradeSpf(zone.spf, required).fix # None
          /\ zone' = [zone EXCEPT !.spf = <<gradeSpf(zone.spf, required).fix>>]
       \/ /\ gradeDmarc(zone.dmarc).fix # None
          /\ \E kept \in {<<>>, zone.dmarc} : zone' = [zone EXCEPT !.dmarc = Append(kept, gradeDmarc(zone.dmarc).fix)]
    /\ UNCHANGED <<types, dbVars, gen, signer, load, pending, faults, requests, mishaps>>

Next ==
    \/ \E g \in Generation : Begin(g) \/ Generate(g) \/ GenerateFails(g)
    \/ SetRotation \/ DeleteKey \/ EditKey \/ DeleteSecret \/ SetSecret
    \/ LoadRows \/ FetchSecret \/ Install \/ Restart
    \/ Publish

Spec == Init /\ [][Next]_vars
-----------------------------------------------------------------------------
\* A generation never leaves an active row without a private key, whatever step it dies at,
\* whichever other generation it meets and however rotations are set in between, back to
\* "active" included: the secret is stored first (routes.ts).
ActiveBacked ==
    mishaps \cap {"deleted", "edited"} = {} => \A s \in Active : secret[keys[s].ref] # None

\* As long as no request dies midway, generations do not overlap, nobody makes a selector active
\* beside another one or writes rows and secrets by hand, and reloads can read what they need:
\* between changes, retirements, revocations and roll-backs included, at most one selector is
\* active, and delivery signs with it and with the private half of the very key the checks
\* compare the zone with; so a zone that is graded ok verifies the mail that is sent.
Quiet == load = None /\ ~pending /\ \A g \in Generation : ~UnderWay(g)
RotationClean ==
    (Quiet /\ mishaps = {}) =>
        /\ Cardinality(Active) <= 1
        /\ signer = None <=> Active = {}
        /\ \A s \in Active :
              /\ signer = [sel |-> s, key |-> keys[s].key]
              /\ DkimGrade(s).status = "ok" <=> zone.dkim[s] = signer.key

\* Of an SPF record without redirect: the record proposed authorizes every provider that was
\* missing and everybody the old one authorized, and needs no further fix (mergeSpf).  A record
\* graded ok authorizes the route, unless terms follow its all.
FixAuthorizes ==
    LET record == IF zone.spf = <<>> THEN <<>> ELSE zone.spf[1]
        grade == gradeSpf(zone.spf, required) IN
    "redirect" \notin ToSet(record) =>
        /\ grade.fix # None =>
              /\ gradeSpf(<<grade.fix>>, required).fix = None
              /\ Authorized(record) \subseteq Authorized(grade.fix)
              /\ required \ ToSet(record) \subseteq Authorized(grade.fix)
        /\ (grade.status = "ok" /\ record[Len(record)] \in All /\ Authorized(record) = ToSet(Front(record)))
              => required \subseteq Authorized(record)

\* Where nothing but the p= of the DMARC record receivers apply says quarantine or reject, BIMI
\* is called fine only if that record does; whenever DMARC is in order, a BIMI record with a
\* logo is called fine.  MTA-STS is called fine only on a policy that was read whole, after its
\* host had public addresses alone: from one of those, unless the name moved in between.  A
\* domain rolled up as ok has DMARC and SPF in order.
GradesAgree ==
    LET grades == RecordGrades(zone, required)
        first == FirstDmarc(zone.dmarc)
        host == zone.stsHost IN
    /\ (zone.bimi # None /\ grades[6].status = "info"
            /\ \A i \in DOMAIN zone.dmarc : ~zone.dmarc[i].stray /\ (i # first => ~Enforces(zone.dmarc[i].p)))
          => first # 0 /\ Enforces(zone.dmarc[first].p)
    /\ (zone.bimi # None /\ zone.bimi.logo /\ grades[2].status = "ok") => grades[6].status = "info"
    /\ (zone.stsTxt # None /\ grades[5].status = "info") =>
          /\ host.addrs = {"public"} /\ (host.from \in host.addrs => host.from = "public")
          /\ LET reply == host.served[host.from] IN reply.ok /\ ~reply.big /\ reply.mode \in {"enforce", "testing"}
    /\ rollup(grades) = "ok" => grades[1].status \in {"ok", "info"} /\ grades[2].status = "ok"
=============================================================================
