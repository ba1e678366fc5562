--------------------------- MODULE Deliverability ---------------------------
(***************************************************************************)
(* DNS checks of one relay domain.  Every replica of the Admin API runs    *)
(* its own scheduler, and operators ask for checks of their own; each      *)
(* check looks at the zone and then replaces the cached report and appends *)
(* to the history in one READ COMMITTED transaction.                       *)
(*                                                                         *)
(* A report is [status, keys]: its rollup, and the (record, selector) keys *)
(* of its rows.                                                            *)
(***************************************************************************)
EXTENDS Naturals, FiniteSets

CONSTANTS
    Zone,         \* what can be in DNS: status of a look, and whether a DKIM key is configured
    Replica,      \* Admin API processes, each with a scheduler
    Request,      \* requests for a check that may be under way at once
    MaxChanges,   \* bound on changes of the zone, of the keys and of the channels
    MaxRequests,  \* bound on requests
    MaxFaults,    \* bound on looks that find what is not there, failed queries and crashes
    None

Status == {"ok", "warning", "error"}

ASSUME DeliverabilityAssumption ==
    /\ Zone \subseteq [status : Status, keyed : BOOLEAN]
    /\ MaxChanges \in Nat /\ MaxRequests \in Nat /\ MaxFaults \in Nat
    /\ Replica \cap Request = {}
    /\ None \notin Status

Proc == Replica \cup Request
Seen == {z.status : z \in Zone}

VARIABLES
    zone,     \* what a check finds now, a member of Zone
    rows,     \* domain_dns_checks: rows [key, rep]
    history,  \* domain_dns_history: the status appended last
    pc,       \* a process: "idle", "miss", "checked", "open", and for replicas what follows
    rep,      \* the report in its hands
    snap,     \* the rows its DELETE has seen
    changes, requests, faults

\* Every status the zone has really had.
VARIABLE truth

checkVars == <<zone, rows, history, pc, rep, snap, changes, requests, faults, truth>>
budgets == <<changes, requests, faults>>

CheckInit ==
    /\ zone \in Zone
    /\ rows = {} /\ history = None
    /\ pc = [p \in Proc |-> "idle"]
    /\ rep = [p \in Proc |-> None] /\ snap = [p \in Proc |-> {}]
    /\ changes = 0 /\ requests = 0 /\ faults = 0
    /\ truth = {zone.status}

Goto(p, l) == pc' = [pc EXCEPT ![p] = l]

\* The table's primary key is (domain, record, selector): every report has one row for
\* SPF, and rows for the configured selectors or one that says there are none.
Keys(keyed) == {"spf", IF keyed THEN "dkim s1" ELSE "dkim"}
Rows(r) == {[key |-> k, rep |-> r] : k \in r.keys}
-----------------------------------------------------------------------------
\* The domain's owner edits the zone, or an operator adds or removes its key.
ZoneChanges ==
    /\ changes < MaxChanges /\ changes' = changes + 1
    /\ zone' \in Zone \ {zone}
    /\ truth' = truth \cup {zone'.status}
    /\ UNCHANGED <<rows, history, pc, rep, snap, requests, faults>>

Fault == faults < MaxFaults /\ faults' = faults + 1

\* A request counts when it begins; schedulers never stop.
Begins(p) ==
    IF p \in Request THEN requests < MaxRequests /\ requests' = requests + 1
                     ELSE UNCHANGED requests

\* getAllReports finds nothing cached for the domain and will look itself.
ReadCacheMiss(p) ==
    /\ p \in Request /\ pc[p] = "idle" /\ rows = {} /\ Begins(p)
    /\ Goto(p, "miss")
    /\ UNCHANGED <<zone, rows, history, rep, snap, changes, faults, truth>>

Reports(p, s) == rep' = [rep EXCEPT ![p] = [status |-> s, keys |-> Keys(zone.keyed)]]

\* A lookup that fails or times out counts as an absent record, and a zone edited under the
\* check gives a mixture: the check finds what is not there.
LookupFails(p) == Fault /\ \E s \in Seen \ {zone.status} : Reports(p, s)

\* checkDomain: the scheduler's tick, a re-check or the look after a miss.
CheckDomain(p) ==
    /\ pc[p] \in {"idle", "miss"} /\ Goto(p, "checked")
    /\ IF pc[p] = "idle" THEN Begins(p) ELSE UNCHANGED requests
    /\ (Reports(p, zone.status) /\ UNCHANGED faults) \/ LookupFails(p)
    /\ UNCHANGED <<zone, rows, history, snap, changes, truth>>

\* checkDomain throws: after a miss the failure itself is reported and stored.
CheckFails(p) ==
    /\ pc[p] = "miss" /\ Fault /\ Goto(p, "checked")
    /\ rep' = [rep EXCEPT ![p] = [status |-> "error", keys |-> {"spf"}]]
    /\ UNCHANGED <<zone, rows, history, snap, changes, requests, truth>>

\* persistCheck: BEGIN and DELETE, which sees the rows committed by now.
Delete(p) ==
    /\ pc[p] = "checked" /\ Goto(p, "open")
    /\ snap' = [snap EXCEPT ![p] = rows]
    /\ UNCHANGED <<zone, rows, history, rep, requests, changes, faults, truth>>

\* What a process holds is forgotten once its check is stored, except that a scheduler's
\* report goes on to the alerts.  The rows stored are new, even when they say what was there.
Stored(p) ==
    /\ history' = rep[p].status
    /\ snap' = [q \in Proc |-> IF q = p THEN {} ELSE snap[q] \ Rows(rep[p])]
    /\ rep' = IF p \in Replica THEN rep ELSE [rep EXCEPT ![p] = None]
    /\ Goto(p, IF p \in Replica THEN "report" ELSE "idle")
    /\ UNCHANGED <<zone, requests, changes, faults, truth>>

\* Variant: an upsert where the code inserts, so that no conflict is ever noticed.
CommitUpserts(p) ==
    /\ pc[p] = "open" /\ Stored(p)
    /\ rows' = {x \in rows \ snap[p] : x.key \notin rep[p].keys} \cup Rows(rep[p])

\* INSERTs and COMMIT: they succeed only if nobody has inserted one of the keys since.
Commit(p) ==
    /\ pc[p] = "open" /\ Stored(p)
    /\ \A x \in rows \ snap[p] : x.key \notin rep[p].keys
    /\ rows' = (rows \ snap[p]) \cup Rows(rep[p])

\* A duplicate key, or a failed query: ROLLBACK; the caller logs it and goes on without.
Rollback(p) ==
    /\ pc[p] = "open" /\ Goto(p, "idle")
    /\ \/ (\E x \in rows \ snap[p] : x.key \in rep[p].keys) /\ UNCHANGED faults
       \/ Fault
    /\ snap' = [snap EXCEPT ![p] = {}] /\ rep' = [rep EXCEPT ![p] = None]
    /\ UNCHANGED <<zone, rows, history, requests, changes, truth>>

\* A process dies with its request or its tick; Postgres rolls its transaction back.
Dies(p) ==
    /\ pc[p] # "idle" /\ Fault
    /\ Goto(p, "idle")
    /\ rep' = [rep EXCEPT ![p] = None] /\ snap' = [snap EXCEPT ![p] = {}]
    /\ UNCHANGED <<zone, rows, history, requests, changes, truth>>

Persist(p) == Delete(p) \/ Commit(p) \/ Rollback(p)
-----------------------------------------------------------------------------
\* The cache holds one report, whole, and the history ends with its status: no mixture of
\* two checks whose transactions overlapped, no row without its history (persistCheck).
OneReport ==
    rows # {} => \E x \in rows : rows = Rows(x.rep) /\ history = x.rep.status

\* What readCachedMap makes of the rows.
CachedStatus == IF \E x \in rows : x.rep.status = "error" THEN "error"
                ELSE IF \E x \in rows : x.rep.status = "warning" THEN "warning" ELSE "ok"
=============================================================================
