---------------------------- MODULE MailFlowOps ----------------------------
(***************************************************************************)
(* MailFlow together with what acts on its state from outside: the         *)
(* maintenance CronJob, which prunes rows and sweeps bodies, the operator, *)
(* who requeues a message or purges a queue through the Admin API, and the *)
(* Admin API itself, which mails its alerts through the relay.  None of    *)
(* them takes part in the delivery-tag protocol, so each works from what   *)
(* it last read.  The body store is the one in Postgres, the default.      *)
(***************************************************************************)
EXTENDS MailFlow

CONSTANT
    Budget   \* bounds [sweeps, requeues, purges, alerts] on maintenance runs, requests and alert mails

ASSUME OpsAssumption == Budget \subseteq [{"sweeps", "requeues", "purges", "alerts"} -> Nat]

VARIABLES
    sweep,       \* where the maintenance run is: "off", "pruned" or "walk"
    active,      \* the body keys its ActiveBodyRefs query returned
    request,     \* the job a requeue request is about to publish, or None
    alert,       \* the alert mail being submitted, [pc, id], pc "stored" or "inserted", or None
    budget       \* runs and requests still to come

\* Observations of the past: messages that were purged; those that had a row when the
\* sweep took its list.
VARIABLES purged, known

opsVars == <<sweep, active, request, alert, budget, purged, known>>
allVars == <<vars, opsVars>>

OpsInit ==
    /\ Init
    /\ sweep = "off" /\ active = {} /\ request = None /\ alert = None
    /\ budget \in Budget
    /\ purged = {} /\ known = {}

Spend(kind) == budget[kind] > 0 /\ budget' = [budget EXCEPT ![kind] = @ - 1]

Terminal == {"relayed", "bounced", "failed"}

\* Retention is days and the retry schedule 35 minutes: a row is pruned only
\* when nothing is left of its message in the broker or in a handler.
Forgotten(m) ==
    /\ status[m] \in Terminal /\ ~InBroker(m)
    /\ \A p \in Proc : pc[p] # "idle" => mem[p].id # m
    /\ request = None \/ request.id # m
    /\ alert = None \/ alert.id # m

\* main: PruneOld, whose error is only logged.
SweepPrune ==
    /\ sweep = "off" /\ Spend("sweeps") /\ sweep' = "pruned"
    /\ \E old \in SUBSET {m \in Id : Forgotten(m)} :
         /\ status' = [m \in Id |-> IF m \in old THEN "none" ELSE status[m]]
         /\ mailFrom' = [m \in Id |-> IF m \in old THEN None ELSE mailFrom[m]]
    /\ UNCHANGED <<body, suppr, loc, job, up, pc, mem, cur, live, left, sawDefer, dsn,
                   faults, pastVars, active, request, alert, purged, known>>

Snapshot(unsent) ==
    /\ sweep = "pruned" /\ sweep' = "walk"
    /\ active' = {m \in Id : status[m] \in unsent}
    /\ known' = {m \in Id : status[m] # "none"}
    /\ UNCHANGED <<vars, request, alert, budget, purged>>

\* Variant: only what was never tried counts as live.
SweepSnapshotQueued == Snapshot({"queued"})

\* ActiveBodyRefs: the messages not yet terminal, as of now.
SweepSnapshot == Snapshot({"queued", "deferred"})

\* Walk visits a stored body that the snapshot does not list, and deletes it.
SweepDelete(m) ==
    /\ sweep = "walk" /\ m \in body \ active
    /\ body' = body \ {m}
    /\ UNCHANGED <<status, mailFrom, suppr, loc, job, up, pc, mem, cur, live, left,
                   sawDefer, dsn, faults, pastVars, sweep, active, request, alert, budget, purged, known>>

\* The walk is over, or the query of the live bodies failed and main exits.
SweepEnd ==
    /\ sweep \in {"pruned", "walk"} /\ sweep' = "off" /\ active' = {} /\ known' = {}
    /\ UNCHANGED <<vars, request, alert, budget, purged>>

\* POST /api/messages/:id/requeue reads the row and refuses a terminal one.  The
\* job it builds has no DSN hints: the messages table does not keep them.
RequeueRead(m) ==
    /\ request = None /\ status[m] \in {"queued", "deferred"} /\ Spend("requeues")
    /\ request' = NewJob(m, [from |-> mailFrom[m], never |-> FALSE])
    /\ UNCHANGED <<vars, sweep, active, alert, purged, known>>

\* publishRelayJob, or the 502 when the API has no channel.
RequeuePublish ==
    /\ request # None /\ request' = None
    /\ \/ /\ Works /\ \E c \in Slot : Enqueue(c, "work", request)
          /\ enqueued' = enqueued \cup {request.id}
       \/ Fault /\ UNCHANGED <<loc, job, enqueued>>
    /\ UNCHANGED <<body, status, mailFrom, suppr, up, pc, mem, cur, live, left, sawDefer,
                   dsn, used, accepted, handed, permFailed, deadLettered, silenced, orig,
                   ndefer, quiet, sweep, active, alert, budget, purged, known>>

\* The queues that can be purged; every wait tier is one.
Queue == {[at |-> "work", tier |-> 0], [at |-> "dlq", tier |-> 0]} \cup [at : {"wait"}, tier : 1 .. NTiers]
Ready(c, q) ==
    /\ loc[c] = q.at /\ (q.at = "wait" => job[c].attempt = q.tier)
    /\ \A p \in Proc : live[p] => cur[p] # c

\* POST /api/queues/:name/purge: the broker drops what is ready in the queue.
Purge(q) ==
    /\ Spend("purges")
    /\ purged' = purged \cup {job[c].id : c \in {c \in Slot : Ready(c, q)}}
    /\ loc' = [c \in Slot |-> IF Ready(c, q) THEN "free" ELSE loc[c]]
    /\ job' = [c \in Slot |-> IF Ready(c, q) THEN None ELSE job[c]]
    /\ UNCHANGED <<body, status, mailFrom, suppr, up, pc, mem, cur, live, left, sawDefer,
                   dsn, faults, pastVars, sweep, active, request, alert, known>>

-----------------------------------------------------------------------------
alertRest == <<loc, job, suppr, up, pc, mem, cur, live, left, sawDefer, dsn, accepted, handed,
               permFailed, deadLettered, silenced, orig, ndefer, quiet,
               sweep, active, request, purged, known>>

\* injectEmail: the body, the row and the job, as session.Data does, for the alert sender.
AlertPut ==
    /\ alert = None /\ Works /\ Spend("alerts")
    /\ \E m \in Mail \ used :
         used' = used \cup {m} /\ body' = body \cup {m} /\ alert' = [pc |-> "stored", id |-> m]
    /\ UNCHANGED <<alertRest, status, mailFrom, enqueued>>

AlertInsert ==
    /\ alert # None /\ alert.pc = "stored" /\ Works
    /\ InsertMessage(alert.id, "addr") /\ alert' = [alert EXCEPT !.pc = "inserted"]
    /\ UNCHANGED <<alertRest, body, used, enqueued, budget>>

AlertPublish ==
    /\ alert # None /\ alert.pc = "inserted" /\ Works /\ alert' = None
    /\ \E c \in Slot : Enqueue(c, "work", NewJob(alert.id, [from |-> "addr", never |-> FALSE]))
    /\ enqueued' = enqueued \cup {alert.id}
    /\ UNCHANGED <<suppr, up, pc, mem, cur, live, left, sawDefer, dsn, accepted, handed, permFailed,
                   deadLettered, silenced, orig, ndefer, quiet, sweep, active, request, purged,
                   known, body, status, mailFrom, used, budget>>

\* A query fails, the API has no channel or dies: what was written stays, and nothing is retried.
AlertFails ==
    /\ alert # None /\ Fault /\ alert' = None
    /\ UNCHANGED <<alertRest, body, status, mailFrom, used, enqueued, budget>>

AlertMail == AlertPut \/ AlertInsert \/ AlertPublish \/ AlertFails
-----------------------------------------------------------------------------
OpsStep ==
    \/ SweepPrune \/ SweepSnapshot \/ SweepEnd
    \/ \E m \in Id : SweepDelete(m) \/ RequeueRead(m)
    \/ RequeuePublish
    \/ \E q \in Queue : Purge(q)
    \/ AlertMail

OpsNext == (Next /\ UNCHANGED opsVars) \/ OpsStep

OpsSpec == OpsInit /\ [][OpsNext]_allVars
-----------------------------------------------------------------------------
(***************************************************************************)
(* Properties.                                                             *)
(***************************************************************************)
\* Requeues and sweeps running beside the handlers lose nothing: a message the
\* broker once had is settled, still in a queue, or was purged by the operator.
NoLossButPurged == \A m \in enqueued : m \in purged \/ Settled(m) \/ InBroker(m)

\* Does a worker still have to read this body to hand the message over?
StillNeeded(m) ==
    /\ m \notin handed
    /\ \E c \in Slot : loc[c] \in {"work", "wait"} /\ job[c].id = m

\* Of the messages that had a row when the sweep took its list, it deletes no body that a
\* worker still has to send, however statuses, requeues and redeliveries move on under it;
\* but for a message already given up, of which a second copy may still be queued.  (One
\* accepted after the list was taken may lose its body.)
SweepsOrphansOnly ==
    [][\A m \in known : SweepDelete(m) =>
          ~StillNeeded(m) \/ m \in permFailed \cup deadLettered]_allVars
=============================================================================
