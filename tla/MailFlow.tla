------------------------------ MODULE MailFlow ------------------------------
(***************************************************************************)
(* The mail path of the relay: ingress sessions persist and enqueue a      *)
(* message, delivery workers hand it to a provider chain or escalate it    *)
(* through the wait tiers to the dead-letter queue, and the DSN generator  *)
(* turns a dead letter into a bounce that travels the same path.           *)
(*                                                                         *)
(* Every call a handler makes to the body store, to Postgres, to the bus   *)
(* or to a provider is a step of its own, so a crash, a connection loss    *)
(* or another process can come between any two of them.                    *)
(*                                                                         *)
(* The broker is external.  It is modelled by what the code relies on:     *)
(* an unacked delivery goes back to its queue when the consumer's          *)
(* connection is lost or the delivery is nacked; frames written to a dead  *)
(* connection are lost, the publish frame as well as the ack behind it.    *)
(***************************************************************************)
EXTENDS Naturals

CONSTANTS
    Mail,       \* ids newID() yields in ingress, one per DATA command
    Dsn,        \* ids newID() yields in the DSN generator
    Slot,       \* places for a job in the broker's queues (bounds the copies)
    Session,    \* ingress SMTP sessions
    Worker,     \* delivery goroutines
    Gen,        \* DSN generator processes
    Envelope,   \* the envelopes clients submit
    NTiers,     \* len(amqp.WaitTiers)
    MaxChain,   \* longest failover chain routing may resolve
    MaxFaults,  \* bound on failed calls, connection losses and crashes
    None

Id == Mail \cup Dsn
Proc == Session \cup Worker \cup Gen
From == {"addr", "null"}     \* a sender address, or the null return-path <>

ASSUME DistinctAssumption ==
    /\ Mail \cap Dsn = {}
    /\ Session \cap Worker = {} /\ Session \cap Gen = {} /\ Worker \cap Gen = {}
    /\ None \notin Id /\ None \notin Slot /\ None \notin From
ASSUME BoundAssumption == NTiers \in Nat /\ MaxChain \in Nat /\ MaxFaults \in Nat
ASSUME EnvelopeAssumption == Envelope \subseteq [from: From, never: BOOLEAN]

\* model.RelayJob: the message it refers to, the parts of its envelope the
\* pipeline looks at, and how many times it has been deferred.
Job == [id: Id, from: From, never: BOOLEAN, attempt: 0..(NTiers + 1)]
NewJob(id, env) == [id |-> id, from |-> env.from, never |-> env.never, attempt |-> 0]

VARIABLES
    body,      \* keys present in the body store
    status,    \* messages.status; "none" where there is no row
    mailFrom,  \* messages.mail_from; None where there is no row
    loc,       \* the queue a broker slot belongs to, or "free"
    job,       \* the job in a slot
    up,        \* do frames written by this process reach the broker?
    pc,        \* where each process is in its handler
    mem,       \* the job a process is handling
    cur,       \* the slot a consumer's delivery came from
    live,      \* is its delivery tag still valid (not returned to the queue)?
    left,      \* providers of the chain not tried yet
    sawDefer,  \* handle's sawDefer
    dsn,       \* handle's dsnID
    suppr,     \* messages whose recipients were added to suppressions
    faults     \* failures still to come

\* Observations of the past, read by properties only (used: newID is fresh).
VARIABLES used, accepted, enqueued, handed, permFailed, deadLettered,
          silenced, orig, ndefer, quiet

implVars == <<body, status, mailFrom, loc, job, up, pc, mem, cur, live, left,
              sawDefer, dsn, suppr, faults>>
pastVars == <<used, accepted, enqueued, handed, permFailed, deadLettered,
              silenced, orig, ndefer, quiet>>
vars == <<implVars, pastVars>>
-----------------------------------------------------------------------------
Init ==
    /\ body = {} /\ suppr = {}
    /\ status = [i \in Id |-> "none"] /\ mailFrom = [i \in Id |-> None]
    /\ loc = [c \in Slot |-> "free"] /\ job = [c \in Slot |-> None]
    /\ up = [p \in Proc |-> TRUE] /\ pc = [p \in Proc |-> "idle"]
    /\ mem = [p \in Proc |-> None] /\ cur = [p \in Proc |-> None]
    /\ live = [p \in Proc |-> FALSE]
    /\ left = [w \in Worker |-> 0] /\ sawDefer = [w \in Worker |-> FALSE]
    /\ dsn = [g \in Gen |-> None]
    /\ faults = MaxFaults
    /\ used = {} /\ accepted = {} /\ enqueued = {} /\ handed = {}
    /\ permFailed = {} /\ deadLettered = {} /\ silenced = {} /\ quiet = {}
    /\ orig = [d \in Dsn |-> None] /\ ndefer = [i \in Id |-> 0]

\* A call fails (or a process or connection does): spend one failure.
Fault == faults > 0 /\ faults' = faults - 1
Works == UNCHANGED faults

Goto(p, label) == pc' = [pc EXCEPT ![p] = label]

\* RecordAttempt: the status is overwritten whatever it was; a missing row
\* makes the event insert fail and the transaction roll back.  Its error is
\* ignored by every caller.
RecordAttempt(id, st) ==
    \/ Works /\ status' = [status EXCEPT ![id] = IF @ = "none" THEN @ ELSE st]
    \/ Fault /\ UNCHANGED status

\* InsertMessage: the row, in status queued.
InsertMessage(id, from) ==
    /\ status' = [status EXCEPT ![id] = "queued"]
    /\ mailFrom' = [mailFrom EXCEPT ![id] = from]

\* store.Delete, with its error ignored by every caller.
DeleteBody(id) ==
    \/ Works /\ body' = body \ {id}
    \/ Fault /\ UNCHANGED body

\* The broker routes a published job to a queue.
Enqueue(c, q, j) ==
    /\ loc[c] = "free"
    /\ loc' = [loc EXCEPT ![c] = q]
    /\ job' = [job EXCEPT ![c] = j]

\* The end of a handler.  Returning without an ack that reaches the broker
\* leaves the job where it is: d.Nack(false, true), or a stale delivery tag.
Idle(p) ==
    /\ pc' = [pc EXCEPT ![p] = "idle"] /\ mem' = [mem EXCEPT ![p] = None]
    /\ cur' = [cur EXCEPT ![p] = None] /\ live' = [live EXCEPT ![p] = FALSE]
Nack(p) == Idle(p) /\ UNCHANGED <<loc, job>>
Ack(p) ==
    /\ Idle(p)
    /\ IF live[p]
       THEN /\ loc' = [loc EXCEPT ![cur[p]] = "free"]
            /\ job' = [job EXCEPT ![cur[p]] = None]
       ELSE UNCHANGED <<loc, job>>
-----------------------------------------------------------------------------
(***************************************************************************)
(* Ingress: session.Data.                                                  *)
(***************************************************************************)
sessionUnchanged == UNCHANGED <<cur, live, up, left, sawDefer, dsn, suppr, handed,
                      permFailed, deadLettered, silenced, orig, ndefer>>

\* Variant: the error of store.Put is ignored and the session goes on.
DataPutUnchecked(s) ==
    /\ pc[s] = "idle"
    /\ \E id \in Mail \ used, env \in Envelope :
         /\ used' = used \cup {id}
         /\ quiet' = IF env.never THEN quiet \cup {id} ELSE quiet
         /\ \/ Works /\ body' = body \cup {id}
            \/ Fault /\ UNCHANGED body
         /\ Goto(s, "stored") /\ mem' = [mem EXCEPT ![s] = NewJob(id, env)]
    /\ UNCHANGED <<status, mailFrom, loc, job, accepted, enqueued>>
    /\ sessionUnchanged

\* store.Put of the body under a new id.  When the call fails the body may or
\* may not have been stored, and the client is told to try again.
DataPut(s) ==
    /\ pc[s] = "idle"
    /\ \E id \in Mail \ used, env \in Envelope :
         /\ used' = used \cup {id}
         /\ quiet' = IF env.never THEN quiet \cup {id} ELSE quiet
         /\ \/ /\ Works /\ body' = body \cup {id}
               /\ Goto(s, "stored")
               /\ mem' = [mem EXCEPT ![s] = NewJob(id, env)]
            \/ Fault /\ body' \in {body, body \cup {id}} /\ UNCHANGED <<pc, mem>>
    /\ UNCHANGED <<status, mailFrom, loc, job, accepted, enqueued>>
    /\ sessionUnchanged

\* Over the size cap: delete the body again and answer 552.
DataOversize(s) ==
    /\ pc[s] = "stored"
    /\ DeleteBody(mem[s].id)
    /\ Goto(s, "idle") /\ mem' = [mem EXCEPT ![s] = None]
    /\ UNCHANGED <<status, mailFrom, loc, job, used, quiet, accepted, enqueued>>
    /\ sessionUnchanged

\* db.InsertMessage.  When it fails the row may still have been committed.
DataInsert(s) ==
    /\ pc[s] = "stored"
    /\ \/ /\ Works /\ InsertMessage(mem[s].id, mem[s].from)
          /\ Goto(s, "inserted") /\ UNCHANGED mem
       \/ /\ Fault
          /\ InsertMessage(mem[s].id, mem[s].from) \/ UNCHANGED <<status, mailFrom>>
          /\ Goto(s, "idle") /\ mem' = [mem EXCEPT ![s] = None]
    /\ UNCHANGED <<body, loc, job, used, quiet, accepted, enqueued>>
    /\ sessionUnchanged

\* bus.Publish, and the 250 reply.  There are no publisher confirms: a job
\* written to a connection that is already dead is reported as published.
\* Once the client library notices, publish retries until the deadline.
DataPublish(s) ==
    LET id == mem[s].id IN
    /\ pc[s] = "inserted"
    /\ \/ /\ up[s] /\ \E c \in Slot : Enqueue(c, "work", mem[s])
          /\ enqueued' = enqueued \cup {id} /\ accepted' = accepted \cup {id}
       \/ /\ ~up[s] /\ accepted' = accepted \cup {id}
          /\ UNCHANGED <<loc, job, enqueued>>
       \/ ~up[s] /\ UNCHANGED <<loc, job, enqueued, accepted>>
    /\ Goto(s, "idle") /\ mem' = [mem EXCEPT ![s] = None]
    /\ UNCHANGED <<body, status, mailFrom, used, quiet, faults>>
    /\ sessionUnchanged

SessionStep(s) ==
    DataPut(s) \/ DataOversize(s) \/ DataInsert(s) \/ DataPublish(s)
-----------------------------------------------------------------------------
(***************************************************************************)
(* Connections, crashes and the broker.                                    *)
(***************************************************************************)
envUnchanged == UNCHANGED <<body, status, mailFrom, left, sawDefer, dsn, suppr, pastVars>>

\* The process's connection dies.  The broker returns its unacked delivery to
\* the queue; the process goes on with what is now a stale delivery.
ConnDrop(p) ==
    /\ up[p] /\ Fault
    /\ up' = [up EXCEPT ![p] = FALSE] /\ live' = [live EXCEPT ![p] = FALSE]
    /\ UNCHANGED <<pc, mem, cur, loc, job>> /\ envUnchanged

\* supervise/reconnect: redial and re-establish the consumers.
Reconnect(p) ==
    /\ ~up[p] /\ up' = [up EXCEPT ![p] = TRUE]
    /\ UNCHANGED <<pc, mem, cur, live, loc, job, faults>> /\ envUnchanged

\* The process dies in the middle of its handler and is started again.
Crash(p) ==
    /\ pc[p] # "idle" /\ Fault
    /\ up' = [up EXCEPT ![p] = FALSE]
    /\ Nack(p) /\ envUnchanged

\* The broker pushes a ready job to a consumer of its queue.
Deliver(p, c) ==
    /\ pc[p] = "idle" /\ up[p]
    /\ loc[c] = IF p \in Worker THEN "work" ELSE "dlq"
    /\ \A q \in Proc : live[q] => cur[q] # c
    /\ pc' = [pc EXCEPT ![p] = "got"] /\ mem' = [mem EXCEPT ![p] = job[c]]
    /\ cur' = [cur EXCEPT ![p] = c] /\ live' = [live EXCEPT ![p] = TRUE]
    /\ UNCHANGED <<up, loc, job, faults>> /\ envUnchanged

\* Variant: the queue of the last tier is declared without a TTL.
WaitExpireButLast(c) ==
    /\ loc[c] = "wait" /\ job[c].attempt < NTiers
    /\ loc' = [loc EXCEPT ![c] = "work"]
    /\ UNCHANGED <<up, pc, mem, cur, live, job, faults>> /\ envUnchanged

\* The TTL of a wait tier expires: the job dead-letters back to relay.work.
WaitExpire(c) ==
    /\ loc[c] = "wait"
    /\ loc' = [loc EXCEPT ![c] = "work"]
    /\ UNCHANGED <<up, pc, mem, cur, live, job, faults>> /\ envUnchanged
-----------------------------------------------------------------------------
(***************************************************************************)
(* Delivery: worker.handle.                                                *)
(***************************************************************************)
workerUnchanged == UNCHANGED <<up, dsn, suppr, mailFrom, used, accepted, enqueued,
                               silenced, orig, quiet>>
holding == <<mem, cur, live>>
pathUnchanged == UNCHANGED <<body, status, handed, permFailed, deadLettered, ndefer>>

\* materialize reads the body (and signs it).
Materialize(w) ==
    /\ pc[w] = "got" /\ mem[w].id \in body
    /\ Goto(w, "route")
    /\ UNCHANGED <<holding, loc, job, left, sawDefer, faults>>
    /\ pathUnchanged /\ workerUnchanged

\* Variant: the failed delivery is dropped, d.Nack(false, false).
MaterializeDrop(w) ==
    /\ pc[w] = "got"
    /\ \/ mem[w].id \notin body /\ Works
       \/ Fault
    /\ Ack(w)
    /\ UNCHANGED <<left, sawDefer>> /\ pathUnchanged /\ workerUnchanged

MaterializeFail(w) ==
    /\ pc[w] = "got"
    /\ \/ mem[w].id \notin body /\ Works
       \/ Fault
    /\ Nack(w)
    /\ UNCHANGED <<left, sawDefer>> /\ pathUnchanged /\ workerUnchanged

\* The locals of the provider loop go out of scope.
LoopEnds(w) ==
    /\ left' = [left EXCEPT ![w] = 0]
    /\ sawDefer' = [sawDefer EXCEPT ![w] = FALSE]

\* No matching rule, or the recipient domain is over its rate limit.
RouteDefer(w) ==
    /\ pc[w] = "route" /\ Goto(w, "defer")
    /\ UNCHANGED <<holding, loc, job, left, sawDefer, faults>>
    /\ pathUnchanged /\ workerUnchanged

RouteChain(w) ==
    /\ pc[w] = "route" /\ Goto(w, "chain")
    /\ \E n \in 1..MaxChain : left' = [left EXCEPT ![w] = n]
    /\ sawDefer' = [sawDefer EXCEPT ![w] = FALSE]
    /\ UNCHANGED <<holding, loc, job, faults>>
    /\ pathUnchanged /\ workerUnchanged

\* Variant: the deadline acks instead of nacking.
PaceAcks(w) ==
    /\ pc[w] = "route" \/ (pc[w] = "chain" /\ left[w] > 0)
    /\ Fault /\ Ack(w) /\ LoopEnds(w)
    /\ pathUnchanged /\ workerUnchanged

\* The 60s deadline passes while the worker paces a rate limit.
PaceExpired(w) ==
    /\ pc[w] = "route" \/ (pc[w] = "chain" /\ left[w] > 0)
    /\ Fault /\ Nack(w) /\ LoopEnds(w)
    /\ pathUnchanged /\ workerUnchanged

SendDelivered(w) ==
    /\ pc[w] = "chain" /\ left[w] > 0
    /\ handed' = handed \cup {mem[w].id}
    /\ Goto(w, "sent") /\ LoopEnds(w)
    /\ UNCHANGED <<holding, loc, job, faults, body, status,
                   permFailed, deadLettered, ndefer>>
    /\ workerUnchanged

\* A transient outcome, a provider over its budget (skipped), or an error in
\* place of an answer, after which the upstream may have the message anyway.
SendDefer(w) ==
    /\ pc[w] = "chain" /\ left[w] > 0
    /\ \/ Works /\ UNCHANGED handed
       \/ Fault /\ handed' = handed \cup {mem[w].id}
    /\ left' = [left EXCEPT ![w] = @ - 1]
    /\ sawDefer' = [sawDefer EXCEPT ![w] = TRUE]
    /\ UNCHANGED <<pc, holding, loc, job, body, status, permFailed, deadLettered, ndefer>>
    /\ workerUnchanged

SendFail(w) ==
    /\ pc[w] = "chain" /\ left[w] > 0
    /\ left' = [left EXCEPT ![w] = @ - 1]
    /\ UNCHANGED <<pc, holding, loc, job, sawDefer, faults>>
    /\ pathUnchanged /\ workerUnchanged

\* Variant: the last provider's refusal outweighs an earlier transient outcome.
ChainForgetsDefer(w) ==
    /\ pc[w] = "chain" /\ left[w] = 0 /\ Goto(w, "fail")
    /\ permFailed' = IF sawDefer[w] THEN permFailed ELSE permFailed \cup {mem[w].id}
    /\ LoopEnds(w)
    /\ UNCHANGED <<holding, loc, job, faults, body, status,
                   handed, deadLettered, ndefer>>
    /\ workerUnchanged

\* The chain is exhausted: retry if any provider was transient, else give up.
ChainDone(w) ==
    /\ pc[w] = "chain" /\ left[w] = 0
    /\ IF sawDefer[w]
       THEN Goto(w, "defer") /\ UNCHANGED permFailed
       ELSE Goto(w, "fail") /\ permFailed' = permFailed \cup {mem[w].id}
    /\ LoopEnds(w)
    /\ UNCHANGED <<holding, loc, job, faults, body, status,
                   handed, deadLettered, ndefer>>
    /\ workerUnchanged

RecordRelayed(w) ==
    /\ pc[w] = "sent" /\ Goto(w, "gc")
    /\ RecordAttempt(mem[w].id, "relayed")
    /\ UNCHANGED <<holding, loc, job, left, sawDefer, body, handed,
                   permFailed, deadLettered, ndefer>>
    /\ workerUnchanged

DeleteRelayed(w) ==
    /\ pc[w] = "gc" /\ Goto(w, "ack")
    /\ DeleteBody(mem[w].id)
    /\ UNCHANGED <<holding, loc, job, left, sawDefer, status, handed,
                   permFailed, deadLettered, ndefer>>
    /\ workerUnchanged

\* Variant: a deferral is recorded as a failure.
RecordDeferredFailed(w) ==
    LET id == mem[w].id IN
    /\ pc[w] = "defer" /\ Goto(w, "escalate")
    /\ RecordAttempt(id, "failed")
    /\ ndefer' = [ndefer EXCEPT ![id] = IF @ > NTiers THEN @ ELSE @ + 1]
    /\ UNCHANGED <<holding, loc, job, left, sawDefer, body, handed,
                   permFailed, deadLettered>>
    /\ workerUnchanged

RecordDeferred(w) ==
    LET id == mem[w].id IN
    /\ pc[w] = "defer" /\ Goto(w, "escalate")
    /\ RecordAttempt(id, "deferred")
    /\ ndefer' = [ndefer EXCEPT ![id] = IF @ > NTiers THEN @ ELSE @ + 1]
    /\ UNCHANGED <<holding, loc, job, left, sawDefer, body, handed,
                   permFailed, deadLettered>>
    /\ workerUnchanged

\* Variant: the worker records the bounce before the job is dead-lettered.
RecordFailedBounced(w) ==
    /\ pc[w] = "fail" /\ Goto(w, "deadletter")
    /\ RecordAttempt(mem[w].id, "bounced")
    /\ UNCHANGED <<holding, loc, job, left, sawDefer, body, handed,
                   permFailed, deadLettered, ndefer>>
    /\ workerUnchanged

RecordFailed(w) ==
    /\ pc[w] = "fail" /\ Goto(w, "deadletter")
    /\ RecordAttempt(mem[w].id, "failed")
    /\ UNCHANGED <<holding, loc, job, left, sawDefer, body, handed,
                   permFailed, deadLettered, ndefer>>
    /\ workerUnchanged

\* Variant: the bound of TierForAttempt one too high.
HasTierHigh(attempt) == attempt \in 1..(NTiers + 1)

\* TierForAttempt: is there a wait tier for the (incremented) attempt?
HasTier(attempt) == attempt \in 1..NTiers

\* Publish the job to q, then ack; on a publish error, nack.
MoveTo(w, q, j) ==
    /\ \/ /\ up[w] /\ \E c \in Slot : Enqueue(c, q, j)
          /\ deadLettered' = IF q = "dlq" THEN deadLettered \cup {j.id} ELSE deadLettered
          /\ Goto(w, "ack") /\ UNCHANGED holding
       \/ /\ ~up[w] /\ Goto(w, "ack")
          /\ UNCHANGED <<holding, loc, job, deadLettered>>
       \/ ~up[w] /\ Nack(w) /\ UNCHANGED deadLettered
    /\ UNCHANGED <<left, sawDefer, faults, body, status, handed, permFailed, ndefer>>
    /\ workerUnchanged

\* Variant: the job that is published carries the old attempt.
EscalateSame(w) ==
    /\ pc[w] = "escalate"
    /\ MoveTo(w, IF HasTier(mem[w].attempt + 1) THEN "wait" ELSE "dlq", mem[w])

\* The rest of defer_: Attempt++, then the tier's queue or the DLQ.
Escalate(w) ==
    LET next == [mem[w] EXCEPT !.attempt = @ + 1] IN
    /\ pc[w] = "escalate"
    /\ MoveTo(w, IF HasTier(next.attempt) THEN "wait" ELSE "dlq", next)

ToDLQ(w) == pc[w] = "deadletter" /\ MoveTo(w, "dlq", mem[w])

AckWork(w) ==
    /\ pc[w] = "ack" /\ Ack(w)
    /\ UNCHANGED <<left, sawDefer, faults>> /\ pathUnchanged /\ workerUnchanged

WorkerStep(w) ==
    \/ Materialize(w) \/ MaterializeFail(w)
    \/ RouteDefer(w) \/ RouteChain(w) \/ PaceExpired(w)
    \/ SendDelivered(w) \/ SendDefer(w) \/ SendFail(w) \/ ChainDone(w)
    \/ RecordRelayed(w) \/ DeleteRelayed(w)
    \/ RecordDeferred(w) \/ Escalate(w)
    \/ RecordFailed(w) \/ ToDLQ(w)
    \/ AckWork(w)
-----------------------------------------------------------------------------
(***************************************************************************)
(* DSN generator: gen.handle.                                              *)
(***************************************************************************)
genUnchanged == UNCHANGED <<up, left, sawDefer, accepted, handed, permFailed,
                            deadLettered, ndefer, quiet>>

RecordBounced(g) ==
    /\ pc[g] = "got" /\ Goto(g, "feedback")
    /\ RecordAttempt(mem[g].id, "bounced")
    /\ UNCHANGED <<body, mailFrom, loc, job, holding, dsn, suppr, used, enqueued,
                   silenced, orig>>
    /\ genUnchanged

\* Variant: the null return-path is not looked at.
FeedbackAnyone(g) ==
    LET j == mem[g] IN
    /\ pc[g] = "feedback"
    /\ \/ Works /\ suppr' = suppr \cup {j.id}
       \/ Fault /\ UNCHANGED suppr
    /\ Goto(g, IF j.never THEN "drop" ELSE "compose")
    /\ UNCHANGED <<body, status, mailFrom, loc, job, holding, dsn, used, enqueued,
                   silenced, orig>>
    /\ genUnchanged

\* Feedback loop: suppress the recipients of a message with a sender (the
\* config event that follows is the business of the configuration plane).
\* Then decide whether anyone is to be told.
Feedback(g) ==
    LET j == mem[g] IN
    /\ pc[g] = "feedback"
    /\ IF j.from = "null"
       THEN Works /\ UNCHANGED suppr
       ELSE \/ Works /\ suppr' = suppr \cup {j.id}
            \/ Fault /\ UNCHANGED suppr
    /\ Goto(g, IF j.from = "null" \/ j.never THEN "drop" ELSE "compose")
    /\ UNCHANGED <<body, status, mailFrom, loc, job, holding, dsn, used, enqueued,
                   silenced, orig>>
    /\ genUnchanged

DropNotice(g) ==
    /\ pc[g] = "drop" /\ Goto(g, "ack")
    /\ DeleteBody(mem[g].id)
    /\ silenced' = silenced \cup {mem[g].id}
    /\ UNCHANGED <<status, mailFrom, loc, job, holding, dsn, suppr, used, enqueued, orig>>
    /\ genUnchanged

\* newID, buildDSN, store.Put.
PutNotice(g) ==
    /\ pc[g] = "compose"
    /\ \E d \in Dsn \ used :
         /\ used' = used \cup {d}
         /\ orig' = [orig EXCEPT ![d] = mem[g].id]
         /\ \/ /\ Works /\ body' = body \cup {d}
               /\ dsn' = [dsn EXCEPT ![g] = d]
               /\ Goto(g, "stored") /\ UNCHANGED <<holding, loc, job>>
            \/ Fault /\ body' \in {body, body \cup {d}} /\ Nack(g) /\ UNCHANGED dsn
    /\ UNCHANGED <<status, mailFrom, suppr, enqueued, silenced>>
    /\ genUnchanged

InsertNotice(g) ==
    /\ pc[g] = "stored"
    /\ \/ /\ Works /\ InsertMessage(dsn[g], "null")
          /\ Goto(g, "inserted") /\ UNCHANGED <<holding, loc, job>>
       \/ /\ Fault /\ Nack(g)
          /\ InsertMessage(dsn[g], "null") \/ UNCHANGED <<status, mailFrom>>
    /\ UNCHANGED <<body, dsn, suppr, used, enqueued, silenced, orig>>
    /\ genUnchanged

DsnJob(d) == NewJob(d, [from |-> "null", never |-> FALSE])

PublishNotice(g) ==
    /\ pc[g] = "inserted"
    /\ \/ /\ up[g] /\ \E c \in Slot : Enqueue(c, "work", DsnJob(dsn[g]))
          /\ enqueued' = enqueued \cup {dsn[g]}
          /\ Goto(g, "gc") /\ UNCHANGED holding
       \/ ~up[g] /\ Goto(g, "gc") /\ UNCHANGED <<holding, loc, job, enqueued>>
       \/ ~up[g] /\ Nack(g) /\ UNCHANGED enqueued
    /\ UNCHANGED <<body, status, mailFrom, dsn, suppr, used, silenced, orig, faults>>
    /\ genUnchanged

DeleteBounced(g) ==
    /\ pc[g] = "gc" /\ Goto(g, "ack")
    /\ DeleteBody(mem[g].id)
    /\ UNCHANGED <<status, mailFrom, loc, job, holding, dsn, suppr, used, enqueued,
                   silenced, orig>>
    /\ genUnchanged

AckDead(g) ==
    /\ pc[g] = "ack" /\ Ack(g) /\ dsn' = [dsn EXCEPT ![g] = None]
    /\ UNCHANGED <<body, status, mailFrom, suppr, used, enqueued, silenced, orig, faults>>
    /\ genUnchanged

GenStep(g) ==
    \/ RecordBounced(g) \/ Feedback(g) \/ DropNotice(g)
    \/ PutNotice(g) \/ InsertNotice(g) \/ PublishNotice(g)
    \/ DeleteBounced(g) \/ AckDead(g)
-----------------------------------------------------------------------------
Next ==
    \/ \E s \in Session : SessionStep(s)
    \/ \E w \in Worker : WorkerStep(w)
    \/ \E g \in Gen : GenStep(g)
    \/ \E p \in Proc : ConnDrop(p) \/ Reconnect(p) \/ Crash(p)
    \/ \E p \in Worker \cup Gen, c \in Slot : Deliver(p, c)
    \/ \E c \in Slot : WaitExpire(c)

Spec == Init /\ [][Next]_vars

\* Started handlers run on, the supervisor redials, wait tiers expire, and the
\* broker starves no ready job while a consumer keeps coming back for more.
Fairness ==
    /\ \A s \in Session : WF_vars(pc[s] # "idle" /\ SessionStep(s))
    /\ \A w \in Worker : WF_vars(WorkerStep(w))
    /\ \A g \in Gen : WF_vars(GenStep(g))
    /\ \A p \in Proc : WF_vars(Reconnect(p))
    /\ \A c \in Slot : WF_vars(WaitExpire(c))
    /\ \A c \in Slot : SF_vars(\E p \in Worker \cup Gen : Deliver(p, c))

FairSpec == Spec /\ Fairness
-----------------------------------------------------------------------------
(***************************************************************************)
(* Properties.                                                             *)
(***************************************************************************)
\* Every variable keeps its type; in particular attempts and deferrals stay within
\* the retry schedule plus one, which TierForAttempt relies on.
TypeOK ==
    /\ body \subseteq Id /\ suppr \subseteq Id
    /\ status \in [Id -> {"none", "queued", "deferred", "relayed", "failed", "bounced"}]
    /\ mailFrom \in [Id -> From \cup {None}]
    /\ loc \in [Slot -> {"free", "work", "wait", "dlq"}]
    /\ job \in [Slot -> Job \cup {None}]
    /\ up \in [Proc -> BOOLEAN] /\ live \in [Proc -> BOOLEAN]
    /\ pc \in [Proc -> {"idle", "stored", "inserted", "got", "route", "chain", "sent", "gc",
                        "ack", "defer", "escalate", "fail", "deadletter", "feedback",
                        "drop", "compose"}]
    /\ mem \in [Proc -> Job \cup {None}] /\ cur \in [Proc -> Slot \cup {None}]
    /\ left \in [Worker -> 0..MaxChain] /\ sawDefer \in [Worker -> BOOLEAN]
    /\ dsn \in [Gen -> Dsn \cup {None}] /\ faults \in 0..MaxFaults
    /\ used \subseteq Id /\ accepted \subseteq Id /\ enqueued \subseteq Id
    /\ handed \subseteq Id /\ permFailed \subseteq Id /\ deadLettered \subseteq Id
    /\ silenced \subseteq Id /\ quiet \subseteq Id
    /\ orig \in [Dsn -> Id \cup {None}] /\ ndefer \in [Id -> 0..(NTiers + 1)]

\* The jobs in the broker, whichever queue holds them and whoever handles them.
InBroker(m) == \E c \in Slot : loc[c] # "free" /\ job[c].id = m
Notified(m) == \E d \in Dsn : orig[d] = m /\ d \in enqueued
Settled(m) == m \in handed \/ m \in silenced \/ Notified(m)

\* A message whose job once reached the broker is never lost: until a provider
\* has taken it, its bounce is itself in the broker, or the bounce was withheld
\* on purpose, some queue still holds a job for it, whatever crashes,
\* connection losses and failed calls come between two steps of handle.
NoLoss == \A m \in enqueued : Settled(m) \/ InBroker(m)

\* A job a worker may still be given has its metadata row, and its body is
\* deleted only once a provider has the message or it has been dead-lettered
\* (session.Data stores and inserts before it publishes; handle records, then
\* deletes, then acks).
Stocked(m) ==
    /\ status[m] # "none"
    /\ m \in body \/ m \in handed \/ m \in deadLettered
JobHasBody == \A c \in Slot : loc[c] \in {"work", "wait"} => Stocked(job[c].id)

\* No message is given up before it was refused by a whole chain or deferred
\* once more than there are wait tiers, even when redelivered copies of one
\* job run through handle side by side.
DeadLetterEarned ==
    \A m \in deadLettered : m \in permFailed \/ ndefer[m] = NTiers + 1

\* The status column never claims more than what happened: relayed only after
\* a provider took the message, bounced only after it was dead-lettered,
\* failed only after a chain refused it.
StatusTruthful ==
    \A m \in Id :
        /\ status[m] = "relayed" => m \in handed
        /\ status[m] = "bounced" => m \in deadLettered
        /\ status[m] = "failed" => m \in permFailed

\* A bounce is never bounced: no notification is composed about a notification,
\* about a message with the null return-path or about one submitted with
\* NOTIFY=NEVER, and no recipient of such a bounce lands on the suppression list.
NeverBounceABounce ==
    /\ \A d \in Dsn : orig[d] # None =>
          orig[d] \in Mail /\ mailFrom[orig[d]] = "addr" /\ orig[d] \notin quiet
    /\ \A m \in suppr : mailFrom[m] = "addr"

\* Every message in the broker's hands is resolved: handed to a provider, or its
\* bounce is (or was withheld), after any finite number of failures.
Resolved(m) ==
    \/ m \in handed \/ m \in silenced
    \/ \E d \in Dsn : orig[d] = m /\ (d \in handed \/ d \in silenced)
EventuallyResolved == \A m \in Mail : m \in enqueued ~> Resolved(m)

-----------------------------------------------------------------------------
(***************************************************************************)
(* The inductive invariant behind the safety properties.                   *)
(***************************************************************************)
\* Types that depend on where a handler is.
Shape ==
    /\ \A s \in Session : ~live[s]
    /\ \A p \in Proc : pc[p] # "idle" => mem[p] \in Job
    /\ \A p \in Session \cup Worker : pc[p] # "idle" => mem[p].attempt <= NTiers
    /\ \A s \in Session : pc[s] # "idle" => mem[s].id \in Mail
    /\ \A g \in Gen : pc[g] \in {"stored", "inserted"} => dsn[g] \in Dsn
    /\ \A c \in Slot : loc[c] # "free" => job[c] \in Job
    /\ \A c \in Slot : loc[c] \in {"work", "wait"} => job[c].attempt <= NTiers

\* A valid delivery tag: the connection it came on is up, the slot still holds
\* the job in hand, and nobody else holds the slot.
Held ==
    /\ \A p \in Proc : live[p] =>
          /\ up[p] /\ pc[p] # "idle" /\ cur[p] \in Slot
          /\ loc[cur[p]] = IF p \in Worker THEN "work" ELSE "dlq"
          /\ job[cur[p]] = mem[p]
    /\ \A p, q \in Proc : live[p] /\ live[q] /\ cur[p] = cur[q] => p = q

\* Ids are used once: what a handler has not published yet, nobody else knows.
Unpublished(id) == id \in used /\ id \notin enqueued
Fresh ==
    /\ enqueued \subseteq used
    /\ \A c \in Slot : loc[c] # "free" => job[c].id \in enqueued
    /\ \A p \in Worker \cup Gen : pc[p] # "idle" => mem[p].id \in enqueued
    /\ \A s \in Session : pc[s] # "idle" => Unpublished(mem[s].id)
    /\ \A s, t \in Session :
          pc[s] # "idle" /\ pc[t] # "idle" /\ mem[s].id = mem[t].id => s = t
    /\ \A g \in Gen : pc[g] \in {"stored", "inserted"} =>
          Unpublished(dsn[g]) /\ orig[dsn[g]] = mem[g].id
    /\ \A g, h \in Gen :
          /\ pc[g] \in {"stored", "inserted"} /\ pc[h] \in {"stored", "inserted"}
          /\ dsn[g] = dsn[h]
          => g = h

\* What a handler's position says about the message in its hands.
Position ==
    /\ \A w \in Worker : pc[w] \in {"sent", "gc"} => mem[w].id \in handed
    /\ \A w \in Worker : pc[w] \in {"fail", "deadletter"} => mem[w].id \in permFailed
    /\ \A g \in Gen : pc[g] # "idle" => mem[g].id \in deadLettered
    /\ \A c \in Slot : loc[c] = "dlq" => job[c].id \in deadLettered

\* An ack is sent only for a job whose message is settled or has a copy further
\* along the retry schedule.  "Further along" is what makes this inductive: the
\* copy that justifies one ack cannot itself be acked on the strength of the first.
Rank(c) == IF loc[c] = "dlq" THEN NTiers + 2 ELSE job[c].attempt
FurtherCopy(p) ==
    \E c \in Slot : loc[c] # "free" /\ job[c].id = mem[p].id /\ Rank(c) > Rank(cur[p])
AckJustified ==
    /\ \A g \in Gen : pc[g] = "gc" /\ live[g] => Settled(mem[g].id)
    /\ \A p \in Worker \cup Gen : pc[p] = "ack" /\ live[p] =>
          Settled(mem[p].id) \/ FurtherCopy(p)

\* The body and the row of a message on its way to the broker are in place, and
\* those of one a worker has in its hands are still there or no longer needed.
BodyReady ==
    /\ \A w \in Worker : pc[w] # "idle" => Stocked(mem[w].id)
    /\ \A s \in Session : pc[s] # "idle" => mem[s].id \in body
    /\ \A s \in Session : pc[s] = "inserted" => status[mem[s].id] # "none"
    /\ \A g \in Gen : pc[g] \in {"stored", "inserted"} => dsn[g] \in body
    /\ \A g \in Gen : pc[g] = "inserted" => status[dsn[g]] # "none"

\* The attempt a job carries never runs ahead of the deferrals of its message.
AttemptsEarned ==
    /\ \A c \in Slot : loc[c] # "free" => job[c].attempt <= ndefer[job[c].id]
    /\ \A p \in Session \cup Worker : pc[p] # "idle" => mem[p].attempt <= ndefer[mem[p].id]
    /\ \A w \in Worker : pc[w] = "escalate" => mem[w].attempt < ndefer[mem[w].id]

\* A job says of its message what was recorded when it was submitted, and the generator
\* composes for nobody else: why a bounce that is wanted is never dropped, nor an
\* unwanted one composed.
Tells(j) == mailFrom[j.id] = j.from /\ (j.never <=> j.id \in quiet)
Wanted(j) == j.from = "addr" /\ ~j.never
Candid ==
    /\ quiet \subseteq Mail \cap used /\ \A d \in Dsn : mailFrom[d] # "addr"
    /\ \A id \in Id \ used : mailFrom[id] = None
    /\ \A c \in Slot : loc[c] # "free" => Tells(job[c])
    /\ \A p \in Worker \cup Gen : pc[p] # "idle" => Tells(mem[p])
    /\ \A s \in Session : pc[s] # "idle" =>
          /\ mem[s].never <=> mem[s].id \in quiet
          /\ mailFrom[mem[s].id] = IF pc[s] = "inserted" THEN mem[s].from ELSE None
    /\ \A g \in Gen :
          /\ pc[g] = "inserted" => mailFrom[dsn[g]] = "null"
          /\ pc[g] = "drop" => ~Wanted(mem[g])
          /\ pc[g] \in {"compose", "stored", "inserted"} => Wanted(mem[g])

\* Nothing is known to have happened to a message before its job reached the broker.
Past ==
    /\ handed \cup silenced \cup suppr \subseteq enqueued
    /\ \A d \in Dsn : orig[d] \in enqueued \cup {None}

\* All of them together: what the proofs show to be inductive.
IInv ==
    /\ Shape /\ Held /\ Fresh /\ Position /\ AckJustified
    /\ BodyReady /\ AttemptsEarned /\ Candid /\ Past
=============================================================================
