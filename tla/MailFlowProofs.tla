--------------------------- MODULE MailFlowProofs ---------------------------
(***************************************************************************)
(* The mail path, for every value of its constants.  In this order: types  *)
(* (TypeOK with Shape); the discipline of delivery tags, ids and handler   *)
(* positions (Held, Fresh, Position); no loss (AckJustified); what it says *)
(* about a message is true: its status never claims more than what         *)
(* happened, nothing is given up early, rows and bodies are there when     *)
(* they are needed, no bounce is bounced; it implements DeliveryContract;  *)
(* and it stays accounted for with the operators at work on it.            *)
(***************************************************************************)
EXTENDS MailFlowContract, MailFlowOps, TLAPS

\* The fields of a job.  Proofs cite this and leave Job itself unexpanded.
LEMMA JobFacts ==
  \A j \in Job : j.id \in Id /\ j.from \in From /\ j.attempt \in 0..(NTiers + 1)
  BY DEF Job

\* A job built for a new message is attempt 0 of that message.
LEMMA NewJobFacts ==
  \A id \in Id, env \in [from: From, never: BOOLEAN] :
     NewJob(id, env) \in Job /\ NewJob(id, env).id = id /\ NewJob(id, env).attempt = 0
  BY BoundAssumption DEF NewJob, Job

\* defer_'s Attempt++ keeps the message and stays within the schedule plus one.
LEMMA NextJobFacts ==
  \A j \in Job : j.attempt <= NTiers =>
     LET k == [j EXCEPT !.attempt = @ + 1]
     IN k \in Job /\ k.id = j.id /\ k.attempt = j.attempt + 1
  BY BoundAssumption DEF Job

\* A notification's job is attempt 0 of the notification.
LEMMA DsnJobFacts ==
  \A d \in Dsn : DsnJob(d) \in Job /\ DsnJob(d).id = d /\ DsnJob(d).attempt = 0
  BY BoundAssumption DEF NewJob, Job, DsnJob, From, Id

\* The kinds of processes and of ids.
LEMMA ProcFacts ==
  /\ Session \subseteq Proc /\ Worker \subseteq Proc /\ Gen \subseteq Proc
  /\ \A s \in Session : s \notin Worker /\ s \notin Gen
  /\ \A w \in Worker : w \notin Gen
  /\ \A p \in Proc : p \in Session \/ p \in Worker \/ p \in Gen
  /\ Mail \subseteq Id /\ Dsn \subseteq Id
  /\ \A m \in Mail : m \notin Dsn
  BY DistinctAssumption DEF Proc, Id

\* Both ways defer_ and handle move a job on: the published copy is about the
\* same message, further along the schedule, and within it if it goes to a tier.
LEMMA MoveFacts ==
  ASSUME TypeOK, Shape, NEW w \in Worker, Escalate(w) \/ ToDLQ(w)
  PROVE  \E q \in {"wait", "dlq"}, j \in Job :
           /\ MoveTo(w, q, j) /\ j.id = mem[w].id
           /\ q = "wait" => j.attempt <= NTiers /\ j.attempt = mem[w].attempt + 1
           /\ \/ pc[w] = "escalate" /\ j.attempt = mem[w].attempt + 1
                 /\ (q = "dlq" => j.attempt = NTiers + 1)
              \/ pc[w] = "deadletter" /\ j = mem[w] /\ q = "dlq"
<1> USE BoundAssumption, ProcFacts, JobFacts
<1>0. mem[w] \in Job /\ mem[w].attempt <= NTiers
  BY DEF Escalate, ToDLQ, Shape
<1>1. CASE Escalate(w)
  <2> DEFINE j == [mem[w] EXCEPT !.attempt = @ + 1]
             q == IF HasTier(j.attempt) THEN "wait" ELSE "dlq"
  <2>1. j \in Job /\ j.id = mem[w].id /\ j.attempt = mem[w].attempt + 1
    BY <1>0, NextJobFacts
  <2>2. MoveTo(w, q, j) /\ pc[w] = "escalate"
    BY <1>1 DEF Escalate
  <2> HIDE DEF j
  <2>3. /\ q \in {"wait", "dlq"}
        /\ q = "wait" => j.attempt <= NTiers
        /\ q = "dlq" => j.attempt = NTiers + 1
    BY <1>0, <2>1 DEF HasTier
  <2> HIDE DEF q
  <2> QED
    BY <2>1, <2>2, <2>3
<1>2. CASE ToDLQ(w)
  BY <1>0, <1>2 DEF ToDLQ
<1> QED
  BY <1>1, <1>2
-----------------------------------------------------------------------------
LEMMA ShapeInit == Init => TypeOK /\ Shape
  BY DistinctAssumption, BoundAssumption DEF Init, TypeOK, Shape, Id, Proc

LEMMA ShapeSession ==
  ASSUME TypeOK, Shape, NEW s \in Session, SessionStep(s)
  PROVE  TypeOK' /\ Shape'
<1> USE BoundAssumption, ProcFacts, JobFacts
    DEF Goto, Fault, Works, sessionUnchanged
<1>1. CASE DataPut(s)
  <2>1. PICK id \in Mail \ used, env \in Envelope :
          /\ used' = used \cup {id}
          /\ quiet' = IF env.never THEN quiet \cup {id} ELSE quiet
          /\ \/ /\ Works /\ body' = body \cup {id}
                /\ Goto(s, "stored")
                /\ mem' = [mem EXCEPT ![s] = NewJob(id, env)]
             \/ Fault /\ body' \in {body, body \cup {id}} /\ UNCHANGED <<pc, mem>>
    BY <1>1 DEF DataPut
  <2>2. NewJob(id, env) \in Job /\ NewJob(id, env).id = id /\ NewJob(id, env).attempt = 0
    BY NewJobFacts, EnvelopeAssumption
  <2>3. TypeOK'
    BY <1>1, <2>1, <2>2 DEF DataPut, TypeOK
  <2>4. Shape'
    BY <1>1, <2>1, <2>2 DEF DataPut, TypeOK, Shape
  <2> QED
    BY <2>3, <2>4
<1>2. CASE DataOversize(s)
  <2>1. TypeOK'
    BY <1>2 DEF DataOversize, DeleteBody, TypeOK
  <2>2. Shape'
    BY <1>2 DEF DataOversize, DeleteBody, TypeOK, Shape
  <2> QED
    BY <2>1, <2>2
<1>3. CASE DataInsert(s)
  <2>0. s \in Proc /\ mem[s] \in Job
    BY <1>3 DEF DataInsert, Shape
  <2>1. /\ status' \in [Id -> {"none", "queued", "deferred", "relayed", "failed", "bounced"}]
        /\ mailFrom' \in [Id -> From \cup {None}]
    BY <1>3, <2>0 DEF DataInsert, InsertMessage, From, TypeOK
  <2>2. TypeOK'
    BY <1>3, <2>0, <2>1 DEF DataInsert, TypeOK
  <2>3. Shape'
    BY <1>3, <2>0 DEF DataInsert, TypeOK, Shape
  <2> QED
    BY <2>2, <2>3
<1>4. CASE DataPublish(s)
  <2>0. s \in Proc /\ mem[s] \in Job
    BY <1>4 DEF DataPublish, Shape
  <2>1. TypeOK'
    BY <1>4, <2>0 DEF DataPublish, Enqueue, TypeOK
  <2>2. Shape'
    BY <1>4, <2>0 DEF DataPublish, Enqueue, TypeOK, Shape
  <2> QED
    BY <2>1, <2>2
<1> QED
  BY <1>1, <1>2, <1>3, <1>4 DEF SessionStep

LEMMA ShapeWorker ==
  ASSUME TypeOK, Shape, NEW w \in Worker, WorkerStep(w)
  PROVE  TypeOK' /\ Shape'
<1> USE BoundAssumption, ProcFacts, JobFacts
    DEF Goto, Fault, Works, Nack, Idle, LoopEnds, holding, pathUnchanged, workerUnchanged
<1>0. w \in Proc /\ mem[w] \in Job /\ mem[w].attempt <= NTiers
  BY DEF WorkerStep, Materialize, MaterializeFail, RouteDefer, RouteChain, PaceExpired, SendDelivered,
     SendDefer, SendFail, ChainDone, RecordRelayed, DeleteRelayed, RecordDeferred,
     Escalate, RecordFailed, ToDLQ, AckWork, Shape
<1>1. CASE Materialize(w)
  <2>1. TypeOK'
    BY <1>0, <1>1 DEF Materialize, TypeOK
  <2>2. Shape'
    BY <1>0, <1>1 DEF Materialize, TypeOK, Shape
  <2> QED
    BY <2>1, <2>2
<1>2. CASE MaterializeFail(w)
  <2>1. TypeOK'
    BY <1>0, <1>2 DEF MaterializeFail, TypeOK
  <2>2. Shape'
    BY <1>0, <1>2 DEF MaterializeFail, TypeOK, Shape
  <2> QED
    BY <2>1, <2>2
<1>3. CASE RouteDefer(w)
  <2>1. TypeOK'
    BY <1>0, <1>3 DEF RouteDefer, TypeOK
  <2>2. Shape'
    BY <1>0, <1>3 DEF RouteDefer, TypeOK, Shape
  <2> QED
    BY <2>1, <2>2
<1>4. CASE RouteChain(w)
  <2>1. TypeOK'
    BY <1>0, <1>4 DEF RouteChain, TypeOK
  <2>2. Shape'
    BY <1>0, <1>4 DEF RouteChain, TypeOK, Shape
  <2> QED
    BY <2>1, <2>2
<1>5. CASE PaceExpired(w)
  <2>1. TypeOK'
    BY <1>0, <1>5 DEF PaceExpired, TypeOK
  <2>2. Shape'
    BY <1>0, <1>5 DEF PaceExpired, TypeOK, Shape
  <2> QED
    BY <2>1, <2>2
<1>6. CASE SendDelivered(w)
  <2>1. TypeOK'
    BY <1>0, <1>6 DEF SendDelivered, TypeOK
  <2>2. Shape'
    BY <1>0, <1>6 DEF SendDelivered, TypeOK, Shape
  <2> QED
    BY <2>1, <2>2
<1>7. CASE SendDefer(w)
  <2>1. TypeOK'
    BY <1>0, <1>7 DEF SendDefer, TypeOK
  <2>2. Shape'
    BY <1>0, <1>7 DEF SendDefer, TypeOK, Shape
  <2> QED
    BY <2>1, <2>2
<1>8. CASE SendFail(w)
  <2>1. TypeOK'
    BY <1>0, <1>8 DEF SendFail, TypeOK
  <2>2. Shape'
    BY <1>0, <1>8 DEF SendFail, TypeOK, Shape
  <2> QED
    BY <2>1, <2>2
<1>9. CASE ChainDone(w)
  <2>1. TypeOK'
    BY <1>0, <1>9 DEF ChainDone, TypeOK
  <2>2. Shape'
    BY <1>0, <1>9 DEF ChainDone, TypeOK, Shape
  <2> QED
    BY <2>1, <2>2
<1>10. CASE RecordRelayed(w) \/ RecordFailed(w)
  <2>1. TypeOK'
    BY <1>0, <1>10 DEF RecordRelayed, RecordFailed, RecordAttempt, TypeOK
  <2>2. Shape'
    BY <1>0, <1>10 DEF RecordRelayed, RecordFailed, RecordAttempt, TypeOK, Shape
  <2> QED
    BY <2>1, <2>2
<1>11. CASE RecordDeferred(w)
  <2>1. TypeOK'
    BY <1>0, <1>11 DEF RecordDeferred, RecordAttempt, TypeOK
  <2>2. Shape'
    BY <1>0, <1>11 DEF RecordDeferred, RecordAttempt, TypeOK, Shape
  <2> QED
    BY <2>1, <2>2
<1>12. CASE DeleteRelayed(w)
  <2>1. TypeOK'
    BY <1>0, <1>12 DEF DeleteRelayed, DeleteBody, TypeOK
  <2>2. Shape'
    BY <1>0, <1>12 DEF DeleteRelayed, DeleteBody, TypeOK, Shape
  <2> QED
    BY <2>1, <2>2
<1>13. CASE Escalate(w) \/ ToDLQ(w)
  <2>1. PICK q \in {"wait", "dlq"}, j \in Job :
          /\ MoveTo(w, q, j) /\ j.id = mem[w].id
          /\ q = "wait" => j.attempt <= NTiers /\ j.attempt = mem[w].attempt + 1
          /\ \/ pc[w] = "escalate" /\ j.attempt = mem[w].attempt + 1
                /\ (q = "dlq" => j.attempt = NTiers + 1)
             \/ pc[w] = "deadletter" /\ j = mem[w] /\ q = "dlq"
    BY <1>13, MoveFacts
  <2>2. CASE up[w]
    <3>0. PICK c \in Slot : Enqueue(c, q, j)
      BY <2>1, <2>2 DEF MoveTo
    <3>1. TypeOK'
      BY <1>0, <2>1, <2>2, <3>0 DEF MoveTo, Enqueue, TypeOK
    <3>2. Shape'
      BY <1>0, <2>1, <2>2, <3>0 DEF MoveTo, Enqueue, TypeOK, Shape
    <3> QED
      BY <3>1, <3>2
  <2>3. CASE ~up[w]
    <3>1. TypeOK'
      BY <1>0, <2>1, <2>3 DEF MoveTo, TypeOK
    <3>2. Shape'
      <4>1. CASE Goto(w, "ack") /\ UNCHANGED <<mem, cur, live>>
        BY <1>0, <2>1, <2>3, <4>1 DEF MoveTo, TypeOK, Shape
      <4>2. CASE Nack(w)
        BY <1>0, <2>1, <2>3, <4>2 DEF MoveTo, TypeOK, Shape
      <4> QED
        BY <2>1, <2>3, <4>1, <4>2 DEF MoveTo
    <3> QED
      BY <3>1, <3>2
  <2> QED
    BY <1>0, <2>2, <2>3
<1>14. CASE AckWork(w)
  <2>1. TypeOK'
    BY <1>0, <1>14 DEF AckWork, Ack, TypeOK
  <2>2. Shape'
    BY <1>0, <1>14 DEF AckWork, Ack, TypeOK, Shape
  <2> QED
    BY <2>1, <2>2
<1> QED
  BY <1>1, <1>2, <1>3, <1>4, <1>5, <1>6, <1>7, <1>8, <1>9, <1>10, <1>11, <1>12, <1>13, <1>14 DEF WorkerStep

LEMMA ShapeGen ==
  ASSUME TypeOK, Shape, NEW g \in Gen, GenStep(g)
  PROVE  TypeOK' /\ Shape'
<1> USE BoundAssumption, ProcFacts, JobFacts
    DEF Goto, Fault, Works, Nack, Idle, holding, genUnchanged
<1>0. g \in Proc /\ mem[g] \in Job /\ up[g] \in BOOLEAN
  BY DEF GenStep, RecordBounced, Feedback, DropNotice, PutNotice, InsertNotice, PublishNotice,
     DeleteBounced, AckDead, TypeOK, Shape
<1>1. CASE RecordBounced(g)
  <2>1. TypeOK'
    BY <1>0, <1>1 DEF RecordBounced, RecordAttempt, TypeOK
  <2>2. Shape'
    BY <1>0, <1>1 DEF RecordBounced, RecordAttempt, TypeOK, Shape
  <2> QED
    BY <2>1, <2>2
<1>2. CASE Feedback(g)
  <2>1. TypeOK'
    BY <1>0, <1>2 DEF Feedback, TypeOK
  <2>2. Shape'
    BY <1>0, <1>2 DEF Feedback, TypeOK, Shape
  <2> QED
    BY <2>1, <2>2
<1>3. CASE DropNotice(g) \/ DeleteBounced(g)
  <2>1. TypeOK'
    BY <1>0, <1>3 DEF DropNotice, DeleteBounced, DeleteBody, TypeOK
  <2>2. Shape'
    BY <1>0, <1>3 DEF DropNotice, DeleteBounced, DeleteBody, TypeOK, Shape
  <2> QED
    BY <2>1, <2>2
<1>4. CASE PutNotice(g)
  <2>1. PICK d \in Dsn \ used :
          /\ used' = used \cup {d}
          /\ orig' = [orig EXCEPT ![d] = mem[g].id]
          /\ \/ /\ Works /\ body' = body \cup {d}
                /\ dsn' = [dsn EXCEPT ![g] = d]
                /\ Goto(g, "stored") /\ UNCHANGED <<holding, loc, job>>
             \/ Fault /\ body' \in {body, body \cup {d}} /\ Nack(g) /\ UNCHANGED dsn
    BY <1>4 DEF PutNotice
  <2>2. body' \subseteq Id /\ orig' \in [Dsn -> Id \cup {None}] /\ used' \subseteq Id
    BY <1>0, <2>1 DEF TypeOK
  <2>3. TypeOK'
    <3>1. CASE Works /\ dsn' = [dsn EXCEPT ![g] = d] /\ Goto(g, "stored")
               /\ UNCHANGED <<holding, loc, job>>
      BY <1>0, <1>4, <2>2, <3>1 DEF PutNotice, TypeOK
    <3>2. CASE Fault /\ Nack(g) /\ UNCHANGED dsn
      BY <1>0, <1>4, <2>2, <3>2 DEF PutNotice, TypeOK
    <3> QED
      BY <2>1, <3>1, <3>2
  <2>4. Shape'
    <3>1. CASE Works /\ dsn' = [dsn EXCEPT ![g] = d] /\ Goto(g, "stored")
               /\ UNCHANGED <<holding, loc, job>>
      BY <1>0, <3>1 DEF TypeOK, Shape
    <3>2. CASE Nack(g) /\ UNCHANGED dsn
      BY <1>0, <3>2 DEF TypeOK, Shape
    <3> QED
      BY <2>1, <3>1, <3>2
  <2> QED
    BY <2>3, <2>4
<1>5. CASE InsertNotice(g)
  <2>1. dsn[g] \in Id
    BY <1>5 DEF InsertNotice, Shape
  <2>2. /\ status' \in [Id -> {"none", "queued", "deferred", "relayed", "failed", "bounced"}]
        /\ mailFrom' \in [Id -> From \cup {None}]
    BY <1>5, <2>1 DEF InsertNotice, InsertMessage, From, TypeOK
  <2>3. TypeOK'
    <3>1. CASE Works /\ Goto(g, "inserted") /\ UNCHANGED <<holding, loc, job>>
      BY <1>0, <1>5, <2>2, <3>1 DEF InsertNotice, TypeOK
    <3>2. CASE Fault /\ Nack(g)
      BY <1>0, <1>5, <2>2, <3>2 DEF InsertNotice, TypeOK
    <3> QED
      BY <1>5, <3>1, <3>2 DEF InsertNotice
  <2>4. Shape'
    <3>1. CASE Goto(g, "inserted") /\ UNCHANGED <<holding, loc, job>>
      BY <1>0, <1>5, <3>1 DEF InsertNotice, TypeOK, Shape
    <3>2. CASE Nack(g)
      BY <1>0, <1>5, <3>2 DEF InsertNotice, TypeOK, Shape
    <3> QED
      BY <1>5, <3>1, <3>2 DEF InsertNotice
  <2> QED
    BY <2>3, <2>4
<1>6. CASE PublishNotice(g)
  <2>1. dsn[g] \in Dsn /\ DsnJob(dsn[g]) \in Job /\ DsnJob(dsn[g]).attempt = 0
    BY <1>6, DsnJobFacts DEF PublishNotice, Shape
  <2>2. CASE up[g]
    <3>0. PICK c \in Slot : Enqueue(c, "work", DsnJob(dsn[g]))
      BY <1>6, <2>2 DEF PublishNotice
    <3>1. TypeOK'
      BY <1>0, <1>6, <2>1, <2>2, <3>0 DEF PublishNotice, Enqueue, TypeOK
    <3>2. Shape'
      BY <1>0, <1>6, <2>1, <2>2, <3>0 DEF PublishNotice, Enqueue, TypeOK, Shape
    <3> QED
      BY <3>1, <3>2
  <2>3. CASE UNCHANGED <<loc, job, enqueued, mem, cur, live>> /\ Goto(g, "gc")
    <3>1. TypeOK'
      BY <1>0, <1>6, <2>3 DEF PublishNotice, TypeOK
    <3>2. Shape'
      BY <1>0, <1>6, <2>3 DEF PublishNotice, TypeOK, Shape
    <3> QED
      BY <3>1, <3>2
  <2>4. CASE UNCHANGED enqueued /\ Nack(g)
    <3>1. TypeOK'
      BY <1>0, <1>6, <2>4 DEF PublishNotice, TypeOK
    <3>2. Shape'
      BY <1>0, <1>6, <2>4 DEF PublishNotice, TypeOK, Shape
    <3> QED
      BY <3>1, <3>2
  <2> QED
    BY <1>0, <1>6, <2>2, <2>3, <2>4 DEF PublishNotice
<1>7. CASE AckDead(g)
  <2>1. TypeOK'
    BY <1>0, <1>7 DEF AckDead, Ack, TypeOK
  <2>2. Shape'
    BY <1>0, <1>7 DEF AckDead, Ack, TypeOK, Shape
  <2> QED
    BY <2>1, <2>2
<1> QED
  BY <1>1, <1>2, <1>3, <1>4, <1>5, <1>6, <1>7 DEF GenStep

\* The steps that are no handler's: connections, crashes, the broker.
EnvStep ==
    \/ \E p \in Proc : ConnDrop(p) \/ Reconnect(p) \/ Crash(p)
    \/ \E p \in Worker \cup Gen, c \in Slot : Deliver(p, c)
    \/ \E c \in Slot : WaitExpire(c)

LEMMA ShapeEnv ==
  ASSUME TypeOK, Shape, EnvStep
  PROVE  TypeOK' /\ Shape'
<1> USE BoundAssumption, ProcFacts, JobFacts
    DEF Fault, Nack, Idle, envUnchanged, pastVars
<1>1. ASSUME NEW p \in Proc, ConnDrop(p)
      PROVE  TypeOK' /\ Shape'
  <2>1. TypeOK'
    BY <1>1 DEF ConnDrop, TypeOK
  <2>2. Shape'
    BY <1>1 DEF ConnDrop, TypeOK, Shape
  <2> QED
    BY <2>1, <2>2
<1>2. ASSUME NEW p \in Proc, Reconnect(p)
      PROVE  TypeOK' /\ Shape'
  <2>1. TypeOK'
    BY <1>2 DEF Reconnect, TypeOK
  <2>2. Shape'
    BY <1>2 DEF Reconnect, TypeOK, Shape
  <2> QED
    BY <2>1, <2>2
<1>3. ASSUME NEW p \in Proc, Crash(p)
      PROVE  TypeOK' /\ Shape'
  <2>1. TypeOK'
    BY <1>3 DEF Crash, TypeOK
  <2>2. Shape'
    BY <1>3 DEF Crash, TypeOK, Shape
  <2> QED
    BY <2>1, <2>2
<1>4. ASSUME NEW p \in Worker \cup Gen, NEW c \in Slot, Deliver(p, c)
      PROVE  TypeOK' /\ Shape'
  <2>1. TypeOK'
    BY <1>4 DEF Deliver, TypeOK
  <2>2. Shape'
    BY <1>4 DEF Deliver, TypeOK, Shape
  <2> QED
    BY <2>1, <2>2
<1>5. ASSUME NEW c \in Slot, WaitExpire(c)
      PROVE  TypeOK' /\ Shape'
  <2>1. TypeOK'
    BY <1>5 DEF WaitExpire, TypeOK
  <2>2. Shape'
    BY <1>5 DEF WaitExpire, TypeOK, Shape
  <2> QED
    BY <2>1, <2>2
<1> QED
  BY <1>1, <1>2, <1>3, <1>4, <1>5 DEF EnvStep

LEMMA ShapeStutter ==
  ASSUME TypeOK, Shape, UNCHANGED vars
  PROVE  TypeOK' /\ Shape'
  BY DEF vars, implVars, pastVars, TypeOK, Shape

\* The variables keep their types, and every handler in progress and every used
\* slot has a job, within the retry schedule unless it is a dead letter.
THEOREM Typing == Spec => [](TypeOK /\ Shape)
<1>1. Init => TypeOK /\ Shape
  BY ShapeInit
<1>2. TypeOK /\ Shape /\ [Next]_vars => (TypeOK /\ Shape)'
  BY ShapeSession, ShapeWorker, ShapeGen, ShapeEnv, ShapeStutter DEF Next, EnvStep
<1> QED
  BY <1>1, <1>2, PTL DEF Spec

\* The type invariant alone, as the runs check it.
THEOREM TypeCorrect == Spec => []TypeOK
  BY Typing, PTL

-----------------------------------------------------------------------------
(* Tags, ids and positions.                                                *)

Typed == TypeOK /\ Shape
\* What remains of Fresh where others publish jobs too: ids in circulation are in use.
Known ==
    /\ enqueued \subseteq used
    /\ \A c \in Slot : loc[c] # "free" => job[c].id \in enqueued
    /\ \A p \in Worker \cup Gen : pc[p] # "idle" => mem[p].id \in enqueued
    /\ \A s \in Session : pc[s] # "idle" => mem[s].id \in used
    /\ \A g \in Gen : pc[g] \in {"stored", "inserted"} =>
          dsn[g] \in used /\ orig[dsn[g]] = mem[g].id

Loose == Held /\ Known /\ Position
Discipline == Held /\ Fresh /\ Position

LEMMA LooseHolds == Discipline => Loose
  BY DEF Discipline, Loose, Fresh, Known, Unpublished

LEMMA LooseInit == Init => Loose
  BY ProcFacts DEF Init, Loose, Held, Known, Position

\* A consumer that goes on with its delivery, or lets go of it without an ack,
\* disturbs neither tags nor ids.
LEMMA LocalStep ==
  ASSUME Typed, Held, Known, NEW p \in Worker \cup Gen, NEW l, pc[p] # "idle",
         UNCHANGED <<loc, job, up, enqueued, used, orig, dsn>>,
         \/ /\ Goto(p, l) /\ l # "idle"
            /\ p \in Worker \/ l \notin {"stored", "inserted"}
            /\ UNCHANGED holding
         \/ UNCHANGED <<pc, holding>>
         \/ Idle(p)
  PROVE  Held' /\ Known'
<1> USE ProcFacts DEF Typed, TypeOK, Shape
<1>1. CASE Goto(p, l) /\ l # "idle" /\ UNCHANGED holding
           /\ (p \in Worker \/ l \notin {"stored", "inserted"})
  <2>1. Held'
    BY <1>1 DEF Goto, holding, Held
  <2>2. Known'
    BY <1>1 DEF Goto, holding, Known
  <2> QED
    BY <2>1, <2>2
<1>2. CASE Idle(p)
  <2>1. Held'
    BY <1>2 DEF Idle, Held
  <2>2. Known'
    BY <1>2 DEF Idle, Known
  <2> QED
    BY <2>1, <2>2
<1>3. CASE UNCHANGED <<pc, holding>>
  BY <1>3 DEF holding, Held, Known
<1> QED
  BY <1>1, <1>2, <1>3

\* An ack ends the handler and frees at most the slot of its own tag.
LEMMA AckFacts ==
  ASSUME TypeOK, NEW p \in Worker \cup Gen, Ack(p)
  PROVE  /\ p \in Proc /\ pc'[p] = "idle" /\ ~live'[p]
         /\ \A q \in Proc \ {p} : /\ pc'[q] = pc[q] /\ mem'[q] = mem[q]
                                  /\ cur'[q] = cur[q] /\ live'[q] = live[q]
         /\ \A c \in Slot : loc'[c] # "free" => loc'[c] = loc[c] /\ job'[c] = job[c]
<1>1. /\ p \in Proc /\ pc'[p] = "idle" /\ ~live'[p]
      /\ \A q \in Proc \ {p} : /\ pc'[q] = pc[q] /\ mem'[q] = mem[q]
                               /\ cur'[q] = cur[q] /\ live'[q] = live[q]
  BY ProcFacts DEF Ack, Idle, TypeOK
<1>2. \A c \in Slot : loc'[c] # "free" => loc'[c] = loc[c] /\ job'[c] = job[c]
  BY DEF Ack, TypeOK
<1> QED
  BY <1>1, <1>2

\* It disturbs neither tags nor ids.
LEMMA AckKeeps ==
  ASSUME Typed, Held, Known, NEW p \in Worker \cup Gen, Ack(p),
         UNCHANGED <<up, enqueued, used, orig>>,
         \A g \in Gen \ {p} : dsn'[g] = dsn[g]
  PROVE  Held' /\ Known'
<1> USE ProcFacts DEF Typed
<1>1. /\ p \in Proc /\ pc'[p] = "idle" /\ ~live'[p]
      /\ \A q \in Proc \ {p} : /\ pc'[q] = pc[q] /\ mem'[q] = mem[q]
                               /\ cur'[q] = cur[q] /\ live'[q] = live[q]
  BY AckFacts
<1>2. \A c \in Slot : loc'[c] # "free" => loc'[c] = loc[c] /\ job'[c] = job[c]
  BY AckFacts
<1>3. \A q \in Proc \ {p} :
         live[q] => loc'[cur[q]] = loc[cur[q]] /\ job'[cur[q]] = job[cur[q]]
  BY <1>1 DEF Ack, Held, TypeOK
<1>4. Held'
  BY <1>1, <1>3 DEF Held
<1>5. Known'
  BY <1>1, <1>2 DEF Known
<1> QED
  BY <1>4, <1>5

LEMMA LooseSession ==
  ASSUME Typed, Typed', Loose, NEW s \in Session, SessionStep(s)
  PROVE  Loose'
<1> USE BoundAssumption, ProcFacts, JobFacts
    DEF Goto, Fault, Works, sessionUnchanged
<1>1. CASE DataPut(s)
  <2>1. PICK id \in Mail \ used, env \in Envelope :
          /\ used' = used \cup {id}
          /\ quiet' = IF env.never THEN quiet \cup {id} ELSE quiet
          /\ \/ /\ Works /\ body' = body \cup {id}
                /\ Goto(s, "stored")
                /\ mem' = [mem EXCEPT ![s] = NewJob(id, env)]
             \/ Fault /\ body' \in {body, body \cup {id}} /\ UNCHANGED <<pc, mem>>
    BY <1>1 DEF DataPut
  <2>2. NewJob(id, env) \in Job /\ NewJob(id, env).id = id /\ NewJob(id, env).attempt = 0
    BY NewJobFacts, EnvelopeAssumption
  <2>3. Held'
    BY <1>1, <2>1, <2>2 DEF DataPut, Typed, Loose, TypeOK, Shape, Held
  <2>4. Known'
    <3>1. CASE Goto(s, "stored") /\ mem' = [mem EXCEPT ![s] = NewJob(id, env)]
      BY <1>1, <2>1, <2>2, <3>1 DEF DataPut, Typed, Loose, TypeOK, Shape, Known
    <3>2. CASE UNCHANGED <<pc, mem>>
      BY <1>1, <2>1, <3>2 DEF DataPut, Typed, Loose, TypeOK, Shape, Known
    <3> QED
      BY <2>1, <3>1, <3>2
  <2>5. Position'
    <3>1. CASE Goto(s, "stored") /\ mem' = [mem EXCEPT ![s] = NewJob(id, env)]
      BY <1>1, <2>1, <2>2, <3>1 DEF DataPut, Typed, Loose, TypeOK, Shape, Position
    <3>2. CASE UNCHANGED <<pc, mem>>
      BY <1>1, <2>1, <3>2 DEF DataPut, Typed, Loose, TypeOK, Shape, Position
    <3> QED
      BY <2>1, <3>1, <3>2
  <2> QED
    BY <2>3, <2>4, <2>5 DEF Loose
<1>2. CASE DataOversize(s)
  <2>1. Held'
    BY <1>2 DEF DataOversize, Typed, Loose, TypeOK, Shape, Held
  <2>2. Known'
    BY <1>2 DEF DataOversize, Typed, Loose, TypeOK, Shape, Known
  <2>3. Position'
    BY <1>2 DEF DataOversize, Typed, Loose, TypeOK, Shape, Position
  <2> QED
    BY <2>1, <2>2, <2>3 DEF Loose
<1>3. CASE DataInsert(s)
  <2>1. Held'
    BY <1>3 DEF DataInsert, Typed, Loose, TypeOK, Shape, Held
  <2>2. Known'
    <3>1. CASE Goto(s, "inserted") /\ UNCHANGED mem
      BY <1>3, <3>1 DEF DataInsert, Typed, Loose, TypeOK, Shape, Known
    <3>2. CASE Goto(s, "idle") /\ mem' = [mem EXCEPT ![s] = None]
      BY <1>3, <3>2 DEF DataInsert, Typed, Loose, TypeOK, Shape, Known
    <3> QED
      BY <1>3, <3>1, <3>2 DEF DataInsert
  <2>3. Position'
    BY <1>3 DEF DataInsert, Typed, Loose, TypeOK, Shape, Position
  <2> QED
    BY <2>1, <2>2, <2>3 DEF Loose
<1>4. CASE DataPublish(s)
  <2>0. s \in Proc /\ mem[s] \in Job
    BY <1>4 DEF DataPublish, Typed, Shape
  <2>1. Held'
    BY <1>4, <2>0 DEF DataPublish, Enqueue, Typed, Loose, TypeOK, Shape, Held
  <2>2. Known'
    <3>1. /\ pc[s] = "inserted" /\ mem[s].id \in used /\ UNCHANGED <<used, dsn, orig>>
          /\ pc'[s] = "idle" /\ \A p \in Proc \ {s} : pc'[p] = pc[p] /\ mem'[p] = mem[p]
      BY <1>4, <2>0 DEF DataPublish, Typed, TypeOK, Loose, Known
    <3>2. /\ enqueued \subseteq enqueued' /\ enqueued' \subseteq enqueued \cup {mem[s].id}
          /\ \A c \in Slot : loc'[c] # "free" => job'[c].id \in enqueued'
      BY <1>4, <2>0 DEF DataPublish, Enqueue, Typed, TypeOK, Loose, Known
    <3> QED
      BY <3>1, <3>2 DEF Loose, Known
  <2>3. Position'
    BY <1>4, <2>0 DEF DataPublish, Enqueue, Typed, Loose, TypeOK, Shape, Position
  <2> QED
    BY <2>1, <2>2, <2>3 DEF Loose
<1> QED
  BY <1>1, <1>2, <1>3, <1>4 DEF SessionStep

LEMMA LooseWorker ==
  ASSUME Typed, Typed', Loose, NEW w \in Worker, WorkerStep(w)
  PROVE  Loose'
<1> USE BoundAssumption, ProcFacts, JobFacts
    DEF Goto, Fault, Works, Nack, Idle, LoopEnds, holding, pathUnchanged, workerUnchanged
<1>1. CASE Materialize(w)
  <2>1. Held' /\ Known'
    BY <1>1, LocalStep DEF Materialize, Loose
  <2>2. Position'
    BY <1>1 DEF Materialize, Typed, Loose, TypeOK, Shape, Position
  <2> QED
    BY <2>1, <2>2 DEF Loose
<1>2. CASE MaterializeFail(w)
  <2>1. Held' /\ Known'
    BY <1>2, LocalStep DEF MaterializeFail, Loose
  <2>2. Position'
    BY <1>2 DEF MaterializeFail, Typed, Loose, TypeOK, Shape, Position
  <2> QED
    BY <2>1, <2>2 DEF Loose
<1>3. CASE RouteDefer(w)
  <2>1. Held' /\ Known'
    BY <1>3, LocalStep DEF RouteDefer, Loose
  <2>2. Position'
    BY <1>3 DEF RouteDefer, Typed, Loose, TypeOK, Shape, Position
  <2> QED
    BY <2>1, <2>2 DEF Loose
<1>4. CASE RouteChain(w)
  <2>1. Held' /\ Known'
    BY <1>4, LocalStep DEF RouteChain, Loose
  <2>2. Position'
    BY <1>4 DEF RouteChain, Typed, Loose, TypeOK, Shape, Position
  <2> QED
    BY <2>1, <2>2 DEF Loose
<1>5. CASE PaceExpired(w)
  <2>1. Held' /\ Known'
    BY <1>5, LocalStep DEF PaceExpired, Loose
  <2>2. Position'
    BY <1>5 DEF PaceExpired, Typed, Loose, TypeOK, Shape, Position
  <2> QED
    BY <2>1, <2>2 DEF Loose
<1>6. CASE SendDelivered(w)
  <2>1. Held' /\ Known'
    BY <1>6, LocalStep DEF SendDelivered, Loose
  <2>2. Position'
    BY <1>6 DEF SendDelivered, Typed, Loose, TypeOK, Shape, Position
  <2> QED
    BY <2>1, <2>2 DEF Loose
<1>7. CASE SendDefer(w)
  <2>1. Held' /\ Known'
    BY <1>7, LocalStep DEF SendDefer, Loose
  <2>2. Position'
    BY <1>7 DEF SendDefer, Typed, Loose, TypeOK, Shape, Position
  <2> QED
    BY <2>1, <2>2 DEF Loose
<1>8. CASE SendFail(w)
  <2>1. Held' /\ Known'
    BY <1>8, LocalStep DEF SendFail, Loose
  <2>2. Position'
    BY <1>8 DEF SendFail, Typed, Loose, TypeOK, Shape, Position
  <2> QED
    BY <2>1, <2>2 DEF Loose
<1>9. CASE ChainDone(w)
  <2>1. Held' /\ Known'
    BY <1>9, LocalStep DEF ChainDone, Loose
  <2>2. Position'
    BY <1>9 DEF ChainDone, Typed, Loose, TypeOK, Shape, Position
  <2> QED
    BY <2>1, <2>2 DEF Loose
<1>10. CASE RecordRelayed(w)
  <2>1. Held' /\ Known'
    BY <1>10, LocalStep DEF RecordRelayed, RecordAttempt, Loose
  <2>2. Position'
    BY <1>10 DEF RecordRelayed, RecordAttempt, Typed, Loose, TypeOK, Shape, Position
  <2> QED
    BY <2>1, <2>2 DEF Loose
<1>11. CASE RecordFailed(w)
  <2>1. Held' /\ Known'
    BY <1>11, LocalStep DEF RecordFailed, RecordAttempt, Loose
  <2>2. Position'
    BY <1>11 DEF RecordFailed, RecordAttempt, Typed, Loose, TypeOK, Shape, Position
  <2> QED
    BY <2>1, <2>2 DEF Loose
<1>12. CASE RecordDeferred(w)
  <2>1. Held' /\ Known'
    BY <1>12, LocalStep DEF RecordDeferred, RecordAttempt, Loose
  <2>2. Position'
    BY <1>12 DEF RecordDeferred, RecordAttempt, Typed, Loose, TypeOK, Shape, Position
  <2> QED
    BY <2>1, <2>2 DEF Loose
<1>13. CASE DeleteRelayed(w)
  <2>1. Held' /\ Known'
    BY <1>13, LocalStep DEF DeleteRelayed, DeleteBody, Loose
  <2>2. Position'
    BY <1>13 DEF DeleteRelayed, DeleteBody, Typed, Loose, TypeOK, Shape, Position
  <2> QED
    BY <2>1, <2>2 DEF Loose
<1>14. CASE Escalate(w) \/ ToDLQ(w)
  <2>1. PICK q \in {"wait", "dlq"}, j \in Job :
          /\ MoveTo(w, q, j) /\ j.id = mem[w].id
          /\ q = "wait" => j.attempt <= NTiers /\ j.attempt = mem[w].attempt + 1
          /\ \/ pc[w] = "escalate" /\ j.attempt = mem[w].attempt + 1
                /\ (q = "dlq" => j.attempt = NTiers + 1)
             \/ pc[w] = "deadletter" /\ j = mem[w] /\ q = "dlq"
    BY <1>14, MoveFacts DEF Typed
  <2>2. CASE up[w]
    <3>0. PICK c \in Slot : Enqueue(c, q, j)
      BY <2>1, <2>2 DEF MoveTo
    <3>1. /\ Goto(w, "ack") /\ pc[w] # "idle" /\ mem[w].id \in enqueued
          /\ UNCHANGED <<mem, cur, live, up, dsn, used, enqueued, orig, handed, permFailed>>
      BY <2>1, <2>2 DEF MoveTo, Loose, Known
    <3>2. Held'
      BY <3>0, <3>1 DEF Enqueue, Typed, Loose, TypeOK, Shape, Held
    <3>3. Known'
      BY <2>1, <3>0, <3>1 DEF Enqueue, Typed, Loose, TypeOK, Shape, Known
    <3>4. Position'
      BY <2>1, <2>2, <3>0, <3>1 DEF MoveTo, Enqueue, Typed, Loose, TypeOK, Shape, Position
    <3> QED
      BY <3>2, <3>3, <3>4 DEF Loose
  <2>3. CASE ~up[w]
    <3>1. Held' /\ Known'
      BY <2>1, <2>3, LocalStep DEF MoveTo, Loose
    <3>2. /\ UNCHANGED <<loc, job, handed, permFailed, deadLettered>>
          /\ pc'[w] \in {"ack", "idle"}
          /\ \A p \in Proc \ {w} : pc'[p] = pc[p] /\ mem'[p] = mem[p]
      BY <2>1, <2>3 DEF MoveTo, Goto, Nack, Idle, Typed, TypeOK
    <3>3. Position'
      BY <3>2, ProcFacts DEF Loose, Position
    <3> QED
      BY <3>1, <3>3 DEF Loose
  <2> QED
    BY <2>2, <2>3
<1>15. CASE AckWork(w)
  <2>1. Ack(w) /\ UNCHANGED <<up, dsn, enqueued, used, orig>>
    BY <1>15 DEF AckWork
  <2>2. Held' /\ Known'
    BY <2>1, AckKeeps DEF Loose
  <2>3. Position'
    <3>1. UNCHANGED <<handed, permFailed, deadLettered>>
      BY <1>15 DEF AckWork, pathUnchanged
    <3> QED
      BY <2>1, <3>1, AckFacts DEF Typed, Loose, Position
  <2> QED
    BY <2>2, <2>3 DEF Loose
<1> QED
  BY <1>1, <1>2, <1>3, <1>4, <1>5, <1>6, <1>7, <1>8, <1>9, <1>10, <1>11, <1>12, <1>13, <1>14, <1>15 DEF WorkerStep

LEMMA LooseGen ==
  ASSUME Typed, Typed', Loose, NEW g \in Gen, GenStep(g)
  PROVE  Loose'
<1> USE BoundAssumption, ProcFacts, JobFacts
    DEF Goto, Fault, Works, Nack, Idle, holding, genUnchanged
<1>1. CASE RecordBounced(g)
  <2>1. Held' /\ Known'
    BY <1>1, LocalStep DEF RecordBounced, RecordAttempt, Loose
  <2>2. Position'
    BY <1>1 DEF RecordBounced, RecordAttempt, Typed, Loose, TypeOK, Shape, Position
  <2> QED
    BY <2>1, <2>2 DEF Loose
<1>2. CASE Feedback(g)
  <2>1. Held' /\ Known'
    BY <1>2, LocalStep DEF Feedback, Loose
  <2>2. Position'
    BY <1>2 DEF Feedback, Typed, Loose, TypeOK, Shape, Position
  <2> QED
    BY <2>1, <2>2 DEF Loose
<1>3. CASE DropNotice(g)
  <2>1. Held' /\ Known'
    BY <1>3, LocalStep DEF DropNotice, DeleteBody, Loose
  <2>2. Position'
    BY <1>3 DEF DropNotice, DeleteBody, Typed, Loose, TypeOK, Shape, Position
  <2> QED
    BY <2>1, <2>2 DEF Loose
<1>4. CASE DeleteBounced(g)
  <2>1. Held' /\ Known'
    BY <1>4, LocalStep DEF DeleteBounced, DeleteBody, Loose
  <2>2. Position'
    BY <1>4 DEF DeleteBounced, DeleteBody, Typed, Loose, TypeOK, Shape, Position
  <2> QED
    BY <2>1, <2>2 DEF Loose
<1>5. CASE PutNotice(g)
  <2>1. PICK d \in Dsn \ used :
          /\ used' = used \cup {d}
          /\ orig' = [orig EXCEPT ![d] = mem[g].id]
          /\ \/ /\ Works /\ body' = body \cup {d}
                /\ dsn' = [dsn EXCEPT ![g] = d]
                /\ Goto(g, "stored") /\ UNCHANGED <<holding, loc, job>>
             \/ Fault /\ body' \in {body, body \cup {d}} /\ Nack(g) /\ UNCHANGED dsn
    BY <1>5 DEF PutNotice
  <2>2. CASE dsn' = [dsn EXCEPT ![g] = d] /\ Goto(g, "stored") /\ UNCHANGED <<holding, loc, job>>
    <3>1. Held'
      BY <1>5, <2>2 DEF PutNotice, Typed, Loose, TypeOK, Shape, Held
    <3>2. Known'
      BY <1>5, <2>1, <2>2 DEF PutNotice, Typed, Loose, TypeOK, Shape, Known
    <3>3. Position'
      BY <1>5, <2>2 DEF PutNotice, Typed, Loose, TypeOK, Shape, Position
    <3> QED
      BY <3>1, <3>2, <3>3 DEF Loose
  <2>3. CASE Nack(g) /\ UNCHANGED dsn
    <3>1. Held'
      BY <1>5, <2>3 DEF PutNotice, Typed, Loose, TypeOK, Shape, Held
    <3>2. Known'
      BY <1>5, <2>1, <2>3 DEF PutNotice, Typed, Loose, TypeOK, Shape, Known
    <3>3. Position'
      BY <1>5, <2>3 DEF PutNotice, Typed, Loose, TypeOK, Shape, Position
    <3> QED
      BY <3>1, <3>2, <3>3 DEF Loose
  <2> QED
    BY <2>1, <2>2, <2>3
<1>6. CASE InsertNotice(g)
  <2>1. CASE Goto(g, "inserted") /\ UNCHANGED <<holding, loc, job>>
    <3>1. Held'
      BY <1>6, <2>1 DEF InsertNotice, Typed, Loose, TypeOK, Shape, Held
    <3>2. Known'
      BY <1>6, <2>1 DEF InsertNotice, Typed, Loose, TypeOK, Shape, Known
    <3>3. Position'
      BY <1>6, <2>1 DEF InsertNotice, Typed, Loose, TypeOK, Shape, Position
    <3> QED
      BY <3>1, <3>2, <3>3 DEF Loose
  <2>2. CASE Nack(g)
    <3>1. Held' /\ Known'
      BY <1>6, <2>2, LocalStep DEF InsertNotice, Loose
    <3>2. Position'
      BY <1>6, <2>2 DEF InsertNotice, Typed, Loose, TypeOK, Shape, Position
    <3> QED
      BY <3>1, <3>2 DEF Loose
  <2> QED
    BY <1>6, <2>1, <2>2 DEF InsertNotice
<1>7. CASE PublishNotice(g)
  <2>1. dsn[g] \in Dsn /\ DsnJob(dsn[g]) \in Job /\ DsnJob(dsn[g]).id = dsn[g]
    BY <1>7, DsnJobFacts DEF PublishNotice, Typed, Shape
  <2>2. CASE up[g]
    <3>0. PICK c \in Slot : Enqueue(c, "work", DsnJob(dsn[g]))
      BY <1>7, <2>2 DEF PublishNotice
    <3>1. Held'
      BY <1>7, <2>1, <2>2, <3>0 DEF PublishNotice, Enqueue, Typed, Loose, TypeOK, Shape, Held
    <3>2. Known'
      <4>1. /\ loc' = [loc EXCEPT ![c] = "work"] /\ job' = [job EXCEPT ![c] = DsnJob(dsn[g])]
            /\ pc[g] = "inserted" /\ enqueued' = enqueued \cup {dsn[g]} /\ Goto(g, "gc")
            /\ UNCHANGED <<mem, dsn, used, orig>>
        BY <1>7, <2>2, <3>0 DEF PublishNotice, Enqueue, holding
      <4>2. \A b \in Slot : loc'[b] # "free" => job'[b].id \in enqueued'
        BY <2>1, <4>1 DEF Typed, Loose, TypeOK, Known
      <4>3. \A p \in Proc \ {g} : pc'[p] = pc[p]
        BY <4>1 DEF Typed, TypeOK
      <4>4. pc'[g] = "gc" /\ mem[g].id \in enqueued
        BY <4>1 DEF Typed, TypeOK, Loose, Known
      <4>5. dsn[g] \in used
        BY <4>1 DEF Loose, Known
      <4> QED
        BY <4>1, <4>2, <4>3, <4>4, <4>5 DEF Loose, Known
    <3>3. Position'
      BY <1>7, <2>1, <2>2, <3>0 DEF PublishNotice, Enqueue, Typed, Loose, TypeOK, Shape, Position
    <3> QED
      BY <3>1, <3>2, <3>3 DEF Loose
  <2>3. CASE ~up[g]
    <3>1. Held' /\ Known'
      BY <1>7, <2>3, LocalStep DEF PublishNotice, Loose
    <3>2. Position'
      <4>1. /\ UNCHANGED <<loc, job, handed, permFailed, deadLettered>>
            /\ pc'[g] \in {"gc", "idle"} /\ pc[g] # "idle" /\ (pc'[g] = "gc" => mem'[g] = mem[g])
            /\ \A p \in Proc \ {g} : pc'[p] = pc[p] /\ mem'[p] = mem[p]
        BY <1>7, <2>3 DEF PublishNotice, Typed, TypeOK
      <4> QED
        BY <4>1 DEF Loose, Position
    <3> QED
      BY <3>1, <3>2 DEF Loose
  <2> QED
    BY <2>2, <2>3
<1>8. CASE AckDead(g)
  <2>1. Ack(g) /\ UNCHANGED <<up, enqueued, used, orig>>
    BY <1>8 DEF AckDead
  <2>2. \A h \in Gen \ {g} : dsn'[h] = dsn[h]
    BY <1>8 DEF AckDead, Typed, TypeOK
  <2>3. Held' /\ Known'
    BY <2>1, <2>2, AckKeeps DEF Loose
  <2>4. Position'
    <3>1. UNCHANGED <<handed, permFailed, deadLettered>>
      BY <1>8 DEF AckDead, genUnchanged
    <3> QED
      BY <2>1, <3>1, AckFacts DEF Typed, Loose, Position
  <2> QED
    BY <2>3, <2>4 DEF Loose
<1> QED
  BY <1>1, <1>2, <1>3, <1>4, <1>5, <1>6, <1>7, <1>8 DEF GenStep

LEMMA LooseEnv ==
  ASSUME Typed, Typed', Loose, EnvStep
  PROVE  Loose'
<1> USE BoundAssumption, ProcFacts, JobFacts
    DEF Fault, Nack, Idle, envUnchanged, pastVars
<1>1. ASSUME NEW p \in Proc, ConnDrop(p)
      PROVE  Loose'
  <2>1. Held'
    BY <1>1 DEF ConnDrop, Typed, Loose, TypeOK, Shape, Held
  <2>2. Known'
    BY <1>1 DEF ConnDrop, Typed, Loose, TypeOK, Shape, Known
  <2>3. Position'
    BY <1>1 DEF ConnDrop, Typed, Loose, TypeOK, Shape, Position
  <2> QED
    BY <2>1, <2>2, <2>3 DEF Loose
<1>2. ASSUME NEW p \in Proc, Reconnect(p)
      PROVE  Loose'
  <2>1. Held'
    BY <1>2 DEF Reconnect, Typed, Loose, TypeOK, Shape, Held
  <2>2. Known'
    BY <1>2 DEF Reconnect, Typed, Loose, TypeOK, Shape, Known
  <2>3. Position'
    BY <1>2 DEF Reconnect, Typed, Loose, TypeOK, Shape, Position
  <2> QED
    BY <2>1, <2>2, <2>3 DEF Loose
<1>3. ASSUME NEW p \in Proc, Crash(p)
      PROVE  Loose'
  <2>1. Held'
    BY <1>3 DEF Crash, Typed, Loose, TypeOK, Shape, Held
  <2>2. Known'
    BY <1>3 DEF Crash, Typed, Loose, TypeOK, Shape, Known
  <2>3. Position'
    BY <1>3 DEF Crash, Typed, Loose, TypeOK, Shape, Position
  <2> QED
    BY <2>1, <2>2, <2>3 DEF Loose
<1>4. ASSUME NEW p \in Worker \cup Gen, NEW c \in Slot, Deliver(p, c)
      PROVE  Loose'
  <2>1. Held'
    BY <1>4 DEF Deliver, Typed, Loose, TypeOK, Shape, Held
  <2>2. Known'
    BY <1>4 DEF Deliver, Typed, Loose, TypeOK, Shape, Known
  <2>3. Position'
    BY <1>4 DEF Deliver, Typed, Loose, TypeOK, Shape, Position
  <2> QED
    BY <2>1, <2>2, <2>3 DEF Loose
<1>5. ASSUME NEW c \in Slot, WaitExpire(c)
      PROVE  Loose'
  <2>1. Held'
    BY <1>5 DEF WaitExpire, Typed, Loose, TypeOK, Shape, Held
  <2>2. Known'
    BY <1>5 DEF WaitExpire, Typed, Loose, TypeOK, Shape, Known
  <2>3. Position'
    BY <1>5 DEF WaitExpire, Typed, Loose, TypeOK, Shape, Position
  <2> QED
    BY <2>1, <2>2, <2>3 DEF Loose
<1> QED
  BY <1>1, <1>2, <1>3, <1>4, <1>5 DEF EnvStep

-----------------------------------------------------------------------------
(* Without requeues and alert mails an id is published by its own handler  *)
(* only, so until then it is in nobody else's hands.                       *)

\* A step that publishes nothing, and in which handlers hold on to their ids or let go.
LEMMA FreshFrame ==
  ASSUME Fresh, Known', enqueued' = enqueued,
         \A s \in Session : pc'[s] # "idle" => pc[s] # "idle" /\ mem'[s] = mem[s],
         \A g \in Gen : pc'[g] \in {"stored", "inserted"} =>
                          pc[g] \in {"stored", "inserted"} /\ dsn'[g] = dsn[g]
  PROVE  Fresh'
  BY DEF Fresh, Known, Unpublished

LEMMA FreshSession ==
  ASSUME Typed, Typed', Fresh, Known', NEW s \in Session, SessionStep(s)
  PROVE  Fresh'
<1> USE ProcFacts DEF Goto, sessionUnchanged
<1>1. CASE DataPut(s)
  <2>1. PICK id \in Mail \ used, env \in Envelope :
          /\ used' = used \cup {id}
          /\ \/ Goto(s, "stored") /\ mem' = [mem EXCEPT ![s] = NewJob(id, env)]
             \/ UNCHANGED <<pc, mem>>
    BY <1>1 DEF DataPut
  <2>2. NewJob(id, env).id = id
    BY NewJobFacts, EnvelopeAssumption
  <2>3. CASE UNCHANGED <<pc, mem>>
    BY <1>1, <2>3, FreshFrame DEF DataPut
  <2>4. CASE Goto(s, "stored") /\ mem' = [mem EXCEPT ![s] = NewJob(id, env)]
    BY <1>1, <2>1, <2>2, <2>4 DEF DataPut, Typed, TypeOK, Shape, Fresh, Unpublished
  <2> QED
    BY <2>1, <2>3, <2>4
<1>2. CASE DataOversize(s) \/ DataInsert(s)
  <2>1. \A t \in Session : pc'[t] # "idle" => pc[t] # "idle" /\ mem'[t] = mem[t]
    BY <1>2 DEF DataOversize, DataInsert, Typed, TypeOK
  <2>2. enqueued' = enqueued /\ dsn' = dsn /\ \A g \in Gen : pc'[g] = pc[g]
    BY <1>2 DEF DataOversize, DataInsert, Typed, TypeOK
  <2> QED
    BY <2>1, <2>2, FreshFrame
<1>3. CASE DataPublish(s)
  <2>0. s \in Proc /\ mem[s] \in Job
    BY <1>3 DEF DataPublish, Typed, Shape
  <2> QED
    BY <1>3, <2>0, JobFacts DEF DataPublish, Enqueue, Typed, TypeOK, Shape, Fresh, Unpublished
<1> QED
  BY <1>1, <1>2, <1>3 DEF SessionStep

LEMMA FreshWorker ==
  ASSUME Typed, Typed', Fresh, Known', NEW w \in Worker, WorkerStep(w)
  PROVE  Fresh'
<1>1. /\ enqueued' = enqueued /\ dsn' = dsn
      /\ \A p \in Session \cup Gen : pc'[p] = pc[p] /\ mem'[p] = mem[p]
  <2>1. CASE Escalate(w) \/ ToDLQ(w)
    BY <2>1, MoveFacts, ProcFacts
       DEF MoveTo, Goto, Idle, Nack, holding, workerUnchanged, Typed, TypeOK
  <2>2. CASE ~(Escalate(w) \/ ToDLQ(w))
    BY <2>2, ProcFacts DEF WorkerStep, Materialize, MaterializeFail, RouteDefer, RouteChain,
       PaceExpired, SendDelivered, SendDefer, SendFail, ChainDone, RecordRelayed,
       DeleteRelayed, RecordDeferred, RecordFailed, AckWork, Ack, Nack, Idle, Goto, holding,
       workerUnchanged, Typed, TypeOK
  <2> QED
    BY <2>1, <2>2
<1> QED
  BY <1>1, FreshFrame

LEMMA FreshGen ==
  ASSUME Typed, Typed', Fresh, Known', NEW g \in Gen, GenStep(g)
  PROVE  Fresh'
<1> USE ProcFacts DEF Goto, Nack, Idle, holding, genUnchanged
<1>1. CASE \/ RecordBounced(g) \/ Feedback(g) \/ DropNotice(g) \/ DeleteBounced(g)
           \/ AckDead(g)
  <2>1. enqueued' = enqueued /\ \A s \in Session : pc'[s] = pc[s] /\ mem'[s] = mem[s]
    BY <1>1 DEF RecordBounced, Feedback, DropNotice, DeleteBounced, AckDead, Ack, Typed, TypeOK
  <2>2. \A h \in Gen : pc'[h] \in {"stored", "inserted"} =>
                         pc[h] \in {"stored", "inserted"} /\ dsn'[h] = dsn[h]
    BY <1>1 DEF RecordBounced, Feedback, DropNotice, DeleteBounced, AckDead, Ack, Typed, TypeOK
  <2> QED
    BY <2>1, <2>2, FreshFrame
<1>2. CASE PutNotice(g)
  <2>1. PICK d \in Dsn \ used :
          /\ used' = used \cup {d} /\ orig' = [orig EXCEPT ![d] = mem[g].id]
          /\ \/ /\ dsn' = [dsn EXCEPT ![g] = d] /\ Goto(g, "stored")
                /\ UNCHANGED <<holding, loc, job>>
             \/ Nack(g) /\ UNCHANGED dsn
    BY <1>2 DEF PutNotice
  <2>2. CASE dsn' = [dsn EXCEPT ![g] = d] /\ Goto(g, "stored") /\ UNCHANGED <<holding, loc, job>>
    BY <1>2, <2>1, <2>2 DEF PutNotice, Typed, TypeOK, Shape, Fresh, Unpublished
  <2>3. CASE Nack(g) /\ UNCHANGED dsn
    <3>1. /\ enqueued' = enqueued /\ \A s \in Session : pc'[s] = pc[s] /\ mem'[s] = mem[s]
          /\ \A h \in Gen : pc'[h] # "idle" => pc'[h] = pc[h]
      BY <1>2, <2>3 DEF PutNotice, Typed, TypeOK
    <3> QED
      BY <2>3, <3>1, FreshFrame
  <2> QED
    BY <2>1, <2>2, <2>3
<1>3. CASE InsertNotice(g)
  <2>1. /\ enqueued' = enqueued /\ dsn' = dsn
        /\ \A s \in Session : pc'[s] = pc[s] /\ mem'[s] = mem[s]
        /\ \A h \in Gen : pc'[h] \in {"stored", "inserted"} => pc[h] \in {"stored", "inserted"}
    BY <1>3 DEF InsertNotice, Typed, TypeOK
  <2> QED
    BY <2>1, FreshFrame
<1>4. CASE PublishNotice(g)
  <2>1. /\ pc[g] = "inserted" /\ pc'[g] \notin {"stored", "inserted"}
        /\ enqueued' \subseteq enqueued \cup {dsn[g]} /\ UNCHANGED <<dsn, used, orig>>
        /\ \A p \in Proc \ {g} : pc'[p] = pc[p] /\ mem'[p] = mem[p]
    BY <1>4 DEF PublishNotice, Typed, TypeOK
  <2>2. \A s \in Session : pc[s] # "idle" => mem[s].id # dsn[g]
    BY <2>1, DistinctAssumption DEF Typed, Shape
  <2>3. \A h \in Gen \ {g} : pc[h] \in {"stored", "inserted"} => dsn[h] # dsn[g]
    BY <2>1 DEF Fresh
  <2> QED
    BY <2>1, <2>2, <2>3 DEF Fresh, Known, Unpublished
<1> QED
  BY <1>1, <1>2, <1>3, <1>4 DEF GenStep

LEMMA FreshEnv ==
  ASSUME Typed, Typed', Fresh, Known', EnvStep
  PROVE  Fresh'
<1>1. /\ enqueued' = enqueued /\ dsn' = dsn
      /\ \A s \in Session : pc'[s] # "idle" => pc[s] # "idle" /\ mem'[s] = mem[s]
      /\ \A g \in Gen : pc'[g] \in {"stored", "inserted"} => pc[g] \in {"stored", "inserted"}
  BY ProcFacts DEF EnvStep, ConnDrop, Reconnect, Crash, Deliver, WaitExpire, Nack, Idle,
     envUnchanged, pastVars, Typed, TypeOK
<1> QED
  BY <1>1, FreshFrame

LEMMA DisciplineStep == Typed /\ Typed' /\ Discipline /\ [Next]_vars => Discipline'
<1> SUFFICES ASSUME Typed, Typed', Discipline, [Next]_vars PROVE Discipline'
  OBVIOUS
<1>1. Loose /\ Fresh
  BY LooseHolds DEF Discipline
<1>2. CASE Next
  <2>1. Loose' /\ Known'
    BY <1>1, <1>2, LooseSession, LooseWorker, LooseGen, LooseEnv DEF Next, EnvStep, Loose
  <2>2. Fresh'
    BY <1>1, <1>2, <2>1, FreshSession, FreshWorker, FreshGen, FreshEnv DEF Next, EnvStep
  <2> QED
    BY <2>1, <2>2 DEF Loose, Discipline
<1>3. CASE UNCHANGED vars
  BY <1>3 DEF vars, implVars, pastVars, Discipline, Held, Fresh, Unpublished, Position
<1> QED
  BY <1>2, <1>3

LEMMA DisciplineHolds == Spec => []Discipline
<1>1. Init => Discipline
  BY ProcFacts DEF Init, Discipline, Held, Fresh, Position
<1>2. Spec => []Typed
  BY Typing DEF Typed
<1> QED
  BY <1>1, <1>2, DisciplineStep, PTL DEF Spec
-----------------------------------------------------------------------------
\* What settles a message is never undone.
Mono ==
    /\ handed \subseteq handed' /\ silenced \subseteq silenced' /\ enqueued \subseteq enqueued'
    /\ \A d \in Dsn : d \in enqueued => orig'[d] = orig[d]

\* Settled, read off the state after the step.
SettledNext(m) ==
    m \in handed' \/ m \in silenced' \/ \E d \in Dsn : orig'[d] = m /\ d \in enqueued'

LEMMA SettledMono ==
  ASSUME Mono
  PROVE  \A m : Settled(m) => SettledNext(m)
  BY DEF Mono, Settled, SettledNext, Notified

\* NoLoss and AckJustified, but for the messages of a set P that somebody else took out of
\* the queues.
NoLossBut(P) == \A m \in enqueued : m \in P \/ Settled(m) \/ InBroker(m)
JustifiedBut(P) ==
    /\ \A g \in Gen : pc[g] = "gc" /\ live[g] => Settled(mem[g].id)
    /\ \A p \in Worker \cup Gen : pc[p] = "ack" /\ live[p] =>
          mem[p].id \in P \/ Settled(mem[p].id) \/ FurtherCopy(p)
AccountedBut(P) == NoLossBut(P) /\ JustifiedBut(P)
Accounted == NoLoss /\ AckJustified

LEMMA AllAccounted == Accounted <=> AccountedBut({})
  BY DEF Accounted, AccountedBut, NoLoss, NoLossBut, AckJustified, JustifiedBut

\* Nothing the other processes hold changes, except that tags may be revoked.
OthersKeep(p) ==
    \A q \in Proc : q # p =>
       pc'[q] = pc[q] /\ mem'[q] = mem[q] /\ cur'[q] = cur[q] /\ (live'[q] => live[q])

\* A step that leaves the broker alone and commits to an ack only for a settled
\* message.
LEMMA QuietStep ==
  ASSUME Typed, Loose, NEW P, AccountedBut(P), Mono, NEW p \in Proc, OthersKeep(p),
         UNCHANGED <<loc, job, enqueued>>,
         live'[p] /\ pc'[p] \in {"gc", "ack"} => SettledNext(mem'[p].id)
  PROVE  AccountedBut(P)'
<1> USE ProcFacts
<1>1. NoLossBut(P)'
  BY SettledMono DEF AccountedBut, NoLossBut, InBroker, SettledNext, Settled, Notified
<1>2. ASSUME NEW g \in Gen, (pc[g] = "gc" /\ live[g])'
      PROVE  Settled(mem[g].id)'
  <2>1. SettledNext(mem'[g].id)
    BY <1>2, SettledMono DEF AccountedBut, JustifiedBut, OthersKeep
  <2> QED
    BY <2>1 DEF SettledNext, Settled, Notified
<1>3. ASSUME NEW q \in Worker \cup Gen, (pc[q] = "ack" /\ live[q])'
      PROVE  (mem[q].id \in P \/ Settled(mem[q].id) \/ FurtherCopy(q))'
  <2>1. CASE q = p
    BY <1>3, <2>1 DEF SettledNext, Settled, Notified
  <2>2. CASE q # p
    <3>1. /\ pc[q] = "ack" /\ live[q] /\ mem'[q] = mem[q] /\ cur'[q] = cur[q]
      BY <1>3, <2>2 DEF OthersKeep
    <3>2. mem[q].id \in P \/ Settled(mem[q].id) \/ FurtherCopy(q)
      BY <3>1 DEF AccountedBut, JustifiedBut
    <3> QED
      BY <3>1, <3>2, SettledMono DEF FurtherCopy, Rank, SettledNext, Settled, Notified
  <2> QED
    BY <2>1, <2>2
<1> QED
  BY <1>1, <1>2, <1>3 DEF AccountedBut, JustifiedBut

\* A publish that reaches the broker adds a copy and removes none.
LEMMA EnqueueStep ==
  ASSUME Typed, Loose, NEW P, AccountedBut(P), Mono, NEW p \in Proc, OthersKeep(p),
         NEW c \in Slot, NEW q \in {"work", "wait", "dlq"}, NEW j \in Job, Enqueue(c, q, j),
         enqueued' \subseteq enqueued \cup {j.id},
         p \in Gen /\ live'[p] /\ pc'[p] = "gc" => SettledNext(mem'[p].id),
         live'[p] /\ pc'[p] = "ack" =>
            /\ p \in Worker /\ live[p] /\ cur'[p] = cur[p] /\ mem'[p] = mem[p]
            /\ j.id = mem[p].id /\ (q = "dlq" \/ j.attempt > mem[p].attempt)
  PROVE  AccountedBut(P)'
<1> USE ProcFacts, JobFacts, BoundAssumption
<1>0. /\ loc[c] = "free" /\ loc'[c] = q /\ job'[c] = j
      /\ \A e \in Slot : e # c => loc'[e] = loc[e] /\ job'[e] = job[e]
  BY DEF Enqueue, Typed, TypeOK
<1>1. NoLossBut(P)'
  BY <1>0, SettledMono DEF AccountedBut, NoLossBut, InBroker, SettledNext, Settled, Notified
<1>2. ASSUME NEW g \in Gen, (pc[g] = "gc" /\ live[g])'
      PROVE  Settled(mem[g].id)'
  <2>1. SettledNext(mem'[g].id)
    BY <1>2, SettledMono DEF AccountedBut, JustifiedBut, OthersKeep
  <2> QED
    BY <2>1 DEF SettledNext, Settled, Notified
<1>3. ASSUME NEW r \in Worker \cup Gen, (pc[r] = "ack" /\ live[r])'
      PROVE  (mem[r].id \in P \/ Settled(mem[r].id) \/ FurtherCopy(r))'
  <2>1. CASE r = p
    <3>1. /\ loc[cur[p]] = "work" /\ job[cur[p]] = mem[p] /\ cur[p] \in Slot
          /\ job[cur[p]].attempt \in Nat /\ job[cur[p]].attempt <= NTiers
      BY <1>3, <2>1 DEF Loose, Held, Typed, Shape
    <3>2. Rank(cur[p])' = mem[p].attempt /\ Rank(c)' > mem[p].attempt
      BY <1>0, <1>3, <2>1, <3>1 DEF Rank
    <3> QED
      BY <1>0, <1>3, <2>1, <3>2 DEF FurtherCopy
  <2>2. CASE r # p
    <3>1. pc[r] = "ack" /\ live[r] /\ mem'[r] = mem[r] /\ cur'[r] = cur[r]
      BY <1>3, <2>2 DEF OthersKeep
    <3>2. mem[r].id \in P \/ Settled(mem[r].id) \/ FurtherCopy(r)
      BY <3>1 DEF AccountedBut, JustifiedBut
    <3>3. cur[r] \in Slot /\ cur[r] # c
      BY <1>0, <3>1 DEF Loose, Held
    <3> QED
      BY <1>0, <3>1, <3>2, <3>3, SettledMono DEF FurtherCopy, Rank, SettledNext, Settled, Notified
  <2> QED
    BY <2>1, <2>2
<1> QED
  BY <1>1, <1>2, <1>3 DEF AccountedBut, JustifiedBut

\* An ack that reaches the broker removes one copy: of a settled message, or of
\* one with a copy further along.  Another ack that leaned on the removed copy
\* finds a copy further along still, because ranks only go up.
LEMMA AckStep ==
  ASSUME Typed, Loose, NEW P, AccountedBut(P), NEW p \in Worker \cup Gen, pc[p] = "ack", Ack(p),
         UNCHANGED <<handed, silenced, enqueued, orig>>
  PROVE  AccountedBut(P)'
<1> USE ProcFacts, JobFacts, BoundAssumption
<1>0. Mono /\ OthersKeep(p) /\ ~live'[p] /\ pc'[p] = "idle"
  BY DEF Mono, OthersKeep, Ack, Idle, Typed, TypeOK
<1>1. CASE ~live[p]
  BY <1>0, <1>1, QuietStep DEF Ack
<1>2. CASE live[p]
  <2>0. /\ cur[p] \in Slot /\ loc[cur[p]] # "free" /\ job[cur[p]] = mem[p]
        /\ loc'[cur[p]] = "free"
        /\ \A e \in Slot : e # cur[p] => loc'[e] = loc[e] /\ job'[e] = job[e]
    BY <1>2 DEF Ack, Loose, Held, Typed, TypeOK
  <2>1. mem[p].id \in P \/ Settled(mem[p].id) \/ FurtherCopy(p)
    BY <1>2 DEF AccountedBut, JustifiedBut
  <2>2. NoLossBut(P)'
    <3>1. ASSUME NEW m \in enqueued \ P, InBroker(m), ~Settled(m)
          PROVE  InBroker(m)'
      <4>1. PICK e \in Slot : loc[e] # "free" /\ job[e].id = m
        BY <3>1 DEF InBroker
      <4>2. CASE e # cur[p]
        BY <2>0, <4>1, <4>2 DEF InBroker
      <4>3. CASE e = cur[p]
        <5>1. PICK f \in Slot : loc[f] # "free" /\ job[f].id = m /\ Rank(f) > Rank(cur[p])
          BY <2>0, <2>1, <3>1, <4>1, <4>3 DEF FurtherCopy
        <5>2. f # cur[p]
          BY <2>0, <5>1 DEF Rank, Typed, Shape
        <5> QED
          BY <2>0, <5>1, <5>2 DEF InBroker
      <4> QED
        BY <4>2, <4>3
    <3> QED
      BY <1>0, <3>1, SettledMono DEF AccountedBut, NoLossBut, SettledNext, Settled, Notified
  <2>3. ASSUME NEW g \in Gen, (pc[g] = "gc" /\ live[g])'
        PROVE  Settled(mem[g].id)'
    BY <1>0, <2>3, SettledMono DEF AccountedBut, JustifiedBut, OthersKeep, SettledNext, Settled, Notified
  <2>4. ASSUME NEW r \in Worker \cup Gen, (pc[r] = "ack" /\ live[r])'
        PROVE  (mem[r].id \in P \/ Settled(mem[r].id) \/ FurtherCopy(r))'
    <3>1. r # p /\ pc[r] = "ack" /\ live[r] /\ mem'[r] = mem[r] /\ cur'[r] = cur[r]
      BY <1>0, <2>4 DEF OthersKeep
    <3>2. mem[r].id \in P \/ Settled(mem[r].id) \/ FurtherCopy(r)
      BY <3>1 DEF AccountedBut, JustifiedBut
    <3>3. /\ cur[r] \in Slot /\ cur[r] # cur[p] /\ job[cur[r]] = mem[r]
          /\ loc[cur[r]] # "free"
      BY <1>2, <3>1 DEF Loose, Held
    <3>4. CASE Settled(mem[r].id)
      BY <1>0, <3>1, <3>4, SettledMono DEF SettledNext, Settled, Notified
    <3>5. CASE FurtherCopy(r) /\ ~Settled(mem[r].id) /\ mem[r].id \notin P
      <4>1. PICK e \in Slot : loc[e] # "free" /\ job[e].id = mem[r].id /\ Rank(e) > Rank(cur[r])
        BY <3>5 DEF FurtherCopy
      <4>2. Rank(cur[r])' = Rank(cur[r])
        BY <2>0, <3>1, <3>3 DEF Rank
      <4>3. CASE e # cur[p]
        BY <2>0, <3>1, <4>1, <4>2, <4>3 DEF FurtherCopy, Rank
      <4>4. CASE e = cur[p]
        <5>1. PICK f \in Slot : loc[f] # "free" /\ job[f].id = mem[r].id /\ Rank(f) > Rank(e)
          BY <2>0, <2>1, <3>5, <4>1, <4>4 DEF FurtherCopy
        <5>2. /\ Rank(f) \in Nat /\ Rank(e) \in Nat /\ Rank(cur[r]) \in Nat
          BY <2>0, <3>3, <4>1, <4>4, <5>1 DEF Rank, Typed, Shape
        <5>3. f # cur[p] /\ Rank(f) > Rank(cur[r])
          BY <4>1, <4>4, <5>1, <5>2
        <5>4. Rank(f)' = Rank(f)
          BY <2>0, <5>3 DEF Rank
        <5> QED
          BY <2>0, <3>1, <4>2, <5>1, <5>3, <5>4 DEF FurtherCopy
      <4> QED
        BY <4>3, <4>4
    <3>6. CASE mem[r].id \in P
      BY <3>1, <3>6
    <3> QED
      BY <3>2, <3>4, <3>5, <3>6
  <2> QED
    BY <2>2, <2>3, <2>4 DEF AccountedBut, JustifiedBut
<1> QED
  BY <1>1, <1>2 DEF Typed, TypeOK

LEMMA AccountedSession ==
  ASSUME Typed, Typed', Loose, NEW P, AccountedBut(P), NEW s \in Session, SessionStep(s)
  PROVE  AccountedBut(P)'
<1> USE ProcFacts DEF sessionUnchanged, Goto
<1>1. CASE DataPut(s) \/ DataOversize(s) \/ DataInsert(s)
  <2>1. /\ Mono /\ OthersKeep(s) /\ UNCHANGED <<loc, job, enqueued>> /\ ~live'[s]
    BY <1>1 DEF DataPut, DataOversize, DataInsert, Mono, OthersKeep, Typed, TypeOK, Shape
  <2> QED
    BY <2>1, QuietStep
<1>2. CASE DataPublish(s)
  <2>1. Mono /\ OthersKeep(s) /\ ~live'[s] /\ mem[s] \in Job
    BY <1>2 DEF DataPublish, Mono, OthersKeep, Typed, TypeOK, Shape
  <2>2. CASE up[s]
    <3>1. PICK c \in Slot : Enqueue(c, "work", mem[s])
      BY <1>2, <2>2 DEF DataPublish
    <3> QED
      BY <1>2, <2>1, <2>2, <3>1, EnqueueStep DEF DataPublish
  <2>3. CASE ~up[s]
    BY <1>2, <2>1, <2>3, QuietStep DEF DataPublish
  <2> QED
    BY <2>2, <2>3
<1> QED
  BY <1>1, <1>2 DEF SessionStep

LEMMA AccountedWorker ==
  ASSUME Typed, Typed', Loose, NEW P, AccountedBut(P), NEW w \in Worker, WorkerStep(w)
  PROVE  AccountedBut(P)'
<1> USE ProcFacts DEF Goto, Nack, Idle, holding, pathUnchanged, workerUnchanged
<1>1. CASE \/ Materialize(w) \/ MaterializeFail(w) \/ RouteDefer(w) \/ RouteChain(w)
           \/ PaceExpired(w) \/ SendDelivered(w) \/ SendDefer(w) \/ SendFail(w)
           \/ ChainDone(w) \/ RecordDeferred(w) \/ RecordFailed(w)
  <2>1. Mono /\ UNCHANGED <<loc, job, enqueued>>
    BY <1>1 DEF Materialize, MaterializeFail, RouteDefer, RouteChain, PaceExpired,
                SendDelivered, SendDefer, SendFail, ChainDone, RecordDeferred,
                RecordFailed, Mono
  <2>2. OthersKeep(w) /\ pc'[w] \notin {"gc", "ack"}
    BY <1>1 DEF Materialize, MaterializeFail, RouteDefer, RouteChain, PaceExpired,
                SendDelivered, SendDefer, SendFail, ChainDone, RecordDeferred,
                RecordFailed, OthersKeep, Typed, TypeOK
  <2> QED
    BY <2>1, <2>2, QuietStep
<1>2. CASE RecordRelayed(w) \/ DeleteRelayed(w)
  <2>1. /\ Mono /\ UNCHANGED <<loc, job, enqueued>> /\ OthersKeep(w)
        /\ mem'[w] = mem[w] /\ handed' = handed /\ mem[w].id \in handed
    BY <1>2 DEF RecordRelayed, DeleteRelayed, Mono, OthersKeep, Typed, TypeOK,
                Loose, Position
  <2> QED
    BY <2>1, QuietStep DEF SettledNext
<1>3. CASE Escalate(w) \/ ToDLQ(w)
  <2>0. mem[w] \in Job /\ mem[w].attempt \in Nat
    BY <1>3, JobFacts, BoundAssumption DEF Escalate, ToDLQ, Typed, Shape
  <2>1. PICK q \in {"wait", "dlq"}, j \in Job :
          /\ MoveTo(w, q, j) /\ j.id = mem[w].id
          /\ q = "wait" => j.attempt <= NTiers /\ j.attempt = mem[w].attempt + 1
    BY <1>3, MoveFacts DEF Typed
  <2>2. /\ Mono /\ UNCHANGED enqueued
    BY <2>1 DEF MoveTo, Mono
  <2>3. OthersKeep(w)
    BY <2>1 DEF MoveTo, OthersKeep, Typed, TypeOK
  <2>4. CASE up[w]
    <3>1. PICK c \in Slot : Enqueue(c, q, j)
      BY <2>1, <2>4 DEF MoveTo
    <3>2. /\ live' = live /\ cur' = cur /\ mem' = mem
      BY <2>1, <2>4 DEF MoveTo
    <3> QED
      BY <2>0, <2>1, <2>2, <2>3, <3>1, <3>2, EnqueueStep
  <2>5. CASE ~up[w]
    <3>1. ~live'[w]
      BY <2>1, <2>5 DEF MoveTo, Loose, Held, Typed, TypeOK
    <3> QED
      BY <2>1, <2>2, <2>3, <2>5, <3>1, QuietStep DEF MoveTo
  <2> QED
    BY <2>4, <2>5
<1>4. CASE AckWork(w)
  BY <1>4, AckStep DEF AckWork
<1> QED
  BY <1>1, <1>2, <1>3, <1>4 DEF WorkerStep

LEMMA AccountedGen ==
  ASSUME Typed, Typed', Loose, NEW P, AccountedBut(P), NEW g \in Gen, GenStep(g)
  PROVE  AccountedBut(P)'
<1> USE ProcFacts DEF Goto, Nack, Idle, holding, genUnchanged
<1>1. CASE RecordBounced(g) \/ Feedback(g) \/ InsertNotice(g)
  <2>1. /\ Mono /\ UNCHANGED <<loc, job, enqueued>>
    BY <1>1 DEF RecordBounced, Feedback, InsertNotice, Mono
  <2>2. OthersKeep(g) /\ pc'[g] \notin {"gc", "ack"}
    BY <1>1 DEF RecordBounced, Feedback, InsertNotice, OthersKeep, Typed, TypeOK
  <2> QED
    BY <2>1, <2>2, QuietStep
<1>2. CASE DropNotice(g)
  <2>1. /\ Mono /\ UNCHANGED <<loc, job, enqueued>> /\ OthersKeep(g)
        /\ mem'[g] = mem[g] /\ mem[g].id \in silenced'
    BY <1>2 DEF DropNotice, Mono, OthersKeep, Typed, TypeOK
  <2> QED
    BY <2>1, QuietStep DEF SettledNext
<1>3. CASE PutNotice(g)
  <2>1. /\ UNCHANGED <<loc, job, enqueued>>
    BY <1>3 DEF PutNotice
  <2>2. Mono
    BY <1>3 DEF PutNotice, Mono, Typed, TypeOK, Loose, Known
  <2>3. OthersKeep(g) /\ pc'[g] \notin {"gc", "ack"}
    BY <1>3 DEF PutNotice, OthersKeep, Typed, TypeOK
  <2> QED
    BY <2>1, <2>2, <2>3, QuietStep
<1>4. CASE PublishNotice(g)
  <2>1. /\ dsn[g] \in Dsn /\ DsnJob(dsn[g]) \in Job /\ DsnJob(dsn[g]).id = dsn[g]
        /\ orig[dsn[g]] = mem[g].id
    BY <1>4, DsnJobFacts DEF PublishNotice, Typed, Shape, Loose, Known
  <2>2. Mono /\ OthersKeep(g)
    BY <1>4 DEF PublishNotice, Mono, OthersKeep, Typed, TypeOK
  <2>3. CASE up[g]
    <3>1. PICK c \in Slot : Enqueue(c, "work", DsnJob(dsn[g]))
      BY <1>4, <2>3 DEF PublishNotice
    <3>2. /\ enqueued' = enqueued \cup {dsn[g]} /\ mem' = mem /\ orig' = orig
          /\ pc'[g] = "gc"
      BY <1>4, <2>3 DEF PublishNotice, Typed, TypeOK
    <3>3. SettledNext(mem'[g].id)
      BY <2>1, <3>2 DEF SettledNext
    <3> QED
      BY <2>1, <2>2, <3>1, <3>2, <3>3, EnqueueStep
  <2>4. CASE ~up[g]
    <3>1. ~live'[g]
      BY <1>4, <2>4 DEF PublishNotice, Loose, Held, Typed, TypeOK
    <3> QED
      BY <1>4, <2>2, <2>4, <3>1, QuietStep DEF PublishNotice
  <2> QED
    BY <2>3, <2>4
<1>5. CASE DeleteBounced(g)
  <2>1. /\ Mono /\ UNCHANGED <<loc, job, enqueued>> /\ OthersKeep(g)
        /\ mem'[g] = mem[g] /\ live' = live /\ pc[g] = "gc"
    BY <1>5 DEF DeleteBounced, Mono, OthersKeep, Typed, TypeOK
  <2>2. live[g] => SettledNext(mem[g].id)
    BY <2>1, SettledMono DEF AccountedBut, JustifiedBut
  <2> QED
    BY <2>1, <2>2, QuietStep
<1>6. CASE AckDead(g)
  BY <1>6, AckStep DEF AckDead
<1> QED
  BY <1>1, <1>2, <1>3, <1>4, <1>5, <1>6 DEF GenStep

LEMMA AccountedEnv ==
  ASSUME Typed, Typed', Loose, NEW P, AccountedBut(P), EnvStep
  PROVE  AccountedBut(P)'
<1> USE ProcFacts DEF Nack, Idle, envUnchanged, pastVars
<1>0. Mono
  BY DEF EnvStep, ConnDrop, Reconnect, Crash, Deliver, WaitExpire, Mono
<1>1. ASSUME NEW p \in Proc, ConnDrop(p) \/ Reconnect(p) \/ Crash(p)
      PROVE  AccountedBut(P)'
  <2>1. /\ OthersKeep(p) /\ UNCHANGED <<loc, job, enqueued>> /\ ~live'[p]
    BY <1>1 DEF ConnDrop, Reconnect, Crash, OthersKeep, Typed, TypeOK, Loose, Held
  <2> QED
    BY <1>0, <2>1, QuietStep
<1>2. ASSUME NEW p \in Worker \cup Gen, NEW c \in Slot, Deliver(p, c)
      PROVE  AccountedBut(P)'
  <2>1. /\ OthersKeep(p) /\ UNCHANGED <<loc, job, enqueued>> /\ pc'[p] = "got"
    BY <1>2 DEF Deliver, OthersKeep, Typed, TypeOK
  <2> QED
    BY <1>0, <2>1, QuietStep
<1>3. ASSUME NEW c \in Slot, WaitExpire(c)
      PROVE  AccountedBut(P)'
  <2>1. /\ UNCHANGED <<job, pc, mem, cur, live, handed, silenced, enqueued, orig>>
        /\ \A e \in Slot : loc'[e] # "free" <=> loc[e] # "free"
        /\ \A e \in Slot : loc'[e] = "dlq" <=> loc[e] = "dlq"
    BY <1>3 DEF WaitExpire, Typed, TypeOK
  <2>2. NoLossBut(P)'
    BY <1>0, <2>1, SettledMono DEF AccountedBut, NoLossBut, InBroker, SettledNext, Settled, Notified
  <2>3. ASSUME NEW g \in Gen, (pc[g] = "gc" /\ live[g])'
        PROVE  Settled(mem[g].id)'
    BY <1>0, <2>1, <2>3, SettledMono DEF AccountedBut, JustifiedBut, SettledNext, Settled, Notified
  <2>4. ASSUME NEW r \in Worker \cup Gen, (pc[r] = "ack" /\ live[r])'
        PROVE  (mem[r].id \in P \/ Settled(mem[r].id) \/ FurtherCopy(r))'
    <3>1. cur[r] \in Slot /\ (mem[r].id \in P \/ Settled(mem[r].id) \/ FurtherCopy(r))
      BY <2>1, <2>4 DEF AccountedBut, JustifiedBut, Loose, Held
    <3> QED
      BY <1>0, <2>1, <3>1, SettledMono DEF FurtherCopy, Rank, SettledNext, Settled, Notified
  <2> QED
    BY <2>2, <2>3, <2>4 DEF AccountedBut, JustifiedBut
<1> QED
  BY <1>1, <1>2, <1>3 DEF EnvStep

\* No step of the mail path takes a job out of the queues but by an ack that is justified.
LEMMA AccountedStep ==
  ASSUME Typed, Typed', Loose, NEW P, AccountedBut(P), [Next]_vars
  PROVE  AccountedBut(P)'
<1>1. CASE Next
  BY <1>1, AccountedSession, AccountedWorker, AccountedGen, AccountedEnv DEF Next, EnvStep
<1>2. CASE UNCHANGED vars
  BY <1>2 DEF vars, implVars, pastVars, AccountedBut, NoLossBut, JustifiedBut, Settled,
     Notified, InBroker, FurtherCopy, Rank
<1> QED
  BY <1>1, <1>2

LEMMA AccountedHolds == Spec => []Accounted
<1>1. Init => Accounted
  BY ProcFacts DEF Init, Accounted, NoLoss, AckJustified
<1>2. Typed /\ Typed' /\ Discipline /\ Accounted /\ [Next]_vars => Accounted'
  <2> SUFFICES ASSUME Typed, Typed', Discipline, AccountedBut({}), [Next]_vars
               PROVE  AccountedBut({})'
    BY AllAccounted DEF Accounted, AccountedBut, NoLoss, NoLossBut, AckJustified, JustifiedBut
  <2> QED
    BY LooseHolds, AccountedStep
<1>3. Spec => []Typed
  BY Typing DEF Typed
<1> QED
  BY <1>1, <1>2, <1>3, DisciplineHolds, PTL DEF Spec

\* Once its job has reached the broker a message is never lost, however many
\* crashes, connection losses and failed calls there are.
THEOREM NoLossHolds == Spec => []NoLoss
<1>1. Accounted => NoLoss
  BY DEF Accounted
<1> QED
  BY <1>1, AccountedHolds, PTL
-----------------------------------------------------------------------------
(* Statuses.                                                               *)

\* What has happened stays so.
Grow == handed \subseteq handed' /\ permFailed \subseteq permFailed'
        /\ deadLettered \subseteq deadLettered'

\* A step that writes at most one status, and only one that is earned.
LEMMA StatusStep ==
  ASSUME Typed, StatusTruthful, Grow, NEW id \in Id,
         NEW st \in {"deferred", "relayed", "failed", "bounced"},
         \/ status' = status
         \/ status' = [status EXCEPT ![id] = "queued"]
         \/ /\ RecordAttempt(id, st)
            /\ st = "relayed" => id \in handed
            /\ st = "failed" => id \in permFailed
            /\ st = "bounced" => id \in deadLettered
  PROVE  StatusTruthful'
  BY DEF StatusTruthful, Grow, Typed, TypeOK, RecordAttempt

LEMMA StatusKept ==
  ASSUME StatusTruthful, Grow, status' = status
  PROVE  StatusTruthful'
  BY DEF StatusTruthful, Grow

LEMMA StatusSession ==
  ASSUME Typed, Loose, StatusTruthful, NEW s \in Session, SessionStep(s)
  PROVE  StatusTruthful'
<1> USE DEF sessionUnchanged
<1>1. CASE DataPut(s) \/ DataOversize(s) \/ DataPublish(s)
  <2>1. Grow /\ status' = status
    BY <1>1 DEF DataPut, DataOversize, DataPublish, Grow
  <2> QED
    BY <2>1, StatusKept
<1>2. CASE DataInsert(s)
  <2>1. mem[s].id \in Id
    BY <1>2, ProcFacts DEF DataInsert, Typed, Shape
  <2>2. Grow
    BY <1>2 DEF DataInsert, Grow
  <2>3. status' = status \/ status' = [status EXCEPT ![mem[s].id] = "queued"]
    BY <1>2 DEF DataInsert, InsertMessage
  <2> QED
    BY <2>1, <2>2, <2>3, StatusStep
<1> QED
  BY <1>1, <1>2 DEF SessionStep

LEMMA StatusWorker ==
  ASSUME Typed, Loose, StatusTruthful, NEW w \in Worker, WorkerStep(w)
  PROVE  StatusTruthful'
<1> USE ProcFacts DEF pathUnchanged, workerUnchanged
<1>1. CASE \/ Materialize(w) \/ MaterializeFail(w) \/ RouteDefer(w) \/ RouteChain(w)
           \/ PaceExpired(w) \/ SendDelivered(w) \/ SendDefer(w) \/ SendFail(w)
           \/ ChainDone(w) \/ DeleteRelayed(w) \/ AckWork(w)
  <2>1. Grow /\ status' = status
    BY <1>1 DEF Materialize, MaterializeFail, RouteDefer, RouteChain, PaceExpired,
                SendDelivered, SendDefer, SendFail, ChainDone, DeleteRelayed, AckWork, Grow
  <2> QED
    BY <2>1, StatusKept
<1>2. CASE Escalate(w) \/ ToDLQ(w)
  <2>1. PICK q \in {"wait", "dlq"}, j \in Job : MoveTo(w, q, j)
    BY <1>2, MoveFacts DEF Typed
  <2>2. Grow /\ status' = status
    BY <2>1 DEF MoveTo, Grow
  <2> QED
    BY <2>2, StatusKept
<1>3. ASSUME pc[w] # "idle"
      PROVE  mem[w].id \in Id
  BY <1>3, JobFacts DEF Typed, Shape
<1>4. CASE RecordRelayed(w)
  <2>1. /\ Grow /\ RecordAttempt(mem[w].id, "relayed") /\ mem[w].id \in handed
        /\ pc[w] # "idle"
    BY <1>4 DEF RecordRelayed, Grow, Loose, Position
  <2> QED
    BY <1>3, <2>1, StatusStep
<1>5. CASE RecordDeferred(w)
  <2>1. Grow /\ RecordAttempt(mem[w].id, "deferred") /\ pc[w] # "idle"
    BY <1>5 DEF RecordDeferred, Grow
  <2> QED
    BY <1>3, <2>1, StatusStep
<1>6. CASE RecordFailed(w)
  <2>1. /\ Grow /\ RecordAttempt(mem[w].id, "failed") /\ mem[w].id \in permFailed
        /\ pc[w] # "idle"
    BY <1>6 DEF RecordFailed, Grow, Loose, Position
  <2> QED
    BY <1>3, <2>1, StatusStep
<1> QED
  BY <1>1, <1>2, <1>4, <1>5, <1>6 DEF WorkerStep

LEMMA StatusGen ==
  ASSUME Typed, Loose, StatusTruthful, NEW g \in Gen, GenStep(g)
  PROVE  StatusTruthful'
<1> USE ProcFacts DEF genUnchanged
<1>0. Grow
  BY DEF GenStep, RecordBounced, Feedback, DropNotice, PutNotice, InsertNotice,
         PublishNotice, DeleteBounced, AckDead, Grow
<1>1. CASE \/ Feedback(g) \/ DropNotice(g) \/ PutNotice(g) \/ PublishNotice(g)
           \/ DeleteBounced(g) \/ AckDead(g)
  <2>1. status' = status
    BY <1>1 DEF Feedback, DropNotice, PutNotice, PublishNotice, DeleteBounced, AckDead
  <2> QED
    BY <1>0, <2>1, StatusKept
<1>2. CASE RecordBounced(g)
  <2>1. /\ RecordAttempt(mem[g].id, "bounced") /\ mem[g].id \in deadLettered
    BY <1>2 DEF RecordBounced, Loose, Position
  <2>2. mem[g].id \in Id
    BY <1>2, JobFacts DEF RecordBounced, Typed, Shape
  <2> QED
    BY <1>0, <2>1, <2>2, StatusStep
<1>3. CASE InsertNotice(g)
  <2>1. dsn[g] \in Id
    BY <1>3 DEF InsertNotice, Typed, Shape
  <2>2. status' = status \/ status' = [status EXCEPT ![dsn[g]] = "queued"]
    BY <1>3 DEF InsertNotice, InsertMessage
  <2> QED
    BY <1>0, <2>1, <2>2, StatusStep
<1> QED
  BY <1>1, <1>2, <1>3 DEF GenStep

LEMMA StatusEnv ==
  ASSUME StatusTruthful, EnvStep
  PROVE  StatusTruthful'
<1>1. Grow /\ status' = status
  BY DEF EnvStep, ConnDrop, Reconnect, Crash, Deliver, WaitExpire, envUnchanged, pastVars, Grow
<1> QED
  BY <1>1, StatusKept

LEMMA StatusTruthfulStep == Typed /\ Loose /\ StatusTruthful /\ [Next]_vars => StatusTruthful'
<1>1. ASSUME StatusTruthful, UNCHANGED vars PROVE StatusTruthful'
  BY <1>1 DEF vars, implVars, pastVars, StatusTruthful
<1> QED
  BY <1>1, StatusSession, StatusWorker, StatusGen, StatusEnv DEF Next, EnvStep

\* The status column never claims more than what happened, although statuses are
\* overwritten in any order by handlers racing on copies of a job.
THEOREM StatusTruthfulHolds == Spec => []StatusTruthful
<1>1. Init => StatusTruthful
  BY DEF Init, StatusTruthful
<1>2. Typed /\ Discipline /\ StatusTruthful /\ [Next]_vars => StatusTruthful'
  BY StatusTruthfulStep, LooseHolds
<1>3. Spec => []Typed
  BY Typing DEF Typed
<1> QED
  BY <1>1, <1>2, <1>3, DisciplineHolds, PTL DEF Spec
-----------------------------------------------------------------------------
Earned == AttemptsEarned /\ DeadLetterEarned

\* Deferrals and refusals are never taken back.
Counted ==
    permFailed \subseteq permFailed' /\ \A m \in Id : ndefer[m] <= ndefer'[m]

\* A step of p, whatever it is: every job it puts into the broker is at most as
\* far as its message has been deferred, and so is the one it goes on handling.
LEMMA EarnedStep ==
  ASSUME Typed, Typed', Earned, Counted, NEW p \in Proc,
         \A r \in Proc : r # p => pc'[r] = pc[r] /\ mem'[r] = mem[r],
         \A c \in Slot : loc'[c] # "free" =>
            \/ loc[c] # "free" /\ job'[c] = job[c]
            \/ job'[c].attempt <= ndefer[job'[c].id],
         p \notin Gen /\ pc'[p] # "idle" => mem'[p].attempt <= ndefer'[mem'[p].id],
         p \in Worker /\ pc'[p] = "escalate" => mem'[p].attempt < ndefer'[mem'[p].id],
         \A m \in deadLettered' :
            m \in deadLettered \/ m \in permFailed \/ ndefer[m] = NTiers + 1
  PROVE  Earned'
<1> USE ProcFacts, JobFacts, BoundAssumption
<1>1. \A m \in Id : ndefer[m] \in 0..(NTiers + 1) /\ ndefer'[m] \in 0..(NTiers + 1)
  BY DEF Typed, TypeOK
<1>2. ASSUME NEW c \in Slot, loc'[c] # "free"
      PROVE  job'[c].attempt <= ndefer'[job'[c].id]
  <2>1. job'[c] \in Job
    BY <1>2 DEF Typed, Shape
  <2>2. job'[c].attempt <= ndefer[job'[c].id]
    BY <1>2 DEF Earned, AttemptsEarned
  <2> QED
    BY <1>1, <2>1, <2>2 DEF Counted
<1>3. ASSUME NEW w \in Session \cup Worker, pc'[w] # "idle"
      PROVE  /\ mem'[w].attempt <= ndefer'[mem'[w].id]
             /\ w \in Worker /\ pc'[w] = "escalate" => mem'[w].attempt < ndefer'[mem'[w].id]
  <2>1. CASE w = p
    BY <1>3, <2>1
  <2>2. CASE w # p
    <3>1. mem'[w] = mem[w] /\ pc'[w] = pc[w] /\ mem[w] \in Job
      BY <1>3, <2>2 DEF Typed, Shape
    <3>2. /\ mem[w].attempt <= ndefer[mem[w].id]
          /\ w \in Worker /\ pc[w] = "escalate" => mem[w].attempt < ndefer[mem[w].id]
      BY <1>3, <3>1 DEF Earned, AttemptsEarned
    <3> QED
      BY <1>1, <3>1, <3>2 DEF Counted
  <2> QED
    BY <2>1, <2>2
<1>4. ASSUME NEW m \in deadLettered'
      PROVE  m \in permFailed' \/ ndefer'[m] = NTiers + 1
  <2>1. m \in Id
    BY <1>4 DEF Typed, TypeOK
  <2>2. m \in permFailed \/ ndefer[m] = NTiers + 1
    BY <1>4 DEF Earned, DeadLetterEarned
  <2> QED
    BY <1>1, <2>1, <2>2 DEF Counted
<1> QED
  BY <1>2, <1>3, <1>4 DEF Earned, AttemptsEarned, DeadLetterEarned

\* The common case: no job enters the broker, nothing is dead-lettered, and the
\* handler keeps its job and is not about to escalate.
LEMMA EarnedLocal ==
  ASSUME Typed, Typed', Earned, Counted, NEW p \in Proc,
         \A r \in Proc : r # p => pc'[r] = pc[r] /\ mem'[r] = mem[r],
         \A c \in Slot : loc'[c] # "free" => loc[c] # "free" /\ job'[c] = job[c],
         UNCHANGED deadLettered,
         p \notin Gen /\ pc'[p] # "idle" =>
            pc[p] # "idle" /\ mem'[p] = mem[p] /\ pc'[p] # "escalate"
  PROVE  Earned'
<1> USE ProcFacts, JobFacts, BoundAssumption
<1>1. ASSUME p \notin Gen, pc'[p] # "idle"
      PROVE  mem'[p].attempt <= ndefer'[mem'[p].id]
  <2>1. mem[p] \in Job /\ mem'[p] = mem[p] /\ mem[p].attempt <= ndefer[mem[p].id]
    BY <1>1 DEF Typed, Shape, Earned, AttemptsEarned
  <2>2. \A m \in Id : ndefer[m] \in 0..(NTiers + 1) /\ ndefer'[m] \in 0..(NTiers + 1)
    BY DEF Typed, TypeOK
  <2> QED
    BY <2>1, <2>2 DEF Counted
<1> QED
  BY <1>1, EarnedStep

LEMMA EarnedSession ==
  ASSUME Typed, Typed', Earned, NEW s \in Session, SessionStep(s)
  PROVE  Earned'
<1> USE ProcFacts DEF sessionUnchanged, Goto
<1>1. Counted /\ UNCHANGED <<deadLettered, ndefer>>
  BY BoundAssumption DEF SessionStep, DataPut, DataOversize, DataInsert, DataPublish, Counted,
         Typed, TypeOK
<1>2. \A r \in Proc : r # s => pc'[r] = pc[r] /\ mem'[r] = mem[r]
  BY DEF SessionStep, DataPut, DataOversize, DataInsert, DataPublish, Typed, TypeOK
<1>3. CASE DataPut(s)
  <2>1. CASE UNCHANGED <<pc, mem>>
    BY <1>1, <1>2, <1>3, <2>1, EarnedLocal DEF DataPut
  <2>2. ASSUME NEW id \in Mail, NEW env \in Envelope,
               Goto(s, "stored"), mem' = [mem EXCEPT ![s] = NewJob(id, env)]
        PROVE  Earned'
    <3>1. mem'[s] = NewJob(id, env) /\ pc'[s] = "stored"
      BY <2>2 DEF Typed, TypeOK
    <3>2. mem'[s].id \in Id /\ mem'[s].attempt = 0
      BY <3>1, NewJobFacts, EnvelopeAssumption
    <3>3. ndefer'[mem'[s].id] \in Nat
      BY <3>2, BoundAssumption DEF Typed, TypeOK
    <3> QED
      BY <1>1, <1>2, <1>3, <3>1, <3>2, <3>3, EarnedStep DEF DataPut
  <2> QED
    BY <1>3, <2>1, <2>2 DEF DataPut
<1>4. CASE DataOversize(s) \/ DataInsert(s) \/ (DataPublish(s) /\ UNCHANGED <<loc, job>>)
  BY <1>1, <1>2, <1>4, EarnedLocal DEF DataOversize, DataInsert, DataPublish, Typed, TypeOK
<1>5. ASSUME NEW c \in Slot, Enqueue(c, "work", mem[s]), DataPublish(s)
      PROVE  Earned'
  <2>1. mem[s].attempt <= ndefer[mem[s].id] /\ pc'[s] = "idle"
    BY <1>5 DEF DataPublish, Earned, AttemptsEarned, Typed, TypeOK
  <2>2. \A e \in Slot : loc'[e] # "free" =>
            \/ loc[e] # "free" /\ job'[e] = job[e]
            \/ job'[e].attempt <= ndefer[job'[e].id]
    BY <1>5, <2>1 DEF Enqueue, Typed, TypeOK
  <2> QED
    BY <1>1, <1>2, <2>1, <2>2, EarnedStep
<1> QED
  BY <1>3, <1>4, <1>5 DEF SessionStep, DataPublish

LEMMA EarnedWorker ==
  ASSUME Typed, Typed', Discipline, Earned, NEW w \in Worker, WorkerStep(w)
  PROVE  Earned'
<1> USE ProcFacts, BoundAssumption
        DEF Goto, Nack, Idle, holding, pathUnchanged, workerUnchanged
<1>1. CASE \/ Materialize(w) \/ MaterializeFail(w) \/ RouteDefer(w) \/ RouteChain(w)
           \/ PaceExpired(w) \/ SendDelivered(w) \/ SendDefer(w) \/ SendFail(w)
           \/ ChainDone(w) \/ RecordRelayed(w) \/ DeleteRelayed(w) \/ RecordFailed(w)
  <2>1. Counted /\ UNCHANGED <<loc, job, deadLettered>>
    BY <1>1 DEF Materialize, MaterializeFail, RouteDefer, RouteChain, PaceExpired,
                SendDelivered, SendDefer, SendFail, ChainDone, RecordRelayed, DeleteRelayed,
                RecordFailed, Counted, Typed, TypeOK
  <2>2. /\ \A r \in Proc : r # w => pc'[r] = pc[r] /\ mem'[r] = mem[r]
        /\ pc'[w] # "idle" => pc[w] # "idle" /\ mem'[w] = mem[w] /\ pc'[w] # "escalate"
    BY <1>1 DEF Materialize, MaterializeFail, RouteDefer, RouteChain, PaceExpired,
                SendDelivered, SendDefer, SendFail, ChainDone, RecordRelayed, DeleteRelayed,
                RecordFailed, Typed, TypeOK
  <2> QED
    BY <2>1, <2>2, EarnedLocal
<1>2. CASE RecordDeferred(w)
  <2>1. /\ mem[w].id \in Id /\ mem[w].attempt \in Nat /\ mem[w].attempt <= NTiers
        /\ mem[w].attempt <= ndefer[mem[w].id]
    BY <1>2, JobFacts DEF RecordDeferred, Typed, Shape, Earned, AttemptsEarned
  <2>2. Counted /\ UNCHANGED <<loc, job, deadLettered>>
    BY <1>2, <2>1 DEF RecordDeferred, Counted, Typed, TypeOK
  <2>3. /\ \A r \in Proc : r # w => pc'[r] = pc[r] /\ mem'[r] = mem[r]
        /\ mem'[w] = mem[w]
    BY <1>2 DEF RecordDeferred, Typed, TypeOK
  <2>4. mem[w].attempt < ndefer'[mem[w].id]
    BY <1>2, <2>1 DEF RecordDeferred, Typed, TypeOK
  <2>5. mem[w].attempt <= ndefer'[mem[w].id]
    BY <2>1, <2>4 DEF Typed, TypeOK
  <2> QED
    BY <2>2, <2>3, <2>4, <2>5, EarnedStep
<1>3. CASE Escalate(w) \/ ToDLQ(w)
  <2>1. PICK q \in {"wait", "dlq"}, j \in Job :
          /\ MoveTo(w, q, j) /\ j.id = mem[w].id
          /\ \/ pc[w] = "escalate" /\ j.attempt = mem[w].attempt + 1
                /\ (q = "dlq" => j.attempt = NTiers + 1)
             \/ pc[w] = "deadletter" /\ j = mem[w] /\ q = "dlq"
    BY <1>3, MoveFacts DEF Typed
  <2>2. /\ mem[w] \in Job /\ mem[w].id \in Id /\ mem[w].attempt \in Nat
        /\ ndefer[mem[w].id] \in 0..(NTiers + 1)
    BY <2>1, JobFacts DEF Typed, Shape, TypeOK
  <2>3. j.attempt <= ndefer[j.id]
    BY <2>1, <2>2 DEF Earned, AttemptsEarned
  <2>4. q = "dlq" => j.id \in permFailed \/ ndefer[j.id] = NTiers + 1
    BY <2>1, <2>2, <2>3 DEF Discipline, Position
  <2>5. Counted /\ UNCHANGED ndefer
    BY <2>1 DEF MoveTo, Counted, Typed, TypeOK
  <2>6. /\ \A r \in Proc : r # w => pc'[r] = pc[r] /\ mem'[r] = mem[r]
        /\ pc'[w] # "idle" => pc[w] # "idle" /\ mem'[w] = mem[w] /\ pc'[w] # "escalate"
    BY <2>1 DEF MoveTo, Typed, TypeOK
  <2>7. \A e \in Slot : loc'[e] # "free" =>
            \/ loc[e] # "free" /\ job'[e] = job[e]
            \/ job'[e].attempt <= ndefer[job'[e].id]
    BY <2>1, <2>3 DEF MoveTo, Enqueue, Typed, TypeOK
  <2>8. \A m \in deadLettered' :
            m \in deadLettered \/ m \in permFailed \/ ndefer[m] = NTiers + 1
    BY <2>1, <2>4 DEF MoveTo
  <2>9. pc'[w] # "idle" => mem'[w].attempt <= ndefer'[mem'[w].id]
    BY <2>1, <2>5, <2>6 DEF Earned, AttemptsEarned
  <2> QED
    BY <2>5, <2>6, <2>7, <2>8, <2>9, EarnedStep
<1>4. CASE AckWork(w)
  <2>1. Counted /\ UNCHANGED deadLettered
    BY <1>4 DEF AckWork, Counted, Typed, TypeOK
  <2>2. /\ \A r \in Proc : r # w => pc'[r] = pc[r] /\ mem'[r] = mem[r]
        /\ pc'[w] = "idle"
        /\ \A c \in Slot : loc'[c] # "free" => loc[c] # "free" /\ job'[c] = job[c]
    BY <1>4 DEF AckWork, Ack, Typed, TypeOK
  <2> QED
    BY <2>1, <2>2, EarnedLocal
<1> QED
  BY <1>1, <1>2, <1>3, <1>4 DEF WorkerStep

LEMMA EarnedGen ==
  ASSUME Typed, Typed', Earned, NEW g \in Gen, GenStep(g)
  PROVE  Earned'
<1> USE ProcFacts, BoundAssumption DEF Goto, Nack, Idle, holding, genUnchanged
<1>1. Counted /\ UNCHANGED <<deadLettered, ndefer>>
  BY DEF GenStep, RecordBounced, Feedback, DropNotice, PutNotice, InsertNotice,
         PublishNotice, DeleteBounced, AckDead, Counted, Typed, TypeOK
<1>2. \A r \in Proc : r # g => pc'[r] = pc[r] /\ mem'[r] = mem[r]
  <2>1. CASE \/ RecordBounced(g) \/ Feedback(g) \/ DropNotice(g) \/ DeleteBounced(g)
             \/ AckDead(g)
    BY <2>1 DEF RecordBounced, Feedback, DropNotice, DeleteBounced, AckDead, Ack,
                Typed, TypeOK
  <2>2. CASE PutNotice(g) \/ InsertNotice(g) \/ PublishNotice(g)
    BY <2>2 DEF PutNotice, InsertNotice, PublishNotice, Typed, TypeOK
  <2> QED
    BY <2>1, <2>2 DEF GenStep
<1>3. CASE \/ RecordBounced(g) \/ Feedback(g) \/ DropNotice(g) \/ PutNotice(g)
           \/ InsertNotice(g) \/ DeleteBounced(g)
  <2>1. UNCHANGED <<loc, job>>
    BY <1>3 DEF RecordBounced, Feedback, DropNotice, PutNotice, InsertNotice, DeleteBounced
  <2> QED
    BY <1>1, <1>2, <2>1, EarnedLocal
<1>4. CASE PublishNotice(g)
  <2>1. DsnJob(dsn[g]).id \in Id /\ DsnJob(dsn[g]).attempt = 0
    BY <1>4, DsnJobFacts DEF PublishNotice, Typed, Shape
  <2>2. DsnJob(dsn[g]).attempt <= ndefer[DsnJob(dsn[g]).id]
    BY <2>1 DEF Typed, TypeOK
  <2>3. \A e \in Slot : loc'[e] # "free" =>
            \/ loc[e] # "free" /\ job'[e] = job[e]
            \/ job'[e].attempt <= ndefer[job'[e].id]
    BY <1>4, <2>2 DEF PublishNotice, Enqueue, Typed, TypeOK
  <2> QED
    BY <1>1, <1>2, <2>3, EarnedStep
<1>5. CASE AckDead(g)
  <2>1. \A c \in Slot : loc'[c] # "free" => loc[c] # "free" /\ job'[c] = job[c]
    BY <1>5 DEF AckDead, Ack, Typed, TypeOK
  <2> QED
    BY <1>1, <1>2, <2>1, EarnedLocal
<1> QED
  BY <1>3, <1>4, <1>5 DEF GenStep

LEMMA EarnedEnv ==
  ASSUME Typed, Typed', Earned, EnvStep
  PROVE  Earned'
<1> USE ProcFacts, BoundAssumption DEF Nack, Idle, envUnchanged, pastVars
<1>1. Counted /\ UNCHANGED <<deadLettered, ndefer, job>>
  BY DEF EnvStep, ConnDrop, Reconnect, Crash, Deliver, WaitExpire, Counted, Typed, TypeOK
<1>2. \A c \in Slot : loc'[c] # "free" => loc[c] # "free"
  BY DEF EnvStep, ConnDrop, Reconnect, Crash, Deliver, WaitExpire, Typed, TypeOK
<1>3. ASSUME NEW p \in Proc, ConnDrop(p) \/ Reconnect(p) \/ Crash(p)
      PROVE  Earned'
  <2>1. CASE UNCHANGED <<pc, mem>>
    BY <1>1, <1>2, <2>1 DEF Earned, AttemptsEarned, DeadLetterEarned, Counted
  <2>2. CASE Crash(p)
    BY <1>1, <1>2, <2>2, EarnedLocal DEF Crash, Typed, TypeOK
  <2> QED
    BY <1>3, <2>1, <2>2 DEF ConnDrop, Reconnect
<1>4. ASSUME NEW p \in Worker \cup Gen, NEW c \in Slot, Deliver(p, c)
      PROVE  Earned'
  <2>1. mem'[p] = job[c] /\ pc'[p] = "got" /\ loc[c] # "free"
    BY <1>4 DEF Deliver, Typed, TypeOK
  <2>2. mem'[p].attempt <= ndefer'[mem'[p].id]
    BY <1>1, <2>1 DEF Earned, AttemptsEarned
  <2>3. \A r \in Proc : r # p => pc'[r] = pc[r] /\ mem'[r] = mem[r]
    BY <1>4 DEF Deliver, Typed, TypeOK
  <2> QED
    BY <1>1, <1>2, <2>1, <2>2, <2>3, EarnedStep
<1>5. ASSUME NEW c \in Slot, WaitExpire(c)
      PROVE  Earned'
  BY <1>1, <1>2, <1>5 DEF WaitExpire, Earned, AttemptsEarned, DeadLetterEarned, Counted
<1> QED
  BY <1>3, <1>4, <1>5 DEF EnvStep

LEMMA EarnedHolds == Spec => []Earned
<1>1. Init => Earned
  BY ProcFacts DEF Init, Earned, AttemptsEarned, DeadLetterEarned
<1>2. Typed /\ Typed' /\ Discipline /\ Earned /\ [Next]_vars => Earned'
  <2>1. ASSUME Earned, UNCHANGED vars PROVE Earned'
    BY <2>1 DEF vars, implVars, pastVars, Earned, AttemptsEarned, DeadLetterEarned
  <2> QED
    BY <2>1, EarnedSession, EarnedWorker, EarnedGen, EarnedEnv DEF Next, EnvStep
<1>3. Spec => []Typed
  BY Typing DEF Typed
<1> QED
  BY <1>1, <1>2, <1>3, DisciplineHolds, PTL DEF Spec

\* No message is given up early: every dead letter was refused by a whole chain or
\* has been deferred once more than there are wait tiers, for any schedule and
\* however its redelivered copies race.
THEOREM DeadLetterEarnedHolds == Spec => []DeadLetterEarned
<1>1. Earned => DeadLetterEarned
  BY DEF Earned
<1> QED
  BY <1>1, EarnedHolds, PTL

-----------------------------------------------------------------------------
(* Bodies and rows.                                                        *)

Supplied == BodyReady /\ JobHasBody

\* Stocked, read off the state after the step.
StockedNext(m) ==
    status'[m] # "none" /\ (m \in body' \/ m \in handed' \/ m \in deadLettered')

\* What happened to a message and that it has a row are never taken back.
Kept ==
    /\ handed \subseteq handed' /\ deadLettered \subseteq deadLettered'
    /\ \A m \in Id : status[m] # "none" => status'[m] # "none"

\* A body p removes is its own, not yet published, or that of a message which no
\* worker needs any more.
Removes(p) ==
    \A m \in body : m \notin body' =>
       \/ m \in enqueued /\ (m \in handed' \/ m \in deadLettered')
       \/ p \in Session /\ pc[p] # "idle" /\ m = mem[p].id

\* Nothing changes for the other processes.
OthersAlone(p) ==
    /\ \A r \in Proc : r # p => pc'[r] = pc[r] /\ mem'[r] = mem[r]
    /\ \A r \in Gen : r # p => dsn'[r] = dsn[r]

\* A step that puts no job into the broker but ones with row and body, and leaves
\* the message in its own hands with row and body.
LEMMA SuppliedStep ==
  ASSUME Typed, Discipline, Supplied, Kept, NEW p \in Proc, Removes(p), OthersAlone(p),
         p \in Session /\ pc'[p] # "idle" => mem'[p].id \in body',
         p \in Session /\ pc'[p] = "inserted" => status'[mem'[p].id] # "none",
         p \in Gen /\ pc'[p] \in {"stored", "inserted"} => dsn'[p] \in body',
         p \in Gen /\ pc'[p] = "inserted" => status'[dsn'[p]] # "none",
         \A c \in Slot : loc'[c] \in {"work", "wait"} =>
            \/ loc[c] \in {"work", "wait"} /\ job'[c] = job[c]
            \/ StockedNext(job'[c].id),
         p \in Worker /\ pc'[p] # "idle" =>
            (pc[p] # "idle" /\ mem'[p] = mem[p]) \/ StockedNext(mem'[p].id)
  PROVE  Supplied'
<1> USE ProcFacts, JobFacts
<1>1. ASSUME NEW s \in Session, pc'[s] # "idle"
      PROVE  /\ mem'[s].id \in body'
             /\ pc'[s] = "inserted" => status'[mem'[s].id] # "none"
  <2>1. CASE s = p
    BY <1>1, <2>1
  <2>2. CASE s # p
    <3>1. /\ pc'[s] = pc[s] /\ mem'[s] = mem[s] /\ mem[s].id \in Mail
      BY <1>1, <2>2 DEF OthersAlone, Typed, Shape
    <3>2. /\ mem[s].id \in body /\ mem[s].id \notin enqueued
          /\ pc[s] = "inserted" => status[mem[s].id] # "none"
          /\ p \in Session /\ pc[p] # "idle" => mem[s].id # mem[p].id
      BY <1>1, <2>2, <3>1 DEF Supplied, BodyReady, Discipline, Fresh, Unpublished
    <3> QED
      BY <3>1, <3>2 DEF Removes, Kept
  <2> QED
    BY <2>1, <2>2
<1>2. ASSUME NEW g \in Gen, pc'[g] \in {"stored", "inserted"}
      PROVE  /\ dsn'[g] \in body'
             /\ pc'[g] = "inserted" => status'[dsn'[g]] # "none"
  <2>1. CASE g = p
    BY <1>2, <2>1
  <2>2. CASE g # p
    <3>1. /\ pc'[g] = pc[g] /\ dsn'[g] = dsn[g] /\ dsn[g] \in Dsn
      BY <1>2, <2>2 DEF OthersAlone, Typed, Shape
    <3>2. /\ dsn[g] \in body /\ dsn[g] \notin enqueued
          /\ pc[g] = "inserted" => status[dsn[g]] # "none"
          /\ p \in Session /\ pc[p] # "idle" => dsn[g] # mem[p].id
      BY <1>2, <2>2, <3>1 DEF Supplied, BodyReady, Discipline, Fresh, Unpublished, Typed, Shape
    <3> QED
      BY <3>1, <3>2 DEF Removes, Kept
  <2> QED
    BY <2>1, <2>2
<1>3. ASSUME NEW m \in enqueued, Stocked(m)
      PROVE  StockedNext(m)
  <2>1. m \in Id
    BY DEF Typed, TypeOK
  <2>2. p \in Session /\ pc[p] # "idle" => m # mem[p].id
    BY DEF Discipline, Fresh, Unpublished
  <2> QED
    BY <1>3, <2>1, <2>2 DEF Removes, Kept, Stocked, StockedNext
<1>4. ASSUME NEW c \in Slot, loc'[c] \in {"work", "wait"}
      PROVE  StockedNext(job'[c].id)
  BY <1>3, <1>4 DEF Supplied, JobHasBody, Discipline, Fresh
<1>5. ASSUME NEW w \in Worker, pc'[w] # "idle"
      PROVE  StockedNext(mem'[w].id)
  BY <1>3, <1>5 DEF Supplied, BodyReady, Discipline, Fresh, OthersAlone
<1> QED
  BY <1>1, <1>2, <1>4, <1>5 DEF Supplied, BodyReady, JobHasBody, Stocked, StockedNext

LEMMA SuppliedSession ==
  ASSUME Typed, Discipline, Supplied, NEW s \in Session, SessionStep(s)
  PROVE  Supplied'
<1> USE ProcFacts DEF sessionUnchanged, Goto
<1>1. pc[s] # "idle" => mem[s].id \in Id
  BY JobFacts DEF Typed, Shape
<1>2. Kept
  BY <1>1 DEF SessionStep, DataPut, DataOversize, DataInsert, DataPublish, InsertMessage,
              Kept, Typed, TypeOK
<1>3. OthersAlone(s)
  BY DEF SessionStep, DataPut, DataOversize, DataInsert, DataPublish, OthersAlone,
         Typed, TypeOK
<1>4. Removes(s)
  BY DEF SessionStep, DataPut, DataOversize, DataInsert, DataPublish, DeleteBody, Removes
<1>5. CASE DataPut(s)
  <2>1. UNCHANGED loc /\ UNCHANGED job
    BY <1>5 DEF DataPut
  <2>2. pc'[s] # "idle" => mem'[s].id \in body' /\ pc'[s] # "inserted"
    BY <1>5 DEF DataPut, NewJob, Typed, TypeOK
  <2> QED
    BY <1>2, <1>3, <1>4, <2>1, <2>2, SuppliedStep
<1>6. CASE DataOversize(s)
  <2>1. UNCHANGED loc /\ UNCHANGED job /\ pc'[s] = "idle"
    BY <1>6 DEF DataOversize, Typed, TypeOK
  <2> QED
    BY <1>2, <1>3, <1>4, <2>1, SuppliedStep
<1>7. CASE DataInsert(s)
  <2>1. UNCHANGED loc /\ UNCHANGED job /\ UNCHANGED body
    BY <1>7 DEF DataInsert
  <2>2. pc'[s] # "idle" => /\ mem'[s] = mem[s] /\ mem[s].id \in body
                           /\ status'[mem[s].id] # "none"
    BY <1>1, <1>7 DEF DataInsert, InsertMessage, Typed, TypeOK, Supplied, BodyReady
  <2> QED
    BY <1>2, <1>3, <1>4, <2>1, <2>2, SuppliedStep
<1>8. CASE DataPublish(s)
  <2>1. /\ pc'[s] = "idle" /\ UNCHANGED <<body, status>>
        /\ mem[s].id \in body /\ status[mem[s].id] # "none"
    BY <1>8 DEF DataPublish, Typed, TypeOK, Supplied, BodyReady
  <2>2. \A c \in Slot : loc'[c] \in {"work", "wait"} =>
            \/ loc[c] \in {"work", "wait"} /\ job'[c] = job[c]
            \/ StockedNext(job'[c].id)
    BY <1>8, <2>1 DEF DataPublish, Enqueue, StockedNext, Typed, TypeOK
  <2> QED
    BY <1>2, <1>3, <1>4, <2>1, <2>2, SuppliedStep
<1> QED
  BY <1>5, <1>6, <1>7, <1>8 DEF SessionStep

LEMMA SuppliedWorker ==
  ASSUME Typed, Discipline, Supplied, NEW w \in Worker, WorkerStep(w)
  PROVE  Supplied'
<1> USE ProcFacts DEF Goto, Nack, Idle, holding, pathUnchanged, workerUnchanged
<1>1. CASE \/ Materialize(w) \/ MaterializeFail(w) \/ RouteDefer(w) \/ RouteChain(w)
           \/ PaceExpired(w) \/ SendDelivered(w) \/ SendDefer(w) \/ SendFail(w)
           \/ ChainDone(w) \/ RecordRelayed(w) \/ DeleteRelayed(w) \/ RecordDeferred(w)
           \/ RecordFailed(w)
  <2>1. UNCHANGED loc /\ UNCHANGED job
    BY <1>1 DEF Materialize, MaterializeFail, RouteDefer, RouteChain, PaceExpired,
                SendDelivered, SendDefer, SendFail, ChainDone, RecordRelayed, DeleteRelayed,
                RecordDeferred, RecordFailed
  <2>2. OthersAlone(w)
    BY <1>1 DEF Materialize, MaterializeFail, RouteDefer, RouteChain, PaceExpired,
                SendDelivered, SendDefer, SendFail, ChainDone, RecordRelayed, DeleteRelayed,
                RecordDeferred, RecordFailed, OthersAlone, Typed, TypeOK
  <2>3. Kept
    BY <1>1 DEF Materialize, MaterializeFail, RouteDefer, RouteChain, PaceExpired,
                SendDelivered, SendDefer, SendFail, ChainDone, RecordRelayed, DeleteRelayed,
                RecordDeferred, RecordFailed, RecordAttempt, Kept, Typed, TypeOK
  <2>4. Removes(w)
    BY <1>1 DEF Materialize, MaterializeFail, RouteDefer, RouteChain, PaceExpired,
                SendDelivered, SendDefer, SendFail, ChainDone, RecordRelayed, DeleteRelayed,
                RecordDeferred, RecordFailed, DeleteBody, Removes, Discipline, Fresh, Position
  <2>5. pc'[w] # "idle" => pc[w] # "idle" /\ mem'[w] = mem[w]
    BY <1>1 DEF Materialize, MaterializeFail, RouteDefer, RouteChain, PaceExpired,
                SendDelivered, SendDefer, SendFail, ChainDone, RecordRelayed, DeleteRelayed,
                RecordDeferred, RecordFailed, Typed, TypeOK
  <2> QED
    BY <2>1, <2>2, <2>3, <2>4, <2>5, SuppliedStep
<1>2. CASE Escalate(w) \/ ToDLQ(w)
  <2>1. PICK q \in {"wait", "dlq"}, j \in Job :
          /\ MoveTo(w, q, j) /\ j.id = mem[w].id
          /\ pc[w] = "escalate" \/ pc[w] = "deadletter"
    BY <1>2, MoveFacts DEF Typed
  <2>2. OthersAlone(w)
    BY <2>1 DEF MoveTo, OthersAlone, Typed, TypeOK
  <2>3. Kept /\ Removes(w) /\ UNCHANGED <<body, status, handed>>
    BY <2>1 DEF MoveTo, Kept, Removes
  <2>4. StockedNext(j.id)
    BY <2>1, <2>3 DEF Supplied, BodyReady, Stocked, StockedNext, Kept
  <2>5. \A c \in Slot : loc'[c] \in {"work", "wait"} =>
            \/ loc[c] \in {"work", "wait"} /\ job'[c] = job[c]
            \/ StockedNext(job'[c].id)
    BY <2>1, <2>4 DEF MoveTo, Enqueue, Typed, TypeOK
  <2>6. pc'[w] # "idle" => pc[w] # "idle" /\ mem'[w] = mem[w]
    BY <2>1 DEF MoveTo, Typed, TypeOK
  <2> QED
    BY <2>2, <2>3, <2>5, <2>6, SuppliedStep
<1>3. CASE AckWork(w)
  <2>1. Kept /\ Removes(w) /\ OthersAlone(w) /\ pc'[w] = "idle"
    BY <1>3 DEF AckWork, Ack, Kept, Removes, OthersAlone, Typed, TypeOK
  <2>2. \A c \in Slot : loc'[c] \in {"work", "wait"} =>
            loc[c] \in {"work", "wait"} /\ job'[c] = job[c]
    BY <1>3 DEF AckWork, Ack, Typed, TypeOK
  <2> QED
    BY <2>1, <2>2, SuppliedStep
<1> QED
  BY <1>1, <1>2, <1>3 DEF WorkerStep

LEMMA SuppliedGen ==
  ASSUME Typed, Discipline, Supplied, NEW g \in Gen, GenStep(g)
  PROVE  Supplied'
<1> USE ProcFacts DEF Goto, Nack, Idle, holding, genUnchanged
<1>1. /\ mem[g].id \in Id /\ mem[g].id \in enqueued /\ mem[g].id \in deadLettered
  BY JobFacts DEF GenStep, RecordBounced, Feedback, DropNotice, PutNotice, InsertNotice,
         PublishNotice, DeleteBounced, AckDead, Typed, Shape, Discipline, Fresh, Position
<1>2. Kept
  <2>1. handed' = handed /\ deadLettered' = deadLettered
    BY DEF GenStep, RecordBounced, Feedback, DropNotice, PutNotice, InsertNotice,
           PublishNotice, DeleteBounced, AckDead
  <2>2. \/ status' = status \/ RecordAttempt(mem[g].id, "bounced")
        \/ status' = [status EXCEPT ![dsn[g]] = "queued"]
    BY DEF GenStep, RecordBounced, Feedback, DropNotice, PutNotice, InsertNotice,
           PublishNotice, DeleteBounced, AckDead, InsertMessage
  <2> QED
    BY <1>1, <2>1, <2>2 DEF Kept, RecordAttempt, Typed, TypeOK
<1>3. Removes(g)
  BY <1>1, <1>2 DEF GenStep, RecordBounced, Feedback, DropNotice, PutNotice, InsertNotice,
         PublishNotice, DeleteBounced, AckDead, DeleteBody, Removes, Kept
<1>4. OthersAlone(g)
  <2>1. CASE \/ RecordBounced(g) \/ Feedback(g) \/ DropNotice(g) \/ DeleteBounced(g)
             \/ AckDead(g)
    BY <2>1 DEF RecordBounced, Feedback, DropNotice, DeleteBounced, AckDead, Ack,
                OthersAlone, Typed, TypeOK
  <2>2. CASE PutNotice(g) \/ InsertNotice(g) \/ PublishNotice(g)
    BY <2>2 DEF PutNotice, InsertNotice, PublishNotice, OthersAlone, Typed, TypeOK
  <2> QED
    BY <2>1, <2>2 DEF GenStep
<1>5. CASE RecordBounced(g) \/ Feedback(g) \/ DropNotice(g) \/ DeleteBounced(g)
  <2>1. UNCHANGED loc /\ UNCHANGED job /\ pc'[g] \notin {"stored", "inserted"}
    BY <1>5 DEF RecordBounced, Feedback, DropNotice, DeleteBounced, Typed, TypeOK
  <2> QED
    BY <1>2, <1>3, <1>4, <2>1, SuppliedStep
<1>6. CASE PutNotice(g)
  <2>1. UNCHANGED loc /\ UNCHANGED job
    BY <1>6 DEF PutNotice
  <2>2. pc'[g] \in {"stored", "inserted"} => pc'[g] = "stored" /\ dsn'[g] \in body'
    BY <1>6 DEF PutNotice, Typed, TypeOK
  <2> QED
    BY <1>2, <1>3, <1>4, <2>1, <2>2, SuppliedStep
<1>7. CASE InsertNotice(g)
  <2>1. /\ UNCHANGED loc /\ UNCHANGED job /\ UNCHANGED <<body, dsn>>
        /\ dsn[g] \in body /\ dsn[g] \in Id
    BY <1>7 DEF InsertNotice, Supplied, BodyReady, Typed, Shape
  <2>2. pc'[g] \in {"stored", "inserted"} => status'[dsn[g]] # "none"
    BY <1>7, <2>1 DEF InsertNotice, InsertMessage, Typed, TypeOK
  <2> QED
    BY <1>2, <1>3, <1>4, <2>1, <2>2, SuppliedStep
<1>8. CASE PublishNotice(g)
  <2>1. /\ dsn[g] \in body /\ status[dsn[g]] # "none" /\ UNCHANGED <<body, status>>
        /\ pc'[g] \notin {"stored", "inserted"} /\ DsnJob(dsn[g]).id = dsn[g]
    BY <1>8, DsnJobFacts DEF PublishNotice, Supplied, BodyReady, Typed, TypeOK, Shape
  <2>2. \A c \in Slot : loc'[c] \in {"work", "wait"} =>
            \/ loc[c] \in {"work", "wait"} /\ job'[c] = job[c]
            \/ StockedNext(job'[c].id)
    BY <1>8, <2>1 DEF PublishNotice, Enqueue, StockedNext, Typed, TypeOK
  <2> QED
    BY <1>2, <1>3, <1>4, <2>1, <2>2, SuppliedStep
<1>9. CASE AckDead(g)
  <2>1. pc'[g] = "idle" /\ \A c \in Slot : loc'[c] \in {"work", "wait"} =>
            loc[c] \in {"work", "wait"} /\ job'[c] = job[c]
    BY <1>9 DEF AckDead, Ack, Typed, TypeOK
  <2> QED
    BY <1>2, <1>3, <1>4, <2>1, SuppliedStep
<1> QED
  BY <1>5, <1>6, <1>7, <1>8, <1>9 DEF GenStep

LEMMA SuppliedEnv ==
  ASSUME Typed, Discipline, Supplied, EnvStep
  PROVE  Supplied'
<1> USE ProcFacts DEF Nack, Idle, envUnchanged, pastVars
<1>1. /\ UNCHANGED <<body, status, handed, deadLettered, job, dsn>>
  BY DEF EnvStep, ConnDrop, Reconnect, Crash, Deliver, WaitExpire
<1>2. ASSUME NEW p \in Proc PROVE Kept /\ Removes(p)
  BY <1>1 DEF Kept, Removes
<1>3. ASSUME NEW p \in Proc, Crash(p)
      PROVE  Supplied'
  <2>1. OthersAlone(p) /\ pc'[p] = "idle" /\ UNCHANGED loc
    BY <1>1, <1>3 DEF Crash, OthersAlone, Typed, TypeOK
  <2> QED
    BY <1>1, <1>2, <2>1, SuppliedStep
<1>4. ASSUME NEW p \in Worker \cup Gen, NEW c \in Slot, Deliver(p, c)
      PROVE  Supplied'
  <2>1. OthersAlone(p) /\ pc'[p] = "got" /\ mem'[p] = job[c] /\ UNCHANGED loc
    BY <1>1, <1>4 DEF Deliver, OthersAlone, Typed, TypeOK
  <2>2. p \in Worker => StockedNext(mem'[p].id)
    BY <1>1, <1>4, <2>1 DEF Deliver, Supplied, JobHasBody, Stocked, StockedNext
  <2>3. p \in Proc /\ p \notin Session
    OBVIOUS
  <2> QED
    BY <1>1, <1>2, <2>1, <2>2, <2>3, SuppliedStep
<1>5. CASE /\ UNCHANGED <<pc, mem>>
           /\ \A c \in Slot : loc'[c] \in {"work", "wait"} <=> loc[c] \in {"work", "wait"}
  BY <1>1, <1>5 DEF Supplied, BodyReady, JobHasBody, Stocked
<1>6. ASSUME NEW c \in Slot, WaitExpire(c)
      PROVE  Supplied'
  BY <1>5, <1>6 DEF WaitExpire, Typed, TypeOK
<1>7. ASSUME NEW p \in Proc, ConnDrop(p) \/ Reconnect(p)
      PROVE  Supplied'
  BY <1>5, <1>7 DEF ConnDrop, Reconnect
<1> QED
  BY <1>3, <1>4, <1>6, <1>7 DEF EnvStep

LEMMA SuppliedHolds == Spec => []Supplied
<1>1. Init => Supplied
  BY ProcFacts DEF Init, Supplied, BodyReady, JobHasBody
<1>2. Typed /\ Discipline /\ Supplied /\ [Next]_vars => Supplied'
  <2>1. ASSUME Supplied, UNCHANGED vars PROVE Supplied'
    BY <2>1 DEF vars, implVars, pastVars, Supplied, BodyReady, JobHasBody, Stocked
  <2> QED
    BY <2>1, SuppliedSession, SuppliedWorker, SuppliedGen, SuppliedEnv DEF Next, EnvStep
<1>3. Spec => []Typed
  BY Typing DEF Typed
<1> QED
  BY <1>1, <1>2, <1>3, DisciplineHolds, PTL DEF Spec

\* A job a worker may be given always has its row, and its body as long as a
\* worker needs it, although bodies are deleted before the job is acked and its
\* copies live on.
THEOREM JobHasBodyHolds == Spec => []JobHasBody
<1>1. Supplied => JobHasBody
  BY DEF Supplied
<1> QED
  BY <1>1, SuppliedHolds, PTL

-----------------------------------------------------------------------------
(* What a job says of its message; bounces.                                *)

Truthful == Candid /\ Past /\ NeverBounceABounce

\* What a generator may be at with its job.
Composes(g) ==
    /\ pc'[g] = "inserted" => mailFrom[dsn'[g]] = "null"
    /\ pc'[g] = "drop" => ~Wanted(mem'[g])
    /\ pc'[g] \in {"compose", "stored", "inserted"} => Wanted(mem'[g])

\* A step that records nothing new of any message.
LEMMA TruthfulStep ==
  ASSUME Typed, Typed', Discipline, Truthful, NEW p \in Proc, OthersAlone(p),
         UNCHANGED <<mailFrom, quiet>>, used \subseteq used', enqueued \subseteq enqueued',
         p \in Session => pc'[p] = "idle" \/ (pc'[p] = pc[p] /\ mem'[p] = mem[p]),
         p \in Worker \cup Gen /\ pc'[p] # "idle" =>
            (pc[p] # "idle" /\ mem'[p] = mem[p]) \/ Tells(mem'[p]),
         p \in Gen => Composes(p),
         \A c \in Slot : loc'[c] # "free" =>
            (loc[c] # "free" /\ job'[c] = job[c]) \/ Tells(job'[c]),
         handed' \cup silenced' \cup suppr' \subseteq enqueued',
         \A d \in Dsn : \/ orig'[d] = orig[d]
                        \/ /\ orig'[d] \in enqueued /\ orig'[d] \notin quiet
                           /\ mailFrom[orig'[d]] = "addr",
         \A m \in suppr' : m \in suppr \/ mailFrom[m] = "addr"
  PROVE  Truthful'
<1> USE ProcFacts DEF Truthful, Candid
<1>1. /\ \A j : Tells(j) => Tells(j)'
      /\ (quiet \subseteq Mail \cap used)' /\ \A d \in Dsn : mailFrom'[d] # "addr"
      /\ \A id \in Id \ used' : mailFrom'[id] = None
  BY DEF Tells
<1>2. \A c \in Slot : loc'[c] # "free" => mailFrom'[job'[c].id] = job'[c].from
                                         /\ (job'[c].never <=> job'[c].id \in quiet')
  BY <1>1 DEF Tells
<1>3. \A r \in Worker \cup Gen : pc'[r] # "idle" =>
         mailFrom'[mem'[r].id] = mem'[r].from /\ (mem'[r].never <=> mem'[r].id \in quiet')
  BY DEF Tells, OthersAlone
<1>4. \A s \in Session : pc'[s] # "idle" =>
          /\ mem'[s].never <=> mem'[s].id \in quiet'
          /\ mailFrom'[mem'[s].id] = IF pc'[s] = "inserted" THEN mem'[s].from ELSE None
  BY DEF OthersAlone
<1>5. \A g \in Gen :
          /\ pc'[g] = "inserted" => mailFrom'[dsn'[g]] = "null"
          /\ pc'[g] = "drop" => ~Wanted(mem[g])'
          /\ pc'[g] \in {"compose", "stored", "inserted"} => Wanted(mem[g])'
  BY DEF OthersAlone, Composes, Wanted
<1>6. Past'
  BY DEF Past
<1>7. NeverBounceABounce'
  <2>1. ASSUME NEW d \in Dsn, orig'[d] # None
        PROVE  orig'[d] \in Mail /\ mailFrom'[orig'[d]] = "addr" /\ orig'[d] \notin quiet'
    <3>1. mailFrom[orig'[d]] = "addr" /\ orig'[d] \notin quiet /\ orig'[d] \in Id
      BY <2>1 DEF NeverBounceABounce, Typed, TypeOK
    <3> QED
      BY <3>1 DEF Id
  <2> QED
    BY <2>1 DEF NeverBounceABounce
<1> QED
  BY <1>1, <1>2, <1>3, <1>4, <1>5, <1>6, <1>7 DEF Tells

\* defer_'s Attempt++ changes nothing else, and a notification travels under the null
\* return-path.
LEMMA NextTells ==
  ASSUME NEW j \in Job, Tells(j), j.attempt <= NTiers
  PROVE  LET k == [j EXCEPT !.attempt = @ + 1] IN k \in Job /\ Tells(k)
  BY BoundAssumption DEF Tells, Job

LEMMA DsnTells ==
  ASSUME NEW d \in Dsn, mailFrom[d] = "null", d \notin quiet
  PROVE  Tells(DsnJob(d))
  BY DEF Tells, DsnJob, NewJob

\* What is recorded of a message nobody knows yet disturbs no other.
LEMMA TruthfulSession ==
  ASSUME Typed, Typed', Discipline, Truthful, NEW s \in Session, SessionStep(s)
  PROVE  Truthful'
<1> USE ProcFacts DEF sessionUnchanged, Goto
<1>0. OthersAlone(s)
  BY DEF SessionStep, DataPut, DataOversize, DataInsert, DataPublish, OthersAlone,
         Typed, TypeOK
<1>1. CASE DataPut(s)
  <2>1. PICK id \in Mail \ used, env \in Envelope :
          /\ used' = used \cup {id}
          /\ quiet' = IF env.never THEN quiet \cup {id} ELSE quiet
          /\ \/ pc'[s] = "stored" /\ mem'[s] = NewJob(id, env)
             \/ pc'[s] = pc[s] /\ mem'[s] = mem[s]
    <3>1. s \in DOMAIN pc /\ s \in DOMAIN mem
      BY DEF Typed, TypeOK
    <3> QED
      BY <1>1, <3>1 DEF DataPut
  <2>2. /\ pc[s] = "idle" /\ id \notin enqueued /\ id \notin quiet /\ mailFrom[id] = None
        /\ UNCHANGED <<mailFrom, loc, job, dsn, orig, suppr, handed, silenced, enqueued>>
        /\ NewJob(id, env).never = env.never /\ NewJob(id, env).id = id
    BY <1>1, <2>1 DEF DataPut, Discipline, Fresh, Truthful, Candid, NewJob
  <2>3. \A i \in enqueued : i \in quiet' <=> i \in quiet
    BY <2>1, <2>2
  <2>4. \A c \in Slot : loc'[c] # "free" => Tells(job[c])'
    BY <2>2, <2>3 DEF Tells, Truthful, Candid, Discipline, Fresh
  <2>5. \A r \in Worker \cup Gen : pc'[r] # "idle" => Tells(mem[r])'
    BY <1>0, <2>2, <2>3 DEF Tells, Truthful, Candid, Discipline, Fresh, OthersAlone
  <2>6. ASSUME NEW t \in Session, pc'[t] # "idle"
        PROVE  /\ mem'[t].never <=> mem'[t].id \in quiet'
               /\ mailFrom'[mem'[t].id] = IF pc'[t] = "inserted" THEN mem'[t].from ELSE None
    <3>1. CASE t = s
      BY <2>1, <2>2, <2>6, <3>1
    <3>2. CASE t # s
      <4>1. pc'[t] = pc[t] /\ mem'[t] = mem[t] /\ mem[t].id \in used
        BY <1>0, <2>6, <3>2 DEF OthersAlone, Discipline, Fresh, Unpublished
      <4> QED
        BY <2>1, <2>2, <2>6, <4>1 DEF Truthful, Candid
    <3> QED
      BY <3>1, <3>2
  <2>7. \A g \in Gen :
          /\ pc'[g] = "inserted" => mailFrom'[dsn'[g]] = "null"
          /\ pc'[g] = "drop" => ~Wanted(mem[g])'
          /\ pc'[g] \in {"compose", "stored", "inserted"} => Wanted(mem[g])'
    BY <1>0, <2>2 DEF OthersAlone, Wanted, Truthful, Candid
  <2>8. Past' /\ NeverBounceABounce'
    BY <2>2, <2>3 DEF Truthful, Past, NeverBounceABounce
  <2> QED
    BY <2>1, <2>2, <2>4, <2>5, <2>6, <2>7, <2>8 DEF Truthful, Candid
<1>2. CASE DataOversize(s)
  <2>1. /\ UNCHANGED <<mailFrom, quiet, used, enqueued, loc, job, dsn, orig, suppr, handed,
                       silenced>>
        /\ pc'[s] = "idle"
    BY <1>2 DEF DataOversize, Typed, TypeOK
  <2> QED
    BY <1>0, <2>1, TruthfulStep DEF Truthful, Past
<1>3. CASE DataInsert(s)
  <2>1. /\ UNCHANGED <<quiet, used, enqueued, loc, job, dsn, orig, suppr, handed, silenced>>
        /\ pc[s] = "stored" /\ mem[s].id \in Mail /\ mem[s].id \in used /\ mem[s].id \notin enqueued
        /\ mem[s].from \in From
    BY <1>3, JobFacts DEF DataInsert, Typed, Shape, Discipline, Fresh, Unpublished
  <2>2. /\ \A i \in Id : i # mem[s].id => mailFrom'[i] = mailFrom[i]
        /\ \/ pc'[s] = "inserted" /\ mem'[s] = mem[s] /\ mailFrom'[mem[s].id] = mem[s].from
           \/ pc'[s] = "idle"
    BY <1>3, <2>1 DEF DataInsert, InsertMessage, Typed, TypeOK
  <2>3. \A i \in enqueued : i \in Id /\ mailFrom'[i] = mailFrom[i]
    BY <2>1, <2>2 DEF Typed, TypeOK
  <2>4. \A c \in Slot : loc'[c] # "free" => Tells(job[c])'
    BY <2>1, <2>3 DEF Tells, Truthful, Candid, Discipline, Fresh
  <2>5. \A r \in Worker \cup Gen : pc'[r] # "idle" => Tells(mem[r])'
    BY <1>0, <2>1, <2>3 DEF Tells, Truthful, Candid, Discipline, Fresh, OthersAlone
  <2>6. ASSUME NEW t \in Session, pc'[t] # "idle"
        PROVE  /\ mem'[t].never <=> mem'[t].id \in quiet'
               /\ mailFrom'[mem'[t].id] = IF pc'[t] = "inserted" THEN mem'[t].from ELSE None
    <3>1. CASE t = s
      BY <2>1, <2>2, <2>6, <3>1 DEF Truthful, Candid
    <3>2. CASE t # s
      <4>1. /\ pc'[t] = pc[t] /\ mem'[t] = mem[t] /\ mem[t].id \in Id
            /\ mem[t].id # mem[s].id
        BY <1>0, <2>1, <2>6, <3>2, JobFacts
           DEF OthersAlone, Discipline, Fresh, Typed, Shape
      <4> QED
        BY <2>1, <2>2, <2>6, <4>1 DEF Truthful, Candid
    <3> QED
      BY <3>1, <3>2
  <2>7. \A g \in Gen :
          /\ pc'[g] = "inserted" => mailFrom'[dsn'[g]] = "null"
          /\ pc'[g] = "drop" => ~Wanted(mem[g])'
          /\ pc'[g] \in {"compose", "stored", "inserted"} => Wanted(mem[g])'
    BY <1>0, <2>1, <2>2 DEF OthersAlone, Wanted, Truthful, Candid, Typed, Shape
  <2>8. Past' /\ NeverBounceABounce'
    BY <2>1, <2>3 DEF Truthful, Past, NeverBounceABounce
  <2>9. /\ \A d \in Dsn : mailFrom'[d] # "addr"
        /\ \A id \in Id \ used' : mailFrom'[id] = None
    BY <2>1, <2>2 DEF Truthful, Candid
  <2> QED
    BY <2>1, <2>4, <2>5, <2>6, <2>7, <2>8, <2>9 DEF Truthful, Candid
<1>4. CASE DataPublish(s)
  <2>1. /\ UNCHANGED <<mailFrom, quiet, used, dsn, orig, suppr, handed, silenced>>
        /\ pc'[s] = "idle" /\ enqueued \subseteq enqueued' /\ Tells(mem[s])
    BY <1>4 DEF DataPublish, Typed, TypeOK, Truthful, Candid, Tells
  <2>2. \A c \in Slot : loc'[c] # "free" =>
            (loc[c] # "free" /\ job'[c] = job[c]) \/ job'[c] = mem[s]
    BY <1>4 DEF DataPublish, Enqueue, Typed, TypeOK
  <2> QED
    BY <1>0, <2>1, <2>2, TruthfulStep DEF Truthful, Past
<1> QED
  BY <1>1, <1>2, <1>3, <1>4 DEF SessionStep

LEMMA TruthfulWorker ==
  ASSUME Typed, Typed', Discipline, Truthful, NEW w \in Worker, WorkerStep(w)
  PROVE  Truthful'
<1> USE ProcFacts DEF Goto, Nack, Idle, holding, pathUnchanged, workerUnchanged
<1>0. /\ UNCHANGED <<mailFrom, quiet, used, enqueued, dsn, orig, suppr, silenced>>
      /\ pc[w] # "idle" /\ mem[w].id \in enqueued /\ Tells(mem[w])
      /\ silenced \cup suppr \subseteq enqueued
  BY DEF WorkerStep, Materialize, MaterializeFail, RouteDefer, RouteChain, PaceExpired,
         SendDelivered, SendDefer, SendFail, ChainDone, RecordRelayed, DeleteRelayed,
         RecordDeferred, RecordFailed, Escalate, ToDLQ, MoveTo, AckWork,
         Discipline, Fresh, Truthful, Candid, Past
<1>1. CASE \/ Materialize(w) \/ MaterializeFail(w) \/ RouteDefer(w) \/ RouteChain(w)
           \/ PaceExpired(w) \/ SendDelivered(w) \/ SendDefer(w) \/ SendFail(w)
           \/ ChainDone(w) \/ RecordRelayed(w) \/ DeleteRelayed(w) \/ RecordDeferred(w)
           \/ RecordFailed(w)
  <2>1. UNCHANGED loc /\ UNCHANGED job
    BY <1>1 DEF Materialize, MaterializeFail, RouteDefer, RouteChain, PaceExpired,
                SendDelivered, SendDefer, SendFail, ChainDone, RecordRelayed, DeleteRelayed,
                RecordDeferred, RecordFailed
  <2>2. OthersAlone(w) /\ (pc'[w] # "idle" => mem'[w] = mem[w])
    BY <1>0, <1>1 DEF Materialize, MaterializeFail, RouteDefer, RouteChain, PaceExpired,
                SendDelivered, SendDefer, SendFail, ChainDone, RecordRelayed, DeleteRelayed,
                RecordDeferred, RecordFailed, OthersAlone, Typed, TypeOK
  <2>3. handed' \subseteq enqueued
    BY <1>0, <1>1 DEF Materialize, MaterializeFail, RouteDefer, RouteChain, PaceExpired,
                SendDelivered, SendDefer, SendFail, ChainDone, RecordRelayed, DeleteRelayed,
                RecordDeferred, RecordFailed, Truthful, Past
  <2> QED
    BY <1>0, <2>1, <2>2, <2>3, TruthfulStep
<1>2. CASE Escalate(w) \/ ToDLQ(w)
  <2>1. PICK q \in {"wait", "dlq"}, j \in Job : MoveTo(w, q, j) /\ Tells(j)
    <3>1. CASE Escalate(w)
      BY <1>0, <1>2, <3>1, NextTells DEF Escalate, Typed, Shape
    <3>2. CASE ToDLQ(w)
      BY <1>0, <1>2, <3>2 DEF ToDLQ, Typed, Shape
    <3> QED
      BY <1>2, <3>1, <3>2
  <2>2. /\ OthersAlone(w) /\ UNCHANGED handed
        /\ pc'[w] # "idle" => mem'[w] = mem[w]
    BY <1>0, <2>1 DEF MoveTo, OthersAlone, Typed, TypeOK
  <2>3. \A c \in Slot : loc'[c] # "free" =>
            (loc[c] # "free" /\ job'[c] = job[c]) \/ job'[c] = j
    BY <2>1 DEF MoveTo, Enqueue, Typed, TypeOK
  <2> QED
    BY <1>0, <2>1, <2>2, <2>3, TruthfulStep DEF Truthful, Past
<1>3. CASE AckWork(w)
  <2>1. /\ OthersAlone(w) /\ UNCHANGED handed /\ pc'[w] = "idle"
        /\ \A c \in Slot : loc'[c] # "free" => loc[c] # "free" /\ job'[c] = job[c]
    BY <1>0, <1>3, AckFacts DEF AckWork, OthersAlone, Typed
  <2> QED
    BY <1>0, <2>1, TruthfulStep DEF Truthful, Past
<1> QED
  BY <1>1, <1>2, <1>3 DEF WorkerStep

LEMMA TruthfulGen ==
  ASSUME Typed, Typed', Discipline, Truthful, NEW g \in Gen, GenStep(g)
  PROVE  Truthful'
<1> USE ProcFacts DEF Goto, Nack, Idle, holding, genUnchanged
<1>0. /\ pc[g] # "idle" /\ mem[g].id \in enqueued /\ Tells(mem[g]) /\ mem[g] \in Job
      /\ handed \cup silenced \cup suppr \subseteq enqueued /\ UNCHANGED <<quiet, handed>>
  BY DEF GenStep, RecordBounced, Feedback, DropNotice, PutNotice, InsertNotice,
         PublishNotice, DeleteBounced, AckDead, Typed, Shape, Discipline, Fresh,
         Truthful, Candid, Past
<1>1. OthersAlone(g)
  <2>1. CASE RecordBounced(g) \/ Feedback(g) \/ DropNotice(g) \/ DeleteBounced(g)
    BY <2>1 DEF RecordBounced, Feedback, DropNotice, DeleteBounced, OthersAlone,
                Typed, TypeOK
  <2>2. CASE PutNotice(g) \/ InsertNotice(g) \/ PublishNotice(g)
    BY <2>2 DEF PutNotice, InsertNotice, PublishNotice, OthersAlone, Typed, TypeOK
  <2>3. CASE AckDead(g)
    BY <2>3, AckFacts DEF AckDead, OthersAlone, Typed, TypeOK
  <2> QED
    BY <2>1, <2>2, <2>3 DEF GenStep
<1>2. CASE RecordBounced(g) \/ DropNotice(g) \/ DeleteBounced(g)
  <2>1. /\ UNCHANGED <<mailFrom, used, enqueued, loc, job, dsn, orig, suppr, mem>>
        /\ silenced' \subseteq enqueued /\ pc'[g] \in {"feedback", "ack"}
    BY <1>0, <1>2 DEF RecordBounced, DropNotice, DeleteBounced, Typed, TypeOK
  <2> QED
    BY <1>0, <1>1, <2>1, TruthfulStep DEF Composes
<1>3. CASE Feedback(g)
  <2>1. /\ UNCHANGED <<mailFrom, used, enqueued, loc, job, dsn, orig, silenced, mem>>
        /\ pc'[g] = IF Wanted(mem[g]) THEN "compose" ELSE "drop"
        /\ \A m \in suppr' : m \in suppr \/ (m = mem[g].id /\ mem[g].from = "addr")
    BY <1>0, <1>3, JobFacts DEF Feedback, Wanted, From, Typed, TypeOK
  <2> QED
    BY <1>0, <1>1, <2>1, TruthfulStep DEF Composes, Tells
<1>4. CASE PutNotice(g)
  <2>1. /\ UNCHANGED <<mailFrom, enqueued, loc, job, suppr, silenced>>
        /\ used \subseteq used' /\ pc[g] = "compose"
        /\ pc'[g] # "idle" => pc'[g] = "stored" /\ mem'[g] = mem[g]
        /\ \A d \in Dsn : orig'[d] = orig[d] \/ orig'[d] = mem[g].id
    BY <1>0, <1>4 DEF PutNotice, Typed, TypeOK
  <2>2. Wanted(mem[g]) /\ mem[g].id \notin quiet /\ mailFrom[mem[g].id] = "addr"
    BY <1>0, <2>1 DEF Truthful, Candid, Tells, Wanted
  <2> QED
    BY <1>0, <1>1, <2>1, <2>2, TruthfulStep DEF Composes
<1>5. CASE InsertNotice(g)
  <2>1. /\ UNCHANGED <<used, enqueued, loc, job, dsn, orig, suppr, silenced>>
        /\ pc[g] = "stored" /\ dsn[g] \in Dsn /\ dsn[g] \in used /\ dsn[g] \notin enqueued
    BY <1>5 DEF InsertNotice, Typed, Shape, Discipline, Fresh, Unpublished
  <2>2. /\ \A i \in Id : i # dsn[g] => mailFrom'[i] = mailFrom[i]
        /\ mailFrom'[dsn[g]] \in {mailFrom[dsn[g]], "null"}
        /\ \/ pc'[g] = "inserted" /\ mem'[g] = mem[g] /\ mailFrom'[dsn[g]] = "null"
           \/ pc'[g] = "idle"
    BY <1>5, <2>1 DEF InsertNotice, InsertMessage, Typed, TypeOK
  <2>3. \A i \in enqueued : i \in Id /\ mailFrom'[i] = mailFrom[i]
    BY <2>1, <2>2 DEF Typed, TypeOK
  <2>4. \A c \in Slot : loc'[c] # "free" => Tells(job[c])'
    BY <1>0, <2>1, <2>3 DEF Tells, Truthful, Candid, Discipline, Fresh
  <2>5. \A r \in Worker \cup Gen : pc'[r] # "idle" => Tells(mem[r])'
    <3>1. \A r \in Worker \cup Gen : pc'[r] # "idle" => pc[r] # "idle" /\ mem'[r] = mem[r]
      BY <1>0, <1>1, <2>2 DEF OthersAlone
    <3> QED
      BY <1>0, <2>3, <3>1 DEF Tells, Truthful, Candid, Discipline, Fresh
  <2>6. ASSUME NEW t \in Session, pc'[t] # "idle"
        PROVE  /\ mem'[t].never <=> mem'[t].id \in quiet'
               /\ mailFrom'[mem'[t].id] = IF pc'[t] = "inserted" THEN mem'[t].from ELSE None
    <3>1. pc'[t] = pc[t] /\ mem'[t] = mem[t] /\ mem[t].id \in Mail
      BY <1>1, <2>6 DEF OthersAlone, Typed, Shape
    <3> QED
      BY <1>0, <2>1, <2>2, <2>6, <3>1 DEF Truthful, Candid
  <2>7. \A h \in Gen :
          /\ pc'[h] = "inserted" => mailFrom'[dsn'[h]] = "null"
          /\ pc'[h] = "drop" => ~Wanted(mem[h])'
          /\ pc'[h] \in {"compose", "stored", "inserted"} => Wanted(mem[h])'
    <3>1. ASSUME NEW h \in Gen, h # g
          PROVE  /\ pc'[h] = pc[h] /\ mem'[h] = mem[h] /\ dsn'[h] = dsn[h]
                 /\ pc[h] = "inserted" => dsn[h] \in Id /\ dsn[h] # dsn[g]
      BY <1>1, <2>1, <3>1 DEF OthersAlone, Typed, Shape, Discipline, Fresh
    <3> QED
      BY <2>1, <2>2, <3>1 DEF Wanted, Truthful, Candid
  <2>8. Past' /\ NeverBounceABounce'
    BY <1>0, <2>1, <2>3 DEF Truthful, Past, NeverBounceABounce
  <2>9. /\ \A d \in Dsn : mailFrom'[d] # "addr"
        /\ \A id \in Id \ used' : mailFrom'[id] = None
    BY <2>1, <2>2 DEF Truthful, Candid
  <2> QED
    BY <1>0, <2>1, <2>4, <2>5, <2>6, <2>7, <2>8, <2>9 DEF Truthful, Candid
<1>6. CASE PublishNotice(g)
  <2>1. /\ UNCHANGED <<mailFrom, used, dsn, orig, suppr, silenced>>
        /\ enqueued \subseteq enqueued' /\ pc'[g] \in {"gc", "idle"}
        /\ pc'[g] # "idle" => mem'[g] = mem[g]
    BY <1>6 DEF PublishNotice, Typed, TypeOK
  <2>2. Tells(DsnJob(dsn[g]))
    BY <1>6, DsnTells DEF PublishNotice, Truthful, Candid, Typed, Shape, Tells
  <2>3. \A c \in Slot : loc'[c] # "free" =>
            (loc[c] # "free" /\ job'[c] = job[c]) \/ job'[c] = DsnJob(dsn[g])
    BY <1>6 DEF PublishNotice, Enqueue, Typed, TypeOK
  <2> QED
    BY <1>0, <1>1, <2>1, <2>2, <2>3, TruthfulStep DEF Composes
<1>7. CASE AckDead(g)
  <2>1. /\ UNCHANGED <<mailFrom, used, enqueued, orig, suppr, silenced>> /\ pc'[g] = "idle"
        /\ \A c \in Slot : loc'[c] # "free" => loc[c] # "free" /\ job'[c] = job[c]
    BY <1>7, AckFacts DEF AckDead, Typed
  <2> QED
    BY <1>0, <1>1, <2>1, TruthfulStep DEF Composes
<1> QED
  BY <1>2, <1>3, <1>4, <1>5, <1>6, <1>7 DEF GenStep

LEMMA TruthfulEnv ==
  ASSUME Typed, Typed', Discipline, Truthful, EnvStep
  PROVE  Truthful'
<1> USE ProcFacts DEF Nack, Idle, envUnchanged, pastVars
<1>1. /\ UNCHANGED <<mailFrom, quiet, used, enqueued, job, dsn, orig, suppr, handed, silenced>>
      /\ handed \cup silenced \cup suppr \subseteq enqueued
  BY DEF EnvStep, ConnDrop, Reconnect, Crash, Deliver, WaitExpire, Truthful, Past
<1>2. ASSUME NEW p \in Proc, Crash(p)
      PROVE  Truthful'
  <2>1. OthersAlone(p) /\ pc'[p] = "idle" /\ UNCHANGED loc
    BY <1>1, <1>2 DEF Crash, OthersAlone, Typed, TypeOK
  <2> QED
    BY <1>1, <2>1, TruthfulStep DEF Composes
<1>3. ASSUME NEW p \in Worker \cup Gen, NEW c \in Slot, Deliver(p, c)
      PROVE  Truthful'
  <2>1. OthersAlone(p) /\ pc'[p] = "got" /\ mem'[p] = job[c] /\ UNCHANGED loc
    BY <1>1, <1>3 DEF Deliver, OthersAlone, Typed, TypeOK
  <2>2. Tells(mem'[p]) /\ p \in Proc /\ p \notin Session
    BY <1>3, <2>1 DEF Deliver, Truthful, Candid
  <2> QED
    BY <1>1, <2>1, <2>2, TruthfulStep DEF Composes
<1>4. CASE /\ UNCHANGED <<pc, mem>>
           /\ \A c \in Slot : loc'[c] # "free" <=> loc[c] # "free"
  BY <1>1, <1>4 DEF Truthful, Candid, Past, NeverBounceABounce, Tells, Wanted
<1>5. ASSUME NEW c \in Slot, WaitExpire(c)
      PROVE  Truthful'
  BY <1>4, <1>5 DEF WaitExpire, Typed, TypeOK
<1>6. ASSUME NEW p \in Proc, ConnDrop(p) \/ Reconnect(p)
      PROVE  Truthful'
  BY <1>4, <1>6 DEF ConnDrop, Reconnect
<1> QED
  BY <1>2, <1>3, <1>5, <1>6 DEF EnvStep

LEMMA TruthfulHolds == Spec => []Truthful
<1>1. Init => Truthful
  <2>1. Init => Candid
    BY ProcFacts, DistinctAssumption DEF Init, Candid, From
  <2>2. Init => Past /\ NeverBounceABounce
    BY DEF Init, Past, NeverBounceABounce
  <2> QED
    BY <2>1, <2>2 DEF Truthful
<1>2. Typed /\ Typed' /\ Discipline /\ Truthful /\ [Next]_vars => Truthful'
  <2>1. ASSUME Truthful, UNCHANGED vars PROVE Truthful'
    BY <2>1 DEF vars, implVars, pastVars, Truthful, Candid, Past, NeverBounceABounce,
                Tells, Wanted
  <2> QED
    BY <2>1, TruthfulSession, TruthfulWorker, TruthfulGen, TruthfulEnv DEF Next, EnvStep
<1>3. Spec => []Typed
  BY Typing DEF Typed
<1> QED
  BY <1>1, <1>2, <1>3, DisciplineHolds, PTL DEF Spec

\* No notification is ever about a notification, a message with the null return-path or
\* one submitted with NOTIFY=NEVER, and no such recipient is suppressed, although
\* gen.handle judges by the job, which has travelled the queues, and not by the row.
THEOREM NeverBounceABounceHolds == Spec => []NeverBounceABounce
<1>1. Truthful => NeverBounceABounce
  BY DEF Truthful
<1> QED
  BY <1>1, TruthfulHolds, PTL

\* The inductive invariant as a whole: the discipline of delivery tags and ids, the
\* justification of every ack handle and gen.handle send, and what jobs, rows, bodies and
\* counters say of one message.
THEOREM InductiveInvariantHolds == Spec => []IInv
<1>1. Typed /\ Discipline /\ Accounted /\ Earned /\ Supplied /\ Truthful => IInv
  BY DEF Typed, Discipline, Accounted, Earned, Supplied, Truthful, IInv
<1>2. Spec => []Typed
  BY Typing DEF Typed
<1> QED
  BY <1>1, <1>2, DisciplineHolds, AccountedHolds, EarnedHolds, SuppliedHolds, TruthfulHolds,
     PTL

-----------------------------------------------------------------------------
(* The refinement of DeliveryContract.                                     *)

Sound == Typed /\ Discipline /\ Accounted /\ Truthful

\* What the contract knows of a message, in terms of MailFlow.
LEMMA KnownFacts ==
  ASSUME Sound, NEW m \in Id
  PROVE  /\ Contract!Settled(m) <=> Settled(m)
         /\ Contract!Known(m) <=> InBroker(m) \/ Settled(m)
         /\ m \in enqueued => Contract!Known(m)
         /\ m \notin enqueued => ~Contract!Known(m)
<1>1. Contract!Told(m) <=> Notified(m)
  BY DEF Contract!Told, Notified, Bounced
<1>2. Contract!Settled(m) <=> Settled(m)
  BY <1>1 DEF Contract!Settled, Settled
<1>3. Contract!Known(m) <=> InBroker(m) \/ Settled(m)
  BY <1>2 DEF Contract!Known, Carried
<1>4. m \in enqueued => InBroker(m) \/ Settled(m)
  BY DEF Sound, Accounted, NoLoss
<1>5. m \notin enqueued => ~InBroker(m) /\ ~Settled(m)
  BY DistinctAssumption DEF Sound, Discipline, Fresh, Truthful, Past, InBroker, Settled, Notified
<1> QED
  BY <1>2, <1>3, <1>4, <1>5

\* What is carried after the broker is left alone, or is given a job.
LEMMA CarriedFacts ==
  ASSUME Typed
  PROVE  /\ UNCHANGED loc /\ UNCHANGED job => Carried' = Carried
         /\ \A c \in Slot, q \in {"work", "wait", "dlq"}, j \in Job :
               Enqueue(c, q, j) => Carried' = Carried \cup {j.id}
<1>1. UNCHANGED loc /\ UNCHANGED job => Carried' = Carried
  BY DEF Carried, InBroker
<1>2. ASSUME NEW c \in Slot, NEW q \in {"work", "wait", "dlq"}, NEW j \in Job, Enqueue(c, q, j)
      PROVE  Carried' = Carried \cup {j.id}
  <2>1. /\ loc[c] = "free" /\ loc'[c] # "free" /\ job'[c] = j /\ j.id \in Id
        /\ \A e \in Slot : e # c => loc'[e] = loc[e] /\ job'[e] = job[e]
    BY <1>2, JobFacts DEF Enqueue, Typed, TypeOK
  <2>2. \A m : InBroker(m)' <=> InBroker(m) \/ m = j.id
    BY <2>1 DEF InBroker
  <2> QED
    BY <2>1, <2>2 DEF Carried
<1> QED
  BY <1>1, <1>2

\* Nothing seen from outside.
Invisible == UNCHANGED <<accepted, Carried, handed, deadLettered, Unwanted, Bounced, silenced>>

LEMMA InvisibleStutters == Invisible => UNCHANGED Contract!vars
  BY DEF Invisible, Contract!vars

ContractStep == Contract!Next \/ UNCHANGED Contract!vars

\* A step about one message.
LEMMA MessageStep ==
  ASSUME NEW m \in Id,
         \/ Contract!Begin(m) \/ Contract!Accept(m) \/ Contract!Deliver(m)
         \/ Contract!GiveUp(m) \/ Contract!CarryAgain(m) \/ Contract!Withhold(m)
         \/ Contract!Forget(m)
  PROVE  ContractStep
  BY DEF ContractStep, Contract!Next, Contract!Message, Id

\* A new message says at once whether a bounce would be wanted.
LEMMA BeginStep ==
  ASSUME Sound, NEW m \in Id, m \notin enqueued,
         UNCHANGED <<accepted, Carried, handed, deadLettered, Bounced, silenced>>,
         Unwanted' \in {Unwanted, Unwanted \cup {m}}
  PROVE  ContractStep
<1>1. CASE Unwanted' = Unwanted
  BY <1>1, InvisibleStutters DEF ContractStep, Invisible
<1>2. CASE Unwanted' = Unwanted \cup {m}
  BY <1>2, KnownFacts, MessageStep DEF Contract!Begin
<1> QED
  BY <1>1, <1>2

\* An ack forgets a message only if it is settled: the copy that justifies any other ack
\* is still carried.
LEMMA AckForgets ==
  ASSUME Sound, NEW p \in Worker \cup Gen, pc[p] = "ack", Ack(p),
         UNCHANGED <<accepted, handed, deadLettered, Unwanted, Bounced, silenced>>
  PROVE  ContractStep
<1> USE ProcFacts, JobFacts, BoundAssumption
<1>1. CASE ~live[p]
  BY <1>1, CarriedFacts, InvisibleStutters DEF Ack, ContractStep, Invisible, Sound
<1>2. CASE live[p]
  <2>1. /\ cur[p] \in Slot /\ loc[cur[p]] # "free" /\ job[cur[p]] = mem[p]
        /\ mem[p].id \in Id /\ loc'[cur[p]] = "free"
        /\ \A e \in Slot : e # cur[p] => loc'[e] = loc[e] /\ job'[e] = job[e]
    BY <1>2 DEF Ack, Sound, Discipline, Held, Typed, TypeOK, Shape
  <2>2. PICK m \in Id : m = mem[p].id
    BY <2>1
  <2>3. Carried' \in {Carried, Carried \ {m}}
    BY <2>1, <2>2 DEF Carried, InBroker
  <2>4. CASE Carried' = Carried
    BY <2>4, InvisibleStutters DEF ContractStep, Invisible
  <2>5. CASE Carried' = Carried \ {m} /\ m \in Carried
    <3>1. \A e \in Slot : e # cur[p] => ~(loc[e] # "free" /\ job[e].id = m)
      BY <2>1, <2>5 DEF Carried, InBroker
    <3>2. Rank(cur[p]) \in Nat
      BY <2>1 DEF Rank, Sound, Typed, Shape
    <3>3. ~FurtherCopy(p)
      BY <2>2, <3>1, <3>2 DEF FurtherCopy
    <3>4. Settled(m)
      BY <1>2, <2>2, <3>3 DEF Sound, Accounted, AckJustified
    <3> QED
      BY <2>5, <3>4, KnownFacts, MessageStep DEF Contract!Forget
  <2> QED
    BY <2>3, <2>4, <2>5
<1> QED
  BY <1>1, <1>2 DEF Sound, Typed, TypeOK

LEMMA ContractSession ==
  ASSUME Sound, NEW s \in Session, SessionStep(s)
  PROVE  ContractStep
<1> USE ProcFacts DEF sessionUnchanged, Goto
<1>1. CASE DataPut(s)
  <2>1. PICK id \in Mail \ used, env \in Envelope :
           quiet' = IF env.never THEN quiet \cup {id} ELSE quiet
    BY <1>1 DEF DataPut
  <2>2. id \in Id /\ id \notin enqueued
    BY DEF Sound, Discipline, Fresh
  <2>3. UNCHANGED <<accepted, handed, deadLettered, silenced>> /\ Carried' = Carried
    BY <1>1, CarriedFacts DEF DataPut, Sound
  <2>4. Bounced' = Bounced /\ Unwanted' \in {Unwanted, Unwanted \cup {id}}
    BY <1>1, <2>1 DEF DataPut, Bounced, Unwanted
  <2> QED
    BY <2>2, <2>3, <2>4, BeginStep
<1>2. CASE DataOversize(s)
  <2>1. UNCHANGED <<accepted, handed, deadLettered, silenced>> /\ Carried' = Carried
    BY <1>2, CarriedFacts DEF DataOversize, Sound
  <2>2. Bounced' = Bounced /\ Unwanted' = Unwanted
    BY <1>2 DEF DataOversize, Bounced, Unwanted
  <2> QED
    BY <2>1, <2>2, InvisibleStutters DEF ContractStep, Invisible
<1>3. CASE DataInsert(s)
  <2>1. /\ mem[s].id \in Id /\ mem[s].id \notin enqueued /\ mailFrom[mem[s].id] = None
        /\ None # "null"
    BY <1>3, DistinctAssumption
       DEF DataInsert, Sound, Discipline, Fresh, Unpublished, Truthful, Candid,
           Typed, Shape, From
  <2>2. UNCHANGED <<accepted, handed, deadLettered, silenced>> /\ Carried' = Carried
    BY <1>3, CarriedFacts DEF DataInsert, Sound
  <2>3. /\ quiet' = quiet
        /\ \A i \in Id : i # mem[s].id => mailFrom'[i] = mailFrom[i]
    BY <1>3 DEF DataInsert, InsertMessage, Sound, Typed, TypeOK
  <2>4. Bounced' = Bounced /\ Unwanted' \in {Unwanted, Unwanted \cup {mem[s].id}}
    BY <1>3, <2>1, <2>3 DEF DataInsert, Bounced, Unwanted
  <2> QED
    BY <2>1, <2>2, <2>4, BeginStep
<1>4. CASE DataPublish(s)
  <2>1. /\ mem[s] \in Job /\ mem[s].id \in Mail /\ mem[s].id \in Id /\ mem[s].id \notin Dsn
        /\ mem[s].id \notin enqueued
    BY <1>4 DEF DataPublish, Sound, Discipline, Fresh, Unpublished, Typed, Shape
  <2>2. UNCHANGED <<handed, deadLettered, silenced>> /\ Bounced' = Bounced /\ Unwanted' = Unwanted
    BY <1>4, <2>1 DEF DataPublish, Bounced, Unwanted
  <2>3. /\ Carried' = Carried \/ Carried' = Carried \cup {mem[s].id}
        /\ accepted' = accepted \/ accepted' = accepted \cup {mem[s].id}
    BY <1>4, <2>1, CarriedFacts DEF DataPublish, Sound
  <2>4. CASE accepted' = accepted /\ Carried' = Carried
    BY <2>2, <2>4, InvisibleStutters DEF ContractStep, Invisible
  <2>5. CASE accepted' # accepted \/ Carried' # Carried
    <3>1. Contract!Accept(mem[s].id)
      BY <2>1, <2>2, <2>3, <2>5, KnownFacts DEF Contract!Accept
    <3> QED
      BY <2>1, <3>1, MessageStep
  <2> QED
    BY <2>4, <2>5
<1> QED
  BY <1>1, <1>2, <1>3, <1>4 DEF SessionStep

LEMMA ContractWorker ==
  ASSUME Sound, NEW w \in Worker, WorkerStep(w)
  PROVE  ContractStep
<1> USE ProcFacts DEF Goto, Nack, Idle, holding, pathUnchanged, workerUnchanged
<1>0. /\ mem[w].id \in enqueued /\ mem[w].id \in Id
      /\ UNCHANGED <<accepted, silenced, quiet, mailFrom, orig, enqueued>>
  BY JobFacts DEF WorkerStep, Materialize, MaterializeFail, RouteDefer, RouteChain, PaceExpired,
         SendDelivered, SendDefer, SendFail, ChainDone, RecordRelayed, DeleteRelayed,
         RecordDeferred, RecordFailed, Escalate, ToDLQ, MoveTo, AckWork,
         Sound, Discipline, Fresh, Typed, Shape
<1>1. Bounced' = Bounced /\ Unwanted' = Unwanted
  BY <1>0 DEF Bounced, Unwanted
<1>2. Contract!Known(mem[w].id)
  BY <1>0, KnownFacts
<1>3. CASE \/ Materialize(w) \/ MaterializeFail(w) \/ RouteDefer(w) \/ RouteChain(w)
           \/ PaceExpired(w) \/ SendDelivered(w) \/ SendDefer(w) \/ SendFail(w)
           \/ ChainDone(w) \/ RecordRelayed(w) \/ DeleteRelayed(w) \/ RecordDeferred(w)
           \/ RecordFailed(w)
  <2>1. UNCHANGED loc /\ UNCHANGED job
    BY <1>3 DEF Materialize, MaterializeFail, RouteDefer, RouteChain, PaceExpired,
                SendDelivered, SendDefer, SendFail, ChainDone, RecordRelayed, DeleteRelayed,
                RecordDeferred, RecordFailed
  <2>2. /\ deadLettered' = deadLettered
        /\ handed' = handed \/ handed' = handed \cup {mem[w].id}
    BY <1>3 DEF Materialize, MaterializeFail, RouteDefer, RouteChain, PaceExpired,
                SendDelivered, SendDefer, SendFail, ChainDone, RecordRelayed, DeleteRelayed,
                RecordDeferred, RecordFailed
  <2>3. Carried' = Carried
    BY <2>1, CarriedFacts DEF Sound
  <2>4. CASE handed' = handed
    BY <1>0, <1>1, <2>2, <2>3, <2>4, InvisibleStutters DEF ContractStep, Invisible
  <2>5. CASE handed' = handed \cup {mem[w].id}
    BY <1>0, <1>1, <1>2, <2>2, <2>3, <2>5, MessageStep DEF Contract!Deliver
  <2> QED
    BY <2>2, <2>4, <2>5
<1>4. CASE Escalate(w) \/ ToDLQ(w)
  <2>1. PICK q \in {"wait", "dlq"}, j \in Job : MoveTo(w, q, j) /\ j.id = mem[w].id
    BY <1>4, MoveFacts DEF Sound, Typed
  <2>2. handed' = handed
    BY <2>1 DEF MoveTo
  <2>3. CASE ~up[w]
    <3>1. deadLettered' = deadLettered /\ UNCHANGED loc /\ UNCHANGED job
      BY <2>1, <2>3 DEF MoveTo
    <3> QED
      BY <1>0, <1>1, <2>2, <3>1, CarriedFacts, InvisibleStutters
         DEF ContractStep, Invisible, Sound
  <2>4. CASE up[w]
    <3>1. /\ \E c \in Slot : Enqueue(c, q, j)
          /\ deadLettered' = IF q = "dlq" THEN deadLettered \cup {j.id} ELSE deadLettered
      BY <2>1, <2>4 DEF MoveTo
    <3>2. Carried' = Carried \cup {mem[w].id}
      BY <2>1, <3>1, CarriedFacts DEF Sound
    <3>3. CASE q = "dlq"
      BY <1>0, <1>1, <1>2, <2>1, <2>2, <3>1, <3>2, <3>3, MessageStep DEF Contract!GiveUp
    <3>4. CASE q # "dlq" /\ mem[w].id \in Carried
      BY <1>0, <1>1, <2>2, <3>1, <3>2, <3>4, InvisibleStutters DEF ContractStep, Invisible
    <3>5. CASE q # "dlq" /\ mem[w].id \notin Carried
      BY <1>0, <1>1, <1>2, <2>2, <3>1, <3>2, <3>5, MessageStep
         DEF Contract!CarryAgain, Contract!Known
    <3> QED
      BY <3>3, <3>4, <3>5
  <2> QED
    BY <2>3, <2>4 DEF Sound, Typed, TypeOK
<1>5. CASE AckWork(w)
  BY <1>0, <1>1, <1>5, AckForgets DEF AckWork
<1> QED
  BY <1>3, <1>4, <1>5 DEF WorkerStep

LEMMA ContractGen ==
  ASSUME Sound, NEW g \in Gen, GenStep(g)
  PROVE  ContractStep
<1> USE ProcFacts DEF Goto, Nack, Idle, holding, genUnchanged
<1>0. /\ mem[g].id \in enqueued /\ mem[g].id \in Id /\ mem[g].id \in deadLettered
      /\ mem[g] \in Job /\ Tells(mem[g])
      /\ UNCHANGED <<accepted, handed, deadLettered, quiet>>
  BY JobFacts DEF GenStep, RecordBounced, Feedback, DropNotice, PutNotice, InsertNotice,
         PublishNotice, DeleteBounced, AckDead, Sound, Discipline, Fresh, Position,
         Typed, Shape, Truthful, Candid
<1>1. CASE RecordBounced(g) \/ Feedback(g) \/ PutNotice(g) \/ DeleteBounced(g)
  <2>1. UNCHANGED <<mailFrom, enqueued, silenced>> /\ UNCHANGED loc /\ UNCHANGED job
    BY <1>1 DEF RecordBounced, Feedback, PutNotice, DeleteBounced
  <2>2. \A d \in Dsn : d \in enqueued => orig'[d] = orig[d]
    BY <1>1 DEF RecordBounced, Feedback, PutNotice, DeleteBounced, Sound, Typed, TypeOK,
                Discipline, Fresh
  <2>3. Bounced' = Bounced /\ Unwanted' = Unwanted /\ Carried' = Carried
    BY <1>0, <2>1, <2>2, CarriedFacts DEF Bounced, Unwanted, Sound
  <2> QED
    BY <1>0, <2>1, <2>3, InvisibleStutters DEF ContractStep, Invisible
<1>2. CASE DropNotice(g)
  <2>1. /\ UNCHANGED <<mailFrom, enqueued, orig>> /\ UNCHANGED loc /\ UNCHANGED job
        /\ silenced' = silenced \cup {mem[g].id} /\ pc[g] = "drop"
    BY <1>2 DEF DropNotice
  <2>2. mem[g].id \in Unwanted
    BY <1>0, <2>1, JobFacts DEF Unwanted, Tells, Wanted, From, Sound, Truthful, Candid
  <2>3. Bounced' = Bounced /\ Unwanted' = Unwanted /\ Carried' = Carried
    BY <1>0, <2>1, CarriedFacts DEF Bounced, Unwanted, Sound
  <2> QED
    BY <1>0, <2>1, <2>2, <2>3, MessageStep DEF Contract!Withhold
<1>3. CASE InsertNotice(g)
  <2>1. /\ UNCHANGED <<enqueued, orig, silenced>> /\ UNCHANGED loc /\ UNCHANGED job
        /\ dsn[g] \in Id /\ dsn[g] \notin enqueued
    BY <1>3 DEF InsertNotice, Sound, Typed, Shape, Discipline, Fresh, Unpublished
  <2>2. /\ \A i \in Id : i # dsn[g] => mailFrom'[i] = mailFrom[i]
        /\ mailFrom'[dsn[g]] \in {mailFrom[dsn[g]], "null"}
    BY <1>3, <2>1 DEF InsertNotice, InsertMessage, Sound, Typed, TypeOK
  <2>3. Bounced' = Bounced /\ Carried' = Carried
    BY <2>1, CarriedFacts DEF Bounced, Sound
  <2>4. Unwanted' \in {Unwanted, Unwanted \cup {dsn[g]}}
    BY <1>0, <2>1, <2>2 DEF Unwanted
  <2> QED
    BY <1>0, <2>1, <2>3, <2>4, BeginStep
<1>4. CASE PublishNotice(g)
  <2>1. /\ UNCHANGED <<mailFrom, orig, silenced>> /\ Unwanted' = Unwanted
    BY <1>0, <1>4 DEF PublishNotice, Unwanted
  <2>2. CASE ~up[g]
    <3>1. UNCHANGED enqueued /\ UNCHANGED loc /\ UNCHANGED job
      BY <1>4, <2>2 DEF PublishNotice
    <3>2. Bounced' = Bounced /\ Carried' = Carried
      BY <2>1, <3>1, CarriedFacts DEF Bounced, Sound
    <3> QED
      BY <1>0, <2>1, <3>2, InvisibleStutters DEF ContractStep, Invisible
  <2>3. CASE up[g]
    <3>1. /\ \E c \in Slot : Enqueue(c, "work", DsnJob(dsn[g]))
          /\ enqueued' = enqueued \cup {dsn[g]} /\ pc[g] = "inserted"
      BY <1>4, <2>3 DEF PublishNotice
    <3>2. /\ dsn[g] \in Dsn /\ dsn[g] \notin enqueued /\ orig[dsn[g]] = mem[g].id
          /\ DsnJob(dsn[g]) \in Job /\ DsnJob(dsn[g]).id = dsn[g]
      BY <3>1, DsnJobFacts DEF Sound, Typed, Shape, Discipline, Fresh, Unpublished
    <3>3. Carried' = Carried \cup {dsn[g]}
      BY <3>1, <3>2, CarriedFacts DEF Sound
    <3>4. Bounced' = Bounced \cup {<<mem[g].id, dsn[g]>>}
      BY <1>0, <2>1, <3>1, <3>2 DEF Bounced
    <3>5. mem[g].id \in Mail \ Unwanted
      BY <1>0, <3>1 DEF Unwanted, Tells, Wanted, Id, Sound, Truthful, Candid
    <3>6. ~Contract!Known(dsn[g])
      BY <3>2, KnownFacts
    <3>7. Contract!Bounce(mem[g].id, dsn[g])
      BY <1>0, <2>1, <3>3, <3>4, <3>5, <3>6 DEF Contract!Bounce
    <3> QED
      BY <3>2, <3>5, <3>7 DEF ContractStep, Contract!Next, Contract!Message
  <2> QED
    BY <2>2, <2>3 DEF Sound, Typed, TypeOK
<1>5. CASE AckDead(g)
  <2>1. /\ UNCHANGED <<silenced, mailFrom, orig, enqueued>> /\ pc[g] = "ack" /\ Ack(g)
    BY <1>5 DEF AckDead
  <2>2. Bounced' = Bounced /\ Unwanted' = Unwanted
    BY <1>0, <2>1 DEF Bounced, Unwanted
  <2> QED
    BY <1>0, <2>1, <2>2, AckForgets
<1> QED
  BY <1>1, <1>2, <1>3, <1>4, <1>5 DEF GenStep

LEMMA ContractEnv ==
  ASSUME Sound, EnvStep
  PROVE  ContractStep
<1>1. /\ UNCHANGED <<accepted, handed, deadLettered, silenced, mailFrom, quiet, orig, enqueued>>
      /\ UNCHANGED job
  BY DEF EnvStep, ConnDrop, Reconnect, Crash, Deliver, WaitExpire, Nack, envUnchanged, pastVars
<1>2. \A c \in Slot : loc'[c] # "free" <=> loc[c] # "free"
  BY DEF EnvStep, ConnDrop, Reconnect, Crash, Deliver, WaitExpire, Nack, Sound, Typed, TypeOK
<1>3. Carried' = Carried
  BY <1>1, <1>2 DEF Carried, InBroker
<1>4. Bounced' = Bounced /\ Unwanted' = Unwanted
  BY <1>1 DEF Bounced, Unwanted
<1> QED
  BY <1>1, <1>3, <1>4, InvisibleStutters DEF ContractStep, Invisible

LEMMA ContractStutter ==
  ASSUME UNCHANGED vars
  PROVE  ContractStep
<1>1. UNCHANGED <<accepted, handed, deadLettered, silenced, mailFrom, quiet, orig, enqueued>>
      /\ UNCHANGED loc /\ UNCHANGED job
  BY DEF vars, implVars, pastVars
<1>2. Carried' = Carried /\ Bounced' = Bounced /\ Unwanted' = Unwanted
  BY <1>1 DEF Carried, InBroker, Bounced, Unwanted
<1> QED
  BY <1>1, <1>2, InvisibleStutters DEF ContractStep, Invisible

\* The mail path does to a message nothing but what the contract allows: it is carried from
\* its publication until it is settled, given up only while known, bounced only if it was
\* given up and its sender wants to know, and no bounce is ever bounced.
THEOREM ContractKept == Spec => KeepsContract
<1>1. Init => Contract!Init
  <2>1. Init => Carried = {} /\ Unwanted = {} /\ Bounced = {}
    BY DistinctAssumption DEF Init, Carried, InBroker, Unwanted, Bounced, From
  <2> QED
    BY <2>1 DEF Init, Contract!Init
<1>2. Sound /\ [Next]_vars => [Contract!Next]_(Contract!vars)
  BY ContractSession, ContractWorker, ContractGen, ContractEnv, ContractStutter
     DEF Next, EnvStep, ContractStep
<1>3. Spec => []Sound
  <2>1. Typed /\ Discipline /\ Accounted /\ Truthful => Sound
    BY DEF Sound
  <2>2. Spec => []Typed
    BY Typing DEF Typed
  <2> QED
    BY <2>1, <2>2, DisciplineHolds, AccountedHolds, TruthfulHolds, PTL
<1> QED
  BY <1>1, <1>2, <1>3, PTL DEF Spec, KeepsContract, Contract!Spec
-----------------------------------------------------------------------------
(* The operators: sweep, requeue, purge and alert mails beside the mail    *)
(* path. They publish jobs for messages that handlers have in hand and     *)
(* take jobs out of the queues, so of Fresh only Known remains, and a copy *)
(* that justified an ack may be purged.                                    *)

\* What the operators hold on to between their steps.
OpsTyped ==
    /\ request \in Job \cup {None}
    /\ request # None => request.id \in used /\ request.attempt = 0
    /\ alert # None => alert.id \in Mail \cap used
    /\ known \subseteq Id

\* Who has a row has an id in use and a return-path.
Rows == \A m \in Id : status[m] # "none" => m \in used /\ mailFrom[m] \in From

\* What the sweep took for terminal was handed over or given up, and stays so.
Swept ==
    /\ sweep # "walk" => known = {}
    /\ \A m \in known \ active : m \in handed \cup permFailed \cup deadLettered

OpsInv ==
    /\ Typed /\ Loose /\ AccountedBut(purged) /\ StatusTruthful
    /\ OpsTyped /\ Rows /\ Swept

LEMMA OpsInitHolds == OpsInit => OpsInv
<1> SUFFICES ASSUME OpsInit PROVE OpsInv
  OBVIOUS
<1>1. Init
  BY DEF OpsInit
<1>2. Typed /\ Loose
  BY <1>1, ShapeInit, LooseInit DEF Typed
<1>3. AccountedBut(purged) /\ StatusTruthful /\ Rows
  BY <1>1, ProcFacts DEF Init, AccountedBut, NoLossBut, JustifiedBut, StatusTruthful, Rows
<1>4. OpsTyped /\ Swept
  BY DEF OpsInit, OpsTyped, Swept
<1> QED
  BY <1>2, <1>3, <1>4 DEF OpsInv

\* The mail path goes on under the operators' eyes.
LEMMA RowsStep ==
  ASSUME Typed, Loose, Rows, [Next]_vars
  PROVE  Rows'
<1> USE ProcFacts
<1>1. ASSUME NEW id \in Id, NEW from \in From, id \in used, InsertMessage(id, from), used' = used
      PROVE  Rows'
  BY <1>1 DEF InsertMessage, Rows, Typed, TypeOK
<1>2. ASSUME NEW id \in Id, NEW st \in {"deferred", "relayed", "failed", "bounced"},
             RecordAttempt(id, st), mailFrom' = mailFrom, used' = used
      PROVE  Rows'
  BY <1>2 DEF RecordAttempt, Rows, Typed, TypeOK
<1>3. ASSUME status' = status, mailFrom' = mailFrom, used \subseteq used' PROVE Rows'
  BY <1>3 DEF Rows
<1>4. ASSUME NEW s \in Session, SessionStep(s) PROVE Rows'
  <2>1. CASE DataPut(s) \/ DataOversize(s) \/ DataPublish(s)
    BY <1>3, <2>1 DEF DataPut, DataOversize, DataPublish
  <2>2. CASE DataInsert(s)
    <3>1. mem[s].id \in Id /\ mem[s].from \in From /\ mem[s].id \in used /\ used' = used
      BY <2>2, JobFacts DEF DataInsert, Typed, Shape, Loose, Known
    <3> QED
      BY <1>1, <1>3, <2>2, <3>1 DEF DataInsert
  <2> QED
    BY <1>4, <2>1, <2>2 DEF SessionStep
<1>5. ASSUME NEW w \in Worker, WorkerStep(w) PROVE Rows'
  <2>0. mailFrom' = mailFrom /\ used' = used
    <3>1. CASE Escalate(w) \/ ToDLQ(w)
      BY <3>1 DEF Escalate, ToDLQ, MoveTo, workerUnchanged
    <3>2. CASE ~(Escalate(w) \/ ToDLQ(w))
      BY <1>5, <3>2 DEF WorkerStep, Materialize, MaterializeFail, RouteDefer, RouteChain,
         PaceExpired, SendDelivered, SendDefer, SendFail, ChainDone, RecordRelayed,
         DeleteRelayed, RecordDeferred, RecordFailed, AckWork, workerUnchanged
    <3> QED
      BY <3>1, <3>2
  <2>1. CASE RecordRelayed(w) \/ RecordDeferred(w) \/ RecordFailed(w)
    <3>1. mem[w].id \in Id
      BY <2>1, JobFacts DEF RecordRelayed, RecordDeferred, RecordFailed, Typed, Shape
    <3> QED
      BY <1>2, <2>0, <2>1, <3>1 DEF RecordRelayed, RecordDeferred, RecordFailed
  <2>2. CASE ~(RecordRelayed(w) \/ RecordDeferred(w) \/ RecordFailed(w))
    <3>1. status' = status
      BY <1>5, <2>2 DEF WorkerStep, Materialize, MaterializeFail, RouteDefer, RouteChain,
         PaceExpired, SendDelivered, SendDefer, SendFail, ChainDone, DeleteRelayed, AckWork,
         Escalate, ToDLQ, MoveTo, pathUnchanged
    <3> QED
      BY <1>3, <2>0, <3>1
  <2> QED
    BY <2>1, <2>2
<1>6. ASSUME NEW g \in Gen, GenStep(g) PROVE Rows'
  <2>1. CASE RecordBounced(g)
    <3>1. mem[g].id \in Id
      BY <2>1, JobFacts DEF RecordBounced, Typed, Shape
    <3> QED
      BY <1>2, <2>1, <3>1 DEF RecordBounced
  <2>2. CASE InsertNotice(g)
    <3>1. dsn[g] \in Id /\ dsn[g] \in used /\ used' = used /\ "null" \in From
      BY <2>2 DEF InsertNotice, Typed, Shape, Loose, Known, From
    <3> QED
      BY <1>1, <1>3, <2>2, <3>1 DEF InsertNotice
  <2>3. CASE ~(RecordBounced(g) \/ InsertNotice(g))
    BY <1>3, <1>6, <2>3 DEF GenStep, Feedback, DropNotice, PutNotice, PublishNotice,
       DeleteBounced, AckDead
  <2> QED
    BY <2>1, <2>2, <2>3
<1>7. CASE EnvStep \/ UNCHANGED vars
  <2>1. status' = status /\ mailFrom' = mailFrom /\ used' = used
    BY <1>7 DEF EnvStep, ConnDrop, Reconnect, Crash, Deliver, WaitExpire, envUnchanged,
       pastVars, vars, implVars
  <2> QED
    BY <1>3, <2>1
<1> QED
  BY <1>4, <1>5, <1>6, <1>7 DEF Next, EnvStep

LEMMA NextGrows == [Next]_vars => Grow /\ used \subseteq used'
<1> SUFFICES ASSUME [Next]_vars PROVE Grow /\ used \subseteq used'
  OBVIOUS
<1>1. ASSUME NEW s \in Session, SessionStep(s) PROVE Grow /\ used \subseteq used'
  BY <1>1 DEF SessionStep, DataPut, DataOversize, DataInsert, DataPublish, sessionUnchanged, Grow
<1>2. ASSUME NEW w \in Worker, WorkerStep(w) PROVE Grow /\ used \subseteq used'
  BY <1>2 DEF WorkerStep, Materialize, MaterializeFail, RouteDefer, RouteChain, PaceExpired,
     SendDelivered, SendDefer, SendFail, ChainDone, RecordRelayed, DeleteRelayed,
     RecordDeferred, RecordFailed, AckWork, Escalate, ToDLQ, MoveTo, pathUnchanged,
     workerUnchanged, Grow
<1>3. ASSUME NEW g \in Gen, GenStep(g) PROVE Grow /\ used \subseteq used'
  BY <1>3 DEF GenStep, RecordBounced, Feedback, DropNotice, PutNotice, InsertNotice,
     PublishNotice, DeleteBounced, AckDead, genUnchanged, Grow
<1>4. CASE EnvStep \/ UNCHANGED vars
  BY <1>4 DEF EnvStep, ConnDrop, Reconnect, Crash, Deliver, WaitExpire, envUnchanged, pastVars,
     vars, implVars, Grow
<1> QED
  BY <1>1, <1>2, <1>3, <1>4 DEF Next, EnvStep

LEMMA OpsMail ==
  ASSUME OpsInv, [Next]_vars, UNCHANGED opsVars
  PROVE  OpsInv'
<1>0. /\ Typed /\ Loose /\ AccountedBut(purged) /\ StatusTruthful
      /\ OpsTyped /\ Rows /\ Swept
  BY DEF OpsInv
<1>1. Typed'
  BY <1>0, ShapeSession, ShapeWorker, ShapeGen, ShapeEnv, ShapeStutter DEF Next, EnvStep, Typed
<1>2. Loose'
  <2>1. CASE UNCHANGED vars
    BY <1>0, <2>1 DEF vars, implVars, pastVars, Loose, Held, Known, Position
  <2> QED
    BY <1>0, <1>1, <2>1, LooseSession, LooseWorker, LooseGen, LooseEnv DEF Next, EnvStep
<1>3. AccountedBut(purged)'
  <2>1. PICK P : P = purged
    OBVIOUS
  <2>2. AccountedBut(P) /\ purged' = P
    BY <1>0, <2>1 DEF opsVars
  <2>3. AccountedBut(P)'
    BY <1>0, <1>1, <2>2, AccountedStep
  <2> QED
    BY <2>2, <2>3
<1>4. StatusTruthful' /\ Rows'
  BY <1>0, StatusTruthfulStep, RowsStep
<1>5. OpsTyped' /\ Swept'
  BY <1>0, NextGrows DEF opsVars, Grow, OpsTyped, Swept
<1> QED
  BY <1>1, <1>2, <1>3, <1>4, <1>5 DEF OpsInv
-----------------------------------------------------------------------------
\* A job published past the handlers disturbs no tag, and removes no copy.
outsideUnchanged == UNCHANGED <<up, pc, mem, cur, live, left, sawDefer, dsn, used, handed,
                                silenced, permFailed, deadLettered, orig>>

LEMMA OutsideEnqueue ==
  ASSUME Typed, Loose, NEW P, AccountedBut(P), NEW c \in Slot, NEW j \in Job,
         j.id \in used, Enqueue(c, "work", j), enqueued' = enqueued \cup {j.id},
         outsideUnchanged
  PROVE  Loose' /\ AccountedBut(P)'
<1> USE ProcFacts DEF outsideUnchanged
<1>0. /\ loc[c] = "free" /\ loc'[c] = "work" /\ job'[c] = j
      /\ \A e \in Slot : e # c => loc'[e] = loc[e] /\ job'[e] = job[e]
  BY DEF Enqueue, Typed, TypeOK
<1>1. \A p \in Proc : live[p] => cur[p] \in Slot /\ cur[p] # c
  BY <1>0 DEF Loose, Held
<1>2. Held'
  BY <1>0, <1>1 DEF Loose, Held
<1>3. Known' /\ Position'
  BY <1>0 DEF Loose, Known, Position
<1>4. \A m : Settled(m) => SettledNext(m)
  BY SettledMono DEF Mono
<1>5. NoLossBut(P)'
  BY <1>0, <1>4 DEF AccountedBut, NoLossBut, InBroker, SettledNext, Settled, Notified
<1>6. ASSUME NEW g \in Gen, pc[g] = "gc", live[g] PROVE Settled(mem[g].id)'
  BY <1>4, <1>6 DEF AccountedBut, JustifiedBut, SettledNext, Settled, Notified
<1>7. ASSUME NEW p \in Worker \cup Gen, pc[p] = "ack", live[p]
      PROVE  (mem[p].id \in P \/ Settled(mem[p].id) \/ FurtherCopy(p))'
  <2>1. mem[p].id \in P \/ Settled(mem[p].id) \/ FurtherCopy(p)
    BY <1>7 DEF AccountedBut, JustifiedBut
  <2> QED
    BY <1>0, <1>1, <1>4, <1>7, <2>1 DEF FurtherCopy, Rank, SettledNext, Settled, Notified
<1> QED
  BY <1>2, <1>3, <1>5, <1>6, <1>7 DEF Loose, AccountedBut, JustifiedBut

\* A purge removes only jobs that no valid tag stands for.
LEMMA PurgeKeeps ==
  ASSUME OpsInv, NEW q \in Queue, Purge(q)
  PROVE  Loose' /\ AccountedBut(purged)'
<1> USE ProcFacts DEF pastVars
<1>0. /\ Loose /\ NoLossBut(purged) /\ JustifiedBut(purged) /\ TypeOK
      /\ purged' = purged \cup {job[c].id : c \in {c \in Slot : Ready(c, q)}}
      /\ UNCHANGED <<up, pc, mem, cur, live, dsn, pastVars>>
  BY DEF OpsInv, AccountedBut, Purge, Typed
<1>1. \A c \in Slot : IF Ready(c, q) THEN loc'[c] = "free" /\ job[c].id \in purged'
                      ELSE loc'[c] = loc[c] /\ job'[c] = job[c]
  BY <1>0 DEF Purge, TypeOK
<1>2. \A p \in Proc : live[p] => cur[p] \in Slot /\ ~Ready(cur[p], q)
  BY <1>0 DEF Loose, Held, Ready
<1>3. purged \subseteq purged'
  BY <1>0
<1> HIDE DEF Ready
<1>4. Held'
  BY <1>0, <1>1, <1>2 DEF Loose, Held
<1>5. Known' /\ Position'
  BY <1>0, <1>1 DEF Loose, Known, Position
<1>6. \A m : Settled(m)' <=> Settled(m)
  BY <1>0 DEF Settled, Notified
<1>7. ASSUME NEW m \in enqueued PROVE m \in purged' \/ Settled(m) \/ InBroker(m)'
  <2>1. m \in purged \/ Settled(m) \/ InBroker(m)
    BY <1>0, <1>7 DEF NoLossBut
  <2> QED
    BY <1>1, <1>3, <2>1 DEF InBroker
<1>8. ASSUME NEW p \in Worker \cup Gen, pc[p] = "ack", live[p]
      PROVE  mem[p].id \in purged' \/ Settled(mem[p].id) \/ FurtherCopy(p)'
  <2>1. mem[p].id \in purged \/ Settled(mem[p].id) \/ FurtherCopy(p)
    BY <1>0, <1>8 DEF JustifiedBut
  <2> QED
    BY <1>0, <1>1, <1>2, <1>3, <1>8, <2>1 DEF FurtherCopy, Rank
<1> QED
  BY <1>0, <1>4, <1>5, <1>6, <1>7, <1>8 DEF Loose, AccountedBut, NoLossBut, JustifiedBut
-----------------------------------------------------------------------------
LEMMA SweepKeeps ==
  ASSUME OpsInv, SweepPrune \/ SweepSnapshot \/ SweepEnd \/ \E m \in Id : SweepDelete(m)
  PROVE  OpsInv'
<1>0. /\ TypeOK /\ Shape /\ Loose /\ AccountedBut(purged) /\ StatusTruthful /\ OpsTyped
      /\ Rows /\ Swept
  BY DEF OpsInv, Typed
<1>1. /\ UNCHANGED <<suppr, loc, job, up, pc, mem, cur, live, left, sawDefer, dsn, faults>>
      /\ UNCHANGED <<used, accepted, enqueued, handed, permFailed, deadLettered, silenced,
                     orig, ndefer, quiet>>
      /\ UNCHANGED <<request, alert, purged>>
  BY DEF SweepPrune, SweepSnapshot, Snapshot, SweepEnd, SweepDelete, vars, implVars, pastVars
<1>2. Shape' /\ Loose'
  BY <1>0, <1>1 DEF Shape, Loose, Held, Known, Position
<1>3. AccountedBut(purged)'
  BY <1>0, <1>1 DEF AccountedBut, NoLossBut, JustifiedBut, Settled, Notified, InBroker,
     FurtherCopy, Rank
<1>4. CASE SweepPrune
  <2>1. PICK old \in SUBSET Id :
          /\ status' = [m \in Id |-> IF m \in old THEN "none" ELSE status[m]]
          /\ mailFrom' = [m \in Id |-> IF m \in old THEN None ELSE mailFrom[m]]
    BY <1>4 DEF SweepPrune
  <2>2. body' = body /\ known' = known /\ active' = active /\ sweep = "off" /\ sweep' = "pruned"
    BY <1>4 DEF SweepPrune
  <2>3. TypeOK'
    BY <1>0, <1>1, <2>1, <2>2 DEF TypeOK
  <2>4. StatusTruthful' /\ Rows'
    BY <1>0, <1>1, <2>1 DEF StatusTruthful, Rows, TypeOK
  <2>5. OpsTyped' /\ Swept'
    BY <1>0, <1>1, <2>2 DEF OpsTyped, Swept
  <2> QED
    BY <1>2, <1>3, <2>3, <2>4, <2>5 DEF OpsInv, Typed
<1>5. CASE SweepSnapshot
  <2>1. /\ status' = status /\ mailFrom' = mailFrom /\ body' = body /\ sweep' = "walk"
        /\ active' = {m \in Id : status[m] \in {"queued", "deferred"}}
        /\ known' = {m \in Id : status[m] # "none"}
    BY <1>5 DEF SweepSnapshot, Snapshot, vars, implVars
  <2>2. TypeOK' /\ StatusTruthful' /\ Rows' /\ OpsTyped'
    BY <1>0, <1>1, <2>1 DEF TypeOK, StatusTruthful, Rows, OpsTyped
  <2>3. ASSUME NEW m \in known' \ active' PROVE m \in handed \cup permFailed \cup deadLettered
    <3>1. m \in Id /\ status[m] \in {"relayed", "failed", "bounced"}
      BY <1>0, <2>1, <2>3 DEF TypeOK
    <3> QED
      BY <1>0, <3>1 DEF StatusTruthful
  <2>4. Swept'
    BY <1>1, <2>1, <2>3 DEF Swept
  <2> QED
    BY <1>2, <1>3, <2>2, <2>4 DEF OpsInv, Typed
<1>6. CASE SweepEnd
  <2>1. /\ status' = status /\ mailFrom' = mailFrom /\ body' = body /\ known' = {}
    BY <1>6 DEF SweepEnd, vars, implVars
  <2> QED
    BY <1>0, <1>1, <1>2, <1>3, <2>1
       DEF OpsInv, Typed, TypeOK, StatusTruthful, Rows, OpsTyped, Swept
<1>7. ASSUME NEW m \in Id, SweepDelete(m) PROVE OpsInv'
  <2>1. /\ status' = status /\ mailFrom' = mailFrom /\ body' = body \ {m}
        /\ UNCHANGED <<sweep, active, known>>
    BY <1>7 DEF SweepDelete
  <2> QED
    BY <1>0, <1>1, <1>2, <1>3, <2>1
       DEF OpsInv, Typed, TypeOK, StatusTruthful, Rows, OpsTyped, Swept
<1> QED
  BY <1>4, <1>5, <1>6, <1>7

LEMMA RequeueKeeps ==
  ASSUME OpsInv, (\E m \in Id : RequeueRead(m)) \/ RequeuePublish
  PROVE  OpsInv'
<1>0. /\ TypeOK /\ Shape /\ Typed /\ Loose /\ AccountedBut(purged) /\ StatusTruthful /\ OpsTyped
      /\ Rows /\ Swept
  BY DEF OpsInv, Typed
<1>1. ASSUME NEW m \in Id, RequeueRead(m) PROVE OpsInv'
  <2>1. m \in used /\ mailFrom[m] \in From
    BY <1>0, <1>1 DEF RequeueRead, Rows
  <2>2. request' \in Job /\ request'.id = m /\ request'.attempt = 0
    <3>1. [from |-> mailFrom[m], never |-> FALSE] \in [from: From, never: BOOLEAN]
      BY <2>1
    <3> QED
      BY <1>1, <3>1, NewJobFacts DEF RequeueRead
  <2>3. UNCHANGED <<vars, sweep, active, alert, purged, known>>
    BY <1>1 DEF RequeueRead
  <2>4. OpsTyped' /\ Swept'
    BY <1>0, <2>1, <2>2, <2>3 DEF OpsTyped, Swept, vars, pastVars
  <2>5. /\ TypeOK' /\ Shape' /\ StatusTruthful' /\ Rows' /\ Loose'
    BY <1>0, <2>3 DEF vars, implVars, pastVars, TypeOK, Shape, StatusTruthful, Rows, Loose,
       Held, Known, Position
  <2>6. AccountedBut(purged)'
    BY <1>0, <2>3 DEF vars, implVars, pastVars, AccountedBut, NoLossBut, JustifiedBut, Settled,
       Notified, InBroker, FurtherCopy, Rank
  <2> QED
    BY <2>4, <2>5, <2>6 DEF OpsInv, Typed
<1>2. CASE RequeuePublish
  <2>1. request \in Job /\ request.id \in used /\ request.attempt = 0 /\ request' = None
    BY <1>0, <1>2 DEF RequeuePublish, OpsTyped
  <2>2. /\ UNCHANGED <<body, status, mailFrom, suppr, accepted, ndefer, quiet, sweep, active,
                       alert, purged, known>>
        /\ outsideUnchanged
    BY <1>2 DEF RequeuePublish, outsideUnchanged
  <2>3. StatusTruthful' /\ Rows' /\ OpsTyped' /\ Swept'
    BY <1>0, <2>1, <2>2 DEF outsideUnchanged, StatusTruthful, Rows, OpsTyped, Swept
  <2>4. CASE /\ Works /\ \E c \in Slot : Enqueue(c, "work", request)
             /\ enqueued' = enqueued \cup {request.id}
    <3>1. PICK c \in Slot : Enqueue(c, "work", request)
      BY <2>4
    <3>2. PICK j \in Job : j = request
      BY <2>1
    <3>3. TypeOK' /\ Shape'
      BY <1>0, <2>1, <2>2, <2>4, <3>1, JobFacts, BoundAssumption
         DEF outsideUnchanged, Works, Enqueue, TypeOK, Shape
    <3>4. PICK P : P = purged
      OBVIOUS
    <3>5. Loose' /\ AccountedBut(P)' /\ purged' = P
      BY <1>0, <2>1, <2>2, <2>4, <3>1, <3>2, <3>4, OutsideEnqueue
    <3> QED
      BY <2>3, <3>3, <3>5 DEF OpsInv, Typed
  <2>5. CASE Fault /\ UNCHANGED <<loc, job, enqueued>>
    <3>1. TypeOK' /\ Shape'
      BY <1>0, <2>2, <2>5, BoundAssumption DEF outsideUnchanged, Fault, TypeOK, Shape
    <3>2. Loose'
      BY <1>0, <2>2, <2>5 DEF outsideUnchanged, Loose, Held, Known, Position
    <3>3. AccountedBut(purged)'
      BY <1>0, <2>2, <2>5 DEF outsideUnchanged, AccountedBut, NoLossBut, JustifiedBut, Settled,
         Notified, InBroker, FurtherCopy, Rank
    <3> QED
      BY <2>3, <3>1, <3>2, <3>3 DEF OpsInv, Typed
  <2> QED
    BY <1>2, <2>4, <2>5 DEF RequeuePublish
<1> QED
  BY <1>1, <1>2

LEMMA PurgeHolds ==
  ASSUME OpsInv, NEW q \in Queue, Purge(q)
  PROVE  OpsInv'
<1>0. TypeOK /\ Shape /\ StatusTruthful /\ OpsTyped /\ Rows /\ Swept
  BY DEF OpsInv, Typed
<1>1. /\ UNCHANGED <<body, status, mailFrom, suppr, up, pc, mem, cur, live, left, sawDefer, dsn,
                     faults, pastVars, sweep, active, request, alert, known>>
      /\ loc' = [c \in Slot |-> IF Ready(c, q) THEN "free" ELSE loc[c]]
      /\ job' = [c \in Slot |-> IF Ready(c, q) THEN None ELSE job[c]]
  BY DEF Purge
<1>2. TypeOK' /\ Shape'
  BY <1>0, <1>1 DEF TypeOK, Shape, pastVars
<1>3. StatusTruthful' /\ OpsTyped' /\ Rows' /\ Swept'
  BY <1>0, <1>1 DEF StatusTruthful, OpsTyped, Rows, Swept, pastVars
<1> QED
  BY <1>2, <1>3, PurgeKeeps DEF OpsInv, Typed

LEMMA AlertKeeps ==
  ASSUME OpsInv, AlertMail
  PROVE  OpsInv'
<1>0. /\ TypeOK /\ Shape /\ Typed /\ Loose /\ AccountedBut(purged) /\ StatusTruthful /\ OpsTyped
      /\ Rows /\ Swept
  BY DEF OpsInv, Typed
<1>1. CASE AlertPublish
  <2>1. alert.id \in Mail \cap used /\ "addr" \in From
    BY <1>0, <1>1 DEF AlertPublish, OpsTyped, From
  <2>2. PICK c \in Slot, j \in Job :
          /\ j.id = alert.id /\ j.attempt = 0 /\ Enqueue(c, "work", j)
    <3>1. [from |-> "addr", never |-> FALSE] \in [from: From, never: BOOLEAN]
      BY <2>1
    <3>2. LET j == NewJob(alert.id, [from |-> "addr", never |-> FALSE])
          IN  j \in Job /\ j.id = alert.id /\ j.attempt = 0
      BY <2>1, <3>1, NewJobFacts, ProcFacts
    <3> QED
      BY <1>1, <3>2 DEF AlertPublish
  <2>3. /\ enqueued' = enqueued \cup {alert.id} /\ alert' = None /\ faults' = faults
        /\ UNCHANGED <<suppr, accepted, ndefer, quiet, sweep, active, request, purged, known,
                       body, status, mailFrom>>
        /\ outsideUnchanged
    BY <1>1 DEF AlertPublish, Works, outsideUnchanged
  <2>4. TypeOK' /\ Shape'
    BY <1>0, <2>1, <2>2, <2>3, JobFacts, BoundAssumption, ProcFacts
       DEF outsideUnchanged, Enqueue, TypeOK, Shape
  <2>5. PICK P : P = purged
    OBVIOUS
  <2>6. Loose' /\ AccountedBut(P)' /\ purged' = P
    BY <1>0, <2>1, <2>2, <2>3, <2>5, OutsideEnqueue
  <2>7. StatusTruthful' /\ Rows' /\ OpsTyped' /\ Swept'
    BY <1>0, <2>3 DEF outsideUnchanged, StatusTruthful, Rows, OpsTyped, Swept
  <2> QED
    BY <2>4, <2>6, <2>7 DEF OpsInv, Typed
<1>2. CASE AlertPut \/ AlertInsert \/ AlertFails
  <2>1. /\ UNCHANGED <<loc, job, suppr, up, pc, mem, cur, live, left, sawDefer, dsn, accepted,
                       handed, permFailed, deadLettered, silenced, orig, ndefer, quiet,
                       sweep, active, request, purged, known, enqueued>>
        /\ used \subseteq used' /\ used' \subseteq Id /\ faults' \in 0..MaxFaults
        /\ body' \subseteq Id
    BY <1>0, <1>2, ProcFacts, BoundAssumption
       DEF AlertPut, AlertInsert, AlertFails, alertRest, TypeOK, Works, Fault
  <2>2. alert # None => alert.id \in Mail \cap used /\ alert.id \in Id
    BY <1>0, ProcFacts DEF OpsTyped
  <2>3. \/ status' = status /\ mailFrom' = mailFrom
        \/ alert # None /\ InsertMessage(alert.id, "addr")
    BY <1>2 DEF AlertPut, AlertInsert, AlertFails
  <2>4. TypeOK'
    BY <1>0, <2>1, <2>2, <2>3 DEF TypeOK, InsertMessage, From
  <2>5. StatusTruthful' /\ Rows'
    BY <1>0, <2>1, <2>2, <2>3 DEF StatusTruthful, Rows, InsertMessage, From, TypeOK
  <2>6. Shape' /\ Loose'
    BY <1>0, <2>1 DEF Shape, Loose, Held, Known, Position
  <2>7. AccountedBut(purged)'
    BY <1>0, <2>1 DEF AccountedBut, NoLossBut, JustifiedBut, Settled, Notified, InBroker,
       FurtherCopy, Rank
  <2>8. alert' # None => alert'.id \in Mail \cap used'
    <3>1. CASE AlertPut
      BY <3>1 DEF AlertPut
    <3>2. CASE AlertInsert
      BY <2>1, <2>2, <3>2 DEF AlertInsert
    <3>3. CASE AlertFails
      BY <3>3 DEF AlertFails
    <3> QED
      BY <1>2, <3>1, <3>2, <3>3
  <2>9. OpsTyped' /\ Swept'
    BY <1>0, <2>1, <2>8 DEF OpsTyped, Swept
  <2> QED
    BY <2>4, <2>5, <2>6, <2>7, <2>9 DEF OpsInv, Typed
<1> QED
  BY <1>1, <1>2 DEF AlertMail

LEMMA OpsStepHolds == OpsInv /\ [OpsNext]_allVars => OpsInv'
<1> SUFFICES ASSUME OpsInv, [OpsNext]_allVars PROVE OpsInv'
  OBVIOUS
<1>1. CASE [Next]_vars /\ UNCHANGED opsVars
  BY <1>1, OpsMail
<1>2. CASE OpsStep
  BY <1>2, SweepKeeps, RequeueKeeps, PurgeHolds, AlertKeeps DEF OpsStep
<1> QED
  BY <1>1, <1>2 DEF OpsNext, allVars

\* The mail path and the operators together keep this invariant.
THEOREM OpsInvariantHolds == OpsSpec => []OpsInv
<1> QED
  BY OpsInitHolds, OpsStepHolds, PTL DEF OpsSpec

\* A message whose job once reached the broker is settled, in a queue or was purged, although
\* requeues publish jobs that handlers have in hand and purges take copies away that others
\* rely on.
THEOREM NoLossButPurgedHolds == OpsSpec => []NoLossButPurged
<1>1. OpsInv => NoLossButPurged
  BY DEF OpsInv, AccountedBut, NoLossBut, NoLossButPurged
<1> QED
  BY <1>1, OpsInvariantHolds, PTL

\* The sweep deletes no body that a worker still has to send, of the messages it knew,
\* although it works from a list that is out of date while it walks.
THEOREM SweepsOrphansOnlyHolds == OpsSpec => SweepsOrphansOnly
<1> DEFINE Orphans == \A m \in known : SweepDelete(m) =>
                         ~StillNeeded(m) \/ m \in permFailed \cup deadLettered
<1>1. OpsInv => Orphans
  BY DEF OpsInv, Swept, SweepDelete, StillNeeded
<1>2. OpsInv /\ [OpsNext]_allVars => [Orphans]_allVars
  BY <1>1
<1> QED
  BY <1>2, OpsInvariantHolds, PTL DEF OpsSpec, SweepsOrphansOnly
=============================================================================
