# NovaMail: specifications

TLA+ models of NovaMail's mail path and of what it promises, of its connections
and limits, its configuration plane, its DNS checks and alerts, DKIM rotation and
the operators' console; the TLC runs that check them on small instances; and
theorems that TLAPS proves for every value of the constants. Paths are relative to
the repository (`src/`).

    tlc -config MailFlow.cfg MCMailFlow        # any run of PROJECT.json
    tlapm MailFlowProofs.tla                   # any proof module

`PROJECT.json` lists the runs, the source lines behind every definition (`map`),
for each property a plausible bug that breaks it (`mutants`), disagreements between
code and comments (`findings`), the hazards and the theorems.

## 1. The system

| Part | State it keeps | Operations |
|---|---|---|
| ingress (`cmd/ingress`) | per session: account, trusted client, sender, recipients, DSN counters; a policy snapshot | NewSession, Auth, Mail, Rcpt, Data, Reset; hot reload |
| delivery (`cmd/delivery`) | a routing snapshot; per goroutine the job in hand | handle, defer_, toDLQ, chain, buildState |
| DSN generator (`cmd/dsn`) | the dead letter in hand | gen.handle |
| maintenance (`cmd/maintenance`) | the list of live bodies it read | prune, sweep |
| bus (`internal/amqp`, `services/admin-api/src/bus.ts`) | connection, channels, registered consumers and config handlers | publish, consume, supervise, reconnect, reestablish |
| routing (`internal/routing`) | the rule index | Build, Resolve |
| providers (`internal/providers`) | SMTP idle pool, Gmail token | Send, Verify, Close |
| rate limits (`internal/ratelimit`) | token buckets | Build, Reserve |
| Admin API (`services/admin-api`) | Postgres tables; alert and DNS-check state | CRUD + config.changed, requeue, purge, DKIM generation, deliverability refresh, alerts |
| Postgres, body store, RabbitMQ | messages, events, suppressions, configuration; bodies; queues | (external, except what `internal/db` and `internal/store` do) |
| web console (`web/`) | a client-side store `NM_DATA`, the open modal | loadAll, refreshLight, save, remove, toggle, login |
| DNS | the zone of each relay domain | (external) published by its owner from what the console proposes |

A message takes this way. `session.Data` stores the body, inserts the row and
publishes a job to `relay.work`. A worker reads and signs the body, resolves a
failover chain of providers and tries them in order. A provider that takes the
message ends it: record, delete the body, ack. If some provider was transient the
job goes to the wait tier of its incremented attempt, which dead-letters back to
`relay.work` when its TTL expires, or to `relay.dlq` after the last tier; if all
refused, to `relay.dlq` at once. The DSN generator takes dead letters, records
them as bounced, suppresses their recipients and sends a bounce, which is itself
a message in `relay.work`. Any handler acks last, so whatever it did before is
done again by whoever receives the job after a crash or a lost connection.

Configuration takes another. Postgres is its only source of truth. Each change is
announced on a fanout; ingress and delivery rebuild an immutable snapshot from a
series of queries and swap it in.

What is hard about this code: two handlers at work on copies of one job, each with
its own idea of what is acked; a publish that is not confirmed followed by an ack;
status and body writes whose errors are ignored; snapshots read by several queries
while the rows change; events that are broadcast to whoever is connected; operator
actions and a sweep that take no part in the ack protocol; replicas of the Admin API
that check, alert and seed without a lock; a key rotation made of four autocommitted
queries; reloads of the console that overlap and forms that send every column back.

What makes each part correct:

- submission sessions: the job holds what the client was told was accepted, and
  everything in it was permitted;
- ingress, delivery, DSN generator and bus: no message the broker has taken is
  lost, none is given up early, none is bounced twice over (a bounce of a bounce),
  statuses and bodies follow what happened, every message is resolved in the end;
- maintenance, requeue, purge: they lose only what they are asked to lose;
- configuration: a process that stays connected ends up with the current
  configuration and never steps back;
- routing: precedence and priority, whatever the order and spelling of rules;
- bus connection: no registered consumer is left without its subscription, none
  has two, and Close ends the supervisor;
- providers: one pooled connection serves one message at a time and starts it
  clean, none is forgotten; rate limits: no bucket lets more pass than it has earned;
- deliverability checks and alerts: the cache holds one whole report, a hiccup alerts
  nobody, no replica repeats itself, cache and alert state settle on the truth;
- DKIM: delivery signs with the key the checks compare the zone with; grading: the
  record that is proposed repairs what was found wrong and breaks nothing;
- Admin API and console: changes are audited, a first administrator exists, the screen
  ends up showing what is stored, an edit changes what was edited.

## 2. Modules

| Module | Models | Used by |
|---|---|---|
| `MailFlow` | Data, worker.handle, gen.handle, the broker, crashes and connection losses | `MCMailFlow` |
| `DeliveryContract` | what the mail path promises about a message: the abstract specification | `MailFlowContract` |
| `MailFlowContract` (extends `MailFlow`) | the refinement mapping from `MailFlow` to `DeliveryContract` | `MCMailFlow` |
| `MailFlowOps` (extends `MailFlow`) | the maintenance sweep, requeue, purge, alert mails | `MCMailFlowOps` |
| `ConfigReload` | CRUD commits, publishConfigChanged, SubscribeConfig, buildState/buildInbound, reconnects | run directly |
| `Routing` | routing.Build as a loop, Resolve | `MCRouting` |
| `Submission` | NewSession, Auth, Mail, Rcpt, Reset and the policy gates | `MCSubmission` |
| `AmqpConn` | Dial, supervise, reconnect, reestablish, the registries and Close | run directly |
| `SmtpPool` | acquire, Send, release, Close, and reloads that replace the provider | run directly |
| `RateLimit` | ratelimit.Build and Reserve, and what callers do with a reservation | run directly |
| `Deliverability` | checkDomain, persistCheck, the cache, schedulers and requests | `Alerts` |
| `Alerts` (extends `Deliverability`) | dispatchAlerts, evalTransition, send | `MCAlerts` |
| `DnsGrading` | the grade functions, mergeSpf, rollup, safeFetchText | `DkimKeys` |
| `DkimKeys` (extends `DnsGrading`) | key generation, secrets, delivery's reload, the zone | `MCDkimKeys` |
| `Forms` | mappers, forms, checks and request bodies of the console | `Console` |
| `Console` (extends `Forms`) | the browser, request handlers with their hooks, seedAdmin, another client | `MCConsole` |
| `MailFlowProofs` | proofs about `MailFlow`, `MailFlowOps` and the refinement of `DeliveryContract` | |
| `SnapshotProofs` | proofs about what a reload builds and how it is reloaded: `Routing`, `RateLimit`, `ConfigReload` | |
| `AlertsProofs` | proofs about `Alerts` and the `Deliverability` it extends | |
| `ConsoleProofs` | proofs about `Console` and the `Forms` it extends | |
| `DkimKeysProofs` | proofs about `DkimKeys` and the `DnsGrading` it extends | |
| `SubmissionProofs`, `SmtpPoolProofs`, `AmqpConnProofs` | proofs about the module each is named after | |

### MailFlow

Each call a handler makes to the store, to Postgres, to the bus or to a provider
is one action; `pc` says which comes next, named for the point in the handler
(`stored`, `inserted`; `got`, `route`, `chain`, `sent`, `gc`, `defer`, `escalate`,
`fail`, `deadletter`, `ack`; `feedback`, `drop`, `compose`). Several fates of one
call are disjuncts of its action.

- A **slot** is a place for a job in the broker; `loc` is its queue: `work`,
  `wait` (any tier; the attempt in the job tells which) or `dlq`. A delivery is the
  pair of the consumer's copy of the job (`mem`) and the slot it came from (`cur`);
  `live` says whether its delivery tag is still valid. An ack with a dead tag does
  nothing, as in the code, whose callers ignore its error.
- A **process** is a session, one worker goroutine or a generator, each with its
  own connection. In the code workers share one; losing it is several `ConnDrop`s,
  and a loss that hits some workers only allows more behaviours, not fewer.
- `up` says whether frames the process writes reach the broker. Between the real
  loss and the moment the client library notices, a publish returns nil and is
  lost, and so is the ack after it; later it retries to its deadline and fails.
  Both are disjuncts of the publish actions where `up` is false. When the library
  reports an error for a frame that did arrive, the state is that of a publish
  followed by a connection loss.
- `RecordAttempt`, `DeleteBody`, suppressing and `store.Put` may fail; each failure,
  connection loss and crash is charged to `faults`. A fault after the provider
  took the message (an answer lost on the wire) is a disjunct of `SendDefer`.
- `RouteDefer` stands for "no route" and for a recipient domain over its rate
  limit, `SendDefer` also for a provider skipped because of its own; both are
  possible at any time, whatever the buckets hold.
- The variables of `pastVars` record what happened (handed to a provider, refused
  by a whole chain, dead-lettered, how often deferred); only properties read them.
  `used` also keeps ids fresh.

### DeliveryContract and MailFlowContract

The contract knows messages, bounces and seven sets of them (`answered`, `carried`,
`delivered`, `givenUp`, `unwanted`, `bounced`, `withheld`), no queues, copies,
attempts, acks or processes. A message that is carried stays carried until it is
settled: delivered, bounced, or withheld from a sender who is not to be told. It is
carried at least once, not exactly once: a worker that lost its delivery goes on with it,
so a message another worker settled meanwhile may be deferred or dead-lettered again
(`CarryAgain`, `GiveUp`). The mapping takes `carried` from the slots of the broker and
leaves everything inside a handler invisible. `Accept` lets an answered message be carried or not, because
`session.Data` answers on an unconfirmed publish; that is the one promise the code
does not keep (section 6). `KeepsContract` is `Contract!Spec`, checked
as a property and proved (`ContractKept`).

### MailFlowOps

`SweepPrune`, `SweepSnapshot`, one `SweepDelete` per body and `SweepEnd` are the
maintenance run; `RequeueRead` and `RequeuePublish` the two halves of the requeue
handler around its await; `Purge` drops what is ready in one queue, of a wait tier its own; `AlertPut`,
`AlertInsert` and `AlertPublish` are `injectEmail`, which hands an alert to the relay
as an ingress does. That a pruned row belongs to a message nothing is left of
(`Forgotten`) is an assumption about time: retention is counted in days, the retry
schedule is 35 minutes.

### ConfigReload

A slice of the configuration is its version number. `Commit`, `TakeEpoch` and
`Announce` are a CRUD handler with its two awaits; `ChannelLost`/`ChannelBack` the
API's own channel. A process builds a first snapshot, then registers and opens its
subscription; each subscription has an inbox and a reader that runs one query per
step (`Load`) and swaps the snapshot in (`Store`). After a loss `Reestablish` opens
a new subscription while the old one's reader may still be at work. A failed query
leaves version `Nothing`. `missed` records why a process may be behind.

### Routing

`Build` takes one rule per step; `<<>>` is Go's nil chain. `Lower` is any idempotent
function, `RuleLists` any lists sorted by descending priority, which is what
`GetRoutingRules` selects. Init, Next and Spec of this module are called `IndexInit`,
`IndexNext` and `IndexSpec` (of `RateLimit`, `LimitInit` and so on), so that
`SnapshotProofs` can extend it together with the others.

### Submission

One session object under the commands of a client and the rules of go-smtp
(external): a RCPT or DATA needs an acknowledged MAIL, a second MAIL is let
through, Reset is called after DATA and for RSET, HELO and EHLO. `given` is the
server's own flag. A sender is its domain, an account is its allowed senders and
whether it is pinned to another address, a policy is what the session's address
matches in it. `Mail` may also be refused by a rate limit. A reload reads one table
after the other (`ReadClients`, `ReadDomains`, `ReadSuppressions`), so that it may mix
versions of the configuration and lose any of its queries, before `Store`. `ackFrom`, `ackRcpts` and `seen` record what the client was
told and which policies were in force; only properties read them. `Data` is here
just the Reset that follows it; what it does is `MailFlow`'s `DataPut` to
`DataPublish`, for the job `Job` describes.

### AmqpConn

Connections are numbered; `live` counts the subscriptions of each client on the
current one and is emptied with it. The supervisor's place is `sup`, main's is
`main`; both run between any two steps of the other except where the registry lock
`regMu` forbids it. `Close` is the flag and then the connection, with a reconnect
possible in between. `ChannelClosed` and a failed `Resubscribe` leave a client
without its subscription on a connection that is up (`hurt`): the code only logs
the one and does not notice the other, and the next reconnect repairs both.

### SmtpPool

A worker holds on to the provider instance of the snapshot it started from
(`prov`); each lock region and each network call of `Send` is a step. `open` is what
this side has not closed, `peer` what the smarthost has not dropped, `midway` the
connections with a transaction under way. `Close` is taken at any time after a
reload or never: nothing in the repository calls it yet.

### RateLimit

Time is counted in intervals that earn a token, so a bucket earns one per `Tick`
and all arithmetic is in integers. `Reserve` takes the token at once and returns a
delay; a session that would have to wait cancels, a worker waits up to
`maxRateBlock`, then cancels, and cancels when its deadline ends the wait. `Cancel`
follows the library: it gives back nothing for a reservation whose time has come,
and less for one that others were queued behind.

### Deliverability and Alerts

One relay domain. A process is a replica's scheduler or a request for a check; its
`pc` goes from `miss` or the look at the zone (`checked`) through the open transaction
(`open`) to, for schedulers, the alert (`report`, `eval`, `judge`, `notify`). A look is
one step: what it finds is the zone as it is, or, on a lookup that fails, something
worse. `snap` is what the DELETE saw and is still there, so that two READ COMMITTED
transactions meet on the primary key as they do in Postgres; a report stored again, even
an equal one, is new rows (`Stored`). Alert state is one row that each replica reads
and then writes; `said` and `truth` are observations that only properties read. A
scheduler's tick may come at any time.

### DnsGrading and DkimKeys

`DnsGrading` has the grade functions as operators on what they tell apart: an SPF
record is the sequence of its terms. The TXT records at `_dmarc` are [v, p, rua, stray]:
`gradeDmarc` takes the first that starts as a DMARC record (`v`), `dmarcEnforcing` searches
all of them, unfiltered, and finds `p=reject` also outside of p= (`stray`). A policy host is
the addresses the guard finds, the address the fetch then leads to, which may be another
one, and what the server at each address replies. `Authorized` is how a receiver reads SPF, from RFC 7208; the
properties compare the code with it. The terms the route requires are a set, as in
`checkDomain`; the order in which missing ones are proposed is any. In `DkimKeys` a key is named after the request
that minted it; `keys` is `dkim_keys`, `secret` the private halves, `zone` what is
published, `signer` what delivery signs with. `Generate` is four steps that can die
(`GenerateFails`) and interleave. Beside it clients use the generic routes of the table:
`SetRotation` is a PUT of the rotation, to any value from any value, `DeleteKey` a DELETE,
`EditKey` a POST of a row of the client's own or a PUT of any other column, with the rows in
`Written`; `SetSecret` and `DeleteSecret` are those of `/api/secrets`. Each writes first and
announces afterwards, or dies in between (`Tell`). `LoadRows`, `FetchSecret` and `Install`
are the reload, whose secrets are read one by one after the rows; a failed query of the rows
installs no signer, a secret that is missing or no key is skipped. `mishaps` records what
happened, so that `RotationClean` can say what it holds without: a selector made active while
another one is, or while a generation is about to activate its own, is "doubled", a row
written by hand "edited". Retirements, revocations and roll-backs (revoke the new selector,
make the old one active again) are no mishaps.

### Forms and Console

A row of one table stands for the configuration; `coll` says which table, and
`Start` goes through all of them. `Forms` has, per table, how a row is shown
(`Shown`), what a form can become by one edit (`Edits`), what keeps it from being sent
(`Invalid`) and the columns that are sent (`Body`). In `Console` a request goes through
`Authorize` (the onRequest hook), `Commit`, `Publish` (config.changed and the reply) and
the onResponse hook (`Audit`), each of which can fail. `load` are the loadAll and
refreshLight calls that overlap; `form` is the open modal with the row it was opened
on. Messages are a table that nobody edits and the data plane moves (`MessageMoves`);
their events are fetched after the list. `Count`, `SignUp` and `Promote` are seedAdmin in
each replica. The browser sends one write at a time and a form closes with the reply.

## 3. Properties and runs

| Run | Instance | Checks |
|---|---|---|
| `mailflow` | 1 message of every envelope + its bounce, 2 workers, 1 generator, 3 slots, 2 tiers, 1 fault | `TypeOK`, `NoLoss`, `IInv`, `JobHasBody`, `StatusTruthful`, `KeepsContract` |
| `mailflow_chain` | every envelope, 1 worker, 1 tier, chains of 2, 2 notification ids, 1 fault, fairness | `DeadLetterEarned`, `NeverBounceABounce`, `EventuallyResolved` |
| `ops` | a sweep, a requeue, a purge, an alert mail and a fault beside one message | `NoLossButPurged`, `SweepsOrphansOnly` |
| `config` | 2 requests, 1 process, 2 slices, 3 changes, 1 loss, 1 error, fairness | `CatchesUp`, `NeverGoesBack`, `EventuallyCurrent` |
| `routing` | all lists of ≤ 2 rules, lists of 3 enabled rules, 2 spellings | `Precedence` |
| `submission` | 1 session, 2 domains, 2 recipients, 3 policy changes or reloads | `EnvelopeAsAcknowledged`, `SuppressedByAll`, `Permitted` |
| `amqp` | 1 consumer, 1 config handler, 3 connections, 1 fault, fairness | `NoneMissed`, `NoDuplicates`, `Heals`, `CloseStops` |
| `smtp_pool` | 2 workers, 2 instances, pool of 1, 3 connections, 2 faults, fairness | `Exclusive`, `CleanStart`, `NoneForgotten`, `SendEnds` |
| `rate_limit` | 1 session, 2 workers, 2 keys, own and shared buckets, 1 reload, 5 calls | `Paced`, `Conserved` |
| `checks` | 2 replicas, 1 request, 1 change of zone or channels, 1 fault, fairness | `OneReport`, `NoFalseAlarm`, `NoFlood`, `Settles` |
| `dkim` | 2 selectors, 2 generations, 3 requests, 1 fault; every SPF record of ≤ 3 terms, ≤ 2 TXT at `_dmarc` × BIMI, policy hosts | `ActiveBacked`, `RotationClean`, `FixAuthorizes`, `GradesAgree` |
| `console` | each table (the rate limit an account's), 2 replicas, 2 overlapping loads and a light one, another client | `ConsoleSettles`, `ChangesAccounted`, `SeededAdmin`, `EditKeepsTheRest` |

Each property is stated in words at its definition. What they show together: a
handler's unconfirmed publish and its ack never lose a message (`NoLoss`,
`KeepsContract`), a message leaves the system resolved (`EventuallyResolved`), and what
acts on the same tables and queues without taking part in the ack protocol loses only
what it says (`ops`). The components around the mail path each keep their own
invariant under the interleavings and failures they are exposed to, and settle when
these end.

**Bounds.** `Mail`, `Dsn`: messages interact only through the queues, so one
message with its bounce shows the races; a second notification id lets a
redelivered dead letter be bounced again. `Slot` = 3 holds a message's job, the
copy that moves it on, and one more (the copy's copy, or the bounce): a publish
needs a free slot, so in a run that fills all three the broker never refuses a
frame, it merely takes it later. `NTiers` is 1 or 2 instead of 3: what matters is
a first, a last and no tier. `MaxFaults` is 1: with two workers, a lost connection
is itself the redelivery that the second one handles. `MaxChain` = 2 is the shortest chain in which
a refusal follows a transient outcome. `Budget` grants one sweep, requeue and purge, or an alert mail.
`MaxWrites` = 3 lets a change overtake a reload that already overtook one;
`MaxDrops` = 1 gives two subscriptions at once. `MaxChanges` = 3 is a change, its
reload and a reload that fails; `MaxRcpts` = 2 tells "all" from "some". Three
connections of `AmqpConn` are a loss and a loss during the reconnect; the last one
is not lost, or nothing could be said of the end. `Conn` = 3 in `SmtpPool` exceeds
what two workers and a pool of one can hold, so a dial never waits for the bound;
`MaxIdle` = 1 makes the second return find the pool full. In `RateLimit` `Burst` = 1,
`MaxBlock` = 2 and three callers make a reservation pass, wait and be rejected.
In `checks` two replicas and a request are three overlapping transactions, one change
and one fault tell a hiccup from a transition. In `dkim` two generations overlap, the
third request reuses a selector or changes a rotation, from a domain with a key (two requests
from one without); the fault is a death, a failed query, a secret or a row written by hand; the
generations are symmetric; three terms are the shortest SPF
record with something before and after its `all`. In `console` two loads are enough for
an old list to be installed last; each table gets the acts and faults its operations
need (`MCConsole!Starts`), one edit per form. Symmetry (slots, workers, generations) is used
only in runs without liveness properties. Deadlock is not checked: with all
messages resolved and all bounds spent, every system here may stop.

**Fairness** (`MailFlow!Fairness`). Weak fairness for handlers in progress, the
supervisor's redial and the TTL of wait tiers: goroutines run and every call has
a deadline. Strong fairness for the delivery of a ready job: consumers come back
for more infinitely often, though a single one may be disconnected at any moment,
and a quorum queue starves none of its messages. Nothing is assumed of clients.
The outcome of a provider is free, but the retry schedule is finite, so even a
provider that always defers resolves the message. `ConfigReload!Fairness` is weak
only: queries return, goroutines run, the supervisor redials. `AmqpConn!Fairness` adds
strong fairness of a successful dial: a broker that is reachable again and again is
reached in the end, since `reconnect` never gives up. In `SmtpPool` every call ends
by the message's deadline, so the steps of a `Send` are weakly fair. `Alerts!Fairness` and
`Console!Fairness` are weak: timers go on, queries return and a browser that is open
keeps polling; nothing is assumed of operators, zones, crashes or failures.

**Deadline inside a handler.** `PaceExpired` is charged as a fault: a worker that
hit its 60 s deadline on every delivery would nack for ever.

## 4. Proofs

All by TLAPS, for any finite or infinite sets of processes, ids, slots, clients, keys,
domains and records and any number of tiers, faults, reloads and changes. The constants
are assumed to be what their names say: distinct kinds of process and of id, `None` none
of the values it stands beside, bounds natural numbers, tables and accounts of the shape
the queries return, rule lists in the order `GetRoutingRules` selects. Each assumption
is an `ASSUME` of the module that declares the constant, and TLC evaluates it on every run.

Each proof module states an inductive invariant as a conjunction of named parts, shows
that `Init` has it and that every action keeps it, and derives the properties from it.
What each is about:

| Module | Inductive invariant | Theorems |
|---|---|---|
| `MailFlowProofs` | `IInv`, listed below | `Typing`, `TypeCorrect`, `NoLossHolds`, `StatusTruthfulHolds`, `DeadLetterEarnedHolds`, `JobHasBodyHolds`, `NeverBounceABounceHolds`, `InductiveInvariantHolds`, `ContractKept` |
| the same, operators at work | `OpsInv` | `OpsInvariantHolds`, `NoLossButPurgedHolds`, `SweepsOrphansOnlyHolds` |
| `SnapshotProofs`, the index | `LoopInv` | `PrecedenceHolds` |
| the same, the buckets | `Holding`, `Unbuilt`, `InLine`, `Balanced` | `LimiterInvariantHolds`, `PacedHolds`, `ConservedHolds` |
| the same, the reload | `Undisturbed`, `Ordered`, `Fresh` | `ReloadInvariantHolds`, `CatchesUpHolds`, `NeverGoesBackHolds` |
| `SubmissionProofs` | `Told`, `Counted`, `Within`, `Permitted` | `SessionInvariantHolds`, `EnvelopeAsAcknowledgedHolds`, `SuppressedByAllHolds`, `PermittedHolds` |
| `SmtpPoolProofs` | `Holding`, `OneUser`, `Bounded`, `Found`, `Fit` | `PoolInvariantHolds`, `ExclusiveHolds`, `CleanStartHolds`, `NoneForgottenHolds` |
| `AmqpConnProofs` | `Locked`, `Hanging`, `Served`, `Counted` | `ConnectionInvariantHolds`, `NoneMissedHolds`, `NoDuplicatesHolds` |
| `DkimKeysProofs` | `Backed`, `InTurn`, `UpToDate` | `RotationInvariantHolds`, `ActiveBackedHolds`, `RotationCleanHolds`, `GradesAgreeHolds`, `MergeAuthorizes`, `FixAuthorizesHolds` |
| `AlertsProofs` | `Whole`, `Evidence`, `Remembered` | `AlertsInvariantHolds`, `OneReportHolds`, `NoFalseAlarmHolds`, `NoFloodHolds` |
| `ConsoleProofs` | `Accounted`, `Seeding`, `RowsFit`, `FormFits`, `RequestsFit`, `Sent` | `ConsoleInvariantHolds`, `ChangesAccountedHolds`, `SeededAdminHolds`, `EditKeepsTheRestHolds` |

**Mail path.** `NoLoss` is not inductive. A handler may ack because it has published the
next copy; another handler of the same job may ack because of the same copy; and the
copy itself may be acked by a third. What saves the message is that a copy is
always *further along* than the job it justifies the ack of: a higher attempt, or
the dead-letter queue (`Rank`). `AckJustified` says that every ack with a valid tag
is for a settled message or for one with a further copy, so the copy of highest
rank is never acked without being settled. Around it:

1. `Shape` and `TypeOK`: types that depend on the position.
2. `Held`, `Fresh`, `Position`: a valid tag means the slot still holds the job in hand
   and nobody else has it; an id not yet published is known to its handler only; what a
   position implies about the message.
3. `AckJustified` with `NoLoss`.
4. `StatusTruthful`, and `AttemptsEarned` with `DeadLetterEarned`: no job carries more
   attempts than its message has deferrals.
5. `BodyReady` with `JobHasBody`.
6. `Candid` and `Past` with `NeverBounceABounce`: `gen.handle` judges by the job it was
   given, so a job has to tell the truth about its message wherever it travels, and what
   a generator has decided has to stay right until it acts on it.

**Refinement.** `ContractKept` is the whole of `Spec => Contract!Spec`: the initial states
map to initial states, and every action is shown to be one step of the contract or none,
most of them none. The attempt first failed, for a reason: the contract then promised
that a settled message is never carried again, and the proof of `Escalate` left open the
case of a worker whose tag is dead and whose message another worker has delivered. TLC
confirmed it with two workers, which the run of the refinement now has.

**Operators.** A purge takes away the copy that justified an ack, so `NoLoss` holds up to
`purged` and `AckJustified` becomes `AccountedBut(purged)`. A requeue publishes a job of
an id that handlers hold, so `Fresh` fails and `Known` takes its place: ids in circulation
are in use. The proofs that the mail path's own steps keep
`AckJustified` and `StatusTruthful` rest on `Known` only and serve both. `Swept` says that what the sweep took for terminal was handed over or given
up and stays so.

**Sessions.** The two DSN counters are a summary of the recipients (`Counted`); all parts
of an envelope were permitted by a policy of `seen`, which contains the policy in force
as long as the session is open (`Within`).

**Pool.** `Exclusive` and `NoneForgotten` connection by connection. A connection is in one
hand, in one pool or being drained; only an instance that is shut drains, and a shut one
has no pool, which is why the return that finds its pool closed has to close the
connection itself.

**Buckets.** That a bucket passes no more than it earned needs that a tick earns at most
one reservation: `InLine` says that reservations still to come stand at distinct moments,
none later than `lastEvent`, and that the bucket owes exactly what lies between.
`Balanced` then counts them.

**Connection.** `NoneMissed` and `NoDuplicates` speak of quiet moments; `Served` and
`Counted` are what they become in the middle of a reconnect, with the subscriptions still
to be made by main or by the supervisor counted in.

**Reload.** A process that missed nothing has one subscription and one reader
(`Undisturbed`); what it reads is no older than what it has (`Ordered`); and what is out of
date is about to be read again (`Fresh`): a handler is still to announce its change, or
the event waits behind the reader.

**DKIM.** `Backed` needs no order between generations: the secret is there before the row
refers to it, and every row, active or not, refers to a secret of its own, so that no PUT of a
rotation makes one active without. `InTurn` and `UpToDate` describe the runs without mishap:
one generation at a time has the only selector that may be out of step, all the others, the
retired and revoked ones that may be made active again included, have the very key that is
stored (`Storing`), and delivery has the current signer or is about to find it. `GradesAgree`
follows from what a look can find (`Found`), whatever
the zone. `MergeAuthorizes` is about `mergeSpf` alone, for records of any length; the first
`all` of a record comes from the least-number principle. `FixAuthorizes` rests on it for
what a check proposes: what the route requires is a finite set without any `all`, so it
can be written as a sequence and merged. It needs that what DNS answers are sequences of
terms (`Found`), which publishing a proposal preserves.

**Alerts.** A table that overlapping transactions write holds one report because what a DELETE
sees is one whole report or nothing (`Whole`), and a report committed since has the key
`spf` that every report has, so that the INSERT fails. `NoFalseAlarm` needs to know where the one wrong look is: in a report
that some process still holds, or counted in the alert state or in a copy a replica has
read of it, never both (`Evidence`). Then no count reaches DEBOUNCE on wrong looks.
`NoFlood` holds because the row and every copy read from it carry what a replica alerted
last until another status is alerted (`Remembered`); the row is written before the alert is
sent.

**Console.** `ChangesAccounted` is an equation that every step of a request keeps; counting
the requests in between (`Unanswered`) takes the cardinality lemmas. `Seeding` says who is
about to promote the first operator. `EditKeepsTheRest` is the longest: what a form holds
is what its table's columns can show (`FormFits`), what is sent is what the form shows and
stays so while the request is under way (`Sent`), and for every table, column by column,
sending back what was shown is the identity on rows a form could have written. The proof
first failed for rate limits: making a limit global sends the key `*` whatever was shown
(`modals.jsx:261`), and TLC, once its rate limit was one of an account, found the same.
The key of a global limit, which its form does not show, is now excepted as the endpoint of
a direct provider is (`Hidden`), and the `console` run keeps the account's limit.

## 5. What is only model-checked, and what is assumed

Only model-checked is liveness: `EventuallyResolved`, `EventuallyCurrent`, `Heals`,
`CloseStops`, `SendEnds`, `Settles`, `ConsoleSettles`. Liveness under fairness is beyond
this prover.

Every safety invariant and action property of the runs is proved. What the proofs take from
the constants, beyond types: the rows that `Start` puts into an edited table have the
columns and values its form can show (`ConsoleAssumption`); the answers `Start` gives for a
zone are those DNS may give (`Found`); a domain starts with at most one active selector.

Assumed of the outside: RabbitMQ's quorum queues lose no job they have taken and
redeliver what is not acked (a node lost between an unconfirmed publish and its
replication is outside the model, and so is a broker default such as a delivery
limit, which would drop a job nacked too often); Postgres transactions are atomic;
in `MailFlow`, a reconnect re-establishes every consumer (`AmqpConn` shows that it
does, but for a failed resubscription); the token bucket of golang.org/x/time/rate,
the command order of go-smtp and the sessions of better-auth are as modelled; jobs always
parse, since only this code writes them.

## 6. Where the code and its comments disagree

The mail path and its operators:

- 250 may be given for a job the broker never received; the comments at the publish
  promise a retry by the client (`cmd/ingress/backend.go:202`, `internal/amqp/amqp.go:316`).
  `DeliveryContract!Accept` allows it, for the contract would not hold otherwise.
- The sweep deletes the body of a message accepted after it read its list of live
  bodies (`cmd/maintenance/main.go:57`); `SweepsOrphansOnly` excludes it (`known`).
- Delivery ignores the backend in a job's body reference (`cmd/delivery/main.go:391`):
  with a filesystem body store an alert mail, whose body is in Postgres, is nacked for
  ever, though `alerts.ts:91` calls it the handoff ingress does. `MailFlowOps` models
  the default store, where both are the same.
- An alert mail whose publish fails leaves a row `queued` and a body behind for ever
  (`AlertFails`).
- The body is deleted before the ack (`DeleteRelayed`, `AckWork`). A worker that
  dies in between leaves a job that fails in `materialize` for ever; nothing is lost,
  but the job never leaves the queue (`smtp-relay-handover-spec.md:148`).
- Recipients of mail that was only ever deferred are suppressed as hard bounces
  (`Feedback`); `PLAN-mailflow-overhaul.md:75` asks for a permanent failure.
- A requeue forgets `NOTIFY=NEVER` (`RequeuePublish`, against `cmd/dsn/main.go:138`),
  and checks the status before its await, so the body may be gone when the job is
  published, although `routes.ts:216` promises that it still exists.
- Changes announced while a process was disconnected are not read until the next
  change (`Reestablish`, against `amqp.go:414`). Nor is a change that the API could not
  announce (`unsent`), against `bus.ts:90`. `CatchesUp` excludes both.
- A Close that meets a dial in progress ends the supervisor but leaves the new
  connection open (`CloseConn` before `DialSucceeds`, against `amqp.go:469`).
- A client registered during a reconnect may be subscribed twice until the next
  one, each time with its own prefetch (`NoDuplicates` says exactly when, against
  `amqp.go:378`).
- No reload closes the pool of the provider it replaces (against `smtp.go:225`).
- A failed query for the relay domains opens the gate that
  `PLAN-mailflow-overhaul.md:60` describes (`ReadDomains`, `relayDomainOK`).
- `Mail` records RET before it checks anything, so a refused second MAIL changes the
  RET of the message that was accepted; `EnvelopeAsAcknowledged` leaves RET out.
- Reservations cancelled by several callers at once may give back fewer tokens than
  they took (`Cancel`): a rejected burst slows the bucket down. `Conserved` is an
  inequality for that reason.

DNS checks, alerts and DKIM:

- A generation that dies between storing the secret and activating its row leaves a
  selector that is reused graded ok while delivery signs with another key; one that dies
  after retiring leaves the domain unsigned; so does a secret replaced through
  `/api/secrets` (`deliverability.ts:10`: published key == signing key). Two interleaved
  generations leave two active rows (`db.go:187`: one active selector per domain).
  A PUT of rotation=active beside another active selector is accepted as well
  (`routes.ts:60`; the table has no constraint), and rows may be inserted or edited to refer
  to any secret. `RotationClean` excludes these by `mishaps`.
- Delivery signs with a new key as soon as config.changed is handled, not once its
  record is published (`modals.jsx:401`).
- `mergeSpf` adds `-all` to a record that has `redirect=` and no `all`; terms after `all`
  are graded ok; a bare `all` is not recognised by `gradeSpf`, only by `mergeSpf`.
- BIMI takes DMARC for enforced when any TXT record at `_dmarc` has `p=quarantine` or
  `p=reject` anywhere (`deliverability.ts:365`): in `sp=reject` under `p=none`, or in a record
  that `gradeDmarc` ignores because it is no DMARC record, so that DMARC is an error and BIMI
  fine (against :205, "BIMI needs an enforcing DMARC policy"). `GradesAgree` excludes these.
- The MTA-STS policy is fetched by a second lookup of its host, which may lead elsewhere than
  the addresses that were checked; the comment at `deliverability.ts:290` accepts it, and so
  does `GradesAgree`.
- `routedProviderTypes` ignores recipient rules and the order of priority.
- With two replicas each may send its own alert for one transition, and two ticks of
  different replicas count as two checks in a row
  (`docs/PLAN-deliverability-dns-checks.md:250`: a single debounced alert). A change from
  error to warning is reported as a regression.
- The delay between two ticks is handed to `setTimeout`, which takes at most 2^31-1 ms:
  from 597 hours on the scheduler checks without pause (`deliverability.ts:536`).

Admin API and console:

- A change whose announcement fails answers 500 although it is committed, and is not
  audited; an audit row that cannot be written is dropped; operators are created and
  removed through `/api/auth/` without audit (`modals.jsx:471`: every config change).
- Rules with higher priority come first (`db.go:304`); the form says lower runs first
  (`modals.jsx:228`).
- A form sends every column back, so saving one that was opened before another
  client's change undoes it. `LOGIN` is stored as `smtp-auth` and reads back as `PLAIN`.
- The "Enabled" switch of a new account is not sent; saving an existing domain sends
  nothing and reports success; a number field lets 0 through that a CHECK refuses; a
  provider's feedback may carry a reason the suppressions table refuses.
- A create that is retried after its announcement failed meets its own row.
- An expired session shows an empty console instead of the login page (`FetchLists`).
- A setting that is being edited is replaced when a reload brings another value
  (`Redrawn`).

`StatusTruthful` says only that the status is no claim of something that did not
happen; it may well be out of date, for a failed `RecordAttempt` is ignored and a
slower copy may overwrite a later status.

## 7. Plan

In this order:

1. `BodyStore`: the temporary file, rename and fan-out directories of `FSStore.Put`
   beside `Walk` and `Delete` of the sweep, refining the set of keys of `MailFlow`.
2. The MX loop of the direct provider and the Gmail token cache.
3. The notification, deliverability and alert screens of the console, whose loads
   overlap like those of the store.

Not modelled: cryptography and message formatting (`dkim`, `secrets`, `buildDSN`); the
parsing of DNS records; the posting of a webhook and the test of a channel or a
provider; metrics, dashboards, charts and the console's rendering, profile and password
modals; two writes of one browser at once (a second click before the first reply);
shutdown, health endpoints, TLS set-up and tracing.
