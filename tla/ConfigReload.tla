---------------------------- MODULE ConfigReload ----------------------------
(***************************************************************************)
(* Configuration, from the Admin API to the data plane.  A CRUD handler    *)
(* commits its row and then publishes config.changed to a fanout; every    *)
(* ingress and delivery process holds an exclusive queue on it, and each   *)
(* event makes it read all configuration slices, one query after the      *)
(* other, into a new snapshot that replaces the old one.                   *)
(*                                                                         *)
(* A slice is represented by its version: how many writes it has seen.     *)
(***************************************************************************)
EXTENDS Naturals, Sequences

CONSTANTS
    Node,       \* data-plane processes
    Handler,    \* Admin API requests that may be in flight at once
    NSlices,    \* the queries buildState / buildInbound make, in order
    MaxWrites,  \* bound on configuration changes
    MaxDrops,   \* bound on connection losses of data-plane processes
    MaxErrors   \* bound on failed queries and on losses of the API's channel

ASSUME ConfigAssumption ==
    /\ NSlices \in Nat \ {0} /\ MaxWrites \in Nat /\ MaxDrops \in Nat /\ MaxErrors \in Nat

Slice == 1..NSlices
Sub == 1..(2 * MaxDrops + 2)     \* subscriptions a process may open, in order

\* What a failed query leaves behind: no rows.
Nothing == 0

VARIABLES
    row,      \* version of each slice in Postgres
    api,      \* where each request is: "idle", "committed" or "epoch"
    chan,     \* has the Admin API a channel?
    node,     \* a process: "boot", "built", "registered" or "run"
    up,       \* is its connection up?
    opened,   \* how many subscriptions it has opened
    inbox,    \* events each of its subscriptions has been given and not handled
    bound,    \* its subscriptions that the fanout reaches
    acc,      \* rows read so far by each reader; reader 0 is main's own
    reading,  \* its readers that are at work
    snap,     \* the snapshot handle and the sessions use
    drops, errors

\* Observations of the past: why a process may be behind (an event came before
\* it had subscribed, its connection was lost, a query failed), and whether a
\* change was left without an event.
VARIABLES missed, unsent

vars == <<row, api, chan, node, up, opened, inbox, bound, acc, reading, snap,
          drops, errors, missed, unsent>>

Init ==
    /\ row = [s \in Slice |-> 1]
    /\ api = [h \in Handler |-> "idle"] /\ chan = TRUE
    /\ node = [n \in Node |-> "boot"] /\ up = [n \in Node |-> TRUE]
    /\ opened = [n \in Node |-> 0]
    /\ inbox = [n \in Node |-> [g \in Sub |-> 0]] /\ bound = [n \in Node |-> {}]
    /\ acc = [n \in Node |-> [g \in {0} \cup Sub |-> <<>>]]
    /\ reading = [n \in Node |-> {0}]
    /\ snap = [n \in Node |-> [s \in Slice |-> Nothing]]
    /\ drops = 0 /\ errors = 0
    /\ missed = [n \in Node |-> {}] /\ unsent = FALSE
-----------------------------------------------------------------------------
(***************************************************************************)
(* The Admin API.                                                          *)
(***************************************************************************)
nodeUnchanged == UNCHANGED <<node, up, opened, bound, acc, reading, snap, drops>>

TotalWrites == LET sum[s \in 0..NSlices] == IF s = 0 THEN 0 ELSE row[s] - 1 + sum[s - 1]
               IN  sum[NSlices]

\* POST, PUT or DELETE of a resource: the row is committed.
Commit(h, s) ==
    /\ api[h] = "idle" /\ TotalWrites < MaxWrites
    /\ row' = [row EXCEPT ![s] = @ + 1]
    /\ api' = [api EXCEPT ![h] = "committed"]
    /\ UNCHANGED <<chan, inbox, errors, missed, unsent>> /\ nodeUnchanged

\* One of the failures the bound allows.
Error == errors < MaxErrors /\ errors' = errors + 1

\* publishConfigChanged: nothing to do without a channel, else take an epoch.
\* When that query throws the change stands and the request answers 500.
TakeEpoch(h) ==
    /\ api[h] = "committed"
    /\ \/ /\ chan /\ api' = [api EXCEPT ![h] = "epoch"]
          /\ UNCHANGED <<errors, unsent>>
       \/ /\ \/ ~chan /\ UNCHANGED errors
             \/ chan /\ Error
          /\ api' = [api EXCEPT ![h] = "idle"] /\ unsent' = TRUE
    /\ UNCHANGED <<row, chan, inbox, missed>> /\ nodeUnchanged

\* The fanout gives a copy to every queue bound to it.
FanOut ==
    /\ inbox' = [n \in Node |->
                   [g \in Sub |-> IF g \in bound[n] THEN inbox[n][g] + 1 ELSE inbox[n][g]]]
    /\ missed' = [n \in Node |->
                    IF node[n] # "run" /\ bound[n] = {} THEN missed[n] \cup {"boot"} ELSE missed[n]]

\* chan.publish.  Without a channel by now it throws, and the request answers 500;
\* a frame written to a dying connection is lost with it.
Announce(h) ==
    /\ api[h] = "epoch" /\ api' = [api EXCEPT ![h] = "idle"]
    /\ \/ chan /\ FanOut /\ UNCHANGED <<chan, errors, unsent>>
       \/ /\ \/ ~chan /\ UNCHANGED <<chan, errors>>
             \/ chan /\ Error /\ chan' = FALSE
          /\ unsent' = TRUE /\ UNCHANGED <<inbox, missed>>
    /\ UNCHANGED row /\ nodeUnchanged

\* onLost, and the connect that scheduleReconnect brings about.
ChannelLost ==
    /\ chan /\ Error /\ chan' = FALSE
    /\ UNCHANGED <<row, api, inbox, missed, unsent>> /\ nodeUnchanged

ChannelBack ==
    /\ ~chan /\ chan' = TRUE
    /\ UNCHANGED <<row, api, inbox, errors, missed, unsent>> /\ nodeUnchanged
-----------------------------------------------------------------------------
(***************************************************************************)
(* A data-plane process: buildState / buildInbound, and its subscriptions. *)
(***************************************************************************)
apiUnchanged == UNCHANGED <<row, api, chan, unsent>>

\* One of the queries.  Its error is logged and the slice stays empty.
Load(n, g) ==
    /\ g \in reading[n] /\ Len(acc[n][g]) < NSlices
    /\ \/ /\ acc' = [acc EXCEPT ![n][g] = Append(@, row[Len(@) + 1])]
          /\ UNCHANGED <<errors, missed>>
       \/ /\ acc' = [acc EXCEPT ![n][g] = Append(@, Nothing)]
          /\ Error
          /\ missed' = [missed EXCEPT ![n] = @ \cup {"query"}]
    /\ UNCHANGED <<node, up, opened, inbox, bound, reading, snap, drops>> /\ apiUnchanged

\* Variant: a snapshot is held back while another event waits behind it.
StoreLast(n, g) ==
    /\ g \in reading[n] /\ Len(acc[n][g]) = NSlices
    /\ g # 0 => inbox[n][g] = 0
    /\ snap' = [snap EXCEPT ![n] = acc[n][g]]
    /\ acc' = [acc EXCEPT ![n][g] = <<>>]
    /\ reading' = [reading EXCEPT ![n] = @ \ {g}]
    /\ node' = [node EXCEPT ![n] = IF g = 0 THEN "built" ELSE @]
    /\ UNCHANGED <<up, opened, inbox, bound, drops, errors, missed>> /\ apiUnchanged

\* The snapshot is complete: state.Store swaps it in.
Store(n, g) ==
    /\ g \in reading[n] /\ Len(acc[n][g]) = NSlices
    /\ snap' = [snap EXCEPT ![n] = acc[n][g]]
    /\ acc' = [acc EXCEPT ![n][g] = <<>>]
    /\ reading' = [reading EXCEPT ![n] = @ \ {g}]
    /\ node' = [node EXCEPT ![n] = IF g = 0 THEN "built" ELSE @]
    /\ UNCHANGED <<up, opened, inbox, bound, drops, errors, missed>> /\ apiUnchanged

\* SubscribeConfig registers its handler ...
Register(n) ==
    /\ node[n] = "built" /\ node' = [node EXCEPT ![n] = "registered"]
    /\ UNCHANGED <<up, opened, inbox, bound, acc, reading, snap, drops, errors, missed>>
    /\ apiUnchanged

\* Variant: the handler is subscribed twice, by SubscribeConfig and by a registry.
OpenTwice(n) ==
    /\ opened' = [opened EXCEPT ![n] = @ + 2]
    /\ bound' = [bound EXCEPT ![n] = @ \cup {opened[n] + 1, opened[n] + 2}]

\* startConfigSub: a fresh exclusive queue, bound to the fanout.
Open(n) ==
    /\ opened' = [opened EXCEPT ![n] = @ + 1]
    /\ bound' = [bound EXCEPT ![n] = @ \cup {opened[n] + 1}]

\* ... and subscribes.  When the connection is down it fails and main exits, to be
\* started again.
Subscribe(n) ==
    /\ node[n] = "registered"
    /\ IF up[n]
       THEN node' = [node EXCEPT ![n] = "run"] /\ Open(n) /\ UNCHANGED <<reading, snap>>
       ELSE /\ node' = [node EXCEPT ![n] = "boot"]
            /\ reading' = [reading EXCEPT ![n] = {0}]
            /\ snap' = [snap EXCEPT ![n] = [s \in Slice |-> Nothing]]
            /\ UNCHANGED <<opened, bound>>
    /\ UNCHANGED <<up, inbox, acc, drops, errors, missed>> /\ apiUnchanged

\* Variant: events that arrive during a reload are taken to be served by it.
ReceiveCoalesced(n, g) ==
    /\ inbox[n][g] > 0
    /\ inbox' = [inbox EXCEPT ![n][g] = @ - 1]
    /\ reading' = [reading EXCEPT ![n] = @ \cup {g}]
    /\ UNCHANGED <<node, up, opened, bound, acc, snap, drops, errors, missed>>
    /\ apiUnchanged

\* A subscription's goroutine takes its next event.
Receive(n, g) ==
    /\ inbox[n][g] > 0 /\ g \notin reading[n]
    /\ inbox' = [inbox EXCEPT ![n][g] = @ - 1]
    /\ reading' = [reading EXCEPT ![n] = @ \cup {g}]
    /\ UNCHANGED <<node, up, opened, bound, acc, snap, drops, errors, missed>>
    /\ apiUnchanged

\* The connection is lost and its queues with it.  Events already pushed to the
\* client are still handled, and a reader at work reads on.
Drop(n) ==
    /\ up[n] /\ drops < MaxDrops /\ drops' = drops + 1
    /\ up' = [up EXCEPT ![n] = FALSE] /\ bound' = [bound EXCEPT ![n] = {}]
    /\ \/ UNCHANGED inbox
       \/ inbox' = [inbox EXCEPT ![n] = [g \in Sub |-> 0]]
    /\ missed' = [missed EXCEPT ![n] = @ \cup {"drop"}]
    /\ UNCHANGED <<node, opened, acc, reading, snap, errors>> /\ apiUnchanged

\* reconnect and reestablish: every registered handler gets a new subscription.
Reestablish(n) ==
    /\ ~up[n] /\ up' = [up EXCEPT ![n] = TRUE]
    /\ IF node[n] \in {"registered", "run"} THEN Open(n) ELSE UNCHANGED <<opened, bound>>
    /\ UNCHANGED <<node, inbox, acc, reading, snap, drops, errors, missed>> /\ apiUnchanged

NodeStep(n) ==
    \/ \E g \in {0} \cup Sub : Load(n, g) \/ Store(n, g)
    \/ \E g \in Sub : Receive(n, g)
    \/ Register(n) \/ Subscribe(n) \/ Drop(n) \/ Reestablish(n)

ApiStep ==
    \/ \E h \in Handler, s \in Slice : Commit(h, s)
    \/ \E h \in Handler : TakeEpoch(h) \/ Announce(h)
    \/ ChannelLost \/ ChannelBack

Next == ApiStep \/ \E n \in Node : NodeStep(n)

Spec == Init /\ [][Next]_vars

\* Queries return, goroutines run, the supervisor redials.
Fairness ==
    /\ \A h \in Handler : WF_vars(TakeEpoch(h) \/ Announce(h))
    /\ \A n \in Node :
          /\ WF_vars(Register(n) \/ Subscribe(n)) /\ WF_vars(Reestablish(n))
          /\ \A g \in {0} \cup Sub : WF_vars(Load(n, g) \/ Store(n, g))
          /\ \A g \in Sub : WF_vars(Receive(n, g))

FairSpec == Spec /\ Fairness
-----------------------------------------------------------------------------
(***************************************************************************)
(* Properties.                                                             *)
(***************************************************************************)
\* No change is being announced and n has nothing left to do.
AtRest(n) ==
    /\ \A h \in Handler : api[h] = "idle"
    /\ node[n] = "run" /\ up[n] /\ reading[n] = {} /\ \A g \in Sub : inbox[n][g] = 0

\* A process that was subscribed in time, kept its connection and had no query
\* fail has caught up with Postgres once everything has come to rest, although
\* each reload reads its slices at different moments and changes overtake it.
CatchesUp == \A n \in Node : AtRest(n) /\ missed[n] = {} /\ ~unsent => snap[n] = row

\* Nor does it ever exchange a slice for an older version of it.
NeverGoesBack ==
    [][\A n \in Node : missed'[n] = {} => \A s \in Slice : snap'[n][s] >= snap[n][s]]_vars

\* It does come to rest, with the current configuration.
EventuallyCurrent ==
    \A n \in Node : <>[](missed[n] # {} \/ unsent \/ snap[n] = row)
=============================================================================
