------------------------------ MODULE AmqpConn ------------------------------
(***************************************************************************)
(* The self-healing bus connection of a data-plane process.  A supervisor  *)
(* goroutine waits for the connection to be lost, dials a new one and      *)
(* subscribes every registered consumer and configuration handler again;   *)
(* main registers them meanwhile, and closes the connection at shutdown.   *)
(* Connections are numbered; what hangs off a lost one is gone with it.    *)
(***************************************************************************)
EXTENDS Naturals, FiniteSets

CONSTANTS
    Consumer,   \* queue consumers the process registers
    Handler,    \* configuration handlers it registers
    MaxConns,   \* bound on connections dialled; the last one is not lost
    MaxFaults,  \* bound on failures that leave the connection up
    None

Client == Consumer \cup Handler

ASSUME AmqpAssumption ==
    /\ MaxConns \in Nat \ {0} /\ MaxFaults \in Nat
    /\ None \notin Client /\ Consumer \cap Handler = {}

VARIABLES
    conn,       \* c.conn
    up,         \* is it open?
    live,       \* how many subscriptions of each client it carries
    registry,   \* c.consumers and c.configHandlers
    regMu,      \* who holds the registry lock: "free", "main" or "supervisor"
    sup,        \* the supervisor goroutine
    todo,       \* what reestablish has yet to subscribe
    main,       \* the main goroutine
    cur,        \* the client main is registering
    on,         \* the connection it read for that
    closed,     \* c.closed
    faults

\* Observations of the past, per connection: clients that lost their subscription
\* although the connection is up, and clients registered during a reconnect.
VARIABLES hurt, raced

connVars == <<conn, up, live>>
supVars == <<sup, todo>>
mainVars == <<main, cur, on>>
vars == <<conn, up, live, registry, regMu, sup, todo, main, cur, on, closed,
          faults, hurt, raced>>

\* Dial: the first connection is up before anything else happens.
Init ==
    /\ conn = 1 /\ up = TRUE /\ live = [c \in Client |-> 0]
    /\ registry = {} /\ regMu = "free" /\ sup = "watch" /\ todo = {}
    /\ main = "idle" /\ cur = None /\ on = 0
    /\ closed = FALSE /\ faults = 0 /\ hurt = {} /\ raced = {}

Running == main # "exited"

Registering == main \in {"start", "open", "append"}

Fault == faults < MaxFaults /\ faults' = faults + 1

-----------------------------------------------------------------------------
(* Main.                                                                   *)

\* registerConsumer holds the registry lock until the consumer is registered.
RegisterConsumer(c) ==
    /\ main = "idle" /\ ~closed /\ c \in Consumer \ registry /\ regMu = "free"
    /\ regMu' = "main" /\ main' = "start" /\ cur' = c
    /\ raced' = IF sup = "watch" THEN raced ELSE raced \cup {c}
    /\ UNCHANGED <<connVars, registry, supVars, on, closed, faults, hurt>>

\* SubscribeConfig registers the handler under the lock and subscribes without it.
SubscribeConfig(c) ==
    /\ main = "idle" /\ ~closed /\ c \in Handler \ registry /\ regMu = "free"
    /\ registry' = registry \cup {c} /\ main' = "start" /\ cur' = c
    /\ raced' = IF sup = "watch" THEN raced ELSE raced \cup {c}
    /\ UNCHANGED <<connVars, regMu, supVars, on, closed, faults, hurt>>

ReadConn ==
    /\ main = "start"
    /\ main' = "open" /\ on' = conn
    /\ UNCHANGED <<connVars, registry, regMu, supVars, cur, closed, faults, hurt, raced>>

\* startConsumer or startConfigSub on the connection main has read.
Opened ==
    /\ main = "open" /\ up /\ on = conn
    /\ live' = [live EXCEPT ![cur] = @ + 1]
    /\ main' = "append"
    /\ UNCHANGED <<conn, up, registry, regMu, supVars, cur, on, closed, faults,
                   hurt, raced>>

\* The consumer is registered only now, and the lock released.
Append ==
    /\ main = "append"
    /\ registry' = registry \cup {cur}
    /\ regMu' = IF cur \in Consumer THEN "free" ELSE regMu
    /\ main' = "idle" /\ cur' = None /\ on' = 0
    /\ UNCHANGED <<connVars, supVars, closed, faults, hurt, raced>>

\* A registration that fails ends the process.
OpenFails ==
    /\ main = "open"
    /\ \/ ~(up /\ on = conn) /\ UNCHANGED faults
       \/ Fault
    /\ main' = "exited"
    /\ UNCHANGED <<connVars, registry, regMu, supVars, cur, on, closed, hurt, raced>>

\* The deferred Close, in two steps: the flag, then whatever connection is there.
CloseFlag ==
    /\ main = "idle" /\ registry = Client /\ ~closed
    /\ closed' = TRUE /\ main' = "closing"
    /\ UNCHANGED <<connVars, registry, regMu, supVars, cur, on, faults, hurt, raced>>

CloseConn ==
    /\ main = "closing"
    /\ main' = "closed" /\ up' = FALSE /\ live' = [c \in Client |-> 0]
    /\ UNCHANGED <<conn, registry, regMu, supVars, cur, on, closed, faults, hurt, raced>>

-----------------------------------------------------------------------------
(* The supervisor.                                                         *)

Supervisor(from, to) == Running /\ sup = from /\ sup' = to

\* Variant: the supervisor never looks at c.closed.
EndsNever(next) == next

Ends(next) == IF closed THEN "ended" ELSE next

\* supervise: NotifyClose fires, also for a connection that is already closed.
\* Variant: it reconnects although nothing was lost.
LossNoticedEarly ==
    /\ Supervisor("watch", Ends("redial"))
    /\ raced' = IF Registering THEN raced \cup {cur} ELSE raced
    /\ UNCHANGED <<connVars, registry, regMu, todo, mainVars, closed, faults, hurt>>

LossNoticed ==
    /\ ~up /\ Supervisor("watch", Ends("redial"))
    /\ raced' = IF Registering THEN raced \cup {cur} ELSE raced
    /\ UNCHANGED <<connVars, registry, regMu, todo, mainVars, closed, faults, hurt>>

\* reconnect: the flag is tested before each attempt, not after it.
Redial ==
    /\ Supervisor("redial", Ends("dialling"))
    /\ UNCHANGED <<connVars, registry, regMu, todo, mainVars, closed, faults, hurt, raced>>

DialFails ==
    /\ Supervisor("dialling", "redial")
    /\ UNCHANGED <<connVars, registry, regMu, todo, mainVars, closed, faults, hurt, raced>>

\* connect: connection, channel and topology, then c.conn and c.ch are swapped.
DialSucceeds ==
    /\ conn < MaxConns /\ Supervisor("dialling", "lock")
    /\ conn' = conn + 1 /\ up' = TRUE
    /\ hurt' = {} /\ raced' = IF Registering THEN {cur} ELSE {}
    /\ UNCHANGED <<live, registry, regMu, todo, mainVars, closed, faults>>

\* Variant: reestablish does not wait for the registry lock.
TakeLockFreely ==
    /\ Supervisor("lock", "resub")
    /\ regMu' = "supervisor" /\ todo' = registry
    /\ UNCHANGED <<connVars, registry, mainVars, closed, faults, hurt, raced>>

TakeLock ==
    /\ Supervisor("lock", "resub") /\ regMu = "free"
    /\ regMu' = "supervisor" /\ todo' = registry
    /\ UNCHANGED <<connVars, registry, mainVars, closed, faults, hurt, raced>>

\* reestablish: consumers first, then handlers; an error is logged and no more.
Resubscribe(c) ==
    /\ Running /\ sup = "resub" /\ c \in todo
    /\ c \in Consumer \/ todo \cap Consumer = {}
    /\ todo' = todo \ {c}
    /\ \/ up /\ live' = [live EXCEPT ![c] = @ + 1] /\ UNCHANGED <<faults, hurt>>
       \/ ~up /\ UNCHANGED <<live, faults, hurt>>
       \/ up /\ Fault /\ hurt' = hurt \cup {c} /\ UNCHANGED live
    /\ UNCHANGED <<conn, up, registry, regMu, sup, mainVars, closed, raced>>

\* Variant: the lock is not released.
ResubDoneLocked ==
    /\ Supervisor("resub", Ends("watch")) /\ todo = {}
    /\ UNCHANGED <<connVars, registry, regMu, todo, mainVars, closed, faults, hurt, raced>>

ResubDone ==
    /\ Supervisor("resub", Ends("watch")) /\ todo = {}
    /\ regMu' = "free"
    /\ UNCHANGED <<connVars, registry, todo, mainVars, closed, faults, hurt, raced>>

-----------------------------------------------------------------------------
(* The broker.                                                             *)

ConnLost ==
    /\ Running /\ up /\ conn < MaxConns
    /\ up' = FALSE /\ live' = [c \in Client |-> 0]
    /\ UNCHANGED <<conn, registry, regMu, supVars, mainVars, closed, faults, hurt, raced>>

\* The broker closes one channel and leaves the connection up: the forwarding
\* goroutine ends, and nobody watches it.
ChannelClosed(c) ==
    /\ Running /\ live[c] > 0 /\ Fault
    /\ live' = [live EXCEPT ![c] = @ - 1] /\ hurt' = hurt \cup {c}
    /\ UNCHANGED <<conn, up, registry, regMu, supVars, mainVars, closed, raced>>

-----------------------------------------------------------------------------
Main ==
    \/ \E c \in Client : RegisterConsumer(c) \/ SubscribeConfig(c)
    \/ ReadConn \/ Opened \/ Append \/ OpenFails \/ CloseFlag \/ CloseConn

Supervise ==
    \/ LossNoticed \/ Redial \/ DialFails \/ DialSucceeds \/ TakeLock
    \/ \E c \in Client : Resubscribe(c)
    \/ ResubDone

Broker == ConnLost \/ \E c \in Client : ChannelClosed(c)

Next == Main \/ Supervise \/ Broker

Spec == Init /\ [][Next]_vars

\* The supervisor and a registration in progress run on; a broker that is there
\* again is eventually reached.  Main shuts down only when it is told to.
Fairness ==
    /\ WF_vars(Supervise) /\ SF_vars(DialSucceeds)
    /\ WF_vars(ReadConn \/ Opened \/ Append \/ OpenFails \/ CloseConn)

FairSpec == Spec /\ Fairness

-----------------------------------------------------------------------------
\* Once the supervisor watches a connection again, no client is left without its
\* subscription: a registration can be early or late, but not slip between the
\* end of one reestablish and the registry.  (registerConsumer's comment.)
NoneMissed ==
    Running /\ sup = "watch" /\ up =>
        \A c \in registry \ {cur} : live[c] > 0 \/ c \in hurt

\* A queue is consumed once per connection, and twice at most if the client was
\* registered while the supervisor was reconnecting; the next reconnect repairs that.
NoDuplicates == \A c \in Client : live[c] <= IF c \in raced THEN 2 ELSE 1

\* The connection heals: however losses, registrations and reconnects interleave,
\* in the end every registered client has its subscription, unless the broker took
\* it away alone or the process has ended.
Heals ==
    <>[](\/ ~Running \/ closed
         \/ up /\ \A c \in registry : live[c] > 0 \/ c \in hurt)

\* Close ends the supervisor, also one that is in the middle of a reconnect.
CloseStops == closed ~> sup = "ended"
=============================================================================
