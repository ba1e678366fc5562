--------------------------- MODULE AmqpConnProofs ---------------------------
(***************************************************************************)
(* The self-healing connection, for any number of consumers, handlers,     *)
(* connections and failures: a registration that crosses a reconnect is    *)
(* not missed, and the subscriptions of a client on one connection stay    *)
(* within what NoDuplicates allows.                                        *)
(***************************************************************************)
EXTENDS AmqpConn, TLAPS

Typed ==
    /\ conn \in Nat /\ on \in Nat /\ up \in BOOLEAN /\ live \in [Client -> Nat]
    /\ registry \subseteq Client /\ regMu \in {"free", "main", "supervisor"}
    /\ sup \in {"watch", "redial", "dialling", "lock", "resub", "ended"}
    /\ todo \subseteq registry
    /\ main \in {"idle", "start", "open", "append", "exited", "closing", "closed"}
    /\ cur \in Client \cup {None}
    /\ closed \in BOOLEAN /\ faults \in Nat /\ hurt \subseteq Client /\ raced \subseteq Client

\* Main holds the registry lock as long as it registers a consumer, the supervisor as
\* long as it subscribes; a consumer enters the registry last, a handler first.
Locked ==
    /\ cur = None <=> main \in {"idle", "closing", "closed"}
    /\ regMu = "main" <=> cur \in Consumer
    /\ regMu = "supervisor" <=> sup = "resub"
    /\ cur \in Consumer => cur \notin registry
    /\ cur \in Handler => cur \in registry

\* Nothing hangs off a connection that is lost, or belongs to a client main has not
\* come to; and the supervisor dials only when there is no connection.
Hanging ==
    /\ ~up => \A c \in Client : live[c] = 0
    /\ \A c \in Client \ (registry \cup {cur}) : live[c] = 0
    /\ sup \in {"redial", "dialling"} => ~up

\* The subscription main is about to make, and the one the supervisor is.
ByMain(c) == c = cur /\ main \in {"start", "open"}
BySupervisor(c) == sup = "lock" \/ (sup = "resub" /\ c \in todo)

\* NoneMissed, at every step of a reconnect.
Served ==
    up => \A c \in Client :
        (c \in registry \/ c = cur) /\ (c = cur => main = "append") =>
            live[c] > 0 \/ c \in hurt \/ BySupervisor(c)

\* NoDuplicates, with the subscriptions that are still to come.
Counted ==
    \A c \in Client :
        live[c] + (IF ByMain(c) THEN 1 ELSE 0) + (IF BySupervisor(c) THEN 1 ELSE 0)
            <= IF c \in raced THEN 2 ELSE 1

IInv == Typed /\ Locked /\ Hanging /\ Served /\ Counted
-----------------------------------------------------------------------------
LEMMA InitHolds == Init => IInv
<1> SUFFICES ASSUME Init PROVE IInv
  OBVIOUS
<1> USE AmqpAssumption DEF Init
<1>1. Typed
  BY DEF Typed
<1>2. Locked /\ Hanging
  BY DEF Locked, Hanging, Client
<1>3. \A c \in Client : ~ByMain(c) /\ ~BySupervisor(c)
  BY DEF ByMain, BySupervisor
<1>4. Served /\ Counted
  BY <1>3 DEF Served, Counted
<1> QED
  BY <1>1, <1>2, <1>4 DEF IInv

LEMMA TypedStep == Typed /\ Locked /\ [Next]_vars => Typed'
<1> SUFFICES ASSUME Typed, Locked, [Next]_vars PROVE Typed'
  OBVIOUS
<1> USE DEF Typed, connVars, supVars, mainVars, Client
<1>1. ASSUME NEW c \in Client, RegisterConsumer(c) \/ SubscribeConfig(c) PROVE Typed'
  BY <1>1 DEF RegisterConsumer, SubscribeConfig
<1>2. CASE ReadConn \/ Append \/ CloseFlag \/ CloseConn
  <2>1. CASE ReadConn
    BY <2>1 DEF ReadConn
  <2>2. CASE Append
    <3>1. cur \in Client /\ registry' = registry \cup {cur} /\ todo' = todo
      BY <2>2, AmqpAssumption DEF Append, Locked
    <3> QED
      BY <2>2, <3>1 DEF Append
  <2>3. CASE CloseFlag
    BY <2>3 DEF CloseFlag
  <2>4. CASE CloseConn
    BY <2>4 DEF CloseConn
  <2> QED
    BY <1>2, <2>1, <2>2, <2>3, <2>4
<1>3. CASE Opened \/ OpenFails
  BY <1>3 DEF Opened, OpenFails, Locked, Fault
<1>4. CASE LossNoticed \/ Redial \/ DialFails \/ DialSucceeds
  <2>1. Registering => cur \in Client
    BY DEF Registering, Locked
  <2>2. CASE LossNoticed
    BY <2>1, <2>2 DEF LossNoticed, Supervisor, Ends
  <2>3. CASE Redial \/ DialFails
    BY <2>3 DEF Redial, DialFails, Supervisor, Ends
  <2>4. CASE DialSucceeds
    BY <2>1, <2>4 DEF DialSucceeds, Supervisor
  <2> QED
    BY <1>4, <2>2, <2>3, <2>4
<1>5. CASE TakeLock \/ ResubDone
  BY <1>5 DEF TakeLock, ResubDone, Supervisor, Ends
<1>6. ASSUME NEW c \in Client, Resubscribe(c) \/ ChannelClosed(c) PROVE Typed'
  BY <1>6 DEF Resubscribe, ChannelClosed, Fault
<1>7. CASE ConnLost
  BY <1>7 DEF ConnLost
<1>8. CASE UNCHANGED vars
  BY <1>8 DEF vars
<1> QED
  BY <1>1, <1>2, <1>3, <1>4, <1>5, <1>6, <1>7, <1>8 DEF Next, Main, Supervise, Broker

LEMMA LockedStep == Typed /\ Locked /\ [Next]_vars => Locked'
<1> SUFFICES ASSUME Typed, Locked, [Next]_vars PROVE Locked'
  OBVIOUS
<1> USE AmqpAssumption DEF Locked, connVars, supVars, mainVars, Client
<1>1. ASSUME NEW c \in Client, RegisterConsumer(c) \/ SubscribeConfig(c) PROVE Locked'
  BY <1>1 DEF RegisterConsumer, SubscribeConfig
<1>2. CASE ReadConn \/ Append \/ CloseFlag \/ CloseConn
  BY <1>2 DEF ReadConn, Append, CloseFlag, CloseConn, Typed
<1>3. CASE Opened \/ OpenFails
  BY <1>3 DEF Opened, OpenFails
<1>4. CASE LossNoticed \/ Redial \/ DialFails \/ DialSucceeds
  BY <1>4 DEF LossNoticed, Redial, DialFails, DialSucceeds, Supervisor, Ends
<1>5. CASE TakeLock \/ ResubDone
  BY <1>5 DEF TakeLock, ResubDone, Supervisor, Ends
<1>6. ASSUME NEW c \in Client, Resubscribe(c) \/ ChannelClosed(c) PROVE Locked'
  BY <1>6 DEF Resubscribe, ChannelClosed
<1>7. CASE ConnLost \/ UNCHANGED vars
  BY <1>7 DEF ConnLost, vars
<1> QED
  BY <1>1, <1>2, <1>3, <1>4, <1>5, <1>6, <1>7 DEF Next, Main, Supervise, Broker

LEMMA HangingStep == Typed /\ Locked /\ Hanging /\ [Next]_vars => Hanging'
<1> SUFFICES ASSUME Typed, Locked, Hanging, [Next]_vars PROVE Hanging'
  OBVIOUS
<1> USE AmqpAssumption DEF Hanging, connVars, supVars, mainVars, Client
<1>1. ASSUME NEW c \in Client, RegisterConsumer(c) \/ SubscribeConfig(c) PROVE Hanging'
  BY <1>1 DEF RegisterConsumer, SubscribeConfig, Locked
<1>2. CASE ReadConn \/ Append \/ CloseFlag \/ CloseConn
  BY <1>2 DEF ReadConn, Append, CloseFlag, CloseConn, Typed
<1>3. CASE Opened \/ OpenFails
  BY <1>3 DEF Opened, OpenFails, Typed
<1>4. CASE LossNoticed \/ Redial \/ DialFails \/ DialSucceeds
  BY <1>4 DEF LossNoticed, Redial, DialFails, DialSucceeds, Supervisor, Ends
<1>5. CASE TakeLock \/ ResubDone
  BY <1>5 DEF TakeLock, ResubDone, Supervisor, Ends
<1>6. ASSUME NEW c \in Client, Resubscribe(c) \/ ChannelClosed(c) PROVE Hanging'
  BY <1>6 DEF Resubscribe, ChannelClosed, Typed
<1>7. CASE ConnLost \/ UNCHANGED vars
  BY <1>7 DEF ConnLost, vars
<1> QED
  BY <1>1, <1>2, <1>3, <1>4, <1>5, <1>6, <1>7 DEF Next, Main, Supervise, Broker

\* A client is missed by main and the supervisor only on a connection that is lost.
LEMMA ServedStep == Typed /\ Locked /\ Hanging /\ Served /\ [Next]_vars => Served'
<1> SUFFICES ASSUME Typed, Locked, Hanging, Served, [Next]_vars PROVE Served'
  OBVIOUS
<1> USE AmqpAssumption DEF Served, BySupervisor, connVars, supVars, mainVars, Client
<1>1. ASSUME NEW c \in Client, RegisterConsumer(c) \/ SubscribeConfig(c) PROVE Served'
  BY <1>1 DEF RegisterConsumer, SubscribeConfig, Locked
<1>2. CASE ReadConn \/ Append \/ CloseFlag \/ CloseConn
  BY <1>2 DEF ReadConn, Append, CloseFlag, CloseConn, Typed
<1>3. CASE Opened \/ OpenFails
  <2>1. CASE Opened
    <3>1. cur \in Client /\ live'[cur] > 0 /\ main' = "append" /\ cur' = cur
      BY <2>1 DEF Opened, Locked, Typed
    <3>2. \A c \in Client : c # cur => live'[c] = live[c]
      BY <2>1 DEF Opened, Typed
    <3> QED
      BY <2>1, <3>1, <3>2 DEF Opened
  <2>2. CASE OpenFails
    BY <2>2 DEF OpenFails
  <2> QED
    BY <1>3, <2>1, <2>2
<1>4. CASE LossNoticed \/ Redial \/ DialFails \/ DialSucceeds
  BY <1>4 DEF LossNoticed, Redial, DialFails, DialSucceeds, Supervisor, Ends, Hanging
<1>5. CASE TakeLock \/ ResubDone
  <2>1. CASE TakeLock
    <3>1. /\ sup' = "resub" /\ todo' = registry /\ cur \notin Consumer
          /\ UNCHANGED <<up, live, registry, main, cur, hurt>>
      BY <2>1 DEF TakeLock, Supervisor, Locked
    <3>2. \A c \in Client : c \in registry \/ c = cur => c \in registry
      BY <3>1 DEF Locked
    <3> QED
      BY <3>1, <3>2
  <2>2. CASE ResubDone
    BY <2>2 DEF ResubDone, Supervisor, Ends
  <2> QED
    BY <1>5, <2>1, <2>2
<1>6. ASSUME NEW c \in Client, Resubscribe(c) \/ ChannelClosed(c) PROVE Served'
  <2>1. /\ UNCHANGED <<up, registry, main, cur, sup>>
        /\ (live'[c] > 0 \/ c \in hurt' \/ ~up)
        /\ (live[c] > 0 \/ c \in hurt => live'[c] > 0 \/ c \in hurt')
        /\ \A d \in Client : d # c => live'[d] = live[d] /\ (d \in todo => d \in todo')
        /\ hurt \subseteq hurt'
    BY <1>6 DEF Resubscribe, ChannelClosed, Typed
  <2> QED
    BY <2>1
<1>7. CASE ConnLost \/ UNCHANGED vars
  BY <1>7 DEF ConnLost, vars
<1> QED
  BY <1>1, <1>2, <1>3, <1>4, <1>5, <1>6, <1>7 DEF Next, Main, Supervise, Broker

LEMMA CountedStep == Typed /\ Locked /\ Hanging /\ Counted /\ [Next]_vars => Counted'
<1> SUFFICES ASSUME Typed, Locked, Hanging, Counted, [Next]_vars PROVE Counted'
  OBVIOUS
<1> USE AmqpAssumption
    DEF Counted, ByMain, BySupervisor, connVars, supVars, mainVars, Client
<1>1. ASSUME NEW c \in Client, RegisterConsumer(c) \/ SubscribeConfig(c) PROVE Counted'
  BY <1>1 DEF RegisterConsumer, SubscribeConfig, Locked, Hanging, Typed
<1>2. CASE ReadConn \/ Append \/ CloseFlag \/ CloseConn
  BY <1>2 DEF ReadConn, Append, CloseFlag, CloseConn, Typed
<1>3. CASE Opened \/ OpenFails
  BY <1>3 DEF Opened, OpenFails, Typed
<1>4. CASE LossNoticed \/ Redial \/ DialFails
  BY <1>4 DEF LossNoticed, Redial, DialFails, Supervisor, Ends, Typed
<1>5. CASE DialSucceeds
  BY <1>5 DEF DialSucceeds, Supervisor, Hanging, Registering, Typed
<1>6. CASE TakeLock \/ ResubDone
  BY <1>6 DEF TakeLock, ResubDone, Supervisor, Ends, Typed
<1>7. ASSUME NEW c \in Client, Resubscribe(c) \/ ChannelClosed(c) PROVE Counted'
  BY <1>7 DEF Resubscribe, ChannelClosed, Typed
<1>8. CASE ConnLost \/ UNCHANGED vars
  BY <1>8 DEF ConnLost, vars, Typed
<1> QED
  BY <1>1, <1>2, <1>3, <1>4, <1>5, <1>6, <1>7, <1>8 DEF Next, Main, Supervise, Broker

\* Main, the supervisor and the broker keep the invariant in every interleaving.
THEOREM ConnectionInvariantHolds == Spec => []IInv
<1>1. IInv /\ [Next]_vars => IInv'
  BY TypedStep, LockedStep, HangingStep, ServedStep, CountedStep DEF IInv
<1> QED
  BY <1>1, InitHolds, PTL DEF Spec
-----------------------------------------------------------------------------
\* A client that was registered while the supervisor reconnected has its subscription by
\* the time the supervisor watches again: the registry lock leaves it no gap.
THEOREM NoneMissedHolds == Spec => []NoneMissed
<1>1. IInv => NoneMissed
  BY DEF IInv, Served, BySupervisor, NoneMissed, Typed
<1> QED
  BY <1>1, ConnectionInvariantHolds, PTL

\* A client has one subscription per connection, or two if its registration overlapped
\* the reconnect that made the connection.
THEOREM NoDuplicatesHolds == Spec => []NoDuplicates
<1>1. IInv => NoDuplicates
  <2> SUFFICES ASSUME IInv, NEW c \in Client
               PROVE  live[c] <= IF c \in raced THEN 2 ELSE 1
    BY DEF NoDuplicates
  <2>1. live[c] \in Nat
    BY DEF IInv, Typed
  <2> QED
    BY <2>1 DEF IInv, Counted
<1> QED
  BY <1>1, ConnectionInvariantHolds, PTL
=============================================================================
