----------------------------- MODULE RateLimit -----------------------------
(***************************************************************************)
(* Token buckets shared by the sessions of an ingress process or by the    *)
(* workers of a delivery process.  A session that would have to wait gives *)
(* its reservation back and rejects the message; a worker waits for a      *)
(* short while, gives it back if the wait is too long, or when its own     *)
(* deadline ends the wait.  A configuration reload builds new, full        *)
(* buckets, while whoever loaded the old ones goes on using them.          *)
(*                                                                         *)
(* Time is counted in the interval that earns one token.                   *)
(***************************************************************************)
EXTENDS Integers, FiniteSets

CONSTANTS
    Session,     \* callers that reject rather than wait
    Worker,      \* callers that wait
    Key,         \* what callers are limited by
    Configs,     \* the sets of keys that may be given limits, "*" for all others
    Burst,       \* size of a bucket; the table demands at least 1
    MaxBlock,    \* maxRateBlock
    MaxTime,     \* bound on the clock
    MaxReloads,  \* bound on configuration reloads
    MaxCalls,    \* bound on reservations
    None

ASSUME LimitAssumption ==
    /\ Configs \subseteq SUBSET (Key \cup {"*"}) /\ Session \cap Worker = {}
    /\ Burst \in Nat \ {0} /\ MaxBlock \in Nat /\ MaxTime \in Nat /\ MaxReloads \in Nat /\ MaxCalls \in Nat
    /\ "*" \notin Key /\ None \notin Key \cup {"*"}

Caller == Session \cup Worker
Limiter == 0..MaxReloads
Bucket == Key \cup {"*"}

VARIABLES
    now,        \* the clock
    current,    \* the limiter in the snapshot
    specs,      \* the limits each limiter was built from
    built,      \* and when it was built
    tokens,     \* what each bucket holds; negative when it is owed
    lastEvent,  \* when its latest reservation may act
    pc, using,  \* where each caller is, and the limiter it has loaded
    at,         \* the bucket it reserved from
    timeToAct,  \* and when its reservation may act
    calls
\* How many reservations were acted on: only the properties read it.
VARIABLE admitted

buckets == <<tokens, lastEvent>>
limitVars == <<now, current, specs, built, tokens, lastEvent, pc, using, at, timeToAct, calls,
          admitted>>

\* Build: every bucket is full.
LimitInit ==
    /\ now = 0 /\ current = 0
    /\ specs \in [Limiter -> Configs] /\ \A l \in Limiter : specs[l] = specs[0]
    /\ built = [l \in Limiter |-> 0]
    /\ tokens = [l \in Limiter |-> [b \in Bucket |-> Burst]]
    /\ lastEvent = [l \in Limiter |-> [b \in Bucket |-> 0]]
    /\ pc = [a \in Caller |-> "rest"] /\ using = [a \in Caller |-> 0]
    /\ at = [a \in Caller |-> None] /\ timeToAct = [a \in Caller |-> 0]
    /\ calls = 0 /\ admitted = [l \in Limiter |-> [b \in Bucket |-> 0]]

Goto(a, l) == pc' = [pc EXCEPT ![a] = l]

\* The caller is done with its reservation.
Finish(a) ==
    /\ Goto(a, "rest") /\ using' = [using EXCEPT ![a] = 0]
    /\ at' = [at EXCEPT ![a] = None] /\ timeToAct' = [timeToAct EXCEPT ![a] = 0]

LoadLimiter(a) ==
    /\ pc[a] = "rest" /\ calls < MaxCalls /\ calls' = calls + 1
    /\ Goto(a, "loaded") /\ using' = [using EXCEPT ![a] = current]
    /\ UNCHANGED <<now, current, specs, built, buckets, at, timeToAct, admitted>>

\* The bucket of a key; one default bucket serves all keys without their own.
bucket(l, k) ==
    IF k \in specs[l] THEN k ELSE IF "*" \in specs[l] THEN "*" ELSE None

\* Variant: a worker does not wait for a short delay.
DecisionImpatient(a, delay) == IF delay <= MaxBlock THEN "act" ELSE "cancel"

\* What a caller does with the delay it is given.
Decision(a, delay) ==
    IF delay = 0 THEN "act"
    ELSE IF a \in Session \/ delay > MaxBlock THEN "cancel" ELSE "wait"

\* Reserve: a token is taken now, and may be used when the bucket has earned it.
Reserve(a, k) ==
    LET l == using[a]
        b == bucket(l, k)
        left == tokens[l][b] - 1
        delay == IF left < 0 THEN -left ELSE 0
    IN
    /\ pc[a] = "loaded" /\ b # None
    /\ tokens' = [tokens EXCEPT ![l][b] = left]
    /\ lastEvent' = [lastEvent EXCEPT ![l][b] = now + delay]
    /\ timeToAct' = [timeToAct EXCEPT ![a] = now + delay]
    /\ at' = [at EXCEPT ![a] = b] /\ Goto(a, Decision(a, delay))
    /\ UNCHANGED <<now, current, specs, built, using, calls, admitted>>

Unlimited(a, k) ==
    /\ pc[a] = "loaded" /\ bucket(using[a], k) = None /\ Finish(a)
    /\ UNCHANGED <<now, current, specs, built, buckets, calls, admitted>>

\* The message passes the limit.
Act(a) ==
    /\ pc[a] = "act" /\ Finish(a)
    /\ admitted' = [admitted EXCEPT ![using[a]][at[a]] = @ + 1]
    /\ UNCHANGED <<now, current, specs, built, buckets, calls>>

\* A worker's timer fires, no earlier than it should.
Wake(a) ==
    /\ pc[a] = "wait" /\ now >= timeToAct[a] /\ Goto(a, "act")
    /\ UNCHANGED <<now, current, specs, built, buckets, using, at, timeToAct, calls, admitted>>

\* A worker's own deadline ends its wait.
\* Variant: it gives the token back and sends the message all the same.
ExpireActs(a) ==
    /\ pc[a] = "wait" /\ Goto(a, "act")
    /\ tokens' = [tokens EXCEPT ![using[a]][at[a]] = @ + 1]
    /\ UNCHANGED <<now, current, specs, built, lastEvent, using, at, timeToAct, calls,
                   admitted>>

Expire(a) ==
    /\ pc[a] = "wait" /\ Goto(a, "cancel")
    /\ UNCHANGED <<now, current, specs, built, buckets, using, at, timeToAct, calls, admitted>>

\* Cancel gives a token back, but for what was reserved after it, and nothing once
\* the reservation could have been used.
Restored(a) ==
    LET later == lastEvent[using[a]][at[a]] - timeToAct[a]
    IN  IF timeToAct[a] < now \/ later >= 1 THEN 0 ELSE 1 - later

Cancel(a) ==
    LET l == using[a]
        b == at[a]
        full == tokens[l][b] + Restored(a)
        latest == timeToAct[a] = lastEvent[l][b] /\ timeToAct[a] - 1 >= now
    IN
    /\ pc[a] = "cancel" /\ Finish(a)
    /\ tokens' = [tokens EXCEPT ![l][b] = IF full > Burst THEN Burst ELSE full]
    /\ lastEvent' = [lastEvent EXCEPT ![l][b] =
                        IF Restored(a) > 0 /\ latest THEN @ - 1 ELSE @]
    /\ UNCHANGED <<now, current, specs, built, calls, admitted>>

\* Time passes, and every bucket earns a token.
Tick ==
    /\ now < MaxTime /\ now' = now + 1
    /\ tokens' = [l \in Limiter |-> [b \in Bucket |->
                    IF tokens[l][b] < Burst THEN tokens[l][b] + 1 ELSE Burst]]
    /\ UNCHANGED <<current, specs, built, lastEvent, pc, using, at, timeToAct, calls, admitted>>

\* Build again: the new buckets are full, whatever the old ones held.
Reload ==
    /\ current < MaxReloads /\ current' = current + 1
    /\ \E c \in Configs : specs' = [specs EXCEPT ![current + 1] = c]
    /\ built' = [built EXCEPT ![current + 1] = now]
    /\ tokens' = [tokens EXCEPT ![current + 1] = [b \in Bucket |-> Burst]]
    /\ UNCHANGED <<now, lastEvent, pc, using, at, timeToAct, calls, admitted>>

LimitNext ==
    \/ \E a \in Caller :
        \/ LoadLimiter(a) \/ Act(a) \/ Wake(a) \/ Expire(a) \/ Cancel(a)
        \/ \E k \in Key : Reserve(a, k) \/ Unlimited(a, k)
    \/ Tick \/ Reload

LimitSpec == LimitInit /\ [][LimitNext]_limitVars

-----------------------------------------------------------------------------
\* No bucket lets more pass than its burst and what it has earned since it was
\* built, although reservations are made ahead of time, wait, and are given back
\* in any order.
Paced ==
    \A l \in Limiter, b \in Bucket :
        admitted[l][b] <= Burst + now - built[l]

\* No token is invented: what has passed, what is still reserved and what the
\* bucket holds never exceed what it started with and has earned.
Conserved ==
    \A l \in Limiter, b \in Bucket :
        LET reserved == {a \in Caller : at[a] = b /\ using[a] = l}
        IN  admitted[l][b] + Cardinality(reserved) + tokens[l][b] <= Burst + now - built[l]
=============================================================================
