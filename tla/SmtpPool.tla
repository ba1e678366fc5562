------------------------------ MODULE SmtpPool ------------------------------
(***************************************************************************)
(* The SMTP provider of a delivery process and its pool of warm            *)
(* connections.  A worker sends with the provider instance of the routing  *)
(* snapshot it started from; a configuration reload builds a new instance, *)
(* and Close retires an old one while workers may still be sending on it.  *)
(***************************************************************************)
EXTENDS Naturals, Sequences, FiniteSets, SequencesExt

CONSTANTS
    Worker,      \* goroutines that send
    Conn,        \* connections that may be open at once
    MaxIdle,     \* maxIdle()
    MaxReloads,  \* bound on configuration reloads
    MaxFaults,   \* bound on connections the smarthost drops and calls that time out
    None

ASSUME PoolAssumption ==
    MaxIdle \in Nat /\ MaxReloads \in Nat /\ MaxFaults \in Nat /\ None \notin Conn

Instance == 0..MaxReloads    \* provider instances, in the order of the reloads

VARIABLES
    current,    \* the instance in the snapshot
    pc,         \* where each worker is in Send
    prov,       \* the instance it sends with
    hand,       \* the connection it has
    idle,       \* p.idle of each instance
    shut,       \* instances with p.closed
    draining,   \* what Close has taken out of the pool and not closed yet
    owner,      \* the instance a connection was dialled and authenticated for
    open,       \* connections this side has not closed
    peer,       \* connections the smarthost has not dropped
    midway,     \* connections with a mail transaction under way
    faults

pool == <<idle, shut, draining>>
net == <<owner, open, peer, midway>>
vars == <<current, pc, prov, hand, pool, net, faults>>

Init ==
    /\ current = 0
    /\ pc = [w \in Worker |-> "rest"] /\ prov = [w \in Worker |-> 0]
    /\ hand = [w \in Worker |-> None]
    /\ idle = [i \in Instance |-> <<>>] /\ shut = {}
    /\ draining = [i \in Instance |-> {}]
    /\ owner = [c \in Conn |-> 0] /\ open = {} /\ peer = {} /\ midway = {}
    /\ faults = 0

Goto(w, l) == pc' = [pc EXCEPT ![w] = l]

Fault == faults < MaxFaults /\ faults' = faults + 1

\* The worker closes the connection it has.
Discard(w) ==
    /\ open' = open \ {hand[w]} /\ peer' = peer \ {hand[w]}
    /\ midway' = midway \ {hand[w]}
    /\ hand' = [hand EXCEPT ![w] = None] /\ UNCHANGED owner

-----------------------------------------------------------------------------
(* Send.                                                                   *)

Start(w) ==
    /\ pc[w] = "rest" /\ Goto(w, "acquire")
    /\ prov' = [prov EXCEPT ![w] = current]
    /\ UNCHANGED <<current, hand, pool, net, faults>>

\* acquire: the connection that was pooled last.
\* Variant: it is not taken out of the pool.
PopPeek(w) ==
    /\ pc[w] = "acquire" /\ idle[prov[w]] # <<>> /\ Goto(w, "noop")
    /\ hand' = [hand EXCEPT ![w] = Last(idle[prov[w]])]
    /\ UNCHANGED <<current, prov, pool, net, faults>>

Pop(w) ==
    LET i == prov[w] IN
    /\ pc[w] = "acquire" /\ idle[i] # <<>> /\ Goto(w, "noop")
    /\ hand' = [hand EXCEPT ![w] = Last(idle[i])]
    /\ idle' = [idle EXCEPT ![i] = Front(@)]
    /\ UNCHANGED <<current, prov, shut, draining, net, faults>>

\* Variant: the connection goes back to the pool.
NoopPutsBack(w) ==
    /\ pc[w] = "noop"
    /\ IF hand[w] \in peer
       THEN Goto(w, "send") /\ UNCHANGED <<hand, idle>>
       ELSE /\ Goto(w, "acquire") /\ hand' = [hand EXCEPT ![w] = None]
            /\ idle' = [idle EXCEPT ![prov[w]] = Append(@, hand[w])]
    /\ UNCHANGED <<current, prov, shut, draining, net, faults>>

\* A dropped connection shows in the NOOP, and the next one is tried.
Noop(w) ==
    /\ pc[w] = "noop"
    /\ \/ hand[w] \in peer /\ Goto(w, "send") /\ UNCHANGED <<hand, net, faults>>
       \/ hand[w] \notin peer /\ Discard(w) /\ Goto(w, "acquire") /\ UNCHANGED faults
       \/ hand[w] \in peer /\ Fault /\ Discard(w) /\ Goto(w, "acquire")
    /\ UNCHANGED <<current, prov, pool>>

\* No warm connection is left: dial and greet, which may fail.
Dial(w) ==
    /\ pc[w] = "acquire" /\ idle[prov[w]] = <<>>
    /\ \/ \E c \in Conn \ open :
            /\ hand' = [hand EXCEPT ![w] = c] /\ owner' = [owner EXCEPT ![c] = prov[w]]
            /\ open' = open \cup {c} /\ peer' = peer \cup {c}
            /\ Goto(w, "send") /\ UNCHANGED <<midway, faults>>
       \/ Fault /\ Goto(w, "rest") /\ UNCHANGED <<hand, net>>
    /\ UNCHANGED <<current, prov, pool>>

\* SendMail: MAIL, RCPT and DATA.
Mail(w) ==
    /\ pc[w] = "send" /\ Goto(w, "sending")
    /\ midway' = midway \cup {hand[w]}
    /\ UNCHANGED <<current, prov, hand, pool, owner, open, peer, faults>>

Accepted(w) ==
    /\ pc[w] = "sending" /\ hand[w] \in peer /\ Goto(w, "reset")
    /\ midway' = midway \ {hand[w]}
    /\ UNCHANGED <<current, prov, hand, pool, owner, open, peer, faults>>

\* A refusal leaves the transaction open, a lost answer leaves it anywhere.
\* Variant: the connection is pooled all the same.
RefusedPooled(w) ==
    /\ pc[w] = "sending" /\ Goto(w, "release")
    /\ UNCHANGED <<current, prov, hand, pool, net, faults>>

Refused(w) ==
    /\ pc[w] = "sending" /\ Discard(w) /\ Goto(w, "rest")
    /\ UNCHANGED <<current, prov, pool, faults>>

Reset(w) ==
    /\ pc[w] = "reset"
    /\ \/ hand[w] \in peer /\ Goto(w, "release") /\ UNCHANGED <<hand, net, faults>>
       \/ hand[w] \notin peer /\ Discard(w) /\ Goto(w, "rest") /\ UNCHANGED faults
       \/ hand[w] \in peer /\ Fault /\ Discard(w) /\ Goto(w, "rest")
    /\ UNCHANGED <<current, prov, pool>>

\* release: pool the connection, unless the pool is full or shut.
\* Variant: whether the pool is shut is not tested.
ReleaseLate(w) ==
    LET i == prov[w] IN
    /\ pc[w] = "release" /\ Goto(w, "rest")
    /\ IF Len(idle[i]) >= MaxIdle
       THEN Discard(w) /\ UNCHANGED idle
       ELSE /\ idle' = [idle EXCEPT ![i] = Append(@, hand[w])]
            /\ hand' = [hand EXCEPT ![w] = None] /\ UNCHANGED net
    /\ UNCHANGED <<current, prov, shut, draining, faults>>

Release(w) ==
    LET i == prov[w] IN
    /\ pc[w] = "release" /\ Goto(w, "rest")
    /\ IF i \in shut \/ Len(idle[i]) >= MaxIdle
       THEN Discard(w) /\ UNCHANGED idle
       ELSE /\ idle' = [idle EXCEPT ![i] = Append(@, hand[w])]
            /\ hand' = [hand EXCEPT ![w] = None] /\ UNCHANGED net
    /\ UNCHANGED <<current, prov, shut, draining, faults>>

-----------------------------------------------------------------------------
(* Reload and Close.                                                       *)

\* buildState makes new provider instances and swaps the snapshot.
Reload ==
    /\ current < MaxReloads /\ current' = current + 1
    /\ UNCHANGED <<pc, prov, hand, pool, net, faults>>

\* Close takes the pool under the lock and closes its connections after it.
Close(i) ==
    /\ i < current /\ i \notin shut
    /\ shut' = shut \cup {i}
    /\ draining' = [draining EXCEPT ![i] = ToSet(idle[i])]
    /\ idle' = [idle EXCEPT ![i] = <<>>]
    /\ UNCHANGED <<current, pc, prov, hand, net, faults>>

Drain(i) ==
    /\ \E c \in draining[i] :
        /\ draining' = [draining EXCEPT ![i] = @ \ {c}]
        /\ open' = open \ {c} /\ peer' = peer \ {c}
    /\ UNCHANGED <<current, pc, prov, hand, idle, shut, owner, midway, faults>>

\* The smarthost drops a connection, idle or in use.
ServerDrops ==
    /\ Fault /\ \E c \in peer : peer' = peer \ {c}
    /\ UNCHANGED <<current, pc, prov, hand, pool, owner, open, midway>>

-----------------------------------------------------------------------------
Send(w) ==
    \/ Pop(w) \/ Noop(w) \/ Dial(w) \/ Mail(w) \/ Accepted(w) \/ Refused(w)
    \/ Reset(w) \/ Release(w)

Next ==
    \/ \E w \in Worker : Start(w) \/ Send(w)
    \/ Reload \/ ServerDrops
    \/ \E i \in Instance : Close(i) \/ Drain(i)

Spec == Init /\ [][Next]_vars

\* Every call has the message's deadline; nobody has to send, reload or close.
FairSpec ==
    /\ Spec
    /\ \A w \in Worker : WF_vars(Send(w))
    /\ \A i \in Instance : WF_vars(Drain(i))

-----------------------------------------------------------------------------
Held == {hand[w] : w \in Worker} \ {None}
Pooled(i) == ToSet(idle[i])

\* A connection has one user: a worker, a pool (once), or a Close.
Exclusive ==
    /\ \A v, w \in Worker : hand[v] = hand[w] /\ hand[v] # None => v = w
    /\ \A i \in Instance :
        /\ IsInjective(idle[i]) /\ Len(idle[i]) <= MaxIdle
        /\ Held \cap (Pooled(i) \cup draining[i]) = {}
        /\ Pooled(i) \cap draining[i] = {}
        /\ \A j \in Instance \ {i} :
            (Pooled(i) \cup draining[i]) \cap (Pooled(j) \cup draining[j]) = {}

\* A message starts on a connection of its own configuration, still open, and
\* with nothing of an earlier message on it.
CleanStart ==
    \A w \in Worker : pc[w] = "send" =>
        hand[w] \in open \ midway /\ owner[hand[w]] = prov[w]

\* No open connection is forgotten: a worker, a pool or a Close has it, and a pool
\* that was closed keeps none, although workers return theirs after the Close.
NoneForgotten ==
    /\ open = Held \cup UNION {Pooled(i) \cup draining[i] : i \in Instance}
    /\ \A i \in shut : idle[i] = <<>>

\* A send comes to an end: acquire does not go round for ever over dead connections.
SendEnds == \A w \in Worker : pc[w] = "acquire" ~> pc[w] = "rest"
=============================================================================
