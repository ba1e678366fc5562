-------------------------- MODULE DeliveryContract --------------------------
(***************************************************************************)
(* What the relay promises its clients and operators about a message, with *)
(* nothing said of queues, copies, acks, tiers or processes: it is carried *)
(* until a provider has it, its bounce is carried in its stead, or nobody  *)
(* wants to be told; a bounce itself is never bounced.  Delivery is at     *)
(* least once: a message that is settled may be carried and sent again.    *)
(***************************************************************************)
CONSTANTS
    Mail,      \* messages clients submit
    Notice     \* bounces the relay may send

Message == Mail \cup Notice

VARIABLES
    answered,   \* messages a client was told are accepted
    carried,    \* messages the relay holds a job for
    delivered,  \* messages a provider has taken
    givenUp,    \* messages the relay will not try any more
    unwanted,   \* messages whose sender is not to be told
    bounced,    \* pairs <<m, n>>: bounce n tells of m
    withheld    \* messages given up in silence

vars == <<answered, carried, delivered, givenUp, unwanted, bounced, withheld>>

Told(m) == \E n \in Notice : <<m, n>> \in bounced
Settled(m) == m \in delivered \cup withheld \/ Told(m)
Known(m) == m \in carried \/ Settled(m)

Init ==
    /\ answered = {} /\ carried = {} /\ delivered = {} /\ givenUp = {}
    /\ unwanted = {} /\ bounced = {} /\ withheld = {}

\* A submission says at once whether a bounce would be wanted.
Begin(m) ==
    /\ ~Known(m) /\ unwanted' = unwanted \cup {m}
    /\ UNCHANGED <<answered, carried, delivered, givenUp, bounced, withheld>>

\* The job is taken, the client is answered, or both.  Publishing is not confirmed: an
\* answered message need not be carried.
Accept(m) ==
    /\ ~Known(m) /\ m \in Mail
    /\ \/ answered' = answered \cup {m} /\ carried' \in {carried, carried \cup {m}}
       \/ carried' = carried \cup {m} /\ UNCHANGED answered
    /\ UNCHANGED <<delivered, givenUp, unwanted, bounced, withheld>>

Deliver(m) ==
    /\ Known(m) /\ delivered' = delivered \cup {m}
    /\ UNCHANGED <<answered, carried, givenUp, unwanted, bounced, withheld>>

\* Giving up leaves a job for the bounce, also where the message was settled meanwhile.
GiveUp(m) ==
    /\ Known(m) /\ givenUp' = givenUp \cup {m}
    /\ carried' \in {carried, carried \cup {m}}
    /\ UNCHANGED <<answered, delivered, unwanted, bounced, withheld>>

\* At least once, not exactly once: a handler that lost its delivery to another worker
\* goes on with it, and may leave a job for a message that worker settled.
CarryAgain(m) ==
    /\ Settled(m) /\ carried' = carried \cup {m}
    /\ UNCHANGED <<answered, delivered, givenUp, unwanted, bounced, withheld>>

\* Possibly more than once, each time with a bounce of its own.
Bounce(m, n) ==
    /\ m \in givenUp /\ m \in Mail \ unwanted /\ ~Known(n)
    /\ bounced' = bounced \cup {<<m, n>>} /\ carried' = carried \cup {n}
    /\ UNCHANGED <<answered, delivered, givenUp, unwanted, withheld>>

Withhold(m) ==
    /\ m \in givenUp /\ m \in unwanted
    /\ withheld' = withheld \cup {m}
    /\ UNCHANGED <<answered, carried, delivered, givenUp, unwanted, bounced>>

Forget(m) ==
    /\ Settled(m) /\ carried' = carried \ {m}
    /\ UNCHANGED <<answered, delivered, givenUp, unwanted, bounced, withheld>>

Next ==
    \/ \E m \in Message :
          \/ Begin(m) \/ Accept(m) \/ Deliver(m) \/ GiveUp(m) \/ CarryAgain(m)
          \/ Withhold(m) \/ Forget(m)
    \/ \E m \in Message, n \in Notice : Bounce(m, n)

Spec == Init /\ [][Next]_vars
=============================================================================
