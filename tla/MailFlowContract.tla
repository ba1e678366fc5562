-------------------------- MODULE MailFlowContract --------------------------
(* MailFlow as an implementation of DeliveryContract. *)
EXTENDS MailFlow

\* A message is carried by the jobs in the broker, whichever queue and however many copies;
\* one that is being published exists for nobody else yet.
Carried == {m \in Id : InBroker(m)}
Unwanted == quiet \cup {m \in Id : mailFrom[m] = "null"}
Bounced == {b \in Id \X Dsn : orig[b[2]] = b[1] /\ b[2] \in enqueued}

Contract == INSTANCE DeliveryContract WITH
    Mail      <- Mail,
    Notice    <- Dsn,
    answered  <- accepted,
    carried   <- Carried,
    delivered <- handed,
    givenUp   <- deadLettered,
    unwanted  <- Unwanted,
    bounced   <- Bounced,
    withheld  <- silenced

\* Queues, redelivered copies, lost acks and crashes are invisible from outside: every step of
\* session.Data, worker.handle and gen.handle does to a message what the contract allows
\* or nothing, so none is forgotten, given up or bounced that may not be.
KeepsContract == Contract!Spec
=============================================================================
