---------------------------- MODULE MCSubmission ----------------------------
(* A small instance of Submission for TLC. *)
EXTENDS Submission

CONSTANTS a, b, x, y

Accounts ==
    {[senders |-> {a}, pinned |-> FALSE], [senders |-> {}, pinned |-> TRUE]}

\* A trusted client or none; a gate or none; a suppressed recipient or none.
SmallTables ==
    [client : {None, {}, {b}}, relay : {{}, {a}}, suppressed : {{}, {x}}]
=============================================================================
