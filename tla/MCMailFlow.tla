----------------------------- MODULE MCMailFlow -----------------------------
(* Small instances of MailFlow for TLC. *)
EXTENDS MailFlowContract, TLC

Plain == [from |-> "addr", never |-> FALSE]
Never == [from |-> "addr", never |-> TRUE]
NullSender == [from |-> "null", never |-> FALSE]
AllEnvelopes == {Plain, Never, NullSender}

Symm == Permutations(Slot) \cup Permutations(Worker)
=============================================================================
