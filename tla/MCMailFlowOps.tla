--------------------------- MODULE MCMailFlowOps ---------------------------
(* Small instances of MailFlowOps for TLC. *)
EXTENDS MailFlowOps, TLC

NullOnly == {[from |-> "null", never |-> FALSE]}

Only(s, r, p, a) == [sweeps |-> s, requeues |-> r, purges |-> p, alerts |-> a]
Budgets == {Only(1, 1, 1, 0), Only(1, 0, 0, 1), Only(0, 0, 1, 1)}

Symm == Permutations(Slot)
=============================================================================
