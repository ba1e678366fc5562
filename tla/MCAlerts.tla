------------------------------ MODULE MCAlerts ------------------------------
(* Small instances of Alerts for TLC. *)
EXTENDS Alerts

\* A healthy zone without a key, and one with a key and a warning: two reports that differ
\* in status and in rows.
Zones == {[status |-> "ok", keyed |-> FALSE], [status |-> "warning", keyed |-> TRUE]}
=============================================================================
