----------------------------- MODULE MCConsole ------------------------------
(* Small instances of Console for TLC: one row of each table, and a start from nothing. *)
EXTENDS Console

At(c, r) == [coll |-> c, row |-> r, booted |-> TRUE, acts |-> 2, faults |-> 0]

Rows ==
    {At("providers", [type |-> "smtp", endpoint |-> "x", auth_mode |-> "smtp-auth", secret_ref |-> None, enabled |-> TRUE]),
     At("providers", [type |-> "ses", endpoint |-> None, auth_mode |-> None, secret_ref |-> "x", enabled |-> FALSE]),
     At("rules", [recipient |-> None, sender |-> "x", chain |-> <<"p1", "p2">>, enabled |-> TRUE]),
     At("domains", None),
     At("ratelimits", [direction |-> "in", scope |-> "account", key |-> "x", per_second |-> 1, enabled |-> TRUE]),
     At("accounts", [username |-> "x", password |-> "x", ip_allowlist |-> {}, enabled |-> TRUE]),
     At("relayclients", [cidr |-> "x", description |-> None, enabled |-> TRUE]),
     At("suppressions", None),
     At("suppressions", [address |-> "x", reason |-> "hard_bounce", source |-> "ses"]),
     At("operators", None), At("operators", [username |-> "x", password |-> "x", role |-> "user"]),
     At("settings", [value |-> "x"]), At("settings", None)}

\* A message on its way, with room for it to be relayed and pruned.
Message == [At("messages", [status |-> "queued", events |-> 0]) EXCEPT !.acts = 3]

Domain == At("domains", [domain |-> "x", enabled |-> TRUE])

\* Edits of every table without failures; failures on one table, and from nothing.
Starts ==
    Rows \cup {Message, [Message EXCEPT !.acts = 1, !.faults = 1], At("messages", None)}
        \cup {Domain, [Domain EXCEPT !.faults = 1],
               [At("domains", None) EXCEPT !.booted = FALSE, !.acts = 1, !.faults = 1]}
=============================================================================
