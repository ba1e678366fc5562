----------------------------- MODULE MCRouting -----------------------------
(* Small instances of Routing for TLC: one domain in two spellings, and one more. *)
EXTENDS Routing

MCDomain == {"", "a", "A", "b"}
MCLower(d) == IF d = "A" THEN "a" ELSE d
MCProvider == {"p1", "p2"}

\* Every kind of rule, for one or the other spelling.
MCRule ==
    {r \in [recipient: {"", "A", "b"}, sender: {"", "a"},
            chain: {<<>>, <<"p1">>, <<"p2", "p1">>}, enabled: BOOLEAN, priority: 1..2] :
       r.enabled \/ r.chain = <<"p1">>}
Listed(n) ==
    {rs \in [1..n -> MCRule] : \A k \in 1..(n - 1) : rs[k].priority >= rs[k + 1].priority}
MCRuleLists == UNION {Listed(n) : n \in 0..2}

\* Three rules, all of them enabled.
MCEnabled ==
    {r \in MCRule : r.enabled /\ r.chain # <<>> /\ r.recipient # "b"}
MCLongLists ==
    MCRuleLists \cup {rs \in [1..3 -> MCEnabled] :
                        \A k \in 1..2 : rs[k].priority >= rs[k + 1].priority}
=============================================================================
