----------------------------- MODULE MCDkimKeys -----------------------------
(* Small instances of DkimKeys for TLC: key rotation in a settled zone, and *)
(* every short SPF record, and the combinations of DMARC and BIMI, of a     *)
(* domain without keys.                                                     *)
EXTENDS DkimKeys

Settled ==
    [dkim |-> [s \in Selector |-> None], spf |-> <<<<"include:ses", "-all">>>>,
     dmarc |-> <<[v |-> TRUE, p |-> "reject", rua |-> TRUE, stray |-> FALSE]>>, mx |-> <<>>, tlsRpt |-> <<>>,
     stsTxt |-> None, stsHost |-> None, bimi |-> None]

\* One enabled provider of each type, and one that is disabled.
Providers == [p \in {"p1", "p2", "p3", "p4", "p5"} |->
    CASE p = "p1" -> [type |-> "smtp", enabled |-> TRUE] [] p = "p2" -> [type |-> "ses", enabled |-> TRUE]
      [] p = "p3" -> [type |-> "gmail", enabled |-> TRUE] [] p = "p4" -> [type |-> "m365", enabled |-> TRUE]
      [] p = "p5" -> [type |-> "gmail", enabled |-> FALSE]]

At(zone0, chains0) ==
    [zone |-> zone0, chains |-> chains0, providers |-> Providers, keyed |-> {}, requests |-> 0]

\* Requests that generate keys are alike.
Alike == Permutations(Generation)

First == CHOOSE s \in Selector : TRUE
Rotations ==
    {[At([Settled EXCEPT !.dkim[First] = OldKey], {{"p2"}}) EXCEPT !.keyed = {First}, !.requests = 3],
     [At(Settled, {{"p2"}}) EXCEPT !.requests = 2]}

Terms == {"include:ses", "include:google", "ip4", "-all", "all", "redirect", "include:x-all"}
Records == UNION {[1 .. n -> Terms] : n \in 0 .. 3}
Spfs == {<<>>, <<<<"-all">>, <<"include:ses", "-all">>>>} \cup {<<r>> : r \in Records}
Routes == {{}, {{"p1"}}, {{"p2"}}, {{"p2", "p5"}}, {{"p3", "p1"}, {"p2"}}, {{"p5"}}, {{"gone"}}}
SpfZones == {At([Settled EXCEPT !.spf = r], t) : r \in Spfs, t \in Routes}

Texts == [v : BOOLEAN, p : {"none", "reject", None}, rua : BOOLEAN, stray : BOOLEAN]
Dmarcs == {<<>>} \cup {<<a>> : a \in Texts} \cup {<<a, b>> : a, b \in Texts}
Bimis == {None, [logo |-> TRUE], [logo |-> FALSE]}
Replies == {[ok |-> TRUE, big |-> FALSE, mode |-> m] : m \in {"enforce", "none", None}}
    \cup {[ok |-> FALSE, big |-> FALSE, mode |-> None], [ok |-> TRUE, big |-> TRUE, mode |-> "enforce"]}
Hosts == [addrs : {{}, {"public"}, {"private"}, {"public", "loopback"}}, from : {"public", "private"},
          served : [{"public", "private"} -> Replies]]
PolicyZones ==
    {At([Settled EXCEPT !.dmarc = d, !.bimi = b], {{"p2"}}) : d \in Dmarcs, b \in Bimis}
    \cup {At([Settled EXCEPT !.stsTxt = "sts", !.stsHost = h], {{"p2"}}) : h \in Hosts}

\* A row whose secret is nowhere.
HandMade == {[key |-> "foreign", ref |-> "elsewhere", rotation |-> "active"]}

Starts == Rotations \cup SpfZones \cup PolicyZones
=============================================================================
