---------------------------- MODULE ConsoleProofs ----------------------------
(***************************************************************************)
(* The Admin API and a browser before it, for every number of replicas, of *)
(* overlapping loads and of failures: no committed change goes unrecorded, *)
(* the first operator is an administrator, and a saved form keeps what the *)
(* operator has not touched.                                               *)
(***************************************************************************)
EXTENDS Console, FiniteSetTheorems, TLAPS

RequestStep == {"idle", "sent", "authorized", "committed"}

Typed ==
    /\ coll \in Collection
    /\ account \in {None, "user", "admin"}
    /\ boot \in [Replica -> {"down", "counted", "signed", "up"}]
    /\ DOMAIN req = Client
    /\ \A c \in Client : DOMAIN req[c] = {"pc", "kind", "body"} /\ req[c].pc \in RequestStep
    /\ {unaudited, audit, commits, lost, seedFaults} \subseteq Nat
    /\ form # None => DOMAIN form = {"base", "f", "edits"}
    /\ DOMAIN load = Load \cup Refresh

\* Requests whose change is committed and whose reply is not sent.
Unanswered == {c \in Client : req[c].pc = "committed"}

\* While nothing has failed in seeding: before the first operator exists nobody serves, and a
\* replica is about to promote it as long as it is no administrator.
Seeding ==
    seedFaults = 0 =>
        /\ account = None => \A r \in Replica : boot[r] \in {"down", "counted"}
        /\ account = "user" => \E r \in Replica : boot[r] = "signed"
-----------------------------------------------------------------------------
(* What a form on an edited table can hold, and what it sends. *)

HoldsField(c, f, v) ==
    /\ c = "providers" /\ f = "endpoint" => v \in Text
    /\ c = "providers" /\ f = "secret_ref" => v \in Text \cup {"-"}
    /\ c = "rules" /\ f \in {"recipient", "sender"} => v \in Text \cup {"*"}
    /\ c = "accounts" /\ f \in {"username", "password"} => v \in Text

FormOf(c, f) == DOMAIN f = Columns(c) /\ \A x \in DOMAIN f : HoldsField(c, x, f[x])

RequestOf(c, kind, body) ==
    /\ kind \in {"PUT", "POST", "DELETE"}
    /\ kind # "DELETE" => \A x \in DOMAIN body : Holds(c, x, body[x])
    /\ kind = "POST" => \A x \in Columns(c) \ DOMAIN body : Holds(c, x, Blank(c)[x])

OrNone(r) == r = None \/ RowOf(coll, r)

\* Wherever a row of an edited table is, it is one the table can hold.
RowsFit ==
    coll \in Edited =>
        /\ OrNone(row) /\ OrNone(view)
        /\ \A l \in DOMAIN load : OrNone(load[l].row) /\ load[l].pc # "listed"
        /\ \A l \in Refresh : load[l].pc = "idle"
        /\ form # None => OrNone(form.base)

FormFits == coll \in Edited /\ form # None /\ form.f # None => FormOf(coll, form.f)

RequestsFit == coll \in Edited => \A c \in Client : req[c].pc # "idle" => RequestOf(coll, req[c].kind, req[c].body)

\* While a request is under way, the form it was sent from stays as it was sent.
Sent ==
    form # None /\ form.f # None =>
        /\ coll \notin Edited \cup {"domains", "settings"} => form.base = None
        /\ req["browser"].pc # "idle" /\ coll # "settings" =>
              /\ coll = "domains" => form.base = None
              /\ req["browser"].kind = Method(coll, form.base = None)
              /\ req["browser"].body = Body(coll, form.f, form.base = None)

Accounted == commits = audit + unaudited + lost + Cardinality(Unanswered)

ConsoleInv == Typed /\ Accounted /\ Seeding /\ RowsFit /\ FormFits /\ RequestsFit /\ Sent
-----------------------------------------------------------------------------
LEMMA EmptyIsNoText == Empty # "x" /\ Empty # "*" /\ Empty # "-"
  BY Zenon DEF Empty

LEMMA NoneIsNoText ==
    /\ None # "x" /\ None # Empty /\ None # "*" /\ None # "-"
    /\ None # "user" /\ None # "admin"
  BY FormsAssumption DEF Text

LEMMA ColumnsAre ==
    /\ Columns("providers") = {"type", "endpoint", "auth_mode", "secret_ref", "enabled"}
    /\ Columns("rules") = {"recipient", "sender", "chain", "enabled"}
    /\ Columns("ratelimits") = {"direction", "scope", "key", "per_second", "enabled"}
    /\ Columns("accounts") = {"username", "password", "ip_allowlist", "enabled"}
    /\ Columns("relayclients") = {"cidr", "description", "enabled"}
  BY DEF Columns, Blank

LEMMA BlankFits == ASSUME NEW c \in Edited PROVE FormOf(c, Blank(c))
<1>1. CASE c = "providers"
  BY <1>1 DEF FormOf, HoldsField, Columns, Blank, Text
<1>2. CASE c = "rules"
  BY <1>2 DEF FormOf, HoldsField, Columns, Blank, Text
<1>3. CASE c = "accounts"
  BY <1>3 DEF FormOf, HoldsField, Columns, Blank, Text
<1>4. CASE c \in {"ratelimits", "relayclients"}
  BY <1>4 DEF FormOf, HoldsField, Columns
<1> QED BY <1>1, <1>2, <1>3, <1>4 DEF Edited

LEMMA ShownFits == ASSUME NEW c \in Edited, NEW r, RowOf(c, r) PROVE FormOf(c, Shown(c, r))
<1> USE ColumnsAre
<1>1. CASE c = "providers"
  <2>1. Shown(c, r) = mapProvider(r)
    BY <1>1 DEF Shown
  <2>2. r.endpoint \in {None, "x"} /\ r.secret_ref \in {None, "x"}
    BY <1>1 DEF RowOf, Holds
  <2>3. mapProvider(r).endpoint \in Text /\ mapProvider(r).secret_ref \in Text \cup {"-"}
    BY <2>2 DEF mapProvider, orEmpty, Text
  <2>4. DOMAIN mapProvider(r) = Columns(c)
    BY <1>1 DEF mapProvider
  <2> QED BY <1>1, <2>1, <2>3, <2>4 DEF FormOf, HoldsField
<1>2. CASE c = "rules"
  <2>1. Shown(c, r) = mapRule(r)
    BY <1>2 DEF Shown
  <2>2. r.recipient \in {None, "x"} /\ r.sender \in {None, "x"}
    BY <1>2 DEF RowOf, Holds
  <2>3. mapRule(r).recipient \in Text \cup {"*"} /\ mapRule(r).sender \in Text \cup {"*"}
    BY <2>2 DEF mapRule, star, Text
  <2>4. DOMAIN mapRule(r) = Columns(c)
    BY <1>2 DEF mapRule
  <2> QED BY <1>2, <2>1, <2>3, <2>4 DEF FormOf, HoldsField
<1>3. CASE c = "accounts"
  <2>1. Shown(c, r) = [r EXCEPT !.password = Empty]
    BY <1>3 DEF Shown, mapAccount
  <2> QED BY <1>3, <2>1 DEF FormOf, HoldsField, RowOf, Holds, Text
<1>4. CASE c = "ratelimits"
  <2>1. Shown(c, r) = r
    BY <1>4 DEF Shown, mapRate
  <2> QED BY <1>4, <2>1 DEF FormOf, HoldsField, RowOf
<1>5. CASE c = "relayclients"
  <2>1. Shown(c, r) = mapRelayClient(r)
    BY <1>5 DEF Shown
  <2>2. DOMAIN mapRelayClient(r) = Columns(c)
    BY <1>5 DEF mapRelayClient
  <2> QED BY <1>5, <2>1, <2>2 DEF FormOf, HoldsField
<1> QED BY <1>1, <1>2, <1>3, <1>4, <1>5 DEF Edited

LEMMA SetField ==
    ASSUME NEW c, NEW f, FormOf(c, f), NEW x \in DOMAIN f, NEW v, HoldsField(c, x, v)
    PROVE  FormOf(c, [f EXCEPT ![x] = v])
  BY DEF FormOf

\* No edit takes a form out of what its fields hold.
LEMMA EditFits ==
    ASSUME NEW c \in Edited, NEW f, FormOf(c, f), NEW g \in Edits(c, f)
    PROVE  FormOf(c, g)
<1> USE ColumnsAre
<1>0. ASSUME "enabled" \in DOMAIN f PROVE FormOf(c, Toggled(f))
  BY <1>0, SetField DEF Toggled, HoldsField
<1>1. CASE c = "providers"
  <2>0. DOMAIN f = {"type", "endpoint", "auth_mode", "secret_ref", "enabled"}
    BY <1>1 DEF FormOf
  <2>1. g \in ProviderForm(f)
    BY <1>1 DEF Edits
  <2>2. \A v : HoldsField(c, "type", v) /\ HoldsField(c, "auth_mode", v)
    BY <1>1 DEF HoldsField
  <2>3. \A v \in Text : HoldsField(c, "endpoint", v) /\ HoldsField(c, "secret_ref", v)
    BY <1>1 DEF HoldsField
  <2>5. ASSUME NEW t, NEW a PROVE FormOf(c, [f EXCEPT !.type = t, !.auth_mode = a])
    BY <2>0, <2>2 DEF FormOf
  <2>6. \A a : FormOf(c, [f EXCEPT !.auth_mode = a])
    BY <2>0, <2>2, SetField
  <2>7. \A v \in Text : FormOf(c, [f EXCEPT !.endpoint = v]) /\ FormOf(c, [f EXCEPT !.secret_ref = v])
    BY <2>0, <2>3, SetField
  <2>8. FormOf(c, Toggled(f))
    BY <1>0, <2>0
  <2>9. \/ \E t, a : g = [f EXCEPT !.type = t, !.auth_mode = a]
        \/ \E a : g = [f EXCEPT !.auth_mode = a]
        \/ \E v \in Text : g = [f EXCEPT !.endpoint = v] \/ g = [f EXCEPT !.secret_ref = v]
        \/ g = Toggled(f)
    BY <2>1 DEF ProviderForm
  <2>10. ASSUME NEW t, NEW a, g = [f EXCEPT !.type = t, !.auth_mode = a] PROVE FormOf(c, g)
    BY <2>5, <2>10
  <2>11. ASSUME NEW a, g = [f EXCEPT !.auth_mode = a] PROVE FormOf(c, g)
    BY <2>6, <2>11
  <2>12. ASSUME NEW v \in Text, g = [f EXCEPT !.endpoint = v] \/ g = [f EXCEPT !.secret_ref = v]
         PROVE  FormOf(c, g)
    BY <2>7, <2>12
  <2> QED BY <2>8, <2>9, <2>10, <2>11, <2>12
<1>2. CASE c = "rules"
  <2>0. DOMAIN f = {"recipient", "sender", "chain", "enabled"}
    BY <1>2 DEF FormOf
  <2>1. g \in RuleForm(f)
    BY <1>2 DEF Edits
  <2>2. \A v \in Text \cup {"*"} : FormOf(c, [f EXCEPT !.recipient = v]) /\ FormOf(c, [f EXCEPT !.sender = v])
    BY <1>2, <2>0, SetField DEF HoldsField
  <2>3. \A v : FormOf(c, [f EXCEPT !.chain = v])
    BY <1>2, <2>0, SetField DEF HoldsField
  <2>4. FormOf(c, Toggled(f))
    BY <1>0, <2>0
  <2> QED BY <2>1, <2>2, <2>3, <2>4 DEF RuleForm
<1>3. CASE c = "ratelimits"
  <2>0. DOMAIN f = {"direction", "scope", "key", "per_second", "enabled"}
    BY <1>3 DEF FormOf
  <2>1. g \in RateLimitForm(f)
    BY <1>3 DEF Edits
  <2>2. \A x, v : HoldsField(c, x, v)
    BY <1>3 DEF HoldsField
  <2>3. DOMAIN g = DOMAIN f
    BY <2>0, <2>1 DEF RateLimitForm, Toggled
  <2> QED BY <2>2, <2>3 DEF FormOf
<1>4. CASE c = "accounts"
  <2>0. DOMAIN f = {"username", "password", "ip_allowlist", "enabled"}
    BY <1>4 DEF FormOf
  <2>1. g \in AccountForm(f)
    BY <1>4 DEF Edits
  <2>2. \A v \in Text : FormOf(c, [f EXCEPT !.username = v]) /\ FormOf(c, [f EXCEPT !.password = v])
    BY <1>4, <2>0, SetField DEF HoldsField
  <2>3. \A v : FormOf(c, [f EXCEPT !.ip_allowlist = v])
    BY <1>4, <2>0, SetField DEF HoldsField
  <2>4. FormOf(c, Toggled(f))
    BY <1>0, <2>0
  <2> QED BY <2>1, <2>2, <2>3, <2>4 DEF AccountForm
<1>5. CASE c = "relayclients"
  <2>0. DOMAIN f = {"cidr", "description", "enabled"}
    BY <1>5 DEF FormOf
  <2>1. g \in RelayClientForm(f)
    BY <1>5 DEF Edits
  <2>2. \A x, v : HoldsField(c, x, v)
    BY <1>5 DEF HoldsField
  <2>3. DOMAIN g = DOMAIN f
    BY <2>0, <2>1 DEF RelayClientForm, Toggled
  <2> QED BY <2>2, <2>3 DEF FormOf
<1> QED BY <1>1, <1>2, <1>3, <1>4, <1>5 DEF Edited

LEMMA BodyFits ==
    ASSUME NEW c \in Edited, NEW f, FormOf(c, f), NEW base, ~Invalid(c, f, base)
    PROVE  RequestOf(c, Method(c, base = None), Body(c, f, base = None))
<1> DEFINE kind == Method(c, base = None)
           body == Body(c, f, base = None)
<1> SUFFICES RequestOf(c, kind, body)
  OBVIOUS
<1> USE ColumnsAre
<1>0. kind \in {"PUT", "POST"} /\ (kind = "PUT" <=> base # None)
  BY DEF Method, Edited
<1>1. CASE c = "providers"
  <2>1. body = [type |-> f.type, auth_mode |-> AUTH_TO_DB(f.auth_mode), enabled |-> f.enabled,
                endpoint |-> IF f.type = "direct" THEN None ELSE orNull(f.endpoint),
                secret_ref |-> IF f.type = "direct" \/ f.secret_ref = "-" THEN None ELSE orNull(f.secret_ref)]
    BY <1>1 DEF Body
  <2>2. f.endpoint \in Text /\ f.secret_ref \in Text \cup {"-"}
    BY <1>1 DEF FormOf, HoldsField
  <2>3. body.endpoint \in {None, "x"} /\ body.secret_ref \in {None, "x"}
    BY <2>1, <2>2 DEF orNull, Text
  <2>4. body.auth_mode \in {"xoauth2", "iam", "smtp-auth", "ip"}
    BY <2>1 DEF AUTH_TO_DB
  <2>5. DOMAIN body = Columns(c)
    BY <1>1, <2>1
  <2> HIDE DEF kind, body
  <2> QED BY <1>0, <1>1, <2>3, <2>4, <2>5 DEF RequestOf, Holds
<1>2. CASE c = "rules"
  <2>1. body = [recipient |-> unstar(f.recipient), sender |-> unstar(f.sender), chain |-> f.chain,
                enabled |-> f.enabled]
    BY <1>2 DEF Body
  <2>2. f.recipient \in Text \cup {"*"} /\ f.sender \in Text \cup {"*"}
    BY <1>2 DEF FormOf, HoldsField
  <2>3. body.recipient \in {None, "x"} /\ body.sender \in {None, "x"}
    BY <2>1, <2>2 DEF unstar, Text
  <2>4. DOMAIN body = Columns(c)
    BY <1>2, <2>1
  <2> HIDE DEF kind, body
  <2> QED BY <1>0, <1>2, <2>3, <2>4 DEF RequestOf, Holds
<1>3. CASE c = "ratelimits" \/ c = "relayclients"
  <2>1. DOMAIN body = Columns(c)
    BY <1>3 DEF Body, FormOf
  <2> HIDE DEF kind, body
  <2> QED BY <1>0, <1>3, <2>1 DEF RequestOf, Holds
<1>4. CASE c = "accounts"
  <2> DEFINE sent == IF base = None THEN {"username", "password", "ip_allowlist"}
                     ELSE {"ip_allowlist", "enabled"} \cup IF f.password = Empty THEN {} ELSE {"password"}
  <2>1. body = [x \in sent |-> f[x]]
    BY <1>4 DEF Body
  <2>2. f.username \in Text /\ f.password \in Text
    BY <1>4 DEF FormOf, HoldsField
  <2>3. base = None => f.username = "x" /\ f.password = "x"
    BY <1>4, <2>2 DEF Invalid, Text
  <2>4. \A x \in sent : Holds(c, x, f[x])
    BY <1>4, <2>2, <2>3 DEF Holds, Text
  <2>5. Holds(c, "enabled", Blank(c)["enabled"])
    BY DEF Holds
  <2> HIDE DEF kind, body
  <2> QED BY <1>0, <1>4, <2>1, <2>4, <2>5 DEF RequestOf
<1> QED BY <1>1, <1>2, <1>3, <1>4 DEF Edited

\* An accepted request leaves a row the table can hold.
LEMMA WrittenFits ==
    ASSUME coll \in Edited, OrNone(row), NEW r, RequestOf(coll, r.kind, r.body), ~Refused(r)
    PROVE  OrNone(Written(r))
<1>0. ~Upserts(coll) /\ coll # "suppressions"
  BY DEF Edited, Upserts
<1>1. CASE r.kind = "DELETE"
  BY <1>1 DEF Written, OrNone
<1>2. CASE r.kind = "PUT"
  <2>1. row # None /\ RowOf(coll, row)
    BY <1>0, <1>2 DEF Refused, OrNone
  <2>2. Written(r) = [c \in DOMAIN row |-> IF c \in DOMAIN r.body THEN r.body[c] ELSE row[c]]
    BY <1>2, <2>1 DEF Written
  <2> QED BY <1>2, <2>1, <2>2 DEF OrNone, RowOf, RequestOf
<1>3. CASE r.kind = "POST"
  <2>1. row = None
    BY <1>0, <1>3 DEF Refused
  <2>2. Written(r) = Inserted(coll, r.body)
    BY <1>3, <2>1 DEF Written
  <2>3. Inserted(coll, r.body) =
          [c \in Columns(coll) |-> IF c \in DOMAIN r.body THEN r.body[c] ELSE Blank(coll)[c]]
    BY <1>0 DEF Inserted, Columns
  <2> QED BY <1>3, <2>2, <2>3 DEF OrNone, RowOf, RequestOf
<1> QED BY <1>1, <1>2, <1>3 DEF RequestOf

\* What a form shows of a column goes back into it as it was.
LEMMA RoundTrip ==
    ASSUME NEW c \in Edited, NEW base, RowOf(c, base), FormMade(c, base),
           NEW f, FormOf(c, f), NEW x \in Columns(c), f[x] = Shown(c, base)[x],
           ~(c = "providers" /\ f.type = "direct" /\ x \in {"endpoint", "secret_ref"}),
           ~(c = "ratelimits" /\ f.scope = "global" /\ x = "key")
    PROVE  /\ x \in DOMAIN Body(c, f, FALSE) => Body(c, f, FALSE)[x] = base[x]
           /\ x \notin DOMAIN Body(c, f, FALSE) => c = "accounts" /\ x \in {"username", "password"}
<1> DEFINE body == Body(c, f, FALSE)
<1> SUFFICES /\ x \in DOMAIN body => body[x] = base[x]
             /\ x \notin DOMAIN body => c = "accounts" /\ x \in {"username", "password"}
  OBVIOUS
<1> USE ColumnsAre
<1>1. CASE c = "providers"
  <2>1. body = [type |-> f.type, auth_mode |-> AUTH_TO_DB(f.auth_mode), enabled |-> f.enabled,
                endpoint |-> IF f.type = "direct" THEN None ELSE orNull(f.endpoint),
                secret_ref |-> IF f.type = "direct" \/ f.secret_ref = "-" THEN None ELSE orNull(f.secret_ref)]
    BY <1>1 DEF Body
  <2>2. Shown(c, base) = mapProvider(base)
    BY <1>1 DEF Shown
  <2>3. base.endpoint \in {None, "x"} /\ base.secret_ref \in {None, "x"}
        /\ base.auth_mode \in {"xoauth2", "iam", "smtp-auth", "ip"}
    BY <1>1 DEF RowOf, Holds, FormMade
  <2> HIDE DEF body
  <2>4. CASE x = "endpoint"
    <3>1. f.type # "direct" /\ f.endpoint = orEmpty(base.endpoint)
      BY <1>1, <2>2, <2>4 DEF mapProvider
    <3> QED BY <2>1, <2>3, <2>4, <3>1, EmptyIsNoText, NoneIsNoText DEF orNull, orEmpty
  <2>5. CASE x = "secret_ref"
    <3>1. f.type # "direct" /\ f.secret_ref = IF base.secret_ref = None THEN "-" ELSE base.secret_ref
      BY <1>1, <2>2, <2>5 DEF mapProvider
    <3> QED BY <2>1, <2>3, <2>5, <3>1, EmptyIsNoText, NoneIsNoText DEF orNull
  <2>6. CASE x = "auth_mode"
    <3>1. f.auth_mode = AUTH_FROM_DB(base.auth_mode)
      BY <2>2, <2>6 DEF mapProvider
    <3>2. AUTH_TO_DB(AUTH_FROM_DB(base.auth_mode)) = base.auth_mode
      BY <2>3 DEF AUTH_TO_DB, AUTH_FROM_DB
    <3> QED BY <2>1, <2>6, <3>1, <3>2
  <2>7. CASE x \in {"type", "enabled"}
    BY <2>1, <2>2, <2>7 DEF mapProvider
  <2> QED BY <1>1, <2>4, <2>5, <2>6, <2>7
<1>2. CASE c = "rules"
  <2>1. body = [recipient |-> unstar(f.recipient), sender |-> unstar(f.sender), chain |-> f.chain,
                enabled |-> f.enabled]
    BY <1>2 DEF Body
  <2>2. Shown(c, base) = mapRule(base)
    BY <1>2 DEF Shown
  <2>3. base.recipient \in {None, "x"} /\ base.sender \in {None, "x"}
    BY <1>2 DEF RowOf, Holds
  <2> HIDE DEF body
  <2>4. \A v \in {None, "x"} : unstar(star(v)) = v
    BY EmptyIsNoText, NoneIsNoText DEF star, unstar
  <2>5. CASE x \in {"recipient", "sender"}
    BY <2>1, <2>2, <2>3, <2>4, <2>5 DEF mapRule
  <2>6. CASE x \in {"chain", "enabled"}
    BY <2>1, <2>2, <2>6 DEF mapRule
  <2> QED BY <1>2, <2>5, <2>6
<1>3. CASE c = "ratelimits"
  <2>1. body = [f EXCEPT !.key = IF f.scope = "global" THEN "*" ELSE f.key]
    BY <1>3 DEF Body
  <2>2. f[x] = base[x] /\ DOMAIN f = Columns(c)
    BY <1>3 DEF Shown, mapRate, FormOf
  <2> QED BY <1>3, <2>1, <2>2
<1>4. CASE c = "accounts"
  <2> DEFINE sent == {"ip_allowlist", "enabled"} \cup IF f.password = Empty THEN {} ELSE {"password"}
  <2>1. body = [y \in sent |-> f[y]]
    BY <1>4 DEF Body
  <2>2. Shown(c, base) = [base EXCEPT !.password = Empty]
    BY <1>4 DEF Shown, mapAccount
  <2>3. DOMAIN base = Columns(c)
    BY DEF RowOf
  <2>4. x \in {"ip_allowlist", "enabled"} => f[x] = base[x]
    BY <1>4, <2>2, <2>3
  <2>5. x = "password" => f.password = Empty
    BY <1>4, <2>2, <2>3
  <2> QED BY <1>4, <2>1, <2>4, <2>5
<1>5. CASE c = "relayclients"
  <2>1. body = f /\ DOMAIN f = Columns(c)
    BY <1>5 DEF Body, FormOf
  <2>2. Shown(c, base) = mapRelayClient(base) /\ base.description # None
    BY <1>5 DEF Shown, FormMade
  <2>3. f[x] = base[x]
    BY <1>5, <2>2 DEF mapRelayClient, orEmpty
  <2> QED BY <2>1, <2>3
<1> QED BY <1>1, <1>2, <1>3, <1>4, <1>5 DEF Edited

-----------------------------------------------------------------------------
(* The inductive invariant. *)

LEMMA ClientsFinite == IsFiniteSet(Client) /\ \A S \in SUBSET Client : IsFiniteSet(S)
<1>1. IsFiniteSet(Client)
  <2>1. Client = {"browser"} \cup {Other}
    BY DEF Client
  <2> QED BY <2>1, FS_Singleton, FS_Union
<1> QED BY <1>1, FS_Subset

LEMMA InitHolds == Init => ConsoleInv
<1> SUFFICES ASSUME NEW s \in Start, Init, coll = s.coll, row = s.row,
                    account = IF s.booted THEN "admin" ELSE None,
                    boot = [r \in Replica |-> IF s.booted THEN "up" ELSE "down"]
             PROVE  ConsoleInv
  BY DEF Init
<1> USE ConsoleAssumption, NoneIsNoText
<1>0. req = [c \in Client |-> Idle] /\ load = [l \in Load \cup Refresh |-> NoLoad] /\ view = None /\ form = None
      /\ unaudited = 0 /\ audit = 0 /\ commits = 0 /\ lost = 0 /\ seedFaults = 0
  BY DEF Init
<1>1. Typed
  BY <1>0 DEF Typed, Idle, RequestStep
<1>2. Accounted
  <2>1. Unanswered = {}
    BY <1>0 DEF Unanswered, Idle
  <2> QED BY <1>0, <2>1, FS_EmptySet DEF Accounted
<1>3. Seeding
  BY DEF Seeding
<1>4. RowsFit
  BY <1>0 DEF RowsFit, OrNone, NoLoad
<1>5. FormFits /\ RequestsFit /\ Sent
  BY <1>0 DEF FormFits, RequestsFit, Sent, Idle
<1> QED BY <1>1, <1>2, <1>3, <1>4, <1>5 DEF ConsoleInv

LEMMA CrashCounts ==
    ASSUME NEW r \in Replica, Crash(r)
    PROVE  seedFaults' = seedFaults + (IF boot[r] = "up" THEN 0 ELSE 1)
  BY DEF Crash

\* Requests and hooks that die with a replica.
LEMMA CrashLoses ==
    ASSUME NEW r \in Replica, Crash(r), unaudited \in Nat
    PROVE  \E dead \in SUBSET Client, hooks \in 0 .. unaudited :
           /\ req' = [c \in Client |-> IF c \in dead THEN Idle ELSE req[c]]
           /\ lost' = lost + hooks + Cardinality({c \in dead : req[c].pc = "committed"})
           /\ unaudited' = unaudited - hooks
<1>1. PICK dead \in SUBSET {c \in Client : boot[r] = "up" /\ req[c].pc \in {"authorized", "committed"}},
           hooks \in IF boot[r] = "up" THEN 0 .. unaudited ELSE {0} :
           /\ req' = [c \in Client |-> IF c \in dead THEN Idle ELSE req[c]]
           /\ lost' = lost + hooks + Cardinality({c \in dead : req[c].pc = "committed"})
           /\ unaudited' = unaudited - hooks
  BY DEF Crash
<1>2. dead \in SUBSET Client /\ hooks \in 0 .. unaudited
  OBVIOUS
<1> QED BY <1>1, <1>2

LEMMA TypedStep ==
    ASSUME Typed, [Next]_vars PROVE Typed'
<1> USE DEF Typed, Act, Fault, RequestStep
<1>1. ASSUME NEW r \in Replica, Seed(r) \/ SeedFails(r), UNCHANGED coll PROVE Typed'
  <2>1. UNCHANGED <<req, unaudited, audit, commits, lost, form, load>>
    BY <1>1 DEF Seed, Count, SignUp, Promote, SeedFails, seedRest, browserVars
  <2>2. account' \in {None, "user", "admin"} /\ seedFaults' \in Nat
    BY <1>1 DEF Seed, Count, SignUp, Promote, SeedFails, seedRest
  <2>3. boot' \in [Replica -> {"down", "counted", "signed", "up"}]
    BY <1>1 DEF Seed, Count, SignUp, Promote, SeedFails
  <2> QED BY <1>1, <2>1, <2>2, <2>3
<1>2. ASSUME NEW r \in Replica, Crash(r) PROVE Typed'
  <2>1. UNCHANGED <<coll, account, audit, commits, form, load>>
    BY <1>2 DEF Crash, browserVars
  <2>2. boot' \in [Replica -> {"down", "counted", "signed", "up"}]
    BY <1>2 DEF Crash
  <2>0. seedFaults' \in Nat
    <3>1. seedFaults' = seedFaults + (IF boot[r] = "up" THEN 0 ELSE 1)
      BY <1>2, CrashCounts
    <3> QED BY <3>1
  <2>3. PICK dead \in SUBSET Client, hooks \in 0 .. unaudited :
           /\ req' = [c \in Client |-> IF c \in dead THEN Idle ELSE req[c]]
           /\ lost' = lost + hooks + Cardinality({c \in dead : req[c].pc = "committed"})
           /\ unaudited' = unaudited - hooks
    BY <1>2, CrashLoses
  <2>4. Cardinality({c \in dead : req[c].pc = "committed"}) \in Nat
    BY ClientsFinite, FS_CardinalityType
  <2>5. lost' \in Nat /\ unaudited' \in Nat
    BY <2>3, <2>4
  <2>6. DOMAIN req' = Client
        /\ \A c \in Client : DOMAIN req'[c] = {"pc", "kind", "body"} /\ req'[c].pc \in RequestStep
    BY <2>3 DEF Idle
  <2> QED BY <2>0, <2>1, <2>2, <2>5, <2>6
<1>3. ASSUME NEW c \in Client, Handle(c) PROVE Typed'
  <2>1. UNCHANGED <<coll, account, boot, load, audit, seedFaults>>
    BY <1>3 DEF Handle, Authorize, AuthRoute, Commit, Publish, PublishFails, handlerRest
  <2>2. {unaudited', commits', lost'} \subseteq Nat
    BY <1>3 DEF Handle, Authorize, AuthRoute, Commit, Publish, PublishFails, handlerRest
  <2>3. form' = form \/ form' = None
    BY <1>3 DEF Handle, Authorize, AuthRoute, Commit, Publish, PublishFails, handlerRest
  <2>4. \/ \E p \in RequestStep : req' = [req EXCEPT ![c].pc = p]
        \/ req' = [req EXCEPT ![c] = Idle]
    BY <1>3 DEF Handle, Authorize, AuthRoute, Commit, Publish, PublishFails, Answer
  <2>5. DOMAIN req' = Client
        /\ \A d \in Client : DOMAIN req'[d] = {"pc", "kind", "body"} /\ req'[d].pc \in RequestStep
    BY <2>4 DEF Idle
  <2> QED BY <2>1, <2>2, <2>3, <2>5
<1>4. ASSUME Audit \/ AuditFails PROVE Typed'
  BY <1>4 DEF Audit, AuditFails, auditRest, browserVars
<1>s. ASSUME NEW c \in Client, NEW kind, NEW body, Send(c, kind, body)
      PROVE  /\ DOMAIN req' = Client
             /\ \A d \in Client : DOMAIN req'[d] = {"pc", "kind", "body"} /\ req'[d].pc \in RequestStep
  BY <1>s DEF Send
<1>5. ASSUME OtherWrites PROVE Typed'
  <2>1. \E kind, body : Send(Other, kind, body)
    BY <1>5 DEF OtherWrites
  <2> QED BY <1>5, <1>s, <2>1 DEF OtherWrites, sendRest, Client
<1>6. ASSUME MessageMoves PROVE Typed'
  BY <1>6 DEF MessageMoves, browserVars
<1>7. ASSUME OpenForm \/ Edit \/ CloseForm \/ AskDelete PROVE Typed'
  <2>1. form' # None => DOMAIN form' = {"base", "f", "edits"}
    BY <1>7 DEF OpenForm, Edit, CloseForm, AskDelete
  <2> QED BY <1>7, <2>1 DEF OpenForm, Edit, CloseForm, AskDelete, sendRest
<1>8. ASSUME SaveForm \/ ToggleRow \/ ConfirmDelete PROVE Typed'
  <2>1. req' = req \/ \E kind, body : Send("browser", kind, body)
    BY <1>8 DEF SaveForm, ToggleRow, ConfirmDelete
  <2>2. form' = form \/ form' = None
    BY <1>8 DEF SaveForm, ToggleRow, ConfirmDelete
  <2> QED BY <1>8, <1>s, <2>1, <2>2 DEF SaveForm, ToggleRow, ConfirmDelete, sendRest, Client
<1>9. ASSUME UNCHANGED <<coll, serverVars>>, form' = form \/ form' = None,
             DOMAIN load' = Load \cup Refresh
      PROVE  Typed'
  BY <1>9 DEF serverVars
<1>10. ASSUME CheckOnMount \/ Expire \/ Login \/ Logout \/ Reload PROVE Typed'
  BY <1>9, <1>10 DEF CheckOnMount, Expire, Login, Logout, Reload, sessionRest
<1>11. ASSUME NEW l \in Load \cup Refresh, NEW new, InstallRow(l, new) PROVE Typed'
  <2>1. UNCHANGED <<coll, serverVars>> /\ DOMAIN load' = Load \cup Refresh
    BY <1>11 DEF InstallRow, sessionRest
  <2>2. form' # None => DOMAIN form' = {"base", "f", "edits"}
    BY <1>11 DEF InstallRow, Redrawn
  <2> QED BY <2>1, <2>2 DEF serverVars
<1>12. ASSUME NEW l \in Load, LoadAll(l) PROVE Typed'
  BY <1>9, <1>11, <1>12 DEF LoadAll, FetchLists, FetchEvents, Install, sessionRest
<1>13. ASSUME NEW l \in Refresh, RefreshLight(l) PROVE Typed'
  BY <1>9, <1>11, <1>13 DEF RefreshLight, LightFetch, LightInstall, sessionRest
<1>14. CASE UNCHANGED vars
  BY <1>9, <1>14 DEF vars, browserVars
<1> QED
  BY <1>1, <1>2, <1>3, <1>4, <1>5, <1>6, <1>7, <1>8, <1>10, <1>12, <1>13, <1>14 DEF Next, Operate

\* What leaves requests and the books of the audit alone.
Unaudited == <<req, unaudited, audit, commits, lost>>

LEMMA AccountedStep ==
    ASSUME Typed, Accounted, [Next]_vars PROVE Accounted'
<1> USE DEF Typed, RequestStep
<1>f. \A S \in SUBSET Client : IsFiniteSet(S) /\ Cardinality(S) \in Nat
  BY ClientsFinite, FS_CardinalityType
<1>u. Unanswered \in SUBSET Client
  BY DEF Unanswered
<1>0. ASSUME UNCHANGED Unaudited PROVE Accounted'
  BY <1>0 DEF Accounted, Unanswered, Unaudited
<1>1. ASSUME NEW r \in Replica, Crash(r) PROVE Accounted'
  <2>1. PICK dead \in SUBSET Client, hooks \in 0 .. unaudited :
           /\ req' = [c \in Client |-> IF c \in dead THEN Idle ELSE req[c]]
           /\ lost' = lost + hooks + Cardinality({c \in dead : req[c].pc = "committed"})
           /\ unaudited' = unaudited - hooks
    BY <1>1, CrashLoses
  <2>2. Unanswered' = Unanswered \ dead
    BY <2>1 DEF Unanswered, Idle
  <2>3. {c \in dead : req[c].pc = "committed"} = Unanswered \cap dead
    BY DEF Unanswered
  <2>4. Cardinality(Unanswered \ dead) = Cardinality(Unanswered) - Cardinality(Unanswered \cap dead)
    BY <1>f, <1>u, FS_Difference
  <2>5. Cardinality(Unanswered \cap dead) \in Nat /\ Cardinality(Unanswered) \in Nat
    BY <1>f, <1>u
  <2>6. commits' = commits /\ audit' = audit /\ hooks \in Nat
    BY <1>1, <2>1 DEF Crash
  <2>7. {unaudited, audit, commits, lost} \subseteq Nat
    OBVIOUS
  <2> DEFINE n == Cardinality(Unanswered)
             k == Cardinality(Unanswered \cap dead)
  <2>8. lost' = lost + hooks + k /\ Cardinality(Unanswered)' = n - k /\ n \in Nat /\ k \in Nat
    BY <2>1, <2>2, <2>3, <2>4, <2>5
  <2>9. commits = audit + unaudited + lost + n
    BY DEF Accounted
  <2> HIDE DEF n, k
  <2>10. commits = audit + (unaudited - hooks) + (lost + hooks + k) + (n - k)
    BY <2>6, <2>7, <2>8, <2>9
  <2> QED BY <2>1, <2>6, <2>8, <2>10 DEF Accounted
<1>2. ASSUME NEW c \in Client, UNCHANGED <<unaudited, audit, commits, lost>>, req[c].pc # "committed",
             \A d \in Client : req'[d].pc = "committed" <=> req[d].pc = "committed"
      PROVE  Accounted'
  <2>1. Unanswered' = Unanswered
    BY <1>2 DEF Unanswered
  <2> QED BY <1>2, <2>1 DEF Accounted
<1>3. ASSUME NEW c \in Client, Authorize(c) \/ AuthRoute(c) PROVE Accounted'
  <2>1. req[c].pc = "sent" /\ UNCHANGED <<unaudited, audit, commits, lost>>
    BY <1>3 DEF Authorize, AuthRoute, handlerRest
  <2>2. req' = [req EXCEPT ![c].pc = "authorized"] \/ req' = [req EXCEPT ![c] = Idle]
    BY <1>3 DEF Authorize, AuthRoute, Answer
  <2> QED BY <1>2, <2>1, <2>2 DEF Idle
<1>4. ASSUME NEW c \in Client, Commit(c) PROVE Accounted'
  <2>1. req[c].pc = "authorized" /\ UNCHANGED <<unaudited, audit, lost>>
    BY <1>4 DEF Commit, handlerRest
  <2>2. CASE req' = [req EXCEPT ![c] = Idle] /\ UNCHANGED commits
    BY <1>2, <2>1, <2>2 DEF Idle
  <2>3. CASE req' = [req EXCEPT ![c].pc = "committed"] /\ commits' = commits + 1
    <3>1. Unanswered' = Unanswered \cup {c} /\ c \notin Unanswered
      BY <2>1, <2>3 DEF Unanswered
    <3>2. Cardinality(Unanswered') = Cardinality(Unanswered) + 1
      BY <1>f, <1>u, <3>1, FS_AddElement
    <3> QED BY <1>f, <1>u, <2>1, <2>3, <3>2 DEF Accounted
  <2> QED BY <1>4, <2>2, <2>3 DEF Commit, Answer
<1>5. ASSUME NEW c \in Client, Publish(c) \/ PublishFails(c) PROVE Accounted'
  <2>1. req[c].pc = "committed" /\ req' = [req EXCEPT ![c] = Idle] /\ UNCHANGED <<audit, commits>>
    BY <1>5 DEF Publish, PublishFails, Answer, handlerRest
  <2>2. unaudited' + lost' = unaudited + lost + 1 /\ unaudited' \in Nat /\ lost' \in Nat
    BY <1>5 DEF Publish, PublishFails, handlerRest
  <2>3. Unanswered' = Unanswered \ {c} /\ c \in Unanswered
    BY <2>1 DEF Unanswered, Idle
  <2>4. Cardinality(Unanswered') = Cardinality(Unanswered) - 1
    BY <1>f, <1>u, <2>3, FS_RemoveElement
  <2> QED BY <1>f, <1>u, <2>1, <2>2, <2>4 DEF Accounted
<1>6. ASSUME Audit \/ AuditFails PROVE Accounted'
  <2>1. UNCHANGED <<req, commits>> /\ unaudited > 0 /\ unaudited' = unaudited - 1
    BY <1>6 DEF Audit, AuditFails, auditRest
  <2>2. (audit' = audit + 1 /\ lost' = lost) \/ (audit' = audit /\ lost' = lost + 1)
    BY <1>6 DEF Audit, AuditFails, auditRest
  <2>3. Unanswered' = Unanswered
    BY <2>1 DEF Unanswered
  <2> QED BY <1>f, <1>u, <2>1, <2>2, <2>3 DEF Accounted
<1>7. ASSUME NEW c \in Client, NEW kind, NEW body, Send(c, kind, body), UNCHANGED <<unaudited, audit, commits, lost>>
      PROVE  Accounted'
  <2>1. req[c].pc = "idle" /\ req' = [req EXCEPT ![c] = [pc |-> "sent", kind |-> kind, body |-> body]]
    BY <1>7 DEF Send
  <2> QED BY <1>2, <1>7, <2>1
<1>8. ASSUME OtherWrites PROVE Accounted'
  <2>1. \E kind, body : Send(Other, kind, body)
    BY <1>8 DEF OtherWrites
  <2> QED BY <1>7, <1>8, <2>1 DEF OtherWrites, sendRest, Client
<1>9. ASSUME SaveForm \/ ToggleRow \/ ConfirmDelete PROVE Accounted'
  <2>1. UNCHANGED req \/ \E kind, body : Send("browser", kind, body)
    BY <1>9 DEF SaveForm, ToggleRow, ConfirmDelete
  <2>2. UNCHANGED <<unaudited, audit, commits, lost>>
    BY <1>9 DEF SaveForm, ToggleRow, ConfirmDelete, sendRest
  <2> QED BY <1>0, <1>7, <2>1, <2>2 DEF Unaudited, Client
<1>10. ASSUME NEW r \in Replica, Seed(r) \/ SeedFails(r) PROVE UNCHANGED Unaudited
  BY <1>10 DEF Seed, Count, SignUp, Promote, SeedFails, seedRest, Unaudited
<1>11. ASSUME MessageMoves \/ OpenForm \/ Edit \/ CloseForm \/ AskDelete PROVE UNCHANGED Unaudited
  BY <1>11 DEF MessageMoves, OpenForm, Edit, CloseForm, AskDelete, sendRest, Unaudited
<1>12. ASSUME CheckOnMount \/ Expire \/ Login \/ Logout \/ Reload PROVE UNCHANGED Unaudited
  BY <1>12 DEF CheckOnMount, Expire, Login, Logout, Reload, sessionRest, serverVars, Unaudited
<1>13. ASSUME \/ \E l \in Load : LoadAll(l)
              \/ \E l \in Refresh : RefreshLight(l)
       PROVE UNCHANGED Unaudited
  BY <1>13 DEF LoadAll, FetchLists, FetchEvents, Install, InstallRow, RefreshLight, LightFetch, LightInstall,
               sessionRest, serverVars, Unaudited
<1>14. CASE UNCHANGED vars
  BY <1>0, <1>14 DEF vars, serverVars, Unaudited
<1> QED
  BY <1>0, <1>1, <1>3, <1>4, <1>5, <1>6, <1>8, <1>9, <1>10, <1>11, <1>12, <1>13, <1>14
     DEF Next, Handle, Operate

LEMMA SeedingStep ==
    ASSUME Typed, Seeding, [Next]_vars PROVE Seeding'
<1> USE NoneIsNoText DEF Typed, Seeding
<1>0. ASSUME UNCHANGED <<account, boot, seedFaults>> PROVE Seeding'
  BY <1>0
<1>1. ASSUME NEW r \in Replica, Count(r) PROVE Seeding'
  BY <1>1 DEF Count
<1>2. ASSUME NEW r \in Replica, SignUp(r, "counted", "signed") PROVE Seeding'
  <2>1. CASE account = None
    <3>1. account' = "user" /\ boot'[r] = "signed"
      BY <1>2, <2>1 DEF SignUp
    <3> QED BY <3>1
  <2>2. CASE account # None
    <3>1. account' = account /\ boot[r] = "counted" /\ seedFaults' = seedFaults
          /\ \A q \in Replica \ {r} : boot'[q] = boot[q]
      BY <1>2, <2>2 DEF SignUp
    <3> QED BY <2>2, <3>1
  <2> QED BY <2>1, <2>2
<1>3. ASSUME NEW r \in Replica, Promote(r, "signed", "up") PROVE Seeding'
  <2>1. boot[r] = "signed" /\ seedFaults' = seedFaults /\ account' = IF account = None THEN None ELSE "admin"
    BY <1>3 DEF Promote
  <2> QED BY <2>1
<1>4. ASSUME NEW r \in Replica, SeedFails(r) PROVE Seeding'
  BY <1>4 DEF SeedFails
<1>5. ASSUME NEW r \in Replica, Crash(r) PROVE Seeding'
  <2>1. account' = account /\ boot' = [boot EXCEPT ![r] = "down"]
    BY <1>5 DEF Crash
  <2>2. CASE boot[r] = "up"
    <3>1. seedFaults' = seedFaults
      BY <1>5, <2>2 DEF Crash
    <3> QED BY <2>1, <2>2, <3>1
  <2>3. CASE boot[r] # "up"
    <3>1. seedFaults' = seedFaults + 1
      BY <1>5, <2>3 DEF Crash
    <3> QED BY <3>1
  <2> QED BY <2>2, <2>3
<1>6. ASSUME NEW c \in Client, Handle(c) PROVE UNCHANGED <<account, boot, seedFaults>>
  BY <1>6 DEF Handle, Authorize, AuthRoute, Commit, Publish, PublishFails, handlerRest
<1>7. ASSUME Audit \/ AuditFails \/ OtherWrites \/ MessageMoves PROVE UNCHANGED <<account, boot, seedFaults>>
  BY <1>7 DEF Audit, AuditFails, auditRest, OtherWrites, sendRest, MessageMoves
<1>8. ASSUME Operate PROVE UNCHANGED <<account, boot, seedFaults>>
  BY <1>8 DEF Operate, OpenForm, Edit, SaveForm, CloseForm, ToggleRow, AskDelete, ConfirmDelete, sendRest,
              Login, Logout, Reload, sessionRest, serverVars
<1>9. ASSUME \/ CheckOnMount \/ Expire
             \/ \E l \in Load : LoadAll(l)
             \/ \E l \in Refresh : RefreshLight(l)
      PROVE  UNCHANGED <<account, boot, seedFaults>>
  BY <1>9 DEF CheckOnMount, Expire, LoadAll, FetchLists, FetchEvents, Install, InstallRow, RefreshLight,
              LightFetch, LightInstall, sessionRest, serverVars
<1>10. CASE UNCHANGED vars
  BY <1>10 DEF vars, serverVars
<1> QED
  BY <1>0, <1>1, <1>2, <1>3, <1>4, <1>5, <1>6, <1>7, <1>8, <1>9, <1>10 DEF Next, Seed

LEMMA RowsFitStep ==
    ASSUME Typed, RowsFit, RequestsFit, [Next]_vars, coll \in Edited PROVE RowsFit'
<1> USE ConsoleAssumption
<1>e. coll # "messages" /\ coll # "settings" /\ coll # "operators"
  BY DEF Edited
<1>a. ASSUME UNCHANGED <<coll, row, view, load>>, form' = form \/ form' = None PROVE RowsFit'
  BY <1>a DEF RowsFit, OrNone
<1>1. ASSUME NEW r \in Replica, Seed(r) \/ SeedFails(r), UNCHANGED coll PROVE RowsFit'
  BY <1>1, <1>a DEF Seed, Count, SignUp, Promote, SeedFails, seedRest, browserVars
<1>2. ASSUME NEW r \in Replica, Crash(r) PROVE RowsFit'
  BY <1>2, <1>a DEF Crash, browserVars
<1>3. ASSUME NEW c \in Client, Authorize(c) \/ AuthRoute(c) \/ Publish(c) \/ PublishFails(c) PROVE RowsFit'
  BY <1>3, <1>a, <1>e DEF Authorize, AuthRoute, Publish, PublishFails, handlerRest
<1>4. ASSUME NEW c \in Client, Commit(c) PROVE RowsFit'
  <2>1. UNCHANGED <<coll, view, load, form>>
    BY <1>4 DEF Commit, handlerRest
  <2>2. CASE UNCHANGED row
    BY <1>a, <2>1, <2>2
  <2>3. CASE ~Refused(req[c]) /\ row' = Written(req[c])
    <3>1. RequestOf(coll, req[c].kind, req[c].body)
      BY <1>4 DEF Commit, RequestsFit
    <3>2. OrNone(row)
      BY DEF RowsFit
    <3>3. OrNone(Written(req[c]))
      BY <2>3, <3>1, <3>2, WrittenFits
    <3> QED BY <2>1, <2>3, <3>3 DEF RowsFit, OrNone
  <2> QED BY <1>4, <2>2, <2>3 DEF Commit
<1>5. ASSUME Audit \/ AuditFails \/ OtherWrites PROVE RowsFit'
  BY <1>5, <1>a DEF Audit, AuditFails, auditRest, browserVars, OtherWrites, sendRest
<1>6. ASSUME MessageMoves PROVE RowsFit'
  BY <1>6, <1>e DEF MessageMoves
<1>7. ASSUME OpenForm \/ Edit \/ AskDelete PROVE RowsFit'
  <2>1. UNCHANGED <<coll, row, view, load>>
    BY <1>7 DEF OpenForm, Edit, AskDelete, sendRest
  <2>2. form'.base = view \/ form'.base = None \/ (form # None /\ form'.base = form.base)
    <3>1. CASE OpenForm
      BY <3>1 DEF OpenForm
    <3>2. CASE AskDelete
      BY <3>2 DEF AskDelete
    <3>3. CASE Edit
      <4>1. PICK g : form' = [form EXCEPT !.f = g, !.edits = @ + 1]
        BY <3>3 DEF Edit
      <4> QED BY <3>3, <4>1 DEF Edit, Typed
    <3> QED BY <1>7, <3>1, <3>2, <3>3
  <2> QED BY <2>1, <2>2 DEF RowsFit, OrNone
<1>8. ASSUME SaveForm \/ CloseForm \/ ToggleRow \/ ConfirmDelete PROVE RowsFit'
  BY <1>8, <1>a DEF SaveForm, CloseForm, ToggleRow, ConfirmDelete, sendRest
<1>9. ASSUME CheckOnMount \/ Expire \/ Login \/ Logout PROVE RowsFit'
  BY <1>9, <1>a DEF CheckOnMount, Expire, Login, Logout, sessionRest, serverVars
<1>10. ASSUME Reload PROVE RowsFit'
  BY <1>10 DEF Reload, sessionRest, serverVars, RowsFit, OrNone, NoLoad
<1>11. ASSUME NEW l \in Load, FetchLists(l) PROVE RowsFit'
  <2>1. UNCHANGED <<coll, row, view, form>>
    BY <1>11 DEF FetchLists, sessionRest, serverVars
  <2>2. \E new : (new = row \/ new = None) /\ load' = [load EXCEPT ![l] = [pc |-> "fetched", row |-> new]]
    BY <1>11, <1>e DEF FetchLists, Listed
  <2> QED BY <2>1, <2>2 DEF RowsFit, OrNone, Typed
<1>12. ASSUME NEW l \in Load, FetchEvents(l) PROVE FALSE
  BY <1>12 DEF FetchEvents, RowsFit, Typed
<1>13. ASSUME NEW l \in Load, Install(l) PROVE RowsFit'
  <2>1. UNCHANGED <<coll, row, form>> /\ view' = load[l].row /\ load' = [load EXCEPT ![l] = NoLoad]
    BY <1>13, <1>e DEF Install, InstallRow, Redrawn, sessionRest, serverVars
  <2> QED BY <2>1 DEF RowsFit, OrNone, NoLoad, Typed
<1>14. ASSUME NEW l \in Refresh, RefreshLight(l) PROVE FALSE
  BY <1>14, <1>e DEF RefreshLight, LightFetch, LightInstall, InstallRow, RowsFit
<1>15. CASE UNCHANGED vars
  BY <1>15, <1>a DEF vars, serverVars, browserVars
<1> QED
  BY <1>1, <1>2, <1>3, <1>4, <1>5, <1>6, <1>7, <1>8, <1>9, <1>10, <1>11, <1>12, <1>13, <1>14, <1>15
     DEF Next, Handle, Operate, LoadAll

\* What a form holds comes from a row that is shown, or from nothing, and from edits.
LEMMA FormFitsStep ==
    ASSUME Typed, RowsFit, FormFits, [Next]_vars, coll \in Edited PROVE FormFits'
<1>e. coll # "messages" /\ coll # "settings" /\ coll # "operators" /\ coll # "suppressions"
  BY DEF Edited
<1>a. ASSUME UNCHANGED coll, form' = form \/ form' = None PROVE FormFits'
  BY <1>a DEF FormFits
<1>1. ASSUME NEW r \in Replica, ((Seed(r) \/ SeedFails(r)) /\ UNCHANGED coll) \/ Crash(r) PROVE FormFits'
  BY <1>1, <1>a DEF Seed, Count, SignUp, Promote, SeedFails, seedRest, browserVars, Crash
<1>2. ASSUME NEW c \in Client, Handle(c) PROVE FormFits'
  BY <1>2, <1>a DEF Handle, Authorize, AuthRoute, Commit, Publish, PublishFails, handlerRest
<1>3. ASSUME Audit \/ AuditFails \/ OtherWrites \/ MessageMoves PROVE FormFits'
  BY <1>3, <1>a DEF Audit, AuditFails, auditRest, browserVars, OtherWrites, sendRest, MessageMoves
<1>4. ASSUME OpenForm PROVE FormFits'
  <2>1. coll' = coll
        /\ form' = [base |-> view, edits |-> 0, f |-> IF view = None THEN Blank(coll) ELSE Shown(coll, view)]
    BY <1>4, <1>e DEF OpenForm, sendRest
  <2>2. view # None => RowOf(coll, view)
    BY DEF RowsFit, OrNone
  <2>3. FormOf(coll, IF view = None THEN Blank(coll) ELSE Shown(coll, view))
    BY <2>2, BlankFits, ShownFits
  <2> QED BY <2>1, <2>3 DEF FormFits
<1>5. ASSUME Edit PROVE FormFits'
  <2>1. PICK g \in Edits(coll, form.f) : form' = [form EXCEPT !.f = g, !.edits = @ + 1]
    BY <1>5 DEF Edit
  <2>2. form # None /\ form.f # None /\ coll' = coll
    BY <1>5 DEF Edit, sendRest
  <2>3. FormOf(coll, g)
    BY <2>2, EditFits DEF FormFits
  <2>4. form'.f = g
    BY <2>1, <2>2 DEF Typed
  <2> QED BY <2>2, <2>3, <2>4 DEF FormFits
<1>6. ASSUME SaveForm \/ CloseForm \/ ToggleRow \/ ConfirmDelete PROVE FormFits'
  BY <1>6, <1>a DEF SaveForm, CloseForm, ToggleRow, ConfirmDelete, sendRest
<1>7. ASSUME AskDelete PROVE FormFits'
  BY <1>7 DEF AskDelete, FormFits
<1>8. ASSUME CheckOnMount \/ Expire \/ Login \/ Logout \/ Reload PROVE FormFits'
  BY <1>8, <1>a DEF CheckOnMount, Expire, Login, Logout, Reload, sessionRest
<1>9. ASSUME \/ \E l \in Load : LoadAll(l)
             \/ \E l \in Refresh : RefreshLight(l)
      PROVE  FormFits'
  BY <1>9, <1>a, <1>e DEF LoadAll, FetchLists, FetchEvents, Install, InstallRow, Redrawn, RefreshLight,
                          LightFetch, LightInstall, sessionRest
<1>10. CASE UNCHANGED vars
  BY <1>10, <1>a DEF vars, browserVars
<1> QED
  BY <1>1, <1>2, <1>3, <1>4, <1>5, <1>6, <1>7, <1>8, <1>9, <1>10 DEF Next, Operate

LEMMA RequestsFitStep ==
    ASSUME Typed, RowsFit, FormFits, RequestsFit, [Next]_vars, coll \in Edited PROVE RequestsFit'
<1>e. coll # "settings" /\ coll # "operators" /\ coll # "suppressions"
  BY DEF Edited
<1>a. ASSUME UNCHANGED <<coll, req>> PROVE RequestsFit'
  BY <1>a DEF RequestsFit
<1>b. ASSUME coll' = coll,
             \A c \in Client : \/ req'[c].pc = "idle"
                               \/ req[c].pc # "idle" /\ req'[c].kind = req[c].kind /\ req'[c].body = req[c].body
      PROVE  RequestsFit'
  BY <1>b DEF RequestsFit
<1>s. ASSUME coll' = coll, NEW c \in Client, NEW kind, NEW body, Send(c, kind, body), RequestOf(coll, kind, body)
      PROVE  RequestsFit'
  BY <1>s DEF Send, RequestsFit, Typed
<1>1. ASSUME NEW r \in Replica, (Seed(r) \/ SeedFails(r)) /\ UNCHANGED coll PROVE RequestsFit'
  BY <1>1, <1>a DEF Seed, Count, SignUp, Promote, SeedFails, seedRest
<1>2. ASSUME NEW r \in Replica, Crash(r) PROVE RequestsFit'
  <2>1. PICK dead : req' = [c \in Client |-> IF c \in dead THEN Idle ELSE req[c]]
    BY <1>2 DEF Crash
  <2>2. \A c \in Client : req'[c].pc = "idle" \/ (req[c].pc # "idle" /\ req'[c] = req[c])
    BY <2>1 DEF Idle
  <2> QED BY <1>2, <1>b, <2>2 DEF Crash
<1>3. ASSUME NEW c \in Client, Handle(c) PROVE RequestsFit'
  <2>1. coll' = coll /\ req[c].pc # "idle"
    BY <1>3 DEF Handle, Authorize, AuthRoute, Commit, Publish, PublishFails, handlerRest
  <2>2. (\E p \in RequestStep : req' = [req EXCEPT ![c].pc = p]) \/ req' = [req EXCEPT ![c] = Idle]
    BY <1>3 DEF Handle, Authorize, AuthRoute, Commit, Publish, PublishFails, Answer, RequestStep
  <2>3. \A d \in Client : \/ req'[d].pc = "idle"
                          \/ req'[d].kind = req[d].kind /\ req'[d].body = req[d].body
    BY <2>2 DEF Typed, Idle
  <2>4. \A d \in Client : req[d].pc = "idle" => req'[d].pc = "idle"
    BY <2>1, <2>2 DEF Typed, Idle
  <2> QED BY <1>b, <2>1, <2>3, <2>4
<1>4. ASSUME OtherWrites PROVE RequestsFit'
  <2>1. \/ \E b \in BOOLEAN : Send(Other, "PUT", [enabled |-> b])
        \/ Send(Other, "DELETE", None)
        \/ coll = "relayclients" /\ Send(Other, "PUT", [description |-> None])
    BY <1>4, <1>e DEF OtherWrites
  <2>2. RequestOf(coll, "DELETE", None)
    BY DEF RequestOf
  <2>3. \A b \in BOOLEAN : RequestOf(coll, "PUT", [enabled |-> b])
    BY DEF RequestOf, Holds
  <2>4. coll = "relayclients" => RequestOf(coll, "PUT", [description |-> None])
    BY DEF RequestOf, Holds
  <2>5. coll' = coll
    BY <1>4 DEF OtherWrites, sendRest
  <2> QED BY <1>s, <2>1, <2>2, <2>3, <2>4, <2>5 DEF Client
<1>5. ASSUME SaveForm PROVE RequestsFit'
  <2>1. form # None /\ form.f # None /\ ~Invalid(coll, form.f, form.base) /\ coll' = coll
    BY <1>5 DEF SaveForm, sendRest
  <2>2. RequestOf(coll, Method(coll, form.base = None), Body(coll, form.f, form.base = None))
    BY <2>1, BodyFits DEF FormFits
  <2>3. Send("browser", Method(coll, form.base = None), Body(coll, form.f, form.base = None)) \/ UNCHANGED req
    BY <1>5 DEF SaveForm
  <2> QED BY <1>a, <1>s, <2>1, <2>2, <2>3 DEF Client
<1>6. ASSUME ToggleRow PROVE RequestsFit'
  <2>1. RequestOf(coll, "PUT", [enabled |-> ~view.enabled])
    BY DEF RequestOf, Holds
  <2> QED BY <1>6, <1>s, <2>1 DEF ToggleRow, sendRest, Client
<1>7. ASSUME ConfirmDelete PROVE RequestsFit'
  <2>1. RequestOf(coll, "DELETE", None)
    BY DEF RequestOf
  <2> QED BY <1>7, <1>s, <2>1 DEF ConfirmDelete, sendRest, Client
<1>8. ASSUME Audit \/ AuditFails \/ MessageMoves \/ OpenForm \/ Edit \/ CloseForm \/ AskDelete PROVE RequestsFit'
  BY <1>8, <1>a DEF Audit, AuditFails, auditRest, MessageMoves, OpenForm, Edit, CloseForm, AskDelete, sendRest
<1>9. ASSUME CheckOnMount \/ Expire \/ Login \/ Logout \/ Reload PROVE RequestsFit'
  BY <1>9, <1>a DEF CheckOnMount, Expire, Login, Logout, Reload, sessionRest, serverVars
<1>10. ASSUME \/ \E l \in Load : LoadAll(l)
              \/ \E l \in Refresh : RefreshLight(l)
       PROVE  RequestsFit'
  BY <1>10, <1>a DEF LoadAll, FetchLists, FetchEvents, Install, InstallRow, RefreshLight, LightFetch,
                     LightInstall, sessionRest, serverVars
<1>11. CASE UNCHANGED vars
  BY <1>11, <1>a DEF vars, serverVars
<1> QED
  BY <1>1, <1>2, <1>3, <1>4, <1>5, <1>6, <1>7, <1>8, <1>9, <1>10, <1>11 DEF Next, Operate

LEMMA SentStep ==
    ASSUME Typed, Sent, [Next]_vars, coll # "settings" PROVE Sent'
<1> USE ConsoleAssumption
<1> DEFINE q == req["browser"]
<1>b. "browser" \in Client
  BY DEF Client
<1>a. ASSUME coll' = coll, form' = form \/ form' = None,
             q'.pc = "idle" \/ (q.pc # "idle" /\ q'.kind = q.kind /\ q'.body = q.body)
      PROVE  Sent'
  BY <1>a DEF Sent
<1>i. ASSUME coll' = coll, form' = form \/ form' = None, UNCHANGED req PROVE Sent'
  BY <1>i DEF Sent
<1>1. ASSUME NEW r \in Replica, (Seed(r) \/ SeedFails(r)) /\ UNCHANGED coll PROVE Sent'
  BY <1>1, <1>i DEF Seed, Count, SignUp, Promote, SeedFails, seedRest, browserVars
<1>2. ASSUME NEW r \in Replica, Crash(r) PROVE Sent'
  <2>1. PICK dead : req' = [c \in Client |-> IF c \in dead THEN Idle ELSE req[c]]
    BY <1>2 DEF Crash
  <2>2. q'.pc = "idle" \/ (q.pc # "idle" /\ q' = q)
    BY <1>b, <2>1 DEF Idle
  <2>3. coll' = coll /\ form' = form
    BY <1>2 DEF Crash, browserVars
  <2> QED BY <1>a, <2>2, <2>3
<1>3. ASSUME NEW c \in Client, Handle(c) PROVE Sent'
  <2>1. coll' = coll /\ req[c].pc # "idle" /\ (form' = form \/ form' = None)
    BY <1>3 DEF Handle, Authorize, AuthRoute, Commit, Publish, PublishFails, handlerRest
  <2>2. (\E p \in RequestStep : req' = [req EXCEPT ![c].pc = p]) \/ req' = [req EXCEPT ![c] = Idle]
    BY <1>3 DEF Handle, Authorize, AuthRoute, Commit, Publish, PublishFails, Answer, RequestStep
  <2>3. q'.pc = "idle" \/ (q'.kind = q.kind /\ q'.body = q.body)
    BY <1>b, <2>2 DEF Typed, Idle
  <2>4. q.pc = "idle" => q'.pc = "idle"
    BY <1>b, <2>1, <2>2 DEF Typed, Idle
  <2> QED BY <1>a, <2>1, <2>3, <2>4
<1>4. ASSUME OtherWrites PROVE Sent'
  <2>1. PICK kind, body : Send(Other, kind, body)
    BY <1>4 DEF OtherWrites
  <2>2. q' = q
    BY <1>b, <2>1 DEF Send, Typed
  <2>3. coll' = coll /\ form' = form
    BY <1>4 DEF OtherWrites, sendRest
  <2> QED BY <1>a, <2>2, <2>3
<1>5. ASSUME OpenForm PROVE Sent'
  <2>1. coll' = coll /\ q'.pc = "idle" /\ coll # "messages"
    BY <1>5 DEF OpenForm, sendRest
  <2>2. coll \in {"suppressions", "operators"} => form'.base = None
    BY <1>5 DEF OpenForm
  <2> QED BY <2>1, <2>2 DEF Sent, Typed, Collection, Edited
<1>6. ASSUME Edit PROVE Sent'
  <2>1. coll' = coll /\ q'.pc = "idle" /\ form # None /\ form.f # None
    BY <1>6 DEF Edit, sendRest
  <2>2. PICK g : form' = [form EXCEPT !.f = g, !.edits = @ + 1]
    BY <1>6 DEF Edit
  <2>3. form'.base = form.base
    BY <2>1, <2>2 DEF Typed
  <2> QED BY <2>1, <2>3 DEF Sent
<1>7. ASSUME SaveForm PROVE Sent'
  <2>1. coll' = coll /\ form # None /\ form.f # None
    BY <1>7 DEF SaveForm, sendRest
  <2>2. CASE Sends(coll, form.base = None)
    <3>1. form' = form /\ Send("browser", Method(coll, form.base = None), Body(coll, form.f, form.base = None))
      BY <1>7, <2>2 DEF SaveForm
    <3>2. q'.kind = Method(coll, form.base = None) /\ q'.body = Body(coll, form.f, form.base = None)
      BY <1>b, <3>1 DEF Send, Typed
    <3>3. coll = "domains" => form.base = None
      BY <2>2 DEF Sends
    <3> QED BY <2>1, <3>1, <3>2, <3>3 DEF Sent
  <2>3. CASE ~Sends(coll, form.base = None)
    <3>1. form' = None
      BY <1>7, <2>3 DEF SaveForm
    <3> QED BY <3>1 DEF Sent
  <2> QED BY <2>2, <2>3
<1>8. ASSUME ToggleRow PROVE Sent'
  BY <1>8 DEF ToggleRow, Sent
<1>9. ASSUME AskDelete PROVE Sent'
  BY <1>9 DEF AskDelete, Sent
<1>10. ASSUME ConfirmDelete PROVE Sent'
  BY <1>10 DEF ConfirmDelete, Sent
<1>11. ASSUME Audit \/ AuditFails \/ MessageMoves \/ CloseForm PROVE Sent'
  BY <1>11, <1>i DEF Audit, AuditFails, auditRest, MessageMoves, CloseForm, sendRest, browserVars
<1>12. ASSUME CheckOnMount \/ Expire \/ Login \/ Logout \/ Reload PROVE Sent'
  BY <1>12, <1>i DEF CheckOnMount, Expire, Login, Logout, Reload, sessionRest, serverVars
<1>13. ASSUME \/ \E l \in Load : LoadAll(l)
              \/ \E l \in Refresh : RefreshLight(l)
       PROVE  Sent'
  BY <1>13, <1>i DEF LoadAll, FetchLists, FetchEvents, Install, InstallRow, Redrawn, RefreshLight, LightFetch,
                     LightInstall, sessionRest, serverVars
<1>14. CASE UNCHANGED vars
  BY <1>14, <1>i DEF vars, serverVars, browserVars
<1> QED
  BY <1>1, <1>2, <1>3, <1>4, <1>5, <1>6, <1>7, <1>8, <1>9, <1>10, <1>11, <1>12, <1>13, <1>14 DEF Next, Operate

LEMMA CollStays == [Next]_vars => coll' = coll
<1> SUFFICES ASSUME [Next]_vars PROVE coll' = coll
  OBVIOUS
<1>1. ASSUME NEW r \in Replica, Crash(r) PROVE coll' = coll
  BY <1>1 DEF Crash
<1>2. ASSUME NEW c \in Client, Handle(c) PROVE coll' = coll
  BY <1>2 DEF Handle, Authorize, AuthRoute, Commit, Publish, PublishFails, handlerRest
<1>3. ASSUME Audit \/ AuditFails \/ OtherWrites \/ MessageMoves PROVE coll' = coll
  BY <1>3 DEF Audit, AuditFails, auditRest, OtherWrites, sendRest, MessageMoves
<1>4. ASSUME Operate PROVE coll' = coll
  BY <1>4 DEF Operate, OpenForm, Edit, SaveForm, CloseForm, ToggleRow, AskDelete, ConfirmDelete, sendRest,
              Login, Logout, Reload, sessionRest
<1>5. ASSUME \/ CheckOnMount \/ Expire
             \/ \E l \in Load : LoadAll(l)
             \/ \E l \in Refresh : RefreshLight(l)
      PROVE  coll' = coll
  BY <1>5 DEF CheckOnMount, Expire, LoadAll, FetchLists, FetchEvents, Install, InstallRow, RefreshLight,
              LightFetch, LightInstall, sessionRest
<1>6. CASE UNCHANGED vars
  BY <1>6 DEF vars
<1> QED BY <1>1, <1>2, <1>3, <1>4, <1>5, <1>6 DEF Next

\* The books of the audit, the seeding, and the forms with what they are sent as, together.
THEOREM ConsoleInvariantHolds == Spec => []ConsoleInv
<1>1. ASSUME ConsoleInv, [Next]_vars PROVE ConsoleInv'
  <2> USE <1>1 DEF ConsoleInv
  <2>1. Typed' /\ Accounted' /\ Seeding'
    BY TypedStep, AccountedStep, SeedingStep
  <2>2. coll' = coll
    BY CollStays
  <2>3. RowsFit' /\ FormFits' /\ RequestsFit'
    <3>1. CASE coll \in Edited
      BY <3>1, RowsFitStep, FormFitsStep, RequestsFitStep
    <3>2. CASE coll \notin Edited
      BY <2>2, <3>2 DEF RowsFit, FormFits, RequestsFit
    <3> QED BY <3>1, <3>2
  <2>4. Sent'
    <3>1. CASE coll # "settings"
      BY <3>1, SentStep
    <3>2. CASE coll = "settings"
      BY <2>2, <3>2 DEF Sent
    <3> QED BY <3>1, <3>2
  <2> QED BY <2>1, <2>3, <2>4
<1> QED BY <1>1, InitHolds, PTL DEF Spec

\* The onResponse hook records every committed change, unless a query failed or a process died.
THEOREM ChangesAccountedHolds == Spec => []ChangesAccounted
<1>1. ConsoleInv => ChangesAccounted
  BY DEF ConsoleInv, Accounted, ChangesAccounted, Unanswered
<1> QED BY <1>1, ConsoleInvariantHolds, PTL

\* seedAdmin by any number of replicas at once leaves an administrator.
THEOREM SeededAdminHolds == Spec => []SeededAdmin
<1>1. ConsoleInv => SeededAdmin
  BY DEF ConsoleInv, Typed, Seeding, SeededAdmin, Serving
<1> QED BY <1>1, ConsoleInvariantHolds, PTL

LEMMA OnlyCommitCommits ==
    ASSUME Typed, [Next]_vars, req["browser"].pc = "authorized", req'["browser"].pc = "committed"
    PROVE  Commit("browser")
<1> USE ConsoleAssumption DEF Typed
<1>b. "browser" \in Client
  BY DEF Client
<1>1. ASSUME NEW r \in Replica, Crash(r) PROVE FALSE
  BY <1>1, <1>b DEF Crash, Idle
<1>2. ASSUME NEW c \in Client, Handle(c) PROVE Commit("browser")
  <2>1. CASE Commit(c)
    <3>1. req'["browser"] # req["browser"]
      OBVIOUS
    <3>2. req' = [req EXCEPT ![c].pc = "committed"] \/ req' = [req EXCEPT ![c] = Idle]
      BY <2>1 DEF Commit, Answer
    <3>3. c = "browser"
      BY <1>b, <3>1, <3>2
    <3> QED BY <2>1, <3>3
  <2>2. CASE ~Commit(c)
    <3>1. req' = [req EXCEPT ![c].pc = "authorized"] \/ req' = [req EXCEPT ![c] = Idle]
      BY <1>2, <2>2 DEF Handle, Authorize, AuthRoute, Publish, PublishFails, Answer
    <3> QED BY <1>b, <3>1 DEF Idle
  <2> QED BY <2>1, <2>2
<1>3. ASSUME OtherWrites PROVE FALSE
  <2>1. PICK kind, body : Send(Other, kind, body)
    BY <1>3 DEF OtherWrites
  <2> QED BY <1>b, <2>1 DEF Send
<1>4. ASSUME SaveForm \/ ToggleRow \/ ConfirmDelete PROVE FALSE
  <2>1. req' = req
    BY <1>4 DEF SaveForm, ToggleRow, ConfirmDelete, Send
  <2> QED BY <2>1
<1>5. ASSUME req' = req PROVE FALSE
  BY <1>5
<1>6. ASSUME NEW r \in Replica, Seed(r) \/ SeedFails(r) PROVE FALSE
  BY <1>5, <1>6 DEF Seed, Count, SignUp, Promote, SeedFails, seedRest
<1>7. ASSUME Audit \/ AuditFails \/ MessageMoves \/ OpenForm \/ Edit \/ CloseForm \/ AskDelete PROVE FALSE
  BY <1>5, <1>7 DEF Audit, AuditFails, auditRest, MessageMoves, OpenForm, Edit, CloseForm, AskDelete, sendRest
<1>8. ASSUME CheckOnMount \/ Expire \/ Login \/ Logout \/ Reload PROVE FALSE
  BY <1>5, <1>8 DEF CheckOnMount, Expire, Login, Logout, Reload, sessionRest, serverVars
<1>9. ASSUME \/ \E l \in Load : LoadAll(l)
             \/ \E l \in Refresh : RefreshLight(l)
      PROVE  FALSE
  BY <1>5, <1>9 DEF LoadAll, FetchLists, FetchEvents, Install, InstallRow, RefreshLight, LightFetch,
                    LightInstall, sessionRest, serverVars
<1> QED
  BY <1>1, <1>2, <1>3, <1>4, <1>5, <1>6, <1>7, <1>8, <1>9 DEF Next, Operate, vars, serverVars

\* What an edited row keeps: fields left alone come back as they were, through every mapper,
\* form and column name of the console, or are not sent (Store.save).
THEOREM EditKeepsTheRestHolds == Spec => EditKeepsTheRest
<1>1. ASSUME ConsoleInv, [Next]_vars,
             form # None, form.f # None, form.base # None, coll # "settings", FormMade(coll, form.base),
             req["browser"].pc = "authorized", req'["browser"].pc = "committed",
             NEW c \in DOMAIN row' \ Hidden, form.f[c] = Shown(coll, form.base)[c]
      PROVE  row'[c] = form.base[c]
  <2> DEFINE q == req["browser"]
             body == Body(coll, form.f, FALSE)
  <2>1. coll \in Edited /\ q.kind = Method(coll, FALSE) /\ q.body = body
    BY <1>1 DEF ConsoleInv, Sent
  <2>2. q.kind = "PUT" /\ ~Upserts(coll)
    BY <2>1 DEF Method, Edited, Upserts
  <2>3. Commit("browser")
    BY <1>1, OnlyCommitCommits DEF ConsoleInv
  <2>4. ~Refused(q) /\ row' = Written(q)
    <3>1. CASE Refused(q)
      BY <1>1, <2>3, <3>1 DEF Commit, Answer, Idle, ConsoleInv, Typed, Client
    <3> QED BY <2>3, <3>1 DEF Commit
  <2>5. row # None
    BY <2>2, <2>4 DEF Refused
  <2>6. row' = [x \in DOMAIN row |-> IF x \in DOMAIN body THEN body[x] ELSE row[x]]
    BY <2>1, <2>2, <2>4, <2>5 DEF Written
  <2>7. RowOf(coll, row) /\ RowOf(coll, form.base) /\ FormOf(coll, form.f)
    BY <1>1, <2>1, <2>5 DEF ConsoleInv, RowsFit, FormFits, OrNone
  <2>8. c \in Columns(coll) /\ c \in DOMAIN row
    BY <2>6, <2>7 DEF RowOf
  <2>9. /\ ~(coll = "providers" /\ form.f.type = "direct" /\ c \in {"endpoint", "secret_ref"})
        /\ ~(coll = "ratelimits" /\ form.f.scope = "global" /\ c = "key")
    BY <1>1 DEF Hidden
  <2>10. /\ c \in DOMAIN body => body[c] = form.base[c]
         /\ c \notin DOMAIN body => coll = "accounts" /\ c \in {"username", "password"}
    BY <1>1, <2>1, <2>7, <2>8, <2>9, RoundTrip
  <2> HIDE DEF body
  <2>11. CASE c \in DOMAIN body
    BY <2>6, <2>8, <2>10, <2>11
  <2>12. CASE c \notin DOMAIN body
    <3>1. row'[c] = row[c]
      BY <2>6, <2>8, <2>12
    <3>2. row[c] = "x" /\ form.base[c] = "x"
      BY <2>7, <2>8, <2>10, <2>12 DEF RowOf, Holds
    <3> QED BY <3>1, <3>2
  <2> QED BY <2>11, <2>12
<1>2. ConsoleInv /\ [Next]_vars
      => [(form # None /\ form.f # None /\ form.base # None /\ coll # "settings" /\ FormMade(coll, form.base)
              /\ req["browser"].pc = "authorized" /\ req'["browser"].pc = "committed")
           => \A c \in DOMAIN row' \ Hidden :
                 form.f[c] = Shown(coll, form.base)[c] => row'[c] = form.base[c]]_vars
  BY <1>1
<1> QED BY <1>2, ConsoleInvariantHolds, PTL DEF EditKeepsTheRest, Spec

=============================================================================
