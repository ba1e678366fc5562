------------------------------- MODULE Forms --------------------------------
(***************************************************************************)
(* What the web console makes of a row of a configuration table and back:  *)
(* the shape the screens show, a form opened on it, one edit of the form,  *)
(* the checks before it is sent and the columns that are sent.  Columns    *)
(* that are handed through untouched (names, priorities, limits) are left  *)
(* out; None is SQL's NULL, "" an empty field.                             *)
(***************************************************************************)
EXTENDS Naturals, Sequences, SequencesExt

CONSTANT None

Collection == {"providers", "rules", "domains", "ratelimits", "accounts", "relayclients",
               "suppressions", "operators", "settings", "messages"}
Empty == ""
Text == {Empty, "x"}
Provider == {"p1", "p2"}

ASSUME FormsAssumption == None \notin Text \cup {"*", "-", "user", "admin"}

\* Variant: the login modes of an SMTP provider are missing.
AUTH_FROM_DBShort(mode) ==
    CASE mode = "xoauth2" -> "XOAUTH2"
      [] mode = "iam"     -> "AWS-SIGV4"
      [] mode = "ip"      -> "NONE"
      [] OTHER            -> "SMTP-AUTH"

AUTH_FROM_DB(mode) ==
    CASE mode = "xoauth2"   -> "XOAUTH2"
      [] mode = "iam"       -> "AWS-SIGV4"
      [] mode = "smtp-auth" -> "PLAIN"
      [] OTHER              -> "NONE"

AUTH_TO_DB(auth) ==
    CASE auth = "XOAUTH2"            -> "xoauth2"
      [] auth = "AWS-SIGV4"          -> "iam"
      [] auth \in {"PLAIN", "LOGIN"} -> "smtp-auth"
      [] OTHER                       -> "ip"

AUTH_BY_TYPE(type) ==
    CASE type = "ses"              -> <<"AWS-SIGV4">>
      [] type \in {"m365", "gmail"} -> <<"XOAUTH2">>
      [] type = "smtp"             -> <<"PLAIN", "LOGIN", "NONE">>
      [] type = "direct"           -> <<"NONE">>

star(v) == IF v = None THEN "*" ELSE v
unstar(v) == IF v \in {"*", Empty} THEN None ELSE v
orEmpty(v) == IF v = None THEN Empty ELSE v
orNull(v) == IF v = Empty THEN None ELSE v
-----------------------------------------------------------------------------
\* The mappers: a row in the shape of NM_DATA.
mapProvider(row) ==
    [type |-> row.type, endpoint |-> orEmpty(row.endpoint), auth_mode |-> AUTH_FROM_DB(row.auth_mode),
     secret_ref |-> IF row.secret_ref = None THEN "-" ELSE row.secret_ref, enabled |-> row.enabled]
mapRule(row) ==
    [recipient |-> star(row.recipient), sender |-> star(row.sender), chain |-> row.chain, enabled |-> row.enabled]
mapRate(row) == row
mapAccount(row) == [row EXCEPT !.password = Empty]   \* the hash is never returned
mapRelayClient(row) ==
    [cidr |-> row.cidr, description |-> orEmpty(row.description), enabled |-> row.enabled]
mapDomain(row) == row
mapSuppression(row) == [address |-> row.address, reason |-> row.reason]
mapOperator(row) == [username |-> row.username, role |-> row.role]

Shown(coll, row) ==
    CASE coll = "providers"    -> mapProvider(row)
      [] coll = "rules"        -> mapRule(row)
      [] coll = "domains"      -> mapDomain(row)
      [] coll = "ratelimits"   -> mapRate(row)
      [] coll = "accounts"     -> mapAccount(row)
      [] coll = "relayclients" -> mapRelayClient(row)
      [] coll = "suppressions" -> mapSuppression(row)
      [] coll = "operators"    -> mapOperator(row)
      [] coll = "settings"     -> row

\* A form opened on no item.
Blank(coll) ==
    CASE coll = "providers"    -> [type |-> "ses", endpoint |-> Empty, auth_mode |-> "AWS-SIGV4", secret_ref |-> Empty, enabled |-> TRUE]
      [] coll = "rules"        -> [recipient |-> Empty, sender |-> "*", chain |-> <<>>, enabled |-> TRUE]
      [] coll = "domains"      -> [domain |-> Empty, enabled |-> TRUE]
      [] coll = "ratelimits"   -> [direction |-> "out", scope |-> "recipient_domain", key |-> Empty, per_second |-> 1, enabled |-> TRUE]
      [] coll = "accounts"     -> [username |-> Empty, password |-> Empty, ip_allowlist |-> {}, enabled |-> TRUE]
      [] coll = "relayclients" -> [cidr |-> Empty, description |-> Empty, enabled |-> TRUE]
      [] coll = "suppressions" -> [address |-> Empty, reason |-> "manual"]
      [] coll = "operators"    -> [username |-> Empty, password |-> Empty, role |-> "admin"]
      [] coll = "settings"     -> [value |-> Empty]
-----------------------------------------------------------------------------
(* The forms: each edit sets one field, or one field and what goes with it. *)

Toggled(f) == [f EXCEPT !.enabled = ~@]

\* A list of texts: another one typed in, or one taken away.
FChips(values) == {values \cup {"net"}} \cup {values \ {v} : v \in values}

\* The failover chain: a provider not in it at the end, two neighbours swapped, one taken away.
ChainPicker(chain) ==
    {Append(chain, p) : p \in Provider \ ToSet(chain)}
        \cup {[chain EXCEPT ![i] = chain[i + 1], ![i + 1] = chain[i]] : i \in 1 .. Len(chain) - 1}
        \cup {SelectSeq(chain, LAMBDA q : q # p) : p \in ToSet(chain)}

ProviderForm(f) ==
    {[f EXCEPT !.type = t, !.auth_mode = AUTH_BY_TYPE(t)[1]] : t \in {"ses", "smtp", "direct"}}
        \cup {[f EXCEPT !.auth_mode = AUTH_BY_TYPE(f.type)[i]] : i \in DOMAIN AUTH_BY_TYPE(f.type)}
        \cup {[f EXCEPT !.endpoint = v] : v \in Text} \cup {[f EXCEPT !.secret_ref = v] : v \in Text}
        \cup {Toggled(f)}
RuleForm(f) ==
    {[f EXCEPT !.recipient = v] : v \in Text \cup {"*"}} \cup {[f EXCEPT !.sender = v] : v \in Text \cup {"*"}}
        \cup {[f EXCEPT !.chain = c] : c \in ChainPicker(f.chain)} \cup {Toggled(f)}
DomainForm(f) == {[f EXCEPT !.domain = v] : v \in Text}
RateLimitForm(f) ==
    {[f EXCEPT !.direction = d, !.scope = IF d = "in" THEN "account" ELSE "recipient_domain"] : d \in {"in", "out"}}
        \cup {[f EXCEPT !.scope = s] : s \in IF f.direction = "in" THEN {"account", "ip", "global"}
                                                                 ELSE {"recipient_domain", "provider", "global"}}
        \cup {[f EXCEPT !.key = v] : v \in Text} \cup {[f EXCEPT !.per_second = n] : n \in 0 .. 1}
        \cup {Toggled(f)}
AccountForm(f) ==
    {[f EXCEPT !.username = v] : v \in Text} \cup {[f EXCEPT !.password = v] : v \in Text}
        \cup {[f EXCEPT !.ip_allowlist = a] : a \in FChips(f.ip_allowlist)} \cup {Toggled(f)}
RelayClientForm(f) ==
    {[f EXCEPT !.cidr = v] : v \in Text} \cup {[f EXCEPT !.description = v] : v \in Text} \cup {Toggled(f)}
SuppressionForm(f) ==
    {[f EXCEPT !.address = v] : v \in Text}
        \cup {[f EXCEPT !.reason = v] : v \in {"manual", "hard_bounce", "complaint"}}
OperatorForm(f) ==
    {[f EXCEPT !.username = v] : v \in Text} \cup {[f EXCEPT !.password = v] : v \in Text}
        \cup {[f EXCEPT !.role = v] : v \in {"admin", "user"}}
SettingText(f) == {[f EXCEPT !.value = v] : v \in Text \cup {"y"}}

Edits(coll, f) ==
    CASE coll = "providers"    -> ProviderForm(f)
      [] coll = "rules"        -> RuleForm(f)
      [] coll = "domains"      -> DomainForm(f)
      [] coll = "ratelimits"   -> RateLimitForm(f)
      [] coll = "accounts"     -> AccountForm(f)
      [] coll = "relayclients" -> RelayClientForm(f)
      [] coll = "suppressions" -> SuppressionForm(f)
      [] coll = "operators"    -> OperatorForm(f)
      [] coll = "settings"     -> SettingText(f)

\* What keeps a form, opened on the row base or on none, from being sent.
Invalid(coll, f, base) ==
    CASE coll = "providers"    -> f.type # "direct" /\ f.endpoint = Empty
      [] coll = "rules"        -> Empty \in {f.recipient, f.sender} \/ f.chain = <<>>
      [] coll = "domains"      -> f.domain = Empty
      [] coll = "ratelimits"   -> f.scope # "global" /\ f.key = Empty
      [] coll = "accounts"     -> f.username = Empty \/ (base = None /\ f.password = Empty)
      [] coll = "relayclients" -> f.cidr = Empty
      [] coll = "suppressions" -> f.address = Empty
      [] coll = "operators"    -> Empty \in {f.username, f.password}
      [] coll = "settings"     -> f = IF base = None THEN Blank(coll) ELSE base
-----------------------------------------------------------------------------
\* Store.save: the columns of the request.  An account is created without its toggle, and
\* edited without its name and, when the field is empty, without a password.
Body(coll, f, create) ==
    CASE coll = "providers" ->
            [type |-> f.type, auth_mode |-> AUTH_TO_DB(f.auth_mode), enabled |-> f.enabled,
             endpoint |-> IF f.type = "direct" THEN None ELSE orNull(f.endpoint),
             secret_ref |-> IF f.type = "direct" \/ f.secret_ref = "-" THEN None ELSE orNull(f.secret_ref)]
      [] coll = "rules" ->
            [recipient |-> unstar(f.recipient), sender |-> unstar(f.sender), chain |-> f.chain, enabled |-> f.enabled]
      [] coll = "ratelimits" -> [f EXCEPT !.key = IF f.scope = "global" THEN "*" ELSE @]
      [] coll = "accounts" ->
            LET sent == IF create THEN {"username", "password", "ip_allowlist"}
                        ELSE {"ip_allowlist", "enabled"} \cup IF f.password = Empty THEN {} ELSE {"password"}
            IN [c \in sent |-> f[c]]
      [] OTHER -> f

\* An existing relay domain is not sent at all.
Sends(coll, create) == coll # "domains" \/ create

\* Tables written by INSERT ... ON CONFLICT DO UPDATE, and the request that does it.
Upserts(coll) == coll \in {"suppressions", "settings"}
Method(coll, create) ==
    IF coll = "settings" \/ (~create /\ coll # "suppressions") THEN "PUT" ELSE "POST"

\* A new row: columns that are not sent have their defaults.
Inserted(coll, body) ==
    LET defaults == IF coll = "suppressions" THEN [address |-> Empty, reason |-> "manual", source |-> "manual"]
                                             ELSE Blank(coll)
    IN [c \in DOMAIN defaults |-> IF c \in DOMAIN body THEN body[c] ELSE defaults[c]]

\* CHECK constraints of the tables.
Accepted(coll, row) ==
    /\ coll = "ratelimits" => row.per_second > 0
    /\ coll = "suppressions" => row.reason \in {"hard_bounce", "complaint", "manual"}

\* Rows a form can have written: an API client may leave columns empty that a form fills.
FormMade(coll, row) ==
    /\ coll = "providers" => row.auth_mode # None
    /\ coll = "relayclients" => row.description # None

\* What a column that a form shows in another shape, or leaves out, can hold: an empty text
\* is NULL there, and an account has a name and a password.
Holds(coll, c, v) ==
    /\ coll = "providers" /\ c \in {"endpoint", "secret_ref"} => v \in {None, "x"}
    /\ coll = "providers" /\ c = "auth_mode" => v \in {None, "xoauth2", "iam", "smtp-auth", "ip"}
    /\ coll = "rules" /\ c \in {"recipient", "sender"} => v \in {None, "x"}
    /\ coll = "accounts" /\ c \in {"username", "password"} => v = "x"

Columns(coll) == DOMAIN Blank(coll)
RowOf(coll, row) == DOMAIN row = Columns(coll) /\ \A c \in DOMAIN row : Holds(coll, c, row[c])
=============================================================================
