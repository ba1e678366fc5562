------------------------------ MODULE Console -------------------------------
(***************************************************************************)
(* An operator's browser, the Admin API behind it and another client that  *)
(* changes the same row: sessions and roles, the request handlers with     *)
(* their audit hook, the seeding of the first operator by every replica    *)
(* that starts, and the console's overlapping reloads of what it shows.    *)
(* One row of one table stands for the configuration.                      *)
(***************************************************************************)
EXTENDS Forms, FiniteSets

CONSTANTS
    Replica,    \* Admin API processes
    Load,       \* loadAll calls that may overlap
    Refresh,    \* refreshLight calls that may overlap them and each other
    Other,      \* another client, with the API key
    Start,      \* starting points [coll, row, booted, acts, faults], with their bounds on what
                \* people do and on failures, crashes and expired sessions
    MaxEdits    \* bound on edits of one form

\* The tables whose forms are opened on a row and send it back.
Edited == {"providers", "rules", "ratelimits", "accounts", "relayclients"}

ASSUME ConsoleAssumption ==
    /\ MaxEdits \in Nat /\ Other # "browser" /\ Load \cap Refresh = {}
    /\ \A s \in Start :
          /\ s.coll \in Collection /\ s.booted \in BOOLEAN /\ s.acts \in Nat /\ s.faults \in Nat
          /\ s.coll \in Edited /\ s.row # None => RowOf(s.coll, s.row)

Client == {"browser", Other}

VARIABLES
    coll, row,        \* the table, and its row or None
    account,          \* the role of the bootstrap operator, or None before it exists
    boot,             \* per replica: "down", "counted", "signed", "up"
    req,              \* per client, its request: [pc, kind, body], pc "idle", "sent", "authorized", "committed"
    unaudited, audit, \* replies whose onResponse hook is still to run; rows of audit_log
    session,          \* whether the browser's cookie is good
    app,              \* "checking", "login" or "app"
    operator,         \* NM_DATA.OPERATOR: the role shown, or None
    view,             \* the row NM_DATA was mapped from, or None
    form,             \* the open modal [base, f, edits], base the row it was opened on or None, f the
                      \* form or None when it asks to confirm a deletion; None when none is open
    load,             \* per reload [pc, row], pc "idle", "listed" or "fetched"
    acts, faults      \* how much of the bounds is left

\* What happened: changes committed, changes whose audit was lost, failures in seeding.
VARIABLES commits, lost, seedFaults

serverVars == <<row, account, boot, req, unaudited, audit, commits, lost, seedFaults>>
browserVars == <<session, app, operator, view, form, load>>
vars == <<coll, serverVars, browserVars, acts, faults>>

Idle == [pc |-> "idle", kind |-> None, body |-> None]
NoLoad == [pc |-> "idle", row |-> None]

Init ==
    \E s \in Start :
        /\ coll = s.coll /\ row = s.row
        /\ account = IF s.booted THEN "admin" ELSE None
        /\ boot = [r \in Replica |-> IF s.booted THEN "up" ELSE "down"]
        /\ req = [c \in Client |-> Idle]
        /\ unaudited = 0 /\ audit = 0 /\ commits = 0 /\ lost = 0 /\ seedFaults = 0
        /\ session = s.booted /\ app = "checking" /\ operator = None
        /\ view = None /\ form = None /\ load = [l \in Load \cup Refresh |-> NoLoad]
        /\ acts = s.acts /\ faults = s.faults

Act == acts > 0 /\ acts' = acts - 1
Fault == faults > 0 /\ faults' = faults - 1
Serving == \E r \in Replica : boot[r] = "up"
-----------------------------------------------------------------------------
\* seedAdmin: count, sign up with the default role, promote; an error is logged.
seedRest == <<coll, row, req, unaudited, audit, commits, lost, browserVars, acts>>

Count(r) ==
    /\ boot[r] = "down"
    /\ boot' = [boot EXCEPT ![r] = IF account = None THEN "counted" ELSE "up"]
    /\ UNCHANGED <<seedRest, account, faults, seedFaults>>

\* Of two replicas that sign up the same address the second fails.
SignUp(r, from, to) ==
    /\ boot[r] = from
    /\ boot' = [boot EXCEPT ![r] = IF account = None THEN to ELSE "up"]
    /\ account' = IF account = None THEN "user" ELSE account
    /\ UNCHANGED <<seedRest, faults, seedFaults>>

Promote(r, from, to) ==
    /\ boot[r] = from /\ boot' = [boot EXCEPT ![r] = to]
    /\ account' = IF account = None THEN None ELSE "admin"
    /\ UNCHANGED <<seedRest, faults, seedFaults>>

\* Variant: promoted before it is signed up.
SeedPromotesFirst(r) == Count(r) \/ Promote(r, "counted", "signed") \/ SignUp(r, "signed", "up")

Seed(r) == Count(r) \/ SignUp(r, "counted", "signed") \/ Promote(r, "signed", "up")

\* A query of seedAdmin fails: the replica serves all the same.
SeedFails(r) ==
    /\ boot[r] # "up" /\ boot' = [boot EXCEPT ![r] = "up"]
    /\ Fault /\ seedFaults' = seedFaults + 1
    /\ UNCHANGED <<seedRest, account>>

\* A replica dies, with the requests it was serving, and starts again.
Crash(r) ==
    /\ boot[r] # "down" /\ boot' = [boot EXCEPT ![r] = "down"] /\ Fault
    /\ seedFaults' = seedFaults + IF boot[r] = "up" THEN 0 ELSE 1
    /\ \E dead \in SUBSET {c \in Client : boot[r] = "up" /\ req[c].pc \in {"authorized", "committed"}} :
       \E hooks \in IF boot[r] = "up" THEN 0 .. unaudited ELSE {0} :
          /\ req' = [c \in Client |-> IF c \in dead THEN Idle ELSE req[c]]
          /\ lost' = lost + hooks + Cardinality({c \in dead : req[c].pc = "committed"})
          /\ unaudited' = unaudited - hooks
    /\ UNCHANGED <<coll, row, account, audit, commits, browserVars, acts>>
-----------------------------------------------------------------------------
Answer(c) == req' = [req EXCEPT ![c] = Idle]
handlerRest == <<coll, account, boot, session, app, operator, view, load, acts, seedFaults>>

\* onRequest: the session first (admins may change, others read), then the API key.
Authorize(c) ==
    /\ req[c].pc = "sent" /\ coll # "operators"
    /\ IF Serving /\ (c = Other \/ (session /\ account = "admin"))
       THEN req' = [req EXCEPT ![c].pc = "authorized"] ELSE Answer(c)
    /\ UNCHANGED <<handlerRest, row, form, unaudited, audit, commits, lost, faults>>

\* What the UPDATE, INSERT or DELETE makes of the row: an UPDATE keeps the columns that are
\* not sent, an upsert of a suppression all but the reason.
Written(r) ==
    CASE r.kind = "DELETE" -> None
      [] r.kind # "DELETE" /\ row = None -> Inserted(coll, r.body)
      [] r.kind = "PUT" /\ row # None -> [c \in DOMAIN row |-> IF c \in DOMAIN r.body THEN r.body[c] ELSE row[c]]
      [] r.kind = "POST" /\ row # None -> [row EXCEPT !.reason = r.body.reason]

\* No such row, a row of that key already, or a CHECK: an error and no change.
Refused(r) ==
    \/ row = None /\ (r.kind = "DELETE" \/ (r.kind = "PUT" /\ ~Upserts(coll)))
    \/ row # None /\ r.kind = "POST" /\ ~Upserts(coll)
    \/ r.kind # "DELETE" /\ ~Accepted(coll, Written(r))

Commit(c) ==
    /\ req[c].pc = "authorized"
    /\ IF Refused(req[c]) THEN Answer(c) /\ UNCHANGED <<row, commits>>
       ELSE /\ row' = Written(req[c])
            /\ req' = [req EXCEPT ![c].pc = "committed"]
            /\ commits' = commits + 1
    /\ UNCHANGED <<handlerRest, form, unaudited, audit, lost, faults>>

\* /api/auth/: the library's own check, for which an API key is nobody; what it does is neither
\* announced nor audited.
AuthRoute(c) ==
    /\ req[c].pc = "sent" /\ coll = "operators" /\ Answer(c)
    /\ IF Serving /\ c = "browser" /\ session /\ account = "admin" /\ ~Refused(req[c])
       THEN row' = Written(req[c]) /\ form' = None
       ELSE UNCHANGED <<row, form>>
    /\ UNCHANGED <<handlerRest, unaudited, audit, commits, lost, faults>>

\* publishConfigChanged, then the reply: the console closes the form.
Publish(c) ==
    /\ req[c].pc = "committed" /\ Answer(c) /\ unaudited' = unaudited + 1
    /\ form' = IF c = "browser" THEN None ELSE form
    /\ UNCHANGED <<handlerRest, row, audit, commits, lost, faults>>

\* It throws (the epoch's query): an error reply, which is not audited; the change stays.
PublishFails(c) ==
    /\ req[c].pc = "committed" /\ Answer(c) /\ Fault /\ lost' = lost + 1
    /\ UNCHANGED <<handlerRest, row, form, unaudited, audit, commits>>

auditRest == <<coll, row, account, boot, req, commits, seedFaults, browserVars, acts>>

\* Variant: the hook counts only replies with a body.
AuditsBodies ==
    /\ unaudited > 0 /\ unaudited' = unaudited - 1
    /\ audit' = audit + IF row = None THEN 0 ELSE 1
    /\ UNCHANGED <<auditRest, lost, faults>>

\* onResponse.
Audit ==
    /\ unaudited > 0 /\ unaudited' = unaudited - 1 /\ audit' = audit + 1
    /\ UNCHANGED <<auditRest, lost, faults>>

\* Its INSERT fails: swallowed.
AuditFails ==
    /\ unaudited > 0 /\ unaudited' = unaudited - 1 /\ lost' = lost + 1 /\ Fault
    /\ UNCHANGED <<auditRest, audit>>
-----------------------------------------------------------------------------
Send(c, kind, body) ==
    /\ req[c].pc = "idle"
    /\ req' = [req EXCEPT ![c] = [pc |-> "sent", kind |-> kind, body |-> body]]

sendRest == <<coll, row, account, boot, unaudited, audit, commits, lost, seedFaults,
              session, app, operator, view, load, faults>>

\* The tables whose rows have a switch, and those whose rows can be removed.
HasToggle == ~Upserts(coll) /\ coll \notin {"operators", "messages"}
Removable == coll \notin {"settings", "messages"}

\* An API client switches the row, removes it, or writes it as a form would not; a provider
\* reports a bounce or a complaint about an address.
OtherWrites ==
    /\ Act
    /\ \/ HasToggle /\ \E b \in BOOLEAN : Send(Other, "PUT", [enabled |-> b])
       \/ Removable /\ Send(Other, "DELETE", None)
       \/ coll = "relayclients" /\ Send(Other, "PUT", [description |-> None])
       \/ coll = "settings" /\ \E v \in Text : Send(Other, "PUT", [value |-> v])
       \/ /\ coll = "suppressions"
          /\ \E why \in {"complaint", "other"} :
                Send(Other, "POST", [address |-> "x", reason |-> why, source |-> "ses"])
    /\ UNCHANGED <<sendRest, form>>

\* The data plane accepts a message, moves it on, or its row is pruned.
MessageMoves ==
    /\ coll = "messages" /\ Act
    /\ row' = CASE row = None -> [status |-> "queued", events |-> 0]
                [] row # None /\ row.status = "queued" -> [status |-> "relayed", events |-> 1]
                [] row # None /\ row.status = "relayed" -> None
    /\ UNCHANGED <<coll, account, boot, req, unaudited, audit, commits, lost, seedFaults, browserVars, faults>>

\* ModalHost opens a form on the row shown, or on none; a suppression's and an operator's
\* always on none.
OpenForm ==
    /\ app = "app" /\ form = None /\ req["browser"].pc = "idle" /\ coll # "messages" /\ Act
    /\ LET base == IF coll \in {"suppressions", "operators"} THEN None ELSE view IN
       form' = [base |-> base, edits |-> 0, f |-> IF base = None THEN Blank(coll) ELSE Shown(coll, base)]
    /\ UNCHANGED <<sendRest, req>>

Edit ==
    /\ form # None /\ form.f # None /\ form.edits < MaxEdits /\ req["browser"].pc = "idle"
    /\ \E g \in Edits(coll, form.f) \ {form.f} : form' = [form EXCEPT !.f = g, !.edits = @ + 1]
    /\ UNCHANGED <<sendRest, req, acts>>

\* Store.save.
SaveForm ==
    /\ form # None /\ form.f # None /\ ~Invalid(coll, form.f, form.base)
    /\ LET create == form.base = None IN
       IF Sends(coll, create)
       THEN Send("browser", Method(coll, create), Body(coll, form.f, create)) /\ UNCHANGED form
       ELSE req["browser"].pc = "idle" /\ form' = None /\ UNCHANGED req
    /\ UNCHANGED <<sendRest, acts>>

CloseForm ==
    /\ form # None /\ req["browser"].pc = "idle" /\ form' = None
    /\ UNCHANGED <<sendRest, req, acts>>

\* Store.toggle, on the row shown.
ToggleRow ==
    /\ app = "app" /\ form = None /\ view # None /\ HasToggle /\ Act
    /\ Send("browser", "PUT", [enabled |-> ~view.enabled])
    /\ UNCHANGED <<sendRest, form>>

\* Store.remove, once the row shown when it was asked for is confirmed.
AskDelete ==
    /\ app = "app" /\ form = None /\ view # None /\ Removable /\ req["browser"].pc = "idle" /\ Act
    /\ form' = [base |-> view, f |-> None, edits |-> 0]
    /\ UNCHANGED <<sendRest, req>>

ConfirmDelete ==
    /\ form # None /\ form.f = None /\ Send("browser", "DELETE", None)
    /\ UNCHANGED <<sendRest, form, acts>>
-----------------------------------------------------------------------------
sessionRest == <<coll, serverVars>>

\* checkSession: an error counts as no session.
Operator == IF session /\ Serving THEN account ELSE None

\* App, on mount.
CheckOnMount ==
    /\ app = "checking" /\ app' = IF Operator = None THEN "login" ELSE "app"
    /\ operator' = Operator
    /\ UNCHANGED <<sessionRest, session, view, form, load, acts, faults>>

Login ==
    /\ app = "login" /\ Serving /\ account # None /\ Act
    /\ session' = TRUE /\ app' = "app" /\ operator' = account
    /\ UNCHANGED <<sessionRest, view, form, load, faults>>

\* The page goes to the login form whether or not the sign-out arrives.
Logout ==
    /\ app = "app" /\ form = None /\ Act /\ app' = "login" /\ operator' = None
    /\ \/ session' = FALSE /\ UNCHANGED faults
       \/ UNCHANGED session /\ Fault
    /\ UNCHANGED <<sessionRest, view, form, load>>

Reload ==
    /\ Act /\ app' = "checking" /\ operator' = None /\ view' = None /\ form' = None
    /\ load' = [l \in Load \cup Refresh |-> NoLoad]
    /\ UNCHANGED <<sessionRest, session, faults>>

Expire ==
    /\ session /\ session' = FALSE /\ Fault
    /\ UNCHANGED <<sessionRest, app, operator, view, form, load, acts>>

\* The rows a GET returns, of which there are none without a session; the events of the
\* message listed, none when it is gone.
Listed == IF Operator = None THEN None ELSE row
EventsOf == IF Operator = None \/ row = None THEN 0 ELSE row.events

\* loadAll, each minute and after each write: the lists, of which a failed one is empty.
FetchLists(l) ==
    /\ app = "app" /\ load[l].pc = "idle"
    /\ LET next == IF coll = "messages" THEN "listed" ELSE "fetched" IN
       \/ /\ load' = [load EXCEPT ![l] = [pc |-> next, row |-> Listed]]
          /\ UNCHANGED faults
       \/ /\ load' = [load EXCEPT ![l] = [pc |-> next, row |-> None]]
          /\ Fault
    /\ UNCHANGED <<sessionRest, session, app, operator, view, form, acts>>

\* loadMessages goes on to the events of each message; those it cannot get are none.
FetchEvents(l) ==
    /\ load[l].pc = "listed"
    /\ \/ /\ load' = [load EXCEPT ![l] = [pc |-> "fetched", row |->
                  IF @.row = None THEN None ELSE [@.row EXCEPT !.events = EventsOf]]]
          /\ UNCHANGED faults
       \/ /\ load[l].row # None /\ Fault
          /\ load' = [load EXCEPT ![l].pc = "fetched", ![l].row.events = 0]
    /\ UNCHANGED <<sessionRest, session, app, operator, view, form, acts>>

\* SettingText starts again from a value that changed.
Redrawn(new) ==
    IF coll = "settings" /\ form # None /\ new # view
    THEN [form EXCEPT !.base = new, !.f = IF new = None THEN Blank(coll) ELSE Shown(coll, new)]
    ELSE form

InstallRow(l, new) ==
    /\ load[l].pc = "fetched" /\ load' = [load EXCEPT ![l] = NoLoad]
    /\ view' = new /\ form' = Redrawn(new)
    /\ UNCHANGED <<sessionRest, session, app, acts, faults>>

\* Variant: what was fetched is dropped when another load is under way.
InstallAlone(l) ==
    /\ InstallRow(l, IF \E k \in Load \ {l} : load[k].pc # "idle" THEN view ELSE load[l].row)
    /\ operator' = Operator

\* Then the session and the telemetry, and all is installed.
Install(l) == InstallRow(l, load[l].row) /\ operator' = Operator

LoadAll(l) == FetchLists(l) \/ FetchEvents(l) \/ Install(l)

\* refreshLight: the list of messages without their events, which are kept as they are shown;
\* a request that fails changes nothing.
LightFetch(l) ==
    /\ coll = "messages" /\ app = "app" /\ load[l].pc = "idle" /\ Operator # None
    /\ load' = [load EXCEPT ![l] = [pc |-> "fetched", row |-> Listed]]
    /\ UNCHANGED <<sessionRest, session, app, operator, view, form, acts, faults>>

LightInstall(l) ==
    /\ InstallRow(l, IF load[l].row = None THEN None
                     ELSE [load[l].row EXCEPT !.events = IF view = None THEN 0 ELSE view.events])
    /\ UNCHANGED operator

RefreshLight(l) == LightFetch(l) \/ LightInstall(l)
Handle(c) == Authorize(c) \/ AuthRoute(c) \/ Commit(c) \/ Publish(c) \/ PublishFails(c)
Operate ==
    \/ OpenForm \/ Edit \/ SaveForm \/ CloseForm \/ ToggleRow \/ AskDelete \/ ConfirmDelete
    \/ Login \/ Logout \/ Reload

Next ==
    \/ \E r \in Replica : (Seed(r) \/ SeedFails(r)) /\ UNCHANGED coll
    \/ \E r \in Replica : Crash(r)
    \/ \E c \in Client : Handle(c)
    \/ Audit \/ AuditFails \/ OtherWrites \/ MessageMoves \/ Operate
    \/ CheckOnMount \/ Expire
    \/ \E l \in Load : LoadAll(l)
    \/ \E l \in Refresh : RefreshLight(l)

\* Replicas start and serve, the browser's timers and fetches go on; nothing is assumed of people.
Fairness ==
    /\ \A r \in Replica : WF_vars(Seed(r))
    /\ \A c \in Client : WF_vars(Handle(c))
    /\ WF_vars(CheckOnMount)
    /\ \A l \in Load : WF_vars(LoadAll(l))
    /\ \A l \in Refresh : WF_vars(RefreshLight(l))

Spec == Init /\ [][Next]_vars /\ Fairness
-----------------------------------------------------------------------------
\* Once people stop, the console of an operator with a session shows the row and the role as
\* they are, whatever old lists were still to be installed when the row changed under them.
ConsoleSettles == <>[](app = "app" /\ session => view = row /\ operator = account)

\* Every change that was committed is in the audit log, on its way there, or was made while a
\* query failed or a process died: never does an answered request go unrecorded.
ChangesAccounted ==
    commits = audit + unaudited + lost + Cardinality({c \in Client : req[c].pc = "committed"})

\* Whichever replicas start at once, the first operator is an administrator as soon as nobody is
\* between signing up and promoting, unless a replica died or failed in between.
SeededAdmin ==
    (seedFaults = 0 /\ Serving /\ \A r \in Replica : boot[r] # "signed") => account = "admin"

\* A saved form keeps every column whose field the operator left as it was opened, even where
\* the screens show it in another shape; of a row that forms made.  (A direct provider has
\* neither endpoint nor secret, a global rate limit no key; a setting is a single column.)
Hidden == IF coll = "providers" /\ form.f.type = "direct" THEN {"endpoint", "secret_ref"}
          ELSE IF coll = "ratelimits" /\ form.f.scope = "global" THEN {"key"} ELSE {}
EditKeepsTheRest ==
    [][(form # None /\ form.f # None /\ form.base # None /\ coll # "settings" /\ FormMade(coll, form.base)
            /\ req["browser"].pc = "authorized" /\ req'["browser"].pc = "committed")
         => \A c \in DOMAIN row' \ Hidden :
               form.f[c] = Shown(coll, form.base)[c] => row'[c] = form.base[c]]_vars
=============================================================================
