------------------------------- MODULE Alerts -------------------------------
(***************************************************************************)
(* Alerts after a scheduled check: a transition of the domain's status     *)
(* counts when two checks in a row say so, is recorded, and is then sent   *)
(* to every channel.  All replicas share one row of alert state, which     *)
(* each reads and then writes without a lock.                              *)
(***************************************************************************)
EXTENDS Deliverability

CONSTANT
    Channel   \* names for alert channels

Severity == {"warning", "error"}

\* Variant: the first check that differs counts.
DebounceOnce == 1

DEBOUNCE == 2

\* A row of domain_alert_state.
AlertState == [last : Status, pending : Status \cup {None}, consecutive : Nat]

ASSUME AlertsAssumption == None \notin AlertState

VARIABLES
    channels,  \* alert_channels: min_severity of each enabled channel, None of the others
    alert,     \* the domain's row of domain_alert_state, or None
    chans,     \* the enabled channels a replica has loaded, likewise
    read,      \* the alert row it has read
    todo       \* channels it has still to notify

\* Per replica, the status it alerted last, forgotten as soon as anybody alerts another one.
VARIABLE said

alertVars == <<channels, alert, chans, read, todo, said>>
vars == <<checkVars, alertVars>>

NoChannel == [ch \in Channel |-> None]

Init ==
    /\ CheckInit
    /\ channels = [ch \in Channel |-> "warning"] /\ alert = None
    /\ chans = [r \in Replica |-> NoChannel] /\ read = [r \in Replica |-> None]
    /\ todo = [r \in Replica |-> {}]
    /\ said = [r \in Replica |-> None]

\* POST, PUT or DELETE of a channel: added, enabled, given another threshold or taken away.
SetChannels ==
    /\ changes < MaxChanges /\ changes' = changes + 1
    /\ \E ch \in Channel : \E sev \in (Severity \cup {None}) \ {channels[ch]} :
          channels' = [channels EXCEPT ![ch] = sev]
    /\ UNCHANGED <<zone, rows, history, pc, rep, snap, requests, faults, truth,
                   alert, chans, read, todo, said>>

rest == <<zone, rows, history, snap, changes, requests, faults, truth, channels>>

\* loadChannels: with no channel enabled the report is not even evaluated.
LoadChannels(r) ==
    /\ pc[r] = "report"
    /\ chans' = [chans EXCEPT ![r] = channels]
    /\ IF channels = NoChannel THEN /\ Goto(r, "idle")
                          /\ rep' = [rep EXCEPT ![r] = None]
                     ELSE Goto(r, "eval") /\ UNCHANGED rep
    /\ UNCHANGED <<rest, alert, read, todo, said>>

\* evalTransition, its SELECT.
ReadAlert(r) ==
    /\ pc[r] = "eval" /\ Goto(r, "judge")
    /\ read' = [read EXCEPT ![r] = alert]
    /\ UNCHANGED <<rest, rep, alert, chans, todo, said>>

\* Until its next tick a scheduler remembers nothing of this one.
Idle(r) ==
    /\ Goto(r, "idle") /\ rep' = [rep EXCEPT ![r] = None]
    /\ read' = [read EXCEPT ![r] = None] /\ chans' = [chans EXCEPT ![r] = NoChannel]

\* Variant: every check starts counting afresh.
CountStuck(r) == 1

\* How many checks in a row have said so.
Count(r) == IF rep[r].status = read[r].pending THEN read[r].consecutive + 1 ELSE 1

\* No row yet: the first status is the baseline, whatever it is.  (When two replicas
\* insert it, the second fails on the key and is logged.)
Baseline(r) ==
    /\ pc[r] = "judge" /\ read[r] = None /\ Idle(r)
    /\ alert' = IF alert = None THEN [last |-> rep[r].status, pending |-> None, consecutive |-> 0] ELSE alert
    /\ UNCHANGED <<rest, todo, said>>

\* As alerted last: start counting afresh.
Same(r) ==
    /\ pc[r] = "judge" /\ read[r] # None /\ rep[r].status = read[r].last /\ Idle(r)
    /\ alert' = [alert EXCEPT !.pending = None, !.consecutive = 0]
    /\ UNCHANGED <<rest, todo, said>>

Pending(r) ==
    /\ pc[r] = "judge" /\ read[r] # None /\ rep[r].status # read[r].last
    /\ Count(r) < DEBOUNCE /\ Idle(r)
    /\ alert' = [alert EXCEPT !.pending = rep[r].status, !.consecutive = Count(r)]
    /\ UNCHANGED <<rest, todo, said>>

\* shouldSend: a recovery always, a regression from the channel's severity on.
ShouldSend(sev, s) == s = "ok" \/ s = "error" \/ sev = "warning"

Fires(r) ==
    /\ pc[r] = "judge" /\ read[r] # None /\ rep[r].status # read[r].last
    /\ Count(r) >= DEBOUNCE /\ Goto(r, "notify")
    /\ said' = [q \in Replica |-> IF q = r THEN rep[r].status
                                  ELSE IF said[q] = rep[r].status THEN said[q] ELSE None]
    /\ todo' = [todo EXCEPT ![r] = {ch \in Channel : chans[r][ch] # None /\ ShouldSend(chans[r][ch], rep[r].status)}]
    /\ read' = [read EXCEPT ![r] = None] /\ chans' = [chans EXCEPT ![r] = NoChannel]
    /\ rep' = [rep EXCEPT ![r] = None]
    /\ UNCHANGED rest

\* Variant: the transition is announced first and recorded once it is sent.
TransitionUnrecorded(r) == Fires(r) /\ UNCHANGED alert

\* The transition is recorded, then announced.
Transition(r) ==
    /\ Fires(r)
    /\ alert' = [last |-> rep[r].status, pending |-> None, consecutive |-> 0]

\* One channel after the other; a failure is logged and not tried again.
Notify(r) ==
    /\ pc[r] = "notify"
    /\ \E ch \in todo[r] : todo' = [todo EXCEPT ![r] = @ \ {ch}]
    /\ UNCHANGED <<rest, pc, rep, alert, chans, read, said>>

Notified(r) ==
    /\ pc[r] = "notify" /\ todo[r] = {} /\ Idle(r)
    /\ UNCHANGED <<rest, alert, todo, said>>

Crash(p) ==
    /\ Dies(p)
    /\ todo' = [r \in Replica |-> IF r = p THEN {} ELSE todo[r]]
    /\ read' = [r \in Replica |-> IF r = p THEN None ELSE read[r]]
    /\ chans' = [r \in Replica |-> IF r = p THEN NoChannel ELSE chans[r]]
    /\ UNCHANGED <<channels, alert, said>>

Check(p) == (ReadCacheMiss(p) \/ CheckDomain(p) \/ CheckFails(p)) /\ UNCHANGED alertVars
Store(p) == Persist(p) /\ UNCHANGED alertVars
Evaluate(r) == Baseline(r) \/ Same(r) \/ Pending(r) \/ Transition(r)
Dispatch(r) == LoadChannels(r) \/ ReadAlert(r) \/ Evaluate(r) \/ Notify(r) \/ Notified(r)

Next ==
    \/ ZoneChanges /\ UNCHANGED alertVars
    \/ SetChannels
    \/ \E p \in Proc : Check(p) \/ Store(p) \/ Crash(p)
    \/ \E r \in Replica : Dispatch(r)

\* The timers of a scheduler go on, queries and sends return (each has its deadline), so
\* a replica always takes its next step, and a request that began is stored or dropped.
\* Nothing is assumed of a request's beginning, of changes, hiccups or crashes.
Fairness ==
    /\ \A r \in Replica : WF_vars(Check(r) \/ Store(r) \/ Dispatch(r))
    /\ \A q \in Request : WF_vars(Store(q))

Spec == Init /\ [][Next]_vars /\ Fairness
-----------------------------------------------------------------------------
\* A single look that finds what is not there alerts nobody, not even when it comes
\* between or beside real changes: what is alerted has been true at some time (DEBOUNCE).
NoFalseAlarm ==
    [][\A r \in Replica : (pc[r] # "notify" /\ pc'[r] = "notify" /\ faults <= 1)
                               => rep[r].status \in truth]_vars

\* No replica repeats an alert unless another status was alerted in between, neither in
\* later checks nor after a crash; so one transition is alerted at most once per replica
\* (evalTransition records before dispatchAlerts sends).
NoFlood ==
    [][\A r \in Replica : (pc[r] # "notify" /\ pc'[r] = "notify") => said[r] # rep[r].status]_vars

\* Once the zone stays as it is, cache and alert state settle on its status, whatever old
\* looks were still to be stored and however the replicas get in each other's way.
Settles ==
    <>[](/\ rows # {} /\ CachedStatus = zone.status
         /\ channels # NoChannel => alert # None /\ alert.last = zone.status)
=============================================================================
