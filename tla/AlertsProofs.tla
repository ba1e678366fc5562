---------------------------- MODULE AlertsProofs ----------------------------
(***************************************************************************)
(* Cache and alerts of one domain, for every number of replicas, requests  *)
(* and channels, and any number of changes, faults and crashes: the cache  *)
(* holds one report, whole; one wrong look alerts nobody; and no replica   *)
(* repeats itself.                                                         *)
(***************************************************************************)
EXTENDS Alerts, TLAPS

Report == [status : Status, keys : {{"spf"}, Keys(TRUE), Keys(FALSE)}]

\* Where a process has a report in its hands.
Holding == {"checked", "open", "report", "eval", "judge"}

Typed ==
    /\ zone \in Zone /\ truth \subseteq Status /\ zone.status \in truth
    /\ faults \in Nat
    /\ pc \in [Proc -> Holding \cup {"idle", "miss", "notify"}]
    /\ DOMAIN rep = Proc /\ \A p \in Proc : pc[p] \in Holding => rep[p] \in Report
    /\ alert \in AlertState \cup {None}
    /\ read \in [Replica -> AlertState \cup {None}]
    /\ said \in [Replica -> Status \cup {None}]

\* What the table holds is one report, and so is what any DELETE has seen.
OneReportOrNone(table) == table = {} \/ \E r \in Report : table = Rows(r)

Whole ==
    /\ rows = {} \/ \E r \in Report : rows = Rows(r) /\ history = r.status
    /\ DOMAIN snap = Proc /\ \A p \in Proc : OneReportOrNone(snap[p])

\* A status the zone never had: in a report, or counted in a row of alert state.
WrongReport(p) == pc[p] \in Holding /\ rep[p].status \notin truth
WrongCount(a) == a # None /\ a.consecutive > 0 /\ a.pending \notin truth
SomeWrongCount == WrongCount(alert) \/ \E r \in Replica : WrongCount(read[r])

\* Without a fault there is nothing wrong; one fault is in one report, or counted, not both.
Evidence ==
    /\ faults = 0 => (\A p \in Proc : ~WrongReport(p)) /\ ~SomeWrongCount
    /\ faults = 1 =>
          /\ \A p, q \in Proc : WrongReport(p) /\ WrongReport(q) => p = q
          /\ (\E p \in Proc : WrongReport(p)) => ~SomeWrongCount

\* What a replica alerted last stands in the row, and in the copy it reads, until another
\* status is alerted.
Remembered ==
    \A r \in Replica :
        /\ read[r] # None => alert # None
        /\ said[r] # None => alert # None /\ alert.last = said[r]
        /\ said[r] # None /\ read[r] # None => read[r].last = said[r]

AlertsInv == Typed /\ Whole /\ Evidence /\ Remembered
-----------------------------------------------------------------------------
LEMMA ReplicasAreProcesses == Replica \subseteq Proc
  BY DEF Proc

LEMMA ReportsTyped ==
    ASSUME NEW s \in Status, NEW k \in BOOLEAN
    PROVE  [status |-> s, keys |-> Keys(k)] \in Report
<1>1. CASE k
  <2>1. Keys(k) = Keys(TRUE)
    BY <1>1
  <2> QED BY <2>1 DEF Report
<1>2. CASE ~k
  <2>1. Keys(k) = Keys(FALSE)
    BY <1>2
  <2> QED BY <2>1 DEF Report
<1> QED BY <1>1, <1>2

LEMMA InitHolds == Init => AlertsInv
<1> SUFFICES ASSUME Init PROVE AlertsInv
  OBVIOUS
<1> USE DeliverabilityAssumption, AlertsAssumption DEF Init, CheckInit
<1>1. Typed
  BY DEF Typed, Proc, Holding
<1>2. Whole
  BY DEF Whole, OneReportOrNone
<1>3. Evidence
  BY DEF Evidence, WrongReport, SomeWrongCount, WrongCount, Holding
<1>4. Remembered
  BY DEF Remembered
<1> QED BY <1>1, <1>2, <1>3, <1>4 DEF AlertsInv

\* Counting afresh or one up keeps what was alerted last.
LEMMA RowRewritten ==
    ASSUME Typed, Remembered, NEW r \in Replica, Same(r) \/ Pending(r)
    PROVE  alert \in AlertState /\ alert' \in AlertState /\ alert'.last = alert.last
<1>1. alert \in AlertState
  BY DEF Same, Pending, Typed, Remembered
<1>2. CASE Same(r)
  BY <1>1, <1>2 DEF Same, AlertState
<1>3. CASE Pending(r)
  <2>1. rep[r].status \in Status
    BY <1>3, ReplicasAreProcesses DEF Pending, Typed, Holding, Report
  <2>2. read[r].consecutive \in Nat
    BY <1>3 DEF Pending, Typed, AlertState
  <2>3. Count(r) \in Nat
    BY <2>2 DEF Count
  <2> QED BY <1>1, <1>3, <2>1, <2>3 DEF Pending, AlertState
<1> QED BY <1>2, <1>3

LEMMA TypedStep ==
    ASSUME Typed, Remembered, [Next]_vars PROVE Typed'
<1> USE DeliverabilityAssumption, AlertsAssumption DEF Typed, Goto, Holding
<1>p. Replica \subseteq Proc
  BY DEF Proc
<1>1. ASSUME ZoneChanges, UNCHANGED alertVars PROVE Typed'
  <2>1. zone'.status \in Status
    BY <1>1 DEF ZoneChanges
  <2> QED BY <1>1, <2>1 DEF ZoneChanges, alertVars
<1>2. ASSUME SetChannels PROVE Typed'
  BY <1>2 DEF SetChannels
<1>3. ASSUME NEW p \in Proc, ReadCacheMiss(p), UNCHANGED alertVars PROVE Typed'
  BY <1>3 DEF ReadCacheMiss, alertVars
<1>4. ASSUME NEW p \in Proc, CheckDomain(p), UNCHANGED alertVars PROVE Typed'
  <2>1. \A s \in Status : [status |-> s, keys |-> Keys(zone.keyed)] \in Report
    BY ReportsTyped
  <2>2. \E s \in Status : rep' = [rep EXCEPT ![p] = [status |-> s, keys |-> Keys(zone.keyed)]]
    BY <1>4 DEF CheckDomain, LookupFails, Reports, Seen
  <2>3. rep'[p] \in Report /\ \A q \in Proc \ {p} : rep'[q] = rep[q]
    BY <2>1, <2>2
  <2>4. faults' \in Nat
    BY <1>4 DEF CheckDomain, LookupFails, Fault
  <2>5. DOMAIN rep' = Proc
    BY <2>2
  <2> QED BY <1>4, <2>3, <2>4, <2>5 DEF CheckDomain, alertVars
<1>5. ASSUME NEW p \in Proc, CheckFails(p), UNCHANGED alertVars PROVE Typed'
  <2>1. [status |-> "error", keys |-> {"spf"}] \in Report
    BY DEF Report, Status
  <2> QED BY <1>5, <2>1 DEF CheckFails, Fault, alertVars
<1>6. ASSUME NEW p \in Proc, Delete(p), UNCHANGED alertVars PROVE Typed'
  BY <1>6 DEF Delete, alertVars
<1>7. ASSUME NEW p \in Proc, Commit(p), UNCHANGED alertVars PROVE Typed'
  BY <1>7 DEF Commit, Stored, alertVars
<1>8. ASSUME NEW p \in Proc, Rollback(p), UNCHANGED alertVars PROVE Typed'
  BY <1>8 DEF Rollback, Fault, alertVars
<1>9. ASSUME NEW p \in Proc, Crash(p) PROVE Typed'
  BY <1>9 DEF Crash, Dies, Fault
<1>10. ASSUME NEW r \in Replica, LoadChannels(r) PROVE Typed'
  BY <1>10, <1>p DEF LoadChannels, rest
<1>11. ASSUME NEW r \in Replica, ReadAlert(r) PROVE Typed'
  BY <1>11, <1>p DEF ReadAlert, rest
<1>12. ASSUME NEW r \in Replica, Baseline(r) PROVE Typed'
  <2>1. rep[r] \in Report
    BY <1>12, <1>p DEF Baseline
  <2>2. alert' \in AlertState \cup {None}
    BY <1>12, <2>1 DEF Baseline, Report, AlertState
  <2> QED BY <1>12, <1>p, <2>2 DEF Baseline, Idle, rest
<1>13. ASSUME NEW r \in Replica, Same(r) \/ Pending(r) PROVE Typed'
  BY <1>13, <1>p, RowRewritten DEF Same, Pending, Idle, rest
<1>15. ASSUME NEW r \in Replica, Transition(r) PROVE Typed'
  <2>1. rep[r].status \in Status
    BY <1>15, <1>p DEF Transition, Fires, Report
  <2>2. alert' \in AlertState \cup {None}
    BY <1>15, <2>1 DEF Transition, AlertState
  <2>3. said' \in [Replica -> Status \cup {None}]
    BY <1>15, <2>1 DEF Transition, Fires
  <2> QED BY <1>15, <1>p, <2>2, <2>3 DEF Transition, Fires, rest
<1>16. ASSUME NEW r \in Replica, Notify(r) PROVE Typed'
  BY <1>16 DEF Notify, rest
<1>17. ASSUME NEW r \in Replica, Notified(r) PROVE Typed'
  BY <1>17, <1>p DEF Notified, Idle, rest
<1>18. CASE UNCHANGED vars
  BY <1>18 DEF vars, checkVars, alertVars
<1> QED
  BY <1>1, <1>2, <1>3, <1>4, <1>5, <1>6, <1>7, <1>8, <1>9, <1>10, <1>11, <1>12, <1>13, <1>15,
     <1>16, <1>17, <1>18 DEF Next, Check, Store, Persist, Dispatch, Evaluate
LEMMA WholeStep ==
    ASSUME Typed, Whole, [Next]_vars PROVE Whole'
<1> USE DEF Whole, Goto
<1>1. ASSUME UNCHANGED <<rows, history, snap>> PROVE Whole'
  BY <1>1 DEF OneReportOrNone
<1>2. ASSUME NEW p \in Proc, Delete(p) PROVE Whole'
  BY <1>2 DEF Delete, OneReportOrNone
<1>3. ASSUME NEW p \in Proc, UNCHANGED <<rows, history>>, snap' = [snap EXCEPT ![p] = {}] PROVE Whole'
  BY <1>3 DEF OneReportOrNone
<1>4. ASSUME NEW p \in Proc, Commit(p) PROVE Whole'
  <2>1. rep[p] \in Report /\ "spf" \in rep[p].keys
    BY <1>4 DEF Typed, Commit, Holding, Report, Keys
  <2>2. rows \ snap[p] = {}
    <3> SUFFICES ASSUME NEW x \in rows, x \notin snap[p] PROVE FALSE
      OBVIOUS
    <3>1. PICK r \in Report : rows = Rows(r)
      OBVIOUS
    <3>2. "spf" \in r.keys
      BY DEF Report, Keys
    <3>3. [key |-> "spf", rep |-> r] \in rows
      BY <3>1, <3>2 DEF Rows
    <3>4. [key |-> "spf", rep |-> r] \in snap[p]
      BY <1>4, <2>1, <3>3 DEF Commit
    <3>5. PICK s \in Report : snap[p] = Rows(s)
      BY <3>4 DEF OneReportOrNone
    <3>6. r = s
      BY <3>4, <3>5 DEF Rows
    <3> QED BY <3>1, <3>5, <3>6
  <2>3. rows' = Rows(rep[p]) /\ history' = rep[p].status
    BY <1>4, <2>2 DEF Commit, Stored
  <2>4. snap' = [q \in Proc |-> IF q = p THEN {} ELSE snap[q] \ Rows(rep[p])]
    BY <1>4 DEF Commit, Stored
  <2>5. \A q \in Proc : OneReportOrNone(snap'[q])
    <3> SUFFICES ASSUME NEW q \in Proc PROVE OneReportOrNone(snap'[q])
      OBVIOUS
    <3>1. CASE q = p \/ snap[q] = {}
      BY <2>4, <3>1 DEF OneReportOrNone
    <3>2. CASE q # p /\ snap[q] # {}
      <4>1. PICK r \in Report : snap[q] = Rows(r)
        BY <3>2 DEF OneReportOrNone
      <4>2. r # rep[p] => Rows(r) \ Rows(rep[p]) = Rows(r)
        BY DEF Rows
      <4> QED
        BY <2>4, <3>2, <4>1, <4>2 DEF OneReportOrNone
    <3> QED
      BY <3>1, <3>2
  <2> QED BY <2>1, <2>3, <2>4, <2>5
<1> QED
  BY <1>1, <1>2, <1>3, <1>4
     DEF Next, Check, ReadCacheMiss, CheckDomain, CheckFails, Store, Persist, Rollback, Crash, Dies,
         ZoneChanges, SetChannels, Dispatch, Evaluate, LoadChannels, ReadAlert, Baseline, Same,
         Pending, Transition, Fires, Notify, Notified, rest, vars, checkVars, alertVars

LEMMA RememberedStep ==
    ASSUME Typed, Remembered, [Next]_vars PROVE Remembered'
<1> USE DeliverabilityAssumption, AlertsAssumption DEF Remembered
<1>1. ASSUME UNCHANGED <<alert, read, said>> PROVE Remembered'
  BY <1>1
<1>2. ASSUME NEW S \in SUBSET Replica, UNCHANGED <<alert, said>>,
             read' = [r \in Replica |-> IF r \in S THEN None ELSE read[r]]
      PROVE  Remembered'
  BY <1>2
<1>3. ASSUME NEW r \in Replica, ReadAlert(r) PROVE Remembered'
  BY <1>3 DEF ReadAlert, Typed
<1>4. ASSUME NEW r \in Replica, Baseline(r) PROVE Remembered'
  <2>1. [last |-> rep[r].status, pending |-> None, consecutive |-> 0] # None
    <3>1. rep[r].status \in Status
      BY <1>4, ReplicasAreProcesses DEF Baseline, Typed, Holding, Report
    <3> QED BY <3>1 DEF AlertState
  <2>2. alert' # None /\ (alert # None => alert' = alert)
    BY <1>4, <2>1 DEF Baseline
  <2>3. said' = said /\ read' = [read EXCEPT ![r] = None]
    BY <1>4 DEF Baseline, Idle
  <2> QED BY <2>2, <2>3 DEF Typed
<1>5. ASSUME NEW r \in Replica, Same(r) \/ Pending(r) PROVE Remembered'
  <2>1. alert \in AlertState
    BY <1>5, RowRewritten
  <2>2. alert' # None /\ alert'.last = alert.last
    BY <1>5, RowRewritten
  <2>3. said' = said /\ read' = [read EXCEPT ![r] = None]
    BY <1>5 DEF Same, Pending, Idle
  <2> QED BY <2>1, <2>2, <2>3 DEF Typed
<1>6. ASSUME NEW r \in Replica, Transition(r) PROVE Remembered'
  <2> DEFINE s == rep[r].status
  <2>1. s \in Status
    BY <1>6, ReplicasAreProcesses DEF Transition, Fires, Typed, Holding, Report
  <2>2. alert' = [last |-> s, pending |-> None, consecutive |-> 0]
    BY <1>6 DEF Transition
  <2>3. alert' # None /\ alert'.last = s
    BY <2>1, <2>2 DEF AlertState
  <2>4. read' = [read EXCEPT ![r] = None]
    BY <1>6 DEF Transition, Fires
  <2>5. said' = [q \in Replica |-> IF q = r THEN s ELSE IF said[q] = s THEN said[q] ELSE None]
    BY <1>6 DEF Transition, Fires
  <2> HIDE DEF s
  <2> QED BY <2>1, <2>3, <2>4, <2>5 DEF Typed
<1>7. ASSUME NEW p \in Proc, Crash(p) PROVE Remembered'
  <2>1. {r \in Replica : r = p} \in SUBSET Replica
    OBVIOUS
  <2> QED BY <1>2, <1>7 DEF Crash
<1>8. ASSUME NEW r \in Replica, Notified(r) PROVE Remembered'
  BY <1>8 DEF Notified, Idle, Typed
<1> QED
  BY <1>1, <1>3, <1>4, <1>5, <1>6, <1>7, <1>8
     DEF Next, Check, ReadCacheMiss, CheckDomain, CheckFails, Store, Persist, Delete, Commit, Stored, Rollback,
         ZoneChanges, SetChannels, Dispatch, Evaluate, LoadChannels, Notify, rest, vars, checkVars, alertVars

LEMMA EvidenceStep ==
    ASSUME Typed, Evidence, Remembered, [Next]_vars PROVE Evidence'
<1> USE DEF Goto
<1>t. Typed'
  BY TypedStep
\* Nothing wrong comes into being.
<1>a. ASSUME faults' = faults, \A q \in Proc : WrongReport(q)' => WrongReport(q),
             SomeWrongCount' => SomeWrongCount
      PROVE  Evidence'
  BY <1>a DEF Evidence
\* The fault: at most one report can be wrong because of it.
<1>b. ASSUME NEW p \in Proc, faults' = faults + 1,
             \A q \in Proc \ {p} : WrongReport(q)' => WrongReport(q),
             SomeWrongCount' => SomeWrongCount
      PROVE  Evidence'
  <2>1. faults \in Nat
    BY DEF Typed
  <2>2. faults' # 0 /\ (faults' = 1 => faults = 0)
    BY <1>b, <2>1
  <2> QED BY <1>b, <2>2 DEF Evidence
\* What is counted is no report any more.
<1>c. ASSUME NEW r \in Proc, faults' = faults,
             \A q \in Proc : WrongReport(q)' => WrongReport(q) /\ q # r,
             SomeWrongCount' => SomeWrongCount \/ WrongReport(r)
      PROVE  Evidence'
  BY <1>c DEF Evidence
<1>d. ASSUME UNCHANGED <<alert, read>>, truth \subseteq truth' PROVE SomeWrongCount' => SomeWrongCount
  BY <1>d DEF SomeWrongCount, WrongCount
<1>1. ASSUME ZoneChanges, UNCHANGED alertVars PROVE Evidence'
  <2>1. truth \subseteq truth' /\ UNCHANGED <<faults, pc, rep, alert, read>>
    BY <1>1 DEF ZoneChanges, alertVars
  <2> QED BY <1>a, <1>d, <2>1 DEF WrongReport
<1>2. ASSUME UNCHANGED <<faults, pc, rep, truth, alert, read>> PROVE Evidence'
  BY <1>a, <1>d, <1>2 DEF WrongReport
<1>3. ASSUME NEW p \in Proc, ReadCacheMiss(p), UNCHANGED alertVars PROVE Evidence'
  <2>1. UNCHANGED <<faults, rep, truth, alert, read>> /\ pc' = [pc EXCEPT ![p] = "miss"]
    BY <1>3 DEF ReadCacheMiss, alertVars
  <2> QED BY <1>a, <1>d, <2>1 DEF WrongReport, Holding, Typed
<1>4. ASSUME NEW p \in Proc, CheckDomain(p), UNCHANGED alertVars PROVE Evidence'
  <2>0. UNCHANGED <<truth, alert, read>> /\ pc' = [pc EXCEPT ![p] = "checked"]
    BY <1>4 DEF CheckDomain, alertVars
  <2>1. PICK s : rep' = [rep EXCEPT ![p] = [status |-> s, keys |-> Keys(zone.keyed)]]
    BY <1>4 DEF CheckDomain, LookupFails, Reports
  <2>2. \A q \in Proc \ {p} : WrongReport(q)' => WrongReport(q)
    BY <2>0, <2>1 DEF WrongReport, Typed
  <2>3. CASE faults' = faults + 1
    BY <1>b, <1>d, <2>0, <2>2, <2>3
  <2>4. CASE Reports(p, zone.status) /\ UNCHANGED faults
    <3>1. rep'[p].status = zone.status /\ zone.status \in truth
      BY <2>4 DEF Reports, Typed
    <3>2. ~WrongReport(p)'
      BY <2>0, <3>1 DEF WrongReport
    <3> QED BY <1>a, <1>d, <2>0, <2>2, <2>4, <3>2
  <2> QED BY <1>4, <2>3, <2>4 DEF CheckDomain, LookupFails, Fault
<1>5. ASSUME NEW p \in Proc, CheckFails(p), UNCHANGED alertVars PROVE Evidence'
  <2>1. UNCHANGED <<truth, alert, read>> /\ pc' = [pc EXCEPT ![p] = "checked"] /\ faults' = faults + 1
    BY <1>5 DEF CheckFails, Fault, alertVars
  <2>2. \A q \in Proc \ {p} : WrongReport(q)' => WrongReport(q)
    BY <1>5, <2>1 DEF CheckFails, WrongReport, Typed
  <2> QED BY <1>b, <1>d, <2>1, <2>2
<1>6. ASSUME NEW p \in Proc, Delete(p) \/ Commit(p), UNCHANGED alertVars PROVE Evidence'
  <2>1. UNCHANGED <<faults, truth, alert, read>> /\ pc[p] \in Holding
    BY <1>6 DEF Delete, Commit, Stored, alertVars, Holding
  <2>2. \A q \in Proc : WrongReport(q)' => WrongReport(q)
    BY <1>6, <2>1 DEF Delete, Commit, Stored, WrongReport, Typed, Holding
  <2> QED BY <1>a, <1>d, <2>1, <2>2
<1>7. ASSUME NEW p \in Proc, Rollback(p), UNCHANGED alertVars PROVE Evidence'
  <2>1. UNCHANGED <<truth, alert, read>> /\ (faults' = faults \/ faults' = faults + 1)
    BY <1>7 DEF Rollback, Fault, alertVars
  <2>2. \A q \in Proc : WrongReport(q)' => WrongReport(q)
    BY <1>7, <2>1 DEF Rollback, WrongReport, Typed, Holding
  <2> QED BY <1>a, <1>b, <1>d, <2>1, <2>2
<1>8. ASSUME NEW p \in Proc, Crash(p) PROVE Evidence'
  <2>1. UNCHANGED <<truth, alert>> /\ faults' = faults + 1
    BY <1>8 DEF Crash, Dies, Fault
  <2>2. \A q \in Proc : WrongReport(q)' => WrongReport(q)
    BY <1>8, <2>1 DEF Crash, Dies, WrongReport, Typed, Holding
  <2>3. SomeWrongCount' => SomeWrongCount
    BY <1>8, <2>1 DEF Crash, SomeWrongCount, WrongCount
  <2> QED BY <1>b, <2>1, <2>2, <2>3
<1>9. ASSUME NEW r \in Replica, LoadChannels(r) PROVE Evidence'
  <2>1. UNCHANGED <<faults, truth, alert, read>>
    BY <1>9 DEF LoadChannels, rest
  <2>2. \A q \in Proc : WrongReport(q)' => WrongReport(q)
    BY <1>9, <2>1, ReplicasAreProcesses DEF LoadChannels, WrongReport, Typed, Holding
  <2> QED BY <1>a, <1>d, <2>1, <2>2
<1>10. ASSUME NEW r \in Replica, ReadAlert(r) PROVE Evidence'
  <2>1. UNCHANGED <<faults, truth, alert, rep>>
    BY <1>10 DEF ReadAlert, rest
  <2>2. \A q \in Proc : WrongReport(q)' => WrongReport(q)
    BY <1>10, <2>1, ReplicasAreProcesses DEF ReadAlert, WrongReport, Typed, Holding
  <2>3. SomeWrongCount' => SomeWrongCount
    BY <1>10, <2>1 DEF ReadAlert, SomeWrongCount, WrongCount, Typed
  <2> QED BY <1>a, <2>1, <2>2, <2>3
<1>11. ASSUME NEW r \in Replica, Idle(r), UNCHANGED <<faults, truth>>
       PROVE  /\ \A q \in Proc : WrongReport(q)' => WrongReport(q) /\ q # r
              /\ WrongCount(alert)' \/ ~SomeWrongCount' \/ SomeWrongCount
  <2>1. \A q \in Proc : WrongReport(q)' => WrongReport(q) /\ q # r
    BY <1>11, ReplicasAreProcesses DEF Idle, WrongReport, Typed, Holding
  <2>2. \A q \in Replica : read'[q] = read[q] \/ read'[q] = None
    BY <1>11 DEF Idle, Typed
  <2> QED BY <1>11, <2>1, <2>2 DEF SomeWrongCount, WrongCount
<1>12. ASSUME NEW r \in Replica, Baseline(r) PROVE Evidence'
  <2>1. Idle(r) /\ UNCHANGED <<faults, truth>>
    BY <1>12 DEF Baseline, rest
  <2>2. WrongCount(alert)' => WrongCount(alert)
    BY <1>12, <2>1 DEF Baseline, WrongCount
  <2> QED BY <1>a, <1>11, <2>1, <2>2 DEF SomeWrongCount
<1>13. ASSUME NEW r \in Replica, Same(r) PROVE Evidence'
  <2>1. Idle(r) /\ UNCHANGED <<faults, truth>>
    BY <1>13 DEF Same, rest
  <2>2. ~WrongCount(alert)'
    BY <1>13, RowRewritten DEF Same, WrongCount, AlertState
  <2> QED BY <1>a, <1>11, <2>1, <2>2
<1>14. ASSUME NEW r \in Replica, Pending(r) PROVE Evidence'
  <2>1. Idle(r) /\ UNCHANGED <<faults, truth>>
    BY <1>14 DEF Pending, rest
  <2>2. WrongCount(alert)' => WrongReport(r)
    <3>1. alert'.pending = rep[r].status /\ pc[r] \in Holding
      BY <1>14, RowRewritten DEF Pending, AlertState, Holding
    <3> QED BY <2>1, <3>1 DEF WrongCount, WrongReport
  <2> QED BY <1>c, <1>11, <2>1, <2>2, ReplicasAreProcesses
<1>15. ASSUME NEW r \in Replica, Transition(r) PROVE Evidence'
  <2>1. UNCHANGED <<faults, truth>> /\ pc' = [pc EXCEPT ![r] = "notify"]
        /\ rep' = [rep EXCEPT ![r] = None] /\ read' = [read EXCEPT ![r] = None]
    BY <1>15 DEF Transition, Fires, rest
  <2>2. \A q \in Proc : WrongReport(q)' => WrongReport(q)
    BY <2>1, ReplicasAreProcesses DEF WrongReport, Typed, Holding
  <2>3. alert'.consecutive = 0
    BY <1>15 DEF Transition
  <2>4. SomeWrongCount' => SomeWrongCount
    BY <2>1, <2>3 DEF SomeWrongCount, WrongCount, Typed
  <2> QED BY <1>a, <2>1, <2>2, <2>4
<1>16. ASSUME NEW r \in Replica, Notified(r) PROVE Evidence'
  <2>1. Idle(r) /\ UNCHANGED <<faults, truth, alert>>
    BY <1>16 DEF Notified, rest
  <2> QED BY <1>a, <1>11, <2>1 DEF SomeWrongCount, WrongCount
<1> QED
  BY <1>1, <1>2, <1>3, <1>4, <1>5, <1>6, <1>7, <1>8, <1>9, <1>10, <1>12, <1>13, <1>14, <1>15, <1>16
     DEF Next, Check, Store, Persist, SetChannels, Dispatch, Evaluate, Notify, rest, vars, checkVars, alertVars

\* The cache, the counts of agreeing checks and what each replica alerted, together.
THEOREM AlertsInvariantHolds == Spec => []AlertsInv
<1>1. AlertsInv /\ [Next]_vars => AlertsInv'
  BY TypedStep, WholeStep, EvidenceStep, RememberedStep DEF AlertsInv
<1> QED BY <1>1, InitHolds, PTL DEF Spec

\* However the transactions of persistCheck overlap, the cached rows are one report's, and
\* the last row of the history is that report's.
THEOREM OneReportHolds == Spec => []OneReport
<1>1. AlertsInv => OneReport
  <2> SUFFICES ASSUME Whole, rows # {} PROVE \E x \in rows : rows = Rows(x.rep) /\ history = x.rep.status
    BY DEF AlertsInv, OneReport
  <2>1. PICK r \in Report : rows = Rows(r) /\ history = r.status
    BY DEF Whole
  <2>2. [key |-> "spf", rep |-> r] \in rows
    BY <2>1 DEF Report, Keys, Rows
  <2> QED BY <2>1, <2>2
<1> QED BY <1>1, AlertsInvariantHolds, PTL

\* Only Transition begins to notify.
LEMMA OnlyTransitionNotifies ==
    ASSUME Typed, [Next]_vars, NEW r \in Replica, pc[r] # "notify", pc'[r] = "notify"
    PROVE  Transition(r)
<1> USE ReplicasAreProcesses DEF Typed, Goto
<1>1. ASSUME NEW p \in Proc, Check(p) \/ Store(p) \/ Crash(p) PROVE FALSE
  BY <1>1 DEF Check, ReadCacheMiss, CheckDomain, CheckFails, Store, Persist, Delete, Commit, Stored,
              Rollback, Crash, Dies
<1>2. ASSUME NEW q \in Replica, Dispatch(q) PROVE q = r /\ Transition(r)
  BY <1>2 DEF Dispatch, LoadChannels, ReadAlert, Evaluate, Baseline, Same, Pending, Transition, Fires, Idle,
              Notify, Notified
<1> QED
  BY <1>1, <1>2 DEF Next, ZoneChanges, SetChannels, vars, checkVars

\* A status that is alerted after one fault at the most was the zone's: DEBOUNCE asks for a
\* count and a report, and one of them is true (evalTransition).
THEOREM NoFalseAlarmHolds == Spec => NoFalseAlarm
<1>1. ASSUME AlertsInv, [Next]_vars, NEW r \in Replica, pc[r] # "notify", pc'[r] = "notify", faults <= 1
      PROVE  rep[r].status \in truth
  <2>1. Transition(r)
    BY <1>1, OnlyTransitionNotifies DEF AlertsInv
  <2>2. read[r] # None /\ Count(r) >= 2 /\ pc[r] = "judge"
    BY <2>1 DEF Transition, Fires, DEBOUNCE
  <2>3. read[r].consecutive \in Nat
    BY <1>1, <2>2 DEF AlertsInv, Typed, AlertState
  <2>4. rep[r].status = read[r].pending /\ read[r].consecutive > 0
    BY <2>2, <2>3 DEF Count
  <2>5. faults = 0 \/ faults = 1
    BY <1>1 DEF AlertsInv, Typed
  <2> SUFFICES ASSUME rep[r].status \notin truth PROVE FALSE
    OBVIOUS
  <2>6. WrongReport(r) /\ SomeWrongCount
    BY <2>2, <2>4 DEF WrongReport, Holding, SomeWrongCount, WrongCount
  <2> QED BY <1>1, <2>5, <2>6, ReplicasAreProcesses DEF AlertsInv, Evidence
<1>2. AlertsInv /\ [Next]_vars
      => [\A r \in Replica : (pc[r] # "notify" /\ pc'[r] = "notify" /\ faults <= 1)
                                 => rep[r].status \in truth]_vars
  BY <1>1
<1> QED BY <1>2, AlertsInvariantHolds, PTL DEF NoFalseAlarm, Spec

\* What a replica has alerted last stands in the row it judges by, so the next status it
\* alerts is another one, after a crash as well (evalTransition, dispatchAlerts).
THEOREM NoFloodHolds == Spec => NoFlood
<1>1. ASSUME AlertsInv, [Next]_vars, NEW r \in Replica, pc[r] # "notify", pc'[r] = "notify"
      PROVE  said[r] # rep[r].status
  <2>1. Transition(r)
    BY <1>1, OnlyTransitionNotifies DEF AlertsInv
  <2>2. read[r] # None /\ rep[r].status # read[r].last /\ pc[r] = "judge"
    BY <2>1 DEF Transition, Fires
  <2>3. rep[r].status \in Status
    BY <1>1, <2>2, ReplicasAreProcesses DEF AlertsInv, Typed, Holding, Report
  <2> QED BY <1>1, <2>2, <2>3, DeliverabilityAssumption DEF AlertsInv, Remembered
<1>2. AlertsInv /\ [Next]_vars
      => [\A r \in Replica : (pc[r] # "notify" /\ pc'[r] = "notify") => said[r] # rep[r].status]_vars
  BY <1>1
<1> QED BY <1>2, AlertsInvariantHolds, PTL DEF NoFlood, Spec

=============================================================================
