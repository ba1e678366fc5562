-------------------------- MODULE SubmissionProofs --------------------------
(***************************************************************************)
(* The submission session, for any tables, accounts, limits and number of  *)
(* policy reloads: what Data would send is what the client was told, the   *)
(* bounce is suppressed only for a message all of whose recipients asked   *)
(* for it, and every part of it was permitted during the session.          *)
(***************************************************************************)
EXTENDS Submission, TLAPS

Typed ==
    /\ rows \in Tables /\ policy \in Policy /\ changes \in Nat /\ seen \subseteq Policy
    /\ load \in [at : {"idle", "domains", "suppressions", "store"}, policy : Policy]
    /\ open \in BOOLEAN /\ given \in BOOLEAN
    /\ client \in {None} \cup SUBSET Domain /\ auth \in {None} \cup Account
    /\ from \in Sender /\ dsnReturn \in Return /\ rcpts \in Seq(Recipient)
    /\ rcptN \in Nat /\ neverN \in Nat

Told == from = ackFrom /\ rcpts = ackRcpts

\* The two counters are a summary of the recipients.
Counted ==
    /\ rcptN = Len(rcpts) /\ neverN <= rcptN
    /\ neverN = rcptN <=> \A r \in ToSet(rcpts) : r.never

\* There are recipients only in a transaction, a transaction only in a session, and
\* the policy in force is always among those the session has seen.
Within ==
    /\ ~given => rcpts = <<>>
    /\ ~open => ~given
    /\ open => policy \in seen

IInv == Typed /\ Told /\ Counted /\ Within /\ Permitted
-----------------------------------------------------------------------------
\* Whatever a reload reads, when and with whichever queries lost, it builds a policy.
LEMMA LoadType ==
  ASSUME Typed, Reload
  PROVE  /\ load' \in [at : {"idle", "domains", "suppressions", "store"}, policy : Policy]
         /\ policy' \in Policy /\ changes' \in Nat
<1> USE SubmissionAssumption DEF Typed, Policy, Blank, Idle
<1>1. rows.client \in {None} \cup SUBSET Domain /\ rows.relay \in SUBSET Domain /\ rows.suppressed \in SUBSET Address
  OBVIOUS
<1>2. CASE ReadClients
  BY <1>1, <1>2 DEF ReadClients, Read
<1>3. CASE ReadDomains
  BY <1>1, <1>3 DEF ReadDomains, Read
<1>4. CASE ReadSuppressions
  BY <1>1, <1>4 DEF ReadSuppressions, Read
<1>5. CASE Store
  BY <1>5 DEF Store
<1> QED
  BY <1>2, <1>3, <1>4, <1>5 DEF Reload

LEMMA NoRecipients ==
  <<>> \in Seq(Recipient) /\ ToSet(<<>>) = {} /\ Len(<<>>) = 0
  BY DEF ToSet

\* One more recipient.
LEMMA AppendFacts ==
  ASSUME NEW s \in Seq(Recipient), NEW r \in Recipient
  PROVE  /\ Append(s, r) \in Seq(Recipient) /\ Len(Append(s, r)) = Len(s) + 1
         /\ ToSet(Append(s, r)) = ToSet(s) \cup {r}
<1>1. /\ Append(s, r) \in Seq(Recipient) /\ Len(Append(s, r)) = Len(s) + 1 /\ Len(s) \in Nat
      /\ DOMAIN s = 1..Len(s) /\ DOMAIN Append(s, r) = 1..(Len(s) + 1)
      /\ \A k \in 1..Len(s) : Append(s, r)[k] = s[k]
      /\ Append(s, r)[Len(s) + 1] = r
  OBVIOUS
<1> QED
  BY <1>1 DEF ToSet

LEMMA InitHolds == Init => IInv
<1> SUFFICES ASSUME Init PROVE IInv
  OBVIOUS
<1>1. policy \in Policy
  BY SubmissionAssumption DEF Init
<1>9. load \in [at : {"idle", "domains", "suppressions", "store"}, policy : Policy]
  BY DEF Init, Idle, Blank, Policy
<1>2. Typed
  BY <1>1, <1>9, NoRecipients DEF Init, Empty, Typed, Return, Sender
<1>3. given = FALSE /\ open = FALSE
  BY DEF Init, Empty
<1>4. Within /\ Permitted
  BY <1>3, Zenon DEF Init, Empty, Within, Permitted
<1>5. Told
  BY DEF Init, Empty, Told
<1>6. rcpts = <<>> /\ rcptN = 0 /\ neverN = 0
  BY DEF Init, Empty
<1>7. Counted
  BY <1>6, NoRecipients DEF Counted
<1> QED
  BY <1>2, <1>4, <1>5, <1>7 DEF IInv

\* A Reset leaves nothing of the transaction.
LEMMA ResetStep ==
  ASSUME IInv, Reset, UNCHANGED config, open' \in BOOLEAN, seen' \subseteq Policy,
         client' \in {None} \cup SUBSET Domain, auth' \in {None} \cup Account,
         open' => policy' \in seen'
  PROVE  IInv'
<1>1. /\ from' = None /\ rcpts' = <<>> /\ rcptN' = 0 /\ neverN' = 0
      /\ ackFrom' = None /\ ackRcpts' = <<>>
  BY DEF Reset
<1>2. given' = FALSE /\ dsnReturn' \in Return
  BY DEF Reset, Return
<1>3. Typed'
  BY <1>1, <1>2, NoRecipients DEF IInv, Typed, config, Sender
<1>4. Told'
  BY <1>1 DEF Told
<1>5. Counted'
  <2>1. ToSet(rcpts') = {} /\ Len(rcpts') = 0
    BY <1>1, NoRecipients
  <2> QED
    BY <1>1, <2>1 DEF Counted
<1>6. Within'
  BY <1>1, <1>2, Zenon DEF Within
<1>7. Permitted'
  BY <1>2, Zenon DEF Permitted
<1> QED
  BY <1>3, <1>4, <1>5, <1>6, <1>7 DEF IInv

LEMMA MailStep ==
  ASSUME IInv, NEW d \in Domain, NEW ret \in Return, Mail(d, ret)
  PROVE  IInv'
<1> USE DEF IInv
<1>1. /\ open /\ dsnReturn' = ret /\ open' = open /\ client' = client /\ auth' = auth
      /\ rcpts' = rcpts /\ rcptN' = rcptN /\ neverN' = neverN /\ ackRcpts' = ackRcpts
      /\ seen' = seen /\ UNCHANGED config
  BY DEF Mail
<1>2. Counted'
  BY <1>1 DEF Counted
<1>3. CASE UNCHANGED <<from, given, ackFrom>>
  BY <1>1, <1>2, <1>3 DEF Typed, Told, Within, Permitted, config
<1>4. CASE MailPermitted(d) /\ from' = d /\ given' = TRUE /\ ackFrom' = d
  <2>1. Typed'
    BY <1>1, <1>4 DEF Typed, config, Sender
  <2>2. Told' /\ Within'
    BY <1>1, <1>4 DEF Told, Within, config
  <2>3. /\ \/ client # None /\ sendersAllow(client, d)
           \/ auth # None /\ sendersAllow(auth.senders, d)
        /\ policy \in seen /\ (policy.relay = {} \/ d \in policy.relay)
    BY <1>1, <1>4 DEF MailPermitted, allowedSenders, relayDomainOK, Within
  <2>4. \A r \in ToSet(rcpts) : \E p \in seen : r.to \notin p.suppressed
    BY NoRecipients DEF Permitted, Within
  <2>5. Permitted'
    BY <1>1, <1>4, <2>3, <2>4 DEF Permitted
  <2> QED
    BY <1>2, <2>1, <2>2, <2>5
<1> QED
  BY <1>3, <1>4 DEF Mail

LEMMA RcptStep ==
  ASSUME IInv, NEW a \in Address, NEW never \in BOOLEAN, Rcpt(a, never)
  PROVE  IInv'
<1> USE DEF IInv
<1> DEFINE r == [to |-> a, never |-> never]
<1>1. /\ open /\ given /\ a \notin policy.suppressed
      /\ rcpts' = Append(rcpts, r) /\ ackRcpts' = Append(ackRcpts, r)
      /\ rcptN' = rcptN + 1 /\ neverN' = IF never THEN neverN + 1 ELSE neverN
      /\ open' = open /\ client' = client /\ auth' = auth /\ from' = from
      /\ dsnReturn' = dsnReturn /\ given' = given /\ ackFrom' = ackFrom /\ seen' = seen
      /\ UNCHANGED config
  BY DEF Rcpt
<1>2. r \in Recipient /\ r.to = a /\ r.never = never /\ rcpts \in Seq(Recipient)
      /\ Len(rcpts) \in Nat
  BY DEF Recipient, Typed
<1> HIDE DEF r
<1>3. /\ rcpts' \in Seq(Recipient) /\ Len(rcpts') = Len(rcpts) + 1
      /\ ToSet(rcpts') = ToSet(rcpts) \cup {r}
  BY <1>1, <1>2, AppendFacts
<1>4. Typed'
  BY <1>1, <1>3 DEF Typed, config
<1>5. Told' /\ Within'
  BY <1>1 DEF Told, Within, config
<1>6. Counted'
  <2>1. rcptN \in Nat /\ neverN \in Nat
    BY DEF Typed
  <2>2. CASE never
    <3>1. neverN' = neverN + 1
      BY <1>1, <2>2
    <3>2. (\A q \in ToSet(rcpts') : q.never) <=> \A q \in ToSet(rcpts) : q.never
      BY <1>2, <1>3, <2>2
    <3> QED
      BY <1>1, <1>3, <2>1, <3>1, <3>2 DEF Counted
  <2>3. CASE ~never
    <3>1. neverN' = neverN
      BY <1>1, <2>3
    <3>2. ~\A q \in ToSet(rcpts') : q.never
      BY <1>2, <1>3, <2>3
    <3> QED
      BY <1>1, <1>3, <2>1, <3>1, <3>2 DEF Counted
  <2> QED
    BY <2>2, <2>3
<1>7. Permitted'
  <2>1. ASSUME NEW q \in ToSet(rcpts') PROVE \E p \in seen : q.to \notin p.suppressed
    <3>1. CASE q = r
      BY <1>1, <1>2, <3>1 DEF Within
    <3>2. CASE q \in ToSet(rcpts)
      BY <1>1, <3>2 DEF Permitted
    <3> QED
      BY <1>3, <3>1, <3>2
  <2> QED
    BY <1>1, <2>1 DEF Permitted
<1> QED
  BY <1>4, <1>5, <1>6, <1>7

LEMMA StepHolds == IInv /\ [Next]_vars => IInv'
<1> SUFFICES ASSUME IInv, [Next]_vars PROVE IInv'
  OBVIOUS
<1> USE DEF IInv
<1>1. CASE Commit
  <2>1. Typed'
    BY <1>1, SubmissionAssumption DEF Commit, Typed, session, envelope, told
  <2> QED
    BY <1>1, <2>1 DEF Commit, Told, Counted, Within, Permitted, session, envelope, told
<1>2. CASE Reload
  <2>1. UNCHANGED <<rows, session>>
    BY <1>2 DEF Reload, ReadClients, ReadDomains, ReadSuppressions, Read, Store
  <2>2. \/ UNCHANGED <<policy, seen>>
        \/ seen' = IF open THEN seen \cup {policy'} ELSE seen
    BY <1>2 DEF Reload, ReadClients, ReadDomains, ReadSuppressions, Read, Store
  <2>3. Typed'
    BY <1>2, <2>1, <2>2, LoadType DEF Typed, session, envelope, told
  <2>4. Told' /\ Counted' /\ Within'
    BY <2>1, <2>2 DEF Told, Counted, Within, session, envelope, told
  <2>5. Permitted'
    BY <2>1, <2>2 DEF Permitted, session, envelope, told
  <2> QED
    BY <2>3, <2>4, <2>5
<1>3. CASE NewSession
  <2>1. Typed'
    BY <1>3 DEF NewSession, Typed, Policy, config, envelope, told
  <2>2. Told' /\ Counted' /\ Within' /\ Permitted'
    BY <1>3 DEF NewSession, Told, Counted, Within, Permitted, config, envelope, told
  <2> QED
    BY <2>1, <2>2
<1>4. ASSUME NEW a \in Account, Auth(a) PROVE IInv'
  <2>1. Typed'
    BY <1>4 DEF Auth, Typed, config, envelope, told
  <2>2. Told' /\ Counted' /\ Within' /\ Permitted'
    BY <1>4 DEF Auth, Told, Counted, Within, Permitted, config, envelope, told
  <2> QED
    BY <2>1, <2>2
<1>5. CASE Data \/ Rset \/ Logout
  <2>1. Reset /\ UNCHANGED config
    BY <1>5 DEF Data, Rset, Logout
  <2>2. CASE UNCHANGED <<config, open, client, auth, seen>>
    BY <2>1, <2>2, ResetStep DEF Typed, Within, config
  <2>3. CASE Logout
    BY <2>1, <2>3, ResetStep DEF Logout
  <2> QED
    BY <1>5, <2>2, <2>3 DEF Data, Rset
<1>6. ASSUME NEW d \in Domain, NEW ret \in Return, Mail(d, ret) PROVE IInv'
  BY <1>6, MailStep
<1>7. ASSUME NEW a \in Address, NEW never \in BOOLEAN, Rcpt(a, never) PROVE IInv'
  BY <1>7, RcptStep
<1>8. CASE UNCHANGED vars
  BY <1>8 DEF vars, config, session, envelope, told, Typed, Told, Counted, Within, Permitted
<1> QED
  BY <1>1, <1>2, <1>3, <1>4, <1>5, <1>6, <1>7, <1>8 DEF Next

\* The session object keeps its invariant through every order of commands and reloads.
THEOREM SessionInvariantHolds == Spec => []IInv
<1> QED
  BY InitHolds, StepHolds, PTL DEF Spec
-----------------------------------------------------------------------------
\* Data sends the envelope the client was told is accepted: a refused command, and one of
\* an earlier message of the session, leaves nothing in it.
THEOREM EnvelopeAsAcknowledgedHolds == Spec => []EnvelopeAsAcknowledged
<1>1. IInv => EnvelopeAsAcknowledged
  BY DEF IInv, Told, EnvelopeAsAcknowledged, Job
<1> QED
  BY <1>1, SessionInvariantHolds, PTL

\* The counters of Rcpt suppress the bounce exactly when every recipient asked for
\* NOTIFY=NEVER, in the first message of a session and in every later one.
THEOREM SuppressedByAllHolds == Spec => []SuppressedByAll
<1>1. IInv => SuppressedByAll
  <2> SUFFICES ASSUME IInv PROVE SuppressedByAll
    OBVIOUS
  <2>1. rcpts \in Seq(Recipient) /\ rcptN = Len(rcpts) /\ rcptN \in Nat
    BY DEF IInv, Typed, Counted
  <2>2. rcptN > 0 <=> rcpts # <<>>
    BY <2>1
  <2> QED
    BY <2>2 DEF IInv, Counted, SuppressedByAll, Job
<1> QED
  BY <1>1, SessionInvariantHolds, PTL

\* A message is accepted from a sender the session may use, and its sender and recipients
\* passed a policy that was in force during that session.
THEOREM PermittedHolds == Spec => []Permitted
<1>1. IInv => Permitted
  BY DEF IInv
<1> QED
  BY <1>1, SessionInvariantHolds, PTL
=============================================================================
