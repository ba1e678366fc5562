----------------------------- MODULE Submission -----------------------------
(***************************************************************************)
(* A submission session of the ingress: what the SMTP commands of a client *)
(* leave in the session object that Data turns into a job, while the       *)
(* inbound policy is reloaded under it.  What Data does with the body, the *)
(* row and the job is the subject of MailFlow; whether a rate limit has a  *)
(* token, that of RateLimit.                                               *)
(*                                                                         *)
(* Senders are represented by their domain, in lower case.                 *)
(***************************************************************************)
EXTENDS Naturals, Sequences, SequencesExt

CONSTANTS
    Domain,      \* sender domains
    Address,     \* recipient addresses
    Account,     \* accounts: [senders, pinned], senders empty for any
    Tables,      \* what the policy tables may hold: [client, relay, suppressed]
    MaxChanges,  \* bound on changes of the tables and on reloads
    MaxRcpts,    \* the server's limit on recipients
    None

\* The policy tables, and the policy made of them.
Policy == [client : {None} \cup SUBSET Domain, relay : SUBSET Domain, suppressed : SUBSET Address]

ASSUME SubmissionAssumption ==
    /\ Account \subseteq [senders : SUBSET Domain, pinned : BOOLEAN]
    /\ Tables \subseteq Policy
    /\ MaxChanges \in Nat /\ MaxRcpts \in Nat

Return == {"", "FULL"}    \* HDRS is treated like FULL

VARIABLES
    rows,        \* the policy tables
    policy,      \* be.policy
    load,        \* the policy being built: the query to come, or "idle", and what is read so far
    changes,
    open,        \* is there a session?
    client,      \* s.client: the senders of the trusted client, or None
    auth,        \* s.auth
    from, dsnReturn, rcpts, rcptN, neverN,
    given        \* has the server acknowledged a MAIL of this transaction?

\* Observations of the past: what the client was told, and the policies that were
\* in force during the session.
VARIABLES ackFrom, ackRcpts, seen

config == <<rows, policy, load, changes>>
envelope == <<from, dsnReturn, rcpts, rcptN, neverN>>
told == <<ackFrom, ackRcpts>>
session == <<open, client, auth, envelope, given, told>>
vars == <<config, session, seen>>

-----------------------------------------------------------------------------
(* The policy.                                                             *)

Blank == [client |-> None, relay |-> {}, suppressed |-> {}]
Idle == [at |-> "idle", policy |-> Blank]

relayDomainOK(p, d) == p.relay = {} \/ d \in p.relay

sendersAllow(allowed, d) == allowed = {} \/ d \in allowed

Commit ==
    /\ changes < MaxChanges /\ changes' = changes + 1
    /\ rows' \in Tables \ {rows}
    /\ UNCHANGED <<policy, load, session, seen>>

\* buildInbound reads one table after the other; a query that fails leaves its part empty.
Read(at, next, part) ==
    /\ load.at = at /\ load' = [at |-> next, policy |-> part]
    /\ UNCHANGED <<rows, policy, session, seen>>

ReadClients ==
    /\ changes < MaxChanges /\ changes' = changes + 1
    /\ \E c \in {rows.client, None} : Read("idle", "domains", [Blank EXCEPT !.client = c])

ReadDomains ==
    /\ UNCHANGED changes
    /\ \E d \in {rows.relay, {}} : Read("domains", "suppressions", [load.policy EXCEPT !.relay = d])

ReadSuppressions ==
    /\ UNCHANGED changes
    /\ \E a \in {rows.suppressed, {}} : Read("suppressions", "store", [load.policy EXCEPT !.suppressed = a])

\* be.policy.Store.
Store ==
    /\ load.at = "store" /\ policy' = load.policy /\ load' = Idle
    /\ seen' = IF open THEN seen \cup {policy'} ELSE seen
    /\ UNCHANGED <<rows, changes, session>>

Reload == ReadClients \/ ReadDomains \/ ReadSuppressions \/ Store

-----------------------------------------------------------------------------
(* The session.                                                            *)

Empty ==
    /\ from = None /\ dsnReturn = "" /\ rcpts = <<>> /\ rcptN = 0 /\ neverN = 0
    /\ given = FALSE /\ ackFrom = None /\ ackRcpts = <<>>

Init ==
    /\ rows \in Tables /\ policy = rows /\ load = Idle /\ changes = 0
    /\ open = FALSE /\ client = None /\ auth = None /\ Empty /\ seen = {}

\* Reset, and the server's own bookkeeping with it.
\* Variant: the NEVER count survives.
ResetKeepsNever ==
    /\ from' = None /\ dsnReturn' = "" /\ rcpts' = <<>> /\ rcptN' = 0 /\ UNCHANGED neverN
    /\ given' = FALSE /\ ackFrom' = None /\ ackRcpts' = <<>>

Reset ==
    /\ from' = None /\ dsnReturn' = "" /\ rcpts' = <<>> /\ rcptN' = 0 /\ neverN' = 0
    /\ given' = FALSE /\ ackFrom' = None /\ ackRcpts' = <<>>

\* NewSession: the trusted client is looked up once, in the policy of that moment.
NewSession ==
    /\ ~open /\ open' = TRUE
    /\ client' = policy.client /\ seen' = {policy}
    /\ UNCHANGED <<config, auth, envelope, given, told>>

\* Auth, for credentials that are right; the account may be pinned elsewhere.
Auth(a) ==
    /\ open /\ auth = None /\ ~a.pinned
    /\ auth' = a
    /\ UNCHANGED <<config, open, client, envelope, given, told, seen>>

allowedSenders == IF auth # None THEN auth.senders ELSE client

MailPermitted(d) ==
    /\ auth # None \/ client # None
    /\ sendersAllow(allowedSenders, d)
    /\ relayDomainOK(policy, d)

\* A MAIL that is permitted may still be over its rate limit.  Its RET parameter is
\* recorded in any case.
\* Variant: the sender is recorded before it is found permitted.
MailEarly(d, ret) ==
    /\ open /\ from' = d /\ dsnReturn' = ret
    /\ \/ MailPermitted(d) /\ given' = TRUE /\ ackFrom' = d
       \/ UNCHANGED <<given, ackFrom>>
    /\ UNCHANGED <<config, open, client, auth, rcpts, rcptN, neverN, ackRcpts, seen>>

Mail(d, ret) ==
    /\ open /\ dsnReturn' = ret
    /\ \/ MailPermitted(d) /\ from' = d /\ given' = TRUE /\ ackFrom' = d
       \/ UNCHANGED <<from, given, ackFrom>>
    /\ UNCHANGED <<config, open, client, auth, rcpts, rcptN, neverN, ackRcpts, seen>>

\* Variant: the suppression list is not consulted.
RcptUnchecked(r, never) ==
    /\ open /\ given /\ Len(rcpts) < MaxRcpts
    /\ rcpts' = Append(rcpts, [to |-> r, never |-> never])
    /\ rcptN' = rcptN + 1 /\ neverN' = IF never THEN neverN + 1 ELSE neverN
    /\ ackRcpts' = Append(ackRcpts, [to |-> r, never |-> never])
    /\ UNCHANGED <<config, open, client, auth, from, dsnReturn, given, ackFrom, seen>>

Rcpt(r, never) ==
    /\ open /\ given /\ Len(rcpts) < MaxRcpts /\ r \notin policy.suppressed
    /\ rcpts' = Append(rcpts, [to |-> r, never |-> never])
    /\ rcptN' = rcptN + 1 /\ neverN' = IF never THEN neverN + 1 ELSE neverN
    /\ ackRcpts' = Append(ackRcpts, [to |-> r, never |-> never])
    /\ UNCHANGED <<config, open, client, auth, from, dsnReturn, given, ackFrom, seen>>

\* The job Data publishes.
Job ==
    [from |-> from, rcpts |-> rcpts, dsnReturn |-> dsnReturn,
     dsnSuppress |-> rcptN > 0 /\ neverN = rcptN]

\* The server calls Reset after DATA, whatever became of it, and for RSET or EHLO.
Data ==
    /\ open /\ given /\ rcpts # <<>> /\ Reset
    /\ UNCHANGED <<config, open, client, auth, seen>>

Rset ==
    /\ open /\ Reset
    /\ UNCHANGED <<config, open, client, auth, seen>>

\* The connection ends, or starts over after STARTTLS.
Logout ==
    /\ open /\ open' = FALSE /\ client' = None /\ auth' = None /\ Reset /\ seen' = {}
    /\ UNCHANGED config

Next ==
    \/ Commit \/ Reload \/ NewSession \/ Data \/ Rset \/ Logout
    \/ \E a \in Account : Auth(a)
    \/ \E d \in Domain, ret \in Return : Mail(d, ret)
    \/ \E r \in Address, never \in BOOLEAN : Rcpt(r, never)

Spec == Init /\ [][Next]_vars

-----------------------------------------------------------------------------
Sender == Domain \cup {None}
Recipient == [to : Address, never : BOOLEAN]

\* The envelope Data would send is the one the client was told was accepted: a
\* command that was refused, or one of an earlier message, adds nothing to it (the
\* RET of a refused MAIL is the exception: Mail records it first).
EnvelopeAsAcknowledged == Job.from = ackFrom /\ Job.rcpts = ackRcpts

\* The bounce is suppressed exactly for a message all of whose recipients asked
\* for NOTIFY=NEVER, also when it is not the first of its session.
SuppressedByAll ==
    Job.dsnSuppress <=> rcpts # <<>> /\ \A r \in ToSet(rcpts) : r.never

\* What Data accepts is permitted: the sender to an identity the session has, and
\* sender and recipients by a policy that was in force during the session.
Permitted ==
    given =>
        /\ \/ client # None /\ sendersAllow(client, from)
           \/ auth # None /\ sendersAllow(auth.senders, from)
        /\ \E p \in seen : p.relay = {} \/ from \in p.relay
        /\ \A r \in ToSet(rcpts) : \E p \in seen : r.to \notin p.suppressed
=============================================================================
