--------------------------- MODULE SnapshotProofs ---------------------------
(***************************************************************************)
(* The snapshot a data-plane process works with, for every value of the    *)
(* constants.  In this order: it catches up with the database and never    *)
(* goes back (ConfigReload); the routing index in it resolves by the       *)
(* documented precedence (Routing); its token buckets let pass no more     *)
(* than their burst and what they have earned (RateLimit).                 *)
(***************************************************************************)
EXTENDS ConfigReload, Routing, RateLimit, SequenceTheorems, FiniteSetTheorems, TLAPS
-----------------------------------------------------------------------------
(* Reload of the configuration. *)

Reader == {0} \cup Sub

Typed ==
    /\ row \in [Slice -> Nat] /\ api \in [Handler -> {"idle", "committed", "epoch"}]
    /\ node \in [Node -> {"boot", "built", "registered", "run"}]
    /\ inbox \in [Node -> [Sub -> Nat]] /\ bound \in [Node -> SUBSET Nat]
    /\ acc \in [Node -> [Reader -> Seq(Nat)]] /\ reading \in [Node -> SUBSET Reader]
    /\ snap \in [Node -> [Slice -> Nat]] /\ opened \in [Node -> Nat]
    /\ up \in [Node -> BOOLEAN]
    /\ missed \in [Node -> SUBSET {"boot", "query", "drop"}] /\ unsent \in BOOLEAN
    /\ \A n \in Node, g \in Reader : Len(acc[n][g]) <= NSlices

\* A process that missed nothing has one subscription, its first, once it runs; and one
\* reader at a time, main's own before it and the subscription's after.
Undisturbed(n) ==
    /\ up[n]
    /\ IF node[n] = "run" THEN opened[n] = 1 /\ bound[n] = {1} ELSE opened[n] = 0 /\ bound[n] = {}
    /\ node[n] = "boot" => reading[n] = {0}
    /\ node[n] \in {"built", "registered"} => reading[n] = {}
    /\ node[n] = "run" => reading[n] \subseteq {1}
    /\ \A g \in Sub : g # 1 \/ node[n] # "run" => inbox[n][g] = 0
    /\ \A g \in Reader \ reading[n] : acc[n][g] = <<>>

\* What it has read is no older than what it had, and no newer than the database.
Ordered(n) ==
    /\ \A s \in Slice : snap[n][s] <= row[s]
    /\ \A g \in reading[n] : \A s \in 1..Len(acc[n][g]) :
          snap[n][s] <= acc[n][g][s] /\ acc[n][g][s] <= row[s]

\* What is not up to date is about to be read again: a change is still to be announced,
\* or its event is waiting behind the reader.
Coming(n) == (\E h \in Handler : api[h] # "idle") \/ inbox[n][1] > 0
Fresh(n) ==
    ~Coming(n) =>
        /\ reading[n] = {} => \A s \in Slice : snap[n][s] = row[s]
        /\ \A g \in reading[n] : \A s \in 1..Len(acc[n][g]) : acc[n][g][s] = row[s]

Sound(n) ==
    missed[n] = {} => Undisturbed(n) /\ Ordered(n) /\ (~unsent => Fresh(n))

IInv == Typed /\ \A n \in Node : Sound(n)
-----------------------------------------------------------------------------
LEMMA Numbers ==
  /\ Slice \subseteq Nat /\ Sub \subseteq Nat /\ Reader \subseteq Nat /\ 1 \in Sub /\ 0 \notin Sub
  /\ 1 \in Reader /\ 0 \in Reader /\ NSlices \in Nat
  BY ConfigAssumption DEF Slice, Sub, Reader

LEMMA InitHolds == Init => IInv
<1> SUFFICES ASSUME Init PROVE IInv
  OBVIOUS
<1> USE Numbers DEF Init
<1>1. Typed
  <2>1. <<>> \in Seq(Nat) /\ Len(<<>>) = 0
    OBVIOUS
  <2>2. acc \in [Node -> [Reader -> Seq(Nat)]] /\ \A n \in Node, g \in Reader : acc[n][g] = <<>>
    BY <2>1 DEF Reader
  <2>3. snap \in [Node -> [Slice -> Nat]] /\ inbox \in [Node -> [Sub -> Nat]]
    BY DEF Nothing
  <2>4. /\ row \in [Slice -> Nat] /\ api \in [Handler -> {"idle", "committed", "epoch"}]
        /\ node \in [Node -> {"boot", "built", "registered", "run"}]
        /\ bound \in [Node -> SUBSET Nat] /\ reading \in [Node -> SUBSET Reader]
        /\ opened \in [Node -> Nat] /\ up \in [Node -> BOOLEAN]
    BY DEF Reader
  <2>5. missed \in [Node -> SUBSET {"boot", "query", "drop"}] /\ unsent \in BOOLEAN
    OBVIOUS
  <2> QED
    BY <2>1, <2>2, <2>3, <2>4, <2>5 DEF Typed
<1>2. ASSUME NEW n \in Node PROVE Sound(n)
  <2>1. Undisturbed(n)
    BY DEF Undisturbed, Reader
  <2>2. Ordered(n)
    BY DEF Ordered, Nothing, Reader
  <2>3. Fresh(n)
    BY DEF Fresh, Reader
  <2> QED
    BY <2>1, <2>2, <2>3 DEF Sound
<1> QED
  BY <1>1, <1>2 DEF IInv

\* Reading one more slice.
LEMMA AppendFacts ==
  ASSUME NEW q \in Seq(Nat), NEW v \in Nat
  PROVE  /\ Append(q, v) \in Seq(Nat) /\ Len(Append(q, v)) = Len(q) + 1
         /\ \A s \in 1..Len(q) : Append(q, v)[s] = q[s]
         /\ Append(q, v)[Len(q) + 1] = v /\ Len(q) \in Nat
  OBVIOUS

\* A complete reading is a snapshot.
LEMMA SnapshotFacts ==
  ASSUME NEW q \in Seq(Nat), Len(q) = NSlices
  PROVE  q \in [Slice -> Nat]
  BY DEF Slice

LEMMA TypedStep == Typed /\ [Next]_vars => Typed'
<1> SUFFICES ASSUME Typed, [Next]_vars PROVE Typed'
  OBVIOUS
<1> USE Numbers DEF Typed, nodeUnchanged, apiUnchanged
<1>1. ASSUME NEW h \in Handler, NEW s \in Slice, Commit(h, s) PROVE Typed'
  BY <1>1 DEF Commit
<1>2. ASSUME NEW h \in Handler, TakeEpoch(h) PROVE Typed'
  BY <1>2 DEF TakeEpoch
<1>3. ASSUME NEW h \in Handler, Announce(h) PROVE Typed'
  <2>1. CASE FanOut /\ unsent' = unsent
    <3>1. inbox' \in [Node -> [Sub -> Nat]]
      BY <2>1 DEF FanOut
    <3>2. missed' \in [Node -> SUBSET {"boot", "query", "drop"}]
      BY <2>1 DEF FanOut
    <3> QED
      BY <1>3, <2>1, <3>1, <3>2 DEF Announce
  <2>2. CASE UNCHANGED <<inbox, missed>>
    BY <1>3, <2>2 DEF Announce
  <2> QED
    BY <1>3, <2>1, <2>2 DEF Announce
<1>4. CASE ChannelLost \/ ChannelBack \/ UNCHANGED vars
  BY <1>4 DEF ChannelLost, ChannelBack, vars
<1>5. ASSUME NEW n \in Node, NEW g \in {0} \cup Sub, Load(n, g) PROVE Typed'
  <2>1. /\ acc[n][g] \in Seq(Nat) /\ Len(acc[n][g]) \in Nat /\ Len(acc[n][g]) < NSlices
        /\ g \in Reader
    BY <1>5 DEF Load, Reader
  <2>2. PICK v \in Nat : acc' = [acc EXCEPT ![n][g] = Append(@, v)]
    <3>1. row[Len(acc[n][g]) + 1] \in Nat /\ Nothing \in Nat
      BY <2>1 DEF Slice, Nothing
    <3> QED
      BY <1>5, <2>1, <3>1 DEF Load
  <2>3. Append(acc[n][g], v) \in Seq(Nat) /\ Len(Append(acc[n][g], v)) = Len(acc[n][g]) + 1
    BY <2>1, AppendFacts
  <2>4. acc' \in [Node -> [Reader -> Seq(Nat)]]
    BY <2>1, <2>2, <2>3
  <2>5. ASSUME NEW m \in Node, NEW r \in Reader PROVE Len(acc'[m][r]) <= NSlices
    BY <2>1, <2>2, <2>3
  <2>6. missed' \in [Node -> SUBSET {"boot", "query", "drop"}]
    <3>1. missed[n] \cup {"query"} \in SUBSET {"boot", "query", "drop"}
      OBVIOUS
    <3>2. missed' = missed \/ missed' = [missed EXCEPT ![n] = missed[n] \cup {"query"}]
      BY <1>5 DEF Load
    <3> QED
      BY <3>1, <3>2
  <2> QED
    BY <1>5, <2>4, <2>5, <2>6 DEF Load
<1>6. ASSUME NEW n \in Node, NEW g \in {0} \cup Sub, Store(n, g) PROVE Typed'
  <2>1. acc[n][g] \in [Slice -> Nat] /\ g \in Reader
    BY <1>6, SnapshotFacts DEF Store, Reader
  <2>2. snap' \in [Node -> [Slice -> Nat]] /\ reading' \in [Node -> SUBSET Reader]
    BY <1>6, <2>1 DEF Store
  <2>3. <<>> \in Seq(Nat) /\ Len(<<>>) = 0
    OBVIOUS
  <2>4. acc' \in [Node -> [Reader -> Seq(Nat)]]
    BY <1>6, <2>1, <2>3 DEF Store
  <2>5. ASSUME NEW m \in Node, NEW r \in Reader PROVE Len(acc'[m][r]) <= NSlices
    BY <1>6, <2>1, <2>3 DEF Store
  <2> QED
    BY <1>6, <2>2, <2>4, <2>5 DEF Store
<1>7. ASSUME NEW n \in Node, Register(n) PROVE Typed'
  BY <1>7 DEF Register
<1>8. ASSUME NEW n \in Node, Subscribe(n) PROVE Typed'
  <2>1. CASE up[n]
    <3>1. /\ node' = [node EXCEPT ![n] = "run"] /\ UNCHANGED <<reading, snap, inbox, acc, missed, up>>
          /\ opened' = [opened EXCEPT ![n] = opened[n] + 1]
          /\ bound' = [bound EXCEPT ![n] = bound[n] \cup {opened[n] + 1}]
      BY <1>8, <2>1 DEF Subscribe, Open
    <3> QED
      BY <1>8, <3>1 DEF Subscribe
  <2>2. CASE ~up[n]
    <3>1. [s \in Slice |-> Nothing] \in [Slice -> Nat]
      BY DEF Nothing
    <3>2. /\ node' = [node EXCEPT ![n] = "boot"] /\ reading' = [reading EXCEPT ![n] = {0}]
          /\ snap' = [snap EXCEPT ![n] = [s \in Slice |-> Nothing]]
          /\ UNCHANGED <<opened, bound, inbox, acc, missed, up>>
      BY <1>8, <2>2 DEF Subscribe
    <3>3. snap' \in [Node -> [Slice -> Nat]]
      BY <3>1, <3>2
    <3> QED
      BY <1>8, <3>2, <3>3 DEF Subscribe
  <2> QED
    BY <2>1, <2>2
<1>9. ASSUME NEW n \in Node, NEW g \in Sub, Receive(n, g) PROVE Typed'
  <2>1. g \in Reader
    BY DEF Reader
  <2>2. inbox[n][g] - 1 \in Nat
    BY <1>9 DEF Receive
  <2> QED
    BY <1>9, <2>1, <2>2 DEF Receive
<1>10. ASSUME NEW n \in Node, Drop(n) PROVE Typed'
  <2>1. missed[n] \cup {"drop"} \in SUBSET {"boot", "query", "drop"}
    OBVIOUS
  <2>2. missed' = [missed EXCEPT ![n] = missed[n] \cup {"drop"}]
    BY <1>10 DEF Drop
  <2>3. missed' \in [Node -> SUBSET {"boot", "query", "drop"}]
    BY <2>1, <2>2
  <2>4. inbox' \in [Node -> [Sub -> Nat]]
    <3>1. CASE UNCHANGED inbox
      BY <3>1
    <3>2. CASE inbox' = [inbox EXCEPT ![n] = [g \in Sub |-> 0]]
      <4>1. [g \in Sub |-> 0] \in [Sub -> Nat]
        OBVIOUS
      <4> QED
        BY <3>2, <4>1
    <3> QED
      BY <1>10, <3>1, <3>2 DEF Drop
  <2>5. bound' \in [Node -> SUBSET Nat] /\ up' \in [Node -> BOOLEAN]
    <3>1. bound' = [bound EXCEPT ![n] = {}] /\ up' = [up EXCEPT ![n] = FALSE]
      BY <1>10 DEF Drop
    <3> QED
      BY <3>1
  <2> QED
    BY <1>10, <2>3, <2>4, <2>5 DEF Drop
<1>11. ASSUME NEW n \in Node, Reestablish(n) PROVE Typed'
  <2>1. /\ up' = [up EXCEPT ![n] = TRUE] /\ UNCHANGED <<node, inbox, acc, reading, snap, missed>>
        /\ \/ /\ opened' = [opened EXCEPT ![n] = opened[n] + 1]
              /\ bound' = [bound EXCEPT ![n] = bound[n] \cup {opened[n] + 1}]
           \/ UNCHANGED <<opened, bound>>
    BY <1>11 DEF Reestablish, Open
  <2>2. opened' \in [Node -> Nat]
    <3>1. opened[n] + 1 \in Nat
      OBVIOUS
    <3>2. opened' = opened \/ opened' = [opened EXCEPT ![n] = opened[n] + 1]
      BY <2>1
    <3> QED
      BY <3>1, <3>2
  <2>3. bound' \in [Node -> SUBSET Nat]
    <3>1. bound[n] \cup {opened[n] + 1} \in SUBSET Nat
      OBVIOUS
    <3>2. bound' = bound \/ bound' = [bound EXCEPT ![n] = bound[n] \cup {opened[n] + 1}]
      BY <2>1
    <3> QED
      BY <3>1, <3>2
  <2>4. up' \in [Node -> BOOLEAN]
    <3>1. up' = [up EXCEPT ![n] = TRUE]
      BY <1>11 DEF Reestablish
    <3> QED
      BY <3>1
  <2> QED
    BY <1>11, <2>3, <2>4, <2>1, <2>2 DEF Reestablish
<1> QED
  BY <1>1, <1>2, <1>3, <1>4, <1>5, <1>6, <1>7, <1>8, <1>9, <1>10, <1>11
     DEF Next, ApiStep, NodeStep
-----------------------------------------------------------------------------
(* The Admin API.                                                          *)

\* A step of the API leaves the processes alone, but for what they are sent.
LEMMA ApiFrame ==
  ASSUME NEW n \in Node, Sound(n), nodeUnchanged, missed'[n] = {} => missed[n] = {},
         unsent => unsent'
  PROVE  /\ row' = row /\ inbox'[n] = inbox[n] /\ (~unsent' => (Coming(n) => Coming(n)'))
              => Sound(n)'
<1> SUFFICES ASSUME row' = row, inbox'[n] = inbox[n], ~unsent' => (Coming(n) => Coming(n)'),
                    missed'[n] = {}
             PROVE  Sound(n)'
  BY DEF Sound
<1>1. Undisturbed(n) /\ Ordered(n) /\ (~unsent => Fresh(n))
  BY DEF Sound
<1>2. Undisturbed(n)' /\ Ordered(n)'
  BY <1>1 DEF Undisturbed, Ordered, nodeUnchanged
<1>3. ~unsent' => Fresh(n)'
  BY <1>1 DEF Fresh, nodeUnchanged
<1> QED
  BY <1>2, <1>3 DEF Sound

LEMMA ApiKeeps ==
  ASSUME Typed, NEW n \in Node, Sound(n), ApiStep
  PROVE  Sound(n)'
<1>1. ASSUME NEW h \in Handler, NEW s \in Slice, Commit(h, s) PROVE Sound(n)'
  <2>1. Coming(n)'
    BY <1>1 DEF Commit, Typed, Coming
  <2>2. /\ nodeUnchanged /\ inbox' = inbox /\ missed' = missed /\ unsent' = unsent
        /\ \A r \in Slice : row[r] \in Nat /\ row'[r] \in Nat /\ row'[r] >= row[r]
    BY <1>1 DEF Commit, Typed
  <2>3. ASSUME missed[n] = {} PROVE Undisturbed(n)' /\ Ordered(n)'
    <3>1. Undisturbed(n) /\ Ordered(n)
      BY <2>3 DEF Sound
    <3>2. Undisturbed(n)'
      BY <2>2, <3>1 DEF Undisturbed, nodeUnchanged
    <3>3. \A r \in Slice : snap[n][r] \in Nat
      BY DEF Typed
    <3>4. ASSUME NEW g \in reading[n], NEW r \in 1..Len(acc[n][g])
          PROVE  acc[n][g][r] <= row'[r] /\ snap[n][r] <= acc[n][g][r]
      <4>1. /\ acc[n][g] \in Seq(Nat) /\ Len(acc[n][g]) <= NSlices /\ Len(acc[n][g]) \in Nat
        BY DEF Typed
      <4>2. r \in Slice /\ acc[n][g][r] \in Nat
        BY <4>1, Numbers DEF Slice
      <4> QED
        BY <2>2, <3>1, <4>2 DEF Ordered
    <3>5. Ordered(n)'
      BY <2>2, <3>1, <3>3, <3>4 DEF Ordered, nodeUnchanged
    <3> QED
      BY <3>2, <3>5
  <2> QED
    BY <2>1, <2>2, <2>3 DEF Sound, Fresh
<1>2. ASSUME NEW h \in Handler, TakeEpoch(h) PROVE Sound(n)'
  <2>1. /\ nodeUnchanged /\ row' = row /\ inbox' = inbox /\ missed' = missed
        /\ unsent => unsent'
    BY <1>2 DEF TakeEpoch
  <2>2. ~unsent' => Coming(n)'
    BY <1>2 DEF TakeEpoch, Coming, Typed
  <2> QED
    BY <2>1, <2>2, ApiFrame
<1>3. ASSUME NEW h \in Handler, Announce(h) PROVE Sound(n)'
  <2>1. nodeUnchanged /\ row' = row /\ (unsent => unsent')
    BY <1>3 DEF Announce
  <2>2. CASE unsent' /\ UNCHANGED <<inbox, missed>>
    BY <2>1, <2>2, ApiFrame
  <2>3. CASE FanOut /\ unsent' = unsent
    <3> SUFFICES ASSUME missed'[n] = {} PROVE Sound(n)'
      BY DEF Sound
    <3>1. /\ missed[n] = {} /\ ~(node[n] # "run" /\ bound[n] = {})
      BY <2>3 DEF FanOut
    <3>2. Undisturbed(n) /\ Ordered(n)
      BY <3>1 DEF Sound
    <3>3. node[n] = "run" /\ bound[n] = {1}
      BY <3>1, <3>2 DEF Undisturbed
    <3>4. inbox'[n][1] > 0 /\ \A g \in Sub : g # 1 => inbox'[n][g] = inbox[n][g]
      BY <2>3, <3>3, Numbers DEF FanOut, Typed
    <3>5. Undisturbed(n)'
      BY <2>1, <3>2, <3>3, <3>4 DEF Undisturbed, nodeUnchanged
    <3>6. Ordered(n)'
      BY <2>1, <3>2 DEF Ordered, nodeUnchanged
    <3> QED
      BY <3>4, <3>5, <3>6 DEF Sound, Fresh, Coming
  <2> QED
    BY <1>3, <2>2, <2>3 DEF Announce
<1>4. CASE ChannelLost \/ ChannelBack
  <2>1. /\ nodeUnchanged /\ row' = row /\ inbox' = inbox /\ missed' = missed
        /\ unsent' = unsent /\ api' = api
    BY <1>4 DEF ChannelLost, ChannelBack
  <2> QED
    BY <2>1, ApiFrame DEF Coming
<1> QED
  BY <1>1, <1>2, <1>3, <1>4 DEF ApiStep
-----------------------------------------------------------------------------
(* A process.                                                              *)

\* What another process does is not its business.
LEMMA NodeFrame ==
  ASSUME NEW n \in Node, Sound(n), apiUnchanged,
         node'[n] = node[n], up'[n] = up[n], opened'[n] = opened[n], inbox'[n] = inbox[n],
         bound'[n] = bound[n], acc'[n] = acc[n], reading'[n] = reading[n],
         snap'[n] = snap[n], missed'[n] = missed[n]
  PROVE  Sound(n)'
<1>1. Undisturbed(n)' = Undisturbed(n) /\ Ordered(n)' = Ordered(n)
  BY DEF Undisturbed, Ordered, apiUnchanged
<1>2. Fresh(n)' = Fresh(n)
  BY DEF Fresh, Coming, apiUnchanged
<1> QED
  BY <1>1, <1>2 DEF Sound, apiUnchanged

LEMMA OthersKeep ==
  ASSUME Typed, NEW n \in Node, Sound(n), NEW m \in Node, m # n, NodeStep(m)
  PROVE  Sound(n)'
<1>1. apiUnchanged
  BY DEF NodeStep, Load, Store, Receive, Register, Subscribe, Drop, Reestablish
<1>2. /\ node'[n] = node[n] /\ up'[n] = up[n] /\ opened'[n] = opened[n]
      /\ inbox'[n] = inbox[n] /\ bound'[n] = bound[n] /\ acc'[n] = acc[n]
      /\ reading'[n] = reading[n] /\ snap'[n] = snap[n] /\ missed'[n] = missed[n]
  BY DEF NodeStep, Load, Store, Receive, Register, Subscribe, Drop, Reestablish, Open, Typed
<1> QED
  BY <1>1, <1>2, NodeFrame

LEMMA ReadKeeps ==
  ASSUME Typed, NEW n \in Node, Sound(n), NEW g \in {0} \cup Sub, Load(n, g)
  PROVE  Sound(n)'
<1> SUFFICES ASSUME missed'[n] = {} PROVE Sound(n)'
  BY DEF Sound
<1> DEFINE q == acc[n][g]
           k == Len(q) + 1
<1>1. /\ g \in reading[n] /\ q \in Seq(Nat) /\ Len(q) \in Nat /\ Len(q) < NSlices
      /\ g \in Reader /\ k \in Slice
  BY Numbers DEF Load, Reader, Typed, Slice
<1>2. missed[n] = {} /\ acc' = [acc EXCEPT ![n][g] = Append(q, row[k])]
  <2>1. CASE missed' = [missed EXCEPT ![n] = @ \cup {"query"}]
    <3>1. missed'[n] = missed[n] \cup {"query"}
      BY <2>1 DEF Typed
    <3> QED
      BY <3>1
  <2>2. CASE UNCHANGED missed /\ acc' = [acc EXCEPT ![n][g] = Append(q, row[k])]
    BY <2>2
  <2> QED
    BY <2>1, <2>2 DEF Load
<1>3. /\ apiUnchanged /\ UNCHANGED <<node, up, opened, inbox, bound, reading, snap>>
      /\ acc'[n][g] = Append(q, row[k])
      /\ \A r \in Reader : r # g => acc'[n][r] = acc[n][r]
  BY <1>1, <1>2 DEF Load, Typed
<1>4. Undisturbed(n) /\ Ordered(n) /\ (~unsent => Fresh(n))
  BY <1>2 DEF Sound
<1>5. Undisturbed(n)'
  BY <1>1, <1>3, <1>4 DEF Undisturbed
<1>6. /\ row[k] \in Nat /\ Len(Append(q, row[k])) = Len(q) + 1
      /\ \A s \in 1..Len(q) : Append(q, row[k])[s] = q[s]
      /\ Append(q, row[k])[k] = row[k]
  BY <1>1, AppendFacts DEF Typed
<1> DEFINE q2 == Append(q, row[k])
<1> HIDE DEF k, q2
<1>7. \A s \in 1..Len(q2) : s \in 1..Len(q) \/ s = k
  BY <1>1, <1>6 DEF k, q2
<1>8. /\ \A r \in reading[n] : r \in Reader
      /\ \A s \in 1..Len(q) : q2[s] = q[s]
      /\ q2[k] = row[k] /\ acc'[n][g] = q2 /\ k \in Slice
  BY <1>1, <1>3, <1>6 DEF q2, Typed
<1>9. Ordered(n)'
  <2>1. ASSUME NEW r \in reading[n], NEW s \in 1..Len(acc'[n][r])
        PROVE  snap[n][s] <= acc'[n][r][s] /\ acc'[n][r][s] <= row[s]
    <3>1. CASE r # g
      BY <1>3, <1>4, <1>8, <2>1, <3>1 DEF Ordered
    <3>2. CASE r = g /\ s \in 1..Len(q)
      BY <1>1, <1>4, <1>8, <2>1, <3>2 DEF Ordered
    <3>3. CASE r = g /\ s = k
      BY <1>4, <1>6, <1>8, <3>3 DEF Ordered
    <3> QED
      BY <1>7, <1>8, <2>1, <3>1, <3>2, <3>3
  <2> QED
    BY <1>3, <1>4, <2>1 DEF Ordered, apiUnchanged
<1>10. ASSUME ~unsent' PROVE Fresh(n)'
  <2> SUFFICES ASSUME ~Coming(n)' PROVE Fresh(n)'
    BY DEF Fresh
  <2>1. Fresh(n) /\ ~Coming(n) /\ reading[n] # {}
    BY <1>1, <1>3, <1>4, <1>10 DEF Coming, apiUnchanged
  <2>2. ASSUME NEW r \in reading[n], NEW s \in 1..Len(acc'[n][r])
        PROVE  acc'[n][r][s] = row[s]
    <3>1. CASE r # g
      BY <1>3, <1>8, <2>1, <2>2, <3>1 DEF Fresh
    <3>2. CASE r = g /\ s \in 1..Len(q)
      BY <1>1, <1>8, <2>1, <2>2, <3>2 DEF Fresh
    <3>3. CASE r = g /\ s = k
      BY <1>8, <3>3
    <3> QED
      BY <1>7, <1>8, <2>2, <3>1, <3>2, <3>3
  <2> QED
    BY <1>3, <2>1, <2>2 DEF Fresh, apiUnchanged
<1> QED
  BY <1>5, <1>9, <1>10 DEF Sound

\* What the only reader of an undisturbed process stores is a snapshot, no older than the
\* one it replaces.
LEMMA StoreFacts ==
  ASSUME Typed, NEW n \in Node, Undisturbed(n), Ordered(n),
         NEW g \in {0} \cup Sub, Store(n, g)
  PROVE  /\ reading[n] = {g} /\ reading'[n] = {} /\ acc[n][g] \in [Slice -> Nat]
         /\ node[n] = "boot" <=> g = 0
         /\ node[n] \in {"boot", "run"}
         /\ snap'[n] = acc[n][g] /\ Len(acc[n][g]) = NSlices
         /\ \A s \in Slice : snap[n][s] <= acc[n][g][s] /\ acc[n][g][s] <= row[s]
<1>1. g \in reading[n] /\ Len(acc[n][g]) = NSlices /\ g \in Reader
  BY DEF Store, Reader
<1>2. acc[n][g] \in [Slice -> Nat]
  BY <1>1, SnapshotFacts DEF Typed
<1>3. /\ reading[n] = {g} /\ (node[n] = "boot" <=> g = 0) /\ node[n] \in {"boot", "run"}
  BY <1>1, Numbers DEF Undisturbed, Typed
<1>4. reading'[n] = {} /\ snap'[n] = acc[n][g]
  BY <1>3 DEF Store, Typed
<1>5. \A s \in Slice : snap[n][s] <= acc[n][g][s] /\ acc[n][g][s] <= row[s]
  BY <1>1 DEF Ordered, Slice
<1> QED
  BY <1>1, <1>2, <1>3, <1>4, <1>5

LEMMA StoreKeeps ==
  ASSUME Typed, NEW n \in Node, Sound(n), NEW g \in {0} \cup Sub, Store(n, g)
  PROVE  Sound(n)'
<1> SUFFICES ASSUME missed'[n] = {} PROVE Sound(n)'
  BY DEF Sound
<1>1. /\ apiUnchanged /\ UNCHANGED <<up, opened, inbox, bound, missed>> /\ g \in Reader
      /\ acc'[n][g] = <<>> /\ \A r \in Reader : r # g => acc'[n][r] = acc[n][r]
      /\ node'[n] = IF g = 0 THEN "built" ELSE node[n]
  BY DEF Store, Typed, Reader
<1>2. Undisturbed(n) /\ Ordered(n) /\ (~unsent => Fresh(n))
  BY <1>1 DEF Sound
<1>3. /\ reading[n] = {g} /\ reading'[n] = {} /\ (node[n] = "boot" <=> g = 0)
      /\ node[n] \in {"boot", "run"} /\ snap'[n] = acc[n][g] /\ Len(acc[n][g]) = NSlices
      /\ \A s \in Slice : snap[n][s] <= acc[n][g][s] /\ acc[n][g][s] <= row[s]
  BY <1>2, StoreFacts
<1>4. Undisturbed(n)'
  BY <1>1, <1>2, <1>3 DEF Undisturbed
<1>5. Ordered(n)'
  BY <1>1, <1>3 DEF Ordered, apiUnchanged
<1>6. ASSUME ~unsent' PROVE Fresh(n)'
  <2>1. ~Coming(n)' => ~Coming(n)
    BY <1>1 DEF Coming, apiUnchanged
  <2>2. Fresh(n)
    BY <1>1, <1>2, <1>6 DEF apiUnchanged
  <2>3. ~Coming(n) => \A s \in Slice : acc[n][g][s] = row[s]
    BY <1>3, <2>2 DEF Fresh, Slice
  <2> QED
    BY <1>1, <1>3, <2>1, <2>3 DEF Fresh, apiUnchanged
<1> QED
  BY <1>4, <1>5, <1>6 DEF Sound

LEMMA ReceiveKeeps ==
  ASSUME Typed, NEW n \in Node, Sound(n), NEW g \in Sub, Receive(n, g)
  PROVE  Sound(n)'
<1> SUFFICES ASSUME missed'[n] = {} PROVE Sound(n)'
  BY DEF Sound
<1>1. /\ apiUnchanged /\ UNCHANGED <<node, up, opened, bound, acc, snap, missed>>
      /\ inbox[n][g] > 0 /\ g \notin reading[n] /\ reading'[n] = reading[n] \cup {g}
      /\ \A r \in Sub : r # g => inbox'[n][r] = inbox[n][r]
  BY DEF Receive, Typed
<1>2. Undisturbed(n) /\ Ordered(n)
  BY <1>1 DEF Sound
<1>3. g = 1 /\ node[n] = "run" /\ reading'[n] = {1} /\ acc[n][1] = <<>>
  BY <1>1, <1>2, Numbers DEF Undisturbed, Typed
<1>4. Undisturbed(n)'
  BY <1>1, <1>2, <1>3 DEF Undisturbed
<1>5. acc'[n][1] = <<>> /\ 1..Len(<<>>) = {}
  BY <1>1, <1>3
<1>6. Ordered(n)'
  BY <1>1, <1>2, <1>3, <1>5 DEF Ordered, apiUnchanged
<1>7. Fresh(n)'
  BY <1>3, <1>5 DEF Fresh
<1> QED
  BY <1>4, <1>6, <1>7 DEF Sound

LEMMA NodeKeeps ==
  ASSUME Typed, NEW n \in Node, Sound(n), NodeStep(n)
  PROVE  Sound(n)'
<1>1. ASSUME NEW g \in {0} \cup Sub, Load(n, g) \/ Store(n, g) PROVE Sound(n)'
  BY <1>1, ReadKeeps, StoreKeeps
<1>2. ASSUME NEW g \in Sub, Receive(n, g) PROVE Sound(n)'
  BY <1>2, ReceiveKeeps
<1>3. ASSUME missed[n] = {}, missed'[n] = {},
             Register(n) \/ Subscribe(n) \/ Drop(n) \/ Reestablish(n)
      PROVE  Sound(n)'
  <2>1. Undisturbed(n) /\ Ordered(n) /\ (~unsent => Fresh(n))
    BY <1>3 DEF Sound
  <2>2. Register(n) \/ (Subscribe(n) /\ up[n])
    <3>1. ASSUME Drop(n) PROVE FALSE
      <4>1. missed'[n] = missed[n] \cup {"drop"}
        BY <3>1 DEF Drop, Typed
      <4> QED
        BY <1>3, <4>1
    <3>2. up[n]
      BY <2>1 DEF Undisturbed
    <3> QED
      BY <1>3, <3>1, <3>2 DEF Reestablish, Subscribe
  <2>3. /\ apiUnchanged /\ UNCHANGED <<up, inbox, acc, reading, snap>>
    BY <2>2 DEF Register, Subscribe
  <2>4. ASSUME Register(n) PROVE Undisturbed(n)'
    <3>1. UNCHANGED <<opened, bound>> /\ node[n] = "built" /\ node'[n] = "registered"
      BY <2>4 DEF Register, Typed
    <3> QED
      BY <2>1, <2>3, <3>1 DEF Undisturbed
  <2>5. ASSUME Subscribe(n), up[n] PROVE Undisturbed(n)'
    <3>1. /\ node[n] = "registered" /\ node'[n] = "run" /\ opened'[n] = opened[n] + 1
          /\ bound'[n] = bound[n] \cup {opened[n] + 1}
      BY <2>5 DEF Subscribe, Open, Typed
    <3>2. opened'[n] = 1 /\ bound'[n] = {1} /\ reading'[n] = {}
      BY <2>1, <2>3, <3>1 DEF Undisturbed
    <3> QED
      BY <2>1, <2>3, <3>1, <3>2 DEF Undisturbed
  <2>6. Undisturbed(n)'
    BY <2>2, <2>4, <2>5
  <2>7. Ordered(n)' /\ (~unsent' => Fresh(n)')
    BY <2>1, <2>3 DEF Ordered, Fresh, Coming, apiUnchanged
  <2> QED
    BY <2>6, <2>7 DEF Sound
<1>4. ASSUME Register(n) \/ Subscribe(n) \/ Drop(n) \/ Reestablish(n) PROVE Sound(n)'
  <2>1. missed'[n] = {} => missed[n] = {}
    BY <1>4 DEF Register, Subscribe, Drop, Reestablish, Typed
  <2> QED
    BY <1>3, <1>4, <2>1 DEF Sound
<1> QED
  BY <1>1, <1>2, <1>4 DEF NodeStep

LEMMA StepHolds == IInv /\ [Next]_vars => IInv'
<1> SUFFICES ASSUME IInv, [Next]_vars PROVE IInv'
  OBVIOUS
<1>1. Typed' /\ Typed
  BY TypedStep DEF IInv
<1>2. ASSUME NEW n \in Node PROVE Sound(n)'
  <2>0. Sound(n)
    BY DEF IInv
  <2>1. CASE ApiStep
    BY <1>1, <2>0, <2>1, ApiKeeps
  <2>2. ASSUME NEW m \in Node, NodeStep(m) PROVE Sound(n)'
    BY <1>1, <2>0, <2>2, NodeKeeps, OthersKeep
  <2>3. CASE UNCHANGED vars
    BY <2>0, <2>3, NodeFrame DEF vars, apiUnchanged
  <2> QED
    BY <2>1, <2>2, <2>3 DEF Next
<1> QED
  BY <1>1, <1>2 DEF IInv

\* The API and the processes keep the invariant however changes and reloads overlap.
THEOREM ReloadInvariantHolds == Spec => []IInv
<1> QED
  BY InitHolds, StepHolds, PTL DEF Spec
-----------------------------------------------------------------------------
\* A process that missed nothing has the configuration of the database once every change is
\* announced and every event handled: no change falls between two reloads.
THEOREM CatchesUpHolds == Spec => []CatchesUp
<1>1. IInv => CatchesUp
  <2> SUFFICES ASSUME IInv, NEW n \in Node, AtRest(n), missed[n] = {}, ~unsent
               PROVE  snap[n] = row
    BY DEF CatchesUp
  <2>1. Typed /\ Fresh(n)
    BY DEF IInv, Sound
  <2>2. ~Coming(n) /\ reading[n] = {}
    BY Numbers DEF AtRest, Coming
  <2>3. \A s \in Slice : snap[n][s] = row[s]
    BY <2>1, <2>2 DEF Fresh
  <2> QED
    BY <2>1, <2>3 DEF Typed
<1> QED
  BY <1>1, ReloadInvariantHolds, PTL

\* Why a process may be behind is never forgotten.
LEMMA ForgetsNothing ==
  ASSUME Typed, Next, NEW n \in Node, missed'[n] = {}
  PROVE  missed[n] = {}
<1>1. CASE ApiStep
  BY <1>1 DEF ApiStep, Commit, TakeEpoch, Announce, ChannelLost, ChannelBack, FanOut
<1>2. ASSUME NEW m \in Node, NodeStep(m) PROVE missed[n] = {}
  <2>1. \/ missed' = missed
        \/ \E why \in {"query", "drop"} : missed' = [missed EXCEPT ![m] = missed[m] \cup {why}]
    BY <1>2 DEF NodeStep, Load, Store, Receive, Register, Subscribe, Drop, Reestablish
  <2>2. ASSUME NEW why \in {"query", "drop"},
               missed' = [missed EXCEPT ![m] = missed[m] \cup {why}]
        PROVE  missed[n] = {}
    <3>1. missed \in [Node -> SUBSET {"boot", "query", "drop"}]
      BY DEF Typed
    <3>2. CASE n = m
      <4>1. missed'[n] = missed[n] \cup {why}
        BY <2>2, <3>1, <3>2
      <4> QED
        BY <4>1
    <3>3. CASE n # m
      BY <2>2, <3>1, <3>3
    <3> QED
      BY <3>2, <3>3
  <2> QED
    BY <2>1, <2>2
<1> QED
  BY <1>1, <1>2 DEF Next

\* No reload of such a process replaces a slice by an older version of it.
THEOREM NeverGoesBackHolds == Spec => NeverGoesBack
<1> DEFINE NoStepBack ==
      \A n \in Node : missed'[n] = {} => \A s \in Slice : snap'[n][s] >= snap[n][s]
<1>1. IInv /\ [Next]_vars => [NoStepBack]_vars
  <2> SUFFICES ASSUME IInv, Next, NEW n \in Node, missed'[n] = {}, NEW s \in Slice
               PROVE  snap'[n][s] >= snap[n][s]
    OBVIOUS
  <2>0. Typed /\ Sound(n) /\ snap[n][s] \in Nat /\ snap[n][s] >= snap[n][s]
    BY DEF IInv, Typed
  <2>1. missed[n] = {}
    BY <2>0, ForgetsNothing
  <2>2. Undisturbed(n) /\ Ordered(n)
    BY <2>0, <2>1 DEF Sound
  <2>3. CASE snap'[n] = snap[n]
    BY <2>0, <2>3
  <2>4. ASSUME NEW g \in {0} \cup Sub, Store(n, g) PROVE snap'[n][s] >= snap[n][s]
    <3>1. /\ snap'[n] = acc[n][g] /\ acc[n][g] \in [Slice -> Nat]
          /\ snap[n][s] <= acc[n][g][s]
      BY <2>0, <2>2, <2>4, StoreFacts
    <3> QED
      BY <2>0, <3>1
  <2>5. snap'[n] = snap[n] \/ \E g \in {0} \cup Sub : Store(n, g)
    <3>1. CASE ApiStep
      BY <3>1 DEF ApiStep, Commit, TakeEpoch, Announce, ChannelLost, ChannelBack, nodeUnchanged
    <3>2. ASSUME NEW m \in Node, NodeStep(m), m # n PROVE snap'[n] = snap[n]
      BY <2>0, <3>2 DEF NodeStep, Load, Store, Receive, Register, Subscribe, Drop,
                        Reestablish, Typed
    <3>3. CASE NodeStep(n)
      BY <2>0, <2>2, <3>3 DEF NodeStep, Load, Receive, Register, Subscribe, Drop,
                              Reestablish, Undisturbed
    <3> QED
      BY <3>1, <3>2, <3>3 DEF Next
  <2> QED
    BY <2>3, <2>4, <2>5
<1> QED
  BY <1>1, ReloadInvariantHolds, PTL DEF Spec, NeverGoesBack
-----------------------------------------------------------------------------
(* The routing index. *)

\* A rule list is a sequence of rules, by descending priority.
LEMMA RulesFacts ==
  ASSUME TypeOK
  PROVE  /\ Len(rules) \in Nat
         /\ \A k \in 1..Len(rules) :
               /\ rules[k].recipient \in Domain /\ rules[k].sender \in Domain
               /\ rules[k].chain \in Seq(Provider) /\ rules[k].priority \in Nat
         /\ \A j, k \in 1..Len(rules) : j <= k => rules[j].priority >= rules[k].priority
<1>1. rules \in Seq(Rule)
  BY RuleListsAssumption DEF TypeOK
<1>2. Len(rules) \in Nat /\ \A k \in 1..Len(rules) : rules[k] \in Rule
  BY <1>1
<1>3. \A r \in Rule : /\ r.recipient \in Domain /\ r.sender \in Domain
                      /\ r.chain \in Seq(Provider) /\ r.priority \in Nat
  BY DEF Rule
<1>4. \A j, k \in 1..Len(rules) : j <= k => rules[j].priority >= rules[k].priority
  BY RuleListsAssumption DEF TypeOK
<1> QED
  BY <1>2, <1>3, <1>4

LEMMA TypeInit == IndexInit => TypeOK
  <1> SUFFICES ASSUME IndexInit PROVE TypeOK
    OBVIOUS
  <1>1. Len(rules) \in Nat
    BY RuleListsAssumption DEF IndexInit
  <1> QED
    BY <1>1 DEF IndexInit, TypeOK

LEMMA TypeNext ==
  ASSUME TypeOK, IndexNext
  PROVE  TypeOK'
<1> USE RulesFacts
<1>1. /\ rules' = rules /\ i' = i + 1 /\ i \in 1..Len(rules)
  BY DEF IndexNext, TypeOK
<1>2. rules[i].chain \in Seq(Provider)
  BY <1>1
<1>3. recipient' \in [Domain -> Seq(Provider)]
  BY <1>2 DEF IndexNext, TypeOK, Skip, IndexRecipient, IndexSender, IndexDefault, PutNew
<1>4. sender' \in [Domain -> Seq(Provider)]
  BY <1>2 DEF IndexNext, TypeOK, Skip, IndexRecipient, IndexSender, IndexDefault, PutNew
<1>5. def' \in Seq(Provider)
  BY <1>2 DEF IndexNext, TypeOK, Skip, IndexRecipient, IndexSender, IndexDefault
<1> QED
  BY <1>1, <1>3, <1>4, <1>5 DEF TypeOK

LEMMA LoopInit == IndexInit => LoopInv
  <1> SUFFICES ASSUME IndexInit PROVE LoopInv
    OBVIOUS
  <1>1. Seen = {}
    BY DEF IndexInit, Seen
  <1> QED
    BY <1>1, LowerAssumption DEF IndexInit, LoopInv

\* One more rule has been seen.
LEMMA SeenNext ==
  ASSUME TypeOK, IndexNext
  PROVE  /\ rules' = rules /\ i \in 1..Len(rules) /\ i \notin Seen /\ Seen' = Seen \cup {i}
         /\ Seen \subseteq 1..Len(rules) /\ \A j \in Seen : j < i
  BY RulesFacts DEF IndexNext, TypeOK, Seen

\* What a step does to an index: unless rule i is for key(d), the entry stays;
\* if it is, the entry is made unless there was one.
LEMMA StepRecipient ==
  ASSUME TypeOK, IndexNext, NEW d \in Domain
  PROVE  recipient'[Lower(d)] =
           IF i \in RecipientRules(d) /\ recipient[Lower(d)] = <<>>
           THEN rules[i].chain ELSE recipient[Lower(d)]
  BY SeenNext, RulesFacts, LowerAssumption
     DEF IndexNext, TypeOK, Skip, IndexRecipient, IndexSender, IndexDefault, PutNew, RecipientRules

LEMMA StepSender ==
  ASSUME TypeOK, IndexNext, NEW d \in Domain
  PROVE  sender'[Lower(d)] =
           IF i \in SenderRules(d) /\ sender[Lower(d)] = <<>>
           THEN rules[i].chain ELSE sender[Lower(d)]
  BY SeenNext, RulesFacts, LowerAssumption
     DEF IndexNext, TypeOK, Skip, IndexRecipient, IndexSender, IndexDefault, PutNew, SenderRules

LEMMA StepDefault ==
  ASSUME TypeOK, IndexNext
  PROVE  def' = IF i \in DefaultRules /\ def = <<>> THEN rules[i].chain ELSE def
  BY SeenNext, RulesFacts
     DEF IndexNext, TypeOK, Skip, IndexRecipient, IndexSender, IndexDefault, DefaultRules

\* An entry made from an indexed rule is not empty.
LEMMA NotEmpty ==
  \A k \in 1..Len(rules) : Indexed(rules[k]) => rules[k].chain # <<>>
  BY DEF Indexed

LEMMA LoopNext ==
  ASSUME TypeOK, LoopInv, IndexNext
  PROVE  LoopInv'
<1> USE SeenNext, NotEmpty
<1>1. ASSUME NEW d \in Domain
      PROVE  (IF RecipientRules(d) \cap Seen = {} THEN recipient[Lower(d)] = <<>>
              ELSE \E k \in 1..Len(rules) : /\ FirstOf(k, RecipientRules(d))
                                            /\ recipient[Lower(d)] = rules[k].chain)'
  <2>1. RecipientRules(d)' = RecipientRules(d)
    BY DEF RecipientRules
  <2>2. \A k \in RecipientRules(d) : k \in 1..Len(rules) /\ rules[k].chain # <<>>
    BY DEF RecipientRules, Indexed
  <2>3. IF RecipientRules(d) \cap Seen = {} THEN recipient[Lower(d)] = <<>>
        ELSE \E k \in 1..Len(rules) : /\ FirstOf(k, RecipientRules(d))
                                      /\ recipient[Lower(d)] = rules[k].chain
    BY DEF LoopInv
  <2> QED
    BY <2>1, <2>2, <2>3, StepRecipient DEF FirstOf
<1>2. ASSUME NEW d \in Domain
      PROVE  (IF SenderRules(d) \cap Seen = {} THEN sender[Lower(d)] = <<>>
              ELSE \E k \in 1..Len(rules) : /\ FirstOf(k, SenderRules(d))
                                            /\ sender[Lower(d)] = rules[k].chain)'
  <2>1. SenderRules(d)' = SenderRules(d)
    BY DEF SenderRules
  <2>2. \A k \in SenderRules(d) : k \in 1..Len(rules) /\ rules[k].chain # <<>>
    BY DEF SenderRules, Indexed
  <2>3. IF SenderRules(d) \cap Seen = {} THEN sender[Lower(d)] = <<>>
        ELSE \E k \in 1..Len(rules) : /\ FirstOf(k, SenderRules(d))
                                      /\ sender[Lower(d)] = rules[k].chain
    BY DEF LoopInv
  <2> QED
    BY <2>1, <2>2, <2>3, StepSender DEF FirstOf
<1>3. (IF DefaultRules \cap Seen = {} THEN def = <<>>
       ELSE \E k \in 1..Len(rules) : FirstOf(k, DefaultRules) /\ def = rules[k].chain)'
  <2>1. DefaultRules' = DefaultRules
    BY DEF DefaultRules
  <2>2. \A k \in DefaultRules : k \in 1..Len(rules) /\ rules[k].chain # <<>>
    BY DEF DefaultRules, Indexed
  <2>3. IF DefaultRules \cap Seen = {} THEN def = <<>>
        ELSE \E k \in 1..Len(rules) : FirstOf(k, DefaultRules) /\ def = rules[k].chain
    BY DEF LoopInv
  <2> QED
    BY <2>1, <2>2, <2>3, StepDefault DEF FirstOf
<1> QED
  BY <1>1, <1>2, <1>3 DEF LoopInv

\* The first rule of a class has its highest priority.
LEMMA FirstIsHighest ==
  ASSUME TypeOK, Built, NEW ks \in SUBSET (1..Len(rules)), NEW k, FirstOf(k, ks)
  PROVE  k \in ks /\ \A j \in ks : rules[j].priority <= rules[k].priority
<1>1. ks \subseteq Seen
  BY RulesFacts DEF Built, Seen, TypeOK
<1> QED
  BY <1>1, RulesFacts DEF FirstOf

LEMMA InvariantImpliesPrecedence ==
  ASSUME TypeOK, LoopInv
  PROVE  Precedence
<1> SUFFICES ASSUME Built, NEW rcpt \in Domain, NEW from \in Domain
             PROVE  LET cand == Candidates(rcpt, from) IN
                    IF cand = {} THEN Resolve(rcpt, from) = <<>>
                    ELSE \E k \in cand :
                           /\ Resolve(rcpt, from) = rules[k].chain
                           /\ \A j \in cand : rules[j].priority <= rules[k].priority
  BY DEF Precedence
<1>0. /\ RecipientRules(rcpt) \subseteq 1..Len(rules) /\ RecipientRules(rcpt) \cap Seen = RecipientRules(rcpt)
      /\ SenderRules(from) \subseteq 1..Len(rules) /\ SenderRules(from) \cap Seen = SenderRules(from)
      /\ DefaultRules \subseteq 1..Len(rules) /\ DefaultRules \cap Seen = DefaultRules
  BY RulesFacts DEF RecipientRules, SenderRules, DefaultRules, Built, Seen, TypeOK
<1>1. /\ \A k \in RecipientRules(rcpt) : rules[k].chain # <<>>
      /\ \A k \in SenderRules(from) : rules[k].chain # <<>>
  BY DEF RecipientRules, SenderRules, Indexed
<1>2. CASE RecipientRules(rcpt) # {}
  <2>1. PICK k \in 1..Len(rules) : FirstOf(k, RecipientRules(rcpt)) /\ recipient[Lower(rcpt)] = rules[k].chain
    BY <1>0, <1>2 DEF LoopInv
  <2>2. k \in RecipientRules(rcpt)
        /\ \A j \in RecipientRules(rcpt) : rules[j].priority <= rules[k].priority
    BY <1>0, <2>1, FirstIsHighest
  <2> QED
    BY <1>1, <1>2, <2>1, <2>2 DEF Candidates, Resolve
<1>3. CASE RecipientRules(rcpt) = {} /\ SenderRules(from) # {}
  <2>0. recipient[Lower(rcpt)] = <<>>
    BY <1>0, <1>3 DEF LoopInv
  <2>1. PICK k \in 1..Len(rules) : FirstOf(k, SenderRules(from)) /\ sender[Lower(from)] = rules[k].chain
    BY <1>0, <1>3 DEF LoopInv
  <2>2. k \in SenderRules(from)
        /\ \A j \in SenderRules(from) : rules[j].priority <= rules[k].priority
    BY <1>0, <2>1, FirstIsHighest
  <2> QED
    BY <1>1, <1>3, <2>0, <2>1, <2>2 DEF Candidates, Resolve
<1>4. CASE RecipientRules(rcpt) = {} /\ SenderRules(from) = {}
  <2>0. recipient[Lower(rcpt)] = <<>> /\ sender[Lower(from)] = <<>>
    BY <1>0, <1>4 DEF LoopInv
  <2>1. CASE DefaultRules = {}
    BY <1>0, <1>4, <2>0, <2>1 DEF LoopInv, Candidates, Resolve
  <2>2. CASE DefaultRules # {}
    <3>1. PICK k \in 1..Len(rules) : FirstOf(k, DefaultRules) /\ def = rules[k].chain
      BY <1>0, <2>2 DEF LoopInv
    <3>2. k \in DefaultRules /\ \A j \in DefaultRules : rules[j].priority <= rules[k].priority
      BY <1>0, <3>1, FirstIsHighest
    <3> QED
      BY <1>4, <2>0, <3>1, <3>2 DEF Candidates, Resolve
  <2> QED
    BY <2>1, <2>2
<1> QED
  BY <1>2, <1>3, <1>4

\* Every finished engine resolves every message by the documented precedence:
\* Build's single pass with its first-rule-wins maps loses no rule it should keep.
THEOREM PrecedenceHolds == IndexSpec => []Precedence
<1>1. IndexInit => TypeOK /\ LoopInv
  BY TypeInit, LoopInit
<1>2. TypeOK /\ LoopInv /\ [IndexNext]_indexVars => (TypeOK /\ LoopInv)'
  <2>1. ASSUME TypeOK, LoopInv, IndexNext PROVE (TypeOK /\ LoopInv)'
    BY <2>1, TypeNext, LoopNext
  <2>2. ASSUME TypeOK, LoopInv, UNCHANGED indexVars PROVE (TypeOK /\ LoopInv)'
    BY <2>2 DEF indexVars, TypeOK, LoopInv, Seen, FirstOf, RecipientRules, SenderRules, DefaultRules
  <2> QED
    BY <2>1, <2>2
<1>3. TypeOK /\ LoopInv => Precedence
  BY InvariantImpliesPrecedence
<1> QED
  BY <1>1, <1>2, <1>3, PTL DEF IndexSpec
-----------------------------------------------------------------------------
(* The token buckets. *)

Reserved(l, b) == {a \in Caller : at[a] = b /\ using[a] = l}

\* The reservations that may be used by now.
Earned(l, b) == {a \in Reserved(l, b) : timeToAct[a] <= now}

LimitTyped ==
    /\ now \in Nat /\ current \in Limiter /\ specs \in [Limiter -> SUBSET Bucket]
    /\ built \in [Limiter -> Nat] /\ tokens \in [Limiter -> [Bucket -> Int]]
    /\ lastEvent \in [Limiter -> [Bucket -> Int]] /\ admitted \in [Limiter -> [Bucket -> Nat]]
    /\ pc \in [Caller -> {"rest", "loaded", "act", "wait", "cancel"}]
    /\ using \in [Caller -> Limiter] /\ at \in [Caller -> Bucket \cup {None}]
    /\ timeToAct \in [Caller -> Int]

\* A caller has a reservation until it acts or gives it back, and acts when it is due.
Holding ==
    /\ \A a \in Caller : at[a] # None <=> pc[a] \in {"act", "wait", "cancel"}
    /\ \A a \in Caller : pc[a] = "act" => timeToAct[a] <= now

\* A limiter that is still to be built has no users and no past.
Unbuilt ==
    /\ \A a \in Caller : using[a] <= current
    /\ \A l \in Limiter, b \in Bucket : l > current => admitted[l][b] = 0 /\ lastEvent[l][b] = 0

\* Reservations that are still to come stand in line, each at a moment of its own; the
\* bucket owes exactly what is between now and the last of them.
InLine(l, b) ==
    /\ lastEvent[l][b] > now => lastEvent[l][b] = now - tokens[l][b]
    /\ \A a \in Reserved(l, b) : timeToAct[a] >= now => timeToAct[a] <= lastEvent[l][b]
    /\ \A a, c \in Reserved(l, b) : a # c /\ timeToAct[a] = timeToAct[c] => timeToAct[a] <= now

\* Conserved, and Paced with the reservations that may be used at any moment.
Balanced(l, b) ==
    /\ IsFiniteSet(Reserved(l, b))
    /\ admitted[l][b] + Cardinality(Reserved(l, b)) + tokens[l][b] <= Burst + now - built[l]
    /\ admitted[l][b] + Cardinality(Earned(l, b)) <= Burst + now - built[l]

Book(l, b) == InLine(l, b) /\ Balanced(l, b)

LimitInv == LimitTyped /\ Holding /\ Unbuilt /\ \A l \in Limiter, b \in Bucket : Book(l, b)
-----------------------------------------------------------------------------
LEMMA LimitInitHolds == LimitInit => LimitInv
<1> SUFFICES ASSUME LimitInit PROVE LimitInv
  OBVIOUS
<1> USE LimitAssumption DEF LimitInit
<1>1. LimitTyped
  <2>1. 0 \in Limiter
    BY DEF Limiter
  <2>2. specs \in [Limiter -> SUBSET Bucket]
    BY DEF Bucket
  <2> QED
    BY <2>1, <2>2 DEF LimitTyped
<1>2. Holding
  BY DEF Holding
<1>3. Unbuilt
  BY DEF Unbuilt, Limiter
<1>4. ASSUME NEW l \in Limiter, NEW b \in Bucket PROVE Book(l, b)
  <2>1. Reserved(l, b) = {} /\ Earned(l, b) = {}
    BY <1>4 DEF Reserved, Earned, Bucket
  <2>2. InLine(l, b)
    BY <1>4, <2>1 DEF InLine
  <2>3. Balanced(l, b)
    BY <1>4, <2>1, FS_EmptySet DEF Balanced
  <2> QED
    BY <2>2, <2>3 DEF Book
<1> QED
  BY <1>1, <1>2, <1>3, <1>4 DEF LimitInv

\* What a reservation is, and how many are early.
LEMMA Counts ==
  ASSUME LimitTyped, NEW l \in Limiter, NEW b \in Bucket, Book(l, b)
  PROVE  /\ Earned(l, b) \subseteq Reserved(l, b) /\ IsFiniteSet(Earned(l, b))
         /\ Cardinality(Earned(l, b)) \in Nat /\ Cardinality(Reserved(l, b)) \in Nat
         /\ Cardinality(Earned(l, b)) <= Cardinality(Reserved(l, b))
<1>1. Earned(l, b) \in SUBSET Reserved(l, b) /\ IsFiniteSet(Reserved(l, b))
  BY DEF Earned, Book, Balanced
<1>2. IsFiniteSet(Earned(l, b)) /\ Cardinality(Earned(l, b)) <= Cardinality(Reserved(l, b))
  BY <1>1, FS_Subset
<1> QED
  BY <1>1, <1>2, FS_CardinalityType

\* A bucket nobody touches keeps its book.
LEMMA Frame ==
  ASSUME NEW l \in Limiter, NEW b \in Bucket, Book(l, b),
         now' = now, built'[l] = built[l], Reserved(l, b)' = Reserved(l, b),
         \A a \in Reserved(l, b) : timeToAct'[a] = timeToAct[a],
         tokens'[l][b] = tokens[l][b], lastEvent'[l][b] = lastEvent[l][b],
         admitted'[l][b] = admitted[l][b]
  PROVE  Book(l, b)'
<1>1. Earned(l, b)' = Earned(l, b)
  BY DEF Earned
<1>2. InLine(l, b)'
  BY DEF Book, InLine
<1>3. Balanced(l, b)'
  BY <1>1 DEF Book, Balanced
<1> QED
  BY <1>2, <1>3 DEF Book

LEMMA LimitTypedStep == LimitTyped /\ Holding /\ [LimitNext]_limitVars => LimitTyped'
<1> SUFFICES ASSUME LimitTyped, Holding, [LimitNext]_limitVars PROVE LimitTyped'
  OBVIOUS
<1> USE LimitAssumption DEF LimitTyped, Goto, Finish, buckets
<1>1. ASSUME NEW a \in Caller, LoadLimiter(a) \/ Wake(a) \/ Expire(a) PROVE LimitTyped'
  <2>1. CASE LoadLimiter(a)
    BY <2>1 DEF LoadLimiter
  <2>2. CASE Wake(a)
    BY <2>2 DEF Wake
  <2>3. CASE Expire(a)
    BY <2>3 DEF Expire
  <2> QED
    BY <1>1, <2>1, <2>2, <2>3
<1>2. ASSUME NEW a \in Caller, Act(a) PROVE LimitTyped'
  <2>1. at[a] \in Bucket /\ 0 \in Limiter
    BY <1>2 DEF Act, Holding, Limiter
  <2> QED
    BY <1>2, <2>1 DEF Act
<1>3. ASSUME NEW a \in Caller, Cancel(a) PROVE LimitTyped'
  <2>1. at[a] \in Bucket /\ 0 \in Limiter
    BY <1>3 DEF Cancel, Holding, Limiter
  <2>2. tokens[using[a]][at[a]] \in Int /\ lastEvent[using[a]][at[a]] \in Int
    BY <2>1
  <2>3. Restored(a) \in Int
    BY <2>2 DEF Restored
  <2> DEFINE full == tokens[using[a]][at[a]] + Restored(a)
             t == IF full > Burst THEN Burst ELSE full
  <2>4. t \in Int
    BY <2>2, <2>3
  <2>5. tokens' = [tokens EXCEPT ![using[a]][at[a]] = t]
    BY <1>3 DEF Cancel
  <2> HIDE DEF t
  <2>6. tokens' \in [Limiter -> [Bucket -> Int]]
    BY <2>1, <2>4, <2>5
  <2>7. lastEvent' \in [Limiter -> [Bucket -> Int]]
    BY <1>3, <2>1, <2>2 DEF Cancel
  <2> QED
    BY <1>3, <2>1, <2>6, <2>7 DEF Cancel
<1>4. ASSUME NEW a \in Caller, NEW k \in Key, Reserve(a, k) \/ Unlimited(a, k) PROVE LimitTyped'
  <2>1. CASE Unlimited(a, k)
    BY <2>1 DEF Unlimited, Limiter
  <2>2. CASE Reserve(a, k)
    <3>1. bucket(using[a], k) \in Bucket
      BY <2>2 DEF Reserve, bucket, Bucket
    <3> DEFINE left == tokens[using[a]][bucket(using[a], k)] - 1
               delay == IF left < 0 THEN -left ELSE 0
    <3>2. left \in Int /\ delay \in Int /\ now + delay \in Int
      BY <3>1
    <3>3. Decision(a, delay) \in {"act", "wait", "cancel"}
      BY DEF Decision
    <3>4. /\ tokens' = [tokens EXCEPT ![using[a]][bucket(using[a], k)] = left]
          /\ lastEvent' = [lastEvent EXCEPT ![using[a]][bucket(using[a], k)] = now + delay]
          /\ timeToAct' = [timeToAct EXCEPT ![a] = now + delay]
          /\ at' = [at EXCEPT ![a] = bucket(using[a], k)]
          /\ pc' = [pc EXCEPT ![a] = Decision(a, delay)]
          /\ UNCHANGED <<now, current, specs, built, using, admitted>>
      BY <2>2 DEF Reserve
    <3> HIDE DEF left, delay
    <3> QED
      BY <3>1, <3>2, <3>3, <3>4
  <2> QED
    BY <1>4, <2>1, <2>2
<1>5. CASE Tick
  BY <1>5 DEF Tick
<1>6. CASE Reload
  <2>1. current + 1 \in Limiter
    BY <1>6 DEF Reload, Limiter
  <2>2. tokens' \in [Limiter -> [Bucket -> Int]]
    BY <1>6, <2>1 DEF Reload
  <2>3. specs' \in [Limiter -> SUBSET Bucket]
    <3>1. PICK c \in Configs : specs' = [specs EXCEPT ![current + 1] = c]
      BY <1>6 DEF Reload
    <3> QED
      BY <2>1, <3>1 DEF Bucket
  <2>4. built' \in [Limiter -> Nat] /\ current' \in Limiter
    BY <1>6, <2>1 DEF Reload
  <2> QED
    BY <1>6, <2>2, <2>3, <2>4 DEF Reload
<1>7. CASE UNCHANGED limitVars
  BY <1>7 DEF limitVars
<1> QED
  BY <1>1, <1>2, <1>3, <1>4, <1>5, <1>6, <1>7 DEF LimitNext

\* What a caller does with its reservation is its own affair.
LEMMA HoldingFrame ==
  ASSUME Holding, NEW a \in Caller, now' >= now, now \in Nat, now' \in Nat,
         \A c \in Caller : c # a => /\ at'[c] = at[c] /\ pc'[c] = pc[c]
                                    /\ timeToAct'[c] = timeToAct[c] /\ timeToAct[c] \in Int,
         at'[a] # None <=> pc'[a] \in {"act", "wait", "cancel"},
         pc'[a] = "act" => timeToAct'[a] <= now'
  PROVE  Holding'
<1>1. ASSUME NEW c \in Caller
      PROVE  /\ at'[c] # None <=> pc'[c] \in {"act", "wait", "cancel"}
             /\ pc'[c] = "act" => timeToAct'[c] <= now'
  <2>1. CASE c = a
    BY <2>1
  <2>2. CASE c # a
    BY <2>2 DEF Holding
  <2> QED
    BY <2>1, <2>2
<1> QED
  BY <1>1 DEF Holding

LEMMA HoldingStep == LimitTyped /\ Holding /\ [LimitNext]_limitVars => Holding'
<1> SUFFICES ASSUME LimitTyped, Holding, [LimitNext]_limitVars PROVE Holding'
  OBVIOUS
<1>0. now \in Nat /\ \A c \in Caller : timeToAct[c] \in Int
  BY DEF LimitTyped
<1>1. ASSUME NEW a \in Caller, LoadLimiter(a) \/ Wake(a) \/ Expire(a) PROVE Holding'
  <2>1. CASE LoadLimiter(a)
    BY <1>0, <2>1, HoldingFrame DEF LoadLimiter, Goto, Holding, LimitTyped
  <2>2. CASE Wake(a)
    BY <1>0, <2>2, HoldingFrame DEF Wake, Goto, Holding, LimitTyped
  <2>3. CASE Expire(a)
    BY <1>0, <2>3, HoldingFrame DEF Expire, Goto, Holding, LimitTyped
  <2> QED
    BY <1>1, <2>1, <2>2, <2>3
<1>2. ASSUME NEW a \in Caller, Finish(a), now' = now PROVE Holding'
  BY <1>0, <1>2, HoldingFrame DEF Finish, Goto, LimitTyped
<1>3. ASSUME NEW a \in Caller, NEW k \in Key, Unlimited(a, k) PROVE Holding'
  BY <1>2, <1>3 DEF Unlimited
<1>4. ASSUME NEW a \in Caller, NEW k \in Key, Reserve(a, k) PROVE Holding'
  <2> DEFINE left == tokens[using[a]][bucket(using[a], k)] - 1
             delay == IF left < 0 THEN -left ELSE 0
  <2>1. /\ timeToAct'[a] = now + delay /\ at'[a] # None /\ pc'[a] = Decision(a, delay)
        /\ \A c \in Caller : c # a => at'[c] = at[c] /\ pc'[c] = pc[c]
                                     /\ timeToAct'[c] = timeToAct[c]
        /\ now' = now
    BY <1>4 DEF Reserve, Goto, LimitTyped
  <2>2. /\ Decision(a, delay) \in {"act", "wait", "cancel"}
        /\ Decision(a, delay) = "act" => delay = 0
    BY DEF Decision
  <2> HIDE DEF delay
  <2> QED
    BY <1>0, <2>1, <2>2, HoldingFrame
<1>5. CASE Tick \/ Reload \/ UNCHANGED limitVars
  BY <1>0, <1>5 DEF Tick, Reload, limitVars, Holding
<1>6. ASSUME NEW a \in Caller, Act(a) \/ Cancel(a) PROVE Holding'
  BY <1>2, <1>6 DEF Act, Cancel
<1> QED
  BY <1>1, <1>3, <1>4, <1>5, <1>6 DEF LimitNext

LEMMA UnbuiltStep == LimitTyped /\ Holding /\ Unbuilt /\ [LimitNext]_limitVars => Unbuilt'
<1> SUFFICES ASSUME LimitTyped, Holding, Unbuilt, [LimitNext]_limitVars PROVE Unbuilt'
  OBVIOUS
<1>0. /\ current \in Nat /\ \A a \in Caller : using[a] \in Nat /\ using[a] <= current
      /\ 0 \in Limiter /\ \A l \in Limiter : l \in Nat
  BY LimitAssumption DEF LimitTyped, Limiter, Unbuilt
\* No step but Reload comes near a limiter that is to be built.
<1>1. ASSUME current' = current, \A a \in Caller : using'[a] <= current,
             \A l \in Limiter : l > current => admitted'[l] = admitted[l]
                                               /\ lastEvent'[l] = lastEvent[l]
      PROVE  Unbuilt'
  BY <1>1 DEF Unbuilt
<1>2. ASSUME NEW a \in Caller, LoadLimiter(a) \/ Wake(a) \/ Expire(a) PROVE Unbuilt'
  <2>1. current' = current /\ admitted' = admitted /\ lastEvent' = lastEvent
    BY <1>2 DEF LoadLimiter, Wake, Expire, buckets
  <2>2. \A c \in Caller : using'[c] \in {using[c], current}
    BY <1>2 DEF LoadLimiter, Wake, Expire, LimitTyped
  <2> QED
    BY <1>0, <1>1, <2>1, <2>2
<1>3. ASSUME NEW a \in Caller, NEW k \in Key,
             Unlimited(a, k) \/ Reserve(a, k)
      PROVE  Unbuilt'
  <2>1. current' = current
    BY <1>3 DEF Unlimited, Reserve
  <2>2. \A c \in Caller : using'[c] \in {using[c], 0}
    BY <1>3 DEF Unlimited, Reserve, Finish, LimitTyped
  <2>3. \A l \in Limiter : l # using[a] => admitted'[l] = admitted[l]
                                           /\ lastEvent'[l] = lastEvent[l]
    BY <1>3 DEF Unlimited, Reserve, buckets, LimitTyped
  <2> QED
    BY <1>0, <1>1, <2>1, <2>2, <2>3
<1>4. CASE Tick \/ UNCHANGED limitVars
  BY <1>0, <1>1, <1>4 DEF Tick, limitVars, buckets
<1>5. CASE Reload
  BY <1>0, <1>5 DEF Reload, Unbuilt
<1>6. ASSUME NEW a \in Caller, Act(a) \/ Cancel(a) PROVE Unbuilt'
  <2>1. current' = current
    BY <1>6 DEF Act, Cancel
  <2>2. \A c \in Caller : using'[c] \in {using[c], 0}
    BY <1>6 DEF Act, Cancel, Finish, LimitTyped
  <2>3. \A l \in Limiter : l # using[a] => admitted'[l] = admitted[l]
                                           /\ lastEvent'[l] = lastEvent[l]
    BY <1>6 DEF Act, Cancel, buckets, LimitTyped
  <2> QED
    BY <1>0, <1>1, <2>1, <2>2, <2>3
<1> QED
  BY <1>2, <1>3, <1>4, <1>5, <1>6 DEF LimitNext
-----------------------------------------------------------------------------
\* A reservation takes a token, and a place at the end of the line if there is none left.
LEMMA ReserveBook ==
  ASSUME LimitTyped, Holding, NEW a \in Caller, NEW l \in Limiter, NEW b \in Bucket,
         Book(l, b), NEW delay \in Nat, at[a] = None,
         delay = (IF tokens[l][b] - 1 < 0 THEN -(tokens[l][b] - 1) ELSE 0),
         tokens'[l][b] = tokens[l][b] - 1, lastEvent'[l][b] = now + delay,
         timeToAct' = [timeToAct EXCEPT ![a] = now + delay],
         at' = [at EXCEPT ![a] = b], using' = using, using[a] = l,
         admitted' = admitted, now' = now, built' = built
  PROVE  Book(l, b)'
<1> DEFINE L == lastEvent[l][b]
           T == tokens[l][b]
           R == Reserved(l, b)
           N == Earned(l, b)
<1>0. L \in Int /\ T \in Int /\ now \in Nat /\ admitted[l][b] \in Nat /\ built[l] \in Nat
      /\ T' = T - 1 /\ L' = now + delay /\ delay = (IF T < 1 THEN 1 - T ELSE 0)
  BY DEF LimitTyped
<1>1. a \notin R /\ R' = R \cup {a}
  BY LimitAssumption DEF Reserved, Bucket, LimitTyped
<1>2. timeToAct'[a] = now + delay /\ \A c \in R : c # a /\ timeToAct'[c] = timeToAct[c]
      /\ timeToAct[c] \in Int
  BY <1>1 DEF Reserved, LimitTyped
<1>3. \A c \in R : timeToAct[c] > now => timeToAct[c] < now + delay
  <2>1. \A c \in R : timeToAct[c] > now => timeToAct[c] <= L /\ L = now - T
    BY <1>0, <1>2 DEF Book, InLine
  <2> QED
    BY <1>0, <1>2, <2>1
<1>4. InLine(l, b)'
  <2>1. L' > now => L' = now - T'
    BY <1>0
  <2> DEFINE S == R'
  <2>0. S = R \cup {a}
    BY <1>1
  <2> HIDE DEF S
  <2>2. ASSUME NEW c \in S, timeToAct'[c] >= now PROVE timeToAct'[c] <= L'
    <3>1. CASE c = a
      BY <1>0, <1>2, <3>1
    <3>2. CASE c \in R
      <4>1. timeToAct[c] \in Int /\ timeToAct'[c] = timeToAct[c] /\ timeToAct[c] >= now
            /\ (timeToAct[c] > now => timeToAct[c] < now + delay)
        BY <1>2, <1>3, <2>2, <3>2
      <4> QED
        BY <1>0, <4>1
    <3> QED
      BY <2>0, <3>1, <3>2
  <2>3. ASSUME NEW c \in S, NEW d \in S, c # d, timeToAct'[c] = timeToAct'[d]
        PROVE  timeToAct'[c] <= now
    <3>1. CASE c \in R /\ d \in R
      BY <1>2, <2>3, <3>1 DEF Book, InLine
    <3>2. ASSUME NEW e \in R, timeToAct'[e] = timeToAct'[a] PROVE timeToAct'[a] <= now
      <4>1. timeToAct[e] = now + delay /\ timeToAct'[a] = now + delay
        BY <1>2, <3>2
      <4> QED
        BY <1>0, <1>3, <4>1
    <3> QED
      BY <2>0, <2>3, <3>1, <3>2
  <2>4. now' = now
    OBVIOUS
  <2> QED
    BY <2>1, <2>2, <2>3, <2>4 DEF InLine, S
<1>5. N' = IF delay = 0 THEN N \cup {a} ELSE N
  <2>1. N' = {c \in R \cup {a} : timeToAct'[c] <= now}
    BY <1>1 DEF Earned
  <2>2. N = {c \in R : timeToAct[c] <= now}
    BY DEF Earned
  <2>3. timeToAct'[a] <= now <=> delay = 0
    BY <1>0, <1>2
  <2> HIDE DEF R, N
  <2> QED
    BY <1>2, <2>1, <2>2, <2>3
<1>6. /\ a \notin N /\ IsFiniteSet(R) /\ IsFiniteSet(N) /\ Cardinality(N) \in Nat
      /\ Cardinality(R) \in Nat /\ Cardinality(N) <= Cardinality(R)
  BY <1>1, Counts DEF Book, Balanced
<1>7. /\ IsFiniteSet(R') /\ Cardinality(R') = Cardinality(R) + 1
      /\ Cardinality(N') = IF delay = 0 THEN Cardinality(N) + 1 ELSE Cardinality(N)
  <2>1. IsFiniteSet(R \cup {a}) /\ Cardinality(R \cup {a}) = Cardinality(R) + 1
    BY <1>1, <1>6, FS_AddElement
  <2>2. Cardinality(N \cup {a}) = Cardinality(N) + 1
    BY <1>6, FS_AddElement
  <2> HIDE DEF R, N
  <2> QED
    BY <1>1, <1>5, <2>1, <2>2
<1>8. /\ admitted[l][b] + Cardinality(R) + T <= Burst + now - built[l]
      /\ admitted[l][b] + Cardinality(N) <= Burst + now - built[l]
  BY DEF Book, Balanced
<1> DEFINE r == Cardinality(R)
           n == Cardinality(N)
<1>9. /\ admitted[l][b] + r' + T' <= Burst + now - built[l]
      /\ admitted[l][b] + n' <= Burst + now - built[l]
  <2> HIDE DEF R, N, L, T
  <2>1. r' = r + 1 /\ n' = IF delay = 0 THEN n + 1 ELSE n
    BY <1>7
  <2>2. r \in Nat /\ n \in Nat /\ n <= r
    BY <1>6
  <2>3. admitted[l][b] + r + T <= Burst + now - built[l]
        /\ admitted[l][b] + n <= Burst + now - built[l]
    BY <1>8
  <2> HIDE DEF r, n
  <2> QED
    BY <1>0, <2>1, <2>2, <2>3, LimitAssumption
<1>10. Balanced(l, b)'
  BY <1>7, <1>9 DEF Balanced
<1> QED
  BY <1>4, <1>10 DEF Book

\* What is reserved leaves the line, acted on or given back; Cancel returns a token only
\* to a reservation nobody stands behind.
LEMMA LeaveBook ==
  ASSUME LimitTyped, Holding, NEW a \in Caller, NEW l \in Limiter, NEW b \in Bucket,
         Book(l, b), at[a] = b, using[a] = l,
         at' = [at EXCEPT ![a] = None], using' = [using EXCEPT ![a] = 0],
         timeToAct' = [timeToAct EXCEPT ![a] = 0], now' = now, built' = built,
         \/ /\ timeToAct[a] <= now /\ admitted'[l][b] = admitted[l][b] + 1
            /\ tokens'[l][b] = tokens[l][b] /\ lastEvent'[l][b] = lastEvent[l][b]
         \/ /\ admitted'[l][b] = admitted[l][b]
            /\ tokens'[l][b] = (IF tokens[l][b] + Restored(a) > Burst THEN Burst
                                ELSE tokens[l][b] + Restored(a))
            /\ lastEvent'[l][b] =
                 IF Restored(a) > 0 /\ timeToAct[a] = lastEvent[l][b] /\ timeToAct[a] - 1 >= now
                 THEN lastEvent[l][b] - 1 ELSE lastEvent[l][b]
  PROVE  Book(l, b)'
<1> DEFINE L == lastEvent[l][b]
           T == tokens[l][b]
           R == Reserved(l, b)
           N == Earned(l, b)
           t == timeToAct[a]
           used == admitted[l][b]
<1>0. /\ L \in Int /\ T \in Int /\ now \in Nat /\ used \in Nat /\ built[l] \in Nat /\ t \in Int
      /\ Burst \in Nat
  BY LimitAssumption DEF LimitTyped
<1>1. a \in R /\ R' = R \ {a} /\ \A c \in R : timeToAct[c] \in Int
      /\ (c # a => timeToAct'[c] = timeToAct[c])
  BY LimitAssumption DEF Reserved, Bucket, LimitTyped
<1>2. /\ L > now => L = now - T
      /\ \A c \in R : timeToAct[c] >= now => timeToAct[c] <= L
      /\ \A c \in R : c # a /\ timeToAct[c] = t => t <= now
  BY <1>1 DEF Book, InLine
<1>3. /\ Restored(a) \in {0, 1}
      /\ Restored(a) = 1 => t >= now /\ L = t
  <2>1. Restored(a) = IF t < now \/ L - t >= 1 THEN 0 ELSE 1 - (L - t)
    BY DEF Restored
  <2>2. t >= now => t <= L
    BY <1>1, <1>2
  <2> HIDE DEF L, t
  <2> QED
    BY <1>0, <2>1, <2>2
\* The line is as long as before, or shorter by the place that was given back.
<1>4. \/ L' = L /\ (L > now => T' = T)
      \/ L > now /\ L = t /\ L' = L - 1 /\ T' = T + 1
  <2>1. CASE L > now
    <3>1. T < 0
      BY <1>0, <1>2, <2>1
    <3> QED
      BY <1>0, <1>3, <2>1, <3>1
  <2>2. CASE ~(L > now)
    BY <1>0, <1>3, <2>2
  <2> QED
    BY <2>1, <2>2
<1>5. InLine(l, b)'
  <2> DEFINE S == R'
  <2>0. S = R \ {a} /\ now' = now
    BY <1>1
  <2> HIDE DEF S
  <2>1. L' > now => L' = now - T'
    <3> HIDE DEF L, T, t
    <3> QED
      BY <1>0, <1>2, <1>4
  <2>2. ASSUME NEW c \in S, timeToAct'[c] >= now PROVE timeToAct'[c] <= L'
    <3>1. /\ c \in R /\ c # a /\ timeToAct'[c] = timeToAct[c] /\ timeToAct[c] \in Int
          /\ timeToAct[c] <= L /\ (timeToAct[c] = t => t <= now)
      BY <1>1, <1>2, <2>0, <2>2
    <3> HIDE DEF L, T, t
    <3> QED
      BY <1>0, <1>4, <2>2, <3>1
  <2>3. ASSUME NEW c \in S, NEW d \in S, c # d, timeToAct'[c] = timeToAct'[d]
        PROVE  timeToAct'[c] <= now
    BY <1>1, <2>0, <2>3 DEF Book, InLine
  <2> QED
    BY <2>0, <2>1, <2>2, <2>3 DEF InLine, S
<1>6. N' = N \ {a} /\ (t <= now <=> a \in N)
  <2>1. N' = {c \in R \ {a} : timeToAct'[c] <= now}
    BY <1>1 DEF Earned
  <2>2. N = {c \in R : timeToAct[c] <= now}
    BY DEF Earned
  <2> HIDE DEF R, N
  <2> QED
    BY <1>1, <2>1, <2>2
<1>7. /\ IsFiniteSet(R') /\ Cardinality(R') = Cardinality(R) - 1
      /\ Cardinality(N') = IF t <= now THEN Cardinality(N) - 1 ELSE Cardinality(N)
  <2>1. IsFiniteSet(R) /\ IsFiniteSet(N)
    BY Counts DEF Book, Balanced
  <2>2. IsFiniteSet(R \ {a}) /\ Cardinality(R \ {a}) = Cardinality(R) - 1
    BY <1>1, <2>1, FS_RemoveElement
  <2>3. Cardinality(N \ {a}) = IF a \in N THEN Cardinality(N) - 1 ELSE Cardinality(N)
    BY <2>1, FS_RemoveElement
  <2> HIDE DEF R, N
  <2> QED
    BY <1>1, <1>6, <2>2, <2>3
<1> DEFINE r == Cardinality(R)
           n == Cardinality(N)
<1>8. /\ used' + r' + T' <= Burst + now - built[l]
      /\ used' + n' <= Burst + now - built[l]
  <2>1. r \in Nat /\ n \in Nat
    BY Counts
  <2>2. used + r + T <= Burst + now - built[l] /\ used + n <= Burst + now - built[l]
    BY DEF Book, Balanced
  <2>3. r' = r - 1 /\ n' = IF t <= now THEN n - 1 ELSE n
    BY <1>7
  <2>4. \/ used' = used + 1 /\ t <= now /\ T' = T
        \/ used' = used /\ T' <= T + 1 /\ T' \in Int
    <3>1. CASE t <= now /\ used' = used + 1 /\ T' = T
      BY <3>1
    <3>2. CASE used' = used /\ T' = (IF T + Restored(a) > Burst THEN Burst
                                     ELSE T + Restored(a))
      BY <1>0, <1>3, <3>2
    <3> QED
      BY <3>1, <3>2
  <2> HIDE DEF r, n, T, used, t
  <2> QED
    BY <1>0, <2>1, <2>2, <2>3, <2>4
<1>9. Balanced(l, b)'
  BY <1>7, <1>8 DEF Balanced
<1> QED
  BY <1>5, <1>9 DEF Book

\* Time moves one reservation at most from the line to those that may be used.
LEMMA TickBook ==
  ASSUME LimitTyped, NEW l \in Limiter, NEW b \in Bucket, Book(l, b), Tick
  PROVE  Book(l, b)'
<1> DEFINE L == lastEvent[l][b]
           T == tokens[l][b]
           R == Reserved(l, b)
           N == Earned(l, b)
<1>0. /\ L \in Int /\ T \in Int /\ now \in Nat /\ admitted[l][b] \in Nat /\ built[l] \in Nat
      /\ Burst \in Nat /\ now' = now + 1 /\ L' = L /\ R' = R /\ timeToAct' = timeToAct
      /\ T' = (IF T < Burst THEN T + 1 ELSE Burst) /\ built' = built /\ admitted' = admitted
  BY LimitAssumption DEF LimitTyped, Tick, buckets, Reserved
<1>1. \A c \in R : timeToAct[c] \in Int
  BY DEF Reserved, LimitTyped
<1>2. /\ L > now => L = now - T
      /\ \A c \in R : timeToAct[c] >= now => timeToAct[c] <= L
      /\ \A c, d \in R : c # d /\ timeToAct[c] = timeToAct[d] => timeToAct[c] <= now
  BY DEF Book, InLine
<1>3. InLine(l, b)'
  <2>1. L' > now' => L' = now' - T'
    <3> HIDE DEF L, T
    <3> QED
      BY <1>0, <1>2
  <2>2. \A c \in R : timeToAct[c] >= now + 1 => timeToAct[c] <= L
    BY <1>0, <1>1, <1>2
  <2>3. \A c, d \in R : c # d /\ timeToAct[c] = timeToAct[d] => timeToAct[c] <= now + 1
    BY <1>0, <1>1, <1>2
  <2> QED
    BY <1>0, <2>1, <2>2, <2>3 DEF InLine
<1>4. N' = N \cup {c \in R : timeToAct[c] = now + 1}
  <2>1. N' = {c \in R : timeToAct[c] <= now + 1} /\ N = {c \in R : timeToAct[c] <= now}
    BY <1>0 DEF Earned
  <2> HIDE DEF R, N
  <2> QED
    BY <1>0, <1>1, <2>1
<1>5. \/ N' = N
      \/ \E c \in R : N' = N \cup {c}
  <2> HIDE DEF R, N
  <2>1. CASE \E c \in R : timeToAct[c] = now + 1
    <3>1. PICK c \in R : timeToAct[c] = now + 1
      BY <2>1
    <3>2. \A d \in R : timeToAct[d] = now + 1 => d = c
      BY <1>0, <1>2, <3>1
    <3> QED
      BY <1>4, <3>1, <3>2
  <2>2. CASE ~\E c \in R : timeToAct[c] = now + 1
    BY <1>4, <2>2
  <2> QED
    BY <2>1, <2>2
<1>6. IsFiniteSet(N) /\ Cardinality(N) \in Nat /\ Cardinality(R) \in Nat
  BY Counts
<1>7. Cardinality(N') \in Nat /\ Cardinality(N') <= Cardinality(N) + 1
  <2> HIDE DEF N, R
  <2>1. CASE N' = N
    BY <1>6, <2>1
  <2>2. ASSUME NEW c \in R, N' = N \cup {c}
        PROVE  Cardinality(N') \in Nat /\ Cardinality(N') <= Cardinality(N) + 1
    <3>1. Cardinality(N \cup {c}) = IF c \in N THEN Cardinality(N) ELSE Cardinality(N) + 1
      BY <1>6, FS_AddElement
    <3> QED
      BY <1>6, <2>2, <3>1
  <2> QED
    BY <1>5, <2>1, <2>2
<1>8. /\ admitted[l][b] + Cardinality(R) + T <= Burst + now - built[l]
      /\ admitted[l][b] + Cardinality(N) <= Burst + now - built[l] /\ IsFiniteSet(R)
  BY DEF Book, Balanced
<1>9. Balanced(l, b)'
  <2>1. T' <= T + 1 /\ T' \in Int
    BY <1>0
  <2>2. /\ admitted[l][b] + Cardinality(R) + T' <= Burst + (now + 1) - built[l]
        /\ admitted[l][b] + Cardinality(N') <= Burst + (now + 1) - built[l]
    <3> HIDE DEF T, N, R
    <3> QED
      BY <1>0, <1>6, <1>7, <1>8, <2>1
  <2> QED
    BY <1>0, <1>8, <2>2 DEF Balanced
<1> QED
  BY <1>3, <1>9 DEF Book

\* A limiter that has just been built is full, and nobody has been there before.
LEMMA ReloadBook ==
  ASSUME LimitTyped, Holding, Unbuilt, NEW l \in Limiter, NEW b \in Bucket, Book(l, b), Reload
  PROVE  Book(l, b)'
<1>1. /\ now' = now /\ at' = at /\ using' = using /\ timeToAct' = timeToAct
      /\ lastEvent' = lastEvent /\ admitted' = admitted
      /\ Reserved(l, b)' = Reserved(l, b) /\ Earned(l, b)' = Earned(l, b)
  BY DEF Reload, Reserved, Earned
<1>2. CASE l # current + 1
  <2>1. tokens'[l][b] = tokens[l][b] /\ built'[l] = built[l]
    BY <1>2 DEF Reload, LimitTyped
  <2> QED
    BY <1>1, <2>1, Frame
<1>3. CASE l = current + 1
  <2>0. now \in Nat /\ Burst \in Nat /\ current \in Nat /\ \A a \in Caller : using[a] \in Nat
    BY LimitAssumption DEF LimitTyped, Limiter
  <2>1. Reserved(l, b) = {} /\ Earned(l, b) = {}
    BY <1>3, <2>0 DEF Reserved, Earned, Unbuilt
  <2>2. tokens'[l][b] = Burst /\ built'[l] = now
    BY <1>3 DEF Reload, LimitTyped
  <2>3. lastEvent[l][b] = 0 /\ admitted[l][b] = 0
    BY <1>3, <2>0 DEF Unbuilt
  <2>4. InLine(l, b)'
    BY <1>1, <2>0, <2>1, <2>3 DEF InLine
  <2>5. Balanced(l, b)'
    BY <1>1, <2>0, <2>1, <2>2, <2>3, FS_EmptySet DEF Balanced
  <2> QED
    BY <2>4, <2>5 DEF Book
<1> QED
  BY <1>2, <1>3

LEMMA BookStep ==
  ASSUME LimitInv, [LimitNext]_limitVars, NEW l \in Limiter, NEW b \in Bucket
  PROVE  Book(l, b)'
<1>0. LimitTyped /\ Holding /\ Unbuilt /\ Book(l, b)
  BY DEF LimitInv
<1>1. \A a \in Caller : at[a] = None => a \notin Reserved(l, b)
  BY LimitAssumption DEF Reserved, Bucket
\* The steps that reserve nothing and give nothing back.
<1>2. ASSUME NEW a \in Caller, at[a] = None, at'[a] = None,
             \A c \in Caller : c # a => /\ at'[c] = at[c] /\ using'[c] = using[c]
                                        /\ timeToAct'[c] = timeToAct[c],
             UNCHANGED <<now, built, buckets, admitted>>
      PROVE  Book(l, b)'
  <2>1. Reserved(l, b)' = Reserved(l, b)
    BY <1>2, LimitAssumption DEF Reserved, Bucket
  <2>2. \A c \in Reserved(l, b) : timeToAct'[c] = timeToAct[c]
    BY <1>1, <1>2 DEF Reserved
  <2> QED
    BY <1>0, <1>2, <2>1, <2>2, Frame DEF buckets
<1>3. ASSUME UNCHANGED <<now, built, buckets, admitted, at, using, timeToAct>> PROVE Book(l, b)'
  BY <1>0, <1>3, Frame DEF buckets, Reserved
<1>4. ASSUME NEW a \in Caller, LoadLimiter(a) \/ Wake(a) \/ Expire(a) PROVE Book(l, b)'
  <2>1. CASE LoadLimiter(a)
    BY <1>0, <1>2, <2>1 DEF LoadLimiter, LimitTyped, Holding
  <2>2. CASE Wake(a) \/ Expire(a)
    BY <1>3, <2>2 DEF Wake, Expire
  <2> QED
    BY <1>4, <2>1, <2>2
<1>5. ASSUME NEW a \in Caller, NEW k \in Key, Unlimited(a, k) PROVE Book(l, b)'
  BY <1>0, <1>2, <1>5 DEF Unlimited, Finish, LimitTyped, Holding
<1>6. ASSUME NEW a \in Caller, NEW k \in Key, Reserve(a, k) PROVE Book(l, b)'
  <2>1. PICK lim \in Limiter : lim = using[a]
    BY <1>0 DEF LimitTyped
  <2>2. PICK j \in Bucket : j = bucket(lim, k)
    BY <1>6, <2>1 DEF Reserve, bucket, Bucket
  <2>3. PICK delay \in Nat :
          delay = (IF tokens[lim][j] - 1 < 0 THEN -(tokens[lim][j] - 1) ELSE 0)
    BY <1>0 DEF LimitTyped
  <2>4. /\ at[a] = None /\ using' = using /\ now' = now /\ built' = built
        /\ admitted' = admitted /\ at' = [at EXCEPT ![a] = j]
        /\ timeToAct' = [timeToAct EXCEPT ![a] = now + delay]
        /\ tokens' = [tokens EXCEPT ![lim][j] = tokens[lim][j] - 1]
        /\ lastEvent' = [lastEvent EXCEPT ![lim][j] = now + delay]
    BY <1>0, <1>6, <2>1, <2>2, <2>3 DEF Reserve, Holding
  <2>5. CASE l = lim /\ b = j
    <3>1. tokens'[l][b] = tokens[l][b] - 1 /\ lastEvent'[l][b] = now + delay
      BY <1>0, <2>4, <2>5 DEF LimitTyped
    <3> QED
      BY <1>0, <2>1, <2>3, <2>4, <2>5, <3>1, ReserveBook
  <2>6. CASE ~(l = lim /\ b = j)
    <3>1. tokens'[l][b] = tokens[l][b] /\ lastEvent'[l][b] = lastEvent[l][b]
      BY <1>0, <2>4, <2>6 DEF LimitTyped
    <3>2. Reserved(l, b)' = Reserved(l, b)
      BY <1>0, <2>1, <2>4, <2>6, LimitAssumption DEF Reserved, LimitTyped, Bucket
    <3>3. \A c \in Reserved(l, b) : timeToAct'[c] = timeToAct[c]
      BY <1>0, <1>1, <2>4 DEF Reserved, LimitTyped
    <3> QED
      BY <1>0, <2>4, <3>1, <3>2, <3>3, Frame
  <2> QED
    BY <2>5, <2>6
<1>7. ASSUME NEW a \in Caller, Act(a) \/ Cancel(a) PROVE Book(l, b)'
  <2>1. PICK lim \in Limiter : lim = using[a]
    BY <1>0 DEF LimitTyped
  <2>2. PICK j \in Bucket : j = at[a]
    BY <1>0, <1>7 DEF Act, Cancel, Holding, LimitTyped
  <2>3. /\ at' = [at EXCEPT ![a] = None] /\ using' = [using EXCEPT ![a] = 0]
        /\ timeToAct' = [timeToAct EXCEPT ![a] = 0] /\ now' = now /\ built' = built
    BY <1>7 DEF Act, Cancel, Finish
  <2>4. CASE l = lim /\ b = j
    <3>1. CASE Act(a)
      <4>1. /\ timeToAct[a] <= now /\ admitted'[l][b] = admitted[l][b] + 1
            /\ tokens'[l][b] = tokens[l][b] /\ lastEvent'[l][b] = lastEvent[l][b]
        BY <1>0, <2>1, <2>2, <2>4, <3>1 DEF Act, Holding, LimitTyped, buckets
      <4> QED
        BY <1>0, <2>1, <2>2, <2>3, <2>4, <4>1, LeaveBook
    <3>2. CASE Cancel(a)
      <4>1. /\ admitted'[l][b] = admitted[l][b]
            /\ tokens'[l][b] = (IF tokens[l][b] + Restored(a) > Burst THEN Burst
                                ELSE tokens[l][b] + Restored(a))
            /\ lastEvent'[l][b] =
                 IF Restored(a) > 0 /\ timeToAct[a] = lastEvent[l][b] /\ timeToAct[a] - 1 >= now
                 THEN lastEvent[l][b] - 1 ELSE lastEvent[l][b]
        BY <1>0, <2>1, <2>2, <2>4, <3>2 DEF Cancel, LimitTyped
      <4> QED
        BY <1>0, <2>1, <2>2, <2>3, <2>4, <4>1, LeaveBook
    <3> QED
      BY <1>7, <3>1, <3>2
  <2>5. CASE ~(l = lim /\ b = j)
    <3>1. /\ tokens'[l][b] = tokens[l][b] /\ lastEvent'[l][b] = lastEvent[l][b]
          /\ admitted'[l][b] = admitted[l][b]
      BY <1>0, <1>7, <2>1, <2>2, <2>5 DEF Act, Cancel, buckets, LimitTyped
    <3>2. Reserved(l, b)' = Reserved(l, b) /\ a \notin Reserved(l, b)
      BY <1>0, <2>1, <2>2, <2>3, <2>5, LimitAssumption DEF Reserved, LimitTyped, Bucket
    <3>3. \A c \in Reserved(l, b) : timeToAct'[c] = timeToAct[c]
      BY <1>0, <2>3, <3>2 DEF Reserved, LimitTyped
    <3> QED
      BY <1>0, <2>3, <3>1, <3>2, <3>3, Frame
  <2> QED
    BY <2>4, <2>5
<1>8. CASE Tick
  BY <1>0, <1>8, TickBook
<1>9. CASE Reload
  BY <1>0, <1>9, ReloadBook
<1>10. CASE UNCHANGED limitVars
  BY <1>3, <1>10 DEF limitVars, buckets
<1> QED
  BY <1>4, <1>5, <1>6, <1>7, <1>8, <1>9, <1>10 DEF LimitNext

\* The buckets keep their books through reservations, waits, refunds, ticks and reloads.
THEOREM LimiterInvariantHolds == LimitSpec => []LimitInv
<1>1. LimitInv /\ [LimitNext]_limitVars => LimitInv'
  <2> SUFFICES ASSUME LimitInv, [LimitNext]_limitVars PROVE LimitInv'
    OBVIOUS
  <2>1. LimitTyped' /\ Holding' /\ Unbuilt'
    BY LimitTypedStep, HoldingStep, UnbuiltStep DEF LimitInv
  <2>2. ASSUME NEW l \in Limiter, NEW b \in Bucket PROVE Book(l, b)'
    BY BookStep
  <2> QED
    BY <2>1, <2>2 DEF LimitInv
<1> QED
  BY <1>1, LimitInitHolds, PTL DEF LimitSpec
-----------------------------------------------------------------------------
\* Since it was built a bucket has let pass its burst and what it has earned, and no more,
\* although workers reserve ahead, wait, and give back in any order.
THEOREM PacedHolds == LimitSpec => []Paced
<1>1. LimitInv => Paced
  <2> SUFFICES ASSUME LimitInv, NEW l \in Limiter, NEW b \in Bucket
               PROVE  admitted[l][b] <= Burst + now - built[l]
    BY DEF Paced
  <2>1. LimitTyped /\ Book(l, b)
    BY DEF LimitInv
  <2>2. /\ Cardinality(Earned(l, b)) \in Nat /\ admitted[l][b] \in Nat /\ now \in Nat
        /\ built[l] \in Nat /\ Burst \in Nat
    BY <2>1, Counts, LimitAssumption DEF LimitTyped
  <2>3. admitted[l][b] + Cardinality(Earned(l, b)) <= Burst + now - built[l]
    BY <2>1 DEF Book, Balanced
  <2> QED
    BY <2>2, <2>3
<1> QED
  BY <1>1, LimiterInvariantHolds, PTL

\* No token is invented: what has passed, what is reserved and what is left come from the
\* burst and what was earned, however reservations are given back.
THEOREM ConservedHolds == LimitSpec => []Conserved
<1>1. LimitInv => Conserved
  BY DEF LimitInv, Book, Balanced, Reserved, Conserved
<1> QED
  BY <1>1, LimiterInvariantHolds, PTL
=============================================================================
