--------------------------- MODULE SmtpPoolProofs ---------------------------
(***************************************************************************)
(* The connection pool of the SMTP provider, for any number of workers,    *)
(* connections, provider instances and faults: a connection has one user,  *)
(* starts a message clean, and none that is open is forgotten.             *)
(***************************************************************************)
EXTENDS SmtpPool, TLAPS

Stock(i) == Pooled(i) \cup draining[i]

Typed ==
    /\ current \in Instance /\ faults \in Nat
    /\ pc \in [Worker -> {"rest", "acquire", "noop", "send", "sending", "reset", "release"}]
    /\ prov \in [Worker -> Instance] /\ hand \in [Worker -> Conn \cup {None}]
    /\ idle \in [Instance -> Seq(Conn)] /\ shut \subseteq Instance
    /\ draining \in [Instance -> SUBSET Conn] /\ owner \in [Conn -> Instance]
    /\ open \subseteq Conn /\ peer \subseteq Conn /\ midway \subseteq Conn

\* A worker has a connection from the end of acquire to the release or the close.
Holding == \A w \in Worker : hand[w] = None <=> pc[w] \in {"rest", "acquire"}

\* Exclusive, connection by connection.
OneUser ==
    /\ \A v, w \in Worker : hand[v] = hand[w] /\ hand[v] # None => v = w
    /\ \A w \in Worker, i \in Instance : hand[w] \notin Stock(i)
    /\ \A i \in Instance : Pooled(i) \cap draining[i] = {}
    /\ \A i, j \in Instance : i # j => Stock(i) \cap Stock(j) = {}

Bounded == \A i \in Instance : IsInjective(idle[i]) /\ Len(idle[i]) <= MaxIdle

\* NoneForgotten, connection by connection.
Found ==
    /\ \A w \in Worker : hand[w] # None => hand[w] \in open
    /\ \A i \in Instance : Stock(i) \subseteq open
    /\ \A c \in open : (\E w \in Worker : hand[w] = c) \/ \E i \in Instance : c \in Stock(i)
    /\ \A i \in shut : idle[i] = <<>>
    /\ \A i \in Instance \ shut : draining[i] = {}

\* A connection stays with the configuration it was dialled for, and only the worker that
\* has a transaction on it leaves it midway.
Fit ==
    /\ \A w \in Worker : hand[w] # None => owner[hand[w]] = prov[w]
    /\ \A i \in Instance : \A c \in Pooled(i) : owner[c] = i
    /\ \A c \in midway : \E w \in Worker : hand[w] = c /\ pc[w] = "sending"

IInv == Typed /\ Holding /\ OneUser /\ Bounded /\ Found /\ Fit
-----------------------------------------------------------------------------
(* Pools as sequences.                                                     *)

\* Releasing a connection puts it at the end of the pool.
LEMMA AppendFacts ==
  ASSUME NEW s \in Seq(Conn), NEW c \in Conn
  PROVE  /\ Append(s, c) \in Seq(Conn) /\ Append(s, c) # <<>>
         /\ Len(Append(s, c)) = Len(s) + 1
         /\ ToSet(Append(s, c)) = ToSet(s) \cup {c}
         /\ IsInjective(s) /\ c \notin ToSet(s) => IsInjective(Append(s, c))
<1>1. /\ Append(s, c) \in Seq(Conn) /\ Len(Append(s, c)) = Len(s) + 1 /\ Len(s) \in Nat
      /\ DOMAIN s = 1..Len(s) /\ DOMAIN Append(s, c) = 1..(Len(s) + 1)
      /\ \A k \in 1..Len(s) : Append(s, c)[k] = s[k]
      /\ Append(s, c)[Len(s) + 1] = c
  OBVIOUS
<1>2. ToSet(Append(s, c)) = ToSet(s) \cup {c}
  BY <1>1 DEF ToSet
<1>3. IsInjective(s) /\ c \notin ToSet(s) => IsInjective(Append(s, c))
  BY <1>1 DEF IsInjective, ToSet
<1> QED
  BY <1>1, <1>2, <1>3

\* Acquiring one takes it from the end.
LEMMA PopFacts ==
  ASSUME NEW s \in Seq(Conn), s # <<>>
  PROVE  /\ Front(s) \in Seq(Conn) /\ Last(s) \in Conn /\ Last(s) \in ToSet(s)
         /\ Len(Front(s)) <= Len(s) /\ ToSet(Front(s)) \subseteq ToSet(s)
         /\ ToSet(s) \subseteq ToSet(Front(s)) \cup {Last(s)}
         /\ IsInjective(s) => IsInjective(Front(s)) /\ Last(s) \notin ToSet(Front(s))
<1>1. /\ Len(s) \in Nat \ {0} /\ DOMAIN s = 1..Len(s) /\ Last(s) = s[Len(s)]
      /\ \A k \in 1..Len(s) : s[k] \in Conn
  BY DEF Last
<1>2. /\ Front(s) \in Seq(Conn) /\ Len(Front(s)) = Len(s) - 1
      /\ DOMAIN Front(s) = 1..(Len(s) - 1)
      /\ \A k \in 1..(Len(s) - 1) : Front(s)[k] = s[k]
  BY <1>1 DEF Front
<1>3. /\ ToSet(Front(s)) \subseteq ToSet(s) /\ Last(s) \in ToSet(s)
      /\ ToSet(s) \subseteq ToSet(Front(s)) \cup {Last(s)}
  BY <1>1, <1>2 DEF ToSet
<1>4. IsInjective(s) => IsInjective(Front(s)) /\ Last(s) \notin ToSet(Front(s))
  BY <1>1, <1>2 DEF IsInjective, ToSet
<1> QED
  BY <1>1, <1>2, <1>3, <1>4

LEMMA SetFacts ==
  ASSUME NEW s \in Seq(Conn)
  PROVE  ToSet(s) \subseteq Conn /\ None \notin ToSet(s)
  BY PoolAssumption DEF ToSet

LEMMA StockFacts ==
  ASSUME Typed
  PROVE  \A i \in Instance : Stock(i) \subseteq Conn /\ None \notin Stock(i)
<1>1. \A i \in Instance : ToSet(idle[i]) \subseteq Conn
  BY SetFacts DEF Typed
<1> QED
  BY <1>1, PoolAssumption DEF Typed, Stock, Pooled

LEMMA EmptyFacts ==
  /\ <<>> \in Seq(Conn) /\ ToSet(<<>>) = {} /\ IsInjective(<<>>) /\ Len(<<>>) = 0
  BY DEF ToSet, IsInjective
-----------------------------------------------------------------------------
LEMMA InitHolds == Init => IInv
<1> SUFFICES ASSUME Init PROVE IInv
  OBVIOUS
<1> USE PoolAssumption, EmptyFacts DEF Init
<1>1. Typed /\ Holding
  BY DEF Typed, Holding, Instance
<1>2. \A i \in Instance : Pooled(i) = {} /\ draining[i] = {} /\ Stock(i) = {}
  BY DEF Pooled, Stock
<1>3. OneUser /\ Found /\ Fit
  BY <1>2 DEF OneUser, Found, Fit
<1>4. Bounded
  BY DEF Bounded
<1> QED
  BY <1>1, <1>3, <1>4 DEF IInv

\* A connection the worker closes leaves everybody.
LEMMA DiscardStep ==
  ASSUME IInv, Typed', NEW w \in Worker, hand[w] # None, Discard(w),
         pc' = [pc EXCEPT ![w] = "rest"] \/ pc' = [pc EXCEPT ![w] = "acquire"],
         UNCHANGED <<prov, pool>>
  PROVE  IInv'
<1> USE DEF IInv, Typed, Stock, Pooled
<1>1. /\ hand'[w] = None /\ \A v \in Worker : v # w => hand'[v] = hand[v] /\ pc'[v] = pc[v]
      /\ pc'[w] \in {"rest", "acquire"} /\ open' = open \ {hand[w]}
      /\ midway' = midway \ {hand[w]} /\ owner' = owner
  BY DEF Discard
<1>2. idle' = idle /\ draining' = draining /\ shut' = shut /\ prov' = prov
  BY DEF pool
<1>3. Holding' /\ Bounded'
  BY <1>1, <1>2 DEF Holding, Bounded
<1>4. OneUser'
  <2>0. \A v \in Worker : hand'[v] # None => v # w /\ hand'[v] = hand[v]
    BY <1>1
  <2>1. \A u, v \in Worker : hand'[u] = hand'[v] /\ hand'[u] # None => u = v
    BY <2>0 DEF OneUser
  <2>2. ASSUME NEW v \in Worker, NEW i \in Instance
        PROVE  hand'[v] \notin Stock(i)'
    <3>1. None \notin Stock(i) /\ hand[v] \notin Stock(i)
      BY StockFacts DEF OneUser
    <3>2. hand'[v] \in {None, hand[v]}
      BY <2>0
    <3> QED
      BY <1>2, <3>1, <3>2
  <2>3. /\ \A i \in Instance : Pooled(i)' \cap draining'[i] = {}
        /\ \A i, j \in Instance : i # j => Stock(i)' \cap Stock(j)' = {}
    BY <1>2 DEF OneUser
  <2> QED
    BY <2>1, <2>2, <2>3 DEF OneUser
<1>5. Found'
  <2>1. \A v \in Worker : hand'[v] # None => v # w /\ hand'[v] \in open'
    BY <1>1 DEF Found, OneUser
  <2>2. \A i \in Instance : Stock(i)' \subseteq open'
    BY <1>1, <1>2 DEF Found, OneUser
  <2>3. ASSUME NEW c \in open'
        PROVE  (\E v \in Worker : hand'[v] = c) \/ \E i \in Instance : c \in Stock(i)'
    <3>1. c \in open /\ c # hand[w]
      BY <1>1
    <3>2. CASE \E v \in Worker : hand[v] = c
      BY <1>1, <3>1, <3>2
    <3>3. CASE \E i \in Instance : c \in Stock(i)
      BY <1>2, <3>3
    <3> QED
      BY <3>1, <3>2, <3>3 DEF Found
  <2> QED
    BY <1>2, <2>1, <2>2, <2>3 DEF Found
<1>6. Fit'
  <2>1. ASSUME NEW c \in midway'
        PROVE  \E v \in Worker : hand'[v] = c /\ pc'[v] = "sending"
    <3>1. PICK v \in Worker : hand[v] = c /\ pc[v] = "sending" /\ v # w
      BY <1>1 DEF Fit
    <3> QED
      BY <1>1, <3>1
  <2>2. \A v \in Worker : hand'[v] # None => owner'[hand'[v]] = prov'[v]
    BY <1>1, <1>2 DEF Fit
  <2>3. \A i \in Instance : \A c \in Pooled(i)' : owner'[c] = i
    BY <1>1, <1>2 DEF Fit
  <2> QED
    BY <2>1, <2>2, <2>3 DEF Fit
<1> QED
  BY <1>3, <1>4, <1>5, <1>6

\* A step that moves no connection.
LEMMA StayStep ==
  ASSUME IInv, Typed', UNCHANGED <<hand, pool, owner, open>>,
         \A w \in Worker : hand[w] # None => prov'[w] = prov[w],
         \A w \in Worker : pc'[w] \in {"rest", "acquire"} <=> pc[w] \in {"rest", "acquire"},
         \A c \in midway' : \E w \in Worker : hand[w] = c /\ pc'[w] = "sending"
  PROVE  IInv'
<1> USE DEF IInv, Typed, Stock, Pooled
<1>1. /\ idle' = idle /\ draining' = draining /\ shut' = shut
      /\ hand' = hand /\ open' = open /\ owner' = owner
  BY DEF pool
<1>2. Holding' /\ Bounded'
  BY <1>1 DEF Holding, Bounded
<1>3. OneUser'
  BY <1>1 DEF OneUser
<1>4. Found'
  BY <1>1 DEF Found
<1>5. Fit'
  BY <1>1 DEF Fit
<1> QED
  BY <1>2, <1>3, <1>4, <1>5

\* Closing a connection.
LEMMA DiscardTypes ==
  ASSUME Typed, NEW w \in Worker, Discard(w)
  PROVE  /\ hand' \in [Worker -> Conn \cup {None}] /\ owner' \in [Conn -> Instance]
         /\ open' \subseteq Conn /\ peer' \subseteq Conn /\ midway' \subseteq Conn
  BY DEF Typed, Discard

LEMMA TypedStep == Typed /\ Holding /\ [Next]_vars => Typed'
<1> SUFFICES ASSUME Typed, Holding, [Next]_vars PROVE Typed'
  OBVIOUS
<1>0. /\ \A w \in Worker, l \in {"rest", "acquire", "noop", "send", "sending", "reset",
                                  "release"} :
          Goto(w, l) => pc' \in [Worker -> {"rest", "acquire", "noop", "send", "sending",
                                           "reset", "release"}]
      /\ UNCHANGED faults \/ Fault => faults' \in Nat
  <2>1. UNCHANGED faults \/ Fault => faults' \in Nat
    BY DEF Typed, Fault
  <2> QED
    BY <2>1 DEF Typed, Goto
<1>1. ASSUME NEW w \in Worker, Start(w) PROVE Typed'
  BY <1>0, <1>1 DEF Start, Typed, pool, net
<1>2. ASSUME NEW w \in Worker, Pop(w) PROVE Typed'
  BY <1>0, <1>2, PopFacts DEF Pop, Typed, net
<1>3. ASSUME NEW w \in Worker, Noop(w) PROVE Typed'
  BY <1>0, <1>3, DiscardTypes DEF Noop, Typed, pool, net
<1>4. ASSUME NEW w \in Worker, Dial(w) PROVE Typed'
  <2>1. hand' \in [Worker -> Conn \cup {None}] /\ owner' \in [Conn -> Instance]
    <3>1. CASE UNCHANGED <<hand, net>>
      BY <3>1 DEF Typed, net
    <3>2. CASE \E c \in Conn \ open :
                 hand' = [hand EXCEPT ![w] = c] /\ owner' = [owner EXCEPT ![c] = prov[w]]
      BY <3>2 DEF Typed
    <3> QED
      BY <1>4, <3>1, <3>2 DEF Dial
  <2>2. open' \subseteq Conn /\ peer' \subseteq Conn /\ midway' \subseteq Conn
    BY <1>4 DEF Dial, Typed, net
  <2> QED
    BY <1>0, <1>4, <2>1, <2>2 DEF Dial, Typed, pool
<1>5. ASSUME NEW w \in Worker, Mail(w) PROVE Typed'
  BY <1>0, <1>5 DEF Mail, Typed, Holding, pool
<1>6. ASSUME NEW w \in Worker, Accepted(w) \/ Refused(w) PROVE Typed'
  BY <1>0, <1>6, DiscardTypes DEF Accepted, Refused, Typed, pool
<1>7. ASSUME NEW w \in Worker, Reset(w) PROVE Typed'
  BY <1>0, <1>7, DiscardTypes DEF Reset, Typed, pool, net
<1>8. ASSUME NEW w \in Worker, Release(w) PROVE Typed'
  <2>1. hand[w] \in Conn /\ idle[prov[w]] \in Seq(Conn) /\ prov[w] \in Instance
    BY <1>8 DEF Release, Typed, Holding
  <2>2. Append(idle[prov[w]], hand[w]) \in Seq(Conn)
    BY <2>1, AppendFacts
  <2>3. CASE Discard(w) /\ UNCHANGED idle
    BY <1>0, <1>8, <2>3, DiscardTypes DEF Release, Typed
  <2>4. CASE /\ idle' = [idle EXCEPT ![prov[w]] = Append(@, hand[w])]
             /\ hand' = [hand EXCEPT ![w] = None] /\ UNCHANGED net
    BY <1>0, <1>8, <2>1, <2>2, <2>4 DEF Release, Typed, net
  <2> QED
    BY <1>8, <2>3, <2>4 DEF Release
<1>9. CASE Reload \/ ServerDrops
  <2>1. CASE Reload
    <3>1. current' \in Instance
      BY <2>1, PoolAssumption DEF Reload, Instance, Typed
    <3> QED
      BY <2>1, <3>1 DEF Reload, Typed, pool, net
  <2>2. CASE ServerDrops
    BY <1>0, <2>2 DEF ServerDrops, Typed, pool
  <2> QED
    BY <1>9, <2>1, <2>2
<1>10. ASSUME NEW i \in Instance, Close(i) \/ Drain(i) PROVE Typed'
  <2>1. CASE Close(i)
    <3>1. ToSet(idle[i]) \subseteq Conn /\ <<>> \in Seq(Conn)
      BY SetFacts, EmptyFacts DEF Typed
    <3> QED
      BY <2>1, <3>1 DEF Close, Typed, net
  <2>2. CASE Drain(i)
    BY <2>2 DEF Drain, Typed
  <2> QED
    BY <1>10, <2>1, <2>2
<1>11. CASE UNCHANGED vars
  BY <1>11 DEF vars, Typed, pool, net
<1> QED
  BY <1>1, <1>2, <1>3, <1>4, <1>5, <1>6, <1>7, <1>8, <1>9, <1>10, <1>11 DEF Next, Send

\* A pooled connection goes to the worker that asked for it last.
LEMMA PopStep ==
  ASSUME IInv, Typed', NEW w \in Worker, Pop(w)
  PROVE  IInv'
<1> USE DEF IInv, Typed
<1> DEFINE i == prov[w]
           k == Last(idle[i])
<1>1. /\ i \in Instance /\ idle[i] \in Seq(Conn) /\ idle[i] # <<>> /\ hand[w] = None
      /\ pc'[w] = "noop" /\ hand'[w] = k
      /\ \A v \in Worker : v # w => hand'[v] = hand[v] /\ pc'[v] = pc[v]
      /\ UNCHANGED <<prov, shut, draining, owner, open, midway>>
      /\ i = prov[w] /\ idle'[i] = Front(idle[i]) /\ \A j \in Instance : j # i => idle'[j] = idle[j]
  BY DEF Pop, Goto, Holding, net
<1>2. /\ k \in Conn /\ k \in Pooled(i) /\ k # None
      /\ Len(Front(idle[i])) <= Len(idle[i]) /\ ToSet(idle'[i]) \subseteq Pooled(i)
      /\ Pooled(i) \subseteq ToSet(idle'[i]) \cup {k}
      /\ IsInjective(idle[i]) => IsInjective(idle'[i]) /\ k \notin ToSet(idle'[i])
  BY <1>1, PopFacts, PoolAssumption DEF Pooled
<1> HIDE DEF k, i
<1>3. Holding'
  BY <1>1, <1>2 DEF Holding
<1>4. Bounded'
  <2>1. ASSUME NEW j \in Instance PROVE IsInjective(idle'[j]) /\ Len(idle'[j]) <= MaxIdle
    <3>1. /\ IsInjective(idle[j]) /\ Len(idle[j]) <= MaxIdle /\ Len(idle[j]) \in Nat
          /\ Len(idle'[j]) \in Nat
      BY DEF Bounded
    <3>2. CASE j = i
      BY <1>1, <1>2, <3>1, <3>2, PoolAssumption
    <3>3. CASE j # i
      BY <1>1, <3>1, <3>3
    <3> QED
      BY <3>2, <3>3
  <2> QED
    BY <2>1 DEF Bounded
<1>5. /\ \A j \in Instance : Stock(j)' \subseteq Stock(j) /\ k \notin Stock(j)'
      /\ \A j \in Instance : \A c \in Stock(j) : c = k \/ c \in Stock(j)'
      /\ \A j \in Instance : Pooled(j)' \subseteq Pooled(j)
  <2>1. /\ k \notin draining[i] /\ IsInjective(idle[i])
        /\ \A j \in Instance : j # i => k \notin Stock(j)
    BY <1>1, <1>2 DEF OneUser, Bounded, Stock
  <2> QED
    BY <1>1, <1>2, <2>1 DEF Stock, Pooled
<1>6. OneUser'
  <2>1. \A v \in Worker : v # w => hand[v] # k
    BY <1>1, <1>2 DEF OneUser, Stock
  <2>2. ASSUME NEW u \in Worker, NEW v \in Worker, hand'[u] = hand'[v], hand'[u] # None
        PROVE  u = v
    <3>1. CASE u # w /\ v # w
      BY <1>1, <2>2, <3>1 DEF OneUser
    <3>2. CASE u = w \/ v = w
      BY <1>1, <2>1, <2>2, <3>2
    <3> QED
      BY <3>1, <3>2
  <2>3. \A v \in Worker, j \in Instance : hand'[v] \notin Stock(j)'
    BY <1>1, <1>5 DEF OneUser
  <2>4. /\ \A j \in Instance : Pooled(j)' \cap draining'[j] = {}
        /\ \A j, l \in Instance : j # l => Stock(j)' \cap Stock(l)' = {}
    BY <1>1, <1>5 DEF OneUser
  <2> QED
    BY <2>2, <2>3, <2>4 DEF OneUser
<1>7. Found'
  <2>1. k \in open /\ \A v \in Worker : hand'[v] # None => hand'[v] \in open'
    BY <1>1, <1>2 DEF Found, Stock
  <2>2. \A j \in Instance : Stock(j)' \subseteq open'
    BY <1>1, <1>5 DEF Found
  <2>3. ASSUME NEW c \in open'
        PROVE  (\E v \in Worker : hand'[v] = c) \/ \E j \in Instance : c \in Stock(j)'
    <3>1. CASE c = k
      BY <1>1, <3>1
    <3>2. CASE c # k /\ \E v \in Worker : hand[v] = c
      <4>1. PICK v \in Worker : hand[v] = c
        BY <3>2
      <4>2. v # w
        BY <1>1, <2>3, <4>1, PoolAssumption
      <4> QED
        BY <1>1, <4>1, <4>2
    <3>3. CASE c # k /\ \E j \in Instance : c \in Stock(j)
      BY <1>5, <3>3
    <3> QED
      BY <1>1, <3>1, <3>2, <3>3 DEF Found
  <2>4. /\ \A j \in shut' : idle'[j] = <<>>
        /\ \A j \in Instance \ shut' : draining'[j] = {}
    BY <1>1 DEF Found
  <2> QED
    BY <2>1, <2>2, <2>3, <2>4 DEF Found
<1>8. Fit'
  <2>1. ASSUME NEW c \in midway'
        PROVE  \E v \in Worker : hand'[v] = c /\ pc'[v] = "sending"
    <3>1. PICK v \in Worker : hand[v] = c /\ pc[v] = "sending"
      BY <1>1 DEF Fit
    <3>2. v # w
      BY <3>1 DEF Pop
    <3> QED
      BY <1>1, <3>1, <3>2
  <2>2. ASSUME NEW v \in Worker, hand'[v] # None PROVE owner'[hand'[v]] = prov'[v]
    <3>1. owner[k] = i
      BY <1>1, <1>2 DEF Fit
    <3> QED
      BY <1>1, <2>2, <3>1 DEF Fit
  <2>3. \A j \in Instance : \A c \in Pooled(j)' : owner'[c] = j
    BY <1>1, <1>5 DEF Fit
  <2> QED
    BY <2>1, <2>2, <2>3 DEF Fit
<1> QED
  BY <1>3, <1>4, <1>6, <1>7, <1>8

\* A new connection is one nobody has.
LEMMA DialStep ==
  ASSUME IInv, Typed', NEW w \in Worker, pc[w] = "acquire", NEW k \in Conn \ open,
         hand' = [hand EXCEPT ![w] = k], owner' = [owner EXCEPT ![k] = prov[w]],
         open' = open \cup {k}, Goto(w, "send"), UNCHANGED <<prov, pool, midway>>
  PROVE  IInv'
<1> USE DEF IInv, Typed
<1>1. /\ hand[w] = None /\ pc'[w] = "send" /\ hand'[w] = k /\ k # None
      /\ \A v \in Worker : v # w => hand'[v] = hand[v] /\ pc'[v] = pc[v]
      /\ idle' = idle /\ draining' = draining /\ shut' = shut /\ prov' = prov
      /\ owner'[k] = prov[w] /\ \A c \in Conn : c # k => owner'[c] = owner[c]
      /\ midway' = midway
  BY PoolAssumption DEF Goto, Holding, pool
<1>2. /\ \A v \in Worker : hand[v] # k
      /\ \A i \in Instance : k \notin Stock(i) /\ k \notin Pooled(i)
      /\ k \notin midway
  BY <1>1 DEF Found, Fit, Stock
<1>3. \A i \in Instance : Stock(i)' = Stock(i) /\ Pooled(i)' = Pooled(i)
                          /\ Pooled(i) \subseteq Conn
  BY <1>1, StockFacts DEF Stock, Pooled
<1>4. Holding' /\ Bounded'
  BY <1>1 DEF Holding, Bounded
<1>5. OneUser'
  <2>1. ASSUME NEW u \in Worker, NEW v \in Worker, hand'[u] = hand'[v], hand'[u] # None
        PROVE  u = v
    <3>1. CASE u # w /\ v # w
      BY <1>1, <2>1, <3>1 DEF OneUser
    <3>2. CASE u = w \/ v = w
      BY <1>1, <1>2, <2>1, <3>2
    <3> QED
      BY <3>1, <3>2
  <2>2. \A v \in Worker, i \in Instance : hand'[v] \notin Stock(i)'
    BY <1>1, <1>2, <1>3 DEF OneUser
  <2>3. /\ \A i \in Instance : Pooled(i)' \cap draining'[i] = {}
        /\ \A i, j \in Instance : i # j => Stock(i)' \cap Stock(j)' = {}
    BY <1>1, <1>3 DEF OneUser
  <2> QED
    BY <2>1, <2>2, <2>3 DEF OneUser
<1>6. Found'
  <2>1. \A v \in Worker : hand'[v] # None => hand'[v] \in open'
    BY <1>1 DEF Found
  <2>2. \A i \in Instance : Stock(i)' \subseteq open'
    BY <1>3 DEF Found
  <2>3. ASSUME NEW c \in open'
        PROVE  (\E v \in Worker : hand'[v] = c) \/ \E i \in Instance : c \in Stock(i)'
    <3>1. CASE c = k
      BY <1>1, <3>1
    <3>2. CASE c # k /\ \E v \in Worker : hand[v] = c
      <4>1. PICK v \in Worker : hand[v] = c
        BY <3>2
      <4>2. v # w
        BY <1>1, <2>3, <3>2, <4>1, PoolAssumption
      <4> QED
        BY <1>1, <4>1, <4>2
    <3>3. CASE c # k /\ \E i \in Instance : c \in Stock(i)
      BY <1>3, <3>3
    <3> QED
      BY <3>1, <3>2, <3>3 DEF Found
  <2>4. /\ \A i \in shut' : idle'[i] = <<>>
        /\ \A i \in Instance \ shut' : draining'[i] = {}
    BY <1>1 DEF Found
  <2> QED
    BY <2>1, <2>2, <2>3, <2>4 DEF Found
<1>7. Fit'
  <2>1. ASSUME NEW c \in midway'
        PROVE  \E v \in Worker : hand'[v] = c /\ pc'[v] = "sending"
    <3>1. PICK v \in Worker : hand[v] = c /\ pc[v] = "sending"
      BY <1>1, <2>1 DEF Fit
    <3> QED
      BY <1>1, <3>1
  <2>2. ASSUME NEW v \in Worker, hand'[v] # None PROVE owner'[hand'[v]] = prov'[v]
    <3>1. CASE v = w
      BY <1>1, <3>1
    <3>2. CASE v # w
      <4>1. hand'[v] = hand[v] /\ hand[v] # k /\ hand[v] \in Conn
        BY <1>1, <1>2, <2>2, <3>2
      <4> QED
        BY <1>1, <2>2, <4>1 DEF Fit
    <3> QED
      BY <3>1, <3>2
  <2>3. ASSUME NEW i \in Instance, NEW c \in Pooled(i)' PROVE owner'[c] = i
    <3>1. c \in Pooled(i) /\ c # k /\ c \in Conn
      BY <1>2, <1>3, <2>3
    <3> QED
      BY <1>1, <3>1 DEF Fit
  <2> QED
    BY <2>1, <2>2, <2>3 DEF Fit
<1> QED
  BY <1>4, <1>5, <1>6, <1>7

\* A connection is put back where it came from.
LEMMA PutBackStep ==
  ASSUME IInv, Typed', NEW w \in Worker, Release(w),
         prov[w] \notin shut, Len(idle[prov[w]]) < MaxIdle
  PROVE  IInv'
<1> USE DEF IInv, Typed
<1> DEFINE i == prov[w]
           k == hand[w]
<1>1. /\ i = prov[w] /\ i \in Instance /\ idle[i] \in Seq(Conn) /\ k \in Conn /\ k # None
      /\ pc[w] = "release" /\ k = hand[w] /\ i \notin shut /\ Len(idle[i]) < MaxIdle
  BY PoolAssumption DEF Release, Holding
<1>2. /\ pc'[w] = "rest" /\ hand'[w] = None
      /\ \A v \in Worker : v # w => hand'[v] = hand[v] /\ pc'[v] = pc[v]
      /\ UNCHANGED <<prov, shut, draining, owner, open, midway>>
      /\ idle'[i] = Append(idle[i], k) /\ \A j \in Instance : j # i => idle'[j] = idle[j]
  BY <1>1, PoolAssumption DEF Release, Goto, net
<1> HIDE DEF k, i
<1>3. /\ k \notin Stock(i) /\ IsInjective(idle'[i]) /\ Len(idle'[i]) = Len(idle[i]) + 1
      /\ ToSet(idle'[i]) = Pooled(i) \cup {k}
  BY <1>1, <1>2, AppendFacts DEF OneUser, Bounded, Stock, Pooled
<1>4. /\ \A v \in Worker : v # w => hand[v] # k
      /\ \A j \in Instance : k \notin Stock(j)
  BY <1>1 DEF OneUser
<1>5. /\ \A j \in Instance : Stock(j) \subseteq Stock(j)' /\ (j = i => k \in Stock(j)')
      /\ \A j \in Instance : \A c \in Stock(j)' : c \in Stock(j) \/ (j = i /\ c = k)
      /\ \A j \in Instance : \A c \in Pooled(j)' : c \in Pooled(j) \/ (j = i /\ c = k)
  BY <1>2, <1>3 DEF Stock, Pooled
<1>6. Holding'
  BY <1>1, <1>2 DEF Holding
<1>7. Bounded'
  <2>1. ASSUME NEW j \in Instance PROVE IsInjective(idle'[j]) /\ Len(idle'[j]) <= MaxIdle
    <3>1. CASE j = i
      <4>1. Len(idle[i]) \in Nat
        BY <1>1
      <4> QED
        BY <1>1, <1>3, <3>1, <4>1, PoolAssumption
    <3>2. CASE j # i
      BY <1>2, <3>2 DEF Bounded
    <3> QED
      BY <3>1, <3>2
  <2> QED
    BY <2>1 DEF Bounded
<1>8. OneUser'
  <2>1. \A u, v \in Worker : hand'[u] = hand'[v] /\ hand'[u] # None => u = v
    <3>1. \A v \in Worker : hand'[v] # None => v # w /\ hand'[v] = hand[v]
      BY <1>2
    <3> QED
      BY <3>1 DEF OneUser
  <2>2. ASSUME NEW v \in Worker, NEW j \in Instance
        PROVE  hand'[v] \notin Stock(j)'
    <3>1. None \notin Stock(j) /\ hand[v] \notin Stock(j)
      BY StockFacts DEF OneUser
    <3>2. hand'[v] = None \/ (hand'[v] = hand[v] /\ hand[v] # k)
      BY <1>2, <1>4
    <3>3. hand'[v] \in Stock(j)' => hand'[v] \in Stock(j) \/ hand'[v] = k
      BY <1>5
    <3> QED
      BY <1>1, <3>1, <3>2, <3>3
  <2>3. ASSUME NEW j \in Instance, NEW c \in Pooled(j)' PROVE c \notin draining'[j]
    <3>1. k \notin draining[j] /\ Pooled(j) \cap draining[j] = {}
      BY <1>4 DEF OneUser, Stock
    <3> QED
      BY <1>2, <1>5, <2>3, <3>1
  <2>4. ASSUME NEW j \in Instance, NEW l \in Instance, j # l, NEW c \in Stock(j)'
        PROVE  c \notin Stock(l)'
    <3>1. k \notin Stock(j) /\ k \notin Stock(l) /\ Stock(j) \cap Stock(l) = {}
      BY <1>4, <2>4 DEF OneUser
    <3>2. c \in Stock(j) \/ (j = i /\ c = k)
      BY <1>5, <2>4
    <3>3. c \in Stock(l)' => c \in Stock(l) \/ (l = i /\ c = k)
      BY <1>5
    <3> QED
      BY <2>4, <3>1, <3>2, <3>3
  <2>5. /\ \A j \in Instance : Pooled(j)' \cap draining'[j] = {}
        /\ \A j, l \in Instance : j # l => Stock(j)' \cap Stock(l)' = {}
    BY <2>3, <2>4
  <2> QED
    BY <2>1, <2>2, <2>5 DEF OneUser
<1>9. Found'
  <2>1. /\ k \in open
        /\ \A v \in Worker : hand'[v] # None => hand'[v] \in open'
    BY <1>1, <1>2 DEF Found
  <2>2. \A j \in Instance : Stock(j)' \subseteq open'
    BY <1>2, <1>5, <2>1 DEF Found
  <2>3. ASSUME NEW c \in open'
        PROVE  (\E v \in Worker : hand'[v] = c) \/ \E j \in Instance : c \in Stock(j)'
    <3>1. CASE c = k
      BY <1>1, <1>5, <3>1
    <3>2. CASE c # k /\ \E v \in Worker : hand[v] = c
      BY <1>1, <1>2, <3>2
    <3>3. CASE c # k /\ \E j \in Instance : c \in Stock(j)
      BY <1>5, <3>3
    <3> QED
      BY <1>2, <3>1, <3>2, <3>3 DEF Found
  <2>4. /\ \A j \in shut' : idle'[j] = <<>>
        /\ \A j \in Instance \ shut' : draining'[j] = {}
    BY <1>1, <1>2 DEF Found
  <2> QED
    BY <2>1, <2>2, <2>3, <2>4 DEF Found
<1>10. Fit'
  <2>1. ASSUME NEW c \in midway'
        PROVE  \E v \in Worker : hand'[v] = c /\ pc'[v] = "sending"
    <3>1. PICK v \in Worker : hand[v] = c /\ pc[v] = "sending"
      BY <1>2, <2>1 DEF Fit
    <3> QED
      BY <1>1, <1>2, <3>1
  <2>2. \A v \in Worker : hand'[v] # None => owner'[hand'[v]] = prov'[v]
    BY <1>2 DEF Fit
  <2>3. \A j \in Instance : \A c \in Pooled(j)' : owner'[c] = j
    <3>1. owner[k] = i
      BY <1>1 DEF Fit
    <3> QED
      BY <1>2, <1>5, <3>1 DEF Fit
  <2> QED
    BY <2>1, <2>2, <2>3 DEF Fit
<1> QED
  BY <1>6, <1>7, <1>8, <1>9, <1>10

\* Close takes the pool as it is.
LEMMA CloseStep ==
  ASSUME IInv, Typed', NEW i \in Instance, Close(i)
  PROVE  IInv'
<1> USE DEF IInv, Typed
<1>1. /\ i \notin shut /\ shut' = shut \cup {i} /\ idle'[i] = <<>>
      /\ draining'[i] = ToSet(idle[i]) /\ draining[i] = {}
      /\ \A j \in Instance : j # i => idle'[j] = idle[j] /\ draining'[j] = draining[j]
      /\ hand' = hand /\ pc' = pc /\ prov' = prov /\ open' = open /\ owner' = owner
      /\ midway' = midway
  BY DEF Close, net, Found
<1>2. ToSet(<<>>) = {} /\ IsInjective(<<>>) /\ Len(<<>>) = 0
  BY EmptyFacts
<1>3. ASSUME NEW j \in Instance
      PROVE  /\ ToSet(idle'[j]) \subseteq ToSet(idle[j])
             /\ ToSet(idle'[j]) \cup draining'[j] = ToSet(idle[j]) \cup draining[j]
             /\ ToSet(idle'[j]) \cap draining'[j] \subseteq ToSet(idle[j]) \cap draining[j]
             /\ IsInjective(idle'[j]) /\ Len(idle'[j]) <= MaxIdle
  <2>1. CASE j = i
    BY <1>1, <1>2, <2>1, PoolAssumption
  <2>2. CASE j # i
    BY <1>1, <2>2 DEF Bounded
  <2> QED
    BY <2>1, <2>2
<1>4. Holding' /\ Bounded'
  BY <1>1, <1>3 DEF Holding, Bounded
<1>5. OneUser'
  BY <1>1, <1>3 DEF OneUser, Stock, Pooled
<1>6. Found'
  BY <1>1, <1>3 DEF Found, Stock, Pooled
<1>7. Fit'
  BY <1>1, <1>3 DEF Fit, Pooled
<1> QED
  BY <1>4, <1>5, <1>6, <1>7

\* Close closes one of the connections it took.
LEMMA DrainStep ==
  ASSUME IInv, Typed', NEW i \in Instance, Drain(i)
  PROVE  IInv'
<1> USE DEF IInv, Typed
<1>0. PICK k \in draining[i] : draining' = [draining EXCEPT ![i] = @ \ {k}]
                              /\ open' = open \ {k}
  BY DEF Drain
<1>1. /\ idle' = idle /\ shut' = shut /\ hand' = hand /\ pc' = pc /\ prov' = prov
      /\ owner' = owner /\ midway' = midway /\ draining'[i] = draining[i] \ {k}
      /\ \A j \in Instance : j # i => draining'[j] = draining[j]
  BY <1>0 DEF Drain
<1>2. /\ \A v \in Worker : hand[v] # k
      /\ \A j \in Instance : j # i => k \notin ToSet(idle[j]) \cup draining[j]
      /\ k \notin ToSet(idle[i])
  <2>1. k \in ToSet(idle[i]) \cup draining[i] /\ k \in draining[i]
    BY <1>0
  <2> QED
    BY <2>1 DEF OneUser, Stock, Pooled
<1>3. \A j \in Instance :
        ToSet(idle'[j]) \cup draining'[j] = (ToSet(idle[j]) \cup draining[j]) \ {k}
  BY <1>1, <1>2
<1>4. Holding' /\ Bounded'
  BY <1>1 DEF Holding, Bounded
<1>5. OneUser'
  BY <1>1, <1>3 DEF OneUser, Stock, Pooled
<1>6. Found'
  <2>1. \A j \in Instance \ shut' : draining'[j] = {}
    BY <1>1 DEF Found
  <2>2. \A v \in Worker : hand'[v] # None => hand'[v] \in open'
    BY <1>0, <1>1, <1>2 DEF Found
  <2>3. \A j \in Instance : ToSet(idle'[j]) \cup draining'[j] \subseteq open'
    BY <1>0, <1>3 DEF Found, Stock, Pooled
  <2>4. ASSUME NEW c \in open'
        PROVE  \/ \E v \in Worker : hand'[v] = c
               \/ \E j \in Instance : c \in ToSet(idle'[j]) \cup draining'[j]
    <3>1. c \in open /\ c # k
      BY <1>0
    <3>2. CASE \E v \in Worker : hand[v] = c
      BY <1>1, <3>2
    <3>3. CASE \E j \in Instance : c \in ToSet(idle[j]) \cup draining[j]
      BY <1>3, <3>1, <3>3
    <3> QED
      BY <3>1, <3>2, <3>3 DEF Found, Stock, Pooled
  <2>5. \A j \in shut' : idle'[j] = <<>>
    BY <1>1 DEF Found
  <2> QED
    BY <2>1, <2>2, <2>3, <2>4, <2>5 DEF Found, Stock, Pooled
<1>7. Fit'
  BY <1>1 DEF Fit, Pooled
<1> QED
  BY <1>4, <1>5, <1>6, <1>7
-----------------------------------------------------------------------------
\* A transaction stays with its sender as long as that worker stays in it.
LEMMA SendersStay ==
  ASSUME Fit, midway' \subseteq midway,
         \A v \in Worker : pc[v] = "sending" /\ hand[v] \in midway' => pc'[v] = "sending"
  PROVE  \A c \in midway' : \E v \in Worker : hand[v] = c /\ pc'[v] = "sending"
<1> SUFFICES ASSUME NEW c \in midway'
             PROVE  \E v \in Worker : hand[v] = c /\ pc'[v] = "sending"
  OBVIOUS
<1>1. PICK v \in Worker : hand[v] = c /\ pc[v] = "sending"
  BY DEF Fit
<1> QED
  BY <1>1

LEMMA StepHolds == IInv /\ [Next]_vars => IInv'
<1> SUFFICES ASSUME IInv, [Next]_vars PROVE IInv'
  OBVIOUS
<1>0. Typed'
  BY TypedStep DEF IInv
<1> USE DEF IInv, Typed
<1>1. ASSUME NEW w \in Worker, Start(w) PROVE IInv'
  <2>1. /\ UNCHANGED <<hand, pool, owner, open>> /\ midway' = midway /\ hand[w] = None
        /\ pc[w] = "rest" /\ pc'[w] = "acquire"
        /\ \A v \in Worker : v # w => pc'[v] = pc[v] /\ prov'[v] = prov[v]
    BY <1>1 DEF Start, Goto, net, Holding
  <2>2. \A c \in midway' : \E v \in Worker : hand[v] = c /\ pc'[v] = "sending"
    BY <2>1, SendersStay
  <2> QED
    BY <1>0, <2>1, <2>2, StayStep
<1>2. ASSUME NEW w \in Worker, Pop(w) PROVE IInv'
  BY <1>0, <1>2, PopStep
<1>3. ASSUME NEW w \in Worker, Noop(w) PROVE IInv'
  <2>1. pc[w] = "noop" /\ hand[w] # None /\ UNCHANGED <<prov, pool>>
    BY <1>3 DEF Noop, Holding
  <2>2. CASE Discard(w) /\ Goto(w, "acquire")
    BY <1>0, <2>1, <2>2, DiscardStep DEF Goto
  <2>3. CASE Goto(w, "send") /\ UNCHANGED <<hand, net>>
    <3>1. /\ UNCHANGED <<hand, pool, owner, open>> /\ midway' = midway
          /\ pc'[w] = "send" /\ \A v \in Worker : v # w => pc'[v] = pc[v]
      BY <2>1, <2>3 DEF Goto, net
    <3>2. \A c \in midway' : \E v \in Worker : hand[v] = c /\ pc'[v] = "sending"
      BY <2>1, <3>1, SendersStay
    <3> QED
      BY <1>0, <2>1, <3>1, <3>2, StayStep
  <2> QED
    BY <1>3, <2>2, <2>3 DEF Noop
<1>4. ASSUME NEW w \in Worker, Dial(w) PROVE IInv'
  <2>1. CASE \E c \in Conn \ open :
               /\ hand' = [hand EXCEPT ![w] = c]
               /\ owner' = [owner EXCEPT ![c] = prov[w]]
               /\ open' = open \cup {c} /\ Goto(w, "send") /\ UNCHANGED midway
    BY <1>0, <1>4, <2>1, DialStep DEF Dial
  <2>2. CASE Goto(w, "rest") /\ UNCHANGED <<hand, net>>
    <3>1. /\ UNCHANGED <<hand, pool, prov, owner, open>> /\ midway' = midway
          /\ pc[w] = "acquire" /\ pc'[w] = "rest"
          /\ \A v \in Worker : v # w => pc'[v] = pc[v]
      BY <1>4, <2>2 DEF Dial, Goto, net
    <3>2. \A c \in midway' : \E v \in Worker : hand[v] = c /\ pc'[v] = "sending"
      BY <3>1, SendersStay
    <3> QED
      BY <1>0, <3>1, <3>2, StayStep
  <2> QED
    BY <1>4, <2>1, <2>2 DEF Dial
<1>5. ASSUME NEW w \in Worker, Mail(w) PROVE IInv'
  <2>1. /\ UNCHANGED <<hand, pool, prov, owner, open>> /\ midway' = midway \cup {hand[w]}
        /\ pc[w] = "send" /\ pc'[w] = "sending"
        /\ \A v \in Worker : v # w => pc'[v] = pc[v]
    BY <1>5 DEF Mail, Goto
  <2>2. ASSUME NEW c \in midway' PROVE \E v \in Worker : hand[v] = c /\ pc'[v] = "sending"
    <3>1. CASE c = hand[w]
      BY <2>1, <3>1
    <3>2. CASE c # hand[w]
      <4>1. PICK v \in Worker : hand[v] = c /\ pc[v] = "sending"
        BY <2>1, <2>2, <3>2 DEF Fit
      <4> QED
        BY <2>1, <4>1
    <3> QED
      BY <3>1, <3>2
  <2> QED
    BY <1>0, <2>1, <2>2, StayStep
<1>6. ASSUME NEW w \in Worker, Accepted(w) PROVE IInv'
  <2>1. /\ UNCHANGED <<hand, pool, prov, owner, open>> /\ midway' = midway \ {hand[w]}
        /\ pc[w] = "sending" /\ pc'[w] = "reset"
        /\ \A v \in Worker : v # w => pc'[v] = pc[v]
    BY <1>6 DEF Accepted, Goto
  <2>2. \A c \in midway' : \E v \in Worker : hand[v] = c /\ pc'[v] = "sending"
    BY <2>1, SendersStay
  <2> QED
    BY <1>0, <2>1, <2>2, StayStep
<1>7. ASSUME NEW w \in Worker, Refused(w) PROVE IInv'
  BY <1>0, <1>7, DiscardStep DEF Refused, Goto, Holding
<1>8. ASSUME NEW w \in Worker, Reset(w) PROVE IInv'
  <2>1. pc[w] = "reset" /\ hand[w] # None /\ UNCHANGED <<prov, pool>>
    BY <1>8 DEF Reset, Holding
  <2>2. CASE Discard(w) /\ Goto(w, "rest")
    BY <1>0, <2>1, <2>2, DiscardStep DEF Goto
  <2>3. CASE Goto(w, "release") /\ UNCHANGED <<hand, net>>
    <3>1. /\ UNCHANGED <<hand, pool, owner, open>> /\ midway' = midway
          /\ pc'[w] = "release" /\ \A v \in Worker : v # w => pc'[v] = pc[v]
      BY <2>1, <2>3 DEF Goto, net
    <3>2. \A c \in midway' : \E v \in Worker : hand[v] = c /\ pc'[v] = "sending"
      BY <2>1, <3>1, SendersStay
    <3> QED
      BY <1>0, <2>1, <3>1, <3>2, StayStep
  <2> QED
    BY <1>8, <2>2, <2>3 DEF Reset
<1>9. ASSUME NEW w \in Worker, Release(w) PROVE IInv'
  <2>1. pc[w] = "release" /\ hand[w] # None /\ prov' = prov /\ prov[w] \in Instance
    BY <1>9 DEF Release, Holding
  <2>2. CASE prov[w] \in shut \/ Len(idle[prov[w]]) >= MaxIdle
    <3>1. Discard(w) /\ pc' = [pc EXCEPT ![w] = "rest"] /\ UNCHANGED pool
      BY <1>9, <2>2 DEF Release, Goto, pool
    <3> QED
      BY <1>0, <2>1, <3>1, DiscardStep
  <2>3. CASE ~(prov[w] \in shut \/ Len(idle[prov[w]]) >= MaxIdle)
    <3>1. Len(idle[prov[w]]) \in Nat
      BY <2>1
    <3>2. Len(idle[prov[w]]) < MaxIdle
      BY <2>3, <3>1, PoolAssumption
    <3> QED
      BY <1>0, <1>9, <2>3, <3>2, PutBackStep
  <2> QED
    BY <2>2, <2>3
<1>10. CASE Reload \/ ServerDrops \/ UNCHANGED vars
  <2>1. UNCHANGED <<hand, pool, prov, owner, open>> /\ midway' = midway /\ pc' = pc
    BY <1>10 DEF Reload, ServerDrops, vars, net, pool
  <2>2. \A c \in midway' : \E v \in Worker : hand[v] = c /\ pc'[v] = "sending"
    BY <2>1, SendersStay
  <2> QED
    BY <1>0, <2>1, <2>2, StayStep
<1>11. ASSUME NEW i \in Instance, Close(i) \/ Drain(i) PROVE IInv'
  BY <1>0, <1>11, CloseStep, DrainStep
<1> QED
  BY <1>1, <1>2, <1>3, <1>4, <1>5, <1>6, <1>7, <1>8, <1>9, <1>10, <1>11 DEF Next, Send

\* The pool keeps its invariant through sends, reloads, closes and dropped connections.
THEOREM PoolInvariantHolds == Spec => []IInv
<1> QED
  BY InitHolds, StepHolds, PTL DEF Spec

\* A warm connection has one user at a time: a worker sending on it, one slot of one pool,
\* or the Close that is retiring it; and a pool stays within maxIdle.
THEOREM ExclusiveHolds == Spec => []Exclusive
<1>1. IInv => Exclusive
  <2> SUFFICES ASSUME IInv PROVE Exclusive
    OBVIOUS
  <2>1. \A i \in Instance : Held \cap Stock(i) = {}
    BY DEF IInv, OneUser, Held
  <2>2. \A i \in Instance : \A j \in Instance \ {i} : Stock(i) \cap Stock(j) = {}
    BY DEF IInv, OneUser
  <2> QED
    BY <2>1, <2>2 DEF Exclusive, IInv, OneUser, Bounded, Stock
<1> QED
  BY <1>1, PoolInvariantHolds, PTL

\* SendMail starts on an open connection dialled for the configuration the worker sends
\* with, and never on one an earlier message left in the middle of a transaction.
THEOREM CleanStartHolds == Spec => []CleanStart
<1>1. IInv => CleanStart
  <2> SUFFICES ASSUME IInv, NEW w \in Worker, pc[w] = "send"
               PROVE  hand[w] \in open \ midway /\ owner[hand[w]] = prov[w]
    BY DEF CleanStart
  <2>1. hand[w] # None
    BY DEF IInv, Holding
  <2>2. hand[w] \notin midway
    BY <2>1 DEF IInv, Fit, OneUser
  <2> QED
    BY <2>1, <2>2 DEF IInv, Found, Fit
<1> QED
  BY <1>1, PoolInvariantHolds, PTL

\* Every open connection is a worker's, a pool's or a Close's, and a worker that finishes
\* after the Close of its provider puts nothing back into the pool.
THEOREM NoneForgottenHolds == Spec => []NoneForgotten
<1>1. IInv => NoneForgotten
  <2> SUFFICES ASSUME IInv PROVE NoneForgotten
    OBVIOUS
  <2>1. ASSUME NEW c \in open
        PROVE  c \in Held \cup UNION {Pooled(i) \cup draining[i] : i \in Instance}
    <3>1. CASE \E w \in Worker : hand[w] = c
      <4>1. c # None
        BY PoolAssumption DEF IInv, Typed
      <4> QED
        BY <3>1, <4>1 DEF Held
    <3>2. CASE \E i \in Instance : c \in Stock(i)
      BY <3>2 DEF Stock
    <3> QED
      BY <3>1, <3>2 DEF IInv, Found
  <2>2. ASSUME NEW c \in Held \cup UNION {Pooled(i) \cup draining[i] : i \in Instance}
        PROVE  c \in open
    BY DEF IInv, Found, Held, Stock
  <2> QED
    BY <2>1, <2>2 DEF NoneForgotten, IInv, Found
<1> QED
  BY <1>1, PoolInvariantHolds, PTL
=============================================================================
