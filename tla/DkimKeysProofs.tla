---------------------------- MODULE DkimKeysProofs ----------------------------
(***************************************************************************)
(* The DKIM keys of a domain, for any selectors, keys, generations, zones  *)
(* and number of requests: no active row without its private key, and      *)
(* where nothing went wrong delivery signs with the key that the checks    *)
(* compare the zone with; what the grades of its records agree on; and     *)
(* that the SPF record a check proposes, for a record of any length, takes *)
(* nobody's authorization away.                                            *)
(***************************************************************************)
EXTENDS DkimKeys, FiniteSetTheorems, WellFoundedInduction, TLAPS
-----------------------------------------------------------------------------
(* What mergeSpf makes of a record, of any length.                         *)

\* Min is well defined.
LEMMA Least ==
  ASSUME NEW S \in SUBSET Nat, S # {}
  PROVE  Min(S) \in S /\ \A x \in S : Min(S) <= x
<1> DEFINE R == {p \in Nat \X Nat : p[1] < p[2]}
<1>1. IsWellFoundedOn(R, Nat)
  BY NatLessThanWellFounded DEF OpToRel
<1>2. \A x, y \in S : <<x, y>> \in R <=> x < y
  OBVIOUS
<1> HIDE DEF R
<1>3. PICK x \in S : \A y \in S : <<y, x>> \notin R
  BY <1>1, WFMin
<1>4. \A y \in S : ~ (y < x)
  BY <1>2, <1>3
<1>5. \A y \in S : x <= y
  BY <1>4
<1> QED
  BY <1>5 DEF Min

\* Where the first all of a record is, if anywhere.
FirstAll(record) == SelectInSeq(record, LAMBDA t : t \in All)

LEMMA FirstAllFacts ==
  ASSUME NEW Term, NEW record \in Seq(Term)
  PROVE  \/ FirstAll(record) = 0 /\ \A i \in 1 .. Len(record) : record[i] \notin All
         \/ /\ FirstAll(record) \in 1 .. Len(record) /\ record[FirstAll(record)] \in All
            /\ \A i \in 1 .. FirstAll(record) - 1 : record[i] \notin All
<1> DEFINE I == {i \in 1 .. Len(record) : record[i] \in All}
<1>1. FirstAll(record) = IF I # {} THEN Min(I) ELSE 0
  BY DEF FirstAll, SelectInSeq
<1>2. I \in SUBSET Nat
  OBVIOUS
<1>3. I # {} => Min(I) \in I /\ \A i \in I : Min(I) <= i
  BY <1>2, Least
<1>4. CASE I = {}
  BY <1>1, <1>4
<1>5. CASE I # {}
  <2>1. FirstAll(record) \in I /\ \A i \in I : FirstAll(record) <= i
    BY <1>1, <1>3, <1>5
  <2>2. \A i \in 1 .. FirstAll(record) - 1 : i \in 1 .. Len(record) /\ i \notin I
    BY <2>1
  <2> QED
    BY <2>1, <2>2
<1> QED
  BY <1>4, <1>5

\* A record of terms none of which is an all but the one at k.
LEMMA FirstAllIs ==
  ASSUME NEW Term, NEW record \in Seq(Term), NEW k \in 1 .. Len(record), record[k] \in All,
         \A i \in 1 .. k - 1 : record[i] \notin All
  PROVE  FirstAll(record) = k
<1>1. FirstAll(record) \in 1 .. Len(record) /\ record[FirstAll(record)] \in All
      /\ \A i \in 1 .. FirstAll(record) - 1 : record[i] \notin All
  BY FirstAllFacts
<1>2. ~ (FirstAll(record) < k) /\ ~ (k < FirstAll(record))
  BY <1>1
<1> QED
  BY <1>1, <1>2

LEMMA AuthorizedFacts ==
  ASSUME NEW Term, NEW record \in Seq(Term)
  PROVE  Authorized(record) = IF FirstAll(record) > 0
                              THEN {record[i] : i \in 1 .. FirstAll(record) - 1} \ {"redirect"}
                              ELSE {record[i] : i \in 1 .. Len(record)}
  BY DEF Authorized, FirstAll

LEMMA ToSetFacts ==
  ASSUME NEW Term, NEW p \in Seq(Term)
  PROVE  ToSet(p) = {p[i] : i \in 1 .. Len(p)} /\ ToSet(p) \subseteq Term
  BY DEF ToSet

Before(m, n) == {m[i] : i \in 1 .. n}

\* Three sequences, one after the other.
LEMMA Parts ==
  ASSUME NEW Term, NEW p \in Seq(Term), NEW q \in Seq(Term), NEW r \in Seq(Term)
  PROVE  /\ Before(p \o q \o r, Len(p) + Len(q)) = ToSet(p) \cup ToSet(q)
         /\ ToSet(p) \cup ToSet(q) \cup ToSet(r) \subseteq ToSet(p \o q \o r)
<1>1. PICK m : m = p \o q \o r
  OBVIOUS
<1>2. m \in Seq(Term) /\ Len(m) = Len(p) + Len(q) + Len(r)
  BY <1>1
<1>3. /\ ToSet(p) = {p[i] : i \in 1 .. Len(p)} /\ ToSet(q) = {q[i] : i \in 1 .. Len(q)}
      /\ ToSet(r) = {r[i] : i \in 1 .. Len(r)} /\ ToSet(m) = {m[i] : i \in 1 .. Len(m)}
  <2>1. ASSUME NEW u \in Seq(Term) PROVE ToSet(u) = {u[i] : i \in 1 .. Len(u)}
    BY DEF ToSet
  <2> QED
    BY <1>2, <2>1
<1>4. \A i \in 1 .. Len(p) : m[i] = p[i]
  BY <1>1
<1>5. \A i \in 1 .. Len(q) : m[Len(p) + i] = q[i]
  BY <1>1
<1>6. \A i \in 1 .. Len(r) : m[Len(p) + Len(q) + i] = r[i]
  BY <1>1
<1>7. ToSet(p) \cup ToSet(q) \subseteq Before(m, Len(p) + Len(q))
  <2>1. ASSUME NEW i \in 1 .. Len(p) PROVE i \in 1 .. Len(p) + Len(q) /\ p[i] = m[i]
    BY <1>4
  <2>2. ASSUME NEW i \in 1 .. Len(q) PROVE Len(p) + i \in 1 .. Len(p) + Len(q) /\ q[i] = m[Len(p) + i]
    BY <1>5
  <2> QED
    BY <1>3, <2>1, <2>2 DEF Before
<1>8. Before(m, Len(p) + Len(q)) \subseteq ToSet(p) \cup ToSet(q)
  <2> SUFFICES ASSUME NEW i \in 1 .. Len(p) + Len(q) PROVE m[i] \in ToSet(p) \cup ToSet(q)
    BY DEF Before
  <2>1. CASE i <= Len(p)
    BY <1>3, <1>4, <2>1
  <2>2. CASE i > Len(p)
    <3>1. i - Len(p) \in 1 .. Len(q) /\ m[Len(p) + (i - Len(p))] = m[i]
      BY <2>2
    <3>2. m[i] = q[i - Len(p)]
      BY <1>5, <3>1
    <3> QED
      BY <1>3, <3>1, <3>2
  <2> QED
    BY <2>1, <2>2
<1>9. Before(m, Len(p) + Len(q)) \subseteq ToSet(m)
  BY <1>3, <1>2 DEF Before
<1>10. ToSet(r) \subseteq ToSet(m)
  <2>1. ASSUME NEW i \in 1 .. Len(r) PROVE r[i] \in ToSet(m)
    <3>1. Len(p) + Len(q) + i \in 1 .. Len(m)
      BY <1>2
    <3> QED
      BY <1>3, <1>6, <3>1
  <2> QED
    BY <1>3, <2>1
<1> QED
  BY <1>1, <1>7, <1>8, <1>9, <1>10

\* mergeSpf, whatever terms are missing and wherever the record has its all: what it proposes
\* authorizes whom the old record authorized and whom was missing, and keeps every term.
THEOREM MergeAuthorizes ==
  ASSUME NEW Term, "-all" \in Term, NEW record \in Seq(Term), NEW missing \in Seq(Term),
         "redirect" \notin ToSet(record),
         ToSet(missing) \cap (All \cup {"redirect"}) = {}
  PROVE  /\ Authorized(record) \cup ToSet(missing) \subseteq Authorized(mergeSpf(record, missing))
         /\ ToSet(record) \cup ToSet(missing) \subseteq ToSet(mergeSpf(record, missing))
<1> DEFINE a == FirstAll(record)
           m == mergeSpf(record, missing)
           p == IF a > 0 THEN SubSeq(record, 1, a - 1) ELSE record
           r == IF a > 0 THEN SubSeq(record, a, Len(record)) ELSE <<"-all">>
<1>1. m = p \o missing \o r
  BY DEF mergeSpf, FirstAll
\* The record before its all, and what follows it.
<1>2. /\ p \in Seq(Term) /\ r \in Seq(Term) /\ Len(r) > 0 /\ r[1] \in All
      /\ ToSet(p) \cap All = {} /\ Authorized(record) = ToSet(p)
      /\ ToSet(p) \subseteq ToSet(record) /\ ToSet(record) \subseteq ToSet(p) \cup ToSet(r)
  <2>1. CASE a = 0
    <3>1. p = record /\ r = <<"-all">> /\ r \in Seq(Term)
      BY <2>1
    <3> HIDE DEF p, r
    <3>2. \A i \in 1 .. Len(record) : record[i] \notin All
      BY <2>1, FirstAllFacts
    <3>3. Len(r) > 0 /\ r[1] \in All
      <4>1. Len(r) = 1 /\ r[1] = "-all"
        BY <3>1
      <4>2. "-all" \in All
        BY DEF All, QualifiedAll
      <4> QED
        BY <4>1, <4>2
    <3>4. Authorized(record) = {record[i] : i \in 1 .. Len(record)}
      BY <2>1, AuthorizedFacts
    <3> QED
      BY <3>1, <3>2, <3>3, <3>4, ToSetFacts
  <2>2. CASE a > 0
    <3>1. a \in 1 .. Len(record) /\ record[a] \in All /\ \A i \in 1 .. a - 1 : record[i] \notin All
      BY <2>2, FirstAllFacts
    <3>2. Authorized(record) = {record[i] : i \in 1 .. a - 1} \ {"redirect"}
      BY <2>2, AuthorizedFacts
    <3> HIDE DEF a
    <3>3. /\ p \in Seq(Term) /\ Len(p) = a - 1
          /\ \A i \in 1 .. a - 1 : p[i] = record[i]
      BY <2>2, <3>1
    <3>4. /\ r \in Seq(Term) /\ Len(r) = Len(record) - a + 1
          /\ \A i \in 1 .. Len(record) - a + 1 : r[i] = record[a + i - 1]
      BY <2>2, <3>1
    <3> HIDE DEF p, r
    <3>5. r[1] = record[a] /\ Len(r) > 0
      BY <3>1, <3>4
    <3>6. ToSet(p) = {record[i] : i \in 1 .. a - 1}
      BY <3>1, <3>3, ToSetFacts
    <3>7. \A i \in a .. Len(record) : record[i] \in ToSet(r)
      <4> SUFFICES ASSUME NEW i \in a .. Len(record) PROVE record[i] \in ToSet(r)
        OBVIOUS
      <4>1. i - a + 1 \in 1 .. Len(r) /\ a + (i - a + 1) - 1 = i
        BY <3>1, <3>4
      <4>2. r[i - a + 1] = record[i]
        BY <3>4, <4>1
      <4> QED
        BY <3>4, <4>1, <4>2, ToSetFacts
    <3>8. ToSet(record) = {record[i] : i \in 1 .. Len(record)}
      BY ToSetFacts
    <3>9. ToSet(record) \subseteq ToSet(p) \cup ToSet(r)
      BY <3>1, <3>6, <3>7, <3>8
    <3>10. ToSet(p) \subseteq ToSet(record)
      BY <3>1, <3>6, <3>8
    <3>11. ToSet(p) \cap All = {}
      BY <3>1, <3>6
    <3> QED
      BY <3>1, <3>2, <3>3, <3>4, <3>5, <3>6, <3>9, <3>10, <3>11
  <2> QED
    BY <2>1, <2>2, FirstAllFacts
<1> HIDE DEF a, m, p, r
<1> DEFINE k == Len(p) + Len(missing) + 1
<1>3. /\ m \in Seq(Term) /\ Len(m) = Len(p) + Len(missing) + Len(r)
      /\ Before(m, Len(p) + Len(missing)) = ToSet(p) \cup ToSet(missing)
      /\ \A i \in 1 .. Len(r) : m[Len(p) + Len(missing) + i] = r[i]
      /\ ToSet(p) \cup ToSet(missing) \cup ToSet(r) \subseteq ToSet(m)
  <2>1. p \in Seq(Term) /\ r \in Seq(Term)
    BY <1>2
  <2>2. m \in Seq(Term) /\ Len(m) = Len(p) + Len(missing) + Len(r)
    BY <1>1, <2>1
  <2>3. \A i \in 1 .. Len(r) : m[Len(p) + Len(missing) + i] = r[i]
    BY <1>1, <2>1
  <2>4. Before(m, Len(p) + Len(missing)) = ToSet(p) \cup ToSet(missing)
    BY <1>1, <2>1, Parts
  <2>5. ToSet(p) \cup ToSet(missing) \cup ToSet(r) \subseteq ToSet(m)
    BY <1>1, <2>1, Parts
  <2> QED
    BY <2>2, <2>3, <2>4, <2>5
<1>4. k \in 1 .. Len(m) /\ m[k] \in All /\ k - 1 = Len(p) + Len(missing)
  BY <1>2, <1>3
<1>5. \A i \in 1 .. k - 1 : m[i] \notin All
  BY <1>2, <1>3, <1>4 DEF Before
<1>6. FirstAll(m) = k
  BY <1>3, <1>4, <1>5, FirstAllIs
<1>7. Authorized(m) = (ToSet(p) \cup ToSet(missing)) \ {"redirect"}
  <2>1. FirstAll(m) > 0 /\ FirstAll(m) - 1 = Len(p) + Len(missing)
    BY <1>4, <1>6
  <2>2. Authorized(m) = {m[i] : i \in 1 .. FirstAll(m) - 1} \ {"redirect"}
    BY <1>3, <2>1, AuthorizedFacts
  <2> QED
    BY <1>3, <2>1, <2>2 DEF Before
<1>8. Authorized(record) \cup ToSet(missing) \subseteq Authorized(m)
  BY <1>2, <1>7
<1>9. ToSet(record) \cup ToSet(missing) \subseteq ToSet(m)
  BY <1>2, <1>3
<1> QED
  BY <1>8, <1>9 DEF m

LEMMA MergeIs ==
  ASSUME NEW record, NEW missing
  PROVE  mergeSpf(record, missing)
           = IF FirstAll(record) > 0
             THEN SubSeq(record, 1, FirstAll(record) - 1) \o missing \o SubSeq(record, FirstAll(record), Len(record))
             ELSE record \o missing \o <<"-all">>
  BY DEF mergeSpf, FirstAll

LEMMA MergeIsSequence ==
  ASSUME NEW Term, "-all" \in Term, NEW record \in Seq(Term), NEW missing \in Seq(Term)
  PROVE  mergeSpf(record, missing) \in Seq(Term)
<1> DEFINE a == FirstAll(record)
<1>1. mergeSpf(record, missing) = IF a > 0 THEN SubSeq(record, 1, a - 1) \o missing \o SubSeq(record, a, Len(record))
                                            ELSE record \o missing \o <<"-all">>
  BY MergeIs
<1>2. a = 0 \/ a \in 1 .. Len(record)
  BY FirstAllFacts
<1> HIDE DEF a
<1>3. CASE a = 0
  BY <1>1, <1>3
<1>4. CASE a \in 1 .. Len(record)
  <2>1. SubSeq(record, 1, a - 1) \in Seq(Term) /\ SubSeq(record, a, Len(record)) \in Seq(Term)
    BY <1>4
  <2> QED
    BY <1>1, <1>4, <2>1
<1> QED
  BY <1>2, <1>3, <1>4

LEMMA IsSequenceOf ==
  ASSUME NEW Term, NEW s \in Seq(Term)
  PROVE  IsSequence(s)
<1>1. \A i \in 1 .. Len(s) : s[i] \in ToSet(s)
  BY DEF ToSet
<1> QED
  BY <1>1 DEF IsSequence

\* The members of a finite set, one after the other.
LEMMA SetToSeqFacts ==
  ASSUME NEW S, IsFiniteSet(S)
  PROVE  SetToSeq(S) \in Seq(S) /\ ToSet(SetToSeq(S)) = S
<1> DEFINE n == Cardinality(S)
           f == SetToSeq(S)
<1>1. n \in Nat /\ ExistsBijection(1 .. n, S)
  BY FS_CardinalityType
<1>2. \E g \in [1 .. n -> S] : IsInjective(g)
  BY <1>1 DEF ExistsBijection, Bijection, Injection
<1>3. f \in [1 .. n -> S] /\ IsInjective(f)
  BY <1>2 DEF SetToSeq
<1>4. Cardinality(1 .. n) = n
  BY <1>1, FS_Interval
<1>5. f \in Injection(1 .. n, S)
  BY <1>3 DEF Injection
<1>6. f \in Surjection(1 .. n, S)
  BY <1>4, <1>5, FS_Injection
<1> HIDE DEF f, n
<1>7. f \in Seq(S) /\ DOMAIN f = 1 .. n
  BY <1>1, <1>3
<1>8. ToSet(f) = S
  BY <1>3, <1>6, <1>7 DEF ToSet, Surjection
<1> QED
  BY <1>7, <1>8 DEF f

LEMMA RequiredFacts ==
  ASSUME NEW T, NEW S \in SUBSET Required(T)
  PROVE  IsFiniteSet(S) /\ S \cap (All \cup {"redirect"}) = {}
<1>1. Required(T) \subseteq {"include:google", "include:ses", "include:outlook"}
  BY DEF Required, providerMechanism
<1>2. IsFiniteSet({"include:google", "include:ses", "include:outlook"})
  <2>1. IsFiniteSet({} \cup {"include:google"})
    BY FS_EmptySet, FS_AddElement
  <2>2. IsFiniteSet(({} \cup {"include:google"}) \cup {"include:ses"})
    BY <2>1, FS_AddElement
  <2>3. IsFiniteSet((({} \cup {"include:google"}) \cup {"include:ses"}) \cup {"include:outlook"})
    BY <2>2, FS_AddElement
  <2>4. (({} \cup {"include:google"}) \cup {"include:ses"}) \cup {"include:outlook"}
        = {"include:google", "include:ses", "include:outlook"}
    OBVIOUS
  <2> QED
    BY <2>3, <2>4
<1>3. IsFiniteSet(S)
  BY <1>1, <1>2, FS_Subset
<1> QED
  BY <1>1, <1>3 DEF All, QualifiedAll

\* A check's proposal for a record (an empty one where there is none), given what it misses.
LEMMA ProposalFacts ==
  ASSUME NEW T, NEW missing \in SUBSET Required(T), NEW record, IsSequence(record)
  PROVE  LET fix == mergeSpf(record, SetToSeq(missing)) IN
         /\ IsSequence(fix)
         /\ "redirect" \notin ToSet(record) =>
               /\ Authorized(record) \cup missing \subseteq Authorized(fix)
               /\ ToSet(record) \cup missing \subseteq ToSet(fix)
<1> DEFINE Term == ToSet(record) \cup missing \cup {"-all"}
           more == SetToSeq(missing)
<1>1. IsFiniteSet(missing) /\ missing \cap (All \cup {"redirect"}) = {}
  BY RequiredFacts
<1>2. more \in Seq(missing) /\ ToSet(more) = missing
  BY <1>1, SetToSeqFacts
<1> HIDE DEF more
<1>3. more \in Seq(Term) /\ record \in Seq(Term) /\ "-all" \in Term
  <2>1. record \in Seq(ToSet(record))
    BY DEF IsSequence
  <2> QED
    BY <1>2, <2>1
<1> HIDE DEF Term
<1>4. IsSequence(mergeSpf(record, more))
  BY <1>3, MergeIsSequence, IsSequenceOf
<1>5. ASSUME "redirect" \notin ToSet(record)
      PROVE  /\ Authorized(record) \cup missing \subseteq Authorized(mergeSpf(record, more))
             /\ ToSet(record) \cup missing \subseteq ToSet(mergeSpf(record, more))
  BY <1>1, <1>2, <1>3, <1>5, MergeAuthorizes
<1> QED
  BY <1>4, <1>5 DEF more

\* What is proposed, when anything is: the record merged with what it misses.
LEMMA FixIs ==
  ASSUME Found(zone), gradeSpf(zone.spf, required).fix # None
  PROVE  LET record == IF zone.spf = <<>> THEN <<>> ELSE zone.spf[1] IN
         /\ IsSequence(record)
         /\ gradeSpf(zone.spf, required).fix = mergeSpf(record, SetToSeq(required \ ToSet(record)))
<1>1. CASE zone.spf = <<>>
  <2>1. ToSet(<<>>) = {} /\ IsSequence(<<>>)
    BY DEF ToSet, IsSequence
  <2>2. FirstAll(<<>>) = 0
    BY DEF FirstAll, SelectInSeq
  <2>3. mergeSpf(<<>>, SetToSeq(required)) = <<>> \o SetToSeq(required) \o <<"-all">>
    BY <2>2, MergeIs
  <2>4. SetToSeq(required) \in Seq(required)
    BY RequiredFacts, SetToSeqFacts DEF required
  <2>5. <<>> \o SetToSeq(required) = SetToSeq(required)
    BY <2>4
  <2>6. gradeSpf(zone.spf, required).fix = SetToSeq(required) \o <<"-all">>
    BY <1>1 DEF gradeSpf, Grade, buildSpf
  <2> QED
    BY <1>1, <2>1, <2>3, <2>5, <2>6
<1>2. CASE zone.spf # <<>>
  <2>1. zone.spf \in Seq(ToSet(zone.spf)) /\ Len(zone.spf) = 1
    <3>1. zone.spf \in Seq(ToSet(zone.spf))
      BY DEF Found, IsSequence
    <3>2. ~(Len(zone.spf) > 1)
      BY <1>2 DEF gradeSpf, Grade
    <3>3. Len(zone.spf) # 0
      BY <1>2, <3>1
    <3>4. PICK n \in Nat : n = Len(zone.spf)
      BY <3>1
    <3>5. n # 0 /\ ~(n > 1)
      BY <3>2, <3>3, <3>4
    <3>6. n = 1
      BY <3>5
    <3> QED
      BY <3>1, <3>4, <3>6
  <2>2. zone.spf[1] \in ToSet(zone.spf)
    BY <2>1 DEF ToSet
  <2>3. IsSequence(zone.spf[1])
    BY <2>2 DEF Found
  <2>4. gradeSpf(zone.spf, required).fix = mergeSpf(zone.spf[1], SetToSeq(required \ ToSet(zone.spf[1])))
    BY <1>2, <2>1 DEF gradeSpf, Grade
  <2> QED
    BY <1>2, <2>3, <2>4
<1> QED
  BY <1>1, <1>2
-----------------------------------------------------------------------------
(* The keys.                                                               *)

Typed ==
    /\ Found(zone)
    /\ keys \in [Selector -> KeyRow \cup {None}]
    /\ secret \in [Ref -> Key \cup {None}]
    /\ gen \in [Generation -> [pc : {"idle", "minted", "stored", "retired", "active", "replied", "done"},
                               sel : Selector \cup {None}]]
    /\ \A g \in Generation : gen[g].pc # "idle" => gen[g].sel \in Selector
    /\ signer \in Signer \cup {None}
    /\ load \in Load \cup {None}
    /\ pending \in BOOLEAN

\* The private key is stored before the row that refers to it is there, and every row refers to
\* its own: whichever of them is made active again is backed.
Backed ==
    mishaps \cap {"deleted", "edited"} = {} =>
        /\ \A s \in Selector : keys[s] # None => keys[s].ref = s /\ secret[s] # None
        /\ \A g \in Generation : gen[g].pc \in {"stored", "retired"} => secret[gen[g].sel] # None

\* One generation at a time, which has the only selector that may be out of step; of all the
\* others the row, active or not, has the very key that is stored.
Storing(s) == \E g \in Generation : gen[g].pc \in {"stored", "retired"} /\ gen[g].sel = s
InTurn ==
    /\ \A g, h \in Generation : UnderWay(g) /\ UnderWay(h) => g = h
    /\ \A s, t \in Active : s = t
    /\ \A g \in Generation : gen[g].pc \in {"stored", "retired"} => secret[gen[g].sel] = g
    /\ \A g \in Generation : gen[g].pc = "retired" => Active = {}
    /\ \A s \in Selector : keys[s] # None =>
          /\ keys[s].ref = s /\ keys[s].key # "foreign"
          /\ secret[s] = keys[s].key \/ Storing(s)

\* What delivery should sign with.
Current(x) ==
    /\ x = None <=> Active = {}
    /\ \A s \in Active : x = [sel |-> s, key |-> keys[s].key]

\* Between the first write of a generation and its announcement, delivery may be out of
\* date: config.changed is still to come.
Coming == pending \/ \E g \in Generation : gen[g].pc \in {"stored", "retired", "active"}

\* Otherwise it has the current signer, or is about to find it.
UpToDate ==
    ~Coming =>
        /\ load = None => Current(signer)
        /\ load # None => \/ load.todo = {[sel |-> s, ref |-> s] : s \in Active} /\ load.found = None
                          \/ load.todo = {} /\ Current(load.found)

IInv == Typed /\ Backed /\ (mishaps = {} => InTurn /\ UpToDate)
-----------------------------------------------------------------------------
LEMMA InitHolds == Init => IInv
<1> SUFFICES ASSUME Init PROVE IInv
  OBVIOUS
<1> USE DkimAssumption
<1>1. PICK s \in Start :
        /\ zone = s.zone
        /\ keys = [x \in Selector |-> IF x \in s.keyed THEN OwnRow(x, OldKey) ELSE None]
        /\ secret = [x \in Ref |-> IF x \in s.keyed THEN OldKey ELSE None]
        /\ gen = [g \in Generation |-> [pc |-> "idle", sel |-> None]]
        /\ signer = IF s.keyed = {} THEN None ELSE [sel |-> CHOOSE x \in s.keyed : TRUE, key |-> OldKey]
        /\ load = None /\ pending = FALSE /\ mishaps = {}
  BY DEF Init
<1>2. OldKey \in Key /\ \A x \in Selector :
        OwnRow(x, OldKey) \in KeyRow /\ OwnRow(x, OldKey) # None /\ OwnRow(x, OldKey).rotation = "active"
        /\ OwnRow(x, OldKey).key = OldKey /\ OwnRow(x, OldKey).ref = x
  BY DEF OwnRow, KeyRow, Key, Ref, Rotation
<1>3. Active = s.keyed
  BY <1>1, <1>2 DEF Active
<1>4. signer \in Signer \cup {None}
  BY <1>1, <1>2 DEF Signer
<1>10. s.keyed \subseteq Selector /\ Selector \subseteq Ref
  BY DEF Ref
<1>11. \A x \in Selector : keys[x] # None => keys[x] = OwnRow(x, OldKey) /\ secret[x] = OldKey
  BY <1>1, <1>10
<1>5. Typed
  BY <1>1, <1>2, <1>4, <1>10 DEF Typed
<1>6. Backed
  BY <1>1, <1>2, <1>11 DEF Backed, Key
<1>7. InTurn
  BY <1>1, <1>2, <1>3, <1>11 DEF InTurn, UnderWay
<1>8. Current(signer)
  <2>1. CASE s.keyed = {}
    BY <1>1, <1>3, <2>1 DEF Current
  <2>2. CASE s.keyed # {}
    <3>1. PICK x \in s.keyed : \A y \in s.keyed : x = y
      BY <2>2
    <3>2. signer = [sel |-> x, key |-> OldKey]
      BY <1>1, <2>2, <3>1
    <3> QED
      BY <1>1, <1>2, <1>3, <2>2, <3>1, <3>2 DEF Current, Signer
  <2> QED
    BY <2>1, <2>2
<1>9. UpToDate
  BY <1>1, <1>8 DEF UpToDate
<1> QED
  BY <1>5, <1>6, <1>7, <1>9 DEF IInv

\* A generation that moves on keeps its selector.
LEMMA GotoFacts ==
  ASSUME Typed, NEW g \in Generation, gen[g].pc # "idle",
         NEW l \in {"minted", "stored", "retired", "active", "replied", "done"}, Goto(g, l)
  PROVE  /\ gen' = [gen EXCEPT ![g] = [pc |-> l, sel |-> gen[g].sel]]
         /\ gen[g].sel \in Selector
<1>1. gen[g] \in [pc : {"idle", "minted", "stored", "retired", "active", "replied", "done"},
                  sel : Selector \cup {None}]
  BY DEF Typed
<1>2. [gen[g] EXCEPT !.pc = l] = [pc |-> l, sel |-> gen[g].sel]
  BY <1>1
<1> QED
  BY <1>2 DEF Typed, Goto

LEMMA PublishTypes == Typed /\ Publish => Found(zone)'
<1> SUFFICES ASSUME Typed, Publish PROVE Found(zone)'
  OBVIOUS
<1>1. ASSUME NEW x, zone' = [zone EXCEPT !.dkim = x] PROVE Found(zone)'
  BY <1>1 DEF Typed, Found
<1>2. ASSUME gradeSpf(zone.spf, required).fix # None,
             zone' = [zone EXCEPT !.spf = <<gradeSpf(zone.spf, required).fix>>]
      PROVE  Found(zone)'
  <2>1. PICK fix : fix = gradeSpf(zone.spf, required).fix
    OBVIOUS
  <2>2. IsSequence(fix)
    <3> DEFINE record == IF zone.spf = <<>> THEN <<>> ELSE zone.spf[1]
    <3>1. IsSequence(record) /\ fix = mergeSpf(record, SetToSeq(required \ ToSet(record)))
      BY <1>2, <2>1, FixIs DEF Typed
    <3> HIDE DEF record
    <3> QED
      BY <3>1, ProposalFacts DEF required
  <2>3. zone'.spf = <<fix>> /\ ToSet(<<fix>>) = {fix} /\ IsSequence(<<fix>>)
    BY <1>2, <2>1 DEF Typed, Found, ToSet, IsSequence
  <2>4. DOMAIN zone' = DOMAIN zone /\ \A f \in DOMAIN zone : f # "spf" => zone'[f] = zone[f]
    BY <1>2
  <2> QED
    BY <2>2, <2>3, <2>4 DEF Typed, Found
<1>3. ASSUME gradeDmarc(zone.dmarc).fix # None, NEW kept \in {<<>>, zone.dmarc},
             zone' = [zone EXCEPT !.dmarc = Append(kept, gradeDmarc(zone.dmarc).fix)]
      PROVE  Found(zone)'
  <2>1. gradeDmarc(zone.dmarc).fix \in DmarcRecord
    BY <1>3 DEF gradeDmarc, Grade, DmarcRecord, DmarcPolicy
  <2>2. kept \in Seq(DmarcRecord)
    <3>1. zone.dmarc \in Seq(DmarcRecord)
      BY DEF Typed, Found
    <3>2. CASE kept = <<>>
      BY <3>2
    <3>3. CASE kept = zone.dmarc
      BY <3>1, <3>3
    <3> QED
      BY <3>2, <3>3
  <2>3. Append(kept, gradeDmarc(zone.dmarc).fix) \in Seq(DmarcRecord)
    BY <2>1, <2>2
  <2>4. zone'.dmarc \in Seq(DmarcRecord) /\ DOMAIN zone' = DOMAIN zone
        /\ \A f \in DOMAIN zone : f # "dmarc" => zone'[f] = zone[f]
    BY <1>3, <2>3 DEF Typed, Found
  <2> QED
    BY <2>4 DEF Typed, Found
<1> QED
  BY <1>1, <1>2, <1>3 DEF Publish

LEMMA TypedStep == Typed /\ [Next]_vars => Typed'
<1> SUFFICES ASSUME Typed, [Next]_vars PROVE Typed'
  OBVIOUS
<1> USE DkimAssumption DEF dbVars, rest
<1>1. ASSUME NEW g \in Generation, Begin(g) PROVE Typed'
  BY <1>1 DEF Begin, Typed
<1>2. ASSUME NEW g \in Generation, Generate(g) PROVE Typed'
  <2>1. CASE PutSecret(g, "minted", "stored")
    BY <2>1, GotoFacts DEF PutSecret, Typed, Key, Ref
  <2>2. CASE Retire(g, "stored", "retired")
    <3>1. keys' \in [Selector -> KeyRow \cup {None}]
      BY <2>2 DEF Retire, Typed, Active, KeyRow, Rotation
    <3>2. /\ gen' = [gen EXCEPT ![g] = [pc |-> "retired", sel |-> gen[g].sel]]
          /\ gen[g].sel \in Selector
      BY <2>2, GotoFacts DEF Retire
    <3>3. UNCHANGED <<zone, secret, signer, load, pending>>
      BY <2>2 DEF Retire, rest
    <3> QED
      BY <3>1, <3>2, <3>3 DEF Typed
  <2>3. CASE Activate(g, "retired", "active")
    <3>1. gen[g].sel \in Selector => OwnRow(gen[g].sel, g) \in KeyRow
      BY DEF OwnRow, KeyRow, Key, Ref, Rotation
    <3> QED
      BY <2>3, <3>1, GotoFacts DEF Activate, Typed
  <2>4. CASE Announce(g)
    BY <2>4, GotoFacts DEF Announce, Typed
  <2> QED
    BY <1>2, <2>1, <2>2, <2>3, <2>4 DEF Generate
<1>3. ASSUME NEW g \in Generation, GenerateFails(g) PROVE Typed'
  BY <1>3, GotoFacts DEF GenerateFails, UnderWay, Typed
<1>4. CASE SetRotation \/ DeleteKey \/ EditKey
  <2>1. keys' \in [Selector -> KeyRow \cup {None}]
    <3>1. CASE SetRotation
      BY <3>1 DEF SetRotation, Typed, KeyRow
    <3>2. CASE DeleteKey
      BY <3>2 DEF DeleteKey, Typed
    <3>3. CASE EditKey
      BY <3>3 DEF EditKey, Typed
    <3> QED
      BY <1>4, <3>1, <3>2, <3>3
  <2>2. pending' \in BOOLEAN
    BY <1>4 DEF SetRotation, DeleteKey, EditKey, Tell, Typed
  <2> QED
    BY <1>4, <2>1, <2>2 DEF SetRotation, DeleteKey, EditKey, others, Typed
<1>5. CASE DeleteSecret \/ SetSecret
  <2>1. secret' \in [Ref -> Key \cup {None}]
    BY <1>5 DEF DeleteSecret, SetSecret, Typed, Key
  <2>2. pending' \in BOOLEAN
    BY <1>5 DEF DeleteSecret, SetSecret, Typed
  <2> QED
    BY <1>5, <2>1, <2>2 DEF DeleteSecret, SetSecret, others, Typed
<1>6. CASE LoadRows
  <2>1. {[sel |-> s, ref |-> keys[s].ref] : s \in Active} \subseteq [sel : Selector, ref : Ref]
    <3>1. \A s \in Active : s \in Selector /\ keys[s] \in KeyRow
      BY DEF Active, Typed
    <3>2. \A s \in Active : keys[s].ref \in Ref
      BY <3>1 DEF KeyRow
    <3> QED
      BY <3>1, <3>2
  <2>2. load' \in Load
    BY <1>6, <2>1 DEF LoadRows, Load
  <2> QED
    BY <1>6, <2>2 DEF LoadRows, Typed
<1>7. CASE FetchSecret
  <2>1. PICK r \in load.todo :
          \/ /\ secret[r.ref] # None
             /\ load' = [todo |-> load.todo \ {r}, found |-> [sel |-> r.sel, key |-> secret[r.ref]]]
          \/ load' = [load EXCEPT !.todo = @ \ {r}]
    BY <1>7 DEF FetchSecret
  <2>2. load \in Load
    BY <1>7 DEF FetchSecret, Typed
  <2>3. r \in [sel : Selector, ref : Ref]
    BY <2>2 DEF Load
  <2>4. secret[r.ref] # None => [sel |-> r.sel, key |-> secret[r.ref]] \in Signer
    BY <2>3 DEF Typed, Signer
  <2>5. load' \in Load
    BY <2>1, <2>2, <2>4 DEF Load
  <2> QED
    BY <1>7, <2>5 DEF FetchSecret, Typed
<1>8. CASE Install \/ Restart
  BY <1>8 DEF Install, Restart, Typed, Load
<1>9. CASE Publish
  BY <1>9, PublishTypes DEF Publish, Typed
<1>10. CASE UNCHANGED vars
  BY <1>10 DEF vars, Typed
<1> QED
  BY <1>1, <1>2, <1>3, <1>4, <1>5, <1>6, <1>7, <1>8, <1>9, <1>10 DEF Next

\* ActiveBacked needs no order between generations: each has stored its own key first.
LEMMA BackedStep == Typed /\ Backed /\ [Next]_vars => Backed'
<1> SUFFICES ASSUME Typed, Backed, [Next]_vars PROVE Backed'
  OBVIOUS
<1> USE DkimAssumption DEF dbVars, rest
<1>0. mishaps \cap {"deleted", "edited"} = {} =>
        /\ \A s \in Selector : keys[s] # None => keys[s].ref = s /\ secret[s] # None
        /\ \A g \in Generation : gen[g].pc \in {"stored", "retired"} => secret[gen[g].sel] # None
  BY DEF Backed
<1> DEFINE Stored(h) == gen[h].pc \in {"stored", "retired"}
<1>1. ASSUME mishaps \subseteq mishaps', UNCHANGED <<keys, secret>>,
             \A h \in Generation : Stored(h)' => Stored(h) /\ gen'[h].sel = gen[h].sel
      PROVE  Backed'
  BY <1>0, <1>1 DEF Backed
<1>2. ASSUME NEW g \in Generation, Begin(g) PROVE Backed'
  BY <1>1, <1>2 DEF Begin, Typed
<1>3. ASSUME NEW g \in Generation, Generate(g) PROVE Backed'
  <2>1. CASE PutSecret(g, "minted", "stored")
    <3>1. /\ secret' = [secret EXCEPT ![gen[g].sel] = g] /\ g # None
          /\ gen' = [gen EXCEPT ![g] = [pc |-> "stored", sel |-> gen[g].sel]]
      BY <2>1, GotoFacts DEF PutSecret, Key
    <3>2. keys' = keys /\ mishaps' = mishaps
      BY <2>1 DEF PutSecret
    <3>3. \A s \in Selector : secret[s] # None => secret'[s] # None
      BY <3>1 DEF Typed, Ref
    <3>4. ASSUME mishaps \cap {"deleted", "edited"} = {}, NEW h \in Generation, gen'[h].pc \in {"stored", "retired"}
          PROVE  secret'[gen'[h].sel] # None
      <4>1. CASE h = g
        BY <2>1, <3>1, <4>1, GotoFacts DEF PutSecret, Typed, Ref
      <4>2. CASE h # g
        BY <1>0, <3>1, <3>3, <3>4, <4>2 DEF Typed
      <4> QED
        BY <4>1, <4>2
    <3> QED
      BY <1>0, <3>2, <3>3, <3>4 DEF Backed
  <2>2. CASE Retire(g, "stored", "retired")
    <3>1. /\ gen' = [gen EXCEPT ![g] = [pc |-> "retired", sel |-> gen[g].sel]]
          /\ gen[g].pc = "stored" /\ UNCHANGED <<secret, mishaps>>
      BY <2>2, GotoFacts DEF Retire
    <3>2. \A s \in Selector : keys'[s] # None => keys[s] # None /\ keys'[s].ref = keys[s].ref
      BY <2>2 DEF Retire, Active, Typed, KeyRow
    <3> QED
      BY <1>0, <3>1, <3>2 DEF Backed, Typed
  <2>3. CASE Activate(g, "retired", "active")
    <3>1. /\ gen' = [gen EXCEPT ![g] = [pc |-> "active", sel |-> gen[g].sel]]
          /\ gen[g].pc = "retired" /\ UNCHANGED <<secret, mishaps>>
          /\ gen[g].sel \in Selector
      BY <2>3, GotoFacts DEF Activate
    <3>2. /\ keys'[gen[g].sel].ref = gen[g].sel
          /\ \A s \in Selector : s # gen[g].sel => keys'[s] = keys[s]
      BY <2>3, <3>1 DEF Activate, OwnRow, Typed
    <3> QED
      BY <1>0, <3>1, <3>2 DEF Backed, Typed
  <2>4. CASE Announce(g)
    <3>1. gen' = [gen EXCEPT ![g] = [pc |-> "replied", sel |-> gen[g].sel]]
      BY <2>4, GotoFacts DEF Announce
    <3> QED
      BY <1>1, <2>4, <3>1 DEF Announce, Typed
  <2> QED
    BY <1>3, <2>1, <2>2, <2>3, <2>4 DEF Generate
<1>4. ASSUME NEW g \in Generation, GenerateFails(g) PROVE Backed'
  <2>1. gen' = [gen EXCEPT ![g] = [pc |-> "done", sel |-> gen[g].sel]]
    BY <1>4, GotoFacts DEF GenerateFails, UnderWay
  <2> QED
    BY <1>1, <1>4, <2>1 DEF GenerateFails, Typed
<1>5. CASE SetRotation \/ DeleteKey
  <2>1. \A s \in Selector : keys'[s] # None => keys[s] # None /\ keys'[s].ref = keys[s].ref
    <3>1. CASE SetRotation
      BY <3>1 DEF SetRotation, Typed, KeyRow
    <3>2. CASE DeleteKey
      BY <3>2 DEF DeleteKey, Typed
    <3> QED
      BY <1>5, <3>1, <3>2
  <2>2. mishaps \subseteq mishaps' /\ UNCHANGED <<secret, gen>>
    BY <1>5 DEF SetRotation, DeleteKey, Tell, others
  <2> QED
    BY <1>0, <2>1, <2>2 DEF Backed
<1>6. CASE DeleteSecret \/ EditKey
  BY <1>6 DEF DeleteSecret, EditKey, Backed
<1>7. CASE SetSecret
  <2>1. \A s \in Selector : secret[s] # None => secret'[s] # None
    BY <1>7 DEF SetSecret, Typed, Ref, Key
  <2>2. keys' = keys /\ gen' = gen /\ mishaps \subseteq mishaps'
    BY <1>7 DEF SetSecret, others
  <2> QED
    BY <1>0, <2>1, <2>2 DEF Backed, Typed
<1>8. CASE LoadRows \/ FetchSecret \/ Install \/ Restart \/ Publish \/ UNCHANGED vars
  BY <1>1, <1>8 DEF LoadRows, FetchSecret, Unread, Install, Restart, Publish, vars
<1> QED
  BY <1>2, <1>3, <1>4, <1>5, <1>6, <1>7, <1>8 DEF Next

\* Generations that neither overlap nor die: what they leave behind at each step.
LEMMA InTurnStep ==
  ASSUME Typed, InTurn, mishaps = {}, mishaps' = {}, [Next]_vars
  PROVE  InTurn'
<1> USE DkimAssumption DEF dbVars, rest
<1> DEFINE Idling(l) == l \in {"idle", "done", "replied"}
<1>1. ASSUME UNCHANGED <<keys, secret>>,
             \A h \in Generation : gen'[h] = gen[h] \/ Idling(gen'[h].pc),
             \A h \in Generation : gen[h].pc \in {"stored", "retired"} => gen'[h] = gen[h]
      PROVE  InTurn'
  BY <1>1 DEF Active, InTurn, UnderWay, Storing
<1>2. ASSUME NEW g \in Generation, Begin(g) PROVE InTurn'
  <2>1. \A h \in Generation : ~UnderWay(h)
    BY <1>2 DEF Begin
  <2>2. \A h \in Generation : IF h = g THEN gen'[h].pc = "minted" ELSE gen'[h] = gen[h]
    BY <1>2 DEF Begin, Typed
  <2>3. UNCHANGED <<keys, secret>>
    BY <1>2 DEF Begin
  <2> QED
    BY <2>1, <2>2, <2>3 DEF InTurn, UnderWay, Active, Storing
<1>3. ASSUME NEW g \in Generation, Generate(g) PROVE InTurn'
  <2>0. UnderWay(g) /\ gen[g].pc # "idle"
    BY <1>3 DEF Generate, PutSecret, Retire, Activate, Announce, UnderWay
  <2>1. \A h \in Generation : h # g => ~UnderWay(h)
    BY <2>0 DEF InTurn
  <2>2. CASE PutSecret(g, "minted", "stored")
    <3>1. /\ secret' = [secret EXCEPT ![gen[g].sel] = g] /\ gen[g].sel \in Selector
          /\ gen' = [gen EXCEPT ![g] = [pc |-> "stored", sel |-> gen[g].sel]]
      BY <2>2, <2>0, GotoFacts DEF PutSecret
    <3>2. Active' = Active /\ keys' = keys
      BY <2>2 DEF PutSecret, Active
    <3>3. secret'[gen[g].sel] = g /\ \A s \in Selector : s # gen[g].sel => secret'[s] = secret[s]
      BY <3>1 DEF Typed, Ref
    <3>4. gen'[g].pc = "stored" /\ gen'[g].sel = gen[g].sel
          /\ \A h \in Generation : h # g => gen'[h] = gen[h]
      BY <3>1 DEF Typed
    <3>5. gen[g].pc = "minted"
      BY <2>2 DEF PutSecret
    <3>6. \A s \in Selector : keys'[s] # None => secret'[s] = keys'[s].key \/ Storing(s)'
      BY <2>1, <3>2, <3>3, <3>4, <3>5 DEF InTurn, UnderWay, Storing
    <3> QED
      BY <2>1, <3>2, <3>3, <3>4, <3>5, <3>6 DEF InTurn, UnderWay
  <2>3. CASE Retire(g, "stored", "retired")
    <3>1. /\ gen' = [gen EXCEPT ![g] = [pc |-> "retired", sel |-> gen[g].sel]]
          /\ gen[g].pc = "stored" /\ secret' = secret
      BY <2>3, <2>0, GotoFacts DEF Retire
    <3>2. Active' = {}
      BY <2>3 DEF Retire, Active
    <3>3. \A h \in Generation : IF h = g THEN gen'[h] = [pc |-> "retired", sel |-> gen[g].sel]
                                          ELSE gen'[h] = gen[h]
      BY <3>1 DEF Typed
    <3>4. \A s \in Selector : keys'[s] # None =>
             keys[s] # None /\ keys'[s].ref = keys[s].ref /\ keys'[s].key = keys[s].key
      BY <2>3 DEF Retire, Active, Typed, KeyRow
    <3>5. \A s \in Selector : Storing(s) => Storing(s)'
      BY <3>3 DEF Storing
    <3>6. \A s \in Selector : keys'[s] # None =>
             keys'[s].ref = s /\ keys'[s].key # "foreign" /\ (secret'[s] = keys'[s].key \/ Storing(s)')
      BY <3>1, <3>4, <3>5 DEF InTurn
    <3> QED
      BY <2>1, <3>1, <3>2, <3>3, <3>6 DEF InTurn, UnderWay
  <2>4. CASE Activate(g, "retired", "active")
    <3>1. /\ gen' = [gen EXCEPT ![g] = [pc |-> "active", sel |-> gen[g].sel]]
          /\ gen[g].pc = "retired" /\ secret' = secret /\ gen[g].sel \in Selector
      BY <2>4, <2>0, GotoFacts DEF Activate
    <3>2. /\ keys'[gen[g].sel].key = g /\ keys'[gen[g].sel].ref = gen[g].sel /\ g # "foreign"
          /\ \A s \in Selector : s # gen[g].sel => keys'[s] = keys[s]
      BY <2>4, <3>1 DEF Activate, OwnRow, Typed
    <3>3. Active' \subseteq Active \cup {gen[g].sel}
      BY <2>4 DEF Activate, Active, Typed
    <3>4. \A h \in Generation : IF h = g THEN gen'[h] = [pc |-> "active", sel |-> gen[g].sel]
                                          ELSE gen'[h] = gen[h]
      BY <3>1 DEF Typed
    <3>5. \A s \in Selector : s # gen[g].sel => (Storing(s) => Storing(s)')
      BY <3>1, <3>4 DEF Storing
    <3>6. \A s \in Selector : keys'[s] # None =>
             keys'[s].ref = s /\ keys'[s].key # "foreign" /\ (secret'[s] = keys'[s].key \/ Storing(s)')
      BY <3>1, <3>2, <3>5 DEF InTurn
    <3> QED
      BY <2>1, <3>1, <3>3, <3>4, <3>6 DEF InTurn, UnderWay
  <2>5. CASE Announce(g)
    <3>1. /\ gen' = [gen EXCEPT ![g] = [pc |-> "replied", sel |-> gen[g].sel]]
          /\ gen[g].pc = "active" /\ UNCHANGED <<keys, secret>>
      BY <2>5, <2>0, GotoFacts DEF Announce
    <3> QED
      BY <1>1, <3>1 DEF Typed
  <2> QED
    BY <1>3, <2>2, <2>3, <2>4, <2>5 DEF Generate
<1>4. ASSUME NEW g \in Generation, GenerateFails(g) PROVE FALSE
  BY <1>4 DEF GenerateFails
<1>5. CASE SetRotation \/ DeleteKey
  <2>1. UNCHANGED <<secret, gen>> /\ \A s \in Selector : Storing(s)' = Storing(s)
    BY <1>5 DEF SetRotation, DeleteKey, others, Storing
  <2>2. \A s \in Selector : keys'[s] # None =>
           keys[s] # None /\ keys'[s].ref = keys[s].ref /\ keys'[s].key = keys[s].key
    <3>1. CASE SetRotation
      BY <3>1 DEF SetRotation, Typed, KeyRow
    <3>2. CASE DeleteKey
      BY <3>2 DEF DeleteKey, Typed
    <3> QED
      BY <1>5, <3>1, <3>2
  <2>3. \/ Active' \subseteq Active
        \/ /\ \A g \in Generation : gen[g].pc # "retired"
           /\ \E s \in Selector : Active' = {s}
    <3>1. CASE DeleteKey
      BY <3>1 DEF DeleteKey, Active, Typed
    <3>2. CASE SetRotation
      <4>1. PICK s \in Selector, rotation \in Rotation :
              /\ keys[s] # None /\ keys' = [keys EXCEPT ![s].rotation = rotation]
              /\ Tell(IF rotation = "active" /\ (Active \ {s} # {} \/ \E g \in Generation : gen[g].pc = "retired")
                      THEN {"doubled"} ELSE {})
        BY <3>2 DEF SetRotation
      <4>2. \A t \in Selector : t # s => keys'[t] = keys[t]
        BY <4>1 DEF Typed
      <4>3. keys'[s].rotation = rotation
        BY <4>1 DEF Typed, KeyRow
      <4>4. CASE rotation = "active"
        <5>1. Active \ {s} = {} /\ \A g \in Generation : gen[g].pc # "retired"
          BY <4>1, <4>4 DEF Tell
        <5>2. Active' \subseteq {s}
          BY <4>2, <5>1 DEF Active
        <5> QED
          BY <5>1, <5>2
      <4>5. CASE rotation # "active"
        BY <4>2, <4>3, <4>5 DEF Active
      <4> QED
        BY <4>4, <4>5
    <3> QED
      BY <1>5, <3>1, <3>2
  <2>4. \A s \in Selector : keys'[s] # None =>
           keys'[s].ref = s /\ keys'[s].key # "foreign" /\ (secret'[s] = keys'[s].key \/ Storing(s)')
    BY <2>1, <2>2 DEF InTurn
  <2>5. /\ \A s, t \in Active' : s = t
        /\ \A g \in Generation : gen[g].pc = "retired" => Active' = {}
    BY <2>3 DEF InTurn
  <2> QED
    BY <2>1, <2>4, <2>5 DEF InTurn, UnderWay
<1>6. CASE EditKey \/ DeleteSecret \/ SetSecret
  BY <1>6 DEF EditKey, DeleteSecret, SetSecret
<1>7. CASE LoadRows \/ FetchSecret \/ Install \/ Restart \/ Publish \/ UNCHANGED vars
  BY <1>1, <1>7 DEF LoadRows, FetchSecret, Unread, Install, Restart, Publish, vars
<1> QED
  BY <1>2, <1>3, <1>4, <1>5, <1>6, <1>7 DEF Next

LEMMA UpToDateStep ==
  ASSUME Typed, InTurn, UpToDate, mishaps = {}, mishaps' = {}, [Next]_vars
  PROVE  UpToDate'
<1> USE DkimAssumption DEF dbVars, rest
<1> DEFINE Writing(h) == gen[h].pc \in {"stored", "retired", "active"}
<1>1. ASSUME UNCHANGED <<keys, signer, load, pending>>,
             \A h \in Generation : Writing(h) => Writing(h)'
      PROVE  UpToDate'
  BY <1>1 DEF Active, UpToDate, Current, Coming
<1>2. ASSUME NEW g \in Generation, Begin(g) PROVE UpToDate'
  BY <1>1, <1>2 DEF Begin, Typed
<1>3. ASSUME NEW g \in Generation, Generate(g) PROVE UpToDate'
  <2>1. ASSUME NEW l \in {"stored", "retired", "active"}, Goto(g, l) PROVE UpToDate'
    <3>1. Coming'
      BY <2>1 DEF Goto, Typed, Coming
    <3> QED
      BY <3>1 DEF UpToDate
  <2>2. CASE Announce(g)
    BY <2>2 DEF Announce, UpToDate, Coming
  <2> QED
    BY <1>3, <2>1, <2>2 DEF Generate, PutSecret, Retire, Activate
<1>4. ASSUME NEW g \in Generation, GenerateFails(g) PROVE FALSE
  BY <1>4 DEF GenerateFails
<1>5. CASE SetRotation \/ DeleteKey \/ EditKey \/ DeleteSecret \/ SetSecret \/ Restart
  <2>1. pending'
    BY <1>5 DEF SetRotation, DeleteKey, EditKey, DeleteSecret, SetSecret, Restart, Tell
  <2> QED
    BY <2>1 DEF UpToDate, Coming
<1>6. CASE LoadRows
  <2>1. load' = [todo |-> {[sel |-> s, ref |-> keys[s].ref] : s \in Active}, found |-> None]
    BY <1>6 DEF LoadRows, Unread
  <2>2. \A s \in Active : keys[s].ref = s
    BY DEF InTurn, Active
  <2>3. {[sel |-> s, ref |-> keys[s].ref] : s \in Active} = {[sel |-> s, ref |-> s] : s \in Active}
    BY <2>2
  <2>4. Active' = Active
    BY <1>6 DEF LoadRows, dbVars, Active
  <2>5. load' # None
    <3>1. {[sel |-> s, ref |-> s] : s \in Active} \subseteq [sel : Selector, ref : Ref]
      BY DEF Active, Ref
    <3>2. load' \in Load
      BY <2>1, <2>3, <3>1 DEF Load
    <3> QED
      BY <3>2
  <2> QED
    BY <2>1, <2>3, <2>4, <2>5 DEF UpToDate
<1>7. CASE FetchSecret
  <2> SUFFICES ASSUME ~Coming' PROVE load' # None /\ load'.todo = {} /\ Current(load.found)'
    BY DEF UpToDate
  <2>1. ~Coming /\ load # None /\ Active' = Active /\ keys' = keys
    BY <1>7 DEF FetchSecret, Coming, Active
  <2>2. PICK r \in load.todo :
          \/ /\ secret[r.ref] # None
             /\ load' = [todo |-> load.todo \ {r}, found |-> [sel |-> r.sel, key |-> secret[r.ref]]]
          \/ secret[r.ref] \in {None, "foreign"}
    BY <1>7 DEF FetchSecret, Unread
  <2>3. load.todo = {[sel |-> s, ref |-> s] : s \in Active}
    BY <2>1, <2>2 DEF UpToDate
  <2>4. PICK s \in Active : r = [sel |-> s, ref |-> s]
    BY <2>2, <2>3
  <2>5. keys[s] # None /\ keys[s].key \in Key /\ s \in Selector
    BY <2>4 DEF Active, Typed, KeyRow
  <2>6. Active = {s} /\ secret[s] = keys[s].key /\ keys[s].key # "foreign"
    BY <2>1, <2>4, <2>5 DEF InTurn, Coming, Storing
  <2>7. secret[r.ref] = keys[s].key /\ keys[s].key \notin {None, "foreign"}
    BY <2>4, <2>5, <2>6
  <2>8. load' = [todo |-> {}, found |-> [sel |-> s, key |-> keys[s].key]]
    BY <2>2, <2>3, <2>4, <2>6, <2>7
  <2>9. load' # None /\ load'.found # None
    BY <2>5, <2>8 DEF Signer, Load
  <2> QED
    BY <2>1, <2>6, <2>8, <2>9 DEF Current
<1>8. CASE Install
  <2> SUFFICES ASSUME ~Coming' PROVE load' = None /\ Current(signer)'
    BY DEF UpToDate
  <2>1. ~Coming /\ load # None /\ load.todo = {} /\ load' = None /\ signer' = load.found
    BY <1>8 DEF Install, Coming
  <2>2. Current(load.found)
    BY <2>1 DEF UpToDate, Current
  <2> QED
    BY <1>8, <2>1, <2>2 DEF Install, Current, Active
<1>9. CASE Publish \/ UNCHANGED vars
  BY <1>1, <1>9 DEF Publish, vars
<1> QED
  BY <1>2, <1>3, <1>4, <1>5, <1>6, <1>7, <1>8, <1>9 DEF Next

LEMMA StepHolds == IInv /\ [Next]_vars => IInv'
<1> SUFFICES ASSUME IInv, [Next]_vars PROVE IInv'
  OBVIOUS
<1>1. mishaps' = {} => mishaps = {}
  BY DEF Next, Begin, Generate, PutSecret, Retire, Activate, Announce, GenerateFails, SetRotation,
         DeleteKey, EditKey, Tell, DeleteSecret, SetSecret, Unread, LoadRows, FetchSecret, Install, Restart, Publish, rest, vars
<1> QED
  BY <1>1, TypedStep, BackedStep, InTurnStep, UpToDateStep DEF IInv

\* The inductive invariant, which says what each step of a generation leaves behind.
THEOREM RotationInvariantHolds == Spec => []IInv
  BY InitHolds, StepHolds, PTL DEF Spec

\* No active row is ever without a private key, whichever generations overlap, wherever they die
\* and however rotations are set; only the deletion of a secret or a row written by hand does it.
THEOREM ActiveBackedHolds == Spec => []ActiveBacked
<1>1. IInv => ActiveBacked
  BY DEF IInv, Backed, ActiveBacked, Active
<1> QED
  BY <1>1, RotationInvariantHolds, PTL

\* Generations one after the other, with rotations set back and forth, rows deleted, restarts of
\* delivery and its reloads between their steps: at rest delivery signs with the key that was checked.
THEOREM RotationCleanHolds == Spec => []RotationClean
<1>1. IInv => RotationClean
  <2> SUFFICES ASSUME Typed, InTurn, UpToDate, Quiet
               PROVE  /\ Cardinality(Active) <= 1
                      /\ signer = None <=> Active = {}
                      /\ \A s \in Active :
                            /\ signer = [sel |-> s, key |-> keys[s].key]
                            /\ DkimGrade(s).status = "ok" <=> zone.dkim[s] = signer.key
    BY DEF IInv, RotationClean
  <2>1. Cardinality(Active) <= 1
    <3>1. CASE Active = {}
      BY <3>1, FS_EmptySet
    <3>2. CASE Active # {}
      <4>1. PICK s : Active = {s}
        BY <3>2 DEF InTurn
      <4> QED
        BY <4>1, FS_Singleton
    <3> QED
      BY <3>1, <3>2
  <2>2. Current(signer)
    BY DEF UpToDate, Coming, Quiet, UnderWay
  <2>3. ASSUME NEW s \in Active PROVE DkimGrade(s).status = "ok" <=> zone.dkim[s] = keys[s].key
    BY <2>3 DEF DkimGrade, gradeDkim, Grade, Active
  <2> QED
    BY <2>1, <2>2, <2>3 DEF Current
<1> QED
  BY <1>1, RotationInvariantHolds, PTL
-----------------------------------------------------------------------------
(* The grades, of any zone.                                                *)

\* The DMARC record looked at is one of those found.
LEMMA FirstDmarcFacts ==
  ASSUME NEW records \in Seq(DmarcRecord)
  PROVE  FirstDmarc(records) = 0 \/ FirstDmarc(records) \in DOMAIN records
<1> DEFINE I == {i \in 1 .. Len(records) : records[i].v}
<1>1. FirstDmarc(records) = IF I # {} THEN Min(I) ELSE 0
  BY DEF FirstDmarc, SelectInSeq
<1>2. I \in SUBSET Nat
  OBVIOUS
<1>3. I # {} => Min(I) \in I
  BY <1>2, Least
<1> QED
  BY <1>1, <1>3

LEMMA GradesHold == Found(zone) => GradesAgree
<1> SUFFICES ASSUME Found(zone) PROVE GradesAgree
  OBVIOUS
<1> DEFINE grades == RecordGrades(zone, required)
           first == FirstDmarc(zone.dmarc)
           host == zone.stsHost
<1>0. first = 0 \/ first \in DOMAIN zone.dmarc
  BY FirstDmarcFacts DEF Found
<1>1. ASSUME zone.bimi # None, grades[6].status = "info",
             \A i \in DOMAIN zone.dmarc : ~zone.dmarc[i].stray /\ (i # first => ~Enforces(zone.dmarc[i].p))
      PROVE  first # 0 /\ Enforces(zone.dmarc[first].p)
  <2>1. dmarcEnforcing(zone.dmarc)
    BY <1>1 DEF RecordGrades, gradeBimi, Grade
  <2>2. PICK i \in DOMAIN zone.dmarc : Enforces(zone.dmarc[i].p) \/ zone.dmarc[i].stray
    BY <2>1 DEF dmarcEnforcing
  <2>3. i = first /\ Enforces(zone.dmarc[i].p)
    BY <1>1, <2>2
  <2>4. i # 0
    BY DEF Found
  <2> QED
    BY <2>3, <2>4
<1>2. ASSUME zone.bimi # None, zone.bimi.logo, grades[2].status = "ok"
      PROVE  grades[6].status = "info"
  <2>1. first # 0 /\ Enforces(zone.dmarc[first].p)
    BY <1>2 DEF RecordGrades, gradeDmarc, Grade
  <2>2. dmarcEnforcing(zone.dmarc)
    BY <1>0, <2>1 DEF dmarcEnforcing
  <2> QED
    BY <1>2, <2>2 DEF RecordGrades, gradeBimi, Grade
<1>4. ASSUME zone.stsTxt # None, grades[5].status = "info"
      PROVE  /\ host.addrs = {"public"} /\ (host.from \in host.addrs => host.from = "public")
             /\ LET reply == host.served[host.from] IN
                reply.ok /\ ~reply.big /\ reply.mode \in {"enforce", "testing"}
  <2>1. safeFetchText(host) \in {"enforce", "testing"}
    BY <1>4 DEF RecordGrades, gradeMtaSts, Grade
  <2>2. /\ host.addrs # {} /\ ~(\E a \in host.addrs : isPrivateAddr(a))
        /\ host.served[host.from].ok /\ ~host.served[host.from].big
        /\ host.served[host.from].mode \in {"enforce", "testing"}
    BY <2>1, DkimAssumption DEF safeFetchText
  <2>3. host.addrs = {"public"}
    BY <1>4, <2>2 DEF Found, isPrivateAddr
  <2> QED
    BY <2>2, <2>3
<1>3. ASSUME rollup(grades) = "ok" PROVE grades[1].status \in {"ok", "info"} /\ grades[2].status = "ok"
  <2>1. \A i \in DOMAIN grades : grades[i].status \notin {"error", "warning"}
    BY <1>3 DEF rollup
  <2>2. DOMAIN grades = 1 .. 6
    BY DEF RecordGrades
  <2>3. grades[1] = gradeSpf(zone.spf, required) /\ grades[2] = gradeDmarc(zone.dmarc)
    BY DEF RecordGrades
  <2>4. gradeSpf(zone.spf, required).status \in {"error", "warning", "info", "ok"}
    BY DEF gradeSpf, Grade
  <2>5. gradeDmarc(zone.dmarc).status \in {"error", "warning", "ok"}
    BY DEF gradeDmarc, Grade
  <2> QED
    BY <2>1, <2>2, <2>3, <2>4, <2>5
<1> QED
  BY <1>1, <1>2, <1>3, <1>4 DEF GradesAgree

\* However the zone is edited, the grades agree with what the check has seen: BIMI with the DMARC
\* policy, stray text aside, MTA-STS with a policy whose host had public addresses when it was
\* looked up, the rollup with DMARC and SPF.
THEOREM GradesAgreeHolds == Spec => []GradesAgree
<1>1. IInv => GradesAgree
  BY GradesHold DEF IInv, Typed
<1> QED
  BY <1>1, RotationInvariantHolds, PTL

LEMMA FixHolds == Found(zone) => FixAuthorizes
<1> DEFINE record == IF zone.spf = <<>> THEN <<>> ELSE zone.spf[1]
           grade == gradeSpf(zone.spf, required)
<1> SUFFICES ASSUME Found(zone), "redirect" \notin ToSet(record)
             PROVE  /\ grade.fix # None =>
                         /\ gradeSpf(<<grade.fix>>, required).fix = None
                         /\ Authorized(record) \subseteq Authorized(grade.fix)
                         /\ required \ ToSet(record) \subseteq Authorized(grade.fix)
                    /\ (grade.status = "ok" /\ record[Len(record)] \in All
                            /\ Authorized(record) = ToSet(Front(record)))
                          => required \subseteq Authorized(record)
  BY DEF FixAuthorizes
<1>1. ASSUME grade.fix # None
      PROVE  /\ gradeSpf(<<grade.fix>>, required).fix = None
             /\ Authorized(record) \subseteq Authorized(grade.fix)
             /\ required \ ToSet(record) \subseteq Authorized(grade.fix)
  <2>1. IsSequence(record) /\ grade.fix = mergeSpf(record, SetToSeq(required \ ToSet(record)))
    BY <1>1, FixIs
  <2> HIDE DEF record, grade
  <2>2. required \ ToSet(record) \in SUBSET Required(types)
    BY DEF required
  <2>3. /\ Authorized(record) \cup (required \ ToSet(record)) \subseteq Authorized(grade.fix)
        /\ ToSet(record) \cup (required \ ToSet(record)) \subseteq ToSet(grade.fix)
    BY <2>1, <2>2, ProposalFacts
  <2>4. required \ ToSet(grade.fix) = {}
    BY <2>3
  <2>5. gradeSpf(<<grade.fix>>, required).fix = None
    BY <2>4 DEF gradeSpf, Grade
  <2> QED
    BY <2>3, <2>5
<1>2. ASSUME grade.status = "ok", record[Len(record)] \in All, Authorized(record) = ToSet(Front(record))
      PROVE  required \subseteq Authorized(record)
  <2>1. zone.spf # <<>> /\ ~(Len(zone.spf) > 1)
    BY <1>2 DEF gradeSpf, Grade
  <2>2. record = zone.spf[1] /\ required \ ToSet(record) = {} /\ ToSet(record) \cap FindsAll # {}
    BY <1>2, <2>1 DEF gradeSpf, Grade
  <2>3. zone.spf[1] \in ToSet(zone.spf)
    BY <2>1 DEF Found, IsSequence, ToSet
  <2> HIDE DEF record, grade
  <2>4. record \in Seq(ToSet(record)) /\ record # <<>>
    BY <2>2, <2>3 DEF Found, IsSequence, ToSet
  <2>5. ToSet(record) \subseteq ToSet(Front(record)) \cup {record[Len(record)]}
    <3>1. /\ Front(record) \in Seq(ToSet(record)) /\ Len(Front(record)) = Len(record) - 1
          /\ \A i \in 1 .. Len(record) - 1 : Front(record)[i] = record[i]
      BY <2>4 DEF Front
    <3>2. /\ ToSet(record) = {record[i] : i \in 1 .. Len(record)}
          /\ ToSet(Front(record)) = {Front(record)[i] : i \in 1 .. Len(record) - 1}
      BY <2>4, <3>1, ToSetFacts
    <3> QED
      BY <3>1, <3>2
  <2>6. required \cap All = {}
    BY RequiredFacts DEF required
  <2> QED
    BY <1>2, <2>2, <2>5, <2>6
<1> QED
  BY <1>1, <1>2

\* However the zone is edited, following a check's advice on SPF never withdraws anybody's
\* authorization, adds every provider that was missing, and settles the matter.
THEOREM FixAuthorizesHolds == Spec => []FixAuthorizes
<1>1. IInv => FixAuthorizes
  BY FixHolds DEF IInv, Typed
<1> QED
  BY <1>1, RotationInvariantHolds, PTL
=============================================================================
