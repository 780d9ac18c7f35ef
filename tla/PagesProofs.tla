----------------------------- MODULE PagesProofs -----------------------------
(***************************************************************************)
(* Proofs about the pages of the console together, for any list of routes, *)
(* any number of requests, in any order, and any number of edits.          *)
(*                                                                         *)
(* An edit is only as good as the copy of the route it begins with, and    *)
(* the console has many: the list, Detail, the form, the dialog, requests  *)
(* and their answers.  RoutesInv says of all of them, in this order, that  *)
(*   - they are copies of rows the server has or had, not newer, and with  *)
(*     the fields of the row where they are as new (CopiesInv);            *)
(*   - a copy on a page is current, or the open form is busy with its      *)
(*     route, or the route is remembered as lagging, or the list has a     *)
(*     newer row of it (Views);                                            *)
(*   - an update under way is that of the open form or of a route that     *)
(*     lags, and the form and its update differ from the row only in what  *)
(*     the operator touched, unless the form is old or the route lags      *)
(*     (Edits);                                                            *)
(*   - a route whose deletion has been told is gone at the server for good,*)
(*     and no later request or form has a copy of it (ToldGone).           *)
(***************************************************************************)
EXTENDS Pages, SettingsViewProofs, FiniteSetTheorems, FunctionTheorems, SequenceTheorems

(***************************************************************************)
(* Lists: what the recursive functions of RouteModel compute.  In place    *)
(* of induction, which would take an operator as a parameter, a property   *)
(* of the numbers up to a length is proved by its least exception.         *)
(***************************************************************************)
\* Numbers are well ordered: by the finite sets of the numbers below.
LEMMA LeastNat ==
  ASSUME NEW T \in SUBSET Nat, T # {}
  PROVE  \E n \in T : \A m \in T : n <= m
<1>1. PICK k \in T : TRUE
  OBVIOUS
<1> DEFINE S == 0 .. k
           Cuts == {0 .. m : m \in {n \in T : n <= k}}
<1>2. IsFiniteSet(S)
  BY <1>1, FS_Interval
<1>3. FiniteSubsetsOf(S) = SUBSET S
  BY <1>2, FS_FiniteSubsetsOfFinite
<1>4. IsWellFoundedOn(StrictSubsetOrdering(S), SUBSET S)
  BY <1>3, FS_StrictSubsetOrderingWellFounded
<1>5. Cuts \subseteq SUBSET S /\ Cuts # {}
  BY <1>1
<1>6. PICK x \in Cuts : \A y \in Cuts : ~(<<y, x>> \in StrictSubsetOrdering(S))
  <2> HIDE DEF S, Cuts
  <2>1. QED
    BY <1>4, <1>5, WFMin
<1>7. PICK n \in T : n <= k /\ x = 0 .. n
  OBVIOUS
<1>8. ASSUME NEW m \in T, m < n PROVE FALSE
  <2>1. 0 .. m \in Cuts
    BY <1>7, <1>8
  <2>2. 0 .. m \subseteq 0 .. n /\ 0 .. m # 0 .. n /\ 0 .. m \in SUBSET S /\ 0 .. n \in SUBSET S
    BY <1>7, <1>8
  <2>3. QED
    BY <1>6, <1>7, <2>1, <2>2 DEF StrictSubsetOrdering
<1>9. QED
  BY <1>7, <1>8

\* Induction up to a bound, for a set of numbers: by its least exception.
LEMMA UpTo ==
  ASSUME NEW L \in Nat, NEW T, 0 \in T, \A n \in 1 .. L : n - 1 \in T => n \in T
  PROVE  0 .. L \subseteq T
<1> SUFFICES ASSUME (0 .. L) \ T # {} PROVE FALSE
  OBVIOUS
<1>1. PICK n \in (0 .. L) \ T : \A m \in (0 .. L) \ T : n <= m
  <2>1. (0 .. L) \ T \in SUBSET Nat
    OBVIOUS
  <2> DEFINE E == (0 .. L) \ T
  <2> HIDE DEF E
  <2>2. QED
    BY <2>1, LeastNat DEF E
<1>2. n # 0 /\ n \in 1 .. L
  OBVIOUS
<1>3. n - 1 \in (0 .. L) \ T
  BY <1>2
<1>4. QED
  BY <1>1, <1>2, <1>3

\* A function may be defined by recursion up to a bound.
Recursive(F, L, init, step) ==
  F[0] = init /\ \A n \in 1 .. L : F[n] = step[<<F[n - 1], n>>]

\* Every starting value and step has such a function.
LEMMA Recursion ==
  ASSUME NEW L \in Nat, NEW Q, NEW init \in Q, NEW step \in [Q \X (1 .. L) -> Q]
  PROVE  \E F \in [0 .. L -> Q] : Recursive(F, L, init, step)
<1> DEFINE Upto(m, F) == F[0] = init /\ \A n \in 1 .. m : F[n] = step[<<F[n - 1], n>>]
           T == {m \in 0 .. L : \E F \in [0 .. m -> Q] : Upto(m, F)}
<1>1. 0 \in T
  <2> DEFINE F == [n \in 0 .. 0 |-> init]
  <2>1. F \in [0 .. 0 -> Q] /\ Upto(0, F)
    OBVIOUS
  <2> HIDE DEF F, Upto
  <2>2. QED
    BY <2>1
<1>2. ASSUME NEW m \in 1 .. L, m - 1 \in T PROVE m \in T
  <2>1. PICK F \in [0 .. m - 1 -> Q] : Upto(m - 1, F)
    BY <1>2
  <2> DEFINE G == [n \in 0 .. m |-> IF n = m THEN step[<<F[m - 1], m>>] ELSE F[n]]
  <2>2. F[m - 1] \in Q /\ <<F[m - 1], m>> \in Q \X (1 .. L)
    OBVIOUS
  <2>3. G \in [0 .. m -> Q]
    BY <2>2
  <2>4. \A n \in 0 .. m - 1 : G[n] = F[n]
    OBVIOUS
  <2>5. G[m] = step[<<F[m - 1], m>>]
    OBVIOUS
  <2>6. Upto(m, G)
    <3>1. G[0] = init
      BY <2>1, <2>4
    <3>2. ASSUME NEW n \in 1 .. m PROVE G[n] = step[<<G[n - 1], n>>]
      <4>1. CASE n = m
        <5>1. m - 1 \in 0 .. m - 1
          OBVIOUS
        <5>2. QED
          BY <2>4, <2>5, <4>1, <5>1
      <4>2. CASE n # m
        <5>1. n \in 1 .. m - 1 /\ n - 1 \in 0 .. m - 1
          BY <4>2
        <5>2. QED
          BY <2>1, <2>4, <5>1
      <4>3. QED
        BY <4>1, <4>2
    <3>3. QED
      BY <3>1, <3>2
  <2> HIDE DEF G, Upto
  <2>7. QED
    BY <2>3, <2>6
<1>3. 0 .. L \subseteq T
  <2> HIDE DEF T
  <2>1. QED
    BY <1>1, <1>2, UpTo
<1>4. L \in T
  <2> HIDE DEF T
  <2>1. QED
    BY <1>3
<1>5. QED
  BY <1>4 DEF Recursive

\* What Where computes, one element at a time.
Keeps(kept, rs, S) ==
  /\ kept[0] = <<>>
  /\ \A n \in 1 .. Len(rs) :
       kept[n] = IF rs[n] \in S THEN Append(kept[n - 1], rs[n]) ELSE kept[n - 1]
  /\ Where(rs, S) = kept[Len(rs)]

\* Where is such a function of the length taken.
LEMMA WhereSteps ==
  ASSUME NEW R, NEW rs \in Seq(R), NEW S
  PROVE  \E kept \in [0 .. Len(rs) -> Seq(R)] : Keeps(kept, rs, S)
<1> DEFINE L == Len(rs)
           Body(F) == [n \in 0 .. L |->
                         IF n = 0 THEN <<>>
                         ELSE IF rs[n] \in S THEN Append(F[n - 1], rs[n]) ELSE F[n - 1]]
           step == [p \in Seq(R) \X (1 .. L) |->
                      IF rs[p[2]] \in S THEN Append(p[1], rs[p[2]]) ELSE p[1]]
           kept == CHOOSE F : F = Body(F)
<1>1. L \in Nat /\ \A n \in 1 .. L : rs[n] \in R
  BY LenProperties, ElementOfSeq
<1>2. step \in [Seq(R) \X (1 .. L) -> Seq(R)] /\ <<>> \in Seq(R)
  BY <1>1, AppendProperties
<1>3. PICK F \in [0 .. L -> Seq(R)] :
        F[0] = <<>> /\ \A n \in 1 .. L : F[n] = step[<<F[n - 1], n>>]
  <2> DEFINE Q == Seq(R)
  <2> DEFINE init == <<>>
  <2>1. L \in Nat /\ init \in Q /\ step \in [Q \X (1 .. L) -> Q]
    BY <1>1, <1>2
  <2> HIDE DEF L, step, Q, init
  <2>2. \E F \in [0 .. L -> Q] : Recursive(F, L, init, step)
    BY <2>1, Recursion
  <2>3. QED
    BY <2>2 DEF Q, init, Recursive
<1>4. ASSUME NEW n \in 1 .. L
      PROVE  F[n] = IF rs[n] \in S THEN Append(F[n - 1], rs[n]) ELSE F[n - 1]
  <2>1. F[n - 1] \in Seq(R) /\ <<F[n - 1], n>> \in Seq(R) \X (1 .. L)
    <3>1. n - 1 \in 0 .. L
      BY <1>1
    <3>2. QED
      BY <3>1
  <2>2. F[n] = step[<<F[n - 1], n>>]
    BY <1>3
  <2>3. QED
    BY <2>1, <2>2
<1>5. F = Body(F)
  <2>1. ASSUME NEW n \in 0 .. L PROVE F[n] = Body(F)[n]
    <3>1. n = 0 \/ n \in 1 .. L
      BY <1>1
    <3>2. QED
      BY <1>3, <1>4, <3>1
  <2>2. Body(F) = [n \in 0 .. L |-> Body(F)[n]] /\ F = [n \in 0 .. L |-> F[n]]
    OBVIOUS
  <2> HIDE DEF Body
  <2>3. QED
    BY <2>1, <2>2
<1>6. kept = Body(kept)
  BY <1>5
<1>7. Where(rs, S) = kept[L]
  BY DEF Where
<1> DEFINE T == {n \in 0 .. L : kept[n] = F[n]}
<1> HIDE DEF kept
<1>8. 0 .. L \subseteq T
  <2>1. 0 \in T
    BY <1>1, <1>3, <1>6
  <2>2. ASSUME NEW n \in 1 .. L, n - 1 \in T PROVE n \in T
    <3>1. kept[n - 1] = F[n - 1] /\ n \in 0 .. L /\ n # 0
      BY <1>1, <2>2
    <3>2. kept[n] = IF rs[n] \in S THEN Append(kept[n - 1], rs[n]) ELSE kept[n - 1]
      BY <1>6, <3>1
    <3>3. QED
      BY <1>4, <3>1, <3>2
  <2> HIDE DEF T
  <2>3. QED
    BY <1>1, <2>1, <2>2, UpTo
<1>9. kept[L] = F[L]
  BY <1>1, <1>8
<1>10. Keeps(F, rs, S)
  BY <1>3, <1>4, <1>7, <1>9 DEF Keeps
<1>11. QED
  BY <1>10

Prefix(rs, n) == {rs[i] : i \in 1 .. n}

\* The elements of a list are those up to its length.
LEMMA ToSetSeq ==
  ASSUME NEW R, NEW rs \in Seq(R)
  PROVE  /\ ToSet(rs) = Prefix(rs, Len(rs)) /\ ToSet(rs) \subseteq R
         /\ Len(rs) \in Nat /\ DOMAIN rs = 1 .. Len(rs)
         /\ \A i \in 1 .. Len(rs) : rs[i] \in R /\ rs[i] \in ToSet(rs)
BY LenProperties, ElementOfSeq DEF ToSet, Prefix

\* One element more.
LEMMA PrefixGrows ==
  ASSUME NEW rs, NEW n \in Nat \ {0}
  PROVE  Prefix(rs, n) = Prefix(rs, n - 1) \cup {rs[n]} /\ Prefix(rs, 0) = {}
<1>1. 1 .. n = (1 .. n - 1) \cup {n} /\ 1 .. 0 = {}
  OBVIOUS
<1>2. QED
  BY <1>1 DEF Prefix

\* What Append adds.
LEMMA AppendSet ==
  ASSUME NEW R, NEW rs \in Seq(R), NEW r \in R
  PROVE  /\ Append(rs, r) \in Seq(R) /\ ToSet(Append(rs, r)) = ToSet(rs) \cup {r}
         /\ Len(Append(rs, r)) = Len(rs) + 1
<1> DEFINE new == Append(rs, r)
<1>1. /\ new \in Seq(R) /\ Len(new) = Len(rs) + 1 /\ Len(rs) \in Nat
      /\ \A i \in 1 .. Len(rs) : new[i] = rs[i]
      /\ new[Len(rs) + 1] = r
  BY AppendProperties, LenProperties
<1>2. DOMAIN new = 1 .. Len(rs) + 1 /\ DOMAIN rs = 1 .. Len(rs)
  BY <1>1, ToSetSeq
<1> HIDE DEF new
<1>3. 1 .. Len(rs) + 1 = (1 .. Len(rs)) \cup {Len(rs) + 1}
  BY <1>1
<1>4. ToSet(new) = ToSet(rs) \cup {r}
  BY <1>1, <1>2, <1>3 DEF ToSet
<1>5. QED
  BY <1>1, <1>4 DEF new

\* Where keeps the elements that are in S, and no other.
LEMMA WhereSet ==
  ASSUME NEW R, NEW rs \in Seq(R), NEW S
  PROVE  Where(rs, S) \in Seq(R) /\ ToSet(Where(rs, S)) = ToSet(rs) \cap S
<1> DEFINE L == Len(rs)
<1>0. PICK kept \in [0 .. L -> Seq(R)] : Keeps(kept, rs, S)
  BY WhereSteps
<1>1. /\ kept[0] = <<>>
      /\ \A n \in 1 .. L :
           kept[n] = IF rs[n] \in S THEN Append(kept[n - 1], rs[n]) ELSE kept[n - 1]
      /\ Where(rs, S) = kept[L]
  BY <1>0 DEF Keeps
<1>2. L \in Nat /\ \A n \in 1 .. L : rs[n] \in R
  BY LenProperties, ElementOfSeq
<1> DEFINE T == {n \in 0 .. L : ToSet(kept[n]) = Prefix(rs, n) \cap S}
<1>3. 0 \in T
  <2>1. ToSet(<<>>) = {} /\ Prefix(rs, 0) = {}
    BY PrefixGrows DEF ToSet, Prefix
  <2>2. QED
    BY <1>1, <1>2, <2>1
<1>4. ASSUME NEW n \in 1 .. L, n - 1 \in T PROVE n \in T
  <2>1. kept[n - 1] \in Seq(R) /\ rs[n] \in R
    BY <1>2, <1>4
  <2>2. /\ kept[n] = IF rs[n] \in S THEN Append(kept[n - 1], rs[n]) ELSE kept[n - 1]
        /\ ToSet(kept[n - 1]) = Prefix(rs, n - 1) \cap S
    BY <1>1, <1>4
  <2>3. Prefix(rs, n) = Prefix(rs, n - 1) \cup {rs[n]}
    BY PrefixGrows
  <2>4. ToSet(Append(kept[n - 1], rs[n])) = ToSet(kept[n - 1]) \cup {rs[n]}
    BY <2>1, AppendSet
  <2>5. ToSet(kept[n]) = Prefix(rs, n) \cap S
    BY <2>2, <2>3, <2>4
  <2>6. QED
    BY <2>5
<1>5. L \in T
  <2> HIDE DEF L, T
  <2>1. 0 .. L \subseteq T
    BY <1>2, <1>3, <1>4, UpTo
  <2>2. QED
    BY <1>2, <2>1
<1>6. QED
  BY <1>1, <1>2, <1>5, ToSetSeq

\* A list in which no id occurs twice.
Distinct(rs) == \A i, j \in DOMAIN rs : rs[i].id = rs[j].id => i = j

\* A new id at the end leaves every id once.
LEMMA AppendDistinct ==
  ASSUME NEW R, NEW rs \in Seq(R), NEW r \in R, Distinct(rs), \A x \in ToSet(rs) : x.id # r.id
  PROVE  Distinct(Append(rs, r))
<1> DEFINE new == Append(rs, r)
<1>1. /\ new \in Seq(R) /\ Len(new) = Len(rs) + 1 /\ Len(rs) \in Nat
      /\ \A i \in 1 .. Len(rs) : new[i] = rs[i]
      /\ new[Len(rs) + 1] = r
  BY AppendProperties, LenProperties
<1>2. DOMAIN new = 1 .. Len(rs) + 1 /\ DOMAIN rs = 1 .. Len(rs)
  BY <1>1, ToSetSeq
<1> HIDE DEF new
<1>3. \A i \in 1 .. Len(rs) : rs[i].id # r.id
  BY <1>2 DEF ToSet
<1>4. Distinct(new)
  BY <1>1, <1>2, <1>3 DEF Distinct
<1>5. QED
  BY <1>4 DEF new

\* A selection repeats no id that the list did not.
LEMMA WhereDistinct ==
  ASSUME NEW R, NEW rs \in Seq(R), NEW S, Distinct(rs)
  PROVE  Distinct(Where(rs, S))
<1> DEFINE L == Len(rs)
<1>0. PICK kept \in [0 .. L -> Seq(R)] : Keeps(kept, rs, S)
  BY WhereSteps
<1>1. /\ kept[0] = <<>>
      /\ \A n \in 1 .. L :
           kept[n] = IF rs[n] \in S THEN Append(kept[n - 1], rs[n]) ELSE kept[n - 1]
      /\ Where(rs, S) = kept[L]
  BY <1>0 DEF Keeps
<1>2. L \in Nat /\ DOMAIN rs = 1 .. L /\ \A n \in 1 .. L : rs[n] \in R
  BY ToSetSeq
<1> DEFINE T == {n \in 0 .. L : Distinct(kept[n]) /\ ToSet(kept[n]) \subseteq Prefix(rs, n)}
<1>3. 0 \in T
  BY <1>1, <1>2 DEF ToSet, Distinct
<1>4. ASSUME NEW n \in 1 .. L, n - 1 \in T PROVE n \in T
  <2>1. kept[n - 1] \in Seq(R) /\ rs[n] \in R
    BY <1>2, <1>4
  <2>2. /\ kept[n] = IF rs[n] \in S THEN Append(kept[n - 1], rs[n]) ELSE kept[n - 1]
        /\ ToSet(kept[n - 1]) \subseteq Prefix(rs, n - 1)
        /\ Distinct(kept[n - 1])
    BY <1>1, <1>4
  <2>3. Prefix(rs, n) = Prefix(rs, n - 1) \cup {rs[n]}
    BY PrefixGrows
  <2>4. ToSet(Append(kept[n - 1], rs[n])) = ToSet(kept[n - 1]) \cup {rs[n]}
    BY <2>1, AppendSet
  <2>5. \A x \in Prefix(rs, n - 1) : x.id # rs[n].id
    BY <1>2 DEF Prefix, Distinct
  <2>6. Distinct(Append(kept[n - 1], rs[n]))
    BY <2>1, <2>2, <2>5, AppendDistinct
  <2>7. Distinct(kept[n]) /\ ToSet(kept[n]) \subseteq Prefix(rs, n)
    BY <2>2, <2>3, <2>4, <2>6
  <2>8. QED
    BY <2>7
<1>5. L \in T
  <2> HIDE DEF L, T
  <2>1. 0 .. L \subseteq T
    BY <1>2, <1>3, <1>4, UpTo
  <2>2. QED
    BY <1>2, <2>1
<1>6. QED
  BY <1>1, <1>5

\* A set listed once.
LEMMA SetToSeqList ==
  ASSUME NEW S, IsFiniteSet(S)
  PROVE  /\ SetToSeq(S) \in Seq(S) /\ ToSet(SetToSeq(S)) = S
         /\ \A i, j \in DOMAIN SetToSeq(S) : SetToSeq(S)[i] = SetToSeq(S)[j] => i = j
<1> DEFINE L == Cardinality(S)
           f == SetToSeq(S)
<1>1. L \in Nat /\ ExistsBijection(1 .. L, S)
  BY FS_CardinalityType
<1>2. \E g \in [1 .. L -> S] : IsInjective(g)
  BY <1>1 DEF ExistsBijection, Bijection, Injection
<1>3. f \in [1 .. L -> S] /\ IsInjective(f)
  BY <1>2 DEF SetToSeq
<1>4. IsFiniteSet(1 .. L) /\ Cardinality(1 .. L) = L
  BY <1>1, FS_Interval
<1>5. f \in Surjection(1 .. L, S)
  <2>1. f \in Injection(1 .. L, S)
    BY <1>3 DEF Injection
  <2> HIDE DEF f
  <2>2. QED
    BY <1>4, <2>1, FS_Injection
<1>6. f \in Seq(S)
  BY <1>1, <1>3
<1> HIDE DEF f
<1>7. ToSet(f) = S
  BY <1>3, <1>5 DEF Surjection, ToSet
<1>8. QED
  BY <1>3, <1>6, <1>7 DEF f, IsInjective

(***************************************************************************)
(* The services.                                                           *)
(***************************************************************************)
HealthAt(rows, address) == {HealthOf(r) : r \in {x \in rows : backendURL(x) = address}}

\* What is listed of some routes: each address once, with its worst health.
Lists(services, rows) ==
  /\ {s.address : s \in ToSet(services)} = {backendURL(r) : r \in rows}
  /\ \A i, j \in DOMAIN services : services[i].address = services[j].address => i = j
  /\ \A i \in DOMAIN services :
       /\ services[i].health \in HealthAt(rows, services[i].address)
       /\ \A h \in HealthAt(rows, services[i].address) : Rank[h] <= Rank[services[i].health]

\* Every health has a rank.
LEMMA RankOrders ==
  /\ \A h \in Health : Rank[h] \in Nat
  /\ \A r : HealthOf(r) \in Health
BY DEF Health, Rank, HealthOf, deriveHealth

Service(A, D) == [address : A, health : Health, routes : Seq(D)]

\* Merge makes a list of services of one.
LEMMA MergeType ==
  ASSUME NEW A, NEW D, NEW r, backendURL(r) \in A, r.input.domain \in D,
         NEW services \in Seq(Service(A, D))
  PROVE  Merge(services, r) \in Seq(Service(A, D))
<1> DEFINE Q == Service(A, D)
           h == HealthOf(r)
           at == {i \in DOMAIN services : services[i].address = backendURL(r)}
           e == [address |-> backendURL(r), health |-> h, routes |-> <<r.input.domain>>]
           merged(i) == [services[i] EXCEPT !.routes = Append(@, r.input.domain),
                                            !.health = IF Rank[h] > Rank[@] THEN h ELSE @]
<1>1. h \in Health
  BY RankOrders
<1>2. /\ DOMAIN services = 1 .. Len(services) /\ Len(services) \in Nat
      /\ \A i \in DOMAIN services : services[i] \in Q
  BY ToSetSeq
<1>3. e \in Q
  BY <1>1 DEF Service
<1>4. ASSUME NEW i \in DOMAIN services PROVE merged(i) \in Q
  <2>1. services[i] \in Q /\ Append(services[i].routes, r.input.domain) \in Seq(D)
    BY <1>2, AppendProperties DEF Service
  <2>2. QED
    BY <1>1, <2>1 DEF Service
<1>5. Merge(services, r) = IF at = {} THEN Append(services, e)
                           ELSE [i \in DOMAIN services |->
                                   IF i \notin at THEN services[i] ELSE merged(i)]
  BY DEF Merge
<1> HIDE DEF Q, h, at, e, merged
<1>6. Append(services, e) \in Seq(Q)
  BY <1>3, AppendProperties DEF Q
<1>7. [i \in DOMAIN services |-> IF i \notin at THEN services[i] ELSE merged(i)] \in Seq(Q)
  BY <1>2, <1>4
<1>8. QED
  BY <1>5, <1>6, <1>7 DEF Q

\* One route more is one address more, or one more route of its address.
LEMMA MergeLists ==
  ASSUME NEW A, NEW D, NEW rows, NEW r, backendURL(r) \in A, r.input.domain \in D,
         NEW services \in Seq(Service(A, D)),
         Lists(services, rows)
  PROVE  Lists(Merge(services, r), rows \cup {r})
<1> DEFINE Q == Service(A, D)
           a == backendURL(r)
           h == HealthOf(r)
           at == {i \in DOMAIN services : services[i].address = a}
           new == Merge(services, r)
<1>1. h \in Health /\ \A x \in Health : Rank[x] \in Nat
  BY RankOrders
<1>2. /\ DOMAIN services = 1 .. Len(services) /\ Len(services) \in Nat
      /\ \A i \in DOMAIN services : services[i] \in Q
  BY ToSetSeq
<1>3. \A b : HealthAt(rows \cup {r}, b)
               = IF b = a THEN HealthAt(rows, b) \cup {h} ELSE HealthAt(rows, b)
  BY DEF HealthAt
<1>4. {backendURL(x) : x \in rows \cup {r}} = {backendURL(x) : x \in rows} \cup {a}
  OBVIOUS
<1>5. CASE at = {}
  <2> DEFINE e == [address |-> a, health |-> h, routes |-> <<r.input.domain>>]
  <2>1. new = Append(services, e) /\ e \in Q
    BY <1>1, <1>5 DEF Merge, Service
  <2>2. /\ new \in Seq(Q) /\ Len(new) = Len(services) + 1
        /\ \A i \in 1 .. Len(services) : new[i] = services[i]
        /\ new[Len(services) + 1] = e
        /\ ToSet(new) = ToSet(services) \cup {e}
    BY <1>2, <2>1, AppendProperties, AppendSet
  <2>3. DOMAIN new = 1 .. Len(services) + 1
    BY <2>2, ToSetSeq
  <2>4. \A i \in 1 .. Len(services) : services[i].address # a
    BY <1>2, <1>5
  <2>5. a \notin {backendURL(x) : x \in rows}
    <3>1. a \notin {s.address : s \in ToSet(services)}
      BY <1>2, <2>4 DEF ToSet
    <3>2. QED
      BY <3>1 DEF Lists
  <2>6. HealthAt(rows \cup {r}, a) = {h}
    <3>1. HealthAt(rows, a) = {}
      BY <2>5 DEF HealthAt
    <3>2. QED
      BY <1>3, <3>1
  <2> HIDE DEF new, a, h, at
  <2>7. {s.address : s \in ToSet(new)} = {backendURL(x) : x \in rows \cup {r}}
    <3>1. {s.address : s \in ToSet(new)} = {s.address : s \in ToSet(services)} \cup {a}
      BY <2>2
    <3>2. QED
      BY <1>4, <3>1 DEF Lists
  <2>8. ASSUME NEW i \in DOMAIN new, NEW j \in DOMAIN new, new[i].address = new[j].address
        PROVE  i = j
    <3>1. \A k \in DOMAIN new : k \in DOMAIN services \/ k = Len(services) + 1
      BY <1>2, <2>3
    <3>2. \A k \in DOMAIN services : new[k] = services[k] /\ services[k].address # a
      BY <1>2, <2>2, <2>4
    <3>3. new[Len(services) + 1].address = a
      BY <2>2
    <3>4. CASE i \in DOMAIN services /\ j \in DOMAIN services
      BY <2>8, <3>2, <3>4 DEF Lists
    <3>5. QED
      BY <2>8, <3>1, <3>2, <3>3, <3>4
  <2>9. ASSUME NEW i \in DOMAIN new
        PROVE  /\ new[i].health \in HealthAt(rows \cup {r}, new[i].address)
               /\ \A x \in HealthAt(rows \cup {r}, new[i].address) :
                    Rank[x] <= Rank[new[i].health]
    <3>1. CASE i = Len(services) + 1
      <4>1. new[i].address = a /\ new[i].health = h /\ Rank[h] \in Nat
        BY <1>1, <2>2, <3>1
      <4>2. HealthAt(rows \cup {r}, new[i].address) = {h}
        BY <2>6, <4>1
      <4>3. Rank[h] <= Rank[h]
        BY <4>1
      <4>4. \A x \in HealthAt(rows \cup {r}, new[i].address) : Rank[x] <= Rank[new[i].health]
        BY <4>1, <4>2, <4>3
      <4>5. QED
        BY <4>1, <4>2, <4>4
    <3>2. CASE i # Len(services) + 1
      <4>1. i \in DOMAIN services /\ new[i] = services[i] /\ services[i].address # a
        BY <1>2, <2>2, <2>3, <2>4, <3>2
      <4>2. QED
        BY <1>3, <4>1 DEF Lists
    <3>3. QED
      BY <3>1, <3>2
  <2>10. QED
    BY <2>2, <2>7, <2>8, <2>9 DEF Lists, new
<1>6. CASE at # {}
  <2> DEFINE worse(i) == IF Rank[h] > Rank[services[i].health] THEN h ELSE services[i].health
             merged(i) == [services[i] EXCEPT !.routes = Append(@, r.input.domain),
                                              !.health = IF Rank[h] > Rank[@] THEN h ELSE @]
  <2>1. new = [i \in DOMAIN services |-> IF i \notin at THEN services[i] ELSE merged(i)]
    BY <1>6 DEF Merge
  <2>2. ASSUME NEW i \in DOMAIN services
        PROVE  /\ merged(i) \in Q /\ merged(i).address = services[i].address
               /\ merged(i).health = worse(i)
    <3>1. services[i] \in Q /\ Append(services[i].routes, r.input.domain) \in Seq(D)
      BY <1>2, AppendProperties DEF Service
    <3>2. QED
      BY <1>1, <3>1 DEF Service
  <2> HIDE DEF merged
  <2>3. /\ DOMAIN new = DOMAIN services
        /\ \A i \in DOMAIN services :
             /\ new[i] \in Q /\ new[i].address = services[i].address
             /\ new[i].health = IF services[i].address = a THEN worse(i) ELSE services[i].health
    BY <1>2, <2>1, <2>2
  <2>5. a \in {backendURL(x) : x \in rows}
    <3>1. a \in {s.address : s \in ToSet(services)}
      BY <1>6 DEF ToSet
    <3>2. QED
      BY <3>1 DEF Lists
  <2> HIDE DEF new, a, h, at
  <2>6. {s.address : s \in ToSet(new)} = {backendURL(x) : x \in rows \cup {r}}
    <3>1. {s.address : s \in ToSet(new)} = {new[i].address : i \in DOMAIN services}
      BY <2>3 DEF ToSet
    <3>2. {s.address : s \in ToSet(services)} = {services[i].address : i \in DOMAIN services}
      BY DEF ToSet
    <3>0. {new[i].address : i \in DOMAIN services}
            = {services[i].address : i \in DOMAIN services}
      BY <2>3
    <3>3. {s.address : s \in ToSet(new)} = {s.address : s \in ToSet(services)}
      BY <3>0, <3>1, <3>2
    <3>4. QED
      BY <1>4, <2>5, <3>3 DEF Lists
  <2>7. \A i, j \in DOMAIN new : new[i].address = new[j].address => i = j
    BY <2>3 DEF Lists
  <2>8. ASSUME NEW i \in DOMAIN new
        PROVE  /\ new[i].health \in HealthAt(rows \cup {r}, new[i].address)
               /\ \A x \in HealthAt(rows \cup {r}, new[i].address) :
                    Rank[x] <= Rank[new[i].health]
    <3>1. /\ i \in DOMAIN services /\ services[i].health \in Health
          /\ services[i].health \in HealthAt(rows, services[i].address)
          /\ \A x \in HealthAt(rows, services[i].address) : Rank[x] <= Rank[services[i].health]
      BY <1>2, <2>3 DEF Lists, Service
    <3>2. \A x \in HealthAt(rows, services[i].address) : x \in Health
      BY RankOrders DEF HealthAt
    <3>3. CASE services[i].address # a
      BY <1>3, <2>3, <3>1, <3>3
    <3>4. CASE services[i].address = a
      <4>1. /\ new[i].address = a /\ new[i].health = worse(i)
            /\ HealthAt(rows \cup {r}, a) = HealthAt(rows, a) \cup {h}
        BY <1>3, <2>3, <3>1, <3>4
      <4>2. worse(i) \in HealthAt(rows, a) \cup {h}
        BY <3>1, <3>4
      <4>3. \A x \in HealthAt(rows, a) \cup {h} : Rank[x] <= Rank[worse(i)]
        BY <1>1, <3>1, <3>2, <3>4
      <4>4. QED
        BY <4>1, <4>2, <4>3
    <3>5. QED
      BY <3>3, <3>4
  <2>9. QED
    BY <2>6, <2>7, <2>8 DEF Lists, new
<1>7. QED
  BY <1>5, <1>6

\* What deriveServices makes of any list: every address of a managed route once,
\* and no other, with the worst health of the routes that go there.
THEOREM DerivedServicesList ==
  ASSUME NEW R, NEW rs \in Seq(R)
  PROVE  Lists(deriveServices(rs), {r \in ToSet(rs) : Managed(r)})
<1> DEFINE m == Where(rs, {r \in ToSet(rs) : Managed(r)})
           L == Len(m)
           A == {backendURL(r) : r \in R}
           D == {r.input.domain : r \in R}
           Q == Seq(Service(A, D))
           Body(F) == [n \in 0 .. L |-> IF n = 0 THEN <<>> ELSE Merge(F[n - 1], m[n])]
           services == CHOOSE F : F = Body(F)
<1>1. m \in Seq(R) /\ ToSet(m) = {r \in ToSet(rs) : Managed(r)}
  BY WhereSet
<1>2. L \in Nat /\ ToSet(m) = Prefix(m, L) /\ \A n \in 1 .. L : m[n] \in R
  BY <1>1, ToSetSeq
<1>3. deriveServices(rs) = services[L]
  BY DEF deriveServices
<1> HIDE DEF m, L
<1> DEFINE step == [p \in Q \X (1 .. L) |-> Merge(p[1], m[p[2]])]
           init == <<>>
<1>4. init \in Q /\ step \in [Q \X (1 .. L) -> Q]
  <2>0. \A n \in 1 .. L : backendURL(m[n]) \in A /\ m[n].input.domain \in D
    BY <1>2
  <2> HIDE DEF A, D
  <2>1. \A s \in Q : \A n \in 1 .. L : Merge(s, m[n]) \in Q
    BY <2>0, MergeType
  <2>2. QED
    BY <2>1
<1>5. PICK F \in [0 .. L -> Q] : Recursive(F, L, init, step)
  <2> HIDE DEF Q, init, step
  <2>1. QED
    BY <1>2, <1>4, Recursion
<1>6. F[0] = <<>> /\ \A n \in 1 .. L : F[n] = Merge(F[n - 1], m[n])
  <2>1. F[0] = <<>> /\ \A n \in 1 .. L : F[n] = step[<<F[n - 1], n>>]
    BY <1>5 DEF Recursive
  <2>2. \A n \in 1 .. L : F[n - 1] \in Q
    <3> HIDE DEF Q
    <3>1. \A n \in 1 .. L : n - 1 \in 0 .. L
      BY <1>2
    <3>2. QED
      BY <3>1
  <2> HIDE DEF Q
  <2>3. QED
    BY <2>1, <2>2
<1>7. F = Body(F)
  <2>1. \A n \in 0 .. L : F[n] = Body(F)[n]
    <3> HIDE DEF Q
    <3>1. \A n \in 0 .. L : n = 0 \/ n \in 1 .. L
      BY <1>2
    <3>2. QED
      BY <1>6, <3>1
  <2>2. Body(F) = [n \in 0 .. L |-> Body(F)[n]]
    OBVIOUS
  <2> HIDE DEF Body, Q
  <2>3. QED
    BY <2>1, <2>2
<1>8. services = Body(services)
  BY <1>7
<1> HIDE DEF services, Q
<1> DEFINE T == {n \in 0 .. L : services[n] = F[n] /\ Lists(F[n], Prefix(m, n))}
<1>9. 0 \in T
  <2>1. Lists(<<>>, Prefix(m, 0))
    BY DEF Lists, ToSet, Prefix
  <2>2. QED
    BY <1>2, <1>6, <1>8, <2>1
<1>10. ASSUME NEW n \in 1 .. L, n - 1 \in T PROVE n \in T
  <2>1. n \in 0 .. L /\ n # 0 /\ n - 1 \in 0 .. L
    BY <1>2
  <2>2. services[n] = Merge(services[n - 1], m[n])
    BY <1>8, <2>1
  <2>3. services[n - 1] = F[n - 1] /\ Lists(F[n - 1], Prefix(m, n - 1)) /\ F[n - 1] \in Q
    BY <1>10, <2>1
  <2>4. Prefix(m, n) = Prefix(m, n - 1) \cup {m[n]}
    BY PrefixGrows
  <2>a. backendURL(m[n]) \in A /\ m[n].input.domain \in D
    BY <1>2
  <2> HIDE DEF A, D
  <2>5. Lists(Merge(F[n - 1], m[n]), Prefix(m, n))
    BY <2>3, <2>4, <2>a, MergeLists DEF Q
  <2>6. services[n] = F[n] /\ Lists(F[n], Prefix(m, n))
    BY <1>6, <2>2, <2>3, <2>5
  <2>7. QED
    BY <2>1, <2>6
<1>11. L \in T
  <2> HIDE DEF T
  <2>1. 0 .. L \subseteq T
    BY <1>2, <1>9, <1>10, UpTo
  <2>2. QED
    BY <1>2, <2>1
<1>12. QED
  BY <1>1, <1>2, <1>3, <1>11

(***************************************************************************)
(* The copies of routes.                                                   *)
(***************************************************************************)
External == {r.id : r \in {x \in FirstRoutes : x.ownership = "external"}}

IdsOf(rows) == {r.id : r \in rows}

\* A copy of a route: of a row the server has or had, not of a later one.
Copies ==
  {c \in Routes :
     /\ c.ownership = IF c.id \in External THEN "external" ELSE "managed"
     /\ c.id \notin External => c.input \in Inputs
     /\ c.id \in server.given
     /\ \A x \in RowsOf(server.rows, c.id) :
          \/ c.updatedAt < x.updatedAt
          \/ c.updatedAt = x.updatedAt /\ c.input = x.input}

ManagedCopies == {c \in Copies : c.id \notin External}

DnsRecords ==
  FirstRecords \cup [id : Ids, type : {"A"}, name : Domains, ownership : {"managed"}]

Servers == [rows : SUBSET Routes, records : SUBSET DnsRecords, time : Nat, given : SUBSET Ids]

ServerOK ==
  /\ server \in Servers
  /\ server.rows \subseteq Copies /\ IsFiniteSet(server.rows)
  /\ External \subseteq server.given
  /\ \A x \in server.rows : x.updatedAt <= server.time
  /\ \A x, y \in server.rows : x.id = y.id => x = y

\* What a section of a load is answered.
ListAnswers == [result : {"success"}, resource : Seq(Routes)]
RecordAnswers == [result : {"success"}, resource : SUBSET DnsRecords]
LoadAnswers == [Sections -> {None, Lost} \cup ListAnswers \cup RecordAnswers]

Requests ==
  [n : Nat, kind : Kinds, id : Ids \cup {None},
   input : Inputs \cup {r.input : r \in FirstRoutes} \cup {None}, removeDns : BOOLEAN,
   touched : SUBSET Fields, old : BOOLEAN, answer : Answers \cup LoadAnswers \cup {None}]

Writes == {"create", "update"}

\* The sections of a load, answered or not.
LoadOK(a) ==
  /\ a \in LoadAnswers
  /\ a["routes"] \in {None, Lost} \cup ListAnswers
  /\ a["dns"] \in {None, Lost} \cup RecordAnswers
  /\ a["routes"] \notin {None, Lost} =>
       ToSet(a["routes"].resource) \subseteq Copies /\ Distinct(a["routes"].resource)

\* A write and a recheck are answered with a copy of their route, a load
\* with copies; a remove that is not lost has been carried out.
AnswerOK(r) ==
  \/ r.kind # "get" /\ r.answer = Lost
  \/ /\ r.kind \in Writes \cup {"recheck"} /\ r.answer \in Answers
     /\ r.answer.result \in {"success", "partial_failure"}
     /\ r.answer.resource \in ManagedCopies
     /\ r.kind # "create" => r.answer.resource.id = r.id
  \/ /\ r.kind = "remove" /\ r.answer \in Answers
     /\ r.answer.result \in {"success", "partial_failure"}
     /\ r.id \notin IdsOf(server.rows)
  \/ r.kind = "get" /\ LoadOK(r.answer)

RequestOK(r) ==
  /\ r \in Requests /\ r.n \in 1..sent
  /\ IF r.kind \in {"create", "get"} THEN r.id = None ELSE r.id \in server.given \ External
  /\ r.kind \in Writes => r.input \in Inputs
  /\ r.kind = "get" \/ r.answer # None => AnswerOK(r)

WireOK ==
  /\ \A r \in wire : RequestOK(r)
  /\ \A q, r \in wire : q.n = r.n => q = r

Ops == {"closed", "idle", "submitting", "success", "partial_success", "error"}
Shows == {"success", "partial_success"}

Forms ==
  [op : Ops, route : Routes \cup {None}, v : Inputs \cup {None}, request : Nat,
   result : Routes \cup {None}, touched : SUBSET Fields, old : BOOLEAN]

Dialogs == [route : Routes \cup {None}, removeDns : BOOLEAN]

Apps ==
  [rs : Seq(Routes), dnsRecords : SUBSET DnsRecords, detail : Routes \cup {None},
   checking : Nat, form : Forms, dialog : Dialogs, loading : BOOLEAN, load : Nat,
   loadError : BOOLEAN]

FormOK(f) ==
  /\ f \in Forms
  /\ f.route \in ManagedCopies \cup {None}
  /\ IF f.op = "closed" THEN f.request = 0 ELSE f.v \in Inputs
  /\ f.op \in Shows => f.result \in ManagedCopies
  /\ f.request \in 0..sent

ListOK(rs) == rs \in Seq(Routes) /\ ToSet(rs) \subseteq Copies /\ Distinct(rs)

AppOK ==
  /\ app \in Apps
  /\ ListOK(app.rs)
  /\ app.detail \in Copies \cup {None}
  /\ FormOK(app.form)
  /\ app.dialog \in Dialogs /\ app.dialog.route \in ManagedCopies \cup {None}
  /\ app.load \in 0..sent

RestOK ==
  /\ page \in Pages /\ sent \in Nat /\ edits \in Nat /\ lagging \subseteq Ids
  /\ heard \in [Ids -> 0..sent]

CopiesInv == RestOK /\ ServerOK /\ WireOK /\ AppOK

(***************************************************************************)
(* Which copies are current.                                               *)
(***************************************************************************)
Current(c) == \A x \in RowsOf(server.rows, c.id) : x.updatedAt = c.updatedAt

\* The open form has an update of the route under way or to be confirmed.
Busy(id) ==
  /\ app.form.op \in {"submitting"} \cup Shows
  /\ app.form.route # None /\ app.form.route.id = id

Known(c) == Current(c) \/ Busy(c.id) \/ c.id \in lagging

\* The one request of the open form.
FormRequest(r) ==
  /\ app.form.op = "submitting" /\ app.form.request = r.n
  /\ IF app.form.route = None THEN r.kind = "create"
     ELSE r.kind = "update" /\ r.id = app.form.route.id

ListKnown == \A y \in Rows : Known(y)
DetailKnown == app.detail # None => Known(app.detail) \/ Behind(app.detail)

ChecksKnown ==
  \A r \in wire : r.kind = "recheck" /\ r.answer \notin {None, Lost} =>
    Known(r.answer.resource) \/ Behind(r.answer.resource)

Pending(r) == r.kind = "get" /\ r.n = app.load

\* Detail, and what will be Detail when a check is answered.
DetailIds ==
  {id \in Ids : \/ app.detail # None /\ app.detail.id = id
                \/ \E r \in wire : r.kind = "recheck" /\ r.id = id}

LoadKnown ==
  \A r \in wire : Pending(r) =>
    /\ app.loading
    /\ r.answer["routes"] \notin {None, Lost} =>
         /\ \A z \in ToSet(r.answer["routes"].resource) : Known(z) \/ Behind(z)
         /\ DetailIds \cap IdsOf(server.rows) \subseteq IdsOf(ToSet(r.answer["routes"].resource))

UpdateOfForm ==
  \A r \in wire : r.kind = "update" => r.id \in lagging \/ FormRequest(r)

FormOfRequest ==
  \A r \in wire : r.kind \in Writes /\ r.n = app.form.request => FormRequest(r)

Untouched(v, touched, id) ==
  \A x \in RowsOf(server.rows, id) : \A f \in Fields :
    Part(v, f) # Part(x.input, f) => f \in touched

FormFaithful ==
  /\ app.form.op = "idle" /\ app.form.route # None /\ ~app.form.old
     /\ app.form.route.id \notin lagging
       => Untouched(app.form.v, app.form.touched, app.form.route.id)
  /\ app.form.op = "error" /\ app.form.route # None => app.form.route.id \in lagging

RequestFaithful ==
  \A r \in wire : r.kind = "update" /\ r.answer = None /\ ~r.old /\ r.id \notin lagging
    => Untouched(r.input, r.touched, r.id)

ResultKnown ==
  /\ \A r \in wire : r.kind \in Writes /\ r.n = app.form.request /\ r.answer \notin {None, Lost}
       => Current(r.answer.resource) \/ r.answer.resource.id \in lagging
  /\ app.form.op \in Shows =>
       /\ Current(app.form.result) \/ app.form.result.id \in lagging
       /\ app.form.route # None => app.form.result.id = app.form.route.id

(***************************************************************************)
(* Every copy is one of the server's.                                      *)
(***************************************************************************)
RoutesStep == RoutesNext \/ \E p \in Visited : RoutesGo(p)

\* What no step takes back.
Grows ==
  /\ Copies \subseteq Copies'
  /\ server.given \subseteq server'.given
  /\ IdsOf(server'.rows) \cap server.given \subseteq IdsOf(server.rows)

\* A step of the console leaves the copies what they are.
LEMMA SameServer ==
  ASSUME UNCHANGED server PROVE Grows /\ Copies' = Copies /\ (ServerOK => ServerOK')
<1>1. Copies' = Copies
  BY DEF Copies, RowsOf
<1>2. QED
  BY <1>1 DEF Grows, ServerOK, IdsOf, Copies

\* The row that a write leaves.
LEMMA WrittenRow ==
  ASSUME CopiesInv, NEW r \in wire, r.kind \in Writes, NEW id \in Ids \ External,
         \/ id \notin server.given
         \/ RowsOf(server.rows, id) # {},
         NEW row, row = Route(id, "managed", r.input, NotObserved, server.time + 1),
         server' \in Servers,
         server'.rows = (server.rows \ RowsOf(server.rows, id)) \cup {row},
         server'.time = server.time + 1, server'.given = server.given \cup {id}
  PROVE  Grows /\ ServerOK' /\ row \in ManagedCopies' /\ id \in server'.given
<1>0. /\ server \in Servers /\ server.rows \subseteq Copies /\ server.rows \subseteq Routes
      /\ IsFiniteSet(server.rows) /\ server.time \in Nat /\ External \subseteq server.given
      /\ \A x \in server.rows : x.updatedAt <= server.time
      /\ \A x, y \in server.rows : x.id = y.id => x = y
  BY DEF CopiesInv, ServerOK, Servers
<1>1. /\ row \in Routes /\ row.id = id /\ row.updatedAt = server.time + 1
      /\ row.ownership = "managed" /\ row.input \in Inputs
  <2>1. r.input \in Inputs
    BY DEF CopiesInv, WireOK, RequestOK
  <2>2. NotObserved \in RouteStatus
    BY DEF NotObserved, RouteStatus, ComponentStates
  <2>3. QED
    BY <1>0, <2>1, <2>2 DEF Route, Routes
<1>2. \A x \in server'.rows : x = row \/ (x \in server.rows /\ x.id # id)
  BY DEF RowsOf
<1>3. ASSUME NEW c \in Copies PROVE c \in Copies'
  <2>1. c \in Routes /\ c.updatedAt \in Nat /\ c.id \in server.given
    BY DEF Copies, Routes
  <2>2. ASSUME NEW x \in RowsOf(server'.rows, c.id)
        PROVE  \/ c.updatedAt < x.updatedAt
               \/ c.updatedAt = x.updatedAt /\ c.input = x.input
    <3>1. CASE x \in RowsOf(server.rows, c.id)
      BY <3>1 DEF Copies
    <3>2. CASE x = row
      <4>1. c.id = id
        BY <1>1, <2>2, <3>2 DEF RowsOf
      <4>2. PICK y \in RowsOf(server.rows, id) : TRUE
        BY <2>1, <4>1
      <4>3. c.updatedAt <= y.updatedAt /\ y.updatedAt <= server.time /\ y.updatedAt \in Nat
        BY <1>0, <2>1, <4>1, <4>2 DEF Copies, RowsOf, Routes
      <4>4. QED
        BY <1>0, <1>1, <2>1, <3>2, <4>3
    <3>3. QED
      BY <1>2, <2>2, <3>1, <3>2 DEF RowsOf
  <2>3. QED
    BY <2>1, <2>2 DEF Copies
<1>4. row \in ManagedCopies'
  <2>1. \A x \in RowsOf(server'.rows, id) : x = row
    BY <1>2 DEF RowsOf
  <2>2. QED
    BY <1>1, <2>1 DEF Copies, ManagedCopies
<1>5. Grows
  <2>1. IdsOf(server'.rows) \cap server.given \subseteq IdsOf(server.rows)
    BY <1>1, <1>2 DEF IdsOf, RowsOf
  <2>2. QED
    BY <1>3, <2>1 DEF Grows
<1>6. IsFiniteSet(server'.rows)
  <2>1. IsFiniteSet(server.rows \ RowsOf(server.rows, id))
    BY <1>0, FS_Subset
  <2>2. QED
    BY <2>1, FS_AddElement
<1>7. \A x \in server'.rows : x.updatedAt <= server'.time
  BY <1>0, <1>1, <1>2 DEF Routes
<1>8. \A x, y \in server'.rows : x.id = y.id => x = y
  BY <1>0, <1>1, <1>2
<1>9. server'.rows \subseteq Copies'
  BY <1>0, <1>2, <1>3, <1>4 DEF ManagedCopies
<1>10. ServerOK'
  BY <1>0, <1>6, <1>7, <1>8, <1>9 DEF ServerOK
<1>11. QED
  BY <1>4, <1>5, <1>10

\* A row less.
LEMMA RemovedRow ==
  ASSUME CopiesInv, NEW id, server' \in Servers, server'.time \in Nat,
         server'.rows = server.rows \ RowsOf(server.rows, id),
         server'.time = server.time + 1, server'.given = server.given
  PROVE  Grows /\ ServerOK' /\ id \notin IdsOf(server'.rows)
<1>0. /\ server \in Servers /\ server.rows \subseteq Copies /\ server.rows \subseteq Routes
      /\ IsFiniteSet(server.rows) /\ server.time \in Nat /\ External \subseteq server.given
      /\ \A x \in server.rows : x.updatedAt <= server.time
      /\ \A x, y \in server.rows : x.id = y.id => x = y
  BY DEF CopiesInv, ServerOK, Servers
<1>1. Copies \subseteq Copies'
  BY DEF Copies, RowsOf
<1>2. Grows
  BY <1>1 DEF Grows, IdsOf
<1>3. IsFiniteSet(server'.rows)
  BY <1>0, FS_Subset
<1>4. \A x \in server'.rows : x.updatedAt <= server'.time
  BY <1>0 DEF Routes
<1>5. ServerOK'
  BY <1>0, <1>1, <1>3, <1>4 DEF ServerOK
<1>6. QED
  BY <1>2, <1>5 DEF IdsOf, RowsOf

\* What a request waits for and has been answered stays true.
LEMMA RequestStays ==
  ASSUME Grows, NEW r, RequestOK(r), sent \in Nat, sent' \in Nat, sent <= sent'
  PROVE  RequestOK(r)'
<1>1. r.n \in 1 .. sent' /\ r \in Requests
  BY DEF RequestOK
<1>2. ManagedCopies \subseteq ManagedCopies' /\ Copies \subseteq Copies'
  BY DEF Grows, ManagedCopies
<1>3. AnswerOK(r) /\ (r.kind = "remove" => r.id \in server.given) => AnswerOK(r)'
  <2>1. CASE r.kind = "get"
    BY <1>2, <2>1 DEF AnswerOK, LoadOK, Writes
  <2>2. CASE r.kind # "get"
    BY <1>2, <2>2 DEF AnswerOK, Grows
  <2>3. QED
    BY <2>1, <2>2
<1>4. r.kind = "remove" => r.id \in server.given
  BY DEF RequestOK
<1>5. QED
  BY <1>1, <1>3, <1>4 DEF RequestOK, Grows

\* Requests go, and come one at a time.
LEMMA WireLess ==
  ASSUME CopiesInv, Grows, sent' = sent, wire' \subseteq wire
  PROVE  WireOK'
<1>1. \A r \in wire : RequestOK(r) => RequestOK(r)'
  BY RequestStays DEF CopiesInv, RestOK
<1>2. QED
  BY <1>1 DEF CopiesInv, WireOK

\* One request more, with a number of its own.
LEMMA WireMore ==
  ASSUME CopiesInv, Grows, sent' = sent + 1, NEW q, wire' \subseteq wire \cup {q},
         q.n = sent + 1, RequestOK(q)'
  PROVE  WireOK'
<1>1. sent \in Nat
  BY DEF CopiesInv, RestOK
<1>2. \A r \in wire : RequestOK(r) /\ RequestOK(r)' /\ r.n # q.n
  BY <1>1, RequestStays DEF CopiesInv, WireOK, RequestOK
<1>3. QED
  BY <1>2 DEF CopiesInv, WireOK

\* An answer replaces its request.
LEMMA ReplyKeeps ==
  ASSUME CopiesInv, Grows, sent' = sent, NEW r \in wire,
         NEW a \in Answers \cup LoadAnswers, Reply(r, a),
         AnswerOK([r EXCEPT !.answer = a])'
  PROVE  WireOK'
<1> DEFINE q == [r EXCEPT !.answer = a]
<1>1. RequestOK(r) /\ RequestOK(r)' /\ r \in Requests
  BY RequestStays DEF CopiesInv, WireOK, RequestOK, RestOK
<1>2. /\ q \in Requests /\ q.n = r.n /\ q.kind = r.kind /\ q.id = r.id /\ q.input = r.input
      /\ q.answer = a
  BY <1>1 DEF Requests
<1> HIDE DEF q
<1>3. RequestOK(q)'
  BY <1>1, <1>2 DEF RequestOK, q
<1>4. wire' = (wire \ {r}) \cup {q}
  BY DEF Reply, q
<1>5. \A x \in wire : RequestOK(x)' /\ (x.n = r.n => x = r)
  BY RequestStays DEF CopiesInv, WireOK, RestOK
<1>6. QED
  BY <1>2, <1>3, <1>4, <1>5 DEF CopiesInv, WireOK

\* The rest of the app in a step of the server.
LEMMA AppStays ==
  ASSUME CopiesInv, Grows, UNCHANGED <<page, app, sent, edits, lagging, heard>>
  PROVE  AppOK' /\ RestOK'
<1>1. ManagedCopies \subseteq ManagedCopies' /\ Copies \subseteq Copies'
  BY DEF Grows, ManagedCopies
<1>2. RestOK'
  BY DEF CopiesInv, RestOK
<1>3. AppOK'
  BY <1>1 DEF CopiesInv, AppOK, FormOK, ListOK
<1>4. QED
  BY <1>2, <1>3

\* The answer that is no answer is one of the answers.
LEMMA LostOK == Lost \in Answers
BY DEF Lost, Answer, Answers

\* What the server does takes nothing back and invents no copy.
LEMMA ServeCopies ==
  ASSUME CopiesInv, NEW r \in wire, Serve(r)
  PROVE  CopiesInv' /\ Grows
<1>0. /\ RequestOK(r) /\ r \in Requests /\ sent' = sent
      /\ server \in Servers /\ server.rows \subseteq Copies /\ IsFiniteSet(server.rows)
      /\ ServerOK /\ \A x, y \in server.rows : x.id = y.id => x = y
  BY DEF Serve, CopiesInv, WireOK, RequestOK, ServerOK
<1> DEFINE q(a) == [r EXCEPT !.answer = a]
<1>q. ASSUME NEW a
      PROVE  q(a).kind = r.kind /\ q(a).id = r.id /\ q(a).answer = a
  BY <1>0 DEF Requests
<1> HIDE DEF q
<1>1. CASE r.kind # "get" /\ ServeError(r)
  <2>1. Grows /\ ServerOK'
    BY <1>0, <1>1, SameServer DEF ServeError
  <2>2. AnswerOK(q(Lost))'
    BY <1>q, <1>1 DEF AnswerOK
  <2>3. WireOK'
    BY <1>0, <1>1, <2>1, <2>2, LostOK, ReplyKeeps DEF ServeError, q
  <2>4. QED
    BY <2>1, <2>3, AppStays DEF Serve, CopiesInv
<1>2. CASE ServeWrite(r)
  <2>1. PICK id \in IF r.kind = "create" THEN Ids \ server.given
                    ELSE {x.id : x \in RowsOf(server.rows, r.id)} :
          LET row == Route(id, "managed", r.input, NotObserved, server.time + 1) IN
          /\ server' = [server EXCEPT
               !.time = @ + 1, !.given = @ \cup {id},
               !.rows = (@ \ RowsOf(@, id)) \cup {row},
               !.records = IF r.input.createDns
                             THEN (@ \ {d \in @ : d.id = id}) \cup {RecordFor(id, r.input)}
                             ELSE @]
          /\ \E a \in {Answer("success", row), Answer("partial_failure", row), Lost} :
               Reply(r, a)
    BY <1>2 DEF ServeWrite
  <2> DEFINE row == Route(id, "managed", r.input, NotObserved, server.time + 1)
  <2>2. r.kind \in Writes /\ r.input \in Inputs
    BY <1>0, <1>2 DEF ServeWrite, RequestOK, Writes
  <2>3. /\ id \in Ids \ External /\ (id \notin server.given \/ RowsOf(server.rows, id) # {})
        /\ r.kind # "create" => id = r.id
    BY <1>0, <2>1, <2>2 DEF ServerOK, RowsOf, RequestOK, Writes, Servers
  <2>4. /\ server'.rows = (server.rows \ RowsOf(server.rows, id)) \cup {row}
        /\ server'.time = server.time + 1 /\ server'.given = server.given \cup {id}
        /\ server'.records \subseteq server.records \cup {RecordFor(id, r.input)}
        /\ server' = [rows |-> server'.rows, records |-> server'.records,
                      time |-> server'.time, given |-> server'.given]
    BY <1>0, <2>1 DEF Servers
  <2>5. row \in Routes
    <3>1. NotObserved \in RouteStatus
      BY DEF NotObserved, RouteStatus, ComponentStates
    <3>2. QED
      BY <1>0, <2>2, <2>3, <3>1 DEF Route, Routes, Servers
  <2>6. RecordFor(id, r.input) \in DnsRecords
    BY <2>2, <2>3 DEF RecordFor, DnsRecords, Inputs
  <2>7. server' \in Servers
    BY <1>0, <2>3, <2>4, <2>5, <2>6 DEF Servers
  <2> HIDE DEF row
  <2>8. Grows /\ ServerOK' /\ row \in ManagedCopies' /\ row.id = id
    <3>1. row = Route(id, "managed", r.input, NotObserved, server.time + 1)
      BY DEF row
    <3>2. row.id = id
      BY <3>1 DEF Route
    <3>3. QED
      BY <2>2, <2>3, <2>4, <2>7, <3>1, <3>2, WrittenRow
  <2>9. PICK a \in {Answer("success", row), Answer("partial_failure", row), Lost} : Reply(r, a)
    BY <2>1 DEF row
  <2>10. a \in Answers
    BY <2>5, LostOK DEF Answers, Answer, row
  <2>11. AnswerOK(q(a))'
    <3>1. CASE a = Lost
      BY <1>q, <2>2, <3>1 DEF AnswerOK, Writes
    <3>2. CASE a # Lost
      <4>1. a.result \in {"success", "partial_failure"} /\ a.resource = row
        BY <2>9, <3>2 DEF Answer
      <4>2. QED
        BY <1>q, <2>2, <2>3, <2>8, <2>10, <4>1 DEF AnswerOK
    <3>3. QED
      BY <3>1, <3>2
  <2>12. WireOK'
    BY <1>0, <2>8, <2>9, <2>10, <2>11, ReplyKeeps DEF q
  <2>13. QED
    BY <2>8, <2>12, AppStays DEF Serve, CopiesInv
<1>3. CASE ServeRemove(r)
  <2>1. PICK kept \in IF r.removeDns THEN {{}, RowsOf(server.records, r.id)}
                      ELSE {RowsOf(server.records, r.id)} :
          server' = [server EXCEPT !.time = @ + 1,
                                   !.rows = @ \ RowsOf(@, r.id),
                                   !.records = (@ \ RowsOf(@, r.id)) \cup kept]
    BY <1>3 DEF ServeRemove
  <2>2. /\ server'.rows = server.rows \ RowsOf(server.rows, r.id)
        /\ server'.time = server.time + 1 /\ server'.given = server.given
        /\ server'.records \subseteq server.records
        /\ server' = [rows |-> server'.rows, records |-> server'.records,
                      time |-> server'.time, given |-> server'.given]
    BY <1>0, <2>1 DEF Servers, RowsOf
  <2>3. server' \in Servers
    BY <1>0, <2>2 DEF Servers
  <2>4. Grows /\ ServerOK' /\ r.id \notin IdsOf(server'.rows)
    BY <2>2, <2>3, RemovedRow DEF Servers
  <2>5. PICK a \in {Answer("success", None), Answer("partial_failure", None), Lost} : Reply(r, a)
    BY <1>3 DEF ServeRemove
  <2>6. a \in Answers
    BY <2>5, LostOK DEF Answers, Answer
  <2>7. AnswerOK(q(a))'
    <3>1. CASE a = Lost
      BY <1>q, <1>3, <3>1 DEF AnswerOK, ServeRemove
    <3>2. CASE a # Lost
      <4>1. a.result \in {"success", "partial_failure"} /\ r.kind = "remove"
        BY <1>3, <2>5, <3>2 DEF Answer, ServeRemove
      <4>2. QED
        BY <1>q, <2>4, <2>6, <4>1 DEF AnswerOK
    <3>3. QED
      BY <3>1, <3>2
  <2>8. WireOK'
    BY <1>0, <2>4, <2>5, <2>6, <2>7, ReplyKeeps DEF q
  <2>9. QED
    BY <2>4, <2>8, AppStays DEF Serve, CopiesInv
<1>4. CASE ServeRecheck(r)
  <2>1. Grows /\ ServerOK' /\ Copies' = Copies /\ r.kind = "recheck"
    BY <1>0, <1>4, SameServer DEF ServeRecheck
  <2>2. PICK x \in RowsOf(server.rows, r.id), status \in Statuses :
          Reply(r, Answer("success", [x EXCEPT !.status = status]))
    BY <1>4 DEF ServeRecheck
  <2> DEFINE c == [x EXCEPT !.status = status]
             a == Answer("success", c)
  <2>3. x \in Copies /\ x \in Routes /\ x.id = r.id /\ r.id \notin External
    BY <1>0, <2>1, <2>2 DEF RowsOf, Copies, RequestOK
  <2>4. /\ c \in Routes /\ c.id = x.id /\ c.ownership = x.ownership /\ c.input = x.input
        /\ c.updatedAt = x.updatedAt
    BY <2>2, <2>3, ServerAssumption DEF Routes
  <2> HIDE DEF c
  <2>5. c \in ManagedCopies'
    BY <2>1, <2>3, <2>4 DEF Copies, ManagedCopies
  <2>6. a \in Answers /\ a.result = "success" /\ a.resource = c
    BY <2>4 DEF Answer, Answers
  <2> HIDE DEF a
  <2>7. AnswerOK(q(a))'
    BY <1>q, <2>1, <2>3, <2>4, <2>5, <2>6 DEF AnswerOK
  <2>8. WireOK'
    BY <1>0, <2>1, <2>2, <2>6, <2>7, ReplyKeeps DEF q, a, c
  <2>9. QED
    BY <2>1, <2>8, AppStays DEF Serve, CopiesInv
<1>5. ASSUME NEW s \in Sections, ServeGet(r, s) PROVE CopiesInv' /\ Grows
  <2>1. Grows /\ ServerOK' /\ Copies' = Copies /\ r.kind = "get" /\ LoadOK(r.answer)
    <3>1. r.kind = "get" /\ UNCHANGED server
      BY <1>5 DEF ServeGet
    <3>2. LoadOK(r.answer)
      BY <1>0, <3>1 DEF RequestOK, AnswerOK, Writes, Lost, Answer
    <3>3. QED
      BY <1>0, <3>1, <3>2, SameServer
  <2> DEFINE rs == SetToSeq(server.rows)
  <2>2. /\ rs \in Seq(Routes) /\ ToSet(rs) \subseteq Copies /\ Distinct(rs)
    <3>1. rs \in Seq(server.rows) /\ ToSet(rs) = server.rows
          /\ \A i, j \in DOMAIN rs : rs[i] = rs[j] => i = j
      BY <1>0, SetToSeqList
    <3> HIDE DEF rs
    <3>2. rs \in Seq(Routes)
      BY <1>0, <3>1, SeqMonotonic DEF Servers
    <3>3. Distinct(rs)
      BY <1>0, <3>1 DEF Distinct, ToSet
    <3>4. QED
      BY <1>0, <3>1, <3>2, <3>3
  <2>3. PICK a \in {Answer("success", IF s = "routes" THEN rs ELSE server.records), Lost} :
          Reply(r, [r.answer EXCEPT ![s] = a])
    BY <1>5 DEF ServeGet
  <2> HIDE DEF rs
  <2> DEFINE b == [r.answer EXCEPT ![s] = a]
  <2>4. /\ s = "routes" => a = Lost \/ (a \in ListAnswers /\ a.resource = rs)
        /\ s = "dns" => a = Lost \/ a \in RecordAnswers
    <3>1. server.records \in SUBSET DnsRecords
      BY <1>0 DEF Servers
    <3>2. QED
      BY <2>2, <2>3, <3>1 DEF Answer, ListAnswers, RecordAnswers
  <2>5. /\ b \in LoadAnswers /\ b[s] = a /\ \A t \in Sections \ {s} : b[t] = r.answer[t]
    <3>1. a \in {None, Lost} \cup ListAnswers \cup RecordAnswers
      BY <2>4 DEF Sections
    <3>2. r.answer \in [Sections -> {None, Lost} \cup ListAnswers \cup RecordAnswers]
      BY <2>1 DEF LoadOK, LoadAnswers
    <3>3. QED
      BY <3>1, <3>2 DEF LoadAnswers
  <2> HIDE DEF b
  <2>6. LoadOK(b)'
    <3>1. CASE s = "routes"
      <4>1. b["routes"] = a /\ b["dns"] = r.answer["dns"]
        BY <2>5, <3>1 DEF Sections
      <4>2. QED
        BY <2>1, <2>2, <2>4, <2>5, <3>1, <4>1 DEF LoadOK
    <3>2. CASE s = "dns"
      <4>1. b["dns"] = a /\ b["routes"] = r.answer["routes"]
        BY <2>5, <3>2 DEF Sections
      <4>2. QED
        BY <2>1, <2>4, <2>5, <3>2, <4>1 DEF LoadOK
    <3>3. QED
      BY <3>1, <3>2 DEF Sections
  <2>7. AnswerOK(q(b))'
    BY <1>q, <2>1, <2>6 DEF AnswerOK
  <2>8. WireOK'
    BY <1>0, <2>1, <2>3, <2>5, <2>7, ReplyKeeps DEF q, b
  <2>9. QED
    BY <2>1, <2>8, AppStays DEF Serve, CopiesInv
<1>6. QED
  BY <1>1, <1>2, <1>3, <1>4, <1>5 DEF Serve

\* The rows of a table are rows of the list.
LEMMA TableRows ==
  ASSUME app.rs \in Seq(Routes) PROVE Table \subseteq Rows
<1>1. Len(app.rs) \in Nat /\ DOMAIN app.rs = 1 .. Len(app.rs)
  BY ToSetSeq
<1>2. CASE page = "dashboard"
  <2>0. PICK n : n = IF Len(app.rs) < Recent THEN Len(app.rs) ELSE Recent
    OBVIOUS
  <2>1. n \in Nat /\ n <= Len(app.rs)
    <3>1. Recent \in Nat
      BY ModelAssumption
    <3>2. CASE Len(app.rs) < Recent
      BY <1>1, <2>0, <3>2
    <3>3. CASE ~(Len(app.rs) < Recent)
      BY <1>1, <2>0, <3>1, <3>3
    <3>4. QED
      BY <3>2, <3>3
  <2>2. \A i \in 1 .. n : app.rs[i] \in Rows
    BY <1>1, <2>1 DEF Rows
  <2> DEFINE x == SubSeq(app.rs, 1, n)
  <2>3. x \in Seq(Rows)
    BY <2>1, <2>2, SubSeqProperties
  <2>4. Table = ToSet(x)
    BY <1>2, <2>0 DEF Table, RecentRows
  <2> HIDE DEF x
  <2>5. QED
    BY <2>3, <2>4, ToSetSeq DEF ToSet
<1>3. CASE page # "dashboard"
  BY <1>3 DEF Table
<1>4. QED
  BY <1>2, <1>3

\* The rows of the list are copies.
LEMMA RowsAreCopies ==
  ASSUME CopiesInv
  PROVE  /\ Rows \subseteq Copies /\ Rows = ToSet(app.rs) /\ app.rs \in Seq(Routes)
         /\ \A r \in Rows : r \in Routes
BY DEF CopiesInv, AppOK, ListOK, Rows, ToSet, Copies

\* Edit and Delete are offered on copies of managed routes only.
LEMMA OfferedManaged ==
  ASSUME CopiesInv, NEW r \in Offered("edit") \cup Offered("delete")
  PROVE  r \in ManagedCopies /\ (r = app.detail \/ (app.detail = None /\ r \in Rows))
<1>1. r = app.detail \/ (app.detail = None /\ r \in Table)
  BY DEF Offered
<1>2. Table \subseteq Rows
  BY RowsAreCopies, TableRows
<1>3. Managed(r)
  BY DEF Offered, DetailActions, RowActions
<1>4. r \in Copies
  <2>1. CASE app.detail # None
    BY <2>1, <1>1 DEF CopiesInv, AppOK, Offered
  <2>2. CASE app.detail = None
    BY <1>2, <2>2, RowsAreCopies DEF Offered
  <2>3. QED
    BY <2>1, <2>2
<1>5. QED
  BY <1>1, <1>2, <1>3, <1>4 DEF Copies, ManagedCopies, Managed

\* The server keeps what it is in a step of the console.
LEMMA ConsoleStep ==
  ASSUME CopiesInv, UNCHANGED server
  PROVE  Grows /\ ServerOK' /\ Copies' = Copies /\ ManagedCopies' = ManagedCopies
<1>1. Grows /\ ServerOK' /\ Copies' = Copies
  BY SameServer DEF CopiesInv
<1>2. QED
  BY <1>1 DEF ManagedCopies

\* What App holds after a step.
LEMMA AppMoves ==
  ASSUME CopiesInv, UNCHANGED server,
         NEW rs, ListOK(rs), NEW dnsRecords \in SUBSET DnsRecords,
         NEW detail \in Copies \cup {None}, NEW checking \in Nat,
         NEW form, FormOK(form)',
         NEW dialog \in Dialogs, dialog.route \in ManagedCopies \cup {None},
         NEW loading \in BOOLEAN, NEW load \in 0 .. sent', NEW loadError \in BOOLEAN,
         app' = [rs |-> rs, dnsRecords |-> dnsRecords, detail |-> detail,
                 checking |-> checking, form |-> form, dialog |-> dialog,
                 loading |-> loading, load |-> load, loadError |-> loadError]
  PROVE  AppOK'
<1>1. /\ app'.rs = rs /\ app'.detail = detail /\ app'.form = form /\ app'.dialog = dialog
      /\ app'.load = load
  OBVIOUS
<1>2. Copies' = Copies /\ ManagedCopies' = ManagedCopies /\ Copies \subseteq Routes
  BY ConsoleStep DEF Copies
<1>3. app' \in Apps
  BY <1>2 DEF Apps, ListOK, FormOK
<1>4. ListOK(rs)'
  BY <1>2 DEF ListOK
<1>5. QED
  BY <1>1, <1>2, <1>3, <1>4 DEF AppOK

\* The parts of App, each with its type.
LEMMA AppParts ==
  ASSUME CopiesInv
  PROVE  /\ app = [rs |-> app.rs, dnsRecords |-> app.dnsRecords, detail |-> app.detail,
                   checking |-> app.checking, form |-> app.form, dialog |-> app.dialog,
                   loading |-> app.loading, load |-> app.load, loadError |-> app.loadError]
         /\ app.dnsRecords \in SUBSET DnsRecords /\ app.checking \in Nat
         /\ app.loading \in BOOLEAN /\ app.load \in 0 .. sent /\ app.loadError \in BOOLEAN
         /\ ListOK(app.rs) /\ FormOK(app.form) /\ app.detail \in Copies \cup {None}
         /\ app.dialog \in Dialogs /\ app.dialog.route \in ManagedCopies \cup {None}
         /\ app.form = [op |-> app.form.op, route |-> app.form.route, v |-> app.form.v,
                        request |-> app.form.request, result |-> app.form.result,
                        touched |-> app.form.touched, old |-> app.form.old]
BY DEF CopiesInv, AppOK, Apps, FormOK, Forms

\* The fields of a form that an action sets.
LEMMA FormEntered ==
  ASSUME NEW f \in Forms, NEW v, NEW touched, NEW g,
         g = [f EXCEPT !.v = v, !.touched = touched]
  PROVE  g = [op |-> f.op, route |-> f.route, v |-> v, request |-> f.request,
              result |-> f.result, touched |-> touched, old |-> f.old]
<1>1. f = [op |-> f.op, route |-> f.route, v |-> f.v, request |-> f.request,
           result |-> f.result, touched |-> f.touched, old |-> f.old]
  BY DEF Forms
<1>2. QED
  BY <1>1

\* The two fields that sending sets.
LEMMA FormSent ==
  ASSUME NEW f \in Forms, NEW op, NEW request, NEW g,
         g = [f EXCEPT !.op = op, !.request = request]
  PROVE  g = [op |-> op, route |-> f.route, v |-> f.v, request |-> request,
              result |-> f.result, touched |-> f.touched, old |-> f.old]
<1>1. f = [op |-> f.op, route |-> f.route, v |-> f.v, request |-> f.request,
           result |-> f.result, touched |-> f.touched, old |-> f.old]
  BY DEF Forms
<1>2. QED
  BY <1>1

\* The two fields that an answer sets.
LEMMA FormAnswered ==
  ASSUME NEW f \in Forms, NEW op, NEW result, NEW g,
         g = [f EXCEPT !.op = op, !.result = result]
  PROVE  g = [op |-> op, route |-> f.route, v |-> f.v, request |-> f.request,
              result |-> result, touched |-> f.touched, old |-> f.old]
<1>1. f = [op |-> f.op, route |-> f.route, v |-> f.v, request |-> f.request,
           result |-> f.result, touched |-> f.touched, old |-> f.old]
  BY DEF Forms
<1>2. QED
  BY <1>1

\* The form is still good when the console steps.
LEMMA FormStays ==
  ASSUME CopiesInv, UNCHANGED server, sent' \in {sent, sent + 1}, NEW f, FormOK(f)
  PROVE  FormOK(f)' /\ app.load \in 0 .. sent'
BY ConsoleStep DEF CopiesInv, RestOK, AppOK, FormOK, Forms

\* No form is good.
LEMMA NoFormOK ==
  ASSUME CopiesInv PROVE FormOK(NoForm)
<1>1. NoForm \in Forms
  BY DEF NoForm, Forms, Ops
<1>2. QED
  BY <1>1 DEF NoForm, FormOK, CopiesInv, RestOK, Shows

\* Steps that send and receive nothing.
LEMMA LocalStep ==
  ASSUME CopiesInv, UNCHANGED <<server, wire, sent, heard>>, page' \in Pages, edits' \in Nat,
         lagging' \in SUBSET Ids, AppOK'
  PROVE  CopiesInv'
<1>1. Grows /\ ServerOK'
  BY ConsoleStep
<1>2. WireOK'
  BY <1>1, WireLess
<1>3. QED
  BY <1>1, <1>2 DEF CopiesInv, RestOK

\* Only the form changes.
LEMMA FormMoves ==
  ASSUME CopiesInv, UNCHANGED <<server, wire, page, sent, heard>>, edits' \in Nat,
         lagging' \in SUBSET Ids, NEW f, FormOK(f), app' = [app EXCEPT !.form = f]
  PROVE  CopiesInv'
<1>1. FormOK(f)'
  BY FormStays
<1>2. app' = [rs |-> app.rs, dnsRecords |-> app.dnsRecords, detail |-> app.detail,
              checking |-> app.checking, form |-> f, dialog |-> app.dialog,
              loading |-> app.loading, load |-> app.load, loadError |-> app.loadError]
  BY AppParts
<1>3. AppOK'
  BY <1>1, <1>2, AppParts, AppMoves
<1>4. QED
  BY <1>3, LocalStep DEF CopiesInv, RestOK

\* Steps that keep the form.
LEMMA OtherMoves ==
  ASSUME CopiesInv, UNCHANGED server, sent' \in {sent, sent + 1},
         NEW rs, ListOK(rs), NEW dnsRecords \in SUBSET DnsRecords,
         NEW detail \in Copies \cup {None}, NEW checking \in Nat,
         NEW dialog \in Dialogs, dialog.route \in ManagedCopies \cup {None},
         NEW loading \in BOOLEAN, NEW load \in 0 .. sent', NEW loadError \in BOOLEAN,
         app' = [rs |-> rs, dnsRecords |-> dnsRecords, detail |-> detail,
                 checking |-> checking, form |-> app.form, dialog |-> dialog,
                 loading |-> loading, load |-> load, loadError |-> loadError]
  PROVE  AppOK'
<1>1. PICK f : f = app.form
  OBVIOUS
<1>2. app' = [rs |-> rs, dnsRecords |-> dnsRecords, detail |-> detail,
              checking |-> checking, form |-> f, dialog |-> dialog,
              loading |-> loading, load |-> load, loadError |-> loadError]
  BY <1>1
<1>3. FormOK(f)'
  BY <1>1, AppParts, FormStays
<1>4. QED
  BY <1>2, <1>3, AppMoves

\* The sidebar selects another page.
LEMMA GoCopies ==
  ASSUME CopiesInv, NEW p \in Pages, RoutesGo(p) PROVE CopiesInv'
<1>1. app' = [rs |-> app.rs, dnsRecords |-> app.dnsRecords, detail |-> None,
              checking |-> 0, form |-> app.form, dialog |-> app.dialog,
              loading |-> app.loading, load |-> app.load, loadError |-> app.loadError]
  BY AppParts DEF RoutesGo
<1>2. UNCHANGED server /\ sent' \in {sent, sent + 1} /\ app.load \in 0 .. sent'
  BY AppParts DEF RoutesGo
<1>2a. None \in Copies \cup {None} /\ 0 \in Nat
  OBVIOUS
<1>2b. AppOK'
  BY <1>1, <1>2, <1>2a, AppParts, OtherMoves
<1>3. QED
  BY <1>2b, LocalStep DEF RoutesGo, CopiesInv, RestOK

\* Detail opens on a row.
LEMMA ViewCopies ==
  ASSUME CopiesInv, NEW r \in Rows, View(r) PROVE CopiesInv'
<1>1. app' = [rs |-> app.rs, dnsRecords |-> app.dnsRecords, detail |-> r,
              checking |-> app.checking, form |-> app.form, dialog |-> app.dialog,
              loading |-> app.loading, load |-> app.load, loadError |-> app.loadError]
  BY AppParts DEF View, Sets
<1>2. AppOK'
  BY <1>1, AppParts, RowsAreCopies, OtherMoves DEF View, Sets
<1>3. QED
  BY <1>2, LocalStep DEF View, Sets, CopiesInv, RestOK

\* The form of a new route can be filled in.
LEMMA BlankOK == Blank \in Inputs
BY DEF Blank, RouteInput, Target, Inputs, Targets, Domains, Schemes

\* A form opens on a copy of a managed route, or on none.
LEMMA OpenFormCopies ==
  ASSUME CopiesInv, NEW route \in ManagedCopies \cup {None}, NEW v \in Inputs,
         NEW old \in BOOLEAN, OpenForm(route, v, old)
  PROVE  CopiesInv'
<1> DEFINE f == [NoForm EXCEPT !.op = "idle", !.route = route, !.v = v, !.old = old]
<1>1. FormOK(f)
  <2>1. f = [op |-> "idle", route |-> route, v |-> v, request |-> 0, result |-> None,
             touched |-> {}, old |-> old]
    <3>1. PICK g : g = f
      OBVIOUS
    <3>2. PICK h : h = NoForm
      OBVIOUS
    <3>3. g = [h EXCEPT !.op = "idle", !.route = route, !.v = v, !.old = old]
      BY <3>1, <3>2
    <3>4. h = [op |-> "closed", route |-> None, v |-> None, request |-> 0,
               result |-> None, touched |-> {}, old |-> FALSE]
      BY <3>2 DEF NoForm
    <3> HIDE DEF f
    <3>5. g = [op |-> "idle", route |-> route, v |-> v, request |-> 0, result |-> None,
               touched |-> {}, old |-> old]
      BY <3>3, <3>4
    <3>6. QED
      BY <3>1, <3>5
  <2>2. ManagedCopies \subseteq Routes
    BY DEF ManagedCopies, Copies
  <2> HIDE DEF f
  <2>3. f \in Forms
    BY <2>1, <2>2 DEF Forms, Ops
  <2>4. /\ f.op = "idle" /\ f.route = route /\ f.v = v /\ f.request = 0
    BY <2>1
  <2>5. 0 \in 0 .. sent
    BY DEF CopiesInv, RestOK
  <2>6. QED
    BY <2>3, <2>4, <2>5 DEF FormOK, Shows
<1>2. app' = [app EXCEPT !.form = f]
  BY DEF OpenForm, Sets
<1> HIDE DEF f
<1>3. QED
  BY <1>1, <1>2, FormMoves DEF OpenForm, Sets, CopiesInv, RestOK

\* Both ways to a form.
LEMMA AddEditCopies ==
  ASSUME CopiesInv, Add \/ \E r \in Offered("edit") : Edit(r)
  PROVE  CopiesInv'
<1>1. CASE Add
  BY <1>1, BlankOK, OpenFormCopies DEF Add
<1>2. ASSUME NEW r \in Offered("edit"), Edit(r) PROVE CopiesInv'
  <2>1. r \in ManagedCopies /\ Begin(r) \in Inputs
    BY OfferedManaged DEF Begin, ManagedCopies, Copies
  <2>2. Behind(r) \in BOOLEAN
    BY DEF Behind
  <2>3. QED
    BY <1>2, <2>1, <2>2, OpenFormCopies DEF Edit
<1>3. QED
  BY <1>1, <1>2

\* The delete dialog opens on a copy of a managed route.
LEMMA DeleteCopies ==
  ASSUME CopiesInv, NEW r \in Offered("delete"), Delete(r) PROVE CopiesInv'
<1>1. r \in ManagedCopies /\ r \in Routes /\ r.input \in Inputs /\ r.input.createDns \in BOOLEAN
  BY OfferedManaged DEF ManagedCopies, Copies, Inputs
<1> DEFINE d == [route |-> r, removeDns |-> r.input.createDns]
<1>2. d \in Dialogs /\ d.route \in ManagedCopies
  BY <1>1 DEF Dialogs
<1>3. app' = [rs |-> app.rs, dnsRecords |-> app.dnsRecords, detail |-> app.detail,
              checking |-> app.checking, form |-> app.form, dialog |-> d,
              loading |-> app.loading, load |-> app.load, loadError |-> app.loadError]
  BY AppParts DEF Delete, Sets
<1> HIDE DEF d
<1>4. AppOK'
  BY <1>2, <1>3, AppParts, OtherMoves DEF Delete, Sets
<1>5. QED
  BY <1>4, LocalStep DEF Delete, Sets, CopiesInv, RestOK

\* The check box and Cancel.
LEMMA DialogCopies ==
  ASSUME CopiesInv, RemoveDns \/ Cancel PROVE CopiesInv'
<1>1. PICK d : d = app'.dialog
  OBVIOUS
<1>2. d \in Dialogs /\ d.route \in ManagedCopies \cup {None}
  <2>1. CASE RemoveDns
    BY <1>1, <2>1, AppParts DEF RemoveDns, Dialogs
  <2>2. CASE Cancel
    <3>1. d = NoDialog
      BY <1>1, <2>2, AppParts DEF Cancel, Sets
    <3>2. QED
      BY <3>1 DEF NoDialog, Dialogs
  <2>3. QED
    BY <2>1, <2>2
<1>3. app' = [rs |-> app.rs, dnsRecords |-> app.dnsRecords, detail |-> app.detail,
              checking |-> app.checking, form |-> app.form, dialog |-> d,
              loading |-> app.loading, load |-> app.load, loadError |-> app.loadError]
  BY <1>1, AppParts DEF RemoveDns, Cancel, Sets
<1>4. AppOK'
  BY <1>2, <1>3, AppParts, OtherMoves DEF RemoveDns, Cancel, Sets
<1>5. QED
  BY <1>4, LocalStep DEF RemoveDns, Cancel, Sets, CopiesInv, RestOK

\* A field entered is a field of an input.
LEMMA WithTyped ==
  ASSUME NEW v \in Inputs, NEW field \in Fields, NEW x \in Typed[field]
  PROVE  With(v, field, x) \in Inputs
<1>1. v.target \in Targets
  BY DEF Inputs
<1>2. CASE field \in {"host", "port", "scheme"}
  <2>1. [v.target EXCEPT ![field] = x] \in Targets
    BY <1>1, <1>2, TypedAssumption DEF Targets
  <2>2. QED
    BY <1>2, <2>1 DEF With, Inputs
<1>3. CASE field \in {"domain", "https", "createDns"}
  BY <1>3, TypedAssumption DEF With, Inputs, Domains
<1>4. QED
  BY <1>2, <1>3 DEF Fields

\* The fields of an open form and what the operator touched.
LEMMA EntersMoves ==
  ASSUME CopiesInv, Open, UNCHANGED <<server, wire, page, sent, heard>>, edits' \in Nat,
         lagging' \in SUBSET Ids, NEW v \in Inputs, NEW touched \in SUBSET Fields,
         app' = [app EXCEPT !.form.v = v, !.form.touched = touched]
  PROVE  CopiesInv'
<1> DEFINE f == [app.form EXCEPT !.v = v, !.touched = touched]
<1>1. f = [op |-> app.form.op, route |-> app.form.route, v |-> v,
           request |-> app.form.request, result |-> app.form.result,
           touched |-> touched, old |-> app.form.old]
  <2>1. PICK g : g = f
    OBVIOUS
  <2>2. app.form \in Forms /\ g = [app.form EXCEPT !.v = v, !.touched = touched]
    BY <2>1, AppParts DEF FormOK
  <2> HIDE DEF f
  <2>3. QED
    BY <2>1, <2>2, FormEntered
<1>2. FormOK(f)
  BY <1>1, AppParts DEF FormOK, Forms
<1>3. app' = [app EXCEPT !.form = f]
  BY AppParts
<1> HIDE DEF f
<1>4. QED
  BY <1>2, <1>3, FormMoves

\* A field is entered.
LEMMA EnterCopies ==
  ASSUME CopiesInv, NEW field \in Fields, NEW x \in Typed[field], Enter(field, x)
  PROVE  CopiesInv'
<1>1. app.form.v \in Inputs /\ app.form.touched \in SUBSET Fields
  BY AppParts DEF Enter, Open, FormOK, Forms
<1>2. With(app.form.v, field, x) \in Inputs /\ app.form.touched \cup {field} \in SUBSET Fields
  BY <1>1, WithTyped
<1>3. app' = [app EXCEPT !.form.v = With(app.form.v, field, x),
                         !.form.touched = app.form.touched \cup {field}]
  BY AppParts DEF Enter
<1>4. /\ UNCHANGED <<server, wire, page, sent, heard>> /\ edits' \in Nat /\ lagging' \in SUBSET Ids
      /\ Open
  BY DEF Enter, CopiesInv, RestOK
<1>5. QED
  BY <1>2, <1>3, <1>4, EntersMoves

\* A preset is chosen.
LEMMA PresetCopies ==
  ASSUME CopiesInv, NEW p \in Presets, Preset(p) PROVE CopiesInv'
<1> DEFINE v == RouteInput(app.form.v.domain, Target(p.scheme, app.form.v.target.host, p.port),
                           p.on, p.on)
<1>1. app.form.v \in Inputs /\ app.form.touched \in SUBSET Fields
  BY AppParts DEF Preset, Open, FormOK, Forms
<1>2. p.scheme \in Schemes /\ p.port \in Nat /\ p.on \in BOOLEAN
  <2>1. \A q \in Presets : q.scheme \in Schemes /\ q.port \in Nat /\ q.on \in BOOLEAN
    <3>1. 8080 \in Nat /\ 443 \in Nat /\ 80 \in Nat
      OBVIOUS
    <3>2. \A q \in Presets : q.port \in Nat
      BY <3>1 DEF Presets
    <3>3. \A q \in Presets : q.scheme \in Schemes
      BY DEF Presets, Schemes
    <3>4. ASSUME NEW q \in Presets PROVE q.on \in BOOLEAN
      <4>1. CASE q = [scheme |-> "http", port |-> 8080, on |-> TRUE]
        BY <4>1
      <4>2. CASE q = [scheme |-> "https", port |-> 443, on |-> TRUE]
        BY <4>2
      <4>3. CASE q = [scheme |-> "http", port |-> 80, on |-> FALSE]
        BY <4>3
      <4>4. QED
        BY <4>1, <4>2, <4>3 DEF Presets
    <3>5. QED
      BY <3>2, <3>3, <3>4
  <2>2. QED
    BY <2>1
<1>3. Target(p.scheme, app.form.v.target.host, p.port) \in Targets
  BY <1>1, <1>2 DEF Inputs, Targets, Target
<1>4. v \in Inputs
  BY <1>1, <1>2, <1>3 DEF Inputs, RouteInput
<1>5. app' = [app EXCEPT !.form.v = v, !.form.touched = app.form.touched] /\ Open
  BY AppParts DEF Preset
<1> HIDE DEF v
<1>6. /\ UNCHANGED <<server, wire, page, sent, heard>> /\ edits' \in Nat /\ lagging' \in SUBSET Ids
  BY DEF Preset, CopiesInv, RestOK
<1>7. QED
  BY <1>1, <1>4, <1>5, <1>6, EntersMoves

\* The form is closed.
LEMMA CloseCopies ==
  ASSUME CopiesInv, CloseForm PROVE CopiesInv'
<1>1. lagging' \in SUBSET Ids
  BY AppParts DEF CloseForm, CopiesInv, RestOK, FormOK, ManagedCopies, Copies, Routes
<1>2. QED
  BY <1>1, NoFormOK, FormMoves DEF CloseForm, CopiesInv, RestOK

\* "Done" puts the result into the list in place of the row.
LEMMA SavedList ==
  ASSUME NEW rs \in Seq(Routes), Distinct(rs), NEW r \in Routes
  PROVE  /\ Saved(rs, r) \in Seq(Routes) /\ Distinct(Saved(rs, r))
         /\ ToSet(Saved(rs, r)) = {x \in ToSet(rs) : x.id # r.id} \cup {r}
<1> DEFINE kept == Where(rs, {x \in ToSet(rs) : x.id # r.id})
<1>1. kept \in Seq(Routes) /\ ToSet(kept) = {x \in ToSet(rs) : x.id # r.id} /\ Distinct(kept)
  BY WhereSet, WhereDistinct
<1>2. Saved(rs, r) = Append(kept, r)
  BY DEF Saved
<1> HIDE DEF kept
<1>3. QED
  BY <1>1, <1>2, AppendSet, AppendDistinct

\* The result is put into the list.
LEMMA DoneCopies ==
  ASSUME CopiesInv, Done PROVE CopiesInv'
<1>1. app.form.result \in ManagedCopies /\ app.form.result \in Routes
  BY AppParts DEF Done, FormOK, Shows, ManagedCopies, Copies
<1>2. ListOK(Saved(app.rs, app.form.result))
  BY <1>1, AppParts, SavedList DEF ListOK, ManagedCopies
<1>3. PICK f : f = NoForm
  OBVIOUS
<1>4. PICK rs : rs = Saved(app.rs, app.form.result)
  OBVIOUS
<1>5. FormOK(f)'
  BY <1>3, NoFormOK, FormStays DEF Done, Sets
<1>6. app' = [rs |-> rs, dnsRecords |-> app.dnsRecords, detail |-> app.detail,
              checking |-> app.checking, form |-> f, dialog |-> app.dialog,
              loading |-> app.loading, load |-> app.load, loadError |-> app.loadError]
  BY <1>3, <1>4, AppParts DEF Done, Sets
<1>6a. UNCHANGED server /\ app.load \in 0 .. sent' /\ ListOK(rs)
  BY <1>2, <1>4, AppParts DEF Done, Sets
<1>7. AppOK'
  BY <1>5, <1>6, <1>6a, AppParts, AppMoves
<1>8. QED
  BY <1>7, LocalStep DEF Done, Sets, CopiesInv, RestOK

\* Steps that send a request.
LEMMA SendStep ==
  ASSUME CopiesInv, UNCHANGED <<server, edits, lagging, page, heard>>, sent' = sent + 1,
         NEW q, wire' \subseteq wire \cup {q}, q.n = sent + 1, RequestOK(q)', AppOK'
  PROVE  CopiesInv'
<1>1. Grows /\ ServerOK'
  BY ConsoleStep
<1>2. WireOK'
  BY <1>1, WireMore
<1>3. QED
  BY <1>1, <1>2 DEF CopiesInv, RestOK

\* A new request waits, and names a managed route where it names one.
LEMMA RequestSent ==
  ASSUME CopiesInv, UNCHANGED server, sent' = sent + 1, NEW q \in Requests,
         q.n = sent + 1, IF q.kind = "get" THEN LoadOK(q.answer) ELSE q.answer = None,
         q.kind \in {"create", "get"} => q.id = None,
         q.kind \notin {"create", "get"} => q.id \in server.given \ External,
         q.kind \in Writes => q.input \in Inputs
  PROVE  RequestOK(q)'
<1>1. sent \in Nat /\ sent + 1 \in 1 .. sent'
  BY DEF CopiesInv, RestOK
<1>2. q.kind = "get" => AnswerOK(q)'
  BY ConsoleStep DEF AnswerOK, LoadOK
<1>3. QED
  BY <1>1, <1>2 DEF RequestOK

\* A request for a load, none of its sections read.
LEMMA LoadSent ==
  ASSUME CopiesInv, UNCHANGED server, sent' = sent + 1, NEW q, q = LoadRequest
  PROVE  /\ RequestOK(q)' /\ q.n = sent + 1 /\ q.kind = "get"
         /\ q.answer["routes"] = None /\ q.answer["dns"] = None
<1> DEFINE x == Request("get", None, None, FALSE, {}, FALSE)
<1>1. x \in Requests /\ x.n = sent + 1 /\ x.kind = "get" /\ x.id = None
  <2>1. sent + 1 \in Nat /\ "get" \in Kinds /\ {} \in SUBSET Fields /\ FALSE \in BOOLEAN
    BY DEF CopiesInv, RestOK, Kinds
  <2>2. QED
    BY <2>1 DEF Request, Requests
<1>2. LoadOK(Unanswered) /\ Unanswered["routes"] = None /\ Unanswered["dns"] = None
  BY DEF LoadOK, LoadAnswers, Unanswered, Sections
<1>3. Unanswered \in LoadAnswers
  BY <1>2 DEF LoadOK
<1>4. q = [x EXCEPT !.answer = Unanswered]
  BY DEF LoadRequest
<1> HIDE DEF x
<1>5. q \in Requests /\ q.n = sent + 1 /\ q.kind = "get" /\ q.id = None /\ q.answer = Unanswered
  BY <1>1, <1>3, <1>4 DEF Requests
<1>6. QED
  BY <1>2, <1>5, RequestSent DEF Writes

\* A request that goes and changes only what follows from its answer.
LEMMA ReceiveStep ==
  ASSUME CopiesInv, UNCHANGED <<server, page, sent, edits>>, lagging' \in SUBSET Ids,
         heard' \in [Ids -> 0..sent], wire' \subseteq wire, AppOK'
  PROVE  CopiesInv'
<1>1. Grows /\ ServerOK'
  BY ConsoleStep
<1>2. WireOK'
  BY <1>1, WireLess
<1>3. QED
  BY <1>1, <1>2 DEF CopiesInv, RestOK

\* Nothing that the operator sees changes.
LEMMA AppSame ==
  ASSUME CopiesInv, UNCHANGED server, sent' \in {sent, sent + 1}, app' = app
  PROVE  AppOK'
<1>1. app' = [rs |-> app.rs, dnsRecords |-> app.dnsRecords, detail |-> app.detail,
              checking |-> app.checking, form |-> app.form, dialog |-> app.dialog,
              loading |-> app.loading, load |-> app.load, loadError |-> app.loadError]
  BY AppParts
<1>2. app.load \in 0 .. sent'
  BY AppParts, FormStays
<1>3. QED
  BY <1>1, <1>2, AppParts, OtherMoves

\* A copy of a managed route has an id the server gave.
LEMMA ManagedGiven ==
  ASSUME CopiesInv, NEW c \in ManagedCopies
  PROVE  c \in Routes /\ c.id \in server.given \ External /\ c.id \in Ids /\ c.input \in Inputs
BY DEF ManagedCopies, Copies, Routes

\* Only the form changes, in a step that sends or receives.
LEMMA FormOnly ==
  ASSUME CopiesInv, UNCHANGED server, sent' \in {sent, sent + 1}, NEW f, FormOK(f)',
         app' = [app EXCEPT !.form = f]
  PROVE  AppOK'
<1>1. app' = [rs |-> app.rs, dnsRecords |-> app.dnsRecords, detail |-> app.detail,
              checking |-> app.checking, form |-> f, dialog |-> app.dialog,
              loading |-> app.loading, load |-> app.load, loadError |-> app.loadError]
  BY AppParts
<1>2. app.load \in 0 .. sent'
  BY AppParts, FormStays
<1>3. QED
  BY <1>1, <1>2, AppParts, AppMoves

\* The form sends its fields.
LEMMA SaveCopies ==
  ASSUME CopiesInv, Save PROVE CopiesInv'
<1>1. PICK q, f :
        /\ f = [app.form EXCEPT !.op = "submitting", !.request = sent + 1]
        /\ q = Request(IF app.form.route = None THEN "create" ELSE "update",
                       IF app.form.route = None THEN None ELSE app.form.route.id,
                       app.form.v, FALSE, app.form.touched, app.form.old)
        /\ Sends(q, [app EXCEPT !.form.op = "submitting", !.form.request = sent + 1])
  BY DEF Save
<1>2. /\ UNCHANGED <<server, page, edits, lagging, heard>> /\ sent' = sent + 1
      /\ wire' = wire \cup {q}
      /\ app' = [app EXCEPT !.form.op = "submitting", !.form.request = sent + 1]
  BY <1>1 DEF Sends
<1>3. /\ FormOK(app.form) /\ app.form \in Forms /\ app.form.v \in Inputs
      /\ app.form.touched \in SUBSET Fields /\ app.form.old \in BOOLEAN /\ sent \in Nat
      /\ app.form.route \in ManagedCopies \cup {None}
  BY AppParts DEF Save, FormOK, Forms, CopiesInv, RestOK
<1>4. RequestOK(q)' /\ q.n = sent + 1
  <2>1. PICK kind, id, v, touched, old :
          /\ kind = IF app.form.route = None THEN "create" ELSE "update"
          /\ id = IF app.form.route = None THEN None ELSE app.form.route.id
          /\ v = app.form.v /\ touched = app.form.touched /\ old = app.form.old
    OBVIOUS
  <2>2. q = Request(kind, id, v, FALSE, touched, old)
    BY <1>1, <2>1
  <2>3. /\ kind \in Kinds /\ kind \notin {"get"} /\ (kind = "create" => id = None)
        /\ (kind # "create" => id \in server.given \ External) /\ id \in Ids \cup {None}
    BY <1>3, <2>1, ManagedGiven DEF Kinds
  <2>4. /\ v \in Inputs /\ touched \in SUBSET Fields /\ old \in BOOLEAN /\ FALSE \in BOOLEAN
    BY <1>3, <2>1
  <2>5. q \in Requests /\ q.n = sent + 1 /\ q.kind = kind /\ q.id = id /\ q.input = v
        /\ q.answer = None
    BY <2>2, <2>3, <2>4 DEF Request, Requests, CopiesInv, RestOK
  <2>6. QED
    BY <1>2, <2>3, <2>4, <2>5, RequestSent
<1>5. f = [op |-> "submitting", route |-> app.form.route, v |-> app.form.v,
           request |-> sent + 1, result |-> app.form.result,
           touched |-> app.form.touched, old |-> app.form.old]
  BY <1>1, <1>3, FormSent
<1>6. FormOK(f)'
  <2>1. /\ f.route = app.form.route /\ f.v = app.form.v /\ f.op = "submitting"
        /\ f.request = sent + 1 /\ f \in Forms
    BY <1>3, <1>5 DEF Forms, Ops
  <2>2. ManagedCopies' = ManagedCopies
    BY <1>2, ConsoleStep
  <2>3. QED
    BY <1>2, <1>3, <2>1, <2>2 DEF FormOK, Shows
<1>7. app' = [app EXCEPT !.form = f]
  BY <1>1, <1>2, AppParts
<1>8. AppOK'
  BY <1>2, <1>6, <1>7, FormOnly
<1>9. QED
  BY <1>2, <1>4, <1>8, SendStep

\* The dialog sends a removal.
LEMMA ConfirmCopies ==
  ASSUME CopiesInv, Confirm PROVE CopiesInv'
<1>1. PICK q : /\ q = Request("remove", app.dialog.route.id, app.dialog.route.input,
                              app.dialog.removeDns, {}, FALSE)
               /\ Sends(q, app)
  BY DEF Confirm
<1>2. /\ UNCHANGED <<server, page, edits, lagging, heard>> /\ sent' = sent + 1
      /\ wire' = wire \cup {q} /\ app' = app
  BY <1>1 DEF Sends
<1>3. app.dialog.route \in ManagedCopies /\ app.dialog.removeDns \in BOOLEAN
  BY AppParts DEF Confirm, Dialogs
<1>4. RequestOK(q)' /\ q.n = sent + 1
  <2>1. PICK id, v, removeDns :
          id = app.dialog.route.id /\ v = app.dialog.route.input
          /\ removeDns = app.dialog.removeDns
    OBVIOUS
  <2>2. q = Request("remove", id, v, removeDns, {}, FALSE)
    BY <1>1, <2>1
  <2>3. /\ id \in server.given \ External /\ id \in Ids /\ v \in Inputs
        /\ removeDns \in BOOLEAN
    BY <1>3, <2>1, ManagedGiven
  <2>4. "remove" \in Kinds /\ "remove" \notin Writes \cup {"create", "get"}
        /\ {} \in SUBSET Fields /\ FALSE \in BOOLEAN
    BY DEF Kinds, Writes
  <2>5. q \in Requests /\ q.n = sent + 1 /\ q.kind = "remove" /\ q.id = id /\ q.answer = None
    BY <2>2, <2>3, <2>4 DEF Request, Requests, CopiesInv, RestOK
  <2>6. QED
    BY <1>2, <2>3, <2>4, <2>5, RequestSent
<1>5. AppOK'
  BY <1>2, AppSame
<1>6. QED
  BY <1>2, <1>4, <1>5, SendStep

\* Detail asks for a check.
LEMMA RecheckCopies ==
  ASSUME CopiesInv, Recheck PROVE CopiesInv'
<1>1. PICK q : /\ q = Request("recheck", app.detail.id, None, FALSE, {}, FALSE)
               /\ Sends(q, [app EXCEPT !.checking = sent + 1])
  BY DEF Recheck
<1>2. /\ UNCHANGED <<server, page, edits, lagging, heard>> /\ sent' = sent + 1
      /\ wire' = wire \cup {q} /\ app' = [app EXCEPT !.checking = sent + 1]
  BY <1>1 DEF Sends
<1>3. app.detail \in ManagedCopies
  BY AppParts DEF Recheck, Offered, DetailActions, Managed, Copies, ManagedCopies
<1>4. RequestOK(q)' /\ q.n = sent + 1
  <2>1. PICK id : id = app.detail.id
    OBVIOUS
  <2>2. q = Request("recheck", id, None, FALSE, {}, FALSE)
    BY <1>1, <2>1
  <2>3. id \in server.given \ External /\ id \in Ids
    BY <1>3, <2>1, ManagedGiven
  <2>4. "recheck" \in Kinds /\ "recheck" \notin Writes \cup {"create", "get"}
        /\ {} \in SUBSET Fields /\ FALSE \in BOOLEAN
    BY DEF Kinds, Writes
  <2>5. q \in Requests /\ q.n = sent + 1 /\ q.kind = "recheck" /\ q.id = id /\ q.answer = None
    BY <2>2, <2>3, <2>4 DEF Request, Requests, CopiesInv, RestOK
  <2>6. QED
    BY <1>2, <2>3, <2>4, <2>5, RequestSent
<1>5. app' = [rs |-> app.rs, dnsRecords |-> app.dnsRecords, detail |-> app.detail,
              checking |-> sent + 1, form |-> app.form, dialog |-> app.dialog,
              loading |-> app.loading, load |-> app.load, loadError |-> app.loadError]
  BY <1>2, AppParts
<1>6. sent + 1 \in Nat /\ app.load \in 0 .. sent'
  BY <1>2, AppParts, FormStays DEF CopiesInv, RestOK
<1>7. AppOK'
  BY <1>2, <1>5, <1>6, AppParts, OtherMoves
<1>8. QED
  BY <1>2, <1>4, <1>7, SendStep

\* What the console handles has been answered.
LEMMA HandledOK ==
  ASSUME CopiesInv, NEW r, Handled(r)
  PROVE  RequestOK(r) /\ AnswerOK(r) /\ r \in Requests /\ r \in wire
BY DEF Handled, CopiesInv, WireOK, RequestOK

\* A load that has settled, section by section.
LEMMA SettledOK ==
  ASSUME CopiesInv, NEW r, Settled(r)
  PROVE  /\ RequestOK(r) /\ r \in Requests /\ r \in wire /\ r.kind = "get" /\ r.id = None
         /\ LoadOK(r.answer) /\ r.answer["routes"] # None /\ r.answer["dns"] # None
<1>1. RequestOK(r) /\ r \in Requests /\ r \in wire /\ r.kind = "get"
  BY DEF Settled, CopiesInv, WireOK, RequestOK
<1>2. LoadOK(r.answer) /\ r.id = None
  BY <1>1 DEF RequestOK, AnswerOK, Writes
<1>3. QED
  BY <1>1, <1>2 DEF Settled, Sections

\* A write is answered.
LEMMA SavedCopies ==
  ASSUME CopiesInv, NEW r \in wire, OnSaved(r) PROVE CopiesInv'
<1>1. RequestOK(r) /\ AnswerOK(r) /\ r \in Requests /\ r.kind \in Writes
  BY HandledOK DEF OnSaved, Writes
<1>2. lagging' \in SUBSET Ids /\ heard \in [Ids -> 0..sent]
  BY <1>1 DEF OnSaved, RequestOK, CopiesInv, RestOK, ServerOK, Servers, Writes
<1>3. CASE app.form.request # r.n
  <2>1. app' = app /\ UNCHANGED <<server, page, sent, edits, heard>> /\ wire' \subseteq wire
    BY <1>3 DEF OnSaved
  <2>2. AppOK'
    BY <2>1, AppSame
  <2>3. QED
    BY <1>2, <2>1, <2>2, ReceiveStep
<1>4. CASE app.form.request = r.n
  <2>1. PICK op, result, f :
          /\ op = IF r.answer.resource = None THEN "error"
                  ELSE IF r.answer.result = "success" THEN "success" ELSE "partial_success"
          /\ result = IF r.answer.resource # None THEN r.answer.resource ELSE app.form.result
          /\ f = [app.form EXCEPT !.op = op, !.result = result]
    OBVIOUS
  <2>2. /\ app' = [app EXCEPT !.form.op = op, !.form.result = result]
        /\ UNCHANGED <<server, page, sent, edits, heard>> /\ wire' \subseteq wire
    BY <1>4, <2>1 DEF OnSaved
  <2>3. app' = [app EXCEPT !.form = f]
    BY <2>1, <2>2, AppParts
  <2>4. app.form \in Forms /\ FormOK(app.form)
    BY AppParts DEF FormOK
  <2>5. /\ f.op = op /\ f.route = app.form.route /\ f.v = app.form.v
        /\ f.request = app.form.request /\ f.result = result
        /\ f = [op |-> op, route |-> app.form.route, v |-> app.form.v,
                request |-> app.form.request, result |-> result,
                touched |-> app.form.touched, old |-> app.form.old]
    <3>1. f = [app.form EXCEPT !.op = op, !.result = result] /\ app.form \in Forms
      BY <2>1, <2>4
    <3>2. f = [op |-> op, route |-> app.form.route, v |-> app.form.v,
               request |-> app.form.request, result |-> result,
               touched |-> app.form.touched, old |-> app.form.old]
      BY <3>1, FormAnswered
    <3>3. QED
      BY <3>2
  <2>6. op \in Shows => result \in ManagedCopies
    BY <1>1, <2>1 DEF Shows, AnswerOK, Lost, Answer, Writes
  <2>7. result \in Routes \cup {None} /\ op \in Ops
    BY <1>1, <2>1, <2>4 DEF AnswerOK, Lost, Answer, Forms, Ops, ManagedCopies, Copies, Writes
  <2>8. app.form.v \in Inputs /\ op # "closed"
    BY <1>1, <1>4, <2>1, <2>4 DEF FormOK, RequestOK
  <2>9. f \in Forms /\ FormOK(f)
    BY <2>4, <2>5, <2>6, <2>7, <2>8 DEF FormOK, Forms
  <2>10. FormOK(f)'
    BY <2>2, <2>9, FormStays
  <2>11. AppOK'
    BY <2>2, <2>3, <2>10, FormOnly
  <2>12. QED
    BY <1>2, <2>2, <2>11, ReceiveStep
<1>5. QED
  BY <1>3, <1>4

\* A list without one route, or with a row replaced.
LEMMA FilteredList ==
  ASSUME NEW rs, ListOK(rs), NEW S PROVE ListOK(Where(rs, S))
BY WhereSet, WhereDistinct DEF ListOK

\* A row replaced by a copy of its route.
LEMMA PatchedList ==
  ASSUME NEW rs, ListOK(rs), NEW r \in Copies
  PROVE  /\ ListOK(Patched(rs, r))
         /\ ToSet(Patched(rs, r)) \subseteq {x \in ToSet(rs) : x.id # r.id} \cup {r}
         /\ {x \in ToSet(rs) : x.id # r.id} \subseteq ToSet(Patched(rs, r))
         /\ IdsOf(ToSet(Patched(rs, r))) = IdsOf(ToSet(rs))
<1> DEFINE ps == Patched(rs, r)
<1>1. rs \in Seq(Routes) /\ Distinct(rs) /\ Len(rs) \in Nat /\ DOMAIN rs = 1 .. Len(rs)
      /\ r \in Routes /\ ToSet(rs) \subseteq Copies
  BY DEF ListOK, Copies
<1>2. /\ DOMAIN ps = 1 .. Len(rs)
      /\ \A i \in 1 .. Len(rs) :
           ps[i] \in Routes /\ ps[i].id = rs[i].id
           /\ ps[i] = IF rs[i].id = r.id THEN r ELSE rs[i]
  BY <1>1 DEF Patched
<1> HIDE DEF ps
<1>3. ps \in Seq(Routes) /\ Len(ps) = Len(rs)
  <2>1. ps = [i \in 1 .. Len(rs) |-> ps[i]]
    BY <1>1 DEF ps, Patched
  <2>2. QED
    BY <1>1, <1>2, <2>1, IsASeq, LenProperties
<1>4. Distinct(ps)
  BY <1>1, <1>2 DEF Distinct
<1>5. /\ ToSet(ps) = {ps[i] : i \in 1 .. Len(rs)}
      /\ ToSet(rs) = {rs[i] : i \in 1 .. Len(rs)}
  BY <1>1, <1>2 DEF ToSet
<1>6. ToSet(ps) \subseteq {x \in ToSet(rs) : x.id # r.id} \cup {r}
  BY <1>2, <1>5
<1>7. ToSet(ps) \subseteq Copies
  BY <1>1, <1>6
<1>8. IdsOf(ToSet(ps)) = IdsOf(ToSet(rs))
  BY <1>2, <1>5 DEF IdsOf
<1>9. {x \in ToSet(rs) : x.id # r.id} \subseteq ToSet(ps)
  BY <1>2, <1>5
<1>10. QED
  BY <1>3, <1>4, <1>6, <1>7, <1>8, <1>9 DEF ListOK, ps

\* Only ids are remembered as lagging.
LEMMA OlderIds ==
  ASSUME CopiesInv, NEW rs PROVE Older(rs) \subseteq Ids
BY RowsAreCopies DEF Older, Routes

\* The filter after a deletion adds no record.
LEMMA RecordsLess ==
  ASSUME CopiesInv, NEW domain PROVE RecordsLeft(app.dnsRecords, domain) \in SUBSET DnsRecords
BY AppParts DEF RecordsLeft

\* Everything is loaded again.
LEMMA LoadsCopies ==
  ASSUME CopiesInv, UNCHANGED <<server, page, edits, lagging, heard>>, sent' = sent + 1,
         NEW d \in Dialogs, d.route \in ManagedCopies \cup {None},
         NEW q, q = LoadRequest, wire' \subseteq wire \cup {q},
         app' = Loads([app EXCEPT !.dialog = d])
  PROVE  CopiesInv'
<1>1. RequestOK(q)' /\ q.n = sent + 1
  BY LoadSent
<1>a. PICK yes, no, load, checking : yes = TRUE /\ no = FALSE /\ load = sent + 1 /\ checking = 0
  OBVIOUS
<1>2. app' = [rs |-> app.rs, dnsRecords |-> app.dnsRecords, detail |-> app.detail,
              checking |-> checking, form |-> app.form, dialog |-> d,
              loading |-> yes, load |-> load, loadError |-> no]
  BY <1>a, AppParts DEF Loads
<1>3. load \in 0 .. sent' /\ checking \in Nat /\ yes \in BOOLEAN /\ no \in BOOLEAN
  <2>1. sent \in Nat
    BY DEF CopiesInv, RestOK
  <2>2. load \in 0 .. sent' /\ checking \in Nat
    BY <1>a, <2>1
  <2>3. QED
    BY <1>a, <2>2
<1>4. AppOK'
  <2>1. sent' \in {sent, sent + 1} /\ UNCHANGED server
    OBVIOUS
  <2>2. QED
    BY <1>2, <1>3, <2>1, AppParts, OtherMoves
<1>5. QED
  BY <1>1, <1>4, SendStep

\* The error panel's button.
LEMMA RetryCopies ==
  ASSUME CopiesInv, Retry PROVE CopiesInv'
<1>1. PICK q, d : q = LoadRequest /\ d = app.dialog
  OBVIOUS
<1>2. app = [app EXCEPT !.dialog = d]
  BY <1>1, AppParts
<1>3. app' = Loads(app) /\ wire' = wire \cup {q} /\ sent' = sent + 1
      /\ UNCHANGED <<server, page, edits, lagging, heard>>
  BY <1>1 DEF Retry, Sends
<1>4. QED
  BY <1>1, <1>2, <1>3, AppParts, LoadsCopies

\* A removal is answered.
LEMMA RemovedCopies ==
  ASSUME CopiesInv, NEW r \in wire, OnRemoved(r) PROVE CopiesInv'
<1>0. UNCHANGED <<server, page, edits, lagging>> /\ lagging' \in SUBSET Ids
      /\ heard \in [Ids -> 0..sent] /\ sent \in Nat
  BY DEF OnRemoved, CopiesInv, RestOK
<1>1. PICK d : d = NoDialog
  OBVIOUS
<1>2. d \in Dialogs /\ d.route \in ManagedCopies \cup {None}
  BY <1>1 DEF NoDialog, Dialogs
<1>3. CASE /\ app' = [app EXCEPT !.dialog = NoDialog]
           /\ wire' = wire \ {r} /\ UNCHANGED <<sent, heard>>
  <2>1. app' = [rs |-> app.rs, dnsRecords |-> app.dnsRecords, detail |-> app.detail,
                checking |-> app.checking, form |-> app.form, dialog |-> d,
                loading |-> app.loading, load |-> app.load, loadError |-> app.loadError]
    BY <1>1, <1>3, AppParts
  <2>2. AppOK'
    BY <1>0, <1>2, <1>3, <2>1, AppParts, OtherMoves
  <2>3. QED
    BY <1>0, <1>3, <2>2, ReceiveStep
<1>4. CASE /\ app' = Loads([app EXCEPT !.dialog = NoDialog])
           /\ wire' = (wire \ {r}) \cup {LoadRequest}
           /\ sent' = sent + 1 /\ UNCHANGED heard
  <2>1. PICK q : q = LoadRequest
    OBVIOUS
  <2>2. app' = Loads([app EXCEPT !.dialog = d]) /\ wire' \subseteq wire \cup {q}
    BY <1>1, <1>4, <2>1
  <2>3. QED
    BY <1>0, <1>2, <1>4, <2>1, <2>2, LoadsCopies
<1>5. CASE /\ app' = [[app EXCEPT !.dialog = NoDialog] EXCEPT
             !.rs = Where(@, {x \in ToSet(@) : x.id # r.id}),
             !.dnsRecords = IF r.removeDns THEN RecordsLeft(@, r.input.domain) ELSE @]
           /\ heard' = [heard EXCEPT ![r.id] = sent]
           /\ wire' = wire \ {r} /\ UNCHANGED sent
  <2>1. PICK rs, records :
          /\ rs = Where(app.rs, {x \in ToSet(app.rs) : x.id # r.id})
          /\ records = IF r.removeDns THEN RecordsLeft(app.dnsRecords, r.input.domain)
                       ELSE app.dnsRecords
    OBVIOUS
  <2>2. ListOK(rs) /\ records \in SUBSET DnsRecords
    BY <2>1, AppParts, FilteredList, RecordsLess
  <2>3. app' = [rs |-> rs, dnsRecords |-> records, detail |-> app.detail,
                checking |-> app.checking, form |-> app.form, dialog |-> d,
                loading |-> app.loading, load |-> app.load, loadError |-> app.loadError]
    BY <1>1, <1>5, <2>1, AppParts
  <2>4. AppOK'
    <3>1. sent' \in {sent, sent + 1} /\ UNCHANGED server /\ app.load \in 0 .. sent'
      BY <1>0, <1>5, AppParts
    <3>2. QED
      BY <1>2, <2>2, <2>3, <3>1, AppParts, OtherMoves
  <2>5. heard' \in [Ids -> 0..sent]
    <3>1. sent \in 0..sent
      BY <1>0
    <3>2. QED
      BY <1>0, <1>5, <3>1
  <2>6. UNCHANGED <<server, page, sent, edits>> /\ wire' \subseteq wire
    BY <1>0, <1>5
  <2>7. QED
    BY <1>0, <2>4, <2>5, <2>6, ReceiveStep
<1>6. QED
  BY <1>3, <1>4, <1>5 DEF OnRemoved

\* What the newest load makes of App: the sections that did not fail, the
\* others as they were.
LEMMA LoadShown ==
  ASSUME CopiesInv, NEW r, OnLoaded(r), r.n = app.load
  PROVE  /\ app' = [rs |-> app'.rs, dnsRecords |-> app'.dnsRecords, detail |-> app.detail,
                    checking |-> app.checking, form |-> app.form, dialog |-> app.dialog,
                    loading |-> FALSE, load |-> app.load, loadError |-> app'.loadError]
         /\ app'.loadError \in BOOLEAN
         /\ \/ r.answer["dns"] = Lost /\ app'.dnsRecords = app.dnsRecords
            \/ r.answer["dns"] \in RecordAnswers /\ app'.dnsRecords = r.answer["dns"].resource
         /\ \/ r.answer["routes"] = Lost /\ app'.rs = app.rs
            \/ /\ r.answer["routes"] \in ListAnswers /\ r.answer["routes"] # Lost
               /\ app'.rs = r.answer["routes"].resource /\ ListOK(app'.rs)
         /\ lagging' = lagging \cup Older(app'.rs)
<1>1. LoadOK(r.answer) /\ r.answer["routes"] # None /\ r.answer["dns"] # None
  BY SettledOK DEF OnLoaded
<1>2. /\ r.answer["routes"] \in {Lost} \cup ListAnswers
      /\ r.answer["dns"] \in {Lost} \cup RecordAnswers
      /\ \A a \in ListAnswers \cup RecordAnswers : a # Lost
  BY <1>1 DEF LoadOK, ListAnswers, RecordAnswers, Lost, Answer
<1>3. PICK failed, rs, records :
        /\ failed = {s \in Sections : r.answer[s] = Lost}
        /\ rs = IF "routes" \in failed THEN app.rs ELSE r.answer["routes"].resource
        /\ records = IF "dns" \in failed THEN app.dnsRecords ELSE r.answer["dns"].resource
  OBVIOUS
<1>4. PICK none \in {FALSE, failed = Sections} :
        app' = [app EXCEPT !.loading = FALSE, !.loadError = none,
                           !.rs = rs, !.dnsRecords = records]
  BY <1>3 DEF OnLoaded
<1>5. lagging' = lagging \cup Older(rs)
  BY <1>3 DEF OnLoaded
<1>6. /\ app' = [rs |-> rs, dnsRecords |-> records, detail |-> app.detail,
                 checking |-> app.checking, form |-> app.form, dialog |-> app.dialog,
                 loading |-> FALSE, load |-> app.load, loadError |-> none]
      /\ none \in BOOLEAN
  BY <1>4, AppParts
<1>7. /\ "routes" \in failed <=> r.answer["routes"] = Lost
      /\ "dns" \in failed <=> r.answer["dns"] = Lost
  BY <1>3 DEF Sections
<1>8. r.answer["routes"] # Lost => ListOK(r.answer["routes"].resource)
  BY <1>1, <1>2 DEF LoadOK, ListAnswers, ListOK
<1>9. QED
  BY <1>2, <1>3, <1>5, <1>6, <1>7, <1>8

\* A load is answered.
LEMMA LoadedCopies ==
  ASSUME CopiesInv, NEW r \in wire, OnLoaded(r) PROVE CopiesInv'
<1>0. /\ UNCHANGED <<server, page, sent, edits, heard>> /\ wire' \subseteq wire
      /\ lagging' \in SUBSET Ids /\ FALSE \in BOOLEAN /\ heard' \in [Ids -> 0..sent]
  BY OlderIds DEF OnLoaded, CopiesInv, RestOK
<1>1. CASE r.n # app.load
  <2>1. app' = app
    BY <1>1 DEF OnLoaded
  <2>2. QED
    BY <1>0, <2>1, AppSame, ReceiveStep
<1>2. CASE r.n = app.load
  <2>1. PICK rs, records, none, no :
          rs = app'.rs /\ records = app'.dnsRecords /\ none = app'.loadError /\ no = FALSE
    OBVIOUS
  <2>2. app' = [rs |-> rs, dnsRecords |-> records, detail |-> app.detail,
                checking |-> app.checking, form |-> app.form, dialog |-> app.dialog,
                loading |-> no, load |-> app.load, loadError |-> none]
    BY <1>2, <2>1, LoadShown
  <2>3. ListOK(rs) /\ records \in SUBSET DnsRecords /\ none \in BOOLEAN /\ no \in BOOLEAN
    BY <1>2, <2>1, LoadShown, AppParts DEF RecordAnswers
  <2>4. AppOK'
    <3>1. sent' \in {sent, sent + 1} /\ UNCHANGED server /\ app.load \in 0 .. sent'
      BY <1>0, AppParts
    <3>2. QED
      BY <2>2, <2>3, <3>1, AppParts, OtherMoves
  <2>5. QED
    BY <1>0, <2>4, ReceiveStep
<1>3. QED
  BY <1>1, <1>2

\* A check is answered.
LEMMA RecheckedCopies ==
  ASSUME CopiesInv, NEW r \in wire, OnRechecked(r) PROVE CopiesInv'
<1>0. /\ UNCHANGED <<server, page, sent, edits, heard>> /\ wire' \subseteq wire
      /\ lagging' \in SUBSET Ids /\ heard' \in [Ids -> 0..sent]
  BY OlderIds DEF OnRechecked, CopiesInv, RestOK
<1>1. AnswerOK(r) /\ r.kind = "recheck" /\ r \in Requests
  BY HandledOK DEF OnRechecked
<1>2. PICK checking : checking = IF app.checking = r.n THEN 0 ELSE app.checking
  OBVIOUS
<1>3. checking \in Nat
  BY <1>2, AppParts
<1>4. CASE r.answer.resource = None
  <2>1. app' = [rs |-> app.rs, dnsRecords |-> app.dnsRecords, detail |-> app.detail,
                checking |-> checking, form |-> app.form, dialog |-> app.dialog,
                loading |-> app.loading, load |-> app.load, loadError |-> app.loadError]
    BY <1>2, <1>4, AppParts DEF OnRechecked
  <2>2. AppOK'
    BY <1>0, <1>3, <2>1, AppParts, OtherMoves
  <2>3. QED
    BY <1>0, <2>2, ReceiveStep
<1>5. CASE r.answer.resource # None
  <2>1. r.answer.resource \in Copies
    BY <1>1, <1>5 DEF AnswerOK, Lost, Answer, Writes, ManagedCopies
  <2>2. PICK a, rs : a = r.answer.resource /\ rs = Patched(app.rs, a)
    OBVIOUS
  <2>3. ListOK(rs)
    BY <2>1, <2>2, AppParts, PatchedList
  <2>4. app' = [[app EXCEPT !.checking = checking] EXCEPT !.detail = a, !.rs = rs]
    BY <1>2, <1>5, <2>2, AppParts DEF OnRechecked
  <2>5. app' = [rs |-> rs, dnsRecords |-> app.dnsRecords, detail |-> a,
                checking |-> checking, form |-> app.form, dialog |-> app.dialog,
                loading |-> app.loading, load |-> app.load, loadError |-> app.loadError]
    BY <2>4, AppParts
  <2>6. AppOK'
    BY <1>0, <1>3, <2>1, <2>2, <2>3, <2>5, AppParts, OtherMoves
  <2>7. QED
    BY <1>0, <2>6, ReceiveStep
<1>6. QED
  BY <1>4, <1>5

\* At first the list is the rows of the server.
LEMMA CopiesInit == RoutesInit => CopiesInv
<1> SUFFICES ASSUME RoutesInit PROVE CopiesInv
  OBVIOUS
<1>0. /\ FirstRoutes \subseteq Routes /\ IsFiniteSet(FirstRoutes)
      /\ \A r \in FirstRoutes : r.updatedAt = 0 /\ (r.ownership = "managed" => r.input \in Inputs)
      /\ \A q, r \in FirstRoutes : q.id = r.id => q = r
      /\ \A r \in FirstRoutes : r.id \in Ids /\ r.ownership \in {"managed", "external"}
  BY ServerAssumption DEF Routes
<1>1. /\ server = [rows |-> FirstRoutes, records |-> FirstRecords, time |-> 0,
                   given |-> {r.id : r \in FirstRoutes}]
      /\ server.rows = FirstRoutes /\ server.given = {r.id : r \in FirstRoutes}
      /\ server.time = 0
  BY DEF RoutesInit
<1>2. FirstRoutes \subseteq Copies
  <2>1. \A c \in FirstRoutes : c.ownership = IF c.id \in External THEN "external" ELSE "managed"
    BY <1>0 DEF External
  <2>2. \A c \in FirstRoutes : \A x \in RowsOf(server.rows, c.id) : x = c
    BY <1>0, <1>1 DEF RowsOf
  <2>3. QED
    BY <1>0, <1>1, <2>1, <2>2 DEF Copies
<1>3. External \subseteq server.given
  BY <1>1 DEF External
<1>4. ServerOK
  <2>1. server \in Servers
    BY <1>0, <1>1 DEF Servers, DnsRecords
  <2>2. \A x \in server.rows : x.updatedAt <= server.time
    BY <1>0, <1>1
  <2>3. QED
    BY <1>0, <1>1, <1>2, <1>3, <2>1, <2>2 DEF ServerOK
<1>5. PICK rs : rs = SetToSeq(FirstRoutes)
  OBVIOUS
<1>6. ListOK(rs)
  <2>1. rs \in Seq(FirstRoutes) /\ ToSet(rs) = FirstRoutes
        /\ \A i, j \in DOMAIN rs : rs[i] = rs[j] => i = j
    BY <1>0, <1>5, SetToSeqList
  <2>2. rs \in Seq(Routes)
    BY <1>0, <2>1, SeqMonotonic
  <2>3. QED
    BY <1>0, <1>2, <2>1, <2>2 DEF ListOK, Distinct, ToSet
<1>7. PICK f : f = NoForm
  OBVIOUS
<1>8. sent = 0 /\ FormOK(f)
  <2>1. NoForm \in Forms
    BY DEF NoForm, Forms, Ops
  <2>2. sent = 0
    BY DEF RoutesInit
  <2>3. QED
    BY <1>7, <2>1, <2>2 DEF NoForm, FormOK, Shows
<1>9. /\ app = [rs |-> rs, dnsRecords |-> FirstRecords, detail |-> None, checking |-> 0,
                form |-> f, dialog |-> NoDialog, loading |-> FALSE, load |-> 0,
                loadError |-> FALSE]
      /\ app.rs = rs /\ app.detail = None /\ app.form = f /\ app.dialog = NoDialog
      /\ app.load = 0
  BY <1>5, <1>7 DEF RoutesInit
<1>10. NoDialog \in Dialogs /\ NoDialog.route = None
  BY DEF NoDialog, Dialogs
<1>11. FirstRecords \in SUBSET DnsRecords
  BY DEF DnsRecords
<1>12. app \in Apps
  BY <1>6, <1>8, <1>9, <1>10, <1>11 DEF Apps, ListOK, FormOK
<1>13. AppOK
  BY <1>6, <1>8, <1>9, <1>10, <1>12 DEF AppOK
<1>14. WireOK /\ RestOK
  BY DEF RoutesInit, WireOK, RestOK, Pages
<1>15. QED
  BY <1>4, <1>13, <1>14 DEF CopiesInv

\* Every step of the pages keeps copies copies.
LEMMA CopiesStep == CopiesInv /\ [RoutesStep]_routeVars => CopiesInv'
<1> SUFFICES ASSUME CopiesInv, [RoutesStep]_routeVars PROVE CopiesInv'
  OBVIOUS
<1>1. CASE UNCHANGED routeVars
  <2>1. AppOK'
    BY <1>1, AppSame DEF routeVars
  <2>2. QED
    BY <1>1, <2>1, LocalStep DEF routeVars, CopiesInv, RestOK
<1>2. CASE \E p \in Visited : RoutesGo(p)
  BY <1>2, VisitedAssumption, GoCopies
<1>3. CASE RoutesNetwork
  BY <1>3, ServeCopies, SavedCopies, RemovedCopies, LoadedCopies, RecheckedCopies
     DEF RoutesNetwork
<1>4. CASE RoutesUser
  BY <1>4, ViewCopies, AddEditCopies, SaveCopies, CloseCopies, DoneCopies, DialogCopies,
     ConfirmCopies, RecheckCopies, RetryCopies, DeleteCopies, EnterCopies, PresetCopies
     DEF RoutesUser
<1>5. QED
  BY <1>1, <1>2, <1>3, <1>4 DEF RoutesStep, RoutesNext

\* The list has one row of an id.
LEMMA DistinctIds ==
  ASSUME NEW rs \in Seq(Routes), Distinct(rs)
  PROVE  Cardinality({r.id : r \in ToSet(rs)}) = Len(rs)
<1> DEFINE S == {r.id : r \in ToSet(rs)}
           f == [i \in 1 .. Len(rs) |-> rs[i].id]
<1>1. /\ Len(rs) \in Nat /\ DOMAIN rs = 1 .. Len(rs)
      /\ ToSet(rs) = {rs[i] : i \in 1 .. Len(rs)}
  BY ToSetSeq DEF ToSet
<1>2. f \in Bijection(1 .. Len(rs), S)
  <2>1. f \in [1 .. Len(rs) -> S]
    BY <1>1
  <2>2. \A a, b \in 1 .. Len(rs) : f[a] = f[b] => a = b
    BY <1>1 DEF Distinct
  <2>3. \A t \in S : \E s \in 1 .. Len(rs) : f[s] = t
    BY <1>1
  <2>4. QED
    BY <2>1, <2>2, <2>3 DEF Bijection, Injection, Surjection, IsInjective
<1>3. QED
  BY <1>1, <1>2, FS_CountingElements DEF ExistsBijection

\* The type invariant of the pages follows.
LEMMA CopiesTypes == CopiesInv => RoutesTypeOK
<1> SUFFICES ASSUME CopiesInv PROVE RoutesTypeOK
  OBVIOUS
<1>1. RestOK /\ ServerOK /\ WireOK /\ AppOK
  BY DEF CopiesInv
<1>2. \A r \in Rows \cup server.rows : r.id \in Ids /\ r.status \in RouteStatus
  BY <1>1, RowsAreCopies DEF ServerOK, Copies, Routes
<1>3. Cardinality({r.id : r \in Rows}) = Len(app.rs)
  BY <1>1, RowsAreCopies, DistinctIds DEF AppOK, ListOK
<1>4. \A r \in wire : r.kind \in Kinds /\ r.n \in 1..sent
  BY <1>1 DEF WireOK, RequestOK, Requests
<1>5. /\ app.form.op \in {"closed", "idle", "submitting", "success", "partial_success", "error"}
      /\ Open => app.form.v \in Inputs
  BY <1>1 DEF AppOK, FormOK, Forms, Ops, Open
<1>6. app.form.op \in {"success", "partial_success"} => app.form.result # None
  BY <1>1, NoneAssumption DEF AppOK, FormOK, Shows, ManagedCopies, Copies
<1>7. QED
  BY <1>1, <1>2, <1>3, <1>4, <1>5, <1>6 DEF RestOK, RoutesTypeOK

(***************************************************************************)
(* What is external.                                                       *)
(***************************************************************************)
ExternalOf(s) == {x \in s : x.ownership = "external"}

\* Ownership is settled by the id.
LEMMA ManagedOrNot ==
  ASSUME CopiesInv, NEW x \in Rows \cup server.rows
  PROVE  x.ownership = "external" <=> x.id \in External
<1>1. x \in Copies
  BY RowsAreCopies DEF CopiesInv, ServerOK
<1>2. QED
  BY <1>1 DEF Copies

\* Rows, now and after a step, by what App holds.
LEMMA RowsPrimed == Rows = ToSet(app.rs) /\ Rows' = ToSet(app'.rs)
BY DEF Rows, ToSet

\* What replaces or removes rows, none of them external.
LEMMA DoneExternal ==
  ASSUME CopiesInv, Done PROVE ExternalOf(Rows') = ExternalOf(Rows)
<1>1. app.form.result \in ManagedCopies /\ app.form.result \in Routes
  BY AppParts, ManagedGiven DEF Done, FormOK, Shows
<1>2. app'.rs = Saved(app.rs, app.form.result)
  BY AppParts DEF Done, Sets
<1>3. Rows' = {x \in Rows : x.id # app.form.result.id} \cup {app.form.result}
  BY <1>1, <1>2, AppParts, RowsPrimed, SavedList DEF ListOK
<1>4. app.form.result.id \notin External /\ app.form.result.ownership = "managed"
  BY <1>1 DEF ManagedCopies, Copies
<1>5. QED
  BY <1>3, <1>4, ManagedOrNot DEF ExternalOf

\* A deletion takes the row of a managed route and managed records.
LEMMA RemovedExternal ==
  ASSUME CopiesInv, NEW r \in wire, OnRemoved(r)
  PROVE  /\ ExternalOf(Rows') = ExternalOf(Rows)
         /\ ExternalOf(app'.dnsRecords) = ExternalOf(app.dnsRecords)
<1>1. CASE app'.rs = app.rs /\ app'.dnsRecords = app.dnsRecords
  BY <1>1, RowsPrimed
<1>2. CASE /\ app'.rs = Where(app.rs, {x \in ToSet(app.rs) : x.id # r.id})
           /\ app'.dnsRecords = IF r.removeDns THEN RecordsLeft(app.dnsRecords, r.input.domain)
                                ELSE app.dnsRecords
  <2>1. r.id \notin External
    BY HandledOK DEF OnRemoved, RequestOK
  <2>2. Rows' = {x \in Rows : x.id # r.id}
    BY <1>2, AppParts, RowsPrimed, WhereSet DEF ListOK
  <2>3. ExternalOf(Rows') = ExternalOf(Rows)
    BY <2>1, <2>2, ManagedOrNot DEF ExternalOf
  <2>4. ExternalOf(RecordsLeft(app.dnsRecords, r.input.domain)) = ExternalOf(app.dnsRecords)
    BY DEF ExternalOf, RecordsLeft
  <2>5. QED
    BY <1>2, <2>3, <2>4
<1>3. QED
  <2>1. CASE r.answer = Lost /\ app' = [app EXCEPT !.dialog = NoDialog]
    BY <1>1, <2>1, AppParts
  <2>2. CASE app' = Loads([app EXCEPT !.dialog = NoDialog])
    BY <1>1, <2>2, AppParts DEF Loads
  <2>3. CASE app' = [[app EXCEPT !.dialog = NoDialog] EXCEPT
             !.rs = Where(@, {x \in ToSet(@) : x.id # r.id}),
             !.dnsRecords = IF r.removeDns THEN RecordsLeft(@, r.input.domain) ELSE @]
    BY <1>2, <2>3, AppParts
  <2>4. QED
    BY <2>1, <2>2, <2>3 DEF OnRemoved

\* A check puts back a managed route.
LEMMA RecheckedExternal ==
  ASSUME CopiesInv, NEW r \in wire, OnRechecked(r)
  PROVE  /\ ExternalOf(Rows') = ExternalOf(Rows)
         /\ ExternalOf(app'.dnsRecords) = ExternalOf(app.dnsRecords)
<1>1. app'.dnsRecords = app.dnsRecords
  BY AppParts DEF OnRechecked
<1>2. CASE app'.rs = app.rs
  BY <1>1, <1>2, RowsPrimed
<1>3. CASE r.answer.resource # None /\ app'.rs = Patched(app.rs, r.answer.resource)
  <2>1. PICK a : a = r.answer.resource
    OBVIOUS
  <2>2. a \in ManagedCopies /\ a \in Copies
    BY <1>3, <2>1, HandledOK DEF OnRechecked, AnswerOK, Lost, Answer, Writes, ManagedCopies
  <2>3. a.id \notin External /\ a.ownership = "managed"
    BY <2>2 DEF ManagedCopies, Copies
  <2>4. /\ Rows' \subseteq {x \in Rows : x.id # a.id} \cup {a}
        /\ {x \in Rows : x.id # a.id} \subseteq Rows'
    BY <1>3, <2>1, <2>2, AppParts, RowsPrimed, PatchedList
  <2>5. QED
    BY <1>1, <2>3, <2>4, ManagedOrNot DEF ExternalOf
<1>4. QED
  BY <1>2, <1>3, AppParts DEF OnRechecked

\* Without a load no step changes what is external in the lists.
LEMMA ListsExternal ==
  ASSUME CopiesInv, LoadKnown, [RoutesStep]_routeVars, ~app.loading
  PROVE  /\ ExternalOf(Rows') = ExternalOf(Rows)
         /\ ExternalOf(app'.dnsRecords) = ExternalOf(app.dnsRecords)
<1> DEFINE Same == app'.rs = app.rs /\ app'.dnsRecords = app.dnsRecords
           Goal == /\ ExternalOf(Rows') = ExternalOf(Rows)
                   /\ ExternalOf(app'.dnsRecords) = ExternalOf(app.dnsRecords)
<1>0. app \in Apps
  BY DEF CopiesInv, AppOK
<1>1. ASSUME Same PROVE Goal
  BY <1>1, RowsPrimed
<1>2. ASSUME NEW r \in wire, Serve(r) \/ OnSaved(r) PROVE Same
  BY <1>0, <1>2 DEF Serve, OnSaved, Apps
<1>3. ASSUME NEW r \in wire, OnLoaded(r) PROVE Same
  <2>1. r.n # app.load
    BY <1>3 DEF OnLoaded, Settled, LoadKnown, Pending
  <2>2. QED
    BY <1>3, <2>1 DEF OnLoaded
<1>4. ASSUME NEW r, View(r) \/ Edit(r) \/ Delete(r) PROVE Same
  BY <1>0, <1>4 DEF View, Edit, OpenForm, Delete, Sets, Apps
<1>5. ASSUME NEW p, RoutesGo(p) \/ Preset(p) PROVE Same
  BY <1>0, <1>5 DEF RoutesGo, Preset, Apps
<1>6. ASSUME NEW field, NEW x, Enter(field, x) PROVE Same
  BY <1>0, <1>6 DEF Enter, Apps
<1>7. CASE Add \/ CloseForm \/ RemoveDns \/ Cancel
  <2>1. Same
    BY <1>0, <1>7 DEF Add, OpenForm, CloseForm, RemoveDns, Cancel, Sets, Apps
  <2>2. QED
    BY <1>1, <2>1
<1>8. CASE Save \/ Confirm \/ Recheck \/ Retry
  <2>1. Same
    BY <1>0, <1>8 DEF Save, Confirm, Recheck, Retry, Loads, Sends, Apps
  <2>2. QED
    BY <1>1, <2>1
<1>9. CASE Done
  <2>1. app'.dnsRecords = app.dnsRecords
    BY <1>0, <1>9 DEF Done, Sets, Apps
  <2>2. QED
    BY <1>9, <2>1, DoneExternal
<1>10. CASE UNCHANGED routeVars
  BY <1>1, <1>10 DEF routeVars
<1> HIDE DEF Same, Goal
<1>11. Goal
  BY <1>1, <1>2, <1>3, <1>4, <1>5, <1>6, <1>7, <1>8, <1>9, <1>10,
     RemovedExternal, RecheckedExternal
     DEF RoutesStep, RoutesNext, RoutesNetwork, RoutesUser, Goal
<1>12. QED
  BY <1>11 DEF Goal

\* A request that names a row of the server names a managed one.
LEMMA RequestsManaged ==
  ASSUME CopiesInv, CopiesInv', NEW r \in wire', NEW x \in RowsOf(server.rows, r.id)
  PROVE  x.ownership = "managed"
<1>1. r.id \notin External \/ r.id = None
  BY DEF CopiesInv, WireOK, RequestOK
<1>2. x \in Copies /\ x.id = r.id /\ x.id \in Ids
  BY DEF RowsOf, CopiesInv, ServerOK, Copies, Routes
<1>3. x.id # None
  BY <1>2, NoneAssumption
<1>4. QED
  BY <1>1, <1>2, <1>3 DEF Copies

(***************************************************************************)
(* Which copies may be behind.                                             *)
(***************************************************************************)
LEMMA CopyAges ==
  ASSUME ServerOK, NEW c \in Copies, NEW x \in RowsOf(server.rows, c.id)
  PROVE  /\ c.updatedAt \in Nat /\ x.updatedAt \in Nat /\ c.updatedAt <= x.updatedAt
         /\ c.updatedAt = x.updatedAt => c.input = x.input
         /\ \A y \in RowsOf(server.rows, c.id) : y = x
<1>1. c.updatedAt \in Nat
  BY DEF Copies, Routes
<1>2. x \in Routes /\ x.updatedAt \in Nat
  BY DEF ServerOK, Servers, RowsOf, Routes
<1>3. \/ c.updatedAt < x.updatedAt
      \/ c.updatedAt = x.updatedAt /\ c.input = x.input
  BY DEF Copies
<1>4. \A y \in RowsOf(server.rows, c.id) : y = x
  BY DEF ServerOK, RowsOf
<1>5. QED
  BY <1>1, <1>2, <1>3, <1>4

\* A copy that is current has the fields of the row.
LEMMA CurrentInput ==
  ASSUME ServerOK, NEW c \in Copies, Current(c), NEW touched
  PROVE  Untouched(c.input, touched, c.id)
<1>1. \A x \in RowsOf(server.rows, c.id) : x.input = c.input
  BY CopyAges DEF Current
<1>2. QED
  BY <1>1 DEF Untouched

\* Where a current copy is a row of the list, every copy is current or older
\* than that row.
LEMMA CurrentRow ==
  ASSUME ServerOK, NEW c \in Copies, NEW y \in Copies, y.id = c.id, Current(y)
  PROVE  Current(c) \/ y.updatedAt > c.updatedAt
<1>1. CASE RowsOf(server.rows, c.id) = {}
  BY <1>1 DEF Current
<1>2. ASSUME NEW x \in RowsOf(server.rows, c.id) PROVE Current(c) \/ y.updatedAt > c.updatedAt
  <2>1. /\ c.updatedAt \in Nat /\ x.updatedAt \in Nat /\ c.updatedAt <= x.updatedAt
        /\ \A z \in RowsOf(server.rows, c.id) : z = x
    BY CopyAges
  <2>2. y.updatedAt = x.updatedAt
    BY DEF Current
  <2>3. QED
    BY <2>1, <2>2 DEF Current
<1>3. QED
  BY <1>1, <1>2

\* What is current is a matter of the server alone.
LEMMA CurrentSame ==
  ASSUME UNCHANGED server, NEW c PROVE Current(c)' <=> Current(c)
BY DEF Current, RowsOf

\* So is what a form leaves alone.
LEMMA UntouchedSame ==
  ASSUME UNCHANGED server, NEW v, NEW touched, NEW id
  PROVE  Untouched(v, touched, id)' <=> Untouched(v, touched, id)
BY DEF Untouched, RowsOf

\* A copy keeps being known while the form that may explain it stays open,
\* or what it leaves behind is remembered.
LEMMA KnownSame ==
  ASSUME UNCHANGED server, lagging \subseteq lagging',
         \A id : Busy(id) => (Busy(id)' \/ id \in lagging'), NEW c, Known(c)
  PROVE  Known(c)'
BY CurrentSame DEF Known

(***************************************************************************)
(* What is shown, in a step that leaves the list.                          *)
(***************************************************************************)
Views == ListKnown /\ DetailKnown /\ ChecksKnown /\ LoadKnown

\* All but the load that is owed, which may just have been sent.
LEMMA ListStays ==
  ASSUME CopiesInv, Views, UNCHANGED server, lagging \subseteq lagging',
         \A id : Busy(id) => (Busy(id)' \/ id \in lagging'),
         app'.rs = app.rs,
         app'.detail = app.detail \/ app'.detail = None \/ (~app.loading /\ app'.detail \in Rows),
         NEW q, wire' \subseteq wire \cup {q},
         q \in wire \/ (q.kind = "recheck" => q.answer = None /\ q.id \in DetailIds)
  PROVE  /\ ListKnown' /\ DetailKnown' /\ ChecksKnown'
         /\ DetailIds' \subseteq DetailIds \cup IdsOf(Rows)
         /\ (app'.detail = app.detail \/ app'.detail = None) => DetailIds' \subseteq DetailIds
<1>1. Rows' = Rows
  BY RowsPrimed
<1>2. \A c : Known(c) => Known(c)'
  BY KnownSame
<1>3. \A c : Behind(c) => Behind(c)'
  BY <1>1 DEF Behind
<1>4. ListKnown'
  BY <1>1, <1>2 DEF ListKnown, Views
<1>5. DetailKnown'
  <2>1. CASE app'.detail = app.detail
    BY <1>2, <1>3, <2>1 DEF DetailKnown, Views
  <2>2. CASE app'.detail = None
    BY <2>2 DEF DetailKnown
  <2>3. CASE app'.detail \in Rows
    BY <1>2, <2>3 DEF DetailKnown, Views, ListKnown
  <2>4. QED
    BY <2>1, <2>2, <2>3
<1>6. ChecksKnown'
  BY <1>2, <1>3 DEF ChecksKnown, Views
<1>7. DetailIds' \subseteq DetailIds \cup IdsOf(Rows)
      /\ ((app'.detail = app.detail \/ app'.detail = None) => DetailIds' \subseteq DetailIds)
  BY DEF DetailIds, IdsOf
<1>8. QED
  BY <1>4, <1>5, <1>6, <1>7

\* Nor is a load sent.
LEMMA ViewsStay ==
  ASSUME CopiesInv, Views, UNCHANGED server, lagging \subseteq lagging',
         \A id : Busy(id) => (Busy(id)' \/ id \in lagging'),
         app'.rs = app.rs,
         app'.detail = app.detail \/ app'.detail = None \/ (~app.loading /\ app'.detail \in Rows),
         NEW q, wire' \subseteq wire \cup {q},
         q \in wire \/ q.kind # "get",
         q \in wire \/ (q.kind = "recheck" => q.answer = None /\ q.id \in DetailIds),
         app'.load = app.load, app'.loading = app.loading
  PROVE  Views'
<1>1. /\ ListKnown' /\ DetailKnown' /\ ChecksKnown'
      /\ (app'.detail = app.detail \/ app'.detail = None) => DetailIds' \subseteq DetailIds
  BY ListStays
<1>2. LoadKnown'
  <2>1. ASSUME NEW r \in wire', Pending(r)'
        PROVE  /\ app'.loading
               /\ r.answer["routes"] \notin {None, Lost} =>
                    /\ \A z \in ToSet(r.answer["routes"].resource) : Known(z)' \/ Behind(z)'
                    /\ DetailIds' \cap IdsOf(server'.rows) \subseteq IdsOf(ToSet(r.answer["routes"].resource))
    <3>1. r \in wire /\ Pending(r)
      <4>1. r.kind = "get" /\ r.n = app.load
        BY <2>1 DEF Pending
      <4>2. r \in wire \/ r = q
        BY <2>1
      <4>3. QED
        BY <4>1, <4>2 DEF Pending
    <3>2. app.loading
      BY <3>1 DEF Views, LoadKnown
    <3>3. DetailIds' \subseteq DetailIds
      BY <1>1, <3>2
    <3>4. \A c : (Known(c) => Known(c)') /\ (Behind(c) => Behind(c)')
      BY KnownSame, RowsPrimed DEF Behind
    <3>5. r.answer["routes"] \notin {None, Lost} =>
            /\ \A z \in ToSet(r.answer["routes"].resource) : Known(z) \/ Behind(z)
            /\ DetailIds \cap IdsOf(server.rows) \subseteq IdsOf(ToSet(r.answer["routes"].resource))
      BY <3>1 DEF Views, LoadKnown
    <3>6. QED
      BY <3>2, <3>3, <3>4, <3>5
  <2>2. QED
    BY <2>1 DEF LoadKnown
<1>3. QED
  BY <1>1, <1>2 DEF Views

\* Nor is anything else.
LEMMA ViewsQuiet ==
  ASSUME CopiesInv, Views, UNCHANGED server, lagging \subseteq lagging',
         \A id : Busy(id) => (Busy(id)' \/ id \in lagging'),
         app'.rs = app.rs,
         app'.detail = app.detail \/ app'.detail = None \/ (~app.loading /\ app'.detail \in Rows),
         wire' \subseteq wire,
         app'.load = app.load, app'.loading = app.loading
  PROVE  Views'
<1>1. PICK q : q = [answer |-> None, kind |-> "none"]
  OBVIOUS
<1>2. q.answer = None /\ q.kind # "get" /\ q.kind # "recheck"
  BY <1>1
<1>3. wire' \subseteq wire \cup {q}
  OBVIOUS
<1>4. QED
  BY <1>2, <1>3, ViewsStay

\* Where a known copy is put into the list, what is behind another row of
\* its route is behind it, or known.
LEMMA RowPut ==
  ASSUME CopiesInv, UNCHANGED server, lagging \subseteq lagging',
         NEW a \in Copies, a \in Rows',
         \A y \in Rows : y.id # a.id => y \in Rows',
         \/ Current(a) \/ a.id \in lagging'
         \/ \A y \in Rows : y.id = a.id => ~(y.updatedAt > a.updatedAt),
         NEW c \in Copies, Behind(c)
  PROVE  Known(c)' \/ Behind(c)'
<1>1. PICK y \in Rows : y.id = c.id /\ y.updatedAt > c.updatedAt
  BY DEF Behind
<1>2. CASE y.id # a.id
  BY <1>1, <1>2 DEF Behind
<1>3. CASE y.id = a.id
  <2>1. /\ y \in Copies /\ y.updatedAt \in Nat /\ a.updatedAt \in Nat /\ c.updatedAt \in Nat
        /\ ServerOK
    BY <1>1, RowsAreCopies DEF Copies, Routes, CopiesInv
  <2>2. CASE Current(a)
    <3>1. Current(c) \/ a.updatedAt > c.updatedAt
      BY <1>1, <1>3, <2>1, <2>2, CurrentRow
    <3>2. QED
      BY <1>1, <1>3, <3>1, CurrentSame DEF Known, Behind
  <2>3. CASE a.id \in lagging'
    BY <1>1, <1>3, <2>3 DEF Known
  <2>4. CASE ~(y.updatedAt > a.updatedAt)
    <3>1. a.updatedAt > c.updatedAt
      BY <1>1, <2>1, <2>4
    <3>2. QED
      BY <1>1, <1>3, <3>1 DEF Behind
  <2>5. QED
    BY <1>1, <1>3, <2>2, <2>3, <2>4
<1>4. QED
  BY <1>2, <1>3

\* What the views need after the list has changed.
LEMMA ViewsMove ==
  ASSUME CopiesInv, Views, wire' \subseteq wire, UNCHANGED server,
         \A y \in Rows' : Known(y)',
         \A c \in Copies : c.id \in DetailIds /\ (Known(c) \/ Behind(c)) =>
            (Known(c)' \/ Behind(c)'),
         \A r \in wire' : Pending(r) => \A c \in Copies :
              (Known(c) \/ Behind(c)) => (Known(c)' \/ Behind(c)'),
         NEW d, d = app'.detail,
         d = app.detail \/ Known(d)' \/ Behind(d)',
         d = None \/ d.id \in DetailIds,
         \A r \in wire' : r.n = app'.load => r.n = app.load /\ app'.loading = app.loading
  PROVE  Views'
<1>1. ListKnown'
  BY DEF ListKnown
<1>2. DetailKnown'
  <2>1. CASE d = app.detail /\ d # None
    <3>1. d \in Copies /\ (Known(d) \/ Behind(d))
      BY <2>1, AppParts DEF Views, DetailKnown
    <3>2. Known(d)' \/ Behind(d)'
      BY <2>1, <3>1
    <3>3. QED
      BY <3>2 DEF DetailKnown
  <2>2. CASE d = None
    BY <2>2 DEF DetailKnown
  <2>3. CASE Known(d)' \/ Behind(d)'
    BY <2>3 DEF DetailKnown
  <2>4. QED
    BY <2>1, <2>2, <2>3
<1>3. ChecksKnown'
  <2>1. ASSUME NEW r \in wire', r.kind = "recheck", r.answer \notin {None, Lost}
        PROVE  Known(r.answer.resource)' \/ Behind(r.answer.resource)'
    <3>1. /\ r \in wire /\ AnswerOK(r) /\ r.id \in Ids /\ r.answer.resource \in Copies
          /\ r.answer.resource.id = r.id
      BY <2>1, ManagedGiven
         DEF CopiesInv, WireOK, RequestOK, AnswerOK, Writes, ManagedCopies
    <3>2. r.id \in DetailIds
      BY <2>1, <3>1 DEF DetailIds
    <3>3. Known(r.answer.resource) \/ Behind(r.answer.resource)
      BY <2>1, <3>1 DEF Views, ChecksKnown
    <3>4. QED
      BY <3>1, <3>2, <3>3
  <2>2. QED
    BY <2>1 DEF ChecksKnown
<1>4. DetailIds' \subseteq DetailIds
  BY DEF DetailIds
<1>5. LoadKnown'
  <2>1. ASSUME NEW r \in wire', Pending(r)'
        PROVE  /\ app'.loading
               /\ r.answer["routes"] \notin {None, Lost} =>
                    /\ \A z \in ToSet(r.answer["routes"].resource) : Known(z)' \/ Behind(z)'
                    /\ DetailIds' \cap IdsOf(server'.rows) \subseteq IdsOf(ToSet(r.answer["routes"].resource))
    <3>1. r \in wire /\ Pending(r) /\ app'.loading = app.loading
      BY <2>1 DEF Pending
    <3>2. app.loading
      BY <3>1 DEF Views, LoadKnown
    <3>3. r.answer["routes"] \notin {None, Lost} =>
            /\ \A z \in ToSet(r.answer["routes"].resource) : Known(z) \/ Behind(z)
            /\ DetailIds \cap IdsOf(server.rows) \subseteq IdsOf(ToSet(r.answer["routes"].resource))
      BY <3>1 DEF Views, LoadKnown
    <3>4. r.answer["routes"] \notin {None, Lost} => ToSet(r.answer["routes"].resource) \subseteq Copies
      BY <3>1 DEF CopiesInv, WireOK, RequestOK, AnswerOK, LoadOK, Pending, Writes, Lost, Answer
    <3>5. QED
      BY <1>4, <3>1, <3>2, <3>3, <3>4
  <2>2. QED
    BY <2>1 DEF LoadKnown
<1>6. QED
  BY <1>1, <1>2, <1>3, <1>5 DEF Views

\* "Done": the result is current, or was told to be behind.
LEMMA DoneViews ==
  ASSUME CopiesInv, Views, ResultKnown, Done PROVE Views'
<1> DEFINE a == app.form.result
<1>1. /\ UNCHANGED <<server, wire, lagging>> /\ app'.detail = app.detail /\ app'.load = app.load
      /\ app'.loading = app.loading /\ app'.form = NoForm /\ app'.rs = Saved(app.rs, a)
  BY AppParts DEF Done, Sets
<1>2. a \in ManagedCopies /\ a \in Routes /\ a \in Copies
  BY AppParts, ManagedGiven DEF Done, FormOK, Shows, ManagedCopies
<1>3. Rows' = {x \in Rows : x.id # a.id} \cup {a}
  BY <1>1, <1>2, AppParts, RowsPrimed, SavedList DEF ListOK
<1>4. /\ Current(a) \/ a.id \in lagging
      /\ app.form.route # None => a.id = app.form.route.id
  BY DEF ResultKnown, Done, Shows
<1>5. \A id : Busy(id) => id = a.id
  BY <1>4 DEF Busy
<1> HIDE DEF a
<1>6. PICK b : b = a
  OBVIOUS
<1>7. \A c : Current(c)' <=> Current(c)
  BY <1>1, CurrentSame
<1>8. \A y \in Rows' : Known(y)'
  BY <1>1, <1>3, <1>4, <1>5, <1>7 DEF Views, ListKnown, Known
<1>9. ASSUME NEW c \in Copies, Known(c) \/ Behind(c) PROVE Known(c)' \/ Behind(c)'
  <2>1. CASE Behind(c)
    <3>1. b \in Copies /\ b \in Rows' /\ (\A y \in Rows : y.id # b.id => y \in Rows')
          /\ (Current(b) \/ b.id \in lagging')
      BY <1>1, <1>2, <1>3, <1>4, <1>6
    <3>2. QED
      BY <1>1, <2>1, <3>1, RowPut
  <2>2. CASE Known(c) /\ ~Busy(c.id)
    BY <1>1, <1>7, <2>2 DEF Known
  <2>3. CASE Busy(c.id)
    <3>1. b.id = c.id /\ b \in Copies /\ ServerOK /\ b \in Rows'
      BY <1>2, <1>3, <1>5, <1>6, <2>3 DEF CopiesInv
    <3>2. CASE b.id \in lagging
      BY <1>1, <3>1, <3>2 DEF Known
    <3>3. CASE Current(b)
      <4>1. Current(c) \/ b.updatedAt > c.updatedAt
        BY <3>1, <3>3, CurrentRow
      <4>2. QED
        BY <1>7, <3>1, <4>1 DEF Known, Behind
    <3>4. QED
      BY <1>4, <1>6, <3>2, <3>3
  <2>4. QED
    BY <1>9, <2>1, <2>2, <2>3
<1>10. PICK d : d = app'.detail
  OBVIOUS
<1>11. d = app.detail /\ (d = None \/ d.id \in DetailIds)
  BY <1>1, <1>10, AppParts DEF DetailIds, Copies, Routes
<1>12. QED
  BY <1>1, <1>8, <1>9, <1>10, <1>11, ViewsMove

\* What a load that was just sent is owed.
LEMMA LoadsViews ==
  ASSUME CopiesInv, Views, UNCHANGED <<server, lagging>>, app'.rs = app.rs,
         app'.form = app.form, app'.detail = app.detail, app'.loading,
         app'.load = sent + 1, sent' = sent + 1,
         NEW q, q = LoadRequest, wire' \subseteq wire \cup {q}
  PROVE  Views'
<1>1. \A id : Busy(id)' <=> Busy(id)
  BY DEF Busy
<1>2. q.n = sent + 1 /\ q.kind = "get" /\ q.answer["routes"] = None
  BY LoadSent
<1>3. ListKnown' /\ DetailKnown' /\ ChecksKnown'
  BY <1>1, <1>2, ListStays
<1>4. \A x \in wire' : x.n = sent + 1 => x = q
  BY <1>2 DEF CopiesInv, WireOK, RequestOK, RestOK
<1>5. LoadKnown'
  BY <1>2, <1>4 DEF LoadKnown, Pending
<1>6. QED
  BY <1>3, <1>5 DEF Views

\* Trying again shows nothing new yet.
LEMMA RetryViews ==
  ASSUME CopiesInv, Views, Retry PROVE Views'
<1>1. PICK q : q = LoadRequest
  OBVIOUS
<1>2. /\ UNCHANGED <<server, lagging>> /\ sent' = sent + 1 /\ wire' = wire \cup {q}
      /\ app' = Loads(app)
  BY <1>1 DEF Retry, Sends
<1>3. /\ app'.rs = app.rs /\ app'.form = app.form /\ app'.detail = app.detail
      /\ app'.loading /\ app'.load = sent + 1
  BY <1>2, AppParts DEF Loads
<1>4. QED
  BY <1>1, <1>2, <1>3, LoadsViews

\* A removal: the route it takes has no row at the server any more.
LEMMA RemovedViews ==
  ASSUME CopiesInv, Views, NEW r \in wire, OnRemoved(r) PROVE Views'
<1>0. UNCHANGED <<server, lagging>> /\ app'.form = app.form /\ app'.detail = app.detail
  BY AppParts DEF OnRemoved, Loads
<1>1. \A id : Busy(id)' <=> Busy(id)
  BY <1>0 DEF Busy
<1>2. CASE app' = [app EXCEPT !.dialog = NoDialog] /\ wire' = wire \ {r}
  <2>1. app'.rs = app.rs /\ app'.load = app.load /\ app'.loading = app.loading
    BY <1>2, AppParts
  <2>2. QED
    BY <1>0, <1>1, <1>2, <2>1, ViewsQuiet
<1>3. CASE /\ app' = Loads([app EXCEPT !.dialog = NoDialog])
           /\ wire' = (wire \ {r}) \cup {LoadRequest} /\ sent' = sent + 1
  <2>1. PICK q : q = LoadRequest
    OBVIOUS
  <2>2. app'.rs = app.rs /\ app'.load = sent + 1 /\ app'.loading
    BY <1>3, AppParts DEF Loads
  <2>3. QED
    BY <1>0, <1>3, <2>1, <2>2, LoadsViews
<1>4. CASE /\ app'.rs = Where(app.rs, {x \in ToSet(app.rs) : x.id # r.id})
           /\ app'.load = app.load /\ app'.loading = app.loading /\ wire' = wire \ {r}
           /\ r.answer.result = "success"
  <2>1. r.id \notin IdsOf(server.rows)
    <3>1. AnswerOK(r) /\ r.kind = "remove"
      BY HandledOK DEF OnRemoved
    <3>2. QED
      BY <1>4, <3>1 DEF AnswerOK, Lost, Answer, Writes
  <2>2. Rows' = {x \in Rows : x.id # r.id}
    BY <1>4, AppParts, RowsPrimed, WhereSet DEF ListOK
  <2>3. \A c : Known(c) => Known(c)'
    BY <1>0, <1>1, KnownSame
  <2>4. \A c : c.id = r.id => Current(c)'
    BY <1>0, <2>1 DEF Current, RowsOf, IdsOf
  <2>5. \A y \in Rows' : Known(y)'
    BY <2>2, <2>3 DEF Views, ListKnown
  <2>6. \A c : (Known(c) \/ Behind(c)) => (Known(c)' \/ Behind(c)')
    BY <2>2, <2>3, <2>4 DEF Behind, Known
  <2>7. PICK d : d = app'.detail
    OBVIOUS
  <2>8. d = app.detail /\ (d = None \/ d.id \in DetailIds)
    BY <1>0, <2>7, AppParts DEF DetailIds, Copies, Routes
  <2>9. QED
    BY <1>0, <1>4, <2>5, <2>6, <2>7, <2>8, ViewsMove
<1>5. QED
  <2>1. CASE /\ app' = [[app EXCEPT !.dialog = NoDialog] EXCEPT
                  !.rs = Where(@, {x \in ToSet(@) : x.id # r.id}),
                  !.dnsRecords = IF r.removeDns THEN RecordsLeft(@, r.input.domain) ELSE @]
             /\ r.answer.result = "success" /\ wire' = wire \ {r}
    BY <1>4, <2>1, AppParts
  <2>2. QED
    BY <1>2, <1>3, <2>1 DEF OnRemoved

\* A load: what it puts back is behind nothing, or remembered as lagging.
LEMMA LoadedViews ==
  ASSUME CopiesInv, Views, NEW r \in wire, OnLoaded(r) PROVE Views'
<1>0. /\ UNCHANGED server /\ app'.form = app.form /\ app'.detail = app.detail
      /\ app'.load = app.load /\ wire' = wire \ {r} /\ lagging \subseteq lagging'
  BY LoadShown DEF OnLoaded
<1>1. \A id : Busy(id)' <=> Busy(id)
  BY <1>0 DEF Busy
<1>2. \A c : Known(c) => Known(c)'
  BY <1>0, <1>1, KnownSame
<1>3. /\ r.kind = "get" /\ LoadOK(r.answer) /\ r.answer["routes"] # None
      /\ r.n = app.load => Pending(r)
  BY SettledOK DEF OnLoaded, Pending
<1>4. \A q \in wire' : q.n # r.n
  BY <1>0 DEF CopiesInv, WireOK
<1>5. PICK d : d = app'.detail /\ d = app.detail /\ (d = None \/ d.id \in DetailIds)
  BY <1>0, AppParts DEF DetailIds, Copies, Routes
<1>6. CASE r.n # app.load
  <2>1. app' = app
    BY <1>6 DEF OnLoaded
  <2>2. QED
    BY <1>0, <1>1, <2>1, ViewsQuiet
<1>7. CASE r.n = app.load /\ app'.rs = app.rs
  <2>1. app'.rs = app.rs
    BY <1>7
  <2>2. Rows' = Rows /\ \A c : Behind(c) => Behind(c)'
    BY <2>1, RowsPrimed DEF Behind
  <2>3. \A y \in Rows' : Known(y)'
    BY <1>2, <2>2 DEF Views, ListKnown
  <2>4. \A c : (Known(c) \/ Behind(c)) => (Known(c)' \/ Behind(c)')
    BY <1>2, <2>2
  <2>5. \A q \in wire' : q.n = app'.load => q.n = app.load /\ app'.loading = app.loading
    BY <1>0, <1>4, <1>7
  <2>6. QED
    BY <1>0, <1>5, <2>3, <2>4, <2>5, ViewsMove
<1>8. CASE r.n = app.load /\ r.answer["routes"] # Lost /\ app'.rs = r.answer["routes"].resource
  <2>1. PICK rs : rs = r.answer["routes"].resource
    OBVIOUS
  <2>2. app'.rs = rs /\ lagging' = lagging \cup Older(rs)
    BY <1>8, <2>1, LoadShown
  <2>3. /\ ToSet(rs) \subseteq Copies
        /\ \A z \in ToSet(rs) : Known(z) \/ Behind(z)
        /\ DetailIds \cap IdsOf(server.rows) \subseteq IdsOf(ToSet(rs))
    BY <1>3, <1>8, <2>1 DEF LoadOK, Views, LoadKnown
  <2>4. Rows' = ToSet(rs)
    BY <2>2, RowsPrimed
  <2>5. ASSUME NEW z \in ToSet(rs), NEW y \in Rows, y.id = z.id, z.updatedAt < y.updatedAt
        PROVE  z.id \in lagging'
    BY <2>2, <2>5 DEF Older, ToSet
  <2>6. \A z \in ToSet(rs) : z.updatedAt \in Nat
    BY <2>3 DEF Copies, Routes
  <2>7. \A y \in Rows : y.updatedAt \in Nat
    BY RowsAreCopies DEF Routes
  <2>8. ASSUME NEW z \in Rows' PROVE Known(z)'
    <3>1. CASE Known(z)
      BY <1>2, <3>1
    <3>2. CASE Behind(z)
      <4>1. PICK y \in Rows : y.id = z.id /\ y.updatedAt > z.updatedAt
        BY <3>2 DEF Behind
      <4>2. z.id \in lagging'
        BY <2>4, <2>5, <2>6, <2>7, <2>8, <4>1
      <4>3. QED
        BY <4>2 DEF Known
    <3>3. QED
      BY <2>3, <2>4, <2>8, <3>1, <3>2
  <2>9. ASSUME NEW c \in Copies, c.id \in DetailIds, Known(c) \/ Behind(c)
        PROVE  Known(c)' \/ Behind(c)'
    <3>1. CASE Known(c)
      BY <1>2, <3>1
    <3>2. CASE Behind(c)
      <4>1. PICK y \in Rows : y.id = c.id /\ y.updatedAt > c.updatedAt
        BY <3>2 DEF Behind
      <4>2. CASE c.id \notin IdsOf(server.rows)
        <5>1. Current(c)
          BY <4>2 DEF Current, RowsOf, IdsOf
        <5>2. QED
          BY <1>2, <5>1 DEF Known
      <4>3. CASE c.id \in IdsOf(server.rows)
        <5>1. PICK z \in ToSet(rs) : z.id = c.id
          BY <2>3, <2>9, <4>3 DEF IdsOf
        <5>2. CASE z.updatedAt < y.updatedAt
          BY <2>5, <4>1, <5>1, <5>2 DEF Known
        <5>3. CASE ~(z.updatedAt < y.updatedAt)
          <6>1. c.updatedAt \in Nat
            BY DEF Copies, Routes
          <6>2. z.updatedAt > c.updatedAt
            BY <2>6, <2>7, <4>1, <5>1, <5>3, <6>1
          <6>3. QED
            BY <2>4, <5>1, <6>2 DEF Behind
        <5>4. QED
          BY <5>2, <5>3
      <4>4. QED
        BY <4>2, <4>3
    <3>3. QED
      BY <2>9, <3>1, <3>2
  <2>10. \A q \in wire' : q.n # app'.load /\ q.n # app.load
    BY <1>0, <1>4, <1>8
  <2>11. \A q \in wire' : ~Pending(q)
    BY <2>10 DEF Pending
  <2>12. QED
    BY <1>0, <1>5, <2>8, <2>9, <2>10, <2>11, ViewsMove
<1>9. QED
  BY <1>6, <1>7, <1>8, LoadShown

\* A check: the row it replaces may be newer, and is remembered then.
LEMMA RecheckedViews ==
  ASSUME CopiesInv, Views, NEW r \in wire, OnRechecked(r) PROVE Views'
<1>0. /\ UNCHANGED server /\ app'.form = app.form /\ app'.loading = app.loading
      /\ app'.load = app.load /\ wire' = wire \ {r} /\ lagging \subseteq lagging'
  BY AppParts DEF OnRechecked
<1>1. \A id : Busy(id)' <=> Busy(id)
  BY <1>0 DEF Busy
<1>2. \A c : Known(c) => Known(c)'
  BY <1>0, <1>1, KnownSame
<1>3. r.kind = "recheck" /\ AnswerOK(r) /\ r.answer # None /\ RequestOK(r)
  BY HandledOK DEF OnRechecked, Handled
<1>4. CASE r.answer.resource = None
  <2>1. app'.rs = app.rs /\ app'.detail = app.detail
    BY <1>4, AppParts DEF OnRechecked
  <2>2. QED
    BY <1>0, <1>1, <2>1, ViewsQuiet
<1>5. CASE r.answer.resource # None
  <2>1. PICK a : a = r.answer.resource
    OBVIOUS
  <2>2. /\ a \in ManagedCopies /\ a \in Copies /\ a.id = r.id /\ a.id \in Ids
        /\ r.answer # Lost /\ a # None
    BY <1>3, <1>5, <2>1, ManagedGiven
       DEF AnswerOK, Lost, Answer, Writes, ManagedCopies
  <2>3. a.id \in DetailIds
    BY <1>3, <2>2 DEF DetailIds
  <2>4. app'.rs = Patched(app.rs, a) /\ app'.detail = a
        /\ lagging' = lagging \cup Older(Patched(app.rs, a))
    BY <1>5, <2>1, AppParts DEF OnRechecked
  <2>5. /\ Rows' \subseteq {x \in Rows : x.id # a.id} \cup {a}
        /\ {x \in Rows : x.id # a.id} \subseteq Rows'
        /\ IdsOf(Rows') = IdsOf(Rows)
    BY <2>2, <2>4, AppParts, RowsPrimed, PatchedList
  <2>6. Known(a) \/ Behind(a)
    BY <1>3, <2>1, <2>2 DEF Views, ChecksKnown
  <2>7. ASSUME NEW y \in Rows, y.id = a.id
        PROVE  a \in Rows' /\ (y.updatedAt > a.updatedAt => a.id \in lagging')
    <3>1. a.id \in IdsOf(Rows')
      BY <2>5, <2>7 DEF IdsOf
    <3>2. a \in Rows'
      BY <2>5, <3>1 DEF IdsOf
    <3>3. a.updatedAt \in Nat /\ y.updatedAt \in Nat
      BY <2>2, RowsAreCopies DEF Copies, Routes
    <3>4. y.updatedAt > a.updatedAt => a.id \in Older(Patched(app.rs, a))
      BY <2>4, <2>7, <3>2, <3>3, RowsPrimed DEF Older, ToSet
    <3>5. QED
      BY <2>4, <3>2, <3>4
  <2>8. Known(a)'
    <3>1. CASE Known(a)
      BY <1>2, <3>1
    <3>2. CASE Behind(a)
      <4>1. a.id \in lagging'
        BY <2>7, <3>2 DEF Behind
      <4>2. QED
        BY <4>1 DEF Known
    <3>3. QED
      BY <2>6, <3>1, <3>2
  <2>9. \A y \in Rows' : Known(y)'
    BY <1>2, <2>5, <2>8 DEF Views, ListKnown
  <2>10. ASSUME NEW c \in Copies, Known(c) \/ Behind(c) PROVE Known(c)' \/ Behind(c)'
    <3>1. CASE Known(c)
      BY <1>2, <3>1
    <3>2. CASE Behind(c) /\ a \in Rows'
      <4>1. a.id \in lagging' \/ \A y \in Rows : y.id = a.id => ~(y.updatedAt > a.updatedAt)
        BY <2>7
      <4>2. \A y \in Rows : y.id # a.id => y \in Rows'
        BY <2>5
      <4>3. QED
        BY <1>0, <2>2, <3>2, <4>1, <4>2, RowPut
    <3>3. CASE Behind(c) /\ a \notin Rows'
      <4>1. \A y \in Rows : y \in Rows'
        BY <2>5, <2>7, <3>3
      <4>2. QED
        BY <3>3, <4>1 DEF Behind
    <3>4. QED
      BY <2>10, <3>1, <3>2, <3>3
  <2>11. a = app'.detail /\ (\A q \in wire' : q.n = app'.load => q.n = app.load)
    BY <1>0, <2>4
  <2>12. QED
    BY <1>0, <2>3, <2>8, <2>9, <2>10, <2>11, ViewsMove
<1>6. QED
  BY <1>4, <1>5

(***************************************************************************)
(* The form and the request that it sent.                                  *)
(***************************************************************************)
Edits == UpdateOfForm /\ FormOfRequest /\ FormFaithful /\ RequestFaithful /\ ResultKnown

\* The form is left alone.
LEMMA EditsStay ==
  ASSUME CopiesInv, Edits, UNCHANGED server, app'.form = app.form, lagging \subseteq lagging',
         NEW q, wire' \subseteq wire \cup {q}, q \in wire \/ q.kind \notin Writes
  PROVE  Edits'
<1>1. \A r \in wire' : r.kind \in Writes => r \in wire
  OBVIOUS
<1>2. UpdateOfForm'
  BY <1>1 DEF Edits, UpdateOfForm, FormRequest, Writes
<1>3. FormOfRequest'
  BY <1>1 DEF Edits, FormOfRequest, FormRequest
<1>4. PICK f : f = app.form
  OBVIOUS
<1>5. FormFaithful'
  <2>1. Untouched(f.v, f.touched, f.route.id)' <=> Untouched(f.v, f.touched, f.route.id)
    BY UntouchedSame
  <2>2. QED
    BY <1>4, <2>1 DEF Edits, FormFaithful
<1>6. RequestFaithful'
  <2>1. ASSUME NEW r \in wire', r.kind = "update", r.answer = None, ~r.old, r.id \notin lagging'
        PROVE  Untouched(r.input, r.touched, r.id)'
    <3>1. Untouched(r.input, r.touched, r.id)
      BY <1>1, <2>1 DEF Edits, RequestFaithful, Writes
    <3>2. QED
      BY <3>1, UntouchedSame
  <2>2. QED
    BY <2>1 DEF RequestFaithful
<1>7. ResultKnown'
  <2>1. \A c : Current(c)' <=> Current(c)
    BY CurrentSame
  <2>2. QED
    BY <1>1, <1>4, <2>1 DEF Edits, ResultKnown
<1>8. QED
  BY <1>2, <1>3, <1>5, <1>6, <1>7 DEF Edits

\* The form changes, and no request of the form is under way after that.
LEMMA EditsMove ==
  ASSUME CopiesInv, Edits, UNCHANGED server, lagging \subseteq lagging', wire' \subseteq wire,
         NEW f, f = app'.form,
         \A r \in wire' : r.kind = "update" /\ FormRequest(r) =>
            r.id \in lagging' \/ FormRequest(r)',
         \A r \in wire' : r.kind \in Writes /\ r.n = f.request =>
            r.n = app.form.request /\ FormRequest(r)',
         f.op = "idle" /\ f.route # None /\ ~f.old /\ f.route.id \notin lagging' =>
            Untouched(f.v, f.touched, f.route.id),
         f.op = "error" /\ f.route # None => f.route.id \in lagging',
         f.op \in Shows =>
           /\ Current(f.result) \/ f.result.id \in lagging'
           /\ f.route # None => f.result.id = f.route.id
  PROVE  Edits'
<1>1. UpdateOfForm'
  BY DEF Edits, UpdateOfForm
<1>2. FormOfRequest'
  BY DEF FormOfRequest
<1>3. FormFaithful'
  <2>1. Untouched(f.v, f.touched, f.route.id)' <=> Untouched(f.v, f.touched, f.route.id)
    BY UntouchedSame
  <2>2. QED
    BY <2>1 DEF FormFaithful
<1>4. RequestFaithful'
  <2>1. ASSUME NEW r \in wire', r.kind = "update", r.answer = None, ~r.old, r.id \notin lagging'
        PROVE  Untouched(r.input, r.touched, r.id)'
    <3>1. Untouched(r.input, r.touched, r.id)
      BY <2>1 DEF Edits, RequestFaithful
    <3>2. QED
      BY <3>1, UntouchedSame
  <2>2. QED
    BY <2>1 DEF RequestFaithful
<1>5. ResultKnown'
  <2>1. \A c : Current(c)' <=> Current(c)
    BY CurrentSame
  <2>2. QED
    BY <2>1 DEF Edits, ResultKnown
<1>6. QED
  BY <1>1, <1>2, <1>3, <1>4, <1>5 DEF Edits

\* A field entered is touched.
LEMMA EnteredParts ==
  ASSUME NEW v \in Inputs, NEW field \in Fields, NEW x, NEW f \in Fields, f # field
  PROVE  Part(With(v, field, x), f) = Part(v, f)
<1>1. v.target \in Targets
  BY DEF Inputs
<1>2. CASE field \in {"host", "port", "scheme"}
  <2>1. PICK t : t = [v.target EXCEPT ![field] = x]
    OBVIOUS
  <2>2. With(v, field, x) = [v EXCEPT !.target = t]
    BY <1>2, <2>1 DEF With
  <2>3. CASE f \in {"host", "port", "scheme"}
    <3>1. t[f] = v.target[f]
      BY <1>1, <1>2, <2>1, <2>3 DEF Targets
    <3>2. QED
      BY <2>2, <2>3, <3>1 DEF Part, Inputs
  <2>4. CASE f \in {"domain", "https", "createDns"}
    BY <2>2, <2>4 DEF Part, Inputs
  <2>5. QED
    BY <2>3, <2>4 DEF Fields
<1>3. CASE field \in {"domain", "https", "createDns"}
  BY <1>3 DEF With, Part, Inputs, Fields
<1>4. QED
  BY <1>2, <1>3 DEF Fields

\* So entering keeps the form and its request faithful.
LEMMA EnterEdits ==
  ASSUME CopiesInv, Edits, NEW field \in Fields, NEW x \in Typed[field], Enter(field, x)
  PROVE  Edits'
<1>1. /\ UNCHANGED <<server, wire, lagging>>
      /\ app'.form = [app.form EXCEPT !.v = With(app.form.v, field, x),
                                      !.touched = app.form.touched \cup {field}]
  BY AppParts DEF Enter
<1>2. PICK f : f = app'.form
  OBVIOUS
<1>3. PICK v, touched : v = With(app.form.v, field, x) /\ touched = app.form.touched \cup {field}
  OBVIOUS
<1>4. app.form \in Forms /\ app.form.v \in Inputs
  BY AppParts DEF Enter, Open, FormOK
<1>5. f = [op |-> app.form.op, route |-> app.form.route, v |-> v,
           request |-> app.form.request, result |-> app.form.result,
           touched |-> touched, old |-> app.form.old]
  <2>1. f = [app.form EXCEPT !.v = v, !.touched = touched]
    BY <1>1, <1>2, <1>3
  <2>2. QED
    BY <1>4, <2>1, FormEntered
<1>6. \A r : FormRequest(r)' <=> FormRequest(r)
  BY <1>2, <1>5 DEF FormRequest
<1>7. ASSUME NEW id, Untouched(app.form.v, app.form.touched, id)
      PROVE  Untouched(v, touched, id)
  <2>1. \A g \in Fields : g # field => Part(v, g) = Part(app.form.v, g)
    BY <1>3, <1>4, EnteredParts
  <2>2. QED
    BY <1>3, <1>7, <2>1 DEF Untouched
<1>8. /\ f.op = "idle" /\ f.route # None /\ ~f.old /\ f.route.id \notin lagging' =>
            Untouched(f.v, f.touched, f.route.id)
      /\ f.op = "error" /\ f.route # None => f.route.id \in lagging'
      /\ f.op \in Shows =>
           /\ Current(f.result) \/ f.result.id \in lagging'
           /\ f.route # None => f.result.id = f.route.id
  BY <1>1, <1>5, <1>7 DEF Edits, FormFaithful, ResultKnown
<1>9. \A r \in wire' : r.kind \in Writes /\ r.n = f.request =>
            r.n = app.form.request /\ FormRequest(r)'
  BY <1>1, <1>5, <1>6 DEF Edits, FormOfRequest
<1>10. QED
  BY <1>1, <1>2, <1>6, <1>8, <1>9, EditsMove

\* A preset fills in a form that has no route.
LEMMA PresetEdits ==
  ASSUME CopiesInv, Edits, NEW p \in Presets, Preset(p) PROVE Edits'
<1>1. PICK v : v = RouteInput(app.form.v.domain, Target(p.scheme, app.form.v.target.host, p.port),
                              p.on, p.on)
  OBVIOUS
<1>2. /\ UNCHANGED <<server, wire, lagging>> /\ app.form.route = None
      /\ app'.form = [app.form EXCEPT !.v = v]
  BY <1>1, AppParts DEF Preset
<1>3. PICK f : f = app'.form
  OBVIOUS
<1>4. f = [op |-> app.form.op, route |-> app.form.route, v |-> v,
           request |-> app.form.request, result |-> app.form.result,
           touched |-> app.form.touched, old |-> app.form.old]
  BY <1>2, <1>3, AppParts
<1>5. \A r : FormRequest(r)' <=> FormRequest(r)
  BY <1>3, <1>4 DEF FormRequest
<1>6. /\ f.route = None
      /\ f.op \in Shows => Current(f.result) \/ f.result.id \in lagging'
  BY <1>2, <1>4 DEF Edits, ResultKnown
<1>7. \A r \in wire' : r.kind \in Writes /\ r.n = f.request =>
            r.n = app.form.request /\ FormRequest(r)'
  BY <1>2, <1>4, <1>5 DEF Edits, FormOfRequest
<1>8. QED
  BY <1>2, <1>3, <1>5, <1>6, <1>7, EditsMove

\* A form opened on a copy that is behind nothing the console has seen.
LEMMA OpenedEdits ==
  ASSUME CopiesInv, Edits, ~Open, NEW route, NEW v, NEW old, OpenForm(route, v, old),
         route # None /\ ~old /\ route.id \notin lagging => Untouched(v, {}, route.id)
  PROVE  Edits'
<1>1. /\ UNCHANGED <<server, wire, lagging>>
      /\ app'.form = [NoForm EXCEPT !.op = "idle", !.route = route, !.v = v, !.old = old]
  BY AppParts DEF OpenForm, Sets
<1>2. PICK f : f = app'.form
  OBVIOUS
<1>3. f = [op |-> "idle", route |-> route, v |-> v, request |-> 0, result |-> None,
           touched |-> {}, old |-> old]
  <2>1. PICK h : h = NoForm
    OBVIOUS
  <2>2. h = [op |-> "closed", route |-> None, v |-> None, request |-> 0,
             result |-> None, touched |-> {}, old |-> FALSE]
    BY <2>1 DEF NoForm
  <2>3. f = [h EXCEPT !.op = "idle", !.route = route, !.v = v, !.old = old]
    BY <1>1, <1>2, <2>1
  <2>4. QED
    BY <2>2, <2>3
<1>4. /\ f.op = "idle" /\ f.route = route /\ f.v = v /\ f.request = 0 /\ f.touched = {}
      /\ f.old = old
  BY <1>3
<1>5. \A r \in wire' : r.n # 0 /\ ~FormRequest(r)
  <2>1. \A r \in wire : r.n \in 1 .. sent
    BY DEF CopiesInv, WireOK, RequestOK
  <2>2. QED
    BY <1>1, <2>1 DEF FormRequest, Open
<1>6. f.op = "idle" /\ f.route # None /\ ~f.old /\ f.route.id \notin lagging' =>
            Untouched(f.v, f.touched, f.route.id)
  BY <1>1, <1>4
<1>7. QED
  BY <1>1, <1>2, <1>4, <1>5, <1>6, EditsMove DEF Shows

\* A form begins with the fields of the row, or is old, or its route lags.
LEMMA AddEditEdits ==
  ASSUME CopiesInv, Views, Edits, Add \/ \E r \in Offered("edit") : Edit(r)
  PROVE  Edits'
<1>1. ~Open
  BY DEF Add, Edit, Shown, Covered
<1>2. CASE Add
  BY <1>1, <1>2, OpenedEdits DEF Add
<1>3. ASSUME NEW r \in Offered("edit"), Edit(r) PROVE Edits'
  <2>1. /\ r \in ManagedCopies /\ r \in Copies /\ ServerOK
        /\ r = app.detail \/ (app.detail = None /\ r \in Rows)
    BY OfferedManaged DEF ManagedCopies, CopiesInv
  <2>2. Known(r) \/ Behind(r)
    <3>1. r # None
      BY <2>1, NoneAssumption DEF Copies
    <3>2. QED
      BY <2>1, <3>1 DEF Views, DetailKnown, ListKnown
  <2>3. ~Busy(r.id)
    BY <1>1 DEF Busy, Open, Shows
  <2>4. ~Behind(r) /\ r.id \notin lagging => Untouched(r.input, {}, r.id)
    BY <2>1, <2>2, <2>3, CurrentInput DEF Known
  <2>5. PICK v, old : v = Begin(r) /\ old = Behind(r)
    OBVIOUS
  <2>6. OpenForm(r, v, old)
    BY <1>3, <2>5 DEF Edit
  <2>7. QED
    BY <1>1, <2>4, <2>5, <2>6, OpenedEdits DEF Begin
<1>4. QED
  BY <1>2, <1>3

\* A form that goes may leave its request behind, and its route lagging.
LEMMA ClosedEdits ==
  ASSUME CopiesInv, Edits, UNCHANGED <<server, wire>>, lagging \subseteq lagging',
         app'.form = NoForm,
         \A r \in wire : r.kind = "update" /\ FormRequest(r) => r.id \in lagging'
  PROVE  Edits'
<1>1. PICK f : f = app'.form
  OBVIOUS
<1>2. f.op = "closed" /\ f.request = 0
  BY <1>1 DEF NoForm
<1>3. \A r \in wire' : r.n # 0
  BY DEF CopiesInv, WireOK, RequestOK
<1>4. QED
  BY <1>1, <1>2, <1>3, EditsMove DEF Shows

\* Cancel leaves the route of a request under way lagging.
LEMMA CloseEdits ==
  ASSUME CopiesInv, Edits, CloseForm PROVE Edits'
<1>1. /\ UNCHANGED <<server, wire>> /\ lagging \subseteq lagging' /\ app'.form = NoForm
  BY AppParts DEF CloseForm
<1>2. ASSUME NEW r \in wire, r.kind = "update", FormRequest(r) PROVE r.id \in lagging'
  <2>1. app.form.route # None /\ app.form.op # "idle" /\ r.id = app.form.route.id
    BY <1>2 DEF FormRequest
  <2>2. QED
    BY <2>1 DEF CloseForm
<1>3. QED
  BY <1>1, <1>2, ClosedEdits

\* A form is done when its request has been answered.
LEMMA DoneEdits ==
  ASSUME CopiesInv, Edits, Done PROVE Edits'
<1>1. /\ UNCHANGED <<server, wire, lagging>> /\ app'.form = NoForm
  BY AppParts DEF Done, Sets
<1>2. \A r \in wire : ~FormRequest(r)
  BY DEF FormRequest, Done
<1>3. QED
  BY <1>1, <1>2, ClosedEdits

\* The answer of a write shows a current copy, or its route lags.
LEMMA SavedEdits ==
  ASSUME CopiesInv, Edits, NEW r \in wire, OnSaved(r) PROVE Edits'
<1>0. /\ UNCHANGED server /\ wire' = wire \ {r} /\ lagging \subseteq lagging'
      /\ r.answer = Lost /\ r.kind = "update" => r.id \in lagging'
  BY DEF OnSaved
<1>1. /\ RequestOK(r) /\ AnswerOK(r) /\ r.kind \in Writes /\ r.answer # None
  BY HandledOK DEF OnSaved, Handled, Writes
<1>2. CASE app.form.request # r.n
  <2>1. app' = app
    BY <1>2 DEF OnSaved
  <2>2. QED
    BY <1>0, <2>1, EditsStay
<1>3. CASE app.form.request = r.n
  <2>1. PICK op, result :
          /\ op = IF r.answer.resource = None THEN "error"
                  ELSE IF r.answer.result = "success" THEN "success" ELSE "partial_success"
          /\ result = IF r.answer.resource # None THEN r.answer.resource ELSE app.form.result
    OBVIOUS
  <2>2. app' = [app EXCEPT !.form.op = op, !.form.result = result]
    BY <1>3, <2>1 DEF OnSaved
  <2>3. app.form \in Forms
    BY AppParts DEF FormOK
  <2>4. PICK f : f = app'.form
    OBVIOUS
  <2>5. f = [app.form EXCEPT !.op = op, !.result = result]
    BY <2>2, <2>4, AppParts
  <2>6. f = [op |-> op, route |-> app.form.route, v |-> app.form.v,
             request |-> app.form.request, result |-> result,
             touched |-> app.form.touched, old |-> app.form.old]
    BY <2>3, <2>5, FormAnswered
  <2>7. /\ f.op = op /\ f.route = app.form.route /\ f.request = r.n /\ f.result = result
    BY <1>3, <2>6
  <2>8. FormRequest(r)
    BY <1>1, <1>3 DEF Edits, FormOfRequest
  <2>9. \A q \in wire' : q.n # r.n
    BY <1>0 DEF CopiesInv, WireOK
  <2>10. \A q \in wire' : ~FormRequest(q)
    BY <1>3, <2>9 DEF FormRequest
  <2>11. f.op # "idle"
    BY <2>1, <2>7
  <2>12. f.op = "error" /\ f.route # None => f.route.id \in lagging'
    <3>1. ASSUME f.op = "error", f.route # None PROVE f.route.id \in lagging'
      <4>1. r.kind = "update" /\ r.id = f.route.id
        BY <2>7, <2>8, <3>1 DEF FormRequest
      <4>2. r.answer.resource = None
        BY <2>1, <2>7, <3>1
      <4>3. r.answer = Lost
        BY <1>1, <4>1, <4>2, NoneAssumption DEF AnswerOK, ManagedCopies, Copies
      <4>4. QED
        BY <1>0, <4>1, <4>3
    <3>2. QED
      BY <3>1
  <2>13. f.op \in Shows =>
           /\ Current(f.result) \/ f.result.id \in lagging'
           /\ f.route # None => f.result.id = f.route.id
    <3>1. ASSUME f.op \in Shows
          PROVE  /\ Current(f.result) \/ f.result.id \in lagging'
                 /\ f.route # None => f.result.id = f.route.id
      <4>1. r.answer.resource # None /\ f.result = r.answer.resource
        BY <2>1, <2>7, <3>1 DEF Shows
      <4>2. r.answer # Lost
        BY <4>1 DEF Lost, Answer
      <4>3. Current(f.result) \/ f.result.id \in lagging
        BY <1>1, <1>3, <4>1, <4>2 DEF Edits, ResultKnown
      <4>4. f.route # None => r.kind = "update" /\ r.id = f.route.id
        BY <2>7, <2>8 DEF FormRequest
      <4>5. r.kind = "update" => r.answer.resource.id = r.id
        BY <1>1, <4>2 DEF AnswerOK
      <4>6. QED
        BY <1>0, <4>1, <4>3, <4>4, <4>5
    <3>2. QED
      BY <3>1
  <2>14. \A q \in wire' : ~(q.n = f.request)
    BY <2>7, <2>9
  <2>15. QED
    BY <1>0, <2>4, <2>10, <2>11, <2>12, <2>13, <2>14, EditsMove
<1>4. QED
  BY <1>2, <1>3

\* A request takes what the form has, and only an idle form or one in error
\* sends: the route of the second lags already.
LEMMA SaveEdits ==
  ASSUME CopiesInv, Edits, Save PROVE Edits'
<1>1. PICK q, f :
        /\ f = [app.form EXCEPT !.op = "submitting", !.request = sent + 1]
        /\ q = Request(IF app.form.route = None THEN "create" ELSE "update",
                       IF app.form.route = None THEN None ELSE app.form.route.id,
                       app.form.v, FALSE, app.form.touched, app.form.old)
        /\ Sends(q, [app EXCEPT !.form.op = "submitting", !.form.request = sent + 1])
  BY DEF Save
<1>2. /\ UNCHANGED <<server, lagging>> /\ wire' = wire \cup {q} /\ app'.form = f
  BY <1>1, AppParts DEF Sends
<1>3. app.form \in Forms /\ sent \in Nat
  BY AppParts DEF FormOK, CopiesInv, RestOK
<1>4. f = [op |-> "submitting", route |-> app.form.route, v |-> app.form.v,
           request |-> sent + 1, result |-> app.form.result,
           touched |-> app.form.touched, old |-> app.form.old]
  BY <1>1, <1>3, FormSent
<1>5. /\ q.n = sent + 1 /\ q.answer = None /\ q.input = app.form.v
      /\ q.touched = app.form.touched /\ q.old = app.form.old
      /\ q.kind = IF app.form.route = None THEN "create" ELSE "update"
      /\ q.id = IF app.form.route = None THEN None ELSE app.form.route.id
  BY <1>1 DEF Request
<1>6. FormRequest(q)'
  BY <1>2, <1>4, <1>5 DEF FormRequest
<1>7. \A r \in wire : ~FormRequest(r) /\ r.n # sent + 1
  BY <1>3 DEF FormRequest, Save, CopiesInv, WireOK, RequestOK
<1>8. UpdateOfForm'
  BY <1>2, <1>6, <1>7 DEF UpdateOfForm, Edits
<1>9. FormOfRequest'
  BY <1>2, <1>4, <1>6, <1>7 DEF FormOfRequest
<1>10. FormFaithful' /\ (f.op \notin Shows)
  BY <1>2, <1>4 DEF FormFaithful, Shows
<1>11. RequestFaithful'
  <2>1. ASSUME NEW r \in wire', r.kind = "update", r.answer = None, ~r.old, r.id \notin lagging'
        PROVE  Untouched(r.input, r.touched, r.id)
    <3>1. CASE r \in wire
      BY <1>2, <2>1, <3>1 DEF Edits, RequestFaithful
    <3>2. CASE r = q
      <4>1. app.form.route # None /\ r.id = app.form.route.id /\ ~app.form.old
        BY <1>5, <2>1, <3>2
      <4>2. app.form.op = "idle"
        BY <1>2, <2>1, <4>1 DEF Save, Edits, FormFaithful
      <4>3. QED
        BY <1>2, <1>5, <2>1, <3>2, <4>1, <4>2 DEF Edits, FormFaithful
    <3>3. QED
      BY <1>2, <3>1, <3>2
  <2>2. QED
    BY <1>2, <2>1, UntouchedSame DEF RequestFaithful
<1>12. ResultKnown'
  <2>1. \A r \in wire' : r.n = sent + 1 => r.answer = None
    BY <1>2, <1>5, <1>7
  <2>2. app'.form.request = sent + 1 /\ app'.form.op \notin Shows
    BY <1>2, <1>4, <1>10
  <2>3. QED
    BY <2>1, <2>2 DEF ResultKnown
<1>13. QED
  BY <1>8, <1>9, <1>10, <1>11, <1>12 DEF Edits

\* Answers carry copies.
LEMMA ResourceCopies ==
  ASSUME CopiesInv, NEW r \in wire
  PROVE  /\ r.kind \in Writes \cup {"recheck"} /\ r.answer \notin {None, Lost} =>
              /\ r.answer.resource \in Copies
              /\ r.kind # "create" => r.answer.resource.id = r.id
         /\ r.kind = "get" /\ r.answer["routes"] \notin {None, Lost} =>
              ToSet(r.answer["routes"].resource) \subseteq Copies
<1>1. RequestOK(r)
  BY DEF CopiesInv, WireOK
<1>2. QED
  BY <1>1 DEF RequestOK, AnswerOK, LoadOK, Writes, ManagedCopies

\* Detail, the form and updates name ids that the server gave.
LEMMA GivenIds ==
  ASSUME CopiesInv
  PROVE  /\ DetailIds \subseteq server.given
         /\ app.form.route # None => app.form.route.id \in server.given
         /\ \A r \in wire : r.kind = "update" => r.id \in server.given
<1>1. \A r \in wire : r.kind \in {"update", "recheck"} => r.id \in server.given
  BY DEF CopiesInv, WireOK, RequestOK
<1>2. app.detail # None => app.detail.id \in server.given
  BY AppParts DEF Copies
<1>3. app.form.route # None => app.form.route.id \in server.given
  BY AppParts, ManagedGiven DEF FormOK
<1>4. QED
  BY <1>1, <1>2, <1>3 DEF DetailIds

\* The server answers a write or a check; an update may leave copies of its
\* route behind.
LEMMA AnswerEdits ==
  ASSUME CopiesInv, Views, Edits, Grows,
         UNCHANGED <<page, app, sent, edits, lagging, heard>>,
         NEW r \in wire, r.kind # "get", r.answer = None,
         NEW q, q.n = r.n, q.kind = r.kind, q.id = r.id,
         q.answer # None, wire' = (wire \ {r}) \cup {q},
         \A c \in Copies : Current(c) => Current(c)' \/ (r.kind = "update" /\ c.id = r.id),
         \A id \in server.given :
           \/ RowsOf(server'.rows, id) \subseteq RowsOf(server.rows, id)
           \/ r.kind = "update" /\ id = r.id,
         q.kind \in Writes \cup {"recheck"} /\ q.answer # Lost => Current(q.answer.resource)'
  PROVE  Views' /\ Edits'
<1>1. r.kind = "update" => r.id \in lagging \/ FormRequest(r)
  BY DEF Edits, UpdateOfForm
<1>2. \A x : (FormRequest(x)' <=> FormRequest(x))
  BY DEF FormRequest
<1>3. \A id : Busy(id)' <=> Busy(id)
  BY DEF Busy
<1>4. \A c \in Copies : Known(c) => Known(c)'
  <2>1. r.kind = "update" /\ FormRequest(r) => Busy(r.id)
    BY DEF FormRequest, Busy
  <2>2. QED
    BY <1>1, <1>3, <2>1 DEF Known
<1>5. Rows' = Rows /\ \A c : Behind(c)' <=> Behind(c)
  BY DEF Rows, Behind
<1>6. \A x \in wire : x # r => x.n # r.n
  BY DEF CopiesInv, WireOK
<1>7. ListKnown'
  BY <1>4, <1>5, RowsAreCopies DEF Views, ListKnown
<1>8. DetailKnown'
  BY <1>4, <1>5, AppParts DEF Views, DetailKnown
<1>9. ChecksKnown'
  <2>1. ASSUME NEW x \in wire', x.kind = "recheck", x.answer \notin {None, Lost}
        PROVE  Known(x.answer.resource)' \/ Behind(x.answer.resource)'
    <3>1. CASE x = q
      BY <2>1, <3>1 DEF Known
    <3>2. CASE x \in wire
      BY <1>4, <1>5, <2>1, <3>2, ResourceCopies DEF Views, ChecksKnown
    <3>3. QED
      BY <3>1, <3>2
  <2>2. QED
    BY <2>1 DEF ChecksKnown
<1>10. DetailIds' \subseteq DetailIds
  BY DEF DetailIds
<1>11. LoadKnown'
  <2>1. ASSUME NEW x \in wire', Pending(x)'
        PROVE  /\ app'.loading
               /\ x.answer["routes"] \notin {None, Lost} =>
                    /\ \A z \in ToSet(x.answer["routes"].resource) : Known(z)' \/ Behind(z)'
                    /\ DetailIds' \cap IdsOf(server'.rows)
                         \subseteq IdsOf(ToSet(x.answer["routes"].resource))
    <3>1. Pending(x) /\ x.kind = "get" /\ x \in wire
      BY <2>1 DEF Pending
    <3>2. app'.loading
      BY <3>1 DEF Views, LoadKnown
    <3>3. x.answer["routes"] \notin {None, Lost} =>
            /\ \A z \in ToSet(x.answer["routes"].resource) :
                 z \in Copies /\ (Known(z) \/ Behind(z))
            /\ DetailIds \cap IdsOf(server.rows) \subseteq IdsOf(ToSet(x.answer["routes"].resource))
      BY <3>1, ResourceCopies DEF Views, LoadKnown
    <3>4. DetailIds' \cap IdsOf(server'.rows) \subseteq DetailIds \cap IdsOf(server.rows)
      BY <1>10, GivenIds DEF Grows
    <3>5. QED
      BY <1>4, <1>5, <3>2, <3>3, <3>4
  <2>2. QED
    BY <2>1 DEF LoadKnown
<1>12. UpdateOfForm'
  <2>1. r.kind = "update" => q.id \in lagging \/ FormRequest(q)
    BY <1>1 DEF FormRequest
  <2>2. QED
    BY <1>2, <2>1 DEF Edits, UpdateOfForm
<1>13. FormOfRequest'
  <2>1. FormRequest(r) => FormRequest(q)
    BY DEF FormRequest
  <2>2. QED
    BY <1>2, <2>1 DEF Edits, FormOfRequest
<1>14. ASSUME NEW v, NEW touched, NEW id \in server.given, Untouched(v, touched, id),
             ~(r.kind = "update" /\ id = r.id)
       PROVE  Untouched(v, touched, id)'
  BY <1>14 DEF Untouched
<1>15. FormFaithful'
  <2>1. PICK f : f = app.form
    OBVIOUS
  <2>2. ASSUME f.op = "idle", f.route # None, ~f.old, f.route.id \notin lagging
        PROVE  Untouched(f.v, f.touched, f.route.id)'
    <3>1. Untouched(f.v, f.touched, f.route.id)
      BY <2>1, <2>2 DEF Edits, FormFaithful
    <3>2. ~(r.kind = "update" /\ f.route.id = r.id)
      BY <1>1, <2>1, <2>2 DEF FormRequest
    <3>3. f.route.id \in server.given
      BY <2>1, <2>2, GivenIds
    <3>4. QED
      BY <1>14, <3>1, <3>2, <3>3
  <2>3. QED
    BY <2>1, <2>2 DEF Edits, FormFaithful
<1>16. RequestFaithful'
  <2>1. ASSUME NEW x \in wire', x.kind = "update", x.answer = None, ~x.old, x.id \notin lagging
        PROVE  Untouched(x.input, x.touched, x.id)'
    <3>1. x \in wire /\ x # r
      BY <2>1
    <3>2. Untouched(x.input, x.touched, x.id) /\ FormRequest(x)
      BY <2>1, <3>1 DEF Edits, RequestFaithful, UpdateOfForm
    <3>3. ~(r.kind = "update" /\ x.id = r.id)
      BY <1>1, <1>6, <2>1, <3>1, <3>2 DEF FormRequest
    <3>4. x.id \in server.given
      BY <2>1, <3>1, GivenIds
    <3>5. QED
      BY <1>14, <3>2, <3>3, <3>4
  <2>2. QED
    BY <2>1 DEF RequestFaithful
<1>17. ResultKnown'
  <2>1. ASSUME NEW x \in wire', x.kind \in Writes, x.n = app.form.request,
               x.answer \notin {None, Lost}
        PROVE  Current(x.answer.resource)' \/ x.answer.resource.id \in lagging
    <3>1. CASE x = q
      BY <2>1, <3>1
    <3>2. CASE x \in wire /\ x # r
      <4>1. /\ Current(x.answer.resource) \/ x.answer.resource.id \in lagging
            /\ x.answer.resource \in Copies
        BY <2>1, <3>2, ResourceCopies DEF Edits, ResultKnown
      <4>2. ~FormRequest(r)
        BY <1>6, <2>1, <3>2 DEF FormRequest
      <4>3. QED
        BY <1>1, <4>1, <4>2
    <3>3. QED
      BY <3>1, <3>2
  <2>2. PICK f : f = app.form
    OBVIOUS
  <2>3. ASSUME f.op \in Shows PROVE Current(f.result)' \/ f.result.id \in lagging
    <3>1. f.result \in Copies /\ (Current(f.result) \/ f.result.id \in lagging)
      BY <2>2, <2>3, AppParts DEF FormOK, ManagedCopies, Edits, ResultKnown
    <3>2. ~FormRequest(r)
      BY <2>2, <2>3 DEF FormRequest, Shows
    <3>3. QED
      BY <1>1, <3>1, <3>2
  <2>4. QED
    BY <2>1, <2>2, <2>3 DEF Edits, ResultKnown
<1>18. QED
  BY <1>7, <1>8, <1>9, <1>11, <1>12, <1>13, <1>15, <1>16, <1>17 DEF Views, Edits

\* A request with its answer.
LEMMA Answered ==
  ASSUME NEW r \in Requests, NEW a, NEW q, q = [r EXCEPT !.answer = a]
  PROVE  q.n = r.n /\ q.kind = r.kind /\ q.id = r.id /\ q.answer = a
BY DEF Requests

\* The rows stay.
LEMMA AnswerOnly ==
  ASSUME CopiesInv, Views, Edits, Grows, UNCHANGED <<page, app, sent, edits, lagging, heard>>,
         NEW r \in wire, r.kind # "get", r.answer = None,
         NEW q, q.n = r.n, q.kind = r.kind, q.id = r.id,
         q.answer # None, wire' = (wire \ {r}) \cup {q},
         server'.rows \subseteq server.rows,
         q.kind \in Writes \cup {"recheck"} /\ q.answer # Lost => Current(q.answer.resource)'
  PROVE  Views' /\ Edits'
<1>1. \A id : RowsOf(server'.rows, id) \subseteq RowsOf(server.rows, id)
  BY DEF RowsOf
<1>2. \A c : Current(c) => Current(c)'
  BY <1>1 DEF Current
<1>3. QED
  BY <1>1, <1>2, AnswerEdits

\* A section of a load is answered: its list is that of the server.
LEMMA SectionEdits ==
  ASSUME CopiesInv, Views, Edits, UNCHANGED <<server, page, app, sent, edits, lagging, heard>>,
         NEW r \in wire, r.kind = "get", NEW q, q.n = r.n, q.kind = r.kind,
         wire' = (wire \ {r}) \cup {q},
         \/ q.answer["routes"] = r.answer["routes"]
         \/ q.answer["routes"] = Lost
         \/ ToSet(q.answer["routes"].resource) = server.rows
  PROVE  Views' /\ Edits'
<1>1. q.kind \notin Writes \cup {"recheck"}
  BY DEF Writes
<1>2. \A id : Busy(id) => Busy(id)'
  BY DEF Busy
<1>3. Edits'
  BY <1>1, EditsStay
<1>4. wire' \subseteq wire \cup {q} /\ lagging \subseteq lagging'
      /\ app'.rs = app.rs /\ app'.detail = app.detail
      /\ (q \in wire \/ (q.kind = "recheck" => q.answer = None /\ q.id \in DetailIds))
  BY <1>1
<1>5. ListKnown' /\ DetailKnown' /\ ChecksKnown' /\ DetailIds' \subseteq DetailIds
  BY <1>2, <1>4, ListStays
<1>6. \A c : (Known(c) => Known(c)') /\ (Behind(c) => Behind(c)')
  BY <1>2, KnownSame, RowsPrimed DEF Behind
<1>7. LoadKnown'
  <2>1. ASSUME NEW x \in wire', Pending(x)'
        PROVE  /\ app'.loading
               /\ x.answer["routes"] \notin {None, Lost} =>
                    /\ \A z \in ToSet(x.answer["routes"].resource) : Known(z)' \/ Behind(z)'
                    /\ DetailIds' \cap IdsOf(server'.rows)
                         \subseteq IdsOf(ToSet(x.answer["routes"].resource))
    <3>1. PICK y \in wire : /\ Pending(y)
                            /\ x = y \/ (x = q /\ y = r)
      BY <2>1 DEF Pending
    <3>2. /\ app.loading
          /\ y.answer["routes"] \notin {None, Lost} =>
               /\ \A z \in ToSet(y.answer["routes"].resource) : Known(z) \/ Behind(z)
               /\ DetailIds \cap IdsOf(server.rows) \subseteq IdsOf(ToSet(y.answer["routes"].resource))
      BY <3>1 DEF Views, LoadKnown
    <3>3. CASE x.answer["routes"] = y.answer["routes"]
      BY <1>5, <1>6, <3>2, <3>3
    <3>4. CASE x.answer["routes"] = Lost
      BY <3>2, <3>4
    <3>5. CASE ToSet(x.answer["routes"].resource) = server.rows
      <4>1. \A z \in server.rows : Current(z)
        BY DEF CopiesInv, ServerOK, Current, RowsOf
      <4>2. QED
        BY <1>6, <3>2, <3>5, <4>1 DEF Known
    <3>6. QED
      BY <3>1, <3>3, <3>4, <3>5
  <2>2. QED
    BY <2>1 DEF LoadKnown
<1>8. QED
  BY <1>3, <1>5, <1>7 DEF Views

\* Whatever the server does: a create has an id of its own, and an update is
\* of the form that is busy with it, or of a route that lags.
LEMMA ServeEdits ==
  ASSUME CopiesInv, Views, Edits, NEW r \in wire, Serve(r) PROVE Views' /\ Edits'
<1>0. /\ Grows /\ UNCHANGED <<page, app, sent, edits, lagging, heard>>
      /\ RequestOK(r) /\ r \in Requests /\ server \in Servers /\ ServerOK
      /\ \A x, y \in server.rows : x.id = y.id => x = y
  BY ServeCopies DEF Serve, CopiesInv, WireOK, RequestOK, ServerOK
<1>1. Lost # None
  BY LostOK, NoneAssumption
<1>2. CASE r.kind # "get" /\ r.answer = None /\ ServeError(r)
  <2>1. PICK q : q = [r EXCEPT !.answer = Lost]
    OBVIOUS
  <2>2. wire' = (wire \ {r}) \cup {q} /\ server'.rows \subseteq server.rows
    BY <1>2, <2>1 DEF ServeError, Reply
  <2>3. q.n = r.n /\ q.kind = r.kind /\ q.id = r.id /\ q.answer = Lost
    BY <1>0, <2>1, Answered
  <2>4. QED
    BY <1>0, <1>1, <1>2, <2>2, <2>3, AnswerOnly
<1>3. CASE r.answer = None /\ ServeWrite(r)
  <2>1. PICK id \in IF r.kind = "create" THEN Ids \ server.given
                    ELSE {x.id : x \in RowsOf(server.rows, r.id)} :
          LET row == Route(id, "managed", r.input, NotObserved, server.time + 1) IN
          /\ server' = [server EXCEPT
               !.time = @ + 1, !.given = @ \cup {id},
               !.rows = (@ \ RowsOf(@, id)) \cup {row},
               !.records = IF r.input.createDns
                             THEN (@ \ {d \in @ : d.id = id}) \cup {RecordFor(id, r.input)}
                             ELSE @]
          /\ \E a \in {Answer("success", row), Answer("partial_failure", row), Lost} :
               Reply(r, a)
    BY <1>3 DEF ServeWrite
  <2>2. PICK row : row = Route(id, "managed", r.input, NotObserved, server.time + 1)
    OBVIOUS
  <2>3. r.kind \in Writes /\ row.id = id
    BY <1>3, <2>2 DEF ServeWrite, Writes, Route
  <2>4. id \notin server.given \/ (r.kind = "update" /\ id = r.id)
    BY <2>1, <2>3 DEF RowsOf, Writes
  <2>5. server'.rows = (server.rows \ RowsOf(server.rows, id)) \cup {row}
    BY <1>0, <2>1, <2>2 DEF Servers
  <2>50. PICK a \in {Answer("success", row), Answer("partial_failure", row), Lost} : Reply(r, a)
    BY <2>1, <2>2
  <2>51. PICK q : q = [r EXCEPT !.answer = a]
    OBVIOUS
  <2>6. wire' = (wire \ {r}) \cup {q}
    BY <2>50, <2>51 DEF Reply
  <2>7. q.n = r.n /\ q.kind = r.kind /\ q.id = r.id /\ q.answer = a
    BY <1>0, <2>51, Answered
  <2>8. a # Lost => a.resource = row
    BY <2>50 DEF Answer
  <2>9. a # None
    <3>1. row \in Routes
      <4>1. NotObserved \in RouteStatus
        BY DEF NotObserved, RouteStatus, ComponentStates
      <4>2. id \in Ids /\ server.time + 1 \in Nat /\ r.input \in Inputs
        BY <1>0, <2>1, <2>3 DEF Servers, RowsOf, Routes, RequestOK
      <4>3. QED
        BY <2>2, <4>1, <4>2 DEF Route, Routes
    <3>2. a \in Answers
      BY <2>50, <3>1, LostOK DEF Answers, Answer
    <3>3. QED
      BY <3>2, NoneAssumption
  <2>10. \A i : i # id => RowsOf(server'.rows, i) = RowsOf(server.rows, i)
    BY <2>3, <2>5 DEF RowsOf
  <2>11. \A i \in server.given :
           \/ RowsOf(server'.rows, i) \subseteq RowsOf(server.rows, i)
           \/ r.kind = "update" /\ i = r.id
    BY <2>4, <2>10
  <2>12. \A c \in Copies : Current(c) => Current(c)' \/ (r.kind = "update" /\ c.id = r.id)
    <3>1. \A c \in Copies : c.id \in server.given
      BY DEF Copies
    <3>2. QED
      BY <2>4, <2>10, <3>1 DEF Current
  <2>13. Current(row)'
    BY <2>3, <2>5 DEF Current, RowsOf
  <2>14. q.kind # "get"
    BY <2>3, <2>7 DEF Writes
  <2>15. q.answer # Lost => Current(q.answer.resource)'
    BY <2>7, <2>8, <2>13
  <2>16. QED
    BY <1>0, <1>3, <2>6, <2>7, <2>9, <2>11, <2>12, <2>14, <2>15, AnswerEdits
<1>4. CASE r.answer = None /\ ServeRemove(r)
  <2>1. r.kind = "remove" /\ server'.rows \subseteq server.rows
    BY <1>0, <1>4 DEF ServeRemove, Servers
  <2>2. PICK a \in {Answer("success", None), Answer("partial_failure", None), Lost} : Reply(r, a)
    BY <1>4 DEF ServeRemove
  <2>20. PICK q : q = [r EXCEPT !.answer = a]
    OBVIOUS
  <2>21. wire' = (wire \ {r}) \cup {q}
    BY <2>2, <2>20 DEF Reply
  <2>3. q.n = r.n /\ q.kind = r.kind /\ q.id = r.id /\ q.answer = a
    BY <1>0, <2>20, Answered
  <2>4. a # None
    <3>1. a \in Answers
      BY <2>2, LostOK DEF Answers, Answer
    <3>2. QED
      BY <3>1, NoneAssumption
  <2>5. QED
    BY <1>0, <1>4, <2>1, <2>21, <2>3, <2>4, AnswerOnly DEF Writes
<1>5. CASE r.answer = None /\ ServeRecheck(r)
  <2>1. r.kind = "recheck" /\ UNCHANGED server
    BY <1>5 DEF ServeRecheck
  <2>2. PICK x \in RowsOf(server.rows, r.id), status \in Statuses :
          Reply(r, Answer("success", [x EXCEPT !.status = status]))
    BY <1>5 DEF ServeRecheck
  <2>3. PICK c : c = [x EXCEPT !.status = status]
    OBVIOUS
  <2>4. x \in Routes /\ x \in server.rows /\ x.id = r.id
    BY <1>0, <2>2 DEF RowsOf, Servers
  <2>5. c \in Routes /\ c.id = x.id /\ c.updatedAt = x.updatedAt
    BY <2>2, <2>3, <2>4, ServerAssumption DEF Routes
  <2>6. Current(c)'
    BY <1>0, <2>1, <2>4, <2>5 DEF Current, RowsOf
  <2>7. PICK a, q : /\ a = Answer("success", c)
                    /\ q = [r EXCEPT !.answer = a] /\ wire' = (wire \ {r}) \cup {q}
    BY <2>2, <2>3 DEF Reply
  <2>8. q.n = r.n /\ q.kind = r.kind /\ q.id = r.id /\ q.answer = a
    BY <1>0, <2>7, Answered
  <2>9. a # None /\ a.resource = c
    <3>1. a \in Answers /\ a.resource = c
      BY <2>5, <2>7 DEF Answers, Answer
    <3>2. QED
      BY <3>1, NoneAssumption
  <2>10. Current(q.answer.resource)' /\ server'.rows \subseteq server.rows
    BY <2>1, <2>6, <2>8, <2>9
  <2>11. q.kind # "get"
    BY <2>1, <2>8
  <2>12. QED
    BY <1>0, <1>5, <2>7, <2>8, <2>9, <2>10, <2>11, AnswerOnly
<1>6. ASSUME NEW s \in Sections, ServeGet(r, s) PROVE Views' /\ Edits'
  <2>1. r.kind = "get" /\ UNCHANGED server /\ LoadOK(r.answer)
    BY <1>0, <1>6 DEF ServeGet, RequestOK, AnswerOK, Writes
  <2>2. PICK rs : rs = SetToSeq(server.rows) /\ ToSet(rs) = server.rows
    BY <1>0, SetToSeqList DEF ServerOK
  <2>3. PICK a \in {Answer("success", IF s = "routes" THEN rs ELSE server.records), Lost} :
          Reply(r, [r.answer EXCEPT ![s] = a])
    BY <1>6, <2>2 DEF ServeGet
  <2>4. PICK b, q : /\ b = [r.answer EXCEPT ![s] = a] /\ q = [r EXCEPT !.answer = b]
                    /\ wire' = (wire \ {r}) \cup {q}
    BY <2>3 DEF Reply
  <2>5. q.n = r.n /\ q.kind = r.kind /\ q.answer = b
    BY <1>0, <2>4, Answered
  <2>6. b["routes"] = IF s = "routes" THEN a ELSE r.answer["routes"]
    BY <2>1, <2>4 DEF LoadOK, LoadAnswers, Sections
  <2>7. a = Lost \/ s # "routes" \/ a.resource = rs
    BY <2>3 DEF Answer
  <2>8. \/ q.answer["routes"] = r.answer["routes"]
        \/ q.answer["routes"] = Lost
        \/ ToSet(q.answer["routes"].resource) = server.rows
    BY <2>2, <2>5, <2>6, <2>7
  <2>9. q.kind = "get" /\ q.n = r.n /\ UNCHANGED <<server, page, app, sent, edits, lagging, heard>>
    BY <1>0, <2>1, <2>5
  <2>10. QED
    BY <2>1, <2>4, <2>8, <2>9, SectionEdits
<1>7. QED
  BY <1>2, <1>3, <1>4, <1>5, <1>6 DEF Serve

\* An answer that settles the form leaves its route busy, or behind.
LEMMA SavedViews ==
  ASSUME CopiesInv, Views, Edits, NEW r \in wire, OnSaved(r) PROVE Views'
<1>0. /\ UNCHANGED server /\ wire' = wire \ {r} /\ lagging \subseteq lagging'
      /\ r.answer = Lost /\ r.kind = "update" => r.id \in lagging'
      /\ app'.rs = app.rs /\ app'.detail = app.detail /\ app'.load = app.load
      /\ app'.loading = app.loading
  BY AppParts DEF OnSaved
<1>1. /\ AnswerOK(r) /\ r.kind \in Writes /\ r.answer # None
  BY HandledOK DEF OnSaved, Handled, Writes
<1>2. ASSUME NEW id, Busy(id) PROVE Busy(id)' \/ id \in lagging'
  <2>1. CASE app.form.request # r.n
    <3>1. app' = app
      BY <2>1 DEF OnSaved
    <3>2. QED
      BY <1>2, <3>1 DEF Busy
  <2>2. CASE app.form.request = r.n
    <3>1. PICK op, result :
            /\ op = IF r.answer.resource = None THEN "error"
                    ELSE IF r.answer.result = "success" THEN "success" ELSE "partial_success"
            /\ result = IF r.answer.resource # None THEN r.answer.resource ELSE app.form.result
      OBVIOUS
    <3>2. app' = [app EXCEPT !.form.op = op, !.form.result = result]
      BY <2>2, <3>1 DEF OnSaved
    <3>3. app.form \in Forms
      BY AppParts DEF FormOK
    <3>4. PICK f : f = app'.form
      OBVIOUS
    <3>5. f = [app.form EXCEPT !.op = op, !.result = result]
      BY <3>2, <3>4, AppParts
    <3>60. f = [op |-> op, route |-> app.form.route, v |-> app.form.v,
               request |-> app.form.request, result |-> result,
               touched |-> app.form.touched, old |-> app.form.old]
      BY <3>3, <3>5, FormAnswered
    <3>6. f.op = op /\ f.route = app.form.route
      BY <3>60
    <3>7. r.kind = "update" /\ app.form.route # None /\ r.id = app.form.route.id /\ id = r.id
      BY <1>1, <1>2, <2>2 DEF Edits, FormOfRequest, FormRequest, Busy
    <3>8. CASE r.answer.resource = None
      <4>1. r.answer = Lost
        BY <1>1, <3>7, <3>8, NoneAssumption DEF AnswerOK, ManagedCopies, Copies
      <4>2. QED
        BY <1>0, <3>7, <4>1
    <3>9. CASE r.answer.resource # None
      <4>1. op \in Shows
        BY <3>1, <3>9 DEF Shows
      <4>2. QED
        BY <3>4, <3>6, <3>7, <4>1 DEF Busy
    <3>10. QED
      BY <3>8, <3>9
  <2>3. QED
    BY <2>1, <2>2
<1>3. QED
  BY <1>0, <1>2, ViewsQuiet

\* Steps in which nothing becomes known or unknown: the form stays as it is.
LEMMA QuietStep ==
  ASSUME CopiesInv, Views, Edits, UNCHANGED <<server, lagging>>, wire' = wire,
         app'.form = app.form, app'.rs = app.rs, app'.load = app.load,
         app'.loading = app.loading,
         app'.detail = app.detail \/ app'.detail = None \/ (~app.loading /\ app'.detail \in Rows)
  PROVE  Views' /\ Edits'
<1>1. \A id : Busy(id) => Busy(id)'
  BY DEF Busy
<1>2. Views'
  BY <1>1, ViewsQuiet
<1>3. PICK q : q = [kind |-> "get"]
  OBVIOUS
<1>4. wire' \subseteq wire \cup {q} /\ q.kind \notin Writes
  BY <1>3 DEF Writes
<1>5. QED
  BY <1>2, <1>4, EditsStay

\* The list stays while the form is filled in.
LEMMA FormViews ==
  ASSUME CopiesInv, Views, UNCHANGED <<server, lagging, wire>>,
         app'.rs = app.rs, app'.load = app.load, app'.loading = app.loading,
         app'.detail = app.detail,
         ~Open \/ (app'.form.op = app.form.op /\ app'.form.route = app.form.route)
  PROVE  Views'
<1>1. \A id : Busy(id) => Busy(id)'
  BY DEF Busy, Open, Shows
<1>2. QED
  BY <1>1, ViewsQuiet

\* The steps that open the form or fill it in.
LEMMA FormSteps ==
  ASSUME CopiesInv, Views, Edits,
         \/ Add \/ \E r \in Offered("edit") : Edit(r)
         \/ \E field \in Fields : \E x \in Typed[field] : Enter(field, x)
         \/ \E p \in Presets : Preset(p)
  PROVE  Views' /\ Edits'
<1>1. CASE Add \/ \E r \in Offered("edit") : Edit(r)
  <2>1. PICK route, v, old : OpenForm(route, v, old)
    BY <1>1 DEF Add, Edit
  <2>2. ~Open
    BY <1>1 DEF Add, Edit, Shown, Covered
  <2>3. /\ UNCHANGED <<server, lagging, wire>> /\ app'.rs = app.rs /\ app'.load = app.load
        /\ app'.loading = app.loading /\ app'.detail = app.detail
    BY <2>1, AppParts DEF OpenForm, Sets
  <2>4. QED
    BY <1>1, <2>2, <2>3, FormViews, AddEditEdits
<1>2. ASSUME NEW field \in Fields, NEW x \in Typed[field], Enter(field, x) PROVE Views' /\ Edits'
  <2>1. /\ UNCHANGED <<server, lagging, wire>> /\ app'.rs = app.rs /\ app'.load = app.load
        /\ app'.loading = app.loading /\ app'.detail = app.detail
        /\ app'.form.op = app.form.op /\ app'.form.route = app.form.route
    BY <1>2, AppParts DEF Enter
  <2>2. QED
    BY <1>2, <2>1, FormViews, EnterEdits
<1>3. ASSUME NEW p \in Presets, Preset(p) PROVE Views' /\ Edits'
  <2>1. /\ UNCHANGED <<server, lagging, wire>> /\ app'.rs = app.rs /\ app'.load = app.load
        /\ app'.loading = app.loading /\ app'.detail = app.detail
        /\ app'.form.op = app.form.op /\ app'.form.route = app.form.route
    BY <1>3, AppParts DEF Preset
  <2>2. QED
    BY <1>3, <2>1, FormViews, PresetEdits
<1>4. QED
  BY <1>1, <1>2, <1>3

\* The steps that send a request.
LEMMA SendSteps ==
  ASSUME CopiesInv, Views, Edits, Save \/ Confirm \/ Recheck PROVE Views' /\ Edits'
<1>1. CASE Save
  <2>1. PICK q, f :
          /\ f = [app.form EXCEPT !.op = "submitting", !.request = sent + 1]
          /\ q = Request(IF app.form.route = None THEN "create" ELSE "update",
                         IF app.form.route = None THEN None ELSE app.form.route.id,
                         app.form.v, FALSE, app.form.touched, app.form.old)
          /\ Sends(q, [app EXCEPT !.form.op = "submitting", !.form.request = sent + 1])
    BY <1>1 DEF Save
  <2>2. /\ UNCHANGED <<server, lagging>> /\ wire' = wire \cup {q} /\ app'.rs = app.rs
        /\ app'.load = app.load /\ app'.loading = app.loading /\ app'.detail = app.detail
    BY <2>1, AppParts DEF Sends
  <2>3. q.answer = None /\ q.kind \notin {"get", "recheck"}
    BY <2>1 DEF Request
  <2>4. \A id : ~Busy(id)
    BY <1>1 DEF Save, Busy, Shows
  <2>5. QED
    BY <1>1, <2>2, <2>3, <2>4, ViewsStay, SaveEdits
<1>2. CASE Confirm
  <2>1. PICK q : q = Request("remove", app.dialog.route.id, app.dialog.route.input,
                             app.dialog.removeDns, {}, FALSE)
    OBVIOUS
  <2>2. UNCHANGED <<server, lagging, app>> /\ wire' = wire \cup {q}
    BY <1>2, <2>1 DEF Confirm, Sends
  <2>3. q.answer = None /\ q.kind = "remove" /\ q.kind \notin Writes
    BY <2>1 DEF Request, Writes
  <2>4. \A id : Busy(id) => Busy(id)'
    BY <2>2 DEF Busy
  <2>5. Views'
    BY <2>2, <2>3, <2>4, ViewsStay
  <2>6. Edits'
    BY <2>2, <2>3, EditsStay
  <2>7. QED
    BY <2>5, <2>6
<1>3. CASE Recheck
  <2>1. PICK q : q = Request("recheck", app.detail.id, None, FALSE, {}, FALSE)
    OBVIOUS
  <2>2. /\ UNCHANGED <<server, lagging>> /\ wire' = wire \cup {q} /\ app'.rs = app.rs
        /\ app'.load = app.load /\ app'.loading = app.loading /\ app'.detail = app.detail
        /\ app'.form = app.form
    BY <1>3, <2>1, AppParts DEF Recheck, Sends
  <2>3. q.answer = None /\ q.kind = "recheck" /\ q.kind \notin Writes /\ q.id = app.detail.id
    BY <2>1 DEF Request, Writes
  <2>4. q.id \in DetailIds
    BY <1>3, <2>3, AppParts DEF Recheck, DetailIds, Copies, Routes
  <2>5. \A id : Busy(id) => Busy(id)'
    BY <2>2 DEF Busy
  <2>6. Views'
    BY <2>2, <2>3, <2>4, <2>5, ViewsStay
  <2>7. Edits'
    BY <2>2, <2>3, EditsStay
  <2>8. QED
    BY <2>6, <2>7
<1>4. QED
  BY <1>1, <1>2, <1>3

\* A form that was busy leaves its route lagging.
LEMMA CloseViews ==
  ASSUME CopiesInv, Views, CloseForm PROVE Views'
<1>1. /\ UNCHANGED <<server, wire>> /\ app'.rs = app.rs /\ app'.load = app.load
      /\ app'.loading = app.loading /\ app'.detail = app.detail /\ lagging \subseteq lagging'
  BY AppParts DEF CloseForm
<1>2. \A id : Busy(id) => id \in lagging'
  BY DEF CloseForm, Busy, Shows
<1>3. QED
  BY <1>1, <1>2, ViewsQuiet

\* An answer to a request that writes nothing.
LEMMA OtherAnswers ==
  ASSUME CopiesInv, Edits, NEW r \in wire, OnRemoved(r) \/ OnLoaded(r) \/ OnRechecked(r)
  PROVE  Edits'
<1>1. UNCHANGED server /\ app'.form = app.form /\ lagging \subseteq lagging'
  BY AppParts DEF OnRemoved, OnLoaded, OnRechecked, Loads
<1>2. PICK q : q = LoadRequest
  OBVIOUS
<1>3. q.kind \notin Writes
  BY <1>2 DEF LoadRequest, Request, Writes
<1>4. wire' \subseteq wire \cup {q}
  BY <1>2 DEF OnRemoved, OnLoaded, OnRechecked
<1>5. QED
  BY <1>1, <1>3, <1>4, EditsStay

\* All steps of the network.
LEMMA NetworkEdits ==
  ASSUME CopiesInv, Views, Edits, RoutesNetwork PROVE Views' /\ Edits'
<1>1. ASSUME NEW r \in wire,
             Serve(r) \/ OnSaved(r) \/ OnRemoved(r) \/ OnLoaded(r) \/ OnRechecked(r)
      PROVE  Views' /\ Edits'
  <2>1. CASE Serve(r)
    BY <2>1, ServeEdits
  <2>2. CASE OnSaved(r)
    BY <2>2, SavedViews, SavedEdits
  <2>3. CASE OnRemoved(r)
    BY <2>3, RemovedViews, OtherAnswers
  <2>4. CASE OnLoaded(r)
    BY <2>4, LoadedViews, OtherAnswers
  <2>5. CASE OnRechecked(r)
    BY <2>5, RecheckedViews, OtherAnswers
  <2>6. QED
    BY <1>1, <2>1, <2>2, <2>3, <2>4, <2>5
<1>2. QED
  BY <1>1 DEF RoutesNetwork

\* All steps of the operator.
LEMMA UserEdits ==
  ASSUME CopiesInv, Views, Edits, RoutesUser PROVE Views' /\ Edits'
<1>1. CASE \E r \in Rows : View(r)
  <2>1. PICK r \in Rows : View(r)
    BY <1>1
  <2>2. /\ UNCHANGED <<server, lagging, wire>> /\ ~app.loading /\ app'.detail = r
        /\ app'.form = app.form /\ app'.rs = app.rs /\ app'.load = app.load
        /\ app'.loading = app.loading
    BY <2>1, AppParts DEF View, Sets, Shown
  <2>3. QED
    BY <2>2, QuietStep
<1>2. CASE RemoveDns \/ Cancel \/ \E r \in Offered("delete") : Delete(r)
  <2>1. /\ UNCHANGED <<server, lagging, wire>> /\ app'.detail = app.detail
        /\ app'.form = app.form /\ app'.rs = app.rs /\ app'.load = app.load
        /\ app'.loading = app.loading
    BY <1>2, AppParts DEF RemoveDns, Cancel, Delete, Sets
  <2>2. QED
    BY <2>1, QuietStep
<1>3. CASE CloseForm
  BY <1>3, CloseViews, CloseEdits
<1>4. CASE Done
  BY <1>4, DoneViews, DoneEdits DEF Edits
<1>5. CASE Save \/ Confirm \/ Recheck
  BY <1>5, SendSteps
<1>6. CASE \/ Add \/ \E r \in Offered("edit") : Edit(r)
           \/ \E field \in Fields : \E x \in Typed[field] : Enter(field, x)
           \/ \E p \in Presets : Preset(p)
  BY <1>6, FormSteps
<1>7. CASE Retry
  <2>1. PICK q : q = LoadRequest
    OBVIOUS
  <2>2. q.kind \notin Writes
    BY <2>1 DEF LoadRequest, Request, Writes
  <2>3. UNCHANGED <<server, lagging>> /\ wire' \subseteq wire \cup {q} /\ app'.form = app.form
    BY <1>7, <2>1, AppParts DEF Retry, Sends, Loads
  <2>4. QED
    BY <1>7, <2>2, <2>3, RetryViews, EditsStay
<1>8. QED
  BY <1>1, <1>2, <1>3, <1>4, <1>5, <1>6, <1>7 DEF RoutesUser

\* All steps of the pages.
LEMMA EditsStep == CopiesInv /\ Views /\ Edits /\ [RoutesStep]_routeVars => Views' /\ Edits'
<1> SUFFICES ASSUME CopiesInv, Views, Edits, [RoutesStep]_routeVars PROVE Views' /\ Edits'
  OBVIOUS
<1>1. CASE UNCHANGED routeVars
  BY <1>1, QuietStep DEF routeVars
<1>2. CASE \E p \in Visited : RoutesGo(p)
  <2>1. /\ UNCHANGED <<server, lagging, wire>> /\ app'.detail = None
        /\ app'.form = app.form /\ app'.rs = app.rs /\ app'.load = app.load
        /\ app'.loading = app.loading
    BY <1>2, AppParts DEF RoutesGo
  <2>2. QED
    BY <2>1, QuietStep
<1>3. QED
  BY <1>1, <1>2, NetworkEdits, UserEdits DEF RoutesStep, RoutesNext

\* At first the list is the server's, and nothing is under way.
LEMMA EditsInit == RoutesInit => Views /\ Edits
<1> SUFFICES ASSUME RoutesInit PROVE Views /\ Edits
  OBVIOUS
<1>1. server.rows = FirstRoutes /\ wire = {} /\ app.detail = None /\ app.form = NoForm
      /\ app.rs = SetToSeq(FirstRoutes)
  BY DEF RoutesInit
<1>2. Rows = FirstRoutes
  <2>1. ToSet(app.rs) = FirstRoutes
    BY <1>1, SetToSeqList, ServerAssumption
  <2>2. QED
    BY <2>1 DEF Rows, ToSet
<1>3. ListKnown
  BY <1>1, <1>2, ServerAssumption DEF ListKnown, Known, Current, RowsOf
<1>4. NoForm.op = "closed"
  BY DEF NoForm
<1>5. QED
  BY <1>1, <1>3, <1>4
     DEF Views, Edits, DetailKnown, ChecksKnown, LoadKnown, UpdateOfForm, FormOfRequest,
         FormFaithful, RequestFaithful, ResultKnown, Shows

\* Only the server changes its rows, and what it writes is faithful.
LEMMA UndoneStep ==
  ASSUME CopiesInv, Edits, [RoutesStep]_routeVars,
         NEW r \in wire, NEW x \in RowsOf(server.rows, r.id), r.kind = "update",
         server'.rows # server.rows, r \notin wire',
         NEW f \in Fields, Part(r.input, f) # Part(x.input, f)
  PROVE  f \in r.touched \/ r.old \/ r.id \in lagging
<1>1. PICK q \in wire : Serve(q)
  BY DEF RoutesStep, RoutesNext, RoutesNetwork, RoutesUser, routeVars, RoutesGo, View, Add, Edit,
         OpenForm, Sets, Enter, Preset, Save, Sends, OnSaved, CloseForm, Done, Delete, RemoveDns,
         Confirm, Cancel, OnRemoved, OnLoaded, Retry, Recheck, OnRechecked
<1>2. r = q
  BY <1>1 DEF Serve, ServeError, ServeWrite, ServeRemove, ServeRecheck, ServeGet, Reply
<1>3. r.answer = None
  BY <1>1, <1>2 DEF Serve, ServeGet
<1>4. QED
  BY <1>3 DEF Edits, RequestFaithful, Untouched

(***************************************************************************)
(* What is gone: a route whose deletion the operator has been told of is   *)
(* gone at the server for good, no request sent since is answered with it, *)
(* and no form that sent its save since shows it.                          *)
(***************************************************************************)
\* The ids of the routes that the answer to a request brings to the console.
Brings(r) ==
  IF r.kind = "get"
    THEN IF r.answer["routes"] \in {None, Lost} THEN {}
         ELSE IdsOf(ToSet(r.answer["routes"].resource))
    ELSE IF r.kind \in Writes \cup {"recheck"} /\ r.answer \notin {None, Lost}
           THEN {r.answer.resource.id} ELSE {}

ToldGone ==
  /\ \A id \in Ids : heard[id] > 0 =>
       /\ id \in server.given \ IdsOf(server.rows)
       /\ \A r \in wire : id \in Brings(r) => r.n <= heard[id]
       /\ app.form.op \in Shows /\ app.form.result.id = id => app.form.request <= heard[id]
  /\ app.form.op \in Shows => app.form.request # 0

\* The console sends a request, or drops one, and the form shows no other
\* result.
LEMMA GoneStays ==
  ASSUME ToldGone, UNCHANGED <<server, heard>>, NEW q, wire' \subseteq wire \cup {q},
         q \in wire \/ Brings(q) = {},
         \/ app'.form.op \notin Shows
         \/ /\ app'.form.op = app.form.op /\ app'.form.result = app.form.result
            /\ app'.form.request = app.form.request
  PROVE  ToldGone'
<1>1. \A r \in wire' : r \in wire \/ Brings(r) = {}
  OBVIOUS
<1>2. ASSUME NEW id \in Ids, heard'[id] > 0
      PROVE  /\ id \in server'.given \ IdsOf(server'.rows)
             /\ \A r \in wire' : id \in Brings(r) => r.n <= heard'[id]
             /\ app'.form.op \in Shows /\ app'.form.result.id = id =>
                  app'.form.request <= heard'[id]
  BY <1>1, <1>2 DEF ToldGone
<1>3. app'.form.op \in Shows => app'.form.request # 0
  BY DEF ToldGone
<1>4. QED
  BY <1>2, <1>3 DEF ToldGone

\* Nor is a request sent.
LEMMA GoneQuiet ==
  ASSUME ToldGone, UNCHANGED <<server, heard>>, wire' \subseteq wire,
         \/ app'.form.op \notin Shows
         \/ /\ app'.form.op = app.form.op /\ app'.form.result = app.form.result
            /\ app'.form.request = app.form.request
  PROVE  ToldGone'
<1>1. PICK q : q = [kind |-> "none"]
  OBVIOUS
<1>2. Brings(q) = {} /\ wire' \subseteq wire \cup {q}
  BY <1>1 DEF Brings, Writes
<1>3. QED
  BY <1>2, GoneStays

\* The server answers: with rows it has, or with a row whose id it had not
\* given before.
LEMMA ServeGone ==
  ASSUME CopiesInv, ToldGone, NEW r \in wire, Serve(r) PROVE ToldGone'
<1>0. /\ UNCHANGED <<app, heard>> /\ RequestOK(r) /\ r \in Requests /\ server \in Servers
      /\ ServerOK /\ Grows
  BY ServeCopies DEF Serve, CopiesInv, WireOK, RequestOK, ServerOK
<1>1. ASSUME \A id \in server.given \ IdsOf(server.rows) :
               id \in server'.given \ IdsOf(server'.rows),
             NEW q, wire' = (wire \ {r}) \cup {q}, q.n = r.n,
             \A id \in Brings(q) : id \in Brings(r) \/ id \notin server.given \ IdsOf(server.rows)
      PROVE  ToldGone'
  <2>1. ASSUME NEW id \in Ids, heard'[id] > 0
        PROVE  /\ id \in server'.given \ IdsOf(server'.rows)
               /\ \A x \in wire' : id \in Brings(x) => x.n <= heard'[id]
               /\ app'.form.op \in Shows /\ app'.form.result.id = id =>
                    app'.form.request <= heard'[id]
    <3>1. /\ id \in server.given \ IdsOf(server.rows)
          /\ \A x \in wire : id \in Brings(x) => x.n <= heard[id]
          /\ app.form.op \in Shows /\ app.form.result.id = id => app.form.request <= heard[id]
      BY <1>0, <2>1 DEF ToldGone
    <3>2. ASSUME NEW x \in wire', id \in Brings(x) PROVE x.n <= heard'[id]
      <4>1. x \in wire \/ (x = q /\ id \in Brings(r))
        BY <1>1, <3>1, <3>2
      <4>2. QED
        BY <1>0, <1>1, <3>1, <3>2, <4>1
    <3>3. QED
      BY <1>0, <1>1, <3>1, <3>2
  <2>2. QED
    BY <1>0, <2>1 DEF ToldGone
<1>2. CASE r.kind # "get" /\ r.answer = None /\ ServeError(r)
  <2>1. PICK q : q = [r EXCEPT !.answer = Lost] /\ wire' = (wire \ {r}) \cup {q}
    BY <1>2 DEF ServeError, Reply
  <2>2. q.n = r.n /\ q.kind = r.kind /\ q.answer = Lost
    BY <1>0, <2>1, Answered
  <2>3. Brings(q) = {} /\ UNCHANGED server
    BY <1>2, <2>2 DEF Brings, ServeError
  <2>4. QED
    BY <1>1, <2>1, <2>2, <2>3
<1>3. CASE r.answer = None /\ ServeWrite(r)
  <2>1. PICK id \in IF r.kind = "create" THEN Ids \ server.given
                    ELSE {x.id : x \in RowsOf(server.rows, r.id)} :
          LET row == Route(id, "managed", r.input, NotObserved, server.time + 1) IN
          /\ server' = [server EXCEPT
               !.time = @ + 1, !.given = @ \cup {id},
               !.rows = (@ \ RowsOf(@, id)) \cup {row},
               !.records = IF r.input.createDns
                             THEN (@ \ {d \in @ : d.id = id}) \cup {RecordFor(id, r.input)}
                             ELSE @]
          /\ \E a \in {Answer("success", row), Answer("partial_failure", row), Lost} :
               Reply(r, a)
    BY <1>3 DEF ServeWrite
  <2>2. PICK row : row = Route(id, "managed", r.input, NotObserved, server.time + 1)
    OBVIOUS
  <2>3. r.kind \in Writes /\ row.id = id
    BY <1>3, <2>2 DEF ServeWrite, Writes, Route
  <2>4. id \notin server.given \ IdsOf(server.rows)
    BY <2>1, <2>3 DEF RowsOf, IdsOf, Writes
  <2>5. /\ server'.rows = (server.rows \ RowsOf(server.rows, id)) \cup {row}
        /\ server'.given = server.given \cup {id}
    BY <1>0, <2>1, <2>2 DEF Servers
  <2>6. \A i \in server.given \ IdsOf(server.rows) : i \in server'.given \ IdsOf(server'.rows)
    BY <2>3, <2>4, <2>5 DEF IdsOf
  <2>70. PICK a \in {Answer("success", row), Answer("partial_failure", row), Lost} : Reply(r, a)
    BY <2>1, <2>2
  <2>7. PICK q : q = [r EXCEPT !.answer = a] /\ wire' = (wire \ {r}) \cup {q}
    BY <2>70 DEF Reply
  <2>8. q.n = r.n /\ q.kind = r.kind /\ q.answer = a
    BY <1>0, <2>7, Answered
  <2>9. a # Lost => a.resource = row
    BY <2>70 DEF Answer
  <2>10. Brings(q) \subseteq {id}
    BY <2>3, <2>8, <2>9 DEF Brings, Writes
  <2>11. QED
    BY <1>1, <2>4, <2>6, <2>7, <2>8, <2>10
<1>4. CASE r.answer = None /\ ServeRemove(r)
  <2>1. r.kind = "remove" /\ server'.rows \subseteq server.rows
    BY <1>0, <1>4 DEF ServeRemove, Servers
  <2>2. PICK a, q : q = [r EXCEPT !.answer = a] /\ wire' = (wire \ {r}) \cup {q}
    BY <1>4 DEF ServeRemove, Reply
  <2>3. q.n = r.n /\ q.kind = r.kind
    BY <1>0, <2>2, Answered
  <2>4. Brings(q) = {}
    BY <2>1, <2>3 DEF Brings, Writes
  <2>5. \A i \in server.given \ IdsOf(server.rows) : i \in server'.given \ IdsOf(server'.rows)
    BY <1>0, <2>1 DEF Grows, IdsOf
  <2>6. QED
    BY <1>1, <2>2, <2>3, <2>4, <2>5
<1>5. CASE r.answer = None /\ ServeRecheck(r)
  <2>1. r.kind = "recheck" /\ UNCHANGED server
    BY <1>5 DEF ServeRecheck
  <2>2. PICK x \in RowsOf(server.rows, r.id), status \in Statuses :
          Reply(r, Answer("success", [x EXCEPT !.status = status]))
    BY <1>5 DEF ServeRecheck
  <2>3. PICK c : c = [x EXCEPT !.status = status]
    OBVIOUS
  <2>4. x \in Routes /\ x \in server.rows
    BY <1>0, <2>2 DEF RowsOf, Servers
  <2>5. c.id = x.id
    BY <2>3, <2>4 DEF Routes
  <2>6. PICK a, q : /\ a = Answer("success", c)
                    /\ q = [r EXCEPT !.answer = a] /\ wire' = (wire \ {r}) \cup {q}
    BY <2>2, <2>3 DEF Reply
  <2>7. q.n = r.n /\ q.kind = r.kind /\ q.answer = a
    BY <1>0, <2>6, Answered
  <2>8. Brings(q) \subseteq {x.id}
    BY <2>1, <2>5, <2>6, <2>7 DEF Brings, Answer
  <2>9. \A id \in Brings(q) : id \in IdsOf(server.rows)
    BY <2>4, <2>8 DEF IdsOf
  <2>10. QED
    BY <1>1, <2>1, <2>6, <2>7, <2>9
<1>6. ASSUME NEW s \in Sections, ServeGet(r, s) PROVE ToldGone'
  <2>1. r.kind = "get" /\ UNCHANGED server /\ LoadOK(r.answer)
    BY <1>0, <1>6 DEF ServeGet, RequestOK, AnswerOK, Writes
  <2>2. PICK rs : rs = SetToSeq(server.rows) /\ ToSet(rs) = server.rows
    BY <1>0, SetToSeqList DEF ServerOK
  <2>3. PICK a \in {Answer("success", IF s = "routes" THEN rs ELSE server.records), Lost} :
          Reply(r, [r.answer EXCEPT ![s] = a])
    BY <1>6, <2>2 DEF ServeGet
  <2>4. PICK b, q : /\ b = [r.answer EXCEPT ![s] = a] /\ q = [r EXCEPT !.answer = b]
                    /\ wire' = (wire \ {r}) \cup {q}
    BY <2>3 DEF Reply
  <2>5. q.n = r.n /\ q.kind = r.kind /\ q.answer = b
    BY <1>0, <2>4, Answered
  <2>6. b["routes"] = IF s = "routes" THEN a ELSE r.answer["routes"]
    BY <2>1, <2>4 DEF LoadOK, LoadAnswers, Sections
  <2>7. a = Lost \/ s # "routes" \/ a.resource = rs
    BY <2>3 DEF Answer
  <2>8. \A id \in Brings(q) : id \in Brings(r) \/ id \in IdsOf(server.rows)
    BY <2>1, <2>2, <2>5, <2>6, <2>7 DEF Brings
  <2>9. QED
    BY <1>1, <2>1, <2>4, <2>5, <2>8
<1>7. QED
  BY <1>2, <1>3, <1>4, <1>5, <1>6 DEF Serve

\* A save is answered: the form that sent it shows what the answer brings.
LEMMA SavedGone ==
  ASSUME CopiesInv, ToldGone, NEW r \in wire, OnSaved(r) PROVE ToldGone'
<1>0. UNCHANGED <<server, heard>> /\ wire' = wire \ {r}
  BY DEF OnSaved
<1>1. CASE app.form.request # r.n \/ r.answer.resource = None
  <2>1. CASE app.form.request # r.n
    <3>1. app' = app
      BY <2>1 DEF OnSaved
    <3>2. QED
      BY <1>0, <3>1, GoneQuiet
  <2>2. CASE app.form.request = r.n /\ r.answer.resource = None
    <3>1. app' = [app EXCEPT !.form.op = "error", !.form.result = app.form.result]
      BY <2>2 DEF OnSaved
    <3>2. app'.form.op = "error"
      BY <3>1, AppParts
    <3>3. QED
      BY <1>0, <3>2, GoneQuiet DEF Shows
  <2>3. QED
    BY <1>1, <2>1, <2>2
<1>2. CASE app.form.request = r.n /\ r.answer.resource # None
  <2>1. PICK op, a : /\ op \in Shows /\ a = r.answer.resource
                     /\ app' = [app EXCEPT !.form.op = op, !.form.result = a]
    BY <1>2 DEF OnSaved, Shows
  <2>2. PICK f : f = app'.form
    OBVIOUS
  <2>3. f.op = op /\ f.result = a /\ f.request = r.n
    BY <1>2, <2>1, <2>2, AppParts
  <2>4. r.n # 0 /\ r.kind \in Writes /\ r.kind # "get" /\ r.answer # None
    BY HandledOK DEF OnSaved, Handled, RequestOK, Writes
  <2>5. r.answer # Lost
    BY <1>2 DEF Lost, Answer
  <2>6. Brings(r) = {a.id}
    BY <2>1, <2>4, <2>5 DEF Brings
  <2>7. ASSUME NEW id \in Ids, heard'[id] > 0
        PROVE  /\ id \in server'.given \ IdsOf(server'.rows)
               /\ \A x \in wire' : id \in Brings(x) => x.n <= heard'[id]
               /\ f.op \in Shows /\ f.result.id = id => f.request <= heard'[id]
    BY <1>0, <2>3, <2>6, <2>7 DEF ToldGone
  <2>8. QED
    BY <2>2, <2>3, <2>4, <2>7 DEF ToldGone
<1>3. QED
  BY <1>1, <1>2

\* The operator is told of a deletion: whatever is under way was sent before.
LEMMA RemovedGone ==
  ASSUME CopiesInv, ToldGone, NEW r \in wire, OnRemoved(r) PROVE ToldGone'
<1>0. UNCHANGED server /\ app'.form = app.form
  BY AppParts DEF OnRemoved, Loads
<1>1. CASE heard' = heard
  <2>1. PICK q : q = LoadRequest
    OBVIOUS
  <2>2. Brings(q) = {}
    BY <2>1 DEF Brings, LoadRequest, Request, Unanswered, Sections
  <2>3. wire' \subseteq wire \cup {q}
    BY <2>1 DEF OnRemoved
  <2>4. QED
    BY <1>0, <1>1, <2>2, <2>3, GoneStays
<1>2. CASE /\ r.answer.result = "success" /\ heard' = [heard EXCEPT ![r.id] = sent]
           /\ wire' = wire \ {r}
  <2>1. r.id \in server.given \ IdsOf(server.rows)
    <3>1. AnswerOK(r) /\ RequestOK(r) /\ r.kind = "remove"
      BY HandledOK DEF OnRemoved
    <3>2. QED
      BY <1>2, <3>1 DEF AnswerOK, RequestOK, Lost, Answer, Writes
  <2>2. /\ heard \in [Ids -> 0 .. sent] /\ sent \in Nat
        /\ app.form.request \in 0 .. sent /\ \A x \in wire : x.n \in 1 .. sent
    BY AppParts DEF CopiesInv, RestOK, WireOK, RequestOK, FormOK
  <2>3. ASSUME NEW id \in Ids, heard'[id] > 0
        PROVE  /\ id \in server'.given \ IdsOf(server'.rows)
               /\ \A x \in wire' : id \in Brings(x) => x.n <= heard'[id]
               /\ app'.form.op \in Shows /\ app'.form.result.id = id =>
                    app'.form.request <= heard'[id]
    <3>1. CASE id = r.id
      <4>1. heard'[id] = sent
        BY <1>2, <2>2, <3>1
      <4>2. QED
        BY <1>0, <1>2, <2>1, <2>2, <3>1, <4>1
    <3>2. CASE id # r.id
      <4>1. heard'[id] = heard[id]
        BY <1>2, <2>2, <3>2
      <4>2. QED
        BY <1>0, <1>2, <2>3, <4>1 DEF ToldGone
    <3>3. QED
      BY <3>1, <3>2
  <2>4. QED
    BY <1>0, <2>3 DEF ToldGone
<1>3. QED
  BY <1>1, <1>2 DEF OnRemoved

\* The operator changes the list by Done only.
LEMMA UserList ==
  ASSUME CopiesInv, RoutesUser, ~Done PROVE app'.rs = app.rs
<1>1. CASE \E r \in Rows : View(r)
  BY <1>1, AppParts DEF View, Sets
<1>2. CASE CloseForm \/ RemoveDns \/ Cancel \/ \E r \in Offered("delete") : Delete(r)
  BY <1>2, AppParts DEF CloseForm, RemoveDns, Cancel, Delete, Sets
<1>3. CASE Add \/ \E r \in Offered("edit") : Edit(r)
  BY <1>3, AppParts DEF Add, Edit, OpenForm, Sets
<1>4. CASE Save \/ Confirm \/ Recheck \/ Retry
  BY <1>4, AppParts DEF Save, Confirm, Recheck, Retry, Sends, Loads
<1>5. CASE \/ \E field \in Fields : \E x \in Typed[field] : Enter(field, x)
           \/ \E p \in Presets : Preset(p)
  BY <1>5, AppParts DEF Enter, Preset
<1>6. QED
  BY <1>1, <1>2, <1>3, <1>4, <1>5 DEF RoutesUser

\* What the list gains: by Done the result of the form, and by a load what
\* the server answered; a removal and a check add no route to it.
LEMMA ListGains ==
  ASSUME CopiesInv, Views, ToldGone, [RoutesStep]_routeVars,
         NEW id \in IdsOf(Rows') \ IdsOf(Rows), heard[id] > 0
  PROVE  \/ /\ app.form.result # None /\ app.form.result.id = id
            /\ app.form.request \in 1 .. heard[id]
         \/ app.loading /\ app.load \in 1 .. heard[id]
<1>0. /\ id \in Ids /\ heard \in [Ids -> 0 .. sent] /\ sent \in Nat
      /\ app.form.request \in 0 .. sent
  <2>1. Rows' \subseteq Copies' /\ Copies' \subseteq Routes
    BY CopiesStep, RowsPrimed DEF CopiesInv, AppOK, ListOK, Copies
  <2>2. id \in Ids
    BY <2>1 DEF IdsOf, Routes
  <2>3. QED
    BY <2>2, AppParts DEF CopiesInv, RestOK, FormOK
<1>1. CASE Done
  <2>1. PICK a : a = app.form.result
    OBVIOUS
  <2>2. a \in ManagedCopies /\ a \in Routes /\ a # None /\ app'.rs = Saved(app.rs, a)
        /\ app.form.op \in Shows
    <3>1. app.form.op \in Shows /\ a \in ManagedCopies
      BY <1>1, <2>1, AppParts DEF Done, FormOK, Shows
    <3>2. a \in Routes
      BY <3>1 DEF ManagedCopies, Copies
    <3>3. app'.rs = Saved(app.rs, a)
      BY <1>1, <2>1, AppParts DEF Done, Sets
    <3>4. QED
      BY <3>1, <3>2, <3>3, NoneAssumption
  <2>3. Rows' = {x \in Rows : x.id # a.id} \cup {a}
    BY <2>2, AppParts, RowsPrimed, SavedList DEF ListOK
  <2>4. a.id = id
    BY <2>3 DEF IdsOf
  <2>5. QED
    BY <1>0, <2>1, <2>2, <2>4 DEF ToldGone
<1>2. ASSUME NEW r \in wire, OnLoaded(r), r.n = app.load, app'.rs # app.rs
      PROVE  app.loading /\ app.load \in 1 .. heard[id]
  <2>1. /\ r.answer["routes"] \in ListAnswers /\ r.answer["routes"] # Lost
        /\ app'.rs = r.answer["routes"].resource
    BY <1>2, LoadShown
  <2>2. RequestOK(r) /\ r.kind = "get" /\ r.answer["routes"] # None
    BY <1>2, SettledOK DEF OnLoaded
  <2>3. id \in Brings(r)
    BY <2>1, <2>2, RowsPrimed DEF Brings
  <2>4. r.n \in 1 .. sent /\ r.n <= heard[id] /\ heard[id] \in Nat
    BY <1>0, <2>2, <2>3 DEF ToldGone, RequestOK
  <2>5. app.loading
    BY <1>2, <2>2 DEF Views, LoadKnown, Pending
  <2>6. QED
    BY <1>2, <2>4, <2>5
<1>3. ASSUME NEW r \in wire, OnRechecked(r) PROVE FALSE
  <2>1. CASE app'.rs = app.rs
    BY <2>1, RowsPrimed
  <2>2. CASE r.answer.resource # None /\ app'.rs = Patched(app.rs, r.answer.resource)
    <3>1. PICK a : a = r.answer.resource
      OBVIOUS
    <3>2. a \in Copies
      BY <1>3, <2>2, <3>1, HandledOK
         DEF OnRechecked, AnswerOK, Lost, Answer, Writes, ManagedCopies
    <3>3. IdsOf(Rows') = IdsOf(Rows)
      BY <2>2, <3>1, <3>2, AppParts, RowsPrimed, PatchedList
    <3>4. QED
      BY <3>3
  <2>3. QED
    BY <1>3, <2>1, <2>2, AppParts DEF OnRechecked
<1>4. ASSUME NEW r \in wire, OnRemoved(r) PROVE FALSE
  <2>1. CASE app'.rs = app.rs
    BY <2>1, RowsPrimed
  <2>2. CASE app'.rs = Where(app.rs, {x \in ToSet(app.rs) : x.id # r.id})
    <3>1. Rows' \subseteq Rows
      BY <2>2, AppParts, RowsPrimed, WhereSet DEF ListOK
    <3>2. QED
      BY <3>1 DEF IdsOf
  <2>3. QED
    BY <1>4, <2>1, <2>2, AppParts DEF OnRemoved, Loads
<1>5. CASE app'.rs = app.rs
  BY <1>5, RowsPrimed
<1>6. QED
  <2>1. CASE RoutesNetwork
    <3>1. PICK r \in wire :
            Serve(r) \/ OnSaved(r) \/ OnRemoved(r) \/ OnLoaded(r) \/ OnRechecked(r)
      BY <2>1 DEF RoutesNetwork
    <3>2. CASE Serve(r) \/ OnSaved(r)
      <4>1. app'.rs = app.rs
        BY <3>2, AppParts DEF Serve, OnSaved
      <4>2. QED
        BY <1>5, <4>1
    <3>3. CASE OnLoaded(r)
      <4>1. r.n # app.load => app'.rs = app.rs
        BY <3>3 DEF OnLoaded
      <4>2. QED
        BY <1>2, <1>5, <3>3, <4>1
    <3>4. QED
      BY <1>3, <1>4, <3>1, <3>2, <3>3
  <2>2. CASE RoutesUser
    <3>1. CASE Done
      BY <1>1, <3>1
    <3>2. CASE ~Done
      <4>1. app'.rs = app.rs
        BY <2>2, <3>2, UserList
      <4>2. QED
        BY <1>5, <4>1
    <3>3. QED
      BY <3>1, <3>2
  <2>3. CASE UNCHANGED routeVars \/ \E p \in Visited : RoutesGo(p)
    <3>1. app'.rs = app.rs
      BY <2>3, AppParts DEF routeVars, RoutesGo
    <3>2. QED
      BY <1>5, <3>1
  <2>4. QED
    BY <2>1, <2>2, <2>3 DEF RoutesStep, RoutesNext

\* Every step of the pages keeps what is gone gone.
LEMMA GoneStep == CopiesInv /\ ToldGone /\ [RoutesStep]_routeVars => ToldGone'
<1> SUFFICES ASSUME CopiesInv, ToldGone, [RoutesStep]_routeVars PROVE ToldGone'
  OBVIOUS
<1>1. CASE UNCHANGED routeVars
  BY <1>1, GoneQuiet DEF routeVars
<1>2. CASE \E p \in Visited : RoutesGo(p)
  <2>1. UNCHANGED <<server, heard, wire>> /\ app'.form = app.form
    BY <1>2, AppParts DEF RoutesGo
  <2>2. QED
    BY <2>1, GoneQuiet
<1>3. CASE RoutesNetwork
  <2>1. PICK r \in wire :
          Serve(r) \/ OnSaved(r) \/ OnRemoved(r) \/ OnLoaded(r) \/ OnRechecked(r)
    BY <1>3 DEF RoutesNetwork
  <2>2. CASE OnLoaded(r) \/ OnRechecked(r)
    <3>1. UNCHANGED <<server, heard>> /\ wire' = wire \ {r} /\ app'.form = app.form
      BY <2>2, AppParts DEF OnLoaded, OnRechecked
    <3>2. QED
      BY <3>1, GoneQuiet
  <2>3. QED
    BY <2>1, <2>2, ServeGone, SavedGone, RemovedGone
<1>4. CASE \/ RemoveDns \/ Cancel
           \/ \E r \in Rows : View(r)
           \/ \E r \in Offered("delete") : Delete(r)
  <2>1. UNCHANGED <<server, heard, wire>> /\ app'.form = app.form
    BY <1>4, AppParts DEF View, RemoveDns, Cancel, Delete, Sets
  <2>2. QED
    BY <2>1, GoneQuiet
<1>5. CASE CloseForm \/ Done
  <2>1. UNCHANGED <<server, heard, wire>> /\ app'.form = NoForm
    BY <1>5, AppParts DEF CloseForm, Done, Sets
  <2>2. QED
    BY <2>1, GoneQuiet DEF NoForm, Shows
<1>6. CASE Add \/ \E r \in Offered("edit") : Edit(r)
  <2>1. PICK route, v, old : OpenForm(route, v, old)
    BY <1>6 DEF Add, Edit
  <2>2. UNCHANGED <<server, heard, wire>> /\ app'.form.op = "idle"
    BY <2>1, AppParts DEF OpenForm, Sets, NoForm
  <2>3. QED
    BY <2>2, GoneQuiet DEF Shows
<1>7. CASE \/ \E field \in Fields : \E x \in Typed[field] : Enter(field, x)
           \/ \E p \in Presets : Preset(p)
  <2>1. ASSUME NEW field \in Fields, NEW x \in Typed[field], Enter(field, x) PROVE ToldGone'
    <3>1. /\ UNCHANGED <<server, heard, wire>> /\ app'.form.op = app.form.op
          /\ app'.form.result = app.form.result /\ app'.form.request = app.form.request
      BY <2>1, AppParts DEF Enter
    <3>2. QED
      BY <3>1, GoneQuiet
  <2>2. ASSUME NEW p \in Presets, Preset(p) PROVE ToldGone'
    <3>1. /\ UNCHANGED <<server, heard, wire>> /\ app'.form.op = app.form.op
          /\ app'.form.result = app.form.result /\ app'.form.request = app.form.request
      BY <2>2, AppParts DEF Preset
    <3>2. QED
      BY <3>1, GoneQuiet
  <2>3. QED
    BY <1>7, <2>1, <2>2
<1>8. CASE Save
  <2>1. PICK q :
          /\ q = Request(IF app.form.route = None THEN "create" ELSE "update",
                         IF app.form.route = None THEN None ELSE app.form.route.id,
                         app.form.v, FALSE, app.form.touched, app.form.old)
          /\ Sends(q, [app EXCEPT !.form.op = "submitting", !.form.request = sent + 1])
    BY <1>8 DEF Save
  <2>2. UNCHANGED <<server, heard>> /\ wire' = wire \cup {q} /\ app'.form.op = "submitting"
    BY <2>1, AppParts DEF Sends
  <2>3. q.kind # "get" /\ q.answer = None
    BY <2>1 DEF Request
  <2>4. Brings(q) = {}
    BY <2>3 DEF Brings
  <2>5. QED
    BY <2>2, <2>4, GoneStays DEF Shows
<1>9. CASE Confirm \/ Recheck
  <2>1. PICK q : /\ q.kind # "get" /\ q.answer = None
                 /\ UNCHANGED <<server, heard>> /\ wire' = wire \cup {q} /\ app'.form = app.form
    BY <1>9, AppParts DEF Confirm, Recheck, Sends, Request
  <2>2. Brings(q) = {}
    BY <2>1 DEF Brings
  <2>3. QED
    BY <2>1, <2>2, GoneStays
<1>10. CASE Retry
  <2>1. PICK q : q = LoadRequest
    OBVIOUS
  <2>2. Brings(q) = {}
    BY <2>1 DEF Brings, LoadRequest, Request, Unanswered, Sections
  <2>3. UNCHANGED <<server, heard>> /\ wire' \subseteq wire \cup {q} /\ app'.form = app.form
    BY <1>10, <2>1, AppParts DEF Retry, Sends, Loads
  <2>4. QED
    BY <2>2, <2>3, GoneStays
<1>11. QED
  BY <1>1, <1>2, <1>3, <1>4, <1>5, <1>6, <1>7, <1>8, <1>9, <1>10
     DEF RoutesStep, RoutesNext, RoutesUser

(***************************************************************************)
(* The whole console: a step of it is a step of the pages with the routes  *)
(* and a step of SettingsView, or leaves one of the two alone, so what is  *)
(* proved of either holds of both together.                                *)
(***************************************************************************)

RoutesInv == CopiesInv /\ Views /\ Edits /\ ToldGone

\* The settings page leaves the routes alone.
LEMMA PageRoutes == [Next]_vars => [RoutesStep]_routeVars
BY DEF Next, OperatorStep, NetworkStep, vars, RoutesStep, RoutesNext

\* The invariant holds at first.
LEMMA RoutesInvInit == Init => RoutesInv
<1>1. RoutesInit => ToldGone
  BY DEF RoutesInit, ToldGone, NoForm, Shows
<1>2. QED
  BY <1>1, CopiesInit, EditsInit DEF Init, RoutesInv

\* The pages keep it, and the settings page does not touch it.
LEMMA RoutesInvStep == RoutesInv /\ [Next]_vars => RoutesInv'
BY PageRoutes, CopiesStep, EditsStep, GoneStep DEF RoutesInv

\* No request of the console names an external route, and no step but a load
\* changes what the lists show of external routes and records.
THEOREM ExternalStaysReadOnly == Spec => ExternalReadOnly
<1>1. RoutesInv /\ RoutesInv' /\ [Next]_vars =>
        [LET external(s) == {x \in s : x.ownership = "external"} IN
         /\ \A r \in wire' \ wire : \A x \in RowsOf(server.rows, r.id) : x.ownership = "managed"
         /\ ~app.loading =>
              /\ external(Rows') = external(Rows)
              /\ external(app'.dnsRecords) = external(app.dnsRecords)]_routeVars
  <2> SUFFICES ASSUME RoutesInv, RoutesInv', [Next]_vars
               PROVE  /\ \A r \in wire' : \A x \in RowsOf(server.rows, r.id) :
                           x.ownership = "managed"
                      /\ ~app.loading =>
                           /\ ExternalOf(Rows') = ExternalOf(Rows)
                           /\ ExternalOf(app'.dnsRecords) = ExternalOf(app.dnsRecords)
    BY DEF ExternalOf
  <2>1. CopiesInv /\ CopiesInv' /\ LoadKnown /\ [RoutesStep]_routeVars
    BY PageRoutes DEF RoutesInv, Views
  <2>2. QED
    BY <2>1, RequestsManaged, ListsExternal
<1>2. QED
  BY <1>1, RoutesInvInit, RoutesInvStep, PTL DEF Spec, ExternalReadOnly

\* A save undoes another edit unseen only where the form was opened on a Detail
\* that an edit had left behind, or on a route whose last update was not heard
\* of, was told to forget, or was overwritten by a slower answer: for any routes,
\* any number of requests and any order of their answers.
THEOREM UndoneEditsHaveCause == Spec => UndoneEditHasCause
<1>1. RoutesInv /\ [Next]_vars =>
        [\A r \in wire : \A x \in RowsOf(server.rows, r.id) :
           r.kind = "update" /\ server'.rows # server.rows /\ r \notin wire' =>
             \A f \in Fields :
               Part(r.input, f) # Part(x.input, f) =>
                 f \in r.touched \/ r.old \/ r.id \in lagging]_routeVars
  BY PageRoutes, UndoneStep DEF RoutesInv
<1>2. QED
  BY <1>1, RoutesInvInit, RoutesInvStep, PTL DEF Spec, UndoneEditHasCause

\* A route whose deletion the operator has been told of comes back to the list
\* only by "Done" of a form that had sent its save before, or by a load that was
\* under way then: for any routes, any number of requests and any order of
\* their answers.
THEOREM ToldDeletedRoutesStayGone == Spec => ToldDeletedStaysGone
<1>1. RoutesInv /\ [Next]_vars =>
        [\A id \in Ids :
           heard[id] > 0 /\ id \in {r.id : r \in Rows'} \ {r.id : r \in Rows} =>
             \/ /\ app.form.result # None /\ app.form.result.id = id
                /\ app.form.request \in 1..heard[id]
             \/ app.loading /\ app.load \in 1..heard[id]]_routeVars
  <2> SUFFICES ASSUME RoutesInv, [Next]_vars, NEW id \in Ids, heard[id] > 0,
                      id \in IdsOf(Rows') \ IdsOf(Rows)
               PROVE  \/ /\ app.form.result # None /\ app.form.result.id = id
                         /\ app.form.request \in 1..heard[id]
                      \/ app.loading /\ app.load \in 1..heard[id]
    BY DEF IdsOf
  <2>1. CopiesInv /\ Views /\ ToldGone /\ [RoutesStep]_routeVars
    BY PageRoutes DEF RoutesInv
  <2>2. QED
    BY <2>1, ListGains
<1>2. QED
  BY <1>1, RoutesInvInit, RoutesInvStep, PTL DEF Spec, ToldDeletedStaysGone

\* The sidebar, a reload and a late recheck only open and close the page.
LEMMA RemountSteps == Remount => [SettingsNext]_settingsVars
BY DEF Remount, SettingsNext

\* Every step of the console is one of the settings page, or none.
LEMMA PageSteps == [Next]_vars => [SettingsNext]_settingsVars
<1>1. OperatorStep => [SettingsNext]_settingsVars
  BY RemountSteps DEF OperatorStep, SettingsNext
<1>2. NetworkStep => [SettingsNext]_settingsVars
  BY RemountSteps DEF NetworkStep, SettingsNext
<1>3. QED
  BY <1>1, <1>2 DEF Next, vars

\* The console runs the settings page as SettingsView describes it.
THEOREM ConsoleImplementsSettings == Spec => SettingsSpec
<1>1. Init => SettingsInit
  BY DEF Init
<1>2. QED
  BY <1>1, PageSteps, PTL DEF Spec, SettingsSpec

\* After "Settings saved" the server has what is on the screen, whatever was
\* done on the other pages, unless something was entered since, or Save was
\* pressed while another save, of this visit or an earlier one, or the load of
\* the page was under way.
THEOREM ConsoleFeedbackIsTrue == Spec => []FeedbackIsTrue
BY ConsoleImplementsSettings, FeedbackIsAlwaysTrue, PTL

\* A save changes only what was entered on its page, unless the page did not
\* have the settings (it was opened again and its load is under way or has
\* failed), had them from before an earlier save, or was overtaken by another
\* save; what is done on the other pages adds no cause to these.
THEOREM ConsoleErasureHasCause == Spec => ErasedHasCause
BY ConsoleImplementsSettings, ErasureHasCause, PTL

\* The state of all pages is well-formed: a list has each id once, a form that
\* shows a success has a result, requests have numbers that were sent.
THEOREM ConsoleTypeCorrect == Spec => []TypeOK
<1>1. RoutesInv => RoutesTypeOK
  BY CopiesTypes DEF RoutesInv
<1>2. RoutesTypeOK /\ SettingsTypeOK => TypeOK
  BY DEF TypeOK
<1>3. QED
  BY <1>1, <1>2, RoutesInvInit, RoutesInvStep, ConsoleImplementsSettings, TypeCorrect,
     PTL DEF Spec
=============================================================================
