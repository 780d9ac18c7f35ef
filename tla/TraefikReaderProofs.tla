-------------------------- MODULE TraefikReaderProofs --------------------------
(***************************************************************************)
(* Proofs about TraefikReader, for any configurations and any number of    *)
(* changes during a fetch.                                                 *)
(*                                                                         *)
(* The invariant says that the parts of the draft are what the             *)
(* configurations of their instants answer, the services at no earlier     *)
(* instant than the routers; and if services only came, an instant has     *)
(* those of all before.                                                    *)
(***************************************************************************)
EXTENDS TraefikReader, TLAPS

\* What the read of one kind may return under configuration c.
AnswersOf(c, kind) ==
  CASE kind = "version"     -> {c.version}
    [] kind = "routers"     -> {Routers(c.routers)}
    [] kind = "services"    -> {Services(c.services)}
    [] kind = "middlewares" -> Middlewares(c.middlewares)

Parts == UNION {AnswersOf(c, kind) : c \in Configurations, kind \in Kinds}

\* The part at position i was read at instant j.
ReadAt(i, j) == draft[i] \in AnswersOf(past[j], Order[i])

Dated == \A i \in 1..Len(draft) : at[i] \in Instants /\ ReadAt(i, at[i])

ServicesLater == Len(draft) >= 3 => at[2] <= at[3]

GrewThroughout ==
  Grew("services") =>
    \A i, j \in Instants : i <= j => past[i].services \subseteq past[j].services

IInv == TypeOK /\ draft \in Seq(Parts) /\ Dated /\ ServicesLater /\ GrewThroughout

-----------------------------------------------------------------------------
\* The normal form of an identity is the identity, however it was written.
LEMMA Roundtrip ==
  ASSUME NEW id
  PROVE  Denotes(Qualified(Write(id)), id)
BY DEF Denotes, Qualified, Write

\* Only what is Traefik's own is filtered.
LEMMA InternalOnly ==
  ASSUME NEW id, id.provider # Internal
  PROVE  ~IsInternal(Qualified(Write(id)))
BY InternalAssumption DEF IsInternal, Qualified, Write

\* The places of the four reads.
LEMMA Places ==
  /\ Len(Order) = 4
  /\ Order[1] = "version" /\ Order[2] = "routers" /\ Order[3] = "services"
  /\ Order[4] = "middlewares"
  /\ \A i \in 1..4 : Order[i] \in Kinds
  /\ Part("routers") = draft[2] /\ Part("services") = draft[3]
  /\ Part("middlewares") = draft[4]
  /\ InstantOf("routers") = at[2]
<1>1. /\ Len(Order) = 4
      /\ Order[1] = "version" /\ Order[2] = "routers" /\ Order[3] = "services"
      /\ Order[4] = "middlewares"
  BY DEF Order
<1>2. \A i \in 1..4 : i = 1 \/ i = 2 \/ i = 3 \/ i = 4
  OBVIOUS
<1>3. (CHOOSE i \in 1..4 : Order[i] = "routers") = 2
  BY <1>1, <1>2
<1>4. (CHOOSE i \in 1..4 : Order[i] = "services") = 3
  BY <1>1, <1>2
<1>5. (CHOOSE i \in 1..4 : Order[i] = "middlewares") = 4
  BY <1>1, <1>2
<1>6. \A i \in 1..4 : Order[i] \in Kinds
  BY <1>1, <1>2 DEF Kinds
<1>7. QED
  BY <1>1, <1>3, <1>4, <1>5, <1>6 DEF Part, InstantOf

\* The configuration in force is one that Traefik may have.
LEMMA ConfigOK ==
  ASSUME TypeOK
  PROVE  /\ Len(past) \in Nat \ {0} /\ Config = past[Len(past)]
         /\ \A i \in Instants : past[i] \in Configurations
         /\ Len(past) \in Instants
BY DEF TypeOK, Config, Instants

\* An empty draft has no instants.
LEMMA NothingRead ==
  ASSUME TypeOK, ~fetching
  PROVE  /\ draft = <<>> /\ Len(draft) = 0 /\ at = <<>> /\ Len(at) = 0
         /\ \A S : at \in Seq(S)
<1>1. draft = <<>> /\ Len(draft) = 0
  BY DEF TypeOK
<1>2. at \in Seq(1..Len(past)) /\ Len(at) = 0
  BY <1>1 DEF TypeOK
<1>3. at = <<>>
  BY <1>2
<1>4. QED
  BY <1>1, <1>2, <1>3

LEMMA Init_IInv == Init => IInv
<1> SUFFICES ASSUME Init PROVE IInv
  OBVIOUS
<1>1. PICK c \in Configurations : past = <<c>>
  BY DEF Init
<1>2. /\ draft = <<>> /\ Len(draft) = 0 /\ draft \in Seq(Parts)
      /\ at = <<>> /\ Len(at) = 0 /\ at \in Seq(1..Len(past))
  BY DEF Init
<1>3. TypeOK
  <2>1. past \in Seq(Configurations) /\ past # <<>>
    BY <1>1
  <2>2. Len(draft) <= Len(Order) /\ Len(at) = Len(draft) /\ at \in Seq(1..Len(past))
    BY <1>2, Places
  <2>3. QED
    BY <2>1, <2>2 DEF Init, TypeOK
<1>4. Instants = {1}
  BY <1>1 DEF Instants
<1>5. QED
  BY <1>2, <1>3, <1>4 DEF IInv, Dated, ServicesLater, GrewThroughout

\* One part more, read now.
LEMMA ReadKeeps == IInv /\ Read => IInv'
<1> SUFFICES ASSUME IInv, Read PROVE IInv'
  OBVIOUS
<1>0. TypeOK /\ draft \in Seq(Parts) /\ Len(draft) \in Nat /\ Len(draft) < 4
  <2>1. TypeOK /\ draft \in Seq(Parts)
    BY DEF IInv
  <2>2. Len(draft) <= Len(Order) /\ Len(draft) # Len(Order)
    BY <2>1 DEF TypeOK, Read, Complete
  <2>3. Len(Order) = 4 /\ Len(draft) \in Nat
    BY <2>1, Places
  <2>4. Len(draft) < 4
    <3>1. PICK m \in Nat : m = Len(draft)
      BY <2>3
    <3>2. m <= 4 /\ m # 4
      BY <2>2, <2>3, <3>1
    <3>3. m < 4
      BY <3>2
    <3>4. QED
      BY <3>1, <3>3
  <2>5. QED
    BY <2>1, <2>3, <2>4
<1>n. PICK n \in 1..4 : n = Len(draft) + 1 /\ Len(draft) = n - 1
  BY <1>0
<1>t. PICK t \in Instants : t = Len(past) /\ t \in Nat
  BY <1>0, ConfigOK
<1>1. PICK a \in Answers(Order[n]) : draft' = Append(draft, a) /\ at' = Append(at, t)
  BY <1>n, <1>t DEF Read
<1>2. UNCHANGED <<style, past, fetching>> /\ fetching
  BY DEF Read
<1>3. a \in AnswersOf(past[t], Order[n]) /\ Order[n] \in Kinds
  BY <1>0, <1>t, <1>1, Places, ConfigOK DEF Answers, AnswersOf
<1>4. a \in Parts
  BY <1>0, <1>3, ConfigOK DEF Parts
<1>5. /\ draft' \in Seq(Parts) /\ Len(draft') = n /\ draft'[n] = a
      /\ \A i \in 1..Len(draft) : draft'[i] = draft[i]
  BY <1>0, <1>n, <1>1, <1>4
<1>a. /\ at \in Seq(1..Len(past)) /\ Len(at) = Len(draft) /\ t \in 1..Len(past)
      /\ at' \in Seq(1..Len(past)) /\ Len(at') = n /\ at'[n] = t
      /\ \A i \in 1..Len(draft) : at'[i] = at[i] /\ at[i] \in Instants
  BY <1>0, <1>n, <1>t, <1>1 DEF TypeOK, Instants
<1>6. \A c, kind : AnswersOf(c, kind)' = AnswersOf(c, kind)
  BY <1>2 DEF AnswersOf, Routers, Services, Middlewares, Write, TypesOf, Qualified
<1>7. Instants' = Instants
  BY <1>2 DEF Instants
<1>8. \A i \in 1..Len(draft), j \in Instants : ReadAt(i, j) => ReadAt(i, j)'
  BY <1>2, <1>5, <1>6 DEF ReadAt
<1>9. ReadAt(n, t)'
  BY <1>2, <1>3, <1>5, <1>6 DEF ReadAt
<1>10. TypeOK'
  BY <1>0, <1>2, <1>5, <1>a, <1>n, Places DEF TypeOK
<1>11. Dated'
  <2>1. ASSUME NEW i \in 1..n PROVE at'[i] \in Instants' /\ ReadAt(i, at[i])'
    <3>1. CASE i = n
      BY <1>t, <1>7, <1>9, <1>a, <3>1 DEF ReadAt
    <3>2. CASE i # n
      <4>1. i \in 1..Len(draft)
        BY <1>0, <1>n, <3>2
      <4>2. QED
        BY <1>7, <1>8, <1>a, <4>1 DEF IInv, Dated, ReadAt
    <3>3. QED
      BY <3>1, <3>2
  <2>2. QED
    BY <1>5, <2>1 DEF Dated
<1>12. ServicesLater'
  <2>1. CASE n = 4
    <3>1. at'[2] = at[2] /\ at'[3] = at[3]
      BY <1>n, <1>a, <2>1
    <3>2. Len(draft) >= 3
      BY <1>n, <2>1
    <3>3. at[2] <= at[3]
      BY <3>2 DEF IInv, ServicesLater
    <3>4. QED
      BY <3>1, <3>3 DEF ServicesLater
  <2>2. CASE n = 3
    <3>1. at[2] \in Instants /\ at'[2] = at[2] /\ at'[3] = t
      BY <1>n, <1>a, <2>2
    <3>2. at[2] <= t
      BY <1>t, <3>1 DEF Instants
    <3>3. QED
      BY <3>1, <3>2 DEF ServicesLater
  <2>3. CASE n < 3
    BY <1>5, <2>3 DEF ServicesLater
  <2>4. QED
    <3>1. n = 4 \/ n = 3 \/ n < 3
      OBVIOUS
    <3>2. QED
      BY <1>n, <2>1, <2>2, <2>3, <3>1
<1>13. GrewThroughout'
  BY <1>2, <1>7 DEF IInv, GrewThroughout, Grew
<1>14. QED
  <2>1. Parts' = Parts
    BY <1>6 DEF Parts
  <2>2. QED
    BY <1>5, <1>10, <1>11, <1>12, <1>13, <2>1 DEF IInv

\* A fetch begins with an empty draft, and ends with one.
LEMMA EmptyKeeps ==
  ASSUME TypeOK', draft' = <<>>, Len(past') = 1
  PROVE  IInv'
<1>1. Len(draft') = 0 /\ draft' \in Seq(Parts')
  OBVIOUS
<1>2. Instants' = {1}
  BY DEF Instants
<1>3. Dated' /\ ServicesLater' /\ GrewThroughout'
  BY <1>1, <1>2 DEF Dated, ServicesLater, GrewThroughout
<1>4. QED
  BY <1>1, <1>3 DEF IInv

LEMMA EndKeeps == IInv /\ (Fail \/ Install) => IInv'
<1> SUFFICES ASSUME IInv, Fail \/ Install PROVE IInv'
  OBVIOUS
<1>1. UNCHANGED <<style, past>> /\ fetching' = FALSE /\ draft' = <<>> /\ at' = <<>>
  BY DEF Fail, Install
<1>2. /\ Len(draft') = 0 /\ draft' \in Seq(Parts')
      /\ Len(at') = 0 /\ at' \in Seq(1..Len(past'))
  BY <1>1
<1>3. TypeOK'
  <2>1. TypeOK /\ Len(draft') <= Len(Order)
    BY <1>2, Places DEF IInv
  <2>2. QED
    BY <1>1, <1>2, <2>1 DEF TypeOK
<1>4. GrewThroughout'
  BY <1>1 DEF IInv, GrewThroughout, Grew, Instants
<1>5. Dated' /\ ServicesLater'
  BY <1>2 DEF Dated, ServicesLater
<1>6. QED
  BY <1>2, <1>3, <1>4, <1>5 DEF IInv

LEMMA BeginKeeps == IInv /\ Begin => IInv'
<1> SUFFICES ASSUME IInv, Begin PROVE IInv'
  OBVIOUS
<1>1. past' = <<Config>> /\ Config \in Configurations
  BY ConfigOK DEF IInv, Begin
<1>2. past' \in Seq(Configurations) /\ past' # <<>> /\ Len(past') = 1
  BY <1>1
<1>3. /\ draft' = <<>> /\ at' = <<>> /\ Len(draft') = 0 /\ Len(at') = 0
      /\ at' \in Seq(1..Len(past')) /\ fetching' \in BOOLEAN /\ style' = style
  <2>1. TypeOK /\ draft' = draft /\ at' = at /\ ~fetching
    BY DEF IInv, Begin
  <2>2. /\ draft = <<>> /\ Len(draft) = 0 /\ Len(at) = 0 /\ at = <<>>
        /\ at \in Seq(1..Len(past'))
    BY <2>1, NothingRead
  <2>3. fetching' = TRUE /\ style' = style
    BY DEF Begin
  <2>4. QED
    BY <2>1, <2>2, <2>3
<1>4. TypeOK'
  BY <1>2, <1>3, Places DEF IInv, TypeOK
<1>5. QED
  BY <1>2, <1>3, <1>4, EmptyKeeps

\* Another configuration: earlier parts keep their dates.
LEMMA ReconfigureKeeps == IInv /\ Reconfigure => IInv'
<1> SUFFICES ASSUME IInv, Reconfigure PROVE IInv'
  OBVIOUS
<1>0. TypeOK /\ UNCHANGED <<style, fetching, draft, at>>
  BY DEF IInv, Reconfigure
<1>1. PICK c \in Configurations : past' = IF fetching THEN Append(past, c) ELSE <<c>>
  BY DEF Reconfigure
<1>2. CASE ~fetching
  <2>1. past' \in Seq(Configurations) /\ past' # <<>> /\ Len(past') = 1
    BY <1>1, <1>2
  <2>2. draft' = <<>> /\ at' = <<>> /\ at' \in Seq(1..Len(past'))
    BY <1>0, <1>2, NothingRead
  <2>3. TypeOK'
    BY <1>0, <2>1, <2>2 DEF TypeOK
  <2>4. QED
    BY <2>1, <2>2, <2>3, EmptyKeeps
<1>3. CASE fetching
  <2> DEFINE n == Len(past)
  <2>1. /\ past \in Seq(Configurations) /\ n \in Nat \ {0}
        /\ past' \in Seq(Configurations) /\ past' # <<>> /\ Len(past') = n + 1
        /\ past'[n + 1] = c /\ \A i \in 1..n : past'[i] = past[i]
    BY <1>0, <1>1, <1>3 DEF TypeOK
  <2>2. Instants = 1..n /\ Instants' = 1..(n + 1)
    BY <2>1 DEF Instants
  <2>3. TypeOK'
    <3>1. at' \in Seq(1..Len(past'))
      BY <1>0, <2>1 DEF TypeOK
    <3>2. QED
      BY <1>0, <2>1, <3>1 DEF TypeOK
  <2>4. \A d, kind : AnswersOf(d, kind)' = AnswersOf(d, kind)
    BY <1>0 DEF AnswersOf, Routers, Services, Middlewares, Write, TypesOf, Qualified
  <2>5. \A i \in 1..Len(draft), j \in Instants : ReadAt(i, j) => ReadAt(i, j)'
    BY <1>0, <2>1, <2>2, <2>4 DEF ReadAt
  <2>6. Instants \subseteq Instants'
    BY <2>1, <2>2
  <2>7. Dated'
    BY <1>0, <2>5, <2>6 DEF IInv, Dated
  <2>8. ServicesLater'
    BY <1>0 DEF IInv, ServicesLater
  <2>9. GrewThroughout'
    <3> SUFFICES ASSUME Grew("services")'
                 PROVE  \A i, j \in 1..(n + 1) :
                          i <= j => past'[i].services \subseteq past'[j].services
      BY <2>2 DEF GrewThroughout
    <3>1. \A i \in 1..n : past'[i].services \subseteq past'[i + 1].services
      BY <2>1, <2>2 DEF Grew
    <3>2. Grew("services")
      <4> SUFFICES ASSUME NEW i \in Instants \ {Len(past)}
                   PROVE  past[i].services \subseteq past[i + 1].services
        BY DEF Grew
      <4>1. i \in 1..n /\ i + 1 \in 1..n
        BY <2>1, <2>2
      <4>2. QED
        BY <2>1, <3>1, <4>1
    <3>3. \A i, j \in 1..n : i <= j => past[i].services \subseteq past[j].services
      BY <2>2, <3>2 DEF IInv, GrewThroughout
    <3>4. past'[n].services \subseteq past'[n + 1].services
      BY <2>1, <3>1
    <3>5. QED
      BY <2>1, <3>3, <3>4
  <2>10. QED
    BY <1>0, <2>3, <2>4, <2>7, <2>8, <2>9 DEF IInv, Parts
<1>4. QED
  BY <1>2, <1>3 DEF IInv, TypeOK

LEMMA Next_IInv == IInv /\ [Next]_vars => IInv'
<1> SUFFICES ASSUME IInv, [Next]_vars PROVE IInv'
  OBVIOUS
<1>1. CASE UNCHANGED vars
  <2>1. UNCHANGED <<style, past, fetching, draft, at>>
    BY <1>1 DEF vars
  <2>2. \A c, kind : AnswersOf(c, kind)' = AnswersOf(c, kind)
    BY <2>1 DEF AnswersOf, Routers, Services, Middlewares, Write, TypesOf, Qualified
  <2>3. Parts' = Parts /\ Instants' = Instants /\ (\A i, j : ReadAt(i, j)' = ReadAt(i, j))
    BY <2>1, <2>2 DEF Parts, Instants, ReadAt
  <2>4. TypeOK' /\ draft' \in Seq(Parts')
    BY <2>1, <2>3 DEF IInv, TypeOK
  <2>5. Dated' /\ ServicesLater' /\ GrewThroughout'
    BY <2>1, <2>3 DEF IInv, Dated, ServicesLater, GrewThroughout, Grew
  <2>6. QED
    BY <2>4, <2>5 DEF IInv
<1>2. QED
  BY <1>1, ReadKeeps, EndKeeps, BeginKeeps, ReconfigureKeeps DEF Next

-----------------------------------------------------------------------------
\* The parts of a complete snapshot, each with the configuration that gave it.
LEMMA PartsDated ==
  ASSUME IInv, Complete
  PROVE  /\ \E j, k \in Instants : /\ j <= k /\ j = InstantOf("routers")
                                  /\ Part("routers") = Routers(past[j].routers)
                                  /\ Part("services") = Services(past[k].services)
         /\ \E j \in Instants : Part("middlewares") \in Middlewares(past[j].middlewares)
<1>1. Len(draft) = 4
  BY Places DEF Complete
<1>2. /\ at[2] \in Instants /\ at[3] \in Instants /\ at[4] \in Instants
      /\ at[2] <= at[3] /\ ReadAt(2, at[2]) /\ ReadAt(3, at[3]) /\ ReadAt(4, at[4])
  BY <1>1 DEF IInv, Dated, ServicesLater
<1>3. /\ draft[2] = Routers(past[at[2]].routers)
      /\ draft[3] = Services(past[at[3]].services)
      /\ draft[4] \in Middlewares(past[at[4]].middlewares)
  BY <1>2, Places DEF ReadAt, AnswersOf
<1>4. QED
  BY <1>2, <1>3, Places

\* Reads give each resource with its identity, and no other.
LEMMA RoutersRead ==
  ASSUME NEW routers
  PROVE  /\ \A x \in Routers(routers) : \E r \in routers :
              Denotes(x.as, r.id) /\ x.rule = r.rule /\ x.service = r.service
         /\ \A r \in routers : \E x \in Routers(routers) :
              Denotes(x.as, r.id) /\ x.rule = r.rule /\ x.hosts = Hosts(r.rule)
<1> DEFINE Row(r) == [as |-> Qualified(Write(r.id)), rule |-> r.rule,
                      hosts |-> Hosts(r.rule), service |-> r.service]
<1>1. Routers(routers) = {Row(r) : r \in routers}
  BY DEF Routers
<1>2. \A r : /\ Denotes(Row(r).as, r.id) /\ Row(r).rule = r.rule
             /\ Row(r).hosts = Hosts(r.rule) /\ Row(r).service = r.service
  BY Roundtrip
<1> HIDE DEF Row
<1>3. QED
  BY <1>1, <1>2

LEMMA ServicesRead ==
  ASSUME NEW services
  PROVE  /\ \A x \in Services(services) : \E s \in services : Denotes(x, s.id)
         /\ \A s \in services : s.id.provider # Internal =>
              \E x \in Services(services) : Denotes(x, s.id)
BY Roundtrip, InternalOnly DEF Services

LEMMA MiddlewaresRead ==
  ASSUME NEW middlewares, NEW part \in Middlewares(middlewares)
  PROVE  /\ \A x \in part : \E m \in middlewares : Denotes(x.as, m.id) /\ x.type \in TypesOf(m)
         /\ \A m \in middlewares : \E x \in part : Denotes(x.as, m.id)
<1>1. PICK f : /\ \A m \in middlewares : f[m] \in TypesOf(m)
               /\ part = {[as |-> Qualified(Write(m.id)), type |-> f[m]] : m \in middlewares}
  BY DEF Middlewares
<1> DEFINE Row(m) == [as |-> Qualified(Write(m.id)), type |-> f[m]]
<1>2. part = {Row(m) : m \in middlewares}
  BY <1>1
<1>3. \A m : Denotes(Row(m).as, m.id) /\ Row(m).type = f[m]
  BY Roundtrip
<1> HIDE DEF Row
<1>4. QED
  BY <1>1, <1>2, <1>3

\* A plain name in a Host matcher is among the hosts, in lower case.
LEMMA HostsRead ==
  ASSUME NEW rule, NEW m \in rule, m.matcher = "Host", NEW h \in m.args, ~h.pattern
  PROVE  Lower(h) \in Hosts(rule)
BY DEF Hosts, HostArgs

(* Configurations, instants and the draft stay well-formed; a failed fetch   *)
(* leaves nothing behind.                                                    *)
THEOREM TypeCorrect == Spec => []TypeOK
<1>1. IInv => TypeOK
  BY DEF IInv
<1>2. QED
  BY <1>1, Init_IInv, Next_IInv, PTL DEF Spec

(* Nothing in a snapshot was made up or left from an earlier fetch.          *)
THEOREM SnapshotAlwaysWasThere == Spec => []SnapshotWasThere
<1>1. ASSUME IInv, Complete PROVE SnapshotWasThere
  BY <1>1, PartsDated, RoutersRead, ServicesRead, MiddlewaresRead DEF SnapshotWasThere
<1>2. IInv => SnapshotWasThere
  BY <1>1 DEF SnapshotWasThere
<1>3. QED
  BY <1>2, Init_IInv, Next_IInv, PTL DEF Spec

(* What Traefik had all the while is in the snapshot, with its host names,   *)
(* and without its own services.                                             *)
THEOREM NothingLastingEverMissed == Spec => []NothingLastingMissed
<1>1. ASSUME IInv, Complete PROVE NothingLastingMissed
  <2>1. PICK j \in Instants, k \in Instants :
          /\ Part("routers") = Routers(past[j].routers)
          /\ Part("services") = Services(past[k].services)
    BY <1>1, PartsDated
  <2>2. PICK i \in Instants : Part("middlewares") \in Middlewares(past[i].middlewares)
    BY <1>1, PartsDated
  <2>3. ASSUME NEW r \in Lasting("routers")
        PROVE  LET names == {h \in UNION {m.args : m \in {q \in r.rule : q.matcher = "Host"}} :
                               ~h.pattern}
               IN \E x \in Part("routers") :
                    /\ Denotes(x.as, r.id) /\ x.rule = r.rule
                    /\ \A h \in names : Lower(h) \in x.hosts
    <3>1. r \in past[j].routers
      BY <2>3 DEF Lasting
    <3>2. PICK x \in Part("routers") :
            Denotes(x.as, r.id) /\ x.rule = r.rule /\ x.hosts = Hosts(r.rule)
      BY <2>1, <3>1, RoutersRead
    <3>3. QED
      BY <3>2, HostsRead
  <2>4. \A s \in Lasting("services") : s.id.provider # Internal =>
          \E x \in Part("services") : Denotes(x, s.id)
    BY <2>1, ServicesRead DEF Lasting
  <2>5. \A m \in Lasting("middlewares") :
          \E x \in Part("middlewares") : Denotes(x.as, m.id)
    BY <2>2, MiddlewaresRead DEF Lasting
  <2>6. QED
    BY <2>3, <2>4, <2>5 DEF NothingLastingMissed
<1>2. IInv => NothingLastingMissed
  BY <1>1 DEF NothingLastingMissed
<1>3. QED
  BY <1>2, Init_IInv, Next_IInv, PTL DEF Spec

(* Routers are read before services, so a router that had its service when   *)
(* it was read can only lack it in the snapshot if a service went away       *)
(* during the fetch.                                                         *)
THEOREM WholeRoutersAlwaysStayWhole == Spec => []WholeRoutersStayWhole
<1>1. ASSUME IInv, Complete, Grew("services"), NEW x \in Part("routers"),
             NEW s \in past[InstantOf("routers")].services, s.id.provider # Internal
      PROVE  \E y \in Part("services") : Denotes(y, s.id)
  <2>1. PICK j \in Instants, k \in Instants :
          /\ j <= k /\ j = InstantOf("routers")
          /\ Part("services") = Services(past[k].services)
    BY <1>1, PartsDated
  <2>2. s \in past[k].services
    BY <1>1, <2>1 DEF IInv, GrewThroughout
  <2>3. QED
    BY <1>1, <2>1, <2>2, ServicesRead
<1>2. IInv => WholeRoutersStayWhole
  BY <1>1 DEF WholeRoutersStayWhole
<1>3. QED
  BY <1>2, Init_IInv, Next_IInv, PTL DEF Spec
=============================================================================
