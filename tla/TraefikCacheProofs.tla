------------------------- MODULE TraefikCacheProofs -------------------------
(***************************************************************************)
(* Theorems about TraefikCache, for every number of callers, any Ttl and   *)
(* any bounds on how far the wall clock is set back or forward.            *)
(*                                                                         *)
(* The inductive invariant CacheInv says what the mutex buys: only its     *)
(* holder has read anything, it began when the cached snapshot was already *)
(* old, and what it has read since is later than everything cached.        *)
(***************************************************************************)
EXTENDS TraefikCache, TLAPS

\* Time is bounded, and nothing was called in the future.
ClockInv ==
  /\ clock <= MaxNow /\ back <= MaxStepBack
  /\ \A c \in Callers : since[c] <= clock

\* Who does not hold the mutex has read nothing; its holder has a call open.
LockInv ==
  /\ \A c \in Callers : mu # c => read[c] = <<>>
  /\ mu # Nothing => since[mu] # 0

\* What the holder has read, in order, was read since it called and began; no
\* date of the wall clock is later than its real time by more than the wall
\* clock was ever set forward.
FetchInv ==
  \A c \in Callers : mu = c =>
    /\ Len(read[c]) <= Parts
    /\ began[c] <= clock + ahead
    /\ \A i \in 1..Len(read[c]) :
         /\ since[c] <= read[c][i] /\ began[c] <= read[c][i] + ahead
         /\ read[c][i] <= clock
         /\ \A j \in 1..i : read[c][j] <= read[c][i]

\* The cached snapshot: read in order, dated no later than its first part but
\* for what the clock was set forward.
ValueInv ==
  value # Nothing =>
    /\ value.observedAt <= value.parts[1] + ahead
    /\ value.parts[Parts] <= clock
    /\ \A i \in 1..Parts : value.parts[i] >= 1
    /\ \A i, j \in 1..Parts : i <= j => value.parts[i] <= value.parts[j]

\* The holder's fetch began when the cached snapshot was old, and all it has
\* read is later than all that is cached.
OrderInv ==
  \A c \in Callers : (mu = c /\ value # Nothing) =>
    /\ ~Young(value, began[c])
    /\ \A i \in 1..Len(read[c]) : value.parts[Parts] <= read[c][i]

\* Answered snapshots are dated the same way.
AnswerInv ==
  \A c \in Callers : answer[c].snapshot # Nothing =>
    answer[c].snapshot.observedAt <= answer[c].snapshot.parts[1] + ahead

CacheInv ==
  TypeOK /\ ClockInv /\ LockInv /\ FetchInv /\ ValueInv /\ OrderInv /\ AnswerInv

\* What Append does to a sequence of times.
LEMMA AppendFacts ==
  ASSUME NEW s \in Seq(Nat), NEW x \in Nat
  PROVE  /\ Append(s, x) \in Seq(Nat)
         /\ Len(Append(s, x)) = Len(s) + 1
         /\ \A i \in 1..Len(s) : Append(s, x)[i] = s[i]
         /\ Append(s, x)[Len(s) + 1] = x
  OBVIOUS

\* A complete fetch is a snapshot's parts.
LEMMA FullRead ==
  ASSUME NEW s \in Seq(Nat), Len(s) = Parts
  PROVE  s \in [1..Parts -> Nat]
  BY PartsAssumption

\* The invariant holds for an empty cache.
LEMMA InitInv == Init => CacheInv
  BY CallersAssumption, PartsAssumption, TtlAssumption, BoundsAssumption
  DEF Init, NewCache, Idle, CacheInv, TypeOK, ClockInv, LockInv, FetchInv,
      ValueInv, OrderInv, AnswerInv, NoResult, Result, Results

\* What Return leaves of the local state.
LEMMA ReturnFacts ==
  ASSUME CacheInv, NEW c \in Callers, NEW r \in Results, Return(c, r),
         value' \in Snapshot \cup {Nothing}
  PROVE  /\ mu' = Nothing /\ clock' = clock /\ back' = back /\ ahead' = ahead
         /\ TypeOK'
         /\ ClockInv'
         /\ mu \in {c, Nothing} => LockInv'
         /\ FetchInv' /\ OrderInv'
         /\ (r.snapshot # Nothing => r.snapshot.observedAt <= r.snapshot.parts[1] + ahead)
              => AnswerInv'
<1>1. /\ mu' = Nothing /\ clock' = clock /\ back' = back /\ ahead' = ahead
      /\ TypeOK'
  BY CallersAssumption DEF CacheInv, TypeOK, Return, world
<1>2. ClockInv'
  BY CallersAssumption DEF CacheInv, TypeOK, ClockInv, Return, world
<1>3. mu \in {c, Nothing} => LockInv'
  BY CallersAssumption DEF CacheInv, TypeOK, LockInv, Return
<1>4. FetchInv' /\ OrderInv'
  BY <1>1, CallersAssumption DEF FetchInv, OrderInv
<1>5. (r.snapshot # Nothing => r.snapshot.observedAt <= r.snapshot.parts[1] + ahead)
        => AnswerInv'
  BY <1>1 DEF CacheInv, TypeOK, AnswerInv, Return
<1>6. QED
  BY <1>1, <1>2, <1>3, <1>4, <1>5

\* Hit and FailPart return what was cached before; only Install caches.
LEMMA ReturnInv ==
  ASSUME CacheInv, NEW c \in Callers, NEW r \in Results, Return(c, r),
         mu \in {c, Nothing}, UNCHANGED value,
         r.snapshot \in {value, Nothing}
  PROVE  CacheInv'
<1>1. r.snapshot # Nothing => r.snapshot.observedAt <= r.snapshot.parts[1] + ahead
  BY DEF CacheInv, ValueInv
<1>2. value' \in Snapshot \cup {Nothing}
  BY DEF CacheInv, TypeOK
<1>3. /\ clock' = clock /\ ahead' = ahead /\ TypeOK' /\ ClockInv' /\ LockInv' /\ FetchInv'
      /\ OrderInv' /\ AnswerInv'
  BY <1>1, <1>2, ReturnFacts
<1>4. ValueInv'
  BY <1>3 DEF CacheInv, ValueInv
<1>5. QED
  BY <1>3, <1>4 DEF CacheInv

\* Returning the young snapshot keeps the invariant.
LEMMA HitInv ==
  ASSUME CacheInv, NEW c \in Callers, Hit(c)
  PROVE  CacheInv'
<1>1. /\ value \in Snapshot \cup {Nothing}
      /\ Result(value, FALSE, FALSE) \in Results
      /\ Result(value, FALSE, FALSE).snapshot = value
  BY DEF CacheInv, TypeOK, Result, Results
<1>2. QED
  BY <1>1, ReturnInv DEF Hit

\* So does giving up a fetch.
LEMMA FailPartInv ==
  ASSUME CacheInv, NEW c \in Callers, FailPart(c)
  PROVE  CacheInv'
<1>1. /\ LastKnown(c) \in Results
      /\ LastKnown(c).snapshot \in {value, Nothing}
  BY DEF CacheInv, TypeOK, LastKnown, Result, Results
<1>2. QED
  BY <1>1, ReturnInv DEF FailPart

\* A fetch that ended: its snapshot is later than the one it replaces.
LEMMA FetchedFacts ==
  ASSUME CacheInv, NEW c \in Callers, Install(c)
  PROVE  /\ Fetched(c) \in Snapshot /\ Fetched(c) # Nothing
         /\ Fetched(c).observedAt = began[c] /\ Fetched(c).parts = read[c]
         /\ began[c] <= read[c][1] + ahead /\ since[c] <= read[c][1] /\ since[c] >= 1
         /\ read[c][Parts] <= clock
         /\ \A i \in 1..Parts : read[c][i] \in Nat /\ read[c][i] >= 1
         /\ \A i, j \in 1..Parts : i <= j => read[c][i] <= read[c][j]
         /\ value # Nothing => /\ value.parts[Parts] <= read[c][1]
                               /\ began[c] - value.observedAt >= Ttl
<1>1. read[c] \in Seq(Nat) /\ Len(read[c]) = Parts /\ mu = c /\ began[c] \in Int
      /\ since[c] \in Nat /\ clock \in Nat
  BY DEF CacheInv, TypeOK, Install
<1>2. read[c] \in [1..Parts -> Nat]
  BY <1>1, FullRead
<1>3. Fetched(c) \in Snapshot /\ Fetched(c) # Nothing
      /\ Fetched(c).observedAt = began[c] /\ Fetched(c).parts = read[c]
  BY <1>1, <1>2, NothingAssumption DEF Fetched, Snapshot
<1>4. since[c] >= 1
  BY <1>1, CallersAssumption DEF CacheInv, LockInv
<1>5. \A i \in 1..Parts : /\ since[c] <= read[c][i] /\ began[c] <= read[c][i] + ahead
                          /\ read[c][i] <= clock
                          /\ \A j \in 1..i : read[c][j] <= read[c][i]
  BY <1>1 DEF CacheInv, FetchInv
<1>6. 1 \in 1..Parts /\ Parts \in 1..Parts
  BY PartsAssumption
<1>7. value # Nothing => /\ value.parts[Parts] <= read[c][1]
                         /\ began[c] - value.observedAt >= Ttl
  <2>1. CASE value # Nothing
    <3>1. value.observedAt \in Int
      BY <2>1 DEF CacheInv, TypeOK, Snapshot
    <3>2. QED
      BY <1>1, <1>6, <2>1, <3>1, TtlAssumption DEF CacheInv, OrderInv, Young
  <2>2. QED
    BY <2>1
<1>8. \A i \in 1..Parts : read[c][i] \in Nat /\ read[c][i] >= 1
  BY <1>1, <1>2, <1>4, <1>5
<1>9. \A i, j \in 1..Parts : i <= j => read[c][i] <= read[c][j]
  BY <1>5, PartsAssumption
<1>10. QED
  BY <1>3, <1>4, <1>5, <1>6, <1>7, <1>8, <1>9

\* So does installing a complete one.
LEMMA InstallInv ==
  ASSUME CacheInv, NEW c \in Callers, Install(c)
  PROVE  CacheInv'
<1> DEFINE r == Result(Fetched(c), FALSE, FALSE)
<1>1. r \in Results /\ r.snapshot = Fetched(c)
  BY FetchedFacts DEF Result, Results
<1>2. /\ value' = Fetched(c) /\ Return(c, r) /\ mu = c
  BY DEF Install
<1>3. r.snapshot.observedAt <= r.snapshot.parts[1] + ahead
  BY <1>1, FetchedFacts
<1>4. /\ clock' = clock /\ ahead' = ahead /\ TypeOK' /\ ClockInv' /\ LockInv' /\ FetchInv'
      /\ OrderInv' /\ AnswerInv'
  <2> HIDE DEF r
  <2>1. value' \in Snapshot \cup {Nothing}
    BY <1>2, FetchedFacts
  <2>2. QED
    BY <1>1, <1>2, <1>3, <2>1, ReturnFacts
<1>5. ValueInv'
  BY <1>2, <1>4, FetchedFacts DEF ValueInv
<1>6. QED
  BY <1>4, <1>5 DEF CacheInv

\* So does a new call.
LEMMA CallInv ==
  ASSUME CacheInv, NEW c \in Callers, Call(c)
  PROVE  CacheInv'
<1> USE DEF Call, cache, world
<1>1. TypeOK'
  BY DEF CacheInv, TypeOK, NoResult, Result, Results
<1>2. ClockInv'
  BY DEF CacheInv, TypeOK, ClockInv
<1>3. c # mu
  BY CallersAssumption DEF CacheInv, LockInv
<1>4. LockInv' /\ FetchInv' /\ OrderInv'
  BY <1>3 DEF CacheInv, TypeOK, LockInv, FetchInv, OrderInv
<1>5. ValueInv' /\ AnswerInv'
  BY DEF CacheInv, TypeOK, ValueInv, AnswerInv, NoResult, Result
<1>6. QED
  BY <1>1, <1>2, <1>4, <1>5 DEF CacheInv

\* Nothing is read yet, so there is nothing to order but the age test.
LEMMA MissInv ==
  ASSUME CacheInv, NEW c \in Callers, Miss(c)
  PROVE  CacheInv'
<1> USE DEF Miss, world
<1>1. /\ TypeOK' /\ clock \in Nat /\ back \in Nat /\ ahead \in Nat
      /\ began'[c] = Wall /\ Wall <= clock + ahead
  BY DEF CacheInv, TypeOK, Wall
<1>2. ClockInv' /\ LockInv' /\ ValueInv' /\ AnswerInv'
  BY CallersAssumption
  DEF CacheInv, ClockInv, LockInv, ValueInv, AnswerInv
<1>3. read[c] = <<>>
  BY CallersAssumption DEF CacheInv, LockInv
<1>4. FetchInv'
  BY <1>1, <1>3, PartsAssumption DEF FetchInv
<1>5. OrderInv'
  BY <1>1, <1>3 DEF OrderInv, Young
<1>6. QED
  BY <1>1, <1>2, <1>4, <1>5 DEF CacheInv

\* What is read now is no earlier than anything read or cached before.
LEMMA ReadPartInv ==
  ASSUME CacheInv, NEW c \in Callers, ReadPart(c)
  PROVE  CacheInv'
<1> USE DEF ReadPart, cache, world
<1>1. /\ read[c] \in Seq(Nat) /\ clock \in Nat
      /\ read' = [read EXCEPT ![c] = Append(read[c], clock)]
      /\ read'[c] = Append(read[c], clock)
      /\ read \in [Callers -> Seq(Nat)]
  BY DEF CacheInv, TypeOK
<1>2. /\ read'[c] \in Seq(Nat) /\ Len(read'[c]) = Len(read[c]) + 1
      /\ \A i \in 1..Len(read[c]) : read'[c][i] = read[c][i]
      /\ read'[c][Len(read[c]) + 1] = clock
  BY <1>1, AppendFacts
<1>3. TypeOK'
  BY <1>1, <1>2 DEF CacheInv, TypeOK
<1>4. ClockInv' /\ LockInv' /\ ValueInv' /\ AnswerInv'
  BY <1>1, CallersAssumption
  DEF CacheInv, ClockInv, LockInv, ValueInv, AnswerInv
<1>5. Len(read[c]) \in Nat /\ Len(read[c]) + 1 <= Parts
  BY <1>1, PartsAssumption
<1>6. FetchInv'
  <2>1. SUFFICES /\ Len(read'[c]) <= Parts
                 /\ began[c] <= clock + ahead
                 /\ \A i \in 1..Len(read'[c]) :
                      /\ since[c] <= read'[c][i] /\ began[c] <= read'[c][i] + ahead
                      /\ read'[c][i] <= clock
                      /\ \A j \in 1..i : read'[c][j] <= read'[c][i]
    BY DEF FetchInv
  <2>2. began[c] <= clock + ahead /\ since[c] <= clock
    BY DEF CacheInv, FetchInv, ClockInv
  <2>3. \A i \in 1..Len(read[c]) :
          /\ since[c] <= read[c][i] /\ began[c] <= read[c][i] + ahead
          /\ read[c][i] <= clock
          /\ \A j \in 1..i : read[c][j] <= read[c][i]
    BY DEF CacheInv, FetchInv
  <2>4. ASSUME NEW i \in 1..Len(read'[c])
        PROVE  /\ since[c] <= read'[c][i] /\ began[c] <= read'[c][i] + ahead
               /\ read'[c][i] <= clock
               /\ \A j \in 1..i : read'[c][j] <= read'[c][i]
    <3>1. CASE i \in 1..Len(read[c])
      BY <1>2, <1>5, <2>3, <3>1
    <3>2. CASE i = Len(read[c]) + 1
      BY <1>1, <1>2, <1>5, <2>2, <2>3, <3>2
    <3>3. QED
      BY <1>2, <1>5, <3>1, <3>2
  <2>5. QED
    BY <1>2, <1>5, <2>2, <2>4
<1>7. OrderInv'
  <2>1. SUFFICES ASSUME value # Nothing
                 PROVE  /\ ~Young(value, began[c])
                        /\ \A i \in 1..Len(read'[c]) :
                             value.parts[Parts] <= read'[c][i]
    BY DEF OrderInv, Young
  <2>2. /\ ~Young(value, began[c])
        /\ \A i \in 1..Len(read[c]) : value.parts[Parts] <= read[c][i]
    BY <2>1 DEF CacheInv, OrderInv
  <2>3. value.parts[Parts] <= clock
    BY <2>1 DEF CacheInv, ValueInv
  <2>4. QED
    BY <1>2, <1>5, <2>2, <2>3
<1>8. QED
  BY <1>3, <1>4, <1>6, <1>7 DEF CacheInv

\* A restart leaves an empty cache.
LEMMA RestartInv == ASSUME CacheInv, Restart PROVE CacheInv'
<1> USE DEF Restart
<1>1. TypeOK'
  BY DEF CacheInv, TypeOK, NoResult, Result, Results
<1>2. ClockInv' /\ LockInv' /\ FetchInv' /\ ValueInv' /\ OrderInv' /\ AnswerInv'
  BY CallersAssumption DEF CacheInv, TypeOK, ClockInv, LockInv, FetchInv,
     ValueInv, OrderInv, AnswerInv, NoResult, Result
<1>3. QED
  BY <1>1, <1>2 DEF CacheInv

\* Time only makes what was read older.
LEMMA TickInv == ASSUME CacheInv, Tick PROVE CacheInv'
<1> USE DEF Tick, cache, local
<1>1. /\ clock \in Nat /\ clock' = clock + 1 /\ clock + 1 <= MaxNow
      /\ ahead \in Nat /\ ahead' = ahead
      /\ since \in [Callers -> Nat] /\ began \in [Callers -> Int]
      /\ read \in [Callers -> Seq(Nat)]
  BY BoundsAssumption DEF CacheInv, TypeOK
<1>2. TypeOK' /\ ClockInv' /\ LockInv'
  BY <1>1 DEF CacheInv, TypeOK, ClockInv, LockInv
<1>3. FetchInv'
  <2> SUFFICES ASSUME NEW c \in Callers, mu = c
               PROVE  /\ Len(read[c]) <= Parts
                      /\ began[c] <= clock + 1 + ahead
                      /\ \A i \in 1..Len(read[c]) :
                           /\ since[c] <= read[c][i] /\ began[c] <= read[c][i] + ahead
                           /\ read[c][i] <= clock + 1
                           /\ \A j \in 1..i : read[c][j] <= read[c][i]
    BY <1>1 DEF FetchInv
  <2> QED
    BY <1>1 DEF CacheInv, FetchInv
<1>4. ValueInv'
  <2>1. value # Nothing => value.parts[Parts] \in Nat
    BY PartsAssumption DEF CacheInv, TypeOK, Snapshot
  <2>2. QED
    BY <1>1, <2>1 DEF CacheInv, ValueInv
<1>5. OrderInv' /\ AnswerInv'
  BY DEF CacheInv, OrderInv, AnswerInv, Young
<1>6. QED
  BY <1>2, <1>3, <1>4, <1>5 DEF CacheInv

\* Setting the clock back touches no snapshot.
LEMMA StepBackInv == ASSUME CacheInv, StepBack PROVE CacheInv'
<1> USE DEF StepBack, cache, local
<1>1. TypeOK' /\ ClockInv'
  BY BoundsAssumption DEF CacheInv, TypeOK, ClockInv
<1>2. LockInv' /\ FetchInv' /\ ValueInv' /\ OrderInv' /\ AnswerInv'
  BY DEF CacheInv, LockInv, FetchInv, ValueInv, OrderInv, AnswerInv, Young
<1>3. QED
  BY <1>1, <1>2 DEF CacheInv

\* Setting it forward makes room for later dates, and touches no snapshot.
LEMMA StepForwardInv == ASSUME CacheInv, StepForward PROVE CacheInv'
<1> USE DEF StepForward, cache, local
<1>1. /\ ahead \in Nat /\ ahead' = ahead + 1 /\ clock \in Nat
      /\ value \in Snapshot \cup {Nothing}
      /\ read \in [Callers -> Seq(Nat)] /\ began \in [Callers -> Int]
      /\ \A c \in Callers : answer[c].snapshot \in Snapshot \cup {Nothing}
  BY DEF CacheInv, TypeOK, Results
<1>2. TypeOK' /\ ClockInv' /\ LockInv'
  BY <1>1 DEF CacheInv, TypeOK, ClockInv, LockInv
<1>3. FetchInv'
  BY <1>1 DEF CacheInv, FetchInv
<1>4. \A x \in Snapshot : x.observedAt <= x.parts[1] + ahead
                            => x.observedAt <= x.parts[1] + ahead'
  <2> SUFFICES ASSUME NEW x \in Snapshot, x.observedAt <= x.parts[1] + ahead
               PROVE  x.observedAt <= x.parts[1] + ahead'
    OBVIOUS
  <2>1. x.observedAt \in Int /\ x.parts[1] \in Nat
    BY PartsAssumption DEF Snapshot
  <2>2. QED
    BY <1>1, <2>1
<1>5. ValueInv'
  BY <1>1, <1>4 DEF CacheInv, ValueInv
<1>6. OrderInv'
  BY DEF CacheInv, OrderInv, Young
<1>7. AnswerInv'
  BY <1>1, <1>4 DEF CacheInv, AnswerInv
<1>8. QED
  BY <1>2, <1>3, <1>5, <1>6, <1>7 DEF CacheInv

\* Every step keeps the invariant.
LEMMA StepInv == CacheInv /\ [Next]_vars => CacheInv'
<1> SUFFICES ASSUME CacheInv, [Next]_vars PROVE CacheInv'
  OBVIOUS
<1>1. ASSUME NEW c \in Callers, Call(c) PROVE CacheInv'
  BY <1>1, CallInv
<1>2. ASSUME NEW c \in Callers, Get(c) PROVE CacheInv'
  BY <1>2, HitInv, MissInv, ReadPartInv, InstallInv, FailPartInv DEF Get
<1>3. CASE Restart \/ Tick \/ StepBack \/ StepForward
  BY <1>3, RestartInv, TickInv, StepBackInv, StepForwardInv
<1>4. CASE UNCHANGED vars
  BY <1>4 DEF vars, cache, local, world, CacheInv, TypeOK, ClockInv, LockInv,
     FetchInv, ValueInv, OrderInv, AnswerInv, Young
<1>5. QED
  BY <1>1, <1>2, <1>3, <1>4 DEF Next

\* The invariant holds throughout.
LEMMA Invariance == Spec => []CacheInv
  BY InitInv, StepInv, PTL DEF Spec

\* Every variable has its type: in particular only snapshots with all their
\* parts are ever cached or returned.
THEOREM TypeCorrect == Spec => []TypeOK
<1>1. CacheInv => TypeOK
  BY DEF CacheInv
<1>2. QED
  BY Invariance, <1>1, PTL

\* Get tells no snapshot's age shorter than it is by more than the host's
\* clock was set back, wherever the clock was set.
THEOREM AgesToldShortByClockOnly == Spec => []AgeToldShortByClockOnly
<1>1. ASSUME CacheInv, NEW x \in Snapshot, x.observedAt <= x.parts[1] + ahead
      PROVE  RealAge(x) - ToldAge(x) <= back
  <2>1. /\ x.observedAt \in Int /\ x.parts[1] \in Nat
        /\ clock \in Nat /\ back \in Nat /\ ahead \in Nat
    BY <1>1, PartsAssumption DEF Snapshot, CacheInv, TypeOK
  <2>2. QED
    BY <1>1, <2>1 DEF RealAge, ToldAge, Wall
<1>2. ASSUME CacheInv PROVE AgeToldShortByClockOnly
  <2>1. /\ value # Nothing =>
             value \in Snapshot /\ value.observedAt <= value.parts[1] + ahead
        /\ \A c \in Callers : answer[c].snapshot # Nothing =>
             /\ answer[c].snapshot \in Snapshot
             /\ answer[c].snapshot.observedAt
                  <= answer[c].snapshot.parts[1] + ahead
    BY <1>2 DEF CacheInv, TypeOK, Results, ValueInv, AnswerInv
  <2>2. QED
    BY <1>1, <1>2, <2>1 DEF AgeToldShortByClockOnly
<1>3. QED
  BY Invariance, <1>2, PTL

\* Only Install puts a snapshot where another one is.
LEMMA OnlyInstall ==
  ASSUME [Next]_vars, value' \notin {value, Nothing}
  PROVE  \E c \in Callers : Install(c) /\ value' = Fetched(c)
<1>1. ASSUME NEW c \in Callers, Call(c) \/ Get(c) PROVE Install(c)
  BY <1>1 DEF Call, Get, Hit, Miss, ReadPart, FailPart, cache
<1>2. ~(Restart \/ Tick \/ StepBack \/ StepForward \/ UNCHANGED vars)
  BY DEF Restart, Tick, StepBack, StepForward, vars, cache
<1>3. QED
  BY <1>1, <1>2 DEF Next, Install

\* A slow fetch never overwrites a later one's result.
THEOREM CacheMovesForward == Spec => ValueMovesForward
<1>1. ASSUME CacheInv, [Next]_vars, value # Nothing, value' \notin {value, Nothing}
      PROVE  value.parts[Parts] <= value'.parts[1]
  BY <1>1, OnlyInstall, FetchedFacts
<1>2. QED
  BY Invariance, <1>1, PTL DEF Spec, ValueMovesForward

\* Traefik is fetched at most once per Ttl, however many callers wait.
THEOREM FetchesAreSpaced == Spec => FetchesSpaced
<1>1. ASSUME CacheInv, [Next]_vars, value # Nothing, value' \notin {value, Nothing}
      PROVE  value'.observedAt - value.observedAt >= Ttl
  BY <1>1, OnlyInstall, FetchedFacts
<1>2. QED
  BY Invariance, <1>1, PTL DEF Spec, FetchesSpaced

-----------------------------------------------------------------------------
(* The refinement.                                                         *)

Shown(r) == [snapshot |-> PartsOf(r.snapshot), stale |-> r.stale, failed |-> r.err]
ShownAnswer == [c \in Callers |-> Shown(answer[c])]

\* Return is the register's Reply.
LEMMA ReturnReplies ==
  ASSUME CacheInv, NEW c \in Callers, NEW r \in Results, Return(c, r)
  PROVE  /\ since' = [since EXCEPT ![c] = 0]
         /\ ShownAnswer' = [ShownAnswer EXCEPT ![c] = Shown(r)]
<1>1. answer' = [answer EXCEPT ![c] = r] /\ since' = [since EXCEPT ![c] = 0]
  BY DEF Return
<1>2. [x \in Callers |-> Shown(answer'[x])]
        = [[x \in Callers |-> Shown(answer[x])] EXCEPT ![c] = Shown(r)]
  BY <1>1 DEF CacheInv, TypeOK
<1>3. QED
  BY <1>1, <1>2 DEF ShownAnswer, Shown

\* An empty cache is an empty register.
LEMMA RefinesInit == Init => Register!Init
  BY DEF Init, NewCache, Idle, NoResult, Result, PartsOf,
     Register!Init, Register!NoAnswer, Register!Answer

\* The register's view of a snapshot is its parts.
LEMMA PartsOfSome ==
  ASSUME NEW s \in Snapshot
  PROVE  PartsOf(s) = s.parts /\ PartsOf(s) # Nothing
  BY NothingAssumption DEF PartsOf, Snapshot

\* A hit is served young: the wall clock was set back by MaxStepBack at most.
LEMMA HitServes ==
  ASSUME CacheInv, NEW c \in Callers, Hit(c)
  PROVE  Register!Serve(c)
<1>1. /\ value # Nothing /\ value \in Snapshot /\ UNCHANGED <<value, clock>>
      /\ Wall - value.observedAt < Ttl
      /\ since[c] # 0
      /\ Return(c, Result(value, FALSE, FALSE))
      /\ Result(value, FALSE, FALSE) \in Results
  BY DEF CacheInv, TypeOK, Hit, Young, Result, Results, Return, world
<1>2. PartsOf(value) = value.parts /\ PartsOf(value) # Nothing
  BY <1>1, PartsOfSome
<1>3. clock - value.parts[1] < Ttl + MaxStepBack
  <2>1. /\ value.observedAt <= value.parts[1] + ahead /\ back <= MaxStepBack
        /\ value.observedAt \in Int /\ value.parts[1] \in Int
        /\ clock \in Int /\ back \in Int /\ ahead \in Int
        /\ Ttl \in Int /\ MaxStepBack \in Int
    BY <1>1, PartsAssumption, TtlAssumption, BoundsAssumption
    DEF CacheInv, TypeOK, ClockInv, ValueInv, Snapshot
  <2>2. QED
    BY <1>1, <2>1 DEF Wall
<1>4. Shown(Result(value, FALSE, FALSE)) = Register!Answer(PartsOf(value), FALSE, FALSE)
  BY DEF Shown, Result, Register!Answer
<1>5. /\ since' = [since EXCEPT ![c] = 0]
      /\ ShownAnswer' = [ShownAnswer EXCEPT
           ![c] = Register!Answer(PartsOf(value), FALSE, FALSE)]
  BY <1>1, <1>4, ReturnReplies
<1>6. QED
  BY <1>1, <1>2, <1>3, <1>5
  DEF Register!Serve, Register!Reply, ShownAnswer, Shown, PartsOf

\* Installing a snapshot is the register observing.
LEMMA InstallObserves ==
  ASSUME CacheInv, NEW c \in Callers, Install(c)
  PROVE  Register!Observe(c)
<1> DEFINE s == read[c]
<1>1. /\ value' = Fetched(c) /\ UNCHANGED clock /\ clock <= MaxNow
      /\ Return(c, Result(Fetched(c), FALSE, FALSE)) /\ mu = c
  BY DEF Install, Return, world, CacheInv, ClockInv
<1>2. /\ Fetched(c) \in Snapshot /\ Fetched(c).parts = s
      /\ Result(Fetched(c), FALSE, FALSE) \in Results
      /\ since[c] # 0
  BY FetchedFacts, <1>1, CallersAssumption
  DEF Result, Results, CacheInv, LockInv
<1>3. s \in Register!Observations
  <2>1. /\ s \in [1..Parts -> Nat]
        /\ s[Parts] <= clock
        /\ \A i \in 1..Parts : s[i] \in Nat /\ s[i] >= 1
        /\ \A i, j \in 1..Parts : i <= j => s[i] <= s[j]
    BY <1>2, FetchedFacts DEF Snapshot
  <2>2. \A i \in 1..Parts : s[i] \in 1..MaxNow
    BY <1>1, <2>1, PartsAssumption, BoundsAssumption DEF CacheInv, TypeOK
  <2>3. QED
    BY <2>1, <2>2 DEF Register!Observations, Register!Times
<1>4. /\ since[c] <= s[1] /\ s[Parts] <= clock
      /\ PartsOf(value) # Nothing => PartsOf(value)[Parts] <= s[1]
  BY FetchedFacts DEF PartsOf
<1>5. PartsOf(value') = s
  BY <1>1, <1>2, PartsOfSome
<1>6. Shown(Result(Fetched(c), FALSE, FALSE)) = Register!Answer(s, FALSE, FALSE)
  BY <1>2, PartsOfSome DEF Shown, Result, Register!Answer
<1>7. /\ since' = [since EXCEPT ![c] = 0]
      /\ ShownAnswer' = [ShownAnswer EXCEPT ![c] = Register!Answer(s, FALSE, FALSE)]
  BY <1>1, <1>2, <1>6, ReturnReplies
<1>8. PartsOf(value)' = s /\ s \in Register!Observations
  BY <1>3, <1>5 DEF PartsOf
<1>9. /\ since[c] # 0
      /\ since' = [since EXCEPT ![c] = 0]
      /\ [x \in Callers |-> [snapshot |-> PartsOf(answer[x].snapshot),
                             stale |-> answer[x].stale,
                             failed |-> answer[x].err]]'
           = [[x \in Callers |-> [snapshot |-> PartsOf(answer[x].snapshot),
                                  stale |-> answer[x].stale,
                                  failed |-> answer[x].err]]
                EXCEPT ![c] = Register!Answer(s, FALSE, FALSE)]
  BY <1>2, <1>7 DEF ShownAnswer, Shown
<1>10. QED
  BY <1>1, <1>4, <1>8, <1>9 DEF Register!Observe, Register!Reply

\* A failed fetch is the register falling back, or apologising.
LEMMA FailPartReplies ==
  ASSUME CacheInv, NEW c \in Callers, FailPart(c)
  PROVE  Register!FallBack(c) \/ Register!Apologise(c)
<1>1. /\ LastKnown(c) \in Results /\ Return(c, LastKnown(c))
      /\ UNCHANGED <<value, clock>> /\ since[c] # 0
  BY CallersAssumption
  DEF CacheInv, TypeOK, LockInv, FailPart, Return, world, LastKnown, Result, Results
<1>2. /\ since' = [since EXCEPT ![c] = 0]
      /\ ShownAnswer' = [ShownAnswer EXCEPT ![c] = Shown(LastKnown(c))]
  BY <1>1, ReturnReplies
<1>3. CASE value # Nothing
  <2>1. PartsOf(value) # Nothing
    BY <1>3, PartsOfSome DEF CacheInv, TypeOK
  <2>2. Shown(LastKnown(c)) = Register!Answer(PartsOf(value), TRUE, TRUE)
    BY <1>3 DEF LastKnown, Shown, Result, Register!Answer
  <2>3. QED
    BY <1>1, <1>2, <2>1, <2>2
    DEF Register!FallBack, Register!Reply, ShownAnswer, Shown, PartsOf
<1>4. CASE value = Nothing
  <2>1. Shown(LastKnown(c)) = Register!Answer(Nothing, FALSE, TRUE)
    BY <1>4 DEF LastKnown, Shown, Result, Register!Answer, PartsOf
  <2>2. PartsOf(value) = Nothing
    BY <1>4 DEF PartsOf
  <2>3. QED
    BY <1>1, <1>2, <2>1, <2>2
    DEF Register!Apologise, Register!Reply, ShownAnswer, Shown, PartsOf
<1>5. QED
  BY <1>3, <1>4

\* A call asks the register.
LEMMA CallAsks ==
  ASSUME CacheInv, NEW c \in Callers, Call(c)
  PROVE  Register!Ask(c)
<1>1. answer' = [answer EXCEPT ![c] = NoResult] /\ UNCHANGED <<value, clock>>
  BY DEF Call, cache, world
<1>2. Shown(NoResult) = Register!NoAnswer
  BY DEF Shown, NoResult, Result, PartsOf, Register!NoAnswer, Register!Answer
<1>3. [x \in Callers |-> Shown(answer'[x])]
        = [[x \in Callers |-> Shown(answer[x])] EXCEPT ![c] = Register!NoAnswer]
  BY <1>1, <1>2 DEF CacheInv, TypeOK
<1>4. QED
  BY <1>1, <1>3 DEF Call, Register!Ask, Shown

\* A restart forgets the register.
LEMMA RestartForgets == ASSUME Restart PROVE Register!Forget
<1>1. Shown(NoResult) = Register!NoAnswer
  BY DEF Shown, NoResult, Result, PartsOf, Register!NoAnswer, Register!Answer
<1>2. [x \in Callers |-> Shown(answer'[x])] = [x \in Callers |-> Register!NoAnswer]
  BY <1>1 DEF Restart
<1>3. QED
  BY <1>2 DEF Restart, Register!Forget, Shown, PartsOf

\* Taking the mutex, reading a part and the wall clock do not show.
LEMMA Stutters ==
  ASSUME UNCHANGED <<value, since, answer, clock>>
  PROVE  UNCHANGED Register!vars
  BY DEF Register!vars

\* Every step of the cache is a step of the register or none.
LEMMA RefinesStep ==
  CacheInv /\ [Next]_vars => [Register!Next]_(Register!vars)
<1> SUFFICES ASSUME CacheInv, [Next]_vars
             PROVE  Register!Next \/ UNCHANGED Register!vars
  OBVIOUS
<1>1. ASSUME NEW c \in Callers, Call(c) PROVE Register!Next
  BY <1>1, CallAsks DEF Register!Next
<1>2. ASSUME NEW c \in Callers, Hit(c) PROVE Register!Next
  BY <1>2, HitServes DEF Register!Next, Register!Replies
<1>3. ASSUME NEW c \in Callers, Install(c) PROVE Register!Next
  BY <1>3, InstallObserves DEF Register!Next, Register!Replies
<1>4. ASSUME NEW c \in Callers, FailPart(c) PROVE Register!Next
  BY <1>4, FailPartReplies DEF Register!Next, Register!Replies
<1>5. ASSUME NEW c \in Callers, Miss(c) \/ ReadPart(c)
      PROVE  UNCHANGED Register!vars
  BY <1>5, Stutters DEF Miss, ReadPart, cache, world
<1>6. CASE StepBack \/ StepForward \/ UNCHANGED vars
  BY <1>6, Stutters DEF StepBack, StepForward, vars, cache, local, world
<1>7. CASE Restart
  BY <1>7, RestartForgets DEF Register!Next
<1>8. CASE Tick
  BY <1>8 DEF Tick, cache, local, Register!Next, Register!Tick
<1>9. QED
  BY <1>1, <1>2, <1>3, <1>4, <1>5, <1>6, <1>7, <1>8 DEF Next, Get

\* Get implements SnapshotRegister whose snapshots live Ttl, and as much
\* longer as the wall clock was set back.
THEOREM CacheImplementsRegister == Spec => Refines
  BY Invariance, RefinesInit, RefinesStep, PTL DEF Spec, Refines, Register!Spec

=============================================================================
