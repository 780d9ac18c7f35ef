---------------------------- MODULE TraefikCache ----------------------------
(***************************************************************************)
(* The snapshot cache of internal/traefik/cache.go.                        *)
(*                                                                         *)
(* Get holds the mutex from its first line to its return, over up to four  *)
(* HTTP reads of Traefik, so callers queue behind a slow fetch.  It reads  *)
(* the clock once, when it has the mutex, and that time is both the age    *)
(* test and the birth date of the snapshot it may install.                 *)
(*                                                                         *)
(* The clock is c.now().UTC(): UTC strips Go's monotonic reading, so ages  *)
(* are differences of the wall clock, which the host may set back or       *)
(* forward.  Real time is kept beside it.  What was read from Traefik is   *)
(* represented by the real time it was read at.                            *)
(***************************************************************************)
EXTENDS Integers, Sequences

CONSTANTS
  Callers,        \* requests that call Get
  Parts,          \* reads of one fetch (status, routers, services, middlewares)
  Ttl,            \* c.ttl
  Nothing,        \* no snapshot; nobody
  MaxNow,         \* bound: real time
  MaxStepBack,    \* bound: how far in all the wall clock is set back
  MaxStepForward, \* bound: how far in all it is set forward
  MaxRestarts     \* bound: restarts of the process

ASSUME CallersAssumption == Nothing \notin Callers
ASSUME PartsAssumption == Parts \in Nat \ {0}
ASSUME TtlAssumption == Ttl \in Nat \ {0}
ASSUME BoundsAssumption ==
  /\ MaxNow \in Nat \ {0}
  /\ MaxStepBack \in Nat /\ MaxStepForward \in Nat
  /\ MaxRestarts \in Nat

VARIABLES
  mu,           \* who holds c.mu, or Nothing
  value,        \* c.value
  since,        \* caller -> real time of its call, 0 when it has none open
  began,        \* caller -> "now" of its Get, once it has the mutex
  read,         \* caller -> the parts its fetch has read so far
  answer,       \* caller -> the Result of its last Get
  clock,        \* real time
  back,         \* how far in all the wall clock has been set back
  ahead,        \* how far in all it has been set forward
  restarts

cache == <<mu, value>>
local == <<since, began, read, answer>>
world == <<clock, back, ahead, restarts>>
vars == <<cache, local, world>>

Wall == clock - back + ahead

Snapshot == [observedAt : Int, parts : [1..Parts -> Nat]]

ASSUME NothingAssumption ==
  Nothing \notin Snapshot /\ Nothing \notin [1..Parts -> Nat]

Result(snapshot, stale, err) ==
  [snapshot |-> snapshot, stale |-> stale, err |-> err]

NoResult == Result(Nothing, FALSE, FALSE)

Results == [snapshot : Snapshot \cup {Nothing}, stale : BOOLEAN, err : BOOLEAN]

TypeOK ==
  /\ mu \in Callers \cup {Nothing}
  /\ value \in Snapshot \cup {Nothing}
  /\ since \in [Callers -> Nat]
  /\ began \in [Callers -> Int]
  /\ read \in [Callers -> Seq(Nat)]
  /\ answer \in [Callers -> Results]
  /\ clock \in Nat \ {0} /\ back \in Nat /\ ahead \in Nat /\ restarts \in Nat

NewCache ==
  /\ mu = Nothing
  /\ value = Nothing

Idle ==
  /\ since = [c \in Callers |-> 0]
  /\ began = [c \in Callers |-> 0]
  /\ read = [c \in Callers |-> <<>>]
  /\ answer = [c \in Callers |-> NoResult]

Init ==
  /\ NewCache
  /\ Idle
  /\ clock = 1 /\ back = 0 /\ ahead = 0 /\ restarts = 0

\* A request arrives and calls Get.
Call(c) ==
  /\ since[c] = 0
  /\ since' = [since EXCEPT ![c] = clock]
  /\ answer' = [answer EXCEPT ![c] = NoResult]
  /\ UNCHANGED <<cache, began, read, world>>

\* Return r and, deferred, Unlock.
Return(c, r) ==
  /\ mu' = Nothing
  /\ since' = [since EXCEPT ![c] = 0]
  /\ began' = [began EXCEPT ![c] = 0]
  /\ read' = [read EXCEPT ![c] = <<>>]
  /\ answer' = [answer EXCEPT ![c] = r]
  /\ UNCHANGED world

Young(s, t) == s # Nothing /\ t - s.observedAt < Ttl

\* Mutant of Miss: the age was looked at before Lock and is not looked at
\* again under it.
MissUnchecked(c) ==
  /\ since[c] # 0 /\ mu = Nothing
  /\ mu' = c
  /\ began' = [began EXCEPT ![c] = Wall]
  /\ UNCHANGED <<value, since, read, answer, world>>

\* The cached snapshot is young: return it.  Nothing can change under the
\* mutex, so taking it, looking and returning are one step.
Hit(c) ==
  /\ since[c] # 0 /\ mu = Nothing
  /\ Young(value, Wall)
  /\ Return(c, Result(value, FALSE, FALSE))
  /\ UNCHANGED value

\* It is not: keep the mutex and fetch.
Miss(c) ==
  /\ since[c] # 0 /\ mu = Nothing
  /\ ~Young(value, Wall)
  /\ mu' = c
  /\ began' = [began EXCEPT ![c] = Wall]
  /\ UNCHANGED <<value, since, read, answer, world>>

\* One of the four reads succeeds.
ReadPart(c) ==
  /\ mu = c /\ Len(read[c]) < Parts
  /\ read' = [read EXCEPT ![c] = Append(@, clock)]
  /\ UNCHANGED <<cache, since, began, answer, world>>

\* Mutant of Fetched: the snapshot is dated when the fetch ends.
FetchedNow(c) == [observedAt |-> Wall, parts |-> read[c]]

Fetched(c) == [observedAt |-> began[c], parts |-> read[c]]

\* All four did: the snapshot replaces the cached one and is returned.
Install(c) ==
  /\ mu = c /\ Len(read[c]) = Parts
  /\ value' = Fetched(c)
  /\ Return(c, Result(Fetched(c), FALSE, FALSE))

\* Mutant of LastKnown: the old snapshot comes back unmarked.
LastKnownUnmarked(c) ==
  IF value # Nothing THEN Result(value, FALSE, FALSE)
                     ELSE Result(Nothing, FALSE, TRUE)

\* What Get returns when a read failed: the last snapshot, stale, if any.
LastKnown(c) ==
  IF value # Nothing THEN Result(value, TRUE, TRUE)
                     ELSE Result(Nothing, FALSE, TRUE)

\* Mutant of FailPart: the early return on an error does not Unlock.
FailPartLocked(c) ==
  /\ mu = c /\ Len(read[c]) < Parts
  /\ since' = [since EXCEPT ![c] = 0]
  /\ began' = [began EXCEPT ![c] = 0]
  /\ read' = [read EXCEPT ![c] = <<>>]
  /\ answer' = [answer EXCEPT ![c] = LastKnown(c)]
  /\ UNCHANGED <<cache, world>>

\* Mutant of FailPart: the snapshot is assembled in the cache itself.
FailPartCached(c) ==
  /\ mu = c /\ Len(read[c]) < Parts
  /\ Return(c, LastKnown(c))
  /\ value' = Fetched(c)

\* A read fails, times out or its context ends: the later ones are skipped
\* and what was read is dropped.
FailPart(c) ==
  /\ mu = c /\ Len(read[c]) < Parts
  /\ Return(c, LastKnown(c))
  /\ UNCHANGED value

Get(c) == Hit(c) \/ Miss(c) \/ ReadPart(c) \/ Install(c) \/ FailPart(c)

\* The process restarts: the cache is lost, and every request with it.
Restart ==
  /\ restarts < MaxRestarts
  /\ restarts' = restarts + 1
  /\ mu' = Nothing /\ value' = Nothing
  /\ since' = [c \in Callers |-> 0]
  /\ began' = [c \in Callers |-> 0]
  /\ read' = [c \in Callers |-> <<>>]
  /\ answer' = [c \in Callers |-> NoResult]
  /\ UNCHANGED <<clock, back, ahead>>

Tick ==
  /\ clock < MaxNow
  /\ clock' = clock + 1
  /\ UNCHANGED <<cache, local, back, ahead, restarts>>

\* The host's clock is set back by one (NTP step, administrator).
StepBack ==
  /\ back < MaxStepBack
  /\ back' = back + 1
  /\ UNCHANGED <<cache, local, clock, ahead, restarts>>

\* It is set forward by one.
StepForward ==
  /\ ahead < MaxStepForward
  /\ ahead' = ahead + 1
  /\ UNCHANGED <<cache, local, clock, back, restarts>>

Next ==
  \/ \E c \in Callers : Call(c) \/ Get(c)
  \/ Restart \/ Tick \/ StepBack \/ StepForward

Spec == Init /\ [][Next]_vars

\* A read ends: the HTTP client has a timeout.  A sync.Mutex in starvation
\* mode is handed to the oldest waiter, so each waiter gets it eventually:
\* strong fairness of the two steps that need it free.
Fairness ==
  \A c \in Callers :
    /\ WF_vars(ReadPart(c) \/ FailPart(c))
    /\ WF_vars(Install(c))
    /\ SF_vars(Hit(c) \/ Miss(c))

FairSpec == Spec /\ Fairness

-----------------------------------------------------------------------------
(* What is promised: SnapshotRegister, with the time a clock that was set  *)
(* back can add to a snapshot's life.                                      *)

PartsOf(s) == IF s = Nothing THEN Nothing ELSE s.parts

Register == INSTANCE SnapshotRegister WITH
  Ttl <- Ttl + MaxStepBack,
  last <- PartsOf(value),
  answer <- [c \in Callers |-> [snapshot |-> PartsOf(answer[c].snapshot),
                                stale |-> answer[c].stale,
                                failed |-> answer[c].err]]

\* Get implements the register: every answer is a complete observation made
\* for this call, or the last one while it is young, or the last one marked
\* stale with the error, or nothing with the error; partial fetches never
\* show, whatever fails, waits or restarts meanwhile.
Refines == Register!Spec

\* The cached snapshot is only ever replaced by one all of whose parts were
\* read after every part of the old one: a slow fetch never overwrites the
\* result of a later one.
ValueMovesForward ==
  [][value # Nothing /\ value' \notin {value, Nothing}
       => value.parts[Parts] <= value'.parts[1]]_vars

\* Traefik is asked for a new snapshot at most once per Ttl of the wall clock
\* while it answers, however many callers queue up behind a fetch.
FetchesSpaced ==
  [][value # Nothing /\ value' \notin {value, Nothing}
       => value'.observedAt - value.observedAt >= Ttl]_vars

\* The age of a snapshot as its ObservedAt (LastSuccessAt) tells it, and the
\* real age of the first of its reads.
ToldAge(s) == Wall - s.observedAt
RealAge(s) == clock - s.parts[1]

\* However long a fetch takes and however long its snapshot is kept or shown,
\* the age told for it falls short of the real one by no more than the host's
\* clock was set back: Get adds no error of its own, and a clock set forward
\* makes nothing look fresher.
AgeToldShortByClockOnly ==
  \A s \in {value} \cup {answer[c].snapshot : c \in Callers} :
    s # Nothing => RealAge(s) - ToldAge(s) <= back

\* Every call of Get returns, if Traefik answers or not.
CallersAnswered == \A c \in Callers : since[c] # 0 ~> since[c] = 0

\* README: "cached in memory for a short TTL".  What is returned unmarked was
\* read within the last Ttl, or since the call.
CachedForTtl ==
  [][\A c \in Callers :
       LET a == answer'[c] IN
       (since[c] # 0 /\ since'[c] = 0 /\ a.snapshot # Nothing /\ ~a.err)
         => \/ a.snapshot.parts[1] >= since[c]
            \/ clock - a.snapshot.parts[1] < Ttl]_vars

=============================================================================
