-------------------------- MODULE SnapshotRegister --------------------------
(***************************************************************************)
(* What the Traefik snapshot cache promises its callers, without saying    *)
(* how: a register that holds the last complete observation of Traefik.    *)
(*                                                                         *)
(* A caller gets one of four answers: an observation made for it, the last *)
(* one while it is young, the last one marked stale because Traefik cannot *)
(* be read, or nothing and an error when there never was one.  The         *)
(* register only moves to later observations, and a restart forgets it.    *)
(*                                                                         *)
(* An observation is the sequence of the times its parts were read at.     *)
(***************************************************************************)
EXTENDS Naturals, Sequences

CONSTANTS
  Callers,
  Parts,        \* how many parts an observation has
  Ttl,          \* an observation is young for this long
  Nothing,      \* no observation
  MaxNow        \* bound: the clock

VARIABLES
  last,         \* the last complete observation, or Nothing
  since,        \* caller -> time of its call, 0 when it has none open
  answer,       \* caller -> its last answer
  clock

vars == <<last, since, answer, clock>>

Times == 1..MaxNow

Observations == {s \in [1..Parts -> Times] :
                   \A i, j \in 1..Parts : i <= j => s[i] <= s[j]}

Answer(snapshot, stale, failed) ==
  [snapshot |-> snapshot, stale |-> stale, failed |-> failed]

NoAnswer == Answer(Nothing, FALSE, FALSE)

Init ==
  /\ last = Nothing
  /\ since = [c \in Callers |-> 0]
  /\ answer = [c \in Callers |-> NoAnswer]
  /\ clock = 1

\* A caller has at most one call open.
Ask(c) ==
  /\ since[c] = 0
  /\ since' = [since EXCEPT ![c] = clock]
  /\ answer' = [answer EXCEPT ![c] = NoAnswer]
  /\ UNCHANGED <<last, clock>>

Reply(c, a) ==
  /\ since[c] # 0
  /\ since' = [since EXCEPT ![c] = 0]
  /\ answer' = [answer EXCEPT ![c] = a]

\* The observation made for c began after c asked, and after every part of
\* the observation it replaces was read.
Observe(c) ==
  \E s \in Observations :
    /\ since[c] <= s[1] /\ s[Parts] <= clock
    /\ last # Nothing => last[Parts] <= s[1]
    /\ last' = s
    /\ Reply(c, Answer(s, FALSE, FALSE))
    /\ UNCHANGED clock

\* The oldest part of what is served unmarked is younger than Ttl.
Serve(c) ==
  /\ last # Nothing /\ clock - last[1] < Ttl
  /\ Reply(c, Answer(last, FALSE, FALSE))
  /\ UNCHANGED <<last, clock>>

FallBack(c) ==
  /\ last # Nothing
  /\ Reply(c, Answer(last, TRUE, TRUE))
  /\ UNCHANGED <<last, clock>>

Apologise(c) ==
  /\ last = Nothing
  /\ Reply(c, Answer(Nothing, FALSE, TRUE))
  /\ UNCHANGED <<last, clock>>

\* A restart loses the register and every open call.
Forget ==
  /\ last' = Nothing
  /\ since' = [c \in Callers |-> 0]
  /\ answer' = [c \in Callers |-> NoAnswer]
  /\ UNCHANGED clock

Tick ==
  /\ clock < MaxNow
  /\ clock' = clock + 1
  /\ UNCHANGED <<last, since, answer>>

Replies(c) == Observe(c) \/ Serve(c) \/ FallBack(c) \/ Apologise(c)

Next ==
  \/ \E c \in Callers : Ask(c) \/ Replies(c)
  \/ Forget \/ Tick

Spec == Init /\ [][Next]_vars

=============================================================================
