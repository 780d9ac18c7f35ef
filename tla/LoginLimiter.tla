---------------------------- MODULE LoginLimiter ----------------------------
(***************************************************************************)
(* The login throttle of internal/auth/auth.go: a bounded table of failed  *)
(* logins per client address, and the attempts that consult it.            *)
(*                                                                         *)
(* Each method holds the mutex for its whole body, so it is one step.  An  *)
(* attempt is not: Blocked, then the password verification, which is slow  *)
(* on purpose, then Failure or Success.  Attempts of one address overlap.  *)
(***************************************************************************)
EXTENDS Naturals, FiniteSets

CONSTANTS
  Ips,          \* client addresses
  Workers,      \* login requests being served
  Max,          \* entries in the table
  Threshold,    \* failures that block (5)
  Window,       \* a count of failures covers this time (15 minutes)
  BlockFor,     \* a block lasts this long (15 minutes)
  SweepAfter,   \* an entry this old may be swept (30 minutes)
  NoIp,         \* a worker without an attempt
  MaxNow,       \* bound: the clock
  MaxAttempts   \* bound: attempts that get past Blocked

ASSUME IpsAssumption == IsFiniteSet(Ips) /\ NoIp \notin Ips
ASSUME WorkersAssumption == IsFiniteSet(Workers)
ASSUME LimitsAssumption ==
  /\ Max \in Nat \ {0} /\ Threshold \in Nat \ {0}
  /\ Window \in Nat /\ BlockFor \in Nat /\ SweepAfter \in Nat
  /\ SweepAfter >= Window + BlockFor
(* A block that ends with the window of its first failure, or later, and does *)
(* last: otherwise one window could hold any number of blocks.               *)
ASSUME BlockAssumption == BlockFor >= Window /\ BlockFor # 0
ASSUME BoundsAssumption == MaxNow \in Nat \ {0} /\ MaxAttempts \in Nat

VARIABLES
  entries,    \* address -> its entry, Zero when it has none
  now,        \* the clock, 0 is the zero time
  attempt,    \* worker -> address whose password is being verified, or NoIp
  attempts,   \* attempts let past Blocked so far
  ledger,     \* address -> the entry a table without bound would hold (history)
  dropped     \* addresses with a failure not stored since their last success (history)

vars == <<entries, now, attempt, attempts, ledger, dropped>>

Entry == [failures : Nat, first : Nat, blocked : Nat]
Zero == [failures |-> 0, first |-> 0, blocked |-> 0]

TypeOK ==
  /\ entries \in [Ips -> Entry]
  /\ now \in Nat \ {0}
  /\ attempt \in [Workers -> Ips \cup {NoIp}]
  /\ attempts \in Nat
  /\ ledger \in [Ips -> Entry]
  /\ dropped \subseteq Ips

Init ==
  /\ entries = [ip \in Ips |-> Zero]
  /\ now = 1
  /\ attempt = [w \in Workers |-> NoIp]
  /\ attempts = 0
  /\ ledger = [ip \in Ips |-> Zero]
  /\ dropped = {}

Stored(table) == {ip \in Ips : table[ip] # Zero}
Active(e, t) == t < e.blocked
Lapsed(e, t) == t - e.first > Window

(* Mutant: a block is set by the fifth failure only. *)
CountedOnce(e, t) ==
  LET f == IF e.first = 0 \/ Lapsed(e, t)
             THEN [failures |-> 1, first |-> t, blocked |-> 0]
             ELSE [e EXCEPT !.failures = @ + 1, !.blocked = 0]
  IN  IF f.failures = Threshold THEN [f EXCEPT !.blocked = t + BlockFor] ELSE f

(* The entry after one more failure at time t. *)
Counted(e, t) ==
  LET f == IF e.first = 0 \/ Lapsed(e, t)
             THEN [failures |-> 1, first |-> t, blocked |-> 0]
             ELSE [e EXCEPT !.failures = @ + 1]
  IN  IF f.failures >= Threshold THEN [f EXCEPT !.blocked = t + BlockFor] ELSE f

(* Mutant: swept as soon as the window has passed. *)
SweptEarly(table) ==
  [ip \in Ips |-> IF table[ip] # Zero /\ now - table[ip].first > Window
                    THEN Zero ELSE table[ip]]

(* A full table gives up its old entries. *)
Swept(table) ==
  [ip \in Ips |-> IF table[ip] # Zero /\ now - table[ip].first > SweepAfter
                    THEN Zero ELSE table[ip]]

Full(table) == Cardinality(Stored(table)) >= Max

(* Mutant: the table is swept when it is full, and the entry stored anyway. *)
StoreAlways(ip, e) ==
  LET room == IF Full(entries) THEN Swept(entries) ELSE entries
  IN  entries' = [room EXCEPT ![ip] = e]

(* A table that stays full takes no entry, not even one it already has. *)
Store(ip, e) ==
  LET room == IF Full(entries) THEN Swept(entries) ELSE entries
  IN  entries' = IF Full(room) THEN room ELSE [room EXCEPT ![ip] = e]

-----------------------------------------------------------------------------
(* Blocked reads the clock twice; an entry whose window has passed is removed. *)

Refuse(ip) ==
  /\ Active(entries[ip], now)
  /\ UNCHANGED vars

(* Mutant: a block is looked up after its entry has been tidied away. *)
AdmitTidyFirst(w, ip) ==
  /\ attempt[w] = NoIp /\ attempts < MaxAttempts
  /\ ~Active(entries[ip], now) \/ Lapsed(entries[ip], now)
  /\ now' = now
  /\ entries' = IF entries[ip] # Zero /\ Lapsed(entries[ip], now)
                  THEN [entries EXCEPT ![ip] = Zero] ELSE entries
  /\ attempt' = [attempt EXCEPT ![w] = ip]
  /\ attempts' = attempts + 1
  /\ UNCHANGED <<ledger, dropped>>

Admit(w, ip) ==
  /\ attempt[w] = NoIp /\ attempts < MaxAttempts
  /\ ~Active(entries[ip], now)
  /\ now' \in now .. MaxNow
  /\ entries' = IF entries[ip] # Zero /\ Lapsed(entries[ip], now')
                  THEN [entries EXCEPT ![ip] = Zero] ELSE entries
  /\ attempt' = [attempt EXCEPT ![w] = ip]
  /\ attempts' = attempts + 1
  /\ UNCHANGED <<ledger, dropped>>

Failure(w) ==
  LET ip == attempt[w] IN
    /\ ip # NoIp
    /\ Store(ip, Counted(entries[ip], now))
    /\ ledger' = [ledger EXCEPT ![ip] = Counted(ledger[ip], now)]
    /\ dropped' = IF entries'[ip] = Counted(entries[ip], now)
                    THEN dropped ELSE dropped \cup {ip}
    /\ attempt' = [attempt EXCEPT ![w] = NoIp]
    /\ UNCHANGED <<now, attempts>>

(* Mutant: a success makes good for one failure. *)
SuccessForgivesOne(w) ==
  LET ip == attempt[w] IN
    /\ ip # NoIp
    /\ entries' = [entries EXCEPT ![ip].failures = @ - 1]
    /\ ledger' = [ledger EXCEPT ![ip] = Zero]
    /\ dropped' = dropped \ {ip}
    /\ attempt' = [attempt EXCEPT ![w] = NoIp]
    /\ UNCHANGED <<now, attempts>>

Success(w) ==
  LET ip == attempt[w] IN
    /\ ip # NoIp
    /\ entries' = [entries EXCEPT ![ip] = Zero]
    /\ ledger' = [ledger EXCEPT ![ip] = Zero]
    /\ dropped' = dropped \ {ip}
    /\ attempt' = [attempt EXCEPT ![w] = NoIp]
    /\ UNCHANGED <<now, attempts>>

Tick ==
  /\ now < MaxNow
  /\ now' = now + 1
  /\ UNCHANGED <<entries, attempt, attempts, ledger, dropped>>

Next ==
  \/ \E ip \in Ips : Refuse(ip)
  \/ \E w \in Workers, ip \in Ips : Admit(w, ip)
  \/ \E w \in Workers : Failure(w) \/ Success(w)
  \/ Tick

Spec == Init /\ [][Next]_vars

-----------------------------------------------------------------------------
(* Properties. *)

(* The table never exceeds its bound: Failure may sweep, store or give up.   *)
TableBounded == Cardinality(Stored(entries)) <= Max

(* A block can outlive the window in which it was earned, but not by so much *)
(* that the sweep of a full table, which looks at the first failure only,    *)
(* could remove it while it lasts.                                           *)
BlockWithinReach ==
  \A ip \in Ips : entries[ip].blocked # 0 =>
    entries[ip].blocked <= entries[ip].first + Window + BlockFor

(* A block lasts until its time has come, whatever is swept, tidied or       *)
(* stored for other addresses.  Only an attempt of the same address that was *)
(* let in before the block can end it: by succeeding, or by failing so late  *)
(* that it opens a new window.                                               *)
BlockHolds ==
  [][\A ip \in Ips : Active(entries[ip], now) =>
       \/ now' >= entries[ip].blocked
       \/ entries'[ip].blocked >= entries[ip].blocked
       \/ \E w \in Workers :
            /\ attempt[w] = ip /\ attempt'[w] = NoIp
            /\ entries'[ip] = Zero \/ Lapsed(entries[ip], now)]_vars

(* No block reaches further than one period from now: a locked-out address   *)
(* is let in again although nobody clears its entry.                         *)
BlockIsShort == \A ip \in Ips : entries[ip].blocked <= now + BlockFor

(* Overlapping attempts of one address may all have been let in before the   *)
(* failure that blocks, and once more at the instant at which the block and  *)
(* the window end together; no more than that is ever tried in one window,   *)
(* as long as a full table drops none of its failures.                       *)
GuessesBounded ==
  \A ip \in Ips \ dropped :
    ledger[ip].failures <= Threshold - 1 + 2 * Cardinality(Workers)

(* An address none of whose failures was dropped is blocked exactly when it  *)
(* would be by a table that keeps every entry, whatever was swept, tidied or *)
(* stored for the others.                                                    *)
BlockedExactlyWhenDue ==
  \A ip \in Ips \ dropped : Active(entries[ip], now) <=> Active(ledger[ip], now)

(* What the test of the threshold asserts after the fifth failure: the       *)
(* address is blocked ("not blocked at threshold").                          *)
BlockedAtThreshold ==
  \A ip \in Ips : Active(ledger[ip], now) => Active(entries[ip], now)
=============================================================================
