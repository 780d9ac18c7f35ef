------------------------- MODULE LoginLimiterProofs -------------------------
(* Proofs about LoginLimiter, for any number of addresses and attempts, any  *)
(* table size and any durations with SweepAfter >= Window + BlockFor.        *)
EXTENDS LoginLimiter, FiniteSetTheorems, TLAPS

(* The block of an entry is within reach of its first failure and of now.    *)
EntryOK(e, t) ==
  /\ e \in Entry
  /\ e.first <= t
  /\ e.blocked <= e.first + Window + BlockFor
  /\ e.blocked <= t + BlockFor
  /\ e.first = 0 => e.blocked = 0

LimiterInv ==
  /\ TypeOK
  /\ \A ip \in Ips : EntryOK(entries[ip], now)
  /\ TableBounded

(* An absent entry satisfies the invariant at any time. *)
LEMMA ZeroOK == ASSUME NEW t \in Nat PROVE EntryOK(Zero, t)
BY LimitsAssumption DEF EntryOK, Zero, Entry

(* A new block reaches at most one period beyond the window.                 *)
LEMMA CountedOK ==
  ASSUME NEW e \in Entry, NEW t \in Nat \ {0}, EntryOK(e, t)
  PROVE  EntryOK(Counted(e, t), t)
<1> DEFINE f == IF e.first = 0 \/ Lapsed(e, t)
                  THEN [failures |-> 1, first |-> t, blocked |-> 0]
                  ELSE [e EXCEPT !.failures = @ + 1]
<1>1. f \in Entry /\ EntryOK(f, t) /\ t <= f.first + Window /\ f.first # 0
  <2>1. CASE e.first = 0 \/ Lapsed(e, t)
    BY <2>1, LimitsAssumption DEF EntryOK, Entry
  <2>2. CASE ~(e.first = 0 \/ Lapsed(e, t))
    <3>1. f = [e EXCEPT !.failures = @ + 1]
      BY <2>2
    <3>2. f \in Entry /\ f.first = e.first /\ f.blocked = e.blocked
      BY <3>1 DEF Entry
    <3>3. t <= e.first + Window
      BY <2>2, LimitsAssumption DEF Lapsed, Entry, EntryOK
    <3>4. QED
      BY <3>2, <3>3 DEF EntryOK
  <2>3. QED
    BY <2>1, <2>2
<1>2. Counted(e, t) = IF f.failures >= Threshold THEN [f EXCEPT !.blocked = t + BlockFor] ELSE f
  BY DEF Counted
<1> HIDE DEF f
<1>3. LET g == [f EXCEPT !.blocked = t + BlockFor] IN
        g \in Entry /\ g.first = f.first /\ g.blocked = t + BlockFor
  BY <1>1, LimitsAssumption DEF Entry
<1>4. EntryOK([f EXCEPT !.blocked = t + BlockFor], t)
  <2>1. f.first \in Nat
    BY <1>1 DEF Entry
  <2>2. QED
    BY <1>1, <1>3, <2>1, LimitsAssumption DEF EntryOK
<1>5. QED
  BY <1>1, <1>2, <1>4

(* The sweep leaves entries or removes them. *)
LEMMA SweptOK ==
  ASSUME LimiterInv
  PROVE  /\ Swept(entries) \in [Ips -> Entry]
         /\ \A ip \in Ips : Swept(entries)[ip] \in {entries[ip], Zero}
         /\ Stored(Swept(entries)) \subseteq Stored(entries)
BY DEF LimiterInv, TypeOK, Swept, Stored, Zero, Entry

(* The table is finite, and its size a number. *)
LEMMA StoredFinite ==
  ASSUME NEW table \in [Ips -> Entry]
  PROVE  IsFiniteSet(Stored(table)) /\ Cardinality(Stored(table)) \in Nat
<1>1. IsFiniteSet(Stored(table))
  BY IpsAssumption, FS_Subset DEF Stored
<1>2. QED
  BY <1>1, FS_CardinalityType

(* Storing an entry where there is room keeps the table within its bound.    *)
LEMMA RoomForOne ==
  ASSUME NEW table \in [Ips -> Entry], NEW ip \in Ips, NEW e \in Entry, ~Full(table)
  PROVE  Cardinality(Stored([table EXCEPT ![ip] = e])) <= Max
<1> DEFINE new == [table EXCEPT ![ip] = e]
<1>1. IsFiniteSet(Stored(table)) /\ Cardinality(Stored(table)) \in Nat
  BY StoredFinite
<1>2. new \in [Ips -> Entry]
  OBVIOUS
<1>3. IsFiniteSet(Stored(new)) /\ Cardinality(Stored(new)) \in Nat
  BY <1>2, StoredFinite
<1>4. Stored(new) \subseteq Stored(table) \cup {ip}
  BY DEF Stored
<1>5. /\ IsFiniteSet(Stored(table) \cup {ip})
      /\ Cardinality(Stored(table) \cup {ip}) \in Nat
      /\ Cardinality(Stored(table) \cup {ip}) <= Cardinality(Stored(table)) + 1
  <2>1. /\ IsFiniteSet(Stored(table) \cup {ip})
        /\ Cardinality(Stored(table) \cup {ip}) =
             IF ip \in Stored(table) THEN Cardinality(Stored(table))
                                     ELSE Cardinality(Stored(table)) + 1
    BY <1>1, FS_AddElement
  <2>2. QED
    BY <1>1, <2>1
<1>6. Cardinality(Stored(new)) <= Cardinality(Stored(table) \cup {ip})
  BY <1>4, <1>5, FS_Subset
<1>7. Cardinality(Stored(table)) < Max
  BY <1>1, LimitsAssumption DEF Full
<1>8. QED
  BY <1>1, <1>3, <1>5, <1>6, <1>7, LimitsAssumption

(* Store keeps entries well-formed and within the bound. *)
LEMMA StoreOK ==
  ASSUME LimiterInv, NEW ip \in Ips, NEW e \in Entry, EntryOK(e, now), Store(ip, e)
  PROVE  /\ entries' \in [Ips -> Entry]
         /\ \A k \in Ips : EntryOK(entries'[k], now)
         /\ TableBounded'
<1> DEFINE room == IF Full(entries) THEN Swept(entries) ELSE entries
<1>1. now \in Nat /\ entries \in [Ips -> Entry]
  BY DEF LimiterInv, TypeOK
<1>2. /\ room \in [Ips -> Entry]
      /\ \A k \in Ips : EntryOK(room[k], now)
      /\ Stored(room) \subseteq Stored(entries)
  BY <1>1, SweptOK, ZeroOK DEF LimiterInv
<1>3. Cardinality(Stored(room)) <= Max
  <2>1. Cardinality(Stored(room)) <= Cardinality(Stored(entries))
    BY <1>1, <1>2, StoredFinite, FS_Subset
  <2>2. /\ Cardinality(Stored(room)) \in Nat /\ Cardinality(Stored(entries)) \in Nat
        /\ Cardinality(Stored(entries)) <= Max
    BY <1>1, <1>2, StoredFinite DEF LimiterInv, TableBounded
  <2>3. QED
    BY <2>1, <2>2, LimitsAssumption
<1>4. entries' = IF Full(room) THEN room ELSE [room EXCEPT ![ip] = e]
  BY DEF Store
<1> HIDE DEF room
<1>5. CASE Full(room)
  BY <1>2, <1>3, <1>4, <1>5 DEF TableBounded
<1>6. CASE ~Full(room)
  <2>1. Cardinality(Stored([room EXCEPT ![ip] = e])) <= Max
    BY <1>2, <1>6, RoomForOne
  <2>2. QED
    BY <1>2, <1>4, <1>6, <2>1 DEF TableBounded
<1>7. QED
  BY <1>5, <1>6

(* The invariant holds for an empty table. *)
LEMMA LimiterInvInit == Init => LimiterInv
<1> SUFFICES ASSUME Init PROVE LimiterInv
  OBVIOUS
<1>1. TypeOK /\ \A ip \in Ips : EntryOK(entries[ip], now)
  BY ZeroOK DEF Init, TypeOK, Entry, Zero
<1>2. Stored(entries) = {}
  BY DEF Init, Stored
<1>3. TableBounded
  BY <1>2, FS_EmptySet, LimitsAssumption DEF TableBounded
<1>4. QED
  BY <1>1, <1>3 DEF LimiterInv

(* Removing an entry.                                                        *)
LEMMA RemoveOK ==
  ASSUME LimiterInv, NEW ip \in Ips, entries' = [entries EXCEPT ![ip] = Zero]
  PROVE  /\ entries' \in [Ips -> Entry]
         /\ \A k \in Ips : entries'[k] \in {entries[k], Zero}
         /\ TableBounded'
<1>1. entries \in [Ips -> Entry] /\ entries' \in [Ips -> Entry]
  BY DEF LimiterInv, TypeOK, Zero, Entry
<1>2. Stored(entries') \subseteq Stored(entries)
  BY <1>1 DEF Stored
<1>3. /\ Cardinality(Stored(entries')) <= Cardinality(Stored(entries))
      /\ Cardinality(Stored(entries')) \in Nat /\ Cardinality(Stored(entries)) \in Nat
  BY <1>1, <1>2, StoredFinite, FS_Subset
<1>4. QED
  BY <1>1, <1>3, LimitsAssumption DEF LimiterInv, TableBounded

(* And every method, and time, keeps it. *)
LEMMA LimiterInvNext == LimiterInv /\ [Next]_vars => LimiterInv'
<1> SUFFICES ASSUME LimiterInv, [Next]_vars PROVE LimiterInv'
  OBVIOUS
<1>0. TypeOK /\ now \in Nat \ {0} /\ \A ip \in Ips : entries[ip] \in Entry /\ EntryOK(entries[ip], now)
  BY DEF LimiterInv, TypeOK
<1>1. ASSUME NEW w \in Workers, NEW ip \in Ips, Admit(w, ip) PROVE LimiterInv'
  <2>1. now' \in Nat \ {0} /\ now <= now'
    BY <1>0, <1>1, BoundsAssumption DEF Admit
  <2>2. /\ entries' \in [Ips -> Entry]
        /\ \A k \in Ips : entries'[k] \in {entries[k], Zero}
        /\ TableBounded'
    <3>1. CASE entries' = entries
      BY <1>0, <3>1 DEF LimiterInv, TypeOK, TableBounded
    <3>2. CASE entries' = [entries EXCEPT ![ip] = Zero]
      BY <3>2, RemoveOK
    <3>3. QED
      BY <1>1, <3>1, <3>2 DEF Admit
  <2>3. \A k \in Ips : EntryOK(entries'[k], now')
    <3>1. \A k \in Ips : EntryOK(entries[k], now')
      BY <1>0, <2>1, LimitsAssumption DEF EntryOK, Entry
    <3>2. EntryOK(Zero, now')
      BY <2>1, ZeroOK
    <3>3. QED
      BY <2>2, <3>1, <3>2
  <2>4. TypeOK'
    BY <1>0, <1>1, <2>1, <2>2 DEF Admit, TypeOK
  <2>5. QED
    BY <2>2, <2>3, <2>4 DEF LimiterInv
<1>2. ASSUME NEW w \in Workers, Failure(w) PROVE LimiterInv'
  <2> DEFINE ip == attempt[w]
  <2>1. ip \in Ips
    BY <1>0, <1>2 DEF Failure, TypeOK
  <2>2. EntryOK(Counted(entries[ip], now), now)
    BY <1>0, <2>1, CountedOK
  <2>3. /\ entries' \in [Ips -> Entry]
        /\ \A k \in Ips : EntryOK(entries'[k], now)
        /\ TableBounded'
    BY <1>2, <2>1, <2>2, StoreOK DEF Failure, EntryOK
  <2>4. Counted(ledger[ip], now) \in Entry
    BY <1>0, <2>1, LimitsAssumption DEF Counted, TypeOK, Entry
  <2>5. TypeOK'
    BY <1>0, <1>2, <2>1, <2>3, <2>4 DEF Failure, TypeOK
  <2>6. QED
    BY <1>2, <2>3, <2>5 DEF Failure, LimiterInv
<1>3. ASSUME NEW w \in Workers, Success(w) PROVE LimiterInv'
  <2> DEFINE ip == attempt[w]
  <2>1. ip \in Ips
    BY <1>0, <1>3 DEF Success, TypeOK
  <2>2. /\ entries' \in [Ips -> Entry]
        /\ \A k \in Ips : entries'[k] \in {entries[k], Zero}
        /\ TableBounded'
    BY <1>3, <2>1, RemoveOK DEF Success
  <2>3. \A k \in Ips : EntryOK(entries'[k], now)
    BY <1>0, <2>2, ZeroOK
  <2>4. TypeOK'
    BY <1>0, <1>3, <2>1, <2>2 DEF Success, TypeOK, Zero, Entry
  <2>5. QED
    BY <1>3, <2>2, <2>3, <2>4 DEF Success, LimiterInv
<1>4. CASE Tick
  <2>1. \A k \in Ips : EntryOK(entries[k], now + 1)
    BY <1>0, LimitsAssumption DEF EntryOK, Entry
  <2>2. QED
    BY <1>0, <1>4, <2>1 DEF Tick, LimiterInv, TypeOK, TableBounded
<1>5. CASE UNCHANGED vars
  BY <1>5 DEF vars, LimiterInv, TypeOK, TableBounded
<1>6. QED
  BY <1>1, <1>2, <1>3, <1>4, <1>5 DEF Next, Refuse

(* Entries, clock, attempts and ledger keep their types.                     *)
THEOREM TypeCorrect == Spec => []TypeOK
<1>1. LimiterInv => TypeOK
  BY DEF LimiterInv
<1>2. QED
  BY <1>1, LimiterInvInit, LimiterInvNext, PTL DEF Spec

(* The table stays within its bound, whatever addresses fail and when.       *)
THEOREM TableAlwaysBounded == Spec => []TableBounded
<1>1. LimiterInv => TableBounded
  BY DEF LimiterInv
<1>2. QED
  BY <1>1, LimiterInvInit, LimiterInvNext, PTL DEF Spec

(* An entry that holds a block is younger than the sweep's age.              *)
THEOREM BlockAlwaysWithinReach == Spec => []BlockWithinReach
<1>1. LimiterInv => BlockWithinReach
  BY DEF LimiterInv, EntryOK, BlockWithinReach
<1>2. QED
  BY <1>1, LimiterInvInit, LimiterInvNext, PTL DEF Spec

(* A locked-out address is let in again one period after its last failure at *)
(* the latest: blocks set by further failures do not add up.                 *)
THEOREM BlockAlwaysShort == Spec => []BlockIsShort
<1>1. LimiterInv => BlockIsShort
  BY DEF LimiterInv, EntryOK, BlockIsShort
<1>2. QED
  BY <1>1, LimiterInvInit, LimiterInvNext, PTL DEF Spec

(* A block lasts its time: neither the sweep nor the tidying of Blocked can  *)
(* end it.                                                                    *)
THEOREM BlockAlwaysHolds == Spec => BlockHolds
<1> DEFINE Holds ==
      \A ip \in Ips : Active(entries[ip], now) =>
        \/ now' >= entries[ip].blocked
        \/ entries'[ip].blocked >= entries[ip].blocked
        \/ \E w \in Workers :
             /\ attempt[w] = ip /\ attempt'[w] = NoIp
             /\ entries'[ip] = Zero \/ Lapsed(entries[ip], now)
<1>1. ASSUME LimiterInv, [Next]_vars PROVE [Holds]_vars
  <2> SUFFICES ASSUME Next, NEW ip \in Ips, Active(entries[ip], now)
               PROVE  \/ entries'[ip].blocked >= entries[ip].blocked
                      \/ \E w \in Workers :
                           /\ attempt[w] = ip /\ attempt'[w] = NoIp
                           /\ entries'[ip] = Zero \/ Lapsed(entries[ip], now)
    BY <1>1
  <2>1. /\ TypeOK /\ now \in Nat /\ entries[ip] \in Entry
        /\ EntryOK(entries[ip], now)
        /\ entries[ip].blocked \in Nat /\ entries[ip].first \in Nat
    BY <1>1 DEF LimiterInv, TypeOK, Entry
  <2>2. ASSUME entries'[ip] = entries[ip] PROVE entries'[ip].blocked >= entries[ip].blocked
    BY <2>1, <2>2
  <2>3. Swept(entries)[ip] = entries[ip]
    BY <2>1, LimitsAssumption DEF Swept, EntryOK, Active
  <2>4. ASSUME NEW w \in Workers, NEW k \in Ips, Admit(w, k)
        PROVE  entries'[ip] = entries[ip]
    BY <2>1, <2>4 DEF Admit, TypeOK
  <2>5. ASSUME NEW w \in Workers, Success(w)
        PROVE  \/ entries'[ip] = entries[ip]
               \/ attempt[w] = ip /\ attempt'[w] = NoIp /\ entries'[ip] = Zero
    <3>1. /\ attempt \in [Workers -> Ips \cup {NoIp}] /\ entries \in [Ips -> Entry]
          /\ attempt'[w] = NoIp
          /\ entries' = [entries EXCEPT ![attempt[w]] = Zero]
      BY <2>1, <2>5 DEF Success, TypeOK
    <3>2. CASE attempt[w] = ip
      BY <3>1, <3>2
    <3>3. CASE attempt[w] # ip
      BY <3>1, <3>3
    <3>4. QED
      BY <3>2, <3>3
  <2>6. ASSUME NEW w \in Workers, Failure(w)
        PROVE  \/ entries'[ip].blocked >= entries[ip].blocked
               \/ attempt[w] = ip /\ attempt'[w] = NoIp /\ Lapsed(entries[ip], now)
    <3> DEFINE room == IF Full(entries) THEN Swept(entries) ELSE entries
               c == Counted(entries[attempt[w]], now)
    <3>1. /\ room \in [Ips -> Entry] /\ room[ip] = entries[ip]
      BY <1>1, <2>1, <2>3, SweptOK DEF TypeOK
    <3>2. /\ attempt[w] \in Ips /\ attempt'[w] = NoIp
          /\ entries' = IF Full(room) THEN room ELSE [room EXCEPT ![attempt[w]] = c]
      BY <2>1, <2>6 DEF Failure, Store, TypeOK
    <3> HIDE DEF room
    <3>3. CASE Full(room) \/ attempt[w] # ip
      BY <2>2, <3>1, <3>2, <3>3
    <3>4. CASE ~Full(room) /\ attempt[w] = ip /\ ~Lapsed(entries[ip], now)
      <4>1. entries'[ip] = c
        BY <3>1, <3>2, <3>4
      <4>2. entries[ip].first # 0
        BY <2>1 DEF Active, EntryOK
      <4>3. c.blocked \in {entries[ip].blocked, now + BlockFor}
        BY <2>1, <3>4, <4>2 DEF Counted, Entry
      <4>4. QED
        BY <2>1, <4>1, <4>3, LimitsAssumption DEF EntryOK
    <3>5. QED
      BY <3>2, <3>3, <3>4
  <2>7. ASSUME UNCHANGED entries PROVE entries'[ip] = entries[ip]
    BY <2>7
  <2>8. QED
    BY <2>2, <2>4, <2>5, <2>6, <2>7 DEF Next, Refuse, Tick, vars
<1>2. QED
  BY <1>1, LimiterInvInit, LimiterInvNext, PTL DEF Spec, BlockHolds

(* An address none of whose failures was dropped has the entry of a table    *)
(* without bound, or none where that one has lost its meaning.               *)
AgreesAt(e, l, t) ==
  e = l \/ (e = Zero /\ Lapsed(l, t) /\ ~Active(l, t))

Agree == \A ip \in Ips \ dropped : AgreesAt(entries[ip], ledger[ip], now)

(* One more failure makes entries that agree equal.                          *)
LEMMA CountedAgrees ==
  ASSUME NEW e \in Entry, NEW l \in Entry, NEW t \in Nat, AgreesAt(e, l, t)
  PROVE  Counted(e, t) = Counted(l, t)
BY DEF AgreesAt, Counted, Zero, Lapsed

(* Time does not part entries that agree.                                    *)
LEMMA LaterAgrees ==
  ASSUME NEW e \in Entry, NEW l \in Entry, NEW t \in Nat, NEW u \in Nat, t <= u,
         AgreesAt(e, l, t)
  PROVE  AgreesAt(e, l, u)
BY LimitsAssumption DEF AgreesAt, Lapsed, Active, Entry

(* Removing an entry that is neither counting nor blocking keeps agreement.  *)
LEMMA RemovedAgrees ==
  ASSUME NEW e \in Entry, NEW l \in Entry, NEW t \in Nat, AgreesAt(e, l, t),
         e # Zero => Lapsed(e, t) /\ ~Active(e, t)
  PROVE  AgreesAt(Zero, l, t)
BY DEF AgreesAt

(* The sweep of a full table takes no other entries than these.              *)
LEMMA SweptLapsed ==
  ASSUME LimiterInv, NEW ip \in Ips, entries[ip] # Zero, Swept(entries)[ip] = Zero
  PROVE  Lapsed(entries[ip], now) /\ ~Active(entries[ip], now)
<1>1. now \in Nat /\ entries[ip] \in Entry /\ EntryOK(entries[ip], now)
  BY DEF LimiterInv, TypeOK
<1>2. now - entries[ip].first > SweepAfter
  BY DEF Swept
<1>3. QED
  BY <1>1, <1>2, LimitsAssumption DEF EntryOK, Entry, Lapsed, Active

(* Agreement holds at first, and every method, and time, keeps it.           *)
LEMMA AgreeNext == LimiterInv /\ Agree /\ [Next]_vars => Agree'
<1> SUFFICES ASSUME LimiterInv, Agree, [Next]_vars PROVE Agree'
  OBVIOUS
<1>0. /\ TypeOK /\ now \in Nat /\ dropped \subseteq Ips
      /\ entries \in [Ips -> Entry] /\ ledger \in [Ips -> Entry]
      /\ \A k \in Ips : entries[k] \in Entry /\ ledger[k] \in Entry
  BY DEF LimiterInv, TypeOK
<1>1. ASSUME NEW w \in Workers, NEW ip \in Ips, Admit(w, ip) PROVE Agree'
  <2>1. now' \in Nat /\ now <= now' /\ ledger' = ledger /\ dropped' = dropped
    BY <1>0, <1>1, BoundsAssumption DEF Admit
  <2> SUFFICES ASSUME NEW k \in Ips \ dropped PROVE AgreesAt(entries'[k], ledger[k], now')
    BY <2>1 DEF Agree
  <2>2. AgreesAt(entries[k], ledger[k], now')
    BY <1>0, <2>1, LaterAgrees DEF Agree
  <2>3. CASE entries'[k] = entries[k]
    BY <2>2, <2>3
  <2>4. CASE entries'[k] # entries[k]
    <3>1. k = ip /\ entries'[k] = Zero /\ Lapsed(entries[k], now')
      BY <1>0, <1>1, <2>4 DEF Admit
    <3>2. ~Active(entries[k], now')
      BY <1>0, <1>1, <2>1, <3>1 DEF Admit, Active, Entry
    <3>3. QED
      BY <1>0, <2>1, <2>2, <3>1, <3>2, RemovedAgrees
  <2>5. QED
    BY <2>3, <2>4
<1>2. ASSUME NEW w \in Workers, Failure(w) PROVE Agree'
  <2> DEFINE ip == attempt[w]
             room == IF Full(entries) THEN Swept(entries) ELSE entries
             c == Counted(entries[ip], now)
  <2>1. /\ ip \in Ips /\ now' = now
        /\ entries' = IF Full(room) THEN room ELSE [room EXCEPT ![ip] = c]
        /\ ledger' = [ledger EXCEPT ![ip] = Counted(ledger[ip], now)]
        /\ dropped' = IF entries'[ip] = c THEN dropped ELSE dropped \cup {ip}
    BY <1>0, <1>2 DEF Failure, Store, TypeOK
  <2>2. /\ room \in [Ips -> Entry]
        /\ \A k \in Ips : room[k] = entries[k] \/ (room[k] = Zero /\ Swept(entries)[k] = Zero)
    BY <1>0, SweptOK
  <2> HIDE DEF ip, room, c
  <2> SUFFICES ASSUME NEW k \in Ips \ dropped' PROVE AgreesAt(entries'[k], ledger'[k], now)
    BY <2>1 DEF Agree
  <2>3. k \in Ips /\ k \notin dropped /\ AgreesAt(entries[k], ledger[k], now)
    BY <2>1 DEF Agree
  <2>4. CASE k = ip
    <3>1. entries'[k] = Counted(entries[k], now) /\ ledger'[k] = Counted(ledger[k], now)
      BY <1>0, <2>1, <2>4 DEF c
    <3>2. QED
      BY <1>0, <2>3, <3>1, CountedAgrees DEF AgreesAt
  <2>5. CASE k # ip
    <3>1. entries'[k] = room[k] /\ ledger'[k] = ledger[k]
      BY <1>0, <2>1, <2>2, <2>5
    <3>2. CASE room[k] = entries[k]
      BY <2>3, <3>1, <3>2
    <3>3. CASE room[k] = Zero /\ Swept(entries)[k] = Zero
      <4>1. entries[k] # Zero => Lapsed(entries[k], now) /\ ~Active(entries[k], now)
        BY <2>3, <3>3, SweptLapsed
      <4>2. QED
        BY <1>0, <2>3, <3>1, <3>3, <4>1, RemovedAgrees
    <3>4. QED
      BY <2>2, <2>3, <3>2, <3>3
  <2>6. QED
    BY <2>4, <2>5
<1>3. ASSUME NEW w \in Workers, Success(w) PROVE Agree'
  BY <1>0, <1>3 DEF Success, Agree, AgreesAt, TypeOK
<1>4. CASE Tick
  <2>1. now' = now + 1 /\ UNCHANGED <<entries, ledger, dropped>>
    BY <1>4 DEF Tick
  <2>2. \A k \in Ips \ dropped : AgreesAt(entries[k], ledger[k], now + 1)
    BY <1>0, LaterAgrees DEF Agree
  <2>3. QED
    BY <2>1, <2>2 DEF Agree
<1>5. CASE UNCHANGED vars
  BY <1>5 DEF vars, Agree
<1>6. QED
  BY <1>1, <1>2, <1>3, <1>4, <1>5 DEF Next, Refuse

(* The bounded table blocks an address exactly when a table that keeps every *)
(* entry would, as long as none of the address's failures was dropped: what  *)
(* Blocked tidies and Failure sweeps never counts or blocks any more.        *)
THEOREM AlwaysBlockedExactlyWhenDue == Spec => []BlockedExactlyWhenDue
<1>1. Init => Agree
  BY DEF Init, Agree, AgreesAt
<1>2. LimiterInv /\ Agree => BlockedExactlyWhenDue
  BY LimitsAssumption DEF LimiterInv, TypeOK, Agree, AgreesAt, BlockedExactlyWhenDue, Active, Zero, Entry
<1>3. QED
  BY <1>1, <1>2, LimiterInvInit, LimiterInvNext, AgreeNext, PTL DEF Spec
(* The attempts of an address that are being verified.                       *)
InFlight(ip) == {w \in Workers : attempt[w] = ip}

Flying(ip) == Cardinality(InFlight(ip))

N == Cardinality(Workers)

(* What a window has let in.  Below the threshold anything is let in, but    *)
(* never more than N at once.  At the threshold nothing more is, so counted  *)
(* and flying together stay within Threshold - 1 + N; the exception is the   *)
(* instant at which the block of failures that all came with the first one   *)
(* ends and the window does not: then N more are let in, and the block the   *)
(* next of them sets reaches beyond the window.                              *)
GuessesAt(e, flying, t) ==
  /\ e.failures <= Threshold - 1 + 2 * N
  /\ e.failures >= Threshold /\ ~Lapsed(e, t) =>
       /\ e.blocked >= e.first + BlockFor
       /\ e.failures + flying <= Threshold - 1 + 2 * N
       /\ \/ e.blocked > e.first + Window
          \/ e.failures + flying <= Threshold - 1 + N
          \/ ~Active(e, t) /\ e.failures <= Threshold - 1 + N

LedgerOK == \A ip \in Ips : EntryOK(ledger[ip], now)

GuessesInv ==
  /\ LedgerOK
  /\ \A ip \in Ips \ dropped : GuessesAt(ledger[ip], Flying(ip), now)

(* No more attempts are in flight than there are workers.                    *)
LEMMA FlyingBounded ==
  ASSUME NEW ip PROVE /\ IsFiniteSet(InFlight(ip))
                      /\ Flying(ip) \in Nat /\ N \in Nat /\ Flying(ip) <= N
<1>1. InFlight(ip) \subseteq Workers
  BY DEF InFlight
<1>2. QED
  BY <1>1, WorkersAssumption, FS_Subset, FS_CardinalityType DEF Flying, N

(* An attempt let in is one more in flight, of its address only.             *)
LEMMA OneMoreFlying ==
  ASSUME TypeOK, NEW w \in Workers, NEW ip \in Ips, attempt[w] = NoIp,
         attempt' = [attempt EXCEPT ![w] = ip], NEW k \in Ips
  PROVE  Flying(k)' = IF k = ip THEN Flying(k) + 1 ELSE Flying(k)
<1>1. attempt \in [Workers -> Ips \cup {NoIp}]
  BY DEF TypeOK
<1>2. CASE k = ip
  <2>1. InFlight(k)' = InFlight(k) \cup {w} /\ w \notin InFlight(k)
    BY <1>1, <1>2, IpsAssumption DEF InFlight
  <2>2. QED
    BY <1>2, <2>1, FlyingBounded, FS_AddElement DEF Flying
<1>3. CASE k # ip
  <2>1. InFlight(k)' = InFlight(k)
    BY <1>1, <1>3, IpsAssumption DEF InFlight
  <2>2. QED
    BY <1>3, <2>1 DEF Flying
<1>4. QED
  BY <1>2, <1>3

(* A verdict is one less.                                                    *)
LEMMA OneLessFlying ==
  ASSUME TypeOK, NEW w \in Workers, attempt[w] # NoIp,
         attempt' = [attempt EXCEPT ![w] = NoIp], NEW k \in Ips
  PROVE  /\ Flying(k)' = IF k = attempt[w] THEN Flying(k) - 1 ELSE Flying(k)
         /\ k = attempt[w] => Flying(k) >= 1
<1>1. attempt \in [Workers -> Ips \cup {NoIp}]
  BY DEF TypeOK
<1>2. CASE k = attempt[w]
  <2>1. InFlight(k)' = InFlight(k) \ {w} /\ w \in InFlight(k)
    BY <1>1, <1>2, IpsAssumption DEF InFlight
  <2>2. /\ Cardinality(InFlight(k) \ {w}) = Cardinality(InFlight(k)) - 1
        /\ Cardinality(InFlight(k) \ {w}) \in Nat
    BY <2>1, FlyingBounded, FS_RemoveElement, FS_CardinalityType
  <2>3. QED
    BY <1>2, <2>1, <2>2, FlyingBounded DEF Flying
<1>3. CASE k # attempt[w]
  <2>1. InFlight(k)' = InFlight(k)
    BY <1>1, <1>3, IpsAssumption DEF InFlight
  <2>2. QED
    BY <1>3, <2>1 DEF Flying
<1>4. QED
  BY <1>2, <1>3

(* One more failure counts what was in flight.                               *)
LEMMA CountedGuesses ==
  ASSUME NEW e \in Entry, NEW t \in Nat \ {0}, NEW f \in Nat, EntryOK(e, t),
         f >= 1, f <= N, N \in Nat, GuessesAt(e, f, t)
  PROVE  GuessesAt(Counted(e, t), f - 1, t)
<1> DEFINE c == Counted(e, t)
<1>0. e.failures \in Nat /\ e.first \in Nat /\ e.blocked \in Nat
  BY DEF Entry
<1>1. CASE e.first = 0 \/ Lapsed(e, t)
  <2>1. /\ c.failures = 1 /\ c.first = t
        /\ c.blocked = IF 1 >= Threshold THEN t + BlockFor ELSE 0
    BY <1>1 DEF Counted
  <2>2. QED
    BY <2>1, LimitsAssumption DEF GuessesAt
<1>2. CASE ~(e.first = 0 \/ Lapsed(e, t))
  <2>1. /\ c.failures = e.failures + 1 /\ c.first = e.first
        /\ c.blocked = IF e.failures + 1 >= Threshold THEN t + BlockFor ELSE e.blocked
    BY <1>2 DEF Counted, Entry
  <2>2. e.first <= t /\ e.blocked <= t + BlockFor
    BY DEF EntryOK
  <2>3. CASE e.failures + 1 < Threshold
    BY <1>0, <2>1, <2>3, LimitsAssumption DEF GuessesAt
  <2>4. CASE e.failures + 1 = Threshold
    BY <1>0, <2>1, <2>2, <2>4, LimitsAssumption DEF GuessesAt
  <2>5. CASE e.failures >= Threshold
    <3>1. /\ e.blocked >= e.first + BlockFor
          /\ e.failures + f <= Threshold - 1 + 2 * N
          /\ \/ e.blocked > e.first + Window
             \/ e.failures + f <= Threshold - 1 + N
             \/ ~Active(e, t) /\ e.failures <= Threshold - 1 + N
      BY <1>2, <2>5 DEF GuessesAt
    <3>2. c.blocked = t + BlockFor
      BY <1>0, <2>1, <2>5, LimitsAssumption
    <3>3. c.failures + (f - 1) = e.failures + f /\ c.failures <= e.failures + f
      BY <1>0, <2>1
    <3>4. t + BlockFor > e.first + Window \/ e.failures + f <= Threshold - 1 + N
      BY <1>0, <2>2, <3>1, LimitsAssumption, BlockAssumption DEF Active
    <3>5. QED
      BY <1>0, <2>1, <2>2, <3>1, <3>2, <3>3, <3>4, LimitsAssumption DEF GuessesAt
  <2>6. QED
    BY <1>0, <2>3, <2>4, <2>5, LimitsAssumption
<1>3. QED
  BY <1>1, <1>2

(* Time lets no attempt in.                                                  *)
LEMMA LaterGuesses ==
  ASSUME NEW e \in Entry, NEW f \in Nat, NEW t \in Nat, NEW u \in Nat, t <= u,
         GuessesAt(e, f, t), N \in Nat
  PROVE  GuessesAt(e, f, u)
BY LimitsAssumption DEF GuessesAt, Lapsed, Active, Entry

(* An attempt is let in below the threshold, or at the one instant.          *)
LEMMA AdmittedGuesses ==
  ASSUME NEW e \in Entry, NEW f \in Nat, NEW t \in Nat, NEW u \in Nat, t <= u,
         N \in Nat, f + 1 <= N, GuessesAt(e, f, t), ~Active(e, t)
  PROVE  GuessesAt(e, f + 1, u)
<1>1. e.failures \in Nat /\ e.first \in Nat /\ e.blocked \in Nat
  BY DEF Entry
<1> SUFFICES ASSUME e.failures >= Threshold, ~Lapsed(e, u)
             PROVE  /\ e.blocked >= e.first + BlockFor
                    /\ e.failures <= Threshold - 1 + N
                    /\ ~Active(e, u)
  BY <1>1, LimitsAssumption DEF GuessesAt
<1>2. u <= e.first + Window /\ t >= e.blocked
  BY <1>1, LimitsAssumption DEF Lapsed, Active
<1>3. ~Lapsed(e, t)
  BY <1>1, <1>2, LimitsAssumption DEF Lapsed
<1>4. QED
  BY <1>1, <1>2, <1>3, LimitsAssumption, BlockAssumption DEF GuessesAt, Active

LEMMA GuessesInvInit == Init => GuessesInv
<1> SUFFICES ASSUME Init PROVE GuessesInv
  OBVIOUS
<1>1. \A ip \in Ips : Flying(ip) \in Nat /\ N \in Nat
  BY FlyingBounded
<1>2. LedgerOK
  BY ZeroOK DEF Init, LedgerOK
<1>3. \A ip \in Ips : GuessesAt(ledger[ip], Flying(ip), now)
  BY <1>1, LimitsAssumption DEF Init, GuessesAt, Zero
<1>4. QED
  BY <1>2, <1>3 DEF GuessesInv

LEMMA GuessesInvNext ==
  LimiterInv /\ Agree /\ GuessesInv /\ [Next]_vars => GuessesInv'
<1> SUFFICES ASSUME LimiterInv, Agree, GuessesInv, [Next]_vars PROVE GuessesInv'
  OBVIOUS
<1>0. /\ TypeOK /\ now \in Nat \ {0} /\ dropped \subseteq Ips
      /\ entries \in [Ips -> Entry] /\ ledger \in [Ips -> Entry]
      /\ \A k \in Ips : entries[k] \in Entry /\ ledger[k] \in Entry
      /\ \A k \in Ips : EntryOK(ledger[k], now)
  BY DEF LimiterInv, TypeOK, GuessesInv, LedgerOK
<1>f. N \in Nat /\ \A k \in Ips : Flying(k) \in Nat /\ Flying(k) <= N
  BY FlyingBounded
<1>g. N \in Nat /\ \A k \in Ips : Flying(k)' \in Nat /\ Flying(k)' <= N
  <2>1. \A k \in Ips : InFlight(k)' \subseteq Workers
    BY DEF InFlight
  <2>2. QED
    BY <2>1, WorkersAssumption, FS_Subset, FS_CardinalityType DEF Flying, N
<1>1. ASSUME NEW w \in Workers, NEW ip \in Ips, Admit(w, ip) PROVE GuessesInv'
  <2>1. now' \in Nat /\ now <= now' /\ ledger' = ledger /\ dropped' = dropped
    BY <1>0, <1>1, BoundsAssumption DEF Admit
  <2>2. \A k \in Ips : EntryOK(ledger[k], now')
    BY <1>0, <2>1, LimitsAssumption DEF EntryOK, Entry
  <2>3. \A k \in Ips : Flying(k)' = IF k = ip THEN Flying(k) + 1 ELSE Flying(k)
    BY <1>0, <1>1, OneMoreFlying DEF Admit
  <2>4. ASSUME NEW k \in Ips \ dropped PROVE GuessesAt(ledger[k], Flying(k)', now')
    <3>1. GuessesAt(ledger[k], Flying(k), now)
      BY DEF GuessesInv
    <3>2. CASE k = ip
      <4>1. ~Active(entries[k], now)
        BY <1>1, <3>2 DEF Admit
      <4>2. ~Active(ledger[k], now)
        BY <4>1 DEF Agree, AgreesAt
      <4>3. QED
        BY <1>0, <1>f, <1>g, <2>1, <2>3, <3>1, <3>2, <4>2, AdmittedGuesses
    <3>3. CASE k # ip
      BY <1>0, <1>f, <2>1, <2>3, <3>1, <3>3, LaterGuesses
    <3>4. QED
      BY <3>2, <3>3
  <2>5. QED
    BY <2>1, <2>2, <2>4 DEF GuessesInv, LedgerOK, GuessesAt, N
<1>2. ASSUME NEW w \in Workers, Failure(w) PROVE GuessesInv'
  <2> DEFINE ip == attempt[w]
  <2>1. /\ ip \in Ips /\ ip # NoIp /\ now' = now
        /\ attempt' = [attempt EXCEPT ![w] = NoIp]
        /\ ledger' = [ledger EXCEPT ![ip] = Counted(ledger[ip], now)]
        /\ dropped \subseteq dropped'
    BY <1>0, <1>2 DEF Failure, TypeOK
  <2>2. \A k \in Ips : /\ Flying(k)' = IF k = ip THEN Flying(k) - 1 ELSE Flying(k)
                       /\ k = ip => Flying(k) >= 1
    BY <1>0, <2>1, OneLessFlying
  <2> HIDE DEF ip
  <2>3. \A k \in Ips : EntryOK(ledger'[k], now)
    <3>1. EntryOK(Counted(ledger[ip], now), now)
      BY <1>0, <2>1, CountedOK
    <3>2. QED
      BY <1>0, <2>1, <3>1
  <2>4. ASSUME NEW k \in Ips \ dropped' PROVE GuessesAt(ledger'[k], Flying(k)', now)
    <3>1. GuessesAt(ledger[k], Flying(k), now) /\ k \in Ips
      BY <2>1 DEF GuessesInv
    <3>2. CASE k = ip
      <4>1. ledger'[k] = Counted(ledger[k], now)
        BY <1>0, <2>1, <3>2
      <4>2. Flying(k)' = Flying(k) - 1 /\ Flying(k) >= 1
        BY <2>2, <3>2
      <4>3. QED
        BY <1>0, <1>f, <3>1, <4>1, <4>2, CountedGuesses
    <3>3. CASE k # ip
      <4>1. ledger'[k] = ledger[k] /\ Flying(k)' = Flying(k)
        BY <1>0, <2>1, <2>2, <3>3
      <4>2. QED
        BY <3>1, <4>1
    <3>4. QED
      BY <3>2, <3>3
  <2>5. QED
    BY <2>1, <2>3, <2>4 DEF GuessesInv, LedgerOK, GuessesAt, N
<1>3. ASSUME NEW w \in Workers, Success(w) PROVE GuessesInv'
  <2> DEFINE ip == attempt[w]
  <2>1. /\ ip \in Ips /\ ip # NoIp /\ now' = now
        /\ attempt' = [attempt EXCEPT ![w] = NoIp]
        /\ ledger' = [ledger EXCEPT ![ip] = Zero]
        /\ dropped' = dropped \ {ip}
    BY <1>0, <1>3 DEF Success, TypeOK
  <2>2. \A k \in Ips : k # ip => Flying(k)' = Flying(k)
    BY <1>0, <2>1, OneLessFlying
  <2> HIDE DEF ip
  <2>3. \A k \in Ips : EntryOK(ledger'[k], now)
    BY <1>0, <2>1, ZeroOK
  <2>4. ASSUME NEW k \in Ips \ dropped' PROVE GuessesAt(ledger'[k], Flying(k)', now)
    <3>1. CASE k = ip
      <4>1. ledger'[k].failures = 0
        BY <1>0, <2>1, <3>1 DEF Zero
      <4>2. QED
        BY <1>f, <4>1, LimitsAssumption DEF GuessesAt
    <3>2. CASE k # ip
      BY <1>0, <2>1, <2>2, <3>2 DEF GuessesInv
    <3>3. QED
      BY <3>1, <3>2
  <2>5. QED
    BY <2>1, <2>3, <2>4 DEF GuessesInv, LedgerOK, GuessesAt, N
<1>4. CASE Tick
  <2>1. now' = now + 1 /\ UNCHANGED <<entries, attempt, ledger, dropped>>
    BY <1>4 DEF Tick
  <2>2. \A k \in Ips : EntryOK(ledger[k], now + 1)
    BY <1>0, LimitsAssumption DEF EntryOK, Entry
  <2>3. \A k \in Ips \ dropped : GuessesAt(ledger[k], Flying(k), now + 1)
    BY <1>0, <1>f, LaterGuesses DEF GuessesInv
  <2>4. \A k \in Ips : Flying(k)' = Flying(k)
    BY <2>1 DEF Flying, InFlight
  <2>5. QED
    BY <2>1, <2>2, <2>3, <2>4 DEF GuessesInv, LedgerOK, GuessesAt, N
<1>5. CASE UNCHANGED vars
  BY <1>5 DEF vars, GuessesInv, LedgerOK, Flying, InFlight, GuessesAt, N
<1>6. QED
  BY <1>1, <1>2, <1>3, <1>4, <1>5 DEF Next, Refuse

(* However many attempts of one address overlap, one window counts at most   *)
(* Threshold - 1 + 2 * Cardinality(Workers) failures of it before the window *)
(* closes: those below the threshold, and two waves of attempts let in       *)
(* before a failure of theirs had set a block.                               *)
THEOREM GuessesAlwaysBounded == Spec => []GuessesBounded
<1>1. GuessesInv => GuessesBounded
  BY DEF GuessesInv, GuessesAt, GuessesBounded, N
<1>2. Init => Agree
  BY DEF Init, Agree, AgreesAt
<1>3. QED
  BY <1>1, <1>2, LimiterInvInit, LimiterInvNext, AgreeNext, GuessesInvInit, GuessesInvNext, PTL DEF Spec
=============================================================================
