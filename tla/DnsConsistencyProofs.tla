------------------------ MODULE DnsConsistencyProofs ------------------------
(***************************************************************************)
(* What the table of managed records and the provider agree on, for every  *)
(* number of routes, instances, zones, records and faults.                 *)
(*                                                                         *)
(* A step of a worker is first brought into one of twenty-one kinds (the   *)
(* lemma StepKinds); the invariants are then proved over the kinds, layer  *)
(* by layer, each from the ones before it:                                 *)
(*   LocalInv   what a call knows of its own row, record and faults;       *)
(*   SerialInv  mutations exclude one another when they are serialised;    *)
(*   MadeInv    a created record belongs to the call that inserts its row; *)
(*   ForgetInv  a row is forgotten once, after its record;                 *)
(*   CalmInv    what GetRecord has found still holds at the write;         *)
(*   CoverInv   the pages of a list cover all that is live.                *)
(* The first four hold whatever fails, the last two while nothing is lost. *)
(***************************************************************************)
EXTENDS DnsLifecycleProofs, FiniteSetTheorems

-----------------------------------------------------------------------------
(* Kinds of steps. *)

(* What a step of one worker leaves alone. *)
Alone(w) == \A v \in Workers \ {w} : job'[v] = job[v]
Local == UNCHANGED <<records, creator, mapping>>
Carried(w) ==
  /\ job'[w].route = job[w].route /\ job'[w].zone = job[w].zone
  /\ job'[w].want = job[w].want /\ job'[w].reply = job[w].reply
  /\ job'[w].owned = job[w].owned /\ job'[w].done = job[w].done
  /\ job'[w].made = job[w].made
KeepsRow(w) == job'[w].row = job[w].row /\ job'[w].old = job[w].old
KeepsList(w) == job'[w].page = job[w].page /\ job'[w].seen = job[w].seen
Ended(w) ==
  /\ job'[w].pc = "idle" /\ job'[w].row = Nil /\ job'[w].made = Nil
  /\ job'[w].old = Nil /\ job'[w].done = FALSE

Finals == {"ensure_save", "ensure_restore", "ensure_insert", "ensure_undo", "delete_forget"}

(* The steps of a call that change nothing but its own locals. *)
Begins(w) ==
  /\ job[w].pc = "idle" /\ Local /\ UNCHANGED <<wire, faults>>
  /\ job'[w].pc \in {"ensure_row", "delete_row", "check_row", "has_row", "list_pages"}
  /\ job'[w].pc \in Mutating => MayMutate
  /\ job'[w].row = Nil /\ job'[w].made = Nil /\ job'[w].old = Nil
  /\ job'[w].done = FALSE /\ job'[w].reply = Nil /\ job'[w].owned = {}
  /\ job'[w].page = 1 /\ job'[w].seen = {}

(* It returns without success, before anything has to be compensated. *)
Stops(w) ==
  /\ job[w].pc \notin Finals \cup {"idle"} /\ Local /\ Ended(w)
  /\ job'[w].reply # "ok" /\ job'[w].owned = {}
  /\ wire' = wire \/ (Happened("timeout"))'

(* A compensation, or the last DELETE, fails. *)
Fails(w) ==
  /\ job[w].pc \in {"ensure_restore", "ensure_undo", "delete_forget"} /\ Local /\ Ended(w)
  /\ job'[w].reply = "error" /\ job'[w].owned = {}
  /\ wire' = wire \/ (Happened("timeout"))'
  /\ \/ job[w].done \/ (Happened("timeout"))'
     \/ job[w].pc # "delete_forget" /\ (Happened("refused"))'
     \/ job[w].pc = "delete_forget" /\ (Happened("db"))'
     \/ job[w].pc = "ensure_undo" /\ ~Found(job[w].zone, job[w].made)
     \/ job[w].pc = "ensure_restore" /\ ~Found(job[w].row.zone, job[w].row.id)
     \/ job[w].pc = "ensure_restore" /\ job[w].old.type \notin ValidTypes

(* An UPDATE or DELETE that finds no row. *)
Misses(w) ==
  /\ job[w].pc \in {"ensure_save", "delete_forget"} /\ ~Hit(w) /\ Local /\ Ended(w)
  /\ job'[w].reply = "ok" /\ job'[w].owned = {} /\ UNCHANGED wire

Reads(w) ==
  /\ job[w].pc \in {"ensure_row", "delete_row", "check_row"} /\ Local /\ UNCHANGED wire
  /\ job[w].route \in Routes /\ mapping[job[w].route] # Nil
  /\ Carried(w) /\ job'[w].row = mapping[job[w].route] /\ job'[w].old = job[w].old
  /\ KeepsList(w)
  /\ \/ /\ job[w].pc = "ensure_row" /\ job'[w].pc = "ensure_get"
        /\ job'[w].row.zone = job[w].zone
     \/ job[w].pc = "delete_row" /\ job'[w].pc = "delete_get"
     \/ job[w].pc = "check_row" /\ job'[w].pc = "check_get"

FindsNone(w) ==
  /\ job[w].pc = "ensure_row" /\ job'[w].pc = "ensure_list"
  /\ mapping[job[w].route] = Nil
  /\ Local /\ UNCHANGED wire /\ Carried(w) /\ KeepsRow(w) /\ KeepsList(w)

Confirms(w) ==
  /\ \/ job[w].pc = "ensure_get" /\ job'[w].pc = "ensure_update"
     \/ job[w].pc = "delete_get" /\ job'[w].pc = "delete_record"
  /\ Found(job[w].row.zone, job[w].row.id)
  /\ Matches(records[job[w].row.id].data, job[w].row)
  /\ job'[w].old = records[job[w].row.id].data /\ job'[w].row = job[w].row
  /\ Local /\ UNCHANGED wire /\ Carried(w) /\ KeepsList(w)

TurnsPage(w) ==
  /\ job[w].pc \in {"ensure_list", "list_pages"} /\ job'[w].pc = job[w].pc
  /\ Cardinality(PageOf(w)) = PageSize
  /\ job'[w].page = job[w].page + 1 /\ job'[w].seen = SeenBy(w)
  /\ Local /\ UNCHANGED wire /\ Carried(w) /\ KeepsRow(w)

Clears(w) ==
  /\ job[w].pc = "ensure_list" /\ job'[w].pc = "ensure_create"
  /\ Cardinality(PageOf(w)) < PageSize /\ ~Collides(job[w].want, SeenBy(w))
  /\ Local /\ UNCHANGED wire /\ Carried(w) /\ KeepsRow(w)

Collects(w) ==
  /\ job[w].pc = "list_pages" /\ job'[w].pc = "list_rows"
  /\ Local /\ UNCHANGED wire /\ Carried(w) /\ KeepsRow(w)

Lists(w) ==
  /\ job[w].pc = "list_rows" /\ Local /\ UNCHANGED wire /\ Ended(w)
  /\ job'[w].reply = "listed"
  /\ \A p \in job'[w].owned : /\ p \in Ids \X Routes /\ mapping[p[2]] # Nil
                              /\ mapping[p[2]].id = p[1]

Compensates(w) ==
  /\ \/ /\ job[w].pc = "ensure_save" /\ job'[w].pc = "ensure_restore"
        /\ job[w].done \/ (Happened("db"))'
     \/ /\ job[w].pc = "ensure_insert" /\ job'[w].pc = "ensure_undo"
        /\ job[w].done \/ (Happened("db"))' \/ mapping[job[w].route] # Nil
  /\ Local /\ UNCHANGED wire /\ Carried(w) /\ KeepsRow(w) /\ KeepsList(w)

Aborts(w) ==
  /\ job[w].pc # "idle" /\ job'[w].pc = job[w].pc /\ (Happened("cancel"))'
  /\ Local /\ UNCHANGED wire /\ KeepsRow(w) /\ KeepsList(w)
  /\ job'[w].route = job[w].route /\ job'[w].zone = job[w].zone
  /\ job'[w].want = job[w].want /\ job'[w].reply = job[w].reply
  /\ job'[w].owned = job[w].owned /\ job'[w].made = job[w].made

(* The steps of a call that change the provider or the table. *)
Writes(w, z, i, d) ==
  /\ Write(z, i, d) /\ UNCHANGED <<mapping, wire>> /\ d.type \in ValidTypes

Updates(w) ==
  /\ job[w].pc = "ensure_update" /\ job'[w].pc = "ensure_save"
  /\ Found(job[w].row.zone, job[w].row.id)
  /\ Writes(w, job[w].row.zone, job[w].row.id, job[w].want) /\ UNCHANGED creator
  /\ Carried(w) /\ KeepsRow(w) /\ KeepsList(w)

Restores(w) ==
  /\ job[w].pc = "ensure_restore" /\ Ended(w) /\ job'[w].reply = "error" /\ job'[w].owned = {}
  /\ Found(job[w].row.zone, job[w].row.id)
  /\ Writes(w, job[w].row.zone, job[w].row.id, job[w].old) /\ UNCHANGED creator

Creates(w) ==
  /\ job[w].pc = "ensure_create" /\ job'[w].pc = "ensure_insert"
  /\ job'[w].made \in Fresh
  /\ Writes(w, job[w].zone, job'[w].made, job[w].want)
  /\ creator' = [creator EXCEPT ![job'[w].made] = job[w].route]
  /\ job'[w].route = job[w].route /\ job'[w].zone = job[w].zone
  /\ job'[w].want = job[w].want /\ job'[w].reply = job[w].reply
  /\ job'[w].owned = job[w].owned /\ job'[w].done = job[w].done
  /\ KeepsRow(w) /\ KeepsList(w)

Undoes(w) ==
  /\ job[w].pc = "ensure_undo" /\ Ended(w) /\ job'[w].reply = "error" /\ job'[w].owned = {}
  /\ records' = [records EXCEPT ![job[w].made] = Nil]
  /\ UNCHANGED <<creator, mapping, wire>>

Removes(w) ==
  /\ job[w].pc = "delete_record" /\ job'[w].pc = "delete_forget"
  /\ Found(job[w].row.zone, job[w].row.id)
  /\ records' = [records EXCEPT ![job[w].row.id] = Nil]
  /\ UNCHANGED <<creator, mapping, wire>>
  /\ Carried(w) /\ KeepsRow(w) /\ KeepsList(w)

Saves(w) ==
  /\ job[w].pc = "ensure_save" /\ Hit(w) /\ Ended(w) /\ job'[w].reply = "ok"
  /\ job'[w].owned = {}
  /\ mapping' = [mapping EXCEPT ![job[w].route].data = job[w].want]
  /\ UNCHANGED <<records, creator, wire>>

Inserts(w) ==
  /\ job[w].pc = "ensure_insert" /\ Ended(w) /\ job'[w].reply = "ok" /\ job'[w].owned = {}
  /\ mapping[job[w].route] = Nil
  /\ mapping' = [mapping EXCEPT ![job[w].route] =
                   [zone |-> job[w].zone, id |-> job[w].made, data |-> job[w].want]]
  /\ UNCHANGED <<records, creator, wire>>

Forgets(w) ==
  /\ job[w].pc = "delete_forget" /\ Hit(w) /\ Ended(w) /\ job'[w].reply = "ok"
  /\ job'[w].owned = {}
  /\ mapping' = [mapping EXCEPT ![job[w].route] = Nil]
  /\ UNCHANGED <<records, creator, wire>>

WorkerStep(w) ==
  \/ Begins(w) \/ Stops(w) \/ Fails(w) \/ Misses(w) \/ Reads(w) \/ FindsNone(w)
  \/ Confirms(w) \/ TurnsPage(w) \/ Clears(w) \/ Collects(w) \/ Lists(w) \/ Compensates(w)
  \/ Aborts(w) \/ Updates(w) \/ Restores(w) \/ Creates(w) \/ Undoes(w) \/ Removes(w)
  \/ Saves(w) \/ Inserts(w) \/ Forgets(w)

-----------------------------------------------------------------------------
(* A call that returns holds nothing, and the others are left alone.        *)
LEMMA ReturnEnds ==
  ASSUME TypeInv, NEW w \in Workers, NEW r, Return(w, r)
  PROVE  Alone(w) /\ Ended(w) /\ job'[w].reply = r /\ job'[w].owned = {}
BY DEF TypeInv, TypeOK, Return, Blank, Alone, Ended

(* Going on to another step changes nothing but the step.                   *)
LEMMA GotoCarries ==
  ASSUME TypeInv, NEW w \in Workers, NEW s, Goto(w, s)
  PROVE  Alone(w) /\ Carried(w) /\ KeepsRow(w) /\ KeepsList(w) /\ job'[w].pc = s
BY DEF TypeInv, TypeOK, Goto, Job, Alone, Carried, KeepsRow, KeepsList

(* A counted fault has happened.                                            *)
LEMMA FaultHappens ==
  ASSUME TypeInv, NEW k \in FaultKinds, Fault(k)
  PROVE  (Happened(k))'
BY DEF TypeInv, TypeOK, Fault, Happened

(* What has happened once has happened. *)
LEMMA HappenedStays ==
  ASSUME TypeInv, Next, NEW k \in FaultKinds, Happened(k)
  PROVE  (Happened(k))'
<1>1. ASSUME UNCHANGED faults PROVE (Happened(k))'
  BY <1>1 DEF Happened
<1>2. ASSUME NEW l \in FaultKinds, Fault(l) PROVE (Happened(k))'
  BY <1>2 DEF TypeInv, TypeOK, Fault, Happened
<1>3. ASSUME NEW w \in Workers, NEW q, Errs(w, q) PROVE (Happened(k))'
  BY <1>1, <1>2, <1>3 DEF Errs, Refused, Answered, ContextDone, FaultKinds
<1>4. ASSUME NEW w \in Workers, NEW q, NEW i, Succeeds(w, q, i) PROVE (Happened(k))'
  BY <1>1, <1>4 DEF Succeeds, Answered
<1>5. ASSUME NEW w \in Workers, DbFails(w) \/ Refused(w) \/ Answered(w) PROVE (Happened(k))'
  BY <1>1, <1>2, <1>5 DEF DbFails, Refused, Answered, ContextDone, FaultKinds
<1>6. ASSUME NEW w \in Workers, Call(w) PROVE (Happened(k))'
  BY <1>1, <1>6 DEF Call, CallEnsure, CallDelete, CallCheck, CallHas, CallList, Begin
<1>7. ASSUME NEW w \in Workers,
             EnsureUpdate(w) \/ EnsureRestore(w) \/ EnsureCreate(w) \/ EnsureUndo(w)
             \/ DeleteRecord(w)
      PROVE  (Happened(k))'
  BY <1>3, <1>4, <1>7 DEF EnsureUpdate, EnsureRestore, EnsureCreate, EnsureUndo, DeleteRecord
<1>8. ASSUME NEW w \in Workers, Work(w), ~EnsureUpdate(w), ~EnsureRestore(w),
             ~EnsureCreate(w), ~EnsureUndo(w), ~DeleteRecord(w)
      PROVE  (Happened(k))'
  BY <1>5, <1>8
     DEF Work, EnsureRow, EnsureGet, EnsureSave, EnsureList, EnsureInsert, DeleteRow,
         DeleteGet, DeleteForget, CheckRow, CheckGet, HasManaged, ListPages, ListRows,
         ReadRow, Verify, MorePages, LastPage
<1>9. ASSUME (\E w \in Workers : Cancel(w)) \/ Crash \/ \E i \in Ids : Edit(i)
      PROVE  (Happened(k))'
  BY <1>2, <1>9 DEF Cancel, Crash, Edit, FaultKinds
<1>10. QED
  BY <1>1, <1>6, <1>7, <1>8, <1>9 DEF Next, Arrive

(* The calls. *)
LEMMA CallSteps ==
  ASSUME TypeInv, NEW w \in Workers, Call(w)
  PROVE  Alone(w) /\ Begins(w)
<1>1. ASSUME NEW s \in {"ensure_row", "delete_row", "check_row", "has_row", "list_pages"},
             NEW r, NEW z, NEW d, Begin(w, s, r, z, d), s \in Mutating => MayMutate
      PROVE  Alone(w) /\ Begins(w)
  <2>1. /\ job'[w].pc = s /\ job'[w].row = Nil /\ job'[w].made = Nil /\ job'[w].old = Nil
        /\ job'[w].done = FALSE /\ job'[w].reply = Nil /\ job'[w].owned = {}
        /\ job'[w].page = 1 /\ job'[w].seen = {}
    BY <1>1 DEF Begin, Blank, TypeInv, TypeOK
  <2>2. Alone(w)
    BY <1>1 DEF Begin, TypeInv, TypeOK, Alone
  <2>3. QED
    BY <1>1, <2>1, <2>2 DEF Begin, Begins, At, Local, Provider
<1>2. QED
  BY <1>1 DEF Call, CallEnsure, CallDelete, CallCheck, CallHas, CallList, Mutating,
              EnsureSteps, DeleteSteps

(* A request that ends in an error and is not a compensation. *)
LEMMA ErrsStops ==
  ASSUME TypeInv, NEW w \in Workers, NEW q, Errs(w, q), Return(w, "error"),
         UNCHANGED mapping, job[w].pc \notin Finals \cup {"idle"}
  PROVE  Alone(w) /\ Stops(w)
<1>1. Alone(w) /\ Ended(w) /\ job'[w].reply = "error" /\ job'[w].owned = {}
  BY ReturnEnds
<1>2. UNCHANGED <<records, creator>> /\ (wire' = wire \/ (Happened("timeout"))')
  BY FaultHappens DEF Errs, Provider, FaultKinds
<1>3. QED
  BY <1>1, <1>2 DEF Stops, Local

(* A statement that fails before anything has to be compensated. *)
LEMMA LocalStops ==
  ASSUME TypeInv, NEW w \in Workers, NEW r, Return(w, r), r # "ok",
         UNCHANGED <<Provider, mapping>>, job[w].pc \notin Finals \cup {"idle"}
  PROVE  Alone(w) /\ Stops(w)
BY ReturnEnds DEF Stops, Local, Provider

(* Reading the row. *)
LEMMA ReadRowSteps ==
  ASSUME TypeInv, NEW w \in Workers, job[w].route \in Routes, NEW s, ReadRow(w, s),
         UNCHANGED Unshared,
         \/ job[w].pc = "delete_row" /\ s = "delete_get"
         \/ job[w].pc = "check_row" /\ s = "check_get"
  PROVE  Alone(w) /\ (Stops(w) \/ Reads(w))
<1> DEFINE m == mapping[job[w].route]
<1>1. CASE Return(w, "error") \/ Return(w, "not_managed")
  BY <1>1, LocalStops DEF Unshared, Finals
<1>2. CASE m # Nil /\ job' = [job EXCEPT ![w].pc = s, ![w].row = m]
  <2>1. /\ job'[w].row = m /\ job'[w].pc = s /\ Carried(w) /\ job'[w].old = job[w].old
        /\ KeepsList(w) /\ Alone(w)
    BY <1>2 DEF TypeInv, TypeOK, Job, Carried, KeepsList, Alone
  <2>2. QED
    BY <1>2, <2>1 DEF Reads, Unshared, Provider, Local
<1>3. QED
  BY <1>1, <1>2 DEF ReadRow

(* Comparing the record. *)
LEMMA VerifySteps ==
  ASSUME TypeInv, NEW w \in Workers, NEW s, Verify(w, s), UNCHANGED Unshared,
         \/ job[w].pc = "ensure_get" /\ s = "ensure_update"
         \/ job[w].pc = "delete_get" /\ s = "delete_record"
  PROVE  Alone(w) /\ (Stops(w) \/ Confirms(w))
<1> DEFINE m == job[w].row
           d == records[m.id].data
<1>1. CASE Return(w, "error") \/ Return(w, "not_managed")
  BY <1>1, LocalStops DEF Unshared, Finals
<1>2. CASE /\ Found(m.zone, m.id) /\ Matches(d, m)
           /\ job' = [job EXCEPT ![w].pc = s, ![w].old = d]
  <2>1. /\ job'[w].old = d /\ job'[w].pc = s /\ Carried(w) /\ job'[w].row = m
        /\ KeepsList(w) /\ Alone(w)
    BY <1>2 DEF TypeInv, TypeOK, Job, Carried, KeepsList, Alone
  <2>2. QED
    BY <1>2, <2>1 DEF Confirms, Unshared, Provider, Local
<1>3. QED
  BY <1>1, <1>2 DEF Verify

(* Reading another page. *)
LEMMA MorePagesSteps ==
  ASSUME TypeInv, NEW w \in Workers, MorePages(w), UNCHANGED Unshared,
         job[w].pc \in {"ensure_list", "list_pages"}
  PROVE  Alone(w) /\ (Stops(w) \/ TurnsPage(w))
<1>1. CASE Return(w, "error")
  BY <1>1, LocalStops DEF Unshared, Finals
<1>2. CASE /\ Cardinality(PageOf(w)) = PageSize
           /\ job' = [job EXCEPT ![w].page = @ + 1, ![w].seen = SeenBy(w)]
  <2>1. /\ job'[w].pc = job[w].pc /\ job'[w].page = job[w].page + 1
        /\ job'[w].seen = SeenBy(w) /\ Carried(w) /\ KeepsRow(w) /\ Alone(w)
    BY <1>2 DEF TypeInv, TypeOK, Job, Carried, KeepsRow, Alone
  <2>2. QED
    BY <1>2, <2>1 DEF TurnsPage, Unshared, Provider, Local
<1>3. QED
  BY <1>1, <1>2 DEF MorePages

(* The update path of Ensure. *)
LEMMA UpdateSteps ==
  ASSUME TypeInv, NEW w \in Workers,
         EnsureRow(w) \/ EnsureGet(w) \/ EnsureUpdate(w) \/ EnsureSave(w) \/ EnsureRestore(w)
  PROVE  Alone(w) /\ WorkerStep(w)
<1>1. CASE EnsureRow(w)
  <2> DEFINE m == mapping[job[w].route]
  <2>0. job[w].pc = "ensure_row" /\ job[w].route \in Routes /\ UNCHANGED Unshared
    BY <1>1 DEF EnsureRow, At, TypeInv, LocalsSet, Mutating, EnsureSteps
  <2>1. CASE Return(w, "error") \/ Return(w, "conflict")
    BY <2>0, <2>1, LocalStops DEF Unshared, Finals, WorkerStep
  <2>2. CASE m = Nil /\ Goto(w, "ensure_list")
    BY <2>0, <2>2, GotoCarries DEF WorkerStep, FindsNone, Unshared, Provider, Local
  <2>3. CASE /\ m # Nil /\ m.zone = job[w].zone
             /\ job' = [job EXCEPT ![w].pc = "ensure_get", ![w].row = m]
    <3>1. /\ job'[w].row = m /\ job'[w].pc = "ensure_get" /\ Carried(w)
          /\ job'[w].old = job[w].old /\ KeepsList(w) /\ Alone(w)
      BY <2>3 DEF TypeInv, TypeOK, Job, Carried, KeepsList, Alone
    <3>2. QED
      BY <2>0, <2>3, <3>1 DEF WorkerStep, Reads, Unshared, Provider, Local
  <2>4. QED
    BY <1>1, <2>1, <2>2, <2>3 DEF EnsureRow
<1>2. CASE EnsureGet(w)
  BY <1>2, VerifySteps DEF EnsureGet, At, WorkerStep
<1>3. CASE EnsureUpdate(w)
  <2> DEFINE q == PutOf(job[w], job[w].want)
  <2>1. CASE Errs(w, q) /\ Return(w, "error")
    BY <1>3, <2>1, ErrsStops DEF EnsureUpdate, At, Finals, WorkerStep
  <2>2. CASE Succeeds(w, q, q.id) /\ Goto(w, "ensure_save")
    BY <1>3, <2>2, GotoCarries
       DEF EnsureUpdate, At, WorkerStep, Updates, Writes, Succeeds, Sendable, Accepts, Apply,
           PutOf
  <2>3. QED
    BY <1>3, <2>1, <2>2 DEF EnsureUpdate
<1>4. CASE EnsureSave(w)
  <2>1. CASE DbFails(w) /\ Goto(w, "ensure_restore") /\ UNCHANGED mapping
    <3>1. job[w].done \/ (Happened("db"))'
      BY <2>1, FaultHappens DEF DbFails, ContextDone, FaultKinds
    <3>2. QED
      BY <1>4, <2>1, <3>1, GotoCarries
         DEF EnsureSave, At, WorkerStep, Compensates, Local, Provider
  <2>2. CASE ~Hit(w) /\ Return(w, "ok") /\ UNCHANGED mapping
    BY <1>4, <2>2, ReturnEnds DEF EnsureSave, At, WorkerStep, Misses, Local, Provider
  <2>3. CASE /\ Hit(w) /\ Return(w, "ok")
             /\ mapping' = [mapping EXCEPT ![job[w].route].data = job[w].want]
    BY <1>4, <2>3, ReturnEnds DEF EnsureSave, At, WorkerStep, Saves, Provider
  <2>4. QED
    BY <1>4, <2>1, <2>2, <2>3 DEF EnsureSave
<1>5. CASE EnsureRestore(w)
  <2> DEFINE q == PutOf(job[w], job[w].old)
  <2>0. /\ job[w].pc = "ensure_restore" /\ UNCHANGED mapping
        /\ Alone(w) /\ Ended(w) /\ job'[w].reply = "error" /\ job'[w].owned = {}
    BY <1>5, ReturnEnds DEF EnsureRestore, At
  <2>1. CASE Errs(w, q)
    <3>1. /\ UNCHANGED <<records, creator>> /\ (wire' = wire \/ (Happened("timeout"))')
          /\ \/ job[w].done \/ (Happened("timeout"))' \/ (Happened("refused"))'
             \/ ~Found(job[w].row.zone, job[w].row.id) \/ job[w].old.type \notin ValidTypes
      BY <2>1, FaultHappens
         DEF Errs, Provider, FaultKinds, Refused, ContextDone, Sendable, PutOf, Accepts
    <3>2. QED
      BY <2>0, <3>1 DEF WorkerStep, Fails, Local
  <2>2. CASE Succeeds(w, q, q.id)
    BY <2>0, <2>2
       DEF WorkerStep, Restores, Writes, Succeeds, Sendable, Accepts, Apply, PutOf
  <2>3. QED
    BY <1>5, <2>1, <2>2 DEF EnsureRestore
<1>6. QED
  BY <1>1, <1>2, <1>3, <1>4, <1>5

(* The create path of Ensure. *)
LEMMA CreateSteps ==
  ASSUME TypeInv, NEW w \in Workers,
         EnsureList(w) \/ EnsureCreate(w) \/ EnsureInsert(w) \/ EnsureUndo(w)
  PROVE  Alone(w) /\ WorkerStep(w)
<1>1. CASE EnsureList(w)
  <2>0. job[w].pc = "ensure_list" /\ UNCHANGED Unshared
    BY <1>1 DEF EnsureList, At
  <2>1. CASE MorePages(w)
    BY <2>0, <2>1, MorePagesSteps DEF WorkerStep
  <2>2. CASE Return(w, "conflict")
    BY <2>0, <2>2, LocalStops DEF Unshared, Finals, WorkerStep
  <2>3. CASE /\ LastPage(w) /\ ~Collides(job[w].want, SeenBy(w))
             /\ job' = [job EXCEPT ![w].pc = "ensure_create", ![w].seen = {}, ![w].page = 1]
    <3>1. job'[w].pc = "ensure_create" /\ Carried(w) /\ KeepsRow(w) /\ Alone(w)
      BY <2>3 DEF TypeInv, TypeOK, Job, Carried, KeepsRow, Alone
    <3>2. QED
      BY <2>0, <2>3, <3>1 DEF WorkerStep, Clears, LastPage, Unshared, Provider, Local
  <2>4. QED
    BY <1>1, <2>1, <2>2, <2>3 DEF EnsureList
<1>2. CASE EnsureCreate(w)
  <2> DEFINE q == PostOf(job[w])
  <2>0. job[w].pc = "ensure_create" /\ UNCHANGED mapping
    BY <1>2 DEF EnsureCreate, At
  <2>1. CASE Errs(w, q) /\ Return(w, "error")
    BY <2>0, <2>1, ErrsStops DEF Finals, WorkerStep
  <2>2. ASSUME NEW i \in Fresh, Succeeds(w, q, i),
               job' = [job EXCEPT ![w].pc = "ensure_insert", ![w].made = i]
        PROVE  Alone(w) /\ WorkerStep(w)
    <3>1. /\ job'[w].pc = "ensure_insert" /\ job'[w].made = i /\ Alone(w)
          /\ job'[w].route = job[w].route /\ job'[w].zone = job[w].zone
          /\ job'[w].want = job[w].want /\ job'[w].reply = job[w].reply
          /\ job'[w].owned = job[w].owned /\ job'[w].done = job[w].done
          /\ KeepsRow(w) /\ KeepsList(w)
      BY <2>2 DEF TypeInv, TypeOK, Job, KeepsRow, KeepsList, Alone
    <3>2. QED
      BY <2>0, <2>2, <3>1 DEF WorkerStep, Creates, Writes, Succeeds, Sendable, Apply, PostOf
  <2>3. QED
    BY <1>2, <2>1, <2>2 DEF EnsureCreate
<1>3. CASE EnsureInsert(w)
  <2> DEFINE r == job[w].route
  <2>0. job[w].pc = "ensure_insert" /\ UNCHANGED Provider
    BY <1>3 DEF EnsureInsert, At
  <2>1. CASE /\ DbFails(w) \/ mapping[r] # Nil
             /\ Goto(w, "ensure_undo") /\ UNCHANGED mapping
    <3>1. job[w].done \/ (Happened("db"))' \/ mapping[r] # Nil
      BY <2>1, FaultHappens DEF DbFails, ContextDone, FaultKinds
    <3>2. QED
      BY <2>0, <2>1, <3>1, GotoCarries DEF WorkerStep, Compensates, Local, Provider
  <2>2. CASE /\ mapping[r] = Nil /\ Return(w, "ok")
             /\ mapping' = [mapping EXCEPT ![r] = [zone |-> job[w].zone, id |-> job[w].made,
                                                   data |-> job[w].want]]
    BY <2>0, <2>2, ReturnEnds DEF WorkerStep, Inserts, Provider
  <2>3. QED
    BY <1>3, <2>1, <2>2 DEF EnsureInsert
<1>4. CASE EnsureUndo(w)
  <2> DEFINE q == DeleteOf(job[w], job[w].zone, job[w].made)
  <2>0. /\ job[w].pc = "ensure_undo" /\ UNCHANGED mapping
        /\ Alone(w) /\ Ended(w) /\ job'[w].reply = "error" /\ job'[w].owned = {}
    BY <1>4, ReturnEnds DEF EnsureUndo, At
  <2>1. CASE Errs(w, q)
    <3>1. /\ UNCHANGED <<records, creator>> /\ (wire' = wire \/ (Happened("timeout"))')
          /\ \/ job[w].done \/ (Happened("timeout"))' \/ (Happened("refused"))'
             \/ ~Found(job[w].zone, job[w].made)
      BY <2>1, FaultHappens
         DEF Errs, Provider, FaultKinds, Refused, ContextDone, Sendable, DeleteOf, Accepts
    <3>2. QED
      BY <2>0, <3>1 DEF WorkerStep, Fails, Local
  <2>2. CASE Succeeds(w, q, q.id)
    BY <2>0, <2>2 DEF WorkerStep, Undoes, Succeeds, Apply, DeleteOf
  <2>3. QED
    BY <1>4, <2>1, <2>2 DEF EnsureUndo
<1>5. QED
  BY <1>1, <1>2, <1>3, <1>4

(* DeleteManaged. *)
LEMMA RemovalSteps ==
  ASSUME TypeInv, NEW w \in Workers,
         DeleteRow(w) \/ DeleteGet(w) \/ DeleteRecord(w) \/ DeleteForget(w)
  PROVE  Alone(w) /\ WorkerStep(w)
<1>1. CASE DeleteRow(w)
  <2>1. job[w].pc = "delete_row" /\ job[w].route \in Routes
    BY <1>1 DEF DeleteRow, At, TypeInv, LocalsSet, Mutating, DeleteSteps
  <2>2. QED
    BY <1>1, <2>1, ReadRowSteps DEF DeleteRow, WorkerStep
<1>2. CASE DeleteGet(w)
  BY <1>2, VerifySteps DEF DeleteGet, At, WorkerStep
<1>3. CASE DeleteRecord(w)
  <2> DEFINE q == DeleteOf(job[w], job[w].row.zone, job[w].row.id)
  <2>1. CASE Errs(w, q) /\ Return(w, "error")
    BY <1>3, <2>1, ErrsStops DEF DeleteRecord, At, Finals, WorkerStep
  <2>2. CASE Succeeds(w, q, q.id) /\ Goto(w, "delete_forget")
    BY <1>3, <2>2, GotoCarries
       DEF DeleteRecord, At, WorkerStep, Removes, Succeeds, Accepts, Apply, DeleteOf
  <2>3. QED
    BY <1>3, <2>1, <2>2 DEF DeleteRecord
<1>4. CASE DeleteForget(w)
  <2>0. job[w].pc = "delete_forget" /\ UNCHANGED Provider
    BY <1>4 DEF DeleteForget, At
  <2>1. CASE DbFails(w) /\ Return(w, "error") /\ UNCHANGED mapping
    <3>1. job[w].done \/ (Happened("db"))'
      BY <2>1, FaultHappens DEF DbFails, ContextDone, FaultKinds
    <3>2. QED
      BY <2>0, <2>1, <3>1, ReturnEnds DEF WorkerStep, Fails, Local, Provider
  <2>2. CASE ~Hit(w) /\ Return(w, "ok") /\ UNCHANGED mapping
    BY <2>0, <2>2, ReturnEnds DEF WorkerStep, Misses, Local, Provider
  <2>3. CASE Hit(w) /\ Return(w, "ok") /\ mapping' = [mapping EXCEPT ![job[w].route] = Nil]
    BY <2>0, <2>3, ReturnEnds DEF WorkerStep, Forgets, Provider
  <2>4. QED
    BY <1>4, <2>1, <2>2, <2>3 DEF DeleteForget
<1>5. QED
  BY <1>1, <1>2, <1>3, <1>4

(* Check, HasManaged and List. *)
LEMMA ReadSteps ==
  ASSUME TypeInv, NEW w \in Workers,
         CheckRow(w) \/ CheckGet(w) \/ HasManaged(w) \/ ListPages(w) \/ ListRows(w)
  PROVE  Alone(w) /\ WorkerStep(w)
<1>1. CASE CheckRow(w)
  <2>1. job[w].pc = "check_row" /\ job[w].route \in Routes
    BY <1>1 DEF CheckRow, At, TypeInv, LocalsSet
  <2>2. QED
    BY <1>1, <2>1, ReadRowSteps DEF CheckRow, WorkerStep
<1>2. CASE CheckGet(w)
  BY <1>2, LocalStops DEF CheckGet, At, Unshared, Finals, WorkerStep
<1>3. CASE HasManaged(w)
  BY <1>3, LocalStops DEF HasManaged, At, Unshared, Finals, WorkerStep
<1>4. CASE ListPages(w)
  <2>0. job[w].pc = "list_pages" /\ UNCHANGED Unshared
    BY <1>4 DEF ListPages, At
  <2>1. CASE MorePages(w)
    BY <2>0, <2>1, MorePagesSteps DEF WorkerStep
  <2>2. CASE job' = [job EXCEPT ![w].pc = "list_rows", ![w].seen = SeenBy(w)]
    <3>1. job'[w].pc = "list_rows" /\ Carried(w) /\ KeepsRow(w) /\ Alone(w)
      BY <2>2 DEF TypeInv, TypeOK, Job, Carried, KeepsRow, Alone
    <3>2. QED
      BY <2>0, <3>1 DEF WorkerStep, Collects, Unshared, Provider, Local
  <2>3. QED
    BY <1>4, <2>1, <2>2 DEF ListPages
<1>5. CASE ListRows(w)
  <2> DEFINE owned == {p \in Ids \X Routes :
                         /\ \E s \in job[w].seen : s.id = p[1]
                         /\ mapping[p[2]] # Nil
                         /\ mapping[p[2]].id = p[1] /\ mapping[p[2]].zone = job[w].zone}
  <2>0. job[w].pc = "list_rows" /\ UNCHANGED Unshared
    BY <1>5 DEF ListRows, At
  <2>1. CASE Return(w, "error")
    BY <2>0, <2>1, LocalStops DEF Unshared, Finals, WorkerStep
  <2>2. CASE job' = [job EXCEPT ![w] = [Blank EXCEPT !.reply = "listed", !.owned = owned]]
    <3>1. /\ Alone(w) /\ Ended(w) /\ job'[w].reply = "listed" /\ job'[w].owned = owned
      BY <2>2 DEF TypeInv, TypeOK, Blank, Alone, Ended
    <3>2. QED
      BY <2>0, <3>1 DEF WorkerStep, Lists, Unshared, Provider, Local
  <2>3. QED
    BY <1>5, <2>1, <2>2 DEF ListRows
<1>6. QED
  BY <1>1, <1>2, <1>3, <1>4, <1>5

(* The context of a call ends. *)
LEMMA CancelSteps ==
  ASSUME TypeInv, NEW w \in Workers, Cancel(w)
  PROVE  Alone(w) /\ Aborts(w)
<1>1. (Happened("cancel"))'
  BY FaultHappens DEF Cancel, FaultKinds
<1>2. /\ job'[w].pc = job[w].pc /\ KeepsRow(w) /\ KeepsList(w) /\ Alone(w)
      /\ job'[w].route = job[w].route /\ job'[w].zone = job[w].zone
      /\ job'[w].want = job[w].want /\ job'[w].reply = job[w].reply
      /\ job'[w].owned = job[w].owned /\ job'[w].made = job[w].made
  BY DEF Cancel, TypeInv, TypeOK, Job, KeepsRow, KeepsList, Alone
<1>3. QED
  BY <1>1, <1>2 DEF Cancel, Aborts, At, Local, Unshared, Provider

(* Every step is a step of one worker, or comes from outside. *)
LEMMA StepKinds ==
  ASSUME TypeInv, Next
  PROVE  \/ \E w \in Workers : Alone(w) /\ WorkerStep(w)
         \/ Crash
         \/ \E q \in wire : Arrive(q)
         \/ \E i \in Ids : Edit(i)
BY CallSteps, UpdateSteps, CreateSteps, RemovalSteps, ReadSteps, CancelSteps
   DEF Next, Work, WorkerStep

-----------------------------------------------------------------------------
(* The locals of a call, and mutations that exclude one another. *)

(* Crashes, late requests and edits. *)
LEMMA CrashStep ==
  ASSUME TypeInv, Crash
  PROVE  /\ (Happened("crash"))' /\ Local /\ UNCHANGED wire
         /\ \A w \in Workers : Ended(w) /\ job'[w].reply = Nil /\ job'[w].owned = {}
BY FaultHappens DEF Crash, FaultKinds, Local, Unshared, Provider, Ended, Blank

(* An edit of the zone is counted and touches neither rows nor calls.       *)
LEMMA EditStep ==
  ASSUME TypeInv, NEW i \in Ids, Edit(i)
  PROVE  (Happened("edit"))' /\ UNCHANGED <<wire, mapping, job>>
BY FaultHappens DEF Edit, FaultKinds

-----------------------------------------------------------------------------
(* A created record is held from its POST to its INSERT or its undo.        *)
MadeAt == \A w \in Workers :
  job[w].made # Nil => job[w].pc \in {"ensure_insert", "ensure_undo"}

(* A running call has not replied yet.                                      *)
Replying == \A w \in Workers :
  job[w].pc # "idle" => job[w].reply = Nil /\ job[w].owned = {}

(* Late requests and cancelled contexts have been counted.                  *)
Caused ==
  /\ wire # {} => Happened("timeout")
  /\ \A w \in Workers : job[w].done => Happened("cancel")

(* A delete knows the record it has found.                                  *)
OldKnown == \A w \in Workers :
  job[w].pc \in {"delete_record", "delete_forget"} => job[w].old \in Data

(* What GetRecord has returned matched the row.                             *)
OldMatches == \A w \in Workers :
  job[w].pc \in {"ensure_update", "ensure_save", "ensure_restore", "delete_record"}
    => Matches(job[w].old, job[w].row)

(* An update stays in the zone it was asked for.                            *)
RowOfZone == \A w \in Workers :
  job[w].pc \in {"ensure_get", "ensure_update", "ensure_save", "ensure_restore"}
    => job[w].row.zone = job[w].zone

(* An update is compensated for a reason.                                   *)
RestoreCause == \A w \in Workers :
  job[w].pc = "ensure_restore" => Happened("db") \/ Happened("cancel")

LocalInv ==
  /\ OwnInv /\ MadeAt /\ Replying /\ Caused /\ OldKnown /\ OldMatches /\ RowOfZone
  /\ RestoreCause

(* The same for every kind of fault. *)
LEMMA CausesStay ==
  ASSUME TypeInv, Next
  PROVE  \A k \in FaultKinds : Happened(k) => (Happened(k))'
BY HappenedStays

(* Nothing is held at the start.                                            *)
LEMMA LocalInvInit == Init => LocalInv
<1> SUFFICES ASSUME Init
             PROVE  MadeAt /\ Replying /\ Caused /\ OldKnown /\ OldMatches /\ RowOfZone
                    /\ RestoreCause
  BY OwnInvInit DEF LocalInv
<1>1. QED
  BY DEF Init, MadeAt, Replying, Caused, OldKnown, OldMatches, RowOfZone, RestoreCause, Blank

(* Every step keeps what the calls know of their own locals.                *)
LEMMA LocalInvNext == LocalInv /\ [Next]_vars => LocalInv'
<1> SUFFICES ASSUME LocalInv, [Next]_vars PROVE LocalInv'
  OBVIOUS
<1>0. OwnInv /\ OwnInv' /\ TypeInv /\ TypeInv'
  BY OwnInvNext DEF LocalInv, OwnInv
<1>k. Next => \A k \in FaultKinds : Happened(k) => (Happened(k))'
  BY <1>0, CausesStay
<1> DEFINE Goal == MadeAt /\ Replying /\ Caused /\ OldKnown /\ OldMatches /\ RowOfZone
                   /\ RestoreCause
<1>1. CASE UNCHANGED vars
  BY <1>1, <1>0
     DEF vars, LocalInv, MadeAt, Replying, Caused, OldKnown, OldMatches, RowOfZone,
         RestoreCause, Matches, Happened
<1>2. ASSUME NEW w \in Workers, Alone(w), WorkerStep(w), Next PROVE Goal'
  <2> USE DEF WorkerStep, Begins, Stops, Fails, Misses, Reads, FindsNone, Confirms, TurnsPage,
              Clears, Collects, Lists, Compensates, Aborts, Updates, Restores, Creates,
              Undoes, Removes, Saves, Inserts, Forgets, Ended, Carried, KeepsRow, Finals
  <2>0. \A v \in Workers \ {w} : job'[v] = job[v]
    BY <1>2 DEF Alone
  <2>1. MadeAt'
    BY <1>2, <2>0 DEF MadeAt, LocalInv
  <2>2. Replying'
    BY <1>2, <2>0 DEF Replying, LocalInv
  <2>3. Caused'
    BY <1>2, <1>k, <2>0 DEF Caused, LocalInv, FaultKinds, Writes
  <2>4. OldKnown'
    <3>1. ASSUME Confirms(w) PROVE job'[w].old \in Data
      <4>1. job[w].row \in Row
        BY <1>0, <3>1 DEF TypeInv, LocalsSet
      <4>2. QED
        BY <1>0, <3>1, <4>1 DEF TypeInv, TypeOK, Record, Row, Found
    <3>2. QED
      BY <1>2, <2>0, <3>1 DEF OldKnown, LocalInv
  <2>5. OldMatches'
    BY <1>2, <2>0 DEF OldMatches, LocalInv
  <2>6. RowOfZone'
    BY <1>2, <2>0 DEF RowOfZone, LocalInv
  <2>7. RestoreCause'
    BY <1>2, <1>k, <2>0 DEF RestoreCause, Caused, LocalInv, FaultKinds
  <2>8. QED
    BY <2>1, <2>2, <2>3, <2>4, <2>5, <2>6, <2>7
<1>3. CASE Next /\ Crash
  BY <1>0, <1>3, <1>k, CrashStep
     DEF LocalInv, MadeAt, Replying, Caused, OldKnown, OldMatches, RowOfZone, RestoreCause,
         Ended, FaultKinds
<1>4. CASE Next /\ ((\E q \in wire : Arrive(q)) \/ (\E i \in Ids : Edit(i)))
  <2>1. UNCHANGED job /\ (wire' # {} => wire # {})
    BY <1>0, <1>4, EditStep DEF Arrive
  <2>2. Caused' /\ RestoreCause'
    BY <1>4, <1>k, <2>1 DEF LocalInv, Caused, RestoreCause, FaultKinds
  <2>3. QED
    BY <1>0, <2>1, <2>2 DEF LocalInv, MadeAt, Replying, OldKnown, OldMatches, RowOfZone
<1>5. QED
  BY <1>0, <1>1, <1>2, <1>3, <1>4, StepKinds DEF LocalInv

-----------------------------------------------------------------------------
(* One mutation at a time.                                                  *)
Exclusive == Serialized =>
  \A v, w \in Workers : job[v].pc \in Mutating /\ job[w].pc \in Mutating => v = w

(* A create runs for a route without a row.                                 *)
CreatesUnmapped == Serialized => \A w \in Workers :
  job[w].pc \in {"ensure_list", "ensure_create", "ensure_insert"}
    => mapping[job[w].route] = Nil

(* A create is undone for a reason.                                         *)
UndoCause == Serialized => \A w \in Workers :
  job[w].pc = "ensure_undo" => Happened("db") \/ Happened("cancel")

SerialInv == Exclusive /\ CreatesUnmapped /\ UndoCause

(* No mutation runs at the start.                                           *)
LEMMA SerialInvInit == Init => SerialInv
BY DEF Init, SerialInv, Exclusive, CreatesUnmapped, UndoCause, Blank, Mutating, EnsureSteps,
       DeleteSteps

(* Only a mutation changes the table. *)
LEMMA TableStep ==
  ASSUME NEW w \in Workers, WorkerStep(w), mapping' # mapping
  PROVE  job[w].pc \in {"ensure_save", "ensure_insert", "delete_forget"}
BY DEF WorkerStep, Begins, Stops, Fails, Misses, Reads, FindsNone, Confirms, TurnsPage,
       Clears, Collects, Lists, Compensates, Aborts, Updates, Restores, Creates, Undoes,
       Removes, Saves, Inserts, Forgets, Local, Writes

(* Every step keeps serialised mutations apart: MayMutate lets none begin while *)
(* one runs, and only the running one writes the table.                     *)
LEMMA SerialInvNext == LocalInv /\ SerialInv /\ [Next]_vars => SerialInv'
<1> SUFFICES ASSUME LocalInv, SerialInv, [Next]_vars PROVE SerialInv'
  OBVIOUS
<1>0. OwnInv /\ TypeInv /\ Caused
  BY DEF LocalInv, OwnInv
<1>k. Next => \A k \in FaultKinds : Happened(k) => (Happened(k))'
  BY <1>0, CausesStay
<1>1. CASE UNCHANGED vars
  BY <1>1 DEF vars, SerialInv, Exclusive, CreatesUnmapped, UndoCause, Happened
<1>2. ASSUME NEW w \in Workers, Alone(w), WorkerStep(w), Next PROVE SerialInv'
  <2> USE DEF WorkerStep, Begins, Stops, Fails, Misses, Reads, FindsNone, Confirms, TurnsPage,
              Clears, Collects, Lists, Compensates, Aborts, Updates, Restores, Creates,
              Undoes, Removes, Saves, Inserts, Forgets, Ended, Carried, Finals
  <2>0. \A v \in Workers \ {w} : job'[v] = job[v]
    BY <1>2 DEF Alone
  <2>1. Exclusive'
    <3>1. job'[w].pc \in Mutating => job[w].pc \in Mutating \/ MayMutate
      BY <1>2 DEF Mutating, EnsureSteps, DeleteSteps
    <3>2. QED
      BY <2>0, <3>1 DEF SerialInv, Exclusive, MayMutate
  <2>2. CreatesUnmapped'
    <3>1. SUFFICES ASSUME Serialized, NEW v \in Workers,
                          job'[v].pc \in {"ensure_list", "ensure_create", "ensure_insert"}
                   PROVE  mapping'[job'[v].route] = Nil
      BY DEF CreatesUnmapped
    <3>2. CASE v = w
      BY <1>2, <3>1, <3>2 DEF SerialInv, CreatesUnmapped, Local, Writes
    <3>3. CASE v # w
      <4>1. job'[v] = job[v] /\ mapping[job[v].route] = Nil
        BY <2>0, <3>1, <3>3 DEF SerialInv, CreatesUnmapped
      <4>2. job[w].pc \notin Mutating
        BY <3>1, <3>3, <4>1 DEF SerialInv, Exclusive, Mutating, EnsureSteps
      <4>3. UNCHANGED mapping
        BY <1>2, <4>2, TableStep DEF Mutating, EnsureSteps, DeleteSteps
      <4>4. QED
        BY <4>1, <4>3
    <3>4. QED
      BY <3>2, <3>3
  <2>3. UndoCause'
    BY <1>0, <1>2, <1>k, <2>0 DEF SerialInv, UndoCause, CreatesUnmapped, Caused, FaultKinds
  <2>4. QED
    BY <2>1, <2>2, <2>3 DEF SerialInv
<1>3. CASE Next /\ Crash
  BY <1>0, <1>3, CrashStep
     DEF SerialInv, Exclusive, CreatesUnmapped, UndoCause, Ended, Mutating, EnsureSteps,
         DeleteSteps
<1>4. CASE Next /\ ((\E q \in wire : Arrive(q)) \/ (\E i \in Ids : Edit(i)))
  <2>1. UNCHANGED <<job, mapping>>
    BY <1>0, <1>4, EditStep DEF Arrive
  <2>2. QED
    BY <1>4, <1>k, <2>1
       DEF SerialInv, Exclusive, CreatesUnmapped, UndoCause, FaultKinds
<1>5. QED
  BY <1>0, <1>1, <1>2, <1>3, <1>4, StepKinds

-----------------------------------------------------------------------------
(* Records, and the one a call has made. *)

(* A request that arrives late is one that was given up on. *)
LEMMA ArriveStep ==
  ASSUME TypeInv, NEW q \in wire, Arrive(q)
  PROVE  /\ UNCHANGED <<mapping, job, faults>>
         /\ q \in Request
         /\ \/ UNCHANGED <<records, creator>>
            \/ Accepts(q) /\ \E i \in Ids : Apply(q, i)
BY DEF Arrive, TypeInv, TypeOK

(* A record that is gone stays gone, for ids are not used again, and a record *)
(* stays in its zone.                                                         *)
LEMMA RecordStep ==
  ASSUME TypeInv, Next, NEW i \in Ids, creator[i] # Nil, records'[i] # Nil
  PROVE  records[i] # Nil /\ records'[i].zone = records[i].zone
<1> DEFINE Goal == records[i] # Nil /\ records'[i].zone = records[i].zone
<1>1. CASE UNCHANGED records
  BY <1>1
<1>2. ASSUME NEW z, NEW k \in Ids, NEW d, Write(z, k, d), k # i \/ Found(z, k) PROVE Goal
  BY <1>2 DEF Write, Found, TypeInv, TypeOK
<1>3. ASSUME NEW k \in Ids, records' = [records EXCEPT ![k] = Nil] PROVE Goal
  BY <1>3 DEF TypeInv, TypeOK
<1>4. ASSUME NEW w \in Workers, WorkerStep(w) PROVE Goal
  <2>1. CASE Updates(w)
    <3>1. job[w].row.id \in Ids
      BY <2>1 DEF Updates, TypeInv, LocalsSet, Row
    <3>2. QED
      BY <1>2, <2>1, <3>1 DEF Updates, Writes
  <2>2. CASE Restores(w)
    <3>1. job[w].row.id \in Ids
      BY <2>2 DEF Restores, TypeInv, LocalsSet, Row
    <3>2. QED
      BY <1>2, <2>2, <3>1 DEF Restores, Writes
  <2>3. CASE Creates(w)
    BY <1>2, <2>3 DEF Creates, Writes, Fresh
  <2>4. CASE Undoes(w)
    BY <1>3, <2>4 DEF Undoes, TypeInv, LocalsSet
  <2>5. CASE Removes(w)
    <3>1. job[w].row.id \in Ids
      BY <2>5 DEF Removes, TypeInv, LocalsSet, Row
    <3>2. QED
      BY <1>3, <2>5, <3>1 DEF Removes
  <2>6. QED
    BY <1>1, <1>4, <2>1, <2>2, <2>3, <2>4, <2>5
       DEF WorkerStep, Begins, Stops, Fails, Misses, Reads, FindsNone, Confirms, TurnsPage,
           Clears, Collects, Lists, Compensates, Aborts, Saves, Inserts, Forgets, Local
<1>5. ASSUME NEW q \in wire, Arrive(q) PROVE Goal
  <2>1. ASSUME Accepts(q), NEW k \in Ids, Apply(q, k) PROVE Goal
    BY <1>2, <1>3, <2>1 DEF Accepts, Apply, Fresh
  <2>2. QED
    BY <1>1, <1>5, <2>1, ArriveStep
<1>6. ASSUME NEW k \in Ids, Edit(k) PROVE Goal
  <2>1. ASSUME k \in Fresh, NEW in \in Inputs, Write(in.zone, k, in.want) PROVE Goal
    BY <1>2, <2>1 DEF Fresh
  <2>2. ASSUME records[k] # Nil, NEW in \in Inputs, Write(records[k].zone, k, in.want)
        PROVE  Goal
    BY <1>2, <2>2 DEF Found
  <2>3. QED
    BY <1>3, <1>6, <2>1, <2>2 DEF Edit
<1>7. CASE Crash
  BY <1>1, <1>7, CrashStep DEF Local
<1>8. QED
  BY <1>4, <1>5, <1>6, <1>7, StepKinds

(* A worker removes a record it has made, or the record of its row.           *)
LEMMA DiesStep ==
  ASSUME TypeInv, NEW w \in Workers, WorkerStep(w), NEW i \in Ids, records[i] # Nil,
         records'[i] = Nil
  PROVE  \/ Undoes(w) /\ i = job[w].made
         \/ Removes(w) /\ i = job[w].row.id
<1>1. ASSUME NEW z \in Zones, NEW k \in Ids, NEW d \in Data, Write(z, k, d) PROVE FALSE
  <2>1. [zone |-> z, data |-> Kept(d)] # Nil
    BY KeptIsData, NilAssumption DEF Record
  <2>2. QED
    BY <1>1, <2>1 DEF Write, TypeInv, TypeOK
<1>2. ~Updates(w)
  BY <1>1 DEF Updates, Writes, TypeInv, LocalsSet, Row, EnsureSteps
<1>3. ~Restores(w)
  BY <1>1 DEF Restores, Writes, TypeInv, LocalsSet, Row
<1>4. ~Creates(w)
  BY <1>1 DEF Creates, Writes, TypeInv, LocalsSet, Fresh, EnsureSteps
<1>5. CASE Undoes(w) \/ Removes(w)
  BY <1>5 DEF Undoes, Removes, TypeInv, TypeOK
<1>6. QED
  BY <1>2, <1>3, <1>4, <1>5
     DEF WorkerStep, Begins, Stops, Fails, Misses, Reads, FindsNone, Confirms, TurnsPage,
         Clears, Collects, Lists, Compensates, Aborts, Saves, Inserts, Forgets, Local

-----------------------------------------------------------------------------
(* The created record is no one else's.                                     *)
MadeUnmapped == \A w \in Workers : job[w].made # Nil =>
  /\ \A r \in Routes : mapping[r] # Nil => mapping[r].id # job[w].made
  /\ \A v \in Workers : job[v].row # Nil => job[v].row.id # job[w].made
  /\ \A v \in Workers \ {w} : job[v].made # job[w].made

(* The created record is still there.                                       *)
MadeLive == \A w \in Workers : job[w].made # Nil =>
  IF records[job[w].made] = Nil THEN Happened("edit") \/ Happened("timeout")
                                ELSE records[job[w].made].zone = job[w].zone

MadeInv == MadeUnmapped /\ MadeLive

(* Nothing has been created at the start.                                   *)
LEMMA MadeInvInit == Init => MadeInv
BY DEF Init, MadeInv, MadeUnmapped, MadeLive, Blank

(* A worker keeps the record it has made, unless it has just made it. *)
LEMMA MadeStep ==
  ASSUME TypeInv, NEW w \in Workers, Alone(w), WorkerStep(w), NEW v \in Workers,
         job'[v].made # Nil
  PROVE  \/ v = w /\ Creates(w)
         \/ job'[v].made = job[v].made /\ job'[v].zone = job[v].zone /\ ~Creates(v)
BY DEF Alone, WorkerStep, Begins, Stops, Fails, Misses, Reads, FindsNone, Confirms, TurnsPage,
       Clears, Collects, Lists, Compensates, Aborts, Updates, Restores, Creates, Undoes,
       Removes, Saves, Inserts, Forgets, Ended, Carried

(* The table gets no id but of a record that was made for it, and a call      *)
(* copies no row but one of the table.                                        *)
LEMMA IdStep ==
  ASSUME TypeInv, NEW w \in Workers, Alone(w), WorkerStep(w)
  PROVE  /\ \A r \in Routes : mapping'[r] # Nil =>
              \/ mapping[r] # Nil /\ mapping'[r].id = mapping[r].id
              \/ Inserts(w) /\ r = job[w].route /\ mapping'[r].id = job[w].made
         /\ \A v \in Workers : job'[v].row # Nil =>
              \/ job'[v].row = job[v].row
              \/ Reads(w) /\ v = w /\ job[w].route \in Routes
                 /\ mapping[job[w].route] # Nil /\ job'[v].row = mapping[job[w].route]
<1>1. \A r \in Routes : mapping'[r] # Nil =>
        \/ mapping[r] # Nil /\ mapping'[r].id = mapping[r].id
        \/ Inserts(w) /\ r = job[w].route /\ mapping'[r].id = job[w].made
  <2>1. CASE UNCHANGED mapping
    BY <2>1
  <2>2. CASE Saves(w)
    BY <2>2 DEF Saves, Hit, TypeInv, TypeOK, Row
  <2>3. CASE Inserts(w)
    BY <2>3 DEF Inserts, TypeInv, TypeOK
  <2>4. CASE Forgets(w)
    BY <2>4 DEF Forgets, TypeInv, TypeOK
  <2>5. QED
    BY <2>1, <2>2, <2>3, <2>4
       DEF WorkerStep, Begins, Stops, Fails, Misses, Reads, FindsNone, Confirms, TurnsPage,
           Clears, Collects, Lists, Compensates, Aborts, Updates, Restores, Creates, Undoes,
           Removes, Local, Writes
<1>2. \A v \in Workers : job'[v].row # Nil =>
        \/ job'[v].row = job[v].row
        \/ Reads(w) /\ v = w /\ job[w].route \in Routes
           /\ mapping[job[w].route] # Nil /\ job'[v].row = mapping[job[w].route]
  BY DEF Alone, WorkerStep, Begins, Stops, Fails, Misses, Reads, FindsNone, Confirms,
         TurnsPage, Clears, Collects, Lists, Compensates, Aborts, Updates, Restores, Creates,
         Undoes, Removes, Saves, Inserts, Forgets, Ended, KeepsRow
<1>3. QED
  BY <1>1, <1>2

(* No row, no call and no other create comes to hold the record a call has just *)
(* created: its id is fresh, and it is inserted or undone once.             *)
LEMMA MadeUnmappedStep ==
  ASSUME LocalInv, MadeUnmapped, NEW w \in Workers, Alone(w), WorkerStep(w)
  PROVE  MadeUnmapped'
<1>0. TypeInv /\ IdsAreOwn /\ HeldForRoute
  BY DEF LocalInv, OwnInv
<1>1. SUFFICES ASSUME NEW v \in Workers, job'[v].made # Nil
               PROVE  /\ \A r \in Routes : mapping'[r] # Nil => mapping'[r].id # job'[v].made
                      /\ \A u \in Workers : job'[u].row # Nil => job'[u].row.id # job'[v].made
                      /\ \A u \in Workers \ {v} : job'[u].made # job'[v].made
  BY DEF MadeUnmapped
<1>2. CASE v = w /\ Creates(w)
  <2>1. UNCHANGED mapping /\ creator[job'[v].made] = Nil
    BY <1>2 DEF Creates, Writes, Fresh
  <2>2. \A u \in Workers : job'[u].row = job[u].row /\ (u # v => job'[u].made = job[u].made)
    BY <1>2 DEF Alone, Creates, KeepsRow
  <2>3. \A u \in Workers : job[u].row # Nil \/ job[u].made # Nil => job[u].route # Nil
    BY <1>0, NilAssumption DEF HeldForRoute
  <2>4. QED
    BY <1>0, <1>1, <2>1, <2>2, <2>3, NilAssumption DEF IdsAreOwn
<1>3. CASE job'[v].made = job[v].made
  <2>1. \A r \in Routes : mapping'[r] # Nil => mapping'[r].id # job'[v].made
    <3>1. ASSUME NEW r \in Routes, Inserts(w), mapping'[r].id = job[w].made
          PROVE  mapping'[r].id # job'[v].made
      <4>1. v # w
        BY <1>1, <3>1 DEF Inserts, Ended
      <4>2. QED
        BY <1>1, <1>3, <3>1, <4>1 DEF MadeUnmapped
    <3>2. QED
      BY <1>0, <1>1, <1>3, <3>1, IdStep DEF MadeUnmapped
  <2>2. \A u \in Workers : job'[u].row # Nil => job'[u].row.id # job'[v].made
    BY <1>0, <1>1, <1>3, IdStep DEF MadeUnmapped
  <2>3. ASSUME NEW u \in Workers \ {v} PROVE job'[u].made # job'[v].made
    <3>1. CASE job'[u].made = Nil
      BY <1>1, <3>1
    <3>2. CASE u = w /\ Creates(w)
      <4>1. creator[job'[u].made] = Nil
        BY <3>2 DEF Creates, Fresh
      <4>2. creator[job[v].made] = job[v].route /\ job[v].route \in Routes
        BY <1>0, <1>1, <1>3 DEF IdsAreOwn, HeldForRoute
      <4>3. QED
        BY <1>3, <4>1, <4>2, NilAssumption
    <3>3. CASE job'[u].made = job[u].made
      BY <1>1, <1>3, <3>3 DEF MadeUnmapped
    <3>4. QED
      BY <1>0, <3>1, <3>2, <3>3, MadeStep
  <2>4. QED
    BY <2>1, <2>2, <2>3
<1>4. QED
  BY <1>0, <1>1, <1>2, <1>3, MadeStep

(* A created record lives until its call inserts its row or undoes it, unless *)
(* the owner of the zone or a late DELETE removes it.                       *)
LEMMA MadeLiveStep ==
  ASSUME LocalInv, MadeInv, Next, NEW w \in Workers, Alone(w), WorkerStep(w)
  PROVE  MadeLive'
<1>0. TypeInv /\ IdsAreOwn /\ HeldForRoute /\ MadeUnmapped
  BY DEF LocalInv, OwnInv, MadeInv
<1>1. SUFFICES ASSUME NEW v \in Workers, job'[v].made # Nil
               PROVE  IF records'[job'[v].made] = Nil
                        THEN (Happened("edit"))' \/ (Happened("timeout"))'
                        ELSE records'[job'[v].made].zone = job'[v].zone
  BY DEF MadeLive
<1>2. CASE v = w /\ Creates(w)
  <2> DEFINE rec == [zone |-> job[w].zone, data |-> Kept(job[w].want)]
  <2>1. job[w].zone \in Zones /\ job[w].want \in Data
    BY <1>0, <1>2 DEF Creates, TypeInv, LocalsSet, EnsureSteps
  <2>2. rec # Nil
    BY <2>1, KeptIsData, NilAssumption DEF Record
  <2>3. records'[job'[v].made] = rec /\ job'[v].zone = job[v].zone
    BY <1>0, <1>2 DEF Creates, Writes, Write, Fresh, TypeInv, TypeOK
  <2>4. QED
    BY <1>2, <2>2, <2>3
<1>3. CASE job'[v].made = job[v].made /\ job'[v].zone = job[v].zone
  <2> DEFINE i == job[v].made
  <2>1. i \in Ids /\ creator[i] # Nil /\ i # Nil
    BY <1>0, <1>1, <1>3, NilAssumption DEF IdsAreOwn, HeldForRoute, TypeInv, TypeOK, Job
  <2>2. records'[i] # Nil => records[i] # Nil /\ records'[i].zone = records[i].zone
    BY <1>0, <2>1, RecordStep
  <2>3. ASSUME records'[i] = Nil, records[i] # Nil PROVE FALSE
    <3>1. CASE Undoes(w) /\ i = job[w].made
      BY <1>0, <1>1, <1>3, <2>1, <3>1 DEF MadeUnmapped, Undoes, Ended
    <3>2. CASE Removes(w) /\ i = job[w].row.id
      <4>1. job[w].row # Nil
        BY <1>0, <3>2, NilAssumption DEF Removes, TypeInv, LocalsSet
      <4>2. QED
        BY <1>0, <2>1, <3>2, <4>1 DEF MadeUnmapped
    <3>3. QED
      BY <1>0, <2>1, <2>3, <3>1, <3>2, DiesStep
  <2>4. Happened("edit") \/ Happened("timeout")
          => (Happened("edit"))' \/ (Happened("timeout"))'
    BY <1>0, HappenedStays DEF FaultKinds
  <2>5. QED
    BY <1>1, <1>3, <2>1, <2>2, <2>3, <2>4 DEF MadeInv, MadeLive
<1>4. QED
  BY <1>0, <1>1, <1>2, <1>3, MadeStep

(* Every step keeps created records with the calls that made them.          *)
LEMMA MadeInvNext == LocalInv /\ MadeInv /\ [Next]_vars => MadeInv'
<1> SUFFICES ASSUME LocalInv, MadeInv, [Next]_vars PROVE MadeInv'
  OBVIOUS
<1>0. TypeInv /\ Caused
  BY DEF LocalInv, OwnInv
<1>1. CASE UNCHANGED vars
  BY <1>1 DEF vars, MadeInv, MadeUnmapped, MadeLive, Happened
<1>2. ASSUME NEW w \in Workers, Alone(w), WorkerStep(w), Next PROVE MadeInv'
  BY <1>2, MadeUnmappedStep, MadeLiveStep DEF MadeInv
<1>3. CASE Crash
  BY <1>0, <1>3, CrashStep DEF MadeInv, MadeUnmapped, MadeLive, Ended
<1>4. ASSUME Next, UNCHANGED <<job, mapping>>, (Happened("edit"))' \/ (Happened("timeout"))'
      PROVE  MadeInv'
  <2>1. MadeUnmapped'
    BY <1>4 DEF MadeInv, MadeUnmapped
  <2>2. ASSUME NEW v \in Workers, job[v].made # Nil, records'[job[v].made] # Nil
        PROVE  records'[job[v].made].zone = job[v].zone
    <3>1. job[v].made \in Ids /\ creator[job[v].made] # Nil
      BY <2>2, NilAssumption DEF LocalInv, OwnInv, IdsAreOwn, HeldForRoute, TypeInv, TypeOK, Job
    <3>2. QED
      BY <1>0, <1>4, <2>2, <3>1, RecordStep DEF MadeInv, MadeLive
  <2>3. MadeLive'
    BY <1>4, <2>2 DEF MadeLive
  <2>4. QED
    BY <2>1, <2>3 DEF MadeInv
<1>5. ASSUME Next, NEW q \in wire, Arrive(q) PROVE MadeInv'
  BY <1>0, <1>4, <1>5, HappenedStays DEF Caused, Arrive, FaultKinds
<1>6. ASSUME Next, NEW i \in Ids, Edit(i) PROVE MadeInv'
  BY <1>0, <1>4, <1>6, EditStep
<1>7. QED
  BY <1>0, <1>1, <1>2, <1>3, <1>5, <1>6, StepKinds

-----------------------------------------------------------------------------
(* Rows that are forgotten. *)

(* The record of a row that is being forgotten is gone.                     *)
ForgottenDead == \A w \in Workers :
  job[w].pc = "delete_forget" => records[job[w].row.id] = Nil

(* Two calls do not forget the row of the same record.                      *)
ForgetsApart == \A v, w \in Workers :
  /\ job[v].pc = "delete_forget" /\ job[w].pc = "delete_forget"
  /\ job[v].row.id = job[w].row.id
  => v = w

(* The row is still the one the call has read.                              *)
ForgetHits == \A w \in Workers : job[w].pc = "delete_forget" => Hit(w)

(* A live record that a call has read from its row still has that row.      *)
RowMapped == \A w \in Workers :
  job[w].row # Nil /\ records[job[w].row.id] # Nil => Hit(w)

ForgetInv == ForgottenDead /\ ForgetsApart /\ ForgetHits /\ RowMapped

(* No row is being forgotten at the start.                                  *)
LEMMA ForgetInvInit == Init => ForgetInv
BY DEF Init, ForgetInv, ForgottenDead, ForgetsApart, ForgetHits, RowMapped, Blank

(* A row leaves the table by the hand of a worker that removes it.            *)
LEMMA TableGone ==
  ASSUME TypeInv, NEW w \in Workers, WorkerStep(w), NEW r \in Routes, mapping[r] # Nil,
         mapping'[r] = Nil
  PROVE  Forgets(w) /\ job[w].route = r
<1>1. CASE Saves(w)
  <2>1. job[w].route \in Routes /\ job[w].want \in Data
    BY <1>1 DEF Saves, TypeInv, LocalsSet, Mutating, EnsureSteps
  <2>2. mapping[job[w].route] \in Row
    BY <1>1, <2>1 DEF Saves, Hit, TypeInv, TypeOK
  <2>3. [mapping[job[w].route] EXCEPT !.data = job[w].want] \in Row
    BY <2>1, <2>2 DEF Row
  <2>4. QED
    BY <1>1, <2>1, <2>3, NilAssumption DEF Saves, TypeInv, TypeOK
<1>2. CASE Inserts(w)
  BY <1>2 DEF Inserts, TypeInv, TypeOK
<1>3. CASE Forgets(w)
  BY <1>3 DEF Forgets, TypeInv, TypeOK
<1>4. QED
  BY <1>1, <1>2, <1>3
     DEF WorkerStep, Begins, Stops, Fails, Misses, Reads, FindsNone, Confirms, TurnsPage,
         Clears, Collects, Lists, Compensates, Aborts, Updates, Restores, Creates, Undoes,
         Removes, Local, Writes

(* A worker comes to forget the row of the record it has just removed.        *)
LEMMA ForgetStep ==
  ASSUME TypeInv, NEW w \in Workers, Alone(w), WorkerStep(w), NEW v \in Workers,
         job'[v].pc = "delete_forget"
  PROVE  /\ job'[v].row = job[v].row /\ job'[v].route = job[v].route
         /\ \/ v = w /\ Removes(w)
            \/ job[v].pc = "delete_forget"
BY DEF Alone, WorkerStep, Begins, Stops, Fails, Misses, Reads, FindsNone, Confirms, TurnsPage,
       Clears, Collects, Lists, Compensates, Aborts, Updates, Restores, Creates, Undoes,
       Removes, Saves, Inserts, Forgets, Ended, Carried, KeepsRow

(* The id a worker forgets was created for its route.                         *)
LEMMA ForgetsOwn ==
  ASSUME OwnInv, NEW w \in Workers, job[w].row # Nil
  PROVE  /\ job[w].row.id \in Ids /\ creator[job[w].row.id] # Nil
         /\ job[w].route \in Routes /\ creator[job[w].row.id] = job[w].route
BY NilAssumption DEF OwnInv, IdsAreOwn, HeldForRoute, TypeInv, TypeOK, Job, Row

(* The row a call is about to forget, by type.                              *)
LEMMA ForgetsRow ==
  ASSUME TypeInv, NEW w \in Workers, job[w].pc \in {"delete_record", "delete_forget"}
  PROVE  job[w].row # Nil
BY NilAssumption DEF TypeInv, LocalsSet

(* A step of a worker keeps the rows that are forgotten without a record, each *)
(* in the hand of one call that will still find it.                         *)
LEMMA ForgetInvStep ==
  ASSUME LocalInv, ForgetInv, Next, NEW w \in Workers, Alone(w), WorkerStep(w)
  PROVE  ForgetInv'
<1>0. OwnInv /\ TypeInv /\ TypeInv'
  BY TypeInvNext DEF LocalInv, OwnInv
<1>1. ForgottenDead'
  <2>1. SUFFICES ASSUME NEW v \in Workers, job'[v].pc = "delete_forget"
                 PROVE  records'[job'[v].row.id] = Nil
    BY DEF ForgottenDead
  <2>2. CASE v = w /\ Removes(w)
    <3>1. job[w].row # Nil
      BY <1>0, <2>2, ForgetsRow DEF Removes
    <3>2. QED
      BY <1>0, <2>2, <3>1, ForgetsOwn DEF Removes, KeepsRow, TypeInv, TypeOK
  <2>3. CASE job[v].pc = "delete_forget" /\ job'[v].row = job[v].row
    <3>1. job[v].row # Nil
      BY <1>0, <2>3, ForgetsRow
    <3>2. QED
      BY <1>0, <2>3, <3>1, ForgetsOwn, RecordStep DEF ForgetInv, ForgottenDead
  <2>4. QED
    BY <1>0, <2>1, <2>2, <2>3, ForgetStep
<1>2. ForgetsApart'
  <2>1. ASSUME NEW v \in Workers, NEW u \in Workers, v # u, v = w, Removes(w),
               job[u].pc = "delete_forget"
        PROVE  job[v].row.id # job[u].row.id
    BY <2>1 DEF Removes, Found, ForgetInv, ForgottenDead
  <2>2. QED
    BY <1>0, <2>1, ForgetStep DEF ForgetInv, ForgetsApart
<1>3. ForgetHits'
  <2>1. SUFFICES ASSUME NEW v \in Workers, job'[v].pc = "delete_forget" PROVE Hit(v)'
    BY DEF ForgetHits
  <2>2. job'[v].row = job[v].row /\ job'[v].route = job[v].route
    BY <1>0, <2>1, ForgetStep
  <2>3. CASE v = w /\ Removes(w)
    <3>1. job[w].row # Nil
      BY <1>0, <2>3, ForgetsRow DEF Removes
    <3>2. Hit(w)
      BY <2>3, <3>1 DEF Removes, Found, ForgetInv, RowMapped
    <3>3. QED
      BY <2>2, <2>3, <3>2 DEF Hit, Removes
  <2>4. CASE job[v].pc = "delete_forget"
    <3>1. Hit(v) /\ job[v].row # Nil
      BY <1>0, <2>4, ForgetsRow DEF ForgetInv, ForgetHits
    <3>2. job[v].route \in Routes
      BY <1>0, <3>1, ForgetsOwn
    <3>3. mapping'[job[v].route] # Nil
      <4>1. ASSUME Forgets(w), job[w].route = job[v].route PROVE FALSE
        <5>1. v # w
          BY <2>1, <4>1 DEF Forgets, Ended
        <5>2. QED
          BY <2>4, <3>1, <4>1, <5>1 DEF Forgets, Hit, ForgetInv, ForgetsApart
      <4>2. QED
        BY <1>0, <3>1, <3>2, <4>1, TableGone DEF Hit
    <3>4. mapping'[job[v].route].id = mapping[job[v].route].id
      BY <1>0, <3>1, <3>2, <3>3, IdStep DEF Hit, Inserts
    <3>5. QED
      BY <2>2, <3>1, <3>3, <3>4 DEF Hit
  <2>5. QED
    BY <1>0, <2>1, <2>3, <2>4, ForgetStep
<1>4. RowMapped'
  <2>1. SUFFICES ASSUME NEW v \in Workers, job'[v].row # Nil,
                        records'[job'[v].row.id] # Nil
                 PROVE  Hit(v)'
    BY DEF RowMapped
  <2>2. job'[v].route = job[v].route
    BY <1>0, <2>1, LocalStep DEF Keeps
  <2>3. CASE job'[v].row = job[v].row
    <3>1. records[job[v].row.id] # Nil
      BY <1>0, <2>1, <2>3, ForgetsOwn, RecordStep
    <3>2. Hit(v) /\ job[v].route \in Routes
      BY <1>0, <2>1, <2>3, <3>1, ForgetsOwn DEF ForgetInv, RowMapped
    <3>3. mapping'[job[v].route] # Nil
      <4>1. ASSUME Forgets(w), job[w].route = job[v].route PROVE FALSE
        BY <3>1, <3>2, <4>1 DEF Forgets, Hit, ForgetInv, ForgottenDead
      <4>2. QED
        BY <1>0, <3>2, <4>1, TableGone DEF Hit
    <3>4. mapping'[job[v].route].id = mapping[job[v].route].id
      BY <1>0, <3>2, <3>3, IdStep DEF Hit, Inserts
    <3>5. QED
      BY <2>2, <2>3, <3>2, <3>3, <3>4 DEF Hit
  <2>4. CASE Reads(w) /\ v = w
    BY <2>2, <2>4 DEF Reads, Local, Hit
  <2>5. QED
    BY <1>0, <2>1, <2>3, <2>4, IdStep
<1>5. QED
  BY <1>1, <1>2, <1>3, <1>4 DEF ForgetInv

(* Every step does.                                                         *)
LEMMA ForgetInvNext == LocalInv /\ ForgetInv /\ [Next]_vars => ForgetInv'
<1> SUFFICES ASSUME LocalInv, ForgetInv, [Next]_vars PROVE ForgetInv'
  OBVIOUS
<1>0. OwnInv /\ TypeInv
  BY DEF LocalInv, OwnInv
<1>1. CASE UNCHANGED vars
  BY <1>1 DEF vars, ForgetInv, ForgottenDead, ForgetsApart, ForgetHits, RowMapped, Hit
<1>2. ASSUME NEW w \in Workers, Alone(w), WorkerStep(w), Next PROVE ForgetInv'
  BY <1>2, ForgetInvStep
<1>3. CASE Crash
  BY <1>0, <1>3, CrashStep
     DEF ForgetInv, ForgottenDead, ForgetsApart, ForgetHits, RowMapped, Ended
<1>4. ASSUME Next, UNCHANGED <<job, mapping>> PROVE ForgetInv'
  <2>1. \A v \in Workers : job[v].row # Nil /\ records'[job[v].row.id] # Nil
                             => records[job[v].row.id] # Nil
    BY <1>0, <1>4, ForgetsOwn, RecordStep
  <2>2. \A v \in Workers : job[v].pc = "delete_forget" => job[v].row # Nil
    BY <1>0, ForgetsRow
  <2>3. QED
    BY <1>4, <2>1, <2>2 DEF ForgetInv, ForgottenDead, ForgetsApart, ForgetHits, RowMapped, Hit
<1>5. QED
  BY <1>0, <1>1, <1>2, <1>3, <1>4, EditStep, ArriveStep, StepKinds

-----------------------------------------------------------------------------
(* Rows without a record and records without a row. *)

HandInv == LocalInv /\ SerialInv /\ MadeInv /\ ForgetInv

(* The layers that need no assumption hold at the start,                    *)
LEMMA HandInvInit == Init => HandInv
BY LocalInvInit, SerialInvInit, MadeInvInit, ForgetInvInit DEF HandInv

(* and every step keeps them.                                               *)
LEMMA HandInvNext == HandInv /\ [Next]_vars => HandInv'
BY LocalInvNext, SerialInvNext, MadeInvNext, ForgetInvNext DEF HandInv

-----------------------------------------------------------------------------
Excused == \E k \in {"edit", "timeout", "crash", "cancel", "db"} : Happened(k)

(* DanglingHasCause with the call that forgets the row named.               *)
DanglingInHand == \A r \in Routes : Dangling(r) =>
  \/ \E w \in Workers : /\ job[w].route = r /\ job[w].pc = "delete_forget"
                        /\ job[w].row.id = mapping[r].id
  \/ Excused

(* A row loses its record to the call that is about to forget it, or to a fault. *)
LEMMA DanglingInHandStep ==
  ASSUME HandInv, DanglingInHand, Next, NEW w \in Workers, Alone(w), WorkerStep(w)
  PROVE  DanglingInHand'
<1>0. /\ OwnInv /\ TypeInv /\ TypeInv' /\ Caused /\ LocalInv /\ MadeUnmapped /\ MadeLive
      /\ ForgetHits
  BY TypeInvNext DEF HandInv, LocalInv, OwnInv, MadeInv, ForgetInv
<1>1. SUFFICES ASSUME NEW r \in Routes, Dangling(r)', ~Excused'
               PROVE  \E v \in Workers : /\ job'[v].route = r /\ job'[v].pc = "delete_forget"
                                         /\ job'[v].row.id = mapping'[r].id
  BY DEF DanglingInHand
<1>2. ~Excused
  BY <1>0, <1>1, HappenedStays DEF Excused, FaultKinds
<1>3. mapping'[r] # Nil /\ records'[mapping'[r].id] = Nil /\ mapping'[r].id \in Ids
  BY <1>0, <1>1 DEF Dangling, TypeInv, TypeOK, Row
<1>4. ASSUME Inserts(w), mapping'[r].id = job[w].made PROVE FALSE
  <2>1. job[w].made # Nil /\ UNCHANGED records
    BY <1>0, <1>4, NilAssumption DEF Inserts, TypeInv, LocalsSet
  <2>2. QED
    BY <1>0, <1>2, <1>3, <1>4, <2>1 DEF MadeLive, Excused
<1>5. mapping[r] # Nil /\ mapping'[r].id = mapping[r].id
  BY <1>0, <1>3, <1>4, IdStep
<1>6. CASE records[mapping[r].id] = Nil
  <2>1. PICK v \in Workers : /\ job[v].route = r /\ job[v].pc = "delete_forget"
                             /\ job[v].row.id = mapping[r].id
    BY <1>2, <1>5, <1>6 DEF DanglingInHand, Dangling
  <2>2. CASE v # w
    BY <1>5, <2>1, <2>2 DEF Alone
  <2>3. CASE v = w
    <3>1. Hit(w) /\ ~job[w].done
      BY <1>0, <1>2, <2>1, <2>3 DEF ForgetHits, Caused, Excused
    <3>2. ~Fails(w) /\ ~Misses(w)
      BY <1>1, <2>1, <2>3, <3>1 DEF Fails, Misses, Excused
    <3>3. ~Forgets(w)
      BY <1>0, <1>3, <2>1, <2>3 DEF Forgets, TypeInv, TypeOK
    <3>4. Aborts(w)
      BY <2>1, <2>3, <3>2, <3>3
         DEF WorkerStep, Begins, Stops, Reads, FindsNone, Confirms, TurnsPage, Clears,
             Collects, Lists, Compensates, Updates, Restores, Creates, Undoes, Removes,
             Saves, Inserts, Finals
    <3>5. QED
      BY <1>1, <3>4 DEF Aborts, Excused
  <2>4. QED
    BY <2>2, <2>3
<1>7. CASE records[mapping[r].id] # Nil
  <2>1. CASE Undoes(w) /\ mapping[r].id = job[w].made
    <3>1. job[w].made # Nil
      BY <1>0, <2>1, NilAssumption DEF Undoes, TypeInv, LocalsSet
    <3>2. QED
      BY <1>0, <1>5, <2>1, <3>1 DEF MadeUnmapped
  <2>2. CASE Removes(w) /\ mapping[r].id = job[w].row.id
    <3>1. job[w].row # Nil
      BY <1>0, <2>2, ForgetsRow DEF Removes
    <3>2. creator[job[w].row.id] = job[w].route /\ creator[mapping[r].id] = r
      BY <1>0, <1>5, <3>1, ForgetsOwn DEF OwnInv, IdsAreOwn
    <3>3. QED
      BY <1>5, <2>2, <3>2 DEF Removes, Carried, KeepsRow
  <2>3. QED
    BY <1>0, <1>3, <1>5, <1>7, <2>1, <2>2, DiesStep
<1>8. QED
  BY <1>6, <1>7

(* Every step does, the faults included.                                    *)
LEMMA DanglingInHandNext == HandInv /\ DanglingInHand /\ [Next]_vars => DanglingInHand'
<1> SUFFICES ASSUME HandInv, DanglingInHand, [Next]_vars PROVE DanglingInHand'
  OBVIOUS
<1>0. TypeInv /\ Caused
  BY DEF HandInv, LocalInv, OwnInv
<1>1. CASE UNCHANGED vars
  BY <1>1 DEF vars, DanglingInHand, Dangling, Excused, Happened
<1>2. ASSUME Excused' PROVE DanglingInHand'
  BY <1>2 DEF DanglingInHand
<1>3. ASSUME Next, NEW q \in wire, Arrive(q) PROVE Excused'
  BY <1>0, <1>3, HappenedStays DEF Caused, FaultKinds, Excused
<1>4. CASE Crash
  BY <1>0, <1>2, <1>4, CrashStep DEF Excused
<1>5. ASSUME NEW i \in Ids, Edit(i) PROVE Excused'
  BY <1>0, <1>5, EditStep DEF Excused
<1>6. QED
  BY <1>0, <1>1, <1>2, <1>3, <1>4, <1>5, DanglingInHandStep, StepKinds

(* A row whose record is gone is a delete in progress, or an edit, a lost answer, *)
(* a crash, a cancelled context or a database failure came in between       *)
(* (Service.DeleteManaged), with any number of instances.                   *)
THEOREM DanglingAlwaysHasCause == Spec => []DanglingHasCause
<1>1. Init => DanglingInHand
  BY DEF Init, DanglingInHand, Dangling
<1>2. DanglingInHand => DanglingHasCause
  BY DEF DanglingInHand, DanglingHasCause, Doing, Excused
<1>3. QED
  BY <1>1, <1>2, HandInvInit, HandInvNext, DanglingInHandNext, PTL DEF Spec

-----------------------------------------------------------------------------
(* What may lose a created record.                                          *)
Lost ==
  \/ Happened("timeout") \/ Happened("crash") \/ Happened("cancel")
  \/ Happened("refused") /\ (Happened("db") \/ ~Serialized)

(* A worker creates a record, or leaves the creators alone.                   *)
LEMMA BornStep ==
  ASSUME TypeInv, NEW w \in Workers, WorkerStep(w), NEW i \in Ids, creator'[i] # creator[i]
  PROVE  Creates(w) /\ job'[w].made = i
BY DEF WorkerStep, Begins, Stops, Fails, Misses, Reads, FindsNone, Confirms, TurnsPage,
       Clears, Collects, Lists, Compensates, Aborts, Updates, Restores, Creates, Undoes,
       Removes, Saves, Inserts, Forgets, Local, Fresh, TypeInv, TypeOK

(* What may have lost a record has happened for good.                       *)
LEMMA LostStays == ASSUME TypeInv, Next, Lost PROVE Lost'
BY HappenedStays DEF Lost, FaultKinds

(* A step of a worker leaves a live record of the service to a row or to a call, *)
(* unless a create, its insert or its compensation fails.                   *)
LEMMA NoOrphanStep ==
  ASSUME HandInv, NoOrphan, Next, NEW w \in Workers, Alone(w), WorkerStep(w)
  PROVE  NoOrphan'
<1>0. /\ OwnInv /\ TypeInv /\ TypeInv' /\ Caused /\ LocalInv /\ MadeUnmapped /\ MadeLive
      /\ ForgottenDead /\ UndoCause /\ MadeAt
  BY TypeInvNext DEF HandInv, LocalInv, OwnInv, MadeInv, ForgetInv, SerialInv
<1>1. SUFFICES ASSUME NEW i \in Ids, Own(i)', ~Lost'
               PROVE  Mapped(i)' \/ InHand(i)'
  BY DEF NoOrphan, Lost
<1>2. ~Lost
  BY <1>0, <1>1, LostStays
<1>3. ~ \E v \in Workers : job[v].done
  BY <1>0, <1>2 DEF Caused, Lost
<1>4. CASE creator'[i] # creator[i]
  BY <1>0, <1>4, BornStep DEF InHand
<1>5. ASSUME creator'[i] = creator[i] PROVE Own(i)
  BY <1>0, <1>1, <1>5, RecordStep, NilAssumption DEF Own
<1>6. ASSUME creator'[i] = creator[i], NEW r \in Routes, mapping[r] # Nil, mapping[r].id = i
      PROVE  Mapped(i)'
  <2>1. mapping'[r] # Nil
    <3>1. ASSUME Forgets(w), job[w].route = r PROVE FALSE
      BY <1>0, <1>5, <1>6, <3>1 DEF Forgets, Hit, ForgottenDead, Own
    <3>2. QED
      BY <1>0, <1>6, <3>1, TableGone
  <2>2. mapping'[r].id = i
    BY <1>0, <1>6, <2>1, IdStep DEF Inserts
  <2>3. QED
    BY <2>1, <2>2 DEF Mapped
<1>7. ASSUME creator'[i] = creator[i], NEW v \in Workers, job[v].made = i
      PROVE  Mapped(i)' \/ InHand(i)'
  <2>1. CASE job'[v].made = i
    BY <2>1 DEF InHand
  <2>2. CASE job'[v].made # i
    <3>1. v = w /\ job[w].pc \in {"ensure_insert", "ensure_undo"}
      BY <1>0, <1>7, <2>2, NilAssumption DEF Alone, MadeAt
    <3>2. CASE Inserts(w)
      <4>1. job[w].route \in Routes /\ job[w].made \in Ids
        BY <1>0, <3>2 DEF Inserts, TypeInv, LocalsSet, Mutating, EnsureSteps
      <4>2. mapping'[job[w].route] # Nil /\ mapping'[job[w].route].id = i
        <5>1. [zone |-> job[w].zone, id |-> job[w].made, data |-> job[w].want] \in Row
          BY <1>0, <3>2, <4>1 DEF Inserts, TypeInv, LocalsSet, EnsureSteps, Row
        <5>2. QED
          BY <1>0, <1>7, <3>1, <3>2, <4>1, <5>1, NilAssumption DEF Inserts, TypeInv, TypeOK
      <4>3. QED
        BY <4>1, <4>2 DEF Mapped
    <3>3. CASE Undoes(w)
      BY <1>0, <1>1, <1>7, <3>1, <3>3 DEF Undoes, Own, TypeInv, TypeOK
    <3>4. CASE Fails(w)
      <4>1. job[w].pc = "ensure_undo" /\ job[w].made # Nil
        BY <1>0, <1>7, <3>1, <3>4, NilAssumption DEF Fails
      <4>2. Found(job[w].zone, job[w].made)
        BY <1>0, <1>5, <1>7, <3>1, <4>1 DEF MadeLive, Own, Found
      <4>3. Serialized => Happened("db")
        BY <1>0, <1>2, <4>1 DEF UndoCause, Lost
      <4>4. (Happened("refused"))' \/ (Happened("timeout"))'
        BY <1>3, <3>4, <4>1, <4>2 DEF Fails
      <4>5. Serialized => (Happened("db"))'
        BY <1>0, <4>3, HappenedStays DEF FaultKinds
      <4>6. QED
        BY <1>1, <4>4, <4>5 DEF Lost
    <3>5. QED
      BY <1>7, <2>2, <3>1, <3>2, <3>3, <3>4
         DEF WorkerStep, Begins, Stops, Misses, Reads, FindsNone, Confirms, TurnsPage,
             Clears, Collects, Lists, Compensates, Aborts, Updates, Restores, Creates,
             Removes, Saves, Forgets, Finals, Carried
  <2>3. QED
    BY <2>1, <2>2
<1>8. QED
  BY <1>1, <1>2, <1>4, <1>5, <1>6, <1>7 DEF NoOrphan, Mapped, InHand, Lost

(* Every step does, the faults included.                                    *)
LEMMA NoOrphanNext == HandInv /\ NoOrphan /\ [Next]_vars => NoOrphan'
<1> SUFFICES ASSUME HandInv, NoOrphan, [Next]_vars PROVE NoOrphan'
  OBVIOUS
<1>0. TypeInv /\ Caused
  BY DEF HandInv, LocalInv, OwnInv
<1>1. CASE UNCHANGED vars
  BY <1>1 DEF vars, NoOrphan, Own, Mapped, InHand, Happened
<1>2. ASSUME Lost' PROVE NoOrphan'
  BY <1>2 DEF NoOrphan, Lost
<1>3. ASSUME Next, NEW q \in wire, Arrive(q) PROVE Lost'
  BY <1>0, <1>3, HappenedStays DEF Caused, FaultKinds, Lost
<1>4. CASE Crash
  BY <1>0, <1>2, <1>4, CrashStep DEF Lost
<1>5. ASSUME Next, NEW k \in Ids, Edit(k) PROVE NoOrphan'
  <2>1. UNCHANGED <<mapping, job>>
    BY <1>0, <1>5, EditStep
  <2>2. ASSUME NEW i \in Ids, Own(i)' PROVE Own(i)
    <3>1. creator[i] \in Routes
      BY <1>0, <1>5, <2>2, ExternalAssumption DEF Edit, Own, TypeInv, TypeOK
    <3>2. QED
      BY <1>0, <1>5, <2>2, <3>1, RecordStep, NilAssumption DEF Own
  <2>3. Lost => Lost'
    BY <1>0, <1>5, LostStays
  <2>4. QED
    BY <2>1, <2>2, <2>3 DEF NoOrphan, Lost, Mapped, InHand
<1>6. QED
  BY <1>0, <1>1, <1>2, <1>3, <1>4, <1>5, NoOrphanStep, StepKinds

(* A live record the service created has a row or a call that is about to write *)
(* or undo it, and every way to lose one is named (Service.Ensure).         *)
THEOREM NeverOrphan == Spec => []NoOrphan
<1>1. Init => NoOrphan
  BY ExternalAssumption, NilAssumption DEF Init, NoOrphan, Own
<1>2. QED
  BY <1>1, HandInvInit, HandInvNext, NoOrphanNext, PTL DEF Spec

-----------------------------------------------------------------------------
(* Deletes and lists. *)

(* A row whose record is gone stays, and its record stays gone: no call of the *)
(* service replaces the one or forgets the other, but a delete that had found *)
(* the record before (Service.Ensure and Service.DeleteManaged).            *)
THEOREM DanglingRowsStay == Spec => DanglingIsForever
<1>1. ASSUME HandInv, [Next]_vars
      PROVE  [DanglingRoutes \ BeingForgotten \subseteq DanglingRoutes']_vars
  <2>0. OwnInv /\ TypeInv /\ OldKnown /\ ForgetHits
    BY <1>1 DEF HandInv, LocalInv, OwnInv, ForgetInv
  <2>1. SUFFICES ASSUME Next, NEW r \in DanglingRoutes \ BeingForgotten
                 PROVE  Dangling(r)'
    BY <1>1 DEF DanglingRoutes
  <2>2. r \in Routes /\ Dangling(r) /\ mapping[r] # Nil
    BY DEF DanglingRoutes, Dangling
  <2>3. ASSUME mapping'[r] # Nil, mapping'[r].id = mapping[r].id PROVE Dangling(r)'
    <3>1. mapping[r].id \in Ids /\ creator[mapping[r].id] # Nil
      BY <2>0, <2>2, NilAssumption DEF OwnInv, IdsAreOwn, TypeInv, TypeOK, Row
    <3>2. QED
      BY <2>0, <2>1, <2>2, <2>3, <3>1, RecordStep DEF Dangling
  <2>4. ASSUME NEW w \in Workers, Alone(w), WorkerStep(w) PROVE Dangling(r)'
    <3>1. ~(Forgets(w) /\ job[w].route = r)
      BY <2>0, <2>1, NilAssumption DEF Forgets, At, OldKnown, BeingForgotten
    <3>2. mapping'[r] # Nil
      BY <2>0, <2>2, <2>4, <3>1, TableGone
    <3>3. QED
      BY <2>0, <2>2, <2>3, <2>4, <3>2, IdStep DEF Inserts
  <2>5. ASSUME UNCHANGED mapping PROVE Dangling(r)'
    BY <2>2, <2>3, <2>5
  <2>6. QED
    BY <2>0, <2>1, <2>4, <2>5, StepKinds, CrashStep, EditStep, ArriveStep DEF Local
<1>2. QED
  BY <1>1, HandInvInit, HandInvNext, PTL DEF Spec, DanglingIsForever

(* When Service.DeleteManaged reports success neither the record nor the row is *)
(* left, even when another instance works on the same route.                *)
THEOREM DeletedIsGone == Spec => DeleteOkMeansGone
<1> DEFINE Gone == \A w \in Workers :
             job[w].pc \in DeleteSteps /\ job'[w].reply = "ok"
             => records'[job[w].row.id] = Nil /\ mapping'[job[w].route] = Nil
<1>1. ASSUME HandInv, [Next]_vars PROVE [Gone]_vars
  <2>0. OwnInv /\ TypeInv /\ Replying /\ ForgottenDead /\ ForgetHits
    BY <1>1 DEF HandInv, LocalInv, OwnInv, ForgetInv
  <2>1. SUFFICES ASSUME Next, NEW w \in Workers, job[w].pc \in DeleteSteps,
                        job'[w].reply = "ok"
                 PROVE  records'[job[w].row.id] = Nil /\ mapping'[job[w].route] = Nil
    BY <1>1
  <2>2. job[w].reply # "ok"
    BY <2>0, <2>1, NoReplyAssumption DEF DeleteSteps, Replying, Replies
  <2>3. ASSUME NEW v \in Workers, Alone(v), WorkerStep(v) PROVE v = w /\ Forgets(w)
    <3>1. v = w
      BY <2>1, <2>2, <2>3 DEF Alone
    <3>2. ~Misses(w)
      BY <2>0, <2>1 DEF Misses, DeleteSteps, ForgetHits
    <3>3. QED
      BY <2>1, <2>2, <2>3, <3>1, <3>2
         DEF WorkerStep, Begins, Stops, Fails, Reads, FindsNone, Confirms, TurnsPage, Clears,
             Collects, Lists, Compensates, Aborts, Updates, Restores, Creates, Undoes,
             Removes, Saves, Inserts, Carried, DeleteSteps
  <2>4. ASSUME Forgets(w)
        PROVE  records'[job[w].row.id] = Nil /\ mapping'[job[w].route] = Nil
    <3>1. job[w].route \in Routes
      BY <2>0, <2>1 DEF TypeInv, LocalsSet, Mutating
    <3>2. QED
      BY <2>0, <2>4, <3>1 DEF Forgets, ForgottenDead, TypeInv, TypeOK
  <2>5. job'[w].reply # job[w].reply
    BY <2>1, <2>2
  <2>6. ~Crash
    <3>1. Crash => job'[w].reply = Nil
      BY <2>0, CrashStep
    <3>2. QED
      BY <2>1, <3>1, NoReplyAssumption DEF Replies
  <2>7. QED
    BY <2>0, <2>1, <2>3, <2>4, <2>5, <2>6, StepKinds, EditStep, ArriveStep
<1>2. QED
  BY <1>1, HandInvInit, HandInvNext, PTL DEF Spec, DeleteOkMeansGone

-----------------------------------------------------------------------------
(* A step keeps the records of a list with the routes they were created for. *)
LEMMA ListedStep ==
  ASSUME LocalInv, ListedManagedIsOwn, [Next]_vars
  PROVE  ListedManagedIsOwn'
<1>0. OwnInv /\ TypeInv /\ TypeInv'
  BY TypeInvNext DEF LocalInv, OwnInv
<1>1. CASE UNCHANGED vars
  BY <1>1 DEF vars, ListedManagedIsOwn
<1>2. ASSUME Next, NEW w \in Workers, NEW p \in Ids \X Routes, creator[p[1]] = p[2]
      PROVE  creator'[p[1]] = p[2]
  BY <1>0, <1>2, CreatorStays, NilAssumption
<1>3. \A w \in Workers : job[w].owned \subseteq Ids \X Routes
  BY <1>0 DEF TypeInv, TypeOK, Job
<1>4. ASSUME NEW w \in Workers, Alone(w), WorkerStep(w), Next PROVE ListedManagedIsOwn'
  <2>1. \A p \in job'[w].owned : p \in job[w].owned \/ Lists(w)
    BY <1>4 DEF WorkerStep, Begins, Stops, Fails, Misses, Reads, FindsNone, Confirms,
                TurnsPage, Clears, Collects, Compensates, Aborts, Updates, Restores, Creates,
                Undoes, Removes, Saves, Inserts, Forgets, Carried
  <2>2. ASSUME Lists(w), NEW p \in job'[w].owned PROVE creator'[p[1]] = p[2]
    <3>1. p \in Ids \X Routes /\ mapping[p[2]] # Nil /\ mapping[p[2]].id = p[1]
      BY <2>2 DEF Lists
    <3>2. creator[p[1]] = p[2]
      BY <1>0, <3>1 DEF OwnInv, IdsAreOwn
    <3>3. QED
      BY <1>2, <1>4, <3>1, <3>2
  <2>3. QED
    BY <1>2, <1>3, <1>4, <2>1, <2>2 DEF ListedManagedIsOwn, Alone
<1>5. ASSUME Next, UNCHANGED job PROVE ListedManagedIsOwn'
  BY <1>2, <1>3, <1>5 DEF ListedManagedIsOwn
<1>6. CASE Crash
  BY <1>0, <1>6, CrashStep DEF ListedManagedIsOwn
<1>7. QED
  BY <1>0, <1>1, <1>4, <1>5, <1>6, StepKinds, EditStep, ArriveStep

(* Service.List shows a record as managed only by the route it was created for, *)
(* although it reads the rows after the pages of records.                   *)
THEOREM ListedAlwaysOwn == Spec => []ListedManagedIsOwn
<1>1. Init => ListedManagedIsOwn
  BY DEF Init, ListedManagedIsOwn, Blank
<1>2. QED
  BY <1>1, LocalInvInit, LocalInvNext, ListedStep, PTL DEF Spec

-----------------------------------------------------------------------------
(* Serialised mutations, no edit and no lost answer. *)

(* The effects of a worker, each on one row or one record.                    *)
LEMMA EffectStep ==
  ASSUME TypeInv, NEW w \in Workers, WorkerStep(w)
  PROVE  /\ \A r \in Routes : mapping'[r] # mapping[r] =>
              (Saves(w) \/ Inserts(w) \/ Forgets(w)) /\ job[w].route = r
         /\ \A i \in Ids : records'[i] # records[i] =>
              \/ (Updates(w) \/ Restores(w) \/ Removes(w)) /\ i = job[w].row.id
              \/ Undoes(w) /\ i = job[w].made
              \/ Creates(w) /\ i \in Fresh
BY DEF WorkerStep, Begins, Stops, Fails, Misses, Reads, FindsNone, Confirms, TurnsPage,
       Clears, Collects, Lists, Compensates, Aborts, Updates, Restores, Creates, Undoes,
       Removes, Saves, Inserts, Forgets, Local, Writes, Write, TypeInv, TypeOK

(* A worker that is not in a mutation has none.                               *)
LEMMA IdleStep ==
  ASSUME NEW w \in Workers, WorkerStep(w), job[w].pc \notin Mutating
  PROVE  Local
BY DEF WorkerStep, Begins, Stops, Fails, Misses, Reads, FindsNone, Confirms, TurnsPage,
       Clears, Collects, Lists, Compensates, Aborts, Updates, Restores, Creates, Undoes,
       Removes, Saves, Inserts, Forgets, Mutating, EnsureSteps, DeleteSteps

-----------------------------------------------------------------------------
(* Mutations are serialised, and neither an edit nor a lost answer has come in. *)
Calm == Serialized /\ ~Happened("edit") /\ ~Happened("timeout")

(* Rows and what is about to become one have a supported type.              *)
Valid ==
  /\ \A r \in Routes : mapping[r] # Nil => mapping[r].data.type \in ValidTypes
  /\ \A w \in Workers : job[w].row # Nil => job[w].row.data.type \in ValidTypes
  /\ \A w \in Workers : job[w].pc \in {"ensure_save", "ensure_insert"} =>
       job[w].want.type \in ValidTypes

(* The row a mutation has read is still the row of its route.               *)
RowCurrent == Calm => \A w \in Workers :
  job[w].pc \in {"ensure_get", "ensure_update", "ensure_save", "ensure_restore",
                 "delete_get", "delete_record", "delete_forget"}
    => mapping[job[w].route] = job[w].row

(* The record is still what GetRecord has returned.                         *)
Checked == Calm => \A w \in Workers :
  job[w].pc \in {"ensure_update", "delete_record"} =>
    /\ Found(job[w].row.zone, job[w].row.id)
    /\ records[job[w].row.id].data = job[w].old

(* The record is what was written.                                          *)
Put == Calm => \A w \in Workers :
  /\ job[w].pc \in {"ensure_save", "ensure_restore"} =>
       records[job[w].row.id] = [zone |-> job[w].row.zone, data |-> Kept(job[w].want)]
  /\ job[w].pc = "ensure_insert" =>
       records[job[w].made] = [zone |-> job[w].zone, data |-> Kept(job[w].want)]

CalmInv == Valid /\ RowCurrent /\ Checked /\ Put

(* At the start nothing is mapped and nobody works.                         *)
LEMMA CalmInvInit == Init => CalmInv
BY DEF Init, CalmInv, Valid, RowCurrent, Checked, Put, Blank

(* Only supported types reach a row.                                        *)
LEMMA ValidStep ==
  ASSUME TypeInv, Valid, NEW w \in Workers, Alone(w), WorkerStep(w)
  PROVE  Valid'
<1>1. ASSUME NEW r \in Routes, mapping'[r] # Nil PROVE mapping'[r].data.type \in ValidTypes
  <2>1. CASE mapping'[r] = mapping[r]
    BY <1>1, <2>1 DEF Valid
  <2>2. CASE Saves(w) /\ job[w].route = r
    <3>1. mapping[r] \in Row
      BY <2>2 DEF Saves, Hit, TypeInv, TypeOK
    <3>2. mapping'[r].data = job[w].want
      BY <2>2, <3>1 DEF Saves, TypeInv, TypeOK, Row
    <3>3. QED
      BY <2>2, <3>2 DEF Saves, Valid
  <2>3. CASE Inserts(w) /\ job[w].route = r
    BY <2>3 DEF Inserts, Valid, TypeInv, TypeOK
  <2>4. CASE Forgets(w) /\ job[w].route = r
    BY <1>1, <2>4 DEF Forgets, TypeInv, TypeOK
  <2>5. QED
    BY <2>1, <2>2, <2>3, <2>4, EffectStep
<1>2. ASSUME NEW v \in Workers, job'[v].row # Nil
      PROVE  job'[v].row.data.type \in ValidTypes
  BY <1>2, IdStep DEF Valid
<1>3. ASSUME NEW v \in Workers, job'[v].pc \in {"ensure_save", "ensure_insert"}
      PROVE  job'[v].want.type \in ValidTypes
  BY <1>3 DEF Valid, Alone, WorkerStep, Begins, Stops, Fails, Misses, Reads, FindsNone,
              Confirms, TurnsPage, Clears, Collects, Lists, Compensates, Aborts, Updates,
              Restores, Creates, Undoes, Removes, Saves, Inserts, Forgets, Writes, Ended,
              Carried
<1>4. QED
  BY <1>1, <1>2, <1>3 DEF Valid

(* A step of the one mutation that runs keeps its row current, its check valid *)
(* and its write in place; a step of another worker touches neither.        *)
LEMMA CalmWorkerStep ==
  ASSUME HandInv, CalmInv, Next, NEW w \in Workers, Alone(w), WorkerStep(w)
  PROVE  CalmInv'
<1>0. OwnInv /\ TypeInv /\ Exclusive
  BY DEF HandInv, LocalInv, OwnInv, SerialInv
<1>1. Valid'
  BY <1>0, ValidStep DEF CalmInv
<1>2. Calm' => Calm
  BY <1>0, HappenedStays DEF Calm, FaultKinds
<1>3. ASSUME Calm, NEW v \in Workers, v # w, job[v].pc \in Mutating
      PROVE  job'[v] = job[v] /\ Local
  <2>1. job[w].pc \notin Mutating
    BY <1>0, <1>3 DEF Exclusive, Calm
  <2>2. QED
    BY <1>3, <2>1, IdleStep DEF Alone
<1> USE DEF Mutating, EnsureSteps, DeleteSteps
<1>4. RowCurrent'
  <2>1. SUFFICES ASSUME Calm, NEW v \in Workers,
                        job'[v].pc \in {"ensure_get", "ensure_update", "ensure_save",
                          "ensure_restore", "delete_get", "delete_record", "delete_forget"}
                 PROVE  mapping'[job'[v].route] = job'[v].row
    BY <1>2 DEF RowCurrent
  <2>2. CASE v = w
    BY <2>1, <2>2
       DEF CalmInv, RowCurrent, WorkerStep, Begins, Stops, Fails, Misses, Reads, FindsNone,
           Confirms, TurnsPage, Clears, Collects, Lists, Compensates, Aborts, Updates,
           Restores, Creates, Undoes, Removes, Saves, Inserts, Forgets, Local, Writes, Ended,
           Carried, KeepsRow
  <2>3. CASE v # w
    <3>1. job'[v] = job[v]
      BY <2>3 DEF Alone
    <3>2. QED
      BY <1>3, <2>1, <2>3, <3>1 DEF CalmInv, RowCurrent, Local
  <2>4. QED
    BY <2>2, <2>3
<1>5. Checked'
  <2>1. SUFFICES ASSUME Calm, NEW v \in Workers,
                        job'[v].pc \in {"ensure_update", "delete_record"}
                 PROVE  LET m == job'[v].row IN
                          /\ records'[m.id] # Nil /\ records'[m.id].zone = m.zone
                          /\ records'[m.id].data = job'[v].old
    BY <1>2 DEF Checked, Found
  <2>2. CASE v = w
    <3>1. Confirms(w) \/ Aborts(w)
      BY <2>1, <2>2
         DEF WorkerStep, Begins, Stops, Fails, Misses, Reads, FindsNone, TurnsPage, Clears,
             Collects, Lists, Compensates, Updates, Restores, Creates, Undoes, Removes,
             Saves, Inserts, Forgets, Ended
    <3>2. QED
      BY <2>1, <2>2, <3>1
         DEF Confirms, Aborts, CalmInv, Checked, KeepsRow, Local, Found
  <2>3. CASE v # w
    <3>1. job'[v] = job[v]
      BY <2>3 DEF Alone
    <3>2. QED
      BY <1>3, <2>1, <2>3, <3>1 DEF CalmInv, Checked, Local, Found
  <2>4. QED
    BY <2>2, <2>3
<1>6. Put'
  <2>1. SUFFICES ASSUME Calm, NEW v \in Workers
                 PROVE  /\ job'[v].pc \in {"ensure_save", "ensure_restore"} =>
                             records'[job'[v].row.id] =
                               [zone |-> job'[v].row.zone, data |-> Kept(job'[v].want)]
                        /\ job'[v].pc = "ensure_insert" =>
                             records'[job'[v].made] =
                               [zone |-> job'[v].zone, data |-> Kept(job'[v].want)]
    BY <1>2 DEF Put
  <2>2. CASE v = w
    <3>1. ASSUME Updates(w)
          PROVE  records'[job'[w].row.id] =
                   [zone |-> job'[w].row.zone, data |-> Kept(job'[w].want)]
      <4>1. job[w].row.id \in Ids
        BY <1>0, <3>1 DEF Updates, TypeInv, LocalsSet, Row
      <4>2. QED
        BY <1>0, <3>1, <4>1 DEF Updates, Writes, Write, Carried, KeepsRow, TypeInv, TypeOK
    <3>2. ASSUME Creates(w)
          PROVE  records'[job'[w].made] =
                   [zone |-> job'[w].zone, data |-> Kept(job'[w].want)]
      BY <1>0, <3>2 DEF Creates, Writes, Write, Fresh, TypeInv, TypeOK
    <3>3. CASE Compensates(w) \/ Aborts(w)
      BY <2>1, <2>2, <3>3
         DEF Compensates, Aborts, CalmInv, Put, KeepsRow, Local, Carried
    <3>4. QED
      BY <2>2, <3>1, <3>2, <3>3
         DEF WorkerStep, Begins, Stops, Fails, Misses, Reads, FindsNone, Confirms, TurnsPage,
             Clears, Collects, Lists, Updates, Restores, Creates, Undoes, Removes, Saves,
             Inserts, Forgets, Ended
  <2>3. CASE v # w
    <3>1. job'[v] = job[v]
      BY <2>3 DEF Alone
    <3>2. QED
      BY <1>3, <2>1, <2>3, <3>1 DEF CalmInv, Put, Local
  <2>4. QED
    BY <2>2, <2>3
<1>7. QED
  BY <1>1, <1>4, <1>5, <1>6 DEF CalmInv

(* Every step does, and a late request or an edit ends the calm.            *)
LEMMA CalmInvNext == HandInv /\ CalmInv /\ [Next]_vars => CalmInv'
<1> SUFFICES ASSUME HandInv, CalmInv, [Next]_vars PROVE CalmInv'
  OBVIOUS
<1>0. TypeInv /\ Caused
  BY DEF HandInv, LocalInv, OwnInv
<1>1. CASE UNCHANGED vars
  BY <1>1 DEF vars, CalmInv, Valid, RowCurrent, Checked, Put, Calm, Happened, Found
<1>2. ASSUME UNCHANGED <<mapping, job>>, ~Calm' PROVE CalmInv'
  BY <1>2 DEF CalmInv, Valid, RowCurrent, Checked, Put
<1>3. ASSUME Next, NEW q \in wire, Arrive(q) PROVE CalmInv'
  <2>1. (Happened("timeout"))'
    BY <1>0, <1>3, HappenedStays DEF Caused, FaultKinds
  <2>2. QED
    BY <1>0, <1>2, <1>3, <2>1, ArriveStep DEF Calm
<1>4. ASSUME NEW i \in Ids, Edit(i) PROVE CalmInv'
  BY <1>0, <1>2, <1>4, EditStep DEF Calm
<1>5. CASE Crash
  BY <1>0, <1>5, CrashStep DEF CalmInv, Valid, RowCurrent, Checked, Put, Ended, Local
<1>6. QED
  BY <1>0, <1>1, <1>3, <1>4, <1>5, CalmWorkerStep, StepKinds

-----------------------------------------------------------------------------
(* Rows and the records they describe. *)

(* What the provider keeps of a record matches what was written.              *)
LEMMA KeptMatches ==
  ASSUME NEW d \in Data, NEW m \in Row, Matches(d, m)
  PROVE  Matches(Kept(d), m)
<1>1. Kept(d).type = d.type /\ Kept(d).body = d.body /\ Kept(d).name = Canon[d.name]
  BY DEF Kept, Data
<1>2. Canon[Canon[d.name]] = Canon[d.name]
  BY CanonAssumption DEF Data
<1>3. QED
  BY <1>1, <1>2 DEF Matches, Same

(* A successful Ensure leaves the row and the record it was asked for.        *)
LEMMA OkServes ==
  ASSUME HandInv, CalmInv, Calm, NEW w \in Workers, Saves(w) \/ Inserts(w)
  PROVE  LET m == mapping'[job[w].route] IN
           /\ m # Nil /\ m.data = job[w].want /\ m.zone = job[w].zone
           /\ records'[m.id] # Nil /\ records'[m.id].zone = m.zone
           /\ Matches(records'[m.id].data, m)
<1>0. TypeInv /\ RowOfZone /\ RowCurrent /\ Put
  BY DEF HandInv, LocalInv, OwnInv, CalmInv
<1>1. /\ job[w].route \in Routes /\ job[w].want \in Data /\ job[w].zone \in Zones
      /\ UNCHANGED records
  BY <1>0 DEF TypeInv, LocalsSet, Saves, Inserts, Mutating, EnsureSteps
<1>2. ASSUME NEW m \in Row, mapping'[job[w].route] = m, m.data = job[w].want,
             m.zone = job[w].zone,
             records[m.id] = [zone |-> m.zone, data |-> Kept(job[w].want)]
      PROVE  /\ m # Nil /\ records'[m.id] # Nil /\ records'[m.id].zone = m.zone
             /\ Matches(records'[m.id].data, m)
  <2>1. Kept(job[w].want) \in Data
    BY <1>1, CanonAssumption DEF Kept, Data
  <2>2. records[m.id] \in Record
    BY <1>2, <2>1 DEF Record, Row
  <2>3. Matches(Kept(job[w].want), m)
    BY <1>1, <1>2, KeptMatches DEF Matches, Same
  <2>4. QED
    BY <1>1, <1>2, <2>2, <2>3, NilAssumption
<1>3. CASE Saves(w)
  <2> DEFINE m == [mapping[job[w].route] EXCEPT !.data = job[w].want]
  <2>1. mapping[job[w].route] = job[w].row /\ mapping[job[w].route] \in Row
    BY <1>0, <1>1, <1>3 DEF RowCurrent, Saves, Hit, TypeInv, TypeOK
  <2>2. /\ m \in Row /\ m.id = job[w].row.id /\ m.zone = job[w].row.zone
        /\ m.data = job[w].want
    BY <1>1, <2>1 DEF Row
  <2>3. mapping'[job[w].route] = m
    BY <1>0, <1>1, <1>3 DEF Saves, TypeInv, TypeOK
  <2>4. m.zone = job[w].zone
    BY <1>0, <1>3, <2>2 DEF RowOfZone, Saves
  <2>5. records[m.id] = [zone |-> m.zone, data |-> Kept(job[w].want)]
    BY <1>0, <1>3, <2>2 DEF Put, Saves
  <2> HIDE DEF m
  <2>6. QED
    BY <1>2, <2>2, <2>3, <2>4, <2>5
<1>4. CASE Inserts(w)
  <2> DEFINE m == [zone |-> job[w].zone, id |-> job[w].made, data |-> job[w].want]
  <2>1. job[w].made \in Ids
    BY <1>0, <1>4 DEF Inserts, TypeInv, LocalsSet
  <2>2. /\ m \in Row /\ m.id = job[w].made /\ m.zone = job[w].zone
        /\ m.data = job[w].want
    BY <1>1, <2>1 DEF Row
  <2>3. mapping'[job[w].route] = m
    BY <1>0, <1>1, <1>4 DEF Inserts, TypeInv, TypeOK
  <2>4. records[m.id] = [zone |-> m.zone, data |-> Kept(job[w].want)]
    BY <1>0, <1>4, <2>2 DEF Put, Inserts
  <2> HIDE DEF m
  <2>5. QED
    BY <1>2, <2>2, <2>3, <2>4
<1>5. QED
  BY <1>3, <1>4

(* With mutations serialised, no edit by the owner of the zone and no lost   *)
(* answer, Service.Ensure reports success only when the row says what was    *)
(* asked for and the provider serves it, whatever else failed on the way.    *)
THEOREM EnsuredIsServed == Spec => EnsureOkMeansServed
<1> DEFINE Serves == \A w \in Workers, r \in Routes :
             /\ Serialized /\ ~Happened("edit") /\ ~Happened("timeout")
             /\ job[w].pc \in EnsureSteps /\ job[w].route = r /\ job'[w].reply = "ok"
             => /\ mapping'[r] # Nil
                /\ mapping'[r].data = job[w].want /\ mapping'[r].zone = job[w].zone
                /\ r \in ServedRoutes'
<1>1. ASSUME HandInv, CalmInv, [Next]_vars PROVE [Serves]_vars
  <2>0. OwnInv /\ TypeInv /\ Replying /\ RowCurrent
    BY <1>1 DEF HandInv, LocalInv, OwnInv, CalmInv
  <2>1. SUFFICES ASSUME Next, Calm, NEW w \in Workers, job[w].pc \in EnsureSteps,
                        job[w].route \in Routes, job'[w].reply = "ok"
                 PROVE  LET m == mapping'[job[w].route] IN
                          /\ m # Nil /\ m.data = job[w].want /\ m.zone = job[w].zone
                          /\ records'[m.id] # Nil /\ records'[m.id].zone = m.zone
                          /\ Matches(records'[m.id].data, m)
    BY <1>1 DEF Calm, ServedRoutes, Served, Found
  <2>2. job[w].reply # "ok"
    BY <2>0, <2>1, NoReplyAssumption DEF EnsureSteps, Replying, Replies
  <2>3. ASSUME NEW v \in Workers, Alone(v), WorkerStep(v)
        PROVE  v = w /\ (Saves(w) \/ Inserts(w))
    <3>1. v = w
      BY <2>1, <2>2, <2>3 DEF Alone
    <3>2. ASSUME Misses(w) PROVE FALSE
      <4>1. job[w].pc = "ensure_save"
        BY <2>1, <3>2 DEF Misses, EnsureSteps
      <4>2. mapping[job[w].route] = job[w].row /\ job[w].row \in Row
        BY <2>0, <2>1, <4>1 DEF RowCurrent, TypeInv, LocalsSet
      <4>3. QED
        BY <3>2, <4>2, NilAssumption DEF Misses, Hit
    <3>3. QED
      BY <2>1, <2>2, <2>3, <3>1, <3>2
         DEF WorkerStep, Begins, Stops, Fails, Reads, FindsNone, Confirms, TurnsPage, Clears,
             Collects, Lists, Compensates, Aborts, Updates, Restores, Creates, Undoes,
             Removes, Forgets, Carried, EnsureSteps
  <2>4. ~Crash
    <3>1. Crash => job'[w].reply = Nil
      BY <2>0, CrashStep
    <3>2. QED
      BY <2>1, <3>1, NoReplyAssumption DEF Replies
  <2>5. job'[w].reply # job[w].reply
    BY <2>1, <2>2
  <2>6. ASSUME NEW v \in Workers, Alone(v), WorkerStep(v) PROVE Saves(w) \/ Inserts(w)
    BY <2>3, <2>6
  <2>7. Saves(w) \/ Inserts(w)
    BY <2>0, <2>1, <2>4, <2>5, <2>6, StepKinds, EditStep, ArriveStep
  <2>8. QED
    BY <1>1, <2>1, <2>7, OkServes
<1>2. QED
  BY <1>1, HandInvInit, HandInvNext, CalmInvInit, CalmInvNext, PTL
     DEF Spec, EnsureOkMeansServed

-----------------------------------------------------------------------------
(* What may leave a row that does not describe its record.                  *)
Excusing ==
  \/ \E k \in {"edit", "timeout", "crash", "cancel"} : Happened(k)
  \/ Happened("db") /\ Happened("refused")

Saving(w, r) == job[w].route = r /\ job[w].pc \in {"ensure_save", "ensure_restore"}

(* A step of a worker leaves a row with the record it describes, without any, or *)
(* with a call that is about to save or restore it.                         *)
LEMMA DivergentStep ==
  ASSUME HandInv, CalmInv, DivergentHasCause, Next, Serialized, ~Excusing',
         NEW w \in Workers, Alone(w), WorkerStep(w), NEW r \in Routes, mapping'[r] # Nil
  PROVE  \/ LET m == mapping'[r] IN /\ records'[m.id] # Nil
                                    /\ records'[m.id].zone = m.zone
                                    /\ Matches(records'[m.id].data, m)
         \/ records'[mapping'[r].id] = Nil
         \/ \E v \in Workers : /\ job'[v].route = r
                               /\ job'[v].pc \in {"ensure_save", "ensure_restore"}
<1> DEFINE Right == LET m == mapping'[r] IN /\ records'[m.id] # Nil
                                            /\ records'[m.id].zone = m.zone
                                            /\ Matches(records'[m.id].data, m)
           Gone == records'[mapping'[r].id] = Nil
           Goes == \E v \in Workers : /\ job'[v].route = r
                                      /\ job'[v].pc \in {"ensure_save", "ensure_restore"}
<1>0. /\ OwnInv /\ TypeInv /\ IdsAreOwn /\ Caused /\ OldMatches /\ RestoreCause
      /\ Valid /\ RowCurrent /\ Put
  BY DEF HandInv, LocalInv, OwnInv, CalmInv
<1>1. ~Excusing /\ Calm
  BY <1>0, HappenedStays DEF Excusing, FaultKinds, Calm
<1>2. ~Aborts(w)
  BY DEF Aborts, Excusing
<1>3. CASE mapping'[r] # mapping[r]
  <2>1. (Saves(w) \/ Inserts(w) \/ Forgets(w)) /\ job[w].route = r
    BY <1>0, <1>3, EffectStep
  <2>2. ~Forgets(w)
    BY <1>0, <2>1 DEF Forgets, TypeInv, TypeOK
  <2>3. QED
    BY <1>1, <2>1, <2>2, OkServes
<1>4. CASE mapping'[r] = mapping[r]
  <2> DEFINE i == mapping[r].id
  <2>1. /\ mapping[r] \in Row /\ i \in Ids /\ creator[i] = r /\ creator[i] # Nil
    BY <1>0, <1>4, NilAssumption DEF IdsAreOwn, TypeInv, TypeOK, Row
  <2>2. CASE Dangling(r)
    BY <1>0, <1>4, <2>1, <2>2, RecordStep DEF Dangling
  <2>3. ASSUME NEW v \in Workers, Saving(v, r) PROVE Right \/ Gone \/ Goes
    <3>1. CASE v # w
      BY <2>3, <3>1 DEF Saving, Alone
    <3>2. CASE v = w
      <4>1. job[w].row = mapping[r]
        BY <1>0, <1>1, <2>3, <3>2 DEF RowCurrent, Saving
      <4>2. ~Misses(w)
        BY <2>1, <2>3, <3>2, <4>1, NilAssumption DEF Saving, Misses, Hit
      <4>3. CASE Saves(w)
        BY <1>1, <2>3, <3>2, <4>3, OkServes DEF Saving
      <4>4. CASE Compensates(w)
        BY <2>3, <3>2, <4>4 DEF Saving, Compensates, Carried
      <4>5. CASE Restores(w)
        <5>1. job[w].old \in Data
          BY <1>0, <4>5 DEF TypeInv, LocalsSet, Restores
        <5>2. Matches(Kept(job[w].old), mapping[r])
          BY <1>0, <2>1, <4>1, <4>5, <5>1, KeptMatches DEF OldMatches, Restores
        <5>3. records'[i] = [zone |-> mapping[r].zone, data |-> Kept(job[w].old)]
          BY <1>0, <2>1, <4>1, <4>5 DEF Restores, Writes, Write, TypeInv, TypeOK
        <5>4. Kept(job[w].old) \in Data
          BY <5>1, CanonAssumption DEF Kept, Data
        <5>5. records'[i] \in Record
          BY <2>1, <5>3, <5>4 DEF Record, Row
        <5>6. QED
          BY <1>4, <5>2, <5>3, <5>5, NilAssumption
      <4>6. ASSUME Fails(w) PROVE FALSE
        <5>1. job[w].pc = "ensure_restore"
          BY <2>3, <3>2, <4>6 DEF Fails, Saving
        <5>2. ~job[w].done /\ ~(Happened("timeout"))' /\ ~(Happened("refused"))'
          <6>1. Happened("db")
            BY <1>0, <1>1, <5>1 DEF RestoreCause, Excusing
          <6>2. (Happened("db"))'
            BY <1>0, <6>1, HappenedStays DEF FaultKinds
          <6>3. QED
            BY <1>0, <1>1, <6>2 DEF Caused, Excusing
        <5>3. job[w].old.type \in ValidTypes
          BY <1>0, <2>1, <4>1, <5>1, NilAssumption DEF OldMatches, Matches, Valid
        <5>4. Found(job[w].row.zone, job[w].row.id)
          <6>1. records[i] = [zone |-> mapping[r].zone, data |-> Kept(job[w].want)]
            BY <1>0, <1>1, <4>1, <5>1 DEF Put
          <6>2. records[i].zone = mapping[r].zone
            BY <6>1
          <6>3. Kept(job[w].want) \in Data
            BY <1>0, <5>1, CanonAssumption DEF TypeInv, LocalsSet, Mutating, EnsureSteps, Kept, Data
          <6>4. records[i] \in Record
            BY <2>1, <6>1, <6>3 DEF Record, Row
          <6>5. QED
            BY <4>1, <6>2, <6>4, NilAssumption DEF Found
        <5>5. QED
          BY <4>6, <5>1, <5>2, <5>3, <5>4 DEF Fails
      <4>7. QED
        BY <1>2, <2>3, <3>2, <4>2, <4>3, <4>4, <4>5, <4>6
           DEF Saving, WorkerStep, Begins, Stops, Reads, FindsNone, Confirms, TurnsPage,
               Clears, Collects, Lists, Updates, Creates, Undoes, Removes, Inserts, Forgets,
               Finals
    <3>3. QED
      BY <3>1, <3>2
  <2>4. CASE Served(r) /\ \A v \in Workers : ~Saving(v, r)
    <3>1. CASE records'[i] = records[i]
      BY <1>4, <2>4, <3>1 DEF Served, Found
    <3>2. CASE records'[i] # records[i]
      <4>1. \/ (Updates(w) \/ Restores(w) \/ Removes(w)) /\ i = job[w].row.id
            \/ Undoes(w) /\ i = job[w].made
            \/ Creates(w) /\ i \in Fresh
        BY <1>0, <2>1, <3>2, EffectStep
      <4>2. ~(i \in Fresh)
        BY <2>1 DEF Fresh
      <4>3. CASE Updates(w) /\ i = job[w].row.id
        <5>1. job[w].row # Nil
          BY <1>0, <4>3, NilAssumption DEF Updates, TypeInv, LocalsSet
        <5>2. job[w].route = r
          BY <1>0, <2>1, <4>3, <5>1 DEF IdsAreOwn
        <5>3. QED
          BY <4>3, <5>2 DEF Updates, Carried
      <4>4. CASE Restores(w) /\ i = job[w].row.id
        <5>1. job[w].row # Nil
          BY <1>0, <4>4, NilAssumption DEF Restores, TypeInv, LocalsSet
        <5>2. job[w].route = r
          BY <1>0, <2>1, <4>4, <5>1 DEF IdsAreOwn
        <5>3. QED
          BY <2>4, <4>4, <5>2 DEF Restores, Saving
      <4>5. CASE (Removes(w) /\ i = job[w].row.id) \/ (Undoes(w) /\ i = job[w].made)
        BY <1>0, <1>4, <2>1, <4>5 DEF Removes, Undoes, TypeInv, TypeOK
      <4>6. QED
        BY <4>1, <4>2, <4>3, <4>4, <4>5
    <3>3. QED
      BY <3>1, <3>2
  <2>5. QED
    BY <1>1, <1>4, <2>1, <2>2, <2>3, <2>4, NilAssumption
       DEF DivergentHasCause, Doing, Saving, Excusing
<1>5. QED
  BY <1>3, <1>4

(* A row that does not describe its live record is an update in progress, or its *)
(* compensation failed, was lost or was never reached (Service.Ensure).     *)
THEOREM DivergentAlwaysHasCause == Spec => []DivergentHasCause
<1>1. Init => DivergentHasCause
  BY DEF Init, DivergentHasCause
<1>2. ASSUME HandInv, CalmInv, DivergentHasCause, [Next]_vars PROVE DivergentHasCause'
  <2>0. TypeInv /\ Caused
    BY <1>2 DEF HandInv, LocalInv, OwnInv
  <2>1. CASE UNCHANGED vars
    BY <1>2, <2>1 DEF vars, DivergentHasCause, Served, Dangling, Found, Matches, Doing,
                      Happened
  <2>2. ASSUME Excusing' PROVE DivergentHasCause'
    BY <2>2 DEF Excusing, DivergentHasCause
  <2>3. ASSUME Next, NEW w \in Workers, Alone(w), WorkerStep(w) PROVE DivergentHasCause'
    <3>1. SUFFICES ASSUME ~Excusing', Serialized, NEW r \in Routes, mapping'[r] # Nil
                   PROVE  Served(r)' \/ Dangling(r)'
                          \/ Doing(r, {"ensure_save", "ensure_restore"})'
      BY <2>2 DEF DivergentHasCause
    <3>2. QED
      BY <1>2, <2>3, <3>1, DivergentStep DEF Served, Dangling, Found, Doing
  <2>4. CASE Crash
    BY <2>0, <2>2, <2>4, CrashStep DEF Excusing
  <2>5. ASSUME NEW i \in Ids, Edit(i) PROVE DivergentHasCause'
    BY <2>0, <2>2, <2>5, EditStep DEF Excusing
  <2>6. ASSUME Next, NEW q \in wire PROVE DivergentHasCause'
    BY <2>0, <2>2, <2>6, HappenedStays DEF Caused, Excusing, FaultKinds
  <2>7. QED
    BY <1>2, <2>0, <2>1, <2>3, <2>4, <2>5, <2>6, StepKinds
<1>3. QED
  BY <1>1, <1>2, HandInvInit, HandInvNext, CalmInvInit, CalmInvNext, PTL DEF Spec

-----------------------------------------------------------------------------
(* The pages of a list. *)

(* The position of a record in the list of its zone.                          *)
RankIn(z, i) == Cardinality({j \in LiveIn(z) : j <= i})

(* A zone has finitely many records, with natural numbers for ids.          *)
LEMMA LiveFinite ==
  ASSUME NEW z PROVE IsFiniteSet(LiveIn(z)) /\ LiveIn(z) \subseteq Ids /\ LiveIn(z) \subseteq Nat
<1>1. LiveIn(z) \subseteq Ids
  BY DEF LiveIn
<1>2. QED
  BY <1>1, IdsAssumption, FS_Subset

(* A position lies between one and the number of records.                   *)
LEMMA RankBounds ==
  ASSUME NEW z, NEW i \in LiveIn(z)
  PROVE  RankIn(z, i) \in 1 .. Cardinality(LiveIn(z))
<1> DEFINE S == {j \in LiveIn(z) : j <= i}
<1>1. IsFiniteSet(LiveIn(z)) /\ S \in SUBSET LiveIn(z) /\ i \in S
  BY LiveFinite
<1>2. IsFiniteSet(S) /\ Cardinality(S) <= Cardinality(LiveIn(z))
  BY <1>1, FS_Subset
<1>3. {i} \in SUBSET S /\ Cardinality({i}) = 1
  BY <1>1, FS_Singleton
<1>4. Cardinality({i}) <= Cardinality(S)
  BY <1>2, <1>3, FS_Subset
<1>5. Cardinality(S) \in Nat /\ Cardinality(LiveIn(z)) \in Nat
  BY <1>1, <1>2, FS_CardinalityType
<1>6. RankIn(z, i) = Cardinality(S)
  BY DEF RankIn
<1> HIDE DEF S
<1>7. QED
  BY <1>2, <1>3, <1>4, <1>5, <1>6

(* Two records have two positions.                                          *)
LEMMA RanksDiffer ==
  ASSUME NEW z, NEW i \in LiveIn(z), NEW k \in LiveIn(z), i < k
  PROVE  RankIn(z, i) # RankIn(z, k)
<1> DEFINE S == {j \in LiveIn(z) : j <= i}
           T == {j \in LiveIn(z) : j <= k}
<1>1. IsFiniteSet(LiveIn(z)) /\ LiveIn(z) \subseteq Nat /\ T \in SUBSET LiveIn(z)
  BY LiveFinite
<1>2. IsFiniteSet(T)
  BY <1>1, FS_Subset
<1>3. S \in SUBSET T /\ k \in T /\ k \notin S
  BY <1>1
<1>4. S # T
  BY <1>3
<1>5. Cardinality(S) # Cardinality(T)
  BY <1>2, <1>3, <1>4, FS_Subset
<1>6. QED
  BY <1>5 DEF RankIn

(* The positions of a zone's records are exactly 1, 2, ... up to their number. *)
LEMMA RankOnto ==
  ASSUME NEW z, NEW n \in 1 .. Cardinality(LiveIn(z))
  PROVE  \E i \in LiveIn(z) : RankIn(z, i) = n
<1> DEFINE c == Cardinality(LiveIn(z))
           f == [i \in LiveIn(z) |-> RankIn(z, i)]
<1>1. IsFiniteSet(LiveIn(z)) /\ LiveIn(z) \subseteq Nat /\ c \in Nat
  BY LiveFinite, FS_CardinalityType
<1>2. IsFiniteSet(1 .. c) /\ Cardinality(1 .. c) = c
  BY <1>1, FS_Interval
<1>3. f \in [LiveIn(z) -> 1 .. c]
  BY RankBounds
<1>4. ASSUME NEW i \in LiveIn(z), NEW k \in LiveIn(z), i # k PROVE f[i] # f[k]
  <2>1. i < k \/ k < i
    BY <1>1, <1>4
  <2>2. QED
    BY <2>1, RanksDiffer
<1>5. f \in Injection(LiveIn(z), 1 .. c)
  BY <1>3, <1>4 DEF Injection, IsInjective
<1>6. f \in Surjection(LiveIn(z), 1 .. c)
  BY <1>2, <1>5, FS_Injection
<1>7. QED
  BY <1>6 DEF Surjection

(* A page ends PageSize positions after the one before it.                  *)
LEMMA PageStart ==
  ASSUME NEW p \in Nat \ {0} PROVE p * PageSize = (p - 1) * PageSize + PageSize
BY PageSizeAssumption

(* Where a page ends is a natural number.                                   *)
LEMMA PageNat ==
  ASSUME NEW p \in Nat PROVE p * PageSize \in Nat
BY PageSizeAssumption

(* After a page that is not full there are no records.                        *)
LEMMA ShortPageIsLast ==
  ASSUME NEW z, NEW p \in Nat \ {0}, Cardinality(Page(z, p)) < PageSize, NEW i \in LiveIn(z)
  PROVE  RankIn(z, i) <= p * PageSize
<1> DEFINE a == (p - 1) * PageSize
           b == p * PageSize
           c == Cardinality(LiveIn(z))
           I == (a + 1) .. b
           g == [k \in Page(z, p) |-> RankIn(z, k)]
<1>1. /\ a \in Nat /\ b \in Nat /\ b = a + PageSize /\ PageSize \in Nat \ {0}
  BY PageNat, PageStart, PageSizeAssumption
<1>2. Page(z, p) = {k \in LiveIn(z) : a < RankIn(z, k) /\ RankIn(z, k) <= b}
  BY DEF Page, RankIn
<1>3. IsFiniteSet(Page(z, p)) /\ c \in Nat
  <2>1. Page(z, p) \in SUBSET LiveIn(z)
    BY <1>2
  <2>2. QED
    BY <2>1, LiveFinite, FS_Subset, FS_CardinalityType
<1> HIDE DEF a, b, c
<1>4. SUFFICES ASSUME b < RankIn(z, i) PROVE FALSE
  <2>1. RankIn(z, i) \in Nat
    BY RankBounds
  <2>2. QED
    BY <1>1, <1>4, <2>1 DEF b
<1>5. b < c
  BY <1>1, <1>3, <1>4, RankBounds DEF c
<1>6. ASSUME NEW k \in Page(z, p) PROVE g[k] \in I
  BY <1>1, <1>2, <1>6, RankBounds
<1>7. ASSUME NEW n \in I PROVE \E k \in Page(z, p) : g[k] = n
  <2>1. n \in 1 .. c
    BY <1>1, <1>3, <1>5
  <2>2. PICK k \in LiveIn(z) : RankIn(z, k) = n
    BY <2>1, RankOnto DEF c
  <2>3. QED
    BY <1>1, <1>2, <2>2
<1>8. g \in Surjection(Page(z, p), I)
  BY <1>6, <1>7 DEF Surjection
<1>9. Cardinality(I) <= Cardinality(Page(z, p))
  BY <1>3, <1>8, FS_Surjection
<1>10. Cardinality(I) = PageSize
  BY <1>1, FS_Interval
<1>11. Cardinality(Page(z, p)) \in Nat
  BY <1>3, FS_CardinalityType
<1>12. QED
  BY <1>1, <1>9, <1>10, <1>11

-----------------------------------------------------------------------------
Listed(j, i) == [id |-> i, data |-> records[i].data] \in j.seen

(* The pages read so far hold all records up to where they end.             *)
Covers == Calm => \A w \in Workers :
  /\ job[w].pc = "ensure_row" => job[w].page = 1
  /\ job[w].pc = "ensure_list" =>
       /\ job[w].page >= 1
       /\ \A i \in LiveIn(job[w].zone) :
            RankIn(job[w].zone, i) <= (job[w].page - 1) * PageSize => Listed(job[w], i)

CoverInv == Covers /\ CreateNeverCollides

(* No list is being read at the start.                                      *)
LEMMA CoverInvInit == Init => CoverInv
BY DEF Init, CoverInv, Covers, CreateNeverCollides, Blank, At

(* Reading the next page of the list adds what the pages so far have left out. *)
LEMMA NextPageCovers ==
  ASSUME TypeInv, Covers, Calm, NEW w \in Workers, job[w].pc = "ensure_list",
         NEW i \in LiveIn(job[w].zone), RankIn(job[w].zone, i) <= job[w].page * PageSize
  PROVE  [id |-> i, data |-> records[i].data] \in SeenBy(w)
<1> DEFINE z == job[w].zone
           a == (job[w].page - 1) * PageSize
<1>1. job[w].page \in Nat \ {0} /\ RankIn(z, i) \in Nat
  BY RankBounds DEF TypeInv, TypeOK, Job, Covers
<1>2. a \in Nat
  BY <1>1, PageNat
<1>3. CASE RankIn(z, i) <= a
  BY <1>3 DEF Covers, Listed, SeenBy
<1>4. CASE a < RankIn(z, i)
  <2>1. i \in Page(z, job[w].page)
    BY <1>4 DEF Page, RankIn
  <2>2. QED
    BY <2>1 DEF SeenBy, PageOf
<1>5. QED
  BY <1>1, <1>2, <1>3, <1>4

(* A step of the mutation that lists adds a page or clears the create; a step of *)
(* another worker changes no record.                                        *)
LEMMA CoverWorkerStep ==
  ASSUME HandInv, CoverInv, Next, NEW w \in Workers, Alone(w), WorkerStep(w)
  PROVE  CoverInv'
<1>0. OwnInv /\ TypeInv /\ Exclusive /\ Covers /\ CreateNeverCollides
  BY DEF HandInv, LocalInv, OwnInv, SerialInv, CoverInv
<1>1. Calm' => Calm
  BY <1>0, HappenedStays DEF Calm, FaultKinds
<1>2. ASSUME Calm, NEW v \in Workers, v # w, job[v].pc \in Mutating
      PROVE  job'[v] = job[v] /\ UNCHANGED records
  <2>1. job[w].pc \notin Mutating
    BY <1>0, <1>2 DEF Exclusive, Calm
  <2>2. QED
    BY <1>2, <2>1, IdleStep DEF Alone, Local
<1> USE DEF Mutating, EnsureSteps
<1>3. ASSUME NEW v \in Workers, UNCHANGED records, job'[v].zone = job[v].zone
      PROVE  LiveIn(job[v].zone)' = LiveIn(job[v].zone)
  BY <1>3 DEF LiveIn, Found
<1>4. Covers'
  <2>1. SUFFICES ASSUME Calm, NEW v \in Workers
                 PROVE  /\ job'[v].pc = "ensure_row" => job'[v].page = 1
                        /\ job'[v].pc = "ensure_list" =>
                             /\ job'[v].page >= 1
                             /\ \A i \in LiveIn(job[v].zone)' :
                                  RankIn(job[v].zone, i)' <= (job'[v].page - 1) * PageSize
                                    => Listed(job[v], i)'
    BY <1>1 DEF Covers
  <2>2. ASSUME job'[v].pc \in {"ensure_row", "ensure_list"}, job'[v].page = job[v].page,
               job'[v].seen = job[v].seen, job'[v].pc = job[v].pc, UNCHANGED records,
               job'[v].zone = job[v].zone
        PROVE  /\ job'[v].pc = "ensure_row" => job'[v].page = 1
               /\ job'[v].pc = "ensure_list" =>
                    /\ job'[v].page >= 1
                    /\ \A i \in LiveIn(job[v].zone)' :
                         RankIn(job[v].zone, i)' <= (job'[v].page - 1) * PageSize
                           => Listed(job[v], i)'
    <3>1. \A i : RankIn(job[v].zone, i)' = RankIn(job[v].zone, i)
      BY <1>3, <2>2 DEF RankIn
    <3>2. QED
      BY <1>0, <1>3, <2>1, <2>2, <3>1 DEF Covers, Listed
  <2>3. CASE v # w
    BY <1>2, <2>1, <2>2, <2>3 DEF Alone
  <2>4. CASE v = w
    <3>1. CASE Begins(w)
      BY <2>4, <3>1 DEF Begins
    <3>2. CASE Aborts(w)
      BY <2>2, <2>4, <3>2 DEF Aborts, KeepsList, Local
    <3>3. CASE FindsNone(w)
      <4>1. job'[w].page = 1 /\ job'[w].pc = "ensure_list"
        BY <1>0, <2>1, <3>3 DEF FindsNone, KeepsList, Covers
      <4>2. (job'[w].page - 1) * PageSize = 0
        BY <4>1, PageSizeAssumption
      <4>3. \A i \in LiveIn(job[w].zone) : ~(RankIn(job[w].zone, i) <= 0)
        BY RankBounds
      <4>4. UNCHANGED records /\ job'[w].zone = job[w].zone
        BY <3>3 DEF FindsNone, Carried, Local
      <4>5. \A i : RankIn(job[w].zone, i)' = RankIn(job[w].zone, i)
        BY <1>3, <4>4 DEF RankIn
      <4>6. QED
        BY <1>3, <2>4, <4>1, <4>2, <4>3, <4>4, <4>5
    <3>4. CASE TurnsPage(w)
      <4>1. UNCHANGED records /\ job'[w].zone = job[w].zone
        BY <3>4 DEF TurnsPage, Carried, Local
      <4>2. \A i : RankIn(job[w].zone, i)' = RankIn(job[w].zone, i)
        BY <1>3, <4>1 DEF RankIn
      <4>3. CASE job[w].pc = "ensure_list"
        <5>1. job[w].page \in Nat /\ job[w].page >= 1
          BY <1>0, <2>1, <4>3 DEF Covers, TypeInv, TypeOK, Job
        <5>2. job'[w].page >= 1 /\ job'[w].page - 1 = job[w].page
          BY <3>4, <5>1 DEF TurnsPage
        <5>3. \A i \in LiveIn(job[w].zone) :
                RankIn(job[w].zone, i) <= job[w].page * PageSize
                  => [id |-> i, data |-> records[i].data] \in SeenBy(w)
          BY <1>0, <2>1, <4>3, NextPageCovers
        <5>4. job'[w].pc = "ensure_list" /\ job'[w].seen = SeenBy(w)
          BY <3>4, <4>3 DEF TurnsPage
        <5>5. QED
          BY <1>3, <2>4, <4>1, <4>2, <5>2, <5>3, <5>4 DEF Listed
      <4>4. QED
        BY <2>4, <3>4, <4>3 DEF TurnsPage
    <3>5. QED
      BY <2>4, <3>1, <3>2, <3>3, <3>4
         DEF WorkerStep, Stops, Fails, Misses, Reads, Confirms, Clears, Collects, Lists,
             Compensates, Updates, Restores, Creates, Undoes, Removes, Saves, Inserts,
             Forgets, Ended
  <2>5. QED
    BY <2>3, <2>4
<1>5. CreateNeverCollides'
  <2>1. SUFFICES ASSUME Calm, NEW v \in Workers, job'[v].pc = "ensure_create",
                        NEW i \in LiveIn(job[v].zone)'
                 PROVE  ~(Same(records'[i].data.name, job'[v].want.name)
                          /\ records'[i].data.type = job'[v].want.type)
    BY <1>1 DEF CreateNeverCollides, At, Calm, Collides
  <2>2. ASSUME job[v].pc = "ensure_create", UNCHANGED records, job'[v].zone = job[v].zone,
               job'[v].want = job[v].want
        PROVE  ~(Same(records'[i].data.name, job'[v].want.name)
                 /\ records'[i].data.type = job'[v].want.type)
    BY <1>0, <1>3, <2>1, <2>2 DEF CreateNeverCollides, At, Calm, Collides
  <2>3. CASE v # w
    BY <1>2, <2>1, <2>2, <2>3 DEF Alone
  <2>4. CASE v = w
    <3>1. CASE Aborts(w)
      BY <2>1, <2>2, <2>4, <3>1 DEF Aborts, Local
    <3>2. CASE Clears(w)
      <4>1. UNCHANGED records /\ job'[w].zone = job[w].zone /\ job'[w].want = job[w].want
        BY <3>2 DEF Clears, Carried, Local
      <4>2. i \in LiveIn(job[w].zone)
        BY <1>3, <2>1, <2>4, <4>1
      <4>3. job[w].page \in Nat \ {0}
        BY <1>0, <2>1, <3>2 DEF Clears, Covers, TypeInv, TypeOK, Job
      <4>4. RankIn(job[w].zone, i) <= job[w].page * PageSize
        BY <3>2, <4>2, <4>3, ShortPageIsLast DEF Clears, PageOf
      <4>5. [id |-> i, data |-> records[i].data] \in SeenBy(w)
        BY <1>0, <2>1, <3>2, <4>2, <4>4, NextPageCovers DEF Clears
      <4>6. ~(Same(records[i].data.name, job[w].want.name)
              /\ records[i].data.type = job[w].want.type)
        BY <3>2, <4>5 DEF Clears, Collides
      <4>7. QED
        BY <2>4, <4>1, <4>6
    <3>3. QED
      BY <2>1, <2>4, <3>1, <3>2
         DEF WorkerStep, Begins, Stops, Fails, Misses, Reads, FindsNone, Confirms, TurnsPage,
             Collects, Lists, Compensates, Updates, Restores, Creates, Undoes, Removes,
             Saves, Inserts, Forgets, Ended
  <2>5. QED
    BY <2>3, <2>4
<1>6. QED
  BY <1>4, <1>5 DEF CoverInv

(* Every step keeps the pages complete.                                     *)
LEMMA CoverInvNext == HandInv /\ CoverInv /\ [Next]_vars => CoverInv'
<1> SUFFICES ASSUME HandInv, CoverInv, [Next]_vars PROVE CoverInv'
  OBVIOUS
<1>0. TypeInv /\ Caused
  BY DEF HandInv, LocalInv, OwnInv
<1>1. CASE UNCHANGED vars
  BY <1>1 DEF vars, CoverInv, Covers, CreateNeverCollides, Calm, Happened, RankIn, Listed,
              LiveIn, Found, At, Collides
<1>2. ASSUME ~Calm' PROVE CoverInv'
  BY <1>2 DEF CoverInv, Covers, CreateNeverCollides, Calm
<1>3. ASSUME Next, NEW q \in wire PROVE CoverInv'
  <2>1. (Happened("timeout"))'
    BY <1>0, <1>3, HappenedStays DEF Caused, FaultKinds
  <2>2. QED
    BY <1>2, <2>1 DEF Calm
<1>4. ASSUME NEW i \in Ids, Edit(i) PROVE CoverInv'
  BY <1>0, <1>2, <1>4, EditStep DEF Calm
<1>5. CASE Crash
  BY <1>0, <1>5, CrashStep DEF CoverInv, Covers, CreateNeverCollides, At, Ended
<1>6. QED
  BY <1>0, <1>1, <1>3, <1>4, <1>5, CoverWorkerStep, StepKinds

(* No record with the name and type of a create is live in its zone when it is *)
(* sent, however many pages the list took (Service.Ensure, client.ListRecords). *)
THEOREM CreateNeverMeets == Spec => []CreateNeverCollides
<1>1. CoverInv => CreateNeverCollides
  BY DEF CoverInv
<1>2. QED
  BY <1>1, HandInvInit, HandInvNext, CoverInvInit, CoverInvNext, PTL DEF Spec
=============================================================================
