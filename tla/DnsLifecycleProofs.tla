------------------------- MODULE DnsLifecycleProofs -------------------------
(***************************************************************************)
(* Proofs about DnsLifecycle, for any number of routes, workers, records,  *)
(* zones, calls and faults, with one instance or with several.             *)
(***************************************************************************)
EXTENDS DnsLifecycle, TLAPS

(* The locals a step uses have been set by the steps before it. *)
LocalsSet(j) ==
  /\ j.pc \in Mutating \cup {"check_row", "check_get", "has_row"} => j.route \in Routes
  /\ j.pc \in EnsureSteps \cup {"list_pages", "list_rows"} => j.zone \in Zones
  /\ j.pc \in EnsureSteps => j.want \in Data
  /\ j.pc \in {"ensure_get", "ensure_update", "ensure_save", "ensure_restore",
               "delete_get", "delete_record", "delete_forget", "check_get"}
       => j.row \in Row
  /\ j.pc \in {"ensure_save", "ensure_update", "ensure_restore"} => j.old \in Data
  /\ j.pc \in {"ensure_insert", "ensure_undo"} => j.made \in Ids

TypeInv == TypeOK /\ \A w \in Workers : LocalsSet(job[w])

-----------------------------------------------------------------------------
(* What the helpers return. *)

(* A worker that has returned holds nothing but its reply. *)
LEMMA BlankIsJob ==
  ASSUME NEW r \in Replies \cup {Nil}
  PROVE  /\ [Blank EXCEPT !.reply = r] \in Job
         /\ LocalsSet([Blank EXCEPT !.reply = r])
BY DEF Blank, Job, Steps, LocalsSet, Mutating, EnsureSteps, DeleteSteps

(* Changing one worker keeps the type of all, if its new job is well-formed. *)
LEMMA JobSet ==
  ASSUME TypeInv, NEW w \in Workers, NEW j \in Job, LocalsSet(j),
         job' = [job EXCEPT ![w] = j]
  PROVE  job' \in [Workers -> Job] /\ \A v \in Workers : LocalsSet(job'[v])
BY DEF TypeInv, TypeOK

(* Every return leaves a well-formed job. *)
LEMMA ReturnJob ==
  ASSUME TypeInv, NEW w \in Workers, NEW r \in Replies, Return(w, r)
  PROVE  job' \in [Workers -> Job] /\ \A v \in Workers : LocalsSet(job'[v])
BY BlankIsJob, JobSet DEF Return

(* Normalising a name keeps a record a record. *)
LEMMA KeptIsData == ASSUME NEW d \in Data PROVE Kept(d) \in Data
BY CanonAssumption DEF Kept, Data

(* A counted fault keeps the counters natural numbers. *)
LEMMA FaultCounts ==
  ASSUME TypeInv, NEW k \in FaultKinds, Fault(k)
  PROVE  faults' \in [FaultKinds -> Nat]
BY DEF TypeInv, TypeOK, Fault

(* The steps that count no fault leave the counters alone. *)
LEMMA AnsweredCounts ==
  ASSUME TypeInv, NEW w \in Workers,
         Answered(w) \/ Refused(w) \/ DbFails(w)
  PROVE  faults' \in [FaultKinds -> Nat]
<1>1. CASE UNCHANGED faults
  BY <1>1 DEF TypeInv, TypeOK
<1>2. CASE Fault("refused") \/ Fault("db")
  BY <1>2, FaultCounts DEF FaultKinds
<1>3. QED
  BY <1>1, <1>2 DEF Answered, Refused, DbFails, ContextDone

(* The types of the state outside the workers. *)
ProviderTypes ==
  /\ records' \in [Ids -> Record \cup {Nil}]
  /\ creator' \in [Ids -> Routes \cup {External, Nil}]
  /\ wire' \subseteq Request
  /\ faults' \in [FaultKinds -> Nat]

(* What the provider writes is a record of a zone. *)
LEMMA WriteTypes ==
  ASSUME TypeInv, NEW z \in Zones, NEW i \in Ids, NEW d \in Data, Write(z, i, d)
  PROVE  records' \in [Ids -> Record \cup {Nil}]
<1>1. [zone |-> z, data |-> Kept(d)] \in Record
  BY KeptIsData DEF Record
<1>2. QED
  BY <1>1 DEF TypeInv, TypeOK, Write

(* Carrying out a well-formed request keeps the provider well-formed. *)
LEMMA ApplyTypes ==
  ASSUME TypeInv, NEW q \in Request, NEW i \in Ids, Apply(q, i)
  PROVE  /\ records' \in [Ids -> Record \cup {Nil}]
         /\ creator' \in [Ids -> Routes \cup {External, Nil}]
<1>1. q.route \in Routes /\ q.zone \in Zones
  BY DEF Request
<1>2. CASE q.kind \in {"put", "post"}
  <2>1. q.data \in Data
    BY <1>2 DEF Request
  <2>2. records' \in [Ids -> Record \cup {Nil}]
    BY <1>1, <1>2, <2>1, WriteTypes DEF Apply
  <2>3. QED
    BY <1>1, <1>2, <2>2 DEF Apply, TypeInv, TypeOK
<1>3. CASE q.kind = "delete"
  BY <1>3 DEF Apply, TypeInv, TypeOK
<1>4. QED
  BY <1>2, <1>3 DEF Request

(* So does a request that ends in an error, now or later. *)
LEMMA ErrsTypes ==
  ASSUME TypeInv, NEW w \in Workers, NEW q \in Request, Errs(w, q)
  PROVE  ProviderTypes
<1>1. faults' \in [FaultKinds -> Nat]
  <2>1. CASE UNCHANGED faults
    BY <2>1 DEF TypeInv, TypeOK
  <2>2. CASE Refused(w) \/ Answered(w)
    BY <2>2, AnsweredCounts
  <2>3. CASE Fault("timeout")
    BY <2>3, FaultCounts DEF FaultKinds
  <2>4. QED
    BY <2>1, <2>2, <2>3 DEF Errs
<1>2. QED
  BY <1>1 DEF Errs, ProviderTypes, Provider, TypeInv, TypeOK

(* And one that succeeds. *)
LEMMA SucceedsTypes ==
  ASSUME TypeInv, NEW w \in Workers, NEW q \in Request, NEW i \in Ids, Succeeds(w, q, i)
  PROVE  ProviderTypes
BY ApplyTypes, AnsweredCounts DEF Succeeds, ProviderTypes, TypeInv, TypeOK

(* The requests of the workers are requests. *)
LEMMA RequestTypes ==
  ASSUME NEW j \in Job, j.route \in Routes
  PROVE  /\ \A d \in Data : j.row \in Row => PutOf(j, d) \in Request
         /\ j.zone \in Zones /\ j.want \in Data => PostOf(j) \in Request
         /\ \A z \in Zones, i \in Ids : DeleteOf(j, z, i) \in Request
BY DEF PutOf, PostOf, DeleteOf, Request, Row

(* A step that moves on within a call. *)
LEMMA GotoJob ==
  ASSUME TypeInv, NEW w \in Workers, NEW s \in Steps, Goto(w, s),
         LocalsSet([job[w] EXCEPT !.pc = s])
  PROVE  job' \in [Workers -> Job] /\ \A v \in Workers : LocalsSet(job'[v])
<1>1. [job[w] EXCEPT !.pc = s] \in Job
  BY DEF TypeInv, TypeOK, Job
<1>2. QED
  BY <1>1, JobSet DEF Goto

(* Reading the row leaves a worker with its row, or done. *)
LEMMA ReadRowJob ==
  ASSUME TypeInv, NEW w \in Workers, job[w].route \in Routes,
         NEW s \in {"delete_get", "check_get"}, ReadRow(w, s), UNCHANGED Unshared
  PROVE  TypeInv'
<1> DEFINE m == mapping[job[w].route]
<1>1. faults' \in [FaultKinds -> Nat]
  BY AnsweredCounts DEF ReadRow
<1>2. job' \in [Workers -> Job] /\ \A v \in Workers : LocalsSet(job'[v])
  <2>1. CASE Return(w, "error") \/ Return(w, "not_managed")
    BY <2>1, ReturnJob DEF Replies
  <2>2. CASE m # Nil /\ job' = [job EXCEPT ![w].pc = s, ![w].row = m]
    <3> DEFINE j == [job[w] EXCEPT !.pc = s, !.row = m]
    <3>1. m \in Row
      BY <2>2 DEF TypeInv, TypeOK
    <3>2. j \in Job
      <4>1. job[w] \in Job /\ s \in Steps
        BY DEF TypeInv, TypeOK, Steps
      <4>2. QED
        BY <3>1, <4>1 DEF Job
    <3>3. j.pc = s /\ j.row = m /\ j.route = job[w].route
      BY DEF TypeInv, TypeOK, Job
    <3>4. LocalsSet(j)
      BY <3>1, <3>3 DEF LocalsSet, EnsureSteps
    <3>5. job' = [job EXCEPT ![w] = j]
      BY <2>2 DEF TypeInv, TypeOK
    <3>6. QED
      BY <3>2, <3>4, <3>5, JobSet
  <2>3. QED
    BY <2>1, <2>2 DEF ReadRow
<1>3. QED
  BY <1>1, <1>2 DEF TypeInv, TypeOK, Unshared, Provider

(* Comparing the record leaves a worker with the old record, or done. *)
LEMMA VerifyJob ==
  ASSUME TypeInv, NEW w \in Workers, job[w].row \in Row, job[w].route \in Routes,
         NEW s \in {"ensure_update", "delete_record"}, Verify(w, s), UNCHANGED Unshared,
         s = "ensure_update" => job[w].zone \in Zones /\ job[w].want \in Data
  PROVE  TypeInv'
<1> DEFINE m == job[w].row
           d == records[m.id].data
<1>1. faults' \in [FaultKinds -> Nat]
  BY AnsweredCounts DEF Verify
<1>2. job' \in [Workers -> Job] /\ \A v \in Workers : LocalsSet(job'[v])
  <2>1. CASE Return(w, "error") \/ Return(w, "not_managed")
    BY <2>1, ReturnJob DEF Replies
  <2>2. CASE /\ Found(m.zone, m.id)
             /\ job' = [job EXCEPT ![w].pc = s, ![w].old = d]
    <3> DEFINE j == [job[w] EXCEPT !.pc = s, !.old = d]
    <3>1. d \in Data
      BY <2>2 DEF TypeInv, TypeOK, Found, Record, Row
    <3>2. j \in Job
      <4>1. job[w] \in Job /\ s \in Steps
        BY DEF TypeInv, TypeOK, Steps
      <4>2. QED
        BY <3>1, <4>1 DEF Job
    <3>3. /\ j.pc = s /\ j.old = d /\ j.row = job[w].row /\ j.route = job[w].route
          /\ j.zone = job[w].zone /\ j.want = job[w].want
      BY DEF TypeInv, TypeOK, Job
    <3>4. LocalsSet(j)
      BY <3>1, <3>3 DEF LocalsSet, EnsureSteps
    <3>5. job' = [job EXCEPT ![w] = j]
      BY <2>2 DEF TypeInv, TypeOK
    <3>6. QED
      BY <3>2, <3>4, <3>5, JobSet
  <2>3. QED
    BY <2>1, <2>2 DEF Verify
<1>3. QED
  BY <1>1, <1>2 DEF TypeInv, TypeOK, Unshared, Provider

(* The pages read hold records under their ids. *)
LEMMA SeenTypes ==
  ASSUME TypeInv, NEW w \in Workers
  PROVE  SeenBy(w) \in SUBSET [id : Ids, data : Data]
<1>1. \A i \in PageOf(w) : i \in Ids /\ records[i].data \in Data
  BY DEF PageOf, Page, LiveIn, Found, TypeInv, TypeOK, Record
<1>2. job[w].seen \in SUBSET [id : Ids, data : Data]
  BY DEF TypeInv, TypeOK, Job
<1>3. QED
  BY <1>1, <1>2 DEF SeenBy

(* A list of a worker goes on, at the same step or at the next one. *)
LEMMA SeenJob ==
  ASSUME TypeInv, NEW w \in Workers, job[w].zone \in Zones,
         NEW s \in {"ensure_list", "list_pages", "list_rows", "ensure_create"},
         NEW p \in Nat, NEW S \in SUBSET [id : Ids, data : Data],
         s \in {"ensure_list", "ensure_create"}
           => job[w].route \in Routes /\ job[w].want \in Data,
         job' = [job EXCEPT ![w] = [job[w] EXCEPT !.pc = s, !.seen = S, !.page = p]]
  PROVE  job' \in [Workers -> Job] /\ \A v \in Workers : LocalsSet(job'[v])
<1> DEFINE j == [job[w] EXCEPT !.pc = s, !.seen = S, !.page = p]
<1>1. j \in Job
  <2>1. job[w] \in Job /\ s \in Steps
    BY DEF TypeInv, TypeOK, Steps
  <2>2. QED
    BY <2>1 DEF Job
<1>2. /\ j.pc = s /\ j.route = job[w].route
      /\ j.zone = job[w].zone /\ j.want = job[w].want
  BY DEF TypeInv, TypeOK, Job
<1>3. LocalsSet(j)
  BY <1>2 DEF LocalsSet, EnsureSteps, DeleteSteps, Mutating
<1>4. QED
  BY <1>1, <1>3, JobSet

(* Another page leaves a well-formed job. *)
LEMMA MorePagesJob ==
  ASSUME TypeInv, NEW w \in Workers, MorePages(w),
         job[w].pc \in {"ensure_list", "list_pages"}
  PROVE  job' \in [Workers -> Job] /\ \A v \in Workers : LocalsSet(job'[v])
<1>1. CASE Return(w, "error")
  BY <1>1, ReturnJob DEF Replies
<1>2. CASE job' = [job EXCEPT ![w].page = @ + 1, ![w].seen = SeenBy(w)]
  <2> DEFINE s == job[w].pc
             p == job[w].page + 1
             S == SeenBy(w)
  <2>1. /\ p \in Nat /\ job[w].zone \in Zones
        /\ s = "ensure_list" => job[w].route \in Routes /\ job[w].want \in Data
    BY DEF TypeInv, TypeOK, Job, LocalsSet, Mutating, EnsureSteps
  <2>2. job' = [job EXCEPT ![w] = [job[w] EXCEPT !.pc = s, !.seen = S, !.page = p]]
    BY <1>2 DEF TypeInv, TypeOK, Job
  <2>3. S \in SUBSET [id : Ids, data : Data]
    BY SeenTypes
  <2>4. s \in {"ensure_list", "list_pages", "list_rows", "ensure_create"}
    OBVIOUS
  <2>5. s \in {"ensure_list", "ensure_create"} => job[w].route \in Routes /\ job[w].want \in Data
    BY <2>1
  <2> HIDE DEF s, p, S
  <2>6. QED
    BY <2>1, <2>2, <2>3, <2>4, <2>5, SeenJob
<1>3. QED
  BY <1>1, <1>2 DEF MorePages

-----------------------------------------------------------------------------
(* Type correctness: no call ever works on a missing row, record or argument. *)

(* The invariant holds at first. *)
LEMMA TypeInvInit == Init => TypeInv
<1> SUFFICES ASSUME Init PROVE TypeInv
  OBVIOUS
<1>1. Blank \in Job /\ LocalsSet(Blank)
  BY DEF Blank, Job, Steps, LocalsSet, Mutating, EnsureSteps, DeleteSteps
<1>2. QED
  BY <1>1, ForeignAssumption DEF Init, TypeInv, TypeOK

(* A call starts with its arguments and nothing else. *)
LEMMA BeginTypes ==
  ASSUME TypeInv, NEW w \in Workers, NEW s \in Steps, NEW r \in Routes \cup {Nil},
         NEW z \in Zones \cup {Nil}, NEW d \in Data \cup {Nil}, Begin(w, s, r, z, d),
         LocalsSet([Blank EXCEPT !.pc = s, !.route = r, !.zone = z, !.want = d])
  PROVE  TypeInv'
<1>1. [Blank EXCEPT !.pc = s, !.route = r, !.zone = z, !.want = d] \in Job
  BY DEF Blank, Job
<1>2. job' \in [Workers -> Job] /\ \A v \in Workers : LocalsSet(job'[v])
  BY <1>1, JobSet DEF Begin
<1>3. QED
  BY <1>2 DEF Begin, TypeInv, TypeOK, Provider

(* So does each kind of call. *)
LEMMA CallTypes ==
  ASSUME TypeInv, NEW w \in Workers, Call(w)
  PROVE  TypeInv'
<1> USE DEF LocalsSet, Blank, Steps, Mutating, EnsureSteps, DeleteSteps
<1>1. CASE CallEnsure(w)
  <2>1. PICK r \in Routes, in \in Inputs : Begin(w, "ensure_row", r, in.zone, in.want)
    BY <1>1 DEF CallEnsure
  <2>2. in.zone \in Zones /\ in.want \in Data
    BY InputsAssumption
  <2>3. QED
    BY <2>1, <2>2, BeginTypes
<1>2. CASE CallDelete(w)
  BY <1>2, BeginTypes DEF CallDelete
<1>3. CASE CallCheck(w)
  BY <1>3, BeginTypes DEF CallCheck
<1>4. CASE CallHas(w)
  BY <1>4, BeginTypes DEF CallHas
<1>5. CASE CallList(w)
  BY <1>5, BeginTypes DEF CallList
<1>6. QED
  BY <1>1, <1>2, <1>3, <1>4, <1>5 DEF Call

(* Each step of Ensure keeps the types. *)
LEMMA EnsureTypes ==
  ASSUME TypeInv, NEW w \in Workers,
         \/ EnsureRow(w) \/ EnsureGet(w) \/ EnsureUpdate(w) \/ EnsureSave(w)
         \/ EnsureRestore(w) \/ EnsureList(w) \/ EnsureCreate(w) \/ EnsureInsert(w)
         \/ EnsureUndo(w)
  PROVE  TypeInv'
<1> DEFINE GoodJobs == job' \in [Workers -> Job] /\ \A v \in Workers : LocalsSet(job'[v])
           j == job[w]
<1>0. /\ j \in Job /\ j.route \in Routes /\ j.zone \in Zones /\ j.want \in Data
      /\ j.pc \in {"ensure_get", "ensure_update", "ensure_save", "ensure_restore"}
           => j.row \in Row
      /\ j.pc \in {"ensure_update", "ensure_save", "ensure_restore"} => j.old \in Data
      /\ j.pc \in {"ensure_insert", "ensure_undo"} => j.made \in Ids
  <2>1. j.pc \in EnsureSteps
    BY DEF EnsureSteps, At, EnsureRow, EnsureGet, EnsureUpdate, EnsureSave,
           EnsureRestore, EnsureList, EnsureCreate, EnsureInsert, EnsureUndo
  <2>2. QED
    BY <2>1 DEF TypeInv, TypeOK, LocalsSet, Mutating
<1>r. ASSUME NEW r \in Replies, Return(w, r) PROVE GoodJobs
  BY <1>r, ReturnJob
<1>g. ASSUME NEW s \in {"ensure_list", "ensure_save", "ensure_restore", "ensure_undo"},
             Goto(w, s),
             s \in {"ensure_save", "ensure_restore"} => j.row \in Row /\ j.old \in Data,
             s = "ensure_undo" => j.made \in Ids
      PROVE  GoodJobs
  <2>1. s \in Steps
    BY DEF Steps
  <2>2. LET k == [j EXCEPT !.pc = s] IN
          /\ k.pc = s /\ k.route = j.route /\ k.zone = j.zone /\ k.want = j.want
          /\ k.row = j.row /\ k.old = j.old /\ k.made = j.made
    BY <1>0 DEF Job
  <2>3. LocalsSet([j EXCEPT !.pc = s])
    BY <1>0, <1>g, <2>2 DEF LocalsSet
  <2>4. QED
    BY <1>g, <2>1, <2>3, GotoJob
<1> HIDE DEF GoodJobs
<1>1. CASE EnsureRow(w)
  <2> DEFINE m == mapping[j.route]
  <2>1. faults' \in [FaultKinds -> Nat]
    BY <1>1, AnsweredCounts DEF EnsureRow
  <2>2. ASSUME m # Nil, job' = [job EXCEPT ![w].pc = "ensure_get", ![w].row = m]
        PROVE  GoodJobs
    <3> DEFINE k == [j EXCEPT !.pc = "ensure_get", !.row = m]
    <3>1. m \in Row
      BY <1>0, <2>2 DEF TypeInv, TypeOK
    <3>2. "ensure_get" \in Steps
      BY DEF Steps
    <3>3. k \in Job
      BY <1>0, <3>1, <3>2 DEF Job
    <3>4. /\ k.pc = "ensure_get" /\ k.route = j.route /\ k.zone = j.zone
          /\ k.want = j.want /\ k.row = m
      BY <1>0 DEF Job
    <3>5. LocalsSet(k)
      BY <1>0, <3>1, <3>4 DEF LocalsSet
    <3>6. job' = [job EXCEPT ![w] = k]
      BY <2>2 DEF TypeInv, TypeOK
    <3>7. QED
      BY <3>3, <3>5, <3>6, JobSet DEF GoodJobs
  <2>3. GoodJobs
    BY <1>1, <1>r, <1>g, <2>2 DEF EnsureRow, Replies
  <2>4. QED
    BY <1>1, <2>1, <2>3 DEF EnsureRow, GoodJobs, TypeInv, TypeOK, Unshared, Provider
<1>2. CASE EnsureGet(w)
  BY <1>2, <1>0, VerifyJob DEF EnsureGet, At
<1>3. CASE EnsureUpdate(w)
  <2> DEFINE q == PutOf(j, j.want)
  <2>1. q \in Request /\ q.id \in Ids /\ j.row \in Row /\ j.old \in Data
    BY <1>3, <1>0, RequestTypes DEF EnsureUpdate, At, PutOf, Row
  <2>2. ProviderTypes
    BY <1>3, <2>1, ErrsTypes, SucceedsTypes DEF EnsureUpdate
  <2>3. GoodJobs
    BY <1>3, <1>r, <1>g, <2>1 DEF EnsureUpdate, Replies
  <2>4. QED
    BY <1>3, <2>2, <2>3 DEF EnsureUpdate, GoodJobs, ProviderTypes, TypeInv, TypeOK
<1>4. CASE EnsureSave(w)
  <2>1. faults' \in [FaultKinds -> Nat]
    BY <1>4, AnsweredCounts DEF EnsureSave
  <2>2. j.row \in Row /\ j.old \in Data
    BY <1>4, <1>0 DEF EnsureSave, At
  <2>3. GoodJobs
    BY <1>4, <1>r, <1>g, <2>2 DEF EnsureSave, Replies
  <2>4. mapping' \in [Routes -> Row \cup {Nil}]
    <3>1. CASE UNCHANGED mapping
      BY <3>1 DEF TypeInv, TypeOK
    <3>2. CASE Hit(w) /\ mapping' = [mapping EXCEPT ![j.route].data = j.want]
      <4>1. mapping[j.route] \in Row
        BY <1>0, <3>2 DEF Hit, TypeInv, TypeOK
      <4>2. [mapping[j.route] EXCEPT !.data = j.want] \in Row
        BY <1>0, <4>1 DEF Row
      <4>3. QED
        BY <3>2, <4>2 DEF TypeInv, TypeOK
    <3>3. QED
      BY <1>4, <3>1, <3>2 DEF EnsureSave
  <2>5. QED
    BY <1>4, <2>1, <2>3, <2>4 DEF EnsureSave, GoodJobs, TypeInv, TypeOK, Provider
<1>5. CASE EnsureRestore(w)
  <2> DEFINE q == PutOf(j, j.old)
  <2>1. q \in Request /\ q.id \in Ids
    BY <1>5, <1>0, RequestTypes DEF EnsureRestore, At, PutOf, Row
  <2>2. ProviderTypes
    BY <1>5, <2>1, ErrsTypes, SucceedsTypes DEF EnsureRestore
  <2>3. GoodJobs
    BY <1>5, <1>r DEF EnsureRestore, Replies
  <2>4. QED
    BY <1>5, <2>2, <2>3 DEF EnsureRestore, GoodJobs, ProviderTypes, TypeInv, TypeOK
<1>6. CASE EnsureList(w)
  <2>1. faults' \in [FaultKinds -> Nat]
    BY <1>6, AnsweredCounts DEF EnsureList, MorePages, LastPage
  <2>2. ASSUME MorePages(w) PROVE GoodJobs
    BY <1>6, <2>2, MorePagesJob DEF EnsureList, At, GoodJobs
  <2>3. ASSUME Return(w, "conflict") PROVE GoodJobs
    BY <2>3, <1>r DEF Replies
  <2>4. ASSUME job' = [job EXCEPT ![w].pc = "ensure_create", ![w].seen = {}, ![w].page = 1]
        PROVE  GoodJobs
    <3>1. job' = [job EXCEPT ![w] =
                    [job[w] EXCEPT !.pc = "ensure_create", !.seen = {}, !.page = 1]]
      BY <2>4 DEF TypeInv, TypeOK
    <3>2. {} \in SUBSET [id : Ids, data : Data] /\ 1 \in Nat
      OBVIOUS
    <3>3. QED
      BY <1>0, <3>1, <3>2, SeenJob DEF GoodJobs
  <2>5. GoodJobs
    BY <1>6, <2>2, <2>3, <2>4 DEF EnsureList
  <2>6. QED
    BY <1>6, <2>1, <2>5 DEF EnsureList, GoodJobs, TypeInv, TypeOK, Unshared, Provider
<1>7. CASE EnsureCreate(w)
  <2> DEFINE q == PostOf(j)
  <2>1. q \in Request
    BY <1>0, RequestTypes
  <2>2. CASE Errs(w, q) /\ Return(w, "error")
    BY <1>7, <1>r, <2>1, <2>2, ErrsTypes
       DEF EnsureCreate, Replies, GoodJobs, ProviderTypes, TypeInv, TypeOK
  <2>3. ASSUME NEW i \in Fresh, Succeeds(w, q, i),
               job' = [job EXCEPT ![w].pc = "ensure_insert", ![w].made = i]
        PROVE  TypeInv'
    <3> DEFINE k == [j EXCEPT !.pc = "ensure_insert", !.made = i]
    <3>1. i \in Ids
      BY DEF Fresh
    <3>2. ProviderTypes
      BY <2>1, <2>3, <3>1, SucceedsTypes
    <3>3. "ensure_insert" \in Steps
      BY DEF Steps
    <3>4. k \in Job
      BY <1>0, <3>1, <3>3 DEF Job
    <3>5. /\ k.pc = "ensure_insert" /\ k.route = j.route /\ k.zone = j.zone
          /\ k.want = j.want /\ k.made = i
      BY <1>0 DEF Job
    <3>6. LocalsSet(k)
      BY <1>0, <3>1, <3>5 DEF LocalsSet
    <3>7. job' = [job EXCEPT ![w] = k]
      BY <2>3 DEF TypeInv, TypeOK
    <3>8. GoodJobs
      BY <3>4, <3>6, <3>7, JobSet DEF GoodJobs
    <3>9. QED
      BY <1>7, <3>2, <3>8 DEF EnsureCreate, GoodJobs, ProviderTypes, TypeInv, TypeOK
  <2>4. QED
    BY <1>7, <2>2, <2>3 DEF EnsureCreate
<1>8. CASE EnsureInsert(w)
  <2> DEFINE m == [zone |-> j.zone, id |-> j.made, data |-> j.want]
  <2>1. faults' \in [FaultKinds -> Nat]
    BY <1>8, AnsweredCounts DEF EnsureInsert
  <2>2. j.made \in Ids
    BY <1>8, <1>0 DEF EnsureInsert, At
  <2>3. GoodJobs
    BY <1>8, <1>r, <1>g, <2>2 DEF EnsureInsert, Replies
  <2>4. m \in Row
    BY <1>0, <2>2 DEF Row
  <2>5. mapping' \in [Routes -> Row \cup {Nil}]
    BY <1>8, <2>4 DEF EnsureInsert, TypeInv, TypeOK
  <2>6. QED
    BY <1>8, <2>1, <2>3, <2>5 DEF EnsureInsert, GoodJobs, TypeInv, TypeOK, Provider
<1>9. CASE EnsureUndo(w)
  <2> DEFINE q == DeleteOf(j, j.zone, j.made)
  <2>1. q \in Request /\ q.id \in Ids
    BY <1>9, <1>0, RequestTypes DEF EnsureUndo, At, DeleteOf
  <2>2. ProviderTypes
    BY <1>9, <2>1, ErrsTypes, SucceedsTypes DEF EnsureUndo
  <2>3. GoodJobs
    BY <1>9, <1>r DEF EnsureUndo, Replies
  <2>4. QED
    BY <1>9, <2>2, <2>3 DEF EnsureUndo, GoodJobs, ProviderTypes, TypeInv, TypeOK
<1>10. QED
  BY <1>1, <1>2, <1>3, <1>4, <1>5, <1>6, <1>7, <1>8, <1>9

(* Each step of DeleteManaged keeps the types. *)
LEMMA DeleteTypes ==
  ASSUME TypeInv, NEW w \in Workers,
         DeleteRow(w) \/ DeleteGet(w) \/ DeleteRecord(w) \/ DeleteForget(w)
  PROVE  TypeInv'
<1> DEFINE j == job[w]
<1>0. /\ j \in Job /\ j.route \in Routes
      /\ j.pc \in {"delete_get", "delete_record", "delete_forget"} => j.row \in Row
  <2>1. j.pc \in DeleteSteps
    BY DEF DeleteSteps, At, DeleteRow, DeleteGet, DeleteRecord, DeleteForget
  <2>2. QED
    BY <2>1 DEF TypeInv, TypeOK, LocalsSet, Mutating
<1>1. CASE DeleteRow(w)
  BY <1>0, <1>1, ReadRowJob DEF DeleteRow
<1>2. CASE DeleteGet(w)
  BY <1>0, <1>2, VerifyJob DEF DeleteGet, At
<1>3. CASE DeleteRecord(w)
  <2> DEFINE q == DeleteOf(j, j.row.zone, j.row.id)
  <2>1. j.row \in Row /\ j.pc = "delete_record"
    BY <1>0, <1>3 DEF DeleteRecord, At
  <2>2. q \in Request /\ q.id \in Ids
    BY <1>0, <2>1, RequestTypes DEF DeleteOf, Row
  <2>3. ProviderTypes
    BY <1>3, <2>2, ErrsTypes, SucceedsTypes DEF DeleteRecord
  <2>4. job' \in [Workers -> Job] /\ \A v \in Workers : LocalsSet(job'[v])
    <3>1. CASE Return(w, "error")
      BY <3>1, ReturnJob DEF Replies
    <3>2. CASE Goto(w, "delete_forget")
      <4>1. LET k == [j EXCEPT !.pc = "delete_forget"] IN
              k.pc = "delete_forget" /\ k.route = j.route /\ k.row = j.row
        BY <1>0 DEF Job
      <4>2. LocalsSet([j EXCEPT !.pc = "delete_forget"])
        BY <1>0, <2>1, <4>1 DEF LocalsSet, EnsureSteps
      <4>3. QED
        BY <3>2, <4>2, GotoJob DEF Steps
    <3>3. QED
      BY <1>3, <3>1, <3>2 DEF DeleteRecord
  <2>5. QED
    BY <1>3, <2>3, <2>4 DEF DeleteRecord, ProviderTypes, TypeInv, TypeOK
<1>4. CASE DeleteForget(w)
  <2>1. faults' \in [FaultKinds -> Nat]
    BY <1>4, AnsweredCounts DEF DeleteForget
  <2>2. job' \in [Workers -> Job] /\ \A v \in Workers : LocalsSet(job'[v])
    BY <1>4, ReturnJob DEF DeleteForget, Replies
  <2>3. mapping' \in [Routes -> Row \cup {Nil}]
    BY <1>4 DEF DeleteForget, TypeInv, TypeOK
  <2>4. QED
    BY <1>4, <2>1, <2>2, <2>3 DEF DeleteForget, TypeInv, TypeOK, Provider
<1>5. QED
  BY <1>1, <1>2, <1>3, <1>4

(* Each step of Check, HasManaged and List keeps the types. *)
LEMMA ReadTypes ==
  ASSUME TypeInv, NEW w \in Workers,
         CheckRow(w) \/ CheckGet(w) \/ HasManaged(w) \/ ListPages(w) \/ ListRows(w)
  PROVE  TypeInv'
<1> DEFINE GoodJobs == job' \in [Workers -> Job] /\ \A v \in Workers : LocalsSet(job'[v])
<1>1. CASE CheckRow(w)
  <2>1. job[w].route \in Routes
    BY <1>1 DEF CheckRow, At, TypeInv, LocalsSet
  <2>2. QED
    BY <1>1, <2>1, ReadRowJob DEF CheckRow
<1>2. ASSUME faults' \in [FaultKinds -> Nat], GoodJobs, UNCHANGED Unshared
      PROVE  TypeInv'
  BY <1>2 DEF TypeInv, TypeOK, Unshared, Provider
<1>3. CASE CheckGet(w)
  BY <1>2, <1>3, AnsweredCounts, ReturnJob DEF CheckGet, Replies
<1>4. CASE HasManaged(w)
  BY <1>2, <1>4, AnsweredCounts, ReturnJob DEF HasManaged, Replies
<1>5. CASE ListPages(w)
  <2>1. faults' \in [FaultKinds -> Nat]
    BY <1>5, AnsweredCounts DEF ListPages, MorePages, LastPage
  <2>2. ASSUME MorePages(w) PROVE GoodJobs
    BY <1>5, <2>2, MorePagesJob DEF ListPages, At
  <2>3. ASSUME job' = [job EXCEPT ![w].pc = "list_rows", ![w].seen = SeenBy(w)]
        PROVE  GoodJobs
    <3>1. job[w].page \in Nat /\ job[w].zone \in Zones
      BY <1>5 DEF ListPages, At, TypeInv, TypeOK, Job, LocalsSet
    <3>2. job' = [job EXCEPT ![w] = [job[w] EXCEPT !.pc = "list_rows", !.seen = SeenBy(w),
                                                   !.page = job[w].page]]
      BY <2>3 DEF TypeInv, TypeOK, Job
    <3>3. QED
      BY <3>1, <3>2, SeenTypes, SeenJob
  <2>4. QED
    BY <1>2, <1>5, <2>1, <2>2, <2>3 DEF ListPages
<1>6. CASE ListRows(w)
  <2>1. faults' \in [FaultKinds -> Nat]
    BY <1>6, AnsweredCounts DEF ListRows
  <2> DEFINE owned == {p \in Ids \X Routes :
                         /\ \E s \in job[w].seen : s.id = p[1]
                         /\ mapping[p[2]] # Nil
                         /\ mapping[p[2]].id = p[1] /\ mapping[p[2]].zone = job[w].zone}
  <2>2. ASSUME NEW S \in SUBSET (Ids \X Routes),
               job' = [job EXCEPT ![w] = [Blank EXCEPT !.reply = "listed", !.owned = S]]
        PROVE  GoodJobs
    <3> DEFINE k == [Blank EXCEPT !.reply = "listed", !.owned = S]
    <3>1. k \in Job /\ k.pc = "idle"
      BY DEF Blank, Job, Steps, Replies
    <3>2. LocalsSet(k)
      BY <3>1 DEF LocalsSet, Mutating, EnsureSteps, DeleteSteps
    <3>3. QED
      BY <2>2, <3>1, <3>2, JobSet
  <2>3. CASE Return(w, "error")
    BY <1>2, <1>6, <2>1, <2>3, ReturnJob DEF ListRows, Replies
  <2>4. CASE job' = [job EXCEPT ![w] = [Blank EXCEPT !.reply = "listed", !.owned = owned]]
    <3>1. owned \in SUBSET (Ids \X Routes)
      OBVIOUS
    <3> HIDE DEF owned
    <3>2. GoodJobs
      BY <2>2, <2>4, <3>1
    <3>3. QED
      BY <1>2, <1>6, <2>1, <3>2 DEF ListRows
  <2>5. QED
    BY <1>6, <2>3, <2>4 DEF ListRows
<1>7. QED
  BY <1>1, <1>3, <1>4, <1>5, <1>6

(* Cancellations, crashes, late requests and edits keep the types. *)
LEMMA EnvironmentTypes ==
  ASSUME TypeInv,
         \/ \E w \in Workers : Cancel(w)
         \/ Crash
         \/ \E q \in wire : Arrive(q)
         \/ \E i \in Ids : Edit(i)
  PROVE  TypeInv'
<1>1. ASSUME NEW w \in Workers, Cancel(w) PROVE TypeInv'
  <2> DEFINE k == [job[w] EXCEPT !.done = TRUE]
  <2>1. faults' \in [FaultKinds -> Nat]
    BY <1>1, FaultCounts DEF Cancel, FaultKinds
  <2>2. job[w] \in Job /\ LocalsSet(job[w])
    BY DEF TypeInv, TypeOK
  <2>3. k \in Job
    BY <2>2 DEF Job
  <2>4. /\ k.pc = job[w].pc /\ k.route = job[w].route /\ k.zone = job[w].zone
        /\ k.want = job[w].want /\ k.row = job[w].row /\ k.old = job[w].old
        /\ k.made = job[w].made
    BY <2>2 DEF Job
  <2>5. LocalsSet(k)
    BY <2>2, <2>4 DEF LocalsSet
  <2>6. job' = [job EXCEPT ![w] = k]
    BY <1>1 DEF Cancel
  <2>7. job' \in [Workers -> Job] /\ \A v \in Workers : LocalsSet(job'[v])
    BY <2>3, <2>5, <2>6, JobSet
  <2>8. QED
    BY <1>1, <2>1, <2>7 DEF Cancel, TypeInv, TypeOK, Unshared, Provider
<1>2. CASE Crash
  <2>1. faults' \in [FaultKinds -> Nat]
    BY <1>2, FaultCounts DEF Crash, FaultKinds
  <2>2. Blank \in Job /\ LocalsSet(Blank)
    BY DEF Blank, Job, Steps, LocalsSet, Mutating, EnsureSteps, DeleteSteps
  <2>3. job' \in [Workers -> Job] /\ \A v \in Workers : LocalsSet(job'[v])
    BY <1>2, <2>2 DEF Crash
  <2>4. QED
    BY <1>2, <2>1, <2>3 DEF Crash, TypeInv, TypeOK, Unshared, Provider
<1>3. ASSUME NEW q \in wire, Arrive(q) PROVE TypeInv'
  <2>1. q \in Request
    BY DEF TypeInv, TypeOK
  <2>2. /\ records' \in [Ids -> Record \cup {Nil}]
        /\ creator' \in [Ids -> Routes \cup {External, Nil}]
    <3>1. CASE UNCHANGED <<records, creator>>
      BY <3>1 DEF TypeInv, TypeOK
    <3>2. QED
      BY <1>3, <2>1, <3>1, ApplyTypes DEF Arrive
  <2>3. QED
    BY <1>3, <2>2 DEF Arrive, TypeInv, TypeOK
<1>4. ASSUME NEW i \in Ids, Edit(i) PROVE TypeInv'
  <2>1. faults' \in [FaultKinds -> Nat]
    BY <1>4, FaultCounts DEF Edit, FaultKinds
  <2>2. \A in \in Inputs : in.zone \in Zones /\ in.want \in Data
    BY InputsAssumption
  <2>3. records[i] # Nil => records[i].zone \in Zones
    BY DEF TypeInv, TypeOK, Record
  <2>4. records' \in [Ids -> Record \cup {Nil}]
    <3>1. CASE \E z \in Zones, d \in Data : Write(z, i, d)
      BY <3>1, WriteTypes
    <3>2. CASE records' = [records EXCEPT ![i] = Nil]
      BY <3>2 DEF TypeInv, TypeOK
    <3>3. QED
      BY <1>4, <2>2, <2>3, <3>1, <3>2 DEF Edit
  <2>5. creator' \in [Ids -> Routes \cup {External, Nil}]
    BY <1>4 DEF Edit, TypeInv, TypeOK
  <2>6. QED
    BY <1>4, <2>1, <2>4, <2>5 DEF Edit, TypeInv, TypeOK
<1>5. QED
  BY <1>1, <1>2, <1>3, <1>4

(* Every step keeps the types. *)
LEMMA TypeInvNext == TypeInv /\ [Next]_vars => TypeInv'
<1> SUFFICES ASSUME TypeInv, [Next]_vars PROVE TypeInv'
  OBVIOUS
<1>1. ASSUME NEW w \in Workers, Call(w) \/ Work(w) PROVE TypeInv'
  BY <1>1, CallTypes, EnsureTypes, DeleteTypes, ReadTypes DEF Work
<1>2. CASE UNCHANGED vars
  BY <1>2 DEF vars, TypeInv, TypeOK
<1>3. QED
  BY <1>1, <1>2, EnvironmentTypes DEF Next

(* The state is well typed, and no step of a call runs without the row, the  *)
(* record or the arguments it works on.                                      *)
THEOREM TypeCorrect == Spec => []TypeOK
<1>1. TypeInv => TypeOK
  BY DEF TypeInv
<1>2. QED
  BY <1>1, TypeInvInit, TypeInvNext, PTL DEF Spec

-----------------------------------------------------------------------------
(* Ownership.  What any step may do to the ids the state holds. *)

(* A worker's step ends one of its calls, or keeps what its locals hold. *)
Keeps(w) == job'[w].route = job[w].route

(* A worker that returns gives up every id it held. *)
LEMMA ReturnForgets ==
  ASSUME TypeInv, NEW w \in Workers, NEW r \in Replies, Return(w, r)
  PROVE  /\ \A v \in Workers \ {w} : job'[v] = job[v]
         /\ job'[w].row = Nil /\ job'[w].made = Nil
BY DEF TypeInv, TypeOK, Return, Blank

(* A worker that goes on keeps what it held. *)
LEMMA GotoKeeps ==
  ASSUME TypeInv, NEW w \in Workers, NEW s \in Steps, Goto(w, s)
  PROVE  /\ \A v \in Workers \ {w} : job'[v] = job[v]
         /\ Keeps(w) /\ job'[w].row = job[w].row /\ job'[w].made = job[w].made
BY DEF TypeInv, TypeOK, Goto, Keeps, Job

(* The creator of a record never changes. *)
LEMMA CreatorStays ==
  ASSUME TypeInv, Next, NEW i \in Ids, creator[i] # Nil
  PROVE  creator'[i] = creator[i]
<1>1. ASSUME NEW q, NEW k \in Ids, Apply(q, k) PROVE creator'[i] = creator[i]
  BY <1>1 DEF Apply, Fresh, TypeInv, TypeOK
<1>2. ASSUME UNCHANGED creator PROVE creator'[i] = creator[i]
  BY <1>2
<1>3. ASSUME NEW w \in Workers, NEW q, Errs(w, q) PROVE creator'[i] = creator[i]
  BY <1>2, <1>3 DEF Errs, Provider
<1>4. ASSUME NEW w \in Workers, Call(w) \/ Work(w) PROVE creator'[i] = creator[i]
  <2>1. CASE EnsureCreate(w)
    BY <1>1, <1>3, <2>1 DEF EnsureCreate, Succeeds, Fresh
  <2>2. CASE EnsureUpdate(w) \/ EnsureRestore(w) \/ EnsureUndo(w) \/ DeleteRecord(w)
    BY <1>2, <2>2 DEF EnsureUpdate, EnsureRestore, EnsureUndo, DeleteRecord, Succeeds,
                      Errs, Provider, Apply, PutOf, DeleteOf
  <2>3. QED
    BY <1>2, <1>4, <2>1, <2>2
       DEF Call, CallEnsure, CallDelete, CallCheck, CallHas, CallList, Begin, Work,
           EnsureRow, EnsureGet, EnsureSave, EnsureList, EnsureInsert, DeleteRow,
           DeleteGet, DeleteForget, CheckRow, CheckGet, HasManaged, ListPages, ListRows,
           Unshared, Provider
<1>5. ASSUME NEW q \in wire, Arrive(q) PROVE creator'[i] = creator[i]
  BY <1>1, <1>2, <1>5 DEF Arrive
<1>6. ASSUME NEW k \in Ids, Edit(k) PROVE creator'[i] = creator[i]
  BY <1>6 DEF Edit, Fresh, TypeInv, TypeOK
<1>7. QED
  BY <1>2, <1>4, <1>5, <1>6 DEF Next, Cancel, Crash, Unshared, Provider

(* A row keeps its id for as long as it exists; a new one gets the id of the *)
(* record its call has just made.                                            *)
LEMMA RowStep ==
  ASSUME TypeInv, Next, NEW r \in Routes, mapping'[r] # Nil
  PROVE  \/ mapping[r] # Nil /\ mapping'[r].id = mapping[r].id
         \/ \E w \in Workers : /\ job[w].route = r /\ job[w].made \in Ids
                               /\ mapping'[r].id = job[w].made
<1> DEFINE Goal == \/ mapping[r] # Nil /\ mapping'[r].id = mapping[r].id
                   \/ \E w \in Workers : /\ job[w].route = r /\ job[w].made \in Ids
                                         /\ mapping'[r].id = job[w].made
<1>1. CASE UNCHANGED mapping
  BY <1>1
<1>2. ASSUME NEW w \in Workers, EnsureSave(w) PROVE Goal
  <2>1. CASE Hit(w) /\ mapping' = [mapping EXCEPT ![job[w].route].data = job[w].want]
    BY <2>1 DEF Hit, TypeInv, TypeOK, Row
  <2>2. QED
    BY <1>1, <1>2, <2>1 DEF EnsureSave
<1>3. ASSUME NEW w \in Workers, EnsureInsert(w) PROVE Goal
  <2>1. job[w].made \in Ids
    BY <1>3 DEF EnsureInsert, At, TypeInv, LocalsSet
  <2>2. CASE r = job[w].route /\ mapping' = [mapping EXCEPT ![job[w].route] =
               [zone |-> job[w].zone, id |-> job[w].made, data |-> job[w].want]]
    BY <2>1, <2>2 DEF TypeInv, TypeOK
  <2>3. CASE r # job[w].route
    BY <1>3, <2>3 DEF EnsureInsert, TypeInv, TypeOK
  <2>4. QED
    BY <1>1, <1>3, <2>2, <2>3 DEF EnsureInsert
<1>4. ASSUME NEW w \in Workers, DeleteForget(w) PROVE Goal
  BY <1>4 DEF DeleteForget, TypeInv, TypeOK
<1>5. ASSUME NEW w \in Workers, Call(w) \/ Work(w), ~EnsureSave(w), ~EnsureInsert(w),
             ~DeleteForget(w)
      PROVE  UNCHANGED mapping
  BY <1>5
     DEF Call, CallEnsure, CallDelete, CallCheck, CallHas, CallList, Begin, Work,
         EnsureRow, EnsureGet, EnsureUpdate, EnsureRestore, EnsureList, EnsureCreate,
         EnsureUndo, DeleteRow, DeleteGet, DeleteRecord, CheckRow, CheckGet, HasManaged,
         ListPages, ListRows, Unshared
<1>6. ASSUME \/ \E w \in Workers : Cancel(w)
             \/ Crash \/ (\E q \in wire : Arrive(q)) \/ (\E i \in Ids : Edit(i))
      PROVE  UNCHANGED mapping
  BY <1>6 DEF Cancel, Crash, Arrive, Edit, Unshared
<1>7. QED
  BY <1>1, <1>2, <1>3, <1>4, <1>5, <1>6 DEF Next

(* A worker holds the row it has read for its route and the record it has    *)
(* created for it.                                                            *)
LEMMA LocalStep ==
  ASSUME TypeInv, Next, NEW w \in Workers
  PROVE  /\ job'[w].row # Nil =>
              /\ Keeps(w)
              /\ \/ job'[w].row = job[w].row
                 \/ job[w].route \in Routes /\ job'[w].row = mapping[job[w].route]
         /\ job'[w].made # Nil =>
              /\ Keeps(w)
              /\ \/ job'[w].made = job[w].made
                 \/ job[w].route \in Routes /\ creator'[job'[w].made] = job[w].route
<1> DEFINE RowGoal == job'[w].row # Nil =>
              /\ Keeps(w)
              /\ \/ job'[w].row = job[w].row
                 \/ job[w].route \in Routes /\ job'[w].row = mapping[job[w].route]
           MadeGoal == job'[w].made # Nil =>
              /\ Keeps(w)
              /\ \/ job'[w].made = job[w].made
                 \/ job[w].route \in Routes /\ creator'[job'[w].made] = job[w].route
           Goal == RowGoal /\ MadeGoal
<1>1. ASSUME job'[w] = job[w] PROVE Goal
  BY <1>1 DEF Keeps
<1>2. ASSUME job'[w].row = Nil, job'[w].made = Nil PROVE Goal
  BY <1>2
<1>3. ASSUME Keeps(w), job'[w].row = job[w].row, job'[w].made = job[w].made PROVE Goal
  BY <1>3
<1>r. ASSUME NEW v \in Workers, NEW r \in Replies, Return(v, r) PROVE Goal
  BY <1>1, <1>2, <1>r, ReturnForgets
<1>g. ASSUME NEW v \in Workers, NEW s \in Steps, Goto(v, s) PROVE Goal
  BY <1>1, <1>3, <1>g, GotoKeeps
<1>p. ASSUME NEW v \in Workers, MorePages(v) PROVE Goal
  <2>1. CASE Return(v, "error")
    BY <1>r, <2>1 DEF Replies
  <2>2. CASE job' = [job EXCEPT ![v].page = @ + 1, ![v].seen = SeenBy(v)]
    BY <1>1, <1>3, <2>2 DEF TypeInv, TypeOK, Job, Keeps
  <2>3. QED
    BY <1>p, <2>1, <2>2 DEF MorePages
<1>m. ASSUME NEW v \in Workers, NEW s,
             job[v].route \in Routes,
             job' = [job EXCEPT ![v].pc = s, ![v].row = mapping[job[v].route]]
      PROVE  Goal
  <2>1. CASE v = w
    <3>1. /\ job'[w].row = mapping[job[w].route] /\ job'[w].made = job[w].made
          /\ job'[w].route = job[w].route
      BY <1>m, <2>1 DEF TypeInv, TypeOK, Job
    <3>2. QED
      BY <1>m, <2>1, <3>1 DEF Keeps
  <2>2. CASE v # w
    BY <1>1, <1>m, <2>2 DEF TypeInv, TypeOK
  <2>3. QED
    BY <2>1, <2>2
<1>v. ASSUME NEW v \in Workers, NEW s \in {"ensure_update", "delete_record"}, Verify(v, s)
      PROVE  Goal
  <2> DEFINE d == records[job[v].row.id].data
  <2>1. CASE job' = [job EXCEPT ![v].pc = s, ![v].old = d]
    BY <1>1, <1>3, <2>1 DEF TypeInv, TypeOK, Job, Keeps
  <2>2. QED
    BY <1>r, <1>v, <2>1 DEF Verify, Replies
<1> HIDE DEF Goal
<1>4. ASSUME NEW v \in Workers, Call(v) PROVE Goal
  <2>1. ASSUME NEW s, NEW r, NEW z, NEW d, Begin(v, s, r, z, d) PROVE Goal
    <3>1. CASE v = w
      BY <1>2, <2>1, <3>1 DEF Begin, Blank, TypeInv, TypeOK
    <3>2. CASE v # w
      BY <1>1, <2>1, <3>2 DEF Begin, TypeInv, TypeOK
    <3>3. QED
      BY <3>1, <3>2
  <2>2. QED
    BY <1>4, <2>1 DEF Call, CallEnsure, CallDelete, CallCheck, CallHas, CallList
<1>5. ASSUME NEW v \in Workers,
             \/ EnsureUpdate(v) \/ EnsureSave(v) \/ EnsureRestore(v) \/ EnsureInsert(v)
             \/ EnsureUndo(v) \/ DeleteRecord(v) \/ DeleteForget(v)
             \/ CheckGet(v) \/ HasManaged(v)
      PROVE  Goal
  BY <1>5, <1>r, <1>g
     DEF EnsureUpdate, EnsureSave, EnsureRestore, EnsureInsert, EnsureUndo, DeleteRecord,
         DeleteForget, CheckGet, HasManaged, Replies, Steps
<1>6. ASSUME NEW v \in Workers,
             EnsureRow(v) \/ DeleteRow(v) \/ CheckRow(v)
      PROVE  Goal
  <2>1. job[v].route \in Routes
    BY <1>6 DEF EnsureRow, DeleteRow, CheckRow, At, TypeInv, LocalsSet, Mutating,
                EnsureSteps, DeleteSteps
  <2>2. QED
    BY <1>6, <2>1, <1>r, <1>g, <1>m
       DEF EnsureRow, DeleteRow, CheckRow, ReadRow, Replies, Steps
<1>7. ASSUME NEW v \in Workers, EnsureGet(v) \/ DeleteGet(v) PROVE Goal
  BY <1>7, <1>v DEF EnsureGet, DeleteGet
<1>8. ASSUME NEW v \in Workers, EnsureList(v) PROVE Goal
  <2>1. CASE job' = [job EXCEPT ![v].pc = "ensure_create", ![v].seen = {}, ![v].page = 1]
    BY <1>1, <1>3, <2>1 DEF TypeInv, TypeOK, Job, Keeps
  <2>2. QED
    BY <1>8, <1>p, <1>r, <2>1 DEF EnsureList, Replies
<1>9. ASSUME NEW v \in Workers, ListPages(v) PROVE Goal
  <2>1. CASE job' = [job EXCEPT ![v].pc = "list_rows", ![v].seen = SeenBy(v)]
    BY <1>1, <1>3, <2>1 DEF TypeInv, TypeOK, Job, Keeps
  <2>2. QED
    BY <1>9, <1>p, <2>1 DEF ListPages
<1>10. ASSUME NEW v \in Workers, ListRows(v) PROVE Goal
  <2>1. ASSUME NEW S, job' = [job EXCEPT ![v] =
                                [Blank EXCEPT !.reply = "listed", !.owned = S]]
        PROVE  Goal
    <3>1. CASE v = w
      BY <1>2, <2>1, <3>1 DEF Blank, TypeInv, TypeOK
    <3>2. CASE v # w
      BY <1>1, <2>1, <3>2 DEF TypeInv, TypeOK
    <3>3. QED
      BY <3>1, <3>2
  <2>2. QED
    BY <1>10, <1>r, <2>1 DEF ListRows, Replies
<1>11. ASSUME NEW v \in Workers, EnsureCreate(v) PROVE Goal
  <2>1. ASSUME NEW i \in Fresh, Succeeds(v, PostOf(job[v]), i),
               job' = [job EXCEPT ![v].pc = "ensure_insert", ![v].made = i]
        PROVE  Goal
    <3>0. job[v].route \in Routes
      BY <1>11 DEF EnsureCreate, At, TypeInv, LocalsSet, Mutating, EnsureSteps
    <3>1. creator'[i] = job[v].route
      BY <2>1 DEF Succeeds, Apply, PostOf, Fresh, TypeInv, TypeOK
    <3>2. CASE v = w
      <4>1. /\ job'[w].row = job[w].row /\ job'[w].made = i
            /\ job'[w].route = job[w].route
        BY <2>1, <3>2 DEF TypeInv, TypeOK, Job
      <4>2. QED
        BY <3>0, <3>1, <3>2, <4>1 DEF Keeps, Goal
    <3>3. CASE v # w
      BY <1>1, <2>1, <3>3 DEF TypeInv, TypeOK
    <3>4. QED
      BY <3>2, <3>3
  <2>2. QED
    BY <1>11, <1>r, <2>1 DEF EnsureCreate, Replies
<1>12. ASSUME NEW v \in Workers, Cancel(v) PROVE Goal
  BY <1>12, <1>1, <1>3 DEF Cancel, TypeInv, TypeOK, Job, Keeps
<1>13. ASSUME Crash PROVE Goal
  BY <1>13, <1>2 DEF Crash, Blank
<1>14. ASSUME UNCHANGED job PROVE Goal
  BY <1>1, <1>14
<1>15. Goal
  BY <1>4, <1>5, <1>6, <1>7, <1>8, <1>9, <1>10, <1>11, <1>12, <1>13, <1>14
     DEF Next, Work, Arrive, Edit
<1>16. QED
  BY <1>15 DEF Goal

(* The id a mutating request of a worker names is in the worker's locals. *)
Carries(w, q) ==
  /\ q.route = job[w].route /\ job[w].route \in Routes
  /\ \/ job[w].row \in Row /\ q.id = job[w].row.id
     \/ job[w].made \in Ids /\ q.id = job[w].made

Sends(w, q) == q.kind = "post" \/ Carries(w, q)

(* The requests of a step, and how they end. *)
LEMMA RequestStep ==
  ASSUME TypeInv, Next,
         <<records, wire>>' # <<records, wire>>
  PROVE  \/ \E w \in Workers, q \in Request :
              Sends(w, q) /\ (Errs(w, q) \/ \E i \in Ids : Succeeds(w, q, i))
         \/ \E q \in wire : Arrive(q)
         \/ \E i \in Ids : Edit(i)
<1> DEFINE Goal == \/ \E w \in Workers, q \in Request :
                         Sends(w, q) /\ (Errs(w, q) \/ \E i \in Ids : Succeeds(w, q, i))
                   \/ \E q \in wire : Arrive(q)
                   \/ \E i \in Ids : Edit(i)
<1>1. ASSUME NEW w \in Workers, EnsureUpdate(w) PROVE Goal
  <2>1. /\ job[w] \in Job /\ job[w].route \in Routes /\ job[w].row \in Row
        /\ job[w].want \in Data
    BY <1>1 DEF EnsureUpdate, At, TypeInv, TypeOK, LocalsSet, Mutating, EnsureSteps
  <2>2. PutOf(job[w], job[w].want) \in Request
    BY <2>1, RequestTypes
  <2>3. Sends(w, PutOf(job[w], job[w].want)) /\ job[w].row.id \in Ids
    BY <2>1 DEF Sends, Carries, PutOf, Row
  <2>4. QED
    BY <1>1, <2>2, <2>3 DEF EnsureUpdate, PutOf
<1>2. ASSUME NEW w \in Workers, EnsureRestore(w) PROVE Goal
  <2>1. /\ job[w] \in Job /\ job[w].route \in Routes /\ job[w].row \in Row
        /\ job[w].old \in Data
    BY <1>2 DEF EnsureRestore, At, TypeInv, TypeOK, LocalsSet, Mutating, EnsureSteps
  <2>2. PutOf(job[w], job[w].old) \in Request
    BY <2>1, RequestTypes
  <2>3. Sends(w, PutOf(job[w], job[w].old)) /\ job[w].row.id \in Ids
    BY <2>1 DEF Sends, Carries, PutOf, Row
  <2>4. QED
    BY <1>2, <2>2, <2>3 DEF EnsureRestore, PutOf
<1>3. ASSUME NEW w \in Workers, EnsureCreate(w) PROVE Goal
  <2>1. /\ job[w] \in Job /\ job[w].route \in Routes /\ job[w].zone \in Zones
        /\ job[w].want \in Data
    BY <1>3 DEF EnsureCreate, At, TypeInv, TypeOK, LocalsSet, Mutating, EnsureSteps
  <2>2. PostOf(job[w]) \in Request
    BY <2>1, RequestTypes
  <2>3. Sends(w, PostOf(job[w]))
    BY DEF Sends, PostOf
  <2>4. QED
    BY <1>3, <2>2, <2>3 DEF EnsureCreate, Fresh
<1>4. ASSUME NEW w \in Workers, EnsureUndo(w) PROVE Goal
  <2>1. /\ job[w] \in Job /\ job[w].route \in Routes /\ job[w].zone \in Zones
        /\ job[w].made \in Ids
    BY <1>4 DEF EnsureUndo, At, TypeInv, TypeOK, LocalsSet, Mutating, EnsureSteps
  <2>2. DeleteOf(job[w], job[w].zone, job[w].made) \in Request
    BY <2>1, RequestTypes
  <2>3. Sends(w, DeleteOf(job[w], job[w].zone, job[w].made))
    BY <2>1 DEF Sends, Carries, DeleteOf
  <2>4. QED
    BY <1>4, <2>1, <2>2, <2>3 DEF EnsureUndo, DeleteOf
<1>5. ASSUME NEW w \in Workers, DeleteRecord(w) PROVE Goal
  <2>1. job[w] \in Job /\ job[w].route \in Routes /\ job[w].row \in Row
    BY <1>5 DEF DeleteRecord, At, TypeInv, TypeOK, LocalsSet, Mutating, DeleteSteps
  <2>2. /\ DeleteOf(job[w], job[w].row.zone, job[w].row.id) \in Request
        /\ job[w].row.id \in Ids
    BY <2>1, RequestTypes DEF Row
  <2>3. Sends(w, DeleteOf(job[w], job[w].row.zone, job[w].row.id))
    BY <2>1 DEF Sends, Carries, DeleteOf
  <2>4. QED
    BY <1>5, <2>2, <2>3 DEF DeleteRecord, DeleteOf
<1>6. ASSUME NEW w \in Workers, Call(w) \/ Work(w), ~EnsureUpdate(w), ~EnsureRestore(w),
             ~EnsureCreate(w), ~EnsureUndo(w), ~DeleteRecord(w)
      PROVE  UNCHANGED <<records, wire>>
  BY <1>6
     DEF Call, CallEnsure, CallDelete, CallCheck, CallHas, CallList, Begin, Work,
         EnsureRow, EnsureGet, EnsureSave, EnsureList, EnsureInsert, DeleteRow,
         DeleteGet, DeleteForget, CheckRow, CheckGet, HasManaged, ListPages, ListRows,
         Unshared, Provider
<1>7. ASSUME Crash \/ \E w \in Workers : Cancel(w) PROVE UNCHANGED <<records, wire>>
  BY <1>7 DEF Crash, Cancel, Unshared, Provider
<1>8. QED
  BY <1>1, <1>2, <1>3, <1>4, <1>5, <1>6, <1>7 DEF Next

(* The ids the workers hold are ids they hold for a route. *)
HeldForRoute ==
  \A w \in Workers : job[w].row # Nil \/ job[w].made # Nil => job[w].route \in Routes

OwnInv == TypeInv /\ HeldForRoute /\ IdsAreOwn

(* At first there are no rows, jobs or requests. *)
LEMMA OwnInvInit == Init => OwnInv
<1> SUFFICES ASSUME Init PROVE HeldForRoute /\ IdsAreOwn
  BY TypeInvInit DEF OwnInv
<1>1. QED
  BY DEF Init, HeldForRoute, IdsAreOwn, Blank

(* Ownership of ids survives every step: rows, jobs, then the wire. *)
LEMMA OwnInvNext == OwnInv /\ [Next]_vars => OwnInv'
<1> SUFFICES ASSUME OwnInv, Next PROVE OwnInv'
  <2>1. CASE UNCHANGED vars
    BY <2>1, TypeInvNext DEF vars, OwnInv, HeldForRoute, IdsAreOwn
  <2>2. QED
    BY <2>1
<1>1. TypeInv /\ HeldForRoute /\ IdsAreOwn /\ TypeInv'
  BY TypeInvNext DEF OwnInv
<1>2. HeldForRoute'
  BY <1>1, LocalStep DEF HeldForRoute, Keeps
<1>3. ASSUME NEW r \in Routes, NEW i \in Ids, creator[i] = r PROVE creator'[i] = r
  BY <1>1, <1>3, CreatorStays, NilAssumption
<1>4. ASSUME NEW r \in Routes, mapping'[r] # Nil PROVE creator'[mapping'[r].id] = r
  <2>1. CASE mapping[r] # Nil /\ mapping'[r].id = mapping[r].id
    <3>1. mapping[r].id \in Ids /\ creator[mapping[r].id] = r
      BY <1>1, <2>1 DEF IdsAreOwn, TypeInv, TypeOK, Row
    <3>2. QED
      BY <1>3, <2>1, <3>1
  <2>2. ASSUME NEW w \in Workers, job[w].route = r, job[w].made \in Ids,
               mapping'[r].id = job[w].made
        PROVE  creator'[mapping'[r].id] = r
    <3>1. creator[job[w].made] = r
      BY <1>1, <2>2, NilAssumption DEF IdsAreOwn
    <3>2. QED
      BY <1>3, <2>2, <3>1
  <2>3. QED
    BY <1>1, <1>4, <2>1, <2>2, RowStep
<1>5. ASSUME NEW w \in Workers, job'[w].row # Nil
      PROVE  creator'[job'[w].row.id] = job'[w].route
  <2>1. /\ Keeps(w) /\ job'[w].route \in Routes
        /\ \/ job'[w].row = job[w].row
           \/ job'[w].row = mapping[job[w].route]
    BY <1>1, <1>2, <1>5, LocalStep DEF HeldForRoute
  <2>2. job'[w].row.id \in Ids
    BY <1>1, <1>5 DEF TypeInv, TypeOK, Job, Row
  <2>3. creator[job'[w].row.id] = job[w].route
    BY <1>1, <1>5, <2>1 DEF IdsAreOwn, Keeps
  <2>4. QED
    BY <1>3, <2>1, <2>2, <2>3 DEF Keeps
<1>6. ASSUME NEW w \in Workers, job'[w].made # Nil
      PROVE  creator'[job'[w].made] = job'[w].route
  <2>1. /\ Keeps(w) /\ job'[w].route \in Routes /\ job'[w].made \in Ids
        /\ \/ job'[w].made = job[w].made
           \/ creator'[job'[w].made] = job[w].route
    BY <1>1, <1>2, <1>6, LocalStep DEF HeldForRoute, TypeInv, TypeOK, Job
  <2>2. CASE job'[w].made = job[w].made
    <3>1. creator[job'[w].made] = job[w].route
      BY <1>1, <1>6, <2>2 DEF IdsAreOwn
    <3>2. QED
      BY <1>3, <2>1, <3>1 DEF Keeps
  <2>3. QED
    BY <2>1, <2>2 DEF Keeps
<1>7. ASSUME NEW q \in wire', q.kind # "post" PROVE creator'[q.id] = q.route
  <2>1. ASSUME q \in wire PROVE creator'[q.id] = q.route
    <3>1. q \in Request /\ creator[q.id] = q.route
      BY <1>1, <1>7, <2>1 DEF IdsAreOwn, TypeInv, TypeOK
    <3>2. q.id \in Ids /\ q.route \in Routes
      BY <1>7, <3>1 DEF Request
    <3>3. QED
      BY <1>3, <3>1, <3>2
  <2>2. ASSUME NEW w \in Workers, Carries(w, q) PROVE creator'[q.id] = q.route
    <3>1. q.id \in Ids /\ q.route \in Routes /\ creator[q.id] = q.route
      BY <1>1, <2>2, NilAssumption DEF Carries, IdsAreOwn, Row
    <3>2. QED
      BY <1>3, <3>1
  <2>3. CASE q \notin wire
    <3>1. PICK w \in Workers, p \in Request :
            Sends(w, p) /\ (Errs(w, p) \/ \E i \in Ids : Succeeds(w, p, i))
      BY <1>1, <1>7, <2>3, RequestStep DEF Arrive, Edit
    <3>2. q = p
      BY <1>7, <2>3, <3>1 DEF Errs, Succeeds, Provider
    <3>3. QED
      BY <1>7, <2>2, <3>1, <3>2 DEF Sends
  <2>4. QED
    BY <2>1, <2>3
<1>8. IdsAreOwn'
  BY <1>4, <1>5, <1>6, <1>7 DEF IdsAreOwn
<1>9. QED
  BY <1>1, <1>2, <1>8 DEF OwnInv

(* Every id the service holds, also on the wire, is the id of a record it    *)
(* created for that route: no call can reach another's record, whatever      *)
(* fails and however many instances run.                                      *)
THEOREM IdsAlwaysOwn == Spec => []IdsAreOwn
<1>1. OwnInv => IdsAreOwn
  BY DEF OwnInv
<1>2. QED
  BY <1>1, OwnInvInit, OwnInvNext, PTL DEF Spec

(* A record of the owner of the zone changes only by the owner's own hand.   *)
THEOREM ExternalNeverWritten == Spec => ExternalUntouched
<1> DEFINE Untouched ==
      \A i \in Ids : creator[i] = External /\ records'[i] # records[i]
                       => faults'["edit"] > faults["edit"]
<1>1. ASSUME OwnInv, [Next]_vars PROVE [Untouched]_vars
  <2>1. SUFFICES ASSUME Next, NEW i \in Ids, creator[i] = External,
                        records'[i] # records[i]
                 PROVE  faults'["edit"] > faults["edit"]
    BY <1>1
  <2>2. TypeInv /\ IdsAreOwn
    BY <1>1 DEF OwnInv
  <2>3. i \notin Fresh
    BY <2>1, ExternalAssumption DEF Fresh
  <2>4. ASSUME NEW q \in Request, NEW k \in Ids, Apply(q, k) PROVE q.kind # "post" /\ q.id = i
    BY <2>1, <2>2, <2>3, <2>4 DEF Apply, Write, TypeInv, TypeOK
  <2>5. ASSUME NEW w \in Workers, NEW q \in Request, Sends(w, q),
               Errs(w, q) \/ \E k \in Ids : Succeeds(w, q, k)
        PROVE  FALSE
    <3>1. q.kind # "post" /\ q.id = i
      BY <2>1, <2>4, <2>5 DEF Errs, Succeeds, Provider
    <3>2. creator[q.id] \in Routes
      BY <2>2, <2>5, <3>1, NilAssumption DEF Sends, Carries, IdsAreOwn
    <3>3. QED
      BY <2>1, <3>1, <3>2, ExternalAssumption
  <2>6. ASSUME NEW q \in wire, Arrive(q) PROVE FALSE
    <3>1. q \in Request
      BY <2>2 DEF TypeInv, TypeOK
    <3>2. q.kind # "post" /\ q.id = i
      BY <2>1, <2>4, <2>6, <3>1 DEF Arrive
    <3>3. creator[q.id] = q.route /\ q.route \in Routes
      BY <2>2, <3>1, <3>2 DEF IdsAreOwn, Request
    <3>4. QED
      BY <2>1, <3>2, <3>3, ExternalAssumption
  <2>7. ASSUME NEW k \in Ids, Edit(k) PROVE faults'["edit"] > faults["edit"]
    <3>1. faults["edit"] \in Nat
      BY <2>2 DEF TypeInv, TypeOK, FaultKinds
    <3>2. faults'["edit"] = faults["edit"] + 1
      BY <2>2, <2>7 DEF Edit, Fault, TypeInv, TypeOK, FaultKinds
    <3>3. QED
      BY <3>1, <3>2
  <2>8. QED
    BY <2>1, <2>2, <2>5, <2>6, <2>7, RequestStep
<1>2. QED
  BY <1>1, OwnInvInit, OwnInvNext, PTL DEF Spec, ExternalUntouched
=============================================================================
