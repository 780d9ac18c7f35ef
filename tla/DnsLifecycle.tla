---------------------------- MODULE DnsLifecycle ----------------------------
(***************************************************************************)
(* The life of the DNS records NexProxy owns: internal/dns/service.go over *)
(* the provider client of internal/cloudflare/client.go.                   *)
(*                                                                         *)
(* A route owns at most one provider record.  The provider holds the       *)
(* record, the table managed_dns_records holds a row with its exact id,    *)
(* and no transaction spans the two.  Every call of the service is a       *)
(* sequence of database statements and provider requests; each of them is  *)
(* one action here, so other callers, the owner of the zone, a cancelled   *)
(* context, a timeout and a crash come between any two.                    *)
(***************************************************************************)
EXTENDS Naturals, FiniteSets

CONSTANTS
  Routes,       \* route ids
  Workers,      \* request goroutines that call the service
  Ids,          \* provider record ids, never reused; ordered, to cut pages
  Zones,        \* provider zone ids
  Types,        \* record types, the supported ones are ValidTypes
  ValidTypes,
  Names,        \* spellings of domain names
  Canon,        \* spelling -> canonical spelling (case, trailing dot)
  Bodies,       \* content and proxied flag of a record
  Inputs,       \* the (zone, desired record) pairs Ensure is called with
  PageSize,     \* records on a page of the provider's list
  Serialized,   \* TRUE: one instance, mutations run one at a time
  Foreign,      \* id -> record that exists before NexProxy, or Nil
  External,     \* creator of the records NexProxy did not create
  Nil,          \* no record, no row, no value
  Calls,        \* bound: the kinds of calls that are started
  MaxOps,       \* bound: calls started
  MaxFaults     \* bound: faults of each kind

FaultKinds == {"refused", "timeout", "db", "cancel", "crash", "edit"}

Data == [type : Types, name : Names, body : Bodies]
Record == [zone : Zones, data : Data]
Row == [zone : Zones, id : Ids, data : Data]

ASSUME IdsAssumption == Ids \subseteq Nat /\ IsFiniteSet(Ids)
ASSUME TypesAssumption == ValidTypes \subseteq Types
ASSUME CanonAssumption ==
  Canon \in [Names -> Names] /\ \A n \in Names : Canon[Canon[n]] = Canon[n]
ASSUME InputsAssumption == Inputs \subseteq [zone : Zones, want : Data]
ASSUME PageSizeAssumption == PageSize \in Nat \ {0}
ASSUME SerializedAssumption == Serialized \in BOOLEAN
ASSUME ForeignAssumption == Foreign \in [Ids -> Record \cup {Nil}]
ASSUME ExternalAssumption == External \notin Routes /\ External # Nil
ASSUME NilAssumption ==
  /\ Nil \notin Routes /\ Nil \notin Zones /\ Nil \notin Ids
  /\ Nil \notin Data /\ Nil \notin Record /\ Nil \notin Row
ASSUME BoundsAssumption ==
  /\ Calls \subseteq {"ensure", "delete", "check", "has", "list"}
  /\ MaxOps \in Nat /\ MaxFaults \in [FaultKinds -> Nat]

VARIABLES
  records,   \* the provider: id -> record, or Nil
  creator,   \* who created the record with this id (history)
  mapping,   \* the table managed_dns_records: route -> row, or Nil
  job,       \* what each worker is doing
  wire,      \* requests given up on that the provider may still carry out
  faults,    \* faults so far, per kind
  ops        \* calls so far

vars == <<records, creator, mapping, job, wire, faults, ops>>

Steps == {"idle",
  "ensure_row", "ensure_get", "ensure_update", "ensure_save", "ensure_restore",
  "ensure_list", "ensure_create", "ensure_insert", "ensure_undo",
  "delete_row", "delete_get", "delete_record", "delete_forget",
  "check_row", "check_get", "list_pages", "list_rows", "has_row"}

EnsureSteps == {"ensure_row", "ensure_get", "ensure_update", "ensure_save",
  "ensure_restore", "ensure_list", "ensure_create", "ensure_insert", "ensure_undo"}
DeleteSteps == {"delete_row", "delete_get", "delete_record", "delete_forget"}
Mutating == EnsureSteps \cup DeleteSteps

Replies == {"ok", "conflict", "not_managed", "error",
            "match", "mismatch", "yes", "no", "listed"}
ASSUME NoReplyAssumption == Nil \notin Replies

(* A request that changes the provider, sent for a route. *)
Request ==
       [kind : {"put"}, route : Routes, zone : Zones, id : Ids, data : Data]
  \cup [kind : {"post"}, route : Routes, zone : Zones, id : {Nil}, data : Data]
  \cup [kind : {"delete"}, route : Routes, zone : Zones, id : Ids, data : {Nil}]

Job == [
  pc    : Steps,                          \* the next step of the call
  route : Routes \cup {Nil},              \* its arguments
  zone  : Zones \cup {Nil},
  want  : Data \cup {Nil},
  row   : Row \cup {Nil},                 \* the row read at its start
  old   : Data \cup {Nil},                \* the record as the provider held it
  made  : Ids \cup {Nil},                 \* the record it created
  page  : Nat,                            \* the next page of the list
  seen  : SUBSET [id : Ids, data : Data], \* the pages read so far
  done  : BOOLEAN,                        \* its context has been cancelled
  reply : Replies \cup {Nil},             \* what the last call returned
  owned : SUBSET (Ids \X Routes)]         \* and, of a list, what is managed

Blank == [pc |-> "idle", route |-> Nil, zone |-> Nil, want |-> Nil, row |-> Nil,
          old |-> Nil, made |-> Nil, page |-> 1, seen |-> {}, done |-> FALSE,
          reply |-> Nil, owned |-> {}]

TypeOK ==
  /\ records \in [Ids -> Record \cup {Nil}]
  /\ creator \in [Ids -> Routes \cup {External, Nil}]
  /\ mapping \in [Routes -> Row \cup {Nil}]
  /\ job \in [Workers -> Job]
  /\ wire \subseteq Request
  /\ faults \in [FaultKinds -> Nat]
  /\ ops \in Nat

Init ==
  /\ records = Foreign
  /\ creator = [i \in Ids |-> IF Foreign[i] = Nil THEN Nil ELSE External]
  /\ mapping = [r \in Routes |-> Nil]
  /\ job = [w \in Workers |-> Blank]
  /\ wire = {}
  /\ faults = [k \in FaultKinds |-> 0]
  /\ ops = 0

-----------------------------------------------------------------------------
(* Names, records and what the provider does with a request. *)

(* Case and a trailing dot do not distinguish names. *)
Same(a, b) == Canon[a] = Canon[b]

(* The provider's record is still what the row says. *)
Matches(d, m) ==
  d.type = m.data.type /\ Same(d.name, m.data.name) /\ d.body = m.data.body

(* The provider keeps the canonical spelling of a name. *)
Kept(d) == [d EXCEPT !.name = Canon[d.name]]

Found(z, i) == records[i] # Nil /\ records[i].zone = z
Fresh == {i \in Ids : creator[i] = Nil}
LiveIn(z) == {i \in Ids : Found(z, i)}

(* Page p of the records of a zone; a later page is cut from later contents. *)
Page(z, p) ==
  LET Rank(i) == Cardinality({j \in LiveIn(z) : j <= i})
  IN  {i \in LiveIn(z) : (p - 1) * PageSize < Rank(i) /\ Rank(i) <= p * PageSize}

(* Some listed record already has the name and type of d. *)
Collides(d, S) == \E s \in S : Same(s.data.name, d.name) /\ s.data.type = d.type

PutOf(j, d) ==
  [kind |-> "put", route |-> j.route, zone |-> j.row.zone, id |-> j.row.id, data |-> d]
(* Mutant: the zone is taken from the row, which there is none of. *)
PostToZoneOfRow(j) ==
  [kind |-> "post", route |-> j.route, zone |-> Nil, id |-> Nil, data |-> j.want]

PostOf(j) ==
  [kind |-> "post", route |-> j.route, zone |-> j.zone, id |-> Nil, data |-> j.want]
DeleteOf(j, z, i) ==
  [kind |-> "delete", route |-> j.route, zone |-> z, id |-> i, data |-> Nil]

(* PUT and DELETE need the record; running out of ids is the provider's quota. *)
Accepts(q) == IF q.kind = "post" THEN Fresh # {} ELSE Found(q.zone, q.id)

Write(z, i, d) == records' = [records EXCEPT ![i] = [zone |-> z, data |-> Kept(d)]]

(* The provider carries out an accepted request; i is the id it answers with. *)
Apply(q, i) ==
  \/ q.kind = "put" /\ i = q.id /\ Write(q.zone, i, q.data) /\ UNCHANGED creator
  \/ /\ q.kind = "post" /\ i \in Fresh /\ Write(q.zone, i, q.data)
     /\ creator' = [creator EXCEPT ![i] = q.route]
  \/ /\ q.kind = "delete" /\ i = q.id
     /\ records' = [records EXCEPT ![i] = Nil] /\ UNCHANGED creator

-----------------------------------------------------------------------------
(* How a step of a worker ends: answered or not, and where the call goes on. *)

Provider == <<records, creator, wire>>

Fault(k) == faults[k] < MaxFaults[k] /\ faults' = [faults EXCEPT ![k] = @ + 1]

(* A call on a cancelled context fails at once. *)
ContextDone(w) == job[w].done /\ UNCHANGED faults
Answered(w) == ~job[w].done /\ UNCHANGED faults
DbFails(w) == ContextDone(w) \/ Fault("db")

(* The request had no effect: it was not sent, or the provider rejected it. *)
Refused(w) == ContextDone(w) \/ Fault("refused")

(* A type that is not supported fails before anything is sent. *)
Sendable(q) == q.kind # "delete" => q.data.type \in ValidTypes

(* An error reply.  When the client has given up, the request may still take *)
(* effect, at any later time.                                                 *)
Errs(w, q) ==
  \/ ~Sendable(q) /\ UNCHANGED <<faults, Provider>>
  \/ Refused(w) /\ UNCHANGED Provider
  \/ Answered(w) /\ ~Accepts(q) /\ UNCHANGED Provider
  \/ /\ Sendable(q) /\ ~job[w].done /\ Fault("timeout")
     /\ wire' = wire \cup {q} /\ UNCHANGED <<records, creator>>

Succeeds(w, q, i) ==
  Sendable(q) /\ Answered(w) /\ Accepts(q) /\ Apply(q, i) /\ UNCHANGED wire

At(w, step) == job[w].pc = step
Goto(w, step) == job' = [job EXCEPT ![w].pc = step]
Return(w, r) == job' = [job EXCEPT ![w] = [Blank EXCEPT !.reply = r]]

(* A step of the call that reads the row of its route. *)
ReadRow(w, next) ==
  LET m == mapping[job[w].route] IN
    \/ DbFails(w) /\ Return(w, "error")
    \/ Answered(w) /\ m = Nil /\ Return(w, "not_managed")
    \/ Answered(w) /\ m # Nil /\ job' = [job EXCEPT ![w].pc = next, ![w].row = m]

(* GetRecord of the exact persisted id; the record has to match the row. *)
Verify(w, next) ==
  LET m == job[w].row
      d == records[m.id].data
  IN  \/ Refused(w) /\ Return(w, "error")
      \/ Answered(w) /\ ~Found(m.zone, m.id) /\ Return(w, "error")
      \/ Answered(w) /\ Found(m.zone, m.id) /\ ~Matches(d, m) /\ Return(w, "not_managed")
      \/ /\ Answered(w) /\ Found(m.zone, m.id) /\ Matches(d, m)
         /\ job' = [job EXCEPT ![w].pc = next, ![w].old = d]

(* One request per page of the list; a short page is the last one. *)
PageOf(w) == Page(job[w].zone, job[w].page)
SeenBy(w) == job[w].seen \cup {[id |-> i, data |-> records[i].data] : i \in PageOf(w)}
LastPage(w) == Answered(w) /\ Cardinality(PageOf(w)) < PageSize

(* Mutant: the same page is read again and again. *)
SamePageAgain(w) ==
  \/ Refused(w) /\ Return(w, "error")
  \/ /\ Answered(w) /\ Cardinality(PageOf(w)) = PageSize
     /\ job' = [job EXCEPT ![w].seen = SeenBy(w)]

MorePages(w) ==
  \/ Refused(w) /\ Return(w, "error")
  \/ /\ Answered(w) /\ Cardinality(PageOf(w)) = PageSize
     /\ job' = [job EXCEPT ![w].page = @ + 1, ![w].seen = SeenBy(w)]

Unshared == <<Provider, mapping, ops>>   \* what a step of the worker alone leaves

-----------------------------------------------------------------------------
(* Calls.  One instance serialises the mutations; two instances do not. *)

MayMutate == Serialized => \A v \in Workers : job[v].pc \notin Mutating

Begin(w, step, r, z, d) ==
  /\ At(w, "idle") /\ ops < MaxOps
  /\ ops' = ops + 1
  /\ job' = [job EXCEPT ![w] = [Blank EXCEPT !.pc = step, !.route = r,
                                             !.zone = z, !.want = d]]
  /\ UNCHANGED <<Provider, mapping, faults>>

CallEnsure(w) ==
  /\ "ensure" \in Calls /\ MayMutate
  /\ \E r \in Routes, in \in Inputs : Begin(w, "ensure_row", r, in.zone, in.want)
CallDelete(w) ==
  /\ "delete" \in Calls /\ MayMutate
  /\ \E r \in Routes : Begin(w, "delete_row", r, Nil, Nil)
CallCheck(w) == "check" \in Calls /\ \E r \in Routes : Begin(w, "check_row", r, Nil, Nil)
CallHas(w) == "has" \in Calls /\ \E r \in Routes : Begin(w, "has_row", r, Nil, Nil)
CallList(w) == "list" \in Calls /\ \E z \in Zones : Begin(w, "list_pages", Nil, z, Nil)

-----------------------------------------------------------------------------
(* Ensure: update the record of the row, or create one. *)

EnsureRow(w) ==
  /\ At(w, "ensure_row")
  /\ LET m == mapping[job[w].route] IN
       \/ DbFails(w) /\ Return(w, "error")
       \/ Answered(w) /\ m = Nil /\ Goto(w, "ensure_list")
       \/ Answered(w) /\ m # Nil /\ m.zone # job[w].zone /\ Return(w, "conflict")
       \/ /\ Answered(w) /\ m # Nil /\ m.zone = job[w].zone
          /\ job' = [job EXCEPT ![w].pc = "ensure_get", ![w].row = m]
  /\ UNCHANGED Unshared

EnsureGet(w) == At(w, "ensure_get") /\ Verify(w, "ensure_update") /\ UNCHANGED Unshared

(* Nothing looks for other records of the desired name. *)
EnsureUpdate(w) ==
  /\ At(w, "ensure_update")
  /\ LET q == PutOf(job[w], job[w].want) IN
       \/ Errs(w, q) /\ Return(w, "error")
       \/ Succeeds(w, q, q.id) /\ Goto(w, "ensure_save")
  /\ UNCHANGED <<mapping, ops>>

(* The row of this route is still the one the call has read. *)
Hit(w) ==
  LET m == mapping[job[w].route] IN m # Nil /\ m.id = job[w].row.id

(* Mutant: a failed UPDATE is returned without compensation. *)
EnsureSaveNoRestore(w) ==
  /\ At(w, "ensure_save")
  /\ \/ DbFails(w) /\ Return(w, "error") /\ UNCHANGED mapping
     \/ /\ Answered(w) /\ Hit(w) /\ Return(w, "ok")
        /\ mapping' = [mapping EXCEPT ![job[w].route].data = job[w].want]
  /\ UNCHANGED <<Provider, ops>>

(* Mutant: a failed UPDATE is logged and forgotten. *)
EnsureSaveBestEffort(w) ==
  /\ At(w, "ensure_save")
  /\ Return(w, "ok")
  /\ \/ DbFails(w) /\ UNCHANGED mapping
     \/ /\ Answered(w) /\ Hit(w)
        /\ mapping' = [mapping EXCEPT ![job[w].route].data = job[w].want]
  /\ UNCHANGED <<Provider, ops>>

(* An UPDATE that finds no row is not an error. *)
EnsureSave(w) ==
  /\ At(w, "ensure_save")
  /\ \/ DbFails(w) /\ Goto(w, "ensure_restore") /\ UNCHANGED mapping
     \/ Answered(w) /\ ~Hit(w) /\ Return(w, "ok") /\ UNCHANGED mapping
     \/ /\ Answered(w) /\ Hit(w) /\ Return(w, "ok")
        /\ mapping' = [mapping EXCEPT ![job[w].route].data = job[w].want]
  /\ UNCHANGED <<Provider, ops>>

(* Compensation of the update, on the same context. *)
EnsureRestore(w) ==
  /\ At(w, "ensure_restore")
  /\ LET q == PutOf(job[w], job[w].old) IN Errs(w, q) \/ Succeeds(w, q, q.id)
  /\ Return(w, "error")
  /\ UNCHANGED <<mapping, ops>>

(* Mutant: only the first page is searched. *)
EnsureListFirstPage(w) ==
  /\ At(w, "ensure_list")
  /\ \/ Answered(w) /\ Collides(job[w].want, SeenBy(w)) /\ Return(w, "conflict")
     \/ Answered(w) /\ ~Collides(job[w].want, SeenBy(w)) /\ Goto(w, "ensure_create")
  /\ UNCHANGED Unshared

(* Mutant: a record of the desired name is adopted. *)
EnsureListAdopt(w) ==
  /\ At(w, "ensure_list")
  /\ \/ MorePages(w)
     \/ /\ LastPage(w)
        /\ \E s \in SeenBy(w) :
             /\ Collides(job[w].want, {s})
             /\ job' = [job EXCEPT ![w].pc = "ensure_insert", ![w].made = s.id]
     \/ LastPage(w) /\ ~Collides(job[w].want, SeenBy(w)) /\ Goto(w, "ensure_create")
  /\ UNCHANGED Unshared

EnsureList(w) ==
  /\ At(w, "ensure_list")
  /\ \/ MorePages(w)
     \/ LastPage(w) /\ Collides(job[w].want, SeenBy(w)) /\ Return(w, "conflict")
     \/ /\ LastPage(w) /\ ~Collides(job[w].want, SeenBy(w))
        /\ job' = [job EXCEPT ![w].pc = "ensure_create", ![w].seen = {}, ![w].page = 1]
  /\ UNCHANGED Unshared

EnsureCreate(w) ==
  /\ At(w, "ensure_create")
  /\ LET q == PostOf(job[w]) IN
       \/ Errs(w, q) /\ Return(w, "error")
       \/ \E i \in Fresh :
            /\ Succeeds(w, q, i)
            /\ job' = [job EXCEPT ![w].pc = "ensure_insert", ![w].made = i]
  /\ UNCHANGED <<mapping, ops>>

(* Mutant: a refused INSERT is not compensated, the other row is assumed fine. *)
EnsureInsertNoUndo(w) ==
  /\ At(w, "ensure_insert")
  /\ LET r == job[w].route IN
       \/ DbFails(w) /\ Goto(w, "ensure_undo") /\ UNCHANGED mapping
       \/ Answered(w) /\ mapping[r] # Nil /\ Return(w, "error") /\ UNCHANGED mapping
       \/ /\ Answered(w) /\ mapping[r] = Nil /\ Return(w, "ok")
          /\ mapping' = [mapping EXCEPT ![r] = [zone |-> job[w].zone, id |-> job[w].made,
                                                data |-> job[w].want]]
  /\ UNCHANGED <<Provider, ops>>

(* The primary key is the route: a second row for it is refused. *)
EnsureInsert(w) ==
  /\ At(w, "ensure_insert")
  /\ LET r == job[w].route IN
       \/ /\ DbFails(w) \/ (Answered(w) /\ mapping[r] # Nil)
          /\ Goto(w, "ensure_undo") /\ UNCHANGED mapping
       \/ /\ Answered(w) /\ mapping[r] = Nil /\ Return(w, "ok")
          /\ mapping' = [mapping EXCEPT ![r] = [zone |-> job[w].zone, id |-> job[w].made,
                                                data |-> job[w].want]]
  /\ UNCHANGED <<Provider, ops>>

(* Mutant: no compensation. *)
EnsureUndoNothing(w) ==
  /\ At(w, "ensure_undo")
  /\ Return(w, "error")
  /\ UNCHANGED <<Provider, mapping, ops, faults>>

(* Compensation of the create by the exact id, on the same context. *)
EnsureUndo(w) ==
  /\ At(w, "ensure_undo")
  /\ LET q == DeleteOf(job[w], job[w].zone, job[w].made) IN
       Errs(w, q) \/ Succeeds(w, q, q.id)
  /\ Return(w, "error")
  /\ UNCHANGED <<mapping, ops>>

-----------------------------------------------------------------------------
(* DeleteManaged: the provider's record first, then the row. *)

DeleteRow(w) == At(w, "delete_row") /\ ReadRow(w, "delete_get") /\ UNCHANGED Unshared
(* Mutant: a record that is not found counts as deleted already. *)
DeleteGetAbsentIsDeleted(w) ==
  /\ At(w, "delete_get")
  /\ LET m == job[w].row IN
       \/ Answered(w) /\ ~Found(m.zone, m.id) /\ Goto(w, "delete_forget")
       \/ Found(m.zone, m.id) /\ Verify(w, "delete_record")
  /\ UNCHANGED Unshared

DeleteGet(w) == At(w, "delete_get") /\ Verify(w, "delete_record") /\ UNCHANGED Unshared

(* Mutant: the row is left to a later clean-up. *)
DeleteRecordKeepRow(w) ==
  /\ At(w, "delete_record")
  /\ LET q == DeleteOf(job[w], job[w].row.zone, job[w].row.id) IN
       \/ Errs(w, q) /\ Return(w, "error")
       \/ Succeeds(w, q, q.id) /\ Return(w, "ok")
  /\ UNCHANGED <<mapping, ops>>

(* Mutant: the row goes whatever the provider has answered. *)
DeleteRecordBestEffort(w) ==
  /\ At(w, "delete_record")
  /\ LET q == DeleteOf(job[w], job[w].row.zone, job[w].row.id) IN
       Errs(w, q) \/ Succeeds(w, q, q.id)
  /\ Goto(w, "delete_forget")
  /\ UNCHANGED <<mapping, ops>>

DeleteRecord(w) ==
  /\ At(w, "delete_record")
  /\ LET q == DeleteOf(job[w], job[w].row.zone, job[w].row.id) IN
       \/ Errs(w, q) /\ Return(w, "error")
       \/ Succeeds(w, q, q.id) /\ Goto(w, "delete_forget")
  /\ UNCHANGED <<mapping, ops>>

(* A DELETE that finds no row is not an error. *)
DeleteForget(w) ==
  /\ At(w, "delete_forget")
  /\ \/ DbFails(w) /\ Return(w, "error") /\ UNCHANGED mapping
     \/ Answered(w) /\ ~Hit(w) /\ Return(w, "ok") /\ UNCHANGED mapping
     \/ /\ Answered(w) /\ Hit(w) /\ Return(w, "ok")
        /\ mapping' = [mapping EXCEPT ![job[w].route] = Nil]
  /\ UNCHANGED <<Provider, ops>>

-----------------------------------------------------------------------------
(* Check, HasManaged and List change nothing outside their worker. *)

CheckRow(w) == At(w, "check_row") /\ ReadRow(w, "check_get") /\ UNCHANGED Unshared

CheckGet(w) ==
  /\ At(w, "check_get")
  /\ LET m == job[w].row IN
       \/ Refused(w) /\ Return(w, "error")
       \/ Answered(w) /\ ~Found(m.zone, m.id) /\ Return(w, "error")
       \/ /\ Answered(w) /\ Found(m.zone, m.id)
          /\ Return(w, IF Matches(records[m.id].data, m) THEN "match" ELSE "mismatch")
  /\ UNCHANGED Unshared

HasManaged(w) ==
  /\ At(w, "has_row")
  /\ \/ DbFails(w) /\ Return(w, "error")
     \/ Answered(w) /\ Return(w, IF mapping[job[w].route] = Nil THEN "no" ELSE "yes")
  /\ UNCHANGED Unshared

ListPages(w) ==
  /\ At(w, "list_pages")
  /\ \/ MorePages(w)
     \/ LastPage(w) /\ job' = [job EXCEPT ![w].pc = "list_rows", ![w].seen = SeenBy(w)]
  /\ UNCHANGED Unshared

(* Mutant: rows are matched to records by name. *)
ListRowsByName(w) ==
  /\ At(w, "list_rows")
  /\ LET owned == {p \in Ids \X Routes :
                     \E s \in job[w].seen :
                       /\ s.id = p[1] /\ mapping[p[2]] # Nil
                       /\ Same(mapping[p[2]].data.name, s.data.name)}
     IN  /\ Answered(w)
         /\ job' = [job EXCEPT ![w] = [Blank EXCEPT !.reply = "listed", !.owned = owned]]
  /\ UNCHANGED Unshared

(* The rows are read after the records, so the two may disagree. *)
ListRows(w) ==
  /\ At(w, "list_rows")
  /\ LET owned == {p \in Ids \X Routes :
                     /\ \E s \in job[w].seen : s.id = p[1]
                     /\ mapping[p[2]] # Nil
                     /\ mapping[p[2]].id = p[1] /\ mapping[p[2]].zone = job[w].zone}
     IN  \/ DbFails(w) /\ Return(w, "error")
         \/ /\ Answered(w)
            /\ job' = [job EXCEPT ![w] = [Blank EXCEPT !.reply = "listed", !.owned = owned]]
  /\ UNCHANGED Unshared

-----------------------------------------------------------------------------
(* Everything else that happens to the service. *)

(* The caller goes away, or its deadline passes, while a call is running. *)
Cancel(w) ==
  /\ ~At(w, "idle") /\ ~job[w].done
  /\ Fault("cancel")
  /\ job' = [job EXCEPT ![w].done = TRUE]
  /\ UNCHANGED Unshared

(* The process stops and starts again: rows and provider records survive. *)
Crash ==
  /\ Fault("crash")
  /\ job' = [w \in Workers |-> Blank]
  /\ UNCHANGED Unshared

(* The provider deals with a request whose caller has given up on it. *)
Arrive(q) ==
  /\ wire' = wire \ {q}
  /\ IF Accepts(q) THEN \E i \in Ids : Apply(q, i) ELSE UNCHANGED <<records, creator>>
  /\ UNCHANGED <<mapping, job, faults, ops>>

(* The owner of the zone creates, changes and deletes records by other means. *)
Edit(i) ==
  /\ Fault("edit")
  /\ \/ /\ i \in Fresh
        /\ \E in \in Inputs : Write(in.zone, i, in.want)
        /\ creator' = [creator EXCEPT ![i] = External]
     \/ /\ records[i] # Nil /\ UNCHANGED creator
        /\ \E in \in Inputs : Write(records[i].zone, i, in.want)
     \/ /\ records[i] # Nil /\ UNCHANGED creator
        /\ records' = [records EXCEPT ![i] = Nil]
  /\ UNCHANGED <<wire, mapping, job, ops>>

-----------------------------------------------------------------------------
Work(w) ==
  \/ EnsureRow(w) \/ EnsureGet(w) \/ EnsureUpdate(w) \/ EnsureSave(w) \/ EnsureRestore(w)
  \/ EnsureList(w) \/ EnsureCreate(w) \/ EnsureInsert(w) \/ EnsureUndo(w)
  \/ DeleteRow(w) \/ DeleteGet(w) \/ DeleteRecord(w) \/ DeleteForget(w)
  \/ CheckRow(w) \/ CheckGet(w) \/ HasManaged(w) \/ ListPages(w) \/ ListRows(w)

Call(w) == CallEnsure(w) \/ CallDelete(w) \/ CallCheck(w) \/ CallHas(w) \/ CallList(w)

Next ==
  \/ \E w \in Workers : Call(w) \/ Work(w) \/ Cancel(w)
  \/ Crash
  \/ \E q \in wire : Arrive(q)
  \/ \E i \in Ids : Edit(i)

Spec == Init /\ [][Next]_vars

(* Statements and requests end, for both have timeouts.  Nobody has to call, *)
(* and no fault has to happen.                                                *)
FairSpec == Spec /\ \A w \in Workers : WF_vars(Work(w))

-----------------------------------------------------------------------------
(* Properties. *)

Happened(k) == faults[k] > 0

Own(i) == records[i] # Nil /\ creator[i] \in Routes
Mapped(i) == \E r \in Routes : mapping[r] # Nil /\ mapping[r].id = i
InHand(i) == \E w \in Workers : job[w].made = i

Served(r) ==
  LET m == mapping[r] IN
    m # Nil /\ Found(m.zone, m.id) /\ Matches(records[m.id].data, m)
Dangling(r) == mapping[r] # Nil /\ records[mapping[r].id] = Nil
ServedRoutes == {r \in Routes : Served(r)}
DanglingRoutes == {r \in Routes : Dangling(r)}
BeingForgotten ==
  {job[w].route : w \in {v \in Workers : At(v, "delete_forget") /\ job[v].old # Nil}}
Doing(r, steps) == \E w \in Workers : job[w].route = r /\ job[w].pc \in steps

(* A record the service did not create changes or disappears only by the     *)
(* hand of the owner of the zone (Edit), whatever requests *)
(* of Ensure and DeleteManaged are late, repeated or interleaved: every PUT  *)
(* and DELETE names the id of a row.                                          *)
ExternalUntouched ==
  [][\A i \in Ids : creator[i] = External /\ records'[i] # records[i]
                      => faults'["edit"] > faults["edit"]]_vars

(* Every id the service holds - in a row, in a call that works on a copy of  *)
(* a row, in a create to be undone, in a request on the wire - is the id of  *)
(* a record it created for that very route.                                  *)
IdsAreOwn ==
  /\ \A r \in Routes : mapping[r] # Nil => creator[mapping[r].id] = r
  /\ \A w \in Workers :
       /\ job[w].row # Nil => creator[job[w].row.id] = job[w].route
       /\ job[w].made # Nil => creator[job[w].made] = job[w].route
  /\ \A q \in wire : q.kind # "post" => creator[q.id] = q.route

(* A live record of the service has a row, or Ensure is about to write or    *)
(* to undo it.  What can break this is named: a create whose answer was      *)
(* lost, a crash or a cancelled context between the create and the insert,   *)
(* or an insert and its compensation that both fail.  A second instance can  *)
(* make the insert fail as well (the primary key).                           *)
NoOrphan ==
  \A i \in Ids : Own(i) =>
    \/ Mapped(i) \/ InHand(i)
    \/ Happened("timeout") \/ Happened("crash") \/ Happened("cancel")
    \/ Happened("refused") /\ (Happened("db") \/ ~Serialized)

(* What the comment above the compensation of a create says: "so a local      *)
(* persistence failure cannot orphan a DNS record".  Without a lost answer,   *)
(* a crash or a failing provider, no record of the service is orphaned.       *)
PersistenceFailureNeverOrphans ==
  \A i \in Ids : Own(i) =>
    \/ Mapped(i) \/ InHand(i)
    \/ Happened("timeout") \/ Happened("crash") \/ Happened("refused")

(* A row whose record is gone is a delete in progress, or something went     *)
(* wrong that a caller was told of: DeleteManaged removes the record first   *)
(* and then fails to remove the row.                                         *)
DanglingHasCause ==
  \A r \in Routes : Dangling(r) =>
    \/ Doing(r, {"delete_forget"})
    \/ \E k \in {"edit", "timeout", "crash", "cancel", "db"} : Happened(k)

(* A row that no longer describes its live record is an update in progress,  *)
(* or the compensation of a failed update failed as well, was lost or was    *)
(* never reached: a database failure alone leaves the two in agreement.      *)
DivergentHasCause ==
  Serialized => \A r \in Routes : mapping[r] # Nil =>
    \/ Served(r) \/ Dangling(r)
    \/ Doing(r, {"ensure_save", "ensure_restore"})
    \/ \E k \in {"edit", "timeout", "crash", "cancel"} : Happened(k)
    \/ Happened("db") /\ Happened("refused")

(* Once the record of a row is gone nothing repairs the row: Ensure and      *)
(* DeleteManaged both stop at GetRecord, so neither replaces the record nor  *)
(* forgets the row.  Only a delete that had still found the record may.      *)
DanglingIsForever ==
  [][DanglingRoutes \ BeingForgotten \subseteq DanglingRoutes']_vars

(* When Ensure succeeds, the row of the route says what was asked for and    *)
(* the provider serves it, unless mutations were not serialised, the owner   *)
(* of the zone edited it or an answer was lost.                              *)
EnsureOkMeansServed ==
  [][\A w \in Workers, r \in Routes :
       /\ Serialized /\ ~Happened("edit") /\ ~Happened("timeout")
       /\ job[w].pc \in EnsureSteps /\ job[w].route = r /\ job'[w].reply = "ok"
       => /\ mapping'[r] # Nil
          /\ mapping'[r].data = job[w].want /\ mapping'[r].zone = job[w].zone
          /\ r \in ServedRoutes']_vars

(* When DeleteManaged succeeds, the record and the row are gone, even with a *)
(* second instance at work on the same route.                                *)
DeleteOkMeansGone ==
  [][\A w \in Workers :
       job[w].pc \in DeleteSteps /\ job'[w].reply = "ok"
       => records'[job[w].row.id] = Nil /\ mapping'[job[w].route] = Nil]_vars

(* Ensure sends a create only when no record of that name and type is live:  *)
(* the pages it has read, one request each, still hold when it is sent.      *)
CreateNeverCollides ==
  Serialized /\ ~Happened("edit") /\ ~Happened("timeout") =>
    \A w \in Workers : At(w, "ensure_create") =>
      \A i \in LiveIn(job[w].zone) :
        ~Collides(job[w].want, {[id |-> i, data |-> records[i].data]})

(* List never shows a record as managed by a route it was not created for,   *)
(* although it reads the rows after the pages.                               *)
ListedManagedIsOwn ==
  \A w \in Workers : \A p \in job[w].owned : creator[p[1]] = p[2]

(* Every call returns, whatever fails on the way.                            *)
CallsReturn == \A w \in Workers : ~At(w, "idle") ~> At(w, "idle")
=============================================================================
