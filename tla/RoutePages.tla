----------------------------- MODULE RoutePages -----------------------------
(***************************************************************************)
(* Editing routes in the console: the pages that list them, the detail,    *)
(* the form with its fields and presets, the delete dialog and the recheck *)
(* (src/App.tsx), over a server that answers late, in any order, or not.   *)
(*                                                                         *)
(* Console has the sessions and the loading; here a session lasts, the     *)
(* first load is over, and what matters is which copy of a route is shown, *)
(* edited and sent back: every form sends all the fields of its copy.      *)
(***************************************************************************)
EXTENDS RouteModel

CONSTANTS
  Ids,            \* opaque route ids the server can give
  FirstRoutes,    \* the rows the server has at first
  FirstRecords,   \* its DNS records
  Typed,          \* field -> what the operator can enter there
  Statuses,       \* what the server can observe of a route
  Visited,        \* bound: the pages the operator goes to
  MaxSent,        \* bound: requests after which only loads are sent, and the
                  \* last load that is retried
  MaxEdits        \* bound: fields and presets the operator sets

VARIABLES
  server,     \* its rows and records, the time of its last write, the ids it has given
  wire,       \* requests sent and not yet handled by the console
  page,       \* the page selected in the sidebar
  app,        \* the rest of App: lists, detail, form, dialog
  sent, edits,
  lagging,    \* history: routes whose row in the list may be behind the server
  heard       \* history: the requests sent when the deletion of a route was told

routeVars == <<server, wire, page, app, sent, edits, lagging, heard>>

Pages == {"dashboard", "routes", "dns", "services", "certificates", "activity",
          "settings"}

Targets == [scheme : Schemes, port : Nat, host : Typed["host"] \cup ValidHosts \cup {""}]

Domains == Typed["domain"] \cup ValidDomains \cup {""}

Inputs == [domain : Domains, target : Targets, https : BOOLEAN, createDns : BOOLEAN]

\* An external route has no target of its own; updatedAt is the server's time.
Route(id, ownership, input, status, at) ==
  [id |-> id, ownership |-> ownership, input |-> input, status |-> status,
   updatedAt |-> at]

\* Nothing is known of the domain of an external route.
Routes == [id : Ids, ownership : {"managed", "external"},
           input : Inputs \cup {r.input : r \in FirstRoutes}, status : RouteStatus,
           updatedAt : Nat]

RecordTypes == {"A", "AAAA", "CNAME"}

\* What a request that names a route is answered; the route only after a write
\* or a check.
Answers == [result : {"success", "partial_failure", "error"}, resource : Routes \cup {None}]

ASSUME ServerAssumption ==
  /\ FirstRoutes \subseteq Routes /\ IsFiniteSet(FirstRoutes)
  /\ \A r \in FirstRoutes : r.updatedAt = 0 /\ (r.ownership = "managed" => r.input \in Inputs)
  /\ \A q, r \in FirstRoutes : q.id = r.id => q = r
  /\ \A d \in FirstRecords : d.type \in RecordTypes
  /\ Statuses \subseteq RouteStatus
ASSUME TypedAssumption ==
  /\ Typed["scheme"] \subseteq Schemes /\ Typed["port"] \subseteq Nat
  /\ Typed["https"] \subseteq BOOLEAN /\ Typed["createDns"] \subseteq BOOLEAN
ASSUME NoneAssumption == None \notin Ids \cup Routes \cup Answers
ASSUME VisitedAssumption == Visited \subseteq Pages

RowsOf(rows, id) == {r \in rows : r.id = id}
Rows == {app.rs[i] : i \in DOMAIN app.rs}

Kinds == {"create", "update", "remove", "recheck", "get"}

\* The sections of a load that the pages modelled here show; each is a request
\* of its own.
Sections == {"routes", "dns"}
Unanswered == [s \in Sections |-> None]

\* touched: the fields set in the form; old: the form began with a copy in
\* Detail that was behind the list (history).
Request(kind, id, input, removeDns, touched, old) ==
  [n |-> sent + 1, kind |-> kind, id |-> id, input |-> input,
   removeDns |-> removeDns, touched |-> touched, old |-> old, answer |-> None]

LoadRequest ==
  [Request("get", None, None, FALSE, {}, FALSE) EXCEPT !.answer = Unanswered]

NoForm == [op |-> "closed", route |-> None, v |-> None, request |-> 0,
           result |-> None, touched |-> {}, old |-> FALSE]
NoDialog == [route |-> None, removeDns |-> FALSE]

Open == app.form.op # "closed"
Covered == Open \/ app.dialog.route # None
Shown == ~Covered /\ ~app.loading /\ ~app.loadError

RoutesTypeOK ==
  /\ page \in Pages
  /\ sent \in Nat /\ edits \in Nat /\ lagging \subseteq Ids
  /\ heard \in [Ids -> 0..sent]
  /\ \A r \in Rows \cup server.rows : r.id \in Ids /\ r.status \in RouteStatus
  /\ Cardinality({r.id : r \in Rows}) = Len(app.rs)
  /\ \A r \in wire : r.kind \in Kinds /\ r.n \in 1..sent
  /\ app.form.op \in {"closed", "idle", "submitting", "success",
                      "partial_success", "error"}
  /\ app.form.op \in {"success", "partial_success"} => app.form.result # None
  /\ Open => app.form.v \in Inputs

RoutesInit ==
  /\ server = [rows |-> FirstRoutes, records |-> FirstRecords, time |-> 0,
               given |-> {r.id : r \in FirstRoutes}]
  /\ wire = {} /\ sent = 0 /\ edits = 0 /\ lagging = {}
  /\ heard = [id \in Ids |-> 0]
  /\ page = "dashboard"
  /\ app = [rs |-> SetToSeq(FirstRoutes), dnsRecords |-> FirstRecords, detail |-> None,
            checking |-> 0, form |-> NoForm, dialog |-> NoDialog,
            loading |-> FALSE, load |-> 0, loadError |-> FALSE]

-----------------------------------------------------------------------------
(* The server (external).  A write may be carried out and not heard of.    *)

Reply(r, answer) == wire' = (wire \ {r}) \cup {[r EXCEPT !.answer = answer]}
Answer(result, resource) == [result |-> result, resource |-> resource]
Lost == Answer("error", None)

ServeError(r) == UNCHANGED server /\ Reply(r, Lost)

NotObserved == [c \in Components |-> "pending"]

RecordFor(id, input) ==
  [id |-> id, type |-> "A", name |-> input.domain, ownership |-> "managed"]

\* An id is given once.
ServeWrite(r) ==
  /\ r.kind \in {"create", "update"}
  /\ \A x \in server.rows : x.id # r.id => x.input.domain # r.input.domain
  /\ \E id \in IF r.kind = "create" THEN Ids \ server.given
               ELSE {x.id : x \in RowsOf(server.rows, r.id)} :
       LET row == Route(id, "managed", r.input, NotObserved, server.time + 1) IN
       /\ server' = [server EXCEPT
            !.time = @ + 1, !.given = @ \cup {id},
            !.rows = (@ \ RowsOf(@, id)) \cup {row},
            !.records = IF r.input.createDns
                          THEN (@ \ {d \in @ : d.id = id}) \cup {RecordFor(id, r.input)}
                          ELSE @]
       /\ \E a \in {Answer("success", row), Answer("partial_failure", row), Lost} :
            Reply(r, a)

\* removeDns is intent: the record may stay.
ServeRemove(r) ==
  /\ r.kind = "remove" /\ RowsOf(server.rows, r.id) # {}
  /\ \E kept \in IF r.removeDns THEN {{}, RowsOf(server.records, r.id)}
                 ELSE {RowsOf(server.records, r.id)} :
       server' = [server EXCEPT !.time = @ + 1,
                                !.rows = @ \ RowsOf(@, r.id),
                                !.records = (@ \ RowsOf(@, r.id)) \cup kept]
  /\ \E a \in {Answer("success", None), Answer("partial_failure", None), Lost} : Reply(r, a)

ServeRecheck(r) ==
  /\ r.kind = "recheck"
  /\ UNCHANGED server
  /\ \E x \in RowsOf(server.rows, r.id), status \in Statuses :
       Reply(r, Answer("success", [x EXCEPT !.status = status]))

\* The sections of one load are read one after the other, in any order.
ServeGet(r, s) ==
  /\ r.kind = "get" /\ r.answer[s] = None /\ UNCHANGED server
  /\ \E a \in {Answer("success", IF s = "routes" THEN SetToSeq(server.rows)
                                ELSE server.records), Lost} :
       Reply(r, [r.answer EXCEPT ![s] = a])

Serve(r) ==
  /\ \/ /\ r.kind # "get" /\ r.answer = None
        /\ ServeError(r) \/ ServeWrite(r) \/ ServeRemove(r) \/ ServeRecheck(r)
     \/ \E s \in Sections : ServeGet(r, s)
  /\ UNCHANGED <<page, app, sent, edits, lagging, heard>>

-----------------------------------------------------------------------------
(* Pages and detail.                                                       *)

Sets(new) == app' = new /\ UNCHANGED <<server, wire, page, sent, edits, lagging, heard>>

\* The rows whose buttons the operator can get to: all those of the routes
\* page, whose search and filter only narrow it, or the recent ones of the
\* dashboard.
Table ==
  IF page = "routes" THEN Rows
  ELSE IF page = "dashboard" THEN ToSet(RecentRows(app.rs))
  ELSE {}

\* What a click on action can act on: a row of the table, or Detail's copy.
Offered(action) ==
  IF app.detail # None
    THEN {r \in {app.detail} : action \in DetailActions(r)}
    ELSE {r \in Table : action \in RowActions(r)}

RoutesGo(p) ==
  /\ ~Covered
  /\ page' = p
  /\ app' = [app EXCEPT !.detail = None, !.checking = 0]
  /\ UNCHANGED <<server, wire, sent, edits, lagging, heard>>

\* The Route Map of the dashboard links to every route.
View(r) ==
  /\ Shown /\ app.detail = None
  /\ r \in Offered("view") \/ page = "dashboard"
  /\ Sets([app EXCEPT !.detail = r])

-----------------------------------------------------------------------------
(* The route form.                                                         *)

Blank == RouteInput("", Target("http", "", 8080), TRUE, TRUE)

OpenForm(route, v, old) ==
  Sets([app EXCEPT !.form = [NoForm EXCEPT !.op = "idle", !.route = route, !.v = v,
                                           !.old = old]])

Add == Shown /\ app.detail = None /\ page = "routes" /\ OpenForm(None, Blank, FALSE)

\* The fields of a form opened on a route.
Begin(r) == r.input

Behind(r) == \E x \in Rows : x.id = r.id /\ x.updatedAt > r.updatedAt

Edit(r) ==
  /\ Shown /\ r \in Offered("edit")
  /\ OpenForm(r, Begin(r), Behind(r))

Fields == {"domain", "host", "port", "scheme", "https", "createDns"}

With(v, field, x) ==
  IF field \in {"host", "port", "scheme"}
    THEN [v EXCEPT !.target = [@ EXCEPT ![field] = x]]
    ELSE [v EXCEPT ![field] = x]

Part(v, field) ==
  IF field \in {"host", "port", "scheme"} THEN v.target[field] ELSE v[field]

\* The inputs are never disabled, not even while an operation is under way.
Enter(field, x) ==
  /\ Open /\ edits < MaxEdits
  /\ x # Part(app.form.v, field)
  /\ edits' = edits + 1
  /\ app' = [app EXCEPT !.form.v = With(@, field, x),
                        !.form.touched = @ \cup {field}]
  /\ UNCHANGED <<server, wire, page, sent, lagging, heard>>

Presets == {[scheme |-> "http", port |-> 8080, on |-> TRUE],     \* Web app
            [scheme |-> "https", port |-> 443, on |-> TRUE],     \* Secure backend
            [scheme |-> "http", port |-> 80, on |-> FALSE]}      \* Internal service

\* A preset keeps the domain and the host; only a new route has presets.
Preset(p) ==
  /\ Open /\ app.form.route = None /\ edits < MaxEdits
  /\ edits' = edits + 1
  /\ app' = [app EXCEPT !.form.v =
               RouteInput(@.domain, Target(p.scheme, @.target.host, p.port), p.on, p.on)]
  /\ UNCHANGED <<server, wire, page, sent, lagging, heard>>

Sends(request, new) ==
  /\ sent' = sent + 1
  /\ wire' = wire \cup {request}
  /\ app' = new
  /\ UNCHANGED <<server, page, edits, lagging, heard>>

Valid(v) == validateRoute(v) = {}

\* submit(): the button waits for valid fields and for the operation before.
Save ==
  /\ app.form.op \in {"idle", "error"} /\ Valid(app.form.v) /\ sent < MaxSent
  /\ LET f == app.form
         new == f.route = None
     IN Sends(Request(IF new THEN "create" ELSE "update", IF new THEN None ELSE f.route.id,
                      f.v, FALSE, f.touched, f.old),
              [app EXCEPT !.form.op = "submitting", !.form.request = sent + 1])

Handled(r) == r \in wire /\ r.answer # None

\* The form that sent the request shows its answer; history: an update the
\* console did not hear the end of.
OnSaved(r) ==
  /\ Handled(r) /\ r.kind \in {"create", "update"}
  /\ wire' = wire \ {r}
  /\ LET a == r.answer IN
     app' = IF app.form.request # r.n THEN app ELSE
       [app EXCEPT !.form.op = IF a.resource = None THEN "error"
                               ELSE IF a.result = "success" THEN "success"
                               ELSE "partial_success",
                   !.form.result = IF a.resource # None THEN a.resource ELSE @]
  /\ lagging' = IF r.answer = Lost /\ r.kind = "update" THEN lagging \cup {r.id} ELSE lagging
  /\ UNCHANGED <<server, page, sent, edits, heard>>

\* Cancel, or Escape: at any time, without a word to the server.
CloseForm ==
  /\ Open
  /\ app' = [app EXCEPT !.form = NoForm]
  /\ lagging' = IF app.form.route # None /\ app.form.op # "idle"
                  THEN lagging \cup {app.form.route.id} ELSE lagging
  /\ UNCHANGED <<server, wire, page, sent, edits, heard>>

\* Mutant of Saved: what was saved is added and replaces nothing.
SavedNewOnly(rs, r) ==
  IF \E i \in DOMAIN rs : rs[i].id = r.id THEN rs ELSE Append(rs, r)

\* Mutant of Saved: an edited route is added once more.
SavedAppended(rs, r) == Append(rs, r)

\* save(): whatever was saved goes to the end of the list.
Saved(rs, r) == Append(Where(rs, {x \in ToSet(rs) : x.id # r.id}), r)

\* "Done" or "View Proxy"; the copy in Detail stays what it was.
Done ==
  /\ app.form.op \in {"success", "partial_success"}
  /\ Sets([app EXCEPT !.rs = Saved(@, app.form.result), !.form = NoForm])

-----------------------------------------------------------------------------
(* The delete dialog and the recheck.                                      *)

Delete(r) ==
  /\ Shown /\ r \in Offered("delete")
  /\ Sets([app EXCEPT !.dialog = [route |-> r, removeDns |-> r.input.createDns]])

RemoveDns ==
  /\ app.dialog.route # None /\ edits < MaxEdits
  /\ edits' = edits + 1
  /\ app' = [app EXCEPT !.dialog.removeDns = ~@]
  /\ UNCHANGED <<server, wire, page, sent, lagging, heard>>

\* The request keeps the dialog's copy of the route for its continuation.
Confirm ==
  /\ app.dialog.route # None /\ sent < MaxSent
  /\ Sends(Request("remove", app.dialog.route.id, app.dialog.route.input,
                   app.dialog.removeDns, {}, FALSE), app)

Cancel == app.dialog.route # None /\ Sets([app EXCEPT !.dialog = NoDialog])

\* Mutant of RecordsLeft: whatever has the name of the route goes.
RecordsLeftByName(records, domain) == {d \in records : d.name # domain}

\* The filter of the DNS list after a deletion with its record.
RecordsLeft(records, domain) ==
  {d \in records : ~(d.ownership = "managed" /\ d.name = domain)}

\* The skeleton takes the place of Detail.
Loads(new) == [new EXCEPT !.loading = TRUE, !.loadError = FALSE, !.load = sent + 1,
                          !.checking = 0]

\* yes(): rejected, a notice; not a success, everything is loaded again; a
\* success, the lists are patched.
OnRemoved(r) ==
  /\ Handled(r) /\ r.kind = "remove"
  /\ LET closed == [app EXCEPT !.dialog = NoDialog] IN
     \/ /\ r.answer = Lost
        /\ app' = closed
        /\ wire' = wire \ {r} /\ UNCHANGED <<sent, heard>>
     \/ /\ r.answer.result = "partial_failure"
        /\ app' = Loads(closed)
        /\ wire' = (wire \ {r}) \cup {LoadRequest}
        /\ sent' = sent + 1 /\ UNCHANGED heard
     \/ /\ r.answer.result = "success"
        /\ app' = [closed EXCEPT
             !.rs = Where(@, {x \in ToSet(@) : x.id # r.id}),
             !.dnsRecords = IF r.removeDns THEN RecordsLeft(@, r.input.domain) ELSE @]
        /\ heard' = [heard EXCEPT ![r.id] = sent]
        /\ wire' = wire \ {r} /\ UNCHANGED sent
  /\ UNCHANGED <<server, page, edits, lagging>>

Older(rs) == {r.id : r \in {x \in Rows : \E i \in DOMAIN rs :
                 rs[i].id = x.id /\ rs[i].updatedAt < x.updatedAt}}

Settled(r) == r \in wire /\ r.kind = "get" /\ \A s \in Sections : r.answer[s] # None

\* The newest load has settled; a section that failed keeps what it showed.
\* When all fail, these and those left out (certificates, services, system),
\* an error panel takes the place of every page.  History: a load answered
\* before an update may put an older row back.
OnLoaded(r) ==
  /\ Settled(r)
  /\ wire' = wire \ {r}
  /\ LET failed == {s \in Sections : r.answer[s] = Lost}
         rs == IF "routes" \in failed THEN app.rs ELSE r.answer["routes"].resource
         records == IF "dns" \in failed THEN app.dnsRecords ELSE r.answer["dns"].resource
     IN IF r.n # app.load THEN UNCHANGED <<app, lagging>>
        ELSE /\ \E none \in {FALSE, failed = Sections} :
                  app' = [app EXCEPT !.loading = FALSE, !.loadError = none,
                                     !.rs = rs, !.dnsRecords = records]
             /\ lagging' = lagging \cup Older(rs)
  /\ UNCHANGED <<server, page, sent, edits, heard>>

Retry ==
  /\ ~Covered /\ app.loadError /\ app.load <= MaxSent
  /\ Sends(LoadRequest, Loads(app))

Recheck ==
  /\ Shown /\ app.detail # None /\ app.detail \in Offered("recheck") /\ app.checking = 0
  /\ sent < MaxSent
  /\ Sends(Request("recheck", app.detail.id, None, FALSE, {}, FALSE),
           [app EXCEPT !.checking = sent + 1])

\* Mutant of Patched: a checked route that is not in the list is added to it.
PatchedOrAdded(rs, r) ==
  IF \E i \in DOMAIN rs : rs[i].id = r.id
    THEN [i \in DOMAIN rs |-> IF rs[i].id = r.id THEN r ELSE rs[i]]
    ELSE Append(rs, r)

Patched(rs, r) == [i \in DOMAIN rs |-> IF rs[i].id = r.id THEN r ELSE rs[i]]

\* The checked route opens in Detail, wherever the operator is by now, and
\* replaces the row in the list.  History: it may be older than that row.
OnRechecked(r) ==
  /\ Handled(r) /\ r.kind = "recheck"
  /\ wire' = wire \ {r}
  /\ LET done == [app EXCEPT !.checking = IF @ = r.n THEN 0 ELSE @]
         a == r.answer.resource
     IN IF a = None THEN app' = done /\ UNCHANGED lagging
        ELSE /\ app' = [done EXCEPT !.detail = a, !.rs = Patched(@, a)]
             /\ lagging' = lagging \cup Older(Patched(app.rs, a))
  /\ UNCHANGED <<server, page, sent, edits, heard>>

-----------------------------------------------------------------------------
RoutesNetwork ==
  \E r \in wire : Serve(r) \/ OnSaved(r) \/ OnRemoved(r) \/ OnLoaded(r) \/ OnRechecked(r)

RoutesUser ==
  \/ \E r \in Rows : View(r)
  \/ Add \/ Save \/ CloseForm \/ Done \/ RemoveDns \/ Confirm \/ Cancel \/ Recheck
  \/ Retry
  \/ \E r \in Offered("edit") : Edit(r)
  \/ \E r \in Offered("delete") : Delete(r)
  \/ \E field \in Fields : \E x \in Typed[field] : Enter(field, x)
  \/ \E p \in Presets : Preset(p)

RoutesNext == RoutesNetwork \/ RoutesUser

-----------------------------------------------------------------------------
(* Properties.                                                             *)

\* An update writes every field.  When it changes one that the operator did
\* not touch in that form, another edit is undone unseen; the only ways to get
\* there are a form opened from a Detail that an edit has left behind, and a
\* row whose last update the console did not hear of, was told to forget, or
\* has been put back by a slower answer.
UndoneEditHasCause ==
  [][\A r \in wire : \A x \in RowsOf(server.rows, r.id) :
       r.kind = "update" /\ server'.rows # server.rows /\ r \notin wire' =>
         \A f \in Fields :
           Part(r.input, f) # Part(x.input, f) =>
             f \in r.touched \/ r.old \/ r.id \in lagging]_routeVars

\* External routes and records are read-only: no request names an external
\* route, and without a load the lists keep them as they are.
ExternalReadOnly ==
  [][LET external(s) == {x \in s : x.ownership = "external"} IN
     /\ \A r \in wire' \ wire : \A x \in RowsOf(server.rows, r.id) : x.ownership = "managed"
     /\ ~app.loading =>
          /\ external(Rows') = external(Rows)
          /\ external(app'.dnsRecords) = external(app.dnsRecords)]_routeVars

\* A route whose deletion the operator has been told of comes back to the list
\* in two ways only: by "Done" of a form that had sent its save before, or by a
\* load that was under way then.  A later save, load or recheck of whatever
\* copies are left does not bring it back.
ToldDeletedStaysGone ==
  [][\A id \in Ids :
       heard[id] > 0 /\ id \in {r.id : r \in Rows'} \ {r.id : r \in Rows} =>
         \/ /\ app.form.result # None /\ app.form.result.id = id
            /\ app.form.request \in 1..heard[id]
         \/ app.loading /\ app.load \in 1..heard[id]]_routeVars
=============================================================================
