------------------------------ MODULE Console -------------------------------
(***************************************************************************)
(* The single-page console in normal mode: the authentication gate and the *)
(* App it mounts (src/App.tsx), over the HTTP client (src/api.ts).         *)
(*                                                                         *)
(* A handler runs to completion, but every request it awaits is answered   *)
(* later, in any order, after whatever else the user did: closed the       *)
(* dialog, left the page, signed out.  What a continuation then touches is *)
(* decided here as React decides it: the state of a component that is gone *)
(* is not written, and a closure keeps the values it was created with.     *)
(*                                                                         *)
(* A route is its id and the server time of its last write; its fields,    *)
(* the records of the other sections and all wording are left out.  The    *)
(* modal overlay covers the page: nothing below it is clicked.             *)
(***************************************************************************)
EXTENDS Naturals, FiniteSets

CONSTANTS
  Ids,            \* opaque route ids the server can give
  Existing,       \* the ids of the routes there at first
  SeedId,         \* a route of the built-in mock data
  OtherSections,  \* what a load fetches beside the routes
  None,
  MaxSent,        \* bound: no user action sends once this many were sent
  MaxExpiries     \* bound: sessions that expire

ASSUME IdsAssumption == Existing \subseteq Ids /\ SeedId \notin Ids
ASSUME NoneAssumption == None \notin Ids /\ None # SeedId
ASSUME SectionsAssumption == "Routes" \notin OtherSections

VARIABLES
  server,   \* the backend and its store
  wire,     \* requests sent and not yet handled by the console
  sent,     \* requests sent so far
  gate,     \* state of AuthenticatedApp
  told,     \* message of AuthenticatedApp, or nothing
  busy,     \* Credentials waits for its answer
  mount,    \* Apps mounted so far; the last one is live while authenticated
  app,      \* state of the mounted App, None when there is none
  expiries

vars == <<server, wire, sent, gate, told, busy, mount, app, expiries>>

Sections == {"Routes"} \cup OtherSections

Route == [id : Ids \cup {SeedId}, at : Nat]
Seed == {[id |-> SeedId, at |-> 0]}

Mutations == {"create", "update", "remove"}
Private == Mutations \cup {"get", "recheck", "logout"}   \* request(...) notifies a 401
Public == {"status", "me", "setup", "login"}             \* request(..., false) does not

\* answer: what the server decided, None until it has.
Request(n, kind, id, section) ==
  [n |-> n, mount |-> mount, kind |-> kind, id |-> id, section |-> section,
   answer |-> None]

Answer(code, result, route, rows, at) ==
  [code |-> code, result |-> result, route |-> route, rows |-> rows, at |-> at]

Answers == [code : {"ok", "error", "unauthorized"},
            result : {"success", "partial_failure", "failed"},
            route : Route \cup {None}, rows : SUBSET Route, at : Nat]

Requests == [n : Nat, mount : Nat, kind : Private \cup Public,
             id : Ids \cup {SeedId, None}, section : Sections \cup {None},
             answer : Answers \cup {None}]

\* The five parallel fetches of a load are one number.
Load(n, m) ==
  {[n |-> n, mount |-> m, kind |-> "get", id |-> None, section |-> s,
    answer |-> None] : s \in Sections}

NoForm == [open |-> FALSE, route |-> None, op |-> "idle", since |-> 0, request |-> 0,
           result |-> None]

\* since: requests sent before the form was opened (history).
Forms == [open : BOOLEAN, route : Route \cup {None},
          op : {"idle", "submitting", "success", "partial_success", "error"},
          since : Nat, request : Nat, result : Route \cup {None}]

\* Mock data is the initial state of App even in normal mode.
Fresh(n, sure) ==
  [rows |-> Seed, mock |-> Sections, loading |-> TRUE, failed |-> FALSE,
   load |-> n, errors |-> {}, detail |-> None, checking |-> 0, form |-> NoForm,
   deleting |-> None, notice |-> None,
   at |-> 0, owed |-> 0, sure |-> sure]      \* history

Apps == [rows : SUBSET Route, mock : SUBSET Sections, loading : BOOLEAN,
         failed : BOOLEAN, load : Nat, errors : SUBSET Sections,
         detail : Route \cup {None}, checking : Nat, form : Forms,
         deleting : Route \cup {None},
         notice : {None, "success", "partial_failure", "failed"},
         at : Nat, owed : Nat, sure : BOOLEAN]

ASSUME NoRecordAssumption == None \notin Route /\ None \notin Answers /\ None \notin Apps

TypeOK ==
  /\ server \in [rows : SUBSET Route, gone : SUBSET Ids, time : Nat,
                 session : BOOLEAN, ready : BOOLEAN]
  /\ wire \subseteq Requests
  /\ sent \in Nat /\ mount \in Nat /\ expiries \in Nat
  /\ gate \in {"loading", "setup", "login", "authenticated"}
  /\ told \in {"nothing", "unreachable", "created", "expired", "signed_out"}
  /\ busy \in BOOLEAN
  /\ app \in Apps \cup {None}
  /\ gate = "authenticated" <=> app # None

Init ==
  /\ \E session, ready \in BOOLEAN :
       /\ session => ready
       /\ server = [rows |-> {[id |-> i, at |-> 1] : i \in Existing},
                    gone |-> {}, time |-> 1, session |-> session, ready |-> ready]
  /\ mount = 0
  /\ wire = {[n |-> 1, mount |-> 0, kind |-> "status", id |-> None,
              section |-> None, answer |-> None]}
  /\ sent = 1 /\ expiries = 0
  /\ gate = "loading" /\ told = "nothing" /\ busy = FALSE
  /\ app = None

-----------------------------------------------------------------------------
(* The server (external): one answer per request, decided when it gets to  *)
(* it.  An error may hide an effect: the answer can be lost on its way.    *)

Reply(r, answer) == wire' = (wire \ {r}) \cup {[r EXCEPT !.answer = answer]}

Ok(result, route) == Answer("ok", result, route, {}, server'.time)
Error == Answer("error", "failed", None, {}, server'.time)

RowOf(id) == {x \in server.rows : x.id = id}
FreeIds == Ids \ (server.gone \cup {x.id : x \in server.rows})

\* Nothing changes; the request is refused, or it fails.
ServeError(r) ==
  /\ UNCHANGED server
  /\ Reply(r, Error)

ServeUnauthorized(r) ==
  /\ r.kind \in Private \cup {"me"} /\ ~server.session
  /\ UNCHANGED server
  /\ Reply(r, Answer("unauthorized", "failed", None, {}, server.time))

ServeGet(r) ==
  /\ r.kind = "get" /\ server.session
  /\ UNCHANGED server
  /\ Reply(r, Answer("ok", "success", None,
                     IF r.section = "Routes" THEN server.rows ELSE {}, server.time))

\* A write of one row: what is answered is that row, or that it failed.
ServeWrite(r) ==
  /\ r.kind \in {"create", "update"} /\ server.session
  /\ \E id \in IF r.kind = "create" THEN FreeIds ELSE {x.id : x \in RowOf(r.id)} :
       LET row == [id |-> id, at |-> server.time + 1] IN
       /\ server' = [server EXCEPT !.time = @ + 1,
                                   !.rows = (@ \ RowOf(id)) \cup {row}]
       /\ \E a \in {Ok("success", row), Ok("partial_failure", row), Error} : Reply(r, a)

ServeRemove(r) ==
  /\ r.kind = "remove" /\ server.session /\ RowOf(r.id) # {}
  /\ server' = [server EXCEPT !.time = @ + 1, !.rows = @ \ RowOf(r.id),
                              !.gone = @ \cup {r.id}]
  /\ \E a \in {Ok("success", None), Ok("partial_failure", None), Error} : Reply(r, a)

\* Part of a deletion fails and the route is still there.
ServeRemovePartly(r) ==
  /\ r.kind = "remove" /\ server.session /\ RowOf(r.id) # {}
  /\ UNCHANGED server
  /\ Reply(r, Ok("partial_failure", None))

ServeRecheck(r) ==
  /\ r.kind = "recheck" /\ server.session
  /\ UNCHANGED server
  /\ \E row \in RowOf(r.id) : Reply(r, Ok("success", row))

ServeAuth(r) ==
  /\ r.kind \in Public \cup {"logout"}
  /\ r.kind = "me" => server.session
  /\ r.kind = "login" => server.ready
  /\ r.kind = "setup" => ~server.ready
  /\ server' = [server EXCEPT !.session = IF r.kind = "logout" THEN FALSE
                                          ELSE r.kind = "login" \/ @,
                              !.ready = @ \/ r.kind = "setup"]
  /\ Reply(r, Answer("ok", IF server.ready THEN "success" ELSE "failed", None, {},
                     server.time))

Serve(r) ==
  /\ r.answer = None
  /\ \/ ServeError(r) \/ ServeUnauthorized(r)
     \/ ServeGet(r) \/ ServeWrite(r) \/ ServeRemove(r) \/ ServeRemovePartly(r)
     \/ ServeRecheck(r) \/ ServeAuth(r)
  /\ UNCHANGED <<sent, gate, told, busy, mount, app, expiries>>

Expire ==
  /\ server.session /\ expiries < MaxExpiries
  /\ server' = [server EXCEPT !.session = FALSE]
  /\ expiries' = expiries + 1
  /\ UNCHANGED <<wire, sent, gate, told, busy, mount, app>>

-----------------------------------------------------------------------------
(* AuthenticatedApp: the gate.                                             *)

\* An answered request that is handled now; its promise settles once.
Handled(r) == r \in wire /\ r.answer # None

\* No mutation or check is under way but those of done.
QuietBut(done) ==
  \A r \in wire \ done : r.kind \notin Mutations \cup {"recheck"}

\* The gate opens: a new App, whose first effect loads everything.
Mount(r) ==
  /\ gate' = "authenticated"
  /\ mount' = mount + 1
  /\ sent' = sent + 1
  /\ app' = Fresh(sent + 1, QuietBut({}))
  /\ wire' = (wire \ {r}) \cup Load(sent + 1, mount + 1)

\* Any other state of the gate has no App under it.
Close(state, message) ==
  /\ gate' = state /\ told' = message
  /\ app' = None
  /\ UNCHANGED mount

OnStatus(r) ==
  /\ Handled(r) /\ r.kind = "status"
  /\ \/ /\ r.answer.code # "ok"
        /\ told' = "unreachable"
        /\ wire' = wire \ {r}
        /\ UNCHANGED <<gate, sent>>
     \/ /\ r.answer.code = "ok" /\ r.answer.result # "success"
        /\ gate' = "setup"
        /\ wire' = wire \ {r}
        /\ UNCHANGED <<told, sent>>
     \/ /\ r.answer.code = "ok" /\ r.answer.result = "success"
        /\ sent' = sent + 1
        /\ wire' = (wire \ {r}) \cup {Request(sent + 1, "me", None, None)}
        /\ UNCHANGED <<gate, told>>
  /\ UNCHANGED <<server, busy, mount, app, expiries>>

OnMe(r) ==
  /\ Handled(r) /\ r.kind = "me"
  /\ IF r.answer.code = "ok"
       THEN Mount(r) /\ UNCHANGED told
       ELSE /\ gate' = "login"
            /\ wire' = wire \ {r}
            /\ UNCHANGED <<told, sent, mount, app>>
  /\ UNCHANGED <<server, busy, expiries>>

\* The Credentials form is submitted; its button is disabled meanwhile.
SubmitCredentials ==
  /\ gate \in {"setup", "login"} /\ ~busy /\ sent < MaxSent
  /\ busy' = TRUE /\ sent' = sent + 1
  /\ wire' = wire \cup {Request(sent + 1, gate, None, None)}
  /\ UNCHANGED <<server, gate, told, mount, app, expiries>>

\* Mutant of OnCredentials: the button stays disabled after a refusal.
OnCredentialsNoFinally(r) ==
  /\ Handled(r) /\ r.kind \in {"setup", "login"}
  /\ \/ /\ r.answer.code = "ok" /\ r.kind = "setup"
        /\ Close("login", "created") /\ busy' = FALSE
        /\ wire' = wire \ {r} /\ UNCHANGED sent
     \/ /\ r.answer.code = "ok" /\ r.kind = "login"
        /\ Mount(r) /\ told' = "nothing" /\ busy' = FALSE
     \/ /\ r.answer.code # "ok"
        /\ wire' = wire \ {r}
        /\ UNCHANGED <<gate, told, sent, mount, app, busy>>
  /\ UNCHANGED <<server, expiries>>

\* onSuccess of the two forms, or the error under the form.
OnCredentials(r) ==
  /\ Handled(r) /\ r.kind \in {"setup", "login"}
  /\ busy' = FALSE
  /\ \/ /\ r.answer.code = "ok" /\ r.kind = "setup"
        /\ Close("login", "created")
        /\ wire' = wire \ {r} /\ UNCHANGED sent
     \/ /\ r.answer.code = "ok" /\ r.kind = "login"
        /\ Mount(r) /\ told' = "nothing"
     \/ /\ r.answer.code # "ok"
        /\ wire' = wire \ {r}
        /\ UNCHANGED <<gate, told, sent, mount, app>>
  /\ UNCHANGED <<server, expiries>>

\* Any private request answered 401, whenever it was sent, calls the handler
\* of onUnauthorized before its own promise rejects.  Log out ends there too.
OnUnauthorized(r) ==
  /\ Handled(r) /\ r.kind \in Private \ {"logout"} /\ r.answer.code = "unauthorized"
  /\ Close("login", "expired")
  /\ wire' = wire \ {r}
  /\ UNCHANGED <<server, sent, busy, expiries>>

\* The page can be clicked: content is shown and no overlay covers it.
Uncovered == gate = "authenticated" /\ ~app.form.open /\ app.deleting = None
Shown == Uncovered /\ ~app.loading /\ ~app.failed

Logout ==
  /\ Uncovered /\ sent < MaxSent
  /\ sent' = sent + 1
  /\ wire' = wire \cup {Request(sent + 1, "logout", None, None)}
  /\ UNCHANGED <<server, gate, told, busy, mount, app, expiries>>

\* The finally block: whatever the answer was.
OnLogout(r) ==
  /\ Handled(r) /\ r.kind = "logout"
  /\ Close("login", "signed_out")
  /\ wire' = wire \ {r}
  /\ UNCHANGED <<server, sent, busy, expiries>>

-----------------------------------------------------------------------------
(* App: loading.                                                           *)

Live(r) == gate = "authenticated" /\ r.mount = mount

\* An answer for an App that is gone: every setState is ignored.
OnGone(r) ==
  /\ Handled(r) /\ r.kind \in Mutations \cup {"get", "recheck"}
  /\ r.answer.code # "unauthorized" /\ ~Live(r)
  /\ wire' = wire \ {r}
  /\ UNCHANGED <<server, sent, gate, told, busy, mount, app, expiries>>

\* setReload(x => x + 1): the effect runs again, the old run is cancelled,
\* and the skeleton takes the place of Detail, whose own state is lost.
Reloaded(a, n, sure) ==
  [a EXCEPT !.load = n, !.loading = TRUE, !.failed = FALSE, !.errors = {},
            !.checking = 0, !.sure = sure /\ ~a.form.open]

\* Mutant of Active: a cancelled run of the effect still writes.
ActiveAlways(n) == TRUE

\* Which of the loads that ended is the App's own: its active flag is set.
Active(n) == n = app.load

\* Promise.allSettled of one run of the effect.
Settle(n) ==
  LET run == {r \in wire : r.kind = "get" /\ r.n = n}
      good == {r \in run : r.answer.code = "ok"}
      loaded == {r.section : r \in good}
      fresh == {r \in good : r.section = "Routes"}
  IN
  /\ {r.section : r \in run} = Sections
  /\ \A r \in run : Handled(r) /\ Live(r) /\ r.answer.code # "unauthorized"
  /\ wire' = wire \ run
  /\ app' = IF ~Active(n) THEN app ELSE
       [app EXCEPT
          !.loading = FALSE,
          !.errors = Sections \ loaded,
          !.failed = loaded = {},
          !.mock = @ \ loaded,
          !.rows = IF fresh = {} THEN @ ELSE UNION {r.answer.rows : r \in fresh},
          !.at = IF fresh = {} THEN @ ELSE (CHOOSE r \in fresh : TRUE).answer.at,
          !.sure = @ /\ fresh # {}]
  /\ UNCHANGED <<server, sent, gate, told, busy, mount, expiries>>

Retry ==
  /\ Uncovered /\ ~app.loading /\ app.failed /\ sent < MaxSent
  /\ sent' = sent + 1
  /\ app' = Reloaded(app, sent + 1, QuietBut({}))
  /\ wire' = wire \cup Load(sent + 1, mount)
  /\ UNCHANGED <<server, gate, told, busy, mount, expiries>>

-----------------------------------------------------------------------------
(* App: pages, detail, the route form and the delete dialog.               *)

Sets(new) ==
  /\ app' = new
  /\ UNCHANGED <<server, wire, sent, gate, told, busy, mount, expiries>>

\* go(page); Detail is unmounted.
Go == Uncovered /\ app.detail # None
      /\ Sets([app EXCEPT !.detail = None, !.checking = 0])

View(row) == Shown /\ app.detail = None /\ Sets([app EXCEPT !.detail = row])

\* The route a page button acts on: a listed one, or the copy in Detail.
Clickable == IF app.detail = None THEN app.rows ELSE {app.detail}

OpenForm(route) ==
  Shown /\ Sets([app EXCEPT !.form = [NoForm EXCEPT
    !.open = TRUE, !.route = route, !.since = sent + 1]])

Add == Shown /\ app.detail = None /\ OpenForm(None)
Edit(route) == route \in Clickable /\ OpenForm(route)

Delete(route) ==
  /\ Shown /\ route \in Clickable
  /\ Sets([app EXCEPT !.deleting = route])

\* A request of the live App goes out; history: it overlaps another one.
Sends(kind, id, new) ==
  /\ sent < MaxSent
  /\ sent' = sent + 1
  /\ wire' = wire \cup {Request(sent + 1, kind, id, None)}
  /\ app' = [new EXCEPT !.sure = @ /\ QuietBut({}) /\ ~app.loading]
  /\ UNCHANGED <<server, gate, told, busy, mount, expiries>>

\* Mutant of Save: the button is not disabled while submitting.
SaveAgain ==
  /\ gate = "authenticated" /\ app.form.open
  /\ app.form.op \in {"idle", "submitting", "error"}
  /\ LET kind == IF app.form.route = None THEN "create" ELSE "update"
         id == IF app.form.route = None THEN None ELSE app.form.route.id
     IN Sends(kind, id, [app EXCEPT !.form.op = "submitting",
                                    !.form.request = sent + 1])

\* submit(): the button is disabled while an operation is under way.
Save ==
  /\ gate = "authenticated" /\ app.form.open /\ app.form.op \in {"idle", "error"}
  /\ LET kind == IF app.form.route = None THEN "create" ELSE "update"
         id == IF app.form.route = None THEN None ELSE app.form.route.id
     IN Sends(kind, id, [app EXCEPT !.form.op = "submitting",
                                    !.form.request = sent + 1])

\* Mutant of Outcome: the server's word is stored as it comes.
OutcomeRaw(a) == a.result

\* What the form shows of an operation's answer.
Outcome(a) ==
  IF a.route = None THEN "error"
  ELSE IF a.result = "success" THEN "success" ELSE "partial_success"

\* The answer of create or update: it shows in the form that sent it, if it
\* is still there.
OnSaved(r) ==
  /\ Handled(r) /\ r.kind \in {"create", "update"} /\ Live(r)
  /\ r.answer.code # "unauthorized"
  /\ wire' = wire \ {r}
  /\ LET mine == app.form.open /\ app.form.request = r.n
         a == r.answer
     IN app' = IF mine
          THEN [app EXCEPT !.form.op = Outcome(a),
                           !.form.result = IF a.route # None THEN a.route ELSE @,
                           !.sure = @ /\ a.code = "ok"]
          ELSE [app EXCEPT !.sure = FALSE]
  /\ UNCHANGED <<server, sent, gate, told, busy, mount, expiries>>

\* Cancel or Escape; history: an operation that is forgotten is not sure.
CloseForm ==
  /\ gate = "authenticated" /\ app.form.open
  /\ Sets([app EXCEPT !.form = NoForm,
                      !.sure = @ /\ app.form.op \in {"idle", "error"}])

\* Mutant of Saved: an updated route is listed beside its old self.
SavedBeside(rows, row) == rows \cup {row}

Saved(rows, row) == {x \in rows : x.id # row.id} \cup {row}

\* Done, or View Proxy: save(apiResult).
Done ==
  /\ gate = "authenticated" /\ app.form.open
  /\ app.form.op \in {"success", "partial_success"}
  /\ Sets([app EXCEPT !.rows = Saved(@, app.form.result), !.form = NoForm])

\* "Delete route": nothing disables the button while it waits.
Confirm ==
  /\ gate = "authenticated" /\ app.deleting # None
  /\ Sends("remove", app.deleting.id, app)

Cancel ==
  /\ gate = "authenticated" /\ app.deleting # None
  /\ Sets([app EXCEPT !.deleting = None])

Removed(rows, id) == {x \in rows : x.id # id}

\* Mutant of OnRemoved: every answered deletion drops the row.
OnRemovedOptimistic(r) ==
  /\ Handled(r) /\ r.kind = "remove" /\ Live(r) /\ r.answer.code # "unauthorized"
  /\ app' = [app EXCEPT !.notice = r.answer.result, !.deleting = None,
                       !.rows = Removed(@, r.id)]
  /\ wire' = wire \ {r}
  /\ UNCHANGED <<server, sent, gate, told, busy, mount, expiries>>

\* yes(): a rejected call is a notice; anything but success loads again;
\* success drops the row.  Each closes whichever dialog is open by then.
OnRemoved(r) ==
  /\ Handled(r) /\ r.kind = "remove" /\ Live(r) /\ r.answer.code # "unauthorized"
  /\ \/ /\ r.answer.code = "error"
        /\ app' = [app EXCEPT !.notice = "failed", !.deleting = None, !.sure = FALSE]
        /\ wire' = wire \ {r} /\ UNCHANGED sent
     \/ /\ r.answer.code = "ok" /\ r.answer.result # "success"
        /\ app' = [Reloaded(app, sent + 1, QuietBut({r})) EXCEPT
                     !.notice = r.answer.result, !.deleting = None,
                     !.owed = r.answer.at]
        /\ sent' = sent + 1
        /\ wire' = (wire \ {r}) \cup Load(sent + 1, mount)
     \/ /\ r.answer.code = "ok" /\ r.answer.result = "success"
        /\ app' = [app EXCEPT !.notice = "success", !.deleting = None,
                             !.rows = Removed(@, r.id)]
        /\ wire' = wire \ {r} /\ UNCHANGED sent
  /\ UNCHANGED <<server, gate, told, busy, mount, expiries>>

\* Detail's button, disabled while it waits.
Recheck ==
  /\ Shown /\ app.detail # None /\ app.checking = 0
  /\ Sends("recheck", app.detail.id, [app EXCEPT !.checking = sent + 1])

Rechecked(rows, row) == {IF x.id = row.id THEN row ELSE x : x \in rows}

\* The checked route is shown in Detail, on whatever page the user is now.
OnRechecked(r) ==
  /\ Handled(r) /\ r.kind = "recheck" /\ Live(r) /\ r.answer.code # "unauthorized"
  /\ wire' = wire \ {r}
  /\ LET done == [app EXCEPT !.checking = IF @ = r.n THEN 0 ELSE @] IN
     app' = IF r.answer.route = None THEN done
            ELSE [done EXCEPT !.detail = r.answer.route,
                              !.rows = Rechecked(@, r.answer.route)]
  /\ UNCHANGED <<server, sent, gate, told, busy, mount, expiries>>

-----------------------------------------------------------------------------
Deliver(r) ==
  \/ OnStatus(r) \/ OnMe(r) \/ OnCredentials(r) \/ OnUnauthorized(r)
  \/ OnLogout(r) \/ OnGone(r) \/ OnSaved(r) \/ OnRemoved(r) \/ OnRechecked(r)

Loads == {r.n : r \in {q \in wire : q.kind = "get"}}

Network ==
  \/ \E r \in wire : Serve(r) \/ Deliver(r)
  \/ \E n \in Loads : Settle(n)

User ==
  \/ SubmitCredentials \/ Logout \/ Retry
  \/ Go \/ Add \/ Save \/ CloseForm \/ Done \/ Confirm \/ Cancel \/ Recheck
  \/ gate = "authenticated" /\ \E row \in app.rows : View(row)
  \/ gate = "authenticated" /\ \E row \in Clickable : Edit(row) \/ Delete(row)

Next == Network \/ User \/ Expire

Spec == Init /\ [][Next]_vars

\* Every request is answered, or fails, and its continuation runs: there is
\* nothing the user has to do for that.
FairSpec == Spec /\ WF_vars(Network)

-----------------------------------------------------------------------------
(* Properties.                                                             *)

\* Once a deletion that went wrong in part has been reloaded, the routes on
\* screen are as the server had them after that deletion, however many loads
\* it overtook.
PartialDeleteReconciled ==
  app # None => (app.loading \/ app.errors # {} \/ app.at >= app.owed)

\* One open form has at most one operation under way: no double create.
OneOperationPerForm ==
  app # None => \A r \in wire :
    (r.kind \in {"create", "update"} /\ r.mount = mount /\ app.form.open
       /\ r.n >= app.form.since) => r.n = app.form.request

\* A row that leaves the list otherwise than by a load is a route that the
\* server has deleted.
RowLeavesOnlyIfGone ==
  [][(app # None /\ app' # None /\ mount' = mount /\ ~app.loading)
       => LET left == {x.id : x \in app.rows} \ {x.id : x \in app'.rows}
          IN left \subseteq server.gone]_vars

\* As long as no two requests overlapped and no answer was lost, refused or
\* dismissed since the last load, the list is the server's.
QuietListIsCurrent ==
  (app # None /\ app.sure /\ ~app.loading /\ ~app.form.open /\ QuietBut({}))
    => app.rows = server.rows

\* What is under way ends: the gate's check, the skeleton, the form's and the
\* dialog's operation, the check and the disabled buttons.
NothingHangs ==
  /\ gate = "loading" ~> (gate # "loading" \/ told = "unreachable")
  /\ busy ~> ~busy
  /\ (app # None /\ app.loading) ~> (app = None \/ ~app.loading)
  /\ (app # None /\ app.form.op = "submitting")
       ~> (app = None \/ app.form.op # "submitting")
  /\ (app # None /\ app.checking # 0) ~> (app = None \/ app.checking = 0)

\* data.ts: "Normal mode always uses HTTP and never falls back."  No section
\* on screen is the built-in mock data.
NeverFallsBack ==
  (app # None /\ ~app.loading /\ ~app.failed) => app.mock = {}

=============================================================================
