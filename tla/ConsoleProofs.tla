----------------------------- MODULE ConsoleProofs -----------------------------
(***************************************************************************)
(* Proofs about Console, for any routes, sections and number of requests.  *)
(*                                                                         *)
(* What makes the console right is how its state relates to what is still  *)
(* on the wire: which request an open form waits for, which load is the    *)
(* App's own, what an answer that nobody has read yet says of the server.  *)
(***************************************************************************)
EXTENDS Console, TLAPS

Servers == [rows : SUBSET Route, gone : SUBSET Ids, time : Nat,
            session : BOOLEAN, ready : BOOLEAN]

\* The server keeps its own routes, one per id.
RealRows ==
  /\ \A x \in server.rows : x.id \in Ids
  /\ \A x, y \in server.rows : x.id = y.id => x = y

\* A request has a number of its own, except for the fetches of one load.
Numbered ==
  /\ \A r \in wire : r.n <= sent /\ r.mount <= mount
  /\ \A r, q \in wire : r.n = q.n /\ r.kind # "get" => r = q

\* Until the gate has been decided, its request is the only one.
Opening ==
  \A r \in wire : r.kind \in {"status", "me"} => gate = "loading" /\ wire = {r}

\* A form that shows an operation's outcome has the route it is about.
Outcomed(a) == a.form.op \in {"success", "partial_success"} => a.form.result # None

Typed == TypeOK /\ RealRows /\ Numbered /\ (app # None => Outcomed(app))

-----------------------------------------------------------------------------
(* The server.                                                             *)

\* A request r is answered with a; what the answer says of the server.
Served(r, a) ==
  /\ r \in wire /\ r.answer = None /\ a \in Answers
  /\ wire' = (wire \ {r}) \cup {[r EXCEPT !.answer = a]}
  /\ server' \in Servers /\ RealRows'
  /\ a.at = server'.time /\ server.time <= server'.time
  /\ server.gone \subseteq server'.gone
  /\ r.kind \notin Mutations => server'.rows = server.rows
  /\ r.kind = "get" /\ r.section = "Routes" /\ a.code = "ok" => a.rows = server.rows
  /\ r.kind = "recheck" /\ a.route # None => a.route \in RowOf(r.id)
  /\ r.kind = "remove" /\ a.code = "ok" /\ a.result = "success"
       => r.id \in server'.gone /\ server'.rows = Removed(server.rows, r.id)
  /\ r.kind \in {"create", "update"} /\ a.code = "ok"
       => a.route # None /\ server'.rows = Saved(server.rows, a.route)
  /\ UNCHANGED <<sent, gate, told, busy, mount, app, expiries>>

LEMMA AnswerType ==
  ASSUME NEW code \in {"ok", "error", "unauthorized"},
         NEW result \in {"success", "partial_failure", "failed"},
         NEW route \in Route \cup {None}, NEW rows \in SUBSET Route, NEW at \in Nat
  PROVE  Answer(code, result, route, rows, at) \in Answers
BY DEF Answer, Answers

\* The kinds of request are all different.
LEMMA Kinds ==
  /\ "get" \notin Mutations /\ "recheck" \notin Mutations /\ "logout" \notin Mutations
  /\ "create" \in Mutations /\ "update" \in Mutations /\ "remove" \in Mutations
  /\ \A k \in Public \cup {"logout"} : k \notin Mutations /\ k # "get" /\ k # "recheck"
BY DEF Mutations, Public

\* An answer that changes nothing, and says nothing.
LEMMA ServeNothing ==
  ASSUME Typed, NEW r \in wire, r.answer = None, UNCHANGED server,
         NEW code \in {"ok", "error", "unauthorized"},
         NEW result \in {"success", "partial_failure", "failed"},
         code = "ok" => r.kind \in Public \cup {"logout"}
                        \/ (r.kind = "remove" /\ result # "success"),
         Reply(r, Answer(code, result, None, {}, server'.time)),
         UNCHANGED <<sent, gate, told, busy, mount, app, expiries>>
  PROVE  Served(r, Answer(code, result, None, {}, server'.time))
<1> DEFINE a == Answer(code, result, None, {}, server'.time)
<1>1. server \in Servers /\ server'.time \in Nat
  BY DEF Typed, TypeOK, Servers
<1>2. a \in Answers
  BY <1>1, AnswerType
<1>3. /\ a.code = code /\ a.result = result /\ a.route = None /\ a.at = server'.time
  BY DEF Answer
<1>4. /\ server' = server /\ server.time <= server'.time /\ RealRows'
  BY <1>1 DEF Typed, RealRows
<1>5. /\ ~(r.kind = "get" /\ a.code = "ok")
      /\ ~(r.kind = "remove" /\ a.code = "ok" /\ a.result = "success")
      /\ ~(r.kind \in {"create", "update"} /\ a.code = "ok")
  BY <1>3, Kinds
<1>6. wire' = (wire \ {r}) \cup {[r EXCEPT !.answer = a]}
  BY DEF Reply
<1> HIDE DEF a
<1> QED BY <1>1, <1>2, <1>3, <1>4, <1>5, <1>6 DEF Served, a

LEMMA ServeShape ==
  ASSUME Typed, NEW r \in wire, Serve(r)
  PROVE  \E a \in Answers : Served(r, a)
<1>1. /\ r.answer = None /\ server \in Servers
      /\ UNCHANGED <<sent, gate, told, busy, mount, app, expiries>>
  BY DEF Serve, Typed, TypeOK, Servers
<1>2. r \in Requests
  BY DEF Typed, TypeOK
<1>a. ASSUME NEW a \in Answers, Served(r, a) PROVE \E b \in Answers : Served(r, b)
  BY <1>a
<1>3. CASE ServeError(r)
  <2>1. Reply(r, Answer("error", "failed", None, {}, server'.time)) /\ UNCHANGED server
    BY <1>3 DEF ServeError, Error
  <2>2. Served(r, Answer("error", "failed", None, {}, server'.time))
    BY <1>1, <2>1, ServeNothing
  <2>3. QED BY <2>2 DEF Served
<1>4. CASE ServeUnauthorized(r)
  <2>1. /\ Reply(r, Answer("unauthorized", "failed", None, {}, server'.time))
        /\ UNCHANGED server
    BY <1>4 DEF ServeUnauthorized
  <2>2. Served(r, Answer("unauthorized", "failed", None, {}, server'.time))
    BY <1>1, <2>1, ServeNothing
  <2>3. QED BY <2>2 DEF Served
<1>5. CASE ServeGet(r)
  <2> DEFINE rows == IF r.section = "Routes" THEN server.rows ELSE {}
             a == Answer("ok", "success", None, rows, server.time)
  <2>1. a \in Answers
    BY <1>1, AnswerType DEF Servers
  <2>2. a.at = server.time /\ a.rows = rows /\ a.route = None
    BY DEF Answer
  <2>3. /\ server' = server /\ RealRows' /\ server.time <= server'.time
    BY <1>1, <1>5 DEF ServeGet, Typed, RealRows, Servers
  <2>4. wire' = (wire \ {r}) \cup {[r EXCEPT !.answer = a]} /\ r.kind = "get"
    BY <1>5 DEF ServeGet, Reply
  <2> HIDE DEF a
  <2>5. Served(r, a)
    BY <1>1, <2>1, <2>2, <2>3, <2>4, Kinds DEF Served
  <2> QED BY <2>1, <2>5
<1>6. CASE ServeWrite(r)
  <2>1. PICK id \in IF r.kind = "create" THEN FreeIds ELSE {x.id : x \in RowOf(r.id)} :
          LET row == [id |-> id, at |-> server.time + 1] IN
          /\ server' = [server EXCEPT !.time = @ + 1,
                                      !.rows = (@ \ RowOf(id)) \cup {row}]
          /\ \E a \in {Ok("success", row), Ok("partial_failure", row), Error} : Reply(r, a)
    BY <1>6 DEF ServeWrite
  <2> DEFINE row == [id |-> id, at |-> server.time + 1]
  <2>2. id \in Ids
    BY <1>1, <2>1 DEF FreeIds, RowOf, Typed, RealRows
  <2>3. row \in Route /\ row.id = id /\ row # None
    BY <1>1, <2>2, NoRecordAssumption DEF Route, Servers
  <2>4. /\ server'.time = server.time + 1 /\ server'.gone = server.gone
        /\ server'.rows = (server.rows \ RowOf(id)) \cup {row}
        /\ server' \in Servers
    <3> DEFINE rows == (server.rows \ RowOf(id)) \cup {row}
    <3>1. rows \in SUBSET Route /\ server.time + 1 \in Nat
      BY <1>1, <2>3 DEF Servers
    <3>2. server' = [server EXCEPT !.time = server.time + 1, !.rows = rows]
      BY <2>1
    <3> HIDE DEF rows
    <3>3. /\ server'.time = server.time + 1 /\ server'.gone = server.gone
          /\ server'.rows = rows /\ server' \in Servers
      BY <1>1, <3>1, <3>2 DEF Servers
    <3> QED BY <3>3 DEF rows
  <2>5. server'.rows = Saved(server.rows, row)
    BY <2>3, <2>4 DEF Saved, RowOf
  <2>6. RealRows'
    BY <2>2, <2>3, <2>4 DEF Typed, RealRows, RowOf
  <2>7. PICK a \in {Ok("success", row), Ok("partial_failure", row), Error} : Reply(r, a)
    BY <2>1
  <2>8. server'.time \in Nat /\ server.time <= server'.time
    BY <1>1, <2>4 DEF Servers
  <2>9. /\ a \in Answers /\ a.at = server'.time
        /\ a.code = "ok" => a.route = row
    <3>1. /\ Ok("success", row) \in Answers /\ Ok("partial_failure", row) \in Answers
          /\ Error \in Answers
      BY <2>3, <2>8, AnswerType DEF Ok, Error
    <3>2. QED BY <2>7, <3>1 DEF Ok, Error, Answer
  <2>10. r.kind \in {"create", "update"} /\ wire' = (wire \ {r}) \cup {[r EXCEPT !.answer = a]}
    BY <1>6, <2>7 DEF ServeWrite, Reply
  <2> HIDE DEF row
  <2>11. Served(r, a)
    BY <1>1, <2>3, <2>4, <2>5, <2>6, <2>8, <2>9, <2>10, Kinds DEF Served
  <2> QED BY <2>9, <2>11
<1>7. CASE ServeRemove(r)
  <2>1. PICK a \in {Ok("success", None), Ok("partial_failure", None), Error} : Reply(r, a)
    BY <1>7 DEF ServeRemove
  <2>2. r.id \in Ids
    BY <1>7 DEF ServeRemove, RowOf, Typed, RealRows
  <2>3. /\ server'.time = server.time + 1 /\ server'.gone = server.gone \cup {r.id}
        /\ server'.rows = server.rows \ RowOf(r.id)
        /\ server' \in Servers
    <3> DEFINE rows == server.rows \ RowOf(r.id)
               gone == server.gone \cup {r.id}
    <3>1. rows \in SUBSET Route /\ gone \in SUBSET Ids /\ server.time + 1 \in Nat
      BY <1>1, <2>2 DEF Servers
    <3>2. server' = [server EXCEPT !.time = server.time + 1, !.rows = rows, !.gone = gone]
      BY <1>7 DEF ServeRemove
    <3> HIDE DEF rows, gone
    <3>3. /\ server'.time = server.time + 1 /\ server'.gone = gone
          /\ server'.rows = rows /\ server' \in Servers
      BY <1>1, <3>1, <3>2 DEF Servers
    <3> QED BY <3>3 DEF rows, gone
  <2>4. server'.rows = Removed(server.rows, r.id)
    BY <2>3 DEF Removed, RowOf
  <2>5. RealRows'
    BY <2>3 DEF Typed, RealRows
  <2>6. server'.time \in Nat /\ server.time <= server'.time
    BY <1>1, <2>3 DEF Servers
  <2>7. /\ a \in Answers /\ a.at = server'.time
    <3>1. /\ Ok("success", None) \in Answers /\ Ok("partial_failure", None) \in Answers
          /\ Error \in Answers
      BY <2>6, AnswerType DEF Ok, Error
    <3>2. QED BY <2>1, <3>1 DEF Ok, Error, Answer
  <2>8. r.kind = "remove" /\ wire' = (wire \ {r}) \cup {[r EXCEPT !.answer = a]}
    BY <1>7, <2>1 DEF ServeRemove, Reply
  <2>9. Served(r, a)
    BY <1>1, <2>3, <2>4, <2>5, <2>6, <2>7, <2>8, Kinds DEF Served
  <2> QED BY <2>7, <2>9
<1>8. CASE ServeRemovePartly(r)
  <2>1. /\ Reply(r, Answer("ok", "partial_failure", None, {}, server'.time))
        /\ UNCHANGED server /\ r.kind = "remove"
    BY <1>8 DEF ServeRemovePartly, Ok
  <2>2. Served(r, Answer("ok", "partial_failure", None, {}, server'.time))
    BY <1>1, <2>1, ServeNothing
  <2>3. QED BY <2>2 DEF Served
<1>9. CASE ServeRecheck(r)
  <2>1. PICK row \in RowOf(r.id) : Reply(r, Ok("success", row))
    BY <1>9 DEF ServeRecheck
  <2> DEFINE a == Answer("ok", "success", row, {}, server'.time)
  <2>2. server' = server /\ r.kind = "recheck"
    BY <1>9 DEF ServeRecheck
  <2>3. a \in Answers
    BY <1>1, <2>2, AnswerType DEF Servers, RowOf
  <2>4. a.at = server'.time /\ a.route = row
    BY DEF Answer
  <2>5. RealRows' /\ server.time <= server'.time
    BY <1>1, <2>2 DEF Typed, RealRows, Servers
  <2>6. wire' = (wire \ {r}) \cup {[r EXCEPT !.answer = a]}
    BY <2>1 DEF Reply, Ok
  <2> HIDE DEF a
  <2>7. Served(r, a)
    BY <1>1, <2>2, <2>3, <2>4, <2>5, <2>6, Kinds DEF Served
  <2> QED BY <2>3, <2>7
<1>10. CASE ServeAuth(r)
  <2> DEFINE result == IF server.ready THEN "success" ELSE "failed"
             a == Answer("ok", result, None, {}, server.time)
  <2>1. r.kind \in Public \cup {"logout"}
    BY <1>10 DEF ServeAuth
  <2>2. /\ server'.rows = server.rows /\ server'.gone = server.gone
        /\ server'.time = server.time /\ server' \in Servers
    BY <1>1, <1>10 DEF ServeAuth, Servers
  <2>3. a \in Answers
    BY <1>1, AnswerType DEF Servers
  <2>4. a.at = server.time
    BY DEF Answer
  <2>5. RealRows' /\ server.time <= server'.time
    BY <1>1, <2>2 DEF Typed, RealRows, Servers
  <2>6. wire' = (wire \ {r}) \cup {[r EXCEPT !.answer = a]}
    BY <1>10 DEF ServeAuth, Reply
  <2>7. r.kind # "get" /\ r.kind # "recheck" /\ r.kind \notin Mutations
    BY <2>1, Kinds
  <2> HIDE DEF a
  <2>8. Served(r, a)
    BY <1>1, <2>2, <2>3, <2>4, <2>5, <2>6, <2>7, Kinds DEF Served
  <2> QED BY <2>3, <2>8
<1> QED BY <1>3, <1>4, <1>5, <1>6, <1>7, <1>8, <1>9, <1>10 DEF Serve

-----------------------------------------------------------------------------
(* Types.                                                                  *)

LEMMA LoadShape ==
  ASSUME NEW n \in Nat, NEW m \in Nat
  PROVE  /\ Load(n, m) \subseteq Requests
         /\ \A r \in Load(n, m) : /\ r.n = n /\ r.mount = m /\ r.kind = "get"
                                  /\ r.answer = None
BY DEF Load, Requests, Private

LEMMA RequestShape ==
  ASSUME Typed, NEW n \in Nat, NEW kind \in Private \cup Public,
         NEW id \in Ids \cup {SeedId, None}
  PROVE  /\ Request(n, kind, id, None) \in Requests
         /\ Request(n, kind, id, None).n = n
         /\ Request(n, kind, id, None).mount = mount
         /\ Request(n, kind, id, None).kind = kind
         /\ Request(n, kind, id, None).id = id
         /\ Request(n, kind, id, None).answer = None
BY DEF Request, Requests, Typed, TypeOK

\* Requests leave the wire and no other comes.
LEMMA WireShrinks ==
  ASSUME Typed, NEW done, wire' = wire \ done, UNCHANGED <<server, sent, mount>>
  PROVE  wire' \subseteq Requests /\ RealRows' /\ Numbered'
BY DEF Typed, TypeOK, RealRows, Numbered

\* The next request, or the next load, goes out.
LEMMA WireGrows ==
  ASSUME Typed, NEW done, NEW new \in SUBSET Requests, wire' = (wire \ done) \cup new,
         UNCHANGED server, sent' = sent + 1,
         mount' = mount \/ mount' = mount + 1,
         \A r \in new : r.n = sent + 1 /\ r.mount <= mount',
         \A r, q \in new : r.kind # "get" => r = q
  PROVE  wire' \subseteq Requests /\ RealRows' /\ Numbered'
<1>1. wire \subseteq Requests /\ sent \in Nat /\ mount \in Nat
  BY DEF Typed, TypeOK
<1>2. \A r \in wire : r.n \in Nat /\ r.mount \in Nat /\ r.n # sent + 1
  BY <1>1 DEF Typed, Numbered, Requests
<1>3. \A r \in wire' : r.n <= sent' /\ r.mount <= mount'
  BY <1>1, <1>2 DEF Typed, Numbered
<1>4. \A r, q \in wire' : r.n = q.n /\ r.kind # "get" => r = q
  BY <1>1, <1>2 DEF Typed, Numbered
<1> QED BY <1>1, <1>3, <1>4 DEF Typed, RealRows, Numbered

LEMMA FormType ==
  ASSUME NEW route \in Route \cup {None}, NEW n \in Nat
  PROVE  /\ NoForm \in Forms
         /\ [NoForm EXCEPT !.open = TRUE, !.route = route, !.since = n] \in Forms
BY DEF NoForm, Forms

LEMMA FreshType ==
  ASSUME NEW n \in Nat, NEW sure \in BOOLEAN
  PROVE  Fresh(n, sure) \in Apps
<1>1. Seed \in SUBSET Route
  BY DEF Seed, Route
<1>2. NoForm \in Forms
  BY DEF NoForm, Forms
<1>3. QED
  BY <1>1, <1>2 DEF Fresh, Apps

LEMMA ReloadedType ==
  ASSUME NEW a \in Apps, NEW n \in Nat, NEW sure \in BOOLEAN
  PROVE  Reloaded(a, n, sure) \in Apps
<1>1. a.form.open \in BOOLEAN /\ (sure /\ ~a.form.open) \in BOOLEAN
  BY DEF Apps, Forms
<1>2. QED
  BY <1>1 DEF Reloaded, Apps

\* The App is mounted exactly while the gate is open.
LEMMA AppType ==
  ASSUME Typed, gate = "authenticated"
  PROVE  app \in Apps /\ app # None
BY DEF Typed, TypeOK

LEMMA QuietType == \A done : QuietBut(done) \in BOOLEAN
BY DEF QuietBut

LEMMA RowsType ==
  ASSUME NEW rows \in SUBSET Route, NEW row \in Route, NEW id
  PROVE  /\ Saved(rows, row) \in SUBSET Route
         /\ Removed(rows, id) \in SUBSET Route
         /\ Rechecked(rows, row) \in SUBSET Route
BY DEF Saved, Removed, Rechecked

-----------------------------------------------------------------------------
(* What each handler keeps of the types.                                   *)

\* Handlers that only write the App's own state.
LEMMA TypedSets ==
  ASSUME Typed, gate = "authenticated", NEW new \in Apps, Outcomed(new), Sets(new)
  PROVE  Typed'
<1>1. new # None
  BY NoRecordAssumption
<1>2. wire' \subseteq Requests /\ RealRows' /\ Numbered'
  BY WireShrinks DEF Sets
<1>3. TypeOK'
  BY <1>1, <1>2 DEF Sets, Typed, TypeOK
<1> QED BY <1>2, <1>3 DEF Sets, Typed

LEMMA TypedSends ==
  ASSUME Typed, gate = "authenticated", NEW kind \in Mutations \cup {"recheck"},
         NEW id \in Ids \cup {SeedId, None}, NEW new \in Apps, Outcomed(new),
         Sends(kind, id, new)
  PROVE  Typed'
<1>1. app' \in Apps /\ app'.form = new.form
  <2>1. (new.sure /\ QuietBut({}) /\ ~app.loading) \in BOOLEAN
    BY AppType DEF Apps
  <2> QED BY <2>1 DEF Sends, Apps
<1>2. app' # None /\ sent + 1 \in Nat
  BY <1>1, NoRecordAssumption DEF Typed, TypeOK
<1>3. kind \in Private \cup Public
  BY DEF Private
<1>4. wire' \subseteq Requests /\ RealRows' /\ Numbered'
  <2> DEFINE q == Request(sent + 1, kind, id, None)
  <2>1. q \in Requests /\ q.n = sent + 1 /\ q.mount = mount
    BY <1>2, <1>3, RequestShape
  <2>2. /\ {q} \in SUBSET Requests /\ wire' = (wire \ {}) \cup {q}
        /\ UNCHANGED server /\ sent' = sent + 1 /\ mount' = mount
    BY <2>1 DEF Sends
  <2>3. \A r \in {q} : r.n = sent + 1 /\ r.mount <= mount'
    BY <2>1, <2>2 DEF Typed, TypeOK
  <2> HIDE DEF q
  <2> QED BY <2>2, <2>3, WireGrows
<1>5. TypeOK'
  BY <1>1, <1>2, <1>4 DEF Sends, Typed, TypeOK
<1> QED BY <1>1, <1>4, <1>5 DEF Typed, Outcomed

LEMMA TypedUser == ASSUME Typed, User PROVE Typed'
<1>1. CASE SubmitCredentials
  <2>1. sent + 1 \in Nat /\ gate \in Private \cup Public
    BY <1>1 DEF SubmitCredentials, Typed, TypeOK, Public
  <2> DEFINE q == Request(sent + 1, gate, None, None)
  <2>2. q \in Requests /\ q.n = sent + 1 /\ q.mount = mount
    BY <2>1, RequestShape
  <2>3. /\ {q} \in SUBSET Requests /\ wire' = (wire \ {}) \cup {q}
        /\ UNCHANGED server /\ sent' = sent + 1 /\ mount' = mount
    BY <1>1, <2>2 DEF SubmitCredentials
  <2>4. \A r \in {q} : r.n = sent + 1 /\ r.mount <= mount'
    BY <2>2, <2>3 DEF Typed, TypeOK
  <2> HIDE DEF q
  <2>5. wire' \subseteq Requests /\ RealRows' /\ Numbered'
    BY <2>3, <2>4, WireGrows
  <2>6. TypeOK'
    BY <1>1, <2>1, <2>5 DEF SubmitCredentials, Typed, TypeOK
  <2> QED BY <1>1, <2>5, <2>6 DEF SubmitCredentials, Typed
<1>2. CASE Logout
  <2>1. sent + 1 \in Nat /\ "logout" \in Private \cup Public
    BY DEF Typed, TypeOK, Private
  <2> DEFINE q == Request(sent + 1, "logout", None, None)
  <2>2. q \in Requests /\ q.n = sent + 1 /\ q.mount = mount
    BY <2>1, RequestShape
  <2>3. /\ {q} \in SUBSET Requests /\ wire' = (wire \ {}) \cup {q}
        /\ UNCHANGED server /\ sent' = sent + 1 /\ mount' = mount
    BY <1>2, <2>2 DEF Logout
  <2>4. \A r \in {q} : r.n = sent + 1 /\ r.mount <= mount'
    BY <2>2, <2>3 DEF Typed, TypeOK
  <2> HIDE DEF q
  <2>5. wire' \subseteq Requests /\ RealRows' /\ Numbered'
    BY <2>3, <2>4, WireGrows
  <2>6. TypeOK'
    BY <1>2, <2>1, <2>5 DEF Logout, Typed, TypeOK
  <2> QED BY <1>2, <2>5, <2>6 DEF Logout, Typed
<1>3. CASE Retry
  <2>1. app \in Apps /\ gate = "authenticated"
    BY <1>3, AppType DEF Retry, Uncovered
  <2>2. sent + 1 \in Nat /\ mount \in Nat
    BY DEF Typed, TypeOK
  <2>3. app' \in Apps /\ app' # None /\ app'.form = app.form
    <3>1. app' \in Apps
      BY <1>3, <2>1, <2>2, QuietType, ReloadedType DEF Retry
    <3>2. Reloaded(app, sent + 1, QuietBut({})).form = app.form
      BY <2>1 DEF Reloaded, Apps
    <3> QED BY <1>3, <3>1, <3>2, NoRecordAssumption DEF Retry
  <2> DEFINE new == Load(sent + 1, mount)
  <2>4. /\ new \in SUBSET Requests /\ wire' = (wire \ {}) \cup new
        /\ UNCHANGED server /\ sent' = sent + 1 /\ mount' = mount
    BY <1>3, <2>2, LoadShape DEF Retry
  <2>5. \A r \in new : r.n = sent + 1 /\ r.mount <= mount' /\ r.kind = "get"
    BY <2>2, <2>4, LoadShape
  <2> HIDE DEF new
  <2>6. wire' \subseteq Requests /\ RealRows' /\ Numbered'
    BY <2>4, <2>5, WireGrows
  <2>7. TypeOK'
    BY <1>3, <2>1, <2>2, <2>3, <2>6 DEF Retry, Typed, TypeOK
  <2> QED BY <2>1, <2>3, <2>6, <2>7, AppType DEF Typed, Outcomed
<1>a. ASSUME gate = "authenticated"
      PROVE  app \in Apps /\ app.form \in Forms /\ sent + 1 \in Nat /\ Outcomed(app)
  BY <1>a, AppType DEF Apps, Typed, TypeOK
<1>c. ASSUME gate = "authenticated", NEW new \in Apps, new.form = app.form PROVE Outcomed(new)
  BY <1>a, <1>c DEF Outcomed
<1>4. CASE Go
  <2> DEFINE new == [app EXCEPT !.detail = None, !.checking = 0]
  <2>1. new \in Apps /\ new.form = app.form /\ gate = "authenticated"
    BY <1>4, <1>a DEF Go, Uncovered, Apps
  <2> QED BY <1>4, <1>c, <2>1, TypedSets DEF Go
<1>5. ASSUME gate = "authenticated", NEW row \in app.rows, View(row) PROVE Typed'
  <2> DEFINE new == [app EXCEPT !.detail = row]
  <2>1. new \in Apps /\ new.form = app.form
    BY <1>5, <1>a DEF Apps
  <2> QED BY <1>5, <1>c, <2>1, TypedSets DEF View
<1>6. ASSUME NEW route \in Route \cup {None}, OpenForm(route) PROVE Typed'
  <2>1. gate = "authenticated"
    BY <1>6 DEF OpenForm, Shown, Uncovered
  <2> DEFINE form == [NoForm EXCEPT !.open = TRUE, !.route = route, !.since = sent + 1]
  <2>2. form \in Forms /\ form.op = "idle"
    BY <1>a, <2>1, FormType DEF NoForm
  <2>3. Sets([app EXCEPT !.form = form])
    BY <1>6 DEF OpenForm
  <2> HIDE DEF form
  <2>4. [app EXCEPT !.form = form] \in Apps /\ Outcomed([app EXCEPT !.form = form])
    BY <1>a, <2>1, <2>2 DEF Apps, Outcomed
  <2> QED BY <2>1, <2>3, <2>4, TypedSets
<1>b. ASSUME gate = "authenticated" PROVE Clickable \subseteq Route \cup {None}
  BY <1>a, <1>b DEF Clickable, Apps
<1>7. CASE Add
  BY <1>6, <1>7 DEF Add
<1>8. ASSUME gate = "authenticated", NEW route \in Clickable, Edit(route) PROVE Typed'
  BY <1>6, <1>8, <1>b DEF Edit
<1>9. ASSUME gate = "authenticated", NEW route \in Clickable, Delete(route) PROVE Typed'
  <2> DEFINE new == [app EXCEPT !.deleting = route]
  <2>1. new \in Apps /\ new.form = app.form
    BY <1>9, <1>a, <1>b DEF Apps
  <2> QED BY <1>9, <1>c, <2>1, TypedSets DEF Delete
<1>10. CASE Save
  <2> DEFINE kind == IF app.form.route = None THEN "create" ELSE "update"
             id == IF app.form.route = None THEN None ELSE app.form.route.id
             form == [app.form EXCEPT !.op = "submitting", !.request = sent + 1]
             new == [app EXCEPT !.form = form]
  <2>1. gate = "authenticated" /\ Sends(kind, id, new)
    BY <1>10, <1>a DEF Save, Apps
  <2>2. kind \in Mutations \cup {"recheck"} /\ id \in Ids \cup {SeedId, None}
    BY <1>a, <2>1 DEF Mutations, Forms, Route
  <2>3. form \in Forms /\ form.op = "submitting"
    BY <1>a, <2>1 DEF Forms
  <2> HIDE DEF form
  <2>4. new \in Apps /\ Outcomed(new)
    BY <1>a, <2>1, <2>3 DEF Apps, Outcomed
  <2> HIDE DEF kind, id, new
  <2> QED BY <2>1, <2>2, <2>4, TypedSends
<1>11. CASE CloseForm
  <2> DEFINE sure == app.sure /\ app.form.op \in {"idle", "error"}
  <2>1. gate = "authenticated" /\ sure \in BOOLEAN
    BY <1>11, <1>a DEF CloseForm, Apps
  <2>2. Sets([app EXCEPT !.form = NoForm, !.sure = sure])
    BY <1>11 DEF CloseForm
  <2> HIDE DEF sure
  <2> DEFINE new == [app EXCEPT !.form = NoForm, !.sure = sure]
  <2>3. new \in Apps /\ new.form = NoForm
    BY <1>a, <2>1, FormType DEF Apps
  <2>4. Outcomed(new)
    BY <2>3 DEF Outcomed, NoForm
  <2> QED BY <2>1, <2>2, <2>3, <2>4, TypedSets
<1>12. CASE Cancel
  <2> DEFINE new == [app EXCEPT !.deleting = None]
  <2>1. new \in Apps /\ new.form = app.form /\ gate = "authenticated"
    BY <1>12, <1>a DEF Cancel, Apps
  <2> QED BY <1>12, <1>c, <2>1, TypedSets DEF Cancel
<1>13. CASE Confirm
  <2>1. gate = "authenticated" /\ app.deleting.id \in Ids \cup {SeedId, None}
    BY <1>13, <1>a DEF Confirm, Apps, Route
  <2>2. "remove" \in Mutations \cup {"recheck"}
    BY DEF Mutations
  <2> QED BY <1>13, <1>a, <2>1, <2>2, TypedSends DEF Confirm
<1>14. CASE Recheck
  <2>1. gate = "authenticated" /\ app.detail # None
    BY <1>14 DEF Recheck, Shown, Uncovered
  <2>2. app.detail.id \in Ids \cup {SeedId, None}
    BY <1>a, <2>1 DEF Apps, Route
  <2>3. "recheck" \in Mutations \cup {"recheck"}
    OBVIOUS
  <2> DEFINE new == [app EXCEPT !.checking = sent + 1]
  <2>4. new \in Apps /\ new.form = app.form
    BY <1>a, <2>1 DEF Apps
  <2> QED BY <1>14, <1>c, <2>1, <2>2, <2>3, <2>4, TypedSends DEF Recheck
<1>15. CASE Done
  <2>1. gate = "authenticated" /\ app.form.result \in Route
    BY <1>15, <1>a DEF Done, Outcomed, Forms
  <2> DEFINE rows == Saved(app.rows, app.form.result)
             new == [app EXCEPT !.rows = rows, !.form = NoForm]
  <2>2. rows \in SUBSET Route
    BY <1>a, <2>1, RowsType DEF Apps
  <2>3. Sets(new)
    BY <1>15, <1>a, <2>1 DEF Done, Apps
  <2> HIDE DEF rows
  <2>4. new \in Apps /\ new.form = NoForm
    BY <1>a, <2>1, <2>2, FormType DEF Apps
  <2>5. Outcomed(new)
    BY <2>4 DEF Outcomed, NoForm
  <2> QED BY <2>1, <2>3, <2>4, <2>5, TypedSets
<1> QED BY <1>1, <1>2, <1>3, <1>4, <1>5, <1>7, <1>8, <1>9, <1>10, <1>11, <1>12, <1>13,
           <1>14, <1>15 DEF User

LEMMA TypedServe == ASSUME Typed, NEW r \in wire, Serve(r) PROVE Typed'
<1>1. PICK a \in Answers : Served(r, a)
  BY ServeShape
<1> DEFINE q == [r EXCEPT !.answer = a]
<1>2. r \in Requests
  BY DEF Typed, TypeOK
<1>3. q \in Requests /\ q.n = r.n /\ q.mount = r.mount /\ q.kind = r.kind
  BY <1>1, <1>2 DEF Requests
<1>4. wire' = (wire \ {r}) \cup {q} /\ sent' = sent /\ mount' = mount
  BY <1>1 DEF Served
<1> HIDE DEF q
<1>5. Numbered'
  BY <1>3, <1>4 DEF Typed, Numbered
<1>6. TypeOK'
  BY <1>1, <1>3, <1>4 DEF Served, Servers, Typed, TypeOK
<1> QED BY <1>1, <1>5, <1>6 DEF Served, Typed

\* The gate opens.
LEMMA TypedMount ==
  ASSUME Typed, NEW r, Mount(r), UNCHANGED <<server, expiries>>,
         busy' \in BOOLEAN, told' \in {told, "nothing"}
  PROVE  Typed'
<1>1. sent + 1 \in Nat /\ mount + 1 \in Nat
  BY DEF Typed, TypeOK
<1>2. app' \in Apps /\ app' # None /\ app'.form = NoForm
  BY <1>1, QuietType, FreshType, NoRecordAssumption DEF Mount, Fresh
<1> DEFINE new == Load(sent + 1, mount + 1)
<1>3. /\ new \in SUBSET Requests /\ wire' = (wire \ {r}) \cup new
      /\ UNCHANGED server /\ sent' = sent + 1 /\ mount' = mount + 1
  BY <1>1, LoadShape DEF Mount
<1>4. \A q \in new : q.n = sent + 1 /\ q.mount <= mount' /\ q.kind = "get"
  BY <1>1, <1>3, LoadShape
<1> HIDE DEF new
<1>5. wire' \subseteq Requests /\ RealRows' /\ Numbered'
  BY <1>3, <1>4, WireGrows
<1>6. TypeOK'
  BY <1>1, <1>2, <1>5 DEF Mount, Typed, TypeOK
<1> QED BY <1>2, <1>5, <1>6 DEF Typed, Outcomed, NoForm

\* No App is left.
LEMMA TypedClosed ==
  ASSUME Typed, NEW r, wire' = wire \ {r}, UNCHANGED <<server, sent, mount, expiries>>,
         app' = None, gate' \in {"loading", "setup", "login"}, busy' \in BOOLEAN,
         told' \in {told, "created", "expired", "signed_out", "unreachable"}
  PROVE  Typed'
<1>1. wire' \subseteq Requests /\ RealRows' /\ Numbered'
  BY WireShrinks
<1>2. TypeOK'
  BY <1>1 DEF Typed, TypeOK
<1> QED BY <1>1, <1>2 DEF Typed

\* A continuation of the live App.
LEMMA TypedApp ==
  ASSUME Typed, gate = "authenticated", NEW done, wire' = wire \ done,
         UNCHANGED <<server, sent, gate, told, busy, mount, expiries>>,
         app' \in Apps, Outcomed(app')
  PROVE  Typed'
<1>1. wire' \subseteq Requests /\ RealRows' /\ Numbered'
  BY WireShrinks
<1>2. app' # None
  BY NoRecordAssumption
<1>3. TypeOK'
  BY <1>1, <1>2 DEF Typed, TypeOK
<1> QED BY <1>1, <1>3 DEF Typed

\* Nothing but the wire changes.
LEMMA TypedWire ==
  ASSUME Typed, NEW done, wire' = wire \ done,
         UNCHANGED <<server, sent, gate, told, busy, mount, app, expiries>>
  PROVE  Typed'
<1>1. wire' \subseteq Requests /\ RealRows' /\ Numbered'
  BY WireShrinks
<1>2. TypeOK'
  BY <1>1 DEF Typed, TypeOK
<1> QED BY <1>1, <1>2 DEF Typed, Outcomed

LEMMA AnswerShape ==
  ASSUME Typed, NEW r, Handled(r)
  PROVE  r \in wire /\ r \in Requests /\ r.answer \in Answers
BY DEF Handled, Typed, TypeOK, Requests

LEMMA TypedGate ==
  ASSUME Typed, Opening, NEW r, OnStatus(r) \/ OnMe(r) \/ OnCredentials(r)
                       \/ OnUnauthorized(r) \/ OnLogout(r) \/ OnGone(r)
  PROVE  Typed'
<1>0. OnStatus(r) \/ OnMe(r) => gate = "loading" /\ app = None
  BY DEF OnStatus, OnMe, Handled, Opening, Typed, TypeOK
<1>1. CASE OnStatus(r)
  <2>1. CASE r.answer.code # "ok"
    <3>1. /\ told' = "unreachable" /\ wire' = wire \ {r}
          /\ UNCHANGED <<server, gate, sent, busy, mount, app, expiries>>
      BY <1>1, <2>1 DEF OnStatus
    <3>2. wire' \subseteq Requests /\ RealRows' /\ Numbered'
      BY <3>1, WireShrinks
    <3>3. TypeOK'
      BY <3>1, <3>2 DEF Typed, TypeOK
    <3> QED BY <3>1, <3>2, <3>3 DEF Typed, Outcomed
  <2>2. CASE r.answer.code = "ok" /\ r.answer.result # "success"
    <3>1. /\ gate' = "setup" /\ wire' = wire \ {r}
          /\ UNCHANGED <<server, told, sent, busy, mount, app, expiries>>
      BY <1>1, <2>2 DEF OnStatus
    <3>2. wire' \subseteq Requests /\ RealRows' /\ Numbered'
      BY <3>1, WireShrinks
    <3>3. TypeOK'
      BY <1>0, <1>1, <3>1, <3>2 DEF Typed, TypeOK
    <3> QED BY <3>1, <3>2, <3>3 DEF Typed, Outcomed
  <2>3. CASE r.answer.code = "ok" /\ r.answer.result = "success"
    <3> DEFINE q == Request(sent + 1, "me", None, None)
    <3>1. /\ sent' = sent + 1 /\ wire' = (wire \ {r}) \cup {q}
          /\ UNCHANGED <<server, gate, told, busy, mount, app, expiries>>
      BY <1>1, <2>3 DEF OnStatus
    <3>2. sent + 1 \in Nat /\ "me" \in Private \cup Public
      BY DEF Typed, TypeOK, Public
    <3>3. q \in Requests /\ q.n = sent + 1 /\ q.mount = mount
      BY <3>2, RequestShape
    <3>4. {q} \in SUBSET Requests /\ \A x \in {q} : x.n = sent + 1 /\ x.mount <= mount'
      BY <3>1, <3>3 DEF Typed, TypeOK
    <3> HIDE DEF q
    <3>5. wire' \subseteq Requests /\ RealRows' /\ Numbered'
      BY <3>1, <3>4, WireGrows
    <3>6. TypeOK'
      BY <3>1, <3>2, <3>5 DEF Typed, TypeOK
    <3> QED BY <3>1, <3>5, <3>6 DEF Typed, Outcomed
  <2> QED BY <1>1, <2>1, <2>2, <2>3 DEF OnStatus
<1>2. CASE OnMe(r)
  <2>1. CASE r.answer.code = "ok"
    <3>1. /\ Mount(r) /\ UNCHANGED <<server, expiries>> /\ told' = told /\ busy' = busy
      BY <1>2, <2>1 DEF OnMe
    <3> QED BY <3>1, TypedMount DEF Typed, TypeOK
  <2>2. CASE r.answer.code # "ok"
    <3>1. /\ gate' = "login" /\ wire' = wire \ {r}
          /\ UNCHANGED <<server, told, sent, busy, mount, app, expiries>>
      BY <1>2, <2>2 DEF OnMe
    <3> QED BY <1>0, <1>2, <3>1, TypedClosed DEF Typed, TypeOK
  <2> QED BY <2>1, <2>2
<1>3. CASE OnCredentials(r)
  <2>1. busy' \in BOOLEAN /\ UNCHANGED <<server, expiries>>
    BY <1>3 DEF OnCredentials
  <2>2. CASE r.answer.code = "ok" /\ r.kind = "setup"
    BY <1>3, <2>1, <2>2, TypedClosed DEF OnCredentials, Close
  <2>3. CASE r.answer.code = "ok" /\ r.kind = "login"
    BY <1>3, <2>1, <2>3, TypedMount DEF OnCredentials
  <2>4. CASE r.answer.code # "ok"
    <3>1. wire' = wire \ {r} /\ UNCHANGED <<server, sent, mount, gate, told, app, expiries>>
      BY <1>3, <2>4 DEF OnCredentials
    <3>2. wire' \subseteq Requests /\ RealRows' /\ Numbered'
      BY <3>1, WireShrinks
    <3>3. TypeOK'
      BY <2>1, <3>1, <3>2 DEF Typed, TypeOK
    <3> QED BY <3>1, <3>2, <3>3 DEF Typed, Outcomed
  <2> QED BY <1>3, <2>2, <2>3, <2>4 DEF OnCredentials
<1>4. CASE OnUnauthorized(r) \/ OnLogout(r)
  <2>1. busy' \in BOOLEAN
    BY <1>4 DEF OnUnauthorized, OnLogout, Typed, TypeOK
  <2> QED BY <1>4, <2>1, TypedClosed DEF OnUnauthorized, OnLogout, Close
<1>5. CASE OnGone(r)
  BY <1>5, TypedWire DEF OnGone
<1> QED BY <1>1, <1>2, <1>3, <1>4, <1>5

LEMMA TypedDeliver ==
  ASSUME Typed, NEW r, OnSaved(r) \/ OnRemoved(r) \/ OnRechecked(r)
  PROVE  Typed'
<1>1. gate = "authenticated" /\ Handled(r)
  BY DEF OnSaved, OnRemoved, OnRechecked, Live
<1>2. app \in Apps /\ app # None /\ app.form \in Forms /\ Outcomed(app)
  BY <1>1, AppType DEF Apps, Typed
<1>3. r \in Requests /\ r.answer \in Answers
  BY <1>1, AnswerShape
<1>4. sent + 1 \in Nat /\ mount \in Nat
  BY DEF Typed, TypeOK
<1>5. CASE OnSaved(r)
  <2> DEFINE a == r.answer
             result == IF a.route # None THEN a.route ELSE app.form.result
             form == [app.form EXCEPT !.op = Outcome(a), !.result = result]
  <2>1. /\ wire' = wire \ {r}
        /\ UNCHANGED <<server, sent, gate, told, busy, mount, expiries>>
    BY <1>5 DEF OnSaved
  <2>2. form \in Forms /\ (form.op \in {"success", "partial_success"} => form.result # None)
    <3>1. /\ Outcome(a) \in {"success", "partial_success", "error"}
          /\ Outcome(a) # "error" => a.route # None
      BY DEF Outcome
    <3>2. result \in Route \cup {None}
      BY <1>2, <1>3 DEF Forms, Answers
    <3>3. form \in Forms /\ form.op = Outcome(a) /\ form.result = result
      BY <1>2, <3>1, <3>2 DEF Forms
    <3> QED BY <3>1, <3>3
  <2>3. CASE app.form.open /\ app.form.request = r.n
    <3> DEFINE sure == app.sure /\ a.code = "ok"
    <3>1. app' = [app EXCEPT !.form = form, !.sure = sure]
      <4>1. app' = [app EXCEPT !.form.op = Outcome(a), !.form.result = result, !.sure = sure]
        BY <1>2, <1>5, <2>3 DEF OnSaved, Apps, Forms
      <4> QED BY <1>2, <4>1 DEF Apps, Forms
    <3>2. sure \in BOOLEAN
      BY <1>2 DEF Apps
    <3> HIDE DEF form, sure
    <3>3. app' \in Apps /\ app'.form = form
      BY <1>2, <2>2, <3>1, <3>2 DEF Apps
    <3>4. Outcomed(app')
      BY <2>2, <3>3 DEF Outcomed
    <3> QED BY <1>1, <2>1, <3>3, <3>4, TypedApp
  <2>4. CASE ~(app.form.open /\ app.form.request = r.n)
    <3>1. app' = [app EXCEPT !.sure = FALSE]
      BY <1>5, <2>4 DEF OnSaved
    <3>2. app' \in Apps /\ app'.form = app.form
      BY <1>2, <3>1 DEF Apps
    <3> QED BY <1>1, <1>2, <2>1, <3>2, TypedApp DEF Outcomed
  <2> QED BY <2>3, <2>4
<1>6. CASE OnRemoved(r)
  <2>0. UNCHANGED <<server, gate, told, busy, mount, expiries>>
    BY <1>6 DEF OnRemoved
  <2>1. CASE r.answer.code = "error"
    <3>1. /\ app' = [app EXCEPT !.notice = "failed", !.deleting = None, !.sure = FALSE]
          /\ wire' = wire \ {r} /\ sent' = sent
      BY <1>6, <2>1 DEF OnRemoved
    <3>2. app' \in Apps /\ app'.form = app.form
      BY <1>2, <3>1 DEF Apps
    <3> QED BY <1>1, <1>2, <2>0, <3>1, <3>2, TypedApp DEF Outcomed
  <2>2. CASE r.answer.code = "ok" /\ r.answer.result = "success"
    <3> DEFINE rows == Removed(app.rows, r.id)
    <3>1. /\ app' = [app EXCEPT !.notice = "success", !.deleting = None, !.rows = rows]
          /\ wire' = wire \ {r} /\ sent' = sent
      BY <1>2, <1>6, <2>2 DEF OnRemoved, Apps
    <3>2. rows \in SUBSET Route
      BY <1>2 DEF Removed, Apps
    <3> HIDE DEF rows
    <3>3. app' \in Apps /\ app'.form = app.form
      BY <1>2, <3>1, <3>2 DEF Apps
    <3> QED BY <1>1, <1>2, <2>0, <3>1, <3>3, TypedApp DEF Outcomed
  <2>3. CASE r.answer.code = "ok" /\ r.answer.result # "success"
    <3> DEFINE b == Reloaded(app, sent + 1, QuietBut({r}))
               new == Load(sent + 1, mount)
    <3>1. /\ app' = [b EXCEPT !.notice = r.answer.result, !.deleting = None,
                              !.owed = r.answer.at]
          /\ sent' = sent + 1 /\ wire' = (wire \ {r}) \cup new
      BY <1>6, <2>3 DEF OnRemoved
    <3>2. b \in Apps /\ b.form = app.form
      <4>1. b \in Apps
        BY <1>2, <1>4, QuietType, ReloadedType
      <4> QED BY <1>2, <4>1 DEF Reloaded, Apps
    <3> HIDE DEF b
    <3>3. app' \in Apps /\ app'.form = app.form /\ app' # None
      <4>1. /\ r.answer.at \in Nat
            /\ r.answer.result \in {None, "success", "partial_failure", "failed"}
        BY <1>3 DEF Answers
      <4>2. app' \in Apps /\ app'.form = app.form
        BY <3>1, <3>2, <4>1 DEF Apps
      <4> QED BY <4>2, NoRecordAssumption
    <3>4. /\ new \in SUBSET Requests
          /\ \A q \in new : q.n = sent + 1 /\ q.mount <= mount' /\ q.kind = "get"
      BY <1>4, <2>0, LoadShape
    <3> HIDE DEF new
    <3>5. wire' \subseteq Requests /\ RealRows' /\ Numbered'
      BY <2>0, <3>1, <3>4, WireGrows
    <3>6. TypeOK'
      BY <1>1, <1>4, <2>0, <3>1, <3>3, <3>5 DEF Typed, TypeOK
    <3> QED BY <1>2, <3>3, <3>5, <3>6 DEF Typed, Outcomed
  <2> QED BY <1>6, <2>1, <2>2, <2>3 DEF OnRemoved
<1>7. CASE OnRechecked(r)
  <2> DEFINE checking == IF app.checking = r.n THEN 0 ELSE app.checking
             b == [app EXCEPT !.checking = checking]
             rows == Rechecked(app.rows, r.answer.route)
  <2>1. /\ wire' = wire \ {r}
        /\ UNCHANGED <<server, sent, gate, told, busy, mount, expiries>>
    BY <1>7 DEF OnRechecked
  <2>2. checking \in Nat
    BY <1>2 DEF Apps
  <2>3. app' = IF r.answer.route = None THEN b
               ELSE [b EXCEPT !.detail = r.answer.route, !.rows = rows]
    BY <1>2, <1>7 DEF OnRechecked, Apps
  <2> HIDE DEF checking
  <2>4. b \in Apps /\ b.form = app.form
    BY <1>2, <2>2 DEF Apps
  <2>5. r.answer.route # None => rows \in SUBSET Route /\ r.answer.route \in Route
    BY <1>2, <1>3, RowsType DEF Apps, Answers
  <2> HIDE DEF b, rows
  <2>6. app' \in Apps /\ app'.form = app.form
    BY <2>3, <2>4, <2>5 DEF Apps
  <2> QED BY <1>1, <1>2, <2>1, <2>6, TypedApp DEF Outcomed
<1> QED BY <1>5, <1>6, <1>7

LEMMA TypedSettle ==
  ASSUME Typed, NEW n \in Loads, Settle(n)
  PROVE  Typed' /\ gate = "authenticated"
<1> DEFINE run == {r \in wire : r.kind = "get" /\ r.n = n}
           good == {r \in run : r.answer.code = "ok"}
           loaded == {r.section : r \in good}
           fresh == {r \in good : r.section = "Routes"}
<1>1. /\ \A r \in run : Handled(r) /\ Live(r)
      /\ wire' = wire \ run
      /\ UNCHANGED <<server, sent, gate, told, busy, mount, expiries>>
  BY DEF Settle
<1>2. \E r \in run : TRUE
  BY DEF Loads
<1>3. gate = "authenticated"
  BY <1>1, <1>2 DEF Live
<1>4. app \in Apps /\ app # None /\ Outcomed(app)
  BY <1>3, AppType DEF Typed
<1>5. \A r \in run : r \in Requests /\ r.answer \in Answers
  BY <1>1, AnswerShape
<1>6. CASE ~Active(n)
  <2>1. app' = app
    BY <1>6 DEF Settle
  <2> QED BY <1>1, <1>3, <2>1, TypedWire
<1>7. CASE Active(n)
  <2> DEFINE rows == IF fresh = {} THEN app.rows ELSE UNION {r.answer.rows : r \in fresh}
             at == IF fresh = {} THEN app.at ELSE (CHOOSE r \in fresh : TRUE).answer.at
             errors == Sections \ loaded
             failed == loaded = {}
             mock == app.mock \ loaded
             sure == app.sure /\ fresh # {}
  <2>1. app' = [app EXCEPT !.loading = FALSE, !.errors = errors, !.failed = failed,
                           !.mock = mock, !.rows = rows, !.at = at, !.sure = sure]
    BY <1>4, <1>7 DEF Settle, Apps
  <2>2. rows \in SUBSET Route
    BY <1>4, <1>5 DEF Answers, Apps
  <2>3. at \in Nat
    <3>1. CASE fresh = {}
      BY <1>4, <3>1 DEF Apps
    <3>2. CASE fresh # {}
      <4>1. (CHOOSE r \in fresh : TRUE) \in fresh
        BY <3>2
      <4>2. (CHOOSE r \in fresh : TRUE).answer \in Answers
        BY <1>5, <4>1
      <4> QED BY <3>2, <4>2 DEF Answers
    <3> QED BY <3>1, <3>2
  <2>4. errors \in SUBSET Sections /\ mock \in SUBSET Sections
    BY <1>4 DEF Apps
  <2>5. failed \in BOOLEAN /\ sure \in BOOLEAN
    BY <1>4 DEF Apps
  <2> HIDE DEF rows, at, errors, failed, mock, sure
  <2>6. app' \in Apps /\ app'.form = app.form
    BY <1>4, <2>1, <2>2, <2>3, <2>4, <2>5 DEF Apps
  <2> QED BY <1>1, <1>3, <1>4, <2>6, TypedApp DEF Outcomed
<1> QED BY <1>3, <1>6, <1>7

LEMMA TypedInit == Init => Typed /\ Opening
<1> SUFFICES ASSUME Init PROVE Typed /\ Opening
  OBVIOUS
<1>1. server \in Servers /\ RealRows
  <2>1. PICK session, ready \in BOOLEAN :
          server = [rows |-> {[id |-> i, at |-> 1] : i \in Existing},
                    gone |-> {}, time |-> 1, session |-> session, ready |-> ready]
    BY DEF Init
  <2> QED BY <2>1, IdsAssumption DEF Servers, RealRows, Route
<1>2. wire \subseteq Requests /\ Numbered /\ Opening
  BY DEF Init, Requests, Public, Numbered, Opening
<1>3. TypeOK
  BY <1>1, <1>2 DEF Init, Servers, TypeOK
<1> QED BY <1>1, <1>2, <1>3 DEF Init, Typed

LEMMA TypedExpire == ASSUME Typed, Expire PROVE Typed'
<1>1. /\ server' = [server EXCEPT !.session = FALSE] /\ expiries' = expiries + 1
      /\ UNCHANGED <<wire, sent, gate, told, busy, mount, app>>
  BY DEF Expire
<1>2. server \in Servers
  BY DEF Typed, TypeOK, Servers
<1>3. server' \in Servers /\ server'.rows = server.rows
  BY <1>1, <1>2 DEF Servers
<1>4. TypeOK'
  BY <1>1, <1>3 DEF Servers, Typed, TypeOK
<1> QED BY <1>1, <1>3, <1>4 DEF Typed, RealRows, Numbered, Outcomed

LEMMA TypedStep == Typed /\ Opening /\ [Next]_vars => Typed'
<1> SUFFICES ASSUME Typed, Opening, [Next]_vars PROVE Typed'
  OBVIOUS
<1>1. CASE Network
  BY <1>1, TypedServe, TypedGate, TypedDeliver, TypedSettle DEF Network, Deliver
<1>2. CASE User
  BY <1>2, TypedUser
<1>3. CASE Expire
  BY <1>3, TypedExpire
<1>4. CASE UNCHANGED vars
  BY <1>4, TypedWire, WireShrinks DEF vars, Typed, TypeOK, RealRows, Numbered, Outcomed
<1> QED BY <1>1, <1>2, <1>3, <1>4 DEF Next

\* A user needs a gate that has been decided.
LEMMA UserDecided == User => gate # "loading"
BY DEF User, SubmitCredentials, Logout, Retry, Go, Add, OpenForm, Save, CloseForm, Done,
       Confirm, Cancel, Recheck, Shown, Uncovered

\* What the user and the gate send is nothing the gate waits for at first.
LEMMA UserSends ==
  User => \A r \in wire' : r \in wire \/ r.kind \notin {"status", "me"}
<1> SUFFICES ASSUME User, NEW r \in wire', r \notin wire PROVE r.kind \notin {"status", "me"}
  OBVIOUS
<1>1. CASE SubmitCredentials
  BY <1>1 DEF SubmitCredentials, Request
<1>2. CASE Logout
  BY <1>2 DEF Logout, Request
<1>3. CASE Retry
  BY <1>3 DEF Retry, Load
<1>4. ASSUME NEW kind, NEW id, NEW new, Sends(kind, id, new) PROVE r.kind = kind
  BY <1>4 DEF Sends, Request
<1>5. CASE Save
  BY <1>4, <1>5 DEF Save
<1>6. CASE Confirm \/ Recheck
  BY <1>4, <1>6 DEF Confirm, Recheck
<1>7. ASSUME NEW new, Sets(new) PROVE FALSE
  BY <1>7 DEF Sets
<1> QED BY <1>1, <1>2, <1>3, <1>5, <1>6, <1>7
        DEF User, Go, View, Add, Edit, OpenForm, Delete, CloseForm, Done, Cancel

LEMMA OpeningStep == Typed /\ Opening /\ [Next]_vars => Opening'
<1> SUFFICES ASSUME Typed, Opening, [Next]_vars PROVE Opening'
  OBVIOUS
<1> DEFINE first == {"status", "me"}
           Kept == \A q \in wire' : q \in wire \/ q.kind \notin first
<1>1. ASSUME Kept, \A q \in wire : q.kind \notin first PROVE Opening'
  BY <1>1 DEF Opening
<1>2. ASSUME NEW r \in wire, r.kind \notin first PROVE \A q \in wire : q.kind \notin first
  BY <1>2 DEF Opening
<1>3. CASE User
  <2>1. \A q \in wire : q.kind \notin first
    BY <1>3, UserDecided DEF Opening
  <2> QED BY <1>1, <1>3, <2>1, UserSends
<1>4. ASSUME NEW r \in wire, Serve(r) PROVE Opening'
  <2>1. PICK a \in Answers : Served(r, a)
    BY <1>4, ServeShape
  <2>2. r \in Requests /\ [r EXCEPT !.answer = a].kind = r.kind
    BY DEF Typed, TypeOK, Requests
  <2> QED BY <2>1, <2>2 DEF Opening, Served
<1>5. ASSUME NEW n \in Loads, Settle(n) PROVE Opening'
  BY <1>5, TypedSettle, <1>1 DEF Settle, Opening
<1>6. CASE Expire \/ UNCHANGED vars
  BY <1>6 DEF Expire, vars, Opening
<1>7. ASSUME NEW r \in wire, Mount(r), r.kind \notin first PROVE Opening'
  <2>1. Kept
    BY <1>7 DEF Mount, Load
  <2> QED BY <1>1, <1>2, <1>7, <2>1
<1>8. ASSUME NEW r \in wire, OnStatus(r) \/ OnMe(r) PROVE Opening'
  <2>1. wire = {r} /\ gate = "loading"
    BY <1>8 DEF Opening, OnStatus, OnMe
  <2>2. CASE wire' = wire \ {r}
    BY <2>1, <2>2 DEF Opening
  <2>3. CASE Mount(r)
    BY <2>1, <2>3 DEF Mount, Load, Opening
  <2>4. CASE OnStatus(r)
    BY <2>1, <2>2, <2>4 DEF OnStatus, Opening
  <2> QED BY <1>8, <2>2, <2>3, <2>4 DEF OnMe
<1>9. ASSUME NEW r \in wire, wire' = wire \ {r}, r.kind \notin first PROVE Opening'
  BY <1>1, <1>2, <1>9
<1>10. ASSUME NEW r \in wire, OnCredentials(r) PROVE Opening'
  BY <1>7, <1>9, <1>10 DEF OnCredentials
<1>11. ASSUME NEW r \in wire, OnUnauthorized(r) \/ OnLogout(r) PROVE Opening'
  BY <1>9, <1>11 DEF OnUnauthorized, OnLogout, Private, Mutations
<1>12. ASSUME NEW r \in wire, OnGone(r) \/ OnSaved(r) \/ OnRechecked(r) PROVE Opening'
  BY <1>9, <1>12 DEF OnGone, OnSaved, OnRechecked, Mutations
<1>13. ASSUME NEW r \in wire, OnRemoved(r) PROVE Opening'
  <2>1. Kept /\ r.kind \notin first
    BY <1>13 DEF OnRemoved, Load
  <2> QED BY <1>1, <1>2, <2>1
<1> QED BY <1>3, <1>4, <1>5, <1>6, <1>8, <1>10, <1>11, <1>12, <1>13
        DEF Next, Network, Deliver

Sound == Typed /\ Opening

LEMMA SoundAlways == Spec => []Sound
<1>1. Init => Sound
  BY TypedInit DEF Sound
<1>2. Sound /\ [Next]_vars => Sound'
  BY TypedStep, OpeningStep DEF Sound
<1> QED BY <1>1, <1>2, PTL DEF Spec

(* Everything the console keeps, and every request on its way, stays         *)
(* well-formed; an App is mounted exactly while the gate is open.            *)
THEOREM TypeCorrect == Spec => []TypeOK
<1>1. Sound => TypeOK
  BY DEF Sound, Typed
<1> QED BY <1>1, SoundAlways, PTL

-----------------------------------------------------------------------------
(* What a step can be, for the invariants that follow.                     *)

Effects == Mutations \cup {"recheck"}
Writes == {"create", "update"}

SameServer == /\ server'.rows = server.rows /\ server'.gone = server.gone
              /\ server'.time = server.time

\* The App, its server and its operations are left alone.
Idle ==
  /\ SameServer /\ app' = app /\ mount' = mount
  /\ \A q \in wire' : q \in wire \/ (q.kind \in Public \cup {"logout"} /\ q.answer = None)
  /\ \A q \in wire \ wire' : app # None /\ q.mount = mount => q.kind \notin Effects

Closed == SameServer /\ app' = None /\ mount' = mount /\ wire' \subseteq wire

Opened == \E r \in wire : /\ Mount(r) /\ SameServer
                          /\ r.kind \notin Effects

Answered == \E r \in wire, a \in Answers : Served(r, a)

Settled == \E n \in Loads : Settle(n) /\ Active(n)

Told == \E r \in wire : OnSaved(r) \/ OnRemoved(r) \/ OnRechecked(r)

Turned == \/ Go \/ CloseForm \/ Done \/ Cancel
          \/ \E row : View(row) \/ OpenForm(row) \/ Delete(row)

LEMMA StepKinds ==
  ASSUME Sound, [Next]_vars
  PROVE  \/ Idle \/ Closed \/ Opened \/ Answered \/ Settled \/ Told
         \/ Turned \/ Retry \/ Save \/ Confirm \/ Recheck
<1>0. Typed /\ Opening
  BY DEF Sound
<1>1. ASSUME NEW r \in wire, Serve(r) PROVE Answered
  BY <1>0, <1>1, ServeShape DEF Answered
<1>2. ASSUME NEW n \in Loads, Settle(n) PROVE Settled \/ Idle
  <2>1. CASE Active(n)
    BY <1>2, <2>1 DEF Settled
  <2>2. CASE ~Active(n)
    BY <1>2, <2>2, Kinds DEF Settle, Idle, SameServer, Effects
  <2> QED BY <2>1, <2>2
<1>3. ASSUME NEW r \in wire, OnStatus(r) PROVE Idle
  <2>1. app = None
    BY <1>0, <1>3 DEF OnStatus, Opening, Typed, TypeOK
  <2>2. UNCHANGED <<server, app, mount>>
    BY <1>3 DEF OnStatus
  <2>3. \A q \in wire' : q \in wire \/ (q.kind \in Public /\ q.answer = None)
    BY <1>3 DEF OnStatus, Request, Public
  <2> QED BY <2>1, <2>2, <2>3 DEF Idle, SameServer
<1>4. ASSUME NEW r \in wire, OnMe(r) PROVE Opened \/ Idle
  <2>1. app = None /\ UNCHANGED server /\ r.kind \notin Effects
    BY <1>0, <1>4, Kinds DEF OnMe, Opening, Typed, TypeOK, Effects, Public
  <2> QED BY <1>4, <2>1 DEF OnMe, Opened, Idle, SameServer
<1>5. ASSUME NEW r \in wire, OnCredentials(r) PROVE Opened \/ Closed \/ Idle
  <2>1. UNCHANGED server /\ r.kind \notin Effects
    BY <1>5, Kinds DEF OnCredentials, Effects, Public
  <2> QED BY <1>5, <2>1 DEF OnCredentials, Opened, Closed, Close, Idle, SameServer
<1>6. ASSUME NEW r \in wire, OnUnauthorized(r) \/ OnLogout(r) PROVE Closed
  BY <1>6 DEF OnUnauthorized, OnLogout, Close, Closed, SameServer
<1>7. ASSUME NEW r \in wire, OnGone(r) PROVE Idle
  <2>1. app # None => r.mount # mount
    BY <1>0, <1>7 DEF OnGone, Live, Typed, TypeOK
  <2> QED BY <1>7, <2>1 DEF OnGone, Idle, SameServer
<1>8. CASE Network
  BY <1>1, <1>2, <1>3, <1>4, <1>5, <1>6, <1>7, <1>8 DEF Network, Deliver, Told
<1>9. CASE SubmitCredentials
  <2>1. gate \in Public
    BY <1>9 DEF SubmitCredentials, Public
  <2>2. \A q \in wire' : q \in wire \/ (q.kind \in Public /\ q.answer = None)
    BY <1>9, <2>1 DEF SubmitCredentials, Request
  <2> QED BY <1>9, <2>2 DEF SubmitCredentials, Idle, SameServer
<1>10. CASE Logout
  <2>2. \A q \in wire' : q \in wire \/ (q.kind = "logout" /\ q.answer = None)
    BY <1>10 DEF Logout, Request
  <2> QED BY <1>10, <2>2 DEF Logout, Idle, SameServer
<1>11. CASE User
  BY <1>9, <1>10, <1>11 DEF User, Turned, Add, Edit
<1>12. CASE Expire
  <2>1. SameServer
    BY <1>0, <1>12 DEF Expire, SameServer, Typed, TypeOK
  <2> QED BY <1>12, <2>1 DEF Expire, Idle
<1>13. CASE UNCHANGED vars
  BY <1>13 DEF vars, Idle, SameServer
<1> QED BY <1>8, <1>11, <1>12, <1>13 DEF Next

\* The live App, in a step that is one of its own.
LEMMA AppOwn ==
  ASSUME Sound, Told \/ Turned \/ Retry \/ Save \/ Confirm \/ Recheck \/ Settled
  PROVE  gate = "authenticated" /\ app \in Apps /\ app # None /\ app.form \in Forms
<1>1. Typed
  BY DEF Sound
<1>2. ASSUME NEW n \in Loads, Settle(n) PROVE gate = "authenticated"
  BY <1>1, <1>2, TypedSettle
<1>3. gate = "authenticated"
  BY <1>2 DEF Told, OnSaved, OnRemoved, OnRechecked, Live, Turned, Go, CloseForm, Done,
              Cancel, View, OpenForm, Delete, Retry, Save, Confirm, Recheck, Shown,
              Uncovered, Settled
<1> QED BY <1>1, <1>3, AppType DEF Apps

\* What a page button does to the list, the form and the dialog.
Browsed ==
  /\ app'.form = app.form /\ app'.rows = app.rows /\ app'.sure = app.sure
  /\ app'.deleting = app.deleting \/ app'.deleting = None \/ ~app.form.open

Dismissed ==
  /\ app'.form.open = FALSE /\ app'.rows = app.rows
  /\ app'.sure => app.sure /\ app.form.op \in {"idle", "error"}

Finished ==
  /\ app.form.open /\ app.form.op \in {"success", "partial_success"}
  /\ app'.form.open = FALSE /\ app'.sure = app.sure
  /\ app'.rows = Saved(app.rows, app.form.result)

Started ==
  /\ app'.form.open /\ app'.form.op = "idle" /\ app'.form.since = sent + 1
  /\ ~app.form.open /\ app'.deleting = None /\ ~app.loading
  /\ app'.rows = app.rows /\ app'.sure = app.sure

LEMMA TurnedShape ==
  ASSUME Sound, Sound', Turned
  PROVE  /\ UNCHANGED <<server, wire, sent, mount>> /\ app' # None
         /\ app'.load = app.load /\ app'.loading = app.loading
         /\ app'.errors = app.errors /\ app'.at = app.at /\ app'.owed = app.owed
         /\ Browsed \/ Dismissed \/ Finished \/ Started
<1>1. app \in Apps /\ app.form \in Forms /\ gate = "authenticated"
  BY AppOwn
<1>2. ASSUME NEW new, Sets(new)
      PROVE UNCHANGED <<server, wire, sent, mount>> /\ app' # None /\ app' = new
  BY <1>1, <1>2 DEF Sets, Sound, Typed, TypeOK
<1> DEFINE Common == /\ UNCHANGED <<server, wire, sent, mount>> /\ app' # None
                     /\ app'.load = app.load /\ app'.loading = app.loading
                     /\ app'.errors = app.errors /\ app'.at = app.at
                     /\ app'.owed = app.owed
<1>3. CASE Go
  <2>1. app' = [app EXCEPT !.detail = None, !.checking = 0] /\ app' # None
        /\ UNCHANGED <<server, wire, sent, mount>>
    BY <1>2, <1>3 DEF Go
  <2> QED BY <1>1, <2>1 DEF Browsed, Apps
<1>4. CASE Cancel
  <2>1. app' = [app EXCEPT !.deleting = None] /\ app' # None
        /\ UNCHANGED <<server, wire, sent, mount>>
    BY <1>2, <1>4 DEF Cancel
  <2> QED BY <1>1, <2>1 DEF Browsed, Apps
<1>5. ASSUME NEW row, View(row) PROVE Common /\ Browsed
  <2>1. app' = [app EXCEPT !.detail = row] /\ app' # None
        /\ UNCHANGED <<server, wire, sent, mount>>
    BY <1>2, <1>5 DEF View
  <2> QED BY <1>1, <2>1 DEF Browsed, Apps
<1>6. ASSUME NEW row, Delete(row) PROVE Common /\ Browsed
  <2>1. app' = [app EXCEPT !.deleting = row] /\ app' # None
        /\ UNCHANGED <<server, wire, sent, mount>> /\ ~app.form.open
    BY <1>2, <1>6 DEF Delete, Shown, Uncovered
  <2> QED BY <1>1, <2>1 DEF Browsed, Apps
<1>7. CASE CloseForm
  <2> DEFINE sure == app.sure /\ app.form.op \in {"idle", "error"}
  <2>1. app' = [app EXCEPT !.form = NoForm, !.sure = sure] /\ app' # None
        /\ UNCHANGED <<server, wire, sent, mount>>
    <3>1. Sets([app EXCEPT !.form = NoForm, !.sure = sure])
      BY <1>7 DEF CloseForm
    <3> QED BY <1>2, <3>1
  <2>2. sure => app.sure /\ app.form.op \in {"idle", "error"}
    OBVIOUS
  <2>3. NoForm.open = FALSE
    BY DEF NoForm
  <2> HIDE DEF sure
  <2> QED BY <1>1, <2>1, <2>2, <2>3 DEF Dismissed, Apps
<1>8. CASE Done
  <2> DEFINE rows == Saved(app.rows, app.form.result)
  <2>1. app' = [app EXCEPT !.rows = rows, !.form = NoForm] /\ app' # None
        /\ UNCHANGED <<server, wire, sent, mount>>
    <3>1. Sets([app EXCEPT !.rows = rows, !.form = NoForm])
      BY <1>1, <1>8 DEF Done, Apps
    <3> QED BY <1>2, <3>1
  <2>2. app.form.open /\ app.form.op \in {"success", "partial_success"}
    BY <1>8 DEF Done
  <2>3. NoForm.open = FALSE
    BY DEF NoForm
  <2> HIDE DEF rows
  <2>4. Common /\ app'.rows = rows /\ app'.form = NoForm /\ app'.sure = app.sure
    BY <1>1, <2>1 DEF Apps
  <2> QED BY <2>2, <2>3, <2>4 DEF Finished, rows
<1>9. ASSUME NEW row, OpenForm(row) PROVE Common /\ Started
  <2> DEFINE form == [NoForm EXCEPT !.open = TRUE, !.route = row, !.since = sent + 1]
  <2>1. app' = [app EXCEPT !.form = form] /\ app' # None
        /\ UNCHANGED <<server, wire, sent, mount>>
    <3>1. Sets([app EXCEPT !.form = form])
      BY <1>9 DEF OpenForm
    <3> QED BY <1>2, <3>1
  <2>2. form.open = TRUE /\ form.op = "idle" /\ form.since = sent + 1
    BY DEF NoForm
  <2>3. ~app.form.open /\ app.deleting = None /\ ~app.loading
    BY <1>9 DEF OpenForm, Shown, Uncovered
  <2> HIDE DEF form
  <2> QED BY <1>1, <2>1, <2>2, <2>3 DEF Started, Apps
<1> QED BY <1>3, <1>4, <1>5, <1>6, <1>7, <1>8, <1>9 DEF Turned

\* An operation of the App goes out.
Sent(q) ==
  /\ q.n = sent + 1 /\ q.mount = mount /\ q.answer = None /\ q.kind \in Effects
  /\ wire' = wire \cup {q} /\ sent' = sent + 1
  /\ UNCHANGED <<server, mount>> /\ app' # None
  /\ app'.load = app.load /\ app'.loading = app.loading /\ app'.errors = app.errors
  /\ app'.at = app.at /\ app'.owed = app.owed
  /\ app'.rows = app.rows /\ app'.deleting = app.deleting
  /\ app'.sure = (app.sure /\ QuietBut({}) /\ ~app.loading)
  /\ \/ /\ q.kind \in Writes /\ app.form.open /\ app.form.op \in {"idle", "error"}
        /\ app'.form.open /\ app'.form.op = "submitting"
        /\ app'.form.since = app.form.since /\ app'.form.request = q.n
     \/ /\ q.kind \notin Writes /\ app'.form = app.form
        /\ ~app.form.open \/ app.deleting # None

LEMMA SentShape ==
  ASSUME Sound, Sound', Save \/ Confirm \/ Recheck
  PROVE  \E q : Sent(q)
<1>1. app \in Apps /\ app.form \in Forms /\ gate = "authenticated" /\ Typed
  BY AppOwn DEF Sound
<1>2. "create" \in Effects /\ "update" \in Effects /\ "remove" \in Effects
      /\ "recheck" \in Effects /\ "remove" \notin Writes /\ "recheck" \notin Writes
      /\ "create" \in Writes /\ "update" \in Writes
  BY DEF Effects, Mutations, Writes
<1>3. ASSUME NEW kind, NEW id, NEW new \in Apps, Sends(kind, id, new)
      PROVE  /\ wire' = wire \cup {Request(sent + 1, kind, id, None)}
             /\ sent' = sent + 1 /\ UNCHANGED <<server, mount>> /\ app' # None
             /\ app' = [new EXCEPT !.sure = app'.sure]
             /\ app'.sure = (new.sure /\ QuietBut({}) /\ ~app.loading)
  <2>1. app' # None
    BY <1>1, <1>3 DEF Sends, Sound, Typed, TypeOK
  <2> QED BY <1>3, <2>1 DEF Sends, Apps
<1>4. \A kind, id : LET q == Request(sent + 1, kind, id, None) IN
        q.n = sent + 1 /\ q.mount = mount /\ q.answer = None /\ q.kind = kind
  BY DEF Request
<1>5. CASE Save
  <2> DEFINE kind == IF app.form.route = None THEN "create" ELSE "update"
             id == IF app.form.route = None THEN None ELSE app.form.route.id
             form == [app.form EXCEPT !.op = "submitting", !.request = sent + 1]
             new == [app EXCEPT !.form = form]
             q == Request(sent + 1, kind, id, None)
  <2>1. Sends(kind, id, new) /\ app.form.open /\ app.form.op \in {"idle", "error"}
    BY <1>1, <1>5 DEF Save, Apps
  <2>2. form \in Forms /\ form.op = "submitting" /\ form.request = sent + 1
        /\ form.open = app.form.open /\ form.since = app.form.since
    <3>1. sent + 1 \in Nat
      BY <1>1 DEF Typed, TypeOK
    <3> QED BY <1>1, <3>1 DEF Forms
  <2>a. kind \in Writes /\ kind \in Effects
    BY <1>2
  <2> HIDE DEF form, kind, id
  <2>3. new \in Apps
    BY <1>1, <2>2 DEF Apps
  <2>4. /\ wire' = wire \cup {q} /\ sent' = sent + 1
        /\ UNCHANGED <<server, mount>> /\ app' # None
        /\ app' = [new EXCEPT !.sure = app'.sure]
        /\ app'.sure = (new.sure /\ QuietBut({}) /\ ~app.loading)
    BY <1>3, <2>1, <2>3
  <2>5. q.n = sent + 1 /\ q.mount = mount /\ q.answer = None /\ q.kind = kind
    BY <1>4
  <2> HIDE DEF q
  <2>6. /\ app'.load = app.load /\ app'.loading = app.loading /\ app'.errors = app.errors
        /\ app'.at = app.at /\ app'.owed = app.owed
        /\ app'.rows = app.rows /\ app'.deleting = app.deleting /\ app'.form = form
        /\ new.sure = app.sure
    BY <1>1, <2>4 DEF Apps
  <2>7. Sent(q)
    BY <2>1, <2>2, <2>a, <2>4, <2>5, <2>6 DEF Sent
  <2> QED BY <2>7
<1>6. CASE Confirm
  <2> DEFINE q == Request(sent + 1, "remove", app.deleting.id, None)
  <2>1. Sends("remove", app.deleting.id, app) /\ app.deleting # None
    BY <1>6 DEF Confirm
  <2>2. /\ wire' = wire \cup {q} /\ sent' = sent + 1
        /\ UNCHANGED <<server, mount>> /\ app' # None
        /\ app' = [app EXCEPT !.sure = app'.sure]
        /\ app'.sure = (app.sure /\ QuietBut({}) /\ ~app.loading)
    BY <1>1, <1>3, <2>1
  <2>3. q.n = sent + 1 /\ q.mount = mount /\ q.answer = None /\ q.kind = "remove"
    BY <1>4
  <2> HIDE DEF q
  <2>4. /\ app'.load = app.load /\ app'.loading = app.loading /\ app'.errors = app.errors
        /\ app'.at = app.at /\ app'.owed = app.owed
        /\ app'.rows = app.rows /\ app'.deleting = app.deleting /\ app'.form = app.form
    BY <1>1, <2>2 DEF Apps
  <2>5. Sent(q)
    BY <1>2, <2>1, <2>2, <2>3, <2>4 DEF Sent
  <2> QED BY <2>5
<1>7. CASE Recheck
  <2> DEFINE new == [app EXCEPT !.checking = sent + 1]
             q == Request(sent + 1, "recheck", app.detail.id, None)
  <2>1. Sends("recheck", app.detail.id, new) /\ ~app.form.open
    BY <1>7 DEF Recheck, Shown, Uncovered
  <2>2. new \in Apps
    BY <1>1 DEF Apps, Typed, TypeOK
  <2>3. /\ wire' = wire \cup {q} /\ sent' = sent + 1
        /\ UNCHANGED <<server, mount>> /\ app' # None
        /\ app' = [new EXCEPT !.sure = app'.sure]
        /\ app'.sure = (new.sure /\ QuietBut({}) /\ ~app.loading)
    BY <1>3, <2>1, <2>2
  <2>4. q.n = sent + 1 /\ q.mount = mount /\ q.answer = None /\ q.kind = "recheck"
    BY <1>4
  <2> HIDE DEF q
  <2>5. /\ app'.load = app.load /\ app'.loading = app.loading /\ app'.errors = app.errors
        /\ app'.at = app.at /\ app'.owed = app.owed
        /\ app'.rows = app.rows /\ app'.deleting = app.deleting /\ app'.form = app.form
        /\ new.sure = app.sure
    BY <1>1, <2>3 DEF Apps
  <2>6. Sent(q)
    BY <1>2, <2>1, <2>3, <2>4, <2>5 DEF Sent
  <2> QED BY <2>6
<1> QED BY <1>5, <1>6, <1>7

\* A load of the live App goes out; done has been answered.
Reloads(done) ==
  /\ wire' = (wire \ done) \cup Load(sent + 1, mount) /\ sent' = sent + 1
  /\ UNCHANGED <<server, mount>> /\ app' # None
  /\ app'.load = sent + 1 /\ app'.loading /\ app'.form = app.form
  /\ app'.rows = app.rows /\ app'.deleting \in {app.deleting, None}
  /\ app'.sure = (QuietBut(done) /\ ~app.form.open)
  /\ \/ app'.owed = app.owed
     \/ \E r \in wire : r.answer # None /\ app'.owed = r.answer.at

LEMMA RetryShape ==
  ASSUME Sound, Sound', Retry
  PROVE  Reloads({})
<1>1. app \in Apps /\ gate = "authenticated"
  BY AppOwn
<1>2. app' = Reloaded(app, sent + 1, QuietBut({})) /\ app' # None
  BY <1>1 DEF Retry, Sound, Typed, TypeOK
<1>3. /\ app'.load = sent + 1 /\ app'.loading /\ app'.form = app.form
      /\ app'.rows = app.rows /\ app'.deleting = app.deleting /\ app'.owed = app.owed
      /\ app'.sure = (QuietBut({}) /\ ~app.form.open)
  BY <1>1, <1>2 DEF Reloaded, Apps
<1> QED BY <1>2, <1>3 DEF Retry, Reloads

\* The answer of one operation is handled, and nothing loads again.
Handles(r) ==
  /\ r \in wire /\ r.answer \in Answers /\ r.mount = mount
  /\ wire' = wire \ {r} /\ UNCHANGED <<server, sent, mount>> /\ app' # None
  /\ app'.load = app.load /\ app'.loading = app.loading /\ app'.errors = app.errors
  /\ app'.at = app.at /\ app'.owed = app.owed
  /\ app'.deleting \in {app.deleting, None}

SavedHere(r) ==
  /\ r.kind \in Writes /\ app.form.open /\ app.form.request = r.n
  /\ app'.form.open /\ app'.form.since = app.form.since
  /\ app'.form.op = Outcome(r.answer)
  /\ r.answer.route # None => app'.form.result = r.answer.route
  /\ app'.rows = app.rows
  /\ app'.sure = (app.sure /\ r.answer.code = "ok")

\* Nothing is known of the list after it.
Unsure(r) ==
  /\ r.kind \in Writes => ~(app.form.open /\ app.form.request = r.n)
  /\ app'.form = app.form /\ app'.rows = app.rows /\ app'.sure = FALSE

RemovedHere(r) ==
  /\ r.kind = "remove" /\ r.answer.code = "ok" /\ r.answer.result = "success"
  /\ app'.form = app.form /\ app'.sure = app.sure
  /\ app'.rows = Removed(app.rows, r.id)

RecheckedHere(r) ==
  /\ r.kind = "recheck" /\ app'.form = app.form /\ app'.sure = app.sure
  /\ app'.rows = IF r.answer.route = None THEN app.rows
                 ELSE Rechecked(app.rows, r.answer.route)

LEMMA ToldShape ==
  ASSUME Sound, Sound', Told
  PROVE  \E r \in wire :
           /\ r.kind \in Effects
           /\ \/ Reloads({r})
              \/ Handles(r) /\ (SavedHere(r) \/ Unsure(r) \/ RemovedHere(r)
                                  \/ RecheckedHere(r))
<1>1. app \in Apps /\ app.form \in Forms /\ gate = "authenticated" /\ Typed
  BY AppOwn DEF Sound
<1>2. app' # None
  BY <1>1 DEF Told, OnSaved, OnRemoved, OnRechecked, Sound, Typed, TypeOK
<1>3. PICK r \in wire : OnSaved(r) \/ OnRemoved(r) \/ OnRechecked(r)
  BY DEF Told
<1>4. r.answer \in Answers /\ r.answer # None /\ r.mount = mount /\ UNCHANGED <<server, mount>>
  BY <1>1, <1>3, AnswerShape DEF OnSaved, OnRemoved, OnRechecked, Live, Handled
<1>5. CASE OnSaved(r)
  <2> DEFINE a == r.answer
             result == IF a.route # None THEN a.route ELSE app.form.result
             form == [app.form EXCEPT !.op = Outcome(a), !.result = result]
             sure == app.sure /\ a.code = "ok"
  <2>1. r.kind \in Writes /\ r.kind \in Effects /\ wire' = wire \ {r} /\ sent' = sent
    BY <1>5 DEF OnSaved, Writes, Effects, Mutations
  <2>2. CASE app.form.open /\ app.form.request = r.n
    <3>1. app' = [app EXCEPT !.form = form, !.sure = sure]
      <4>1. app' = [app EXCEPT !.form.op = Outcome(a), !.form.result = result, !.sure = sure]
        BY <1>1, <1>5, <2>2 DEF OnSaved, Apps, Forms
      <4> QED BY <1>1, <4>1 DEF Apps, Forms
    <3>2. form.open = app.form.open /\ form.since = app.form.since
          /\ form.op = Outcome(a) /\ form.result = result
      BY <1>1 DEF Forms
    <3> HIDE DEF form, sure
    <3>3. /\ app'.load = app.load /\ app'.loading = app.loading /\ app'.errors = app.errors
          /\ app'.at = app.at /\ app'.owed = app.owed /\ app'.deleting = app.deleting
          /\ app'.form = form /\ app'.rows = app.rows /\ app'.sure = sure
      BY <1>1, <3>1 DEF Apps
    <3>4. Handles(r)
      BY <1>2, <1>4, <2>1, <3>3 DEF Handles
    <3>5. SavedHere(r)
      BY <2>1, <2>2, <3>2, <3>3 DEF SavedHere, sure
    <3> QED BY <2>1, <3>4, <3>5
  <2>3. CASE ~(app.form.open /\ app.form.request = r.n)
    <3>1. app' = [app EXCEPT !.sure = FALSE]
      BY <1>5, <2>3 DEF OnSaved
    <3>2. /\ app'.load = app.load /\ app'.loading = app.loading /\ app'.errors = app.errors
          /\ app'.at = app.at /\ app'.owed = app.owed /\ app'.deleting = app.deleting
          /\ app'.form = app.form /\ app'.rows = app.rows /\ app'.sure = FALSE
      BY <1>1, <3>1 DEF Apps
    <3> QED BY <1>2, <1>4, <2>1, <2>3, <3>2 DEF Handles, Unsure
  <2> QED BY <2>2, <2>3
<1>6. CASE OnRemoved(r)
  <2>0. r.kind = "remove" /\ r.kind \in Effects /\ r.kind \notin Writes
    BY <1>6 DEF OnRemoved, Effects, Mutations, Writes
  <2>1. CASE r.answer.code = "error"
    <3>1. /\ app' = [app EXCEPT !.notice = "failed", !.deleting = None, !.sure = FALSE]
          /\ wire' = wire \ {r} /\ sent' = sent
      BY <1>6, <2>1 DEF OnRemoved
    <3>2. /\ app'.load = app.load /\ app'.loading = app.loading /\ app'.errors = app.errors
          /\ app'.at = app.at /\ app'.owed = app.owed /\ app'.deleting = None
          /\ app'.form = app.form /\ app'.rows = app.rows /\ app'.sure = FALSE
      BY <1>1, <3>1 DEF Apps
    <3> QED BY <1>2, <1>4, <2>0, <3>1, <3>2 DEF Handles, Unsure
  <2>2. CASE r.answer.code = "ok" /\ r.answer.result = "success"
    <3> DEFINE rows == Removed(app.rows, r.id)
    <3>1. /\ app' = [app EXCEPT !.notice = "success", !.deleting = None, !.rows = rows]
          /\ wire' = wire \ {r} /\ sent' = sent
      BY <1>1, <1>6, <2>2 DEF OnRemoved, Apps
    <3> HIDE DEF rows
    <3>2. /\ app'.load = app.load /\ app'.loading = app.loading /\ app'.errors = app.errors
          /\ app'.at = app.at /\ app'.owed = app.owed /\ app'.deleting = None
          /\ app'.form = app.form /\ app'.rows = rows /\ app'.sure = app.sure
      BY <1>1, <3>1 DEF Apps
    <3>3. RemovedHere(r)
      BY <2>0, <2>2, <3>2 DEF RemovedHere, rows
    <3> QED BY <1>2, <1>4, <2>0, <3>1, <3>2, <3>3 DEF Handles
  <2>3. CASE r.answer.code = "ok" /\ r.answer.result # "success"
    <3> DEFINE b == Reloaded(app, sent + 1, QuietBut({r}))
    <3>1. /\ app' = [b EXCEPT !.notice = r.answer.result, !.deleting = None,
                              !.owed = r.answer.at]
          /\ sent' = sent + 1 /\ wire' = (wire \ {r}) \cup Load(sent + 1, mount)
      BY <1>6, <2>3 DEF OnRemoved
    <3>2. /\ b \in Apps /\ b.load = sent + 1 /\ b.loading /\ b.form = app.form
          /\ b.rows = app.rows
          /\ b.sure = (QuietBut({r}) /\ ~app.form.open)
      <4>1. b \in Apps
        BY <1>1, QuietType, ReloadedType DEF Typed, TypeOK
      <4> QED BY <1>1, <4>1 DEF Reloaded, Apps
    <3> HIDE DEF b
    <3>3. /\ app'.load = sent + 1 /\ app'.loading /\ app'.form = app.form
          /\ app'.sure = (QuietBut({r}) /\ ~app.form.open)
          /\ app'.rows = app.rows /\ app'.deleting = None /\ app'.owed = r.answer.at
      BY <3>1, <3>2 DEF Apps
    <3>4. Reloads({r})
      BY <1>2, <1>3, <1>4, <3>1, <3>3 DEF Reloads
    <3> QED BY <2>0, <3>4
  <2> QED BY <1>6, <2>1, <2>2, <2>3 DEF OnRemoved
<1>7. CASE OnRechecked(r)
  <2> DEFINE checking == IF app.checking = r.n THEN 0 ELSE app.checking
             b == [app EXCEPT !.checking = checking]
             rows == Rechecked(app.rows, r.answer.route)
  <2>0. r.kind = "recheck" /\ r.kind \in Effects /\ wire' = wire \ {r} /\ sent' = sent
    BY <1>7 DEF OnRechecked, Effects
  <2>1. app' = IF r.answer.route = None THEN b
               ELSE [b EXCEPT !.detail = r.answer.route, !.rows = rows]
    BY <1>1, <1>7 DEF OnRechecked, Apps
  <2> HIDE DEF checking, rows
  <2>2. /\ app'.load = app.load /\ app'.loading = app.loading /\ app'.errors = app.errors
        /\ app'.at = app.at /\ app'.owed = app.owed /\ app'.deleting = app.deleting
        /\ app'.form = app.form /\ app'.sure = app.sure
        /\ app'.rows = IF r.answer.route = None THEN app.rows ELSE rows
    BY <1>1, <2>1 DEF Apps
  <2>3. RecheckedHere(r)
    BY <2>0, <2>2 DEF RecheckedHere, rows
  <2> QED BY <1>2, <1>4, <2>0, <2>2, <2>3 DEF Handles
<1> QED BY <1>3, <1>5, <1>6, <1>7

\* The own load of the App ends.
LoadEnds ==
  /\ wire' = wire \ {r \in wire : r.kind = "get" /\ r.n = app.load}
  /\ UNCHANGED <<server, sent, mount>> /\ app' # None
  /\ app'.load = app.load /\ ~app'.loading /\ app'.owed = app.owed
  /\ app'.form = app.form /\ app'.deleting = app.deleting
  /\ \A r \in wire : r.kind = "get" /\ r.n = app.load => r.mount = mount
  /\ \E r \in wire : r.kind = "get" /\ r.n = app.load
  /\ (app'.errors = {} \/ app'.sure) =>
       /\ app'.sure => app.sure
       /\ \E r \in wire :
            /\ r.kind = "get" /\ r.n = app.load /\ r.section = "Routes"
            /\ r.answer # None /\ r.answer.code = "ok" /\ app'.at = r.answer.at
       /\ \A x : x \in app'.rows <=>
            \E r \in wire :
              /\ r.kind = "get" /\ r.n = app.load /\ r.section = "Routes"
              /\ r.answer # None /\ r.answer.code = "ok" /\ x \in r.answer.rows

LEMMA SettledShape ==
  ASSUME Sound, Sound', Settled
  PROVE  LoadEnds
<1>1. app \in Apps /\ gate = "authenticated" /\ Typed
  BY AppOwn DEF Sound
<1>2. PICK n \in Loads : Settle(n) /\ Active(n)
  BY DEF Settled
<1> DEFINE run == {r \in wire : r.kind = "get" /\ r.n = n}
           good == {r \in run : r.answer.code = "ok"}
           loaded == {r.section : r \in good}
           fresh == {r \in good : r.section = "Routes"}
           rows == IF fresh = {} THEN app.rows ELSE UNION {r.answer.rows : r \in fresh}
           at == IF fresh = {} THEN app.at ELSE (CHOOSE r \in fresh : TRUE).answer.at
           errors == Sections \ loaded
           failed == loaded = {}
           mock == app.mock \ loaded
           sure == app.sure /\ fresh # {}
<1>3. n = app.load
  BY <1>2 DEF Active
<1>4. /\ \A r \in run : Handled(r) /\ Live(r)
      /\ wire' = wire \ run
      /\ UNCHANGED <<server, sent, gate, told, busy, mount, expiries>>
      /\ \E r \in run : TRUE
  BY <1>2 DEF Settle, Loads
<1>5. app' = [app EXCEPT !.loading = FALSE, !.errors = errors, !.failed = failed,
                         !.mock = mock, !.rows = rows, !.at = at, !.sure = sure]
  BY <1>1, <1>2 DEF Settle, Apps
<1>6. "Routes" \in Sections
  BY DEF Sections
<1>7. errors = {} \/ sure => fresh # {}
  BY <1>6
<1>8. fresh # {} => \E r \in fresh : at = r.answer.at
  OBVIOUS
<1>9. fresh # {} => rows = UNION {r.answer.rows : r \in fresh}
  OBVIOUS
<1>10. \A r \in fresh : r.answer # None /\ r \in wire /\ r.kind = "get" /\ r.n = app.load
                        /\ r.section = "Routes" /\ r.answer.code = "ok"
  BY <1>3, <1>4 DEF Handled
<1>11. sure => app.sure
  OBVIOUS
<1>12. \A r \in wire : /\ r.kind = "get" /\ r.n = app.load /\ r.section = "Routes"
                       /\ r.answer.code = "ok"
                       => r \in fresh
  BY <1>3
<1>13. \A r \in run : r.mount = mount
  BY <1>4 DEF Live
<1> HIDE DEF rows, at, errors, failed, mock, sure
<1>14. /\ app'.load = app.load /\ ~app'.loading /\ app'.owed = app.owed
       /\ app'.form = app.form /\ app'.deleting = app.deleting
       /\ app'.errors = errors /\ app'.at = at /\ app'.rows = rows /\ app'.sure = sure
  BY <1>1, <1>5 DEF Apps
<1>15. app' # None
  BY <1>1, <1>4 DEF Sound, Typed, TypeOK
<1>16. (errors = {} \/ sure) =>
         \A x : x \in rows <=> \E r \in fresh : x \in r.answer.rows
  BY <1>7, <1>9
<1> QED BY <1>3, <1>4, <1>7, <1>8, <1>10, <1>11, <1>12, <1>13, <1>14, <1>15, <1>16
        DEF LoadEnds

\* A new App under the gate.
LEMMA OpenedShape ==
  ASSUME Sound, Opened
  PROVE  \E r \in wire :
           /\ wire' = (wire \ {r}) \cup Load(sent + 1, mount + 1) /\ sent' = sent + 1
           /\ SameServer /\ mount' = mount + 1 /\ r.kind \notin Effects
           /\ app'.load = sent + 1 /\ app'.loading /\ ~app'.form.open
           /\ app'.owed = 0 /\ app'.deleting = None /\ app'.sure = QuietBut({})
BY DEF Opened, Mount, Fresh, NoForm

-----------------------------------------------------------------------------
(* Which request the open form waits for.                                  *)

\* Of what was sent since a form was opened, only its own operation writes.
Waiting ==
  app # None /\ app.form.open =>
    \A r \in wire : r.kind \in Writes /\ r.mount = mount /\ r.n >= app.form.since =>
      app.form.op = "submitting" /\ r.n = app.form.request

\* Every write on the wire was there before.
WritesKept ==
  \A q \in wire' : q.kind \in Writes =>
    \E r \in wire : r.kind = q.kind /\ r.n = q.n /\ r.mount = q.mount

LEMMA WaitingKept ==
  ASSUME Waiting, WritesKept, app # None, app'.form = app.form, mount' = mount
  PROVE  Waiting'
BY DEF Waiting, WritesKept

LEMMA LoadWrites ==
  ASSUME NEW n, NEW m, NEW q \in Load(n, m)
  PROVE  q.kind = "get" /\ q.kind \notin Writes /\ q.kind \notin Effects
         /\ q.n = n /\ q.mount = m /\ q.answer = None
BY DEF Load, Writes, Effects, Mutations

LEMMA WaitingStep == Sound /\ Sound' /\ Waiting /\ [Next]_vars => Waiting'
<1> SUFFICES ASSUME Sound, Sound', Waiting, [Next]_vars PROVE Waiting'
  OBVIOUS
<1>0. Typed /\ sent \in Nat /\ \A r \in wire : r \in Requests /\ r.n \in Nat /\ r.n <= sent
  BY DEF Sound, Typed, TypeOK, Numbered, Requests
<1>1. CASE Idle
  <2>1. WritesKept
    BY <1>1 DEF Idle, WritesKept, Writes, Public
  <2> QED BY <1>1, <2>1, WaitingKept DEF Idle, Waiting
<1>2. CASE Closed
  BY <1>2 DEF Closed, Waiting
<1>3. CASE Opened
  BY <1>3, OpenedShape DEF Waiting
<1>4. CASE Answered
  <2>1. PICK r \in wire, a \in Answers : Served(r, a)
    BY <1>4 DEF Answered
  <2>2. /\ [r EXCEPT !.answer = a].kind = r.kind /\ [r EXCEPT !.answer = a].n = r.n
        /\ [r EXCEPT !.answer = a].mount = r.mount
    BY <1>0 DEF Requests
  <2>3. WritesKept /\ mount' = mount /\ app' = app
    BY <2>1, <2>2 DEF Served, WritesKept
  <2> QED BY <2>3, WaitingKept DEF Waiting
<1>5. CASE Settled
  <2>1. LoadEnds /\ app # None
    BY <1>5, SettledShape, AppOwn
  <2> QED BY <2>1, WaitingKept DEF LoadEnds, WritesKept
<1>6. CASE Told
  <2>1. app # None /\ app.form \in Forms
    BY <1>6, AppOwn
  <2>2. PICK r \in wire :
           /\ r.kind \in Effects
           /\ \/ Reloads({r})
              \/ Handles(r) /\ (SavedHere(r) \/ Unsure(r) \/ RemovedHere(r)
                                  \/ RecheckedHere(r))
    BY <1>6, ToldShape
  <2>3. CASE Reloads({r})
    <3>1. WritesKept
      BY <2>3, LoadWrites DEF Reloads, WritesKept
    <3> QED BY <2>1, <2>3, <3>1, WaitingKept DEF Reloads
  <2>4. CASE Handles(r) /\ app'.form = app.form
    BY <2>1, <2>4, WaitingKept DEF Handles, WritesKept
  <2>5. CASE Handles(r) /\ SavedHere(r)
    <3>1. ASSUME NEW q \in wire', q.kind \in Writes, q.mount = mount',
                 q.n >= app'.form.since
          PROVE  FALSE
      <4>1. q \in wire /\ q # r /\ q.n = app.form.request
        BY <2>1, <2>5, <3>1 DEF Handles, SavedHere, Waiting
      <4>2. q.n = r.n /\ q.kind # "get"
        BY <2>5, <3>1, <4>1 DEF SavedHere, Writes
      <4> QED BY <1>0, <4>1, <4>2 DEF Typed, Numbered
    <3> QED BY <3>1 DEF Waiting
  <2> QED BY <2>2, <2>3, <2>4, <2>5 DEF Unsure, RemovedHere, RecheckedHere
<1>7. CASE Turned
  <2>1. app # None /\ UNCHANGED <<wire, mount>>
    BY <1>7, AppOwn, TurnedShape
  <2>2. CASE Browsed
    BY <2>1, <2>2, WaitingKept DEF Browsed, WritesKept
  <2>3. CASE Dismissed \/ Finished
    BY <2>3 DEF Dismissed, Finished, Waiting
  <2>4. CASE Started
    BY <1>0, <2>1, <2>4 DEF Started, Waiting
  <2> QED BY <1>7, <2>2, <2>3, <2>4, TurnedShape
<1>8. CASE Retry
  <2>1. Reloads({}) /\ app # None
    BY <1>8, RetryShape, AppOwn
  <2>2. WritesKept
    BY <2>1, LoadWrites DEF Reloads, WritesKept
  <2> QED BY <2>1, <2>2, WaitingKept DEF Reloads
<1>9. CASE Save \/ Confirm \/ Recheck
  <2>1. PICK q : Sent(q)
    BY <1>9, SentShape
  <2>2. app # None
    BY <1>9, AppOwn
  <2>3. CASE q.kind \notin Writes
    BY <2>1, <2>2, <2>3, WaitingKept DEF Sent, WritesKept
  <2>4. CASE q.kind \in Writes
    <3>1. app.form.open /\ app.form.op # "submitting" /\ app'.form.since = app.form.since
          /\ app'.form.op = "submitting" /\ app'.form.request = q.n
      BY <2>1, <2>4 DEF Sent
    <3>2. \A r \in wire : ~(r.kind \in Writes /\ r.mount = mount /\ r.n >= app.form.since)
      BY <2>2, <3>1 DEF Waiting
    <3>3. wire' = wire \cup {q} /\ mount' = mount
      BY <2>1 DEF Sent
    <3> QED BY <3>1, <3>2, <3>3 DEF Waiting
  <2> QED BY <2>3, <2>4
<1> QED BY <1>1, <1>2, <1>3, <1>4, <1>5, <1>6, <1>7, <1>8, <1>9, StepKinds

(* However dialogs are closed and opened again while answers are on their    *)
(* way, an open form has at most one operation under way: Save creates once. *)
THEOREM NeverTwoOperations == Spec => []OneOperationPerForm
<1>1. Init => Waiting
  BY DEF Init, Waiting
<1>2. Waiting => OneOperationPerForm
  BY DEF Waiting, OneOperationPerForm, Writes
<1> QED BY <1>1, <1>2, WaitingStep, SoundAlways, PTL DEF Spec

-----------------------------------------------------------------------------
(* What a load that is still under way will bring.                         *)

Own(r) == r.kind = "get" /\ r.mount = mount /\ r.n = app.load

\* The skeleton is shown as long as the App's own load is under way.
Pending == app # None => \A r \in wire : Own(r) => app.loading

\* No answer is from the future; nor is the deletion to be seen.
Past == /\ \A r \in wire : r.answer # None => r.answer.at <= server.time
        /\ app # None => app.owed <= server.time

\* The load asked for after a deletion is answered after it.
SeesOwed ==
  app # None => \A r \in wire : Own(r) /\ r.answer # None => app.owed <= r.answer.at

Loaded == Pending /\ Past /\ SeesOwed /\ PartialDeleteReconciled

\* New requests have no answer, and those of the App's own load are not new.
LoadsKept ==
  /\ \A q \in wire' : q \in wire \/ (q.answer = None /\ (q.kind # "get" \/ q.n # app'.load))
  /\ server'.time = server.time

LEMMA LoadedKept ==
  ASSUME Loaded, LoadsKept, app # None, mount' = mount, app'.load = app.load,
         app'.loading = app.loading, app'.errors = app.errors, app'.at = app.at,
         app'.owed = app.owed
  PROVE  Loaded'
BY DEF Loaded, LoadsKept, Pending, Past, SeesOwed, PartialDeleteReconciled, Own

LEMMA LoadedReload ==
  ASSUME Loaded, Sound, app # None, NEW done, Reloads(done)
  PROVE  Loaded'
<1>1. Typed /\ sent \in Nat /\ \A r \in wire : r \in Requests /\ r.n \in Nat /\ r.n <= sent
  BY DEF Sound, Typed, TypeOK, Numbered, Requests
<1>2. \A q \in wire' : q \in wire \/ (q.answer = None /\ q.n = sent + 1)
  BY LoadWrites DEF Reloads
<1>3. app'.loading /\ server' = server /\ app'.load = sent + 1
  BY DEF Reloads
<1>4. app'.owed <= server.time
  BY DEF Reloads, Loaded, Past
<1>5. \A q \in wire' : q.n = app'.load => q.answer = None
  BY <1>1, <1>2, <1>3
<1> QED BY <1>2, <1>3, <1>4, <1>5
        DEF Loaded, Pending, Past, SeesOwed, PartialDeleteReconciled, Own

LEMMA LoadedStep == Sound /\ Sound' /\ Loaded /\ [Next]_vars => Loaded'
<1> SUFFICES ASSUME Sound, Sound', Loaded, [Next]_vars PROVE Loaded'
  OBVIOUS
<1>0. /\ Typed /\ sent \in Nat /\ server.time \in Nat
      /\ \A r \in wire : r \in Requests /\ r.n \in Nat /\ r.n <= sent
  BY DEF Sound, Typed, TypeOK, Numbered, Requests
<1>1. CASE Idle
  <2>1. UNCHANGED <<app, mount>> /\ server'.time = server.time
    BY <1>1 DEF Idle, SameServer
  <2>2. \A q \in wire' : q \in wire \/ (q.answer = None /\ q.kind # "get")
    BY <1>1, Kinds DEF Idle
  <2> QED BY <2>1, <2>2 DEF Loaded, Pending, Past, SeesOwed, PartialDeleteReconciled, Own
<1>2. CASE Closed
  BY <1>2 DEF Closed, SameServer, Loaded, Pending, Past, SeesOwed, PartialDeleteReconciled
<1>3. CASE Opened
  <2>1. PICK r \in wire :
           /\ wire' = (wire \ {r}) \cup Load(sent + 1, mount + 1) /\ sent' = sent + 1
           /\ SameServer /\ mount' = mount + 1 /\ r.kind \notin Effects
           /\ app'.load = sent + 1 /\ app'.loading /\ ~app'.form.open
           /\ app'.owed = 0 /\ app'.deleting = None /\ app'.sure = QuietBut({})
    BY <1>3, OpenedShape
  <2>2. \A q \in wire' : q \in wire \/ (q.answer = None /\ q.n = sent + 1)
    BY <2>1, LoadWrites
  <2>3. \A q \in wire' : q.n = app'.load => q.answer = None
    BY <1>0, <2>1, <2>2
  <2>4. server'.time = server.time /\ app'.owed <= server.time
    BY <1>0, <2>1 DEF SameServer
  <2> QED BY <2>1, <2>2, <2>3, <2>4
          DEF Loaded, Pending, Past, SeesOwed, PartialDeleteReconciled, Own
<1>4. CASE Answered
  <2>1. PICK r \in wire, a \in Answers : Served(r, a)
    BY <1>4 DEF Answered
  <2> DEFINE q == [r EXCEPT !.answer = a]
  <2>2. q.kind = r.kind /\ q.n = r.n /\ q.mount = r.mount /\ q.answer = a
    BY <1>0 DEF Requests
  <2>3. wire' = (wire \ {r}) \cup {q} /\ mount' = mount /\ app' = app
        /\ a.at = server'.time /\ server.time <= server'.time /\ server'.time \in Nat
    BY <2>1 DEF Served, Servers
  <2> HIDE DEF q
  <2>4. app # None => app.owed \in Nat
    BY <1>0 DEF Typed, TypeOK, Apps
  <2>5. \A x \in wire : x.answer # None => x.answer.at \in Nat
    BY <1>0 DEF Requests, Answers
  <2>6. Past'
    BY <1>0, <2>2, <2>3, <2>4, <2>5 DEF Loaded, Past
  <2>7. SeesOwed'
    BY <1>0, <2>2, <2>3, <2>4 DEF Loaded, Past, SeesOwed, Own
  <2>8. Pending' /\ PartialDeleteReconciled'
    BY <2>2, <2>3 DEF Loaded, Pending, PartialDeleteReconciled, Own
  <2> QED BY <2>6, <2>7, <2>8 DEF Loaded
<1>5. CASE Settled
  <2>1. LoadEnds /\ app # None
    BY <1>5, SettledShape, AppOwn
  <2>2. \A r \in wire' : ~Own(r)'
    BY <2>1 DEF LoadEnds, Own
  <2>3. Past'
    BY <2>1 DEF LoadEnds, Loaded, Past
  <2>4. app'.errors = {} => app'.at >= app'.owed
    <3> SUFFICES ASSUME app'.errors = {} PROVE app'.owed <= app'.at
      <4>1. app'.owed \in Nat /\ app'.at \in Nat
        BY <2>1 DEF LoadEnds, Sound, Typed, TypeOK, Apps
      <4> QED BY <4>1
    <3>1. PICK r \in wire : /\ r.kind = "get" /\ r.n = app.load /\ r.mount = mount
                            /\ r.answer # None /\ app'.at = r.answer.at
      BY <2>1 DEF LoadEnds
    <3>2. app'.owed = app.owed
      BY <2>1 DEF LoadEnds
    <3> QED BY <2>1, <3>1, <3>2 DEF Loaded, SeesOwed, Own
  <2> QED BY <2>2, <2>3, <2>4 DEF Loaded, Pending, SeesOwed, PartialDeleteReconciled
<1>6. CASE Told
  <2>1. app # None
    BY <1>6, AppOwn
  <2>2. PICK r \in wire : Reloads({r}) \/ Handles(r)
    BY <1>6, ToldShape
  <2>3. CASE Handles(r)
    BY <2>1, <2>3, LoadedKept DEF Handles, LoadsKept
  <2> QED BY <2>1, <2>2, <2>3, LoadedReload
<1>7. CASE Turned
  BY <1>7, AppOwn, TurnedShape, LoadedKept DEF LoadsKept
<1>8. CASE Retry
  BY <1>8, AppOwn, RetryShape, LoadedReload
<1>9. CASE Save \/ Confirm \/ Recheck
  <2>1. PICK q : Sent(q)
    BY <1>9, SentShape
  <2>2. q.kind # "get"
    BY <2>1, Kinds DEF Sent, Effects
  <2>3. LoadsKept
    BY <2>1, <2>2 DEF Sent, LoadsKept
  <2> QED BY <1>9, <2>1, <2>3, AppOwn, LoadedKept DEF Sent
<1> QED BY <1>1, <1>2, <1>3, <1>4, <1>5, <1>6, <1>7, <1>8, <1>9, StepKinds

LEMMA LoadedInit == Init => Loaded
BY DEF Init, Loaded, Pending, Past, SeesOwed, PartialDeleteReconciled

LEMMA LoadedAlways == Spec => []Loaded
BY LoadedInit, LoadedStep, SoundAlways, PTL DEF Spec

(* After a deletion that failed in part, the list the operator sees next is  *)
(* one the server gave after it, whatever loads and answers cross.           *)
THEOREM PartialDeletesReconciled == Spec => []PartialDeleteReconciled
<1>1. Loaded => PartialDeleteReconciled
  BY DEF Loaded
<1> QED BY <1>1, LoadedAlways, PTL

-----------------------------------------------------------------------------
(* Why a row leaves the list.                                              *)

\* What was answered as deleted is gone, and stays gone.
RemovedIsGone ==
  \A r \in wire : r.kind = "remove" /\ r.answer # None /\ r.answer.code = "ok"
                    /\ r.answer.result = "success" => r.id \in server.gone

LEMMA RemovedIsGoneStep == Sound /\ Sound' /\ RemovedIsGone /\ [Next]_vars => RemovedIsGone'
<1> SUFFICES ASSUME Sound, Sound', RemovedIsGone, [Next]_vars PROVE RemovedIsGone'
  OBVIOUS
<1>0. \A r \in wire : r \in Requests
  BY DEF Sound, Typed, TypeOK
<1>a. ASSUME server'.gone = server.gone,
             \A q \in wire' : q \in wire \/ q.answer = None \/ q.kind # "remove"
      PROVE  RemovedIsGone'
  BY <1>a DEF RemovedIsGone
<1>1. CASE Idle \/ Closed
  BY <1>1, <1>a, Kinds DEF Idle, Closed, SameServer, Public
<1>2. CASE Opened
  BY <1>2, <1>a, OpenedShape, LoadWrites DEF SameServer
<1>3. CASE Answered
  <2>1. PICK r \in wire, a \in Answers : Served(r, a)
    BY <1>3 DEF Answered
  <2>2. /\ [r EXCEPT !.answer = a].kind = r.kind /\ [r EXCEPT !.answer = a].id = r.id
        /\ [r EXCEPT !.answer = a].answer = a
    BY <1>0 DEF Requests
  <2> QED BY <2>1, <2>2 DEF Served, RemovedIsGone
<1>4. CASE Settled
  BY <1>4, <1>a, SettledShape DEF LoadEnds
<1>5. CASE Told
  BY <1>5, <1>a, ToldShape, LoadWrites DEF Reloads, Handles
<1>6. CASE Turned
  BY <1>6, <1>a, TurnedShape
<1>7. CASE Retry
  BY <1>7, <1>a, RetryShape, LoadWrites DEF Reloads
<1>8. CASE Save \/ Confirm \/ Recheck
  BY <1>8, <1>a, SentShape DEF Sent
<1> QED BY <1>1, <1>2, <1>3, <1>4, <1>5, <1>6, <1>7, <1>8, StepKinds

\* The list patches lose no id but the one removed.
LEMMA PatchKeepsIds ==
  ASSUME NEW rows, NEW row, NEW id, NEW x \in rows
  PROVE  /\ \E y \in Saved(rows, row) : y.id = x.id
         /\ \E y \in Rechecked(rows, row) : y.id = x.id
         /\ x.id # id => x \in Removed(rows, id)
BY DEF Saved, Rechecked, Removed

Leaves == {x.id : x \in app.rows} \ {x.id : x \in app'.rows}

LEMMA LeavesStep ==
  ASSUME Sound, Sound', Pending, RemovedIsGone, [Next]_vars,
         app # None, app' # None, mount' = mount, ~app.loading
  PROVE  Leaves \subseteq server.gone
<1>0. mount \in Nat
  BY DEF Sound, Typed, TypeOK
<1>1. CASE app'.rows = app.rows
  BY <1>1 DEF Leaves
<1>2. CASE Opened
  BY <1>0, <1>2, OpenedShape
<1>3. CASE Settled
  <2>1. LoadEnds
    BY <1>3, SettledShape
  <2> QED BY <2>1 DEF LoadEnds, Pending, Own
<1>4. CASE Told
  <2>1. PICK r \in wire :
           /\ r.kind \in Effects
           /\ \/ Reloads({r})
              \/ Handles(r) /\ (SavedHere(r) \/ Unsure(r) \/ RemovedHere(r)
                                  \/ RecheckedHere(r))
    BY <1>4, ToldShape
  <2>2. CASE Reloads({r})
    BY <1>1, <2>2 DEF Reloads
  <2>3. CASE Handles(r) /\ RemovedHere(r)
    <3>1. r.id \in server.gone
      BY <2>3, NoRecordAssumption DEF Handles, RemovedHere, RemovedIsGone
    <3>2. app'.rows = Removed(app.rows, r.id)
      BY <2>3 DEF RemovedHere
    <3>3. \A x \in app.rows : x.id # r.id => x \in app'.rows
      BY <3>2 DEF Removed
    <3> QED BY <3>1, <3>3 DEF Leaves
  <2>4. CASE RecheckedHere(r)
    BY <1>1, <2>4, PatchKeepsIds DEF RecheckedHere, Leaves
  <2> QED BY <1>1, <2>1, <2>2, <2>3, <2>4 DEF SavedHere, Unsure
<1>5. CASE Turned
  <2>1. CASE Finished
    <3>1. \A x \in app.rows : \E y \in app'.rows : y.id = x.id
      <4>1. app'.rows = Saved(app.rows, app.form.result)
        BY <2>1 DEF Finished
      <4> QED BY <4>1 DEF Saved
    <3> QED BY <3>1 DEF Leaves
  <2> QED BY <1>1, <1>5, <2>1, TurnedShape DEF Browsed, Dismissed, Started
<1>6. CASE Retry
  BY <1>1, <1>6, RetryShape DEF Reloads
<1>7. CASE Save \/ Confirm \/ Recheck
  BY <1>1, <1>7, SentShape DEF Sent
<1>8. CASE Idle \/ Answered
  BY <1>1, <1>8 DEF Idle, Answered, Served
<1> QED BY <1>2, <1>3, <1>4, <1>5, <1>6, <1>7, <1>8, StepKinds DEF Closed

(* Only what the server has deleted leaves the list without a load: no late  *)
(* answer, and no half deletion, takes a route off the screen.               *)
THEOREM RowsLeaveOnlyIfGone == Spec => RowLeavesOnlyIfGone
<1>1. Init => RemovedIsGone
  BY DEF Init, RemovedIsGone
<1>2. Sound /\ Sound' /\ Loaded /\ RemovedIsGone /\ [Next]_vars =>
        [(app # None /\ app' # None /\ mount' = mount /\ ~app.loading)
           => LET left == {x.id : x \in app.rows} \ {x.id : x \in app'.rows}
              IN left \subseteq server.gone]_vars
  BY LeavesStep DEF Loaded, Leaves
<1> QED BY <1>1, <1>2, RemovedIsGoneStep, SoundAlways, LoadedAlways, PTL
        DEF Spec, RowLeavesOnlyIfGone

-----------------------------------------------------------------------------
(* When the list is the server's.                                          *)

\* The overlay of the form or of the dialog covers the page: never both.
DialogAlone == app # None => ~(app.form.open /\ app.deleting # None)

\* The form has nothing that the list has not.
Blank == ~app.form.open \/ app.form.op \in {"idle", "error"}

\* What the one operation on its way, and its answer, say of the server.
Known(r) ==
  /\ r.mount = mount
  /\ r.answer = None => app.rows = server.rows
  /\ r.kind = "recheck" => /\ app.rows = server.rows
                           /\ r.answer # None /\ r.answer.route # None
                                => r.answer.route \in RowOf(r.id)
  /\ r.kind = "remove" /\ r.answer # None /\ r.answer.code = "ok"
       /\ r.answer.result = "success" => Removed(app.rows, r.id) = server.rows
  /\ r.kind \in Writes /\ r.answer # None /\ r.answer.code = "ok"
       => r.answer.route # None /\ Saved(app.rows, r.answer.route) = server.rows
  /\ r.kind \in Writes => app.form.open /\ app.form.op = "submitting"
                            /\ app.form.request = r.n
  /\ r.kind \notin Writes => Blank

\* While a load is under way nothing else is, and what it got is the list.
SureLoading ==
  /\ QuietBut({}) /\ ~app.form.open
  /\ \A r \in wire : Own(r) /\ r.section = "Routes" /\ r.answer # None
                       /\ r.answer.code = "ok" => r.answer.rows = server.rows

SureLoaded ==
  /\ \A r, q \in wire : r.kind \in Effects /\ q.kind \in Effects => r = q
  /\ \A r \in wire : r.kind \in Effects => Known(r)
  /\ QuietBut({}) => /\ Blank => app.rows = server.rows
                     /\ app.form.open /\ app.form.op \in {"success", "partial_success"}
                          => Saved(app.rows, app.form.result) = server.rows

Sure ==
  app # None /\ app.sure => IF app.loading THEN SureLoading ELSE SureLoaded

Current == DialogAlone /\ Sure

LEMMA QuietMeans == \A done : QuietBut(done) <=> \A r \in wire \ done : r.kind \notin Effects
BY DEF QuietBut, Effects

LEMMA QuietMeansNext == QuietBut({})' <=> \A r \in wire' : r.kind \notin Effects
BY DEF QuietBut, Effects

\* A load goes out, with a sure App only when nothing else is on its way.
LEMMA SureReload ==
  ASSUME Sound, NEW done, Reloads(done)
  PROVE  Sure'
<1>1. Typed /\ sent \in Nat /\ \A r \in wire : r.n \in Nat /\ r.n <= sent
  BY DEF Sound, Typed, TypeOK, Numbered, Requests
<1> SUFFICES ASSUME app'.sure PROVE SureLoading'
  BY DEF Sure, Reloads
<1>2. QuietBut(done) /\ ~app'.form.open /\ app'.load = sent + 1
        /\ wire' = (wire \ done) \cup Load(sent + 1, mount)
  BY DEF Reloads
<1>3. QuietBut({})'
  BY <1>2, LoadWrites, QuietMeans, QuietMeansNext
<1>4. \A q \in wire' : q.n = app'.load => q.answer = None
  BY <1>1, <1>2, LoadWrites
<1> QED BY <1>2, <1>3, <1>4 DEF SureLoading, Own

LEMMA SureIdle == ASSUME Sure, Idle PROVE Sure'
<1> SUFFICES ASSUME app # None, app.sure, app' = app, mount' = mount,
                    server'.rows = server.rows
             PROVE  Sure'
  BY DEF Sure, Idle, SameServer
<1>1. \A q \in wire' : q \in wire \/ (q.kind \notin Effects /\ q.kind # "get")
  BY Kinds DEF Idle, Effects
<1>2. CASE app.loading
  <2>1. SureLoading
    BY <1>2 DEF Sure
  <2>2. QuietBut({})'
    BY <1>1, <2>1, QuietMeans, QuietMeansNext DEF SureLoading
  <2> QED BY <1>1, <1>2, <2>1, <2>2 DEF Sure, SureLoading, Own
<1>3. CASE ~app.loading
  <2>1. SureLoaded
    BY <1>3 DEF Sure
  <2>2. \A r \in wire : r.kind \in Effects => r.mount = mount
    BY <2>1 DEF SureLoaded, Known
  <2>3. \A r \in wire : r.kind \in Effects => r \in wire'
    BY <2>2 DEF Idle
  <2>4. QuietBut({})' => QuietBut({})
    BY <2>3, QuietMeans, QuietMeansNext
  <2>5. \A r \in wire' : r.kind \in Effects => Known(r) /\ r \in wire
    BY <1>1, <2>1 DEF SureLoaded
  <2>6. \A r \in wire' : r.kind \in Effects => Known(r)'
    BY <2>5 DEF Known, Blank, RowOf
  <2> QED BY <1>1, <1>3, <2>1, <2>4, <2>5, <2>6 DEF Sure, SureLoaded, Blank
<1> QED BY <1>2, <1>3

\* The server decides the one request that is on its way.
LEMMA SureServed ==
  ASSUME Sound, Sure, NEW r \in wire, NEW a \in Answers, Served(r, a)
  PROVE  Sure'
<1>1. Typed /\ r \in Requests
  BY DEF Sound, Typed, TypeOK
<1> DEFINE q == [r EXCEPT !.answer = a]
<1>2. q.kind = r.kind /\ q.n = r.n /\ q.mount = r.mount /\ q.answer = a /\ q.id = r.id
      /\ q.section = r.section /\ a # None
  BY <1>1, NoRecordAssumption DEF Requests
<1>3. wire' = (wire \ {r}) \cup {q} /\ mount' = mount /\ app' = app /\ r.answer = None
  BY DEF Served
<1> HIDE DEF q
<1> SUFFICES ASSUME app # None, app.sure PROVE Sure'
  BY <1>3 DEF Sure
<1>4. QuietBut({})' <=> QuietBut({})
  BY <1>2, <1>3, QuietMeans, QuietMeansNext
<1>5. CASE app.loading
  <2>1. SureLoading
    BY <1>5 DEF Sure
  <2>2. r.kind \notin Effects /\ server'.rows = server.rows
    BY <2>1, QuietMeans DEF SureLoading, Served, Effects
  <2>3. \A x \in wire' : Own(x)' /\ x.section = "Routes" /\ x.answer # None
                           /\ x.answer.code = "ok" => x.answer.rows = server'.rows
    BY <1>2, <1>3, <2>1, <2>2 DEF SureLoading, Own, Served
  <2> QED BY <1>3, <1>4, <1>5, <2>1, <2>3 DEF Sure, SureLoading
<1>6. CASE ~app.loading
  <2>1. SureLoaded
    BY <1>6 DEF Sure
  <2>2. CASE r.kind \notin Effects
    <3>1. server'.rows = server.rows
      BY <2>2 DEF Served, Effects
    <3>2. \A x \in wire' : x.kind \in Effects => x \in wire
      BY <1>2, <1>3, <2>2
    <3>3. \A x \in wire' : x.kind \in Effects => Known(x)'
      BY <1>3, <2>1, <3>1, <3>2 DEF SureLoaded, Known, Blank, RowOf
    <3> QED BY <1>3, <1>4, <1>6, <2>1, <3>1, <3>2, <3>3 DEF Sure, SureLoaded, Blank
  <2>3. CASE r.kind \in Effects
    <3>1. Known(r) /\ app.rows = server.rows
      BY <1>3, <2>1, <2>3 DEF SureLoaded, Known
    <3>2. \A x \in wire' : x.kind \in Effects => x = q
      BY <1>3, <2>1, <2>3 DEF SureLoaded
    <3>3. Known(q)'
      <4>1. q.kind = "recheck" => app'.rows = server'.rows
                                  /\ (a.route # None => a.route \in RowOf(q.id)')
        BY <1>2, <1>3, <3>1, Kinds DEF Served, RowOf
      <4>2. q.kind = "remove" /\ a.code = "ok" /\ a.result = "success"
              => Removed(app'.rows, q.id) = server'.rows
        BY <1>2, <1>3, <3>1 DEF Served
      <4>3. q.kind \in Writes /\ a.code = "ok"
              => a.route # None /\ Saved(app'.rows, a.route) = server'.rows
        BY <1>2, <1>3, <3>1 DEF Served, Writes
      <4>4. q.kind \in Writes => app'.form.open /\ app'.form.op = "submitting"
                                   /\ app'.form.request = q.n
        BY <1>2, <1>3, <3>1 DEF Known
      <4>5. q.kind \notin Writes => Blank'
        BY <1>2, <1>3, <3>1 DEF Known, Blank
      <4>6. q.mount = mount'
        BY <1>2, <1>3, <3>1 DEF Known
      <4> QED BY <1>2, <4>1, <4>2, <4>3, <4>4, <4>5, <4>6 DEF Known
    <3>4. ~QuietBut({})'
      BY <1>4, <2>3, QuietMeans
    <3> QED BY <1>3, <1>6, <3>2, <3>3, <3>4 DEF Sure, SureLoaded
  <2> QED BY <2>2, <2>3
<1> QED BY <1>5, <1>6

LEMMA SureSettled ==
  ASSUME Sound, Pending, Sure, app # None, LoadEnds
  PROVE  Sure'
<1> SUFFICES ASSUME app'.sure PROVE Sure'
  BY DEF Sure
<1>1. app.sure /\ app.loading
  BY DEF LoadEnds, Pending, Own
<1>2. SureLoading
  BY <1>1 DEF Sure
<1>3. \A r \in wire' : r.kind \notin Effects
  BY <1>2, QuietMeans DEF SureLoading, LoadEnds
<1>4. ~app'.form.open /\ server' = server
  BY <1>2 DEF SureLoading, LoadEnds
<1>5. app'.rows = server.rows
  <2>1. \A r \in wire : r.kind = "get" /\ r.n = app.load /\ r.section = "Routes"
                        /\ r.answer # None /\ r.answer.code = "ok"
                          => r.answer.rows = server.rows
    BY <1>2 DEF SureLoading, Own, LoadEnds
  <2>2. \A x : x \in app'.rows <=> x \in server.rows
    BY <2>1 DEF LoadEnds
  <2> QED BY <2>2
<1> QED BY <1>3, <1>4, <1>5 DEF LoadEnds, Sure, SureLoaded

\* Writing a row the list has, once more, changes nothing.
LEMMA RecheckedSame ==
  ASSUME Sound, NEW id, NEW row \in RowOf(id)
  PROVE  Rechecked(server.rows, row) = server.rows
BY DEF Sound, Typed, RealRows, RowOf, Rechecked

LEMMA SureHandled ==
  ASSUME Sound, Sure, app # None, NEW r, r.kind \in Effects, Handles(r),
         SavedHere(r) \/ Unsure(r) \/ RemovedHere(r) \/ RecheckedHere(r)
  PROVE  Sure'
<1> SUFFICES ASSUME app'.sure, app.sure PROVE Sure'
  BY DEF Sure, SavedHere, Unsure, RemovedHere, RecheckedHere
<1>1. r \in wire /\ wire' = wire \ {r} /\ server' = server /\ r.answer # None
  BY NoRecordAssumption DEF Handles
<1>2. ~app.loading /\ SureLoaded
  BY <1>1, QuietMeans DEF Sure, SureLoading
<1>3. Known(r) /\ \A q \in wire' : q.kind \notin Effects
  BY <1>1, <1>2 DEF SureLoaded
<1>4. ~app'.loading
  BY <1>2 DEF Handles
<1>5. ASSUME Blank' => app'.rows = server.rows,
             app'.form.open /\ app'.form.op \in {"success", "partial_success"}
               => Saved(app'.rows, app'.form.result) = server.rows
      PROVE  Sure'
  BY <1>1, <1>3, <1>4, <1>5 DEF Sure, SureLoaded
<1>6. CASE SavedHere(r)
  <2>1. r.answer.route # None /\ Saved(app.rows, r.answer.route) = server.rows
    BY <1>1, <1>3, <1>6 DEF SavedHere, Known
  <2>2. app'.form.result = r.answer.route /\ app'.rows = app.rows
        /\ app'.form.op \notin {"idle", "error"} /\ app'.form.open
    BY <1>6, <2>1 DEF SavedHere, Outcome
  <2> QED BY <1>5, <2>1, <2>2 DEF Blank
<1>7. CASE RemovedHere(r)
  <2>1. Blank /\ app'.form = app.form /\ app'.rows = server.rows
    BY <1>1, <1>3, <1>7 DEF RemovedHere, Known, Writes
  <2> QED BY <1>5, <2>1 DEF Blank
<1>8. CASE RecheckedHere(r)
  <2>1. Blank /\ app'.form = app.form /\ app.rows = server.rows
    BY <1>3, <1>8 DEF RecheckedHere, Known, Writes
  <2>2. r.answer.route # None => r.answer.route \in RowOf(r.id)
    BY <1>1, <1>3, <1>8 DEF RecheckedHere, Known
  <2>3. app'.rows = server.rows
    BY <1>8, <2>1, <2>2, RecheckedSame DEF RecheckedHere
  <2> QED BY <1>5, <2>1, <2>3 DEF Blank
<1> QED BY <1>6, <1>7, <1>8 DEF Unsure

LEMMA SureTurned ==
  ASSUME Sound, Sound', Sure, Turned
  PROVE  Sure'
<1>1. /\ UNCHANGED <<server, wire, mount>> /\ app # None
      /\ app'.loading = app.loading /\ app'.load = app.load
      /\ Browsed \/ Dismissed \/ Finished \/ Started
  BY TurnedShape, AppOwn
<1> SUFFICES ASSUME app'.sure, app.sure PROVE Sure'
  BY <1>1 DEF Sure, Browsed, Dismissed, Finished, Started
<1>2. QuietBut({})' <=> QuietBut({})
  BY <1>1, QuietMeans, QuietMeansNext
<1>3. CASE app.loading
  <2>1. SureLoading
    BY <1>1, <1>3 DEF Sure
  <2>2. ~app'.form.open
    BY <1>1, <1>3, <2>1 DEF SureLoading, Browsed, Dismissed, Finished, Started
  <2> QED BY <1>1, <1>2, <1>3, <2>1, <2>2 DEF Sure, SureLoading, Own
<1>4. CASE ~app.loading
  <2>1. SureLoaded
    BY <1>1, <1>4 DEF Sure
  <2>2. CASE Browsed
    <3>1. \A r \in wire : r.kind \in Effects => Known(r)'
      BY <1>1, <2>1, <2>2 DEF SureLoaded, Known, Browsed, Blank, RowOf
    <3> QED BY <1>1, <1>2, <1>4, <2>1, <2>2, <3>1 DEF Sure, SureLoaded, Browsed, Blank
  <2>3. CASE Dismissed \/ Started
    <3>1. Blank /\ Blank' /\ app'.rows = app.rows
          /\ ~(app'.form.open /\ app'.form.op \in {"success", "partial_success"})
      BY <2>3 DEF Dismissed, Started, Blank
    <3>2. \A r \in wire : r.kind \in Effects => r.kind \notin Writes
      BY <2>1, <3>1 DEF SureLoaded, Known, Blank
    <3>3. \A r \in wire : r.kind \in Effects => Known(r)'
      BY <1>1, <2>1, <3>1, <3>2 DEF SureLoaded, Known, RowOf
    <3> QED BY <1>1, <1>2, <1>4, <2>1, <3>1, <3>3 DEF Sure, SureLoaded
  <2>4. CASE Finished
    <3>1. ~Blank /\ app.form.op # "submitting"
      BY <2>4 DEF Finished, Blank
    <3>2. \A r \in wire : r.kind \notin Effects
      BY <2>1, <3>1 DEF SureLoaded, Known
    <3>3. Saved(app.rows, app.form.result) = server.rows
      BY <2>1, <2>4, <3>2, QuietMeans DEF SureLoaded, Finished
    <3> QED BY <1>1, <1>4, <2>4, <3>2, <3>3 DEF Sure, SureLoaded, Finished
  <2> QED BY <1>1, <2>2, <2>3, <2>4
<1> QED BY <1>3, <1>4

LEMMA SureSent ==
  ASSUME Sound, Current, app # None, NEW q, Sent(q)
  PROVE  Sure'
<1> SUFFICES ASSUME app'.sure PROVE Sure'
  BY DEF Sure
<1>1. app.sure /\ QuietBut({}) /\ ~app.loading /\ ~app'.loading
  BY DEF Sent
<1>2. Blank
  BY DEF Current, DialogAlone, Sent, Blank
<1>3. app'.rows = server'.rows
  BY <1>1, <1>2 DEF Current, Sure, SureLoaded, Sent
<1>4. \A r \in wire' : r.kind \in Effects <=> r = q
  BY <1>1, QuietMeans DEF Sent
<1>5. ~QuietBut({})'
  BY <1>4, QuietMeansNext DEF Sent
<1>6. Known(q)'
  <2>1. q.mount = mount' /\ q.answer = None
    BY DEF Sent
  <2>2. q.kind \in Writes => app'.form.open /\ app'.form.op = "submitting"
                               /\ app'.form.request = q.n
    BY DEF Sent
  <2>3. q.kind \notin Writes => Blank'
    BY <1>2 DEF Sent, Blank
  <2> QED BY <1>3, <2>1, <2>2, <2>3 DEF Known
<1> QED BY <1>1, <1>4, <1>5, <1>6 DEF Sure, SureLoaded

LEMMA DialogAloneStep ==
  ASSUME Sound, Sound', DialogAlone, [Next]_vars
  PROVE  DialogAlone'
<1>1. CASE Idle \/ Closed \/ Answered
  BY <1>1 DEF Idle, Closed, Answered, Served, DialogAlone
<1>2. CASE Opened
  BY <1>2, OpenedShape DEF DialogAlone
<1>3. CASE Settled
  BY <1>3, SettledShape, AppOwn DEF LoadEnds, DialogAlone
<1>4. CASE Told
  BY <1>4, ToldShape, AppOwn
     DEF Reloads, Handles, SavedHere, Unsure, RemovedHere, RecheckedHere, DialogAlone
<1>5. CASE Turned
  <2>1. CASE Dismissed \/ Finished \/ Started
    BY <2>1 DEF Dismissed, Finished, Started, DialogAlone
  <2>2. CASE Browsed
    BY <1>5, <2>2, AppOwn DEF Browsed, DialogAlone
  <2> QED BY <1>5, <2>1, <2>2, TurnedShape
<1>6. CASE Retry
  BY <1>6, RetryShape, AppOwn DEF Reloads, DialogAlone
<1>7. CASE Save \/ Confirm \/ Recheck
  BY <1>7, SentShape, AppOwn DEF Sent, DialogAlone
<1> QED BY <1>1, <1>2, <1>3, <1>4, <1>5, <1>6, <1>7, StepKinds

LEMMA CurrentStep ==
  Sound /\ Sound' /\ Loaded /\ Current /\ [Next]_vars => Current'
<1> SUFFICES ASSUME Sound, Sound', Loaded, Current, [Next]_vars PROVE Current'
  OBVIOUS
<1>0. DialogAlone /\ Sure /\ Pending /\ DialogAlone'
  BY DialogAloneStep DEF Current, Loaded
<1> SUFFICES Sure'
  BY <1>0 DEF Current
<1>1. CASE Idle
  BY <1>0, <1>1, SureIdle
<1>2. CASE Closed
  BY <1>2 DEF Closed, Sure
<1>3. CASE Opened
  <2>1. Typed /\ sent \in Nat /\ \A r \in wire : r.n \in Nat /\ r.n <= sent
    BY DEF Sound, Typed, TypeOK, Numbered, Requests
  <2>2. PICK r \in wire :
           /\ wire' = (wire \ {r}) \cup Load(sent + 1, mount + 1) /\ sent' = sent + 1
           /\ SameServer /\ mount' = mount + 1 /\ r.kind \notin Effects
           /\ app'.load = sent + 1 /\ app'.loading /\ ~app'.form.open
           /\ app'.owed = 0 /\ app'.deleting = None /\ app'.sure = QuietBut({})
    BY <1>3, OpenedShape
  <2>3. app'.sure => QuietBut({})'
    BY <2>2, LoadWrites, QuietMeans, QuietMeansNext
  <2>4. \A q \in wire' : q.n = app'.load => q.answer = None
    BY <2>1, <2>2, LoadWrites
  <2> QED BY <2>2, <2>3, <2>4 DEF Sure, SureLoading, Own
<1>4. CASE Answered
  BY <1>0, <1>4, SureServed DEF Answered
<1>5. CASE Settled
  BY <1>0, <1>5, SettledShape, AppOwn, SureSettled
<1>6. CASE Told
  BY <1>0, <1>6, ToldShape, AppOwn, SureReload, SureHandled
<1>7. CASE Turned
  BY <1>0, <1>7, SureTurned
<1>8. CASE Retry
  BY <1>8, RetryShape, SureReload
<1>9. CASE Save \/ Confirm \/ Recheck
  BY <1>9, SentShape, AppOwn, SureSent
<1> QED BY <1>0, <1>1, <1>2, <1>3, <1>4, <1>5, <1>6, <1>7, <1>8, <1>9, StepKinds

(* With no request in flight, the list on screen is the server's, unless     *)
(* operations overlapped or the outcome of one was lost or dismissed.        *)
THEOREM QuietListAlwaysCurrent == Spec => []QuietListIsCurrent
<1>1. Init => Current
  BY DEF Init, Current, DialogAlone, Sure
<1>2. Current => QuietListIsCurrent
  BY DEF Current, Sure, SureLoaded, Blank, QuietListIsCurrent
<1> QED BY <1>1, <1>2, CurrentStep, SoundAlways, LoadedAlways, PTL DEF Spec
=============================================================================
