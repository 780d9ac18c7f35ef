-------------------------- MODULE SettingsViewProofs --------------------------
(***************************************************************************)
(* Proofs about SettingsView, for every set of keys and values, any number *)
(* of requests and of visits to the page.                                  *)
(*                                                                         *)
(* The status line and what a save writes depend on answers that come in   *)
(* any order.  StatusInv follows the save last pressed as long as it was   *)
(* pressed alone; the other three follow a setting nobody entered from the *)
(* load through the page into the saves, which all agree on it as long as  *)
(* the load met no save and no save was overtaken.                         *)
(***************************************************************************)
EXTENDS SettingsView, TLAPS

TestAnnounced ==
  screen.open /\ screen.result = "testing" =>
    \E r \in calls : r.kind = "test" /\ r.visit = visits

\* A save pressed alone stays the only one, and has what is on the screen.
StatusInv ==
  screen.open /\ screen.sure /\ ~screen.crossed =>
    /\ ~Loading
    /\ \A q \in calls : q.kind = "save" =>
         q.values = screen.values /\ (q.reply = "ok" => stored = screen.values)
    /\ screen.result = "saved" => stored = screen.values

\* The saves still to be carried out leave setting k alone.
Kept(k) ==
  \A q \in calls : q.kind = "save" /\ q.reply = "none" => q.values[k] = stored[k]

\* An answered load that met no save is what is stored.
LoadInv ==
  \A r \in calls : r.kind = "load" /\ r.reply = "ok" /\ ~r.met => r.values = stored /\ ~Owed

\* The page has of the server what the operator has not entered.
PageInv ==
  screen.open /\ screen.loaded /\ ~screen.behind =>
    \A k \in Keys \ screen.edited : screen.values[k] = stored[k] /\ Kept(k)

\* So has a save that was not overtaken.
SaveInv ==
  \A r \in calls :
    r.kind = "save" /\ r.reply = "none" /\ r.loaded /\ ~r.met =>
      \A k \in Keys \ r.edited : Kept(k)

IInv == SettingsTypeOK /\ TestAnnounced /\ StatusInv /\ LoadInv /\ PageInv /\ SaveInv

-----------------------------------------------------------------------------

\* A PATCH with every key replaces all that is stored.
LEMMA WholePatch ==
  ASSUME NEW values \in Entries
  PROVE  Upsert(values) = values
BY DEF Upsert, Entries

\* Payload sends what is on the page.
LEMMA WholePage ==
  ASSUME NEW values \in Entries
  PROVE  Payload(values) = values
BY DEF Payload, Entries

\* What the server does to one request, and to the settings.
Served(r, new) ==
  /\ new \in Calls /\ new # r
  /\ calls' = (calls \ {r}) \cup {new}
  /\ r.reply = "none" /\ new.reply # "none"
  /\ new.n = r.n /\ new.kind = r.kind /\ new.visit = r.visit
  /\ r.kind = "load" /\ new.reply = "ok" /\ ~new.met => new.values = stored /\ ~Owed
  /\ r.kind = "save" => new.values = r.values
  /\ stored' # stored => Owed
  /\ r.kind = "save" /\ new.reply = "ok" => stored' = r.values
  /\ stored' # stored => r.kind = "save" /\ stored' = r.values
  /\ stored' \in Entries
  /\ UNCHANGED <<screen, visits, asked, entered>>

LEMMA ServeShape ==
  ASSUME SettingsTypeOK, NEW r \in calls, ServeCall(r)
  PROVE  \E new : Served(r, new)
<1> USE DEF SettingsTypeOK
<1>1. r \in Calls /\ r.reply = "none"
  BY DEF ServeCall
<1>2. CASE ServeLoad(r)
  <2> DEFINE new == [r EXCEPT !.reply = "ok", !.values = stored, !.met = @ \/ Owed]
  <2>1. new \in Calls /\ new.reply = "ok" /\ new.values = stored
        /\ new.n = r.n /\ new.kind = r.kind /\ new.visit = r.visit
        /\ (~new.met => ~Owed)
    BY <1>1 DEF Calls
  <2>2. Served(r, new)
    BY <1>1, <1>2, <2>1 DEF ServeLoad, ServeCall, Put, Served
  <2> QED BY <2>2
<1>3. CASE ServeSave(r)
  <2>1. stored' = r.values /\ r.values \in Entries /\ r.kind = "save" /\ Owed
    BY <1>1, <1>3, WholePatch DEF ServeSave, Calls, Owed
  <2>2. PICK reply \in {"ok", "error"} : Put(r, [r EXCEPT !.reply = reply])
    BY <1>3 DEF ServeSave
  <2> DEFINE new == [r EXCEPT !.reply = reply]
  <2>3. new \in Calls /\ new.reply = reply /\ new.values = r.values
        /\ new.n = r.n /\ new.kind = r.kind /\ new.visit = r.visit
    BY <1>1 DEF Calls
  <2>4. Served(r, new)
    BY <1>1, <2>1, <2>2, <2>3 DEF ServeCall, Put, Served
  <2> QED BY <2>4
<1>4. CASE ServeTest(r) \/ Refuse(r)
  <2>1. PICK reply \in {"ok", "failed", "error"} :
          Put(r, [r EXCEPT !.reply = reply]) /\ (r.kind = "test" \/ reply = "error")
    BY <1>4 DEF ServeTest, Refuse
  <2> DEFINE new == [r EXCEPT !.reply = reply]
  <2>2. new \in Calls /\ new.reply = reply /\ new.values = r.values
        /\ new.n = r.n /\ new.kind = r.kind /\ new.visit = r.visit
    BY <1>1 DEF Calls
  <2>3. Served(r, new)
    BY <1>1, <1>4, <2>1, <2>2 DEF ServeCall, ServeTest, Refuse, Put, Served
  <2> QED BY <2>3
<1> QED BY <1>2, <1>3, <1>4 DEF ServeCall
-----------------------------------------------------------------------------
(* Types.                                                                  *)

LEMMA OpenedType ==
  Opened \in Screens /\ NoScreen \in Screens /\ ~NoScreen.open
<1>1. Opened \in Screens
  BY DEF Opened, Screens, Empty, Entries
<1>2. NoScreen \in Screens /\ ~NoScreen.open
  BY <1>1 DEF NoScreen, Screens
<1> QED BY <1>1, <1>2

LEMMA TypeInit == SettingsInit => SettingsTypeOK
<1> SUFFICES ASSUME SettingsInit PROVE SettingsTypeOK
  OBVIOUS
<1>1. stored \in Entries
  BY SettingsAssumption DEF SettingsInit, Entries
<1>2. screen \in Screens
  BY OpenedType DEF SettingsInit
<1>3. ~screen.open
  BY OpenedType DEF SettingsInit
<1> QED BY <1>1, <1>2, <1>3 DEF SettingsInit, SettingsTypeOK

\* A request is well-formed.
LEMMA NewCallType ==
  ASSUME SettingsTypeOK, NEW kind \in {"load", "save", "test"}, NEW visit \in Nat,
         NEW values \in Entries, NEW loaded \in BOOLEAN, NEW edited \in SUBSET Keys,
         NEW met \in BOOLEAN
  PROVE  LET q == NewCall(kind, visit, values, loaded, edited, met)
         IN  /\ q \in Calls /\ q.n = asked + 1 /\ q.kind = kind /\ q.visit = visit
             /\ q.values = values /\ q.loaded = loaded /\ q.edited = edited
             /\ q.met = met /\ q.reply = "none"
BY DEF SettingsTypeOK, Calls, NewCall

\* An overtaken request is the same but for its history.
LEMMA OvertakenFacts ==
  ASSUME SettingsTypeOK, NEW r \in calls
  PROVE  /\ Overtaken(r) \in Calls /\ Overtaken(r).n = r.n /\ Overtaken(r).kind = r.kind
         /\ Overtaken(r).visit = r.visit /\ Overtaken(r).values = r.values
         /\ Overtaken(r).reply = r.reply /\ (r.kind # "test" => Overtaken(r).met)
BY DEF SettingsTypeOK, Calls, Overtaken

\* A request of the page is one more, with a number of its own.
LEMMA AskType ==
  ASSUME SettingsTypeOK, visits' \in Nat, visits' >= visits, visits' >= 1,
         NEW others \in SUBSET Calls,
         \A p \in others : \E r \in calls : p.n = r.n /\ p.visit = r.visit,
         \A p, q \in others : p.n = q.n => p = q,
         NEW request \in Calls, request.n = asked + 1, request.visit = visits',
         NEW new \in Screens, Ask(others, request, new)
  PROVE  SettingsTypeOK'
<1> USE DEF SettingsTypeOK
<1>1. /\ calls' = others \cup {request} /\ asked' = asked + 1 /\ screen' = new
      /\ UNCHANGED <<stored, entered>>
  BY DEF Ask
<1>2. \A r \in others : r.n \in 1..asked /\ r.n # asked + 1 /\ r.visit \in 1..visits
  OBVIOUS
<1>3. \A r \in calls' : r.n \in 1..asked' /\ r.visit \in 1..visits'
  BY <1>1, <1>2
<1>4. \A p, r \in calls' : p.n = r.n => p = r
  BY <1>1, <1>2
<1> QED BY <1>1, <1>3, <1>4

LEMMA ScreenType ==
  ASSUME SettingsTypeOK, NEW r \in calls
  PROVE  /\ AfterLoad(screen, r) \in Screens
         /\ AfterSave(screen, r) \in Screens
         /\ AfterTest(screen, r) \in Screens
BY DEF SettingsTypeOK, Screens, Calls, Entries, AfterLoad, AfterSave, AfterTest

LEMMA TypeServe ==
  ASSUME SettingsTypeOK, NEW r \in calls, NEW new, Served(r, new)
  PROVE  SettingsTypeOK'
BY DEF SettingsTypeOK, Served

LEMMA TypeAnswered ==
  ASSUME SettingsTypeOK, NEW r \in calls, OnAnswered(r)
  PROVE  SettingsTypeOK'
<1>1. screen' \in Screens
  BY ScreenType DEF OnAnswered, SettingsTypeOK
<1> QED BY <1>1 DEF OnAnswered, SettingsTypeOK

LEMMA TypeStep == SettingsTypeOK /\ [SettingsNext]_settingsVars => SettingsTypeOK'
<1> SUFFICES ASSUME SettingsTypeOK, [SettingsNext]_settingsVars PROVE SettingsTypeOK'
  OBVIOUS
<1>1. ASSUME NEW r \in calls, ServeCall(r) PROVE SettingsTypeOK'
  BY <1>1, ServeShape, TypeServe
<1>2. ASSUME NEW r \in calls, OnAnswered(r) PROVE SettingsTypeOK'
  BY <1>2, TypeAnswered
<1>3. ASSUME NEW k \in Keys, NEW x \in Values \cup {NotSet}, Set(k, x) PROVE SettingsTypeOK'
  <2> DEFINE values == [screen.values EXCEPT ![k] = x]
             edited == screen.edited \cup {k}
  <2>1. values \in Entries /\ edited \in SUBSET Keys
    BY DEF SettingsTypeOK, Screens, Entries
  <2>2. screen' = [screen EXCEPT !.values = values, !.edited = edited, !.sure = FALSE]
    BY <1>3 DEF Set
  <2> HIDE DEF values, edited
  <2>3. screen' \in Screens
    BY <2>1, <2>2 DEF SettingsTypeOK, Screens
  <2>4. /\ visits > 0 /\ entered' = entered + 1
        /\ UNCHANGED <<stored, calls, visits, asked>>
    BY <1>3 DEF Set, SettingsTypeOK
  <2> QED BY <2>3, <2>4 DEF SettingsTypeOK
<1>0. Empty \in Entries /\ calls \in SUBSET Calls
  BY DEF Empty, Entries, SettingsTypeOK
<1>4. CASE SaveSettings
  <2> DEFINE crossed == Saving \/ Loading
             new == [screen EXCEPT !.error = FALSE, !.result = "none", !.sure = TRUE,
                                   !.crossed = crossed]
             q == NewCall("save", visits, Payload(screen.values), screen.loaded,
                          screen.edited, screen.behind)
             others == {Overtaken(r) : r \in calls}
  <2>1. crossed \in BOOLEAN /\ Payload(screen.values) \in Entries
    BY WholePage DEF SettingsTypeOK, Screens
  <2>2. visits' = visits /\ Ask(others, q, new) /\ visits >= 1 /\ visits \in Nat
    BY <1>4 DEF SaveSettings, SettingsTypeOK
  <2>3. q \in Calls /\ q.n = asked + 1 /\ q.visit = visits
    BY <2>1, <2>2, NewCallType DEF SettingsTypeOK, Screens
  <2>4. /\ others \in SUBSET Calls
        /\ \A p \in others : \E r \in calls : p.n = r.n /\ p.visit = r.visit
        /\ \A p1, p2 \in others : p1.n = p2.n => p1 = p2
    BY OvertakenFacts DEF SettingsTypeOK
  <2> HIDE DEF crossed, q, others
  <2>5. new \in Screens
    BY <2>1 DEF SettingsTypeOK, Screens
  <2> QED BY <2>2, <2>3, <2>4, <2>5, AskType
<1>5. CASE TestConnection
  <2> DEFINE q == NewCall("test", visits, Empty, FALSE, {}, FALSE)
  <2>1. [screen EXCEPT !.error = FALSE, !.result = "testing"] \in Screens
    BY DEF SettingsTypeOK, Screens
  <2>2. visits >= 1 /\ visits' = visits /\ visits \in Nat
    BY <1>5 DEF TestConnection, SettingsTypeOK
  <2>3. Ask(calls, q, [screen EXCEPT !.error = FALSE, !.result = "testing"])
    BY <1>5, Zenon DEF TestConnection
  <2>4. q \in Calls /\ q.n = asked + 1 /\ q.visit = visits
    BY <1>0, <2>2 DEF SettingsTypeOK, Calls, NewCall
  <2> HIDE DEF q
  <2> QED BY <1>0, <2>1, <2>2, <2>3, <2>4, AskType DEF SettingsTypeOK
<1>6. CASE OpenSettings
  <2> DEFINE q == NewCall("load", visits + 1, Empty, FALSE, {}, FALSE)
  <2>1. /\ visits' = visits + 1 /\ visits \in Nat /\ visits' \in Nat /\ visits' >= visits
        /\ visits' >= 1
    BY <1>6 DEF OpenSettings, SettingsTypeOK
  <2>2. Ask(calls, q, Opened)
    BY <1>6, Zenon DEF OpenSettings
  <2>3. q \in Calls /\ q.n = asked + 1 /\ q.visit = visits'
    BY <1>0, <2>1 DEF SettingsTypeOK, Calls, NewCall
  <2> HIDE DEF q
  <2> QED BY <1>0, <2>1, <2>2, <2>3, OpenedType, AskType DEF SettingsTypeOK
<1>7. CASE CloseSettings
  BY <1>7, OpenedType DEF CloseSettings, SettingsTypeOK
<1>8. CASE UNCHANGED settingsVars
  BY <1>8 DEF settingsVars, SettingsTypeOK
<1> QED BY <1>1, <1>2, <1>3, <1>4, <1>5, <1>6, <1>7, <1>8
        DEF SettingsNext, SettingsNetwork, SettingsUser

\* What the page and its requests hold is well-formed, and each request has a
\* number of its own, however many there are (SettingsView, App.tsx:458-461).
THEOREM TypeCorrect == SettingsSpec => []SettingsTypeOK
BY TypeInit, TypeStep, PTL DEF SettingsSpec
-----------------------------------------------------------------------------
(* The inductive invariant.                                                *)

LEMMA InvInit == SettingsInit => IInv
<1> SUFFICES ASSUME SettingsInit PROVE IInv
  OBVIOUS
<1>1. calls = {} /\ ~screen.open
  BY OpenedType DEF SettingsInit
<1> QED BY <1>1, TypeInit DEF IInv, TestAnnounced, StatusInv, LoadInv, PageInv, SaveInv

\* A request is carried out or refused: the page stays, and the settings
\* become what a save sent, if it was one.
LEMMA InvServe ==
  ASSUME IInv, NEW r \in calls, NEW new, Served(r, new)
  PROVE  IInv'
<1> USE DEF IInv, Served
<1>1. SettingsTypeOK'
  BY TypeServe
<1>2. TestAnnounced'
  BY DEF TestAnnounced
<1>3. Loading' <=> Loading
  BY DEF Loading
<1>4. StatusInv'
  BY <1>3 DEF StatusInv
<1>5. ASSUME NEW k \in Keys, Kept(k) PROVE stored'[k] = stored[k] /\ Kept(k)'
  <2>1. stored'[k] = stored[k]
    BY <1>5 DEF Kept
  <2>2. \A q \in calls' : q.kind = "save" /\ q.reply = "none" => q \in calls
    OBVIOUS
  <2> QED BY <1>5, <2>1, <2>2 DEF Kept
<1>6. PageInv'
  BY <1>5 DEF PageInv
<1>7. SaveInv'
  BY <1>5 DEF SaveInv
<1>8. Owed' => Owed
  BY DEF Owed
<1>9. LoadInv'
  <2>1. ASSUME NEW q \in calls', q.kind = "load", q.reply = "ok", ~q.met
        PROVE  q.values = stored /\ ~Owed
    BY <2>1 DEF LoadInv
  <2> QED BY <1>8, <2>1 DEF LoadInv
<1> QED BY <1>1, <1>2, <1>4, <1>6, <1>7, <1>9

\* The page as the answer to r leaves it.
LEMMA InvAnswered ==
  ASSUME IInv, NEW r \in calls, OnAnswered(r)
  PROVE  IInv'
<1> USE DEF IInv
<1> DEFINE mine == screen.open /\ r.visit = visits
<1>1. SettingsTypeOK'
  BY TypeAnswered
<1>2. /\ calls' = calls \ {r} /\ r.reply # "none"
      /\ UNCHANGED <<stored, visits, asked, entered>>
  BY DEF OnAnswered
<1>3. r \in Calls /\ screen \in Screens
  BY DEF SettingsTypeOK
<1>4. /\ screen'.open = screen.open /\ screen'.crossed = screen.crossed
      /\ screen'.sure = screen.sure /\ screen'.edited = screen.edited
  <2> DEFINE Same(s) == /\ s.open = screen.open /\ s.crossed = screen.crossed
                        /\ s.sure = screen.sure /\ s.edited = screen.edited
  <2>1. Same(AfterLoad(screen, r))
    BY <1>3 DEF Screens, AfterLoad
  <2>2. Same(AfterSave(screen, r))
    BY <1>3 DEF Screens, AfterSave
  <2>3. Same(AfterTest(screen, r))
    BY <1>3 DEF Screens, AfterTest
  <2>4. Same(screen)
    OBVIOUS
  <2>5. screen' \in {screen, AfterLoad(screen, r), AfterSave(screen, r), AfterTest(screen, r)}
    BY DEF OnAnswered
  <2> HIDE DEF Same
  <2>6. Same(screen')
    BY <2>1, <2>2, <2>3, <2>4, <2>5
  <2> QED BY <2>6 DEF Same
<1>5. \/ /\ screen'.values = screen.values /\ screen'.loaded = screen.loaded
         /\ screen'.behind = screen.behind
      \/ /\ mine /\ r.kind = "load" /\ r.reply = "ok"
         /\ screen'.values = r.values /\ screen'.loaded /\ screen'.behind = r.met
  BY <1>3 DEF OnAnswered, Screens, AfterLoad, AfterSave, AfterTest
<1>6. screen'.result # screen.result =>
        \/ mine /\ r.kind = "save" /\ r.reply = "ok" /\ screen'.result = "saved"
        \/ mine /\ r.kind = "test" /\ screen'.result \in {"connected", "failed", "none"}
  <2>1. CASE ~mine
    BY <2>1 DEF OnAnswered
  <2>2. CASE mine /\ r.kind = "load"
    BY <1>3, <2>2 DEF OnAnswered, Screens, AfterLoad
  <2>3. CASE mine /\ r.kind = "save"
    BY <1>3, <2>3 DEF OnAnswered, Screens, AfterSave
  <2>4. CASE mine /\ r.kind = "test"
    BY <1>3, <2>4 DEF OnAnswered, Screens, AfterTest
  <2> QED BY <1>3, <2>1, <2>2, <2>3, <2>4 DEF Calls
<1>7. mine /\ r.kind = "test" => screen'.result # "testing"
  BY <1>2, <1>3 DEF OnAnswered, Screens, Calls, AfterTest
<1>8. TestAnnounced'
  BY <1>2, <1>4, <1>6, <1>7 DEF TestAnnounced
<1>9. StatusInv'
  <2> SUFFICES ASSUME screen.open, screen.sure, ~screen.crossed
               PROVE  /\ ~Loading'
                      /\ \A q \in calls' : q.kind = "save" =>
                           /\ q.values = screen'.values
                           /\ q.reply = "ok" => stored = screen'.values
                      /\ screen'.result = "saved" => stored = screen'.values
    BY <1>2, <1>4 DEF StatusInv
  <2>1. ~Loading /\ ~Loading'
    BY <1>2 DEF StatusInv, Loading
  <2>2. screen'.values = screen.values
    BY <1>5, <2>1 DEF Loading
  <2>3. screen'.result = "saved" => stored = screen.values
    BY <1>6 DEF StatusInv
  <2> QED BY <1>2, <2>1, <2>2, <2>3 DEF StatusInv
<1>10. \A k \in Keys : Kept(k) => Kept(k)'
  BY <1>2 DEF Kept
<1>11. Owed' => Owed
  BY <1>2 DEF Owed
<1>12. LoadInv' /\ SaveInv'
  BY <1>2, <1>10, <1>11 DEF LoadInv, SaveInv
<1>13. PageInv'
  <2>1. CASE screen'.values = screen.values /\ screen'.loaded = screen.loaded
             /\ screen'.behind = screen.behind
    BY <1>2, <1>4, <1>10, <2>1 DEF PageInv
  <2>2. CASE /\ r.kind = "load" /\ r.reply = "ok"
             /\ screen'.values = r.values /\ screen'.behind = r.met
    <3>1. ~r.met => r.values = stored /\ ~Owed
      BY <2>2 DEF LoadInv
    <3>2. ~Owed => \A k \in Keys : Kept(k)
      BY DEF Owed, Kept
    <3> QED BY <1>2, <1>10, <2>2, <3>1, <3>2 DEF PageInv
  <2> QED BY <1>5, <2>1, <2>2
<1> QED BY <1>1, <1>8, <1>9, <1>12, <1>13

\* A field is entered: it is the page's own from then on.
LEMMA InvSet ==
  ASSUME IInv, NEW k \in Keys, NEW x \in Values \cup {NotSet}, Set(k, x)
  PROVE  IInv'
<1> USE DEF IInv
<1>1. SettingsTypeOK'
  BY TypeStep DEF SettingsNext, SettingsUser
<1>2. /\ screen'.open = screen.open /\ screen'.result = screen.result
      /\ screen'.loaded = screen.loaded /\ screen'.behind = screen.behind
      /\ screen'.crossed = screen.crossed
      /\ screen'.edited = screen.edited \cup {k} /\ ~screen'.sure
      /\ \A j \in Keys \ {k} : screen'.values[j] = screen.values[j]
  BY DEF Set, SettingsTypeOK, Screens, Entries
<1>3. UNCHANGED <<stored, calls, visits>>
  BY DEF Set
<1>4. TestAnnounced' /\ StatusInv'
  BY <1>2, <1>3 DEF TestAnnounced, StatusInv
<1>5. (\A j \in Keys : Kept(j)' <=> Kept(j)) /\ (Owed' <=> Owed)
  BY <1>3 DEF Kept, Owed
<1>6. LoadInv' /\ SaveInv'
  BY <1>3, <1>5 DEF LoadInv, SaveInv
<1>7. PageInv'
  BY <1>2, <1>3, <1>5 DEF PageInv
<1> QED BY <1>1, <1>4, <1>6, <1>7

\* A save takes along what the page has, and every request under way has met
\* it.
LEMMA InvSave ==
  ASSUME IInv, SaveSettings
  PROVE  IInv'
<1> USE DEF IInv
<1>1. SettingsTypeOK'
  BY TypeStep DEF SettingsNext, SettingsUser
<1> DEFINE q == NewCall("save", visits, Payload(screen.values), screen.loaded,
                        screen.edited, screen.behind)
           others == {Overtaken(r) : r \in calls}
<1>2. /\ calls' = others \cup {q} /\ UNCHANGED <<stored, visits>> /\ screen.open
      /\ screen' = [screen EXCEPT !.error = FALSE, !.result = "none", !.sure = TRUE,
                                  !.crossed = Saving \/ Loading]
  BY DEF SaveSettings, Ask
<1>3. /\ screen'.open = screen.open /\ screen'.values = screen.values
      /\ screen'.result = "none" /\ screen'.loaded = screen.loaded
      /\ screen'.edited = screen.edited /\ screen'.behind = screen.behind
      /\ (screen'.crossed <=> Saving \/ Loading)
  BY <1>2 DEF SettingsTypeOK, Screens
<1>4. /\ q.kind = "save" /\ q.visit = visits /\ q.values = screen.values
      /\ q.loaded = screen.loaded /\ q.edited = screen.edited /\ q.met = screen.behind
      /\ q.reply = "none"
  BY NewCallType, WholePage DEF SettingsTypeOK, Screens
<1> HIDE DEF q
<1>5. \A p \in others : \E r \in calls :
        /\ p.kind = r.kind /\ p.visit = r.visit /\ p.values = r.values /\ p.reply = r.reply
        /\ r.kind # "test" => p.met
  BY OvertakenFacts
<1> HIDE DEF others
<1>6. TestAnnounced'
  BY <1>3 DEF TestAnnounced
<1>7. StatusInv'
  <2> SUFFICES ASSUME ~Saving, ~Loading
               PROVE  /\ ~Loading'
                      /\ \A p \in calls' : p.kind = "save" => p = q
    BY <1>2, <1>3, <1>4 DEF StatusInv
  <2> QED BY <1>2, <1>4, <1>5 DEF Saving, Loading
<1>8. LoadInv'
  BY <1>2, <1>4, <1>5 DEF LoadInv
<1>9. ASSUME screen.loaded, ~screen.behind, NEW k \in Keys \ screen.edited
      PROVE  screen'.values[k] = stored'[k] /\ Kept(k)'
  <2>1. screen.values[k] = stored[k] /\ Kept(k)
    BY <1>2, <1>9 DEF PageInv
  <2>2. Kept(k)'
    BY <1>2, <1>4, <1>5, <2>1 DEF Kept
  <2> QED BY <1>2, <1>3, <2>1, <2>2
<1>10. PageInv'
  BY <1>3, <1>9 DEF PageInv
<1>11. SaveInv'
  BY <1>2, <1>4, <1>5, <1>9 DEF SaveInv
<1> QED BY <1>1, <1>6, <1>7, <1>8, <1>10, <1>11

\* A request that is not a save leaves settings and saves alone.
LEMMA InvAsk ==
  ASSUME SettingsTypeOK, LoadInv, SaveInv, NEW q, q.kind # "save", q.reply = "none",
         calls' = calls \cup {q}, UNCHANGED stored
  PROVE  /\ LoadInv' /\ SaveInv'
         /\ \A k \in Keys : Kept(k)' <=> Kept(k)
<1>1. \A k \in Keys : Kept(k)' <=> Kept(k)
  BY DEF Kept
<1>2. Owed' <=> Owed
  BY DEF Owed
<1> QED BY <1>1, <1>2 DEF LoadInv, SaveInv

LEMMA InvTest ==
  ASSUME IInv, TestConnection
  PROVE  IInv'
<1> USE DEF IInv
<1>1. SettingsTypeOK'
  BY TypeStep DEF SettingsNext, SettingsUser
<1> DEFINE q == NewCall("test", visits, Empty, FALSE, {}, FALSE)
<1>2. /\ calls' = calls \cup {q} /\ UNCHANGED <<stored, visits>>
      /\ screen' = [screen EXCEPT !.error = FALSE, !.result = "testing"]
  BY DEF TestConnection, Ask
<1>3. /\ screen'.open = screen.open /\ screen'.values = screen.values
      /\ screen'.result = "testing" /\ screen'.loaded = screen.loaded
      /\ screen'.edited = screen.edited /\ screen'.sure = screen.sure
      /\ screen'.crossed = screen.crossed /\ screen'.behind = screen.behind
  BY <1>2 DEF SettingsTypeOK, Screens
<1>4. q.kind = "test" /\ q.visit = visits /\ q.reply = "none"
  BY DEF NewCall
<1> HIDE DEF q
<1>5. TestAnnounced'
  BY <1>2, <1>4 DEF TestAnnounced
<1>6. Loading' <=> Loading
  BY <1>2, <1>4 DEF Loading
<1>7. StatusInv'
  BY <1>2, <1>3, <1>4, <1>6 DEF StatusInv
<1>8. LoadInv' /\ SaveInv' /\ \A k \in Keys : Kept(k)' <=> Kept(k)
  BY <1>2, <1>4, InvAsk
<1>9. PageInv'
  BY <1>2, <1>3, <1>8 DEF PageInv
<1> QED BY <1>1, <1>5, <1>7, <1>8, <1>9

\* A page that has just been opened has nothing.
LEMMA InvOpen ==
  ASSUME IInv, OpenSettings
  PROVE  IInv'
<1> USE DEF IInv
<1>1. SettingsTypeOK'
  BY TypeStep DEF SettingsNext
<1> DEFINE q == NewCall("load", visits + 1, Empty, FALSE, {}, FALSE)
<1>2. calls' = calls \cup {q} /\ UNCHANGED stored /\ screen' = Opened
  BY DEF OpenSettings, Ask
<1>3. screen'.result = "none" /\ ~screen'.loaded /\ ~screen'.sure
  BY <1>2 DEF Opened
<1>4. q.kind = "load" /\ q.reply = "none"
  BY DEF NewCall
<1> HIDE DEF q
<1>5. LoadInv' /\ SaveInv'
  BY <1>2, <1>4, InvAsk
<1> QED BY <1>1, <1>3, <1>5 DEF TestAnnounced, StatusInv, PageInv

LEMMA InvClose ==
  ASSUME IInv, CloseSettings
  PROVE  IInv'
<1> USE DEF IInv
<1>1. SettingsTypeOK'
  BY TypeStep DEF SettingsNext
<1>2. ~screen'.open /\ UNCHANGED <<stored, calls, visits>>
  BY OpenedType DEF CloseSettings
<1>3. LoadInv' /\ SaveInv'
  BY <1>2 DEF LoadInv, SaveInv, Kept, Owed
<1> QED BY <1>1, <1>2, <1>3 DEF TestAnnounced, StatusInv, PageInv

LEMMA InvStep == IInv /\ [SettingsNext]_settingsVars => IInv'
<1> SUFFICES ASSUME IInv, [SettingsNext]_settingsVars PROVE IInv'
  OBVIOUS
<1>1. ASSUME NEW r \in calls, ServeCall(r) PROVE IInv'
  BY <1>1, ServeShape, InvServe DEF IInv
<1>2. ASSUME NEW r \in calls, OnAnswered(r) PROVE IInv'
  BY <1>2, InvAnswered
<1>3. CASE UNCHANGED settingsVars
  BY <1>3 DEF settingsVars, IInv, SettingsTypeOK, TestAnnounced, StatusInv, LoadInv,
              PageInv, SaveInv, Kept, Owed, Loading
<1> QED BY <1>1, <1>2, <1>3, InvSet, InvSave, InvTest, InvOpen, InvClose
        DEF SettingsNext, SettingsNetwork, SettingsUser

\* The status line is true, whatever the keys, the visits and the order of the
\* answers: "Testing connection" is shown only while an answer is owed, and
\* "Settings saved" only while the server has what is on the screen, unless
\* something was entered since, or Save was pressed while another save or the
\* load of the page was under way.
THEOREM FeedbackIsAlwaysTrue == SettingsSpec => []FeedbackIsTrue
<1>1. IInv => FeedbackIsTrue
  BY DEF IInv, TestAnnounced, StatusInv, FeedbackIsTrue
<1> QED BY <1>1, InvInit, InvStep, PTL DEF SettingsSpec

LEMMA ErasedStep ==
  ASSUME IInv, [SettingsNext]_settingsVars, NEW r \in calls,
         r.kind = "save", stored' # stored, r \notin calls',
         NEW k \in Keys, stored'[k] # stored[k]
  PROVE  k \in r.edited \/ ~r.loaded \/ r.met
<1>1. PICK q \in calls : ServeCall(q)
  BY DEF SettingsNext, SettingsNetwork, SettingsUser, settingsVars, OnAnswered, Set,
         SaveSettings, TestConnection, OpenSettings, CloseSettings, Ask
<1>2. PICK new : Served(q, new)
  BY <1>1, ServeShape DEF IInv
<1>3. q = r /\ stored' = r.values /\ r.reply = "none"
  BY <1>2 DEF Served
<1> QED BY <1>3 DEF IInv, SaveInv, Kept

\* A save writes only what was entered on its page, whatever the keys and the
\* visits, unless that page did not have the settings, had read them before an
\* earlier save was carried out, or another save followed before the answer.
THEOREM ErasureHasCause == SettingsSpec => ErasedHasCause
<1>1. IInv /\ [SettingsNext]_settingsVars =>
        [\A r \in calls :
           r.kind = "save" /\ stored' # stored /\ r \notin calls' =>
             \A k \in Keys :
               stored'[k] # stored[k] => k \in r.edited \/ ~r.loaded \/ r.met]_settingsVars
  BY ErasedStep
<1> QED BY <1>1, InvInit, InvStep, PTL DEF SettingsSpec, ErasedHasCause

=============================================================================
