---------------------------- MODULE SettingsView ----------------------------
(***************************************************************************)
(* The settings page in normal mode (src/App.tsx, SettingsView): it loads  *)
(* once when it is opened, and its three requests - the load, Save, Test   *)
(* Connection - are answered in any order, or after the page has been      *)
(* left, and share one status line and one error line, whose text is left *)
(* out.                                                                    *)
(*                                                                         *)
(* An unset key, a blank field and a cleared box are one value, NotSet:    *)
(* Save sends every key, with NotSet for what the page does not have.      *)
(***************************************************************************)
EXTENDS Naturals

CONSTANTS
  Keys,         \* the settings
  Values,       \* what is entered
  NotSet,       \* "", or false
  FirstStored,  \* what the server may have at first
  MaxCalls,     \* bound: requests of the page
  MaxVisits,    \* bound: times the page is opened
  MaxEntered    \* bound: fields entered

ASSUME SettingsAssumption == FirstStored \subseteq [Keys -> Values \cup {NotSet}]
ASSUME BoundsAssumption == MaxCalls \in Nat /\ MaxVisits \in Nat /\ MaxEntered \in Nat

VARIABLES
  stored,       \* the server's settings
  calls,        \* requests sent and not yet handled
  screen,       \* the state of the page
  visits,       \* times it has been mounted; a request carries its own
  asked,        \* requests sent so far
  entered       \* fields entered so far

settingsVars == <<stored, calls, screen, visits, asked, entered>>

Entries == [Keys -> Values \cup {NotSet}]
Empty == [k \in Keys |-> NotSet]

\* values: what a save sends, and what a load is answered.  History: loaded
\* and edited, what the page had of the server and of the operator when it
\* saved; met, of a load, that a save was not carried out yet when the load
\* was answered, or was sent before the answer was shown; of a save, that the
\* load it builds on had met one, or that a later save was sent before this
\* one was answered.
Calls == [n : Nat, kind : {"load", "save", "test"}, visit : Nat, values : Entries,
          loaded : BOOLEAN, edited : SUBSET Keys, met : BOOLEAN,
          reply : {"none", "ok", "failed", "error"}]

\* History: behind, the load shown had met a save; sure, nothing was entered
\* since Save; crossed, Save was pressed while another save or the load of
\* the page was under way.
Screens == [open : BOOLEAN, values : Entries,
            result : {"none", "saved", "testing", "connected", "failed"},
            error : BOOLEAN,
            loaded : BOOLEAN, edited : SUBSET Keys, behind : BOOLEAN,
            sure : BOOLEAN, crossed : BOOLEAN]

SettingsTypeOK ==
  /\ stored \in Entries
  /\ calls \subseteq Calls
  /\ screen \in Screens
  /\ visits \in Nat /\ asked \in Nat /\ entered \in Nat
  /\ screen.open => visits > 0
  /\ \A r \in calls : r.n \in 1..asked /\ r.visit \in 1..visits
  /\ \A q, r \in calls : q.n = r.n => q = r

Opened ==
  [open |-> TRUE, values |-> Empty, result |-> "none", error |-> FALSE, loaded |-> FALSE,
   edited |-> {}, behind |-> FALSE, sure |-> FALSE, crossed |-> FALSE]

\* Unmounted: nothing of the page is left.
NoScreen == [Opened EXCEPT !.open = FALSE]

SettingsInit ==
  /\ stored \in FirstStored
  /\ calls = {}
  /\ screen = NoScreen
  /\ visits = 0 /\ asked = 0 /\ entered = 0

-----------------------------------------------------------------------------
(* The server (external).  Keys that a PATCH leaves out are unchanged.     *)

Upsert(values) == [k \in Keys |-> IF k \in DOMAIN values THEN values[k] ELSE stored[k]]

Put(r, new) == calls' = (calls \ {r}) \cup {new}

Owed == \E r \in calls : r.kind = "save" /\ r.reply = "none"

ServeLoad(r) ==
  /\ r.kind = "load"
  /\ Put(r, [r EXCEPT !.reply = "ok", !.values = stored, !.met = @ \/ Owed])
  /\ UNCHANGED stored

\* Carried out; the answer may be lost.
ServeSave(r) ==
  /\ r.kind = "save"
  /\ stored' = Upsert(r.values)
  /\ \E reply \in {"ok", "error"} : Put(r, [r EXCEPT !.reply = reply])

\* Traefik is reached, or not.
ServeTest(r) ==
  /\ r.kind = "test"
  /\ \E reply \in {"ok", "failed"} : Put(r, [r EXCEPT !.reply = reply])
  /\ UNCHANGED stored

Refuse(r) == Put(r, [r EXCEPT !.reply = "error"]) /\ UNCHANGED stored

ServeCall(r) ==
  /\ r \in calls /\ r.reply = "none"
  /\ ServeLoad(r) \/ ServeSave(r) \/ ServeTest(r) \/ Refuse(r)
  /\ UNCHANGED <<screen, visits, asked, entered>>

-----------------------------------------------------------------------------
(* The page.                                                               *)

Saving == \E r \in calls : r.kind = "save"
Loading == \E r \in calls : r.kind = "load" /\ r.visit = visits

NewCall(kind, visit, values, loaded, edited, met) ==
  [n |-> asked + 1, kind |-> kind, visit |-> visit, values |-> values,
   loaded |-> loaded, edited |-> edited, met |-> met, reply |-> "none"]

\* The page sends request and shows new; others are the requests under way.
Ask(others, request, new) ==
  /\ asked < MaxCalls
  /\ asked' = asked + 1
  /\ calls' = others \cup {request}
  /\ screen' = new
  /\ UNCHANGED <<stored, entered>>

\* The page is mounted, and its effect loads.
OpenSettings ==
  /\ ~screen.open /\ visits < MaxVisits
  /\ visits' = visits + 1
  /\ Ask(calls, NewCall("load", visits + 1, Empty, FALSE, {}, FALSE), Opened)

CloseSettings ==
  /\ screen.open
  /\ screen' = NoScreen
  /\ UNCHANGED <<stored, calls, visits, asked, entered>>

\* A field is entered or cleared, loaded or not.
Set(k, x) ==
  /\ screen.open /\ entered < MaxEntered /\ x # screen.values[k]
  /\ entered' = entered + 1
  /\ screen' = [screen EXCEPT !.values = [@ EXCEPT ![k] = x],
                              !.edited = @ \cup {k}, !.sure = FALSE]
  /\ UNCHANGED <<stored, calls, visits, asked>>

\* Mutant of Payload: fields left blank are not sent.
PayloadTruthy(values) == [k \in {x \in Keys : values[x] # NotSet} |-> values[k]]

Payload(values) == [k \in Keys |-> values[k]]

\* History: a save is sent while r is under way.
Overtaken(r) == [r EXCEPT !.met = @ \/ r.kind # "test"]

\* Nothing disables the button, neither before the load nor while it saves.
SaveSettings ==
  /\ screen.open /\ UNCHANGED visits
  /\ Ask({Overtaken(r) : r \in calls},
         NewCall("save", visits, Payload(screen.values), screen.loaded, screen.edited,
                 screen.behind),
         [screen EXCEPT !.error = FALSE, !.result = "none", !.sure = TRUE,
                        !.crossed = Saving \/ Loading])

TestConnection ==
  /\ screen.open /\ UNCHANGED visits
  /\ Ask(calls, NewCall("test", visits, Empty, FALSE, {}, FALSE),
         [screen EXCEPT !.error = FALSE, !.result = "testing"])

\* What the answer to r makes of the page that sent it.
AfterLoad(s, r) ==
  IF r.reply = "ok" THEN [s EXCEPT !.values = r.values, !.loaded = TRUE, !.behind = r.met]
  ELSE [s EXCEPT !.error = TRUE]

\* Mutant of AfterSave: the page shows the answer of the PATCH, which is
\* empty (settings.test.tsx).
AfterSaveShown(s, r) ==
  IF r.reply = "ok" THEN [s EXCEPT !.result = "saved", !.values = Empty]
  ELSE [s EXCEPT !.error = TRUE]

AfterSave(s, r) ==
  IF r.reply = "ok" THEN [s EXCEPT !.result = "saved"]
  ELSE [s EXCEPT !.error = TRUE]

AfterTest(s, r) ==
  IF r.reply = "ok" THEN [s EXCEPT !.result = "connected"]
  ELSE IF r.reply = "failed" THEN [s EXCEPT !.result = "failed"]
  ELSE [s EXCEPT !.result = "none", !.error = TRUE]

\* A page that is gone is not written to.
OnAnswered(r) ==
  /\ r \in calls /\ r.reply # "none"
  /\ calls' = calls \ {r}
  /\ screen' = IF ~screen.open \/ r.visit # visits THEN screen
               ELSE IF r.kind = "load" THEN AfterLoad(screen, r)
               ELSE IF r.kind = "save" THEN AfterSave(screen, r)
               ELSE AfterTest(screen, r)
  /\ UNCHANGED <<stored, visits, asked, entered>>

SettingsNetwork == \E r \in calls : ServeCall(r) \/ OnAnswered(r)

SettingsUser ==
  \/ \E k \in Keys, x \in Values \cup {NotSet} : Set(k, x)
  \/ SaveSettings \/ TestConnection

SettingsNext == SettingsNetwork \/ SettingsUser \/ OpenSettings \/ CloseSettings

SettingsSpec == SettingsInit /\ [][SettingsNext]_settingsVars

-----------------------------------------------------------------------------
(* Properties.                                                             *)

\* The status line keeps its word, whichever answers came in between and
\* whenever the page was left and opened again: a test is announced only while
\* its answer is owed, and after "Settings saved" the server has what is on the
\* screen, unless something was entered since, or Save was pressed while
\* another save, of any visit, or the page's load was under way.
FeedbackIsTrue ==
  screen.open =>
    /\ screen.result = "testing" => \E r \in calls : r.kind = "test" /\ r.visit = visits
    /\ screen.result = "saved" /\ screen.sure /\ ~screen.crossed => stored = screen.values

\* A save changes only what the operator entered on its page, on whatever
\* pages the operator has been in between and whatever was tested or loaded
\* there.  What undoes that is this alone: the save was sent before its page
\* had the settings, or after they failed to load; they were read before an
\* earlier save had been carried out; or another save followed before this
\* one was answered.
ErasedHasCause ==
  [][\A r \in calls :
       r.kind = "save" /\ stored' # stored /\ r \notin calls' =>
         \A k \in Keys :
           stored'[k] # stored[k] => k \in r.edited \/ ~r.loaded \/ r.met]_settingsVars
=============================================================================
