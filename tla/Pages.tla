-------------------------------- MODULE Pages --------------------------------
(***************************************************************************)
(* The pages of the console together (src/App.tsx): the sidebar selects    *)
(* one, and the settings page is mounted while it is selected and neither  *)
(* the skeleton nor Detail has its place.  What either side has asked the  *)
(* server is answered wherever the operator is by then.                    *)
(***************************************************************************)
EXTENDS RoutePages, SettingsView

CONSTANTS         \* bounds: requests sent and fields set
  MaxRoutesWork,    \* when all of them are outside the settings page,
  MaxSettingsWork,  \* when all of them are on it,
  MaxWork           \* and otherwise

vars == <<routeVars, settingsVars>>

SettingsShown ==
  page = "settings" /\ ~app.loading /\ ~app.loadError /\ app.detail = None

\* The state of all pages is well-formed.
TypeOK == RoutesTypeOK /\ SettingsTypeOK

Init == RoutesInit /\ SettingsInit

\* The operator goes on while the work done leaves room.
WithinBounds ==
  LET onRoutes == sent' + edits'
      onSettings == asked' + entered'
  IN  onRoutes + onSettings <= IF onSettings = 0 THEN MaxRoutesWork
                               ELSE IF onRoutes = 0 THEN MaxSettingsWork ELSE MaxWork

\* What React makes of the settings page at a step outside it.
Remount ==
  IF SettingsShown' = screen.open THEN UNCHANGED settingsVars
  ELSE OpenSettings \/ CloseSettings

OperatorStep ==
  /\ \/ (RoutesUser \/ \E p \in Visited : RoutesGo(p)) /\ Remount
     \/ SettingsUser /\ UNCHANGED routeVars
  /\ WithinBounds

NetworkStep ==
  \/ RoutesNetwork /\ Remount
  \/ SettingsNetwork /\ UNCHANGED routeVars

Next == OperatorStep \/ NetworkStep

Spec == Init /\ [][Next]_vars
=============================================================================
