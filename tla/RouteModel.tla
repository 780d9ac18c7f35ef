----------------------------- MODULE RouteModel -----------------------------
(***************************************************************************)
(* The routes of the console and the pure functions over them              *)
(* (src/model.ts), with what the pages offer for a route (src/App.tsx).    *)
(*                                                                         *)
(* A domain and a host are opaque; the valid ones are constants.  A port   *)
(* is a number, 0 what Number() makes of anything else that is no port.    *)
(***************************************************************************)
EXTENDS Naturals, FiniteSets, Sequences, SequencesExt

CONSTANTS
  ValidDomains,   \* what passes the domain pattern of validateRoute
  ValidHosts,     \* what passes its host pattern
  None,
  Recent          \* rows of the dashboard's "Recent Routes": 3 in the code

ASSUME ModelAssumption ==
  /\ "" \notin ValidDomains \cup ValidHosts
  /\ Recent \in Nat

Components == {"route", "backend", "dns", "tls"}
ComponentStates ==
  {"healthy", "pending", "warning", "error", "unknown", "online", "offline"}
Health == {"healthy", "degraded", "offline", "unknown"}
RouteStatus == [Components -> ComponentStates]

Schemes == {"http", "https"}
Target(scheme, host, port) == [scheme |-> scheme, host |-> host, port |-> port]
RouteInput(domain, target, https, createDns) ==
  [domain |-> domain, target |-> target, https |-> https, createDns |-> createDns]

Managed(r) == r.ownership = "managed"

deriveHealth(s) ==
  IF s["backend"] = "error" THEN "offline"
  ELSE IF \A c \in Components : s[c] = "healthy" THEN "healthy"
  ELSE IF \E c \in Components : s[c] \in {"warning", "pending", "error"} THEN "degraded"
  ELSE "unknown"

HealthOf(r) == deriveHealth(r.status)
Rank == [healthy |-> 0, unknown |-> 1, degraded |-> 2, offline |-> 3]

validateRoute(v) ==
  (IF v.domain \in ValidDomains THEN {} ELSE {"domain"})
  \cup (IF v.target.host \in ValidHosts THEN {} ELSE {"target.host"})
  \cup (IF v.target.port \in 1..65535 THEN {} ELSE {"target.port"})

backendURL(r) == r.input.target

\* One route more: under its address, the worse health of the two wins.
Merge(services, r) ==
  LET at == {i \in DOMAIN services : services[i].address = backendURL(r)}
  IN IF at = {}
       THEN Append(services, [address |-> backendURL(r), health |-> HealthOf(r),
                              routes |-> <<r.input.domain>>])
       ELSE [i \in DOMAIN services |-> IF i \notin at THEN services[i] ELSE
              [services[i] EXCEPT
                 !.routes = Append(@, r.input.domain),
                 !.health = IF Rank[HealthOf(r)] > Rank[@] THEN HealthOf(r) ELSE @]]

\* The elements of a list that are in S, in its order.
Where(rs, S) ==
  LET kept[n \in 0..Len(rs)] ==
        IF n = 0 THEN <<>>
        ELSE IF rs[n] \in S THEN Append(kept[n - 1], rs[n]) ELSE kept[n - 1]
  IN  kept[Len(rs)]

\* What the mock scenarios show as services; in normal mode the services page
\* shows the server's own answer.
deriveServices(rs) ==
  LET managed == Where(rs, {r \in ToSet(rs) : Managed(r)})
      services[n \in 0..Len(managed)] ==
        IF n = 0 THEN <<>> ELSE Merge(services[n - 1], managed[n])
  IN  services[Len(managed)]

-----------------------------------------------------------------------------
(* What the pages offer.                                                   *)

\* The "Recent Routes" of the dashboard.
RecentRows(rs) == SubSeq(rs, 1, IF Len(rs) < Recent THEN Len(rs) ELSE Recent)

RowActions(r) == IF Managed(r) THEN {"view", "edit", "delete"} ELSE {"view"}

DetailActions(r) == IF Managed(r) THEN {"recheck", "edit", "delete"} ELSE {}
=============================================================================
