---------------------------- MODULE TraefikReader ----------------------------
(***************************************************************************)
(* What a snapshot of Traefik contains: the four reads and their           *)
(* normalisation in internal/traefik/traefik.go, in the order in which     *)
(* Cache.Get makes them.                                                   *)
(*                                                                         *)
(* Traefik replaces its configuration as a whole, but a snapshot is put    *)
(* together from four requests, between which it may have been replaced.   *)
(* TraefikCache says who fetches when and what is returned; its mutex      *)
(* admits one fetch at a time, which is the one followed here.             *)
(*                                                                         *)
(* A resource has an identity, a base name and a provider, which the API   *)
(* writes as name@provider, in a provider field, or both.  A router names  *)
(* its service by a reference that is copied as it stands: name@provider,  *)
(* a name alone, which Traefik takes to be of the router's own provider,   *)
(* or nothing; it may name no service at all.                              *)
(*                                                                         *)
(* A rule is a set of matchers with their arguments; an argument is a      *)
(* host, written in lower case or not, and a plain name or a pattern.  The *)
(* version, entry points, middleware names, TLS, states and servers are    *)
(* carried along and left out here, except that the version is one of the  *)
(* four requests.                                                          *)
(***************************************************************************)
EXTENDS Naturals, Sequences

CONSTANTS
  Configurations,  \* what Traefik may be configured to (external)
  Internal,        \* the provider of Traefik's own resources
  None,            \* the empty string
  MaxChanges       \* bound: changes of the configuration during a fetch

Styles == {"suffix", "field", "both"}
Kinds == {"version", "routers", "services", "middlewares"}

ASSUME ConfigurationsAssumption == \A c \in Configurations : DOMAIN c = Kinds
ASSUME InternalAssumption == Internal # None
ASSUME BoundsAssumption == MaxChanges \in Nat

VARIABLES
  style,      \* how this Traefik writes identities
  past,       \* the configurations since the fetch began; the last one is in force
  fetching,   \* Get is between its first read and its return
  draft,      \* s, the snapshot under construction, as a sequence of reads
  at          \* history: the instant of each read, an index of past

vars == <<style, past, fetching, draft, at>>

Config == past[Len(past)]

Init ==
  /\ style \in Styles
  /\ past \in {<<c>> : c \in Configurations}
  /\ fetching = FALSE
  /\ draft = <<>> /\ at = <<>>

-----------------------------------------------------------------------------
(* The answers of the API and their normal form. *)

\* How the API writes an identity.
Write(id) ==
  [name     |-> [base |-> id.base,
                 at   |-> IF style = "field" THEN None ELSE id.provider],
   provider |-> IF style = "suffix" THEN None ELSE id.provider]

\* Mutant: the field is not looked at.
QualifiedByName(raw) == [name |-> raw.name, provider |-> raw.name.at]

\* The provider is the field, or else the part of the name after the last @.
Qualified(raw) ==
  [name |-> raw.name,
   provider |-> IF raw.provider # None THEN raw.provider ELSE raw.name.at]

Lower(arg) == [arg EXCEPT !.upper = FALSE]

\* A negated Host matches the regular expression as well, HostRegexp does not.
HostArgs(rule) ==
  UNION {m.args : m \in {n \in rule : n.matcher \in {"Host", "!Host"}}}

\* Mutant: names are kept as they are written.
HostsAsWritten(rule) == {h \in HostArgs(rule) : ~h.pattern}

\* The plain host names in a rule, in lower case.
Hosts(rule) == {Lower(h) : h \in {g \in HostArgs(rule) : ~g.pattern}}

Routers(routers) ==
  {[as |-> Qualified(Write(r.id)), rule |-> r.rule,
    hosts |-> Hosts(r.rule), service |-> r.service] : r \in routers}

IsInternal(as) == as.provider = Internal \/ as.name.at = Internal

\* Traefik's own services are left out.
Services(services) ==
  {as \in {Qualified(Write(s.id)) : s \in services} : ~IsInternal(as)}

\* The type of a middleware is the first key of its map that is none of name,
\* provider and status; the order of a Go map is random.
TypesOf(m) == IF m.keys = {} THEN {None} ELSE m.keys

Middlewares(middlewares) ==
  LET typed == {f \in [middlewares -> UNION {TypesOf(m) : m \in middlewares}] :
                 \A m \in middlewares : f[m] \in TypesOf(m)}
  IN  {{[as |-> Qualified(Write(m.id)), type |-> f[m]] : m \in middlewares} :
         f \in typed}

-----------------------------------------------------------------------------
(* A fetch. *)

\* Mutant: services are read before the routers that use them.
OrderServicesFirst == <<"version", "services", "routers", "middlewares">>

\* The order in which Get makes its reads.
Order == <<"version", "routers", "services", "middlewares">>

\* What the read of one kind may return.
Answers(kind) ==
  CASE kind = "version"     -> {Config.version}
    [] kind = "routers"     -> {Routers(Config.routers)}
    [] kind = "services"    -> {Services(Config.services)}
    [] kind = "middlewares" -> Middlewares(Config.middlewares)

Part(kind) == draft[CHOOSE i \in 1..Len(Order) : Order[i] = kind]

Begin ==
  /\ ~fetching
  /\ fetching' = TRUE
  /\ past' = <<Config>>
  /\ UNCHANGED <<style, draft, at>>

Complete == Len(draft) = Len(Order)

Read ==
  /\ fetching /\ ~Complete
  /\ \E a \in Answers(Order[Len(draft) + 1]) : draft' = Append(draft, a)
  /\ at' = Append(at, Len(past))
  /\ UNCHANGED <<style, past, fetching>>

\* Mutant: the next fetch goes on where this one failed.
FailResumed ==
  /\ fetching /\ ~Complete
  /\ fetching' = FALSE
  /\ UNCHANGED <<style, past, draft, at>>

\* Unreachable, a status other than 2xx, a body too large, empty or not JSON.
Fail ==
  /\ fetching /\ ~Complete
  /\ fetching' = FALSE
  /\ draft' = <<>> /\ at' = <<>>
  /\ UNCHANGED <<style, past>>

\* The snapshot is stored and returned; TraefikCache says what becomes of it.
Install ==
  /\ fetching /\ Complete
  /\ fetching' = FALSE
  /\ draft' = <<>> /\ at' = <<>>
  /\ UNCHANGED <<style, past>>

\* Traefik loads another configuration.
Reconfigure ==
  /\ fetching => Len(past) <= MaxChanges
  /\ \E c \in Configurations \ {Config} :
       past' = IF fetching THEN Append(past, c) ELSE <<c>>
  /\ UNCHANGED <<style, fetching, draft, at>>

Next == Begin \/ Read \/ Fail \/ Install \/ Reconfigure

Spec == Init /\ [][Next]_vars

-----------------------------------------------------------------------------
(* Properties of a complete snapshot.  Its instants are the configurations  *)
(* in force from the start of its fetch to its end.                          *)

TypeOK ==
  /\ style \in Styles
  /\ past \in Seq(Configurations) /\ past # <<>>
  /\ fetching \in BOOLEAN
  /\ Len(draft) <= Len(Order) /\ Len(at) = Len(draft)
  /\ at \in Seq(1..Len(past))
  /\ ~fetching => draft = <<>>

Instants == 1..Len(past)

Denotes(as, id) == as.name.base = id.base /\ as.provider = id.provider

\* Traefik had it at every instant of the fetch.
Lasting(kind) == {x \in Config[kind] : \A i \in Instants : x \in past[i][kind]}

(* Nothing in a snapshot was made up or left from an earlier fetch: each     *)
(* router, service and middleware was configured, under that provider and    *)
(* with that rule and service, at some instant of this fetch.                *)
SnapshotWasThere ==
  Complete =>
    /\ \A x \in Part("routers") : \E i \in Instants :
         \E r \in past[i].routers :
           Denotes(x.as, r.id) /\ x.rule = r.rule /\ x.service = r.service
    /\ \A x \in Part("services") : \E i \in Instants :
         \E s \in past[i].services : Denotes(x, s.id)
    /\ \A x \in Part("middlewares") : \E i \in Instants :
         \E m \in past[i].middlewares : Denotes(x.as, m.id) /\ x.type \in TypesOf(m)

(* What Traefik had all the while is observed, routers with complex or       *)
(* hostless rules included; only its internal services are filtered.  A      *)
(* router is observed with every plain host name it serves, in whichever     *)
(* case and matcher the name stands, so that no conflict is overlooked.      *)
NothingLastingMissed ==
  Complete =>
    /\ \A r \in Lasting("routers") :
         LET names == {h \in UNION {m.args : m \in {k \in r.rule : k.matcher = "Host"}} :
                         ~h.pattern}
         IN \E x \in Part("routers") :
              /\ Denotes(x.as, r.id) /\ x.rule = r.rule
              /\ \A h \in names : Lower(h) \in x.hosts
    /\ \A s \in Lasting("services") : s.id.provider # Internal =>
         \E x \in Part("services") : Denotes(x, s.id)
    /\ \A m \in Lasting("middlewares") :
         \E x \in Part("middlewares") : Denotes(x.as, m.id)

Grew(kind) == \A i \in Instants \ {Len(past)} : past[i][kind] \subseteq past[i + 1][kind]

\* How Traefik resolves the reference of a router to a service (external).
Refers(x, id) ==
  /\ x.service # None
  /\ x.service.base = id.base
  /\ id.provider = IF x.service.at = None THEN x.as.provider ELSE x.service.at

\* The instant one kind of resource was read at.
InstantOf(kind) == at[CHOOSE i \in 1..Len(Order) : Order[i] = kind]

(* A snapshot may mix configurations, but routers are read before services:  *)
(* as long as no service went away during the fetch, a router that had the   *)
(* service it names when it was read has it in the snapshot, unless that is  *)
(* one of Traefik's own: the snapshot shows no router as broken that was     *)
(* not.                                                                      *)
WholeRoutersStayWhole ==
  Complete /\ Grew("services") =>
    \A x \in Part("routers"), s \in past[InstantOf("routers")].services :
      Refers(x, s.id) /\ s.id.provider # Internal =>
        \E y \in Part("services") : Denotes(y, s.id)
=============================================================================
