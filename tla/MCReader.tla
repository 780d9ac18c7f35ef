------------------------------ MODULE MCReader ------------------------------
(* An instance of TraefikReader: routers that name their service in full,    *)
(* by its base name, not at all, or name one that is not there; one of them  *)
(* is Traefik's own and one has two Host matchers.                           *)
EXTENDS TraefikReader

Id(base, provider) == [base |-> base, provider |-> provider]
Matcher(matcher, args) == [matcher |-> matcher, args |-> args]
Plain(host) == [host |-> host, upper |-> FALSE, pattern |-> FALSE]
Loud(host) == [Plain(host) EXCEPT !.upper = TRUE]
Pattern(host) == [Plain(host) EXCEPT !.pattern = TRUE]

Api == [id |-> Id("api", "internal")]
Web == [id |-> Id("web", "docker")]
App == [id |-> Id("web", "file")]
Auth == [id |-> Id("auth", "file"), keys |-> {"basicAuth", "usedBy"}]

Named(base, provider) == [base |-> base, at |-> provider]
Unqualified(base) == Named(base, None)

Dashboard == [id |-> Id("dash", "internal"), service |-> Unqualified("api"),
              rule |-> {Matcher("PathPrefix", {})}]
Site == [id |-> Id("site", "docker"), service |-> Named("web", "docker"),
         rule |-> {Matcher("Host", {Plain("h1")}), Matcher("Host", {Loud("h2")}),
                   Matcher("!Host", {Plain("h3")})}]
Odd(service) == [id |-> Id("site", "file"), service |-> service,
                 rule |-> {Matcher("HostRegexp", {Pattern("h1")})}]

MCConfigurations ==
  [version     : {3},
   routers     : {{Dashboard} \cup r :
                    r \in {{}, {Site}, {Site, Odd(None)}, {Odd(Unqualified("web"))}}},
   services    : {{Api} \cup s : s \in {{}, {Web}, {Web, App}}},
   middlewares : SUBSET {Auth}]
=============================================================================
