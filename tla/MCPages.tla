------------------------------ MODULE MCPages ------------------------------
EXTENDS Pages

MCIds == {"r1", "r2", "r3", "x1"}

Ok == [c \in Components |-> "healthy"]
Unreachable == [Ok EXCEPT !["backend"] = "error"]

MCStatuses == {Unreachable}

\* Two managed routes and an external one.
MCFirstRoutes ==
  LET backend == Target("http", "h1", 80) IN
  {Route("r1", "managed", RouteInput("a", backend, TRUE, TRUE), Ok, 0),
   Route("r2", "managed", RouteInput("b", backend, FALSE, FALSE), Ok, 0),
   Route("x1", "external", RouteInput("x", Target("http", "", 0), TRUE, FALSE), Ok, 0)}

\* The name of the managed route r1 also has an external record.
MCFirstRecords ==
  {[id |-> "r1", type |-> "A", name |-> "a", ownership |-> "managed"],
   [id |-> "x1", type |-> "CNAME", name |-> "a", ownership |-> "external"]}

\* The other fields are entered as these are.
MCTyped ==
  [f \in Fields |-> IF f = "domain" THEN {"c"} ELSE IF f = "host" THEN {"h2"} ELSE {}]

MCFirstStored == {[k \in Keys |-> "u"]}
=============================================================================
