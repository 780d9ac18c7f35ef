-------------------------------- MODULE MCDns --------------------------------
(* Instances of DnsLifecycle for TLC.  Two spellings of one name and a second *)
(* name, one supported and one unsupported type, one record that existed      *)
(* before NexProxy.                                                           *)
EXTENDS DnsLifecycle, TLC

CONSTANTS z1, z2

MCNames == {"app", "APP.", "www"}
MCCanon == [n \in MCNames |-> IF n = "www" THEN "www" ELSE "app"]

Rec(n, b) == [type |-> "CNAME", name |-> n, body |-> b]
In(z, n, b) == [zone |-> z, want |-> Rec(n, b)]

(* A free name in two spellings and with two targets, and a name in use. *)
SmallInputs == {In(z1, "APP.", "b1"), In(z1, "app", "b2")}
OneName == {In(z1, "APP.", "b1")}
WideInputs ==
  {In(z1, "APP.", "b1"), In(z1, "www", "b1"), In(z2, "app", "b1"),
   [zone |-> z1, want |-> [type |-> "TXT", name |-> "app", body |-> "b1"]]}

OneForeign ==
  [i \in Ids |-> IF i = 2 THEN [zone |-> z1, data |-> Rec("www", "b2")] ELSE Nil]
NoForeign == [i \in Ids |-> Nil]

(* One of each fault; which kinds a run allows is its bound. *)
EachFault == [k \in FaultKinds |-> 1]
NoFaults == [k \in FaultKinds |-> 0]
TwoInstanceFaults == [k \in FaultKinds |-> IF k \in {"cancel", "crash"} THEN 0 ELSE 1]
ReadFaults == [k \in FaultKinds |-> IF k \in {"edit", "db", "cancel"} THEN 1 ELSE 0]
OnlyCancel == [k \in FaultKinds |-> IF k = "cancel" THEN 1 ELSE 0]

Interchangeable == Permutations(Workers) \cup Permutations(Routes)
=============================================================================
