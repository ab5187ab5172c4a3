-------------------------------- MODULE MCDns --------------------------------
(* DnsSync with two machines, and entries of both types. *)
EXTENDS DnsSync, TLC

CONSTANTS m1, m2, a1, a2, b1, x1, e1, e2, e3

MCOwner == (a1 :> m1) @@ (a2 :> m1) @@ (b1 :> m2) @@ (x1 :> m1)
MCLinks == {<<m1, e1>>, <<m1, e2>>, <<m2, e3>>}
MCReports ==
  (m1 :> {[exists |-> TRUE, v4 |-> a1, v6 |-> x1], [exists |-> TRUE, v4 |-> a1, v6 |-> NoIP]})
  @@ (m2 :> {[exists |-> TRUE, v4 |-> b1, v6 |-> NoIP]})
=============================================================================
