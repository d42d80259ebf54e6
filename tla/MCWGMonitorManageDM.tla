-------------------------- MODULE MCWGMonitorManageDM --------------------------
(***************************************************************************)
(* Run loops with three clients each: one that is stopped while it has work,*)
(* one that returns after each source it handles, one of the main thread    *)
(* with messages on its ports, and one under the monitor whose callouts may *)
(* hang.                                                                    *)
(***************************************************************************)
EXTENDS WGMonitorManageDM, TLC

CONSTANTS c1, c2, c3, s1, s2, b1, b2

MCClients == {c1, c2, c3}
Jobs(j1, j2, j3) == c1 :> j1 @@ c2 :> j2 @@ c3 :> j3
J(do, what) == [do |-> do, what |-> what]

Forever == [stopAfterHandle |-> FALSE, seconds |-> "forever"]
OneSource(seconds) == [stopAfterHandle |-> TRUE, seconds |-> seconds]

MCPlans ==
  {[observers |-> 0, main |-> FALSE, hangs |-> {FALSE}, runs |-> {Forever},
    job |-> Jobs(J("block", b2), J("block", b1), J("stop", "run"))],
   [observers |-> 0, main |-> FALSE, hangs |-> {FALSE}, runs |-> {OneSource("some"), OneSource("none")},
    job |-> Jobs(J("signal", s1), J("signal", s2), J("block", b1))],
   [observers |-> 0, main |-> TRUE, hangs |-> {FALSE}, runs |-> {Forever},
    job |-> Jobs(J("message", "main"), J("message", "timer"), J("stopMode", "mode"))],
   [observers |-> 2, main |-> TRUE, hangs |-> {FALSE, TRUE}, runs |-> {Forever},
    job |-> Jobs(J("signal", s1), J("message", "source1"), J("nothing", "nothing"))]}
================================================================================
