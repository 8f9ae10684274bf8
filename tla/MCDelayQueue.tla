---------------------------- MODULE MCDelayQueue ----------------------------
(* A small instance of DelayQueue for TLC. *)
EXTENDS DelayQueue, TLC

CONSTANTS s1, s2, a, b, c

MCSenders == {s1, s2}

MCPlan == (s1 :> <<a, b>>) @@ (s2 :> <<c>>)
=============================================================================
