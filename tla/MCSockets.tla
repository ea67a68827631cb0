------------------------------ MODULE MCSockets ------------------------------
(* Two application tasks with a socket each, below the receive task.       *)
EXTENDS TNSockets, TLC

CONSTANTS s1, s2, p1, hi, lo

MCOwner == s1 :> hi @@ s2 :> lo

MCPrio == Rx :> 1 @@ hi :> 2 @@ lo :> 3

MCPools == [m1buf |-> 3, lobuf |-> 2, drv_lobuf |-> 1, drv_m1buf |-> 2, hibuf |-> 2]
=============================================================================
