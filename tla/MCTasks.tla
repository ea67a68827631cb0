------------------------------- MODULE MCTasks -------------------------------
(* TNTasks on a small instance: priority 0 (timer), 1 and 2 (application), *)
(* 3 (idle).                                                               *)
EXTENDS TNTasks

CONSTANTS A, B, C

MCBasePriority == [t \in Tasks |-> IF t = A THEN 1 ELSE 2]
MCTimeouts == {1, TN_WAIT_INFINITE}
MCAllServices == AllServices
MCLivenessServices == {"sleep", "tslice"}
MCLiveBasePriority == [t \in Tasks |-> 2]
MCLiveTimeouts == {1, 2}
MCSlices == {1}
=============================================================================
