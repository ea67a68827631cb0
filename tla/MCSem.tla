-------------------------------- MODULE MCSem --------------------------------
(* TNSem with two tasks of different priorities that acquire, signal,      *)
(* delete and suspend each other, and an interrupt that signals and polls. *)
EXTENDS TNSem

CONSTANTS A, B

MCBasePriority == [t \in Tasks |-> IF t = A THEN 1 ELSE 2]
MCTimeouts == {1, TN_WAIT_INFINITE}
MCServices == {"suspend", "resume", "sleep"}
=============================================================================
