------------------------------- MODULE MCEvent -------------------------------
(* TNEvent with two tasks of different priorities that wait, set, clear,   *)
(* delete and suspend each other, an interrupt that does so too, and an    *)
(* event of two flags with every attribute.                                *)
EXTENDS TNEvent

CONSTANTS A, B, f1, f2

MCBasePriority == [t \in Tasks |-> IF t = A THEN 1 ELSE 2]
MCTimeouts == {1}
MCServices == {"suspend", "resume"}
MCAttributes == {{"SINGLE"}, {"MULTI"}, {"SINGLE", "CLR"}}
MCWaitPatterns == {{f1}, {f1, f2}}
=============================================================================
