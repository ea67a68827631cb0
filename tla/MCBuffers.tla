------------------------------ MODULE MCBuffers ------------------------------
(* TNBuffers with two tasks, interrupts, two blocks and a queue that holds  *)
(* one element.                                                            *)
EXTENDS TNBuffers

CONSTANTS A, B

MCBasePriority == [t \in Tasks |-> IF t = A THEN 1 ELSE 2]
MCTimeouts == {1}
MCServices == {}
=============================================================================
