-------------------------------- MODULE MCArp --------------------------------
(* TNArp with two entries, three hosts, the receive task and one other     *)
(* task.                                                                   *)
EXTENDS TNArp, TLC

CONSTANTS p1, p2, p3, h1, h2, h3, rx, app, MaxSpoilt

(* Packets and hosts are interchangeable.                                  *)
Interchangeable == Permutations(Packets) \cup Permutations(Hosts)

(* Bound: how many packets are freed while an entry holds them             *)
FewSpoilt == Cardinality(spoilt') <= MaxSpoilt

(* What a packet was sent to that is free now, or spoilt, matters no more. *)
Relevant ==
    <<table, allocated, time, dup_own_ip, pc, spoilt,
      [m \in Packets |-> IF m \in allocated \ spoilt THEN dest[m] ELSE AnyAddr]>>

MCSpec == Init /\ [][Next /\ FewSpoilt]_vars
=============================================================================
