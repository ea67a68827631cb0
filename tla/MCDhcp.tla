------------------------------- MODULE MCDhcp -------------------------------
(* TNDhcp with two servers.                                                *)
EXTENDS TNDhcp

CONSTANTS s1, s2

Grant(lease, t1, t2) == [lease |-> lease, t1 |-> t1, t2 |-> t2]

(* Two seconds, which makes T1 and T2 one second, or one; four seconds or  *)
(* for ever; four or two seconds with their times, and without.            *)
MCOffers == {[s \in Servers |-> IF s = s1 THEN Grant(2, 0, 0) ELSE Grant(1, 0, 0)],
             [s \in Servers |-> IF s = s1 THEN Grant(4, 0, 0) ELSE Grant(127, 0, 0)],
             [s \in Servers |-> IF s = s1 THEN Grant(4, 1, 3) ELSE Grant(2, 1, 1)],
             [s \in Servers |-> IF s = s1 THEN Grant(4, 0, 0) ELSE Grant(2, 0, 0)]}
=============================================================================
