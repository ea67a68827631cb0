------------------------------ MODULE MCDriver ------------------------------
(* TNDriver with the receive task and an application task, three packets   *)
(* of one or two fragments, three transmit descriptors and queues of one   *)
(* entry.                                                                  *)
EXTENDS TNDriver

CONSTANTS rx, app, p1, p2, p3

MCRank == rx :> 1 @@ app :> 2
MCFrags == p1 :> 1 @@ p2 :> 2 @@ p3 :> 2

(* Bound: after a race the packets in the driver are followed to the end,  *)
(* but no new ones come.                                                   *)
NoNewPackets == raced => allocated' \subseteq allocated

MCSpec == Init /\ [][Next /\ NoNewPackets]_vars /\ Fairness
=============================================================================
