-------------------------------- MODULE MCTcp --------------------------------
(* A client that sends three units through buffers of two, to a server that  *)
(* reads them; the sequence numbers wrap during the connection.              *)
EXTENDS TNTcp

MCData == [h \in {"client", "server"} |-> IF h = "client" THEN <<"x", "y", "z">> ELSE <<>>]
=============================================================================
