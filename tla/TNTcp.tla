--------------------------------- MODULE TNTcp ---------------------------------
(***************************************************************************)
(* Two hosts with TN NET and a TCP connection between them.  The client's  *)
(* application connects, sends its data, and then either shuts its sending *)
(* side down and reads the answer to the end, or closes at once; the       *)
(* server's accepts, reads to the end, answers and closes, or closes       *)
(* early.  The network loses, duplicates and reorders segments.  A call, a *)
(* segment and a turn of a timer hold the lock of the stack, so each is a  *)
(* step.  The server has memory for one connection beside the listening    *)
(* socket (tn_tcp_check_avaliable_mem).                                    *)
(***************************************************************************)
EXTENDS TNTcpSockets

CONSTANTS
    Client, Server,
    Data,           \* Data[h]: what the application of h sends
    ISS, ISSINCR,   \* tcp_iss at the start, and its step (TCP_ISSINCR / 2)
    KEEPALIVE,      \* hosts whose sockets have SO_KEEPALIVE
    MaxFaults       \* segments lost, duplicated or overtaken, timers that expire too early,
                    \* sockets closed early

Host == {Client, Server}

ASSUME TcpNetAssumption ==
    /\ Client # Server
    /\ DOMAIN Data = Host
    /\ \A h \in Host : Len(Data[h]) < SEQ_MOD \div 2
    /\ KEEPALIVE \subseteq Host /\ MaxFaults \in Nat

VARIABLES
    conn,       \* conn[h]: the connection and socket of h
    tcp_iss,    \* tnet->tcp_iss of each host
    net,        \* net[h]: the segments on their way to h
    pc,         \* where the application of each host is
    sent, got,  \* units sent, and data received, of the current connection
    eof,        \* eof[h]: s_recv returned 0 after a FIN
    faults,     \* faults so far
    early       \* a socket was closed early, or a timer gave up

vars == <<conn, tcp_iss, net, pc, sent, got, eof, faults, early>>

Peer(h) == IF h = Client THEN Server ELSE Client

Init ==
    /\ conn = [h \in Host |-> [NoTcb EXCEPT !.NOFDREF = TRUE]]
    /\ tcp_iss = [h \in Host |-> ISS]
    /\ net = [h \in Host |-> <<>>]
    /\ pc = [h \in Host |-> IF h = Client THEN "start" ELSE "accept"]
    /\ sent = [h \in Host |-> 0] /\ got = [h \in Host |-> <<>>]
    /\ eof = [h \in Host |-> FALSE]
    /\ faults = 0 /\ early = FALSE

(* connection h after a step with result r *)
Becomes(h, r) ==
    /\ conn' = [conn EXCEPT ![h] = r.c]
    /\ net' = [net EXCEPT ![Peer(h)] = @ \o r.out]

Fault == faults < MaxFaults /\ faults' = faults + 1

-----------------------------------------------------------------------------
(* The network and tcp_input                                               *)

(* in_pcblookup: the connection, else the listening socket, else nothing;  *)
(* iss is 0, or what the new connection starts from                        *)
Found(h, c, iss, s) ==
    IF c.tcb THEN tcp_input(c, s)
    ELSE IF h = Server THEN Listening(c, IF iss = 0 THEN tcp_iss[h] ELSE iss, s)
    ELSE NoConnection(c, s)

Input(h, s) ==
    LET r == Found(h, conn[h], 0, s)
    IN  IF r.go = "findpcb" THEN Found(h, r.c, Add(conn[h].rcv_nxt, 2 * ISSINCR), s)
        ELSE r

(* the listening socket has made the connection *)
IsNew(h, c) ==
    c.tcb /\ (conn[h].tcb => conn[h].t_state = "TIME_WAIT" /\ c.t_state = "SYN_RECEIVED")

(* the next segment; as a fault, it also stays, or one that overtook it *)
Receive(h) ==
    \E i \in DOMAIN net[h], stays \in BOOLEAN :
        /\ stays => i = 1
        /\ IF i = 1 /\ ~stays THEN UNCHANGED faults ELSE Fault
        /\ \E r \in {Input(h, net[h][i])} :
             /\ conn' = [conn EXCEPT ![h] = r.c]
             /\ net' = [net EXCEPT ![h] = IF stays THEN @ ELSE RemoveAt(@, i), ![Peer(h)] = @ \o r.out]
             /\ tcp_iss' = [tcp_iss EXCEPT ![h] = IF IsNew(h, r.c) THEN Add(@, ISSINCR) ELSE @]
        /\ UNCHANGED <<pc, sent, got, eof, early>>

Lose(h) ==
    /\ net[h] # <<>> /\ Fault
    /\ net' = [net EXCEPT ![h] = Tail(@)]
    /\ UNCHANGED <<conn, tcp_iss, pc, sent, got, eof, early>>

-----------------------------------------------------------------------------
(* The timer task: a retransmission or a probe is later than all answers,  *)
(* or it is a fault.                                                       *)

Quiet == \A h \in Host : net[h] = <<>> /\ ~conn[h].DELACK

InTime == (Quiet /\ UNCHANGED faults) \/ (~Quiet /\ Fault)

Timer(h, r) == Becomes(h, r) /\ UNCHANGED <<tcp_iss, pc, sent, got, eof>>

FastTimo(h) ==
    /\ conn[h].DELACK
    /\ Timer(h, tcp_fasttimo(conn[h]))
    /\ UNCHANGED <<faults, early>>

(* tcp_slowtimo: the connection of a closed socket *)
Reap(h) ==
    /\ Abandoned(conn[h])
    /\ Timer(h, Result(tcp_close(conn[h]), <<>>))
    /\ UNCHANGED <<faults, early>>

Rexmt(h) ==
    /\ conn[h].REXMT /\ ~Abandoned(conn[h])
    /\ InTime
    /\ \E r \in {RexmtTimer(conn[h])} : Timer(h, r)
    /\ early' = (early \/ RexmtGivesUp(conn[h]))

Persist(h) ==
    /\ conn[h].PERSIST /\ ~Abandoned(conn[h])
    /\ InTime
    /\ \E r \in {PersistTimer(conn[h])} : Timer(h, r)
    /\ UNCHANGED early

(* in SYN_SENT and SYN_RECEIVED TCPT_KEEP is a fault: 75 s without an answer *)
Keep(h) ==
    /\ conn[h].tcb /\ Quiet
    /\ \/ KeepGivesUp(conn[h]) /\ Fault
       \/ h \in KEEPALIVE /\ KeepProbes(conn[h]) /\ ~conn[h].REXMT /\ UNCHANGED faults
    /\ \E r \in {KeepTimer(conn[h])} : Timer(h, r)
    /\ early' = (early \/ KeepGivesUp(conn[h]))

Msl2(h) ==
    /\ conn[h].MSL2 /\ Quiet
    /\ Timer(h, Msl2Timer(conn[h]))
    /\ UNCHANGED <<faults, early>>

-----------------------------------------------------------------------------
(* The applications                                                        *)

Goto(h, place) == pc' = [pc EXCEPT ![h] = place]

Connect ==
    /\ pc[Client] = "start"
    /\ Becomes(Client, soconnect(tcp_s_socket, tcp_iss[Client]))
    /\ tcp_iss' = [tcp_iss EXCEPT ![Client] = Add(@, ISSINCR)]
    /\ Goto(Client, "connect")
    /\ UNCHANGED <<sent, got, eof, faults, early>>

ConnectEnds ==
    /\ pc[Client] = "connect" /\ ConnectReturns(conn[Client])
    /\ Goto(Client, IF conn[Client].error THEN "done" ELSE "send")
    /\ UNCHANGED <<conn, tcp_iss, net, sent, got, eof, faults, early>>

Accept ==
    /\ pc[Server] = "accept" /\ Acceptable(conn[Server])
    /\ Becomes(Server, Result(tcp_s_accept(conn[Server]), <<>>))
    /\ sent' = [sent EXCEPT ![Server] = 0]
    /\ got' = [got EXCEPT ![Server] = <<>>]
    /\ eof' = [eof EXCEPT ![Server] = FALSE]
    /\ Goto(Server, "recv")
    /\ UNCHANGED <<tcp_iss, faults, early>>

(* s_send of the next unit: an error ends the application's loop *)
Send(h) ==
    /\ pc[h] = "send" /\ sent[h] < Len(Data[h])
    /\ \/ /\ SendRefused(conn[h])
          /\ Goto(h, "close")
          /\ UNCHANGED <<conn, net, sent>>
       \/ /\ ~SendRefused(conn[h]) /\ SendBlocks(conn[h])
          /\ Goto(h, "wait")
          /\ UNCHANGED <<conn, net, sent>>
       \/ /\ ~SendRefused(conn[h]) /\ ~SendBlocks(conn[h])
          /\ \E r \in {tcp_s_send(conn[h], Data[h][sent[h] + 1])} : Becomes(h, r)
          /\ sent' = [sent EXCEPT ![h] = @ + 1]
          /\ UNCHANGED pc
    /\ UNCHANGED <<tcp_iss, got, eof, faults, early>>

(* tn_net_wait on so_snd.sb_sem *)
Woken(h) ==
    /\ pc[h] = "wait" /\ conn[h].sem
    /\ conn' = [conn EXCEPT ![h].sem = FALSE]
    /\ Goto(h, "send")
    /\ UNCHANGED <<tcp_iss, net, sent, got, eof, faults, early>>

Shutdown ==
    /\ pc[Client] = "send" /\ sent[Client] = Len(Data[Client])
    /\ \E r \in {IF conn[Client].tcb THEN ShutdownWrite(conn[Client]) ELSE Result(conn[Client], <<>>)} :
         Becomes(Client, r)
    /\ Goto(Client, "recv")
    /\ UNCHANGED <<tcp_iss, sent, got, eof, faults, early>>

Recv(h) ==
    /\ pc[h] = "recv" /\ conn[h].so_rcv # <<>>
    /\ got' = [got EXCEPT ![h] = Append(@, Head(conn[h].so_rcv))]
    /\ \E r \in {tcp_s_recv(conn[h])} : Becomes(h, r)
    /\ UNCHANGED <<tcp_iss, pc, sent, eof, faults, early>>

RecvEnds(h) ==
    /\ pc[h] = "recv" /\ AtEnd(conn[h])
    /\ eof' = [eof EXCEPT ![h] = conn[h].tcb /\ HAVERCVDFIN(conn[h].t_state)]
    /\ Goto(h, IF h = Server THEN "send" ELSE "close")
    /\ UNCHANGED <<conn, tcp_iss, net, sent, got, faults, early>>

(* s_close, in its place or early *)
Close(h) ==
    /\ \/ /\ pc[h] = "close" \/ (pc[h] = "send" /\ h = Server /\ sent[h] = Len(Data[h]))
          /\ UNCHANGED <<faults, early>>
       \/ /\ \/ pc[h] = "send" /\ h = Client /\ sent[h] = Len(Data[h])
             \/ pc[h] = "recv" /\ h = Server
          /\ Fault /\ early' = TRUE
    /\ \E r \in {tcp_s_close(conn[h])} : Becomes(h, r)
    /\ Goto(h, IF h = Server THEN "accept" ELSE "done")
    /\ UNCHANGED <<tcp_iss, sent, got, eof>>

Next ==
    \/ Connect \/ ConnectEnds \/ Accept \/ Shutdown
    \/ \E h \in Host :
         \/ Receive(h) \/ Lose(h) \/ FastTimo(h) \/ Reap(h) \/ Rexmt(h) \/ Persist(h) \/ Keep(h) \/ Msl2(h)
         \/ Send(h) \/ Woken(h) \/ Recv(h) \/ RecvEnds(h) \/ Close(h)

Spec == Init /\ [][Next]_vars

(* The timer task and the tasks of the applications run; a segment that is *)
(* not lost arrives.  It is weak fairness of each of these actions, with   *)
(* the condition that enables the action written out.                      *)
FairSpec ==
    /\ Spec
    /\ []<>~(pc[Client] = "connect" /\ ConnectReturns(conn[Client])) \/ []<><<ConnectEnds>>_vars
    /\ []<>~(pc[Server] = "accept" /\ Acceptable(conn[Server])) \/ []<><<Accept>>_vars
    /\ \A h \in Host :
         /\ []<>(net[h] = <<>>) \/ []<><<Receive(h)>>_vars
         /\ []<>~(conn[h].DELACK) \/ []<><<FastTimo(h)>>_vars
         /\ []<>~(Abandoned(conn[h])) \/ []<><<Reap(h)>>_vars
         /\ []<>~(conn[h].REXMT /\ ~Abandoned(conn[h]) /\ Quiet) \/ []<><<Rexmt(h)>>_vars
         /\ []<>~(conn[h].PERSIST /\ ~Abandoned(conn[h]) /\ Quiet) \/ []<><<Persist(h)>>_vars
         /\ []<>~(pc[h] = "send" /\ sent[h] < Len(Data[h])) \/ []<><<Send(h)>>_vars
         /\ []<>~(pc[h] = "wait" /\ conn[h].sem) \/ []<><<Woken(h)>>_vars
         /\ []<>~(pc[h] = "recv" /\ conn[h].so_rcv # <<>>) \/ []<><<Recv(h)>>_vars

-----------------------------------------------------------------------------
(* What an application reads is what the other sent: the units in order,   *)
(* none twice, none missing, whatever tcp_reass and the trimming of        *)
(* tcp_input meet and wherever the sequence numbers wrap.                  *)
StreamPrefix ==
    \A h \in Host : IsPrefix(got[h] \o (IF pc[h] = "recv" THEN conn[h].so_rcv ELSE <<>>), Data[Peer(h)])

(* A FIN comes after the data: when s_recv returns 0 because of a FIN, all *)
(* that the peer's application sent before it closed was read.             *)
EofComplete ==
    \A h \in Host : eof[h] => got[h] = SubSeq(Data[Peer(h)], 1, sent[Peer(h)])

(* Unless a socket is closed early or a timer gives up, a connection that  *)
(* is asked for comes about and the server reads all the client sends:     *)
(* losses are repaired, a closed window is probed, s_send wakes up.        *)
Delivered == pc[Client] = "connect" ~> (got[Server] = Data[Client] \/ early)
=============================================================================
