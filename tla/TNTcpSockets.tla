----------------------------- MODULE TNTcpSockets -----------------------------
(***************************************************************************)
(* The timers of a TCP connection of TN NET (tn_tcp_timer.c) and the calls *)
(* of the application on its socket (tn_tcp_sockets.c, tn_tcp_sockets2.c), *)
(* as operators on a connection; each gives the connection after it and    *)
(* the segments it sent.  A call holds the lock of the stack (splnet).     *)
(* No linger, no urgent data, no zero copy; sockets block.                 *)
(***************************************************************************)
EXTENDS TNTcpInput

Result(c, out) == [c |-> c, out |-> out]

Output(c) == Result(tcp_output(c).c, tcp_output(c).out)

-----------------------------------------------------------------------------
(* Timers                                                                  *)

(* tcp_fasttimo: a delayed acknowledgment *)
tcp_fasttimo(c) == Output([c EXCEPT !.DELACK = FALSE, !.ACKNOW = TRUE])

(* tcp_slowtimo takes connections of closed sockets away first *)
Abandoned(c) == c.tcb /\ c.NOFDREF /\ Num(c.t_state) > Num("CLOSE_WAIT") /\ ~c.MSL2

(* TCPT_REXMT: back off, retransmit, after MAXRXTSHIFT times give up *)
RexmtGivesUp(c) == c.rxtshift >= MAXRXTSHIFT

RexmtTimer(c) ==
    IF RexmtGivesUp(c) THEN Result(tcp_drop(c).c, tcp_drop(c).out)
    ELSE Output([c EXCEPT !.rxtshift = @ + 1, !.snd_nxt = c.snd_una, !.rtt = FALSE,
                          !.snd_cwnd = MSS, !.dupacks = 0])

(* TCPT_PERSIST: a unit into the closed window *)
PersistTimer(c) ==
    LET r == tcp_output([tcp_setpersist(c) EXCEPT !.force = TRUE])
    IN  Result([r.c EXCEPT !.force = FALSE], r.out)

(* TCPT_KEEP: a connection that does not come about is dropped; an         *)
(* established one (SO_KEEPALIVE) is asked for a sign of life (tcp_respond) *)
KeepGivesUp(c) == ~HAVEESTABLISHED(c.t_state)

KeepProbes(c) == c.t_state \in {"ESTABLISHED", "CLOSE_WAIT"}

KeepTimer(c) ==
    IF KeepGivesUp(c) THEN Result(tcp_drop(c).c, tcp_drop(c).out)
    ELSE Result(c, <<tcp_respond(c.rcv_nxt, Add(c.snd_una, -1), {"ACK"}, sbspace(RCV_HIWAT, c.so_rcv))>>)

(* TCPT_2MSL *)
Msl2Timer(c) == Result(tcp_close(c), <<>>)

-----------------------------------------------------------------------------
(* Calls                                                                   *)

(* tcp_s_socket: tcp_attach *)
tcp_s_socket == NewTcb

(* tcp_s_connect: soconnect, with a port from in_pcbbind *)
soconnect(c, iss) ==
    Output([SendSeqInit(c, iss) EXCEPT !.ISCONNECTING = TRUE, !.t_state = "SYN_SENT"])

(* the call returns when the connection is up, or with an error *)
ConnectReturns(c) == ~c.ISCONNECTING \/ c.error

(* tcp_s_accept: soqremque takes the socket from so_q *)
Acceptable(c) == c.tcb /\ c.q = "q"

tcp_s_accept(c) == [c EXCEPT !.q = "none", !.NOFDREF = FALSE]

(* tcp_s_send: refused, blocked on so_snd.sb_sem, or a unit sent *)
SendRefused(c) == c.CANTSENDMORE \/ c.error \/ ~c.ISCONNECTED

SendBlocks(c) == sbspace(SND_HIWAT, c.so_snd) <= 0

tcp_s_send(c, unit) == Output([c EXCEPT !.so_snd = sbappend(@, <<unit>>)])

(* tcp_s_recv: nothing more, or the data in the buffer and a window update *)
AtEnd(c) == c.so_rcv = <<>> /\ (c.CANTRCVMORE \/ ~(c.ISCONNECTED \/ c.ISCONNECTING))

tcp_s_recv(c) == Output([c EXCEPT !.so_rcv = Tail(@)])

(* tcp_usrclosed *)
tcp_usrclosed(c) ==
    CASE c.t_state \in {"CLOSED", "LISTEN", "SYN_SENT"} -> tcp_close(c)
      [] c.t_state \in {"SYN_RECEIVED", "ESTABLISHED"} -> [c EXCEPT !.t_state = "FIN_WAIT_1"]
      [] c.t_state = "CLOSE_WAIT" -> [c EXCEPT !.t_state = "LAST_ACK"]
      [] c.t_state \in {"FIN_WAIT_2", "TIME_WAIT"} -> soisdisconnected(c)
      [] OTHER -> c

OutputIfAny(c) == IF c.tcb THEN Output(c) ELSE Result(c, <<>>)

(* tcp_s_shutdown, SHUT_WR *)
ShutdownWrite(c) == OutputIfAny(tcp_usrclosed([c EXCEPT !.CANTSENDMORE = TRUE, !.sem = TRUE]))

(* tcp_disconnect *)
tcp_disconnect(c) ==
    IF ~HAVEESTABLISHED(c.t_state) THEN Result(tcp_close(c), <<>>)
    ELSE OutputIfAny(tcp_usrclosed([soisdisconnecting(c) EXCEPT !.so_rcv = sbflush(@)]))

(* tcp_s_close: sodisconnect, tcp_disconnect again, SS_NOFDREF, sofree *)
Detached(r) == Result([r.c EXCEPT !.NOFDREF = TRUE], r.out)

Disconnected(r) ==
    IF r.c.tcb THEN Result(tcp_disconnect(r.c).c, r.out \o tcp_disconnect(r.c).out) ELSE r

tcp_s_close(c) ==
    Detached(Disconnected(IF c.ISCONNECTED /\ ~c.ISDISCONNECTING THEN tcp_disconnect(c)
                          ELSE Result(c, <<>>)))
=============================================================================
