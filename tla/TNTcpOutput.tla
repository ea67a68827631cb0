----------------------------- MODULE TNTcpOutput -----------------------------
(***************************************************************************)
(* A TCP connection of TN NET with its socket (tn_tcp.h, tn_tcp_subr.c),   *)
(* and what it sends (tn_tcp_output.c), as operators on a record.  Data is *)
(* a sequence of units that sequence numbers count; timers are on or off;  *)
(* of the round trip time only whether a segment is being timed is kept    *)
(* (its acknowledgment ends the backoff).  There is a buffer for every     *)
(* segment.                                                                *)
(***************************************************************************)
EXTENDS Integers, Sequences, FiniteSets, SequencesExt, FiniteSetsExt

CONSTANTS
    SEQ_MOD,        \* sequence numbers are 0 .. SEQ_MOD - 1 (2^32 in the code)
    MSS,            \* t_maxseg
    SND_HIWAT, RCV_HIWAT,   \* so_snd.sb_hiwat, so_rcv.sb_hiwat (tcp_recvspace)
    MAXRXTSHIFT     \* TCP_MAXRXTSHIFT

ASSUME TcpAssumption ==
    /\ {SEQ_MOD, MSS, SND_HIWAT, RCV_HIWAT, MAXRXTSHIFT} \subseteq Nat \ {0}
    /\ SND_HIWAT <= 2 * MSS     \* a window of two segments lets everything out
    /\ SEQ_MOD > 4 * (SND_HIWAT + RCV_HIWAT + 2)

(* Sequence numbers wrap; SEQ_LT and SEQ_GT compare their signed distance *)
Add(a, n) == (a + n) % SEQ_MOD

Dist(a, b) == ((a - b + SEQ_MOD \div 2) % SEQ_MOD) - SEQ_MOD \div 2

SEQ_LT(a, b) == Dist(a, b) < 0

SEQ_GT(a, b) == Dist(a, b) > 0

SeqMax(a, b) == IF SEQ_GT(b, a) THEN b ELSE a

Least(a, b) == IF a < b THEN a ELSE b

Most(a, b) == IF a > b THEN a ELSE b

(* TCPS_...: the order of the states *)
States == <<"CLOSED", "LISTEN", "SYN_SENT", "SYN_RECEIVED", "ESTABLISHED", "CLOSE_WAIT",
            "FIN_WAIT_1", "CLOSING", "LAST_ACK", "FIN_WAIT_2", "TIME_WAIT">>

Num(state) == CHOOSE i \in DOMAIN States : States[i] = state

HAVERCVDSYN(state) == Num(state) >= Num("SYN_RECEIVED")

HAVEESTABLISHED(state) == Num(state) >= Num("ESTABLISHED")

HAVERCVDFIN(state) == state \in {"CLOSE_WAIT", "CLOSING", "LAST_ACK", "TIME_WAIT"}

(* struct tcpcb, struct socket_tcp and their mbufs; tcb is FALSE when the  *)
(* control block is freed.  q: the queue of the listening socket that      *)
(* holds the socket; sem: so_snd.sb_sem.                                   *)
NoTcb == [tcb |-> FALSE, t_state |-> "CLOSED", iss |-> 0, snd_una |-> 0, snd_nxt |-> 0,
          snd_max |-> 0, snd_wnd |-> 0, snd_wl1 |-> 0, snd_wl2 |-> 0, max_sndwnd |-> 0,
          snd_cwnd |-> MSS, rcv_nxt |-> 0, rcv_adv |-> 0, segq |-> <<>>, dupacks |-> 0,
          rxtshift |-> 0, rtt |-> FALSE, rtseq |-> 0, REXMT |-> FALSE, PERSIST |-> FALSE, MSL2 |-> FALSE,
          ACKNOW |-> FALSE, DELACK |-> FALSE, SENTFIN |-> FALSE, force |-> FALSE,
          so_snd |-> <<>>, so_rcv |-> <<>>, sem |-> TRUE, error |-> FALSE, q |-> "none",
          ISCONNECTED |-> FALSE, ISCONNECTING |-> FALSE, ISDISCONNECTING |-> FALSE,
          CANTRCVMORE |-> FALSE, CANTSENDMORE |-> FALSE, NOFDREF |-> FALSE]

(* tcp_newtcpcb *)
NewTcb == [NoTcb EXCEPT !.tcb = TRUE, !.snd_cwnd = 2 * MSS]

(* A socket buffer: its space, and what its mbufs hold after a call        *)
sbspace(hiwat, sb) == hiwat - Len(sb)

sbappend(sb, data) == sb \o data

sbdrop(sb, n) == SubSeq(sb, n + 1, Len(sb))

sbflush(sb) == <<>>

(* A segment.  fin is the flag in the header, which stays when tcp_input   *)
(* clears its own copy in flags.                                           *)
Segment(flags, seq, ack, win, data) ==
    [flags |-> flags, fin |-> "FIN" \in flags, seq |-> seq, ack |-> ack, win |-> win, data |-> data]

-----------------------------------------------------------------------------
(* tcp_output *)

tcp_outflags(state) ==
    CASE state = "CLOSED" -> {"RST", "ACK"}
      [] state = "SYN_SENT" -> {"SYN"}
      [] state = "SYN_RECEIVED" -> {"SYN", "ACK"}
      [] state \in {"FIN_WAIT_1", "CLOSING", "LAST_ACK"} -> {"FIN", "ACK"}
      [] state \in {"ESTABLISHED", "CLOSE_WAIT", "FIN_WAIT_2", "TIME_WAIT"} -> {"ACK"}
      [] OTHER -> {}

tcp_setpersist(c) == [c EXCEPT !.PERSIST = TRUE, !.rxtshift = Least(@ + 1, MAXRXTSHIFT)]

SendWindow(c) == Least(c.snd_wnd, c.snd_cwnd)

(* the window to send into: a forced output has at least one unit *)
OutWindow(c) == IF c.force THEN Most(1, SendWindow(c)) ELSE SendWindow(c)

Sendable(c) == Least(Len(c.so_snd), OutWindow(c)) - Dist(c.snd_nxt, c.snd_una)

(* before a segment is looked for: a forced output into an open window     *)
(* ends the persist state; a window that shrank to 0 pulls snd_nxt back.   *)
Prepared(c) ==
    CASE c.force /\ SendWindow(c) > 0 -> [c EXCEPT !.PERSIST = FALSE, !.rxtshift = 0]
      [] Sendable(c) < 0 /\ OutWindow(c) = 0 -> [c EXCEPT !.REXMT = FALSE, !.snd_nxt = c.snd_una]
      [] OTHER -> c

OutLen(c) == Least(Most(Sendable(c), 0), MSS)

(* mutant: FIN with data behind it *)
Early_OutFlags(c, len) == tcp_outflags(c.t_state)

(* FIN only with the end of the data *)
OutFlags(c, len) ==
    IF SEQ_LT(Add(c.snd_nxt, len), Add(c.snd_una, Len(c.so_snd)))
    THEN tcp_outflags(c.t_state) \ {"FIN"} ELSE tcp_outflags(c.t_state)

(* sender silly window avoidance *)
SendsData(c, len, idle) ==
    /\ len > 0
    /\ \/ len = MSS
       \/ idle /\ len + Dist(c.snd_nxt, c.snd_una) >= Len(c.so_snd)
       \/ c.force
       \/ c.max_sndwnd > 0 /\ len >= c.max_sndwnd \div 2
       \/ SEQ_LT(c.snd_nxt, c.snd_max)

(* what the peer would learn about the window *)
SendsUpdate(c, adv) ==
    /\ sbspace(RCV_HIWAT, c.so_rcv) > 0
    /\ (c.so_snd = <<>> /\ adv >= 2 * MSS) \/ 2 * adv >= RCV_HIWAT

MustSend(c, len, flags, idle) ==
    \/ SendsData(c, len, idle)
    \/ SendsUpdate(c, sbspace(RCV_HIWAT, c.so_rcv) - Dist(c.rcv_adv, c.rcv_nxt))
    \/ c.ACKNOW
    \/ flags \cap {"SYN", "RST"} # {}
    \/ "FIN" \in flags /\ (~c.SENTFIN \/ c.snd_nxt = c.snd_una)

(* the window to advertise *)
AdvWindow(c, flags) ==
    LET space == sbspace(RCV_HIWAT, c.so_rcv)
    IN  IF "RST" \in flags THEN 0
        ELSE Most(IF 4 * space < RCV_HIWAT /\ space < MSS THEN 0 ELSE space,
                  Dist(c.rcv_adv, c.rcv_nxt))

(* a SYN has the number iss; a FIN that is sent again its old number *)
Renumbered(c, flags) ==
    CASE "SYN" \in flags -> [c EXCEPT !.snd_nxt = c.iss]
      [] "FIN" \in flags /\ c.SENTFIN /\ c.snd_nxt = c.snd_max -> [c EXCEPT !.snd_nxt = Add(@, -1)]
      [] OTHER -> c

(* snd_nxt, snd_max and the timers after a segment up to nxt; a segment    *)
(* that is forced out in the persist state only moves snd_max.             *)
Advanced(c, len, nxt, flags) ==
    IF c.force /\ c.PERSIST THEN [c EXCEPT !.snd_max = SeqMax(@, Add(c.snd_nxt, len))]
    ELSE [c EXCEPT !.snd_nxt = nxt, !.snd_max = SeqMax(@, nxt), !.SENTFIN = @ \/ "FIN" \in flags,
                   !.rtt = @ \/ SEQ_GT(nxt, c.snd_max),
                   !.rtseq = IF ~c.rtt /\ SEQ_GT(nxt, c.snd_max) THEN c.snd_nxt ELSE @,
                   !.REXMT = @ \/ nxt # c.snd_una,
                   !.PERSIST = IF c.REXMT \/ nxt = c.snd_una THEN @ ELSE FALSE,
                   !.rxtshift = IF ~c.REXMT /\ nxt # c.snd_una /\ c.PERSIST THEN 0 ELSE @]

(* the segment is out *)
Acknowledged(c, win) ==
    [c EXCEPT !.rcv_adv = IF win > 0 THEN SeqMax(@, Add(c.rcv_nxt, win)) ELSE @,
              !.ACKNOW = FALSE, !.DELACK = FALSE]

Emit(r, c, len, flags) ==
    [r EXCEPT !.again = Sendable(r.c) > MSS,
              !.out = Append(@, Segment(flags, c.snd_nxt, c.rcv_nxt, AdvWindow(c, flags),
                                        SubSeq(c.so_snd, Dist(r.c.snd_nxt, c.snd_una) + 1,
                                               Dist(r.c.snd_nxt, c.snd_una) + len))),
              !.c = Acknowledged(Advanced(c, len, Add(c.snd_nxt, len + Cardinality(flags \cap {"SYN", "FIN"})), flags),
                                 AdvWindow(c, flags))]

(* nothing to send: with data and no timer, the persist state *)
NothingSent(r) ==
    [r EXCEPT !.again = FALSE,
              !.c = IF r.c.so_snd # <<>> /\ ~r.c.REXMT /\ ~r.c.PERSIST
                    THEN tcp_setpersist([r.c EXCEPT !.rxtshift = 0]) ELSE r.c]

OutputOnce(r, len, flags) ==
    IF MustSend(r.c, len, flags, r.idle) THEN Emit(r, Renumbered(r.c, flags), len, flags)
    ELSE NothingSent(r)

OutputStep(r) == OutputOnce(r, OutLen(r.c), OutFlags(r.c, OutLen(r.c)))

Prepare(r) == [r EXCEPT !.c = Prepared(r.c)]

(* a turn of the loop at ``again'' *)
Turn(r) == IF r.again THEN OutputStep(Prepare(r)) ELSE r

(* at most SND_HIWAT segments and an empty turn *)
Turns(r) ==
    LET turn[k \in 0 .. SND_HIWAT + 1] == IF k = 0 THEN r ELSE Turn(turn[k - 1])
    IN  turn[SND_HIWAT + 1]

(* The connection after tcp_output, and the segments sent *)
tcp_output(c) == Turns([c |-> c, out |-> <<>>, again |-> TRUE, idle |-> c.snd_max = c.snd_una])

-----------------------------------------------------------------------------
(* The end of a connection (tn_tcp_subr.c, tn_tcp_sockets2.c)              *)

soisdisconnected(c) ==
    [c EXCEPT !.ISCONNECTED = FALSE, !.ISCONNECTING = FALSE, !.ISDISCONNECTING = FALSE,
              !.CANTRCVMORE = TRUE, !.CANTSENDMORE = TRUE, !.sem = TRUE]

soisdisconnecting(c) ==
    [c EXCEPT !.ISCONNECTING = FALSE, !.ISDISCONNECTING = TRUE,
              !.CANTRCVMORE = TRUE, !.CANTSENDMORE = TRUE, !.sem = TRUE]

soisconnected(c) ==
    [c EXCEPT !.ISCONNECTING = FALSE, !.ISDISCONNECTING = FALSE, !.ISCONNECTED = TRUE,
              !.sem = TRUE, !.q = IF @ = "q0" THEN "q" ELSE @]

(* sofree of a socket without pcb: the buffers and the socket are freed,   *)
(* also when the application has not closed the socket.  What is left is   *)
(* what the application reads in the freed block.                          *)
sofree(c) == [NoTcb EXCEPT !.error = c.error, !.NOFDREF = c.NOFDREF, !.sem = c.sem,
                           !.CANTRCVMORE = c.CANTRCVMORE, !.CANTSENDMORE = c.CANTSENDMORE]

(* tcp_close, in_pcbdetach *)
tcp_close(c) == sofree(soisdisconnected(c))

(* tcp_drop: a RST to a peer that has synchronized *)
tcp_drop(c) ==
    [out |-> IF HAVERCVDSYN(c.t_state) THEN tcp_output([c EXCEPT !.t_state = "CLOSED"]).out ELSE <<>>,
     c |-> tcp_close([c EXCEPT !.error = TRUE])]
=============================================================================
