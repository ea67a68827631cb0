------------------------------ MODULE TNTcpInput ------------------------------
(***************************************************************************)
(* What a TCP connection of TN NET does with a segment (tn_tcp_input.c).   *)
(* tcp_input is a chain of stages on a record: the connection c, the       *)
(* segment s as far as it is trimmed, the receive window wnd, what was     *)
(* sent (out), needoutput (need), and go, the label to continue at.        *)
(***************************************************************************)
EXTENDS TNTcpOutput

CONSTANT DUPACKS    \* duplicate acknowledgments before a retransmission, 3

ASSUME DupacksAssumption == DUPACKS \in Nat \ {0}

-----------------------------------------------------------------------------
(* The reassembly queue                                                    *)

(* the queued segments that begin no later than s, the last of them last *)
Before(q, s) == Cardinality({i \in DOMAIN q : ~SEQ_GT(q[i].seq, s.seq)})

(* how much of s the k-th queued segment has already *)
Overlap(q, k, s) == IF k = 0 THEN 0 ELSE Dist(Add(q[k].seq, Len(q[k].data)), s.seq)

DropHead(s, n) == [s EXCEPT !.seq = Add(@, n), !.data = SubSeq(@, n + 1, Len(@))]

(* the queued segments after s, without what s has *)
Uncovered(q, end) ==
    LET left == SelectSeq(q, LAMBDA e : Dist(end, e.seq) <= 0 \/ Dist(end, e.seq) < Len(e.data))
    IN  [i \in DOMAIN left |-> DropHead(left[i], Most(Dist(end, left[i].seq), 0))]

Inserted(q, k, s, over) ==
    SubSeq(q, 1, k) \o <<DropHead(s, over)>>
        \o Uncovered(SubSeq(q, k + 1, Len(q)), Add(s.seq, Len(s.data)))

(* present: the head of the queue goes to the socket when it is next *)
PresentOne(r) ==
    IF r.c.segq = <<>> \/ Head(r.c.segq).seq # r.c.rcv_nxt THEN r
    ELSE [fin |-> Head(r.c.segq).fin,
          c |-> [r.c EXCEPT !.rcv_nxt = Add(@, Len(Head(r.c.segq).data)), !.segq = Tail(@),
                            !.so_rcv = IF r.c.CANTRCVMORE THEN @ ELSE sbappend(@, Head(r.c.segq).data)]]

Present(c) ==
    LET round[k \in 0 .. Len(c.segq)] ==
          IF k = 0 THEN [c |-> c, fin |-> FALSE] ELSE PresentOne(round[k - 1])
    IN  IF HAVEESTABLISHED(c.t_state) THEN round[Len(c.segq)] ELSE round[0]

(* a segment whose data is in the queue already is dropped *)
Queued(c, s, k, over) ==
    IF over > 0 /\ over >= Len(s.data) THEN [c |-> c, fin |-> FALSE]
    ELSE Present([c EXCEPT !.segq = Inserted(@, k, s, Most(over, 0))])

tcp_reass(c, s) ==
    Queued(c, s, Before(c.segq, s), Overlap(c.segq, Before(c.segq, s), s))

-----------------------------------------------------------------------------
(* Labels: every stage lets a record pass that is on its way elsewhere.    *)

Go(x, label) == [x EXCEPT !.go = label]

AckNow(x) == [x EXCEPT !.c.ACKNOW = TRUE]

Closed(x) == [x EXCEPT !.c = tcp_close(x.c), !.go = "drop"]

Dropped(x, label) ==
    [x EXCEPT !.c = tcp_drop(x.c).c, !.out = @ \o tcp_drop(x.c).out, !.go = label]

Sent(x, c, label) ==
    [x EXCEPT !.c = tcp_output(c).c, !.out = @ \o tcp_output(c).out, !.go = label]

(* Receive window: the space, and never less than was advertised *)
RcvWindow(c) == Most(Most(sbspace(RCV_HIWAT, c.so_rcv), 0), Dist(c.rcv_adv, c.rcv_nxt))

Arrived(c, s) == [c |-> c, s |-> s, wnd |-> RcvWindow(c), out |-> <<>>, need |-> FALSE, go |-> "on"]

(* tcp_sendseqinit and tcp_rcvseqinit *)
SendSeqInit(c, iss) ==
    [c EXCEPT !.iss = iss, !.snd_una = iss, !.snd_nxt = iss, !.snd_max = iss]

RcvSeqInit(c, irs) == [c EXCEPT !.rcv_nxt = Add(irs, 1), !.rcv_adv = Add(irs, 1)]

(* trimthenstep6: to the first data; the SYN's options set the window (tcp_mss) *)
TrimThenStep6(x) ==
    [x EXCEPT !.s.seq = Add(@, 1), !.s.data = SubSeq(@, 1, Least(Len(@), x.wnd)),
              !.s.flags = IF Len(x.s.data) > x.wnd THEN @ \ {"FIN"} ELSE @,
              !.c.snd_wl1 = x.s.seq, !.c.snd_cwnd = MSS, !.go = "step6"]

(* sonewconn: a socket nobody has yet, in the queue so_q0 (soqinsque) *)
sonewconn == [NewTcb EXCEPT !.NOFDREF = TRUE, !.q = "q0"]

(* LISTEN: the new socket takes the SYN *)
Listen(iss, s) ==
    TrimThenStep6(Arrived([SendSeqInit(RcvSeqInit(sonewconn, s.seq), iss)
                               EXCEPT !.ACKNOW = TRUE, !.t_state = "SYN_RECEIVED"], s))

SynSentAcked(x, established) ==
    TrimThenStep6(
        IF established
        THEN [x EXCEPT !.c = Present([soisconnected(@) EXCEPT !.t_state = "ESTABLISHED"]).c,
                       !.c.rxtshift = IF x.c.rtt THEN 0 ELSE @, !.c.rtt = FALSE]
        ELSE [x EXCEPT !.c.t_state = "SYN_RECEIVED"])

SynSent(x) ==
    LET acks == "ACK" \in x.s.flags
    IN  IF x.go # "on" \/ x.c.t_state # "SYN_SENT" THEN x
        ELSE IF acks /\ (~SEQ_GT(x.s.ack, x.c.iss) \/ SEQ_GT(x.s.ack, x.c.snd_max)) THEN Go(x, "reset")
        ELSE IF "RST" \in x.s.flags THEN IF acks THEN Dropped(x, "drop") ELSE Go(x, "drop")
        ELSE IF "SYN" \notin x.s.flags THEN Go(x, "drop")
        ELSE SynSentAcked([x EXCEPT !.c = [RcvSeqInit(@, x.s.seq) EXCEPT
                                             !.snd_una = IF acks THEN x.s.ack ELSE @,
                                             !.snd_nxt = IF acks THEN SeqMax(@, x.s.ack) ELSE @,
                                             !.REXMT = FALSE, !.ACKNOW = TRUE]], acks)

-----------------------------------------------------------------------------
(* The other states: only what is in the receive window stays              *)

(* a SYN to the left of the window is old *)
OldSyn(x) ==
    IF "SYN" \in x.s.flags /\ SEQ_LT(x.s.seq, x.c.rcv_nxt)
    THEN [x EXCEPT !.s.flags = @ \ {"SYN"}, !.s.seq = Add(@, 1)] ELSE x

(* data to the left of the window is old; a segment with nothing new is acked *)
OldData(x, old, todrop) ==
    IF ~old THEN x
    ELSE IF todrop > Len(x.s.data) \/ (todrop = Len(x.s.data) /\ "FIN" \notin x.s.flags)
    THEN AckNow([x EXCEPT !.s = DropHead(@, Len(x.s.data)), !.s.flags = @ \ {"FIN"}])
    ELSE [x EXCEPT !.s = DropHead(@, todrop)]

LeftTrim(x) ==
    IF x.go # "on" THEN x
    ELSE OldData(OldSyn(x), SEQ_LT(x.s.seq, x.c.rcv_nxt), Dist(x.c.rcv_nxt, OldSyn(x).s.seq))

(* data for a socket that nobody has any more *)
Orphan(x) ==
    IF x.go = "on" /\ x.c.NOFDREF /\ Num(x.c.t_state) > Num("CLOSE_WAIT") /\ x.s.data # <<>>
    THEN Go(Closed(x), "reset") ELSE x

CutTail(x, n) ==
    [x EXCEPT !.s.data = SubSeq(@, 1, Len(@) - n), !.s.flags = @ \ {"FIN"}]

(* a new connection takes the place of one in TIME_WAIT: on to findpcb *)
Replaces(x) ==
    "SYN" \in x.s.flags /\ x.c.t_state = "TIME_WAIT" /\ SEQ_GT(x.s.seq, x.c.rcv_nxt)

RightTrim(x) ==
    LET todrop == Dist(Add(x.s.seq, Len(x.s.data)), Add(x.c.rcv_nxt, x.wnd))
    IN  IF x.go # "on" \/ todrop <= 0 THEN x
        ELSE IF todrop < Len(x.s.data) THEN CutTail(x, todrop)
        ELSE IF Replaces(x) THEN Go(Closed(x), "findpcb")
        ELSE IF x.wnd = 0 /\ x.s.seq = x.c.rcv_nxt THEN AckNow(CutTail(x, todrop))
        ELSE Go(x, "ack")

(* a reset ends the connection; in ESTABLISHED only at the next number *)
Reset(x) ==
    IF x.go # "on" \/ "RST" \notin x.s.flags THEN x
    ELSE IF x.c.t_state = "ESTABLISHED" /\ x.s.seq # x.c.rcv_nxt
    THEN Go([x EXCEPT !.s.flags = @ \ {"RST"}], "ack")
    ELSE IF x.c.t_state \in {"CLOSING", "LAST_ACK", "TIME_WAIT"} THEN Closed(x)
    ELSE Closed([x EXCEPT !.c.error = TRUE])

(* a SYN in the window; a segment without ACK *)
SynInWindow(x) ==
    IF x.go # "on" THEN x
    ELSE IF "SYN" \in x.s.flags
    THEN IF x.c.t_state = "ESTABLISHED" THEN Go(x, "drop") ELSE Dropped(x, "reset")
    ELSE IF "ACK" \notin x.s.flags THEN Go(x, "drop") ELSE x

-----------------------------------------------------------------------------
(* The acknowledgment                                                      *)

AckInSynReceived(x) ==
    IF x.go # "on" \/ x.c.t_state # "SYN_RECEIVED" THEN x
    ELSE IF SEQ_GT(x.c.snd_una, x.s.ack) \/ SEQ_GT(x.s.ack, x.c.snd_max) THEN Go(x, "reset")
    ELSE [x EXCEPT !.c = [Present([soisconnected(@) EXCEPT !.t_state = "ESTABLISHED"]).c
                            EXCEPT !.snd_wl1 = Add(x.s.seq, -1)]]

(* the third duplicate acknowledgment: the missing segment again, alone *)
FastRetransmitted(x, onxt) ==
    [x EXCEPT !.c.snd_cwnd = 2 * MSS, !.c.snd_nxt = SeqMax(@, onxt), !.go = "drop"]

DuplicateAck(x, n) ==
    CASE ~x.c.REXMT \/ x.s.ack # x.c.snd_una -> Go([x EXCEPT !.c.dupacks = 0], "step6")
      [] n = DUPACKS ->
           FastRetransmitted(Sent(x, [x.c EXCEPT !.dupacks = n, !.REXMT = FALSE, !.rtt = FALSE,
                                                 !.snd_nxt = x.s.ack, !.snd_cwnd = MSS], "drop"),
                             x.c.snd_nxt)
      [] n > DUPACKS -> Sent(x, [x.c EXCEPT !.dupacks = n, !.snd_cwnd = 2 * MSS], "drop")
      [] OTHER -> Go([x EXCEPT !.c.dupacks = n], "step6")

OldAck(x) ==
    IF x.go # "on" \/ SEQ_GT(x.s.ack, x.c.snd_una) THEN x
    ELSE IF x.s.data = <<>> /\ x.s.win = x.c.snd_wnd
    THEN DuplicateAck(x, Least(x.c.dupacks + 1, DUPACKS + 1))
    ELSE Go([x EXCEPT !.c.dupacks = 0], "step6")

(* mutant: the last acknowledged unit stays in the send buffer *)
Keep_Drained(c, acked) ==
    [c EXCEPT !.so_snd = sbdrop(@, acked - 1),
              !.snd_wnd = @ - Least(acked, Len(c.so_snd)),
              !.sem = @ \/ c.t_state = "ESTABLISHED"]

(* mutant: s_send is not woken *)
Asleep_Drained(c, acked) ==
    [c EXCEPT !.so_snd = sbdrop(@, acked),
              !.snd_wnd = @ - Least(acked, Len(c.so_snd))]

(* so_snd without what is acknowledged; s_send may go on *)
Drained(c, acked) ==
    [c EXCEPT !.so_snd = sbdrop(@, acked),
              !.snd_wnd = @ - Least(acked, Len(c.so_snd)),
              !.sem = @ \/ c.t_state = "ESTABLISHED"]

AckTimers(c, ack) ==
    [c EXCEPT !.dupacks = 0, !.snd_cwnd = Least(@ + MSS, 2 * MSS),
              !.rxtshift = IF c.rtt /\ SEQ_GT(ack, c.rtseq) THEN 0 ELSE @,
              !.rtt = @ /\ ~SEQ_GT(ack, c.rtseq),
              !.REXMT = IF ack = c.snd_max THEN FALSE ELSE @ \/ ~c.PERSIST,
              !.snd_una = ack, !.snd_nxt = SeqMax(@, ack)]

TimeWait(c) ==
    soisdisconnected([c EXCEPT !.t_state = "TIME_WAIT", !.REXMT = FALSE, !.PERSIST = FALSE, !.MSL2 = TRUE])

FinWait2(c) ==
    [IF c.CANTRCVMORE THEN [soisdisconnected(c) EXCEPT !.MSL2 = TRUE] ELSE c
        EXCEPT !.t_state = "FIN_WAIT_2"]

AckedIn(x, ourfinisacked) ==
    CASE x.c.t_state = "FIN_WAIT_1" /\ ourfinisacked -> Go([x EXCEPT !.c = FinWait2(@)], "step6")
      [] x.c.t_state = "CLOSING" /\ ourfinisacked -> Go([x EXCEPT !.c = TimeWait(@)], "step6")
      [] x.c.t_state = "LAST_ACK" /\ ourfinisacked -> Closed(x)
      [] x.c.t_state = "TIME_WAIT" -> Go([x EXCEPT !.c.MSL2 = TRUE], "ack")
      [] OTHER -> Go(x, "step6")

NewAck(x, acked) ==
    IF x.go # "on" THEN x
    ELSE IF SEQ_GT(x.s.ack, x.c.snd_max) THEN Go([x EXCEPT !.c.dupacks = 0], "ack")
    ELSE AckedIn([x EXCEPT !.c = AckTimers(Drained(@, acked), x.s.ack),
                           !.need = @ \/ x.s.ack = x.c.snd_max],
                 acked > Len(x.c.so_snd))

Ack(x) == NewAck(OldAck(AckInSynReceived(x)), Dist(x.s.ack, x.c.snd_una))

-----------------------------------------------------------------------------
(* step6: the window, the data, the FIN, the output                        *)

FreshWindow(c, s) ==
    /\ "ACK" \in s.flags
    /\ \/ SEQ_LT(c.snd_wl1, s.seq)
       \/ c.snd_wl1 = s.seq /\ (SEQ_LT(c.snd_wl2, s.ack) \/ (c.snd_wl2 = s.ack /\ s.win > c.snd_wnd))

WindowUpdate(x) ==
    IF x.go = "step6" /\ FreshWindow(x.c, x.s)
    THEN [x EXCEPT !.c.snd_wnd = x.s.win, !.c.snd_wl1 = x.s.seq, !.c.snd_wl2 = x.s.ack,
                   !.c.max_sndwnd = Most(@, x.s.win), !.need = TRUE]
    ELSE x

(* the flags after the text: FIN comes from the header or from the queue *)
WithFin(x, fin) == [x EXCEPT !.s.flags = IF fin THEN {"FIN"} ELSE {}]

Reassembled(x, r) == AckNow(WithFin([x EXCEPT !.c = r.c], r.fin))

InOrder(x) ==
    x.s.seq = x.c.rcv_nxt /\ x.c.segq = <<>> /\ x.c.t_state = "ESTABLISHED"

Text(x) ==
    IF x.go # "step6" THEN x
    ELSE IF (x.s.data = <<>> /\ "FIN" \notin x.s.flags) \/ HAVERCVDFIN(x.c.t_state)
    THEN [x EXCEPT !.s.flags = @ \ {"FIN"}]
    ELSE IF InOrder(x)
    THEN WithFin([x EXCEPT !.c.DELACK = TRUE, !.c.rcv_nxt = Add(@, Len(x.s.data)),
                           !.c.so_rcv = IF x.c.CANTRCVMORE THEN @ ELSE sbappend(@, x.s.data)], x.s.fin)
    ELSE Reassembled(x, tcp_reass(x.c, x.s))

FinIn(c) ==
    CASE c.t_state \in {"SYN_RECEIVED", "ESTABLISHED"} -> [c EXCEPT !.t_state = "CLOSE_WAIT"]
      [] c.t_state = "FIN_WAIT_1" -> [c EXCEPT !.t_state = "CLOSING"]
      [] c.t_state = "FIN_WAIT_2" -> TimeWait(c)
      [] OTHER -> c

(* Text lets a FIN pass only when none was received before *)
Fin(x) ==
    IF x.go = "step6" /\ "FIN" \in x.s.flags
    THEN [x EXCEPT !.c = FinIn([@ EXCEPT !.CANTRCVMORE = TRUE, !.ACKNOW = TRUE,
                                         !.rcv_nxt = Add(@, 1)])]
    ELSE x

tcp_respond(ack, seq, flags, win) == Segment(flags, seq, ack, win, <<>>)

(* dropwithreset: a RST that the sender of the segment accepts *)
RstFor(s) ==
    IF "ACK" \in s.flags THEN tcp_respond(0, s.ack, {"RST"}, 0)
    ELSE tcp_respond(Add(s.seq, Len(s.data) + Cardinality(s.flags \cap {"SYN"})), 0, {"RST", "ACK"}, 0)

(* the ends: output, dropafterack, dropwithreset, drop *)
Ended(x) ==
    CASE x.go = "step6" /\ (x.need \/ x.c.ACKNOW) -> Sent(x, x.c, "drop")
      [] x.go = "ack" /\ "RST" \notin x.s.flags -> Sent(x, [x.c EXCEPT !.ACKNOW = TRUE], "drop")
      [] x.go = "reset" /\ "RST" \notin x.s.flags -> [x EXCEPT !.out = Append(@, RstFor(x.s))]
      [] OTHER -> x

Step6(x) == Ended(Fin(Text(WindowUpdate(x))))

(* a segment for a connection; for no connection; and for the listening    *)
(* socket, which drops a SYN while the memory is taken                     *)
(* (tn_tcp_check_avaliable_mem)                                            *)
tcp_input(c, s) ==
    Step6(Ack(SynInWindow(Reset(RightTrim(Orphan(LeftTrim(SynSent(Arrived(c, s)))))))))

NoConnection(c, s) == Ended(Go(Arrived(c, s), "reset"))

Listening(c, iss, s) ==
    IF s.flags \cap {"RST", "ACK", "SYN"} = {"SYN"} /\ c.NOFDREF THEN Step6(Listen(iss, s))
    ELSE IF "ACK" \in s.flags THEN NoConnection(c, s)
    ELSE Go(Arrived(c, s), "drop")
=============================================================================
