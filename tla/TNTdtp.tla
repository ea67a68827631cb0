------------------------------- MODULE TNTdtp -------------------------------
(***************************************************************************)
(* A file transfer between the PC and the device: the thread of the PC     *)
(* that runs one session after another, the task of the device, and the    *)
(* datagrams between them, which may be lost, doubled, delayed or spoilt.  *)
(***************************************************************************)
EXTENDS TNTdtpServer

CONSTANTS
    SendSizes,      \* the sizes of the files the PC sends
    MaxSessions,    \* bound: the sessions the user starts
    MaxFaults       \* bound: faults of the network and the disk, early timeouts

ASSUME FileAssumption == SendSizes \subseteq Nat

VARIABLES
    srv,       \* the structures of the session's thread on the PC
    cli,       \* g_tdtp_cli_ft and the handlers' flags
    toCli,     \* the datagrams on the way to the device
    toSrv,     \* and those on the way to the PC
    opened,    \* udp_socket_ft # -1
    faults     \* how many faults there have been

fileVars == <<srv, cli, toCli, toSrv, opened, faults>>

FileInit ==
    /\ srv = Srv0
    /\ cli = Cli0
    /\ toCli = <<>> /\ toSrv = <<>>
    /\ opened = FALSE
    /\ faults = 0

-----------------------------------------------------------------------------
(* The PC                                                                  *)

(* A step of the session's thread: the packet is sent unless it ended.     *)
SrvBecomes(s) ==
    /\ srv' = s
    /\ toCli' = IF s.op = "idle" THEN toCli ELSE Append(toCli, s.tx)
    /\ UNCHANGED <<cli, opened, faults>>

(* It goes on waiting without an answer.                                   *)
SrvWaits(s) == srv' = s /\ UNCHANGED <<cli, toCli, opened, faults>>

(* The session number is a random one that is not in use.                  *)
Start(s) ==
    /\ srv.op = "idle"
    /\ srv.sid < MaxSessions
    /\ SrvBecomes(s)
    /\ UNCHANGED toSrv

StartRecv == \E a \in {Known, Unknown} : Start(RecvStarted(srv.sid + 1, a))

StartSend ==
    \E n \in SendSizes, a \in {Known, Unknown} :
        Start(SendStarted(srv.sid + 1, n, a))

(* The user's Stop is seen when the thread receives or times out.          *)
UserStop ==
    /\ srv.op # "idle" /\ ~srv.stop /\ faults < MaxFaults
    /\ srv' = [srv EXCEPT !.stop = TRUE]
    /\ faults' = faults + 1
    /\ UNCHANGED <<cli, toCli, toSrv, opened>>

SrvGets(op, m) ==
    /\ srv.op = op
    /\ toSrv # <<>>
    /\ m = Head(toSrv)
    /\ toSrv' = Tail(toSrv)

RecvStops ==
    \E m \in ToSet(toSrv) :
        SrvGets("recv", m) /\ srv.stop /\ SrvWaits(Ended(srv, "aborted"))

SrvRecv(m) == SrvGets("recv", m) /\ ~srv.stop

RecvNack ==
    \E m \in ToSet(toSrv) :
        SrvRecv(m) /\ IsNack(srv, m) /\ SrvWaits(Ended(srv, "failed"))

RecvDup ==
    \E m \in ToSet(toSrv) :
        /\ SrvRecv(m) /\ IsDupBlock(srv, m)
        /\ SrvBecomes(srv_fc_send_ack(Heard(srv, m), "RDNEXT"))

RecvNew ==
    \E m \in ToSet(toSrv) :
        /\ SrvRecv(m) /\ IsNewBlock(srv, m)
        /\ SrvBecomes(RecvBlock(Heard(srv, m), m))

RecvWriteFails ==
    \E m \in ToSet(toSrv) :
        /\ SrvRecv(m) /\ IsNewBlock(srv, m) /\ faults < MaxFaults
        /\ \E n \in 0 .. Len(m.data) - 1 :
               srv' = RecvMissed(Heard(srv, m), m, n)
        /\ toCli' = Append(toCli, srv'.tx)
        /\ faults' = faults + 1
        /\ UNCHANGED <<cli, opened>>

RecvSpoilt ==
    \E m \in ToSet(toSrv) :
        /\ SrvRecv(m) /\ m.cmd = "RD_DATA" /\ ~m.crc
        /\ SrvBecomes(RecvBad(Heard(srv, m)))

RecvUnexpected ==
    \E m \in ToSet(toSrv) :
        /\ SrvRecv(m) /\ (m.cmd = "RD_DATA" => m.crc)
        /\ ~IsNack(srv, m) /\ ~IsDupBlock(srv, m) /\ ~IsNewBlock(srv, m)
        /\ SrvWaits(RecvOther(Heard(srv, m), m))

SendAnswered ==
    \E m \in ToSet(toSrv) :
        /\ SrvGets("send", m) /\ IsAnswer(srv, m)
        /\ SrvBecomes(IF Accepted(m) THEN NextSend(srv)
                      ELSE Ended(srv, "failed"))

SendUnanswered ==
    \E m \in ToSet(toSrv) :
        /\ SrvGets("send", m) /\ ~IsAnswer(srv, m)
        /\ SrvBecomes(SendAgain(srv))

(* select gives up after 100 ms; by then the device has answered, unless   *)
(* the answer is late.                                                     *)
Quiet == toCli = <<>> /\ toSrv = <<>>

TimedOut(s) ==
    IF s.op = "send" THEN SendAgain(s)
    ELSE IF s.stop THEN Ended(s, "aborted")
    ELSE RecvTimeout(s)

SrvTimeout ==
    /\ srv.op # "idle" /\ Quiet
    /\ SrvBecomes(TimedOut(srv))
    /\ UNCHANGED toSrv

SrvTimeoutEarly ==
    /\ srv.op # "idle" /\ ~Quiet /\ faults < MaxFaults
    /\ srv' = TimedOut(srv)
    /\ toCli' = IF srv'.op = "idle" THEN toCli ELSE Append(toCli, srv'.tx)
    /\ faults' = faults + 1
    /\ UNCHANGED <<cli, toSrv, opened>>

(* Between two sessions the PC has no socket.                              *)
Unheard ==
    /\ srv.op = "idle" /\ toSrv # <<>>
    /\ toSrv' = Tail(toSrv)
    /\ UNCHANGED <<srv, cli, toCli, opened, faults>>

-----------------------------------------------------------------------------
(* The device: tdtp_cli                                                    *)

(* task_processing_func: a socket is opened, bound and connected to the    *)
(* PC, again every second until it works; then the task is tdtp_cli.       *)
OpenSocket ==
    /\ ~opened /\ opened' = TRUE
    /\ UNCHANGED <<srv, cli, toCli, toSrv, faults>>

(* No socket has the port yet.                                             *)
CliUnheard ==
    /\ ~opened /\ toCli # <<>>
    /\ toCli' = Tail(toCli)
    /\ UNCHANGED <<srv, cli, toSrv, opened, faults>>

CliGets(m) ==
    /\ opened /\ toCli # <<>>
    /\ m = Head(toCli)
    /\ toCli' = Tail(toCli)
    /\ UNCHANGED <<srv, opened, faults>>

(* A packet was received: the timeouts are counted anew.                   *)
Fresh(c) == [c EXCEPT !.rd_timeouts = 0]

CliBecomes(c) == cli' = c /\ UNCHANGED toSrv

(* tdtp_cli_send: what tx_buf holds is sent.                               *)
CliSends(c) == cli' = c /\ toSrv' = Append(toSrv, c.tx)

CliWr ==
    \E m \in ToSet(toCli) :
        /\ CliGets(m) /\ chk_pkt_WR(m)
        /\ IF WrIgnored(cli, m) THEN CliBecomes(Fresh(cli))
           ELSE IF WrAnswered(WrStopped(cli), m)
           THEN CliSends(WrSession(WrStopped(Fresh(cli)), m))
           ELSE CliBecomes(WrSession(WrStopped(Fresh(cli)), m))

CliWrData ==
    \E m \in ToSet(toCli) :
        /\ CliGets(m) /\ chk_pkt_WR_DATA(m)
        /\ IF IsRepeated(cli, m)
           THEN CliSends(cli_wr_send_ack(Fresh(cli), "WRNEXT"))
           ELSE IF IsNext(cli, m) THEN CliSends(WrNext(Fresh(cli), m))
           ELSE CliBecomes(Fresh(cli))

CliRd ==
    \E m \in ToSet(toCli) :
        /\ CliGets(m) /\ chk_pkt_RD(m)
        /\ IF RdIgnored(cli, m) THEN CliBecomes(Fresh(cli))
           ELSE CliSends(RdSession(RdStarted(Fresh(cli), m)))

CliAckRd ==
    \E m \in ToSet(toCli) :
        /\ CliGets(m) /\ chk_pkt_ACK_RD(m)
        /\ IF WantsNext(cli, m)
           THEN CliSends(cli_do_read([Fresh(cli) EXCEPT !.rd_unexp = 0]))
           ELSE IF WantsLast(cli, m)
           THEN CliSends([Fresh(cli) EXCEPT !.rd_unexp = 0])
           ELSE CliBecomes(AckIgnored(Fresh(cli), m))

CliSpoilt ==
    \E m \in ToSet(toCli) : CliGets(m) /\ ~m.crc /\ CliBecomes(Fresh(cli))

CliTimeout ==
    /\ cli.rd /\ Quiet
    /\ cli' = RdTimedOut(cli)
    /\ toSrv' = IF cli'.rd THEN Append(toSrv, cli.tx) ELSE toSrv
    /\ UNCHANGED <<srv, toCli, opened, faults>>

-----------------------------------------------------------------------------
(* The network                                                             *)

Fault ==
    /\ faults < MaxFaults /\ faults' = faults + 1
    /\ UNCHANGED <<srv, cli, opened>>

(* What may become of the first datagram of a queue: it is lost, doubled,  *)
(* overtaken or spoilt.                                                    *)
Spoilt(q) ==
    {Tail(q), Append(q, Head(q)), Append(Tail(q), Head(q)),
     <<[Head(q) EXCEPT !.crc = FALSE]>> \o Tail(q)}

FaultToCli ==
    Fault /\ toCli # <<>> /\ toCli' \in Spoilt(toCli) /\ UNCHANGED toSrv

FaultToSrv ==
    Fault /\ toSrv # <<>> /\ toSrv' \in Spoilt(toSrv) /\ UNCHANGED toCli

-----------------------------------------------------------------------------
SrvInput ==
    \/ RecvStops \/ RecvNack \/ RecvDup \/ RecvNew \/ RecvSpoilt
    \/ RecvUnexpected \/ SendAnswered \/ SendUnanswered

CliInput ==
    CliWr \/ CliWrData \/ CliRd \/ CliAckRd \/ CliSpoilt \/ CliUnheard

FileNext ==
    \/ StartRecv \/ StartSend \/ UserStop \/ SrvInput \/ SrvTimeout
    \/ RecvWriteFails \/ SrvTimeoutEarly \/ Unheard \/ OpenSocket \/ CliInput \/ CliTimeout
    \/ FaultToCli \/ FaultToSrv

FileSpec == FileInit /\ [][FileNext]_fileVars

(* The threads and tasks run, and select and s_recvfrom time out.          *)
FileFairness ==
    /\ WF_fileVars(SrvInput) /\ WF_fileVars(SrvTimeout)
    /\ WF_fileVars(CliInput) /\ WF_fileVars(CliTimeout)

-----------------------------------------------------------------------------
(* A session of the PC that reports success has moved the whole file: the  *)
(* file it received is the device's, and the file it sent was written and  *)
(* closed by the device with this content, whatever was lost, doubled,     *)
(* late or spoilt, and whatever sessions were given up before.             *)
FileWhole ==
    srv.result = "ok" => \/ srv.file = DevFile
                         \/ srv.file = <<>> /\ srv.sid \in cli.stored

(* The two ways in which a read session goes on for ever.  The device      *)
(* sends tx_buf again as the last block of the session, and an answer to a *)
(* late packet of a write session took its place.  Or a write to the PC's  *)
(* file failed: the device does not look at ack_msg, sends its blocks to   *)
(* the end, and then the acknowledgement of the last block and the last    *)
(* block sent again answer each other, each clearing the timeouts.         *)
KeptAlive == srv.op = "recv" /\ (cli.tx.cmd = "ACK_WR" \/ srv.missed)

(* A session of the PC ends by success or by one of its counters, except   *)
(* for the two kinds of read session of KeptAlive, and every session, of   *)
(* these kinds too, ends once the user has set the stop flag.              *)
SessionsEnd ==
    /\ srv.op # "idle" ~> (srv.op = "idle" \/ KeptAlive)
    /\ srv.stop ~> ~srv.stop

=============================================================================
