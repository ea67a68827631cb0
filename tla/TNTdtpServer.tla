---------------------------- MODULE TNTdtpServer ----------------------------
(***************************************************************************)
(* The PC's side of TDTP (demo_pc/udp_server): tdtp_srv_recv_file reads a  *)
(* file from the device, tdtp_srv_send_file writes one to it.  The thread  *)
(* of a session sends a packet and waits for one; a step is all it does    *)
(* from the moment it stops waiting to the moment it waits again, a server *)
(* is a record, and an operator gives the record the step leaves.          *)
(***************************************************************************)
EXTENDS TNTdtpClient

CONSTANTS
    SRV_MAX_TX,
    SRV_MAX_RD_TIMEOUTS,
    SRV_RD_MAX_BAD_BLK,
    MAX_NUM_UNEXP_BLK

ASSUME ServerAssumption ==
    /\ SRV_MAX_TX \in Nat \ {0}
    /\ {SRV_MAX_RD_TIMEOUTS, SRV_RD_MAX_BAD_BLK, MAX_NUM_UNEXP_BLK}
           \subseteq Nat

build_pkt_RD(sid, addr) ==
    [cmd |-> "RD", sid |-> sid, addr |-> addr, crc |-> TRUE]

build_pkt_WR(s) ==
    [cmd |-> "WR", sid |-> s.sid, blk |-> s.blk, tsize |-> s.tsize,
     addr |-> s.addr, data |-> s.data, crc |-> TRUE]

build_pkt_WR_DATA(s) ==
    [cmd |-> "WR_DATA", sid |-> s.sid, blk |-> s.blk, data |-> s.data,
     crc |-> TRUE]

chk_pkt_RD_DATA(m) == m.cmd = "RD_DATA" /\ m.crc
chk_pkt_ACK_WR(m)  == m.cmd = "ACK_WR" /\ m.crc

(* The server before its first session.  op is the session that runs, tx   *)
(* what its tx_buf holds, tries the packets srv_tc_exch has sent, file     *)
(* what was written to the PC's file, stop the flag the user sets, missed  *)
(* (history) that a write to the file failed, and result how the last      *)
(* session ended.                                                          *)
Srv0 ==
    [op |-> "idle", addr |-> Unknown, sid |-> 0, blk |-> 0, tsize |-> 0, nbytes |-> 0,
     data |-> <<>>, tx |-> NothingSent, tries |-> 0, timeouts |-> 0, bad |-> 0,
     unexp |-> 0, file |-> <<>>, stop |-> FALSE, missed |-> FALSE,
     result |-> "none"]

Ended(s, result) ==
    [Srv0 EXCEPT !.sid = s.sid, !.file = s.file, !.tsize = s.tsize,
                 !.result = result]

-----------------------------------------------------------------------------
(* tdtp_srv_recv_file                                                      *)

RecvStarted(sid, addr) ==
    [Srv0 EXCEPT !.op = "recv", !.addr = addr, !.sid = sid,
                 !.tx = build_pkt_RD(sid, addr)]

(* srv_fc_send_ack: the packet it leaves in tx_buf.                        *)
srv_fc_send_ack(s, ack_msg) ==
    [s EXCEPT !.tx = build_pkt_ACK("ACK_RD", s.sid, s.blk, ack_msg)]

InSession(s, m) == chk_pkt_RD_DATA(m) /\ m.sid = s.sid
IsNack(s, m)     == InSession(s, m) /\ m.blk = -1
IsDupBlock(s, m) == InSession(s, m) /\ m.blk = s.blk

IsNewBlock(s, m) == InSession(s, m) /\ m.blk = s.blk + 1

(* A packet of the session clears the counters before it is looked at.     *)
Heard(s, m) ==
    [s EXCEPT !.timeouts = 0, !.bad = IF chk_pkt_RD_DATA(m) THEN 0 ELSE @]

Left(s, m) == IF m.blk = 1 THEN m.tsize ELSE s.nbytes

(* The block is written, the last one ends the session with no answer.     *)
Taken(s, m) ==
    [s EXCEPT !.blk = m.blk, !.file = @ \o m.data,
              !.tsize = IF m.blk = 1 THEN m.tsize ELSE @,
              !.nbytes = Left(s, m) - Len(m.data)]

RecvBlock(s, m) ==
    IF Left(s, m) - Len(m.data) <= 0 THEN Ended(Taken(s, m), "ok")
    ELSE srv_fc_send_ack(Taken(s, m), "RDNEXT")

(* fwrite wrote n bytes of the block only: the block counts as received,   *)
(* its bytes do not, and the answer asks for the next one all the same.    *)
Missed(s, m, n) ==
    [s EXCEPT !.blk = m.blk, !.file = @ \o SubSeq(m.data, 1, n),
              !.tsize = IF m.blk = 1 THEN m.tsize ELSE @,
              !.nbytes = Left(s, m), !.missed = TRUE]

RecvMissed(s, m, n) == srv_fc_send_ack(Missed(s, m, n), "ERR_FWRITE")

(* A packet of another session, or one that is not expected.               *)
RecvOther(s, m) ==
    IF ~chk_pkt_RD_DATA(m) \/ m.sid = s.sid THEN s
    ELSE IF s.unexp + 1 > MAX_NUM_UNEXP_BLK THEN Ended(s, "failed")
    ELSE [s EXCEPT !.unexp = @ + 1]

RecvBad(s) ==
    IF s.bad + 1 > SRV_RD_MAX_BAD_BLK THEN Ended(s, "failed")
    ELSE srv_fc_send_ack([s EXCEPT !.bad = @ + 1], "RDNEXT")

(* Mutant: the timeouts are not counted.                                   *)
Endless_RecvTimeout(s) == srv_fc_send_ack(s, "RDNEXT")

RecvTimeout(s) ==
    IF s.timeouts + 1 > SRV_MAX_RD_TIMEOUTS THEN Ended(s, "failed")
    ELSE srv_fc_send_ack([s EXCEPT !.timeouts = @ + 1], "RDNEXT")

-----------------------------------------------------------------------------
(* tdtp_srv_send_file                                                      *)

SendBlock(s, blk, nbytes) ==
    [s EXCEPT !.blk = blk, !.nbytes = nbytes, !.tries = 1,
              !.data = SubSeq(PcFile(s.sid, s.tsize), s.tsize - nbytes + 1,
                              s.tsize - nbytes + BlockSize(nbytes))]

(* The block number 0 says that the file is a single block.                *)
FirstSend(s) ==
    SendBlock(s, IF s.tsize <= TDTP_MAX_DATA_SIZE THEN 0 ELSE 1, s.tsize)

SendStarted(sid, size, addr) ==
    LET s == FirstSend([Srv0 EXCEPT !.op = "send", !.addr = addr,
                                    !.sid = sid, !.tsize = size])
    IN  [s EXCEPT !.tx = build_pkt_WR(s)]

(* srv_tc_resp_proc                                                        *)
IsAnswer(s, m) == chk_pkt_ACK_WR(m) /\ m.sid = s.sid /\ m.blk = s.blk

Accepted(m) == m.msg \in {"WRNEXT", "FCLOSE"}

(* The next round of tdtp_srv_send_file; the flag is read before the data. *)
NextSend(s) ==
    IF s.nbytes - Len(s.data) <= 0 THEN Ended(s, "ok")
    ELSE IF s.stop THEN Ended(s, "aborted")
    ELSE LET n == SendBlock(s, s.blk + 1, s.nbytes - Len(s.data))
         IN  [n EXCEPT !.tx = build_pkt_WR_DATA(n)]

(* srv_tc_exch: whatever else it received, or nothing, costs one try.      *)
SendAgain(s) ==
    IF s.tries = SRV_MAX_TX THEN Ended(s, "failed")
    ELSE [s EXCEPT !.tries = @ + 1]

=============================================================================
