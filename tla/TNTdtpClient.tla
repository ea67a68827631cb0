---------------------------- MODULE TNTdtpClient ----------------------------
(***************************************************************************)
(* The device's side of TDTP, the file transfer protocol of the UDP_Test_2 *)
(* demonstration (demo_pc/udp_test_2): its packets, the function of the    *)
(* client that handles each of them and the handlers behind the two files. *)
(* A client is a record, the structure TDTPCLI with the two open flags;    *)
(* every operator gives the record that the function leaves.               *)
(***************************************************************************)
EXTENDS Integers, Sequences, SequencesExt

CONSTANTS
    TDTP_MAX_DATA_SIZE,
    CLI_MAX_RD_TIMEOUTS,
    CLI_MAX_UNEXP_BLOCKS,
    DevFileSize,      \* the size of the file the device generates
    Known, Unknown    \* the address a handler is selected for, any other one

ASSUME TdtpAssumption ==
    /\ {CLI_MAX_RD_TIMEOUTS, CLI_MAX_UNEXP_BLOCKS} \subseteq Nat
    /\ {TDTP_MAX_DATA_SIZE, DevFileSize} \subseteq Nat \ {0}
    /\ Known # Unknown

NothingSent == [cmd |-> "NONE"]

(* The data of the device's file, and of the file a session of the PC      *)
(* sends: every session sends a file of its own.                           *)
DevFile == [i \in 1 .. DevFileSize |-> i]
PcFile(sid, size) == [i \in 1 .. size |-> <<sid, i>>]

-----------------------------------------------------------------------------
(* Packets.  crc is TRUE when the check sum at the end of the packet is    *)
(* that of its content.                                                    *)

build_pkt_RD_DATA(c, data) ==
    [cmd |-> "RD_DATA", sid |-> c.rd_sid, blk |-> c.rd_blk,
     tsize |-> c.rd_tsize, data |-> data, crc |-> TRUE]

build_pkt_ACK(cmd, sid, blk, msg) ==
    [cmd |-> cmd, sid |-> sid, blk |-> blk, msg |-> msg, crc |-> TRUE]

chk_pkt_WR(m)      == m.cmd = "WR" /\ m.crc
chk_pkt_WR_DATA(m) == m.cmd = "WR_DATA" /\ m.crc
chk_pkt_RD(m)      == m.cmd = "RD" /\ m.crc
chk_pkt_ACK_RD(m)  == m.cmd = "ACK_RD" /\ m.crc

-----------------------------------------------------------------------------
(* The structure of the client, zeros at the start.  wr and rd say that    *)
(* wr_prc_func and rd_prc_func are set, wr_open and rd_open are            *)
(* g_hFlashOpN1 and g_hFlashOpN2, tx is what tx_buf holds, dev what was    *)
(* written since the file was opened, and stored (history) the sessions    *)
(* whose file was closed whole.                                            *)

Cli0 ==
    [wr |-> FALSE, wr_sid |-> 0, wr_blk |-> 0, wr_tsize |-> 0,
     wr_nbytes |-> 0, wr_open |-> FALSE, dev |-> <<>>, stored |-> {},
     rd |-> FALSE, rd_sid |-> 0, rd_blk |-> 0, rd_tsize |-> 0,
     rd_nbytes |-> 0, rd_open |-> FALSE, rd_timeouts |-> 0,
     rd_unexp |-> 0, tx |-> NothingSent]

(* cli_wr_data_prc_func_N1, TDTP_OP_CLOSE: with the history of what it     *)
(* closed.                                                                 *)
WrClosed(c) ==
    [c EXCEPT !.wr_open = FALSE,
              !.stored = IF c.dev = PcFile(c.wr_sid, c.wr_tsize)
                         THEN @ \cup {c.wr_sid} ELSE @]

(* cli_wr_data_prc_func_N1, TDTP_OP_WRITE                                  *)
Written(c, data) ==
    [c EXCEPT !.dev = @ \o data, !.wr_nbytes = @ - Len(data)]

(* cli_do_write: wr_prc_func stays set after the last block.               *)
cli_do_write(c, data) ==
    IF ~c.wr_open THEN c
    ELSE IF c.wr_nbytes - Len(data) <= 0 THEN WrClosed(Written(c, data))
    ELSE Written(c, data)

(* What cli_do_write returns, as cli_wr_err_to_ack names it.               *)
WriteAck(c, data) ==
    CASE ~c.wr_open                    -> "ERR_ILUSE"
      [] c.wr_nbytes - Len(data) = 0   -> "FCLOSE"
      [] OTHER                         -> "WRNEXT"

cli_wr_send_ack(c, msg) ==
    [c EXCEPT !.tx = build_pkt_ACK("ACK_WR", c.wr_sid, c.wr_blk, msg)]

-----------------------------------------------------------------------------
(* tdtp_cli, TDTP_CMD_WR                                                   *)

(* A single block that is not the whole file, or the session that runs.    *)
WrIgnored(c, m) ==
    \/ m.blk = 0 /\ Len(m.data) # m.tsize
    \/ c.wr /\ c.wr_sid = m.sid

(* The session that runs is closed for the new one; cli_wr_proc_addr.      *)
WrStopped(c) ==
    [c EXCEPT !.wr_open = IF c.wr THEN FALSE ELSE @, !.wr = FALSE]

WrOpened(c, m) ==
    [c EXCEPT !.wr = ~c.wr_open, !.wr_sid = m.sid, !.wr_blk = m.blk,
              !.wr_tsize = m.tsize, !.wr_nbytes = m.tsize, !.wr_open = TRUE,
              !.dev = IF c.wr_open THEN @ ELSE <<>>]

(* The first block is written; a file of no data ends here.                *)
WrFirst(c, m) ==
    IF m.tsize > 0
    THEN cli_wr_send_ack(cli_do_write(c, m.data), WriteAck(c, m.data))
    ELSE [cli_wr_send_ack(WrClosed(c), "WRNEXT") EXCEPT !.wr = FALSE]

(* The client after a WR that is not ignored: no handler, NACK with the    *)
(* numbers of the session before; open failed, no answer.                  *)
WrSession(c, m) ==
    CASE m.addr # Known -> cli_wr_send_ack(c, "ERR_BADADDR")
      [] c.wr_open      -> WrOpened(c, m)
      [] OTHER          -> WrFirst(WrOpened(c, m), m)

WrAnswered(c, m) == m.addr # Known \/ ~c.wr_open

-----------------------------------------------------------------------------
(* tdtp_cli, TDTP_CMD_WR_DATA                                              *)

IsRepeated(c, m) == c.wr_sid = m.sid /\ c.wr_blk = m.blk

(* Mutant: the next block is taken from any session.                       *)
Mixed_IsNext(c, m) == m.blk = c.wr_blk + 1 /\ c.wr

IsNext(c, m) == c.wr_sid = m.sid /\ m.blk = c.wr_blk + 1 /\ c.wr

WrNext(c, m) ==
    cli_wr_send_ack([cli_do_write(c, m.data) EXCEPT !.wr_blk = m.blk],
                    WriteAck(c, m.data))

-----------------------------------------------------------------------------
(* tdtp_cli, TDTP_CMD_RD                                                   *)

(* The data of the next block: cli_to_srv_data_prc_func_N1, TDTP_OP_READ   *)
BlockSize(nbytes) ==
    IF nbytes < TDTP_MAX_DATA_SIZE THEN nbytes ELSE TDTP_MAX_DATA_SIZE

NextData(c) ==
    SubSeq(DevFile, c.rd_tsize - c.rd_nbytes + 1,
           c.rd_tsize - c.rd_nbytes + BlockSize(c.rd_nbytes))

(* cli_do_read: the file is closed and the session ends with the block     *)
(* that is the last.                                                       *)
HasRead(c) ==
    IF c.rd_open
    THEN [c EXCEPT !.rd_blk = @ + 1,
                   !.rd_nbytes = @ - BlockSize(c.rd_nbytes),
                   !.rd_open = c.rd_nbytes > BlockSize(c.rd_nbytes),
                   !.rd = c.rd_nbytes > BlockSize(c.rd_nbytes)]
    ELSE [c EXCEPT !.rd = FALSE, !.rd_blk = -1, !.rd_tsize = -1]

cli_do_read(c) ==
    [HasRead(c) EXCEPT
        !.tx = build_pkt_RD_DATA(HasRead(c),
                                 IF c.rd_open THEN NextData(c) ELSE <<>>)]

RdIgnored(c, m) == c.rd /\ c.rd_sid = m.sid

(* The session that runs is stopped, the numbers of the new one are set,   *)
(* and cli_rd_proc_addr selects the handler.                               *)
RdStarted(c, m) ==
    [c EXCEPT !.rd_open = IF c.rd THEN FALSE ELSE @, !.rd_sid = m.sid,
              !.rd_blk = 0, !.rd_unexp = 0, !.rd = (m.addr = Known)]

(* cli_to_srv_data_prc_func_N1, TDTP_OP_RDOPEN                             *)
RdOpened(c) ==
    [c EXCEPT !.rd_open = TRUE, !.rd_tsize = DevFileSize,
              !.rd_nbytes = DevFileSize]

(* A session that cannot be opened is answered with the block -1.          *)
RdRefused(c) ==
    [c EXCEPT !.rd = FALSE, !.rd_blk = -1, !.rd_tsize = -1]

RdSession(c) ==
    IF c.rd /\ ~c.rd_open THEN cli_do_read(RdOpened(c))
    ELSE [RdRefused(c) EXCEPT !.tx = build_pkt_RD_DATA(RdRefused(c), <<>>)]

-----------------------------------------------------------------------------
(* tdtp_cli, TDTP_CMD_ACK_RD: with rd_blk # m.blk the last packet is sent  *)
(* again only when the server is one block ahead.                          *)

WantsNext(c, m) ==
    c.rd_sid = m.sid /\ c.rd_blk = m.blk /\ c.rd_nbytes > 0 /\ c.rd

WantsLast(c, m) ==
    /\ c.rd_sid = m.sid
    /\ \/ c.rd_blk = m.blk /\ c.rd_nbytes <= 0 /\ ~c.rd
       \/ c.rd_blk = m.blk - 1

(* The acknowledgement of the last block ends a session that still runs;   *)
(* too many blocks of other sessions end it too.                           *)
AckIgnored(c, m) ==
    IF c.rd_sid = m.sid
    THEN [c EXCEPT !.rd_unexp = 0,
                   !.rd = @ /\ (c.rd_blk = m.blk => c.rd_nbytes > 0)]
    ELSE IF c.rd_unexp + 1 > CLI_MAX_UNEXP_BLOCKS
    THEN [c EXCEPT !.rd_unexp = @ + 1, !.rd = FALSE,
                   !.rd_open = IF c.rd THEN FALSE ELSE @]
    ELSE [c EXCEPT !.rd_unexp = @ + 1]

(* tdtp_cli, ERR_TIMEOUT in a read session.                                *)
RdTimedOut(c) ==
    IF c.rd_timeouts + 1 > CLI_MAX_RD_TIMEOUTS
    THEN [c EXCEPT !.rd_timeouts = @ + 1, !.rd = FALSE, !.rd_open = FALSE]
    ELSE [c EXCEPT !.rd_timeouts = @ + 1]

=============================================================================
