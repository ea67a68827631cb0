------------------------------- MODULE TNSlip -------------------------------
(***************************************************************************)
(* The frames of the TCP tests (slipm.cpp, tcp_test_3.cpp): the program on *)
(* the PC packs random data into a frame (a mark, the length, the data and *)
(* a checksum, with the mark escaped), sends it in pieces over TCP, and    *)
(* takes the frame that comes back out of the pieces recv gives it.  The   *)
(* device answers a frame with a frame; it uses the same routines.         *)
(*                                                                         *)
(* A byte is one of five: the four with a meaning and one without.  The    *)
(* length is two digits of that base; the checksum is a function of the    *)
(* bytes it covers, and its own bytes may need an escape too.              *)
(***************************************************************************)
EXTENDS Naturals, Sequences, SequencesExt

CONSTANTS
    SLIPM_CRC_LEN,  \* bytes of the checksum
    TX_BUF_SIZE,    \* largest piece given to send
    Frames          \* the data of the frames

VARIABLES
    pc,       \* the PC: where it is, its data, what is not sent, g_slipm
    dev,      \* the device: its data, g_slipm
    toDevice, \* bytes under way to the device
    toHost    \* bytes under way to the PC

slipVars == <<pc, dev, toDevice, toHost>>

Other == 0
FEND == 1
FESC == 2
TFEND == 3
TFESC == 4
Base == 5

-----------------------------------------------------------------------------
(* slipm.cpp                                                               *)

slipm_update_crc(crc, sym) == (2 * crc + sym + 1) % Base

Crc(bytes) == [i \in 1 .. SLIPM_CRC_LEN |-> (FoldLeft(slipm_update_crc, 0, bytes) + i) % Base]

slipm_tx_sym(sym) ==
    CASE sym = FEND -> <<FESC, TFEND>>
      [] sym = FESC -> <<FESC, TFESC>>
      [] OTHER -> <<sym>>

(* The length goes first, its low digit in front (htons on the PC).        *)
Covered(buf) == <<Len(buf) % Base, Len(buf) \div Base>> \o buf

slipm_tx(buf) ==
    <<FEND>> \o FlattenSeq([i \in 1 .. Len(buf) + 2 + SLIPM_CRC_LEN |->
                              slipm_tx_sym((Covered(buf) \o Crc(Covered(buf)))[i])])

(* SLIPMINFO, as memset leaves it; fed: the bytes the checksum covers, the *)
(* data from the third on; rc: what slipm_rx returned last.                *)
NoFrame == [stage |-> "START", esc |-> FALSE, fed |-> <<>>, crc_rx |-> <<>>, rc |-> "more"]

DataLen(si) == si.fed[1] + Base * si.fed[2]

(* Mutant: an escape is not over after the byte it changes.                *)
Sticky_EscOver(si) == si

EscOver(si) == [si EXCEPT !.esc = FALSE]

(* A byte of the frame that is not part of an escape.                      *)
InFrame(si, byte) ==
    CASE si.stage = "LEN1" -> [si EXCEPT !.fed = Append(@, byte), !.stage = "LEN2"]
      [] si.stage = "LEN2" -> [si EXCEPT !.fed = Append(@, byte), !.stage = "DATA"]
      [] si.stage = "DATA" ->
           [si EXCEPT !.fed = Append(@, byte),
                      !.stage = IF Len(si.fed) - 1 >= DataLen(si) THEN "CRC" ELSE "DATA"]
      [] Len(si.crc_rx) + 1 < SLIPM_CRC_LEN -> [si EXCEPT !.crc_rx = Append(@, byte)]
      [] OTHER ->
           [si EXCEPT !.stage = "START", !.crc_rx = <<>>,
                      !.rc = IF Append(si.crc_rx, byte) = Crc(si.fed) THEN "frame" ELSE "error"]

slipm_rx_sym(si, sym) ==
    CASE ~si.esc /\ sym = FESC -> [si EXCEPT !.esc = TRUE]
      [] ~si.esc -> InFrame(si, sym)
      [] sym = TFEND -> InFrame(EscOver(si), FEND)
      [] sym = TFESC -> InFrame(EscOver(si), FESC)
      [] OTHER -> [EscOver(si) EXCEPT !.stage = "START", !.crc_rx = <<>>, !.rc = "error"]

slipm_rx(si, sym) ==
    IF si.stage # "START" THEN slipm_rx_sym(si, sym)
    ELSE IF sym = FEND THEN [si EXCEPT !.stage = "LEN1", !.fed = <<>>]
    ELSE si

(* The loop over a received piece: it goes on after an error, and leaves   *)
(* the rest of the piece when a frame is complete.                         *)
RxByte(si, sym) == IF si.rc = "frame" THEN si ELSE slipm_rx(si, sym)
RxPiece(si, piece) == FoldLeft(RxByte, [si EXCEPT !.rc = "more"], piece)

-----------------------------------------------------------------------------
(* The programs.                                                           *)

SlipInit ==
    /\ pc = [at |-> "fill", data |-> <<>>, left |-> <<>>, si |-> NoFrame]
    /\ dev = [data |-> <<>>, si |-> NoFrame]
    /\ toDevice = <<>>
    /\ toHost = <<>>

Rest(stream, n) == SubSeq(stream, n + 1, Len(stream))

(* fill_random and slipm_tx into g_exch_buf.                               *)
StartCycle ==
    /\ pc.at = "fill"
    /\ \E buf \in Frames :
         pc' = [pc EXCEPT !.at = "send", !.data = buf, !.left = slipm_tx(buf)]
    /\ UNCHANGED <<dev, toDevice, toHost>>

(* send takes all of a piece or a part of it.                              *)
Send ==
    /\ pc.at = "send"
    /\ \E n \in 1 .. Len(pc.left) :
         /\ n <= TX_BUF_SIZE
         /\ toDevice' = toDevice \o SubSeq(pc.left, 1, n)
         /\ pc' = [pc EXCEPT !.left = Rest(pc.left, n),
                             !.at = IF n < Len(pc.left) THEN "send" ELSE "recv"]
    /\ UNCHANGED <<dev, toHost>>

Recv ==
    /\ pc.at = "recv"
    /\ \E n \in 1 .. Len(toHost) : \E si \in {RxPiece(pc.si, SubSeq(toHost, 1, n))} :
         /\ toHost' = Rest(toHost, n)
         /\ pc' = [pc EXCEPT !.si = si, !.at = IF si.rc = "frame" THEN "fill" ELSE "recv"]
    /\ UNCHANGED <<dev, toDevice>>

(* External: the device, which sends a frame back for every frame.         *)
DeviceRecv ==
    /\ \E n \in 1 .. Len(toDevice) : \E si \in {RxPiece(dev.si, SubSeq(toDevice, 1, n))} :
         /\ toDevice' = Rest(toDevice, n)
         /\ IF si.rc = "frame"
            THEN \E buf \in Frames :
                   /\ dev' = [data |-> buf, si |-> si]
                   /\ toHost' = toHost \o slipm_tx(buf)
            ELSE dev' = [dev EXCEPT !.si = si] /\ UNCHANGED toHost
    /\ UNCHANGED pc

SlipNext == StartCycle \/ Send \/ Recv \/ DeviceRecv

-----------------------------------------------------------------------------
Data(si) == SubSeq(si.fed, 3, Len(si.fed))

(* However TCP cuts the streams, and whatever the data, the length and the *)
(* checksum are made of, slipm_rx reports no error, the frames it reports  *)
(* are the ones the other side sent, and neither side waits for a frame    *)
(* that has been received already.                                         *)
FramesWhole ==
    /\ pc.si.rc # "error" /\ dev.si.rc # "error"
    /\ pc.si.rc = "frame" /\ pc.at = "fill" => Data(pc.si) = dev.data
    /\ dev.si.rc = "frame" /\ toHost # <<>> => Data(dev.si) = pc.data
    /\ pc.at = "recv" => toDevice # <<>> \/ toHost # <<>>

=============================================================================
