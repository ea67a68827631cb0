--------------------------- MODULE TNProgramsProofs --------------------------
(***************************************************************************)
(* The demonstration programs that exchange datagrams: what each side may  *)
(* conclude from a packet, whatever the network loses, doubles, delays or  *)
(* spoils, for any number of samples, sessions and faults and for files    *)
(* and blocks of any size.                                                 *)
(*                                                                         *)
(* A queue of datagrams is a sequence over the set of the packets that     *)
(* are right in the present state: a step may make this set larger, and    *)
(* a fault of the network only repeats, drops or spoils its members.       *)
(***************************************************************************)
EXTENDS TNTdtp, TNDaq, TNListProofs

-----------------------------------------------------------------------------
(* Queues of datagrams                                                     *)

LEMMA QueueGrows ==
    ASSUME NEW S, NEW T, S \subseteq T
    PROVE  Seq(S) \subseteq Seq(T)
OBVIOUS

LEMMA QueueSteps ==
    ASSUME NEW S, NEW q \in Seq(S), q # <<>>
    PROVE  Head(q) \in S /\ Tail(q) \in Seq(S)
OBVIOUS

(* A fault does to a queue nothing but drop, repeat, move or spoil.        *)
LEMMA FaultyQueue ==
    ASSUME NEW S, NEW q \in Seq(S), q # <<>>,
           \A m \in S : [m EXCEPT !.crc = FALSE] \in S
    PROVE  {Tail(q), Append(q, Head(q)), Append(Tail(q), Head(q)),
            <<[Head(q) EXCEPT !.crc = FALSE]>> \o Tail(q)} \subseteq Seq(S)
<1>1. Head(q) \in S /\ Tail(q) \in Seq(S)
  BY QueueSteps
<1>2. Append(q, Head(q)) \in Seq(S) /\ Append(Tail(q), Head(q)) \in Seq(S)
  BY <1>1
<1>3. [Head(q) EXCEPT !.crc = FALSE] \in S
  BY <1>1
<1> DEFINE h == [Head(q) EXCEPT !.crc = FALSE]
<1>4. h \in S
  BY <1>3
<1> HIDE DEF h
<1>5. <<h>> \o Tail(q) \in Seq(S)
  BY <1>1, <1>4
<1> QED
  BY <1>1, <1>2, <1>5 DEF h

-----------------------------------------------------------------------------
(* Poll: a sample is newer than the request it answers.                    *)

PollRequests(sid) ==
    {m \in [cmd : {"RD"}, sid : Nat, crc : BOOLEAN] : m.sid <= sid}

(* An answer to the present request was taken after the PC asked.          *)
PollAnswers(sid, since) ==
    {m \in [cmd : {"RD_DATA"}, sid : Nat, sample : Nat, crc : BOOLEAN] :
        m.sid <= sid /\ (m.sid = sid => m.sample > since)}

PollSamples == [sample : Nat, since : Nat]

PollType ==
    [sid : Nat, tries : Nat, since : Nat, accepted : SUBSET PollSamples]

PollOK ==
    /\ poll \in PollType
    /\ taken \in Nat /\ poll.since <= taken
    /\ push = [cnt |-> 0, tries |-> 0]
    /\ toDev \in Seq(PollRequests(poll.sid))
    /\ toPc \in Seq(PollAnswers(poll.sid, poll.since))
    /\ \A a \in poll.accepted : a.sample > a.since

LEMMA SpoiltPoll ==
    ASSUME NEW sid \in Nat, NEW since \in Nat
    PROVE  /\ \A m \in PollRequests(sid) :
                 [m EXCEPT !.crc = FALSE] \in PollRequests(sid)
           /\ \A m \in PollAnswers(sid, since) :
                 [m EXCEPT !.crc = FALSE] \in PollAnswers(sid, since)
  BY DEF PollRequests, PollAnswers

LEMMA PollMishap ==
    ASSUME PollOK, Mishap PROVE PollOK'
<1>1. poll' = poll /\ taken' = taken /\ push' = push
  BY DEF Mishap
<1>2. CASE toDev # <<>> /\ toDev' \in Damaged(toDev) /\ UNCHANGED toPc
  <2>1. toDev' \in Seq(PollRequests(poll.sid))
    BY <1>2, SpoiltPoll, FaultyQueue DEF PollOK, PollType, Damaged
  <2> QED BY <1>1, <1>2, <2>1 DEF PollOK
<1>3. CASE toPc # <<>> /\ toPc' \in Damaged(toPc) /\ UNCHANGED toDev
  <2>1. toPc' \in Seq(PollAnswers(poll.sid, poll.since))
    BY <1>3, SpoiltPoll, FaultyQueue DEF PollOK, PollType, Damaged
  <2> QED BY <1>1, <1>3, <2>1 DEF PollOK
<1> QED BY <1>2, <1>3 DEF Mishap

LEMMA PollStep ==
    ASSUME PollOK, [PollNext]_daqVars PROVE PollOK'
<1>1. CASE PollAsk
  <2>1. /\ poll' = [poll EXCEPT !.sid = poll.sid + 1, !.tries = 1, !.since = taken]
        /\ toDev' = Append(toDev, Request(poll.sid + 1))
        /\ taken' = taken /\ push' = push /\ toPc' = toPc
    BY <1>1 DEF PollAsk
  <2>2. /\ poll'.sid = poll.sid + 1 /\ poll'.since = taken
        /\ poll'.accepted = poll.accepted
        /\ poll' \in PollType
    <3>1. poll \in PollType /\ taken \in Nat
      BY DEF PollOK
    <3>2. poll' = [poll EXCEPT !.sid = poll.sid + 1, !.tries = 1, !.since = taken]
      BY <2>1
    <3>3. poll.sid + 1 \in Nat
      BY <3>1 DEF PollType
    <3>4. /\ poll'.sid = poll.sid + 1 /\ poll'.since = taken
          /\ poll'.accepted = poll.accepted
      BY <3>1, <3>2 DEF PollType
    <3>5. poll' \in PollType
      BY <3>1, <3>2, <3>3 DEF PollType
    <3> QED BY <3>4, <3>5
  <2>3. PollRequests(poll.sid) \subseteq PollRequests(poll'.sid)
    BY <2>2 DEF PollRequests, PollOK, PollType
  <2>4. Request(poll.sid + 1) \in PollRequests(poll'.sid)
    BY <2>2 DEF PollRequests, PollOK, PollType, Request
  <2>5. toDev' \in Seq(PollRequests(poll'.sid))
    <3>1. toDev \in Seq(PollRequests(poll'.sid))
      BY <2>3, QueueGrows DEF PollOK
    <3> QED BY <2>1, <2>4, <3>1
  <2>6. PollAnswers(poll.sid, poll.since) \subseteq PollAnswers(poll'.sid, poll'.since)
    BY <2>2 DEF PollAnswers, PollOK, PollType
  <2>7. toPc' \in Seq(PollAnswers(poll'.sid, poll'.since))
    BY <2>1, <2>6, QueueGrows DEF PollOK
  <2> QED BY <2>1, <2>2, <2>5, <2>7 DEF PollOK
<1>2. CASE PollGets
  <2>1. Head(toPc) \in PollAnswers(poll.sid, poll.since)
        /\ toPc' \in Seq(PollAnswers(poll.sid, poll.since))
    BY <1>2, QueueSteps DEF PollGets, PollOK
  <2>2. taken' = taken /\ push' = push /\ toDev' = toDev
    BY <1>2 DEF PollGets
  <2> DEFINE new == IF IsSample(Head(toPc))
                    THEN poll.accepted \cup {[sample |-> Head(toPc).sample,
                                              since |-> poll.since]}
                    ELSE poll.accepted
  <2>3. poll' = [poll EXCEPT !.tries = 0, !.accepted = new]
    BY <1>2 DEF PollGets
  <2>4. /\ new \in SUBSET PollSamples
        /\ \A a \in new : a.sample > a.since
    BY <2>1 DEF PollOK, PollType, PollSamples, PollAnswers, IsSample
  <2> HIDE DEF new
  <2>5. /\ poll' \in PollType /\ poll'.sid = poll.sid
        /\ poll'.since = poll.since /\ poll'.accepted = new
    <3>1. poll \in PollType
      BY DEF PollOK
    <3> QED BY <2>3, <2>4, <3>1 DEF PollType
  <2> QED BY <2>1, <2>2, <2>4, <2>5 DEF PollOK
<1>3. CASE PollAnswer
  <2>1. Head(toDev) \in PollRequests(poll.sid)
        /\ toDev' \in Seq(PollRequests(poll.sid))
    BY <1>3, QueueSteps DEF PollAnswer, PollOK
  <2>2. poll' = poll /\ push' = push
    BY <1>3 DEF PollAnswer
  <2>3. CASE Head(toDev).crc
    <3> DEFINE m == [cmd |-> "RD_DATA", sid |-> Head(toDev).sid,
                     sample |-> taken + 1, crc |-> TRUE]
    <3>1. m \in PollAnswers(poll.sid, poll.since)
      BY <2>1 DEF PollRequests, PollAnswers, PollOK, PollType
    <3>2. taken' = taken + 1 /\ toPc' = Append(toPc, m)
      BY <1>3, <2>3 DEF PollAnswer
    <3> HIDE DEF m
    <3>3. toPc' \in Seq(PollAnswers(poll.sid, poll.since))
      BY <3>1, <3>2 DEF PollOK
    <3>4. taken' \in Nat /\ poll.since <= taken'
      BY <3>2 DEF PollOK, PollType
    <3> QED BY <2>1, <2>2, <3>3, <3>4 DEF PollOK
  <2>4. CASE ~Head(toDev).crc
    BY <1>3, <2>1, <2>2, <2>4 DEF PollAnswer, PollOK
  <2> QED BY <2>3, <2>4
<1>4. CASE PollTimeout
  <2>1. taken' = taken /\ push' = push /\ toPc' = toPc
    BY <1>4 DEF PollTimeout
  <2>2. Request(poll.sid) \in PollRequests(poll.sid)
    BY DEF PollRequests, PollOK, PollType, Request
  <2>3. \/ poll' = [poll EXCEPT !.tries = 0] /\ toDev' = toDev
        \/ /\ poll' = [poll EXCEPT !.tries = poll.tries + 1]
           /\ toDev' = Append(toDev, Request(poll.sid))
    BY <1>4 DEF PollTimeout, PollAgain
  <2>4. toDev' \in Seq(PollRequests(poll.sid))
    <3>1. toDev \in Seq(PollRequests(poll.sid))
      BY DEF PollOK
    <3>2. toDev' = toDev \/ toDev' = Append(toDev, Request(poll.sid))
      BY <2>3
    <3> QED BY <2>2, <3>1, <3>2
  <2>5. /\ poll' \in PollType /\ poll'.sid = poll.sid
        /\ poll'.since = poll.since /\ poll'.accepted = poll.accepted
    <3>1. poll \in PollType
      BY DEF PollOK
    <3>2. \/ poll' = [poll EXCEPT !.tries = 0]
          \/ poll' = [poll EXCEPT !.tries = poll.tries + 1]
      BY <2>3
    <3> QED BY <3>1, <3>2 DEF PollType
  <2> QED BY <2>1, <2>4, <2>5 DEF PollOK
<1>5. CASE Mishap
  BY <1>5, PollMishap
<1>6. CASE UNCHANGED daqVars
  BY <1>6 DEF daqVars, PollOK
<1> QED BY <1>1, <1>2, <1>3, <1>4, <1>5, <1>6 DEF PollNext

(* A sample that the PC accepts was taken after the PC asked for it        *)
(* (daq_fc, daq_cli), for any number of samples, packets and faults.       *)
THEOREM PolledSampleIsNew ==
    PollSpec => []SamplesKept
<1>1. DaqInit => PollOK
  <2> SUFFICES ASSUME DaqInit PROVE PollOK
    OBVIOUS
  <2>1. toDev \in Seq(PollRequests(poll.sid))
        /\ toPc \in Seq(PollAnswers(poll.sid, poll.since))
    BY DEF DaqInit
  <2> QED BY <2>1 DEF DaqInit, PollOK, PollType
<1>2. PollOK /\ [PollNext]_daqVars => PollOK'
  BY PollStep
<1>3. PollOK => SamplesKept
  BY DEF PollOK, SamplesKept
<1> QED BY <1>1, <1>2, <1>3, PTL DEF PollSpec

-----------------------------------------------------------------------------
(* Push: what is acknowledged has been counted.                            *)

PushSamples == [cmd : {"WR"}, sid : Nat, crc : BOOLEAN]
PushAcks(n) == [cmd : {"ACK"}, sid : n, crc : BOOLEAN]

PushOK ==
    /\ push \in [cnt : Nat, tries : Nat]
    /\ counted \in SUBSET Nat
    /\ poll.accepted = {}
    /\ toPc \in Seq(PushSamples)
    /\ toDev \in Seq(PushAcks(counted))
    /\ \A n \in Nat : n < push.cnt => n \in counted

LEMMA SpoiltPush ==
    ASSUME NEW n
    PROVE  /\ \A m \in PushSamples : [m EXCEPT !.crc = FALSE] \in PushSamples
           /\ \A m \in PushAcks(n) : [m EXCEPT !.crc = FALSE] \in PushAcks(n)
  BY DEF PushSamples, PushAcks

(* A packet with the present sample or the next.                           *)
LEMMA PushSends ==
    ASSUME PushOK, NEW n \in Nat, NEW i \in Nat, PushSend(n, i),
           \A k \in Nat : k < n => k \in counted,
           toDev' \in Seq(PushAcks(counted))
    PROVE  PushOK'
<1>1. /\ push' = [cnt |-> n, tries |-> i]
      /\ toPc' = Append(toPc, Sample(n))
      /\ poll' = poll /\ counted' = counted
  BY DEF PushSend
<1>2. Sample(n) \in PushSamples
  BY DEF Sample, PushSamples
<1>3. toPc' \in Seq(PushSamples)
  BY <1>1, <1>2 DEF PushOK
<1> QED BY <1>1, <1>3 DEF PushOK

LEMMA PushStep ==
    ASSUME PushOK, [PushNext]_daqVars PROVE PushOK'
<1>0. push.cnt \in Nat /\ push.cnt + 1 \in Nat /\ Tries \in Nat
  BY DEF PushOK, Tries
<1>1. CASE PushFirst
  <2>1. PushSend(push.cnt, 1) /\ toDev' \in Seq(PushAcks(counted))
    BY <1>1 DEF PushFirst, PushOK
  <2> QED BY <1>0, <2>1, PushSends DEF PushOK
<1>2. CASE PushGets
  <2>1. Head(toDev) \in PushAcks(counted) /\ toDev' \in Seq(PushAcks(counted))
    BY <1>2, QueueSteps DEF PushGets, PushOK
  <2>2. CASE IsAck(Head(toDev))
    <3>1. push.cnt \in counted
      BY <2>1, <2>2 DEF PushAcks, IsAck
    <3>2. \A k \in Nat : k < push.cnt + 1 => k \in counted
      BY <3>1, <1>0 DEF PushOK
    <3>3. PushSend(push.cnt + 1, 1)
      BY <1>2, <2>2 DEF PushGets
    <3> QED BY <1>0, <2>1, <3>2, <3>3, PushSends
  <2>3. CASE ~IsAck(Head(toDev))
    <3>1. PushSend(push.cnt, Tries)
      BY <1>2, <2>3 DEF PushGets
    <3> QED BY <1>0, <2>1, <3>1, PushSends DEF PushOK
  <2> QED BY <2>2, <2>3
<1>3. CASE PushCount
  <2>1. Head(toPc) \in PushSamples /\ toPc' \in Seq(PushSamples)
    BY <1>3, QueueSteps DEF PushCount, PushOK
  <2>2. poll' = poll /\ push' = push
    BY <1>3 DEF PushCount
  <2>3. CASE Head(toPc).crc
    <3> DEFINE n == Head(toPc).sid
               m == [cmd |-> "ACK", sid |-> n, crc |-> TRUE]
    <3>1. n \in Nat /\ m \in PushAcks(counted \cup {n})
      BY <2>1 DEF PushSamples, PushAcks
    <3>2. counted' = counted \cup {n} /\ toDev' = Append(toDev, m)
      BY <1>3, <2>3 DEF PushCount
    <3>3. PushAcks(counted) \subseteq PushAcks(counted \cup {n})
      BY DEF PushAcks
    <3>4. toDev \in Seq(PushAcks(counted \cup {n}))
      BY <3>3, QueueGrows DEF PushOK
    <3> HIDE DEF n, m
    <3>5. toDev' \in Seq(PushAcks(counted'))
      BY <3>1, <3>2, <3>4
    <3> QED BY <2>1, <2>2, <3>1, <3>2, <3>5 DEF PushOK
  <2>4. CASE ~Head(toPc).crc
    BY <1>3, <2>1, <2>2, <2>4 DEF PushCount, PushOK
  <2> QED BY <2>3, <2>4
<1>4. CASE PushTimeout
  <2>1. PushSend(push.cnt, Tries) /\ toDev' \in Seq(PushAcks(counted))
    BY <1>4 DEF PushTimeout, PushOK
  <2> QED BY <1>0, <2>1, PushSends DEF PushOK
<1>5. CASE Mishap
  <2>1. poll' = poll /\ push' = push /\ counted' = counted
    BY <1>5 DEF Mishap
  <2>2. CASE toDev # <<>> /\ toDev' \in Damaged(toDev) /\ UNCHANGED toPc
    <3>1. toDev' \in Seq(PushAcks(counted))
      BY <2>2, SpoiltPush, FaultyQueue DEF PushOK, Damaged
    <3> QED BY <2>1, <2>2, <3>1 DEF PushOK
  <2>3. CASE toPc # <<>> /\ toPc' \in Damaged(toPc) /\ UNCHANGED toDev
    <3>1. toPc' \in Seq(PushSamples)
      BY <2>3, SpoiltPush, FaultyQueue DEF PushOK, Damaged
    <3> QED BY <2>1, <2>3, <3>1 DEF PushOK
  <2> QED BY <1>5, <2>2, <2>3 DEF Mishap
<1>6. CASE UNCHANGED daqVars
  BY <1>6 DEF daqVars, PushOK
<1> QED BY <1>1, <1>2, <1>3, <1>4, <1>5, <1>6 DEF PushNext

(* When the device goes on to the next sample the PC has counted every     *)
(* one before it (daq_send, CDaq::CmdThreadProc), for any number of        *)
(* samples, packets and faults.                                            *)
THEOREM PushedSamplesAreCounted ==
    PushSpec => []SamplesKept
<1>1. DaqInit => PushOK
  <2> SUFFICES ASSUME DaqInit PROVE PushOK
    OBVIOUS
  <2>1. toPc \in Seq(PushSamples) /\ toDev \in Seq(PushAcks(counted))
    BY DEF DaqInit
  <2> QED BY <2>1 DEF DaqInit, PushOK
<1>2. PushOK /\ [PushNext]_daqVars => PushOK'
  BY PushStep
<1>3. PushOK => SamplesKept
  BY DEF PushOK, SamplesKept
<1> QED BY <1>1, <1>2, <1>3, PTL DEF PushSpec

-----------------------------------------------------------------------------
(* File transfer: what the packets and the two sides know of a session     *)

(* The bytes of a file before its block k, and up to its end.  Block 0 is  *)
(* the single block of a short file, the others are counted from 1.        *)
Before(k) == IF k = 0 THEN 0 ELSE (k - 1) * TDTP_MAX_DATA_SIZE

UpTo(size, k) == Before(k) + BlockSize(size - Before(k))

(* The blocks the PC sends of a file of this size.                         *)
IsBlock(size, k) ==
    IF size <= TDTP_MAX_DATA_SIZE THEN k = 0 ELSE k > 0 /\ Before(k) < size

BlockOf(file, size, k) == SubSeq(file, Before(k) + 1, UpTo(size, k))

PcData == Seq(Nat \X Nat)

AckMsgs == {"WRNEXT", "FCLOSE", "ERR_ILUSE", "ERR_BADADDR", "RDNEXT",
            "ERR_FWRITE"}

(* What the device may have received: a block it is sent is the block of   *)
(* the file of the session, if that is the session that runs.              *)
WrPackets(sid, sends, size) ==
    {m \in [cmd : {"WR"}, sid : Nat, blk : Nat, tsize : Nat,
            addr : {Known, Unknown}, data : PcData, crc : BOOLEAN] :
        /\ m.sid <= sid
        /\ sends /\ m.sid = sid =>
             /\ m.tsize = size /\ IsBlock(size, m.blk) /\ m.blk < 2
             /\ m.data = BlockOf(PcFile(sid, size), size, m.blk)}

WrDataPackets(sid, sends, size) ==
    {m \in [cmd : {"WR_DATA"}, sid : Nat, blk : Nat, data : PcData,
            crc : BOOLEAN] :
        /\ m.sid <= sid
        /\ sends /\ m.sid = sid =>
             /\ IsBlock(size, m.blk) /\ m.blk >= 2
             /\ m.data = BlockOf(PcFile(sid, size), size, m.blk)}

RdPackets == [cmd : {"RD"}, sid : Nat, addr : {Known, Unknown}, crc : BOOLEAN]

AckRdPackets ==
    [cmd : {"ACK_RD"}, sid : Nat, blk : Nat, msg : AckMsgs, crc : BOOLEAN]

ForCli(sid, sends, size) ==
    WrPackets(sid, sends, size) \cup WrDataPackets(sid, sends, size)
    \cup RdPackets \cup AckRdPackets

(* What the PC may have received: a block of the device's file; for the    *)
(* last block of the session an acceptance only when the device has stored *)
(* the whole file.                                                         *)
AckWrPackets(sid, sends, size, whole) ==
    {m \in [cmd : {"ACK_WR"}, sid : Nat, blk : Nat, msg : AckMsgs,
            crc : BOOLEAN] :
        /\ m.sid <= sid
        /\ sends /\ m.sid = sid /\ UpTo(size, m.blk) = size => whole}

RdDataPackets ==
    {m \in [cmd : {"RD_DATA"}, sid : Nat, blk : Int, tsize : Int,
            data : Seq(Nat), crc : BOOLEAN] :
        m.blk # -1 =>
          /\ m.blk > 0 /\ Before(m.blk) < DevFileSize
          /\ m.tsize = DevFileSize
          /\ m.data = BlockOf(DevFile, DevFileSize, m.blk)}

ForSrv(sid, sends, size, whole) ==
    {NothingSent} \cup RdDataPackets \cup AckWrPackets(sid, sends, size, whole)

CliPackets == {NothingSent}
    \cup [cmd : {"RD_DATA"}, sid : Nat, blk : Int, tsize : Int,
          data : Seq(Nat), crc : BOOLEAN]
    \cup [cmd : {"ACK_WR"}, sid : Nat, blk : Nat, msg : AckMsgs, crc : BOOLEAN]

CliType ==
    [wr : BOOLEAN, wr_sid : Nat, wr_blk : Nat, wr_tsize : Nat,
     wr_nbytes : Int, wr_open : BOOLEAN, dev : PcData, stored : SUBSET Nat,
     rd : BOOLEAN, rd_sid : Nat, rd_blk : Int, rd_tsize : Int,
     rd_nbytes : Int, rd_open : BOOLEAN, rd_timeouts : Nat, rd_unexp : Nat,
     tx : CliPackets]

(* The device has written the file up to the block it acknowledged last;   *)
(* the file is closed before its end only when the session was stopped.    *)
Writes(c, sid, size) ==
    /\ c.wr_tsize = size /\ IsBlock(size, c.wr_blk)
    /\ c.wr_open =>
         /\ UpTo(size, c.wr_blk) < size
         /\ c.dev = SubSeq(PcFile(sid, size), 1, UpTo(size, c.wr_blk))
         /\ c.wr_nbytes = size - UpTo(size, c.wr_blk)
    /\ UpTo(size, c.wr_blk) = size => sid \in c.stored
    /\ c.wr /\ ~c.wr_open => sid \in c.stored

(* The device has read its file up to the block it sent last.              *)
Reads(c) ==
    /\ c.rd_blk >= 0 /\ c.rd_tsize = DevFileSize
    /\ c.rd_nbytes = DevFileSize - Before(c.rd_blk + 1) /\ c.rd_nbytes > 0

CliBody(c, sid, sends, size) ==
    /\ c \in CliType
    /\ c.wr_open => c.wr
    /\ c.wr_sid <= sid
    /\ sends /\ c.wr_sid = sid => Writes(c, sid, size)
    /\ c.rd /\ c.rd_open => Reads(c)

CliOK(c, sid, sends, size) ==
    /\ CliBody(c, sid, sends, size)
    /\ c.tx \in ForSrv(sid, sends, size, sid \in c.stored)

SrvPackets == {NothingSent}
    \cup [cmd : {"WR"}, sid : Nat, blk : Nat, tsize : Nat,
          addr : {Known, Unknown}, data : PcData, crc : BOOLEAN]
    \cup [cmd : {"WR_DATA"}, sid : Nat, blk : Nat, data : PcData, crc : BOOLEAN]
    \cup RdPackets \cup AckRdPackets

SrvType ==
    [op : {"idle", "recv", "send"}, addr : {Known, Unknown}, sid : Nat,
     blk : Nat, tsize : Nat, nbytes : Int, data : PcData, tx : SrvPackets,
     tries : Nat, timeouts : Nat, bad : Nat, unexp : Nat, file : Seq(Nat),
     stop : BOOLEAN, missed : BOOLEAN,
     result : {"none", "ok", "failed", "aborted"}]

(* The PC sends the block of its number.                                   *)
Sends(s) ==
    /\ IsBlock(s.tsize, s.blk)
    /\ s.nbytes = s.tsize - Before(s.blk)
    /\ s.data = BlockOf(PcFile(s.sid, s.tsize), s.tsize, s.blk)
    /\ s.file = <<>>

(* It has received the device's file up to the block of its number.        *)
HasAll(s) ==
    /\ Before(s.blk + 1) < DevFileSize
    /\ s.file = SubSeq(DevFile, 1, Before(s.blk + 1))
    /\ s.blk > 0 => s.nbytes = DevFileSize - Before(s.blk + 1)

(* It waits for more than the blocks that are left of the device's file.   *)
LacksSome(s) ==
    /\ s.blk > 0 /\ Before(s.blk) < DevFileSize
    /\ s.nbytes > DevFileSize - UpTo(DevFileSize, s.blk)

Receives(s) == IF s.missed THEN LacksSome(s) ELSE HasAll(s)

SrvBody(s) ==
    /\ s \in SrvType
    /\ s.op # "idle" => s.result = "none"
    /\ s.op = "send" => Sends(s)
    /\ s.op = "recv" => Receives(s)

SrvOK(s) ==
    /\ SrvBody(s)
    /\ s.op # "idle" => s.tx \in ForCli(s.sid, s.op = "send", s.tsize)

Whole(s, stored) ==
    s.result = "ok" => \/ s.file = DevFile
                       \/ s.file = <<>> /\ s.sid \in stored

FileOK ==
    /\ SrvOK(srv)
    /\ CliOK(cli, srv.sid, srv.op = "send", srv.tsize)
    /\ toCli \in Seq(ForCli(srv.sid, srv.op = "send", srv.tsize))
    /\ toSrv \in Seq(ForSrv(srv.sid, srv.op = "send", srv.tsize,
                            srv.sid \in cli.stored))
    /\ Whole(srv, cli.stored)

-----------------------------------------------------------------------------
(* Files and their blocks                                                  *)

LEMMA BlockSizes ==
    ASSUME NEW n \in Nat
    PROVE  /\ BlockSize(n) \in Nat /\ BlockSize(n) <= n
           /\ n <= TDTP_MAX_DATA_SIZE => BlockSize(n) = n
           /\ n > TDTP_MAX_DATA_SIZE => BlockSize(n) = TDTP_MAX_DATA_SIZE
           /\ n > 0 => BlockSize(n) > 0
  BY TdtpAssumption DEF BlockSize

LEMMA BeforeIs ==
    ASSUME NEW k \in Nat
    PROVE  /\ Before(k) \in Nat
           /\ Before(0) = 0 /\ Before(1) = 0
           /\ k > 0 => Before(k + 1) = Before(k) + TDTP_MAX_DATA_SIZE
<1> DEFINE M == TDTP_MAX_DATA_SIZE
<1>1. M \in Nat
  BY TdtpAssumption
<1> HIDE DEF M
<1>2. (1 - 1) * M = 0
  BY <1>1
<1>3. ASSUME k > 0
      PROVE  (k - 1) * M \in Nat /\ ((k + 1) - 1) * M = (k - 1) * M + M
  BY <1>1, <1>3
<1>4. CASE k = 0
  BY <1>2, <1>4 DEF Before, M
<1>5. CASE k > 0
  BY <1>2, <1>3, <1>5 DEF Before, M
<1> QED BY <1>4, <1>5

LEMMA UpToIs ==
    ASSUME NEW size \in Nat, NEW k \in Nat, Before(k) <= size
    PROVE  /\ UpTo(size, k) \in Nat
           /\ Before(k) <= UpTo(size, k) /\ UpTo(size, k) <= size
           /\ Before(k) < size => Before(k) < UpTo(size, k)
           /\ UpTo(size, k) - Before(k) = BlockSize(size - Before(k))
           /\ UpTo(size, k) = size <=> size - Before(k) <= TDTP_MAX_DATA_SIZE
           /\ k > 0 /\ UpTo(size, k) < size => UpTo(size, k) = Before(k + 1)
<1>1. Before(k) \in Nat /\ size - Before(k) \in Nat
  BY BeforeIs
<1>2. TDTP_MAX_DATA_SIZE \in Nat
  BY TdtpAssumption
<1> DEFINE n == size - Before(k)
<1>3. /\ BlockSize(n) \in Nat /\ BlockSize(n) <= n
      /\ n <= TDTP_MAX_DATA_SIZE => BlockSize(n) = n
      /\ n > TDTP_MAX_DATA_SIZE => BlockSize(n) = TDTP_MAX_DATA_SIZE
      /\ n > 0 => BlockSize(n) > 0
  BY <1>1, BlockSizes
<1>4. UpTo(size, k) = Before(k) + BlockSize(n)
  BY DEF UpTo
<1>5. k > 0 => Before(k + 1) = Before(k) + TDTP_MAX_DATA_SIZE
  BY BeforeIs
<1> HIDE DEF n
<1>6. n \in Nat /\ size = Before(k) + n
  BY <1>1 DEF n
<1>7. UpTo(size, k) - Before(k) = BlockSize(size - Before(k))
  BY <1>1, <1>3, <1>4 DEF n
<1>8. /\ UpTo(size, k) \in Nat
      /\ Before(k) <= UpTo(size, k) /\ UpTo(size, k) <= size
      /\ Before(k) < size => Before(k) < UpTo(size, k)
  BY <1>1, <1>3, <1>4, <1>6
<1>9. UpTo(size, k) = size <=> size - Before(k) <= TDTP_MAX_DATA_SIZE
  <2>1. size - Before(k) = n
    BY <1>1, <1>6
  <2>2. UpTo(size, k) = size <=> BlockSize(n) = n
    BY <1>1, <1>3, <1>4, <1>6
  <2> QED BY <1>2, <1>3, <1>6, <2>1, <2>2
<1>10. k > 0 /\ UpTo(size, k) < size => UpTo(size, k) = Before(k + 1)
  BY <1>1, <1>2, <1>3, <1>4, <1>5, <1>6
<1> QED BY <1>7, <1>8, <1>9, <1>10

LEMMA Pieces ==
    ASSUME NEW V, NEW s \in Seq(V), NEW a \in Nat, NEW b \in Nat,
           a <= b, b <= Len(s)
    PROVE  /\ SubSeq(s, a + 1, b) \in Seq(V)
           /\ Len(SubSeq(s, a + 1, b)) = b - a
           /\ SubSeq(s, 1, a) \in Seq(V)
           /\ SubSeq(s, 1, a) \o SubSeq(s, a + 1, b) = SubSeq(s, 1, b)
           /\ SubSeq(s, 1, Len(s)) = s
           /\ a = 0 => SubSeq(s, 1, a) = <<>>
<1>1. SubSeq(s, a + 1, b) \in Seq(V) /\ Len(SubSeq(s, a + 1, b)) = b - a
  OBVIOUS
<1>2. SubSeq(s, 1, a) \in Seq(V) /\ Len(SubSeq(s, 1, a)) = a
  OBVIOUS
<1>7. SubSeq(s, 1, a) \o SubSeq(s, a + 1, b) = SubSeq(s, 1, b)
  <2>1. 1 \in 1 .. Len(s) + 1 /\ a \in 1 - 1 .. Len(s) /\ b \in a .. Len(s)
    OBVIOUS
  <2> QED BY <2>1, ConcatAdjacentSubSeq
<1>8. SubSeq(s, 1, Len(s)) = s
  OBVIOUS
<1>9. a = 0 => SubSeq(s, 1, a) = <<>>
  OBVIOUS
<1> QED BY <1>1, <1>2, <1>7, <1>8, <1>9

LEMMA Files ==
    /\ DevFile \in Seq(Nat) /\ Len(DevFile) = DevFileSize
    /\ DevFileSize \in Nat /\ DevFileSize > 0
    /\ \A sid, size \in Nat :
          PcFile(sid, size) \in PcData /\ Len(PcFile(sid, size)) = size
<1>1. DevFileSize \in Nat /\ DevFileSize > 0
  BY TdtpAssumption
<1>2. DevFile \in Seq(Nat) /\ Len(DevFile) = DevFileSize
  BY <1>1 DEF DevFile
<1>3. ASSUME NEW sid \in Nat, NEW size \in Nat
      PROVE  PcFile(sid, size) \in PcData /\ Len(PcFile(sid, size)) = size
  BY DEF PcFile, PcData
<1> QED BY <1>1, <1>2, <1>3

-----------------------------------------------------------------------------
(* Packets                                                                 *)

LEMMA SpoiltPackets ==
    ASSUME NEW sid \in Nat, NEW sends \in BOOLEAN, NEW size \in Nat,
           NEW whole \in BOOLEAN
    PROVE  /\ \A m \in ForCli(sid, sends, size) :
                 [m EXCEPT !.crc = FALSE] \in ForCli(sid, sends, size)
           /\ \A m \in ForSrv(sid, sends, size, whole) :
                 [m EXCEPT !.crc = FALSE] \in ForSrv(sid, sends, size, whole)
<1>1. ASSUME NEW m \in WrPackets(sid, sends, size)
      PROVE  [m EXCEPT !.crc = FALSE] \in WrPackets(sid, sends, size)
  BY DEF WrPackets
<1>2. ASSUME NEW m \in WrDataPackets(sid, sends, size)
      PROVE  [m EXCEPT !.crc = FALSE] \in WrDataPackets(sid, sends, size)
  BY DEF WrDataPackets
<1>3. ASSUME NEW m \in RdPackets PROVE [m EXCEPT !.crc = FALSE] \in RdPackets
  BY DEF RdPackets
<1>4. ASSUME NEW m \in AckRdPackets
      PROVE  [m EXCEPT !.crc = FALSE] \in AckRdPackets
  BY DEF AckRdPackets
<1>5. ASSUME NEW m \in RdDataPackets
      PROVE  [m EXCEPT !.crc = FALSE] \in RdDataPackets
  BY DEF RdDataPackets
<1>6. ASSUME NEW m \in AckWrPackets(sid, sends, size, whole)
      PROVE  [m EXCEPT !.crc = FALSE] \in AckWrPackets(sid, sends, size, whole)
  BY DEF AckWrPackets
<1>7. [NothingSent EXCEPT !.crc = FALSE] = NothingSent
  BY DEF NothingSent
<1> QED BY <1>1, <1>2, <1>3, <1>4, <1>5, <1>6, <1>7 DEF ForCli, ForSrv

(* Packets of the session before are no packets of the one that runs, and  *)
(* when no file is sent nothing is said of any.                            *)
LEMMA SessionGoes ==
    ASSUME NEW s, NEW d, NEW stored,
           s.sid \in Nat, d.sid \in Nat, s.sid <= d.sid,
           d.op = "send" => s.sid < d.sid
    PROVE  /\ ForCli(s.sid, s.op = "send", s.tsize)
                 \subseteq ForCli(d.sid, d.op = "send", d.tsize)
           /\ ForSrv(s.sid, s.op = "send", s.tsize, s.sid \in stored)
                 \subseteq ForSrv(d.sid, d.op = "send", d.tsize,
                                  d.sid \in stored)
<1>1. WrPackets(s.sid, s.op = "send", s.tsize)
         \subseteq WrPackets(d.sid, d.op = "send", d.tsize)
  BY DEF WrPackets
<1>2. WrDataPackets(s.sid, s.op = "send", s.tsize)
         \subseteq WrDataPackets(d.sid, d.op = "send", d.tsize)
  BY DEF WrDataPackets
<1>3. AckWrPackets(s.sid, s.op = "send", s.tsize, s.sid \in stored)
         \subseteq AckWrPackets(d.sid, d.op = "send", d.tsize,
                                d.sid \in stored)
  BY DEF AckWrPackets
<1> QED BY <1>1, <1>2, <1>3 DEF ForCli, ForSrv

LEMMA PacketTypes ==
    ASSUME NEW sid, NEW sends, NEW size, NEW whole
    PROVE  /\ ForCli(sid, sends, size) \subseteq SrvPackets
           /\ ForSrv(sid, sends, size, whole) \subseteq CliPackets
           /\ NothingSent \in SrvPackets /\ NothingSent \in CliPackets
  BY DEF ForCli, ForSrv, SrvPackets, CliPackets, WrPackets, WrDataPackets,
         RdDataPackets, AckWrPackets

-----------------------------------------------------------------------------
(* The device                                                              *)

(* The fields of the write session and those of the read session.          *)
SameWr(c, d) ==
    /\ d.wr = c.wr /\ d.wr_sid = c.wr_sid /\ d.wr_blk = c.wr_blk
    /\ d.wr_tsize = c.wr_tsize /\ d.wr_nbytes = c.wr_nbytes
    /\ d.wr_open = c.wr_open /\ d.dev = c.dev /\ d.stored = c.stored

SameRd(c, d) ==
    /\ d.rd = c.rd /\ d.rd_blk = c.rd_blk /\ d.rd_tsize = c.rd_tsize
    /\ d.rd_nbytes = c.rd_nbytes /\ d.rd_open = c.rd_open

LEMMA KeepsWr ==
    ASSUME NEW sid, NEW sends, NEW size, NEW c, NEW d,
           CliBody(c, sid, sends, size), d \in CliType, SameWr(c, d),
           d.rd /\ d.rd_open => Reads(d)
    PROVE  CliBody(d, sid, sends, size)
  BY DEF CliBody, SameWr, Writes

LEMMA KeepsRd ==
    ASSUME NEW sid, NEW sends, NEW size, NEW c, NEW d,
           CliBody(c, sid, sends, size), SameRd(c, d)
    PROVE  d.rd /\ d.rd_open => Reads(d)
  BY DEF CliBody, SameRd, Reads

LEMMA FreshOK ==
    ASSUME NEW sid, NEW sends, NEW size, NEW c,
           CliOK(c, sid, sends, size)
    PROVE  /\ CliOK(Fresh(c), sid, sends, size)
           /\ SameWr(c, Fresh(c)) /\ SameRd(c, Fresh(c))
           /\ Fresh(c).tx = c.tx /\ Fresh(c).rd_sid = c.rd_sid
           /\ Fresh(c).rd_unexp = c.rd_unexp
<1>1. c \in CliType
  BY DEF CliOK, CliBody
<1>2. /\ Fresh(c) \in CliType /\ SameWr(c, Fresh(c)) /\ SameRd(c, Fresh(c))
      /\ Fresh(c).tx = c.tx /\ Fresh(c).rd_sid = c.rd_sid
      /\ Fresh(c).rd_unexp = c.rd_unexp
  BY <1>1 DEF Fresh, CliType, SameWr, SameRd
<1>3. CliBody(Fresh(c), sid, sends, size)
  BY <1>2, KeepsWr, KeepsRd DEF CliOK
<1> QED BY <1>2, <1>3 DEF CliOK, SameWr

(* Whatever the device acknowledges it has written.                        *)
LEMMA AckOK ==
    ASSUME NEW sid, NEW sends, NEW size, NEW c,
           CliBody(c, sid, sends, size), NEW msg \in AckMsgs
    PROVE  /\ CliOK(cli_wr_send_ack(c, msg), sid, sends, size)
           /\ cli_wr_send_ack(c, msg).stored = c.stored
<1> DEFINE m == build_pkt_ACK("ACK_WR", c.wr_sid, c.wr_blk, msg)
           d == cli_wr_send_ack(c, msg)
<1>1. c \in CliType
  BY DEF CliBody
<1>2. c.wr_sid \in Nat /\ c.wr_blk \in Nat
  BY <1>1 DEF CliType
<1>3. m \in CliPackets
  BY <1>2 DEF CliPackets, build_pkt_ACK
<1>4. m \in ForSrv(sid, sends, size, sid \in c.stored)
  <2>1. c.wr_sid <= sid
        /\ (sends /\ c.wr_sid = sid => Writes(c, sid, size))
    BY DEF CliBody
  <2>2. sends /\ c.wr_sid = sid /\ UpTo(size, c.wr_blk) = size
           => sid \in c.stored
    BY <2>1 DEF Writes
  <2>3. m \in AckWrPackets(sid, sends, size, sid \in c.stored)
    BY <1>2, <2>1, <2>2 DEF AckWrPackets, build_pkt_ACK
  <2> QED BY <2>3 DEF ForSrv
<1>5. d = [c EXCEPT !.tx = m]
  BY DEF cli_wr_send_ack
<1> HIDE DEF m, d
<1>6. d \in CliType /\ SameWr(c, d) /\ SameRd(c, d) /\ d.tx = m
  BY <1>1, <1>3, <1>5 DEF CliType, SameWr, SameRd
<1>7. CliBody(d, sid, sends, size)
  BY <1>6, KeepsWr, KeepsRd
<1> QED BY <1>4, <1>6, <1>7 DEF CliOK, SameWr, d

(* What the TDTP_OP_WRITE and TDTP_OP_CLOSE of the device leave alone.     *)
WrKept(c, d) ==
    /\ SameRd(c, d) /\ d.tx = c.tx
    /\ d.wr = c.wr /\ d.wr_sid = c.wr_sid /\ d.wr_blk = c.wr_blk
    /\ d.wr_tsize = c.wr_tsize
    /\ c.stored \subseteq d.stored

LEMMA CloseIs ==
    ASSUME NEW c \in CliType
    PROVE  /\ WrClosed(c) \in CliType /\ WrKept(c, WrClosed(c))
           /\ ~WrClosed(c).wr_open
           /\ c.dev = PcFile(c.wr_sid, c.wr_tsize)
                 => c.wr_sid \in WrClosed(c).stored
<1> DEFINE st == IF c.dev = PcFile(c.wr_sid, c.wr_tsize)
                 THEN c.stored \cup {c.wr_sid} ELSE c.stored
<1>1. st \in SUBSET Nat /\ c.stored \subseteq st
  BY DEF CliType
<1>2. c.dev = PcFile(c.wr_sid, c.wr_tsize) => c.wr_sid \in st
  OBVIOUS
<1>3. WrClosed(c) = [c EXCEPT !.wr_open = FALSE, !.stored = st]
  BY DEF WrClosed
<1> HIDE DEF st
<1> DEFINE d == WrClosed(c)
<1>4. /\ d \in CliType /\ d.stored = st /\ ~d.wr_open
      /\ SameRd(c, d) /\ d.tx = c.tx
      /\ d.wr = c.wr /\ d.wr_sid = c.wr_sid /\ d.wr_blk = c.wr_blk
      /\ d.wr_tsize = c.wr_tsize
  BY <1>1, <1>3 DEF CliType, SameRd
<1> QED BY <1>1, <1>2, <1>4 DEF WrKept

LEMMA WrittenIs ==
    ASSUME NEW c \in CliType, NEW data \in PcData
    PROVE  /\ Written(c, data) \in CliType /\ WrKept(c, Written(c, data))
           /\ Written(c, data).wr_open = c.wr_open
           /\ Written(c, data).dev = c.dev \o data
           /\ Written(c, data).wr_nbytes = c.wr_nbytes - Len(data)
<1> DEFINE dd == c.dev \o data
           n == c.wr_nbytes - Len(data)
<1>1. c.dev \in PcData /\ c.wr_nbytes \in Int
  BY DEF CliType
<1>2. dd \in PcData
  BY <1>1 DEF PcData
<1>3. n \in Int
  BY <1>1 DEF PcData
<1>4. Written(c, data) = [c EXCEPT !.dev = dd, !.wr_nbytes = n]
  BY DEF Written
<1> HIDE DEF dd, n
<1> DEFINE d == Written(c, data)
<1>5. /\ d \in CliType /\ SameRd(c, d) /\ d.tx = c.tx
      /\ d.wr = c.wr /\ d.wr_sid = c.wr_sid /\ d.wr_blk = c.wr_blk
      /\ d.wr_tsize = c.wr_tsize /\ d.stored = c.stored
      /\ d.wr_open = c.wr_open /\ d.dev = dd /\ d.wr_nbytes = n
  BY <1>2, <1>3, <1>4 DEF CliType, SameRd
<1> QED BY <1>5 DEF WrKept, dd, n

LEMMA DoWriteIs ==
    ASSUME NEW c \in CliType, NEW data \in PcData
    PROVE  /\ cli_do_write(c, data) \in CliType
           /\ WrKept(c, cli_do_write(c, data))
           /\ cli_do_write(c, data).wr_open => c.wr_open
<1> DEFINE w == Written(c, data)
<1>1. /\ w \in CliType /\ WrKept(c, w) /\ w.wr_open = c.wr_open
      /\ WrClosed(w) \in CliType /\ WrKept(w, WrClosed(w)) /\ ~WrClosed(w).wr_open
  BY WrittenIs, CloseIs
<1>2. cli_do_write(c, data) \in {c, w, WrClosed(w)}
  BY DEF cli_do_write
<1>3. ~c.wr_open => cli_do_write(c, data) = c
  BY DEF cli_do_write
<1> HIDE DEF w
<1>4. WrKept(c, c) /\ WrKept(c, WrClosed(w))
  BY <1>1 DEF WrKept, SameRd
<1> QED BY <1>1, <1>2, <1>3, <1>4

(* The device writes the block that follows what it has.                   *)
LEMMA WriteBlock ==
    ASSUME NEW sid \in Nat, NEW size \in Nat, NEW k \in Nat,
           NEW c \in CliType, NEW data \in PcData,
           IsBlock(size, k), c.wr_open, c.wr_sid = sid, c.wr_tsize = size,
           c.dev = SubSeq(PcFile(sid, size), 1, Before(k)),
           c.wr_nbytes = size - Before(k),
           data = BlockOf(PcFile(sid, size), size, k)
    PROVE  /\ cli_do_write(c, data).wr_open =>
                /\ UpTo(size, k) < size
                /\ cli_do_write(c, data).dev
                      = SubSeq(PcFile(sid, size), 1, UpTo(size, k))
                /\ cli_do_write(c, data).wr_nbytes = size - UpTo(size, k)
           /\ UpTo(size, k) = size => sid \in cli_do_write(c, data).stored
           /\ ~cli_do_write(c, data).wr_open
                 => sid \in cli_do_write(c, data).stored
<1> DEFINE f == PcFile(sid, size)
           w == Written(c, data)
<1>1. Before(k) \in Nat /\ Before(k) <= size
  <2>1. Before(k) \in Nat /\ Before(0) = 0
    BY BeforeIs
  <2> QED BY <2>1 DEF IsBlock
<1>2. /\ UpTo(size, k) \in Nat
      /\ Before(k) <= UpTo(size, k) /\ UpTo(size, k) <= size
  BY <1>1, UpToIs
<1>3. f \in Seq(Nat \X Nat) /\ Len(f) = size
  BY Files DEF PcData
<1> HIDE DEF f
<1>4. data = SubSeq(f, Before(k) + 1, UpTo(size, k))
  BY DEF BlockOf, f
<1>5. /\ Len(data) = UpTo(size, k) - Before(k)
      /\ c.dev \o data = SubSeq(f, 1, UpTo(size, k))
      /\ SubSeq(f, 1, size) = f
  <2> DEFINE a == Before(k)
             b == UpTo(size, k)
  <2>1. a \in Nat /\ b \in Nat /\ a <= b /\ b <= Len(f)
    BY <1>1, <1>2, <1>3
  <2>2. c.dev = SubSeq(f, 1, a) /\ data = SubSeq(f, a + 1, b)
    BY <1>4 DEF f
  <2> HIDE DEF a, b
  <2>3. /\ Len(SubSeq(f, a + 1, b)) = b - a
        /\ SubSeq(f, 1, a) \o SubSeq(f, a + 1, b) = SubSeq(f, 1, b)
        /\ SubSeq(f, 1, Len(f)) = f
    <3> DEFINE V == Nat \X Nat
    <3>1. f \in Seq(V)
      BY <1>3
    <3> HIDE DEF V
    <3> QED BY <2>1, <3>1, Pieces
  <2> QED BY <1>3, <2>2, <2>3 DEF a, b
<1>6. /\ w \in CliType /\ w.wr_open
      /\ w.dev = SubSeq(f, 1, UpTo(size, k))
      /\ w.wr_nbytes = c.wr_nbytes - Len(data)
      /\ w.wr_sid = sid /\ w.wr_tsize = size
  BY <1>5, WrittenIs DEF WrKept
<1>7. c.wr_nbytes - Len(data) = size - UpTo(size, k)
  BY <1>1, <1>2, <1>5
<1>8. CASE UpTo(size, k) = size
  <2>1. cli_do_write(c, data) = WrClosed(w)
    BY <1>2, <1>7, <1>8 DEF cli_do_write
  <2>2. w.dev = PcFile(w.wr_sid, w.wr_tsize)
    BY <1>5, <1>6, <1>8 DEF f
  <2>3. ~WrClosed(w).wr_open /\ sid \in WrClosed(w).stored
    BY <1>6, <2>2, CloseIs
  <2> QED BY <2>1, <2>3
<1>9. CASE UpTo(size, k) < size
  <2>1. cli_do_write(c, data) = w
    BY <1>2, <1>7, <1>9 DEF cli_do_write
  <2> QED BY <1>6, <1>7, <1>9, <2>1 DEF f
<1> QED BY <1>2, <1>8, <1>9

(* The device with the file of the present session, closed or not.         *)
LEMMA WriteAckIs ==
    ASSUME NEW c, NEW data PROVE WriteAck(c, data) \in AckMsgs
  BY DEF WriteAck, AckMsgs

LEMMA KeepsRdWr ==
    ASSUME NEW sid, NEW sends, NEW size, NEW c, NEW d, NEW e,
           CliBody(c, sid, sends, size), SameRd(c, d), SameRd(d, e)
    PROVE  e.rd /\ e.rd_open => Reads(e)
  BY DEF CliBody, SameRd, Reads

(* tdtp_cli, TDTP_CMD_WR: the session before is stopped.                   *)
LEMMA StoppedIs ==
    ASSUME NEW sid, NEW sends, NEW size, NEW c,
           CliBody(c, sid, sends, size)
    PROVE  /\ CliBody(WrStopped(c), sid, sends, size)
           /\ ~WrStopped(c).wr_open /\ SameRd(c, WrStopped(c))
           /\ WrStopped(c).stored = c.stored /\ WrStopped(c).tx = c.tx
<1> DEFINE d == WrStopped(c)
<1>1. c \in CliType /\ (c.wr_open => c.wr)
  BY DEF CliBody
<1>2. d = [c EXCEPT !.wr_open = FALSE, !.wr = FALSE]
  <2>1. (IF c.wr THEN FALSE ELSE c.wr_open) = FALSE
    BY <1>1 DEF CliType
  <2> QED BY <2>1 DEF WrStopped
<1> HIDE DEF d
<1>3. /\ d \in CliType /\ SameRd(c, d) /\ ~d.wr_open /\ ~d.wr
      /\ d.wr_sid = c.wr_sid /\ d.wr_blk = c.wr_blk
      /\ d.wr_tsize = c.wr_tsize /\ d.stored = c.stored /\ d.tx = c.tx
  BY <1>1, <1>2 DEF CliType, SameRd
<1>4. d.rd /\ d.rd_open => Reads(d)
  BY <1>3, KeepsRd
<1>5. CliBody(d, sid, sends, size)
  BY <1>3, <1>4 DEF CliBody, Writes
<1> QED BY <1>3, <1>5 DEF d

(* The file is opened for the new session.                                 *)
LEMMA OpenedIs ==
    ASSUME NEW c \in CliType, ~c.wr_open,
           NEW m, m.sid \in Nat, m.blk \in Nat, m.tsize \in Nat
    PROVE  /\ WrOpened(c, m) \in CliType /\ SameRd(c, WrOpened(c, m))
           /\ WrOpened(c, m).wr /\ WrOpened(c, m).wr_open
           /\ WrOpened(c, m).wr_sid = m.sid /\ WrOpened(c, m).wr_blk = m.blk
           /\ WrOpened(c, m).wr_tsize = m.tsize
           /\ WrOpened(c, m).wr_nbytes = m.tsize
           /\ WrOpened(c, m).dev = <<>> /\ WrOpened(c, m).tx = c.tx
           /\ WrOpened(c, m).stored = c.stored
<1> DEFINE d == WrOpened(c, m)
           e == <<>>
<1>1. d = [c EXCEPT !.wr = TRUE, !.wr_sid = m.sid, !.wr_blk = m.blk,
                    !.wr_tsize = m.tsize, !.wr_nbytes = m.tsize,
                    !.wr_open = TRUE, !.dev = e]
  BY DEF WrOpened
<1>2. e \in PcData /\ m.tsize \in Int
  BY DEF PcData
<1> HIDE DEF d, e
<1>3. /\ d \in CliType /\ SameRd(c, d)
      /\ d.wr /\ d.wr_open
      /\ d.wr_sid = m.sid /\ d.wr_blk = m.blk
      /\ d.wr_tsize = m.tsize /\ d.wr_nbytes = m.tsize
      /\ d.dev = e /\ d.tx = c.tx /\ d.stored = c.stored
  BY <1>1, <1>2 DEF CliType, SameRd
<1> QED BY <1>3 DEF d, e

(* After the first block, or the whole of a file without data, the device  *)
(* is in the new session.                                                  *)
LEMMA WrSessionOK ==
    ASSUME NEW sid \in Nat, NEW sends \in BOOLEAN, NEW size \in Nat, NEW c,
           CliOK(c, sid, sends, size), NEW m \in WrPackets(sid, sends, size)
    PROVE  /\ CliOK(WrSession(WrStopped(c), m), sid, sends, size)
           /\ c.stored \subseteq WrSession(WrStopped(c), m).stored
<1> DEFINE b == WrStopped(c)
           o == WrOpened(b, m)
           w == cli_do_write(o, m.data)
           z == WrClosed(o)
<1>1. /\ CliBody(b, sid, sends, size) /\ ~b.wr_open /\ b.stored = c.stored
      /\ b \in CliType /\ SameRd(c, b)
  BY StoppedIs DEF CliOK, CliBody
<1>2. /\ m.sid \in Nat /\ m.blk \in Nat /\ m.tsize \in Nat
      /\ m.data \in PcData /\ m.sid <= sid
      /\ sends /\ m.sid = sid =>
           /\ m.tsize = size /\ IsBlock(size, m.blk) /\ m.blk < 2
           /\ m.data = BlockOf(PcFile(sid, size), size, m.blk)
  BY DEF WrPackets
<1>3. /\ o \in CliType /\ SameRd(b, o) /\ o.wr /\ o.wr_open
      /\ o.wr_sid = m.sid /\ o.wr_blk = m.blk
      /\ o.wr_tsize = m.tsize /\ o.wr_nbytes = m.tsize
      /\ o.dev = <<>> /\ o.stored = c.stored
  BY <1>1, <1>2, OpenedIs
<1>4. ASSUME m.addr # Known
      PROVE  WrSession(b, m) = cli_wr_send_ack(b, "ERR_BADADDR")
  BY <1>1, <1>4 DEF WrSession
<1>5. ASSUME m.addr = Known
      PROVE  WrSession(b, m) = WrFirst(o, m)
  BY <1>1, <1>5 DEF WrSession
<1> HIDE DEF b, o, w, z
<1>6. CASE m.addr # Known
  <2>1. "ERR_BADADDR" \in AckMsgs
    BY DEF AckMsgs
  <2> QED BY <1>1, <1>4, <1>6, <2>1, AckOK DEF b
<1>7. CASE m.addr = Known /\ m.tsize > 0
  <2>1. WrFirst(o, m) = cli_wr_send_ack(w, WriteAck(o, m.data))
    BY <1>7 DEF WrFirst, w
  <2>2. w \in CliType /\ WrKept(o, w)
    BY <1>2, <1>3, DoWriteIs DEF w
  <2>3. w.rd /\ w.rd_open => Reads(w)
    BY <1>1, <1>3, <2>2, KeepsRdWr DEF WrKept
  <2>4. ASSUME sends, m.sid = sid PROVE Writes(w, sid, size)
    <3>1. m.tsize = size /\ IsBlock(size, m.blk) /\ m.blk < 2
          /\ m.data = BlockOf(PcFile(sid, size), size, m.blk)
      BY <1>2, <2>4
    <3>2. Before(m.blk) = 0
      <4>1. m.blk = 0 \/ m.blk = 1
        BY <1>2, <3>1
      <4>2. Before(0) = 0 /\ Before(1) = 0
        BY BeforeIs
      <4> QED BY <4>1, <4>2
    <3>3. PcFile(sid, size) \in PcData
      BY Files
    <3>4. SubSeq(PcFile(sid, size), 1, 0) = <<>>
      BY <3>3 DEF PcData
    <3>5. /\ o.dev = SubSeq(PcFile(sid, size), 1, Before(m.blk))
          /\ o.wr_nbytes = size - Before(m.blk)
          /\ o.wr_sid = sid /\ o.wr_tsize = size
      BY <1>3, <2>4, <3>1, <3>2, <3>4
    <3>6. /\ w.wr_open =>
               /\ UpTo(size, m.blk) < size
               /\ w.dev = SubSeq(PcFile(sid, size), 1, UpTo(size, m.blk))
               /\ w.wr_nbytes = size - UpTo(size, m.blk)
          /\ UpTo(size, m.blk) = size => sid \in w.stored
          /\ ~w.wr_open => sid \in w.stored
      <4> DEFINE k == m.blk
                 data == m.data
      <4>1. /\ o \in CliType /\ o.wr_open
            /\ o.wr_sid = sid /\ o.wr_tsize = size
            /\ data \in PcData /\ k \in Nat /\ IsBlock(size, k)
            /\ data = BlockOf(PcFile(sid, size), size, k)
            /\ o.dev = SubSeq(PcFile(sid, size), 1, Before(k))
            /\ o.wr_nbytes = size - Before(k)
        BY <1>2, <1>3, <3>1, <3>5
      <4>2. w = cli_do_write(o, data)
        BY DEF w
      <4> HIDE DEF k, data
      <4>3. /\ w.wr_open =>
                 /\ UpTo(size, k) < size
                 /\ w.dev = SubSeq(PcFile(sid, size), 1, UpTo(size, k))
                 /\ w.wr_nbytes = size - UpTo(size, k)
            /\ UpTo(size, k) = size => sid \in w.stored
            /\ ~w.wr_open => sid \in w.stored
        BY ONLY sid \in Nat, size \in Nat, <4>1, <4>2, WriteBlock
      <4> QED BY <4>3 DEF k
    <3>7. w.wr_blk = m.blk /\ w.wr_tsize = size
      BY <1>3, <2>2, <3>1 DEF WrKept
    <3> QED BY <3>1, <3>6, <3>7 DEF Writes
  <2>5. w.wr /\ w.wr_sid = m.sid /\ c.stored \subseteq w.stored
    BY <1>3, <2>2 DEF WrKept
  <2>6. CliBody(w, sid, sends, size)
    BY <1>2, <2>2, <2>3, <2>4, <2>5 DEF CliBody
  <2> QED BY <1>5, <1>7, <2>1, <2>5, <2>6, AckOK, WriteAckIs DEF b
<1>8. CASE m.addr = Known /\ m.tsize = 0
  <2> DEFINE a == cli_wr_send_ack(z, "WRNEXT")
             r == [a EXCEPT !.wr = FALSE]
  <2>1. WrFirst(o, m) = r
    BY <1>8 DEF WrFirst, z
  <2>2. z \in CliType /\ WrKept(o, z) /\ ~z.wr_open
    BY <1>3, CloseIs DEF z
  <2>3. z.rd /\ z.rd_open => Reads(z)
    BY <1>1, <1>3, <2>2, KeepsRdWr DEF WrKept
  <2>4. z.wr /\ z.wr_sid = m.sid /\ c.stored \subseteq z.stored
        /\ z.wr_blk = m.blk /\ z.wr_tsize = 0
    BY <1>3, <1>8, <2>2 DEF WrKept
  <2>5. m.sid \in z.stored
    <3>1. PcFile(m.sid, 0) = <<>>
      <4>1. PcFile(m.sid, 0) \in PcData /\ Len(PcFile(m.sid, 0)) = 0
        BY <1>2, Files
      <4> QED BY <4>1 DEF PcData
    <3> QED BY <1>3, <1>8, <3>1, CloseIs DEF z
  <2>6. CliBody(z, sid, sends, size)
    BY <1>2, <1>8, <2>2, <2>3, <2>4, <2>5 DEF CliBody, Writes
  <2>7. "WRNEXT" \in AckMsgs
    BY DEF AckMsgs
  <2>8. CliOK(a, sid, sends, size) /\ a.stored = z.stored
    BY <2>6, <2>7, AckOK
  <2>9. a.wr_open = FALSE
    BY <2>2 DEF cli_wr_send_ack, CliType
  <2> HIDE DEF a
  <2>10. /\ r \in CliType /\ SameRd(a, r) /\ ~r.wr_open /\ ~r.wr
         /\ r.wr_sid = a.wr_sid /\ r.wr_blk = a.wr_blk
         /\ r.wr_tsize = a.wr_tsize /\ r.stored = a.stored /\ r.tx = a.tx
    BY <2>8, <2>9 DEF CliOK, CliBody, CliType, SameRd
  <2> HIDE DEF r
  <2>11. CliOK(r, sid, sends, size)
    <3>1. r.rd /\ r.rd_open => Reads(r)
      BY <2>8, <2>10, KeepsRd DEF CliOK
    <3>2. CliBody(r, sid, sends, size)
      BY <2>8, <2>10, <3>1 DEF CliOK, CliBody, Writes
    <3> QED BY <2>8, <2>10, <3>2 DEF CliOK
  <2> QED BY <1>5, <1>8, <2>1, <2>4, <2>8, <2>10, <2>11 DEF b
<1> QED BY <1>2, <1>6, <1>7, <1>8

(* tdtp_cli, TDTP_CMD_WR_DATA: the block follows what was written.         *)
LEMMA WrNextOK ==
    ASSUME NEW sid \in Nat, NEW sends \in BOOLEAN, NEW size \in Nat, NEW c,
           CliOK(c, sid, sends, size), NEW m \in WrDataPackets(sid, sends, size),
           IsNext(c, m)
    PROVE  /\ CliOK(WrNext(c, m), sid, sends, size)
           /\ c.stored \subseteq WrNext(c, m).stored
<1> DEFINE w == cli_do_write(c, m.data)
           d == [w EXCEPT !.wr_blk = m.blk]
<1>1. CliBody(c, sid, sends, size) /\ c \in CliType
  BY DEF CliOK, CliBody
<1>2. /\ m.blk \in Nat /\ m.data \in PcData
      /\ sends /\ m.sid = sid =>
           /\ IsBlock(size, m.blk) /\ m.blk >= 2
           /\ m.data = BlockOf(PcFile(sid, size), size, m.blk)
  BY DEF WrDataPackets
<1>3. c.wr_sid = m.sid /\ m.blk = c.wr_blk + 1 /\ c.wr
  BY DEF IsNext
<1>4. w \in CliType /\ WrKept(c, w)
  BY <1>1, <1>2, DoWriteIs
<1>5. WrNext(c, m) = cli_wr_send_ack(d, WriteAck(c, m.data))
  BY DEF WrNext
<1>6. ASSUME sends, m.sid = sid
      PROVE  /\ w.wr_open =>
                  /\ UpTo(size, m.blk) < size
                  /\ w.dev = SubSeq(PcFile(sid, size), 1, UpTo(size, m.blk))
                  /\ w.wr_nbytes = size - UpTo(size, m.blk)
             /\ UpTo(size, m.blk) = size => sid \in w.stored
             /\ ~w.wr_open => sid \in w.stored
             /\ w.wr_tsize = size
  <2>1. IsBlock(size, m.blk) /\ m.blk >= 2
        /\ m.data = BlockOf(PcFile(sid, size), size, m.blk)
    BY <1>2, <1>6
  <2>2. Writes(c, sid, size) /\ c.wr_sid = sid
    BY <1>1, <1>3, <1>6 DEF CliBody
  <2>3. c.wr_tsize = size /\ w.wr_tsize = size
    BY <1>4, <2>2 DEF Writes, WrKept
  <2>4. CASE c.wr_open
    <3>1. /\ UpTo(size, c.wr_blk) < size /\ IsBlock(size, c.wr_blk)
          /\ c.dev = SubSeq(PcFile(sid, size), 1, UpTo(size, c.wr_blk))
          /\ c.wr_nbytes = size - UpTo(size, c.wr_blk)
      BY <2>2, <2>4 DEF Writes
    <3>2. c.wr_blk \in Nat /\ c.wr_blk > 0
      BY <1>1, <1>2, <1>3, <2>1 DEF CliType
    <3>3. Before(c.wr_blk) <= size
      <4>1. Before(c.wr_blk) \in Nat
        BY <3>2, BeforeIs
      <4> QED BY <3>1, <3>2, <4>1 DEF IsBlock
    <3>4. UpTo(size, c.wr_blk) = Before(m.blk)
      BY <1>3, <3>1, <3>2, <3>3, UpToIs
    <3>5. /\ c \in CliType /\ c.wr_open /\ c.wr_sid = sid /\ c.wr_tsize = size
          /\ m.data \in PcData /\ m.blk \in Nat /\ IsBlock(size, m.blk)
          /\ m.data = BlockOf(PcFile(sid, size), size, m.blk)
          /\ c.dev = SubSeq(PcFile(sid, size), 1, Before(m.blk))
          /\ c.wr_nbytes = size - Before(m.blk)
      BY <1>1, <1>2, <2>1, <2>2, <2>3, <2>4, <3>1, <3>4
    <3>6. w = cli_do_write(c, m.data)
      OBVIOUS
    <3> HIDE DEF w
    <3>7. /\ w.wr_open =>
               /\ UpTo(size, m.blk) < size
               /\ w.dev = SubSeq(PcFile(sid, size), 1, UpTo(size, m.blk))
               /\ w.wr_nbytes = size - UpTo(size, m.blk)
          /\ UpTo(size, m.blk) = size => sid \in w.stored
          /\ ~w.wr_open => sid \in w.stored
      BY ONLY sid \in Nat, size \in Nat, <3>5, <3>6, WriteBlock
    <3> QED BY <2>3, <3>7
  <2>5. CASE ~c.wr_open
    <3>1. sid \in c.stored
      BY <1>3, <2>2, <2>5 DEF Writes
    <3>2. w = c
      BY <2>5 DEF cli_do_write
    <3> QED BY <2>3, <2>5, <3>1, <3>2
  <2> QED BY <2>4, <2>5
<1> HIDE DEF w
<1>7. /\ d \in CliType /\ SameRd(w, d) /\ d.wr_blk = m.blk
      /\ d.wr = w.wr /\ d.wr_sid = w.wr_sid /\ d.wr_tsize = w.wr_tsize
      /\ d.wr_open = w.wr_open /\ d.dev = w.dev
      /\ d.wr_nbytes = w.wr_nbytes /\ d.stored = w.stored
  BY <1>2, <1>4 DEF CliType, SameRd
<1> HIDE DEF d
<1>8. d.rd /\ d.rd_open => Reads(d)
  BY <1>1, <1>4, <1>7, KeepsRdWr DEF WrKept
<1>9. d.wr /\ d.wr_sid = m.sid /\ c.stored \subseteq d.stored
  BY <1>3, <1>4, <1>7 DEF WrKept
<1>10. sends /\ m.sid = sid => Writes(d, sid, size)
  BY <1>2, <1>6, <1>7 DEF Writes
<1>11. m.sid <= sid
  BY DEF WrDataPackets
<1>12. CliBody(d, sid, sends, size)
  BY <1>7, <1>8, <1>9, <1>10, <1>11 DEF CliBody
<1> QED BY <1>5, <1>9, <1>12, AckOK, WriteAckIs

(* cli_do_read: the next block of the file, or none.                       *)
LEMMA DoReadIs ==
    ASSUME NEW c \in CliType, c.rd_open => Reads(c)
    PROVE  /\ cli_do_read(c) \in CliType /\ SameWr(c, cli_do_read(c))
           /\ cli_do_read(c).tx \in RdDataPackets
           /\ cli_do_read(c).rd /\ cli_do_read(c).rd_open
                 => Reads(cli_do_read(c))
<1> DEFINE h == HasRead(c)
           p == build_pkt_RD_DATA(h, IF c.rd_open THEN NextData(c) ELSE <<>>)
           d == cli_do_read(c)
<1>1. d = [h EXCEPT !.tx = p]
  BY DEF cli_do_read
<1>2. CASE c.rd_open
  <2> DEFINE k == c.rd_blk + 1
             n == c.rd_nbytes
             s == BlockSize(n)
  <2>1. /\ c.rd_blk \in Nat /\ c.rd_tsize = DevFileSize
        /\ n = DevFileSize - Before(k) /\ n > 0 /\ n \in Int
    BY <1>2 DEF Reads, CliType
  <2>2. k \in Nat /\ k > 0 /\ Before(k) \in Nat /\ Before(k) < DevFileSize
    <3>1. k \in Nat /\ k > 0
      BY <2>1
    <3> HIDE DEF k
    <3>2. Before(k) \in Nat
      BY <3>1, BeforeIs
    <3> QED BY <2>1, <3>1, <3>2, Files
  <2>3. n \in Nat /\ s \in Nat /\ s <= n /\ s > 0
    BY <2>1, BlockSizes
  <2>4. /\ UpTo(DevFileSize, k) = Before(k) + s
        /\ UpTo(DevFileSize, k) <= DevFileSize
        /\ UpTo(DevFileSize, k) < DevFileSize
              => UpTo(DevFileSize, k) = Before(k + 1)
    BY <2>1, <2>2, Files, UpToIs DEF UpTo
  <2>5. NextData(c) = BlockOf(DevFile, DevFileSize, k)
    <3>1. c.rd_tsize - c.rd_nbytes = Before(k)
      BY <2>1, <2>2, Files
    <3> QED BY <2>4, <3>1 DEF NextData, BlockOf
  <2>6. NextData(c) \in Seq(Nat)
    <3>1. UpTo(DevFileSize, k) \in Nat /\ Before(k) <= UpTo(DevFileSize, k)
      BY <2>2, Files, UpToIs
    <3> QED BY <2>2, <2>4, <2>5, <3>1, Files, Pieces, SMTT(40) DEF BlockOf
  <2>7. h = [c EXCEPT !.rd_blk = k, !.rd_nbytes = n - s,
                      !.rd_open = n > s, !.rd = n > s]
    BY <1>2 DEF HasRead
  <2>8. k \in Int /\ n - s \in Int /\ (n > s) \in BOOLEAN
    BY <2>2, <2>3
  <2>9. /\ h \in CliType /\ SameWr(c, h)
        /\ h.rd_blk = k /\ h.rd_nbytes = n - s
        /\ h.rd_open = (n > s) /\ h.rd = (n > s)
        /\ h.rd_sid = c.rd_sid /\ h.rd_tsize = c.rd_tsize
    <3> HIDE DEF k, n, s
    <3> QED BY <2>7, <2>8, ZenonT(60) DEF CliType, SameWr
  <2>10. n > s => n - s = DevFileSize - Before(k + 1)
    <3>1. DevFileSize \in Nat /\ k + 1 \in Nat
      BY <2>2, Files
    <3>2. Before(k + 1) \in Nat
      BY <3>1, BeforeIs
    <3> HIDE DEF k, n, s
    <3> QED BY <2>1, <2>2, <2>3, <2>4, <3>1, <3>2
  <2>11. p \in RdDataPackets /\ p \in CliPackets
    <3>1. p = [cmd |-> "RD_DATA", sid |-> c.rd_sid, blk |-> k,
               tsize |-> DevFileSize, data |-> NextData(c), crc |-> TRUE]
      BY <1>2, <2>1, <2>9 DEF build_pkt_RD_DATA
    <3>2. c.rd_sid \in Nat
      BY DEF CliType
    <3> HIDE DEF k, p
    <3>3. p \in RdDataPackets
      BY <2>2, <2>5, <2>6, <3>1, <3>2, Files DEF RdDataPackets
    <3> QED BY <3>3, PacketTypes DEF ForSrv
  <2> HIDE DEF h, p
  <2>12. /\ d \in CliType /\ SameWr(c, d) /\ d.tx = p
         /\ d.rd_blk = h.rd_blk /\ d.rd_nbytes = h.rd_nbytes
         /\ d.rd_open = h.rd_open /\ d.rd = h.rd /\ d.rd_tsize = h.rd_tsize
    BY <1>1, <2>9, <2>11 DEF CliType, SameWr
  <2>13. d.rd => Reads(d)
    <3>1. d.rd => n > s
      BY <2>9, <2>12
    <3> HIDE DEF d
    <3> QED BY <2>1, <2>2, <2>3, <2>9, <2>10, <2>12, <3>1 DEF Reads
  <2> QED BY <2>11, <2>12, <2>13
<1>3. CASE ~c.rd_open
  <2>1. h = [c EXCEPT !.rd = FALSE, !.rd_blk = -1, !.rd_tsize = -1]
    BY <1>3 DEF HasRead
  <2>2. /\ h \in CliType /\ SameWr(c, h) /\ ~h.rd
        /\ h.rd_blk = -1 /\ h.rd_tsize = -1 /\ h.rd_sid = c.rd_sid
    <3> DEFINE x == -1
    <3>1. x \in Int /\ h = [c EXCEPT !.rd = FALSE, !.rd_blk = x, !.rd_tsize = x]
      BY <2>1
    <3> HIDE DEF h, x
    <3>2. /\ h \in CliType /\ SameWr(c, h) /\ ~h.rd
          /\ h.rd_blk = x /\ h.rd_tsize = x /\ h.rd_sid = c.rd_sid
      BY <3>1 DEF CliType, SameWr
    <3> QED BY <3>2 DEF x
  <2>3. p \in RdDataPackets /\ p \in CliPackets
    <3>1. p = [cmd |-> "RD_DATA", sid |-> c.rd_sid, blk |-> -1,
               tsize |-> -1, data |-> <<>>, crc |-> TRUE]
      BY <1>3, <2>2 DEF build_pkt_RD_DATA
    <3>2. c.rd_sid \in Nat /\ <<>> \in Seq(Nat)
      BY DEF CliType
    <3> HIDE DEF p
    <3>3. p \in RdDataPackets
      BY <3>1, <3>2 DEF RdDataPackets
    <3> QED BY <3>3, PacketTypes DEF ForSrv
  <2> HIDE DEF h, p
  <2>4. d \in CliType /\ SameWr(c, d) /\ d.tx = p /\ ~d.rd
    BY <1>1, <2>2, <2>3 DEF CliType, SameWr
  <2> QED BY <2>3, <2>4
<1> QED BY <1>2, <1>3

(* tdtp_cli, TDTP_CMD_RD                                                   *)
LEMMA RdSessionOK ==
    ASSUME NEW sid, NEW sends, NEW size, NEW c,
           CliOK(c, sid, sends, size), NEW m \in RdPackets
    PROVE  /\ CliOK(RdSession(RdStarted(c, m)), sid, sends, size)
           /\ RdSession(RdStarted(c, m)).stored = c.stored
<1> DEFINE b == RdStarted(c, m)
           o == RdOpened(b)
           f == RdRefused(b)
           p == build_pkt_RD_DATA(f, <<>>)
           d == RdSession(b)
<1>1. c \in CliType /\ CliBody(c, sid, sends, size)
  BY DEF CliOK, CliBody
<1>2. b \in CliType /\ SameWr(c, b) /\ b.rd_sid = m.sid /\ b.rd_blk = 0
  <2> DEFINE x == m.addr = Known
             y == IF c.rd THEN FALSE ELSE c.rd_open
  <2>1. m.sid \in Nat /\ x \in BOOLEAN /\ y \in BOOLEAN
    BY <1>1 DEF RdPackets, CliType
  <2>2. b = [c EXCEPT !.rd_open = y, !.rd_sid = m.sid, !.rd_blk = 0,
                      !.rd_unexp = 0, !.rd = x]
    BY DEF RdStarted
  <2> HIDE DEF x, y, b
  <2>3. SameWr(c, b)
    BY <1>1, <2>2 DEF CliType, SameWr
  <2>4. b.rd_sid = m.sid /\ b.rd_blk = 0
    BY <1>1, <2>2 DEF CliType
  <2>5. b \in CliType
    <3> DEFINE z == 0
    <3>1. z \in Nat /\ z \in Int
      OBVIOUS
    <3>2. b = [c EXCEPT !.rd_open = y, !.rd_sid = m.sid, !.rd_blk = z,
                        !.rd_unexp = z, !.rd = x]
      BY <2>2
    <3> HIDE DEF z
    <3> QED BY <1>1, <2>1, <3>1, <3>2 DEF CliType
  <2> QED BY <2>3, <2>4, <2>5
<1> HIDE DEF b
<1>3. CASE b.rd /\ ~b.rd_open
  <2>1. DevFileSize \in Int /\ DevFileSize > 0
    BY Files
  <2>2. /\ o \in CliType /\ SameWr(b, o) /\ o.rd_blk = 0
        /\ o.rd_tsize = DevFileSize /\ o.rd_nbytes = DevFileSize
    BY <1>2, <2>1 DEF RdOpened, CliType, SameWr
  <2>3. Reads(o)
    <3>1. Before(0 + 1) = 0
      BY BeforeIs
    <3> QED BY <2>1, <2>2, <3>1 DEF Reads
  <2>4. d = cli_do_read(o)
    BY <1>3 DEF RdSession
  <2> HIDE DEF o, d
  <2>5. /\ d \in CliType /\ SameWr(o, d) /\ d.tx \in RdDataPackets
        /\ d.rd /\ d.rd_open => Reads(d)
    BY <2>2, <2>3, <2>4, DoReadIs
  <2>6. SameWr(c, d)
    BY <1>2, <2>2, <2>5 DEF SameWr
  <2>7. CliBody(d, sid, sends, size)
    BY <1>1, <2>5, <2>6, KeepsWr
  <2>8. CliOK(d, sid, sends, size) /\ d.stored = c.stored
    BY <2>5, <2>6, <2>7 DEF CliOK, ForSrv, SameWr
  <2> QED BY <2>8 DEF d, b
<1>4. CASE ~(b.rd /\ ~b.rd_open)
  <2>1. /\ f \in CliType /\ SameWr(b, f) /\ ~f.rd
        /\ f.rd_blk = -1 /\ f.rd_tsize = -1 /\ f.rd_sid = m.sid
    <3> DEFINE x == -1
    <3>1. x \in Int /\ f = [b EXCEPT !.rd = FALSE, !.rd_blk = x, !.rd_tsize = x]
      BY DEF RdRefused
    <3> HIDE DEF f, x
    <3>2. /\ f \in CliType /\ SameWr(b, f) /\ ~f.rd
          /\ f.rd_blk = x /\ f.rd_tsize = x /\ f.rd_sid = m.sid
      BY <1>2, <3>1 DEF CliType, SameWr
    <3> QED BY <3>2 DEF x
  <2>2. p \in RdDataPackets /\ p \in CliPackets
    <3>1. p = [cmd |-> "RD_DATA", sid |-> m.sid, blk |-> -1,
               tsize |-> -1, data |-> <<>>, crc |-> TRUE]
      BY <2>1 DEF build_pkt_RD_DATA
    <3>2. m.sid \in Nat /\ <<>> \in Seq(Nat)
      BY DEF RdPackets
    <3> HIDE DEF p
    <3>3. p \in RdDataPackets
      BY <3>1, <3>2 DEF RdDataPackets
    <3> QED BY <3>3, PacketTypes DEF ForSrv
  <2>3. d = [f EXCEPT !.tx = p]
    BY <1>4 DEF RdSession
  <2> HIDE DEF f, p, d
  <2>4. d \in CliType /\ SameWr(f, d) /\ d.tx = p /\ ~d.rd
    BY <2>1, <2>2, <2>3 DEF CliType, SameWr
  <2>5. SameWr(c, d)
    BY <1>2, <2>1, <2>4 DEF SameWr
  <2>6. CliBody(d, sid, sends, size)
    BY <1>1, <2>4, <2>5, KeepsWr
  <2>7. CliOK(d, sid, sends, size) /\ d.stored = c.stored
    BY <2>2, <2>4, <2>5, <2>6 DEF CliOK, ForSrv, SameWr
  <2> QED BY <2>7 DEF d, b
<1> QED BY <1>3, <1>4

(* tdtp_cli, TDTP_CMD_ACK_RD                                               *)
LEMMA HeardOK ==
    ASSUME NEW sid, NEW sends, NEW size, NEW c,
           CliOK(c, sid, sends, size)
    PROVE  /\ CliOK([c EXCEPT !.rd_unexp = 0], sid, sends, size)
           /\ [c EXCEPT !.rd_unexp = 0].stored = c.stored
           /\ SameRd(c, [c EXCEPT !.rd_unexp = 0])
<1> DEFINE d == [c EXCEPT !.rd_unexp = 0]
<1>1. c \in CliType
  BY DEF CliOK, CliBody
<1>2. d \in CliType /\ SameWr(c, d) /\ SameRd(c, d) /\ d.tx = c.tx
  BY <1>1 DEF CliType, SameWr, SameRd
<1> HIDE DEF d
<1>3. CliBody(d, sid, sends, size)
  BY <1>2, KeepsWr, KeepsRd DEF CliOK
<1>4. CliOK(d, sid, sends, size) /\ d.stored = c.stored
  BY <1>2, <1>3 DEF CliOK, SameWr
<1> QED BY <1>2, <1>4 DEF d

LEMMA ReadNextOK ==
    ASSUME NEW sid, NEW sends, NEW size, NEW c,
           CliOK(c, sid, sends, size), c.rd
    PROVE  /\ CliOK(cli_do_read(c), sid, sends, size)
           /\ cli_do_read(c).stored = c.stored
<1> DEFINE d == cli_do_read(c)
<1>1. /\ c \in CliType /\ CliBody(c, sid, sends, size)
      /\ c.rd_open => Reads(c)
  BY DEF CliOK, CliBody
<1>2. /\ d \in CliType /\ SameWr(c, d) /\ d.tx \in RdDataPackets
      /\ d.rd /\ d.rd_open => Reads(d)
  BY <1>1, DoReadIs
<1> HIDE DEF d
<1>3. CliBody(d, sid, sends, size)
  BY <1>1, <1>2, KeepsWr
<1>4. CliOK(d, sid, sends, size) /\ d.stored = c.stored
  BY <1>2, <1>3 DEF CliOK, ForSrv, SameWr
<1> QED BY <1>4 DEF d

(* A read session may end, it never goes on where it was not.              *)
LEMMA StopsReading ==
    ASSUME NEW sid, NEW sends, NEW size, NEW c, NEW d,
           CliOK(c, sid, sends, size), d \in CliType, SameWr(c, d),
           d.tx = c.tx, d.rd_blk = c.rd_blk, d.rd_tsize = c.rd_tsize,
           d.rd_nbytes = c.rd_nbytes,
           d.rd /\ d.rd_open => c.rd /\ c.rd_open
    PROVE  CliOK(d, sid, sends, size)
<1>1. d.rd /\ d.rd_open => Reads(d)
  BY DEF CliOK, CliBody, Reads
<1>2. CliBody(d, sid, sends, size)
  BY <1>1, KeepsWr DEF CliOK
<1> QED BY <1>2 DEF CliOK, SameWr

LEMMA AckIgnoredOK ==
    ASSUME NEW sid, NEW sends, NEW size, NEW c, NEW m,
           CliOK(c, sid, sends, size)
    PROVE  /\ CliOK(AckIgnored(c, m), sid, sends, size)
           /\ AckIgnored(c, m).stored = c.stored
<1> DEFINE d == AckIgnored(c, m)
           x == c.rd /\ (c.rd_blk = m.blk => c.rd_nbytes > 0)
           n == c.rd_unexp + 1
           y == IF c.rd THEN FALSE ELSE c.rd_open
<1>1. c \in CliType
  BY DEF CliOK, CliBody
<1>2. x \in BOOLEAN /\ (x => c.rd) /\ n \in Nat /\ y \in BOOLEAN
  <2>1. n \in Nat
    BY <1>1 DEF CliType
  <2>2. c.rd \in BOOLEAN /\ c.rd_open \in BOOLEAN
    BY <1>1 DEF CliType
  <2>3. x \in BOOLEAN /\ (x => c.rd)
    BY <2>2, Zenon
  <2>4. y \in BOOLEAN
    BY <2>2, Zenon
  <2> QED BY <2>1, <2>3, <2>4
<1>3. \/ d = [c EXCEPT !.rd_unexp = 0, !.rd = x]
      \/ d = [c EXCEPT !.rd_unexp = n, !.rd = FALSE, !.rd_open = y]
      \/ d = [c EXCEPT !.rd_unexp = n]
  BY DEF AckIgnored
<1> HIDE DEF d, x, n, y
<1>4. /\ d \in CliType /\ SameWr(c, d) /\ d.tx = c.tx
      /\ d.rd_blk = c.rd_blk /\ d.rd_tsize = c.rd_tsize
      /\ d.rd_nbytes = c.rd_nbytes
      /\ d.rd /\ d.rd_open => c.rd /\ c.rd_open
  <2>1. CASE d = [c EXCEPT !.rd_unexp = 0, !.rd = x]
    BY <1>1, <1>2, <2>1 DEF CliType, SameWr
  <2>2. CASE d = [c EXCEPT !.rd_unexp = n, !.rd = FALSE, !.rd_open = y]
    BY <1>1, <1>2, <2>2 DEF CliType, SameWr
  <2>3. CASE d = [c EXCEPT !.rd_unexp = n]
    BY <1>1, <1>2, <2>3 DEF CliType, SameWr
  <2> QED BY <1>3, <2>1, <2>2, <2>3
<1>5. CliOK(d, sid, sends, size) /\ d.stored = c.stored
  BY <1>4, StopsReading DEF SameWr
<1> QED BY <1>5 DEF d

LEMMA RdTimedOutOK ==
    ASSUME NEW sid, NEW sends, NEW size, NEW c,
           CliOK(c, sid, sends, size)
    PROVE  /\ CliOK(RdTimedOut(c), sid, sends, size)
           /\ RdTimedOut(c).stored = c.stored /\ RdTimedOut(c).tx = c.tx
<1> DEFINE d == RdTimedOut(c)
           n == c.rd_timeouts + 1
<1>1. c \in CliType
  BY DEF CliOK, CliBody
<1>2. n \in Nat
  BY <1>1 DEF CliType
<1>3. \/ d = [c EXCEPT !.rd_timeouts = n, !.rd = FALSE, !.rd_open = FALSE]
      \/ d = [c EXCEPT !.rd_timeouts = n]
  BY DEF RdTimedOut
<1> HIDE DEF d, n
<1>4. /\ d \in CliType /\ SameWr(c, d) /\ d.tx = c.tx
      /\ d.rd_blk = c.rd_blk /\ d.rd_tsize = c.rd_tsize
      /\ d.rd_nbytes = c.rd_nbytes
      /\ d.rd /\ d.rd_open => c.rd /\ c.rd_open
  BY <1>1, <1>2, <1>3, ZenonT(60) DEF CliType, SameWr
<1>5. CliOK(d, sid, sends, size) /\ d.stored = c.stored
  BY <1>4, StopsReading DEF SameWr
<1> QED BY <1>4, <1>5 DEF d

(* A step of the device: it stores more, never less, and sends what it     *)
(* has in its buffer.                                                      *)
LEMMA CliMoves ==
    ASSUME FileOK, UNCHANGED srv,
           toCli' \in Seq(ForCli(srv.sid, srv.op = "send", srv.tsize)),
           CliOK(cli', srv.sid, srv.op = "send", srv.tsize),
           cli.stored \subseteq cli'.stored,
           toSrv' = toSrv \/ toSrv' = Append(toSrv, cli'.tx)
    PROVE  FileOK'
<1> DEFINE S == ForSrv(srv.sid, srv.op = "send", srv.tsize,
                       srv.sid \in cli.stored)
           T == ForSrv(srv.sid, srv.op = "send", srv.tsize,
                       srv.sid \in cli'.stored)
<1>1. S \subseteq T
  BY DEF ForSrv, AckWrPackets
<1>2. toSrv \in Seq(S) /\ cli'.tx \in T
  BY DEF FileOK, CliOK
<1>3. toSrv' \in Seq(T)
  <2> HIDE DEF S, T
  <2>1. toSrv \in Seq(T)
    BY <1>1, <1>2, QueueGrows
  <2> QED BY <1>2, <2>1
<1>4. Whole(srv, cli'.stored)
  BY DEF FileOK, Whole
<1> QED BY <1>3, <1>4 DEF FileOK

LEMMA CmdIs ==
    ASSUME NEW sid, NEW sends, NEW size, NEW whole
    PROVE  /\ \A m \in ForCli(sid, sends, size) :
                 /\ m.cmd = "WR" => m \in WrPackets(sid, sends, size)
                 /\ m.cmd = "WR_DATA" => m \in WrDataPackets(sid, sends, size)
                 /\ m.cmd = "RD" => m \in RdPackets
           /\ \A m \in ForSrv(sid, sends, size, whole) :
                 /\ m.cmd = "RD_DATA" => m \in RdDataPackets
                 /\ m.cmd = "ACK_WR" => m \in AckWrPackets(sid, sends, size, whole)
  BY DEF ForCli, ForSrv, WrPackets, WrDataPackets, RdPackets, AckRdPackets,
         RdDataPackets, AckWrPackets, NothingSent

LEMMA FileTypes ==
    ASSUME FileOK
    PROVE  /\ srv.sid \in Nat /\ (srv.op = "send") \in BOOLEAN
           /\ srv.tsize \in Nat
  BY DEF FileOK, SrvOK, SrvBody, SrvType

LEMMA CliHears ==
    ASSUME FileOK, NEW m, CliGets(m)
    PROVE  /\ m \in ForCli(srv.sid, srv.op = "send", srv.tsize)
           /\ toCli' \in Seq(ForCli(srv.sid, srv.op = "send", srv.tsize))
           /\ UNCHANGED srv
  BY QueueSteps DEF FileOK, CliGets

LEMMA CliWrStep ==
    ASSUME FileOK, CliWr PROVE FileOK'
<1>1. PICK m \in ToSet(toCli) :
        /\ CliGets(m) /\ chk_pkt_WR(m)
        /\ IF WrIgnored(cli, m) THEN CliBecomes(Fresh(cli))
           ELSE IF WrAnswered(WrStopped(cli), m)
           THEN CliSends(WrSession(WrStopped(Fresh(cli)), m))
           ELSE CliBecomes(WrSession(WrStopped(Fresh(cli)), m))
  BY DEF CliWr
<1> DEFINE sends == srv.op = "send"
           f == Fresh(cli)
           w == WrSession(WrStopped(f), m)
<1>2. /\ m \in WrPackets(srv.sid, sends, srv.tsize)
      /\ toCli' \in Seq(ForCli(srv.sid, sends, srv.tsize))
      /\ UNCHANGED srv
  BY <1>1, CliHears, CmdIs DEF chk_pkt_WR
<1>3. CliOK(f, srv.sid, sends, srv.tsize) /\ f.stored = cli.stored
  BY FreshOK DEF FileOK, SameWr
<1>4. srv.sid \in Nat /\ sends \in BOOLEAN /\ srv.tsize \in Nat
  BY FileTypes
<1>5. CliOK(w, srv.sid, sends, srv.tsize) /\ f.stored \subseteq w.stored
  BY <1>2, <1>3, <1>4, WrSessionOK
<1>6. \/ cli' = f /\ toSrv' = toSrv
      \/ cli' = w /\ (toSrv' = toSrv \/ toSrv' = Append(toSrv, w.tx))
  BY <1>1 DEF CliBecomes, CliSends
<1> HIDE DEF f, w
<1>7. /\ CliOK(cli', srv.sid, sends, srv.tsize)
      /\ cli.stored \subseteq cli'.stored
      /\ toSrv' = toSrv \/ toSrv' = Append(toSrv, cli'.tx)
  BY <1>3, <1>5, <1>6
<1> QED BY <1>2, <1>7, CliMoves

LEMMA CliWrDataStep ==
    ASSUME FileOK, CliWrData PROVE FileOK'
<1>1. PICK m \in ToSet(toCli) :
        /\ CliGets(m) /\ chk_pkt_WR_DATA(m)
        /\ IF IsRepeated(cli, m)
           THEN CliSends(cli_wr_send_ack(Fresh(cli), "WRNEXT"))
           ELSE IF IsNext(cli, m) THEN CliSends(WrNext(Fresh(cli), m))
           ELSE CliBecomes(Fresh(cli))
  BY DEF CliWrData
<1> DEFINE sends == srv.op = "send"
           f == Fresh(cli)
           a == cli_wr_send_ack(f, "WRNEXT")
           w == WrNext(f, m)
<1>2. /\ m \in WrDataPackets(srv.sid, sends, srv.tsize)
      /\ toCli' \in Seq(ForCli(srv.sid, sends, srv.tsize))
      /\ UNCHANGED srv
  BY <1>1, CliHears, CmdIs DEF chk_pkt_WR_DATA
<1>3. CliOK(f, srv.sid, sends, srv.tsize) /\ SameWr(cli, f)
  BY FreshOK DEF FileOK
<1>4. srv.sid \in Nat /\ sends \in BOOLEAN /\ srv.tsize \in Nat
  BY FileTypes
<1>5. CliOK(a, srv.sid, sends, srv.tsize) /\ a.stored = cli.stored
  <2>1. "WRNEXT" \in AckMsgs
    BY DEF AckMsgs
  <2> QED BY <1>3, <2>1, AckOK DEF CliOK, SameWr
<1>6. ASSUME IsNext(cli, m)
      PROVE  CliOK(w, srv.sid, sends, srv.tsize) /\ cli.stored \subseteq w.stored
  <2>1. IsNext(f, m)
    BY <1>3, <1>6 DEF IsNext, SameWr
  <2> QED BY <1>2, <1>3, <1>4, <2>1, WrNextOK DEF SameWr
<1>7. \/ cli' = a /\ toSrv' = Append(toSrv, a.tx)
      \/ IsNext(cli, m) /\ cli' = w /\ toSrv' = Append(toSrv, w.tx)
      \/ cli' = f /\ toSrv' = toSrv
  BY <1>1 DEF CliBecomes, CliSends
<1> HIDE DEF f, a, w
<1>8. /\ CliOK(cli', srv.sid, sends, srv.tsize)
      /\ cli.stored \subseteq cli'.stored
      /\ toSrv' = toSrv \/ toSrv' = Append(toSrv, cli'.tx)
  BY <1>3, <1>5, <1>6, <1>7 DEF SameWr
<1> QED BY <1>2, <1>8, CliMoves

LEMMA CliRdStep ==
    ASSUME FileOK, CliRd PROVE FileOK'
<1>1. PICK m \in ToSet(toCli) :
        /\ CliGets(m) /\ chk_pkt_RD(m)
        /\ IF RdIgnored(cli, m) THEN CliBecomes(Fresh(cli))
           ELSE CliSends(RdSession(RdStarted(Fresh(cli), m)))
  BY DEF CliRd
<1> DEFINE sends == srv.op = "send"
           f == Fresh(cli)
           r == RdSession(RdStarted(f, m))
<1>2. /\ m \in RdPackets
      /\ toCli' \in Seq(ForCli(srv.sid, sends, srv.tsize))
      /\ UNCHANGED srv
  BY <1>1, CliHears, CmdIs DEF chk_pkt_RD
<1>3. CliOK(f, srv.sid, sends, srv.tsize) /\ f.stored = cli.stored
  BY FreshOK DEF FileOK, SameWr
<1> HIDE DEF f
<1>5. CliOK(r, srv.sid, sends, srv.tsize) /\ r.stored = cli.stored
  <2> HIDE DEF sends
  <2>0. m \in RdPackets /\ CliOK(f, srv.sid, sends, srv.tsize)
    BY <1>2, <1>3
  <2>1. CliOK(r, srv.sid, sends, srv.tsize) /\ r.stored = f.stored
    BY <2>0, RdSessionOK
  <2> QED BY <1>3, <2>1
<1>6. \/ cli' = r /\ toSrv' = Append(toSrv, r.tx)
      \/ cli' = f /\ toSrv' = toSrv
  BY <1>1 DEF CliBecomes, CliSends, f
<1> HIDE DEF r
<1>7. /\ CliOK(cli', srv.sid, sends, srv.tsize)
      /\ cli.stored \subseteq cli'.stored
      /\ toSrv' = toSrv \/ toSrv' = Append(toSrv, cli'.tx)
  BY <1>3, <1>5, <1>6
<1> QED BY <1>2, <1>7, CliMoves

LEMMA CliAckRdStep ==
    ASSUME FileOK, CliAckRd PROVE FileOK'
<1>1. PICK m \in ToSet(toCli) :
        /\ CliGets(m) /\ chk_pkt_ACK_RD(m)
        /\ IF WantsNext(cli, m)
           THEN CliSends(cli_do_read([Fresh(cli) EXCEPT !.rd_unexp = 0]))
           ELSE IF WantsLast(cli, m)
           THEN CliSends([Fresh(cli) EXCEPT !.rd_unexp = 0])
           ELSE CliBecomes(AckIgnored(Fresh(cli), m))
  BY DEF CliAckRd
<1> DEFINE sends == srv.op = "send"
           f == Fresh(cli)
           h == [f EXCEPT !.rd_unexp = 0]
           r == cli_do_read(h)
           i == AckIgnored(f, m)
<1>2. /\ toCli' \in Seq(ForCli(srv.sid, sends, srv.tsize))
      /\ UNCHANGED srv
  BY <1>1, CliHears
<1>3. /\ CliOK(f, srv.sid, sends, srv.tsize) /\ f.stored = cli.stored
      /\ SameRd(cli, f)
  BY FreshOK DEF FileOK, SameWr
<1>4. /\ CliOK(h, srv.sid, sends, srv.tsize) /\ h.stored = cli.stored
      /\ SameRd(f, h)
  BY <1>3, HeardOK
<1>5. ASSUME WantsNext(cli, m)
      PROVE  CliOK(r, srv.sid, sends, srv.tsize) /\ r.stored = cli.stored
  <2>1. h.rd
    BY <1>3, <1>4, <1>5 DEF WantsNext, SameRd
  <2> HIDE DEF h
  <2>2. CliOK(r, srv.sid, sends, srv.tsize) /\ r.stored = h.stored
    BY <1>4, <2>1, ReadNextOK
  <2> QED BY <1>4, <2>2
<1>6. CliOK(i, srv.sid, sends, srv.tsize) /\ i.stored = cli.stored
  BY <1>3, AckIgnoredOK
<1>7. \/ WantsNext(cli, m) /\ cli' = r /\ toSrv' = Append(toSrv, r.tx)
      \/ cli' = h /\ toSrv' = Append(toSrv, h.tx)
      \/ cli' = i /\ toSrv' = toSrv
  BY <1>1 DEF CliBecomes, CliSends
<1> HIDE DEF f, h, r, i
<1>8. /\ CliOK(cli', srv.sid, sends, srv.tsize)
      /\ cli.stored \subseteq cli'.stored
      /\ toSrv' = toSrv \/ toSrv' = Append(toSrv, cli'.tx)
  BY <1>4, <1>5, <1>6, <1>7
<1> QED BY <1>2, <1>8, CliMoves

LEMMA CliOtherStep ==
    ASSUME FileOK, CliSpoilt \/ CliUnheard \/ CliTimeout \/ OpenSocket
    PROVE  FileOK'
<1> DEFINE sends == srv.op = "send"
           f == Fresh(cli)
           t == RdTimedOut(cli)
<1>1. CliOK(f, srv.sid, sends, srv.tsize) /\ f.stored = cli.stored
  BY FreshOK DEF FileOK, SameWr
<1>2. /\ CliOK(t, srv.sid, sends, srv.tsize) /\ t.stored = cli.stored
      /\ t.tx = cli.tx
  BY RdTimedOutOK DEF FileOK
<1>3. CliOK(cli, srv.sid, sends, srv.tsize)
  BY DEF FileOK
<1>4. CASE CliSpoilt
  <2>1. PICK m \in ToSet(toCli) : CliGets(m) /\ CliBecomes(f)
    BY <1>4 DEF CliSpoilt
  <2>2. /\ toCli' \in Seq(ForCli(srv.sid, sends, srv.tsize))
        /\ UNCHANGED srv
    BY <2>1, CliHears
  <2> QED BY <1>1, <2>1, <2>2, CliMoves DEF CliBecomes
<1>5. CASE CliUnheard
  <2>1. toCli' \in Seq(ForCli(srv.sid, sends, srv.tsize))
    BY <1>5, QueueSteps DEF CliUnheard, FileOK
  <2> QED BY <1>3, <1>5, <2>1, CliMoves DEF CliUnheard
<1>6. CASE CliTimeout
  <2>1. cli' = t /\ UNCHANGED <<srv, toCli>>
        /\ (toSrv' = toSrv \/ toSrv' = Append(toSrv, cli.tx))
    BY <1>6 DEF CliTimeout
  <2>2. toCli' \in Seq(ForCli(srv.sid, sends, srv.tsize))
    BY <2>1 DEF FileOK
  <2> HIDE DEF t
  <2> QED BY <1>2, <2>1, <2>2, CliMoves
<1>7. CASE OpenSocket
  BY <1>7 DEF OpenSocket, FileOK
<1> QED BY <1>4, <1>5, <1>6, <1>7

(* The network                                                             *)
LEMMA FaultStep ==
    ASSUME FileOK, FaultToCli \/ FaultToSrv PROVE FileOK'
<1>1. srv.sid \in Nat /\ (srv.op = "send") \in BOOLEAN /\ srv.tsize \in Nat
      /\ (srv.sid \in cli.stored) \in BOOLEAN
  BY FileTypes
<1> DEFINE C == ForCli(srv.sid, srv.op = "send", srv.tsize)
           S == ForSrv(srv.sid, srv.op = "send", srv.tsize, srv.sid \in cli.stored)
<1>2. /\ \A m \in C : [m EXCEPT !.crc = FALSE] \in C
      /\ \A m \in S : [m EXCEPT !.crc = FALSE] \in S
  BY <1>1, SpoiltPackets
<1>3. toCli \in Seq(C) /\ toSrv \in Seq(S)
  BY DEF FileOK
<1> HIDE DEF C, S
<1>4. CASE FaultToCli
  <2>1. toCli' \in Seq(C)
    BY <1>2, <1>3, <1>4, FaultyQueue DEF FaultToCli, Spoilt
  <2> QED BY <1>4, <2>1 DEF FaultToCli, Fault, FileOK, C
<1>5. CASE FaultToSrv
  <2>1. toSrv' \in Seq(S)
    BY <1>2, <1>3, <1>5, FaultyQueue DEF FaultToSrv, Spoilt
  <2> QED BY <1>5, <2>1 DEF FaultToSrv, Fault, FileOK, S
<1> QED BY <1>4, <1>5

-----------------------------------------------------------------------------
(* The PC                                                                  *)

(* The fields that say what was sent or received.                          *)
SameFile(s, d) ==
    /\ d.op = s.op /\ d.sid = s.sid /\ d.blk = s.blk /\ d.tsize = s.tsize
    /\ d.nbytes = s.nbytes /\ d.data = s.data /\ d.file = s.file
    /\ d.result = s.result /\ d.missed = s.missed

LEMMA KeepsFile ==
    ASSUME NEW s, NEW d, SrvBody(s), d \in SrvType, SameFile(s, d)
    PROVE  SrvBody(d)
  BY DEF SrvBody, SameFile, Sends, Receives, HasAll, LacksSome

LEMMA Srv0Is ==
    /\ Srv0 \in SrvType
    /\ Srv0.op = "idle" /\ Srv0.blk = 0 /\ Srv0.file = <<>>
    /\ Srv0.result = "none" /\ Srv0.missed = FALSE
<1> DEFINE e == <<>>
<1>1. e \in PcData /\ e \in Seq(Nat) /\ NothingSent \in SrvPackets
  BY PacketTypes DEF PcData
<1>2. Srv0 = [op |-> "idle", addr |-> Unknown, sid |-> 0, blk |-> 0,
              tsize |-> 0, nbytes |-> 0, data |-> e, tx |-> NothingSent,
              tries |-> 0, timeouts |-> 0, bad |-> 0, unexp |-> 0,
              file |-> e, stop |-> FALSE, missed |-> FALSE,
              result |-> "none"]
  BY DEF Srv0
<1> HIDE DEF e
<1>3. Srv0 \in SrvType
  BY <1>1, <1>2 DEF SrvType
<1>4. /\ Srv0.op = "idle" /\ Srv0.blk = 0 /\ Srv0.file = e
      /\ Srv0.result = "none" /\ Srv0.missed = FALSE
  BY <1>2
<1> QED BY <1>3, <1>4 DEF e

LEMMA EndedIs ==
    ASSUME NEW s \in SrvType, NEW r \in {"ok", "failed", "aborted"}
    PROVE  /\ SrvOK(Ended(s, r)) /\ Ended(s, r).op = "idle"
           /\ Ended(s, r).sid = s.sid /\ Ended(s, r).file = s.file
           /\ Ended(s, r).result = r
<1> DEFINE d == Ended(s, r)
<1>1. s.sid \in Nat /\ s.file \in Seq(Nat) /\ s.tsize \in Nat
  BY DEF SrvType
<1>2. d = [Srv0 EXCEPT !.sid = s.sid, !.file = s.file, !.tsize = s.tsize,
                       !.result = r]
  BY DEF Ended
<1> HIDE DEF d
<1>3. d \in SrvType
  BY <1>1, <1>2, Srv0Is DEF SrvType
<1>4. d.op = "idle" /\ d.sid = s.sid /\ d.file = s.file /\ d.result = r
  BY <1>2, Srv0Is DEF SrvType
<1>5. SrvOK(d)
  BY <1>3, <1>4 DEF SrvOK, SrvBody
<1> QED BY <1>4, <1>5 DEF d

(* tdtp_srv_recv_file                                                      *)
LEMMA RecvStartedIs ==
    ASSUME NEW sid \in Nat, NEW a \in {Known, Unknown}
    PROVE  /\ SrvOK(RecvStarted(sid, a)) /\ RecvStarted(sid, a).sid = sid
           /\ RecvStarted(sid, a).result = "none"
           /\ RecvStarted(sid, a).op = "recv"
<1> DEFINE p == build_pkt_RD(sid, a)
           d == RecvStarted(sid, a)
<1>1. p \in RdPackets
  BY DEF build_pkt_RD, RdPackets
<1>2. p \in ForCli(sid, FALSE, 0) /\ p \in SrvPackets
  BY <1>1 DEF ForCli, SrvPackets
<1>3. d = [Srv0 EXCEPT !.op = "recv", !.addr = a, !.sid = sid, !.tx = p]
  BY DEF RecvStarted
<1> HIDE DEF p, d
<1>4. d \in SrvType
  BY <1>2, <1>3, Srv0Is DEF SrvType
<1>5. /\ d.op = "recv" /\ d.sid = sid /\ d.result = "none" /\ d.tx = p
      /\ d.blk = 0 /\ d.file = <<>> /\ d.missed = FALSE
  BY <1>3, Srv0Is DEF SrvType
<1>6. Receives(d)
  <2>1. Before(0 + 1) = 0
    BY BeforeIs
  <2>2. SubSeq(DevFile, 1, 0) = <<>>
    BY Files
  <2> QED BY <1>5, <2>1, <2>2, Files DEF Receives, HasAll
<1>7. SrvBody(d)
  BY <1>4, <1>5, <1>6 DEF SrvBody
<1>8. p \in ForCli(d.sid, d.op = "send", d.tsize)
  BY <1>1 DEF ForCli
<1>9. SrvOK(d)
  BY <1>5, <1>7, <1>8 DEF SrvOK
<1> QED BY <1>5, <1>9 DEF d

LEMMA SrvAckIs ==
    ASSUME NEW s, SrvBody(s), s.op = "recv", NEW msg \in AckMsgs
    PROVE  /\ SrvOK(srv_fc_send_ack(s, msg))
           /\ SameFile(s, srv_fc_send_ack(s, msg))
<1> DEFINE p == build_pkt_ACK("ACK_RD", s.sid, s.blk, msg)
           d == srv_fc_send_ack(s, msg)
<1>1. s \in SrvType /\ s.sid \in Nat /\ s.blk \in Nat
  BY DEF SrvBody, SrvType
<1>2. p \in AckRdPackets
  BY <1>1 DEF build_pkt_ACK, AckRdPackets
<1>3. p \in SrvPackets
  BY <1>2 DEF SrvPackets
<1>4. d = [s EXCEPT !.tx = p]
  BY DEF srv_fc_send_ack
<1> HIDE DEF p, d
<1>5. d \in SrvType /\ SameFile(s, d) /\ d.tx = p
  BY <1>1, <1>3, <1>4 DEF SrvType, SameFile
<1>6. SrvBody(d)
  BY <1>5, KeepsFile
<1>7. p \in ForCli(d.sid, d.op = "send", d.tsize)
  BY <1>2 DEF ForCli
<1>8. SrvOK(d)
  BY <1>5, <1>6, <1>7 DEF SrvOK
<1> QED BY <1>5, <1>8 DEF d

LEMMA HeardIs ==
    ASSUME NEW s, SrvOK(s), NEW m
    PROVE  SrvOK(Heard(s, m)) /\ SameFile(s, Heard(s, m))
<1> DEFINE n == IF chk_pkt_RD_DATA(m) THEN 0 ELSE s.bad
           d == Heard(s, m)
<1>1. s \in SrvType /\ SrvBody(s)
  BY DEF SrvOK, SrvBody
<1>2. n \in Nat
  BY <1>1 DEF SrvType
<1>3. d = [s EXCEPT !.timeouts = 0, !.bad = n]
  BY DEF Heard
<1> HIDE DEF n, d
<1>4. d \in SrvType /\ SameFile(s, d) /\ d.tx = s.tx
  BY <1>1, <1>2, <1>3 DEF SrvType, SameFile
<1>5. SrvBody(d)
  BY <1>1, <1>4, KeepsFile
<1>6. SrvOK(d)
  BY <1>4, <1>5 DEF SrvOK, SameFile
<1> QED BY <1>4, <1>6 DEF d

(* The block is the next one of the device's file; with the last one the   *)
(* PC has the whole file.                                                  *)
LEMMA RecvWholeIs ==
    ASSUME NEW s, SrvBody(s), s.op = "recv", NEW m \in RdDataPackets,
           m.blk = s.blk + 1, ~s.missed
    PROVE  /\ SrvOK(RecvBlock(s, m)) /\ RecvBlock(s, m).sid = s.sid
           /\ RecvBlock(s, m).op # "send"
           /\ RecvBlock(s, m).result = "ok" => RecvBlock(s, m).file = DevFile
<1> DEFINE k == s.blk + 1
           u == UpTo(DevFileSize, k)
           left == Left(s, m)
           f == s.file \o m.data
           z == IF m.blk = 1 THEN m.tsize ELSE s.tsize
           n == left - Len(m.data)
           t == Taken(s, m)
<1>1. /\ s \in SrvType /\ HasAll(s) /\ s.result = "none"
      /\ s.blk \in Nat /\ s.tsize \in Nat /\ s.nbytes \in Int
  BY DEF SrvBody, SrvType, Receives
<1>2. /\ m.blk = k /\ k \in Nat /\ k > 0 /\ m.tsize = DevFileSize
      /\ m.data = BlockOf(DevFile, DevFileSize, k)
  <2>1. m.blk # -1 /\ m.blk = k
    BY <1>1
  <2> QED BY <1>1, <2>1 DEF RdDataPackets
<1>3. /\ Before(k) \in Nat /\ Before(k) < DevFileSize
      /\ s.file = SubSeq(DevFile, 1, Before(k))
  BY <1>1, <1>2, BeforeIs DEF HasAll
<1>4. left = DevFileSize - Before(k)
  <2>1. CASE m.blk = 1
    <3>1. k = 1 /\ Before(1) = 0
      BY <1>2, <2>1, BeforeIs
    <3>2. Before(k) = 0
      BY <3>1
    <3>3. left = DevFileSize
      BY <1>2, <2>1 DEF Left
    <3> QED BY <3>2, <3>3, Files
  <2>2. CASE m.blk # 1
    <3>1. s.blk > 0
      BY <1>1, <1>2, <2>2
    <3> QED BY <1>1, <2>2, <3>1 DEF Left, HasAll
  <2> QED BY <2>1, <2>2
<1>5. /\ u \in Nat /\ Before(k) <= u /\ u <= DevFileSize
      /\ u < DevFileSize => u = Before(k + 1)
  BY <1>2, <1>3, Files, UpToIs
<1>6. /\ Len(m.data) = u - Before(k) /\ f = SubSeq(DevFile, 1, u)
      /\ f \in Seq(Nat) /\ SubSeq(DevFile, 1, DevFileSize) = DevFile
  <2> DEFINE a == Before(k)
             b == UpTo(DevFileSize, k)
  <2>1. a \in Nat /\ b \in Nat /\ a <= b /\ b <= Len(DevFile)
    BY <1>3, <1>5, Files
  <2>2. s.file = SubSeq(DevFile, 1, a) /\ m.data = SubSeq(DevFile, a + 1, b)
    BY <1>2, <1>3 DEF BlockOf
  <2> HIDE DEF a, b
  <2>3. DevFile \in Seq(Nat) /\ Len(DevFile) = DevFileSize
    BY Files
  <2>4. /\ Len(SubSeq(DevFile, a + 1, b)) = b - a
        /\ SubSeq(DevFile, 1, a) \o SubSeq(DevFile, a + 1, b)
              = SubSeq(DevFile, 1, b)
        /\ SubSeq(DevFile, 1, Len(DevFile)) = DevFile
    BY <2>1, <2>3, Pieces
  <2>5. SubSeq(DevFile, 1, b) \in Seq(Nat)
    BY <2>1, <2>3
  <2> QED BY <2>2, <2>3, <2>4, <2>5 DEF a, b
<1>7. n = DevFileSize - u /\ n \in Int
  <2>1. Len(m.data) = u - Before(k) /\ DevFileSize \in Nat
    BY <1>6, Files
  <2>2. n = left - Len(m.data)
    OBVIOUS
  <2> HIDE DEF n, left, u, k
  <2> QED BY <1>3, <1>4, <1>5, <2>1, <2>2
<1>8. z \in Nat
  BY <1>1, <1>2, Files
<1>9. t = [s EXCEPT !.blk = k, !.file = f, !.tsize = z, !.nbytes = n]
  BY <1>2 DEF Taken
<1> HIDE DEF f, z, n, t
<1>10. t \in SrvType
  <2> HIDE DEF k
  <2> QED BY <1>1, <1>2, <1>6, <1>7, <1>8, <1>9, ZenonT(60) DEF SrvType
<1>11. /\ t.op = "recv" /\ t.sid = s.sid /\ t.result = "none"
       /\ t.blk = k /\ t.file = f /\ t.nbytes = n /\ ~t.missed
  BY <1>1, <1>9 DEF SrvType
<1>12. CASE n <= 0
  <2>1. RecvBlock(s, m) = Ended(t, "ok")
    BY <1>12 DEF RecvBlock, n, t
  <2>2. t.file = DevFile
    <3>1. u = DevFileSize
      BY <1>5, <1>7, <1>12, Files
    <3> QED BY <1>6, <1>11, <3>1
  <2>3. /\ SrvOK(Ended(t, "ok")) /\ Ended(t, "ok").op = "idle"
        /\ Ended(t, "ok").sid = s.sid /\ Ended(t, "ok").file = DevFile
    BY <1>10, <1>11, <2>2, EndedIs
  <2> QED BY <2>1, <2>3
<1>13. CASE n > 0
  <2> DEFINE r == srv_fc_send_ack(t, "RDNEXT")
  <2>1. RecvBlock(s, m) = r
    BY <1>7, <1>13 DEF RecvBlock, n, t
  <2>2. u < DevFileSize /\ u = Before(k + 1)
    BY <1>5, <1>7, <1>13, Files
  <2>3. Receives(t)
    BY <1>2, <1>6, <1>7, <1>11, <2>2 DEF Receives, HasAll
  <2>4. SrvBody(t)
    BY <1>10, <1>11, <2>3 DEF SrvBody
  <2>5. SrvOK(r) /\ SameFile(t, r)
    BY <1>11, <2>4, SrvAckIs DEF AckMsgs
  <2> HIDE DEF r
  <2> QED BY <1>11, <2>1, <2>5 DEF SameFile
<1> QED BY <1>7, <1>12, <1>13

(* A block of a session that misses one: what it waits for never comes.    *)
LEMMA ShortBlockIs ==
    ASSUME NEW s, SrvBody(s), s.op = "recv", NEW m \in RdDataPackets,
           m.blk = s.blk + 1
    PROVE  /\ s.blk \in Nat /\ m.tsize = DevFileSize
           /\ Before(m.blk) \in Nat /\ Before(m.blk) < DevFileSize
           /\ UpTo(DevFileSize, m.blk) \in Nat
           /\ Before(m.blk) < UpTo(DevFileSize, m.blk)
           /\ UpTo(DevFileSize, m.blk) <= DevFileSize
           /\ m.data \in Seq(Nat)
           /\ Len(m.data) = UpTo(DevFileSize, m.blk) - Before(m.blk)
           /\ Left(s, m) \in Int
           /\ Left(s, m) >= DevFileSize - Before(m.blk)
           /\ s.missed => Left(s, m) > DevFileSize - Before(m.blk)
<1> DEFINE k == m.blk
           u == UpTo(DevFileSize, k)
           M == TDTP_MAX_DATA_SIZE
<1>1. /\ s \in SrvType /\ Receives(s) /\ s.blk \in Nat /\ s.nbytes \in Int
      /\ DevFileSize \in Nat /\ M \in Nat
  BY Files, TdtpAssumption DEF SrvBody, SrvType
<1>2. /\ k \in Nat /\ k > 0 /\ m.tsize = DevFileSize /\ m.data \in Seq(Nat)
      /\ Before(k) < DevFileSize /\ m.data = BlockOf(DevFile, DevFileSize, k)
  <2>1. m.blk # -1 /\ k \in Nat
    BY <1>1
  <2> QED BY <2>1 DEF RdDataPackets
<1>3. /\ Before(k) \in Nat /\ u \in Nat /\ Before(k) < u /\ u <= DevFileSize
  <2>1. k \in Nat /\ DevFileSize \in Nat /\ Before(k) < DevFileSize
    BY <1>1, <1>2
  <2> HIDE DEF k
  <2>2. Before(k) \in Nat
    BY <2>1, BeforeIs
  <2>3. Before(k) <= DevFileSize
    BY <2>1, <2>2
  <2> QED BY <2>1, <2>2, <2>3, UpToIs
<1>4. Len(m.data) = u - Before(k)
  <2> DEFINE a == Before(k)
  <2>1. a \in Nat /\ u \in Nat /\ a <= u /\ u <= Len(DevFile)
    BY <1>3, Files
  <2>2. m.data = SubSeq(DevFile, a + 1, u)
    BY <1>2 DEF BlockOf
  <2> HIDE DEF a, u
  <2>3. DevFile \in Seq(Nat)
    BY Files
  <2>4. Len(SubSeq(DevFile, a + 1, u)) = u - a
    BY <2>1, <2>3, Pieces
  <2> QED BY <2>2, <2>4 DEF a
<1>5. s.blk > 0 => Left(s, m) = s.nbytes /\ k = s.blk + 1 /\ k # 1
  BY <1>1 DEF Left
<1>6. s.blk = 0 => Left(s, m) = DevFileSize /\ Before(k) = 0
  <2> SUFFICES ASSUME s.blk = 0
               PROVE  Left(s, m) = DevFileSize /\ Before(k) = 0
    OBVIOUS
  <2>1. m.blk = 1 /\ Before(1) = 0
    BY BeforeIs
  <2> QED BY <1>2, <2>1 DEF Left
<1>7. CASE s.missed
  <2> DEFINE p == s.blk
             w == UpTo(DevFileSize, p)
  <2>1. p \in Nat /\ p > 0 /\ Before(p) < DevFileSize /\ s.nbytes > DevFileSize - w
    BY <1>1, <1>7 DEF Receives, LacksSome
  <2>2. Before(p) \in Nat /\ Before(p + 1) = Before(p) + M
    BY <2>1, BeforeIs
  <2>3. /\ w \in Nat /\ w <= DevFileSize
        /\ w = DevFileSize <=> DevFileSize - Before(p) <= M
        /\ w < DevFileSize => w = Before(p + 1)
    BY <1>1, <2>1, <2>2, UpToIs
  <2>4. p + 1 = k
    BY <1>5, <2>1
  <2> HIDE DEF p, w, M, k, u
  <2>5. w = Before(k)
    <3>1. Before(p + 1) < DevFileSize
      BY <1>2, <2>4
    <3>2. w # DevFileSize
      BY <1>1, <2>2, <2>3, <3>1
    <3> QED BY <1>1, <2>3, <2>4, <3>2
  <2>6. Left(s, m) = s.nbytes
    BY <1>5, <2>1 DEF p
  <2> QED BY <1>1, <1>2, <1>3, <1>4, <2>1, <2>5, <2>6 DEF k, u
<1>8. CASE ~s.missed
  <2>1. CASE s.blk = 0
    BY <1>1, <1>2, <1>3, <1>4, <1>6, <1>8, <2>1
  <2>2. CASE s.blk > 0
    <3>1. s.nbytes = DevFileSize - Before(s.blk + 1)
      BY <1>1, <1>8, <2>2 DEF Receives, HasAll
    <3> QED BY <1>1, <1>2, <1>3, <1>4, <1>5, <1>8, <2>2, <3>1
  <2> QED BY <1>1, <2>1, <2>2
<1> QED BY <1>7, <1>8

LEMMA RecvShortIs ==
    ASSUME NEW s, SrvBody(s), s.op = "recv", NEW m \in RdDataPackets,
           m.blk = s.blk + 1, s.missed
    PROVE  /\ SrvOK(RecvBlock(s, m)) /\ RecvBlock(s, m).sid = s.sid
           /\ RecvBlock(s, m).op # "send"
           /\ RecvBlock(s, m).result # "ok"
<1> DEFINE k == m.blk
           u == UpTo(DevFileSize, k)
           f == s.file \o m.data
           z == IF m.blk = 1 THEN m.tsize ELSE s.tsize
           n == Left(s, m) - Len(m.data)
           t == Taken(s, m)
           d == srv_fc_send_ack(t, "RDNEXT")
<1>1. /\ s \in SrvType /\ s.result = "none" /\ s.file \in Seq(Nat)
      /\ s.tsize \in Nat /\ s.op = "recv" /\ s.missed
  BY DEF SrvBody, SrvType
<1>2. /\ s.blk \in Nat /\ k = s.blk + 1 /\ m.tsize = DevFileSize
      /\ Before(k) \in Nat /\ Before(k) < DevFileSize /\ u \in Nat
      /\ Before(k) < u /\ u <= DevFileSize /\ m.data \in Seq(Nat)
      /\ Len(m.data) = u - Before(k) /\ Left(s, m) \in Int
      /\ Left(s, m) > DevFileSize - Before(k)
  BY ShortBlockIs
<1>3. DevFileSize \in Nat
  BY Files
<1>4. n \in Int /\ n > DevFileSize - u /\ n > 0
  <2> DEFINE l == Left(s, m)
             e == Len(m.data)
             b == Before(k)
  <2>1. l \in Int /\ b \in Nat /\ e = u - b /\ u \in Nat /\ n = l - e
        /\ l > DevFileSize - b /\ u <= DevFileSize
    BY <1>2
  <2> HIDE DEF l, e, b, u, n
  <2> QED BY <1>3, <2>1
<1>5. f \in Seq(Nat) /\ z \in Nat /\ k \in Nat /\ k > 0
  BY <1>1, <1>2, <1>3
<1>6. t = [s EXCEPT !.blk = k, !.file = f, !.tsize = z, !.nbytes = n]
  BY DEF Taken
<1>7. RecvBlock(s, m) = d
  BY <1>4 DEF RecvBlock
<1> HIDE DEF k, u, f, z, n, t, d
<1>8. t \in SrvType
  BY <1>1, <1>4, <1>5, <1>6, ZenonT(60) DEF SrvType
<1>9. /\ t.op = "recv" /\ t.sid = s.sid /\ t.result = "none"
      /\ t.blk = k /\ t.nbytes = n /\ t.missed
  BY <1>1, <1>6 DEF SrvType
<1>10. SrvBody(t)
  <2>1. LacksSome(t)
    BY <1>2, <1>4, <1>5, <1>9 DEF LacksSome, u
  <2> QED BY <1>8, <1>9, <2>1 DEF SrvBody, Receives
<1>11. SrvOK(d) /\ SameFile(t, d)
  BY <1>9, <1>10, SrvAckIs DEF AckMsgs, d
<1> QED BY <1>7, <1>9, <1>11 DEF SameFile

LEMMA RecvBlockIs ==
    ASSUME NEW s, SrvBody(s), s.op = "recv", NEW m \in RdDataPackets,
           m.blk = s.blk + 1
    PROVE  /\ SrvOK(RecvBlock(s, m)) /\ RecvBlock(s, m).sid = s.sid
           /\ RecvBlock(s, m).op # "send"
           /\ RecvBlock(s, m).result = "ok" => RecvBlock(s, m).file = DevFile
  BY RecvWholeIs, RecvShortIs

(* The write of a block fails: from here on the session misses one.        *)
LEMMA RecvMissedIs ==
    ASSUME NEW s, SrvBody(s), s.op = "recv", NEW m \in RdDataPackets,
           m.blk = s.blk + 1, NEW i \in 0 .. Len(m.data) - 1
    PROVE  /\ SrvOK(RecvMissed(s, m, i)) /\ RecvMissed(s, m, i).sid = s.sid
           /\ RecvMissed(s, m, i).op = "recv"
           /\ RecvMissed(s, m, i).result = "none"
<1> DEFINE k == m.blk
           u == UpTo(DevFileSize, k)
           f == s.file \o SubSeq(m.data, 1, i)
           z == IF m.blk = 1 THEN m.tsize ELSE s.tsize
           n == Left(s, m)
           t == Missed(s, m, i)
           d == srv_fc_send_ack(t, "ERR_FWRITE")
<1>1. /\ s \in SrvType /\ s.result = "none" /\ s.file \in Seq(Nat)
      /\ s.tsize \in Nat /\ s.op = "recv"
  BY DEF SrvBody, SrvType
<1>2. /\ s.blk \in Nat /\ k = s.blk + 1 /\ m.tsize = DevFileSize
      /\ Before(k) \in Nat /\ Before(k) < DevFileSize /\ u \in Nat
      /\ Before(k) < u /\ u <= DevFileSize /\ m.data \in Seq(Nat)
      /\ n \in Int /\ n >= DevFileSize - Before(k)
  BY ShortBlockIs
<1>3. DevFileSize \in Nat
  BY Files
<1>4. n > DevFileSize - u
  <2> HIDE DEF n, u, k
  <2> QED BY <1>2, <1>3
<1>5. f \in Seq(Nat) /\ z \in Nat /\ k \in Nat /\ k > 0
  <2>1. SubSeq(m.data, 1, i) \in Seq(Nat)
    BY <1>2
  <2> QED BY <1>1, <1>2, <1>3, <2>1
<1>6. t = [s EXCEPT !.blk = k, !.file = f, !.tsize = z, !.nbytes = n,
                    !.missed = TRUE]
  BY DEF Missed
<1>7. RecvMissed(s, m, i) = d
  BY DEF RecvMissed
<1> HIDE DEF k, u, f, z, n, t, d
<1>8. t \in SrvType
  BY <1>1, <1>2, <1>5, <1>6, ZenonT(60) DEF SrvType
<1>9. /\ t.op = "recv" /\ t.sid = s.sid /\ t.result = "none"
      /\ t.blk = k /\ t.nbytes = n /\ t.missed
  BY <1>1, <1>6 DEF SrvType
<1>10. SrvBody(t)
  <2>1. LacksSome(t)
    BY <1>2, <1>4, <1>5, <1>9 DEF LacksSome, u
  <2> QED BY <1>8, <1>9, <2>1 DEF SrvBody, Receives
<1>11. SrvOK(d) /\ SameFile(t, d)
  BY <1>9, <1>10, SrvAckIs DEF AckMsgs, d
<1> QED BY <1>7, <1>9, <1>11 DEF SameFile

(* What a step that takes no block leaves.                                 *)
Goes(s, d) ==
    /\ SrvOK(d) /\ d.sid = s.sid
    /\ d.op = "send" => s.op = "send" /\ d.tsize = s.tsize
    /\ d.result # "ok"

LEMMA EndedGoes ==
    ASSUME NEW s \in SrvType, NEW r \in {"failed", "aborted"}
    PROVE  Goes(s, Ended(s, r))
  BY EndedIs DEF Goes

LEMMA RecvOtherIs ==
    ASSUME NEW s, SrvOK(s), s.op = "recv", NEW m
    PROVE  Goes(s, RecvOther(s, m))
<1> DEFINE n == s.unexp + 1
           d == [s EXCEPT !.unexp = n]
<1>1. s \in SrvType /\ SrvBody(s) /\ s.result = "none"
  BY DEF SrvOK, SrvBody
<1>2. d \in SrvType /\ SameFile(s, d) /\ d.tx = s.tx
  <2>1. n \in Nat
    BY <1>1 DEF SrvType
  <2> HIDE DEF n
  <2> QED BY <1>1, <2>1 DEF SrvType, SameFile
<1>3. RecvOther(s, m) \in {s, d, Ended(s, "failed")}
  BY DEF RecvOther
<1> HIDE DEF d
<1>4. SrvBody(d)
  BY <1>1, <1>2, KeepsFile
<1>5. Goes(s, d)
  BY <1>1, <1>2, <1>4 DEF Goes, SrvOK, SameFile
<1>6. Goes(s, s)
  BY <1>1 DEF Goes
<1>7. Goes(s, Ended(s, "failed"))
  BY <1>1, EndedGoes
<1> QED BY <1>3, <1>5, <1>6, <1>7

LEMMA RecvBadIs ==
    ASSUME NEW s, SrvOK(s), s.op = "recv"
    PROVE  Goes(s, RecvBad(s)) /\ Goes(s, RecvTimeout(s))
<1> DEFINE n == s.bad + 1
           i == s.timeouts + 1
           d == [s EXCEPT !.bad = n]
           e == [s EXCEPT !.timeouts = i]
<1>1. s \in SrvType /\ SrvBody(s) /\ s.result = "none"
  BY DEF SrvOK, SrvBody
<1>2. /\ d \in SrvType /\ SameFile(s, d)
      /\ e \in SrvType /\ SameFile(s, e)
  <2>1. n \in Nat /\ i \in Nat
    BY <1>1 DEF SrvType
  <2> HIDE DEF n, i
  <2> QED BY <1>1, <2>1 DEF SrvType, SameFile
<1>3. /\ RecvBad(s) \in {srv_fc_send_ack(d, "RDNEXT"), Ended(s, "failed")}
      /\ RecvTimeout(s) \in {srv_fc_send_ack(e, "RDNEXT"), Ended(s, "failed")}
  BY DEF RecvBad, RecvTimeout
<1> HIDE DEF d, e
<1>4. SrvBody(d) /\ d.op = "recv" /\ SrvBody(e) /\ e.op = "recv"
  BY <1>1, <1>2, KeepsFile DEF SameFile
<1>5. /\ SrvOK(srv_fc_send_ack(d, "RDNEXT")) /\ SameFile(d, srv_fc_send_ack(d, "RDNEXT"))
      /\ SrvOK(srv_fc_send_ack(e, "RDNEXT")) /\ SameFile(e, srv_fc_send_ack(e, "RDNEXT"))
  BY <1>4, SrvAckIs DEF AckMsgs
<1>6. Goes(s, srv_fc_send_ack(d, "RDNEXT")) /\ Goes(s, srv_fc_send_ack(e, "RDNEXT"))
  BY <1>1, <1>2, <1>5 DEF Goes, SameFile
<1>7. Goes(s, Ended(s, "failed"))
  BY <1>1, EndedGoes
<1> QED BY <1>3, <1>6, <1>7

(* tdtp_srv_send_file                                                      *)
LEMMA SendBlockIs ==
    ASSUME NEW s \in SrvType, s.file = <<>>, NEW k \in Nat,
           IsBlock(s.tsize, k)
    PROVE  LET d == SendBlock(s, k, s.tsize - Before(k))
           IN  /\ d \in SrvType /\ Sends(d) /\ d.blk = k
               /\ d.op = s.op /\ d.sid = s.sid /\ d.tsize = s.tsize
               /\ d.addr = s.addr /\ d.result = s.result
<1> DEFINE n == s.tsize - Before(k)
           b == SubSeq(PcFile(s.sid, s.tsize), s.tsize - n + 1,
                       s.tsize - n + BlockSize(n))
           d == SendBlock(s, k, n)
<1>1. s.sid \in Nat /\ s.tsize \in Nat
  BY DEF SrvType
<1>2. Before(k) \in Nat /\ Before(k) <= s.tsize
  <2>1. Before(k) \in Nat /\ Before(0) = 0
    BY BeforeIs
  <2> QED BY <1>1, <2>1 DEF IsBlock
<1>3. n \in Int /\ s.tsize - n = Before(k)
  BY <1>1, <1>2
<1>4. b = BlockOf(PcFile(s.sid, s.tsize), s.tsize, k)
  BY <1>3 DEF BlockOf, UpTo
<1>5. b \in PcData
  <2> DEFINE f == PcFile(s.sid, s.tsize)
             V == Nat \X Nat
  <2>1. f \in Seq(V) /\ Len(f) = s.tsize
    BY <1>1, Files DEF PcData
  <2>2. /\ UpTo(s.tsize, k) \in Nat /\ Before(k) <= UpTo(s.tsize, k)
        /\ UpTo(s.tsize, k) <= s.tsize
    BY <1>1, <1>2, UpToIs
  <2>3. b = SubSeq(f, Before(k) + 1, UpTo(s.tsize, k))
    BY <1>4 DEF BlockOf
  <2> HIDE DEF f, V, b
  <2>4. b \in Seq(V)
    BY <1>2, <2>1, <2>2, <2>3, Pieces
  <2> QED BY <2>4 DEF V, PcData
<1>6. d = [s EXCEPT !.blk = k, !.nbytes = n, !.tries = 1, !.data = b]
  BY DEF SendBlock
<1> HIDE DEF n, b, d
<1>7. d \in SrvType
  BY <1>3, <1>5, <1>6 DEF SrvType
<1>8. /\ d.blk = k /\ d.nbytes = n /\ d.data = b /\ d.file = s.file
      /\ d.op = s.op /\ d.sid = s.sid /\ d.tsize = s.tsize
      /\ d.addr = s.addr /\ d.result = s.result
  BY <1>6 DEF SrvType
<1>9. Sends(d)
  BY <1>4, <1>8 DEF Sends, n
<1> QED BY <1>7, <1>8, <1>9 DEF d, n

LEMMA SendStartedIs ==
    ASSUME NEW sid \in Nat, NEW size \in Nat, NEW a \in {Known, Unknown}
    PROVE  LET d == SendStarted(sid, size, a)
           IN  SrvOK(d) /\ d.sid = sid /\ d.result = "none" /\ d.op = "send"
<1> DEFINE i == [Srv0 EXCEPT !.op = "send", !.addr = a, !.sid = sid,
                             !.tsize = size]
           k == IF size <= TDTP_MAX_DATA_SIZE THEN 0 ELSE 1
           s == SendBlock(i, k, size)
           p == build_pkt_WR(s)
           d == SendStarted(sid, size, a)
<1>1. i \in SrvType
  BY Srv0Is DEF SrvType
<1>2. /\ i.op = "send" /\ i.sid = sid /\ i.tsize = size /\ i.addr = a
      /\ i.file = <<>> /\ i.result = "none"
  BY Srv0Is DEF SrvType
<1>3. k \in Nat /\ k < 2 /\ Before(k) = 0 /\ IsBlock(size, k)
  <2>1. Before(0) = 0 /\ Before(1) = 0
    BY BeforeIs
  <2>2. TDTP_MAX_DATA_SIZE \in Nat
    BY TdtpAssumption
  <2> QED BY <2>1, <2>2 DEF IsBlock
<1>4. FirstSend(i) = s
  BY <1>2 DEF FirstSend
<1>5. d = [s EXCEPT !.tx = p]
  BY <1>4 DEF SendStarted
<1> HIDE DEF i, k, d
<1>6. /\ s \in SrvType /\ Sends(s) /\ s.blk = k /\ s.op = "send"
      /\ s.sid = sid /\ s.tsize = size /\ s.addr = a /\ s.result = "none"
  <2>1. i.tsize - Before(k) = size
    BY <1>2, <1>3
  <2> QED BY <1>1, <1>2, <1>3, <2>1, SendBlockIs
<1> HIDE DEF s
<1>7. p \in WrPackets(sid, TRUE, size)
  <2>1. s.data \in PcData
    BY <1>6 DEF SrvType
  <2>2. s.data = BlockOf(PcFile(sid, size), size, k)
    BY <1>6 DEF Sends
  <2>3. p = [cmd |-> "WR", sid |-> sid, blk |-> k, tsize |-> size,
             addr |-> a, data |-> s.data, crc |-> TRUE]
    BY <1>6 DEF build_pkt_WR
  <2> HIDE DEF p
  <2> QED BY <1>3, <2>1, <2>2, <2>3 DEF WrPackets
<1> HIDE DEF p
<1>8. p \in ForCli(sid, TRUE, size) /\ p \in SrvPackets
  BY <1>7, PacketTypes DEF ForCli
<1>9. d \in SrvType /\ SameFile(s, d) /\ d.tx = p
  BY <1>5, <1>6, <1>8 DEF SrvType, SameFile
<1>10. SrvBody(d)
  BY <1>6, <1>9 DEF SrvBody, SameFile, Sends
<1>11. (d.op = "send") = TRUE /\ d.sid = sid /\ d.tsize = size
  BY <1>6, <1>9 DEF SameFile
<1>12. SrvOK(d) /\ d.result = "none" /\ d.op = "send"
  BY <1>6, <1>8, <1>9, <1>10, <1>11 DEF SrvOK, SameFile
<1> QED BY <1>11, <1>12 DEF d

(* How far the block that was answered goes.                               *)
LEMMA AnsweredTo ==
    ASSUME NEW s, SrvBody(s), s.op = "send"
    PROVE  /\ s.nbytes - Len(s.data) = s.tsize - UpTo(s.tsize, s.blk)
           /\ UpTo(s.tsize, s.blk) \in Nat
           /\ UpTo(s.tsize, s.blk) <= s.tsize
           /\ UpTo(s.tsize, s.blk) < s.tsize =>
                /\ UpTo(s.tsize, s.blk) = Before(s.blk + 1)
                /\ IsBlock(s.tsize, s.blk + 1) /\ s.blk > 0
<1> DEFINE T == s.tsize
           k == s.blk
           u == UpTo(T, k)
<1>1. T \in Nat /\ k \in Nat /\ s.sid \in Nat /\ Sends(s)
  BY DEF SrvBody, SrvType
<1>2. /\ IsBlock(T, k) /\ s.nbytes = T - Before(k)
      /\ s.data = BlockOf(PcFile(s.sid, T), T, k)
  BY <1>1 DEF Sends
<1>3. Before(k) \in Nat /\ Before(k) <= T
  <2>1. Before(k) \in Nat /\ Before(0) = 0
    BY <1>1, BeforeIs
  <2> QED BY <1>1, <1>2, <2>1 DEF IsBlock
<1>4. /\ u \in Nat /\ Before(k) <= u /\ u <= T
      /\ u = T <=> T - Before(k) <= TDTP_MAX_DATA_SIZE
      /\ k > 0 /\ u < T => u = Before(k + 1)
  BY <1>1, <1>3, UpToIs
<1>5. Len(s.data) = u - Before(k)
  <2> DEFINE f == PcFile(s.sid, T)
             V == Nat \X Nat
  <2>1. f \in Seq(V) /\ Len(f) = T
    BY <1>1, Files DEF PcData
  <2>2. s.data = SubSeq(f, Before(k) + 1, u)
    BY <1>2 DEF BlockOf
  <2> HIDE DEF f, V, u
  <2> QED BY <1>3, <1>4, <2>1, <2>2, Pieces
<1>6. s.nbytes - Len(s.data) = T - u
  <2> HIDE DEF T, u, k
  <2> QED BY <1>1, <1>2, <1>3, <1>4, <1>5
<1>7. ASSUME u < T
      PROVE  u = Before(k + 1) /\ IsBlock(T, k + 1) /\ k > 0
  <2>1. TDTP_MAX_DATA_SIZE \in Nat
    BY TdtpAssumption
  <2>2. T > TDTP_MAX_DATA_SIZE
    <3>1. T - Before(k) > TDTP_MAX_DATA_SIZE
      BY <1>1, <1>3, <1>4, <1>7, <2>1
    <3> QED BY <1>1, <1>3, <2>1, <3>1
  <2>3. k > 0
    BY <1>1, <1>2, <2>1, <2>2 DEF IsBlock
  <2>4. u = Before(k + 1)
    BY <1>4, <1>7, <2>3
  <2>5. IsBlock(T, k + 1)
    BY <1>1, <1>7, <2>1, <2>2, <2>3, <2>4 DEF IsBlock
  <2> QED BY <2>3, <2>4, <2>5
<1> QED BY <1>4, <1>6, <1>7

LEMMA NextSendIs ==
    ASSUME NEW s, SrvBody(s), s.op = "send"
    PROVE  /\ SrvOK(NextSend(s)) /\ NextSend(s).sid = s.sid
           /\ NextSend(s).op = "send" => NextSend(s).tsize = s.tsize
           /\ NextSend(s).result = "ok" =>
                /\ UpTo(s.tsize, s.blk) = s.tsize
                /\ NextSend(s).file = <<>>
<1> DEFINE u == UpTo(s.tsize, s.blk)
           k == s.blk + 1
           n == SendBlock(s, k, s.nbytes - Len(s.data))
           p == build_pkt_WR_DATA(n)
           d == [n EXCEPT !.tx = p]
<1>1. /\ s \in SrvType /\ s.file = <<>> /\ s.result = "none"
      /\ s.tsize \in Nat /\ s.blk \in Nat /\ s.sid \in Nat
  BY DEF SrvBody, SrvType, Sends
<1>2. /\ s.nbytes - Len(s.data) = s.tsize - u /\ u \in Nat /\ u <= s.tsize
      /\ u < s.tsize => u = Before(k) /\ IsBlock(s.tsize, k) /\ s.blk > 0
  BY AnsweredTo
<1>3. CASE s.nbytes - Len(s.data) <= 0
  <2>1. NextSend(s) = Ended(s, "ok") /\ u = s.tsize
    BY <1>1, <1>2, <1>3 DEF NextSend
  <2>2. /\ SrvOK(Ended(s, "ok")) /\ Ended(s, "ok").op = "idle"
        /\ Ended(s, "ok").sid = s.sid /\ Ended(s, "ok").file = <<>>
    BY <1>1, EndedIs
  <2> QED BY <2>1, <2>2
<1>4. CASE ~(s.nbytes - Len(s.data) <= 0) /\ s.stop
  <2>1. NextSend(s) = Ended(s, "aborted")
    BY <1>4 DEF NextSend
  <2>2. Goes(s, Ended(s, "aborted"))
    BY <1>1, EndedGoes
  <2> QED BY <2>1, <2>2 DEF Goes
<1>5. CASE ~(s.nbytes - Len(s.data) <= 0) /\ ~s.stop
  <2>1. NextSend(s) = d
    BY <1>5 DEF NextSend
  <2>2. u < s.tsize /\ s.nbytes - Len(s.data) = s.tsize - Before(k)
    BY <1>1, <1>2, <1>5
  <2>3. IsBlock(s.tsize, k) /\ s.blk > 0 /\ k \in Nat /\ k >= 2
    BY <1>1, <1>2, <2>2
  <2> HIDE DEF k
  <2>4. /\ n \in SrvType /\ Sends(n) /\ n.blk = k /\ n.op = "send"
        /\ n.sid = s.sid /\ n.tsize = s.tsize /\ n.result = "none"
    BY <1>1, <2>2, <2>3, SendBlockIs
  <2> HIDE DEF n
  <2>5. p \in WrDataPackets(s.sid, TRUE, s.tsize)
    <3>1. n.data \in PcData
      BY <2>4 DEF SrvType
    <3>2. n.data = BlockOf(PcFile(s.sid, s.tsize), s.tsize, k)
      BY <2>4 DEF Sends
    <3>3. p = [cmd |-> "WR_DATA", sid |-> s.sid, blk |-> k,
               data |-> n.data, crc |-> TRUE]
      BY <2>4 DEF build_pkt_WR_DATA
    <3> HIDE DEF p
    <3> QED BY <1>1, <2>3, <3>1, <3>2, <3>3 DEF WrDataPackets
  <2> HIDE DEF p
  <2>6. p \in ForCli(s.sid, TRUE, s.tsize) /\ p \in SrvPackets
    BY <2>5, PacketTypes DEF ForCli
  <2>7. d \in SrvType /\ SameFile(n, d) /\ d.tx = p
    BY <2>4, <2>6 DEF SrvType, SameFile
  <2> HIDE DEF d
  <2>8. SrvBody(d)
    BY <2>4, <2>7 DEF SrvBody, SameFile, Sends
  <2>9. /\ (d.op = "send") = TRUE /\ d.sid = s.sid /\ d.tsize = s.tsize
        /\ d.result = "none"
    BY <2>4, <2>7 DEF SameFile
  <2>10. SrvOK(d)
    BY <2>6, <2>7, <2>8, <2>9 DEF SrvOK
  <2> QED BY <2>1, <2>9, <2>10
<1> QED BY <1>3, <1>4, <1>5

LEMMA SendAgainIs ==
    ASSUME NEW s, SrvOK(s), s.op = "send"
    PROVE  Goes(s, SendAgain(s))
<1> DEFINE n == s.tries + 1
           d == [s EXCEPT !.tries = n]
<1>1. s \in SrvType /\ SrvBody(s) /\ s.result = "none"
  BY DEF SrvOK, SrvBody
<1>2. d \in SrvType /\ SameFile(s, d) /\ d.tx = s.tx
  <2>1. n \in Nat
    BY <1>1 DEF SrvType
  <2> HIDE DEF n
  <2> QED BY <1>1, <2>1 DEF SrvType, SameFile
<1>3. SendAgain(s) \in {d, Ended(s, "failed")}
  BY DEF SendAgain
<1> HIDE DEF d
<1>4. SrvBody(d)
  BY <1>1, <1>2, KeepsFile
<1>5. Goes(s, d)
  BY <1>1, <1>2, <1>4 DEF Goes, SrvOK, SameFile
<1>6. Goes(s, Ended(s, "failed"))
  BY <1>1, EndedGoes
<1> QED BY <1>3, <1>5, <1>6

-----------------------------------------------------------------------------
(* The steps of the PC                                                     *)

(* A later session, and one that sends nothing, ask nothing of the device. *)
LEMMA CliGoes ==
    ASSUME NEW c, NEW s, NEW d,
           s.sid \in Nat, d.sid \in Nat, s.sid <= d.sid,
           d.op = "send" => s.sid < d.sid,
           CliOK(c, s.sid, s.op = "send", s.tsize)
    PROVE  CliOK(c, d.sid, d.op = "send", d.tsize)
<1>1. c.wr_sid \in Nat
  BY DEF CliOK, CliBody, CliType
<1>2. CliBody(c, d.sid, d.op = "send", d.tsize)
  BY <1>1 DEF CliOK, CliBody
<1>3. ForSrv(s.sid, s.op = "send", s.tsize, s.sid \in c.stored)
         \subseteq ForSrv(d.sid, d.op = "send", d.tsize, d.sid \in c.stored)
  BY SessionGoes
<1> QED BY <1>2, <1>3 DEF CliOK

LEMMA SrvMoves ==
    ASSUME FileOK, NEW s, SrvOK(s), srv' = s, cli' = cli,
           \/ /\ s.sid = srv.sid
              /\ s.op = "send" => srv.op = "send" /\ s.tsize = srv.tsize
           \/ s.sid = srv.sid + 1,
           Whole(s, cli.stored),
           toSrv' \in Seq(ForSrv(srv.sid, srv.op = "send", srv.tsize,
                                 srv.sid \in cli.stored)),
           \/ toCli' = toCli
           \/ s.op # "idle" /\ toCli' = Append(toCli, s.tx)
    PROVE  FileOK'
<1> DEFINE C == ForCli(srv.sid, srv.op = "send", srv.tsize)
           S == ForSrv(srv.sid, srv.op = "send", srv.tsize,
                       srv.sid \in cli.stored)
           C2 == ForCli(s.sid, s.op = "send", s.tsize)
           S2 == ForSrv(s.sid, s.op = "send", s.tsize, s.sid \in cli.stored)
<1>1. srv.sid \in Nat /\ srv.tsize \in Nat /\ s.sid \in Nat /\ s.tsize \in Nat
  BY FileTypes DEF SrvOK, SrvBody, SrvType
<1>2. /\ C \subseteq C2 /\ S \subseteq S2
      /\ CliOK(cli, s.sid, s.op = "send", s.tsize)
  <2>1. CASE s.op = "send" /\ s.sid = srv.sid
    <3>1. s.sid = srv.sid /\ (s.op = "send") = (srv.op = "send")
          /\ s.tsize = srv.tsize
      BY <1>1, <2>1
    <3>2. CliOK(cli, srv.sid, srv.op = "send", srv.tsize)
      BY DEF FileOK
    <3> QED BY <3>1, <3>2
  <2>2. CASE ~(s.op = "send" /\ s.sid = srv.sid)
    <3>1. srv.sid <= s.sid /\ (s.op = "send" => srv.sid < s.sid)
      BY <1>1, <2>2
    <3>2. CliOK(cli, srv.sid, srv.op = "send", srv.tsize)
      BY DEF FileOK
    <3>3. CliOK(cli, s.sid, s.op = "send", s.tsize)
      BY <1>1, <3>1, <3>2, CliGoes
    <3>4. C \subseteq C2 /\ S \subseteq S2
      BY <1>1, <3>1, SessionGoes
    <3> QED BY <3>3, <3>4
  <2> QED BY <2>1, <2>2
<1>3. toCli \in Seq(C) /\ (s.op # "idle" => s.tx \in C2)
  BY DEF FileOK, SrvOK
<1> HIDE DEF C, S, C2, S2
<1>4. toCli \in Seq(C2)
  BY <1>2, <1>3, QueueGrows
<1>5. toCli' \in Seq(C2)
  BY <1>3, <1>4
<1>6. toSrv' \in Seq(S)
  BY DEF S
<1>7. toSrv' \in Seq(S2)
  BY <1>2, <1>6, QueueGrows
<1> QED BY <1>2, <1>5, <1>7 DEF FileOK, C2, S2

(* A step that takes no block; the queue to the PC loses a packet or none. *)
LEMMA SrvGoes ==
    ASSUME FileOK, NEW s, Goes(srv, s), srv' = s, cli' = cli,
           toSrv' \in Seq(ForSrv(srv.sid, srv.op = "send", srv.tsize,
                                 srv.sid \in cli.stored)),
           \/ toCli' = toCli
           \/ s.op # "idle" /\ toCli' = Append(toCli, s.tx)
    PROVE  FileOK'
  BY SrvMoves DEF Goes, Whole

LEMMA SrvHears ==
    ASSUME FileOK, NEW m, NEW op, SrvGets(op, m)
    PROVE  /\ m \in ForSrv(srv.sid, srv.op = "send", srv.tsize,
                           srv.sid \in cli.stored)
           /\ toSrv' \in Seq(ForSrv(srv.sid, srv.op = "send", srv.tsize,
                                    srv.sid \in cli.stored))
           /\ srv.op = op
  BY QueueSteps DEF FileOK, SrvGets

LEMMA StartStep ==
    ASSUME FileOK, StartRecv \/ StartSend PROVE FileOK'
<1> DEFINE i == srv.sid + 1
<1>1. srv.sid \in Nat /\ i \in Nat
  BY FileTypes
<1>2. PICK s : /\ Start(s) /\ SrvOK(s) /\ s.sid = i
               /\ s.result = "none"
  <2>1. CASE StartRecv
    <3>1. PICK a \in {Known, Unknown} : Start(RecvStarted(i, a))
      BY <2>1 DEF StartRecv
    <3> DEFINE s == RecvStarted(i, a)
    <3>2. SrvOK(s) /\ s.sid = i /\ s.result = "none"
      <4> HIDE DEF i
      <4> QED BY <1>1, RecvStartedIs
    <3> QED BY <3>1, <3>2
  <2>2. CASE StartSend
    <3>1. PICK n \in SendSizes, a \in {Known, Unknown} :
             Start(SendStarted(i, n, a))
      BY <2>2 DEF StartSend
    <3> DEFINE s == SendStarted(i, n, a)
    <3>2. n \in Nat
      BY FileAssumption
    <3>3. SrvOK(s) /\ s.sid = i /\ s.result = "none"
      <4> HIDE DEF i
      <4> QED BY <1>1, <3>2, SendStartedIs
    <3> QED BY <3>1, <3>3
  <2> QED BY <2>1, <2>2
<1>3. /\ srv' = s /\ cli' = cli /\ toSrv' = toSrv
      /\ (toCli' = toCli) \/ (s.op # "idle" /\ toCli' = Append(toCli, s.tx))
  BY <1>2 DEF Start, SrvBecomes
<1>4. toSrv' \in Seq(ForSrv(srv.sid, srv.op = "send", srv.tsize,
                            srv.sid \in cli.stored))
  BY <1>3 DEF FileOK
<1>5. Whole(s, cli.stored)
  BY <1>2 DEF Whole
<1> QED BY <1>2, <1>3, <1>4, <1>5, SrvMoves

LEMMA UserStopStep ==
    ASSUME FileOK, UserStop PROVE FileOK'
<1> DEFINE d == [srv EXCEPT !.stop = TRUE]
<1>1. SrvOK(srv) /\ SrvBody(srv) /\ srv \in SrvType
  BY DEF FileOK, SrvOK, SrvBody
<1>2. d \in SrvType /\ SameFile(srv, d) /\ d.tx = srv.tx
  BY <1>1 DEF SrvType, SameFile
<1>3. srv' = d /\ cli' = cli /\ toCli' = toCli /\ toSrv' = toSrv
      /\ srv.op # "idle"
  BY DEF UserStop
<1> HIDE DEF d
<1>4. SrvBody(d)
  BY <1>1, <1>2, KeepsFile
<1>5. Goes(srv, d)
  BY <1>1, <1>2, <1>3, <1>4 DEF Goes, SrvOK, SrvBody, SameFile
<1>6. toSrv' \in Seq(ForSrv(srv.sid, srv.op = "send", srv.tsize,
                            srv.sid \in cli.stored))
  BY <1>3 DEF FileOK
<1> QED BY <1>3, <1>5, <1>6, SrvGoes

(* tdtp_srv_recv_file: a packet that brings no new block.                  *)
LEMMA RecvOldStep ==
    ASSUME FileOK,
           RecvStops \/ RecvNack \/ RecvDup \/ RecvSpoilt \/ RecvUnexpected
    PROVE  FileOK'
<1> DEFINE S == ForSrv(srv.sid, srv.op = "send", srv.tsize,
                       srv.sid \in cli.stored)
<1>1. SrvOK(srv) /\ srv \in SrvType
  BY DEF FileOK, SrvOK, SrvBody
<1>2. PICK m : /\ SrvGets("recv", m)
               /\ \/ SrvWaits(Ended(srv, "aborted"))
                  \/ SrvWaits(Ended(srv, "failed"))
                  \/ SrvBecomes(srv_fc_send_ack(Heard(srv, m), "RDNEXT"))
                  \/ SrvBecomes(RecvBad(Heard(srv, m)))
                  \/ SrvWaits(RecvOther(Heard(srv, m), m))
  BY DEF RecvStops, RecvNack, RecvDup, RecvSpoilt, RecvUnexpected, SrvRecv
<1>3. toSrv' \in Seq(S) /\ srv.op = "recv"
  BY <1>2, SrvHears
<1> DEFINE h == Heard(srv, m)
           a == srv_fc_send_ack(h, "RDNEXT")
           b == RecvBad(h)
           o == RecvOther(h, m)
<1>4. SrvOK(h) /\ SameFile(srv, h)
  BY <1>1, HeardIs
<1> HIDE DEF h
<1>5. h.op = "recv" /\ h.result = "none" /\ SrvBody(h) /\ h.sid = srv.sid
  BY <1>3, <1>4 DEF SameFile, SrvOK, SrvBody
<1>6. Goes(srv, a)
  <2>1. SrvOK(a) /\ SameFile(h, a)
    BY <1>5, SrvAckIs DEF AckMsgs
  <2> HIDE DEF a
  <2> QED BY <1>5, <2>1 DEF Goes, SameFile
<1>7. Goes(srv, b)
  <2>1. Goes(h, b)
    BY <1>4, <1>5, RecvBadIs
  <2> HIDE DEF b
  <2> QED BY <1>5, <2>1 DEF Goes
<1>8. Goes(srv, o)
  <2>1. Goes(h, o)
    BY <1>4, <1>5, RecvOtherIs
  <2> HIDE DEF o
  <2> QED BY <1>5, <2>1 DEF Goes
<1>9. Goes(srv, Ended(srv, "aborted")) /\ Goes(srv, Ended(srv, "failed"))
  BY <1>1, EndedGoes
<1>10. PICK s : Goes(srv, s) /\ (SrvWaits(s) \/ SrvBecomes(s))
  BY <1>2, <1>6, <1>7, <1>8, <1>9 DEF h
<1>11. /\ srv' = s /\ cli' = cli
       /\ (toCli' = toCli) \/ (s.op # "idle" /\ toCli' = Append(toCli, s.tx))
  BY <1>10 DEF SrvWaits, SrvBecomes
<1> QED BY <1>3, <1>10, <1>11, SrvGoes

(* The next block is appended to the PC's file.                            *)
LEMMA RecvNewStep ==
    ASSUME FileOK, RecvNew PROVE FileOK'
<1> DEFINE S == ForSrv(srv.sid, srv.op = "send", srv.tsize,
                       srv.sid \in cli.stored)
<1>1. SrvOK(srv)
  BY DEF FileOK
<1>2. PICK m : /\ SrvGets("recv", m) /\ IsNewBlock(srv, m)
               /\ SrvBecomes(RecvBlock(Heard(srv, m), m))
  BY DEF RecvNew, SrvRecv
<1>3. m \in S /\ toSrv' \in Seq(S) /\ srv.op = "recv"
  BY <1>2, SrvHears
<1>4. m \in RdDataPackets /\ m.blk = srv.blk + 1
  <2>1. m.cmd = "RD_DATA" /\ m.blk = srv.blk + 1
    BY <1>2 DEF IsNewBlock, InSession, chk_pkt_RD_DATA
  <2> QED BY <1>3, <2>1, CmdIs
<1> DEFINE h == Heard(srv, m)
           s == RecvBlock(h, m)
<1>5. SrvOK(h) /\ SameFile(srv, h)
  BY <1>1, HeardIs
<1> HIDE DEF h
<1>6. SrvBody(h) /\ h.op = "recv" /\ h.sid = srv.sid /\ m.blk = h.blk + 1
  BY <1>3, <1>4, <1>5 DEF SameFile, SrvOK
<1>7. /\ SrvOK(s) /\ s.sid = srv.sid /\ s.op # "send"
      /\ s.result = "ok" => s.file = DevFile
  BY <1>4, <1>6, RecvBlockIs
<1>8. SrvBecomes(s)
  BY <1>2 DEF h
<1> HIDE DEF s
<1>9. /\ srv' = s /\ cli' = cli
      /\ (toCli' = toCli) \/ (s.op # "idle" /\ toCli' = Append(toCli, s.tx))
  BY <1>8 DEF SrvBecomes
<1>10. Whole(s, cli.stored)
  BY <1>7 DEF Whole
<1> QED BY <1>3, <1>7, <1>9, <1>10, SrvMoves

(* The next block is not written.                                          *)
LEMMA RecvWriteFailsStep ==
    ASSUME FileOK, RecvWriteFails PROVE FileOK'
<1> DEFINE S == ForSrv(srv.sid, srv.op = "send", srv.tsize,
                       srv.sid \in cli.stored)
<1>1. SrvOK(srv)
  BY DEF FileOK
<1>2. PICK m : /\ SrvGets("recv", m) /\ IsNewBlock(srv, m)
               /\ \E n \in 0 .. Len(m.data) - 1 :
                      srv' = RecvMissed(Heard(srv, m), m, n)
  BY DEF RecvWriteFails, SrvRecv
<1>3. m \in S /\ toSrv' \in Seq(S) /\ srv.op = "recv"
  BY <1>2, SrvHears
<1>4. m \in RdDataPackets /\ m.blk = srv.blk + 1
  <2>1. m.cmd = "RD_DATA" /\ m.blk = srv.blk + 1
    BY <1>2 DEF IsNewBlock, InSession, chk_pkt_RD_DATA
  <2> QED BY <1>3, <2>1, CmdIs
<1> DEFINE h == Heard(srv, m)
<1>5. SrvOK(h) /\ SameFile(srv, h)
  BY <1>1, HeardIs
<1> HIDE DEF h
<1>6. SrvBody(h) /\ h.op = "recv" /\ h.sid = srv.sid /\ m.blk = h.blk + 1
  BY <1>3, <1>4, <1>5 DEF SameFile, SrvOK
<1>7. PICK n \in 0 .. Len(m.data) - 1 : srv' = RecvMissed(h, m, n)
  BY <1>2 DEF h
<1> DEFINE s == RecvMissed(h, m, n)
<1>8. /\ SrvOK(s) /\ s.sid = srv.sid /\ s.op = "recv" /\ s.result = "none"
  BY <1>4, <1>6, RecvMissedIs
<1> HIDE DEF s
<1>9. srv' = s /\ cli' = cli /\ toCli' = Append(toCli, s.tx)
  BY <1>7 DEF RecvWriteFails, s
<1>10. Goes(srv, s)
  BY <1>8 DEF Goes
<1> QED BY <1>3, <1>8, <1>9, <1>10, SrvGoes

(* tdtp_srv_send_file: an accepted last block means a file that is stored. *)
LEMMA SendAnsweredStep ==
    ASSUME FileOK, SendAnswered PROVE FileOK'
<1> DEFINE whole == srv.sid \in cli.stored
           S == ForSrv(srv.sid, srv.op = "send", srv.tsize, whole)
           s == NextSend(srv)
           e == Ended(srv, "failed")
<1>1. SrvBody(srv) /\ srv \in SrvType
  BY DEF FileOK, SrvOK, SrvBody
<1>2. PICK m : /\ SrvGets("send", m) /\ IsAnswer(srv, m)
               /\ SrvBecomes(s) \/ SrvBecomes(e)
  BY DEF SendAnswered
<1>3. m \in S /\ toSrv' \in Seq(S) /\ srv.op = "send"
  BY <1>2, SrvHears
<1>4. UpTo(srv.tsize, srv.blk) = srv.tsize => whole
  <2>1. m.cmd = "ACK_WR" /\ m.sid = srv.sid /\ m.blk = srv.blk
    BY <1>2 DEF IsAnswer, chk_pkt_ACK_WR
  <2>2. m \in AckWrPackets(srv.sid, srv.op = "send", srv.tsize, whole)
    BY <1>3, <2>1, CmdIs
  <2> HIDE DEF whole
  <2> QED BY <1>3, <2>1, <2>2 DEF AckWrPackets
<1>5. /\ SrvOK(s) /\ s.sid = srv.sid
      /\ s.op = "send" => s.tsize = srv.tsize
      /\ s.result = "ok" =>
           UpTo(srv.tsize, srv.blk) = srv.tsize /\ s.file = <<>>
  BY <1>1, <1>3, NextSendIs
<1>6. Goes(srv, e)
  BY <1>1, EndedGoes
<1>7. Whole(s, cli.stored)
  BY <1>4, <1>5 DEF Whole
<1> HIDE DEF s, e, whole
<1>8. CASE SrvBecomes(s)
  <2>1. /\ srv' = s /\ cli' = cli
        /\ (toCli' = toCli) \/ (s.op # "idle" /\ toCli' = Append(toCli, s.tx))
    BY <1>8 DEF SrvBecomes
  <2> QED BY <1>3, <1>5, <1>7, <2>1, SrvMoves DEF whole
<1>9. CASE SrvBecomes(e)
  <2>1. /\ srv' = e /\ cli' = cli
        /\ (toCli' = toCli) \/ (e.op # "idle" /\ toCli' = Append(toCli, e.tx))
    BY <1>9 DEF SrvBecomes
  <2> QED BY <1>3, <1>6, <2>1, SrvGoes DEF whole
<1> QED BY <1>2, <1>8, <1>9

(* Another packet, or none in time: the PC sends again or gives up.        *)
LEMMA SrvAgainStep ==
    ASSUME FileOK,
           SendUnanswered \/ SrvTimeout \/ SrvTimeoutEarly \/ Unheard
    PROVE  FileOK'
<1> DEFINE S == ForSrv(srv.sid, srv.op = "send", srv.tsize,
                       srv.sid \in cli.stored)
           s == SendAgain(srv)
           t == TimedOut(srv)
<1>1. SrvOK(srv) /\ srv \in SrvType /\ toSrv \in Seq(S)
  BY DEF FileOK, SrvOK, SrvBody
<1>2. srv.op = "send" => Goes(srv, s)
  BY <1>1, SendAgainIs
<1>3. srv.op # "idle" => Goes(srv, t)
  <2>1. Goes(srv, Ended(srv, "aborted"))
    BY <1>1, EndedGoes
  <2>2. srv.op = "recv" => Goes(srv, RecvTimeout(srv))
    BY <1>1, RecvBadIs
  <2>3. srv.op \in {"idle", "recv", "send"}
    BY <1>1 DEF SrvType
  <2> QED BY <1>2, <2>1, <2>2, <2>3 DEF TimedOut
<1> HIDE DEF s, t
<1>4. CASE SendUnanswered
  <2>1. PICK m : SrvGets("send", m) /\ SrvBecomes(s)
    BY <1>4 DEF SendUnanswered, s
  <2>2. toSrv' \in Seq(S) /\ srv.op = "send"
    BY <2>1, SrvHears
  <2>3. /\ srv' = s /\ cli' = cli
        /\ (toCli' = toCli) \/ (s.op # "idle" /\ toCli' = Append(toCli, s.tx))
    BY <2>1 DEF SrvBecomes
  <2> QED BY <1>2, <2>2, <2>3, SrvGoes
<1>5. CASE SrvTimeout \/ SrvTimeoutEarly
  <2>1. /\ srv' = t /\ cli' = cli /\ toSrv' = toSrv /\ srv.op # "idle"
        /\ (toCli' = toCli) \/ (t.op # "idle" /\ toCli' = Append(toCli, t.tx))
    BY <1>5 DEF SrvTimeout, SrvTimeoutEarly, SrvBecomes, t
  <2> QED BY <1>1, <1>3, <2>1, SrvGoes
<1>6. CASE Unheard
  <2>1. toSrv' \in Seq(S)
    BY <1>1, <1>6, QueueSteps DEF Unheard
  <2> QED BY <1>6, <2>1 DEF Unheard, FileOK
<1> QED BY <1>4, <1>5, <1>6

-----------------------------------------------------------------------------
LEMMA FileStarts ==
    FileInit => FileOK
<1> SUFFICES ASSUME FileInit PROVE FileOK
  OBVIOUS
<1>1. /\ srv = Srv0 /\ cli = Cli0 /\ toCli = <<>> /\ toSrv = <<>>
  BY DEF FileInit
<1>2. SrvOK(srv) /\ Whole(srv, cli.stored)
  BY <1>1, Srv0Is DEF SrvOK, SrvBody, Whole
<1>3. srv.sid = 0 /\ srv.op = "idle"
  BY <1>1 DEF Srv0
<1>4. CliOK(cli, 0, FALSE, srv.tsize)
  <2> DEFINE e == <<>>
             none == {}
  <2>1. /\ e \in PcData /\ none \in SUBSET Nat /\ NothingSent \in CliPackets
        /\ NothingSent \in ForSrv(0, FALSE, srv.tsize, 0 \in cli.stored)
    BY PacketTypes DEF PcData, ForSrv
  <2>2. cli \in CliType
    <3>1. cli = [wr |-> FALSE, wr_sid |-> 0, wr_blk |-> 0, wr_tsize |-> 0,
                 wr_nbytes |-> 0, wr_open |-> FALSE, dev |-> e,
                 stored |-> none, rd |-> FALSE, rd_sid |-> 0, rd_blk |-> 0,
                 rd_tsize |-> 0, rd_nbytes |-> 0, rd_open |-> FALSE,
                 rd_timeouts |-> 0, rd_unexp |-> 0, tx |-> NothingSent]
      BY <1>1 DEF Cli0
    <3> HIDE DEF e, none
    <3> QED BY <2>1, <3>1 DEF CliType
  <2>3. /\ cli.wr = FALSE /\ cli.wr_open = FALSE /\ cli.wr_sid = 0
        /\ cli.rd = FALSE /\ cli.tx = NothingSent
    BY <1>1 DEF Cli0
  <2>4. CliBody(cli, 0, FALSE, srv.tsize)
    BY <2>2, <2>3 DEF CliBody
  <2> QED BY <2>1, <2>3, <2>4 DEF CliOK
<1>5. CliOK(cli, srv.sid, srv.op = "send", srv.tsize)
  <2>1. (srv.op = "send") = FALSE
    BY <1>3
  <2> QED BY <1>3, <1>4, <2>1
<1>6. /\ toCli \in Seq(ForCli(srv.sid, srv.op = "send", srv.tsize))
      /\ toSrv \in Seq(ForSrv(srv.sid, srv.op = "send", srv.tsize,
                              srv.sid \in cli.stored))
  BY <1>1
<1> QED BY <1>2, <1>5, <1>6 DEF FileOK

(* A transfer that the PC reports as a success has moved the whole file in *)
(* either direction (tdtp_srv_recv_file, tdtp_srv_send_file, tdtp_cli),    *)
(* for files and blocks of any size and any number of sessions, packets,   *)
(* timeouts and faults of the network and of the disk.                     *)
THEOREM FileArrivesWhole ==
    FileSpec => []FileWhole
<1>1. FileInit => FileOK
  BY FileStarts
<1>2. FileOK /\ [FileNext]_fileVars => FileOK'
  <2> SUFFICES ASSUME FileOK, [FileNext]_fileVars PROVE FileOK'
    OBVIOUS
  <2>1. CASE StartRecv \/ StartSend \/ UserStop
    BY <2>1, StartStep, UserStopStep
  <2>2. CASE SrvInput
    BY <2>2, RecvOldStep, RecvNewStep, SendAnsweredStep, SrvAgainStep
    DEF SrvInput
  <2>3. CASE RecvWriteFails \/ SrvTimeout \/ SrvTimeoutEarly \/ Unheard
    BY <2>3, RecvWriteFailsStep, SrvAgainStep
  <2>4. CASE CliInput \/ OpenSocket \/ CliTimeout
    BY <2>4, CliWrStep, CliWrDataStep, CliRdStep, CliAckRdStep, CliOtherStep
    DEF CliInput
  <2>5. CASE FaultToCli \/ FaultToSrv
    BY <2>5, FaultStep
  <2>6. CASE UNCHANGED fileVars
    BY <2>6 DEF fileVars, FileOK
  <2> QED BY <2>1, <2>2, <2>3, <2>4, <2>5, <2>6 DEF FileNext
<1>3. FileOK => FileWhole
  BY DEF FileOK, Whole, FileWhole
<1> QED BY <1>1, <1>2, <1>3, PTL DEF FileSpec

=============================================================================
