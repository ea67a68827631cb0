-------------------------------- MODULE TNDaq --------------------------------
(***************************************************************************)
(* The two data acquisition programs of the demonstration.  In the first   *)
(* (demo_pc/udp_server with udp_test_2, "poll") the PC asks for a sample   *)
(* and the device answers with a new one; in the second (demo_pc/udp_daq   *)
(* with udp_test_1, "push") the device sends each sample until the PC      *)
(* acknowledges it.  Both use the packets of TDTP and none of its          *)
(* sessions.  A sample is the number of the device's counter.              *)
(***************************************************************************)
EXTENDS Integers, Sequences, SequencesExt

CONSTANTS
    MAX_TX,        \* the packets daq_fc and daq_send send for one sample
    MaxSamples,    \* bound: the samples of a run
    MaxDaqFaults   \* bound: faults of the network and early timeouts

VARIABLES
    poll,       \* the PC that asks: fc_sid, i of daq_fc; history: the
                \* device's counter when it asked, the samples it accepted
    taken,      \* cnt of daq_cli, the device that is asked
    push,       \* the device that sends: cnt of task_daq_func, i of daq_send
    counted,    \* the samples the PC that is sent to has counted
    toDev,      \* the datagrams on the way to the device
    toPc,       \* and those on the way to the PC
    mishaps     \* how many faults there have been

daqVars == <<poll, taken, push, counted, toDev, toPc, mishaps>>

DaqInit ==
    /\ poll = [sid |-> 0, tries |-> 0, since |-> 0, accepted |-> {}]
    /\ taken = 0
    /\ push = [cnt |-> 0, tries |-> 0]
    /\ counted = {}
    /\ toDev = <<>> /\ toPc = <<>>
    /\ mishaps = 0

-----------------------------------------------------------------------------
(* Poll: CTDTP_fc_srv_daq::CmdThreadProc and daq_fc on the PC              *)

Request(sid) == [cmd |-> "RD", sid |-> sid, crc |-> TRUE]

(* A new number for every sample, and the first packet that asks for it.   *)
PollAsk ==
    /\ poll.tries = 0 /\ poll.sid < MaxSamples
    /\ poll' = [poll EXCEPT !.sid = @ + 1, !.tries = 1, !.since = taken]
    /\ toDev' = Append(toDev, Request(poll.sid + 1))
    /\ UNCHANGED <<taken, push, counted, toPc, mishaps>>

(* Mutant: the session number of the answer is not compared.               *)
Late_IsSample(m) == m.crc

IsSample(m) == m.crc /\ m.sid = poll.sid

(* Any other packet ends the exchange as a failure.                        *)
PollGets ==
    /\ poll.tries > 0 /\ toPc # <<>>
    /\ poll' = [poll EXCEPT
                   !.tries = 0,
                   !.accepted = IF IsSample(Head(toPc))
                                THEN @ \cup {[sample |-> Head(toPc).sample,
                                              since |-> poll.since]}
                                ELSE @]
    /\ toPc' = Tail(toPc)
    /\ UNCHANGED <<taken, push, counted, toDev, mishaps>>

PollAgain ==
    IF poll.tries = MAX_TX
    THEN poll' = [poll EXCEPT !.tries = 0] /\ UNCHANGED toDev
    ELSE /\ poll' = [poll EXCEPT !.tries = @ + 1]
         /\ toDev' = Append(toDev, Request(poll.sid))

(* daq_cli on the device: every request gets a new sample.                 *)
PollAnswer ==
    /\ toDev # <<>>
    /\ toDev' = Tail(toDev)
    /\ IF Head(toDev).crc
       THEN /\ taken' = taken + 1
            /\ toPc' = Append(toPc, [cmd |-> "RD_DATA",
                                     sid |-> Head(toDev).sid,
                                     sample |-> taken + 1, crc |-> TRUE])
       ELSE UNCHANGED <<taken, toPc>>
    /\ UNCHANGED <<poll, push, counted, mishaps>>

-----------------------------------------------------------------------------
(* Push: task_daq_func and daq_send on the device                          *)

Sample(cnt) == [cmd |-> "WR", sid |-> cnt, crc |-> TRUE]

PushSend(cnt, tries) ==
    /\ push' = [cnt |-> cnt, tries |-> tries]
    /\ toPc' = Append(toPc, Sample(cnt))
    /\ UNCHANGED <<poll, taken, counted>>

(* The task has opened its socket and sends the first sample.              *)
PushFirst ==
    push.tries = 0 /\ PushSend(push.cnt, 1) /\ UNCHANGED <<toDev, mishaps>>

IsAck(m) == m.crc /\ m.sid = push.cnt

(* The next sample, or the same one again: after MAX_TX packets daq_send   *)
(* gives up and is called again with the packet it gave up.                *)
Tries == IF push.tries = MAX_TX THEN 1 ELSE push.tries + 1

PushGets ==
    /\ push.tries > 0 /\ toDev # <<>>
    /\ push.cnt < MaxSamples
    /\ IF IsAck(Head(toDev)) THEN PushSend(push.cnt + 1, 1)
       ELSE PushSend(push.cnt, Tries)
    /\ toDev' = Tail(toDev)
    /\ UNCHANGED mishaps

(* CDaq::CmdThreadProc on the PC: every packet that is right is counted    *)
(* and acknowledged.                                                       *)
PushCount ==
    /\ toPc # <<>>
    /\ toPc' = Tail(toPc)
    /\ IF Head(toPc).crc
       THEN /\ counted' = counted \cup {Head(toPc).sid}
            /\ toDev' = Append(toDev, [cmd |-> "ACK", sid |-> Head(toPc).sid,
                                       crc |-> TRUE])
       ELSE UNCHANGED <<counted, toDev>>
    /\ UNCHANGED <<poll, taken, push, mishaps>>

-----------------------------------------------------------------------------
(* A receive timeout: in time when nothing is on the way, early else.      *)
OnTime ==
    IF toDev = <<>> /\ toPc = <<>> THEN UNCHANGED mishaps
    ELSE mishaps < MaxDaqFaults /\ mishaps' = mishaps + 1

PollTimeout ==
    /\ poll.tries > 0 /\ OnTime /\ PollAgain
    /\ UNCHANGED <<taken, push, counted, toPc>>

PushTimeout ==
    /\ push.tries > 0 /\ OnTime /\ PushSend(push.cnt, Tries)
    /\ UNCHANGED toDev

(* The first datagram of a queue is lost, doubled, overtaken or spoilt.    *)
Damaged(q) ==
    {Tail(q), Append(q, Head(q)), Append(Tail(q), Head(q)),
     <<[Head(q) EXCEPT !.crc = FALSE]>> \o Tail(q)}

Mishap ==
    /\ mishaps < MaxDaqFaults /\ mishaps' = mishaps + 1
    /\ \/ toDev # <<>> /\ toDev' \in Damaged(toDev) /\ UNCHANGED toPc
       \/ toPc # <<>> /\ toPc' \in Damaged(toPc) /\ UNCHANGED toDev
    /\ UNCHANGED <<poll, taken, push, counted>>

PollNext == PollAsk \/ PollGets \/ PollAnswer \/ PollTimeout \/ Mishap
PushNext == PushFirst \/ PushGets \/ PushCount \/ PushTimeout \/ Mishap

PollSpec == DaqInit /\ [][PollNext]_daqVars
PushSpec == DaqInit /\ [][PushNext]_daqVars

-----------------------------------------------------------------------------
(* A sample the PC accepts was taken after the PC asked for it, never one  *)
(* that answers an earlier request; and when the device goes on to the     *)
(* next sample the PC has counted every one before it.                     *)
SamplesKept ==
    /\ \A a \in poll.accepted : a.sample > a.since
    /\ \A n \in 0 .. push.cnt - 1 : n \in counted

=============================================================================
