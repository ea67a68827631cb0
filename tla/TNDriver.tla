------------------------------ MODULE TNDriver ------------------------------
(***************************************************************************)
(* The Ethernet driver of TN NET (lpc23xx_mac_drv.c, lpc23xx_int.c): the   *)
(* tasks that call drv_lpc23xx_net_wr, the interface queues, the transmit  *)
(* descriptors, the Ethernet interrupt and the receive task.               *)
(*                                                                         *)
(* A packet is a chain of mbufs; Frags[m] descriptors are filled for it.   *)
(* A code section with interrupts disabled and the interrupt handler are   *)
(* one step each; between two of them the tasks and the MAC interleave.    *)
(* Filling the descriptors of one packet is one step.                      *)
(* The MAC itself is external: it reads the descriptors from its consume   *)
(* index to its produce index and interrupts when it has caught up.        *)
(***************************************************************************)
EXTENDS Integers, Sequences, FiniteSets, SequencesExt

CONSTANTS
    Senders,       \* the tasks that call ni->drv_wr
    RxTask,        \* the receive task of the interface, one of them
    Rank,          \* the scheduling order of the senders: 1 runs first
    Packets,       \* the packets the memory pools can hold at a time
    NoPacket,      \* NULL
    Frags,         \* the length of the chain of every packet
    num_tx_descr,  \* the transmit descriptors of the MAC
    TxQueueSize,   \* IFACE1_TX_QUEUE_SIZE and IFACE1_RX_QUEUE_SIZE: a data
    RxQueueSize    \* queue holds one entry less

ASSUME DriverAssumption ==
    /\ RxTask \in Senders
    /\ Rank \in [Senders -> Nat] /\ IsInjective(Rank)
    /\ NoPacket \notin Packets
    /\ num_tx_descr \in Nat \ {0}
    /\ Frags \in [Packets -> 1 .. num_tx_descr - 1]
    /\ {TxQueueSize, RxQueueSize} \subseteq Nat \ {0}

VARIABLES
    link_up,      \* nhwi->link_up
    allocated,    \* the packets whose memory is not in the pools
    rxQueue,      \* ni->queueIfaceRx
    txQueue,      \* ni->queueIfaceTx
    tx_int_en,    \* nhwi->tx_int_en: a transmission is under way
    mbuf_to_tx,   \* nhwi->mbuf_to_tx
    descr,        \* nhwi->tx_descr[].Packet, as the packet it is a part of
    produce,      \* rMAC_TXPRODUCEINDEX
    consume,      \* rMAC_TXCONSUMEINDEX
    irq,          \* the transmit interrupt: none, TxFinishedInt, TxErrorInt
    collision,    \* LateCollision in the status of the last descriptor
    pc,           \* where each sender is, its packet, head_cnt and tail_cnt
    raced         \* history: two tasks have found the transmitter idle before
                  \* either of them had started it

vars == <<link_up, allocated, rxQueue, txQueue, tx_int_en, mbuf_to_tx, descr,
          produce, consume, irq, collision, pc, raced>>

Indexes == 0 .. num_tx_descr - 1

Idle == [at |-> "idle", mb |-> NoPacket, head |-> 0, tail |-> 0]

Init ==
    /\ link_up \in BOOLEAN
    /\ allocated = {}
    /\ rxQueue = <<>>
    /\ txQueue = <<>>
    /\ tx_int_en = FALSE
    /\ mbuf_to_tx = NoPacket
    /\ descr = [i \in Indexes |-> NoPacket]
    /\ produce = 0
    /\ consume = 0
    /\ irq = "none"
    /\ collision = FALSE
    /\ pc = [u \in Senders |-> Idle]
    /\ raced = FALSE

-----------------------------------------------------------------------------

(* u runs: every task of a higher priority waits, for a packet or, while   *)
(* it handles one, for a lock of the stack.                                *)
Runs(u) == \A v \in Senders : Rank[v] < Rank[u] => pc[v].at \in {"idle", "input"}

At(u, place) == pc[u].at = place /\ Runs(u)

Goto(u, place) == pc' = [pc EXCEPT ![u].at = place]

Leave(u) == pc' = [pc EXCEPT ![u] = Idle]

(* m_freem, m_ifreem *)
Release(m) == allocated' = allocated \ {m}

Step(i, n) == (i + n) % num_tx_descr

(* The descriptors from head to the one in front of tail - 1 *)
Room(head, tail) == (tail - head - 1) % num_tx_descr

(* The loop over the chain finds no descriptor for one of its mbufs.       *)
TxFull(head, tail, m) == Frags[m] > Room(head, tail)

(* The descriptors after that loop, which ends when there is no room       *)
Fill(head, tail, m) ==
    LET n == IF TxFull(head, tail, m) THEN Room(head, tail) ELSE Frags[m]
    IN  [i \in Indexes |-> IF i \in {Step(head, k) : k \in 0 .. n - 1}
                           THEN m ELSE descr[i]]

-----------------------------------------------------------------------------
(* drv_lpc23xx_net_wr                                                      *)

(* A task has a packet to send *)
NetWrite(u) ==
    /\ u # RxTask
    /\ At(u, "idle")
    /\ \E m \in Packets \ allocated :
         /\ allocated' = allocated \cup {m}
         /\ pc' = [pc EXCEPT ![u] = [at |-> "link", mb |-> m, head |-> 0, tail |-> 0]]
    /\ UNCHANGED <<link_up, rxQueue, txQueue, tx_int_en, mbuf_to_tx, descr,
                   produce, consume, irq, collision, raced>>

(* IOCTL_ETH_IS_LINK_UP *)
CheckLink(u) ==
    /\ At(u, "link")
    /\ IF link_up THEN Goto(u, "send") /\ UNCHANGED allocated
                  ELSE Leave(u) /\ Release(pc[u].mb)
    /\ UNCHANGED <<link_up, rxQueue, txQueue, tx_int_en, mbuf_to_tx, descr,
                   produce, consume, irq, collision, raced>>

(* tn_queue_send_polling *)
QueueSend(u) ==
    /\ At(u, "send")
    /\ IF Len(txQueue) < TxQueueSize - 1
       THEN /\ txQueue' = Append(txQueue, pc[u].mb)
            /\ Goto(u, "check")
            /\ UNCHANGED allocated
       ELSE /\ Release(pc[u].mb)
            /\ Leave(u)
            /\ UNCHANGED txQueue
    /\ UNCHANGED <<link_up, rxQueue, tx_int_en, mbuf_to_tx, descr, produce,
                   consume, irq, collision, raced>>

(* Some other task has found the transmitter idle and has not yet started  *)
(* it.                                                                     *)
Starting(u) ==
    \E v \in Senders \ {u} : pc[v].at \in {"receive", "index", "fill", "lock"}

(* Mutant: the queue is looked at even if a transmission is under way.     *)
Always_CheckTx(u) ==
    /\ At(u, "check")
    /\ Goto(u, "receive")
    /\ raced' = (raced \/ Starting(u))
    /\ UNCHANGED <<link_up, allocated, rxQueue, txQueue, tx_int_en, mbuf_to_tx,
                   descr, produce, consume, irq, collision>>

(* IOCTL_ETH_IS_TX_DISABLED.  Nothing keeps a second task from passing     *)
(* this check before the first one has set tx_int_en.                      *)
CheckTx(u) ==
    /\ At(u, "check")
    /\ IF tx_int_en
       THEN Leave(u) /\ UNCHANGED raced
       ELSE Goto(u, "receive") /\ raced' = (raced \/ Starting(u))
    /\ UNCHANGED <<link_up, allocated, rxQueue, txQueue, tx_int_en, mbuf_to_tx,
                   descr, produce, consume, irq, collision>>

(* tn_queue_receive_polling: not always the packet this task has sent      *)
QueueReceive(u) ==
    /\ At(u, "receive")
    /\ IF txQueue = <<>>
       THEN Leave(u) /\ UNCHANGED txQueue
       ELSE /\ pc' = [pc EXCEPT ![u].at = "index", ![u].mb = Head(txQueue)]
            /\ txQueue' = Tail(txQueue)
    /\ UNCHANGED <<link_up, allocated, rxQueue, tx_int_en, mbuf_to_tx, descr,
                   produce, consume, irq, collision, raced>>

-----------------------------------------------------------------------------
(* drv_lpc23xx_net_tx_data, called by a task                               *)

(* head_cnt = rMAC_TXPRODUCEINDEX; tail_cnt = rMAC_TXCONSUMEINDEX *)
ReadIndex(u) ==
    /\ At(u, "index")
    /\ pc' = [pc EXCEPT ![u].at = "fill", ![u].head = produce, ![u].tail = consume]
    /\ UNCHANGED <<link_up, allocated, rxQueue, txQueue, tx_int_en, mbuf_to_tx,
                   descr, produce, consume, irq, collision, raced>>

(* TxReset: the MAC forgets the descriptors it has not transmitted yet.    *)
TxReset == consume' = produce

(* The loop over the chain.  If the descriptors do not suffice the packet  *)
(* is freed, the transmission stopped and mbuf_to_tx forgotten.            *)
FillDescriptors(u) ==
    LET r == pc[u]
    IN  /\ At(u, "fill")
        /\ descr' = Fill(r.head, r.tail, r.mb)
        /\ IF TxFull(r.head, r.tail, r.mb)
           THEN /\ Release(r.mb)
                /\ TxReset
                /\ mbuf_to_tx' = NoPacket
                /\ tx_int_en' = FALSE
                /\ Leave(u)
           ELSE /\ Goto(u, "lock")
                /\ UNCHANGED <<allocated, consume, mbuf_to_tx, tx_int_en>>
        /\ UNCHANGED <<link_up, rxQueue, txQueue, produce, irq, collision, raced>>

(* MAC_TX_LOCK ... MAC_TX_UNLOCK *)
SetToTx(u) ==
    /\ At(u, "lock")
    /\ mbuf_to_tx' = pc[u].mb
    /\ tx_int_en' = TRUE
    /\ Goto(u, "start")
    /\ UNCHANGED <<link_up, allocated, rxQueue, txQueue, descr, produce,
                   consume, irq, collision, raced>>

(* rMAC_TXPRODUCEINDEX = head_cnt *)
StartTx(u) ==
    /\ At(u, "start")
    /\ produce' = Step(pc[u].head, Frags[pc[u].mb])
    /\ Leave(u)
    /\ UNCHANGED <<link_up, allocated, rxQueue, txQueue, tx_int_en, mbuf_to_tx,
                   descr, consume, irq, collision, raced>>

-----------------------------------------------------------------------------
(* The MAC                                                                 *)

(* One descriptor is transmitted; after the last one the MAC interrupts,   *)
(* and may report a late collision.                                        *)
MacTransmit ==
    /\ produce # consume
    /\ irq # "error"
    /\ consume' = Step(consume, 1)
    /\ IF consume' = produce
       THEN irq' = "finished" /\ collision' \in BOOLEAN
       ELSE collision' = FALSE /\ UNCHANGED irq
    /\ UNCHANGED <<link_up, allocated, rxQueue, txQueue, tx_int_en, mbuf_to_tx,
                   descr, produce, pc, raced>>

(* A frame is given up before its last descriptor: the MAC interrupts and  *)
(* stands still.                                                           *)
MacAbort ==
    /\ produce # consume
    /\ irq # "error"
    /\ irq' = "error"
    /\ collision' \in BOOLEAN
    /\ UNCHANGED <<link_up, allocated, rxQueue, txQueue, tx_int_en, mbuf_to_tx,
                   descr, produce, consume, pc, raced>>

-----------------------------------------------------------------------------
(* drv_lpc23xx_net_int                                                     *)

(* drv_lpc23xx_net_tx_data, called by the handler with packet m after it   *)
(* has brought consume up to produce: all descriptors but one are free, so *)
(* the chain fits.                                                         *)
TxDataInt(m) ==
    /\ descr' = Fill(produce, produce, m)
    /\ mbuf_to_tx' = m
    /\ tx_int_en' = TRUE
    /\ produce' = Step(produce, Frags[m])

StopTx ==
    /\ mbuf_to_tx' = NoPacket
    /\ tx_int_en' = FALSE
    /\ UNCHANGED <<descr, produce>>

(* The next packet of the queue *)
SendNext ==
    IF txQueue # <<>> THEN TxDataInt(Head(txQueue)) /\ txQueue' = Tail(txQueue)
                      ELSE StopTx /\ UNCHANGED txQueue

(* Mutants: the packet that was transmitted is not freed; the next packet  *)
(* is not looked for.                                                      *)
Keep_TxInterrupt ==
    /\ irq # "none"
    /\ irq' = "none"
    /\ TxReset
    /\ SendNext
    /\ UNCHANGED <<link_up, allocated, rxQueue, collision, pc, raced>>

Stop_TxInterrupt ==
    /\ irq # "none"
    /\ irq' = "none"
    /\ TxReset
    /\ Release(mbuf_to_tx)
    /\ StopTx
    /\ UNCHANGED <<link_up, rxQueue, txQueue, collision, pc, raced>>

(* TxFinishedInt, TxErrorInt.  Descriptors that are left over are dropped. *)
(* After a late collision the packet is sent again, otherwise it is freed  *)
(* and the next one of the queue is sent.                                  *)
TxInterrupt ==
    /\ irq # "none"
    /\ irq' = "none"
    /\ TxReset
    /\ IF ~collision
       THEN Release(mbuf_to_tx) /\ SendNext
       ELSE /\ IF mbuf_to_tx # NoPacket THEN TxDataInt(mbuf_to_tx) ELSE StopTx
            /\ UNCHANGED <<allocated, txQueue>>
    /\ UNCHANGED <<link_up, rxQueue, collision, pc, raced>>

(* RxDoneInt: a frame gets memory from the pools and is queued for the     *)
(* receive task.  (A frame with an error, without memory or without room   *)
(* in the queue is dropped, and its memory is free again.)                 *)
RxInterrupt ==
    /\ Len(rxQueue) < RxQueueSize - 1
    /\ \E m \in Packets \ allocated :
         /\ rxQueue' = Append(rxQueue, m)
         /\ allocated' = allocated \cup {m}
    /\ UNCHANGED <<link_up, txQueue, tx_int_en, mbuf_to_tx, descr, produce,
                   consume, irq, collision, pc, raced>>

-----------------------------------------------------------------------------
(* net_iface1_rx_task_func                                                 *)

RxReceive ==
    /\ At(RxTask, "idle")
    /\ rxQueue # <<>>
    /\ pc' = [pc EXCEPT ![RxTask] = [at |-> "input", mb |-> Head(rxQueue),
                                      head |-> 0, tail |-> 0]]
    /\ rxQueue' = Tail(rxQueue)
    /\ UNCHANGED <<link_up, allocated, txQueue, tx_int_en, mbuf_to_tx, descr,
                   produce, consume, irq, collision, raced>>

(* The packet is freed, or (an ARP request, an ICMP echo) sent back.       *)
RxInput ==
    /\ At(RxTask, "input")
    /\ \/ Release(pc[RxTask].mb) /\ Leave(RxTask)
       \/ Goto(RxTask, "link") /\ UNCHANGED allocated
    /\ UNCHANGED <<link_up, rxQueue, txQueue, tx_int_en, mbuf_to_tx, descr,
                   produce, consume, irq, collision, raced>>

-----------------------------------------------------------------------------

TaskStep(u) ==
    \/ CheckLink(u)
    \/ QueueSend(u)
    \/ CheckTx(u)
    \/ QueueReceive(u)
    \/ ReadIndex(u)
    \/ FillDescriptors(u)
    \/ SetToTx(u)
    \/ StartTx(u)

Next ==
    \/ \E u \in Senders : NetWrite(u) \/ TaskStep(u)
    \/ MacTransmit
    \/ MacAbort
    \/ TxInterrupt
    \/ RxInterrupt
    \/ RxReceive
    \/ RxInput

Spec == Init /\ [][Next]_vars

(* The MAC is done with a frame *)
FrameEnds == (MacTransmit \/ MacAbort) /\ irq' # irq

(* The receive task runs when it is ready, the other tasks whenever those  *)
(* of a higher priority wait, which they do again and again.  The MAC and  *)
(* its interrupt are not stopped, and late collisions do not go on for     *)
(* ever.                                                                   *)
Fairness ==
    /\ \A u \in Senders : SF_vars(TaskStep(u))
    /\ WF_vars(RxReceive)
    /\ WF_vars(RxInput)
    /\ WF_vars(MacTransmit)
    /\ SF_vars(FrameEnds /\ ~collision')
    /\ WF_vars(TxInterrupt)

FairSpec == Spec /\ Fairness

-----------------------------------------------------------------------------
(* Properties                                                              *)

(* The users of a packet: a task that has not handed it on yet, a queue,   *)
(* and nhwi->mbuf_to_tx                                                    *)
Users(m) ==
    {<<"task", u>> : u \in {v \in Senders : /\ pc[v].mb = m
                                            /\ pc[v].at \notin {"check", "receive", "start"}}}
      \cup {<<"tx", i>> : i \in {j \in DOMAIN txQueue : txQueue[j] = m}}
      \cup {<<"rx", i>> : i \in {j \in DOMAIN rxQueue : rxQueue[j] = m}}
      \cup {<<"mbuf_to_tx", p>> : p \in {mbuf_to_tx} \cap {m}}

(* The memory of a packet is freed once, when nobody uses it any more:     *)
(* free packets have no user and the others no two, whatever tasks,        *)
(* interrupts and full queues come in between, and even when two tasks     *)
(* start the transmitter at a time.  As long as that has not happened a    *)
(* packet the driver keeps has a user that will free it ("To free mbuf     *)
(* after tx ending": the one that is transmitted has mbuf_to_tx);          *)
(* afterwards the packet of the first of the two may be lost.              *)
OneUser ==
    \A m \in Packets :
        /\ Cardinality(Users(m)) <= 1
        /\ Users(m) # {} => m \in allocated
        /\ m \in allocated /\ ~raced => Users(m) # {}

(* "We transmit only a single frame per session": as long as no two tasks  *)
(* have started the transmitter at a time, the MAC reads only the packet   *)
(* that is kept for it in mbuf_to_tx, never memory that the handler has    *)
(* given back or a descriptor that another task has overwritten.           *)
FrameKept ==
    raced \/ \A k \in 0 .. ((produce - consume) % num_tx_descr) - 1 :
                 descr[Step(consume, k)] = mbuf_to_tx

(* Every packet is freed in the end, unless two tasks start the            *)
(* transmitter at a time: none stays in the queue although the tasks       *)
(* decide outside of the handler whether a transmission is under way, and  *)
(* none is sent again for ever.                                            *)
PacketsLeave == \A m \in Packets : m \in allocated ~> m \notin allocated \/ raced

=============================================================================
