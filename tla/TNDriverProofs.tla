--------------------------- MODULE TNDriverProofs ---------------------------
(***************************************************************************)
(* The Ethernet driver, for any number of tasks, packets and descriptors   *)
(* and any size of the queues: no packet is freed twice or used after it   *)
(* was freed, and, as long as no two tasks have started the transmitter at *)
(* a time, none is lost and the MAC reads no other packet than the one     *)
(* that is kept for it.                                                    *)
(*                                                                         *)
(* The argument: a packet is always handed on, by tasks, queues and        *)
(* mbuf_to_tx.  tx_int_en is the lock of the transmitter.  While it is     *)
(* FALSE the MAC is idle, all descriptors but one are free and mbuf_to_tx  *)
(* is empty; the handler does not run until the task that has seen it      *)
(* FALSE sets it itself, and without a race no other task has.             *)
(***************************************************************************)
EXTENDS TNDriver, TNListProofs

Places == [at : {"idle", "input", "link", "send", "check", "receive", "index",
                 "fill", "lock", "start"},
           mb : Packets \cup {NoPacket}, head : Indexes, tail : Indexes]

(* The type invariant.  A task that is not idle has a packet, or had it.   *)
TypeOK ==
    /\ link_up \in BOOLEAN
    /\ allocated \in SUBSET Packets
    /\ rxQueue \in Seq(Packets)
    /\ txQueue \in Seq(Packets)
    /\ tx_int_en \in BOOLEAN
    /\ mbuf_to_tx \in Packets \cup {NoPacket}
    /\ descr \in [Indexes -> Packets \cup {NoPacket}]
    /\ produce \in Indexes
    /\ consume \in Indexes
    /\ irq \in {"none", "finished", "error"}
    /\ collision \in BOOLEAN
    /\ pc \in [Senders -> Places]
    /\ \A u \in Senders : pc[u].mb = NoPacket <=> pc[u].at = "idle"
    /\ raced \in BOOLEAN

(* A task that has found the transmitter idle *)
Busy(r) == r.at \in {"receive", "index", "fill", "lock", "start"}

(* A task that has its packet and has not handed it on *)
Holds(r) == r.at \notin {"idle", "check", "receive", "start"}

Turns == \A u, v \in Senders : Busy(pc[u]) /\ Busy(pc[v]) => u = v

(* tx_int_en tells whether the transmitter is in use.                      *)
Transmitter ==
    IF tx_int_en THEN mbuf_to_tx # NoPacket
                 ELSE mbuf_to_tx = NoPacket /\ irq = "none" /\ produce = consume

(* The descriptors of packet m from index head on are filled.              *)
Filled(d, head, m) == \A k \in 0 .. Frags[m] - 1 : d[Step(head, k)] = m

(* What a task at r knows that has seen tx_int_en FALSE                    *)
TaskOK(r) ==
    /\ r.at \in {"receive", "index", "fill", "lock"} => ~tx_int_en
    /\ r.at = "fill" => r.tail = consume
    /\ r.at \in {"fill", "lock", "start"} => r.head = produce /\ produce = consume
    /\ r.at \in {"lock", "start"} => Filled(descr, r.head, r.mb)
    /\ r.at = "start" => tx_int_en /\ irq = "none" /\ mbuf_to_tx = r.mb

(* Whoever has a packet has allocated memory, no packet is had by two, and *)
(* none is left behind (unless lost); p is pc, mem is allocated, Q and R   *)
(* are the packets of the queues, X is mbuf_to_tx.                         *)
Shares(p, mem, Q, R, X, lost) ==
    /\ \A u, v \in Senders : Holds(p[u]) /\ Holds(p[v]) /\ p[u].mb = p[v].mb => u = v
    /\ \A u \in Senders : Holds(p[u]) => p[u].mb \in mem \ (Q \cup R \cup {X})
    /\ X \notin Q \cup R /\ Q \cap R = {}
    /\ Q \cup R \cup ({X} \ {NoPacket}) \subseteq mem
    /\ \A m \in mem :
         \/ lost
         \/ m \in Q \cup R \cup {X}
         \/ \E u \in Senders : Holds(p[u]) /\ p[u].mb = m

Ownership ==
    \E Q, R \in SUBSET Packets :
        Lists(txQueue, Q) /\ Lists(rxQueue, R) /\ Shares(pc, allocated, Q, R, mbuf_to_tx, raced)

(* How the transmitter is used as long as there is no race                 *)
Session ==
    /\ Turns
    /\ Transmitter
    /\ \A u \in Senders : TaskOK(pc[u])
    /\ FrameKept

IInv ==
    /\ TypeOK
    /\ Ownership
    /\ raced \/ Session

-----------------------------------------------------------------------------
(* The ring of descriptors                                                 *)

LEMMA Modulo ==
    ASSUME NEW n \in Nat, n > 0, NEW a \in 0 .. n - 1
    PROVE  a % n = a /\ (a + n) % n = a /\ (a - n) % n = a
OBVIOUS

(* Going k descriptors on from i *)
LEMMA StepValue ==
    ASSUME NEW i \in Indexes, NEW k \in Indexes
    PROVE  /\ Step(i, k) \in Indexes
           /\ Step(i, k) = IF i + k < num_tx_descr THEN i + k ELSE i + k - num_tx_descr
<1> DEFINE n == num_tx_descr
<1>1. n \in Nat /\ n > 0 /\ i \in 0 .. n - 1 /\ k \in 0 .. n - 1
  BY DriverAssumption DEF Indexes
<1> HIDE DEF n
<1>2. CASE i + k < n
  <2>1. i + k \in 0 .. n - 1
    BY <1>1, <1>2
  <2> QED BY <1>1, <1>2, <2>1, Modulo DEF Step, Indexes, n
<1>3. CASE ~(i + k < n)
  <2>1. i + k - n \in 0 .. n - 1 /\ (i + k - n) + n = i + k
    BY <1>1, <1>3
  <2>2. (i + k) % n = i + k - n
    BY <1>1, <2>1, Modulo
  <2> QED BY <1>3, <2>1, <2>2 DEF Step, Indexes, n
<1> QED
  BY <1>2, <1>3

(* The descriptors between c and p *)
LEMMA Between ==
    ASSUME NEW c \in Indexes, NEW p \in Indexes
    PROVE  (p - c) % num_tx_descr = IF c <= p THEN p - c ELSE p - c + num_tx_descr
<1> DEFINE n == num_tx_descr
<1>1. n \in Nat /\ n > 0 /\ p \in 0 .. n - 1 /\ c \in 0 .. n - 1
  BY DriverAssumption DEF Indexes
<1> HIDE DEF n
<1>2. CASE c <= p
  <2>1. p - c \in 0 .. n - 1
    BY <1>1, <1>2
  <2> QED BY <1>1, <1>2, <2>1, Modulo DEF n
<1>3. CASE ~(c <= p)
  <2>1. p - c + n \in 0 .. n - 1 /\ (p - c + n) - n = p - c
    BY <1>1, <1>3
  <2>2. (p - c) % n = p - c + n
    BY <1>1, <2>1, Modulo
  <2> QED BY <1>3, <2>2 DEF n
<1> QED
  BY <1>2, <1>3

(* When the MAC has read everything there is room for every packet, and it *)
(* is written to the descriptors from head on.                             *)
LEMMA FillFits ==
    ASSUME NEW head \in Indexes, NEW m \in Packets,
           descr \in [Indexes -> Packets \cup {NoPacket}]
    PROVE  /\ ~TxFull(head, head, m)
           /\ Fill(head, head, m) \in [Indexes -> Packets \cup {NoPacket}]
           /\ Filled(Fill(head, head, m), head, m)
<1> DEFINE n == num_tx_descr
<1>1. n \in Nat /\ n > 0 /\ head \in 0 .. n - 1 /\ Frags[m] \in 1 .. n - 1
  BY DriverAssumption DEF Indexes
<1>2. Room(head, head) = n - 1
  <2>1. n - 1 \in 0 .. n - 1 /\ (n - 1) - n = head - head - 1
    BY <1>1
  <2> HIDE DEF n
  <2>2. ((n - 1) - n) % n = n - 1
    BY <1>1, <2>1, Modulo
  <2> QED BY <2>1, <2>2 DEF Room, n
<1>3. ~TxFull(head, head, m)
  BY <1>1, <1>2 DEF TxFull
<1>4. Fill(head, head, m) =
        [i \in Indexes |-> IF i \in {Step(head, k) : k \in 0 .. Frags[m] - 1}
                           THEN m ELSE descr[i]]
  BY <1>3 DEF Fill
<1>5. \A k \in 0 .. Frags[m] - 1 : k \in Indexes
  BY <1>1 DEF Indexes
<1>6. \A k \in 0 .. Frags[m] - 1 : Step(head, k) \in Indexes
  BY <1>5, StepValue
<1>7. Filled(Fill(head, head, m), head, m)
  BY <1>4, <1>6 DEF Filled
<1> QED
  BY <1>3, <1>4, <1>7

(* A frame that has been filled is kept when the MAC may read it.          *)
LEMMA FrameStarted ==
    ASSUME NEW head \in Indexes, NEW m \in Packets, NEW d, Filled(d, head, m)
    PROVE  /\ Step(head, Frags[m]) \in Indexes
           /\ \A k \in 0 .. ((Step(head, Frags[m]) - head) % num_tx_descr) - 1 :
                 d[Step(head, k)] = m
<1> DEFINE n == num_tx_descr
           f == Frags[m]
           p == Step(head, f)
<1>1. n \in Nat /\ n > 0 /\ head \in 0 .. n - 1 /\ f \in 1 .. n - 1
  BY DriverAssumption DEF Indexes
<1>2. f \in Indexes
  BY <1>1 DEF Indexes
<1>3. p \in Indexes /\ p = IF head + f < n THEN head + f ELSE head + f - n
  BY <1>2, StepValue
<1> HIDE DEF p, f
<1>4. (p - head) % n = IF head <= p THEN p - head ELSE p - head + n
  BY <1>3, Between
<1>5. (p - head) % n = f
  BY <1>1, <1>3, <1>4
<1> QED
  BY <1>3, <1>5 DEF Filled, p, f

(* The MAC goes on by one descriptor.                                      *)
LEMMA FrameContinues ==
    ASSUME NEW c \in Indexes, NEW p \in Indexes, c # p
    PROVE  /\ Step(c, 1) \in Indexes
           /\ \A k \in 0 .. ((p - Step(c, 1)) % num_tx_descr) - 1 :
                /\ k + 1 \in 0 .. ((p - c) % num_tx_descr) - 1
                /\ Step(Step(c, 1), k) = Step(c, k + 1)
<1> DEFINE n == num_tx_descr
           s == Step(c, 1)
<1>1. n \in Nat /\ n > 1 /\ c \in 0 .. n - 1 /\ p \in 0 .. n - 1
  BY DriverAssumption DEF Indexes
<1>2. 1 \in Indexes
  BY <1>1 DEF Indexes
<1>3. s \in Indexes /\ s = IF c + 1 < n THEN c + 1 ELSE c + 1 - n
  BY <1>2, StepValue
<1> HIDE DEF s
<1>4. (p - s) % n = IF s <= p THEN p - s ELSE p - s + n
  BY <1>3, Between
<1>5. (p - c) % n = IF c <= p THEN p - c ELSE p - c + n
  BY Between
<1>6. ASSUME NEW k \in 0 .. ((p - s) % n) - 1
      PROVE  k + 1 \in 0 .. ((p - c) % n) - 1 /\ Step(s, k) = Step(c, k + 1)
  <2>1. s \in 0 .. n - 1
    BY <1>3 DEF Indexes
  <2>2. k \in 0 .. n - 1 /\ k + 1 \in 0 .. n - 1 /\ k + 1 \in 0 .. ((p - c) % n) - 1
    BY <1>1, <1>3, <1>4, <1>5, <2>1
  <2>3. k \in Indexes /\ k + 1 \in Indexes
    BY <2>2 DEF Indexes
  <2>4. Step(s, k) = IF s + k < n THEN s + k ELSE s + k - n
    BY <1>3, <2>3, StepValue
  <2>5. Step(c, k + 1) = IF c + (k + 1) < n THEN c + (k + 1) ELSE c + (k + 1) - n
    BY <2>3, StepValue
  <2> QED BY <1>1, <1>3, <2>1, <2>2, <2>4, <2>5
<1> QED
  BY <1>3, <1>6 DEF s

-----------------------------------------------------------------------------
(* The tasks                                                               *)

(* The places of the tasks after u has gone to r *)
LEMMA PlaceUpdate ==
    ASSUME TypeOK, NEW u \in Senders, NEW r \in Places,
           pc' = [pc EXCEPT ![u] = r]
    PROVE  /\ pc' \in [Senders -> Places]
           /\ \A v \in Senders : pc'[v] = IF v = u THEN r ELSE pc[v]
BY DEF TypeOK

(* A step of task u that does not touch the transmitter                    *)
LEMMA TaskMove ==
    ASSUME IInv, NEW u \in Senders, NEW r \in Places,
           r.mb = NoPacket <=> r.at = "idle",
           pc' = [pc EXCEPT ![u] = r],
           UNCHANGED <<link_up, tx_int_en, mbuf_to_tx, descr, produce, consume,
                       irq, collision>>,
           raced' \in BOOLEAN, raced => raced',
           ~raced' => /\ \/ ~Busy(r)
                         \/ Busy(pc[u])
                         \/ \A v \in Senders : v # u => ~Busy(pc[v])
                      /\ TaskOK(r),
           allocated' \in SUBSET Packets,
           rxQueue' \in Seq(Packets), txQueue' \in Seq(Packets),
           Ownership'
    PROVE  IInv'
<1>1. TypeOK
  BY DEF IInv
<1>2. /\ pc' \in [Senders -> Places]
      /\ \A v \in Senders : pc'[v] = IF v = u THEN r ELSE pc[v]
  BY <1>1, PlaceUpdate
<1>3. TypeOK'
  BY <1>1, <1>2 DEF TypeOK
<1>4. ASSUME ~raced' PROVE Session'
  <2>1. Turns /\ Transmitter /\ FrameKept /\ ~raced /\ \A v \in Senders : TaskOK(pc[v])
    BY <1>4 DEF IInv, Session
  <2>2. Turns'
    BY <1>2, <1>4, <2>1 DEF Turns, Busy
  <2>3. Transmitter' /\ FrameKept'
    BY <1>4, <2>1 DEF Transmitter, FrameKept
  <2>4. ASSUME NEW v \in Senders PROVE TaskOK(pc[v])'
    <3>1. TaskOK(pc'[v])
      BY <1>2, <1>4, <2>1
    <3> QED BY <3>1 DEF TaskOK
  <2> QED BY <2>2, <2>3, <2>4 DEF Session
<1> QED
  BY <1>3, <1>4 DEF IInv

(* Ownership after a step in which task u goes to r and mbuf_to_tx stays   *)

(* u keeps its packet, or has none before and after.                       *)
LEMMA OwnKeep ==
    ASSUME IInv, NEW u \in Senders, NEW r \in Places, pc' = [pc EXCEPT ![u] = r],
           UNCHANGED <<allocated, rxQueue, txQueue, mbuf_to_tx>>, raced => raced',
           Holds(pc[u]) <=> r.at \notin {"idle", "check", "receive", "start"},
           Holds(pc[u]) => r.mb = pc[u].mb
    PROVE  Ownership'
<1>1. PICK Q, R \in SUBSET Packets :
        Lists(txQueue, Q) /\ Lists(rxQueue, R) /\ Shares(pc, allocated, Q, R, mbuf_to_tx, raced)
  BY DEF IInv, Ownership
<1>2. \A v \in Senders : pc'[v] = IF v = u THEN r ELSE pc[v]
  BY PlaceUpdate DEF IInv
<1>3. \A v \in Senders : (Holds(pc'[v]) <=> Holds(pc[v])) /\ (Holds(pc[v]) => pc'[v].mb = pc[v].mb)
  BY <1>2 DEF Holds
<1>4. Shares(pc', allocated', Q, R, mbuf_to_tx', raced')
  BY <1>1, <1>3 DEF Shares
<1> QED
  BY <1>1, <1>4 DEF Ownership

(* u frees its packet.                                                     *)
LEMMA OwnFree ==
    ASSUME IInv, NEW u \in Senders, pc' = [pc EXCEPT ![u] = Idle], Holds(pc[u]),
           allocated' = allocated \ {pc[u].mb},
           UNCHANGED <<rxQueue, txQueue, mbuf_to_tx>>, raced => raced'
    PROVE  Ownership' /\ allocated' \in SUBSET Packets
<1> USE DriverAssumption
<1>1. PICK Q, R \in SUBSET Packets :
        Lists(txQueue, Q) /\ Lists(rxQueue, R) /\ Shares(pc, allocated, Q, R, mbuf_to_tx, raced)
  BY DEF IInv, Ownership
<1>2. \A v \in Senders : pc'[v] = IF v = u THEN Idle ELSE pc[v]
  BY DEF IInv, TypeOK
<1>3. \A v \in Senders : /\ Holds(pc'[v]) <=> Holds(pc[v]) /\ v # u
                         /\ Holds(pc'[v]) => pc'[v].mb = pc[v].mb
  BY <1>2 DEF Holds, Idle
<1>4. pc[u].mb \in allocated \ (Q \cup R \cup {mbuf_to_tx})
  BY <1>1 DEF Shares
<1>5. Shares(pc', allocated', Q, R, mbuf_to_tx', raced')
  <2>1. \A m \in allocated' : \/ raced'
                              \/ m \in Q \cup R \cup {mbuf_to_tx}
                              \/ \E v \in Senders : Holds(pc'[v]) /\ pc'[v].mb = m
    BY <1>1, <1>3 DEF Shares
  <2>2. \A v \in Senders : Holds(pc'[v]) => pc'[v].mb # pc[u].mb
    BY <1>1, <1>3 DEF Shares
  <2> QED BY <1>1, <1>3, <1>4, <2>1, <2>2 DEF Shares
<1> QED
  BY <1>1, <1>5 DEF Ownership, IInv, TypeOK

(* u allocates packet m.                                                   *)
LEMMA OwnGet ==
    ASSUME IInv, NEW u \in Senders, NEW m \in Packets \ allocated,
           NEW r \in Places, r.mb = m, r.at = "link", ~Holds(pc[u]),
           pc' = [pc EXCEPT ![u] = r],
           allocated' = allocated \cup {m},
           UNCHANGED <<rxQueue, txQueue, mbuf_to_tx>>, raced => raced'
    PROVE  Ownership' /\ allocated' \in SUBSET Packets
<1> USE DriverAssumption
<1>1. PICK Q, R \in SUBSET Packets :
        Lists(txQueue, Q) /\ Lists(rxQueue, R) /\ Shares(pc, allocated, Q, R, mbuf_to_tx, raced)
  BY DEF IInv, Ownership
<1>2. \A v \in Senders : pc'[v] = IF v = u THEN r ELSE pc[v]
  BY PlaceUpdate DEF IInv
<1>3. \A v \in Senders : /\ Holds(pc'[v]) <=> Holds(pc[v]) \/ v = u
                         /\ v # u => pc'[v].mb = pc[v].mb
                         /\ pc'[u].mb = m
  BY <1>2 DEF Holds
<1>4. m \notin Q \cup R \cup {mbuf_to_tx} /\ \A v \in Senders : Holds(pc[v]) => pc[v].mb # m
  BY <1>1 DEF Shares
<1>5. Shares(pc', allocated', Q, R, mbuf_to_tx', raced')
  <2>1. \A x \in allocated' : \/ raced'
                              \/ x \in Q \cup R \cup {mbuf_to_tx}
                              \/ \E v \in Senders : Holds(pc'[v]) /\ pc'[v].mb = x
    BY <1>1, <1>3 DEF Shares
  <2> QED BY <1>1, <1>3, <1>4, <2>1 DEF Shares
<1> QED
  BY <1>1, <1>5 DEF Ownership, IInv, TypeOK

(* u puts its packet into the transmit queue.                              *)
LEMMA OwnSend ==
    ASSUME IInv, NEW u \in Senders, NEW r \in Places, r.at = "check", Holds(pc[u]),
           pc' = [pc EXCEPT ![u] = r],
           txQueue' = Append(txQueue, pc[u].mb),
           UNCHANGED <<allocated, rxQueue, mbuf_to_tx>>, raced => raced'
    PROVE  Ownership' /\ txQueue' \in Seq(Packets)
<1>1. PICK Q, R \in SUBSET Packets :
        Lists(txQueue, Q) /\ Lists(rxQueue, R) /\ Shares(pc, allocated, Q, R, mbuf_to_tx, raced)
  BY DEF IInv, Ownership
<1> DEFINE m == pc[u].mb
<1>2. \A v \in Senders : pc'[v] = IF v = u THEN r ELSE pc[v]
  BY PlaceUpdate DEF IInv
<1>3. \A v \in Senders : /\ Holds(pc'[v]) <=> Holds(pc[v]) /\ v # u
                         /\ v # u => pc'[v].mb = pc[v].mb
  BY <1>2 DEF Holds
<1>4. m \in allocated \ (Q \cup R \cup {mbuf_to_tx}) /\ m \in Packets
  BY <1>1 DEF Shares, IInv, TypeOK
<1>5. \A v \in Senders : Holds(pc[v]) /\ v # u => pc[v].mb # m
  BY <1>1 DEF Shares
<1>6. txQueue' \in Seq(Packets) /\ Lists(txQueue', Q \cup {m})
  BY <1>1, <1>4, ListsAppend DEF IInv, TypeOK
<1> HIDE DEF m
<1>7. Shares(pc', allocated', Q \cup {m}, R, mbuf_to_tx', raced')
  <2>1. \A x \in allocated' : \/ raced'
                              \/ x \in (Q \cup {m}) \cup R \cup {mbuf_to_tx}
                              \/ \E v \in Senders : Holds(pc'[v]) /\ pc'[v].mb = x
    BY <1>1, <1>3 DEF Shares, m
  <2> QED BY <1>1, <1>3, <1>4, <1>5, <2>1 DEF Shares
<1> QED
  BY <1>1, <1>4, <1>6, <1>7 DEF Ownership

(* u takes the first packet of the transmit queue, or of the receive queue.*)
LEMMA OwnReceive ==
    ASSUME IInv, NEW u \in Senders, NEW r \in Places, Holds(r), ~Holds(pc[u]),
           pc' = [pc EXCEPT ![u] = r],
           \/ /\ txQueue # <<>> /\ r.mb = Head(txQueue)
              /\ txQueue' = Tail(txQueue) /\ rxQueue' = rxQueue
           \/ /\ rxQueue # <<>> /\ r.mb = Head(rxQueue)
              /\ rxQueue' = Tail(rxQueue) /\ txQueue' = txQueue,
           UNCHANGED <<allocated, mbuf_to_tx>>, raced => raced'
    PROVE  Ownership' /\ txQueue' \in Seq(Packets) /\ rxQueue' \in Seq(Packets)
<1>1. PICK Q, R \in SUBSET Packets :
        Lists(txQueue, Q) /\ Lists(rxQueue, R) /\ Shares(pc, allocated, Q, R, mbuf_to_tx, raced)
  BY DEF IInv, Ownership
<1>2. \A v \in Senders : pc'[v] = IF v = u THEN r ELSE pc[v]
  BY PlaceUpdate DEF IInv
<1>3. txQueue \in Seq(Packets) /\ rxQueue \in Seq(Packets)
  BY DEF IInv, TypeOK
<1>4. /\ txQueue' \in Seq(Packets) /\ rxQueue' \in Seq(Packets)
      /\ r.mb \in Q \cup R
      /\ Lists(txQueue', Q \ {r.mb}) /\ Lists(rxQueue', R \ {r.mb})
  <2>1. CASE /\ txQueue # <<>> /\ r.mb = Head(txQueue)
             /\ txQueue' = Tail(txQueue) /\ rxQueue' = rxQueue
    <3>1. r.mb \in Q /\ txQueue' \in Seq(Packets) /\ Lists(txQueue', Q \ {r.mb})
      BY <1>1, <1>3, <2>1, ListsTail
    <3>2. R \ {r.mb} = R
      BY <1>1, <3>1 DEF Shares
    <3> QED BY <1>1, <1>3, <2>1, <3>1, <3>2
  <2>2. CASE /\ rxQueue # <<>> /\ r.mb = Head(rxQueue)
             /\ rxQueue' = Tail(rxQueue) /\ txQueue' = txQueue
    <3>1. r.mb \in R /\ rxQueue' \in Seq(Packets) /\ Lists(rxQueue', R \ {r.mb})
      BY <1>1, <1>3, <2>2, ListsTail
    <3>2. Q \ {r.mb} = Q
      BY <1>1, <3>1 DEF Shares
    <3> QED BY <1>1, <1>3, <2>2, <3>1, <3>2
  <2> QED BY <2>1, <2>2
<1>5. Shares(pc', allocated', Q \ {r.mb}, R \ {r.mb}, mbuf_to_tx', raced')
  <2>1. \A x \in allocated' : \/ raced'
                              \/ x \in (Q \ {r.mb}) \cup (R \ {r.mb}) \cup {mbuf_to_tx}
                              \/ \E v \in Senders : Holds(pc'[v]) /\ pc'[v].mb = x
    BY <1>1, <1>2 DEF Shares
  <2>2. \A v \in Senders : Holds(pc[v]) => pc[v].mb # r.mb
    BY <1>1, <1>4 DEF Shares
  <2> QED BY <1>1, <1>2, <1>4, <2>1, <2>2 DEF Shares
<1> QED
  BY <1>1, <1>4, <1>5 DEF Ownership

-----------------------------------------------------------------------------
(* The steps of the tasks                                                  *)

LEMMA PlacesOK ==
    /\ Idle \in Places /\ Idle.mb = NoPacket /\ Idle.at = "idle" /\ TaskOK(Idle)
    /\ ~Busy(Idle)
    /\ \A m \in Packets, at \in {"link", "input"} :
         LET r == [at |-> at, mb |-> m, head |-> 0, tail |-> 0]
         IN  r \in Places /\ r.mb = m /\ r.at = at /\ TaskOK(r) /\ ~Busy(r)
<1>1. 0 \in Indexes
  BY DriverAssumption DEF Indexes
<1> QED
  BY <1>1 DEF Idle, Places, TaskOK, Busy

(* u goes on to another place in drv_lpc23xx_net_wr.                       *)
LEMMA GotoPlace ==
    ASSUME TypeOK, NEW u \in Senders, NEW place \in {"link", "send", "check", "receive", "lock", "start"},
           Goto(u, place), pc[u].at # "idle"
    PROVE  \E r \in Places :
             /\ pc' = [pc EXCEPT ![u] = r]
             /\ r.at = place /\ r.mb = pc[u].mb /\ r.head = pc[u].head
             /\ r.tail = pc[u].tail /\ r.mb # NoPacket
<1> DEFINE r == [pc[u] EXCEPT !.at = place]
<1>1. pc[u] \in Places /\ pc[u].mb # NoPacket
  BY DEF TypeOK
<1>2. /\ r \in Places /\ r.at = place /\ r.mb = pc[u].mb /\ r.head = pc[u].head
      /\ r.tail = pc[u].tail
  BY <1>1 DEF Places
<1>3. pc' = [pc EXCEPT ![u] = r]
  BY DEF Goto
<1> QED
  BY <1>1, <1>2, <1>3

LEMMA NetWriteStep ==
    ASSUME IInv, NEW u \in Senders, NetWrite(u)
    PROVE  IInv'
<1>1. PICK m \in Packets \ allocated :
        /\ allocated' = allocated \cup {m}
        /\ pc' = [pc EXCEPT ![u] = [at |-> "link", mb |-> m, head |-> 0, tail |-> 0]]
  BY DEF NetWrite
<1> DEFINE r == [at |-> "link", mb |-> m, head |-> 0, tail |-> 0]
<1>2. r \in Places /\ r.mb = m /\ r.at = "link" /\ TaskOK(r) /\ m # NoPacket
  BY PlacesOK, DriverAssumption
<1> HIDE DEF r
<1>3. ~Holds(pc[u]) /\ ~Busy(r)
  BY <1>2 DEF NetWrite, At, Holds, Busy
<1>4. Ownership' /\ allocated' \in SUBSET Packets
  BY <1>1, <1>2, <1>3, OwnGet DEF NetWrite, r
<1> QED
  BY <1>1, <1>2, <1>3, <1>4, TaskMove DEF NetWrite, r, IInv, TypeOK

LEMMA CheckLinkStep ==
    ASSUME IInv, NEW u \in Senders, CheckLink(u)
    PROVE  IInv'
<1>1. pc[u].at = "link" /\ TypeOK
  BY DEF CheckLink, At, IInv
<1>2. CASE link_up
  <2>1. PICK r \in Places :
          /\ pc' = [pc EXCEPT ![u] = r] /\ r.at = "send" /\ r.mb = pc[u].mb
          /\ r.mb # NoPacket
    BY <1>1, <1>2, GotoPlace DEF CheckLink
  <2>2. Ownership'
    BY <1>1, <1>2, <2>1, OwnKeep DEF CheckLink, Holds
  <2>3. TaskOK(r) /\ ~Busy(r)
    BY <2>1 DEF TaskOK, Busy
  <2> QED
    BY <1>1, <1>2, <2>1, <2>2, <2>3, TaskMove DEF CheckLink, TypeOK
<1>3. CASE ~link_up
  <2>1. pc' = [pc EXCEPT ![u] = Idle] /\ allocated' = allocated \ {pc[u].mb}
    BY <1>3 DEF CheckLink, Leave, Release
  <2>2. Ownership' /\ allocated' \in SUBSET Packets
    BY <1>1, <2>1, OwnFree DEF CheckLink, Holds
  <2> QED
    BY <1>1, <2>1, <2>2, PlacesOK, TaskMove DEF CheckLink, TypeOK
<1> QED
  BY <1>2, <1>3

LEMMA QueueSendStep ==
    ASSUME IInv, NEW u \in Senders, QueueSend(u)
    PROVE  IInv'
<1>1. pc[u].at = "send" /\ TypeOK
  BY DEF QueueSend, At, IInv
<1>2. CASE Len(txQueue) < TxQueueSize - 1
  <2>1. PICK r \in Places :
          /\ pc' = [pc EXCEPT ![u] = r] /\ r.at = "check" /\ r.mb # NoPacket
    BY <1>1, <1>2, GotoPlace DEF QueueSend
  <2>2. Ownership' /\ txQueue' \in Seq(Packets)
    BY <1>1, <1>2, <2>1, OwnSend DEF QueueSend, Holds
  <2>3. TaskOK(r) /\ ~Busy(r)
    BY <2>1 DEF TaskOK, Busy
  <2> QED
    BY <1>1, <1>2, <2>1, <2>2, <2>3, TaskMove DEF QueueSend, TypeOK
<1>3. CASE ~(Len(txQueue) < TxQueueSize - 1)
  <2>1. pc' = [pc EXCEPT ![u] = Idle] /\ allocated' = allocated \ {pc[u].mb}
    BY <1>3 DEF QueueSend, Leave, Release
  <2>2. Ownership' /\ allocated' \in SUBSET Packets
    BY <1>1, <1>3, <2>1, OwnFree DEF QueueSend, Holds
  <2> QED
    BY <1>1, <1>3, <2>1, <2>2, PlacesOK, TaskMove, ZenonT(40) DEF QueueSend, TypeOK
<1> QED
  BY <1>2, <1>3

LEMMA CheckTxStep ==
    ASSUME IInv, NEW u \in Senders, CheckTx(u)
    PROVE  IInv'
<1>1. pc[u].at = "check" /\ TypeOK
  BY DEF CheckTx, At, IInv
<1>2. CASE ~tx_int_en
  <2>1. PICK r \in Places :
          /\ pc' = [pc EXCEPT ![u] = r] /\ r.at = "receive" /\ r.mb # NoPacket
    BY <1>1, <1>2, GotoPlace DEF CheckTx
  <2>2. raced' = (raced \/ Starting(u)) /\ raced' \in BOOLEAN
    <3>1. raced' = (raced \/ Starting(u))
      BY <1>2 DEF CheckTx
    <3> QED BY <3>1
  <2>3. Ownership'
    BY <1>1, <2>1, <2>2, OwnKeep DEF CheckTx, Holds
  <2>4. ASSUME ~raced'
        PROVE  TaskOK(r) /\ \A v \in Senders : v # u => ~Busy(pc[v])
    <3>1. ~raced /\ ~Starting(u) /\ \A v \in Senders : TaskOK(pc[v])
      BY <2>2, <2>4 DEF IInv, Session
    <3> QED BY <1>2, <2>1, <3>1 DEF TaskOK, Busy, Starting
  <2> QED
    BY <1>1, <2>1, <2>2, <2>3, <2>4, TaskMove DEF CheckTx, TypeOK
<1>3. CASE tx_int_en
  <2>1. pc' = [pc EXCEPT ![u] = Idle] /\ raced' = raced /\ ~Busy(Idle)
    BY <1>3, PlacesOK DEF CheckTx, Leave, Busy
  <2>2. Ownership'
    BY <1>1, <2>1, PlacesOK, OwnKeep DEF CheckTx, Holds
  <2> QED
    BY <1>1, <2>1, <2>2, PlacesOK, TaskMove DEF CheckTx, TypeOK
<1> QED
  BY <1>2, <1>3

LEMMA QueueReceiveStep ==
    ASSUME IInv, NEW u \in Senders, QueueReceive(u)
    PROVE  IInv'
<1>1. pc[u].at = "receive" /\ TypeOK
  BY DEF QueueReceive, At, IInv
<1>2. ~raced => ~tx_int_en
  BY <1>1 DEF TaskOK, IInv, Session
<1>3. CASE txQueue = <<>>
  <2>1. pc' = [pc EXCEPT ![u] = Idle] /\ txQueue' = txQueue
    BY <1>3 DEF QueueReceive, Leave
  <2>2. Ownership'
    BY <1>1, <2>1, PlacesOK, OwnKeep DEF QueueReceive, Holds
  <2> QED
    BY <1>1, <2>1, <2>2, PlacesOK, TaskMove DEF QueueReceive, TypeOK
<1>4. CASE txQueue # <<>>
  <2> DEFINE r == [pc[u] EXCEPT !.at = "index", !.mb = Head(txQueue)]
  <2>1. Head(txQueue) \in Packets
    BY <1>1, <1>4 DEF TypeOK
  <2>2. r \in Places /\ r.at = "index" /\ r.mb = Head(txQueue) /\ r.mb # NoPacket
    <3>1. pc[u] \in Places
      BY <1>1 DEF TypeOK
    <3> QED BY <2>1, <3>1, DriverAssumption DEF Places
  <2>3. pc' = [pc EXCEPT ![u] = r] /\ txQueue' = Tail(txQueue)
    BY <1>4 DEF QueueReceive
  <2> HIDE DEF r
  <2>4. Ownership' /\ txQueue' \in Seq(Packets)
    <3>1. Holds(r) /\ ~Holds(pc[u])
      BY <1>1, <2>2 DEF Holds
    <3>2. UNCHANGED <<rxQueue, allocated, mbuf_to_tx, raced>>
      BY DEF QueueReceive
    <3> QED BY <1>4, <2>2, <2>3, <3>1, <3>2, OwnReceive
  <2>5. (~raced => TaskOK(r)) /\ Busy(pc[u])
    BY <1>1, <1>2, <2>2 DEF TaskOK, Busy
  <2> QED
    BY <1>1, <2>2, <2>3, <2>4, <2>5, TaskMove DEF QueueReceive, TypeOK
<1> QED
  BY <1>3, <1>4

LEMMA ReadIndexStep ==
    ASSUME IInv, NEW u \in Senders, ReadIndex(u)
    PROVE  IInv'
<1>1. /\ pc[u].at = "index" /\ TypeOK /\ pc[u] \in Places
      /\ ~raced => TaskOK(pc[u]) /\ Transmitter
  BY DEF ReadIndex, At, IInv, TypeOK, Session
<1> DEFINE r == [pc[u] EXCEPT !.at = "fill", !.head = produce, !.tail = consume]
<1>2. /\ r \in Places /\ r.at = "fill" /\ r.mb = pc[u].mb /\ r.head = produce
      /\ r.tail = consume
  BY <1>1 DEF Places, TypeOK
<1>3. r.mb # NoPacket
  BY <1>1, <1>2 DEF TypeOK
<1>4. pc' = [pc EXCEPT ![u] = r]
  BY DEF ReadIndex
<1> HIDE DEF r
<1>5. Ownership'
  BY <1>1, <1>2, <1>4, OwnKeep DEF ReadIndex, Holds
<1>6. (~raced => TaskOK(r)) /\ Busy(pc[u])
  BY <1>1, <1>2 DEF TaskOK, Busy, Transmitter
<1>7. /\ UNCHANGED <<link_up, tx_int_en, mbuf_to_tx, descr, produce, consume,
                      irq, collision, raced>>
      /\ allocated' \in SUBSET Packets /\ rxQueue' \in Seq(Packets)
      /\ txQueue' \in Seq(Packets)
  BY <1>1 DEF ReadIndex, TypeOK
<1>8. raced' \in BOOLEAN
  BY <1>1, <1>7 DEF TypeOK
<1> QED
  BY <1>2, <1>3, <1>4, <1>5, <1>6, <1>7, <1>8, TaskMove

(* Without a race the others have not found the transmitter idle.          *)
LEMMA OthersOut ==
    ASSUME IInv, ~raced, NEW u \in Senders, Busy(pc[u]), NEW v \in Senders, v # u
    PROVE  ~Busy(pc[v])
BY DEF IInv, Session, Turns

(* The descriptors keep their type, whatever is filled in.                 *)
LEMMA FillType ==
    ASSUME TypeOK, NEW head, NEW tail, NEW m \in Packets
    PROVE  Fill(head, tail, m) \in [Indexes -> Packets \cup {NoPacket}]
<1> DEFINE n == IF TxFull(head, tail, m) THEN Room(head, tail) ELSE Frags[m]
           F == {Step(head, k) : k \in 0 .. n - 1}
<1>1. Fill(head, tail, m) = [i \in Indexes |-> IF i \in F THEN m ELSE descr[i]]
  BY DEF Fill
<1> HIDE DEF F
<1> QED
  BY <1>1 DEF TypeOK

(* The chain did not fit: the packet of u is freed and mbuf_to_tx is       *)
(* forgotten, which happens only after a race.                             *)
LEMMA FillFullStep ==
    ASSUME IInv, NEW u \in Senders, FillDescriptors(u), raced,
           TxFull(pc[u].head, pc[u].tail, pc[u].mb)
    PROVE  IInv'
<1> USE DriverAssumption
<1>1. pc[u].at = "fill" /\ TypeOK /\ pc[u] \in Places /\ pc[u].mb \in Packets
  BY DEF FillDescriptors, At, IInv, TypeOK, Places
<1> DEFINE m == pc[u].mb
<1>2. /\ descr' = Fill(pc[u].head, pc[u].tail, m)
      /\ allocated' = allocated \ {m} /\ consume' = produce /\ mbuf_to_tx' = NoPacket
      /\ tx_int_en' = FALSE /\ pc' = [pc EXCEPT ![u] = Idle]
      /\ UNCHANGED <<link_up, rxQueue, txQueue, produce, irq, collision, raced>>
  BY DEF FillDescriptors, Release, TxReset, Leave
<1>3. /\ pc' \in [Senders -> Places]
      /\ \A v \in Senders : pc'[v] = IF v = u THEN Idle ELSE pc[v]
  BY <1>1, <1>2, PlaceUpdate, PlacesOK
<1>4. TypeOK'
  <2>1. descr' \in [Indexes -> Packets \cup {NoPacket}]
    BY <1>1, <1>2, FillType
  <2> QED BY <1>1, <1>2, <1>3, <2>1, PlacesOK DEF TypeOK
<1>5. PICK Q, R \in SUBSET Packets :
        Lists(txQueue, Q) /\ Lists(rxQueue, R) /\ Shares(pc, allocated, Q, R, mbuf_to_tx, raced)
  BY DEF IInv, Ownership
<1>6. Shares(pc', allocated', Q, R, mbuf_to_tx', raced')
  <2>1. Holds(pc[u]) /\ m \in allocated \ (Q \cup R)
    BY <1>1, <1>5 DEF Holds, Shares
  <2>2. \A v \in Senders : /\ Holds(pc'[v]) <=> Holds(pc[v]) /\ v # u
                           /\ Holds(pc'[v]) => pc'[v].mb = pc[v].mb
    BY <1>3, PlacesOK DEF Holds
  <2>3. \A v \in Senders : Holds(pc'[v]) => pc'[v].mb # m
    BY <1>5, <2>1, <2>2 DEF Shares
  <2>4. \A v \in Senders : Holds(pc'[v]) => pc'[v].mb # NoPacket
    BY <1>1, <2>2 DEF Holds, TypeOK
  <2> HIDE DEF m
  <2> QED BY <1>2, <1>5, <2>1, <2>2, <2>3, <2>4 DEF Shares
<1> QED
  BY <1>2, <1>4, <1>5, <1>6 DEF IInv, Ownership

LEMMA FillStep ==
    ASSUME IInv, NEW u \in Senders, FillDescriptors(u)
    PROVE  IInv'
<1> DEFINE m == pc[u].mb
<1>1. pc[u].at = "fill" /\ TypeOK /\ pc[u] \in Places /\ m \in Packets /\ produce \in Indexes
  BY DEF FillDescriptors, At, IInv, TypeOK, Places
<1>2. ASSUME ~raced
      PROVE  /\ ~tx_int_en /\ pc[u].head = produce /\ pc[u].tail = produce
             /\ produce = consume /\ ~TxFull(pc[u].head, pc[u].tail, m)
             /\ Filled(Fill(produce, produce, m), produce, m)
  <2>1. ~tx_int_en /\ pc[u].head = produce /\ pc[u].tail = produce /\ produce = consume
    BY <1>1, <1>2 DEF IInv, Session, TaskOK
  <2> QED BY <1>1, <2>1, FillFits DEF TypeOK
<1> SUFFICES ASSUME ~TxFull(pc[u].head, pc[u].tail, m) PROVE IInv'
  BY <1>2, FillFullStep
<1>3. /\ Goto(u, "lock") /\ descr' = Fill(pc[u].head, pc[u].tail, m)
      /\ UNCHANGED <<link_up, allocated, rxQueue, txQueue, tx_int_en, mbuf_to_tx,
                     produce, consume, irq, collision, raced>>
  BY DEF FillDescriptors
<1>4. descr' \in [Indexes -> Packets \cup {NoPacket}]
  BY <1>1, <1>3, FillType
<1>5. PICK r \in Places :
        /\ pc' = [pc EXCEPT ![u] = r] /\ r.at = "lock" /\ r.mb = m
        /\ r.head = pc[u].head /\ r.mb # NoPacket
  BY <1>1, <1>3, GotoPlace
<1>6. /\ pc' \in [Senders -> Places]
      /\ \A v \in Senders : pc'[v] = IF v = u THEN r ELSE pc[v]
  BY <1>1, <1>5, PlaceUpdate
<1>7. TypeOK'
  BY <1>1, <1>3, <1>4, <1>5, <1>6 DEF TypeOK
<1>8. Ownership'
  BY <1>1, <1>3, <1>5, OwnKeep DEF Holds
<1>9. ASSUME ~raced PROVE Session'
  <2>1. Turns /\ Transmitter
    BY <1>9 DEF IInv, Session
  <2>2. Turns'
    BY <1>1, <1>6, <2>1 DEF Turns, Busy
  <2>3. Transmitter'
    BY <1>3, <2>1 DEF Transmitter
  <2>4. ASSUME NEW v \in Senders PROVE TaskOK(pc[v])'
    <3>1. CASE v = u
      BY <1>2, <1>3, <1>5, <1>6, <1>9, <3>1 DEF TaskOK
    <3>2. CASE v # u
      <4>1. ~Busy(pc'[v])
        BY <1>1, <1>6, <1>9, <3>2, OthersOut DEF Busy
      <4> QED BY <4>1 DEF TaskOK, Busy
    <3> QED BY <3>1, <3>2
  <2>5. FrameKept'
    <3>1. (produce' - consume') % num_tx_descr = 0
      BY <1>1, <1>2, <1>3, <1>9, Between, DriverAssumption DEF Indexes
    <3> QED BY <3>1 DEF FrameKept
  <2> QED BY <2>2, <2>3, <2>4, <2>5 DEF Session
<1> QED
  BY <1>3, <1>7, <1>8, <1>9 DEF IInv

LEMMA SetToTxStep ==
    ASSUME IInv, NEW u \in Senders, SetToTx(u)
    PROVE  IInv'
<1> USE DriverAssumption
<1> DEFINE m == pc[u].mb
<1>1. pc[u].at = "lock" /\ TypeOK /\ pc[u] \in Places /\ m \in Packets /\ produce \in Indexes
  BY DEF SetToTx, At, IInv, TypeOK, Places
<1>2. ASSUME ~raced
      PROVE  /\ ~tx_int_en /\ mbuf_to_tx = NoPacket /\ irq = "none" /\ produce = consume
             /\ pc[u].head = produce /\ Filled(descr, produce, m)
  BY <1>1, <1>2 DEF IInv, Session, TaskOK, Transmitter
<1>3. /\ mbuf_to_tx' = m /\ tx_int_en' = TRUE /\ Goto(u, "start")
      /\ UNCHANGED <<link_up, allocated, rxQueue, txQueue, descr, produce,
                     consume, irq, collision, raced>>
  BY DEF SetToTx
<1>4. PICK r \in Places :
        /\ pc' = [pc EXCEPT ![u] = r] /\ r.at = "start" /\ r.mb = m
        /\ r.head = pc[u].head /\ r.mb # NoPacket
  BY <1>1, <1>3, GotoPlace
<1>5. /\ pc' \in [Senders -> Places]
      /\ \A v \in Senders : pc'[v] = IF v = u THEN r ELSE pc[v]
  BY <1>1, <1>4, PlaceUpdate
<1>6. TypeOK'
  BY <1>1, <1>3, <1>4, <1>5 DEF TypeOK
<1>7. Ownership'
  <2>1. PICK Q, R \in SUBSET Packets :
          Lists(txQueue, Q) /\ Lists(rxQueue, R) /\ Shares(pc, allocated, Q, R, mbuf_to_tx, raced)
    BY DEF IInv, Ownership
  <2>2. Holds(pc[u]) /\ ~Holds(r) /\ m \in allocated \ (Q \cup R)
    BY <1>1, <1>4, <2>1 DEF Holds, Shares
  <2>3. \A v \in Senders : Holds(pc[v]) /\ v # u => pc[v].mb # m
    BY <2>1, <2>2 DEF Shares
  <2>4. NoPacket \notin allocated
    BY <1>1 DEF TypeOK
  <2>5. \A x \in allocated : \/ raced
                             \/ x \in Q \cup R \cup {m}
                             \/ \E v \in Senders : Holds(pc'[v]) /\ pc'[v].mb = x
    BY <1>2, <1>5, <2>1, <2>2, <2>4 DEF Shares
  <2> HIDE DEF m
  <2>6. Shares(pc', allocated, Q, R, m, raced)
    BY <1>5, <2>1, <2>2, <2>3, <2>5 DEF Shares
  <2> QED BY <1>3, <2>1, <2>6 DEF Ownership
<1>8. ASSUME ~raced PROVE Session'
  <2>1. Turns'
    BY <1>1, <1>5, <1>8 DEF IInv, Session, Turns, Busy
  <2>2. Transmitter'
    BY <1>1, <1>3 DEF Transmitter
  <2>3. ASSUME NEW v \in Senders PROVE TaskOK(pc[v])'
    <3>1. CASE v = u
      BY <1>2, <1>3, <1>4, <1>5, <1>8, <3>1 DEF TaskOK
    <3>2. CASE v # u
      <4>1. ~Busy(pc'[v])
        BY <1>1, <1>5, <1>8, <3>2, OthersOut DEF Busy
      <4> QED BY <4>1 DEF TaskOK, Busy
    <3> QED BY <3>1, <3>2
  <2>4. FrameKept'
    <3>1. (produce' - consume') % num_tx_descr = 0
      BY <1>1, <1>2, <1>3, <1>8, Between DEF Indexes
    <3> QED BY <3>1 DEF FrameKept
  <2> QED BY <2>1, <2>2, <2>3, <2>4 DEF Session
<1> QED
  BY <1>3, <1>6, <1>7, <1>8 DEF IInv

LEMMA StartTxStep ==
    ASSUME IInv, NEW u \in Senders, StartTx(u)
    PROVE  IInv'
<1> USE DriverAssumption
<1> DEFINE m == pc[u].mb
<1>1. /\ pc[u].at = "start" /\ TypeOK /\ pc[u] \in Places /\ m \in Packets
      /\ produce \in Indexes /\ pc[u].head \in Indexes
  BY DEF StartTx, At, IInv, TypeOK, Places
<1>2. ASSUME ~raced
      PROVE  /\ tx_int_en /\ irq = "none" /\ mbuf_to_tx = m /\ produce = consume
             /\ pc[u].head = produce /\ Filled(descr, produce, m)
  BY <1>1, <1>2 DEF IInv, Session, TaskOK
<1>3. /\ produce' = Step(pc[u].head, Frags[m]) /\ pc' = [pc EXCEPT ![u] = Idle]
      /\ UNCHANGED <<link_up, allocated, rxQueue, txQueue, tx_int_en, mbuf_to_tx,
                     descr, consume, irq, collision, raced>>
  BY DEF StartTx, Leave
<1>4. /\ pc' \in [Senders -> Places]
      /\ \A v \in Senders : pc'[v] = IF v = u THEN Idle ELSE pc[v]
  BY <1>1, <1>3, PlaceUpdate, PlacesOK
<1>5. produce' \in Indexes
  <2>1. Frags[m] \in Indexes
    BY <1>1 DEF Indexes
  <2> QED BY <1>1, <1>3, <2>1, StepValue
<1>6. TypeOK'
  BY <1>1, <1>3, <1>4, <1>5, PlacesOK DEF TypeOK
<1>7. Ownership'
  BY <1>1, <1>3, PlacesOK, OwnKeep DEF Holds
<1> HIDE DEF m
<1>8. ASSUME ~raced PROVE Session'
  <2>1. \A k \in 0 .. ((produce' - produce) % num_tx_descr) - 1 : descr[Step(produce, k)] = m
    BY <1>1, <1>2, <1>3, <1>8, FrameStarted
  <2>2. Turns'
    BY <1>4, <1>8, PlacesOK DEF IInv, Session, Turns
  <2>3. Transmitter'
    BY <1>1, <1>2, <1>3, <1>8 DEF Transmitter
  <2>4. ASSUME NEW v \in Senders PROVE TaskOK(pc[v])'
    <3>1. ~Busy(pc'[v])
      BY <1>1, <1>4, <1>8, PlacesOK, OthersOut DEF Busy
    <3> QED BY <3>1 DEF TaskOK, Busy
  <2>5. FrameKept'
    BY <1>2, <1>3, <1>8, <2>1 DEF FrameKept
  <2> QED BY <2>2, <2>3, <2>4, <2>5 DEF Session
<1> QED
  BY <1>3, <1>6, <1>7, <1>8 DEF IInv

-----------------------------------------------------------------------------
(* The MAC and the interrupt handler                                       *)

(* Without a race, while the MAC has descriptors to read or its interrupt  *)
(* is pending, no task is between IOCTL_ETH_IS_TX_DISABLED and the start   *)
(* of its frame.                                                           *)
LEMMA MacBusy ==
    ASSUME IInv, ~raced, produce # consume \/ irq # "none"
    PROVE  /\ tx_int_en /\ mbuf_to_tx \in Packets
           /\ \A u \in Senders : ~Busy(pc[u])
BY DEF IInv, Session, Transmitter, TaskOK, TypeOK, Busy

(* Then a step of the MAC or the handler is no concern of a task.          *)
LEMMA TasksUnconcerned ==
    ASSUME IInv, ~raced, produce # consume \/ irq # "none", pc' = pc
    PROVE  Turns' /\ \A u \in Senders : TaskOK(pc[u])'
<1>1. \A u \in Senders : ~Busy(pc'[u])
  BY MacBusy
<1> QED
  BY <1>1 DEF Turns, Busy, TaskOK

LEMMA MacTransmitStep ==
    ASSUME IInv, MacTransmit
    PROVE  IInv'
<1>1. TypeOK /\ produce # consume /\ Ownership
  BY DEF MacTransmit, IInv
<1>2. /\ consume' = Step(consume, 1)
      /\ UNCHANGED <<link_up, allocated, rxQueue, txQueue, tx_int_en, mbuf_to_tx,
                     descr, produce, pc, raced>>
  BY DEF MacTransmit
<1>3. /\ consume' \in Indexes
      /\ \A k \in 0 .. ((produce - consume') % num_tx_descr) - 1 :
           /\ k + 1 \in 0 .. ((produce - consume) % num_tx_descr) - 1
           /\ Step(consume', k) = Step(consume, k + 1)
  BY <1>1, <1>2, FrameContinues DEF TypeOK
<1>4. irq' \in {"none", "finished", "error"} /\ collision' \in BOOLEAN
  BY <1>1 DEF MacTransmit, TypeOK
<1>5. TypeOK'
  BY <1>1, <1>2, <1>3, <1>4 DEF TypeOK
<1>6. Ownership'
  BY <1>1, <1>2 DEF Ownership, Shares
<1>7. ASSUME ~raced PROVE Session'
  <2>1. Turns' /\ \A u \in Senders : TaskOK(pc[u])'
    BY <1>1, <1>2, <1>7, TasksUnconcerned
  <2>2. Transmitter'
    BY <1>1, <1>2, <1>7, MacBusy, DriverAssumption DEF Transmitter
  <2>3. FrameKept'
    BY <1>2, <1>3, <1>7 DEF FrameKept, IInv, Session
  <2> QED BY <2>1, <2>2, <2>3 DEF Session
<1> QED
  BY <1>2, <1>5, <1>6, <1>7 DEF IInv

LEMMA MacAbortStep ==
    ASSUME IInv, MacAbort
    PROVE  IInv'
<1>1. TypeOK /\ produce # consume /\ Ownership
  BY DEF MacAbort, IInv
<1>2. /\ irq' = "error" /\ collision' \in BOOLEAN
      /\ UNCHANGED <<link_up, allocated, rxQueue, txQueue, tx_int_en, mbuf_to_tx,
                     descr, produce, consume, pc, raced>>
  BY DEF MacAbort
<1>3. TypeOK'
  BY <1>1, <1>2 DEF TypeOK
<1>4. Ownership'
  BY <1>1, <1>2 DEF Ownership, Shares
<1>5. ASSUME ~raced PROVE Session'
  <2>1. Turns' /\ \A u \in Senders : TaskOK(pc[u])'
    BY <1>1, <1>2, <1>5, TasksUnconcerned
  <2>2. Transmitter'
    BY <1>1, <1>2, <1>5, MacBusy, DriverAssumption DEF Transmitter
  <2>3. FrameKept'
    BY <1>2, <1>5 DEF FrameKept, IInv, Session
  <2> QED BY <2>1, <2>2, <2>3 DEF Session
<1> QED
  BY <1>2, <1>3, <1>4, <1>5 DEF IInv

(* The handler starts packet m.                                            *)
LEMMA TxDataIntFrame ==
    ASSUME TypeOK, NEW m \in Packets, TxDataInt(m), consume' = produce
    PROVE  /\ descr' \in [Indexes -> Packets \cup {NoPacket}]
           /\ mbuf_to_tx' = m /\ tx_int_en' = TRUE
           /\ produce' \in Indexes /\ FrameKept'
<1>1. produce \in Indexes /\ descr \in [Indexes -> Packets \cup {NoPacket}]
  BY DEF TypeOK
<1>2. /\ descr' = Fill(produce, produce, m) /\ mbuf_to_tx' = m /\ tx_int_en' = TRUE
      /\ produce' = Step(produce, Frags[m])
  BY DEF TxDataInt
<1>3. descr' \in [Indexes -> Packets \cup {NoPacket}] /\ Filled(descr', produce, m)
  BY <1>1, <1>2, FillFits
<1>4. /\ produce' \in Indexes
      /\ \A k \in 0 .. ((produce' - produce) % num_tx_descr) - 1 : descr'[Step(produce, k)] = m
  BY <1>1, <1>2, <1>3, FrameStarted
<1> QED
  BY <1>2, <1>3, <1>4 DEF FrameKept

LEMMA StopTxFrame ==
    ASSUME TypeOK, StopTx, consume' = produce
    PROVE  /\ descr' \in [Indexes -> Packets \cup {NoPacket}]
           /\ mbuf_to_tx' = NoPacket /\ tx_int_en' = FALSE
           /\ produce' = produce /\ produce' \in Indexes /\ FrameKept'
<1>1. produce' = produce /\ produce \in Indexes
  BY DEF StopTx, TypeOK
<1>2. (produce' - consume') % num_tx_descr = 0
  BY <1>1, Between, DriverAssumption DEF Indexes
<1> QED
  BY <1>1, <1>2 DEF StopTx, TypeOK, FrameKept

LEMMA TxInterruptStep ==
    ASSUME IInv, TxInterrupt
    PROVE  IInv'
<1> USE DriverAssumption
<1>1. TypeOK /\ irq # "none" /\ mbuf_to_tx \in Packets \cup {NoPacket}
  BY DEF TxInterrupt, IInv, TypeOK
<1>2. /\ irq' = "none" /\ consume' = produce /\ consume' \in Indexes
      /\ UNCHANGED <<link_up, rxQueue, collision, pc, raced>>
  BY <1>1 DEF TxInterrupt, TxReset, TypeOK
<1>3. ~raced => Turns' /\ (\A u \in Senders : TaskOK(pc[u])') /\ mbuf_to_tx \in Packets
  BY <1>1, <1>2, TasksUnconcerned, MacBusy
<1>4. PICK Q, R \in SUBSET Packets :
        Lists(txQueue, Q) /\ Lists(rxQueue, R) /\ Shares(pc, allocated, Q, R, mbuf_to_tx, raced)
  BY DEF IInv, Ownership
<1>5. NoPacket \notin allocated /\ allocated \in SUBSET Packets
  BY <1>1 DEF TypeOK
<1> DEFINE m == mbuf_to_tx
<1>6. /\ m # NoPacket => m \in allocated \ (Q \cup R)
      /\ \A u \in Senders : Holds(pc[u]) => pc[u].mb # m
  BY <1>1, <1>4 DEF Shares
<1>7. Shares(pc, allocated \ {m}, Q, R, NoPacket, raced)
  <2>1. \A x \in allocated \ {m} : \/ raced
                                   \/ x \in Q \cup R
                                   \/ \E u \in Senders : Holds(pc[u]) /\ pc[u].mb = x
    BY <1>4 DEF Shares
  <2>2. \A u \in Senders : Holds(pc[u]) => pc[u].mb \in allocated \ (Q \cup R \cup {m})
    BY <1>4 DEF Shares
  <2>3. NoPacket \notin Q \cup R /\ Q \cap R = {} /\ Q \cup R \subseteq allocated \ {m}
    BY <1>4 DEF Shares
  <2>4. \A u, v \in Senders :
          Holds(pc[u]) /\ Holds(pc[v]) /\ pc[u].mb = pc[v].mb => u = v
    BY <1>4 DEF Shares
  <2> HIDE DEF m
  <2> QED BY <1>5, <2>1, <2>2, <2>3, <2>4 DEF Shares
<1>8. CASE ~collision /\ txQueue # <<>>
  <2> DEFINE h == Head(txQueue)
  <2>1. /\ h \in Q /\ Tail(txQueue) \in Seq(Packets)
        /\ Lists(Tail(txQueue), Q \ {h})
    BY <1>1, <1>4, <1>8, ListsTail DEF TypeOK
  <2>2. TxDataInt(h) /\ txQueue' = Tail(txQueue) /\ allocated' = allocated \ {m}
    BY <1>8 DEF TxInterrupt, SendNext, Release
  <2>3. /\ descr' \in [Indexes -> Packets \cup {NoPacket}]
        /\ mbuf_to_tx' = h /\ tx_int_en' = TRUE
        /\ produce' \in Indexes /\ FrameKept'
    BY <1>1, <1>2, <2>1, <2>2, TxDataIntFrame
  <2> HIDE DEF h, m
  <2>4. TypeOK'
    BY <1>1, <1>2, <2>1, <2>2, <2>3 DEF TypeOK
  <2>5. Shares(pc, allocated \ {m}, Q \ {h}, R, h, raced)
    <3> DEFINE A == allocated \ {m}
    <3> HIDE DEF A
    <3>1. Shares(pc, A, Q, R, NoPacket, raced)
      BY <1>7 DEF A
    <3>2. h \in Q /\ h \notin R /\ h # NoPacket /\ NoPacket \notin A
      BY <1>5, <2>1, <3>1 DEF Shares, A
    <3>3. \A x \in A : \/ raced
                      \/ x \in (Q \ {h}) \cup R \cup {h}
                      \/ \E u \in Senders : Holds(pc[u]) /\ pc[u].mb = x
      BY <3>1, <3>2 DEF Shares
    <3>4. \A u \in Senders :
            Holds(pc[u]) => pc[u].mb \in A \ ((Q \ {h}) \cup R \cup {h})
      BY <3>1, <3>2 DEF Shares
    <3>5. Shares(pc, A, Q \ {h}, R, h, raced)
      BY <3>1, <3>2, <3>3, <3>4 DEF Shares
    <3> QED BY <3>5 DEF A
  <2>6. Ownership'
    BY <1>2, <1>4, <2>1, <2>2, <2>3, <2>5 DEF Ownership
  <2>7. Transmitter'
    BY <2>1, <2>3 DEF Transmitter
  <2> QED BY <1>2, <1>3, <2>3, <2>4, <2>6, <2>7 DEF IInv, Session
<1>9. CASE ~collision /\ txQueue = <<>>
  <2>1. StopTx /\ txQueue' = txQueue /\ allocated' = allocated \ {m}
    BY <1>9 DEF TxInterrupt, SendNext, Release
  <2>2. /\ descr' \in [Indexes -> Packets \cup {NoPacket}]
        /\ mbuf_to_tx' = NoPacket /\ tx_int_en' = FALSE
        /\ produce' = produce /\ produce' \in Indexes /\ FrameKept'
    BY <1>1, <1>2, <2>1, StopTxFrame
  <2> HIDE DEF m
  <2>3. TypeOK'
    BY <1>1, <1>2, <2>1, <2>2 DEF TypeOK
  <2>4. Ownership'
    BY <1>2, <1>4, <1>7, <2>1, <2>2 DEF Ownership
  <2>5. Transmitter'
    BY <1>2, <2>2 DEF Transmitter
  <2> QED BY <1>2, <1>3, <2>2, <2>3, <2>4, <2>5 DEF IInv, Session
<1>10. CASE collision /\ m # NoPacket
  <2>1. TxDataInt(m) /\ txQueue' = txQueue /\ allocated' = allocated
    BY <1>1, <1>10 DEF TxInterrupt
  <2>2. /\ descr' \in [Indexes -> Packets \cup {NoPacket}]
        /\ mbuf_to_tx' = m /\ tx_int_en' = TRUE
        /\ produce' \in Indexes /\ FrameKept'
    BY <1>1, <1>2, <1>10, <2>1, TxDataIntFrame DEF TypeOK
  <2>3. TypeOK'
    BY <1>1, <1>2, <2>1, <2>2 DEF TypeOK
  <2>4. Ownership'
    BY <1>2, <1>4, <2>1, <2>2 DEF Ownership
  <2>5. Transmitter'
    BY <1>10, <2>2 DEF Transmitter
  <2> QED BY <1>2, <1>3, <2>2, <2>3, <2>4, <2>5 DEF IInv, Session
<1>11. CASE collision /\ m = NoPacket
  <2>1. StopTx /\ txQueue' = txQueue /\ allocated' = allocated
    BY <1>11 DEF TxInterrupt
  <2>2. /\ descr' \in [Indexes -> Packets \cup {NoPacket}]
        /\ mbuf_to_tx' = m /\ tx_int_en' = FALSE /\ produce' \in Indexes
    BY <1>1, <1>2, <1>11, <2>1, StopTxFrame
  <2>3. TypeOK'
    BY <1>1, <1>2, <2>1, <2>2 DEF TypeOK
  <2>4. Ownership'
    BY <1>2, <1>4, <2>1, <2>2 DEF Ownership
  <2> QED BY <1>2, <1>3, <1>11, <2>3, <2>4 DEF IInv
<1> QED
  BY <1>8, <1>9, <1>10, <1>11

LEMMA RxInterruptStep ==
    ASSUME IInv, RxInterrupt
    PROVE  IInv'
<1> USE DriverAssumption
<1>1. PICK m \in Packets \ allocated :
        rxQueue' = Append(rxQueue, m) /\ allocated' = allocated \cup {m}
  BY DEF RxInterrupt
<1>2. UNCHANGED <<link_up, txQueue, tx_int_en, mbuf_to_tx, descr, produce, consume,
                  irq, collision, pc, raced>>
  BY DEF RxInterrupt
<1>3. TypeOK
  BY DEF IInv
<1>4. PICK Q, R \in SUBSET Packets :
        Lists(txQueue, Q) /\ Lists(rxQueue, R) /\ Shares(pc, allocated, Q, R, mbuf_to_tx, raced)
  BY DEF IInv, Ownership
<1>5. m \notin Q \cup R \cup {mbuf_to_tx} /\ \A v \in Senders : Holds(pc[v]) => pc[v].mb # m
  BY <1>4 DEF Shares
<1>6. rxQueue' \in Seq(Packets) /\ Lists(rxQueue', R \cup {m})
  BY <1>1, <1>3, <1>4, <1>5, ListsAppend DEF TypeOK
<1>7. Shares(pc, allocated \cup {m}, Q, R \cup {m}, mbuf_to_tx, raced)
  BY <1>4, <1>5 DEF Shares
<1>8. Ownership'
  BY <1>1, <1>2, <1>4, <1>6, <1>7 DEF Ownership
<1>9. TypeOK'
  BY <1>1, <1>2, <1>3, <1>6 DEF TypeOK
<1>10. ASSUME ~raced PROVE Session'
  <2>1. Turns /\ Transmitter /\ FrameKept /\ \A u \in Senders : TaskOK(pc[u])
    BY <1>10 DEF IInv, Session
  <2> QED BY <1>2, <2>1 DEF Session, Turns, Transmitter, FrameKept, TaskOK
<1> QED
  BY <1>2, <1>8, <1>9, <1>10 DEF IInv

-----------------------------------------------------------------------------
(* The receive task                                                        *)

LEMMA RxReceiveStep ==
    ASSUME IInv, RxReceive
    PROVE  IInv'
<1>1. pc[RxTask].at = "idle" /\ TypeOK /\ rxQueue # <<>> /\ RxTask \in Senders
  BY DriverAssumption DEF RxReceive, At, IInv
<1> DEFINE m == Head(rxQueue)
           r == [at |-> "input", mb |-> m, head |-> 0, tail |-> 0]
<1>2. m \in Packets /\ m # NoPacket
  BY <1>1, DriverAssumption DEF TypeOK
<1>3. r \in Places /\ r.mb = m /\ r.at = "input" /\ TaskOK(r) /\ ~Busy(r)
  BY <1>2, PlacesOK
<1>4. /\ pc' = [pc EXCEPT ![RxTask] = r] /\ rxQueue' = Tail(rxQueue)
      /\ UNCHANGED <<link_up, allocated, txQueue, tx_int_en, mbuf_to_tx, descr,
                     produce, consume, irq, collision, raced>>
  BY DEF RxReceive
<1> HIDE DEF r
<1>5. Holds(r) /\ ~Holds(pc[RxTask])
  BY <1>1, <1>3 DEF Holds
<1>6. Ownership' /\ rxQueue' \in Seq(Packets)
  BY <1>1, <1>3, <1>4, <1>5, OwnReceive
<1> HIDE DEF m
<1> QED
  BY <1>1, <1>2, <1>3, <1>4, <1>6, TaskMove DEF TypeOK

LEMMA RxInputStep ==
    ASSUME IInv, RxInput
    PROVE  IInv'
<1>1. pc[RxTask].at = "input" /\ TypeOK /\ RxTask \in Senders /\ Holds(pc[RxTask])
  BY DriverAssumption DEF RxInput, At, IInv, Holds
<1>2. UNCHANGED <<link_up, rxQueue, txQueue, tx_int_en, mbuf_to_tx, descr, produce,
                  consume, irq, collision, raced>>
  BY DEF RxInput
<1>3. CASE Release(pc[RxTask].mb) /\ Leave(RxTask)
  <2>1. pc' = [pc EXCEPT ![RxTask] = Idle] /\ allocated' = allocated \ {pc[RxTask].mb}
    BY <1>3 DEF Leave, Release
  <2>2. Ownership' /\ allocated' \in SUBSET Packets
    BY <1>1, <1>2, <2>1, OwnFree
  <2> QED
    BY <1>1, <1>2, <2>1, <2>2, PlacesOK, TaskMove DEF TypeOK
<1>4. CASE Goto(RxTask, "link") /\ UNCHANGED allocated
  <2>1. PICK r \in Places :
          /\ pc' = [pc EXCEPT ![RxTask] = r] /\ r.at = "link" /\ r.mb = pc[RxTask].mb
          /\ r.mb # NoPacket
    BY <1>1, <1>4, GotoPlace
  <2>2. Ownership'
    BY <1>1, <1>2, <1>4, <2>1, OwnKeep DEF Holds
  <2>3. TaskOK(r) /\ ~Busy(r)
    BY <2>1 DEF TaskOK, Busy
  <2> QED
    BY <1>1, <1>2, <1>4, <2>1, <2>2, <2>3, TaskMove DEF TypeOK
<1> QED
  BY <1>3, <1>4 DEF RxInput

-----------------------------------------------------------------------------
(* Theorems                                                                *)

LEMMA InitInvariant == Init => IInv
<1> SUFFICES ASSUME Init PROVE IInv
  OBVIOUS
<1> USE DriverAssumption
<1>1. 0 \in Indexes /\ <<>> \in Seq(Packets)
  BY DEF Indexes
<1>2. TypeOK
  BY <1>1, PlacesOK DEF Init, TypeOK
<1>3. \A u \in Senders : pc[u].at = "idle"
  BY PlacesOK DEF Init
<1>4. Turns /\ Transmitter /\ \A u \in Senders : TaskOK(pc[u])
  BY <1>3 DEF Init, Turns, Busy, Transmitter, TaskOK
<1>5. FrameKept
  <2>1. (produce - consume) % num_tx_descr = 0
    BY <1>1, Between DEF Init
  <2> QED BY <2>1 DEF FrameKept
<1>6. Ownership
  <2>1. Lists(txQueue, {}) /\ Lists(rxQueue, {})
    BY DEF Init, Lists, ToSet, IsInjective
  <2>2. Shares(pc, allocated, {}, {}, mbuf_to_tx, raced)
    BY <1>3 DEF Init, Shares, Holds
  <2> QED BY <2>1, <2>2 DEF Ownership
<1> QED
  BY <1>2, <1>4, <1>5, <1>6 DEF IInv, Session

LEMMA NextInvariant ==
    ASSUME IInv, [Next]_vars
    PROVE  IInv'
<1>1. CASE UNCHANGED vars
  BY <1>1 DEF vars, IInv, Session, TypeOK, Turns, Transmitter, TaskOK, FrameKept,
              Ownership, Shares
<1>2. ASSUME NEW u \in Senders, NetWrite(u) \/ TaskStep(u) PROVE IInv'
  BY <1>2, NetWriteStep, CheckLinkStep, QueueSendStep, CheckTxStep, QueueReceiveStep,
     ReadIndexStep, FillStep, SetToTxStep, StartTxStep DEF TaskStep
<1> QED
  BY <1>1, <1>2, MacTransmitStep, MacAbortStep, TxInterruptStep, RxInterruptStep,
     RxReceiveStep, RxInputStep DEF Next

LEMMA Invariance ==
    Spec => []IInv
<1>1. Init => IInv
  BY InitInvariant
<1>2. IInv /\ [Next]_vars => IInv'
  BY NextInvariant
<1> QED
  BY <1>1, <1>2, PTL DEF Spec

LEMMA OwnershipCounts == IInv => OneUser
<1> SUFFICES ASSUME IInv, NEW m \in Packets
             PROVE  /\ Cardinality(Users(m)) <= 1
                    /\ Users(m) # {} => m \in allocated
                    /\ m \in allocated /\ ~raced => Users(m) # {}
  BY DEF OneUser
<1>1. TypeOK /\ m # NoPacket
  BY DriverAssumption DEF IInv
<1>2. PICK Q, R \in SUBSET Packets :
        Lists(txQueue, Q) /\ Lists(rxQueue, R) /\ Shares(pc, allocated, Q, R, mbuf_to_tx, raced)
  BY DEF IInv, Ownership
<1>3. /\ DOMAIN txQueue = 1 .. Len(txQueue) /\ DOMAIN rxQueue = 1 .. Len(rxQueue)
      /\ txQueue \in Seq(Packets) /\ rxQueue \in Seq(Packets)
  BY <1>1, LenProperties DEF TypeOK
<1>4. /\ \A i \in DOMAIN txQueue : txQueue[i] \in Q
      /\ \A x \in Q : \E i \in DOMAIN txQueue : txQueue[i] = x
      /\ \A i, j \in DOMAIN txQueue : txQueue[i] = txQueue[j] => i = j
  BY <1>2, <1>3, ListsElements
<1>5. /\ \A i \in DOMAIN rxQueue : rxQueue[i] \in R
      /\ \A x \in R : \E i \in DOMAIN rxQueue : rxQueue[i] = x
      /\ \A i, j \in DOMAIN rxQueue : rxQueue[i] = rxQueue[j] => i = j
  BY <1>2, <1>3, ListsElements
<1>6. ASSUME NEW y \in Users(m)
      PROVE  \/ \E u \in Senders : y = <<"task", u>> /\ Holds(pc[u]) /\ pc[u].mb = m
             \/ \E i \in DOMAIN txQueue : y = <<"tx", i>> /\ txQueue[i] = m
             \/ \E i \in DOMAIN rxQueue : y = <<"rx", i>> /\ rxQueue[i] = m
             \/ y = <<"mbuf_to_tx", m>> /\ mbuf_to_tx = m
  BY <1>1 DEF Users, Holds, TypeOK
<1>7. \A y \in Users(m) : m \in allocated
  BY <1>1, <1>2, <1>4, <1>5, <1>6 DEF Shares
<1>8. ASSUME NEW u \in Senders, Holds(pc[u]), pc[u].mb = m PROVE Cardinality(Users(m)) = 1 /\ Users(m) # {}
  <2>1. m \notin Q \cup R \cup {mbuf_to_tx}
    BY <1>2, <1>8 DEF Shares
  <2>2. \A v \in Senders : Holds(pc[v]) /\ pc[v].mb = m => v = u
    BY <1>2, <1>8 DEF Shares
  <2>3. <<"task", u>> \in Users(m)
    BY <1>8 DEF Users, Holds
  <2>4. \A y \in Users(m) : y = <<"task", u>>
    BY <1>4, <1>5, <1>6, <2>1, <2>2
  <2> QED BY <2>3, <2>4, OneElement
<1>9. ASSUME m \in Q PROVE Cardinality(Users(m)) = 1 /\ Users(m) # {}
  <2>1. PICK i \in DOMAIN txQueue : txQueue[i] = m
    BY <1>4, <1>9
  <2>2. m \notin R /\ mbuf_to_tx # m /\ \A v \in Senders : Holds(pc[v]) => pc[v].mb # m
    BY <1>2, <1>9 DEF Shares
  <2>3. <<"tx", i>> \in Users(m)
    BY <2>1 DEF Users
  <2>4. \A y \in Users(m) : y = <<"tx", i>>
    BY <1>4, <1>5, <1>6, <2>1, <2>2
  <2> QED BY <2>3, <2>4, OneElement
<1>10. ASSUME m \in R PROVE Cardinality(Users(m)) = 1 /\ Users(m) # {}
  <2>1. PICK i \in DOMAIN rxQueue : rxQueue[i] = m
    BY <1>5, <1>10
  <2>2. m \notin Q /\ mbuf_to_tx # m /\ \A v \in Senders : Holds(pc[v]) => pc[v].mb # m
    BY <1>2, <1>10 DEF Shares
  <2>3. <<"rx", i>> \in Users(m)
    BY <2>1 DEF Users
  <2>4. \A y \in Users(m) : y = <<"rx", i>>
    BY <1>4, <1>5, <1>6, <2>1, <2>2
  <2> QED BY <2>3, <2>4, OneElement
<1>11. ASSUME mbuf_to_tx = m PROVE Cardinality(Users(m)) = 1 /\ Users(m) # {}
  <2>1. m \notin Q \cup R /\ \A v \in Senders : Holds(pc[v]) => pc[v].mb # m
    BY <1>2, <1>11 DEF Shares
  <2>2. <<"mbuf_to_tx", m>> \in Users(m)
    BY <1>11 DEF Users
  <2>3. \A y \in Users(m) : y = <<"mbuf_to_tx", m>>
    BY <1>4, <1>5, <1>6, <2>1
  <2> QED BY <2>2, <2>3, OneElement
<1>12. m \in allocated /\ ~raced =>
           \/ m \in Q \/ m \in R \/ mbuf_to_tx = m
           \/ \E u \in Senders : Holds(pc[u]) /\ pc[u].mb = m
  BY <1>2 DEF Shares
<1>13. Cardinality(Users(m)) <= 1
  <2>1. CASE Users(m) = {}
    <3>1. Cardinality(Users(m)) = 0
      BY <2>1, NoElement
    <3> QED BY <3>1
  <2>2. CASE Users(m) # {}
    <3>1. PICK y \in Users(m) : TRUE
      BY <2>2
    <3>2. \/ m \in Q \/ m \in R \/ mbuf_to_tx = m
          \/ \E u \in Senders : Holds(pc[u]) /\ pc[u].mb = m
      BY <1>4, <1>5, <1>6, <3>1
    <3>3. Cardinality(Users(m)) = 1
      BY <1>8, <1>9, <1>10, <1>11, <3>2
    <3> QED BY <3>3
  <2> QED BY <2>1, <2>2
<1> QED
  BY <1>7, <1>8, <1>9, <1>10, <1>11, <1>12, <1>13

(* Type correctness of the driver                                          *)
THEOREM DriverTypeCorrect ==
    Spec => []TypeOK
<1>1. IInv => TypeOK
  BY DEF IInv
<1> QED
  BY <1>1, Invariance, PTL

(* No packet the driver is given is freed twice or used after it was       *)
(* freed, whatever tasks, MAC and interrupts do in which order, and none   *)
(* is lost as long as no two tasks have started the transmitter at a time. *)
THEOREM PacketHasOneUser ==
    Spec => []OneUser
BY Invariance, OwnershipCounts, PTL

(* The MAC never reads a descriptor of another packet than mbuf_to_tx, as  *)
(* long as no two tasks have started the transmitter at a time.            *)
THEOREM FrameIsKept ==
    Spec => []FrameKept
<1>1. IInv => FrameKept
  BY DEF IInv, Session, FrameKept
<1> QED
  BY <1>1, Invariance, PTL
=============================================================================
