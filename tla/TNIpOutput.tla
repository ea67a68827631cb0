----------------------------- MODULE TNIpOutput -----------------------------
(***************************************************************************)
(* IP output and fragmentation (tn_ip_output.c) on the mbufs of TNMbuf: a  *)
(* task gives datagrams to ip_output, which hands the packets to the       *)
(* driver, and the transmit interrupt sends and frees them while the task  *)
(* goes on.  What the wire carries is read when the packet is sent.        *)
(*                                                                         *)
(* ip_output changes mbufs that nobody else has until output_func takes    *)
(* the first packet: that part is one step.  Then every packet is a step,  *)
(* and m_free, when the rest of the packets is thrown away while the       *)
(* interrupt frees the first ones, is split where interrupts are enabled.  *)
(***************************************************************************)
EXTENDS TNMbuf

CONSTANTS
    NumDatagrams,  \* bound: the datagrams a task sends, one after the other
    Units,         \* the units of a datagram after the IP header
    MTUs           \* the payloads a packet of the interface may have

ASSUME IpOutputAssumption ==
    /\ NumDatagrams \in Nat
    /\ Units \in Nat /\ Units > 1 /\ MTUs \subseteq Nat \ {0}

VARIABLES
    heap,     \* the mbufs
    sent,     \* the number of datagrams given to ip_output
    task,     \* where the task is in ip_output
    txq,      \* the packets the driver has, first to last
    wire,     \* the packets that were transmitted
    fault     \* what went wrong with the memory, "none" if nothing

outVars == <<heap, sent, task, txq, wire, fault>>

(* The IP header of a packet: ip_id, ip_off, IP_MF                         *)
Header(id, off, mf) == [id |-> id, off |-> off, mf |-> mf]

Unit(id, k) == <<id, k>>

(* at: "idle", "output", "free" (the rest is freed) or "release" (between  *)
(* the decrement in m_free and the release).  todo is what m0 stands for:  *)
(* the packets that are not yet handed over.                               *)
IdleTask == [at |-> "idle", todo |-> <<>>, pri |-> NULL, release |-> FALSE]

OutInit ==
    /\ heap = EmptyHeap
    /\ sent = 0
    /\ task = IdleTask
    /\ txq = <<>>
    /\ wire = {}
    /\ fault = "none"

-----------------------------------------------------------------------------
(* The datagram that udp_output or tcp_output makes: headers in a mbuf of  *)
(* their own, the data in others                                           *)

Payload(id) == [k \in 1 .. Units - 1 |-> Unit(id, k + 1)]

NumBufs == (Units - 1 + MID1_BUF_SIZE - 1) \div MID1_BUF_SIZE

(* buf_to_mbuf: the data, a full buffer at a time, linked to the chain     *)
Linked(h, last, data) ==
    LET n == FirstFree(h)
    IN  [mb_get(h, "drv_m1buf", data) EXCEPT ![last].m_next = n]

buf_to_mbuf(h, first, id) ==
    FoldLeft(LAMBDA acc, k :
                [h |-> Linked(acc.h, acc.last,
                              SubSeq(Payload(id), (k - 1) * MID1_BUF_SIZE + 1,
                                     IF k = NumBufs THEN Units - 1 ELSE k * MID1_BUF_SIZE)),
                 last |-> FirstFree(acc.h)],
             [h |-> h, last |-> first], [k \in 1 .. NumBufs |-> k]).h

Made(h, id) ==
    buf_to_mbuf(mb_get(h, "drv_lobuf", <<Header(id, 0, FALSE), Unit(id, 1)>>),
                FirstFree(h), id)

CanMake(h) ==
    /\ HasBuffer(h, "drv_lobuf")
    /\ Cardinality(FreeDescrs(h)) > NumBufs
    /\ Cardinality({d \in Descrs : h[d].pool = "drv_m1buf"}) + NumBufs <= NUM_DRV_MID1_BUF

-----------------------------------------------------------------------------
(* ip4_fragment                                                            *)

(* The last fragment of a datagram, and the units in fragment k *)
LastOff(mtu) == ((Units - 1) \div mtu) * mtu

(* Mutant: a last fragment of full length has IP_MF.                       *)
OffByOne_MoreFragments(off, mtu) == off + mtu <= Units

MoreFragments(off, mtu) == off + mtu < Units

FragLen(off, mtu) == Min({mtu, Units - off})

(* The header mbuf m of a fragment and the copied data *)
FragmentOf(copy, m) ==
    [h |-> [copy.heap EXCEPT ![m].m_next = copy.mb], last |-> m,
     rc |-> CASE copy.fault -> "fault"
              [] ~copy.fault /\ copy.mb = NULL -> "ENOBUFS"
              [] OTHER -> "ok"]

(* One more fragment, from offset off: a header mbuf m, the data by        *)
(* m_copym.                                                                *)
AddFragment(f, m, m0, off, mtu, id) ==
    FragmentOf(m_copym([mb_get(f.h, "drv_m1buf", <<Header(id, off, MoreFragments(off, mtu))>>)
                      EXCEPT ![f.last].m_nextpkt = m],
                   m0, 1 + off, FragLen(off, mtu)),
           m)

NextFragment(f, m0, off, mtu, id) ==
    CASE f.rc # "ok" -> f
      [] f.rc = "ok" /\ ~CanGet(f.h, "drv_m1buf") -> [f EXCEPT !.rc = "ENOBUFS"]
      [] OTHER -> AddFragment(f, FirstFree(f.h), m0, off, mtu, id)

Fragments(h, m0, mtu, id) ==
    FoldLeft(LAMBDA f, k : NextFragment(f, m0, k * mtu, mtu, id),
             [h |-> h, last |-> m0, rc |-> "ok"],
             [k \in 1 .. LastOff(mtu) \div mtu |-> k])

(* The first fragment: what was copied out is trimmed.                     *)
Trimmed(h, m0, mtu, id) ==
    [m_adj_free(h, m0, 1 + mtu) EXCEPT ![m0].data[1] = Header(id, 0, TRUE)]

(* "do not send any fragment": all the packets are freed.                  *)
AllFreed(h, m0) == FoldLeft(LAMBDA acc, m : m_freem(acc, m), h, Packets(h, m0))

-----------------------------------------------------------------------------
(* ip_output                                                               *)

(* ip4_fragment has given f: the packets are handed over one by one, the   *)
(* original mbuf first.  When it has failed, it has freed m0, and          *)
(* ip_output frees m0 again.                                               *)
Fragmented(f, m0, mtu, id) ==
    CASE f.rc = "ok" ->
           /\ heap' = Trimmed(f.h, m0, mtu, id)
           /\ task' = [IdleTask EXCEPT !.at = "output", !.todo = Packets(f.h, m0)]
           /\ UNCHANGED fault
      [] f.rc = "ENOBUFS" ->
           heap' = AllFreed(f.h, m0) /\ fault' = "m0 freed twice" /\ UNCHANGED task
      [] OTHER ->
           heap' = f.h /\ fault' = "m_copym writes to NULL" /\ UNCHANGED task

(* There is no interface for the destination (ip_route_out), or it is a    *)
(* broadcast that would need fragments.  (IP_DF is never found set: it is  *)
(* cleared in the header before it is looked at.)                          *)
Refused(route, bcast, mtu) == ~route \/ (bcast /\ Units > mtu)

(* Datagram id is in the chain from m0.  One that is refused is freed, one *)
(* that fits is handed over as it is.                                      *)
Output(h, m0, mtu, id, refused) ==
    CASE refused ->
           heap' = m_freem(h, m0) /\ UNCHANGED <<task, fault>>
      [] ~refused /\ Units <= mtu ->
           /\ heap' = h
           /\ task' = [IdleTask EXCEPT !.at = "output", !.todo = <<m0>>]
           /\ UNCHANGED fault
      [] OTHER -> Fragmented(Fragments(h, m0, mtu, id), m0, mtu, id)

ip_output(mtu, route, bcast) ==
    /\ task = IdleTask /\ fault = "none"
    /\ sent < NumDatagrams /\ CanMake(heap)
    /\ sent' = sent + 1
    /\ Output(Made(heap, sent + 1), FirstFree(heap), mtu, sent + 1, Refused(route, bcast, mtu))
    /\ UNCHANGED <<txq, wire>>

(* output_func takes the next packet, or fails and has freed it: then the  *)
(* packets that are left are freed.                                        *)
output_func(ok) ==
    LET m    == Head(task.todo)
        rest == Tail(task.todo)
    IN  /\ task.at = "output"
        /\ IF ok THEN txq' = Append(txq, m) /\ heap' = [heap EXCEPT ![m].m_nextpkt = NULL]
                 ELSE heap' = m_freem(heap, m) /\ UNCHANGED txq
        /\ task' = CASE rest = <<>>        -> IdleTask
                     [] rest # <<>> /\ ok  -> [task EXCEPT !.todo = rest]
                     [] OTHER -> [task EXCEPT !.at = "free",
                                              !.todo = FoldLeft(LAMBDA acc, p : acc \o Chain(heap, p),
                                                                <<>>, rest)]
        /\ UNCHANGED <<sent, wire, fault>>

(* m_free of the task, with interrupts disabled: the next descriptor *)
FreeDecrement ==
    LET d == Head(task.todo)
    IN  /\ task.at = "free"
        /\ heap' = Decremented(heap, d)
        /\ task' = [task EXCEPT !.at = "release", !.pri = heap[d].m_pri,
                                !.release = LastReference(heap, d)]
        /\ UNCHANGED <<sent, txq, wire, fault>>

FreeRelease ==
    /\ task.at = "release"
    /\ heap' = Released(heap, Head(task.todo), task.pri, task.release)
    /\ task' = IF Len(task.todo) = 1 THEN IdleTask
               ELSE [IdleTask EXCEPT !.at = "free", !.todo = Tail(task.todo)]
    /\ UNCHANGED <<sent, txq, wire, fault>>

(* The transmit interrupt: the first packet has left, m_ifreem frees it.   *)
Transmitted ==
    /\ txq # <<>>
    /\ wire' = wire \cup {Data(heap, Head(txq))}
    /\ heap' = m_freem(heap, Head(txq))
    /\ txq' = Tail(txq)
    /\ UNCHANGED <<sent, task, fault>>

OutNext ==
    \/ \E mtu \in MTUs, route, bcast \in BOOLEAN : ip_output(mtu, route, bcast)
    \/ \E ok \in BOOLEAN : output_func(ok)
    \/ FreeDecrement
    \/ FreeRelease
    \/ Transmitted

-----------------------------------------------------------------------------
(* Properties                                                              *)

(* The descriptors that somebody will still free: those in the packets of  *)
(* the driver and of the task, but for the one that m_free is about.       *)
Held ==
    LET heads == ToSet(txq) \cup (IF task.at = "output" THEN ToSet(task.todo) ELSE {})
        left  == CASE task.at = "free"    -> ToSet(task.todo)
                   [] task.at = "release" -> ToSet(Tail(task.todo))
                   [] OTHER               -> {}
    IN  UNION {ToSet(Chain(heap, m)) : m \in heads} \cup left

(* A data buffer is counted once for every descriptor that will be freed,  *)
(* and memory is in use as long as it is, not longer: the fragments of a   *)
(* datagram share its buffers, the interrupt and the task free them in any *)
(* order and in the middle of each other's m_free.                         *)
MbufsCounted ==
    fault = "none" =>
        \A d \in Descrs :
            LET users == {e \in Held : heap[e].m_pri = d}
                ending == task.at = "release" /\ d \in {Head(task.todo), task.pri}
            IN  /\ heap[d].m_pri = d => heap[d].m_refcnt = Cardinality(users)
                /\ heap[d].pool # "free" => users # {} \/ d \in Held \/ ending
                /\ d \in Held => heap[d].pool # "free"

(* Every packet on the wire has the part of its datagram that its header   *)
(* says, and IP_MF unless it is the last part: a buffer is not reused      *)
(* before the last fragment that shares it has left.                       *)
FragmentsRight ==
    \A p \in wire :
        LET hd == p[1] data == Tail(p)
        IN  /\ data = [k \in 1 .. Len(data) |-> Unit(hd.id, hd.off + k)]
            /\ hd.mf <=> hd.off + Len(data) < Units

=============================================================================
