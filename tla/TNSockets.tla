------------------------------ MODULE TNSockets ------------------------------
(***************************************************************************)
(* UDP sockets (tn_sockets.c, tn_sockets_udp.c, tn_udp.c), their protocol  *)
(* control blocks (tn_in_pcb.c) and the spl lock of the stack              *)
(* (lpc23xx_net.c).  Application tasks call the sockets, the receive task  *)
(* of the interface brings datagrams up.  A task runs when no task of a    *)
(* higher priority can (a smaller number is a higher priority).            *)
(***************************************************************************)
EXTENDS Integers, Sequences, FiniteSets, SequencesExt, FiniteSetsExt

CONSTANTS
    Sockets,            \* the sockets that the applications create
    Owner,              \* the task that uses a socket
    Prio,               \* the priorities of the tasks
    Peers,              \* foreign addresses with their ports
    Ports,              \* the local ports that bind asks for
    RESERVED, USERRESERVED,     \* IPPORT_RESERVED, IPPORT_USERRESERVED
    RX_QUEUE_SIZE,      \* UDP_SOCK_RX_QUEUE_SIZE
    Pools,              \* the blocks of the memory pools, by name
    MaxCalls, MaxDatagrams,     \* bounds: calls made, datagrams that arrive
    AnyAddr, If, Bc,        \* _INADDR_ANY, the address and the broadcast address of the interface
    None                \* NULL

Rx == "rx"              \* the receive task of the interface

Apps == {Owner[s] : s \in Sockets}

Tasks == Apps \cup {Rx}

ASSUME SocketsAssumption ==
    /\ RESERVED \in Nat /\ USERRESERVED \in Nat /\ RESERVED <= USERRESERVED
    /\ \A t \in Tasks : Prio[t] \in Nat
    /\ \A t \in Apps : Prio[Rx] < Prio[t]
    /\ {RX_QUEUE_SIZE, MaxCalls, MaxDatagrams} \subseteq Nat
    /\ DOMAIN Pools = {"m1buf", "lobuf", "drv_lobuf", "drv_m1buf", "hibuf"}
    /\ \A p \in DOMAIN Pools : Pools[p] \in Nat
    /\ IsFiniteSet(Sockets)
    /\ None \notin Tasks \cup Sockets
    /\ AnyAddr \notin Peers

VARIABLES
    so,         \* struct socket with its struct inpcb
    udb,        \* the list of the pcbs, the newest first
    last_port,  \* tnet->udb.inp_lport
    spl,        \* spl_holder_task and the wait queue of spl_sem
    job,        \* what every task does
    free,       \* the free blocks of every pool
    wire,       \* packets that the driver has not yet transmitted
    lost,       \* blocks that nobody will free, by pool (history)
    misrouted,  \* a lookup went wrong (history)
    calls, datagrams    \* calls and datagrams so far

vars == <<so, udb, last_port, spl, job, free, wire, lost, misrouted, calls, datagrams>>

Closed == [open |-> FALSE, lport |-> 0, laddr |-> AnyAddr, faddr |-> AnyAddr,
           conn |-> FALSE, nbio |-> FALSE, timed |-> FALSE, reuse |-> FALSE, q |-> <<>>]

Idle == [pc |-> "idle", call |-> "none", s |-> None, to |-> None, port |-> 0,
         nam |-> FALSE, data |-> FALSE, saved |-> AnyAddr]

(* udp_init, tn_net_init_network *)
Init ==
    /\ so = [s \in Sockets |-> Closed]
    /\ udb = <<>>
    /\ last_port = 0
    /\ spl = [holder |-> None, waiters |-> <<>>]
    /\ job = [t \in Tasks |-> Idle]
    /\ free = Pools
    /\ wire = 0
    /\ lost = [p \in DOMAIN Pools |-> 0]
    /\ misrouted = FALSE
    /\ calls = 0 /\ datagrams = 0

-----------------------------------------------------------------------------
(* The protocol control blocks.  tab gives the addresses of the sockets.   *)

Differ(a, b) == IF (a = AnyAddr) # (b = AnyAddr) THEN 1 ELSE 0

Wildcards(x, faddr, laddr) == Differ(x.laddr, laddr) + Differ(x.faddr, faddr)

Fits(x, faddr, laddr, lport) ==
    /\ x.lport = lport
    /\ x.laddr = laddr \/ AnyAddr \in {x.laddr, laddr}
    /\ x.faddr = faddr \/ AnyAddr \in {x.faddr, faddr}

Better(tab, s, t, faddr, laddr) ==
    Wildcards(tab[s], faddr, laddr) < Wildcards(tab[t], faddr, laddr)

(* of the places fit in the list, the first one with the fewest wildcards *)
BestOf(tab, fit, faddr, laddr) ==
    Min({i \in fit : \A k \in fit : ~Better(tab, udb[k], udb[i], faddr, laddr)})

in_pcblookup(tab, faddr, laddr, lport, wildcard) ==
    LET fit == {i \in DOMAIN udb :
                  /\ Fits(tab[udb[i]], faddr, laddr, lport)
                  /\ wildcard \/ Wildcards(tab[udb[i]], faddr, laddr) = 0}
    IN  IF fit = {} THEN None ELSE udb[BestOf(tab, fit, faddr, laddr)]

(* in_pcbbind with no port: count head->inp_lport up to a port that is free *)
NextPort(p) == IF p < RESERVED \/ p + 1 > USERRESERVED THEN RESERVED ELSE p + 1

EphemeralPort(laddr) ==
    LET tries == USERRESERVED - RESERVED + 1
        port[k \in 1 .. tries] == IF k = 1 THEN NextPort(last_port) ELSE NextPort(port[k - 1])
        k == CHOOSE n \in 1 .. tries :
                /\ in_pcblookup(so, AnyAddr, laddr, port[n], FALSE) = None
                /\ \A m \in 1 .. n - 1 : in_pcblookup(so, AnyAddr, laddr, port[m], FALSE) # None
    IN  port[k]

Bound(x) == x.lport # 0 \/ x.laddr # AnyAddr

InUse(s, laddr, lport) ==
    \E t \in {in_pcblookup(so, AnyAddr, laddr, lport, FALSE)} :
        t # None /\ ~(so[s].reuse /\ so[t].reuse)

(* in_pcbbind: the addresses that s gets; its old ones after an error *)
in_pcbbind(s, laddr, lport) ==
    CASE Bound(so[s]) -> so[s]
      [] ~Bound(so[s]) /\ lport # 0 /\ InUse(s, laddr, lport) -> so[s]
      [] ~Bound(so[s]) /\ lport # 0 /\ ~InUse(s, laddr, lport) ->
            [so[s] EXCEPT !.laddr = laddr, !.lport = lport]
      [] OTHER -> [so[s] EXCEPT !.laddr = laddr, !.lport = EphemeralPort(laddr)]

LocalAddr(x) == IF x.laddr = AnyAddr THEN If ELSE x.laddr

(* in_pcbconnect of s, whose addresses are x now, refuses: no port (None), *)
(* or the pair of addresses exists                                         *)
CannotConnect(s, x, faddr) ==
    \/ faddr = None
    \/ in_pcblookup([so EXCEPT ![s] = x], faddr, LocalAddr(x), x.lport, FALSE) # None

(* in_pcbconnect of a socket whose addresses are x *)
in_pcbconnect(x, faddr) ==
    [x EXCEPT !.lport = IF x.laddr = AnyAddr /\ x.lport = 0 THEN EphemeralPort(AnyAddr) ELSE @,
              !.laddr = LocalAddr(x), !.faddr = faddr]

(* in_pcbdisconnect, and the local address that udp_s_connect clears *)
Disconnected(x) == IF x.conn THEN [x EXCEPT !.faddr = AnyAddr, !.laddr = AnyAddr, !.conn = FALSE] ELSE x

(* the port counter after a bind without a port *)
LastPort(x, y) == IF x.lport = 0 /\ y.lport >= RESERVED THEN y.lport ELSE last_port

-----------------------------------------------------------------------------
(* The spl lock and the tasks                                              *)

Blocked(t) == \E i \in DOMAIN spl.waiters : spl.waiters[i] = t

(* the task waits for a block or for a datagram *)
Starved(t) ==
    \/ job[t].pc = "crit" /\ job[t].call = "socket" /\ free.m1buf = 0
    \/ job[t].pc = "data" /\ ~so[job[t].s].nbio /\ free.drv_m1buf = 0
    \/ job[t].pc = "recv" /\ ~so[job[t].s].nbio /\ so[job[t].s].q = <<>>

(* the kernel runs t: it can run and no task of a higher priority can *)
Runs(t) ==
    /\ ~Blocked(t)
    /\ \A u \in Tasks : Prio[u] < Prio[t] => job[u].pc = "idle" \/ Blocked(u) \/ Starved(u)

(* mutant: udp_input does not take the lock (before v.0.8.7) *)
Unlocked_splnet(t) ==
    /\ job[t].pc = "spl" /\ Runs(t)
    /\ job' = [job EXCEPT ![t].pc = "crit"]
    /\ spl' = IF spl.holder = None THEN [spl EXCEPT !.holder = t]
              ELSE IF t = Rx THEN spl ELSE [spl EXCEPT !.waiters = Append(@, t)]
    /\ UNCHANGED <<so, udb, last_port, free, wire, lost, misrouted, calls, datagrams>>

(* splnet: take the lock or queue up.  A task that has queued up goes on   *)
(* at the same place when splx hands the lock over.  (No call of these     *)
(* modules takes the lock twice.)                                          *)
splnet(t) ==
    /\ job[t].pc = "spl" /\ Runs(t)
    /\ job' = [job EXCEPT ![t].pc = "crit"]
    /\ spl' = IF spl.holder = None THEN [spl EXCEPT !.holder = t]
              ELSE [spl EXCEPT !.waiters = Append(@, t)]
    /\ UNCHANGED <<so, udb, last_port, free, wire, lost, misrouted, calls, datagrams>>

(* mutant: the waiters are forgotten *)
Keep_splx == [spl EXCEPT !.holder = None]

(* splx: the lock goes to the first waiter *)
splx ==
    IF spl.waiters = <<>> THEN [spl EXCEPT !.holder = None]
    ELSE [holder |-> Head(spl.waiters), waiters |-> Tail(spl.waiters)]

Stay(t, pc) == job' = [job EXCEPT ![t].pc = pc]

Return(t) == job' = [job EXCEPT ![t] = Idle]

(* blocks of pools back to them *)
Freed(ps) == [p \in DOMAIN free |-> IF p \in ps THEN free[p] + 1 ELSE free[p]]

(* the blocks that the mbuf with the name and the mbuf with the data take *)
NameOf(t) == IF job[t].nam THEN {"m1buf"} ELSE {}

DataOf(t) == IF job[t].data THEN {"drv_m1buf"} ELSE {}

-----------------------------------------------------------------------------
(* The calls.  to is the address or the peer, None for no name (sendto)    *)
(* or for a name without a port (connect).                                 *)

Requests(s) ==
    IF ~so[s].open THEN [call : {"socket"}, to : {None}, port : {0}]
    ELSE [call : {"close", "recvfrom", "_FIONBIO", "SO_RCVTIMEO", "SO_REUSEPORT"}, to : {None}, port : {0}]
         \cup [call : {"bind"}, to : {AnyAddr, If}, port : Ports \cup {0}]
         \cup [call : {"connect", "sendto"}, to : Peers \cup {None}, port : {0}]

HasName(r) == r.call \in {"bind", "connect"} \/ (r.call = "sendto" /\ r.to # None)

FirstPc(r) == CASE r.call \in {"socket", "close", "bind", "connect"} -> "spl"
                [] r.call = "sendto" -> "data"
                [] r.call = "recvfrom" -> "recv"

(* s_socket .. s_recvfrom up to the first splnet or the first wait;        *)
(* sockargs takes a block for the name, or the call ends with ENOBUFS.     *)
CallMade(t, s, r) ==
    /\ HasName(r) => free.m1buf > 0
    /\ job' = [job EXCEPT ![t] = [Idle EXCEPT !.pc = FirstPc(r), !.call = r.call, !.s = s,
                                              !.to = r.to, !.port = r.port, !.nam = HasName(r)]]
    /\ free' = IF HasName(r) THEN [free EXCEPT !.m1buf = @ - 1] ELSE free
    /\ so' = so

Options == {"_FIONBIO", "SO_RCVTIMEO", "SO_REUSEPORT"}

(* udp_s_ioctl, s_setsockopt *)
OptionSet(s, r) ==
    /\ so' = CASE r.call = "_FIONBIO" -> [so EXCEPT ![s].nbio = ~@]
               [] r.call = "SO_RCVTIMEO" -> [so EXCEPT ![s].timed = ~@]
               [] r.call = "SO_REUSEPORT" -> [so EXCEPT ![s].reuse = ~@]
    /\ UNCHANGED <<job, free>>

Call(t, s, r) ==
    /\ job[t].pc = "idle" /\ Runs(t) /\ Owner[s] = t /\ calls < MaxCalls
    /\ calls' = calls + 1
    /\ IF r.call \in Options THEN OptionSet(s, r) ELSE CallMade(t, s, r)
    /\ UNCHANGED <<udb, last_port, spl, wire, lost, misrouted, datagrams>>

(* The critical section of udp_s_socket; in_pcballoc may find no block *)
SocketMade(t, s) ==
    /\ free.m1buf > 0
    /\ IF free.lobuf > 0
         THEN /\ so' = [so EXCEPT ![s] = [Closed EXCEPT !.open = TRUE]]
              /\ udb' = <<s>> \o udb
              /\ free' = [free EXCEPT !.m1buf = @ - 1, !.lobuf = @ - 1]
         ELSE UNCHANGED <<so, udb, free>>
    /\ last_port' = last_port

(* mutant: the datagrams in the queue are not freed *)
Undrained_SocketClosed(t, s) ==
    /\ so' = [so EXCEPT ![s] = Closed]
    /\ udb' = RemoveFirst(udb, s)
    /\ free' = [free EXCEPT !.m1buf = @ + 1, !.lobuf = @ + 1]
    /\ last_port' = last_port

(* udp_s_close: in_pcbdetach, udp_sofree_func and the block of the socket *)
SocketClosed(t, s) ==
    /\ so' = [so EXCEPT ![s] = Closed]
    /\ udb' = RemoveFirst(udb, s)
    /\ free' = [free EXCEPT !.m1buf = @ + 1, !.lobuf = @ + 1, !.hibuf = @ + Len(so[s].q)]
    /\ last_port' = last_port

Readdressed(t, s, x) ==
    /\ so' = [so EXCEPT ![s] = x]
    /\ last_port' = LastPort(so[s], x)
    /\ free' = Freed(NameOf(t))
    /\ udb' = udb

(* udp_s_connect: a connected socket is disconnected first, so the lookup  *)
(* does not find its old addresses                                         *)
Connected(s, faddr) ==
    LET x == Disconnected(so[s])
    IN  IF CannotConnect(s, x, faddr) THEN x ELSE [in_pcbconnect(x, faddr) EXCEPT !.conn = TRUE]

(* what socket, close, bind and connect do while they hold the lock *)
CriticalSection(t, s) ==
    /\ job[t].pc = "crit" /\ Runs(t) /\ job[t].call # "sendto" /\ t # Rx
    /\ CASE job[t].call = "socket" -> SocketMade(t, s)
         [] job[t].call = "close" -> SocketClosed(t, s)
         [] job[t].call = "bind" -> Readdressed(t, s, in_pcbbind(s, job[t].to, job[t].port))
         [] job[t].call = "connect" ->
                Readdressed(t, s, Connected(s, job[t].to))
    /\ spl' = splx
    /\ Return(t)
    /\ UNCHANGED <<wire, lost, misrouted, calls, datagrams>>

-----------------------------------------------------------------------------
(* udp_s_sendto and udp_output                                             *)

(* the block for the data; ENOBUFS of a socket that does not block *)
DataCopied(t) ==
    /\ job[t].pc = "data" /\ Runs(t)
    /\ \/ /\ free.drv_m1buf > 0
          /\ free' = [free EXCEPT !.drv_m1buf = @ - 1]
          /\ job' = [job EXCEPT ![t].pc = "out", ![t].data = TRUE]
       \/ /\ free.drv_m1buf = 0 /\ so[job[t].s].nbio
          /\ free' = Freed(NameOf(t))
          /\ Return(t)
    /\ UNCHANGED <<so, udb, last_port, spl, wire, lost, misrouted, calls, datagrams>>

(* EISCONN with a name, ENOTCONN without one; then the lock, or the header *)
udp_output(t, s) ==
    /\ job[t].pc = "out" /\ Runs(t)
    /\ IF job[t].nam = (so[s].faddr # AnyAddr)
         THEN /\ free' = Freed(NameOf(t) \cup DataOf(t))
              /\ Return(t)
         ELSE /\ job' = [job EXCEPT ![t].pc = IF job[t].nam THEN "spl" ELSE "hdr",
                                    ![t].saved = so[s].laddr]
              /\ free' = free
    /\ UNCHANGED <<so, udb, last_port, spl, wire, lost, misrouted, calls, datagrams>>

(* the temporary connection *)
SendConnected(t, s) ==
    /\ job[t].pc = "crit" /\ Runs(t) /\ job[t].call = "sendto"
    /\ IF CannotConnect(s, so[s], job[t].to)
         THEN /\ spl' = splx
              /\ free' = Freed(NameOf(t) \cup DataOf(t))
              /\ Return(t)
              /\ UNCHANGED <<so, last_port>>
         ELSE /\ so' = [so EXCEPT ![s] = in_pcbconnect(so[s], job[t].to)]
              /\ last_port' = LastPort(so[s], in_pcbconnect(so[s], job[t].to))
              /\ Stay(t, "hdr")
              /\ UNCHANGED <<spl, free>>
    /\ UNCHANGED <<udb, wire, lost, misrouted, calls, datagrams>>

Restored(t, s) == [so EXCEPT ![s].laddr = job[t].saved, ![s].faddr = AnyAddr]

(* No block for the header: ENOBUFS, and neither the data nor the name is  *)
(* freed.                                                                  *)
HeaderFails(t, s) ==
    /\ free.drv_lobuf = 0
    /\ lost' = [p \in DOMAIN lost |-> IF p \in NameOf(t) \cup DataOf(t) THEN lost[p] + 1 ELSE lost[p]]
    /\ so' = IF job[t].nam THEN Restored(t, s) ELSE so
    /\ spl' = IF job[t].nam THEN splx ELSE spl
    /\ Return(t)
    /\ UNCHANGED <<wire, free>>

(* ip_output: the packet goes to the driver, or is freed after an error *)
HeaderSent(t) ==
    /\ free.drv_lobuf > 0
    /\ \/ wire' = wire + 1 /\ free' = [free EXCEPT !.drv_lobuf = @ - 1]
       \/ wire' = wire /\ free' = Freed(DataOf(t))
    /\ job' = [job EXCEPT ![t].pc = "sent", ![t].data = FALSE]
    /\ UNCHANGED <<so, spl, lost>>

Header(t, s) ==
    /\ job[t].pc = "hdr" /\ Runs(t)
    /\ HeaderFails(t, s) \/ HeaderSent(t)
    /\ UNCHANGED <<udb, last_port, misrouted, calls, datagrams>>

(* the end of udp_output *)
Sent(t, s) ==
    /\ job[t].pc = "sent" /\ Runs(t)
    /\ so' = IF job[t].nam THEN Restored(t, s) ELSE so
    /\ spl' = IF job[t].nam THEN splx ELSE spl
    /\ free' = Freed(NameOf(t))
    /\ Return(t)
    /\ UNCHANGED <<udb, last_port, wire, lost, misrouted, calls, datagrams>>

(* the driver has transmitted a packet and frees its chain *)
Transmitted ==
    /\ wire > 0
    /\ wire' = wire - 1
    /\ free' = Freed({"drv_lobuf", "drv_m1buf"})
    /\ UNCHANGED <<so, udb, last_port, spl, job, lost, misrouted, calls, datagrams>>

-----------------------------------------------------------------------------
(* Receiving                                                               *)

(* A datagram comes up to udp_input; src is kept in to, dst in saved *)
Arrive(src, dst, port) ==
    /\ job[Rx].pc = "idle" /\ free.hibuf > 0 /\ datagrams < MaxDatagrams
    /\ datagrams' = datagrams + 1
    /\ free' = [free EXCEPT !.hibuf = @ - 1]
    /\ job' = [job EXCEPT ![Rx] = [Idle EXCEPT !.pc = "spl", !.call = "input", !.to = src,
                                               !.saved = dst, !.port = port]]
    /\ UNCHANGED <<so, udb, last_port, spl, wire, lost, misrouted, calls>>

(* the addresses that the socket has when nobody sends with a name *)
Lasting(s) ==
    LET j == job[Owner[s]]
    IN  IF j.s = s /\ j.nam /\ j.pc \in {"hdr", "sent"}
        THEN [so[s] EXCEPT !.faddr = AnyAddr, !.laddr = j.saved]
        ELSE so[s]

Found(tab) == in_pcblookup(tab, job[Rx].to, job[Rx].saved, job[Rx].port, TRUE)

(* udp_input: the lookup.  No socket: the datagram is freed, or goes back  *)
(* in an ICMP error that frees it.                                         *)
udp_input ==
    /\ job[Rx].pc = "crit" /\ Runs(Rx)
    /\ spl' = splx
    /\ misrouted' = (misrouted \/ Found(so) # Found([s \in Sockets |-> Lasting(s)]))
    /\ IF Found(so) = None
         THEN Return(Rx) /\ free' = Freed({"hibuf"})
         ELSE job' = [job EXCEPT ![Rx].pc = "deliver", ![Rx].s = Found(so)] /\ free' = free
    /\ UNCHANGED <<so, udb, last_port, wire, lost, calls, datagrams>>

(* the queue of the socket that was found, or a full queue *)
Deliver ==
    /\ job[Rx].pc = "deliver" /\ Runs(Rx)
    /\ IF so[job[Rx].s].open /\ Len(so[job[Rx].s].q) < RX_QUEUE_SIZE
         THEN /\ so' = [so EXCEPT ![job[Rx].s].q = Append(@, job[Rx].to)]
              /\ free' = free
         ELSE so' = so /\ free' = Freed({"hibuf"})
    /\ Return(Rx)
    /\ UNCHANGED <<udb, last_port, spl, wire, lost, misrouted, calls, datagrams>>

(* udp_s_recvfrom: a datagram, EWOULDBLOCK, or the timeout *)
udp_s_recvfrom(t, s) ==
    /\ job[t].pc = "recv" /\ Runs(t)
    /\ so[s].q # <<>> \/ so[s].nbio \/ so[s].timed
    /\ IF so[s].q # <<>>
         THEN so' = [so EXCEPT ![s].q = Tail(@)] /\ free' = Freed({"hibuf"})
         ELSE UNCHANGED <<so, free>>
    /\ Return(t)
    /\ UNCHANGED <<udb, last_port, spl, wire, lost, misrouted, calls, datagrams>>

-----------------------------------------------------------------------------
Step(t) ==
    \/ splnet(t)
    \/ DataCopied(t)
    \/ \E s \in {job[t].s} \ {None} :
        \/ CriticalSection(t, s) \/ udp_output(t, s) \/ SendConnected(t, s)
        \/ Header(t, s) \/ Sent(t, s) \/ udp_s_recvfrom(t, s)

RxStep == splnet(Rx) \/ udp_input \/ Deliver

Next ==
    \/ \E t \in Apps : Step(t)
    \/ RxStep
    \/ \E s \in Sockets : \E r \in Requests(s) : Call(Owner[s], s, r)
    \/ \E src \in Peers, dst \in {If, Bc}, port \in Ports : Arrive(src, dst, port)
    \/ Transmitted

(* The kernel runs the tasks, the controller transmits *)
Fairness ==
    /\ \A t \in Apps : WF_vars(Step(t))
    /\ WF_vars(RxStep)
    /\ WF_vars(Transmitted)

Spec == Init /\ [][Next]_vars /\ Fairness

-----------------------------------------------------------------------------
(* Whether task t with job j holds a block of pool p: the mbuf with the    *)
(* name, the mbuf with the data, or the datagram on its way up.            *)
HoldsBlock(t, j, p) ==
    \/ p = "m1buf" /\ j.nam
    \/ p = "drv_m1buf" /\ j.data
    \/ p = "hibuf" /\ t = Rx /\ j.pc # "idle"

(* The places of the datagrams in the queues of the sockets                *)
Queued == UNION {{s} \X DOMAIN so[s].q : s \in Sockets}

HeldByTasks(p) == Cardinality({t \in Tasks : HoldsBlock(t, job[t], p)})

(* A socket has a block for itself and one for its pcb.                    *)
HeldBySockets(p) ==
    CASE p \in {"m1buf", "lobuf"} -> Cardinality({s \in Sockets : so[s].open})
      [] p = "hibuf" -> Cardinality(Queued)
      [] OTHER -> 0

HeldByDriver(p) == IF p \in {"drv_lobuf", "drv_m1buf"} THEN wire ELSE 0

(* Every block is free, held by a task, a socket or the driver, or is one  *)
(* of those that udp_output forgets when it gets no header: no other path  *)
(* of the calls and of udp_input loses a block or frees one twice.         *)
MemoryCounted ==
    \A p \in DOMAIN Pools :
        free[p] + lost[p] + HeldByDriver(p) + HeldByTasks(p) + HeldBySockets(p)
        = Pools[p]

(* The temporary connection of sendto stays inside the lock: udp_input     *)
(* finds a socket by the addresses that it has outside of sendto, and      *)
(* after the call the socket has its addresses back.                       *)
ConnectionHidden ==
    /\ ~misrouted
    /\ \A s \in Sockets : (Lasting(s).faddr # AnyAddr) = so[s].conn

(* The task that holds the spl lock waits for a block: udp_s_socket calls  *)
(* tn_net_alloc_mid1 with MB_WAIT inside of the lock.                      *)
LockStarved == \E t \in Apps : spl.holder = t /\ Starved(t)

(* The spl lock is handed over until everybody had it: a datagram that     *)
(* came up to udp_input is put into a queue, answered or freed.  Except:   *)
(* the task that holds the lock waits for a block for ever, since those    *)
(* that could free one wait for the lock, or there is none left to free.   *)
InputEnds == job[Rx].pc # "idle" ~> job[Rx].pc = "idle" \/ []LockStarved
=============================================================================
