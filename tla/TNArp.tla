-------------------------------- MODULE TNArp --------------------------------
(***************************************************************************)
(* The address resolution of TN NET (tn_arp.c, net_netif1_out_func): the   *)
(* table of an interface, the packets it holds until an address is known,  *)
(* the tasks that send, the task that receives and the net timer task.     *)
(*                                                                         *)
(* What the code does between ARP_LOCK and ARP_UNLOCK is one step: every   *)
(* access to the table is under that semaphore, and nothing in between     *)
(* waits.  What a task does after ARP_UNLOCK is a step of its own.         *)
(* A packet that is given to the driver leaves this model.  The memory of  *)
(* a packet is one unit.                                                   *)
(***************************************************************************)
EXTENDS Integers, Sequences, FiniteSets, SequencesExt

CONSTANTS
    Senders,        \* the tasks that send IP packets
    RxTask,         \* the receive task of the interface, one of them
    Hosts,          \* the addresses of the other hosts
    MyAddr,         \* ni->ip_addr
    AnyAddr,        \* the address 0, which a free entry has
    Packets,        \* the packets the memory pools can hold at a time
    NoPacket,       \* NULL
    capacity,       \* ni->arp_arr_capacity
    ARP_MAX_TRIES,
    ARP_TIME_DOWN,
    ARP_TIME_KEEP,
    MaxTime         \* bound: the second in which the model ends

ASSUME ArpAssumption ==
    /\ RxTask \in Senders
    /\ MyAddr \notin Hosts /\ AnyAddr \notin Hosts /\ MyAddr # AnyAddr
    /\ NoPacket \notin Packets
    /\ capacity \in Nat /\ capacity >= 2
    /\ {ARP_MAX_TRIES, ARP_TIME_DOWN, ARP_TIME_KEEP, MaxTime} \subseteq Nat

VARIABLES
    table,       \* ni->arp_arr
    allocated,   \* the packets whose memory is not in the pools
    dest,        \* the address each packet is sent to
    time,        \* tn_time_sec()
    dup_own_ip,  \* ni->dup_own_ip_addr
    pc,          \* where each task is, its packet and the address for it
    spoilt       \* history: the packets that were freed while an entry held
                 \* them, and still does

vars == <<table, allocated, dest, time, dup_own_ip, pc, spoilt>>

Slots == 0 .. capacity - 1

Addresses == Hosts \cup {MyAddr, AnyAddr}

(* A hardware address is known by the host that sent it and the second it  *)
(* was heard in; this one is all zeros.                                    *)
NoHwAddr == [of |-> AnyAddr, at |-> 0]

(* An entry of zeros.  downed is history: the host has been declared down  *)
(* since it was last heard.                                                *)
FreeEntry == [itaddr |-> AnyAddr, state |-> "FREE", mac_addr |-> NoHwAddr,
              la_hold |-> NoPacket, la_asked |-> 0, rt_expire |-> 0,
              downed |-> FALSE]

Idle == [at |-> "idle", mb |-> NoPacket, mac |-> NoHwAddr]

(* arp_init *)
Init ==
    /\ table = [i \in Slots |-> FreeEntry]
    /\ allocated = {}
    /\ dest = [m \in Packets |-> AnyAddr]
    /\ time = 0
    /\ dup_own_ip = FALSE
    /\ pc = [u \in Senders |-> Idle]
    /\ spoilt = {}

(* The pools have memory for packet m.  That of a spoilt packet is freed   *)
(* through the entry again, so it may be in the pool while it is in use.   *)
InPool(m) == m \notin allocated \/ m \in spoilt

-----------------------------------------------------------------------------
(* arp_lookup                                                              *)

Matches(ip) == {i \in Slots : table[i].itaddr = ip}

InState(state) == {i \in Slots : table[i].state = state}

(* The first one of the entries S that are the next to expire *)
Oldest(S) ==
    CHOOSE i \in S : \A j \in S :
        \/ table[i].rt_expire < table[j].rt_expire
        \/ table[i].rt_expire = table[j].rt_expire /\ i <= j

First(S) == CHOOSE i \in S : \A j \in S : i <= j

(* The entry a new address gets: no entry is ever ARP_PERMANENT.           *)
Replaced ==
    CASE InState("FREE") # {}   -> First(InState("FREE"))
      [] InState("FREE") = {} /\ InState("SOLVED") # {} -> Oldest(InState("SOLVED"))
      [] OTHER                  -> Oldest(InState("PENDING"))

(* The index of the entry for ip, created if need be *)
Lookup(ip) == IF Matches(ip) # {} THEN First(Matches(ip)) ELSE Replaced

(* Mutant: a replaced entry keeps its state and hardware address.          *)
Solved_NewEntry(ip, old) ==
    [FreeEntry EXCEPT !.itaddr = ip, !.rt_expire = old.rt_expire,
                      !.mac_addr = old.mac_addr,
                      !.state = IF old.state = "FREE" THEN "PENDING" ELSE old.state]

NewEntry(ip, old) ==
    [FreeEntry EXCEPT !.itaddr = ip, !.state = "PENDING", !.rt_expire = time]

(* The entry for ip after arp_lookup *)
Entry(ip) ==
    IF Matches(ip) # {} THEN table[Lookup(ip)] ELSE NewEntry(ip, table[Lookup(ip)])

(* Mutant: the packet of a replaced entry is forgotten.                    *)
Leak_Evicted(ip) == {}

(* The packet that arp_lookup frees with the entry it replaces *)
Evicted(ip) == IF Matches(ip) # {} THEN {} ELSE {table[Lookup(ip)].la_hold}

-----------------------------------------------------------------------------
(* arp_input                                                               *)

(* The hardware address of ip is heard: the packet that is held for it is  *)
(* sent.  Without memory for the Ethernet header it is freed, and la_hold  *)
(* still points to it.                                                     *)
Heard(ip, fails) ==
    LET e == Entry(ip)
    IN  [e EXCEPT !.mac_addr = [of |-> ip, at |-> time],
                  !.state = "SOLVED",
                  !.rt_expire = time + ARP_TIME_KEEP,
                  !.la_asked = 0,
                  !.la_hold = IF fails THEN @ ELSE NoPacket,
                  !.downed = FALSE]

(* A packet from spa, which asks for this host if forMe; op is its kind.   *)
(* (A short packet and a broadcast sender are dropped.)  An answer is sent *)
(* after ARP_UNLOCK, in the same mbuf.                                     *)
arp_input(m, spa, forMe, op) ==
    LET reply == op = "REQUEST" /\ (forMe \/ spa = MyAddr)
        kept  == IF reply THEN {m} ELSE {}
    IN  /\ pc[RxTask] = Idle
        /\ InPool(m)
        /\ pc' = IF reply THEN [pc EXCEPT ![RxTask] = [Idle EXCEPT !.at = "reply", !.mb = m]]
                          ELSE pc
        /\ IF spa = MyAddr
           THEN /\ dup_own_ip' = TRUE
                /\ allocated' = allocated \cup kept
                /\ UNCHANGED <<table, spoilt>>
           ELSE /\ UNCHANGED dup_own_ip
                /\ IF Matches(spa) # {} \/ forMe
                   THEN LET held == Entry(spa).la_hold
                        IN  \E fails \in {FALSE, held # NoPacket} :
                              /\ table' = [table EXCEPT ![Lookup(spa)] = Heard(spa, fails)]
                              /\ allocated' = (allocated \ ({held} \cup Evicted(spa))) \cup kept
                              /\ spoilt' = IF fails THEN spoilt \cup {held} ELSE spoilt
                   ELSE allocated' = allocated \cup kept /\ UNCHANGED <<table, spoilt>>
        /\ UNCHANGED <<dest, time>>

(* ni->drv_wr takes the answer *)
Reply ==
    /\ pc[RxTask].at = "reply"
    /\ allocated' = allocated \ {pc[RxTask].mb}
    /\ pc' = [pc EXCEPT ![RxTask] = Idle]
    /\ UNCHANGED <<table, dest, time, dup_own_ip, spoilt>>

-----------------------------------------------------------------------------
(* arp_resolve, arp_request, net_netif1_out_func                           *)

(* Mutant: an address is used however long ago it was heard.               *)
Stale_Valid(e) == e.state = "SOLVED"

Valid(e) == e.rt_expire > time /\ e.state = "SOLVED"

MayAsk(e) == e.la_asked = 0 \/ e.rt_expire # time

Asks(e) == MayAsk(e) /\ e.la_asked < ARP_MAX_TRIES

(* The entry after packet m is held: the host is asked for at most once a  *)
(* second, and declared down after ARP_MAX_TRIES requests.                 *)
Hold(e, m) ==
    LET h == [e EXCEPT !.la_hold = m]
    IN  CASE Asks(e) ->
               [h EXCEPT !.rt_expire = time, !.la_asked = @ + 1]
          [] MayAsk(e) /\ ~Asks(e) ->
               [h EXCEPT !.rt_expire = time + ARP_TIME_DOWN, !.la_asked = 0,
                         !.downed = TRUE]
          [] OTHER -> h

(* Task u sends packet m to ip.  (A broadcast or multicast packet needs no *)
(* entry and is left out.)                                                 *)
arp_resolve(u, m, ip) ==
    LET e == Entry(ip)
    IN  /\ pc[u] = Idle
        /\ InPool(m)
        /\ dest' = [dest EXCEPT ![m] = ip]
        /\ IF Valid(e)
           THEN /\ pc' = [pc EXCEPT ![u] = [at |-> "send", mb |-> m, mac |-> e.mac_addr]]
                /\ table' = [table EXCEPT ![Lookup(ip)] = e]
                /\ allocated' = (allocated \ Evicted(ip)) \cup {m}
           ELSE /\ table' = [table EXCEPT ![Lookup(ip)] = Hold(e, m)]
                /\ allocated' = (allocated \ ({e.la_hold} \cup Evicted(ip))) \cup {m}
                /\ pc' = IF Asks(e) THEN [pc EXCEPT ![u].at = "request"] ELSE pc
        /\ UNCHANGED <<time, dup_own_ip, spoilt>>

(* arp_request broadcasts a request, if there is memory for it.            *)
arp_request(u) ==
    /\ pc[u].at = "request"
    /\ pc' = [pc EXCEPT ![u] = Idle]
    /\ UNCHANGED <<table, allocated, dest, time, dup_own_ip, spoilt>>

(* net_netif1_out_func: ni->drv_wr takes the packet, or add_eth_header has *)
(* freed it.                                                               *)
Output(u) ==
    /\ pc[u].at = "send"
    /\ allocated' = allocated \ {pc[u].mb}
    /\ pc' = [pc EXCEPT ![u] = Idle]
    /\ UNCHANGED <<table, dest, time, dup_own_ip, spoilt>>

-----------------------------------------------------------------------------
(* arp_timer_func                                                          *)

Expired == {i \in Slots : table[i].rt_expire # 0 /\ table[i].rt_expire <= time}

(* Every five minutes: here, whenever it makes a difference.               *)
arp_timer_func ==
    /\ Expired # {}
    /\ table' = [i \in Slots |-> IF i \in Expired THEN FreeEntry ELSE table[i]]
    /\ allocated' = allocated \ {table[i].la_hold : i \in Expired}
    /\ UNCHANGED <<dest, time, dup_own_ip, pc, spoilt>>

Tick ==
    /\ time < MaxTime
    /\ time' = time + 1
    /\ UNCHANGED <<table, allocated, dest, dup_own_ip, pc, spoilt>>

-----------------------------------------------------------------------------

Next ==
    \/ \E m \in Packets :
         \/ \E spa \in Addresses, forMe \in BOOLEAN, op \in {"REQUEST", "REPLY"} :
              arp_input(m, spa, forMe, op)
         \/ \E u \in Senders, ip \in Hosts : arp_resolve(u, m, ip)
    \/ \E u \in Senders : arp_request(u) \/ Output(u)
    \/ Reply
    \/ arp_timer_func
    \/ Tick

Spec == Init /\ [][Next]_vars

-----------------------------------------------------------------------------
(* Properties                                                              *)

(* The owners of a packet: the task that sends it, the entry that holds it *)
Owners(m) ==
    {<<"task", u>> : u \in {v \in Senders : pc[v].mb = m}}
      \cup {<<"entry", i>> : i \in {j \in Slots : table[j].la_hold = m}}

(* A packet has one owner, the task that sends it or the entry that holds  *)
(* it ("mbuf to send(only last)"), from its allocation until it is freed   *)
(* or given to the driver: a packet that is replaced, whose entry is       *)
(* replaced or ages, or that is sent by the receive task is neither lost   *)
(* nor freed twice.  Except: a packet for whose Ethernet header there was  *)
(* no memory is freed and stays in la_hold; all others keep one owner      *)
(* then, however often that one is freed again.                            *)
OneOwner ==
    \A m \in Packets \ spoilt :
        Cardinality(Owners(m)) = IF m \in allocated THEN 1 ELSE 0

(* A packet goes to the hardware address that its own host was heard from, *)
(* also when entries are replaced between the time it is held and the time *)
(* the answer comes, or while the task that sends it has left ARP_LOCK.    *)
(* Except a spoilt one: when its memory is used again, it is sent to the   *)
(* host of the entry that still holds it.                                  *)
RightHost ==
    /\ \A i \in Slots :
         table[i].la_hold \notin spoilt \cup {NoPacket} =>
             dest[table[i].la_hold] = table[i].itaddr
    /\ \A u \in Senders :
         pc[u].at = "send" /\ pc[u].mb \notin spoilt => pc[u].mac.of = dest[pc[u].mb]

(* "once resolved, good for 20 more minutes": arp_resolve gives away no    *)
(* address that was heard ARP_TIME_KEEP seconds ago, but for one case: an  *)
(* entry that has expired keeps its state, and when the host is declared   *)
(* down its rt_expire is moved into the future again.                      *)
FreshAddress ==
    [][\A u \in Senders : pc[u].at = "idle" /\ pc'[u].at = "send" =>
          LET ip == dest'[pc'[u].mb]
          IN  \/ time < pc'[u].mac.at + ARP_TIME_KEEP
              \/ \E i \in Slots : table[i].itaddr = ip /\ table[i].downed]_vars

=============================================================================
