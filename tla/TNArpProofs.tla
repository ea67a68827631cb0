----------------------------- MODULE TNArpProofs -----------------------------
(***************************************************************************)
(* Address resolution, for any number of tasks, hosts, packets and entries *)
(* and any values of the ARP_ times: a packet has one owner, it goes to    *)
(* its own host, and an address that was heard too long ago is not used.   *)
(*                                                                         *)
(* The inductive invariant says of every packet who has it, of every entry *)
(* whose hardware address it keeps, and until when: Ownership needs no     *)
(* more than itself; RightHost needs it, because arp_resolve overwrites    *)
(* the destination of the packet it is called with.  Both speak of sound   *)
(* packets: of a spoilt one nothing is known, but its memory is nobody     *)
(* else's.                                                                 *)
(***************************************************************************)
EXTENDS TNArp, TNListProofs

HwAddrs == [of : Addresses, at : Nat]

Entries == [itaddr : Addresses, state : {"FREE", "PENDING", "SOLVED"},
            mac_addr : HwAddrs, la_hold : Packets \cup {NoPacket},
            la_asked : Nat, rt_expire : Nat, downed : BOOLEAN]

Places == [at : {"idle", "reply", "send", "request"},
           mb : Packets \cup {NoPacket}, mac : HwAddrs]

(* The type invariant.  A task has a packet in the places where it is      *)
(* about to give it to the driver, and in no other.                        *)
TypeOK ==
    /\ table \in [Slots -> Entries]
    /\ allocated \in SUBSET Packets
    /\ dest \in [Packets -> Addresses]
    /\ time \in Nat
    /\ dup_own_ip \in BOOLEAN
    /\ pc \in [Senders -> Places]
    /\ \A u \in Senders : pc[u].mb \in Packets <=> pc[u].at \in {"reply", "send"}
    /\ spoilt \in SUBSET Packets

Sound(m) == m \notin spoilt \cup {NoPacket}

(* Whoever has a sound packet has allocated memory, no such packet is had  *)
(* by two, and none is left behind.                                        *)
Ownership ==
    /\ \A u \in Senders : Sound(pc[u].mb) => pc[u].mb \in allocated
    /\ \A i \in Slots : Sound(table[i].la_hold) => table[i].la_hold \in allocated
    /\ \A u, v \in Senders : Sound(pc[u].mb) /\ pc[u].mb = pc[v].mb => u = v
    /\ \A i, j \in Slots :
         Sound(table[i].la_hold) /\ table[i].la_hold = table[j].la_hold => i = j
    /\ \A u \in Senders, i \in Slots :
         Sound(pc[u].mb) => pc[u].mb # table[i].la_hold
    /\ \A m \in allocated \ spoilt :
         \/ \E u \in Senders : pc[u].mb = m
         \/ \E i \in Slots : table[i].la_hold = m

(* The hardware address of an entry is its own host's.                     *)
KnownHost ==
    \A i \in Slots : table[i].state = "SOLVED" => table[i].mac_addr.of = table[i].itaddr

(* An address is kept no longer than ARP_TIME_KEEP: a request sets         *)
(* rt_expire to the current second, which is not in the future.            *)
KeptUntil ==
    \A i \in Slots : table[i].state = "SOLVED" /\ ~table[i].downed =>
        \/ table[i].rt_expire <= table[i].mac_addr.at + ARP_TIME_KEEP
        \/ table[i].rt_expire <= time

IInv == TypeOK /\ Ownership /\ RightHost /\ KnownHost /\ KeptUntil

-----------------------------------------------------------------------------
(* arp_lookup                                                              *)

(* The CHOOSE of First and Oldest has a witness.                           *)
LEMMA FirstIn ==
    ASSUME NEW S \in SUBSET Slots, S # {}
    PROVE  First(S) \in S
<1>1. S \in SUBSET Nat
  BY ArpAssumption DEF Slots
<1>2. \E i \in S : \A j \in S : i <= j
  BY <1>1, SmallestNat
<1> QED
  BY <1>2 DEF First

LEMMA OldestIn ==
    ASSUME TypeOK, NEW S \in SUBSET Slots, S # {}
    PROVE  Oldest(S) \in S
<1> DEFINE T == {table[i].rt_expire : i \in S}
<1>1. \A i \in Slots : table[i].rt_expire \in Nat /\ i \in Nat
  BY ArpAssumption DEF TypeOK, Entries, Slots
<1>2. T \in SUBSET Nat /\ T # {}
  BY <1>1
<1>3. PICK t \in T : \A y \in T : t <= y
  BY <1>2, SmallestNat
<1> DEFINE R == {i \in S : table[i].rt_expire = t}
<1>4. R \in SUBSET Nat /\ R # {}
  BY <1>1, <1>3
<1>5. PICK i \in R : \A j \in R : i <= j
  BY <1>4, SmallestNat
<1>6. ASSUME NEW j \in S
      PROVE  \/ table[i].rt_expire < table[j].rt_expire
             \/ table[i].rt_expire = table[j].rt_expire /\ i <= j
  <2>1. t <= table[j].rt_expire /\ t \in Nat /\ table[j].rt_expire \in Nat
    BY <1>1, <1>2, <1>3
  <2>2. CASE table[j].rt_expire = t
    BY <2>2, <1>5
  <2>3. CASE table[j].rt_expire # t
    BY <2>1, <2>3, <1>5
  <2> QED BY <2>2, <2>3
<1>7. i \in S
  OBVIOUS
<1> HIDE DEF R, T
<1> QED
  BY <1>6, <1>7 DEF Oldest

(* The entry of ip: it is there, or it replaces one, whose packet goes.    *)
LEMMA LookupEntry ==
    ASSUME TypeOK, NEW ip \in Addresses
    PROVE  /\ Lookup(ip) \in Slots
           /\ Entry(ip) \in Entries
           /\ Entry(ip).itaddr = ip
           /\ \/ Entry(ip) = table[Lookup(ip)] /\ Evicted(ip) = {}
              \/ /\ Entry(ip) = NewEntry(ip, table[Lookup(ip)])
                 /\ Evicted(ip) = {table[Lookup(ip)].la_hold}
<1>1. CASE Matches(ip) # {}
  <2>1. Lookup(ip) \in Matches(ip)
    BY <1>1, FirstIn DEF Lookup, Matches
  <2> QED
    BY <1>1, <2>1 DEF Entry, Evicted, Matches, TypeOK
<1>2. CASE Matches(ip) = {}
  <2>1. Lookup(ip) = Replaced
    BY <1>2 DEF Lookup
  <2>2. Replaced \in Slots
    <3>1. CASE InState("FREE") # {}
      <4>1. Replaced = First(InState("FREE"))
        BY <3>1 DEF Replaced
      <4> QED BY <3>1, <4>1, FirstIn DEF InState
    <3>2. CASE InState("FREE") = {} /\ InState("SOLVED") # {}
      <4>1. Replaced = Oldest(InState("SOLVED"))
        BY <3>2 DEF Replaced
      <4> QED BY <3>2, <4>1, OldestIn DEF InState
    <3>3. CASE InState("FREE") = {} /\ InState("SOLVED") = {}
      <4>1. Replaced = Oldest(InState("PENDING"))
        BY <3>3 DEF Replaced
      <4>2. 0 \in Slots
        BY ArpAssumption DEF Slots
      <4>3. 0 \in InState("PENDING")
        BY <3>3, <4>2 DEF InState, TypeOK, Entries
      <4> QED BY <4>1, <4>3, OldestIn DEF InState
    <3> QED BY <3>1, <3>2, <3>3
  <2>3. NewEntry(ip, table[Lookup(ip)]) \in Entries
    BY DEF NewEntry, FreeEntry, Entries, TypeOK, NoHwAddr, HwAddrs, Addresses
  <2>4. NewEntry(ip, table[Lookup(ip)]).itaddr = ip
    BY DEF NewEntry, FreeEntry
  <2> QED
    BY <1>2, <2>1, <2>2, <2>3, <2>4 DEF Entry, Evicted
<1> QED
  BY <1>1, <1>2

-----------------------------------------------------------------------------
(* Ownership, for a step that changes one entry and one task.              *)

(* Entry k frees its packet, or gets m instead of it.                      *)
LEMMA EntryStep ==
    ASSUME TypeOK, Ownership, NEW k \in Slots, NEW h \in Entries, NEW m \in Packets,
           InPool(m), spoilt \subseteq spoilt',
           table' = [table EXCEPT ![k] = h],
           \A u \in Senders : pc'[u].mb = pc[u].mb,
           \/ /\ h.la_hold \in spoilt' \cup {NoPacket}
              /\ allocated' = allocated \ {table[k].la_hold}
           \/ /\ h.la_hold = m
              /\ allocated' = (allocated \ {table[k].la_hold}) \cup {m}
    PROVE  Ownership'
<1> USE ArpAssumption
<1>1. \A i \in Slots : table'[i] = IF i = k THEN h ELSE table[i]
  BY DEF TypeOK
<1>2. \A u \in Senders : Sound(pc[u].mb) => pc[u].mb # m
  BY DEF Ownership, InPool, Sound
<1>3. \A i \in Slots : Sound(table[i].la_hold) => table[i].la_hold # m
  BY DEF Ownership, InPool, Sound
<1>4. CASE /\ h.la_hold \in spoilt' \cup {NoPacket}
           /\ allocated' = allocated \ {table[k].la_hold}
  BY <1>1, <1>2, <1>3, <1>4 DEF Ownership, Sound
<1>5. CASE h.la_hold = m /\ allocated' = (allocated \ {table[k].la_hold}) \cup {m}
  BY <1>1, <1>2, <1>3, <1>5 DEF Ownership, Sound
<1> QED
  BY <1>4, <1>5

(* Task u gets packet m; entry k keeps its packet or frees it.             *)
LEMMA TaskStep ==
    ASSUME TypeOK, Ownership, NEW k \in Slots, NEW h \in Entries, NEW m \in Packets,
           InPool(m), NEW u \in Senders, pc[u].mb = NoPacket, spoilt \subseteq spoilt',
           table' = [table EXCEPT ![k] = h],
           \A v \in Senders : pc'[v].mb = IF v = u THEN m ELSE pc[v].mb,
           \/ /\ h.la_hold \in spoilt' \cup {NoPacket}
              /\ allocated' = (allocated \ {table[k].la_hold}) \cup {m}
           \/ /\ h.la_hold = table[k].la_hold
              /\ allocated' = allocated \cup {m}
    PROVE  Ownership'
<1> USE ArpAssumption
<1>1. \A i \in Slots : table'[i] = IF i = k THEN h ELSE table[i]
  BY DEF TypeOK
<1>2. \A v \in Senders : Sound(pc[v].mb) => pc[v].mb # m
  BY DEF Ownership, InPool, Sound
<1>3. \A i \in Slots : Sound(table[i].la_hold) => table[i].la_hold # m
  BY DEF Ownership, InPool, Sound
<1>4. CASE /\ h.la_hold \in spoilt' \cup {NoPacket}
           /\ allocated' = (allocated \ {table[k].la_hold}) \cup {m}
  <2>1. \A i \in Slots : Sound(table[i].la_hold)' =>
          i # k /\ table'[i].la_hold = table[i].la_hold /\ Sound(table[i].la_hold)
    BY <1>1, <1>4 DEF Sound
  <2>2. \A v \in Senders : Sound(pc[v].mb)' /\ v # u => Sound(pc[v].mb) /\ pc'[v].mb = pc[v].mb
    BY DEF Sound
  <2>3. ASSUME NEW x \in allocated' \ spoilt'
        PROVE  \/ \E v \in Senders : pc'[v].mb = x
               \/ \E i \in Slots : table'[i].la_hold = x
    <3>1. CASE x = m
      BY <3>1
    <3>2. CASE x \in allocated \ {table[k].la_hold}
      BY <1>1, <3>2 DEF Ownership, TypeOK
    <3> QED BY <1>4, <3>1, <3>2
  <2>4. /\ \A v \in Senders : Sound(pc[v].mb)' => pc'[v].mb \in allocated'
        /\ \A v, w \in Senders : Sound(pc[v].mb)' /\ pc'[v].mb = pc'[w].mb => v = w
    BY <1>2, <1>4, <2>2 DEF Ownership
  <2>5. \A i \in Slots : Sound(table[i].la_hold)' => table'[i].la_hold \in allocated'
    BY <1>3, <1>4, <2>1 DEF Ownership
  <2>6. \A i, j \in Slots :
          Sound(table[i].la_hold)' /\ table'[i].la_hold = table'[j].la_hold => i = j
    BY <2>1 DEF Ownership, Sound
  <2>7. ASSUME NEW v \in Senders, NEW i \in Slots, Sound(pc[v].mb)',
               pc'[v].mb = table'[i].la_hold
        PROVE  FALSE
    <3>1. Sound(table[i].la_hold)'
      BY <2>7 DEF Sound
    <3>2. i # k /\ table'[i].la_hold = table[i].la_hold /\ Sound(table[i].la_hold)
      BY <2>1, <3>1
    <3>3. CASE v = u
      BY <1>3, <2>7, <3>2, <3>3
    <3>4. CASE v # u
      BY <2>2, <2>7, <3>2, <3>4 DEF Ownership
    <3> QED BY <3>3, <3>4
  <2> QED BY <2>3, <2>4, <2>5, <2>6, <2>7 DEF Ownership
<1>5. CASE h.la_hold = table[k].la_hold /\ allocated' = allocated \cup {m}
  <2>1. \A i \in Slots : table'[i].la_hold = table[i].la_hold
    BY <1>1, <1>5
  <2>2. ASSUME NEW x \in allocated' \ spoilt'
        PROVE  \/ \E v \in Senders : pc'[v].mb = x
               \/ \E i \in Slots : table'[i].la_hold = x
    <3>1. CASE x = m
      BY <3>1
    <3>2. CASE x \in allocated
      BY <2>1, <3>2 DEF Ownership, TypeOK
    <3> QED BY <1>5, <3>1, <3>2
  <2>3. /\ \A v \in Senders : Sound(pc[v].mb)' => pc'[v].mb \in allocated'
        /\ \A v \in Senders, i \in Slots :
             Sound(pc[v].mb)' => pc'[v].mb # table'[i].la_hold
        /\ \A v, w \in Senders : Sound(pc[v].mb)' /\ pc'[v].mb = pc'[w].mb => v = w
    BY <1>2, <1>3, <1>5, <2>1 DEF Ownership, Sound
  <2> QED
    BY <1>5, <2>1, <2>2, <2>3 DEF Ownership, Sound
<1> QED
  BY <1>4, <1>5

-----------------------------------------------------------------------------
(* The parts of the invariant that are about one entry or one task, where  *)
(* d is dest, t is time and sp is spoilt.                                  *)

EntryOK(e, d, t, sp) ==
    /\ e.la_hold \notin sp \cup {NoPacket} => d[e.la_hold] = e.itaddr
    /\ e.state = "SOLVED" => e.mac_addr.of = e.itaddr
    /\ e.state = "SOLVED" /\ ~e.downed =>
         e.rt_expire <= e.mac_addr.at + ARP_TIME_KEEP \/ e.rt_expire <= t

SendOK(p, d, sp) == p.at = "send" /\ p.mb \notin sp => p.mac.of = d[p.mb]

LEMMA Parts ==
    IInv <=> /\ TypeOK /\ Ownership
             /\ \A i \in Slots : EntryOK(table[i], dest, time, spoilt)
             /\ \A u \in Senders : SendOK(pc[u], dest, spoilt)
BY DEF IInv, RightHost, KnownHost, KeptUntil, EntryOK, SendOK

(* The entry of a host that was heard: it holds no packet, or one that is  *)
(* spoilt.                                                                 *)
LEMMA HeardType ==
    ASSUME TypeOK, NEW ip \in Addresses, NEW fails \in BOOLEAN, NEW sp,
           fails => Entry(ip).la_hold \in sp
    PROVE  /\ Heard(ip, fails) \in Entries
           /\ Heard(ip, fails).la_hold \in sp \cup {NoPacket}
           /\ EntryOK(Heard(ip, fails), dest, time, sp)
<1> DEFINE e == Entry(ip)
           a == [of |-> ip, at |-> time]
           l == IF fails THEN e.la_hold ELSE NoPacket
           h == [e EXCEPT !.mac_addr = a, !.state = "SOLVED",
                          !.rt_expire = time + ARP_TIME_KEEP, !.la_asked = 0,
                          !.la_hold = l, !.downed = FALSE]
<1>1. e \in Entries /\ e.itaddr = ip
  BY LookupEntry
<1>2. a \in HwAddrs /\ a.of = ip /\ a.at = time /\ time + ARP_TIME_KEEP \in Nat
  BY ArpAssumption DEF HwAddrs, TypeOK
<1>3. Heard(ip, fails) = h
  BY DEF Heard
<1>4. l \in Packets \cup {NoPacket} /\ l \in sp \cup {NoPacket}
  BY <1>1 DEF Entries
<1> HIDE DEF e, a, l
<1>5. /\ h \in Entries /\ h.la_hold = l /\ h.itaddr = ip /\ h.mac_addr = a
      /\ h.rt_expire = time + ARP_TIME_KEEP
  BY <1>1, <1>2, <1>4 DEF Entries
<1> HIDE DEF h
<1>6. h.rt_expire <= h.mac_addr.at + ARP_TIME_KEEP
  BY <1>2, <1>5
<1> QED
  BY <1>2, <1>3, <1>4, <1>5, <1>6 DEF EntryOK

(* arp_input preserves the invariant.                                      *)
LEMMA InputStep ==
    ASSUME IInv, NEW m \in Packets, NEW spa \in Addresses,
           NEW forMe \in BOOLEAN, NEW op \in {"REQUEST", "REPLY"},
           arp_input(m, spa, forMe, op)
    PROVE  IInv'
<1> USE ArpAssumption
<1> DEFINE reply == op = "REQUEST" /\ (forMe \/ spa = MyAddr)
           kept  == IF reply THEN {m} ELSE {}
           k     == Lookup(spa)
           r     == [Idle EXCEPT !.at = "reply", !.mb = m]
<1>1. TypeOK /\ Ownership /\ InPool(m) /\ pc[RxTask] = Idle
  BY DEF IInv, arp_input
<1>2. dest' = dest /\ time' = time /\ dup_own_ip' \in BOOLEAN
  BY <1>1 DEF arp_input, TypeOK
<1>3. r \in Places /\ r.mb = m /\ r.at = "reply"
  BY DEF Idle, Places, NoHwAddr, HwAddrs, Addresses
<1>4. pc' = IF reply THEN [pc EXCEPT ![RxTask] = r] ELSE pc
  BY DEF arp_input
<1>5. NoPacket \notin allocated
  BY <1>1 DEF TypeOK
<1>6. k \in Slots /\ Entry(spa) \in Entries
  BY <1>1, LookupEntry
<1>7. PICK h \in Entries :
        /\ table' = [table EXCEPT ![k] = h]
        /\ EntryOK(h, dest, time, spoilt')
        /\ spoilt \subseteq spoilt' /\ spoilt' \in SUBSET Packets
        /\ \/ h.la_hold = table[k].la_hold /\ allocated' = allocated \cup kept
           \/ /\ h.la_hold \in spoilt' \cup {NoPacket}
              /\ allocated' = (allocated \ {table[k].la_hold}) \cup kept
  <2>1. CASE table' = table /\ allocated' = allocated \cup kept /\ spoilt' = spoilt
    <3>1. /\ table' = [table EXCEPT ![k] = table[k]] /\ table[k] \in Entries
          /\ spoilt' \in SUBSET Packets
      BY <1>1, <1>6, <2>1 DEF TypeOK
    <3>2. EntryOK(table[k], dest, time, spoilt')
      BY <1>6, <2>1, Parts
    <3> QED BY <2>1, <3>1, <3>2
  <2>2. ASSUME NEW fails \in {FALSE, Entry(spa).la_hold # NoPacket},
               table' = [table EXCEPT ![k] = Heard(spa, fails)],
               allocated' = (allocated \ ({Entry(spa).la_hold} \cup Evicted(spa))) \cup kept,
               spoilt' = IF fails THEN spoilt \cup {Entry(spa).la_hold} ELSE spoilt
        PROVE  \E h \in Entries :
                 /\ table' = [table EXCEPT ![k] = h]
                 /\ EntryOK(h, dest, time, spoilt')
                 /\ spoilt \subseteq spoilt' /\ spoilt' \in SUBSET Packets
                 /\ h.la_hold \in spoilt' \cup {NoPacket}
                 /\ allocated' = (allocated \ {table[k].la_hold}) \cup kept
    <3>1. fails \in BOOLEAN
      OBVIOUS
    <3>2. fails => Entry(spa).la_hold \in spoilt' /\ Entry(spa).la_hold \in Packets
      BY <1>6, <2>2 DEF Entries
    <3>3. spoilt \subseteq spoilt' /\ spoilt' \in SUBSET Packets
      BY <1>1, <2>2, <3>1, <3>2 DEF TypeOK
    <3>4. allocated \ ({Entry(spa).la_hold} \cup Evicted(spa)) = allocated \ {table[k].la_hold}
      <4>1. NewEntry(spa, table[k]).la_hold = NoPacket
        BY DEF NewEntry, FreeEntry
      <4> HIDE DEF k
      <4> QED BY <1>1, <1>5, <4>1, LookupEntry DEF k
    <3>5. /\ Heard(spa, fails) \in Entries
          /\ Heard(spa, fails).la_hold \in spoilt' \cup {NoPacket}
          /\ EntryOK(Heard(spa, fails), dest, time, spoilt')
      BY <1>1, <3>1, <3>2, HeardType
    <3> QED BY <2>2, <3>3, <3>4, <3>5
  <2>3. \/ table' = table /\ allocated' = allocated \cup kept /\ spoilt' = spoilt
        \/ \E fails \in {FALSE, Entry(spa).la_hold # NoPacket} :
             /\ table' = [table EXCEPT ![k] = Heard(spa, fails)]
             /\ allocated' = (allocated \ ({Entry(spa).la_hold} \cup Evicted(spa))) \cup kept
             /\ spoilt' = IF fails THEN spoilt \cup {Entry(spa).la_hold} ELSE spoilt
    BY DEF arp_input
  <2> QED BY <2>1, <2>2, <2>3
<1> HIDE DEF k, r
<1>8. TypeOK'
  <2>1. table' \in [Slots -> Entries]
    BY <1>1, <1>6, <1>7 DEF TypeOK
  <2>2. pc' \in [Senders -> Places]
    BY <1>1, <1>3, <1>4 DEF TypeOK
  <2>3. \A u \in Senders : pc'[u].mb \in Packets <=> pc'[u].at \in {"reply", "send"}
    BY <1>1, <1>3, <1>4 DEF TypeOK
  <2>4. allocated' \in SUBSET Packets
    BY <1>1, <1>7 DEF TypeOK
  <2> QED BY <1>1, <1>2, <1>7, <2>1, <2>2, <2>3, <2>4 DEF TypeOK
<1>9. Ownership'
  <2>1. CASE reply
    <3>1. \A v \in Senders : pc'[v].mb = IF v = RxTask THEN m ELSE pc[v].mb
      BY <1>1, <1>3, <1>4, <2>1 DEF TypeOK
    <3>2. pc[RxTask].mb = NoPacket
      BY <1>1 DEF Idle
    <3> QED BY <1>1, <1>6, <1>7, <2>1, <3>1, <3>2, TaskStep
  <2>2. CASE ~reply
    <3>1. \A v \in Senders : pc'[v].mb = pc[v].mb
      BY <1>4, <2>2
    <3>2. CASE h.la_hold = table[k].la_hold /\ allocated' = allocated \cup kept
      <4>1. \A i \in Slots : table'[i].la_hold = table[i].la_hold
        BY <1>1, <1>7, <3>2 DEF TypeOK
      <4>2. allocated' = allocated /\ \A x \in allocated' \ spoilt' : x \in allocated \ spoilt
        BY <1>7, <2>2, <3>2
      <4> QED BY <1>1, <1>7, <3>1, <4>1, <4>2 DEF Ownership, Sound
    <3>3. CASE /\ h.la_hold \in spoilt' \cup {NoPacket}
               /\ allocated' = (allocated \ {table[k].la_hold}) \cup kept
      <4>1. allocated' = allocated \ {table[k].la_hold}
        BY <2>2, <3>3
      <4> QED BY <1>1, <1>6, <1>7, <3>1, <3>3, <4>1, EntryStep
    <3> QED BY <1>7, <3>2, <3>3
  <2> QED BY <2>1, <2>2
<1>10. ASSUME NEW i \in Slots PROVE EntryOK(table[i], dest, time, spoilt)'
  <2>1. EntryOK(table[i], dest, time, spoilt)
    BY Parts
  <2>2. table'[i] = IF i = k THEN h ELSE table[i]
    BY <1>1, <1>7 DEF TypeOK
  <2>3. EntryOK(table[i], dest, time, spoilt')
    BY <1>7, <2>1 DEF EntryOK
  <2>4. EntryOK(table'[i], dest, time, spoilt')
    BY <1>7, <2>2, <2>3
  <2> QED BY <1>2, <2>4 DEF EntryOK
<1>11. ASSUME NEW u \in Senders PROVE SendOK(pc[u], dest, spoilt)'
  <2>1. SendOK(pc[u], dest, spoilt)
    BY Parts
  <2>2. SendOK(pc'[u], dest, spoilt')
    BY <1>1, <1>3, <1>4, <1>7, <2>1 DEF SendOK, TypeOK
  <2> QED BY <1>2, <2>2 DEF SendOK
<1> QED
  BY <1>8, <1>9, <1>10, <1>11 DEF IInv, RightHost, KnownHost, KeptUntil, EntryOK, SendOK

(* An entry that holds m, which is sent to its address                     *)
LEMMA HoldType ==
    ASSUME TypeOK, NEW e \in Entries, NEW m \in Packets,
           e.state = "SOLVED" => e.mac_addr.of = e.itaddr,
           e.state = "SOLVED" /\ ~e.downed =>
             e.rt_expire <= e.mac_addr.at + ARP_TIME_KEEP \/ e.rt_expire <= time
    PROVE  LET h == Hold(e, m)
           IN  /\ h \in Entries
               /\ h.la_hold = m /\ h.itaddr = e.itaddr
               /\ h.state = "SOLVED" => h.mac_addr.of = h.itaddr
               /\ h.state = "SOLVED" /\ ~h.downed =>
                    h.rt_expire <= h.mac_addr.at + ARP_TIME_KEEP \/ h.rt_expire <= time
<1> USE ArpAssumption
<1> DEFINE h0 == [e EXCEPT !.la_hold = m]
           h1 == [h0 EXCEPT !.rt_expire = time, !.la_asked = h0.la_asked + 1]
           h2 == [h0 EXCEPT !.rt_expire = time + ARP_TIME_DOWN, !.la_asked = 0,
                            !.downed = TRUE]
<1>1. time \in Nat /\ time + ARP_TIME_DOWN \in Nat /\ e.la_asked + 1 \in Nat
  BY DEF TypeOK, Entries
<1>2. /\ h0 \in Entries /\ h0.la_hold = m /\ h0.itaddr = e.itaddr
      /\ h0.mac_addr = e.mac_addr /\ h0.state = e.state /\ h0.downed = e.downed
      /\ h0.rt_expire = e.rt_expire /\ h0.la_asked = e.la_asked
  BY DEF Entries
<1>3. CASE Asks(e)
  <2>1. Hold(e, m) = h1
    BY <1>3 DEF Hold
  <2> HIDE DEF h0
  <2>2. /\ h1 \in Entries /\ h1.la_hold = m /\ h1.itaddr = e.itaddr
        /\ h1.mac_addr = e.mac_addr /\ h1.state = e.state /\ h1.rt_expire = time
    BY <1>1, <1>2 DEF Entries
  <2> HIDE DEF h1
  <2> QED BY <1>1, <2>1, <2>2
<1>4. CASE MayAsk(e) /\ ~Asks(e)
  <2>1. Hold(e, m) = h2
    BY <1>4 DEF Hold
  <2> HIDE DEF h0
  <2>2. /\ h2 \in Entries /\ h2.la_hold = m /\ h2.itaddr = e.itaddr
        /\ h2.mac_addr = e.mac_addr /\ h2.state = e.state /\ h2.downed
    BY <1>1, <1>2 DEF Entries
  <2> HIDE DEF h2
  <2> QED BY <2>1, <2>2
<1>5. CASE ~MayAsk(e)
  <2>1. Hold(e, m) = h0
    BY <1>5 DEF Hold, Asks
  <2> HIDE DEF h0
  <2> QED BY <1>2, <2>1
<1> QED
  BY <1>3, <1>4, <1>5

(* An entry that was there before, or a new one                            *)
LEMMA EntryKept ==
    ASSUME IInv, NEW ip \in Addresses
    PROVE  /\ Entry(ip) \in Entries /\ Entry(ip).itaddr = ip
           /\ EntryOK(Entry(ip), dest, time, spoilt)
           /\ Valid(Entry(ip)) => Entry(ip) = table[Lookup(ip)] /\ Evicted(ip) = {}
           /\ allocated \ ({Entry(ip).la_hold} \cup Evicted(ip))
                = allocated \ {table[Lookup(ip)].la_hold}
<1> USE ArpAssumption
<1>1. TypeOK /\ Entry(ip) \in Entries /\ Entry(ip).itaddr = ip /\ Lookup(ip) \in Slots
  BY LookupEntry DEF IInv
<1>2. NoPacket \notin allocated
  BY <1>1 DEF TypeOK
<1>3. CASE Entry(ip) = table[Lookup(ip)] /\ Evicted(ip) = {}
  BY <1>1, <1>2, <1>3, Parts
<1>4. CASE /\ Entry(ip) = NewEntry(ip, table[Lookup(ip)])
           /\ Evicted(ip) = {table[Lookup(ip)].la_hold}
  <2>1. /\ Entry(ip).la_hold = NoPacket /\ Entry(ip).state = "PENDING"
    BY <1>4 DEF NewEntry, FreeEntry
  <2> QED BY <1>1, <1>2, <1>4, <2>1 DEF EntryOK, Valid
<1> QED
  BY <1>1, <1>3, <1>4, LookupEntry

(* arp_resolve preserves the invariant.                                    *)
LEMMA ResolveStep ==
    ASSUME IInv, NEW u \in Senders, NEW m \in Packets, NEW ip \in Hosts,
           arp_resolve(u, m, ip)
    PROVE  IInv'
<1> USE ArpAssumption
<1> DEFINE e == Entry(ip)
           k == Lookup(ip)
           s == [at |-> "send", mb |-> m, mac |-> e.mac_addr]
           h == Hold(e, m)
<1>1. TypeOK /\ Ownership /\ InPool(m) /\ pc[u] = Idle /\ ip \in Addresses
  BY DEF IInv, arp_resolve, Addresses
<1>2. /\ dest' = [dest EXCEPT ![m] = ip] /\ time' = time /\ dup_own_ip' = dup_own_ip
      /\ spoilt' = spoilt
  BY DEF arp_resolve
<1>3. \/ /\ Valid(e) /\ pc' = [pc EXCEPT ![u] = s] /\ table' = [table EXCEPT ![k] = e]
         /\ allocated' = (allocated \ Evicted(ip)) \cup {m}
      \/ /\ ~Valid(e) /\ table' = [table EXCEPT ![k] = h]
         /\ allocated' = (allocated \ ({e.la_hold} \cup Evicted(ip))) \cup {m}
         /\ pc' = IF Asks(e) THEN [pc EXCEPT ![u].at = "request"] ELSE pc
  BY DEF arp_resolve
<1>4. k \in Slots
  BY <1>1, LookupEntry
<1>5. /\ e \in Entries /\ e.itaddr = ip /\ EntryOK(e, dest, time, spoilt)
      /\ Valid(e) => e = table[k] /\ Evicted(ip) = {}
      /\ allocated \ ({e.la_hold} \cup Evicted(ip)) = allocated \ {table[k].la_hold}
  BY <1>1, EntryKept
<1>6. h \in Entries /\ h.la_hold = m /\ EntryOK(h, dest', time', spoilt')
  <2>1. dest'[m] = ip
    BY <1>1, <1>2 DEF TypeOK
  <2> QED BY <1>1, <1>2, <1>5, <2>1, HoldType DEF EntryOK
<1>7. s \in Places /\ s.mb = m /\ s.at = "send" /\ s.mac = e.mac_addr
  BY <1>5 DEF Places, Entries
<1>8. dest' \in [Packets -> Addresses]
  BY <1>1, <1>2 DEF TypeOK
<1>9. \A x \in Packets : x # m => dest'[x] = dest[x]
  BY <1>2, <1>1 DEF TypeOK
<1>10. dest'[m] = ip
  BY <1>2, <1>1 DEF TypeOK
<1>11. \A i \in Slots : /\ table[i].la_hold \notin spoilt \cup {NoPacket} => table[i].la_hold # m
                         /\ table[i].la_hold \in Packets \cup {NoPacket}
  BY <1>1 DEF Ownership, TypeOK, Entries, Sound, InPool
<1>12. \A v \in Senders : /\ pc[v].mb \notin spoilt \cup {NoPacket} => pc[v].mb # m
                           /\ pc[v].mb \in Packets \cup {NoPacket}
  BY <1>1 DEF Ownership, TypeOK, Places, Sound, InPool
<1>13. \A i \in Slots :
         EntryOK(table[i], dest, time, spoilt) => EntryOK(table[i], dest', time', spoilt')
  BY <1>2, <1>9, <1>11 DEF EntryOK
<1> HIDE DEF k, h, s
<1>14. CASE Valid(e) /\ pc' = [pc EXCEPT ![u] = s] /\ table' = [table EXCEPT ![k] = e]
            /\ allocated' = (allocated \ Evicted(ip)) \cup {m}
  <2> HIDE DEF e
  <2>1. table' = table /\ allocated' = allocated \cup {m}
    BY <1>1, <1>4, <1>5, <1>14 DEF TypeOK
  <2>2. TypeOK'
    <3>1. pc' \in [Senders -> Places]
      BY <1>1, <1>7, <1>14 DEF TypeOK
    <3>2. \A v \in Senders : pc'[v].mb \in Packets <=> pc'[v].at \in {"reply", "send"}
      BY <1>1, <1>7, <1>14 DEF TypeOK
    <3> QED BY <1>1, <1>2, <1>8, <2>1, <3>1, <3>2 DEF TypeOK
  <2>3. Ownership'
    <3>1. \A v \in Senders : pc'[v].mb = IF v = u THEN m ELSE pc[v].mb
      BY <1>1, <1>7, <1>14 DEF TypeOK
    <3>2. pc[u].mb = NoPacket
      BY <1>1 DEF Idle
    <3>3. e.la_hold = table[k].la_hold
      BY <1>5, <1>14
    <3> QED BY <1>1, <1>2, <1>4, <1>5, <1>14, <2>1, <3>1, <3>2, <3>3, TaskStep
  <2>4. ASSUME NEW i \in Slots PROVE EntryOK(table'[i], dest', time', spoilt')
    BY <1>13, <2>1, Parts
  <2>5. ASSUME NEW v \in Senders PROVE SendOK(pc'[v], dest', spoilt')
    <3>1. CASE v = u
      <4>1. e.mac_addr.of = ip
        BY <1>5, <1>14 DEF EntryOK, Valid
      <4>2. pc'[v] = s
        BY <1>1, <1>14, <3>1 DEF TypeOK
      <4> QED BY <1>7, <1>10, <4>1, <4>2 DEF SendOK
    <3>2. CASE v # u
      <4>1. pc'[v] = pc[v] /\ SendOK(pc[v], dest, spoilt)
        BY <1>1, <1>14, <3>2, Parts DEF TypeOK
      <4>2. pc[v].at = "send" => pc[v].mb \in Packets
        BY <1>1 DEF TypeOK
      <4> QED BY <1>2, <1>9, <1>12, <4>1, <4>2 DEF SendOK
    <3> QED BY <3>1, <3>2
  <2> QED
    BY <2>2, <2>3, <2>4, <2>5 DEF IInv, RightHost, KnownHost, KeptUntil, EntryOK, SendOK
<1>15. CASE /\ ~Valid(e) /\ table' = [table EXCEPT ![k] = h]
            /\ allocated' = (allocated \ ({e.la_hold} \cup Evicted(ip))) \cup {m}
            /\ pc' = IF Asks(e) THEN [pc EXCEPT ![u].at = "request"] ELSE pc
  <2> HIDE DEF e
  <2>1. allocated' = (allocated \ {table[k].la_hold}) \cup {m}
    BY <1>5, <1>15
  <2>2. \A i \in Slots : table'[i] = IF i = k THEN h ELSE table[i]
    BY <1>1, <1>15 DEF TypeOK
  <2>3. \A v \in Senders : /\ pc'[v].mb = pc[v].mb
                           /\ \/ pc'[v].at = pc[v].at
                              \/ pc[v].at = "idle" /\ pc'[v].at = "request"
                           /\ pc'[v].mac = pc[v].mac
                           /\ pc'[v] \in Places
    BY <1>1, <1>15 DEF TypeOK, Idle, Places
  <2>4. TypeOK'
    <3>1. pc' \in [Senders -> Places]
      BY <1>1, <1>15, <2>3 DEF TypeOK
    <3>2. \A v \in Senders : pc'[v].mb \in Packets <=> pc'[v].at \in {"reply", "send"}
      BY <1>1, <2>3 DEF TypeOK
    <3>3. table' \in [Slots -> Entries]
      BY <1>1, <1>6, <1>15 DEF TypeOK
    <3> QED BY <1>1, <1>2, <1>8, <2>1, <3>1, <3>2, <3>3 DEF TypeOK
  <2>5. Ownership'
    BY <1>1, <1>2, <1>4, <1>6, <1>15, <2>1, <2>3, EntryStep
  <2>6. ASSUME NEW i \in Slots PROVE EntryOK(table'[i], dest', time', spoilt')
    <3>1. CASE i = k
      <4>1. table'[i] = h
        BY <2>2, <3>1
      <4> QED BY <1>6, <4>1 DEF EntryOK
    <3>2. CASE i # k
      BY <1>13, <2>2, <3>2, Parts
    <3> QED BY <3>1, <3>2
  <2>7. ASSUME NEW v \in Senders PROVE SendOK(pc'[v], dest', spoilt')
    <3>1. SendOK(pc[v], dest, spoilt)
      BY Parts
    <3>2. pc[v].at = "send" => pc[v].mb \in Packets
      BY <1>1 DEF TypeOK
    <3> QED BY <1>2, <1>9, <1>12, <2>3, <3>1, <3>2 DEF SendOK
  <2> QED
    BY <2>4, <2>5, <2>6, <2>7 DEF IInv, RightHost, KnownHost, KeptUntil, EntryOK, SendOK
<1> QED
  BY <1>3, <1>14, <1>15 DEF k, h, s

(* Task u gives its packet to the driver, or has sent a request.           *)
LEMMA DoneStep ==
    ASSUME IInv, NEW u \in Senders,
           pc' = [pc EXCEPT ![u] = Idle],
           allocated' = allocated \ {pc[u].mb},
           UNCHANGED <<table, dest, time, dup_own_ip, spoilt>>
    PROVE  IInv'
<1> USE ArpAssumption
<1>1. TypeOK /\ Ownership /\ RightHost /\ KnownHost /\ KeptUntil
  BY DEF IInv
<1>2. Idle \in Places /\ Idle.mb = NoPacket /\ Idle.at = "idle"
  BY DEF Idle, Places, NoHwAddr, HwAddrs, Addresses
<1>3. \A v \in Senders : pc'[v] = IF v = u THEN Idle ELSE pc[v]
  BY <1>1 DEF TypeOK
<1>4. TypeOK'
  <2>1. pc' \in [Senders -> Places]
    BY <1>1, <1>2 DEF TypeOK
  <2> QED BY <1>1, <1>2, <1>3, <2>1 DEF TypeOK
<1>5. Ownership'
  BY <1>1, <1>2, <1>3 DEF Ownership, TypeOK, Sound
<1>6. RightHost'
  BY <1>1, <1>2, <1>3 DEF RightHost
<1> QED
  BY <1>1, <1>4, <1>5, <1>6 DEF IInv, KnownHost, KeptUntil

(* arp_timer_func preserves the invariant: a packet goes with the entry it *)
(* is held in.                                                             *)
LEMMA TimerStep ==
    ASSUME IInv, arp_timer_func
    PROVE  IInv'
<1> USE ArpAssumption
<1>1. TypeOK /\ Ownership /\ RightHost /\ KnownHost /\ KeptUntil
  BY DEF IInv
<1>2. UNCHANGED <<dest, time, dup_own_ip, pc, spoilt>>
  BY DEF arp_timer_func
<1>3. \A i \in Slots : table'[i] = IF i \in Expired THEN FreeEntry ELSE table[i]
  BY DEF arp_timer_func
<1>4. /\ FreeEntry \in Entries /\ FreeEntry.la_hold = NoPacket
      /\ FreeEntry.state = "FREE"
  BY DEF FreeEntry, Entries, NoHwAddr, HwAddrs, Addresses
<1>5. allocated' = allocated \ {table[i].la_hold : i \in Expired} /\ Expired \subseteq Slots
  BY DEF arp_timer_func, Expired
<1>6. TypeOK'
  <2>1. table' \in [Slots -> Entries]
    BY <1>1, <1>3, <1>4 DEF TypeOK, arp_timer_func
  <2> QED BY <1>1, <1>2, <1>5, <2>1 DEF TypeOK
<1>7. Ownership'
  <2>1. ASSUME NEW u \in Senders, Sound(pc[u].mb) PROVE pc[u].mb \in allocated'
    BY <1>1, <1>5, <2>1 DEF Ownership
  <2>2. ASSUME NEW i \in Slots, Sound(table'[i].la_hold)
        PROVE  table'[i].la_hold \in allocated' /\ table'[i].la_hold = table[i].la_hold
    <3>1. i \notin Expired /\ table'[i] = table[i]
      BY <1>3, <1>4, <2>2 DEF Sound
    <3>2. table[i].la_hold \in allocated
      BY <1>1, <2>2, <3>1 DEF Ownership
    <3>3. \A j \in Expired : table[j].la_hold # table[i].la_hold
      BY <1>1, <1>5, <2>2, <3>1 DEF Ownership
    <3> QED BY <1>5, <3>1, <3>2, <3>3
  <2>3. ASSUME NEW m \in allocated' \ spoilt'
        PROVE  \/ \E u \in Senders : pc'[u].mb = m
               \/ \E i \in Slots : table'[i].la_hold = m
    <3>1. CASE \E u \in Senders : pc[u].mb = m
      BY <1>2, <3>1
    <3>2. CASE \E i \in Slots : table[i].la_hold = m
      BY <1>3, <1>5, <3>2
    <3> QED BY <1>1, <1>2, <1>5, <3>1, <3>2 DEF Ownership
  <2> QED BY <1>1, <1>2, <2>1, <2>2, <2>3 DEF Ownership, Sound
<1>8. RightHost' /\ KnownHost' /\ KeptUntil'
  BY <1>1, <1>2, <1>3, <1>4 DEF RightHost, KnownHost, KeptUntil
<1> QED
  BY <1>6, <1>7, <1>8 DEF IInv

(* Time passes.                                                            *)
LEMMA TickStep ==
    ASSUME IInv, Tick
    PROVE  IInv'
<1>1. TypeOK /\ time \in Nat /\ time' = time + 1
  BY DEF IInv, TypeOK, Tick
<1>2. \A i \in Slots : table[i].rt_expire \in Nat
  BY <1>1 DEF TypeOK, Entries
<1>3. \A i \in Slots : table[i].rt_expire <= time => table[i].rt_expire <= time'
  BY <1>1, <1>2
<1>4. KeptUntil'
  BY <1>3 DEF IInv, KeptUntil, Tick
<1>5. TypeOK' /\ Ownership' /\ RightHost' /\ KnownHost'
  BY <1>1 DEF IInv, TypeOK, Ownership, Sound, RightHost, KnownHost, Tick
<1> QED
  BY <1>4, <1>5 DEF IInv

LEMMA InitInvariant == Init => IInv
<1> SUFFICES ASSUME Init PROVE IInv
  OBVIOUS
<1> USE ArpAssumption
<1>1. FreeEntry \in Entries /\ FreeEntry.la_hold = NoPacket /\ FreeEntry.state = "FREE"
  BY DEF FreeEntry, Entries, NoHwAddr, HwAddrs, Addresses
<1>2. Idle \in Places /\ Idle.mb = NoPacket /\ Idle.at = "idle"
  BY DEF Idle, Places, NoHwAddr, HwAddrs, Addresses
<1>3. TypeOK
  BY <1>1, <1>2 DEF Init, TypeOK, Addresses
<1> QED
  BY <1>1, <1>2, <1>3 DEF Init, IInv, Ownership, Sound, RightHost, KnownHost, KeptUntil

LEMMA NextInvariant ==
    ASSUME IInv, [Next]_vars
    PROVE  IInv'
<1>1. CASE UNCHANGED vars
  BY <1>1 DEF vars, IInv, TypeOK, Ownership, Sound, RightHost, KnownHost, KeptUntil
<1>2. ASSUME NEW m \in Packets, NEW spa \in Addresses, NEW forMe \in BOOLEAN,
             NEW op \in {"REQUEST", "REPLY"}, arp_input(m, spa, forMe, op)
      PROVE  IInv'
  BY <1>2, InputStep
<1>3. ASSUME NEW m \in Packets, NEW u \in Senders, NEW ip \in Hosts, arp_resolve(u, m, ip)
      PROVE  IInv'
  BY <1>3, ResolveStep
<1>4. ASSUME NEW u \in Senders, arp_request(u) PROVE IInv'
  <2>1. pc[u].mb = NoPacket
    BY <1>4 DEF arp_request, IInv, TypeOK, Places
  <2>2. allocated' = allocated \ {pc[u].mb}
    BY <1>4, <2>1, ArpAssumption DEF arp_request, IInv, TypeOK
  <2> QED BY <1>4, <2>2, DoneStep DEF arp_request
<1>5. ASSUME NEW u \in Senders, Output(u) PROVE IInv'
  BY <1>5, DoneStep DEF Output
<1>6. CASE Reply
  BY <1>6, DoneStep, ArpAssumption DEF Reply
<1>7. CASE arp_timer_func
  BY <1>7, TimerStep
<1>8. CASE Tick
  BY <1>8, TickStep
<1> QED
  BY <1>1, <1>2, <1>3, <1>4, <1>5, <1>6, <1>7, <1>8 DEF Next

-----------------------------------------------------------------------------
(* Theorems                                                                *)

LEMMA Invariance == Spec => []IInv
<1>1. Init => IInv
  BY InitInvariant
<1>2. IInv /\ [Next]_vars => IInv'
  BY NextInvariant
<1> QED
  BY <1>1, <1>2, PTL DEF Spec

(* Type correctness of the ARP table and of the tasks that use it          *)
THEOREM ArpTypeCorrect == Spec => []TypeOK
<1>1. IInv => TypeOK
  BY DEF IInv
<1> QED
  BY <1>1, Invariance, PTL

LEMMA OwnershipCounts == IInv => OneOwner
<1> SUFFICES ASSUME IInv, NEW m \in Packets \ spoilt
             PROVE  Cardinality(Owners(m)) = IF m \in allocated THEN 1 ELSE 0
  BY DEF OneOwner
<1> USE ArpAssumption
<1>1. Ownership /\ m # NoPacket
  BY DEF IInv
<1>2. ASSUME m \notin allocated PROVE Cardinality(Owners(m)) = 0
  <2>1. \A y \in Owners(m) : FALSE
    BY <1>1, <1>2 DEF Owners, Ownership, Sound
  <2> QED BY <2>1, NoElement
<1>3. ASSUME NEW u \in Senders, pc[u].mb = m PROVE Cardinality(Owners(m)) = 1
  <2>1. <<"task", u>> \in Owners(m) /\ \A y \in Owners(m) : y = <<"task", u>>
    BY <1>1, <1>3 DEF Owners, Ownership, Sound
  <2> QED BY <2>1, OneElement
<1>4. ASSUME NEW i \in Slots, table[i].la_hold = m PROVE Cardinality(Owners(m)) = 1
  <2>1. <<"entry", i>> \in Owners(m) /\ \A y \in Owners(m) : y = <<"entry", i>>
    BY <1>1, <1>4 DEF Owners, Ownership, Sound
  <2> QED BY <2>1, OneElement
<1> QED
  BY <1>1, <1>2, <1>3, <1>4 DEF Ownership

(* No packet of the ARP code is lost or freed twice, whatever the tasks,   *)
(* the receive task and the timer task do, but for a packet that was freed *)
(* for want of an Ethernet header: it spoils no other.                     *)
THEOREM PacketHasOneOwner == Spec => []OneOwner
BY Invariance, OwnershipCounts, PTL

(* A packet goes to the hardware address its own host was heard from,      *)
(* unless it is spoilt.                                                    *)
THEOREM PacketToRightHost == Spec => []RightHost
<1>1. IInv => RightHost
  BY DEF IInv
<1> QED
  BY <1>1, Invariance, PTL

(* arp_resolve gives away an address for ARP_TIME_KEEP seconds after it    *)
(* was heard, and later only if the host has been declared down since.     *)
THEOREM AddressIsFresh == Spec => FreshAddress
<1> DEFINE Fresh ==
      \A u \in Senders : pc[u].at = "idle" /\ pc'[u].at = "send" =>
          LET ip == dest'[pc'[u].mb]
          IN  \/ time < pc'[u].mac.at + ARP_TIME_KEEP
              \/ \E i \in Slots : table[i].itaddr = ip /\ table[i].downed
<1>1. ASSUME IInv, Next, NEW u \in Senders, pc[u].at = "idle", pc'[u].at = "send"
      PROVE  \/ time < pc'[u].mac.at + ARP_TIME_KEEP
             \/ \E i \in Slots : table[i].itaddr = dest'[pc'[u].mb] /\ table[i].downed
  <2> USE ArpAssumption
  <2>1. TypeOK
    BY <1>1 DEF IInv
  <2>2. PICK m \in Packets, v \in Senders, ip \in Hosts : arp_resolve(v, m, ip)
    <3>1. ASSUME NEW m \in Packets, NEW spa \in Addresses, NEW forMe \in BOOLEAN,
                 NEW op \in {"REQUEST", "REPLY"}, arp_input(m, spa, forMe, op)
          PROVE  FALSE
      <4> DEFINE r == [Idle EXCEPT !.at = "reply", !.mb = m]
      <4>1. pc' = [pc EXCEPT ![RxTask] = r] \/ pc' = pc
        BY <3>1 DEF arp_input
      <4>2. r.at = "reply"
        BY DEF Idle
      <4> HIDE DEF r
      <4> QED BY <1>1, <2>1, <4>1, <4>2 DEF TypeOK
    <3>2. ASSUME NEW v \in Senders, arp_request(v) \/ Output(v) \/ Reply PROVE FALSE
      <4>1. PICK w \in Senders : pc' = [pc EXCEPT ![w] = Idle]
        BY <3>2 DEF arp_request, Output, Reply
      <4>2. Idle.at = "idle"
        BY DEF Idle
      <4> QED BY <1>1, <2>1, <4>1, <4>2 DEF TypeOK
    <3>3. CASE arp_timer_func \/ Tick
      BY <1>1, <3>3 DEF arp_timer_func, Tick
    <3> QED BY <1>1, <3>1, <3>2, <3>3 DEF Next
  <2> DEFINE e == Entry(ip)
             k == Lookup(ip)
             s == [at |-> "send", mb |-> m, mac |-> e.mac_addr]
  <2>3. Valid(e) /\ u = v /\ pc'[u] = s
    <3>1. CASE Valid(e)
      <4>1. pc' = [pc EXCEPT ![v] = s]
        BY <2>2, <3>1 DEF arp_resolve
      <4> HIDE DEF s
      <4> QED BY <1>1, <2>1, <3>1, <4>1 DEF TypeOK
    <3>2. CASE ~Valid(e)
      <4>1. pc' = [pc EXCEPT ![v].at = "request"] \/ pc' = pc
        BY <2>2, <3>2 DEF arp_resolve
      <4> QED BY <1>1, <2>1, <4>1 DEF TypeOK, Places
    <3> QED BY <3>1, <3>2
  <2>4. e = table[k] /\ e.itaddr = ip /\ k \in Slots /\ EntryOK(e, dest, time, spoilt) /\ e \in Entries
    BY <1>1, <2>1, <2>3, EntryKept, LookupEntry DEF Addresses
  <2>5. s.mb = m /\ dest'[m] = ip /\ s.mac = e.mac_addr
    BY <2>1, <2>2 DEF arp_resolve, TypeOK
  <2> HIDE DEF e, k, s
  <2>6. CASE e.downed
    BY <2>3, <2>4, <2>5, <2>6
  <2>7. CASE ~e.downed
    <3>1. e.state = "SOLVED" /\ e.rt_expire > time
      BY <2>3 DEF Valid
    <3>2. e.rt_expire \in Nat /\ e.mac_addr.at \in Nat /\ time \in Nat
      BY <2>1, <2>4 DEF Entries, HwAddrs, TypeOK
    <3>3. time < e.mac_addr.at + ARP_TIME_KEEP
      BY <2>4, <2>7, <3>1, <3>2 DEF EntryOK
    <3> QED BY <2>3, <2>5, <3>3
  <2> QED BY <2>6, <2>7
<1>2. IInv /\ [Next]_vars => [Fresh]_vars
  BY <1>1
<1> QED
  BY <1>2, Invariance, PTL DEF Spec, FreshAddress
=============================================================================
