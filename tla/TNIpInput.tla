------------------------------ MODULE TNIpInput ------------------------------
(***************************************************************************)
(* IP input (tn_ip_input.c) and ICMP (tn_icmp.c): the receive task checks  *)
(* the packets, puts fragments together, and hands datagrams on; the net   *)
(* timer task throws away what waits too long.  IP_LOCK makes ip4_reasm    *)
(* and ip_slowtimo one step each.                                          *)
(*                                                                         *)
(* The network gives the packets of In in any order, any of them often or  *)
(* never.  A packet is an IP header and units of eight bytes; a header is  *)
(* one unit here.                                                          *)
(***************************************************************************)
EXTENDS Integers, Sequences, FiniteSets, SequencesExt, FiniteSetsExt

CONSTANTS
    IP4_REASM_PACKETS,         \* the datagrams in reassembly at a time
    IP4_MAX_REASM_FRAGMENTS,   \* the fragments of one of them
    IPFRAGTTL,                 \* the life of one, in half seconds
    NUM_FRAG_BUF,              \* the blocks of lobuf_mpool for struct frag_entry
    MID1_UNITS,                \* the units in a buffer of the size MID1
    Echo,                      \* the ip_id of the datagrams that are echo requests
    NoPort,                    \* ... and of those for a port nobody has
    MaxPackets                 \* bound: the packets that are accepted

ASSUME IpInputAssumption ==
    /\ {IP4_REASM_PACKETS, IP4_MAX_REASM_FRAGMENTS, IPFRAGTTL, NUM_FRAG_BUF, MID1_UNITS,
        MaxPackets} \subseteq Nat \ {0}
    /\ Echo \cap NoPort = {}

VARIABLES
    reasm,      \* tnet->ip_reasm_list
    lost,       \* history: fragments that are in memory and in no list
    received,   \* the number of packets accepted
    delivered,  \* history: what the last packet has given to the protocols
    answers     \* history: the ICMP messages it was answered with

inVars == <<reasm, lost, received, delivered, answers>>

(* struct reasm_entry: the identity of the datagram (ip_id and ip_dst; its *)
(* source and protocol are always the same here), the time it is kept, the *)
(* fragments that came, the list                                           *)
FreeReasm == [ra_id |-> <<0, "mine">>, ra_ttl |-> 0, nfrag |-> 0, frag_list |-> <<>>]

Entries == 0 .. IP4_REASM_PACKETS - 1

InInit ==
    /\ reasm = [i \in Entries |-> FreeReasm]
    /\ lost = 0
    /\ received = 0
    /\ delivered = {}
    /\ answers = {}

(* The blocks that the fragments in the lists have *)
InLists(r) == FoldFunction(LAMBDA re, n : n + Len(re.frag_list), 0, r)

-----------------------------------------------------------------------------
(* ip4_reasm                                                               *)

Same(id) == {i \in Entries : reasm[i].frag_list # <<>> /\ reasm[i].ra_id = id}

Unused == {i \in Entries : reasm[i].frag_list = <<>>}

Biggest(S) == CHOOSE i \in S : \A j \in S : j <= i

(* Mutant: the timer of an entry is not restarted when it is reused.       *)
Stale_WithEntry(id) ==
    LET i == IF Same(id) # {} THEN Biggest(Same(id))
             ELSE IF Unused # {} THEN Biggest(Unused) ELSE 0
    IN  [reasm |-> IF Same(id) # {} THEN reasm
                   ELSE [reasm EXCEPT ![i].ra_id = id, ![i].nfrag = 0, ![i].frag_list = <<>>],
         i |-> i]

(* The table with an entry for datagram id, and its index.  Without a free *)
(* entry, all of them are freed.                                           *)
WithEntry(id) ==
    LET new == [FreeReasm EXCEPT !.ra_id = id, !.ra_ttl = IPFRAGTTL]
    IN  CASE Same(id) # {} ->
               [reasm |-> reasm, i |-> CHOOSE i \in Same(id) : \A j \in Same(id) : i <= j]
          [] Same(id) = {} /\ Unused # {} ->
               [reasm |-> [reasm EXCEPT ![Biggest(Unused)] = new], i |-> Biggest(Unused)]
          [] OTHER ->
               [reasm |-> [[i \in Entries |-> [reasm[i] EXCEPT !.frag_list = <<>>, !.ra_ttl = 0]]
                             EXCEPT ![0] = new],
                i |-> 0]

(* The mbuf of packet p, which came as a: whether its frame was one for    *)
(* many hosts (M_BCAST, M_MCAST), and whether it is of the size MID1 and   *)
(* not in the memory of the driver.  A bigger packet is in another one, a  *)
(* small packet as well when there is no memory.                           *)
MbufOf(p, a) == [group |-> a.group, mid1 |-> a.mid1 /\ Len(p) <= MID1_UNITS]

(* The fragment of packet p.  The IP header is cut but from the first one. *)
NewFrag(p, a) ==
    [offset |-> p[1].off, last |-> p[1].off + Len(p) - 1, mf |-> p[1].mf,
     data |-> IF p[1].off = 0 THEN p ELSE Tail(p), mbuf |-> MbufOf(p, a)]

(* The number of fragments in list that begin at or before f *)
Position(list, f) == Cardinality({k \in DOMAIN list : list[k].offset <= f.offset})

(* Without the part that the fragment before it has *)
TrimHead(f, over) ==
    IF over >= Len(f.data) THEN [f EXCEPT !.data = <<>>]
    ELSE [f EXCEPT !.offset = @ + over, !.data = SubSeq(@, over + 1, Len(@))]

(* Without the part that the fragment after it has; last stays as it is.   *)
TrimTail(f, past) ==
    IF past >= Len(f.data) THEN [f EXCEPT !.data = <<>>]
    ELSE [f EXCEPT !.data = SubSeq(@, 1, Len(@) - past)]

(* What is left of f after the k-th fragment; nothing if data is empty.    *)
Trim(list, k, f) ==
    TrimTail(TrimHead(f, IF k > 0 THEN Max({0, list[k].last - f.offset}) ELSE 0),
             IF k < Len(list) THEN Max({0, f.last - list[k + 1].offset}) ELSE 0)

(* Mutant: holes are not looked for.                                       *)
Holes_Complete(list) == ~Last(list).mf

(* No holes, and the last fragment has no IP_MF.  That the first one has   *)
(* offset 0 is not asked for.                                              *)
Complete(list) ==
    /\ \A k \in 1 .. Len(list) - 1 : list[k + 1].offset = list[k].last
    /\ ~Last(list).mf

Joined(list) == FoldLeft(LAMBDA acc, f : acc \o f.data, <<>>, list)

(* The list with f after k others.  A fragment that comes before the first *)
(* one is linked to the list, but re->frag_list does not point to it.      *)
Inserted(list, k, f) ==
    IF list # <<>> /\ k = 0 THEN list ELSE InsertAt(list, k + 1, f)

(* A datagram that is handed on: the first offset in it, its first mbuf,   *)
(* the units of that one and those of the others                           *)
Delivery(id, off, mbuf, head, rest) ==
    [id |-> id, off |-> off, mbuf |-> mbuf, head |-> head, rest |-> rest]

(* Mutant: the header of the first fragment stays as it is.                *)
Unchanged_WithHeader(f) == f.data

(* "Update IP header": ip_len and ip_off are written into the first eight  *)
(* bytes of the first fragment, which are payload if its offset is not 0.  *)
WithHeader(f) ==
    IF f.offset = 0 THEN [f.data EXCEPT ![1].mf = FALSE]
                    ELSE [f.data EXCEPT ![1] = Append(@, "overwritten")]

(* The list of a complete datagram as one packet *)
Reassembled(id, list) ==
    Delivery(id, list[1].offset, list[1].mbuf, WithHeader(list[1]), Joined(Tail(list)))

(* The list of entry i is now list: it is kept, or complete.               *)
Queued(r, i, id, list, old) ==
    [reasm |-> [r EXCEPT ![i].frag_list = IF Complete(list) THEN <<>> ELSE list],
     lost |-> lost + Len(old) + 1 - Len(list),
     done |-> IF Complete(list) THEN {Reassembled(id, list)} ELSE {}]

(* Fragment f, and g as it is trimmed, for entry i of table r, in which    *)
(* the fragment is counted.  Too many fragments are all freed; without     *)
(* memory, or when nothing is left of it, only this one is.                *)
Add(r, i, f, g, id) ==
    CASE r[i].nfrag > IP4_MAX_REASM_FRAGMENTS ->
           [reasm |-> [r EXCEPT ![i].frag_list = <<>>, ![i].ra_ttl = 0],
            lost |-> lost, done |-> {}]
      [] r[i].nfrag <= IP4_MAX_REASM_FRAGMENTS
           /\ (lost + InLists(r) = NUM_FRAG_BUF \/ g.data = <<>>) ->
           [reasm |-> r, lost |-> lost, done |-> {}]
      [] OTHER ->
           Queued(r, i, id,
                  Inserted(r[i].frag_list, Position(r[i].frag_list, f), g), r[i].frag_list)

Counted(e, f, id) ==
    Add([e.reasm EXCEPT ![e.i].nfrag = @ + 1], e.i, f,
        Trim(e.reasm[e.i].frag_list, Position(e.reasm[e.i].frag_list, f), f), id)

(* The table, the number of fragments that are lost, and the datagram that *)
(* is complete with packet p, which came as a                              *)
ip4_reasm(p, a) == Counted(WithEntry(<<p[1].id, a.dst>>), NewFrag(p, a), p[1].id)

-----------------------------------------------------------------------------
(* icmp_input, icmp_error                                                  *)

(* An echo reply is sent in the mbufs of the request; but a first mbuf of  *)
(* the size MID1 that is not in the memory of the driver is copied into    *)
(* one that is, and the mbufs after it are left out.                       *)
EchoReply(d) == IF d.mbuf.mid1 THEN d.head ELSE d.head \o d.rest

(* "Don't send error in response to a multicast or broadcast packet": the  *)
(* flags are those of the frame the first fragment came in, whatever the   *)
(* IP destination is.                                                      *)
MayAnswer(d) == ~d.mbuf.group

(* The ICMP messages that datagram d causes: a reply to an echo request,   *)
(* or an error message with the header and eight bytes of a datagram for a *)
(* port nobody has.  mem: mb_get gives a MID1 buffer of the driver, if one *)
(* is needed.  What the protocols make of a datagram without its first     *)
(* fragment is not modelled.                                               *)
Answers(d, mem) ==
    CASE d.off = 0 /\ d.id \in Echo /\ (d.mbuf.mid1 => mem) ->
           {[kind |-> "reply", id |-> d.id, data |-> EchoReply(d),
             cut |-> d.mbuf.mid1 /\ d.rest # <<>>]}
      [] d.off = 0 /\ d.id \in NoPort /\ MayAnswer(d) /\ mem ->
           {[kind |-> "unreachable", id |-> d.id, data |-> SubSeq(d.head, 1, 2),
             cut |-> TRUE]}
      [] OTHER -> {}

-----------------------------------------------------------------------------
(* ipv4_input                                                              *)

(* The interface a packet is for: a DHCP message is for the one it came    *)
(* from, whatever its addresses are; another one needs the address of an   *)
(* interface that is up, and the source address of a host.                 *)
Accepted(a) ==
    /\ a.header
    /\ a.dst # "other" \/ a.dhcp
    /\ a.src = "host" \/ (a.dst = "other" /\ a.dhcp)

(* How a packet comes: with a right header (version, lengths, checksum) or *)
(* not, for this host, as an IP broadcast or for another one, from a host  *)
(* or with a broadcast address as its source, as a DHCP message or not, in *)
(* a frame for one host or for many, and in a buffer of the size MID1 or   *)
(* not, if it is small                                                     *)
Arrivals ==
    LET Arrival(header, dst, src, dhcp, group, mid1) ==
            [header |-> header, dst |-> dst, src |-> src, dhcp |-> dhcp,
             group |-> group, mid1 |-> mid1]
    IN  {Arrival(TRUE, "mine", "host", FALSE, FALSE, mid1) : mid1 \in BOOLEAN}
          \cup {Arrival(TRUE, "bcast", "host", FALSE, group, TRUE) : group \in BOOLEAN}
          \cup {Arrival(TRUE, "other", "bcast", TRUE, TRUE, FALSE),
                Arrival(TRUE, "other", "host", FALSE, FALSE, FALSE),
                Arrival(TRUE, "mine", "bcast", TRUE, FALSE, FALSE),
                Arrival(FALSE, "mine", "host", FALSE, FALSE, FALSE)}

(* Packet p of the network.  What is not accepted is freed.                *)
ipv4_input(p, a) ==
    IF ~Accepted(a) THEN UNCHANGED inVars
    ELSE \E r \in {IF p[1].mf \/ p[1].off # 0 THEN ip4_reasm(p, a)
                   ELSE [reasm |-> reasm, lost |-> lost,
                         done |-> {Delivery(p[1].id, 0, MbufOf(p, a), p, <<>>)}]} :
            /\ received < MaxPackets
            /\ received' = received + 1
            /\ reasm' = r.reasm
            /\ lost' = r.lost
            /\ delivered' = r.done
            /\ answers' \in {UNION {Answers(d, mem) : d \in r.done} : mem \in BOOLEAN}

(* ip_slowtimo, every 500 ms *)
ip_slowtimo ==
    /\ \E i \in Entries : reasm[i].ra_ttl > 0
    /\ reasm' = [i \in Entries |->
                   CASE reasm[i].ra_ttl = 1 -> [reasm[i] EXCEPT !.ra_ttl = 0, !.frag_list = <<>>]
                     [] reasm[i].ra_ttl > 1 -> [reasm[i] EXCEPT !.ra_ttl = @ - 1]
                     [] OTHER -> reasm[i]]
    /\ UNCHANGED <<lost, received, delivered, answers>>

-----------------------------------------------------------------------------
(* Properties                                                              *)

(* A list of fragments always has a timer that runs, so an incomplete      *)
(* datagram is thrown away: the entry is reused for other datagrams, freed *)
(* when there are too many fragments, and the timer goes on when it is     *)
(* empty.                                                                  *)
TimerRuns == \A i \in Entries : reasm[i].frag_list # <<>> => reasm[i].ra_ttl > 0

=============================================================================
