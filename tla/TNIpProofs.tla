----------------------------- MODULE TNIpProofs ------------------------------
(***************************************************************************)
(* A proof that incomplete datagrams do not stay in the reassembly table   *)
(* of TNIpInput, whatever packets the other host of TNIp sends and the     *)
(* network makes of them.                                                  *)
(*                                                                         *)
(* The inductive invariant is about a table: the timer of every entry is   *)
(* within its bounds, and runs while the entry has a list.  ip4_reasm is   *)
(* two steps on a table: it finds an entry whose timer runs (WithEntry),   *)
(* and only then the list of this entry grows (Add).                       *)
(***************************************************************************)
EXTENDS TNIp, TNListProofs

Fields == {"ra_id", "ra_ttl", "nfrag", "frag_list"}

EntryOK(re) ==
    /\ DOMAIN re = Fields
    /\ re.ra_ttl \in 0 .. IPFRAGTTL
    /\ re.frag_list # <<>> => re.ra_ttl > 0

TableOK(r) ==
    /\ DOMAIN r = Entries
    /\ \A i \in Entries : EntryOK(r[i])

-----------------------------------------------------------------------------

(* An entry that is not used, and one that is taken for a datagram         *)
LEMMA NewEntry ==
    /\ EntryOK(FreeReasm)
    /\ \A id : LET new == [FreeReasm EXCEPT !.ra_id = id, !.ra_ttl = IPFRAGTTL]
               IN  EntryOK(new) /\ new.ra_ttl > 0
<1>1. IPFRAGTTL \in Nat /\ IPFRAGTTL > 0
  BY IpInputAssumption
<1> QED
  BY <1>1 DEF EntryOK, FreeReasm, Fields

(* An entry of which the fragments are freed, and its timer stopped        *)
LEMMA FreedEntry ==
    ASSUME NEW re, EntryOK(re)
    PROVE  /\ EntryOK([re EXCEPT !.frag_list = <<>>, !.ra_ttl = 0])
           /\ EntryOK([re EXCEPT !.ra_ttl = 0, !.frag_list = <<>>])
<1>1. IPFRAGTTL \in Nat
  BY IpInputAssumption
<1> QED
  BY <1>1 DEF EntryOK, Fields

(* An entry whose timer runs can have any list and count.                  *)
LEMMA RunningEntry ==
    ASSUME NEW re, EntryOK(re), NEW x
    PROVE  /\ EntryOK([re EXCEPT !.nfrag = x])
           /\ [re EXCEPT !.nfrag = x].ra_ttl = re.ra_ttl
           /\ re.ra_ttl > 0 => EntryOK([re EXCEPT !.frag_list = x])
BY DEF EntryOK, Fields

(* One entry of a table changes; an index outside of it changes nothing.   *)
LEMMA EntryChanges ==
    ASSUME NEW r, TableOK(r), NEW i, NEW re, i \in Entries => EntryOK(re)
    PROVE  TableOK([r EXCEPT ![i] = re])
BY DEF TableOK

(* The entry of a datagram that ip4_reasm has fragments of is the first    *)
(* such entry.                                                             *)
LEMMA SameEntry ==
    ASSUME NEW id, Same(id) # {}
    PROVE  (CHOOSE i \in Same(id) : \A j \in Same(id) : i <= j) \in Same(id)
<1>1. Same(id) \in SUBSET Nat
  BY IpInputAssumption DEF Same, Entries
<1>2. PICK m \in Same(id) : \A j \in Same(id) : m <= j
  BY <1>1, SmallestNat
<1> QED
  BY <1>2

(* ip4_reasm finds an entry whose timer runs: it has fragments already, or *)
(* its timer is started.                                                   *)
LEMMA FoundEntry ==
    ASSUME TableOK(reasm), NEW id
    PROVE  /\ TableOK(WithEntry(id).reasm)
           /\ WithEntry(id).i \in Entries
                => WithEntry(id).reasm[WithEntry(id).i].ra_ttl > 0
<1> DEFINE new == [FreeReasm EXCEPT !.ra_id = id, !.ra_ttl = IPFRAGTTL]
<1>0. EntryOK(new) /\ new.ra_ttl > 0
  BY NewEntry
<1> HIDE DEF new
<1>1. CASE Same(id) # {}
  <2> DEFINE i == CHOOSE i \in Same(id) : \A j \in Same(id) : i <= j
  <2>1. WithEntry(id) = [reasm |-> reasm, i |-> i]
    BY <1>1 DEF WithEntry
  <2>2. i \in Same(id)
    BY <1>1, SameEntry
  <2> HIDE DEF i
  <2>3. i \in Entries /\ reasm[i].frag_list # <<>>
    BY <2>2 DEF Same
  <2>4. reasm[i].ra_ttl > 0
    BY <2>3 DEF TableOK, EntryOK
  <2> QED
    BY <2>1, <2>4
<1>2. CASE Same(id) = {} /\ Unused # {}
  <2> DEFINE b == Biggest(Unused)
  <2>1. WithEntry(id) = [reasm |-> [reasm EXCEPT ![b] = new], i |-> b]
    BY <1>2 DEF WithEntry, new
  <2> HIDE DEF b
  <2>2. TableOK([reasm EXCEPT ![b] = new])
    BY <1>0, EntryChanges
  <2>3. b \in Entries => [reasm EXCEPT ![b] = new][b] = new
    BY DEF TableOK
  <2> QED
    BY <2>1, <2>2, <2>3, <1>0
<1>3. CASE Same(id) = {} /\ Unused = {}
  <2> DEFINE freed == [i \in Entries |-> [reasm[i] EXCEPT !.frag_list = <<>>, !.ra_ttl = 0]]
  <2>1. WithEntry(id) = [reasm |-> [freed EXCEPT ![0] = new], i |-> 0]
    BY <1>3 DEF WithEntry, new
  <2>2. ASSUME NEW i \in Entries PROVE EntryOK(freed[i])
    <3>1. EntryOK(reasm[i])
      BY DEF TableOK
    <3> QED
      BY <3>1, FreedEntry
  <2>3. TableOK(freed)
    BY <2>2 DEF TableOK
  <2>4. DOMAIN freed = Entries
    OBVIOUS
  <2> HIDE DEF freed
  <2>5. TableOK([freed EXCEPT ![0] = new])
    BY <1>0, <2>3, EntryChanges
  <2>6. 0 \in Entries => [freed EXCEPT ![0] = new][0] = new
    BY <2>4
  <2> QED
    BY <2>1, <2>5, <2>6, <1>0
<1> QED
  BY <1>1, <1>2, <1>3

(* The fragment is added to an entry whose timer runs, is dropped, or the  *)
(* entry is freed with its timer stopped.                                  *)
LEMMA AddedFragment ==
    ASSUME NEW r, TableOK(r), NEW i, i \in Entries => r[i].ra_ttl > 0,
           NEW f, NEW g, NEW id
    PROVE  TableOK(Add(r, i, f, g, id).reasm)
<1> DEFINE full == r[i].nfrag > IP4_MAX_REASM_FRAGMENTS
           none == r[i].nfrag <= IP4_MAX_REASM_FRAGMENTS
                     /\ (lost + InLists(r) = NUM_FRAG_BUF \/ g.data = <<>>)
           list == Inserted(r[i].frag_list, Position(r[i].frag_list, f), g)
           x == IF Complete(list) THEN <<>> ELSE list
           freed == [r[i] EXCEPT !.frag_list = <<>>, !.ra_ttl = 0]
<1>1. \/ Add(r, i, f, g, id).reasm = [r EXCEPT ![i].frag_list = <<>>, ![i].ra_ttl = 0]
      \/ Add(r, i, f, g, id).reasm = r
      \/ Add(r, i, f, g, id).reasm = [r EXCEPT ![i].frag_list = x]
  <2> HIDE DEF list, x
  <2>1. CASE full
    BY <2>1 DEF Add
  <2>2. CASE ~full /\ none
    BY <2>2 DEF Add
  <2>3. CASE ~full /\ ~none
    BY <2>3 DEF Add, Queued, list, x
  <2> QED
    BY <2>1, <2>2, <2>3
<1> HIDE DEF list, x, full, none
<1>2. CASE Add(r, i, f, g, id).reasm = [r EXCEPT ![i].frag_list = <<>>, ![i].ra_ttl = 0]
  <2> DEFINE cleared == [r EXCEPT ![i].frag_list = <<>>, ![i].ra_ttl = 0]
  <2>1. DOMAIN cleared = Entries
    BY DEF TableOK
  <2>2. ASSUME NEW j \in Entries PROVE EntryOK(cleared[j])
    <3>1. EntryOK(r[j]) /\ j \in DOMAIN r
      BY DEF TableOK
    <3>2. CASE j = i
      <4>1. cleared[j] = freed
        BY <3>1, <3>2
      <4> QED
        BY <3>1, <3>2, <4>1, FreedEntry
    <3>3. CASE j # i
      <4>1. cleared[j] = r[j]
        BY <3>1, <3>3
      <4> QED
        BY <3>1, <4>1
    <3> QED
      BY <3>2, <3>3
  <2> HIDE DEF cleared
  <2>3. TableOK(cleared)
    BY <2>1, <2>2 DEF TableOK
  <2> QED
    BY <1>2, <2>3 DEF cleared
<1>3. CASE Add(r, i, f, g, id).reasm = [r EXCEPT ![i].frag_list = x]
  <2>1. [r EXCEPT ![i].frag_list = x] = [r EXCEPT ![i] = [r[i] EXCEPT !.frag_list = x]]
    BY DEF TableOK
  <2>2. i \in Entries => EntryOK([r[i] EXCEPT !.frag_list = x])
    BY RunningEntry DEF TableOK
  <2> QED
    BY <1>3, <2>1, <2>2, EntryChanges
<1> QED
  BY <1>1, <1>2, <1>3

(* ip4_reasm keeps the table.                                              *)
LEMMA ReasmStep ==
    ASSUME TableOK(reasm), NEW p, NEW a
    PROVE  TableOK(ip4_reasm(p, a).reasm)
<1> DEFINE e == WithEntry(<<p[1].id, a.dst>>)
           r == [e.reasm EXCEPT ![e.i].nfrag = @ + 1]
<1>1. TableOK(e.reasm) /\ (e.i \in Entries => e.reasm[e.i].ra_ttl > 0)
  BY FoundEntry
<1> HIDE DEF e
<1> DEFINE n == e.reasm[e.i].nfrag + 1
           counted == [e.reasm[e.i] EXCEPT !.nfrag = n]
<1>2. r = [e.reasm EXCEPT ![e.i] = counted]
  BY DEF n
<1>3. e.i \in Entries => EntryOK(counted) /\ counted.ra_ttl > 0
  <2> HIDE DEF n
  <2> QED
    BY <1>1, RunningEntry DEF TableOK
<1> HIDE DEF counted
<1>4. TableOK(r)
  BY <1>1, <1>2, <1>3, EntryChanges
<1>5. e.i \in Entries => r[e.i].ra_ttl > 0
  <2>1. e.i \in Entries => r[e.i] = counted
    BY <1>1, <1>2 DEF TableOK
  <2> QED
    BY <2>1, <1>3
<1> HIDE DEF r
<1>6. \A f, g : TableOK(Add(r, e.i, f, g, p[1].id).reasm)
  BY <1>4, <1>5, AddedFragment
<1> QED
  BY <1>6 DEF ip4_reasm, Counted, e, r

(* ipv4_input keeps the table: a packet is not accepted, is a whole        *)
(* datagram, or goes to ip4_reasm.                                         *)
LEMMA InputStep ==
    ASSUME TableOK(reasm), NEW p, NEW a, ipv4_input(p, a)
    PROVE  TableOK(reasm')
<1>1. TableOK(ip4_reasm(p, a).reasm)
  BY ReasmStep
<1>2. CASE ~Accepted(a)
  BY <1>2 DEF ipv4_input, inVars
<1>3. CASE Accepted(a)
  <2> DEFINE r == IF p[1].mf \/ p[1].off # 0 THEN ip4_reasm(p, a)
                  ELSE [reasm |-> reasm, lost |-> lost,
                        done |-> {Delivery(p[1].id, 0, MbufOf(p, a), p, <<>>)}]
  <2>1. reasm' = r.reasm
    BY <1>3 DEF ipv4_input
  <2>2. r.reasm = ip4_reasm(p, a).reasm \/ r.reasm = reasm
    OBVIOUS
  <2> QED
    BY <1>1, <2>1, <2>2
<1> QED
  BY <1>2, <1>3

(* ip_slowtimo stops a timer only together with its list.                  *)
LEMMA SlowtimoStep ==
    ASSUME TableOK(reasm), ip_slowtimo
    PROVE  TableOK(reasm')
<1> DEFINE next(re) == CASE re.ra_ttl = 1 -> [re EXCEPT !.ra_ttl = 0, !.frag_list = <<>>]
                         [] re.ra_ttl > 1 -> [re EXCEPT !.ra_ttl = @ - 1]
                         [] OTHER -> re
<1>1. reasm' = [i \in Entries |-> next(reasm[i])]
  BY DEF ip_slowtimo
<1>2. ASSUME NEW re, EntryOK(re) PROVE EntryOK(next(re))
  <2>1. IPFRAGTTL \in Nat
    BY IpInputAssumption
  <2>2. re.ra_ttl \in 0 .. IPFRAGTTL
    BY <1>2 DEF EntryOK
  <2>3. CASE re.ra_ttl = 1
    <3>1. next(re) = [re EXCEPT !.ra_ttl = 0, !.frag_list = <<>>]
      BY <2>3
    <3> QED
      BY <1>2, <3>1, FreedEntry
  <2>4. CASE re.ra_ttl > 1
    <3>1. next(re) = [re EXCEPT !.ra_ttl = re.ra_ttl - 1]
      BY <2>2, <2>4, <2>1
    <3> HIDE DEF next
    <3> QED
      BY <1>2, <2>1, <2>2, <2>4, <3>1 DEF EntryOK, Fields
  <2>5. CASE re.ra_ttl = 0
    <3>1. next(re) = re
      BY <2>5
    <3> QED
      BY <1>2, <3>1
  <2> QED
    BY <2>1, <2>2, <2>3, <2>4, <2>5
<1> HIDE DEF next
<1> QED
  BY <1>1, <1>2 DEF TableOK

-----------------------------------------------------------------------------

(* Whatever is sent, lost, doubled and reordered, for every size of the    *)
(* table and of the memory: the timer of an entry is never above its start *)
(* value and stops only when the entry has no fragments (ip4_reasm,        *)
(* ip_slowtimo).                                                           *)
THEOREM ReassemblyInvariance == Spec => []TableOK(reasm)
<1>1. Init => TableOK(reasm)
  BY NewEntry DEF Init, InInit, TableOK
<1>2. TableOK(reasm) /\ [Next]_vars => TableOK(reasm)'
  <2> SUFFICES ASSUME TableOK(reasm), [Next]_vars PROVE TableOK(reasm')
    BY DEF TableOK, EntryOK, Entries, Fields
  <2>1. CASE OutNext /\ UNCHANGED inVars
    BY <2>1 DEF inVars
  <2>2. CASE Receive
    BY <2>2, InputStep DEF Receive
  <2>3. CASE ip_slowtimo
    BY <2>3, SlowtimoStep
  <2>4. CASE UNCHANGED vars
    BY <2>4 DEF vars
  <2> QED
    BY <2>1, <2>2, <2>3, <2>4 DEF Next
<1> QED
  BY <1>1, <1>2, PTL DEF Spec

(* A list of fragments always has a timer that runs (ip4_reasm restarts it *)
(* for a new datagram, ip_slowtimo frees the list with the last tick).     *)
THEOREM IncompleteIsTimed == Spec => []TimerRuns
<1>1. TableOK(reasm) => TimerRuns
  BY DEF TableOK, EntryOK, TimerRuns
<1> QED
  BY <1>1, ReassemblyInvariance, PTL

=============================================================================
