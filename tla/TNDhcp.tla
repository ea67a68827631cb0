-------------------------------- MODULE TNDhcp --------------------------------
(***************************************************************************)
(* The DHCP client: dhcp_task_func, which asks for an address, checks it   *)
(* and renews it; dhcp_timer_func, called by the network timer task every  *)
(* 100 ms, which puts the expiry of T1 and T2 into the receive queue of    *)
(* the client's socket; an application with a connected socket; and the    *)
(* DHCP servers of the network, which are external.                        *)
(*                                                                         *)
(* Time is counted in ticks of 100 ms and the times of the code are kept.  *)
(* The sections under DHCP_LOCK do not block and the two tasks that enter  *)
(* them have one priority without a time slice: each is part of an atomic  *)
(* step.  The exchange identifiers are random in the code: a new one is    *)
(* one that no message under way has.                                      *)
(***************************************************************************)
EXTENDS Naturals, Sequences, FiniteSets, SequencesExt

CONSTANTS
    Servers,        \* the DHCP servers; each has one address for this device
    NoServer,       \* the server address 0
    Offers,         \* what the servers may be set up to grant: functions from
                    \* Servers to records [lease, t1, t2]; t1 and t2 are 0
                    \* where the offer does not have the option
    RxQueueSize,    \* entries of the socket's receive queue
    UINT_MOD,       \* 2^32 in the code
    Xids,           \* exchange identifiers
    MaxDhcpFaults   \* bounds the messages lost, doubled, late or foreign, the
                    \* addresses taken and the failures of s_socket, s_bind
                    \* and the servers

DHCP_INFINITE_LEASE == UINT_MOD - 1
NoAddr == "0.0.0.0"

ASSUME DhcpAssumption ==
    /\ UINT_MOD \in Nat \ {0} /\ MaxDhcpFaults \in Nat
    /\ NoServer \notin Servers /\ NoAddr \notin Servers

VARIABLES
    dhi,        \* struct _DHCPINFO
    ni,         \* the interface: its address, and whether somebody else has it
    rxq,        \* queueRx of the client's socket: messages and timer events
    task,       \* where dhcp_task_func is, and the ticks until it goes on
    laddr,      \* inp_laddr of the application's socket
    promised,   \* per server: the ticks left of the lease it granted
    known,      \* the servers that remember their lease
    terms,      \* per server: what it grants
    under,      \* the messages under way
    dhcpMishaps     \* the faults so far

dhcpVars == <<dhi, ni, rxq, task, laddr, promised, known, terms, under, dhcpMishaps>>

(* A server's one address is named after the server.                       *)
AddrOf(s) == s

-----------------------------------------------------------------------------
(* Messages.  Every message of the client carries its exchange identifier; *)
(* dhcp_fill_header puts the interface's address into ciaddr when there is *)
(* a lease.                                                                *)

dhcp_fill_header(d, ip, type) ==
    [type |-> type, xid |-> d.xid, srv |-> NoServer, req |-> NoAddr,
     ciaddr |-> IF d.state \in {"BOUND", "RENEWING", "REBINDING"} THEN ip ELSE NoAddr]

(* A copy for every server it is meant for.                                *)
Sent(m, to) == {[m |-> m, to |-> s] : s \in to}

NewXid == CHOOSE x \in Xids :
    x # dhi.xid /\ (\A u \in under : u.m.xid # x) /\ \A r \in ToSet(rxq) : r.xid # x

(* DHCP_T1_EXPIRED_EVENT, DHCP_T2_EXPIRED_EVENT: pointers no mbuf has.     *)
Event(name) == [type |-> name, xid |-> 0, mine |-> FALSE]

Renumbered(d) == IF d.state = "SELECTING" THEN d ELSE [d EXCEPT !.xid = NewXid]

(* The message dhcp_request sends in the state of d, which its callers     *)
(* change afterwards.                                                      *)
dhcp_request(d) ==
    [dhcp_fill_header(d, ni.ip, "REQUEST") EXCEPT
        !.srv = IF d.state = "SELECTING" THEN d.d_server ELSE NoServer,
        !.req = IF d.state = "SELECTING" THEN d.d_offer ELSE NoAddr]

RequestTo(d) == IF d.state = "RENEWING" THEN {d.server} \ {NoServer} ELSE Servers

dhcp_discover(d) == dhcp_fill_header(d, ni.ip, "DISCOVER")

dhcp_release_decline(d) ==
    [dhcp_fill_header(d, NoAddr, "DECLINE") EXCEPT !.srv = d.server, !.req = d.d_offer]

(* dhcp_parse_offer takes the fields of an offer; a time the offer does    *)
(* not have keeps the value of an earlier one.                             *)
dhcp_parse_offer(d, m) ==
    [d EXCEPT !.d_offer = m.yiaddr, !.d_server = m.srv, !.d_lease = m.lease,
              !.d_t1 = IF m.t1 = 0 THEN @ ELSE m.t1,
              !.d_t2 = IF m.t2 = 0 THEN @ ELSE m.t2]

-----------------------------------------------------------------------------
(* The lease.                                                              *)

dhcp_set_sockets_ip_addr(a) ==
    IF (ni.ip = a /\ a # NoAddr) \/ laddr = NoAddr THEN laddr ELSE a

DefaultT1(d) == d.d_lease \div 2
DefaultT2(d) == ((d.d_lease * 7) % UINT_MOD) \div 8

(* The times of the lease in d: T1 and T2 in seconds, or "for ever".       *)
WithTimes(d) ==
    IF d.d_lease = DHCP_INFINITE_LEASE THEN d
    ELSE [d EXCEPT !.d_t1 = IF @ = 0 THEN DefaultT1(d) ELSE @,
                   !.d_t2 = IF @ = 0 THEN DefaultT2(d) ELSE @]

Armed(d) ==
    LET finite == d.d_lease # DHCP_INFINITE_LEASE IN
    [d EXCEPT !.t1_timeout = IF finite THEN (d.d_t1 * 10) % UINT_MOD ELSE 0,
              !.t2_timeout = IF finite THEN (d.d_t2 * 10) % UINT_MOD ELSE 0,
              !.server = d.d_server, !.lease = d.d_lease, !.renewal = d.d_t1]

dhcp_record_lease(d) == [Armed(WithTimes(d)) EXCEPT !.state = "BOUND"]

(* The pause before the next attempt grows with the attempts; what follows *)
(* it, dhcp_prepare_init_state, sets it to 2 ms and forgets the attempts.  *)
dhcp_set_init_timeout(d) ==
    40 * (IF d.init_num_retries < 2 THEN 1
          ELSE IF d.init_num_retries = 2 THEN 2
          ELSE IF d.init_num_retries = 3 THEN 4 ELSE 8)

dhcp_prepare_init_state(d) ==
    [d EXCEPT !.d_offer = NoAddr, !.d_lease = d.lease, !.rx_timeout = 0,
              !.init_num_retries = 0, !.t1_timeout = 0, !.t2_timeout = 0]

BackToInit(d) ==
    [dhcp_prepare_init_state([d EXCEPT !.rx_timeout = dhcp_set_init_timeout(d)])
        EXCEPT !.state = "INIT"]

-----------------------------------------------------------------------------
(* dhcp_task_func.                                                         *)

DhcpInit ==
    /\ dhi = [state |-> "INIT", xid |-> 0, rx_timeout |-> 0, init_num_retries |-> 0,
              server |-> NoServer, lease |-> 0, renewal |-> 0,
              t1_timeout |-> 0, t2_timeout |-> 0, d_offer |-> NoAddr,
              d_server |-> NoServer, d_lease |-> 0, d_t1 |-> 0, d_t2 |-> 0]
    /\ ni = [ip |-> NoAddr, dup |-> FALSE]
    /\ rxq = <<>>
    /\ task = [at |-> "start", left |-> 0]
    /\ laddr = NoAddr
    /\ promised = [s \in Servers |-> 0]
    /\ known = {}
    /\ terms \in Offers
    /\ under = {}
    /\ dhcpMishaps = 0

serverVars == <<promised, known, terms>>

DhcpMishap == dhcpMishaps < MaxDhcpFaults /\ dhcpMishaps' = dhcpMishaps + 1

(* The next s_recvfrom of the loop, with the time of d.                    *)
Waits(d) == dhi' = d /\ task' = [at |-> "wait", left |-> d.rx_timeout]

OpenDhcpSocket ==
    /\ task.at = "start" /\ task.left = 0
    /\ Waits([dhi EXCEPT !.rx_timeout = 5])
    /\ UNCHANGED <<ni, rxq, laddr, serverVars, under, dhcpMishaps>>

(* s_socket has no memory for the pcb and returns -1.  The loop goes on    *)
(* with that as its socket: what it reads at this address is undefined,    *)
(* but it is no datagram and no timeout.                                   *)
SocketFails ==
    /\ task.at = "start" /\ task.left = 0
    /\ DhcpMishap
    /\ task' = [at |-> "broken", left |-> 0]
    /\ UNCHANGED <<dhi, ni, rxq, laddr, serverVars, under>>

BindFails ==
    /\ task.at = "start" /\ task.left = 0
    /\ DhcpMishap
    /\ task' = [task EXCEPT !.left = 5]
    /\ UNCHANGED <<dhi, ni, rxq, laddr, serverVars, under>>

(* s_recvfrom returns the first entry of the queue.                        *)
Takes(Is(_)) ==
    /\ task.at = "wait" /\ rxq # <<>>
    /\ Is(Head(rxq))
    /\ rxq' = Tail(rxq)
    /\ UNCHANGED <<laddr, serverVars, dhcpMishaps>>

(* Mutant: the exchange identifier is not compared.                       *)
Old_IsOurs(r) == r.mine

IsOurs(r) == r.mine /\ r.xid = dhi.xid

TakesReply(type) == Takes(LAMBDA r : IsOurs(r) /\ r.type = type)

AckWanted == {"REQUESTING", "RENEWING", "REBINDING"}

(* The server of a NAK is compared with bytes of another option, which are *)
(* no server's address: while REQUESTING no NAK is taken.                  *)
NakWanted == {"RENEWING", "REBINDING"}

Wanted(type) ==
    CASE type = "ACK" -> dhi.state \in AckWanted
      [] type = "NAK" -> dhi.state \in NakWanted
      [] OTHER -> dhi.state = "SELECTING"

(* Nothing to do for this message in this state.                           *)
RxIgnored ==
    /\ Takes(LAMBDA r : r.type \notin {"T1", "T2"} /\ ~(IsOurs(r) /\ Wanted(r.type)))
    /\ Waits(dhi)
    /\ UNCHANGED <<ni, under>>

(* dhcp_chk_dup_IP takes the address and asks for it (ARP) for 200 ms.     *)
RxAck ==
    /\ TakesReply("ACK")
    /\ Wanted("ACK")
    /\ ni' = [ni EXCEPT !.ip = dhi.d_offer]
    /\ task' = [at |-> "check", left |-> 2]
    /\ UNCHANGED <<dhi, under>>

CheckEnds ==
    /\ task.at = "check" /\ task.left = 0
    /\ UNCHANGED <<rxq, serverVars, dhcpMishaps>>

AddressFree ==
    /\ CheckEnds
    /\ ~ni.dup
    /\ ni' = [ip |-> dhi.d_offer, dup |-> FALSE]
    /\ laddr' = dhcp_set_sockets_ip_addr(NoAddr)
    /\ Waits(dhcp_record_lease(dhi))
    /\ UNCHANGED under

AddressTaken ==
    /\ CheckEnds
    /\ ni.dup
    /\ ni' = [ip |-> NoAddr, dup |-> FALSE]
    /\ \E d \in {[dhi EXCEPT !.xid = NewXid]} :
         /\ under' = under \cup Sent(dhcp_release_decline(d), Servers)
         /\ Waits(BackToInit(d))
    /\ UNCHANGED laddr

RxNak ==
    /\ TakesReply("NAK")
    /\ Wanted("NAK")
    /\ Waits(BackToInit(dhi))
    /\ UNCHANGED <<ni, under>>

RxOffer ==
    /\ TakesReply("OFFER")
    /\ Wanted("OFFER")
    /\ \E d \in {dhcp_parse_offer(dhi, Head(rxq))} :
         /\ under' = under \cup Sent(dhcp_request(d), RequestTo(d))
         /\ Waits([d EXCEPT !.rx_timeout = 2, !.state = "REQUESTING"])
    /\ UNCHANGED ni

(* A reply without the option that names its type.                         *)
RxNoOffer ==
    /\ TakesReply("BOOTP")
    /\ Wanted("BOOTP")
    /\ Waits([dhi EXCEPT !.rx_timeout = 2])
    /\ UNCHANGED <<ni, under>>

(* Sends a request in the present state and goes to the next one.          *)
Asks(next) ==
    \E d \in {Renumbered(dhi)} :
      /\ under' = under \cup Sent(dhcp_request(d), RequestTo(d))
      /\ Waits([d EXCEPT !.rx_timeout = 5, !.state = next])

RxT1 ==
    /\ Takes(LAMBDA r : r.type = "T1")
    /\ IF dhi.renewal # DHCP_INFINITE_LEASE /\ dhi.state = "BOUND"
         THEN Asks("RENEWING")
         ELSE Waits(dhi) /\ UNCHANGED under
    /\ UNCHANGED ni

RxT2 ==
    /\ Takes(LAMBDA r : r.type = "T2")
    /\ CASE dhi.renewal = DHCP_INFINITE_LEASE -> Waits(dhi) /\ UNCHANGED under
         [] dhi.state = "RENEWING" -> Asks("REBINDING")
         [] dhi.state = "REBINDING" -> Waits(BackToInit(dhi)) /\ UNCHANGED under
         [] OTHER -> Waits(dhi) /\ UNCHANGED under
    /\ UNCHANGED ni

(* Mutant: an unanswered request for an offered address is not given up.  *)
Short_Ends == {"SELECTING", "RENEWING"}

Ends == {"SELECTING", "REQUESTING", "RENEWING"}

RxTimeout ==
    /\ task.at = "wait" /\ task.left = 0 /\ rxq = <<>>
    /\ IF dhi.state = "INIT"
         THEN \E d \in {[dhi EXCEPT !.xid = NewXid, !.init_num_retries = @ + 1]} :
                /\ under' = under \cup Sent(dhcp_discover(d), Servers)
                /\ Waits([d EXCEPT !.rx_timeout = 10, !.state = "SELECTING"])
         ELSE /\ Waits(IF dhi.state \in Ends THEN BackToInit(dhi) ELSE dhi)
              /\ UNCHANGED under
    /\ UNCHANGED <<ni, rxq, laddr, serverVars, dhcpMishaps>>

dhcp_ready == dhi.state = "BOUND"

(* An application waits for the address and then connects a socket.        *)
AppConnects ==
    /\ dhcp_ready /\ laddr = NoAddr
    /\ laddr' = ni.ip
    /\ UNCHANGED <<dhi, ni, rxq, task, serverVars, under, dhcpMishaps>>

-----------------------------------------------------------------------------
(* A tick of the network timer task.  It comes when the client, which has  *)
(* the timer task's priority, has dealt with what it has; a message that   *)
(* is still under way then is late, which is a fault.                      *)

Count(t) == IF t > 0 THEN t - 1 ELSE 0

Posted(q, t, name) == IF t = 1 /\ Len(q) < RxQueueSize THEN Append(q, Event(name)) ELSE q

dhcp_timer_func ==
    /\ dhi' = [dhi EXCEPT !.t1_timeout = Count(@), !.t2_timeout = Count(@)]
    /\ rxq' = Posted(Posted(rxq, dhi.t1_timeout, "T1"), dhi.t2_timeout, "T2")

Forever == 10 * UINT_MOD

Tick ==
    /\ task.left > 0 \/ task.at = "broken"
    /\ task.at = "wait" => rxq = <<>>
    /\ IF under = {} THEN UNCHANGED dhcpMishaps ELSE DhcpMishap
    /\ dhcp_timer_func
    /\ task' = [task EXCEPT !.left = Count(@)]
    /\ promised' = [s \in Servers |->
                      IF promised[s] = Forever THEN Forever ELSE Count(promised[s])]
    /\ UNCHANGED <<ni, laddr, known, terms, under>>

-----------------------------------------------------------------------------
(* The network and its servers.                                            *)

networkVars == <<dhi, ni, rxq, task, laddr>>

Reply(s, type, xid) ==
    [m |-> [type |-> type, xid |-> xid, srv |-> s, yiaddr |-> AddrOf(s), mine |-> TRUE,
            lease |-> terms[s].lease, t1 |-> terms[s].t1, t2 |-> terms[s].t2],
     to |-> "client"]

Answers(u, type) ==
    under' = (under \ {u}) \cup {Reply(u.to, type, u.m.xid)}

Asked(types) == {u \in under : u.to \in Servers /\ u.m.type \in types}

ServerOffers ==
    \E u \in Asked({"DISCOVER"}) :
      /\ \/ Answers(u, "OFFER") /\ UNCHANGED dhcpMishaps
         \/ Answers(u, "BOOTP") /\ DhcpMishap
      /\ UNCHANGED <<networkVars, serverVars>>

(* The request is for the lease this server offered or granted.            *)
Mine(u) == u.m.srv = u.to \/ (u.m.srv = NoServer /\ u.m.ciaddr = AddrOf(u.to))

Term(s) ==
    IF terms[s].lease = DHCP_INFINITE_LEASE THEN Forever ELSE 10 * terms[s].lease

ServerAcks ==
    \E u \in Asked({"REQUEST"}) :
      /\ Mine(u) /\ (u.m.srv = NoServer => u.to \in known)
      /\ promised' = [promised EXCEPT ![u.to] = Term(u.to)]
      /\ known' = known \cup {u.to}
      /\ Answers(u, "ACK")
      /\ UNCHANGED <<networkVars, terms, dhcpMishaps>>

ServerNaks ==
    \E u \in Asked({"REQUEST"}) :
      /\ Mine(u) /\ u.to \notin known
      /\ IF u.m.srv = NoServer THEN UNCHANGED dhcpMishaps ELSE DhcpMishap
      /\ Answers(u, "NAK")
      /\ UNCHANGED <<networkVars, serverVars>>

ServerIgnores ==
    \E u \in Asked({"REQUEST", "DECLINE"}) :
      /\ u.m.type = "REQUEST" => ~Mine(u)
      /\ under' = under \ {u}
      /\ UNCHANGED <<networkVars, serverVars, dhcpMishaps>>

(* A server restarts without its table.                                    *)
ServerForgets ==
    /\ DhcpMishap
    /\ \E s \in known : known' = known \ {s}
    /\ UNCHANGED <<networkVars, promised, terms, under>>

(* A message reaches the socket of the client; udp_input drops what the    *)
(* queue has no room for.                                                  *)
Arrives(r) == rxq' = IF Len(rxq) < RxQueueSize THEN Append(rxq, r) ELSE rxq

Delivered ==
    \E u \in under :
      /\ u.to = "client"
      /\ Arrives(u.m)
      /\ \/ under' = under \ {u} /\ UNCHANGED dhcpMishaps
         \/ UNCHANGED under /\ DhcpMishap
      /\ UNCHANGED <<dhi, ni, task, laddr, serverVars>>

Lost ==
    /\ DhcpMishap
    /\ \E u \in under : under' = under \ {u}
    /\ UNCHANGED <<networkVars, serverVars>>

(* The answer to another device's request is broadcast.                    *)
Foreign ==
    /\ DhcpMishap
    /\ task.at \notin {"start", "broken"}
    /\ Arrives([type |-> "ACK", xid |-> dhi.xid, mine |-> FALSE])
    /\ UNCHANGED <<dhi, ni, task, laddr, serverVars, under>>

(* arp_input: another host says that it has the interface's address; while *)
(* that is 0, an ARP probe says so too.                                    *)
SomebodyHasIt ==
    /\ DhcpMishap
    /\ ~ni.dup
    /\ ni' = [ni EXCEPT !.dup = TRUE]
    /\ UNCHANGED <<dhi, rxq, task, laddr, serverVars, under>>

TaskSteps ==
    \/ OpenDhcpSocket \/ RxIgnored \/ RxAck \/ AddressFree \/ AddressTaken
    \/ RxNak \/ RxOffer \/ RxNoOffer \/ RxT1 \/ RxT2 \/ RxTimeout

NetworkSteps == ServerOffers \/ ServerAcks \/ ServerNaks \/ ServerIgnores \/ Delivered

DhcpNext ==
    \/ TaskSteps \/ NetworkSteps \/ Tick
    \/ SocketFails \/ BindFails \/ AppConnects \/ ServerForgets \/ Lost \/ Foreign \/ SomebodyHasIt

DhcpFairness == WF_dhcpVars(TaskSteps) /\ WF_dhcpVars(NetworkSteps) /\ WF_dhcpVars(Tick)

DhcpSpec == DhcpInit /\ [][DhcpNext]_dhcpVars /\ DhcpFairness

-----------------------------------------------------------------------------
(* The lease ends after the T1 that the client goes by, or never.          *)
(* d_renewal_time is not cleared before an offer is parsed: an offer       *)
(* without T1 is given the T1 of an earlier grant, however short its own   *)
(* lease is; and half of a lease of one second is 0, which starts no       *)
(* timer.                                                                  *)
Renews == dhi.lease = DHCP_INFINITE_LEASE \/ dhi.renewal \in 1 .. dhi.lease - 1

(* The device reports an address only while the server that granted it     *)
(* still promises it: T1 ends BOUND before the lease does, whatever is     *)
(* lost or doubled, or late by less than what T1 leaves of the lease, and  *)
(* no reply of an older exchange gives an address (dhcp_ready,             *)
(* dhcp_record_lease, dhcp_timer_func).  Except for a lease within which   *)
(* the client's T1 does not end: it stays BOUND when that lease is over.   *)
LeaseValid ==
    dhcp_ready => /\ ni.ip = AddrOf(dhi.server)
                  /\ Renews => promised[dhi.server] > 0

(* The second wait for an answer, after T2, has no end of its own: when    *)
(* the answer is lost, dhcp_task_func stays in REBINDING for ever, since   *)
(* T2 expires once.                                                        *)
Stranded == dhi.state = "REBINDING" /\ rxq = <<>> /\ under = {}

(* The device gets an address, again and again: out of every other state   *)
(* the task comes to BOUND, except from a rebinding whose answer is lost   *)
(* and when there was no memory for its socket.                            *)
Leased == ~dhcp_ready ~> (dhcp_ready \/ Stranded \/ task.at = "broken")

(* The comment at dhcp_record_lease says that the address of the active    *)
(* sockets is changed to the interface's.                                  *)
SocketsFollow == [][laddr' # laddr => laddr' = ni'.ip]_dhcpVars

=============================================================================
