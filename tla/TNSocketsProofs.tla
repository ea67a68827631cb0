--------------------------- MODULE TNSocketsProofs ---------------------------
(***************************************************************************)
(* The temporary connection that sendto gives a socket stays inside the    *)
(* spl lock, and no block of the pools is lost but those that udp_output   *)
(* forgets, for any number of sockets, tasks, peers and datagrams.         *)
(***************************************************************************)
EXTENDS TNSockets, TNListProofs

(* A place at which a task holds the lock or waits for it *)
Inside(j) == j.pc = "crit" \/ (j.pc \in {"hdr", "sent"} /\ j.nam)

Insiders == {t \in Tasks : Inside(job[t])}

(* The fields of struct socket with its pcb, and of a task                 *)
SocketShape(x) == DOMAIN x = DOMAIN Closed /\ x.conn \in BOOLEAN

JobShape(j) == DOMAIN j = DOMAIN Idle /\ j.nam \in BOOLEAN

(* The variables that the argument is about have the fields of their       *)
(* structures.                                                             *)
Shape ==
    /\ so = [s \in Sockets |-> so[s]]
    /\ \A s \in Sockets : SocketShape(so[s])
    /\ job = [t \in Tasks |-> job[t]]
    /\ \A t \in Tasks : JobShape(job[t])
    /\ DOMAIN spl = {"holder", "waiters"}
    /\ spl.holder \in Tasks \cup {None}
    /\ spl.waiters \in Seq(Tasks)

(* One task is inside, the others that got there wait in the queue of      *)
(* spl_sem, each once and before it has done anything.                     *)
Lock ==
    /\ Lists(spl.waiters, Insiders \ {spl.holder})
    /\ spl.holder # None => spl.holder \in Insiders
    /\ \A t \in Insiders : t # spl.holder => job[t].pc = "crit"

(* What a call j of task t keeps, x being its socket: the socket is its    *)
(* own; sendto with a name has found the socket without a peer and asks    *)
(* for the lock; the peer of connect is an address.                        *)
CallOK(t, j, x) ==
    /\ j.pc # "idle" => j.s \in Sockets /\ Owner[j.s] = t
    /\ j.call = "sendto" /\ j.pc \in {"spl", "crit"} => j.nam /\ x.faddr = AnyAddr
    /\ j.pc \in {"spl", "crit"} =>
         j.call \in {"socket", "close", "bind", "connect", "sendto"}
    /\ j.pc \in {"data", "out"} => j.call = "sendto"
    /\ j.call = "connect" => j.to \in Peers \cup {None}

IInv ==
    /\ Shape
    /\ Lock
    /\ \A t \in Apps : CallOK(t, job[t], so[job[t].s])
    /\ ConnectionHidden

-----------------------------------------------------------------------------
(* Tasks and records                                                       *)

(* The receive task is no application task: its priority is higher.        *)
LEMMA TheTasks ==
    /\ Rx \in Tasks /\ Rx \notin Apps /\ Apps \subseteq Tasks /\ None \notin Tasks
    /\ None \notin Sockets
    /\ \A s \in Sockets : Owner[s] \in Apps
    /\ \A t \in Tasks : t = Rx \/ t \in Apps
<1>1. Rx \notin Apps
  <2> SUFFICES ASSUME Rx \in Apps PROVE FALSE
    OBVIOUS
  <2>1. Prio[Rx] < Prio[Rx] /\ Prio[Rx] \in Nat
    BY SocketsAssumption DEF Tasks
  <2> QED BY <2>1
<1> QED
  BY <1>1, SocketsAssumption DEF Tasks, Apps

(* The records of a task and of a socket at rest                           *)
LEMMA TheRecords ==
    /\ JobShape(Idle) /\ Idle.pc = "idle" /\ Idle.call = "none" /\ Idle.nam = FALSE
    /\ SocketShape(Closed) /\ Closed.faddr = AnyAddr /\ Closed.conn = FALSE
BY DEF JobShape, Idle, SocketShape, Closed

-----------------------------------------------------------------------------
(* The lock                                                                *)

(* A task that runs inside holds the lock.                                 *)
LEMMA Holds ==
    ASSUME IInv, NEW t \in Tasks, Inside(job[t]), Runs(t)
    PROVE  spl.holder = t
<1> SUFFICES ASSUME spl.holder # t PROVE FALSE
  OBVIOUS
<1> DEFINE S == Insiders \ {spl.holder}
           w == spl.waiters
<1>1. w \in Seq(Tasks) /\ Lists(w, S)
  BY DEF IInv, Shape, Lock
<1>2. t \in S
  BY DEF Insiders
<1>3. PICK i \in 1 .. Len(w) : w[i] = t
  <2> HIDE DEF S, w
  <2>1. \A x \in S : \E i \in 1 .. Len(w) : w[i] = x
    BY <1>1, ListsElements
  <2> QED BY <1>2, <2>1
<1>4. i \in DOMAIN spl.waiters
  BY <1>1, <1>3, LenProperties
<1> QED
  BY <1>3, <1>4 DEF Runs, Blocked

(* The calls of the other tasks do not change.                             *)
OneJob(t) == \A u \in Tasks \ {t} : job'[u] = job[u]

(* A step that neither asks for the lock nor gives it back                 *)
LEMMA LockKept ==
    ASSUME IInv, NEW t \in Tasks, OneJob(t), spl' = spl,
           \/ t = spl.holder /\ Inside(job'[t])
           \/ ~Inside(job[t]) /\ ~Inside(job'[t])
    PROVE  Lock'
<1>1. Lock
  BY DEF IInv
<1>2. Insiders' = Insiders
  <2>1. t = spl.holder => t \in Insiders
    BY <1>1, TheTasks DEF Lock
  <2> QED BY <2>1 DEF Insiders, OneJob
<1>3. ASSUME NEW u \in Insiders', u # spl.holder PROVE job'[u].pc = "crit"
  <2>1. u \in Insiders /\ u # t /\ u \in Tasks
    BY <1>2, <1>3 DEF Insiders
  <2> QED BY <2>1, <1>1, <1>3 DEF Lock, OneJob
<1> QED
  BY <1>1, <1>2, <1>3 DEF Lock

(* splx by the holder, who leaves                                          *)
LEMMA LockReleased ==
    ASSUME IInv, NEW t \in Tasks, OneJob(t), spl.holder = t, spl' = splx,
           ~Inside(job'[t])
    PROVE  /\ Lock'
           /\ DOMAIN spl' = {"holder", "waiters"}
           /\ spl'.holder \in Tasks \cup {None} /\ spl'.waiters \in Seq(Tasks)
<1> DEFINE w == spl.waiters
<1>1. Lists(w, Insiders \ {t}) /\ w \in Seq(Tasks) /\ DOMAIN spl = {"holder", "waiters"}
  BY DEF IInv, Lock, Shape
<1>2. Insiders' = Insiders \ {t}
  BY DEF Insiders, OneJob
<1>3. \A u \in Insiders \ {t} : job'[u].pc = "crit"
  BY DEF IInv, Lock, Insiders, OneJob
<1>4. CASE w = <<>>
  <2>1. spl' = [spl EXCEPT !.holder = None]
    BY <1>4 DEF splx
  <2>2. /\ spl'.holder = None /\ spl'.waiters = w /\ DOMAIN spl' = {"holder", "waiters"}
    BY <2>1, <1>1
  <2>3. Insiders \ {t} = {}
    BY <1>1, <1>4, ListsEmpty
  <2>4. Insiders' \ {None} = Insiders \ {t} /\ Insiders' = {}
    BY <2>3, <1>2
  <2>5. Lists(spl'.waiters, Insiders' \ {spl'.holder})
    BY <2>2, <2>4, <1>1
  <2> QED BY <2>2, <2>4, <2>5, <1>1 DEF Lock
<1>5. CASE w # <<>>
  <2>1. spl' = [holder |-> Head(w), waiters |-> Tail(w)]
    BY <1>5 DEF splx
  <2>2. spl'.holder = Head(w) /\ spl'.waiters = Tail(w) /\ DOMAIN spl' = {"holder", "waiters"}
    BY <2>1
  <2> DEFINE S == Insiders \ {t}
  <2> HIDE DEF S
  <2>3. Head(w) \in S /\ Tail(w) \in Seq(Tasks) /\ Lists(Tail(w), S \ {Head(w)})
    BY <1>1, <1>5, ListsTail DEF S
  <2>4. S \subseteq Tasks /\ Insiders' = S /\ \A u \in S : job'[u].pc = "crit"
    BY <1>2, <1>3 DEF S, Insiders
  <2> QED BY <2>2, <2>3, <2>4 DEF Lock
<1> QED
  BY <1>4, <1>5

(* splnet: the caller holds the lock or is the last of the waiters.        *)
LEMMA LockTaken ==
    ASSUME IInv, NEW t \in Tasks, splnet(t)
    PROVE  /\ Lock' /\ OneJob(t) /\ job' = [job EXCEPT ![t] = [job[t] EXCEPT !.pc = "crit"]]
           /\ DOMAIN spl' = {"holder", "waiters"}
           /\ spl'.holder \in Tasks \cup {None} /\ spl'.waiters \in Seq(Tasks)
<1> DEFINE w == spl.waiters
           S == Insiders \ {spl.holder}
<1>0. /\ Lists(w, S) /\ w \in Seq(Tasks) /\ DOMAIN spl = {"holder", "waiters"}
      /\ spl.holder \in Tasks \cup {None} /\ job = [u \in Tasks |-> job[u]]
      /\ DOMAIN job[t] = DOMAIN Idle
  BY DEF IInv, Lock, Shape, JobShape
<1>1. /\ job[t].pc = "spl" /\ job' = [job EXCEPT ![t].pc = "crit"]
      /\ spl' = IF spl.holder = None THEN [spl EXCEPT !.holder = t]
                ELSE [spl EXCEPT !.waiters = Append(@, t)]
  BY DEF splnet
<1>2. /\ job' = [job EXCEPT ![t] = [job[t] EXCEPT !.pc = "crit"]] /\ OneJob(t)
      /\ job'[t].pc = "crit"
  BY <1>0, <1>1 DEF OneJob, Idle
<1>3. t \notin Insiders /\ t # spl.holder
  <2>1. t \notin Insiders
    BY <1>1 DEF Insiders, Inside
  <2> QED BY <2>1, TheTasks DEF IInv, Lock
<1>4. Insiders' = Insiders \cup {t}
  BY <1>2 DEF Insiders, OneJob, Inside
<1>5. \A u \in Insiders' : u # spl.holder => job'[u].pc = "crit"
  BY <1>2, <1>4 DEF IInv, Lock, OneJob, Insiders
<1>6. CASE spl.holder = None
  <2>1. spl'.holder = t /\ spl'.waiters = w /\ DOMAIN spl' = {"holder", "waiters"}
    BY <1>0, <1>1, <1>6
  <2>2. Insiders' \ {t} = S
    BY <1>3, <1>4, <1>6, TheTasks DEF Insiders
  <2>3. \A u \in Insiders' : u # t => job'[u].pc = "crit"
    BY <1>5, <1>6, TheTasks DEF Insiders
  <2> HIDE DEF S
  <2>4. Lock'
    BY <2>1, <2>2, <2>3, <1>0, <1>4 DEF Lock
  <2> QED BY <2>1, <2>4, <1>0, <1>2
<1>7. CASE spl.holder # None
  <2>1. /\ spl'.holder = spl.holder /\ spl'.waiters = Append(w, t)
        /\ DOMAIN spl' = {"holder", "waiters"}
    BY <1>0, <1>1, <1>7
  <2>2. Insiders' \ {spl.holder} = S \cup {t} /\ t \notin S /\ spl.holder \in Insiders'
    BY <1>3, <1>4, <1>7 DEF IInv, Lock
  <2> HIDE DEF S
  <2>3. Append(w, t) \in Seq(Tasks) /\ Lists(Append(w, t), S \cup {t})
    BY <2>2, <1>0, ListsAppend
  <2>4. Lock'
    BY <2>1, <2>2, <2>3, <1>5 DEF Lock
  <2> QED BY <2>1, <2>3, <2>4, <1>0, <1>2
<1> QED
  BY <1>6, <1>7

-----------------------------------------------------------------------------
(* The steps of the tasks                                                  *)

(* The peer of socket s outside of sendto *)
LastingPeer(j, s, x) ==
    IF j.s = s /\ j.nam /\ j.pc \in {"hdr", "sent"} THEN AnyAddr ELSE x.faddr

(* What Lasting says of the peer, before and after a step *)
LEMMA Lastings ==
    ASSUME NEW s \in Sockets, SocketShape(so[s]), SocketShape(so'[s])
    PROVE  /\ Lasting(s).faddr = LastingPeer(job[Owner[s]], s, so[s])
           /\ Lasting(s)'.faddr = LastingPeer(job'[Owner[s]], s, so'[s])
BY DEF Lasting, LastingPeer, SocketShape, Closed

(* A step of an application task replaces its call and its own socket.     *)
LEMMA AppStep ==
    ASSUME IInv, NEW t \in Apps, NEW s \in Sockets, Owner[s] = t,
           NEW j, NEW x, job' = [job EXCEPT ![t] = j], so' = [so EXCEPT ![s] = x],
           JobShape(j), SocketShape(x),
           job[t].pc = "idle" \/ job[t].s = s,
           j.pc = "idle" \/ j.s = s,
           CallOK(t, j, x),
           (LastingPeer(j, s, x) # AnyAddr) = x.conn,
           misrouted' = misrouted,
           DOMAIN spl' = {"holder", "waiters"},
           spl'.holder \in Tasks \cup {None}, spl'.waiters \in Seq(Tasks), Lock'
    PROVE  IInv'
<1>0. t \in Tasks /\ Shape
  BY TheTasks DEF IInv
<1>1. /\ job' = [u \in Tasks |-> job'[u]] /\ job'[t] = j
      /\ \A u \in Tasks \ {t} : job'[u] = job[u]
  BY <1>0 DEF Shape
<1>2. /\ so' = [y \in Sockets |-> so'[y]] /\ so'[s] = x
      /\ \A y \in Sockets \ {s} : so'[y] = so[y]
  BY <1>0 DEF Shape
<1>3. Shape'
  BY <1>0, <1>1, <1>2 DEF Shape
<1>4. ASSUME NEW u \in Apps PROVE CallOK(u, job'[u], so'[job'[u].s])
  <2>1. CASE u = t
    <3>1. CASE j.pc = "idle"
      BY <2>1, <3>1, <1>1 DEF CallOK
    <3>2. CASE j.s = s
      BY <2>1, <3>2, <1>1, <1>2
    <3> QED BY <3>1, <3>2
  <2>2. CASE u # t
    <3>0. CallOK(u, job[u], so[job[u].s])
      BY DEF IInv
    <3>1. job'[u] = job[u]
      BY <2>2, <1>1, TheTasks
    <3>2. CASE job[u].pc = "idle"
      BY <3>0, <3>1, <3>2 DEF CallOK
    <3>3. CASE job[u].pc # "idle"
      <4>1. job[u].s \in Sockets \ {s}
        BY <3>0, <3>3, <2>2 DEF CallOK
      <4> QED BY <3>0, <3>1, <4>1, <1>2
    <3> QED BY <3>2, <3>3
  <2> QED BY <2>1, <2>2
<1>5. ASSUME NEW y \in Sockets PROVE (Lasting(y)'.faddr # AnyAddr) = so'[y].conn
  <2>1. Lasting(y).faddr = LastingPeer(job[Owner[y]], y, so[y])
        /\ Lasting(y)'.faddr = LastingPeer(job'[Owner[y]], y, so'[y])
    <3>1. SocketShape(so[y]) /\ SocketShape(so'[y])
      BY <1>0, <1>3 DEF Shape
    <3> QED BY <3>1, Lastings
  <2>2. (Lasting(y).faddr # AnyAddr) = so[y].conn
    BY DEF IInv, ConnectionHidden
  <2>3. CASE y = s
    BY <2>1, <2>3, <1>1, <1>2
  <2>4. CASE y # s /\ Owner[y] = t
    <3>1. LastingPeer(job[t], y, so[y]) = so[y].faddr
      BY <2>4 DEF LastingPeer
    <3>2. LastingPeer(j, y, so[y]) = so[y].faddr
      BY <2>4 DEF LastingPeer
    <3> QED BY <3>1, <3>2, <2>1, <2>2, <2>4, <1>1, <1>2
  <2>5. CASE y # s /\ Owner[y] # t
    <3>1. job'[Owner[y]] = job[Owner[y]] /\ so'[y] = so[y]
      BY <2>5, <1>1, <1>2, TheTasks
    <3> QED BY <3>1, <2>1, <2>2
  <2> QED BY <2>3, <2>4, <2>5
<1>6. ConnectionHidden'
  BY <1>5 DEF IInv, ConnectionHidden
<1> QED
  BY <1>3, <1>4, <1>6 DEF IInv

(* What is known of a task in a call and of its socket                     *)
LEMMA InCall ==
    ASSUME IInv, NEW t \in Apps, job[t].pc # "idle"
    PROVE  /\ t \in Tasks /\ job[t].s \in Sockets /\ Owner[job[t].s] = t
           /\ JobShape(job[t]) /\ SocketShape(so[job[t].s])
           /\ CallOK(t, job[t], so[job[t].s])
           /\ (LastingPeer(job[t], job[t].s, so[job[t].s]) # AnyAddr) = so[job[t].s].conn
           /\ so = [so EXCEPT ![job[t].s] = so[job[t].s]]
           /\ DOMAIN spl = {"holder", "waiters"}
           /\ spl.holder \in Tasks \cup {None} /\ spl.waiters \in Seq(Tasks)
<1> DEFINE s == job[t].s
<1>1. t \in Tasks /\ s \in Sockets /\ Owner[s] = t /\ CallOK(t, job[t], so[s])
  BY TheTasks DEF IInv, CallOK
<1>2. JobShape(job[t]) /\ SocketShape(so[s]) /\ so = [so EXCEPT ![s] = so[s]]
  BY <1>1 DEF IInv, Shape
<1>3. Lasting(s).faddr = LastingPeer(job[t], s, so[s])
  BY <1>1, <1>2 DEF Lasting, LastingPeer, SocketShape, Closed
<1>4. (Lasting(s).faddr # AnyAddr) = so[s].conn
  BY <1>1 DEF IInv, ConnectionHidden
<1> QED
  BY <1>1, <1>2, <1>3, <1>4 DEF IInv, Shape

(* splnet of a call                                                        *)
LEMMA SplStep ==
    ASSUME IInv, NEW t \in Apps, splnet(t)
    PROVE  IInv'
<1> DEFINE s == job[t].s
           j == [job[t] EXCEPT !.pc = "crit"]
<1>0. job[t].pc = "spl" /\ so' = so /\ misrouted' = misrouted
  BY DEF splnet
<1>1. /\ t \in Tasks /\ s \in Sockets /\ Owner[s] = t /\ JobShape(job[t])
      /\ SocketShape(so[s]) /\ CallOK(t, job[t], so[s])
      /\ (LastingPeer(job[t], s, so[s]) # AnyAddr) = so[s].conn
      /\ so' = [so EXCEPT ![s] = so[s]]
  BY <1>0, InCall
<1>2. /\ Lock' /\ job' = [job EXCEPT ![t] = j] /\ DOMAIN spl' = {"holder", "waiters"}
      /\ spl'.holder \in Tasks \cup {None} /\ spl'.waiters \in Seq(Tasks)
  BY <1>1, LockTaken
<1>3. /\ JobShape(j) /\ j.s = s /\ CallOK(t, j, so[s])
      /\ LastingPeer(j, s, so[s]) = LastingPeer(job[t], s, so[s])
  BY <1>0, <1>1 DEF JobShape, Idle, CallOK, LastingPeer
<1> HIDE DEF j, s
<1>4. job[t].s = s
  BY DEF s
<1> QED
  BY <1>0, <1>1, <1>2, <1>3, <1>4, AppStep

(* A task leaves its call; what it leaves of its socket has a peer iff it  *)
(* is connected.                                                           *)
LEMMA ReturnStep ==
    ASSUME IInv, NEW t \in Apps, job[t].pc # "idle", Return(t),
           NEW x, so' = [so EXCEPT ![job[t].s] = x], SocketShape(x),
           (x.faddr # AnyAddr) = x.conn, misrouted' = misrouted,
           \/ spl' = splx /\ spl.holder = t
           \/ spl' = spl /\ ~Inside(job[t])
    PROVE  IInv'
<1> DEFINE s == job[t].s
<1>1. /\ t \in Tasks /\ s \in Sockets /\ Owner[s] = t
      /\ DOMAIN spl = {"holder", "waiters"}
      /\ spl.holder \in Tasks \cup {None} /\ spl.waiters \in Seq(Tasks)
  BY InCall
<1>2. job' = [job EXCEPT ![t] = Idle] /\ job = [u \in Tasks |-> job[u]]
  BY DEF Return, IInv, Shape
<1>3. OneJob(t) /\ job'[t] = Idle
  BY <1>1, <1>2 DEF OneJob
<1>4. ~Inside(Idle) /\ CallOK(t, Idle, x) /\ LastingPeer(Idle, s, x) = x.faddr
  BY TheRecords DEF Inside, CallOK, LastingPeer
<1>5. /\ Lock' /\ DOMAIN spl' = {"holder", "waiters"}
      /\ spl'.holder \in Tasks \cup {None} /\ spl'.waiters \in Seq(Tasks)
  BY <1>1, <1>3, <1>4, LockReleased, LockKept
<1> HIDE DEF s
<1>6. so' = [so EXCEPT ![s] = x] /\ job[t].s = s
  BY DEF s
<1> QED
  BY <1>1, <1>2, <1>4, <1>5, <1>6, TheRecords, AppStep

(* in_pcbbind and in_pcbconnect keep the fields; what they do to the peer  *)
LEMMA BindKeeps ==
    ASSUME NEW s \in Sockets, SocketShape(so[s]), NEW laddr, NEW lport,
           NEW x, x = in_pcbbind(s, laddr, lport)
    PROVE  SocketShape(x) /\ x.faddr = so[s].faddr /\ x.conn = so[s].conn
<1>1. \/ x = so[s]
      \/ x = [so[s] EXCEPT !.laddr = laddr, !.lport = lport]
      \/ x = [so[s] EXCEPT !.laddr = laddr, !.lport = EphemeralPort(laddr)]
  BY DEF in_pcbbind
<1> QED
  BY <1>1 DEF SocketShape, Closed

LEMMA ConnectKeeps ==
    ASSUME NEW y, SocketShape(y), NEW faddr, NEW x, x = in_pcbconnect(y, faddr)
    PROVE  SocketShape(x) /\ x.faddr = faddr /\ x.conn = y.conn
<1> DEFINE p == IF y.laddr = AnyAddr /\ y.lport = 0 THEN EphemeralPort(AnyAddr) ELSE y.lport
           l == LocalAddr(y)
<1>1. x = [y EXCEPT !.lport = p, !.laddr = l, !.faddr = faddr]
  BY DEF in_pcbconnect
<1> HIDE DEF p, l
<1> QED
  BY <1>1 DEF SocketShape, Closed

(* connect gives the socket a peer and marks it connected, or neither.     *)
LEMMA ConnectRight ==
    ASSUME NEW s \in Sockets, SocketShape(so[s]), (so[s].faddr # AnyAddr) = so[s].conn,
           NEW faddr \in Peers \cup {None},
           NEW x, x = Connected(s, faddr)
    PROVE  SocketShape(x) /\ (x.faddr # AnyAddr) = x.conn
<1> DEFINE d == Disconnected(so[s])
           c == in_pcbconnect(d, faddr)
<1>1. SocketShape(d) /\ (d.faddr # AnyAddr) = d.conn
  BY DEF Disconnected, SocketShape, Closed
<1> HIDE DEF d
<1>2. x = IF CannotConnect(s, d, faddr) THEN d ELSE [c EXCEPT !.conn = TRUE]
  BY DEF Connected, d
<1>3. CASE CannotConnect(s, d, faddr)
  BY <1>1, <1>2, <1>3
<1>4. CASE ~CannotConnect(s, d, faddr)
  <2>1. faddr # AnyAddr
    BY <1>4, SocketsAssumption DEF CannotConnect
  <2>2. SocketShape(c) /\ c.faddr = faddr
    BY <1>1, ConnectKeeps
  <2> HIDE DEF c
  <2> QED BY <2>1, <2>2, <1>2, <1>4 DEF SocketShape, Closed
<1> QED
  BY <1>3, <1>4

(* The critical sections of socket, close, bind and connect                *)
LEMMA CriticalStep ==
    ASSUME IInv, NEW t \in Apps, CriticalSection(t, job[t].s)
    PROVE  IInv'
<1> DEFINE s == job[t].s
<1>0. /\ job[t].pc = "crit" /\ job[t].call # "sendto" /\ Runs(t)
      /\ spl' = splx /\ Return(t) /\ misrouted' = misrouted
  BY DEF CriticalSection
<1>1. /\ t \in Tasks /\ s \in Sockets /\ JobShape(job[t])
      /\ SocketShape(so[s]) /\ CallOK(t, job[t], so[s])
      /\ (LastingPeer(job[t], s, so[s]) # AnyAddr) = so[s].conn
      /\ so = [so EXCEPT ![s] = so[s]]
  BY <1>0, InCall
<1>2. spl.holder = t
  BY <1>0, <1>1, Holds DEF Inside
<1>3. (so[s].faddr # AnyAddr) = so[s].conn
  BY <1>0, <1>1 DEF LastingPeer
<1>4. ASSUME NEW x, so' = [so EXCEPT ![s] = x], SocketShape(x), (x.faddr # AnyAddr) = x.conn
      PROVE  IInv'
  BY <1>0, <1>2, <1>4, ReturnStep
<1>5. CASE job[t].call = "socket"
  <2>1. SocketMade(t, s)
    BY <1>5 DEF CriticalSection
  <2>2. CASE so' = so
    BY <2>2, <1>1, <1>3, <1>4
  <2>3. CASE so' = [so EXCEPT ![s] = [Closed EXCEPT !.open = TRUE]]
    <3> DEFINE x == [Closed EXCEPT !.open = TRUE]
    <3>1. SocketShape(x) /\ x.faddr = AnyAddr /\ x.conn = FALSE
      BY DEF SocketShape, Closed
    <3> HIDE DEF x, s
    <3>2. so' = [so EXCEPT ![s] = x]
      BY <2>3 DEF x
    <3> QED BY <3>1, <3>2, <1>4
  <2> QED BY <2>1, <2>2, <2>3 DEF SocketMade
<1>6. CASE job[t].call = "close"
  <2>1. so' = [so EXCEPT ![s] = Closed]
    BY <1>6 DEF CriticalSection, SocketClosed
  <2> HIDE DEF s
  <2> QED BY <2>1, <1>4, TheRecords
<1>7. CASE job[t].call = "bind"
  <2> DEFINE x == in_pcbbind(s, job[t].to, job[t].port)
  <2>1. so' = [so EXCEPT ![s] = x]
    BY <1>7 DEF CriticalSection, Readdressed
  <2>2. SocketShape(x) /\ x.faddr = so[s].faddr /\ x.conn = so[s].conn
    BY <1>1, BindKeeps
  <2> HIDE DEF x, s
  <2> QED BY <2>1, <2>2, <1>3, <1>4
<1>8. CASE job[t].call = "connect"
  <2> DEFINE x == Connected(s, job[t].to)
  <2>1. so' = [so EXCEPT ![s] = x]
    BY <1>8 DEF CriticalSection, Readdressed
  <2>2. job[t].to \in Peers \cup {None}
    BY <1>1, <1>8 DEF CallOK
  <2>3. SocketShape(x) /\ (x.faddr # AnyAddr) = x.conn
    BY <2>2, <1>1, <1>3, ConnectRight
  <2> HIDE DEF x, s
  <2> QED BY <2>1, <2>3, <1>4
<1>9. job[t].call \in {"socket", "close", "bind", "connect"}
  BY <1>0, <1>1 DEF CallOK
<1> QED
  BY <1>5, <1>6, <1>7, <1>8, <1>9

(* A task goes on with its call without the lock changing hands.           *)
LEMMA GoOnStep ==
    ASSUME IInv, NEW t \in Apps, job[t].pc # "idle",
           NEW j, job' = [job EXCEPT ![t] = j], JobShape(j), j.s = job[t].s,
           NEW x, so' = [so EXCEPT ![job[t].s] = x], SocketShape(x),
           CallOK(t, j, x), (LastingPeer(j, job[t].s, x) # AnyAddr) = x.conn,
           misrouted' = misrouted, spl' = spl,
           \/ t = spl.holder /\ Inside(j)
           \/ ~Inside(job[t]) /\ ~Inside(j)
    PROVE  IInv'
<1> DEFINE s == job[t].s
<1>1. /\ t \in Tasks /\ s \in Sockets /\ Owner[s] = t
      /\ DOMAIN spl = {"holder", "waiters"}
      /\ spl.holder \in Tasks \cup {None} /\ spl.waiters \in Seq(Tasks)
  BY InCall
<1>2. OneJob(t) /\ job'[t] = j
  <2>1. job = [u \in Tasks |-> job[u]]
    BY DEF IInv, Shape
  <2> QED BY <2>1, <1>1 DEF OneJob
<1>3. Lock'
  BY <1>1, <1>2, LockKept
<1> HIDE DEF s
<1>4. /\ so' = [so EXCEPT ![s] = x] /\ job[t].s = s /\ j.s = s
      /\ (LastingPeer(j, s, x) # AnyAddr) = x.conn
  BY DEF s
<1> QED
  BY <1>1, <1>3, <1>4, AppStep

(* The data of sendto: udp_s_sendto up to udp_output                       *)
LEMMA DataStep ==
    ASSUME IInv, NEW t \in Apps, DataCopied(t)
    PROVE  IInv'
<1> DEFINE s == job[t].s
           j == [job[t] EXCEPT !.pc = "out", !.data = TRUE]
<1>0. job[t].pc = "data" /\ so' = so /\ spl' = spl /\ misrouted' = misrouted
  BY DEF DataCopied
<1>1. /\ JobShape(job[t]) /\ SocketShape(so[s]) /\ CallOK(t, job[t], so[s])
      /\ (LastingPeer(job[t], s, so[s]) # AnyAddr) = so[s].conn
      /\ so' = [so EXCEPT ![s] = so[s]] /\ t \in Tasks
  BY <1>0, InCall
<1>2. ~Inside(job[t]) /\ LastingPeer(job[t], s, so[s]) = so[s].faddr
  BY <1>0 DEF Inside, LastingPeer
<1>3. CASE Return(t)
  <2>1. (so[s].faddr # AnyAddr) = so[s].conn
    BY <1>1, <1>2
  <2>2. job[t].pc # "idle"
    BY <1>0
  <2> DEFINE x == so[s]
  <2>3. so' = [so EXCEPT ![job[t].s] = x] /\ SocketShape(x) /\ (x.faddr # AnyAddr) = x.conn
    BY <2>1, <1>1
  <2> HIDE DEF x
  <2> QED BY <2>2, <2>3, <1>0, <1>2, <1>3, ReturnStep
<1>4. CASE job' = [job EXCEPT ![t].pc = "out", ![t].data = TRUE]
  <2>1. job' = [job EXCEPT ![t] = j]
    <3>1. job = [u \in Tasks |-> job[u]]
      BY DEF IInv, Shape
    <3> QED BY <3>1, <1>1, <1>4 DEF JobShape, Idle
  <2>2. /\ JobShape(j) /\ j.s = job[t].s /\ CallOK(t, j, so[s]) /\ ~Inside(j)
        /\ LastingPeer(j, s, so[s]) = so[s].faddr
    BY <1>0, <1>1 DEF JobShape, Idle, CallOK, Inside, LastingPeer
  <2> HIDE DEF j
  <2>3. job[t].pc # "idle" /\ (LastingPeer(j, s, so[s]) # AnyAddr) = so[s].conn
    BY <1>0, <1>1, <1>2, <2>2
  <2> QED BY <2>1, <2>2, <2>3, <1>0, <1>1, <1>2, GoOnStep
<1> QED
  BY <1>3, <1>4 DEF DataCopied

(* The checks of udp_output                                                *)
LEMMA OutputStep ==
    ASSUME IInv, NEW t \in Apps, udp_output(t, job[t].s)
    PROVE  IInv'
<1> DEFINE s == job[t].s
           j == [job[t] EXCEPT !.pc = IF job[t].nam THEN "spl" ELSE "hdr",
                               !.saved = so[s].laddr]
<1>0. job[t].pc = "out" /\ so' = so /\ spl' = spl /\ misrouted' = misrouted
  BY DEF udp_output
<1>1. /\ JobShape(job[t]) /\ SocketShape(so[s]) /\ CallOK(t, job[t], so[s])
      /\ (LastingPeer(job[t], s, so[s]) # AnyAddr) = so[s].conn
      /\ so' = [so EXCEPT ![s] = so[s]] /\ t \in Tasks
  BY <1>0, InCall
<1>2. /\ ~Inside(job[t]) /\ LastingPeer(job[t], s, so[s]) = so[s].faddr
      /\ job[t].pc # "idle" /\ job[t].call = "sendto"
  BY <1>0, <1>1 DEF Inside, LastingPeer, CallOK
<1>3. CASE Return(t)
  <2> DEFINE x == so[s]
  <2>1. so' = [so EXCEPT ![job[t].s] = x] /\ SocketShape(x) /\ (x.faddr # AnyAddr) = x.conn
    BY <1>1, <1>2
  <2> HIDE DEF x
  <2> QED BY <2>1, <1>0, <1>2, <1>3, ReturnStep
<1>4. CASE ~Return(t)
  <2>1. /\ job' = [job EXCEPT ![t].pc = IF job[t].nam THEN "spl" ELSE "hdr",
                             ![t].saved = so[s].laddr]
        /\ job[t].nam # (so[s].faddr # AnyAddr)
    BY <1>4 DEF udp_output
  <2>2. job' = [job EXCEPT ![t] = j]
    <3>1. job = [u \in Tasks |-> job[u]]
      BY DEF IInv, Shape
    <3> QED BY <3>1, <2>1, <1>1 DEF JobShape, Idle
  <2>3. JobShape(j) /\ j.s = job[t].s /\ j.nam = job[t].nam /\ j.call = "sendto"
        /\ j.pc = IF job[t].nam THEN "spl" ELSE "hdr"
    BY <1>1, <1>2 DEF JobShape, Idle
  <2> HIDE DEF j
  <2>4. CallOK(t, j, so[s]) /\ ~Inside(j) /\ LastingPeer(j, s, so[s]) = so[s].faddr
    BY <2>1, <2>3, <1>1, <1>2 DEF CallOK, Inside, LastingPeer, JobShape
  <2> QED BY <2>2, <2>3, <2>4, <1>0, <1>1, <1>2, GoOnStep
<1> QED
  BY <1>3, <1>4

(* The temporary connection                                                *)
LEMMA SendConnectedStep ==
    ASSUME IInv, NEW t \in Apps, SendConnected(t, job[t].s)
    PROVE  IInv'
<1> DEFINE s == job[t].s
           j == [job[t] EXCEPT !.pc = "hdr"]
<1>0. /\ job[t].pc = "crit" /\ job[t].call = "sendto" /\ Runs(t)
      /\ misrouted' = misrouted /\ job[t].pc # "idle"
  BY DEF SendConnected
<1>1. /\ JobShape(job[t]) /\ SocketShape(so[s]) /\ CallOK(t, job[t], so[s])
      /\ (LastingPeer(job[t], s, so[s]) # AnyAddr) = so[s].conn
      /\ so = [so EXCEPT ![s] = so[s]] /\ t \in Tasks
  BY <1>0, InCall
<1>2. spl.holder = t
  BY <1>0, <1>1, Holds DEF Inside
<1>3. job[t].nam /\ so[s].faddr = AnyAddr /\ so[s].conn = FALSE
  BY <1>0, <1>1 DEF CallOK, LastingPeer, SocketShape
<1>4. CASE CannotConnect(s, so[s], job[t].to)
  <2>1. spl' = splx /\ Return(t) /\ so' = so
    BY <1>4 DEF SendConnected
  <2> DEFINE x == so[s]
  <2>2. so' = [so EXCEPT ![job[t].s] = x] /\ SocketShape(x) /\ (x.faddr # AnyAddr) = x.conn
    BY <2>1, <1>1, <1>3
  <2> HIDE DEF x
  <2> QED BY <2>1, <2>2, <1>0, <1>2, ReturnStep
<1>5. CASE ~CannotConnect(s, so[s], job[t].to)
  <2> DEFINE x == in_pcbconnect(so[s], job[t].to)
  <2>1. so' = [so EXCEPT ![s] = x] /\ spl' = spl /\ job' = [job EXCEPT ![t].pc = "hdr"]
    BY <1>5 DEF SendConnected, Stay
  <2>2. SocketShape(x) /\ x.conn = FALSE
    BY <1>1, <1>3, ConnectKeeps
  <2> HIDE DEF x
  <2>3. job' = [job EXCEPT ![t] = j]
    <3>1. job = [u \in Tasks |-> job[u]]
      BY DEF IInv, Shape
    <3> QED BY <3>1, <2>1, <1>1 DEF JobShape, Idle
  <2>4. JobShape(j) /\ j.s = job[t].s /\ j.nam = job[t].nam /\ j.call = "sendto" /\ j.pc = "hdr"
    BY <1>0, <1>1 DEF JobShape, Idle
  <2> HIDE DEF j
  <2>5. CallOK(t, j, x) /\ Inside(j) /\ LastingPeer(j, s, x) = AnyAddr
    BY <2>4, <1>0, <1>1, <1>3 DEF CallOK, Inside, LastingPeer
  <2>6. (LastingPeer(j, s, x) # AnyAddr) = x.conn
    BY <2>2, <2>5
  <2> QED BY <2>1, <2>2, <2>3, <2>4, <2>5, <2>6, <1>0, <1>2, GoOnStep
<1> QED
  BY <1>4, <1>5

(* The end of udp_output gives the socket its addresses back.              *)
LEMMA RestoredStep ==
    ASSUME IInv, NEW t \in Apps, job[t].pc \in {"hdr", "sent"}, Runs(t), Return(t),
           so' = IF job[t].nam THEN Restored(t, job[t].s) ELSE so,
           spl' = IF job[t].nam THEN splx ELSE spl, misrouted' = misrouted
    PROVE  IInv'
<1> DEFINE s == job[t].s
<1>0. job[t].pc # "idle"
  OBVIOUS
<1>1. /\ JobShape(job[t]) /\ SocketShape(so[s]) /\ s \in Sockets
      /\ (LastingPeer(job[t], s, so[s]) # AnyAddr) = so[s].conn
      /\ so = [so EXCEPT ![s] = so[s]] /\ t \in Tasks
  BY <1>0, InCall
<1>2. CASE job[t].nam
  <2> DEFINE x == [so[s] EXCEPT !.laddr = job[t].saved, !.faddr = AnyAddr]
  <2>1. spl.holder = t /\ spl' = splx
    BY <1>1, <1>2, Holds DEF Inside
  <2>2. so[s].conn = FALSE
    BY <1>1, <1>2 DEF LastingPeer, SocketShape
  <2>3. SocketShape(x) /\ x.faddr = AnyAddr /\ x.conn = FALSE
    BY <2>2, <1>1 DEF SocketShape, Closed
  <2>4. so' = [so EXCEPT ![job[t].s] = x]
    <3>1. so = [y \in Sockets |-> so[y]]
      BY DEF IInv, Shape
    <3> QED BY <3>1, <1>1, <1>2 DEF Restored, SocketShape, Closed
  <2> HIDE DEF x
  <2>5. (x.faddr # AnyAddr) = x.conn
    BY <2>3
  <2> QED BY <2>1, <2>3, <2>4, <2>5, <1>0, ReturnStep
<1>3. CASE ~job[t].nam
  <2> DEFINE x == so[s]
  <2>1. ~Inside(job[t]) /\ spl' = spl
    BY <1>3 DEF Inside
  <2>2. so' = [so EXCEPT ![job[t].s] = x] /\ SocketShape(x) /\ (x.faddr # AnyAddr) = x.conn
    BY <1>1, <1>3 DEF LastingPeer
  <2> HIDE DEF x
  <2> QED BY <2>1, <2>2, <1>0, ReturnStep
<1> QED
  BY <1>2, <1>3

(* The header and ip_output                                                *)
LEMMA HeaderStep ==
    ASSUME IInv, NEW t \in Apps, Header(t, job[t].s)
    PROVE  IInv'
<1> DEFINE s == job[t].s
           j == [job[t] EXCEPT !.pc = "sent", !.data = FALSE]
<1>0. job[t].pc = "hdr" /\ Runs(t) /\ misrouted' = misrouted /\ job[t].pc # "idle"
  BY DEF Header
<1>1. /\ JobShape(job[t]) /\ SocketShape(so[s]) /\ CallOK(t, job[t], so[s])
      /\ (LastingPeer(job[t], s, so[s]) # AnyAddr) = so[s].conn
      /\ so = [so EXCEPT ![s] = so[s]] /\ t \in Tasks
  BY <1>0, InCall
<1>2. CASE HeaderFails(t, s)
  BY <1>0, <1>2, RestoredStep DEF HeaderFails
<1>3. CASE HeaderSent(t)
  <2>1. so' = so /\ spl' = spl /\ job' = [job EXCEPT ![t].pc = "sent", ![t].data = FALSE]
    BY <1>3 DEF HeaderSent
  <2>2. job' = [job EXCEPT ![t] = j]
    <3>1. job = [u \in Tasks |-> job[u]]
      BY DEF IInv, Shape
    <3> QED BY <3>1, <2>1, <1>1 DEF JobShape, Idle
  <2>3. /\ JobShape(j) /\ j.s = job[t].s /\ j.nam = job[t].nam /\ j.call = job[t].call
        /\ j.pc = "sent" /\ j.to = job[t].to
    BY <1>0, <1>1 DEF JobShape, Idle
  <2> HIDE DEF j
  <2>4. /\ CallOK(t, j, so[s]) /\ (Inside(j) <=> Inside(job[t]))
        /\ LastingPeer(j, s, so[s]) = LastingPeer(job[t], s, so[s])
    BY <2>3, <1>0, <1>1 DEF CallOK, Inside, LastingPeer
  <2>5. Inside(job[t]) => spl.holder = t
    BY <1>0, <1>1, Holds
  <2>6. /\ so' = [so EXCEPT ![job[t].s] = so[s]]
        /\ (LastingPeer(j, job[t].s, so[s]) # AnyAddr) = so[s].conn
        /\ (t = spl.holder /\ Inside(j)) \/ (~Inside(job[t]) /\ ~Inside(j))
    BY <2>1, <2>4, <2>5, <1>1
  <2> QED BY <2>1, <2>2, <2>3, <2>4, <2>6, <1>0, <1>1, GoOnStep
<1> QED
  BY <1>2, <1>3 DEF Header

(* udp_s_recvfrom                                                          *)
LEMMA ReceiveStep ==
    ASSUME IInv, NEW t \in Apps, udp_s_recvfrom(t, job[t].s)
    PROVE  IInv'
<1> DEFINE s == job[t].s
<1>0. /\ job[t].pc = "recv" /\ Return(t) /\ spl' = spl /\ misrouted' = misrouted
      /\ job[t].pc # "idle"
      /\ so' = so \/ so' = [so EXCEPT ![s].q = Tail(@)]
  BY DEF udp_s_recvfrom
<1>1. /\ SocketShape(so[s]) /\ s \in Sockets
      /\ (LastingPeer(job[t], s, so[s]) # AnyAddr) = so[s].conn
      /\ so = [so EXCEPT ![s] = so[s]]
  BY <1>0, InCall
<1>2. ~Inside(job[t]) /\ (so[s].faddr # AnyAddr) = so[s].conn
  BY <1>0, <1>1 DEF Inside, LastingPeer
<1>3. CASE so' = so
  <2> DEFINE x == so[s]
  <2>1. so' = [so EXCEPT ![job[t].s] = x] /\ SocketShape(x) /\ (x.faddr # AnyAddr) = x.conn
    BY <1>1, <1>2, <1>3
  <2> HIDE DEF x
  <2> QED BY <2>1, <1>0, <1>2, ReturnStep
<1>4. CASE so' = [so EXCEPT ![s].q = Tail(@)]
  <2> DEFINE x == [so[s] EXCEPT !.q = Tail(@)]
  <2>1. SocketShape(x) /\ x.faddr = so[s].faddr /\ x.conn = so[s].conn
    BY <1>1 DEF SocketShape, Closed
  <2>2. so' = [so EXCEPT ![job[t].s] = x]
    <3>1. so = [y \in Sockets |-> so[y]]
      BY DEF IInv, Shape
    <3> QED BY <3>1, <1>1, <1>4
  <2> HIDE DEF x
  <2>3. (x.faddr # AnyAddr) = x.conn
    BY <2>1, <1>2
  <2> QED BY <2>1, <2>2, <2>3, <1>0, <1>2, ReturnStep
<1> QED
  BY <1>0, <1>3, <1>4

(* The end of udp_output                                                   *)
LEMMA SentStep ==
    ASSUME IInv, NEW t \in Apps, Sent(t, job[t].s)
    PROVE  IInv'
BY RestoredStep DEF Sent

(* Every step of an application task inside of a call                      *)
LEMMA TaskStep ==
    ASSUME IInv, NEW t \in Apps, Step(t)
    PROVE  IInv'
<1>1. CASE splnet(t)
  BY <1>1, SplStep
<1>2. CASE DataCopied(t)
  BY <1>2, DataStep
<1>3. CASE \/ CriticalSection(t, job[t].s) \/ udp_output(t, job[t].s)
           \/ SendConnected(t, job[t].s) \/ Header(t, job[t].s)
           \/ Sent(t, job[t].s) \/ udp_s_recvfrom(t, job[t].s)
  BY <1>3, CriticalStep, OutputStep, SendConnectedStep, HeaderStep, SentStep, ReceiveStep
<1> QED
  BY <1>1, <1>2, <1>3 DEF Step

(* A new call, or an option of a socket that is not in a call              *)
LEMMA CallStep ==
    ASSUME IInv, NEW s \in Sockets, NEW r \in Requests(s), Call(Owner[s], s, r)
    PROVE  IInv'
<1> DEFINE t == Owner[s]
<1>0. /\ job[t].pc = "idle" /\ spl' = spl /\ misrouted' = misrouted
      /\ IF r.call \in Options THEN OptionSet(s, r) ELSE CallMade(t, s, r)
  BY DEF Call
<1>1. /\ t \in Apps /\ t \in Tasks /\ JobShape(job[t]) /\ SocketShape(so[s])
      /\ so = [y \in Sockets |-> so[y]] /\ job = [u \in Tasks |-> job[u]]
      /\ DOMAIN spl = {"holder", "waiters"}
      /\ spl.holder \in Tasks \cup {None} /\ spl.waiters \in Seq(Tasks)
  BY TheTasks DEF IInv, Shape
<1>2. (so[s].faddr # AnyAddr) = so[s].conn
  <2>1. Lasting(s) = so[s]
    BY <1>0 DEF Lasting
  <2> QED BY <2>1 DEF IInv, ConnectionHidden
<1>3. ~Inside(job[t]) /\ CallOK(t, job[t], so[job[t].s])
  BY <1>0, <1>1 DEF Inside, IInv
<1> HIDE DEF t
<1>4. Owner[s] = t
  BY DEF t
<1>5. ASSUME NEW j, job' = [job EXCEPT ![t] = j], JobShape(j), j.pc = "idle" \/ j.s = s,
             j.pc \in {"idle", "spl", "data", "recv"},
             NEW x, so' = [so EXCEPT ![s] = x], SocketShape(x), CallOK(t, j, x),
             (x.faddr # AnyAddr) = x.conn
      PROVE  IInv'
  <2>1. OneJob(t) /\ job'[t] = j
    BY <1>1, <1>5 DEF OneJob
  <2>2. ~Inside(j) /\ LastingPeer(j, s, x) = x.faddr
    BY <1>5 DEF Inside, LastingPeer
  <2>3. Lock'
    BY <2>1, <2>2, <1>0, <1>1, <1>3, LockKept
  <2>4. (LastingPeer(j, s, x) # AnyAddr) = x.conn
    BY <2>2, <1>5
  <2> QED BY <2>3, <2>4, <1>0, <1>1, <1>4, <1>5, AppStep
<1>6. CASE r.call \in Options
  <2>0. OptionSet(s, r) /\ job' = job
    BY <1>0, <1>6 DEF OptionSet
  <2>1. job' = [job EXCEPT ![t] = job[t]]
    BY <2>0, <1>1
  <2>2. PICK x : /\ so' = [so EXCEPT ![s] = x] /\ DOMAIN x = DOMAIN so[s]
                 /\ x.faddr = so[s].faddr /\ x.conn = so[s].conn
    <3> DEFINE n == [so[s] EXCEPT !.nbio = ~@]
               m == [so[s] EXCEPT !.timed = ~@]
               p == [so[s] EXCEPT !.reuse = ~@]
    <3>1. /\ DOMAIN n = DOMAIN so[s] /\ n.faddr = so[s].faddr /\ n.conn = so[s].conn
          /\ DOMAIN m = DOMAIN so[s] /\ m.faddr = so[s].faddr /\ m.conn = so[s].conn
          /\ DOMAIN p = DOMAIN so[s] /\ p.faddr = so[s].faddr /\ p.conn = so[s].conn
      BY <1>1 DEF SocketShape, Closed
    <3>2. CASE r.call = "_FIONBIO"
      <4>1. so' = [so EXCEPT ![s].nbio = ~@]
        BY <2>0, <3>2 DEF OptionSet
      <4>2. so' = [so EXCEPT ![s] = n]
        BY <4>1, <1>1
      <4> HIDE DEF n
      <4> QED BY <4>2, <3>1
    <3>3. CASE r.call = "SO_RCVTIMEO"
      <4>1. so' = [so EXCEPT ![s].timed = ~@]
        BY <2>0, <3>3 DEF OptionSet
      <4>2. so' = [so EXCEPT ![s] = m]
        BY <4>1, <1>1
      <4> HIDE DEF m
      <4> QED BY <4>2, <3>1
    <3>4. CASE r.call = "SO_REUSEPORT"
      <4>1. so' = [so EXCEPT ![s].reuse = ~@]
        BY <2>0, <3>4 DEF OptionSet
      <4>2. so' = [so EXCEPT ![s] = p]
        BY <4>1, <1>1
      <4> HIDE DEF p
      <4> QED BY <4>2, <3>1
    <3> QED BY <3>2, <3>3, <3>4, <1>6 DEF Options
  <2>3. SocketShape(x) /\ (x.faddr # AnyAddr) = x.conn
    BY <2>2, <1>1, <1>2 DEF SocketShape
  <2>4. CallOK(t, job[t], x)
    BY <1>0, <1>3 DEF CallOK
  <2> QED BY <2>1, <2>2, <2>3, <2>4, <1>0, <1>1, <1>5
<1>7. CASE r.call \notin Options
  <2> DEFINE j == [Idle EXCEPT !.pc = FirstPc(r), !.call = r.call, !.s = s,
                               !.to = r.to, !.port = r.port, !.nam = HasName(r)]
  <2>0. so' = so /\ job' = [job EXCEPT ![t] = j]
    BY <1>0, <1>7 DEF CallMade
  <2>1. /\ DOMAIN j = DOMAIN Idle /\ j.pc = FirstPc(r) /\ j.call = r.call /\ j.s = s
        /\ j.to = r.to /\ j.nam = HasName(r)
    BY DEF Idle
  <2>2. /\ r.call \in {"socket", "close", "bind", "connect", "sendto", "recvfrom"}
        /\ r.call = "connect" => r.to \in Peers \cup {None}
    BY <1>7 DEF Requests, Options
  <2>3. /\ r.call \in {"socket", "close", "bind", "connect"} => FirstPc(r) = "spl"
        /\ r.call = "sendto" => FirstPc(r) = "data"
        /\ r.call = "recvfrom" => FirstPc(r) = "recv"
    BY DEF FirstPc
  <2> HIDE DEF j
  <2>4. JobShape(j)
    BY <2>1 DEF JobShape, HasName
  <2>5. CallOK(t, j, so[s]) /\ j.pc \in {"idle", "spl", "data", "recv"}
    BY <2>1, <2>2, <2>3, <1>4 DEF CallOK
  <2>6. so' = [so EXCEPT ![s] = so[s]]
    BY <2>0, <1>1
  <2> QED BY <2>0, <2>1, <2>4, <2>5, <2>6, <1>1, <1>2, <1>5
<1> QED
  BY <1>6, <1>7

-----------------------------------------------------------------------------
(* The receive task                                                        *)

(* A step of the receive task replaces its call and leaves the addresses   *)
(* of the sockets alone.                                                   *)
LEMMA RxSteps ==
    ASSUME IInv, NEW j, job' = [job EXCEPT ![Rx] = j], JobShape(j),
           so' = [s \in Sockets |-> so'[s]],
           \A s \in Sockets : /\ SocketShape(so'[s])
                              /\ so'[s].faddr = so[s].faddr /\ so'[s].conn = so[s].conn,
           misrouted' = misrouted,
           DOMAIN spl' = {"holder", "waiters"},
           spl'.holder \in Tasks \cup {None}, spl'.waiters \in Seq(Tasks), Lock'
    PROVE  IInv'
<1>0. Shape
  BY DEF IInv
<1>1. /\ job' = [u \in Tasks |-> job'[u]] /\ job'[Rx] = j
      /\ \A u \in Apps : job'[u] = job[u]
      /\ \A u \in Tasks : u # Rx => job'[u] = job[u]
  BY <1>0, TheTasks DEF Shape
<1>2. \A u \in Tasks : JobShape(job'[u])
  BY <1>0, <1>1 DEF Shape
<1>3. Shape'
  BY <1>1, <1>2 DEF Shape
<1>4. ASSUME NEW u \in Apps PROVE CallOK(u, job'[u], so'[job'[u].s])
  <2>0. CallOK(u, job[u], so[job[u].s]) /\ job'[u] = job[u]
    BY <1>1 DEF IInv
  <2>1. CASE job[u].pc = "idle"
    BY <2>0, <2>1 DEF CallOK
  <2>2. CASE job[u].pc # "idle"
    <3>1. job[u].s \in Sockets
      BY <2>0, <2>2 DEF CallOK
    <3>2. so'[job[u].s].faddr = so[job[u].s].faddr
      BY <3>1
    <3> QED BY <2>0, <3>2 DEF CallOK
  <2> QED BY <2>1, <2>2
<1>5. ASSUME NEW y \in Sockets PROVE (Lasting(y)'.faddr # AnyAddr) = so'[y].conn
  <2>1. /\ Lasting(y).faddr = LastingPeer(job[Owner[y]], y, so[y])
        /\ Lasting(y)'.faddr = LastingPeer(job'[Owner[y]], y, so'[y])
    <3>1. SocketShape(so[y]) /\ SocketShape(so'[y])
      BY <1>0 DEF Shape
    <3> QED BY <3>1, Lastings
  <2>2. job'[Owner[y]] = job[Owner[y]]
    BY <1>1, TheTasks
  <2>3. LastingPeer(job[Owner[y]], y, so'[y]) = LastingPeer(job[Owner[y]], y, so[y])
    BY DEF LastingPeer
  <2>4. (Lasting(y).faddr # AnyAddr) = so[y].conn
    BY DEF IInv, ConnectionHidden
  <2> QED BY <2>1, <2>2, <2>3, <2>4
<1>6. ConnectionHidden'
  BY <1>5 DEF IInv, ConnectionHidden
<1> QED
  BY <1>3, <1>4, <1>6 DEF IInv

(* A step of the receive task that leaves the lock alone, or releases it   *)
LEMMA RxGoesOn ==
    ASSUME IInv, NEW j, job' = [job EXCEPT ![Rx] = j], JobShape(j),
           so' = [s \in Sockets |-> so'[s]],
           \A s \in Sockets : /\ SocketShape(so'[s])
                              /\ so'[s].faddr = so[s].faddr /\ so'[s].conn = so[s].conn,
           misrouted' = misrouted, ~Inside(j),
           \/ spl' = splx /\ spl.holder = Rx
           \/ spl' = spl /\ ~Inside(job[Rx])
    PROVE  IInv'
<1>1. /\ Rx \in Tasks /\ job = [u \in Tasks |-> job[u]]
      /\ DOMAIN spl = {"holder", "waiters"}
      /\ spl.holder \in Tasks \cup {None} /\ spl.waiters \in Seq(Tasks)
  BY TheTasks DEF IInv, Shape
<1>2. OneJob(Rx) /\ job'[Rx] = j
  BY <1>1 DEF OneJob
<1>3. /\ Lock' /\ DOMAIN spl' = {"holder", "waiters"}
      /\ spl'.holder \in Tasks \cup {None} /\ spl'.waiters \in Seq(Tasks)
  <2>1. CASE spl' = splx /\ spl.holder = Rx
    BY <2>1, <1>1, <1>2, LockReleased
  <2>2. CASE spl' = spl /\ ~Inside(job[Rx])
    BY <2>2, <1>1, <1>2, LockKept
  <2> QED BY <2>1, <2>2
<1> QED
  BY <1>3, RxSteps

(* While the receive task holds the lock nobody has a temporary connection. *)
LEMMA NobodyConnected ==
    ASSUME IInv, spl.holder = Rx
    PROVE  [s \in Sockets |-> Lasting(s)] = so
<1>1. so = [s \in Sockets |-> so[s]]
  BY DEF IInv, Shape
<1>2. ASSUME NEW s \in Sockets PROVE Lasting(s) = so[s]
  <2> DEFINE t == Owner[s]
  <2>1. t \in Tasks /\ t # Rx
    BY TheTasks
  <2>2. t \in Insiders => job[t].pc = "crit"
    BY <2>1 DEF IInv, Lock
  <2>3. ~(job[t].nam /\ job[t].pc \in {"hdr", "sent"})
    BY <2>1, <2>2 DEF Insiders, Inside
  <2> QED BY <2>3 DEF Lasting
<1> QED
  BY <1>1, <1>2

LEMMA RxStepStep ==
    ASSUME IInv, RxStep
    PROVE  IInv'
<1>0. /\ Rx \in Tasks /\ so = [s \in Sockets |-> so[s]] /\ job = [u \in Tasks |-> job[u]]
      /\ \A s \in Sockets : SocketShape(so[s])
      /\ JobShape(job[Rx])
  BY TheTasks DEF IInv, Shape
<1>1. CASE splnet(Rx)
  <2> DEFINE j == [job[Rx] EXCEPT !.pc = "crit"]
  <2>1. JobShape(j)
    BY <1>0 DEF JobShape, Idle
  <2>2. so' = so /\ misrouted' = misrouted
    BY <1>1 DEF splnet
  <2>3. /\ Lock' /\ job' = [job EXCEPT ![Rx] = j] /\ DOMAIN spl' = {"holder", "waiters"}
        /\ spl'.holder \in Tasks \cup {None} /\ spl'.waiters \in Seq(Tasks)
    BY <1>0, <1>1, LockTaken
  <2> HIDE DEF j
  <2> QED BY <2>1, <2>2, <2>3, <1>0, RxSteps
<1>2. CASE udp_input
  <2>1. /\ job[Rx].pc = "crit" /\ Runs(Rx) /\ spl' = splx /\ so' = so
        /\ misrouted' = (misrouted \/ Found(so) # Found([s \in Sockets |-> Lasting(s)]))
    BY <1>2 DEF udp_input
  <2>2. spl.holder = Rx
    BY <2>1, <1>0, Holds DEF Inside
  <2>3. misrouted' = misrouted
    <3>1. misrouted' = (misrouted \/ Found(so) # Found(so))
      BY <2>1, <2>2, NobodyConnected
    <3>2. misrouted = FALSE
      BY DEF IInv, ConnectionHidden
    <3> QED BY <3>1, <3>2
  <2>4. CASE Return(Rx)
    <3>1. job' = [job EXCEPT ![Rx] = Idle] /\ JobShape(Idle) /\ ~Inside(Idle)
      BY <2>4, TheRecords DEF Return, Inside
    <3> QED BY <3>1, <2>1, <2>2, <2>3, <1>0, RxGoesOn
  <2>5. CASE ~Return(Rx)
    <3> DEFINE j == [job[Rx] EXCEPT !.pc = "deliver", !.s = Found(so)]
    <3>1. job' = [job EXCEPT ![Rx].pc = "deliver", ![Rx].s = Found(so)]
      BY <2>5, <1>2 DEF udp_input
    <3>2. job' = [job EXCEPT ![Rx] = j]
      BY <3>1, <1>0 DEF JobShape, Idle
    <3>3. JobShape(j) /\ j.pc = "deliver"
      BY <1>0 DEF JobShape, Idle
    <3> HIDE DEF j
    <3>4. ~Inside(j)
      BY <3>3 DEF Inside
    <3> QED BY <3>2, <3>3, <3>4, <2>1, <2>2, <2>3, <1>0, RxGoesOn
  <2> QED BY <2>4, <2>5
<1>3. CASE Deliver
  <2> DEFINE s == job[Rx].s
  <2>1. /\ job[Rx].pc = "deliver" /\ Return(Rx) /\ spl' = spl /\ misrouted' = misrouted
        /\ so' = so \/ so' = [so EXCEPT ![s].q = Append(@, job[Rx].to)]
    BY <1>3 DEF Deliver
  <2>2. job' = [job EXCEPT ![Rx] = Idle] /\ JobShape(Idle) /\ ~Inside(Idle) /\ ~Inside(job[Rx])
    BY <2>1, TheRecords DEF Return, Inside
  <2>3. CASE so' = so
    BY <2>1, <2>2, <2>3, <1>0, RxGoesOn
  <2>4. CASE so' = [so EXCEPT ![s].q = Append(@, job[Rx].to)]
    <3> DEFINE x == [so[s] EXCEPT !.q = Append(@, job[Rx].to)]
    <3>1. so' = [so EXCEPT ![s] = x]
      BY <2>4, <1>0
    <3>2. s \in Sockets => SocketShape(x) /\ x.faddr = so[s].faddr /\ x.conn = so[s].conn
      BY <1>0 DEF SocketShape, Closed
    <3> HIDE DEF x, s
    <3>3. so' = [y \in Sockets |-> so'[y]]
      BY <3>1, <1>0
    <3>4. ASSUME NEW y \in Sockets
          PROVE  SocketShape(so'[y]) /\ so'[y].faddr = so[y].faddr /\ so'[y].conn = so[y].conn
      <4>1. CASE y = s
        BY <4>1, <3>1, <3>2, <1>0
      <4>2. CASE y # s
        BY <4>2, <3>1, <1>0
      <4> QED BY <4>1, <4>2
    <3> QED BY <3>3, <3>4, <2>1, <2>2, RxGoesOn
  <2> QED BY <2>1, <2>3, <2>4
<1> QED
  BY <1>1, <1>2, <1>3 DEF RxStep

(* A datagram comes up to udp_input.                                       *)
LEMMA ArriveStep ==
    ASSUME IInv, NEW src, NEW dst, NEW port, Arrive(src, dst, port)
    PROVE  IInv'
<1> DEFINE j == [Idle EXCEPT !.pc = "spl", !.call = "input", !.to = src,
                             !.saved = dst, !.port = port]
<1>1. /\ job[Rx].pc = "idle" /\ job' = [job EXCEPT ![Rx] = j] /\ so' = so /\ spl' = spl
      /\ misrouted' = misrouted
  BY DEF Arrive
<1>2. JobShape(j) /\ j.pc = "spl"
  BY DEF JobShape, Idle
<1> HIDE DEF j
<1>3. ~Inside(j) /\ ~Inside(job[Rx])
  BY <1>1, <1>2 DEF Inside
<1>4. so = [s \in Sockets |-> so[s]] /\ \A s \in Sockets : SocketShape(so[s])
  BY DEF IInv, Shape
<1> QED
  BY <1>1, <1>2, <1>3, <1>4, RxGoesOn

-----------------------------------------------------------------------------
LEMMA InitHidden == Init => IInv
<1> SUFFICES ASSUME Init PROVE IInv
  OBVIOUS
<1>1. /\ so = [s \in Sockets |-> Closed] /\ job = [t \in Tasks |-> Idle] /\ misrouted = FALSE
      /\ spl = [holder |-> None, waiters |-> <<>>]
  BY DEF Init
<1>2. Shape
  <2>1. /\ so = [s \in Sockets |-> so[s]] /\ \A s \in Sockets : SocketShape(so[s])
        /\ job = [t \in Tasks |-> job[t]] /\ \A t \in Tasks : JobShape(job[t])
    BY <1>1, TheRecords
  <2>2. /\ DOMAIN spl = {"holder", "waiters"} /\ spl.holder = None /\ spl.waiters \in Seq(Tasks)
    BY <1>1
  <2> QED BY <2>1, <2>2 DEF Shape
<1>3. Insiders = {}
  BY <1>1, TheRecords DEF Insiders, Inside
<1>4. Lock
  <2>1. spl.holder = None /\ spl.waiters = <<>>
    BY <1>1
  <2>2. Lists(<<>>, {})
    BY DEF Lists, ToSet, IsInjective
  <2>3. Insiders \ {None} = {}
    BY <1>3
  <2> QED BY <2>1, <2>2, <2>3, <1>3 DEF Lock
<1>5. \A t \in Apps : CallOK(t, job[t], so[job[t].s])
  BY <1>1, TheRecords, TheTasks DEF CallOK
<1>6. ConnectionHidden
  <2>1. ASSUME NEW s \in Sockets PROVE Lasting(s) = Closed
    BY <1>1, TheRecords, TheTasks DEF Lasting
  <2> QED BY <2>1, <1>1, TheRecords DEF ConnectionHidden
<1> QED
  BY <1>2, <1>4, <1>5, <1>6 DEF IInv

LEMMA StepHidden == IInv /\ [Next]_vars => IInv'
<1> SUFFICES ASSUME IInv, [Next]_vars PROVE IInv'
  OBVIOUS
<1>1. CASE \E t \in Apps : Step(t)
  BY <1>1, TaskStep
<1>2. CASE RxStep
  BY <1>2, RxStepStep
<1>3. CASE \E s \in Sockets : \E r \in Requests(s) : Call(Owner[s], s, r)
  BY <1>3, CallStep
<1>4. CASE \E src \in Peers, dst \in {If, Bc}, port \in Ports : Arrive(src, dst, port)
  BY <1>4, ArriveStep
<1>5. CASE so' = so /\ job' = job /\ spl' = spl /\ misrouted' = misrouted
  BY <1>5, SMTT(40) DEF IInv, Shape, Lock, Insiders, CallOK, ConnectionHidden, Lasting
<1>6. CASE Transmitted
  BY <1>5, <1>6 DEF Transmitted
<1>7. CASE UNCHANGED vars
  BY <1>5, <1>7 DEF vars
<1> QED
  BY <1>1, <1>2, <1>3, <1>4, <1>6, <1>7 DEF Next

(* ConnectionHidden of TNSockets for every number of sockets, tasks, peers *)
(* and datagrams: udp_input never finds a socket by the connection that    *)
(* udp_output gives it for one datagram, and a socket has a peer outside   *)
(* of sendto if and only if connect gave it one.                           *)
THEOREM ConnectionStaysHidden == Spec => []ConnectionHidden
<1>1. IInv => ConnectionHidden
  BY DEF IInv
<1> QED
  BY InitHidden, StepHidden, <1>1, PTL DEF Spec

-----------------------------------------------------------------------------
(* The memory of the sockets.  What a call in progress holds: its data     *)
(* from udp_s_sendto until ip_output has them; the mbuf with the name; the *)
(* receive task has the datagram and, once it was looked up, its socket.   *)
MemJob(t, j) ==
    /\ j.data \in BOOLEAN
    /\ j.pc \in {"idle", "recv"} => ~j.nam
    /\ t = Rx => ~j.nam /\ ~j.data
    /\ j.call \in {"socket", "close"} => ~j.nam
    /\ j.data <=> (j.call = "sendto" /\ j.pc \in {"out", "spl", "crit", "hdr"})
    /\ t # Rx /\ j.pc \in {"data", "out", "hdr", "sent"} => j.call = "sendto"
    /\ t = Rx /\ j.pc # "idle" => j.to \in Peers /\ j.call = "input"
    /\ t = Rx /\ j.pc = "deliver" => j.s \in Sockets

(* The queue of a socket is bounded, and empty when the socket is closed.  *)
MemSocket(x) ==
    /\ x.open \in BOOLEAN
    /\ x.q \in Seq(Peers) /\ Len(x.q) <= RX_QUEUE_SIZE
    /\ ~x.open => x.q = <<>>

OpenSockets == {s \in Sockets : so[s].open}

(* A socket in a call is open, unless the call creates it; the list of the *)
(* pcbs has exactly the open sockets.                                      *)
MemInv ==
    /\ DOMAIN free = DOMAIN Pools /\ DOMAIN lost = DOMAIN Pools
    /\ \A p \in DOMAIN Pools : free[p] \in Int /\ lost[p] \in Int
    /\ wire \in Int
    /\ \A t \in Tasks : MemJob(t, job[t])
    /\ \A s \in Sockets : MemSocket(so[s])
    /\ \A t \in Apps : job[t].pc # "idle" =>
          so[job[t].s].open = (job[t].call # "socket")
    /\ udb \in Seq(Sockets) /\ Lists(udb, OpenSockets)

MInv == IInv /\ MemInv /\ MemoryCounted

-----------------------------------------------------------------------------
(* Counting                                                                *)

LEMMA FiniteTasks == IsFiniteSet(Tasks)
<1> DEFINE f == [s \in Sockets |-> Owner[s]]
<1>1. f \in Surjection(Sockets, Apps)
  BY DEF Surjection, Apps
<1>2. IsFiniteSet(Sockets)
  BY SocketsAssumption
<1>3. IsFiniteSet(Apps)
  <2> HIDE DEF f
  <2> QED BY <1>1, <1>2, FS_Surjection
<1> QED
  BY <1>3, FS_AddElement DEF Tasks

(* Two sets that differ in one element at most                             *)
LEMMA OneChanges ==
    ASSUME NEW S, NEW T, IsFiniteSet(S), IsFiniteSet(T), NEW e, S \ {e} = T \ {e}
    PROVE  /\ Cardinality(S) \in Nat /\ Cardinality(T) \in Nat
           /\ Cardinality(T) = Cardinality(S) - (IF e \in S THEN 1 ELSE 0)
                                              + (IF e \in T THEN 1 ELSE 0)
<1> DEFINE cs == Cardinality(S)
           ct == Cardinality(T)
           c == Cardinality(S \ {e})
<1>1. cs \in Nat /\ ct \in Nat
  BY FS_CardinalityType
<1>2. c = IF e \in S THEN cs - 1 ELSE cs
  BY FS_RemoveElement
<1>3. c = IF e \in T THEN ct - 1 ELSE ct
  BY FS_RemoveElement
<1> HIDE DEF cs, ct, c
<1>4. ct = cs - (IF e \in S THEN 1 ELSE 0) + (IF e \in T THEN 1 ELSE 0)
  BY <1>1, <1>2, <1>3
<1> QED
  BY <1>1, <1>4 DEF cs, ct

(* The blocks of pool p that a task with job j, a socket and the driver    *)
(* with w packets have                                                     *)
TaskHas(t, j, p) == IF HoldsBlock(t, j, p) THEN 1 ELSE 0

SocketHas(x, p) ==
    CASE p \in {"m1buf", "lobuf"} -> IF x.open THEN 1 ELSE 0
      [] p = "hibuf" -> Len(x.q)
      [] OTHER -> 0

DriverHas(w, p) == IF p \in {"drv_lobuf", "drv_m1buf"} THEN w ELSE 0

(* A step of one task changes the count by what that task holds.           *)
LEMMA TaskCount ==
    ASSUME Shape, NEW t \in Tasks, NEW j, job' = [job EXCEPT ![t] = j], NEW p
    PROVE  /\ HeldByTasks(p) \in Nat /\ HeldByTasks(p)' \in Nat
           /\ HeldByTasks(p)' = HeldByTasks(p) - TaskHas(t, job[t], p) + TaskHas(t, j, p)
<1> DEFINE S == {u \in Tasks : HoldsBlock(u, job[u], p)}
           T == {u \in Tasks : HoldsBlock(u, job'[u], p)}
<1>1. job'[t] = j /\ \A u \in Tasks \ {t} : job'[u] = job[u]
  BY DEF Shape
<1>2. S \ {t} = T \ {t}
  BY <1>1
<1>3. IsFiniteSet(S) /\ IsFiniteSet(T)
  BY FiniteTasks, FS_Subset
<1>4. (t \in S <=> HoldsBlock(t, job[t], p)) /\ (t \in T <=> HoldsBlock(t, j, p))
  BY <1>1
<1>5. HeldByTasks(p) = Cardinality(S) /\ HeldByTasks(p)' = Cardinality(T)
  BY DEF HeldByTasks, HoldsBlock
<1> HIDE DEF S, T
<1>6. /\ Cardinality(S) \in Nat /\ Cardinality(T) \in Nat
      /\ Cardinality(T) = Cardinality(S) - (IF t \in S THEN 1 ELSE 0)
                                         + (IF t \in T THEN 1 ELSE 0)
  BY <1>2, <1>3, OneChanges
<1> QED
  BY <1>4, <1>5, <1>6 DEF TaskHas

(* The places in the queues are finitely many; those of socket s are as    *)
(* many as its queue is long.                                              *)
Places(tab) == UNION {{s} \X DOMAIN tab[s].q : s \in Sockets}

LEMMA PlacesFinite ==
    ASSUME NEW tab, \A s \in Sockets : MemSocket(tab[s])
    PROVE  IsFiniteSet(Places(tab)) /\ Cardinality(Places(tab)) \in Nat
<1> DEFINE P == Places(tab)
<1>0. RX_QUEUE_SIZE \in Nat /\ IsFiniteSet(Sockets)
  BY SocketsAssumption
<1>1. \A y \in Sockets : /\ Len(tab[y].q) \in Nat /\ Len(tab[y].q) <= RX_QUEUE_SIZE
                         /\ DOMAIN tab[y].q = 1 .. Len(tab[y].q)
  BY LenProperties DEF MemSocket
<1>2. IsFiniteSet(1 .. RX_QUEUE_SIZE)
  BY <1>0, FS_Interval
<1>3. IsFiniteSet(Sockets \X (1 .. RX_QUEUE_SIZE))
  BY <1>0, <1>2, FS_Product
<1>4. P \subseteq Sockets \X (1 .. RX_QUEUE_SIZE)
  BY <1>0, <1>1 DEF Places
<1> HIDE DEF P
<1>5. IsFiniteSet(P)
  BY <1>3, <1>4, FS_Subset
<1> QED
  BY <1>5, FS_CardinalityType DEF P

LEMMA PlacesOf ==
    ASSUME NEW tab, \A s \in Sockets : MemSocket(tab[s]), NEW s \in Sockets
    PROVE  /\ Cardinality(Places(tab)) \in Nat /\ Len(tab[s].q) \in Nat
           /\ Cardinality(Places(tab) \ ({s} \X Nat)) = Cardinality(Places(tab)) - Len(tab[s].q)
<1> DEFINE P == Places(tab)
           N == {s} \X Nat
<1>1. \A y \in Sockets : Len(tab[y].q) \in Nat /\ DOMAIN tab[y].q = 1 .. Len(tab[y].q)
  BY LenProperties DEF MemSocket
<1>2. IsFiniteSet(P) /\ Cardinality(P) \in Nat
  BY PlacesFinite
<1>3. P \cap N = {s} \X (1 .. Len(tab[s].q))
  BY <1>1 DEF Places
<1> DEFINE n == Len(tab[s].q)
<1>4. n \in Nat
  BY <1>1
<1>5. Cardinality({s} \X (1 .. n)) = n
  <2> HIDE DEF n
  <2>1. IsFiniteSet(1 .. n) /\ Cardinality(1 .. n) = n
    BY <1>4, FS_Interval
  <2>2. IsFiniteSet({s}) /\ Cardinality({s}) = 1
    BY FS_Singleton
  <2> DEFINE I == 1 .. n
             One == {s}
  <2>3. Cardinality(One \X I) = 1 * n
    <3>1. IsFiniteSet(I) /\ Cardinality(I) = n /\ IsFiniteSet(One) /\ Cardinality(One) = 1
      BY <2>1, <2>2
    <3> HIDE DEF I, One
    <3>2. Cardinality(One \X I) = Cardinality(One) * Cardinality(I)
      BY <3>1, FS_Product
    <3> QED BY <3>1, <3>2
  <2> QED BY <1>4, <2>3
<1> HIDE DEF P, N, n
<1>6. Cardinality(P \ N) = Cardinality(P) - Cardinality(P \cap N)
  BY <1>2, FS_Difference
<1>7. Cardinality(P \ N) = Cardinality(P) - n
  BY <1>3, <1>5, <1>6 DEF n
<1> QED
  BY <1>2, <1>4, <1>6, <1>7 DEF P, N, n

(* A step that replaces one socket changes the count by what it has.       *)
LEMMA SocketCount ==
    ASSUME Shape, \A y \in Sockets : MemSocket(so[y]), NEW s \in Sockets, NEW x, MemSocket(x),
           so' = [so EXCEPT ![s] = x], NEW p
    PROVE  /\ HeldBySockets(p) \in Int /\ HeldBySockets(p)' \in Int
           /\ SocketHas(so[s], p) \in Int /\ SocketHas(x, p) \in Int
           /\ HeldBySockets(p)' = HeldBySockets(p) - SocketHas(so[s], p) + SocketHas(x, p)
<1>0. IsFiniteSet(Sockets)
  BY SocketsAssumption
<1>1. so'[s] = x /\ \A y \in Sockets \ {s} : so'[y] = so[y]
  BY DEF Shape
<1>m. \A y \in Sockets : MemSocket(so'[y])
  BY <1>1
<1>2. CASE p \in {"m1buf", "lobuf"}
  <2> DEFINE S == {y \in Sockets : so[y].open}
             T == {y \in Sockets : so'[y].open}
  <2>1. S \ {s} = T \ {s} /\ (s \in S <=> so[s].open) /\ (s \in T <=> x.open)
    BY <1>1
  <2>2. IsFiniteSet(S) /\ IsFiniteSet(T)
    BY <1>0, FS_Subset
  <2>3. HeldBySockets(p) = Cardinality(S) /\ HeldBySockets(p)' = Cardinality(T)
    BY <1>2 DEF HeldBySockets
  <2>4. /\ SocketHas(so[s], p) = IF so[s].open THEN 1 ELSE 0
        /\ SocketHas(x, p) = IF x.open THEN 1 ELSE 0
    BY <1>2 DEF SocketHas
  <2> HIDE DEF S, T
  <2>5. /\ Cardinality(S) \in Nat /\ Cardinality(T) \in Nat
        /\ Cardinality(T) = Cardinality(S) - (IF s \in S THEN 1 ELSE 0)
                                           + (IF s \in T THEN 1 ELSE 0)
    BY <2>1, <2>2, OneChanges
  <2> QED BY <2>1, <2>3, <2>4, <2>5
<1>3. CASE p = "hibuf"
  <2>1. HeldBySockets(p) = Cardinality(Places(so)) /\ HeldBySockets(p)' = Cardinality(Places(so'))
    BY <1>3 DEF HeldBySockets, Queued, Places
  <2>2. SocketHas(so[s], p) = Len(so[s].q) /\ SocketHas(x, p) = Len(x.q)
    BY <1>3 DEF SocketHas
  <2> DEFINE N == {s} \X Nat
  <2>3. Places(so) \ N = Places(so') \ N
    <3>1. ASSUME NEW tab, NEW z, \A y \in Sockets : MemSocket(tab[y])
          PROVE  z \in Places(tab) \ N <=> \E y \in Sockets \ {s} : z \in {y} \X DOMAIN tab[y].q
      <4>1. \A y \in Sockets : DOMAIN tab[y].q \subseteq Nat
        BY <3>1, LenProperties DEF MemSocket
      <4> QED BY <4>1 DEF Places
    <3>2. ASSUME NEW z PROVE z \in Places(so) \ N <=> z \in Places(so') \ N
      <4>1. z \in Places(so) \ N <=> \E y \in Sockets \ {s} : z \in {y} \X DOMAIN so[y].q
        BY <3>1
      <4>2. z \in Places(so') \ N <=> \E y \in Sockets \ {s} : z \in {y} \X DOMAIN so'[y].q
        BY <3>1, <1>m
      <4> QED BY <4>1, <4>2, <1>1
    <3> HIDE DEF N
    <3> QED BY <3>2
  <2>4. /\ Cardinality(Places(so)) \in Nat /\ Len(so[s].q) \in Nat
        /\ Cardinality(Places(so) \ N) = Cardinality(Places(so)) - Len(so[s].q)
    BY PlacesOf
  <2>5. /\ Cardinality(Places(so')) \in Nat /\ Len(x.q) \in Nat
        /\ Cardinality(Places(so') \ N) = Cardinality(Places(so')) - Len(x.q)
    <3>1. /\ Cardinality(Places(so')) \in Nat /\ Len(so'[s].q) \in Nat
          /\ Cardinality(Places(so') \ N) = Cardinality(Places(so')) - Len(so'[s].q)
      BY <1>m, PlacesOf
    <3>2. so'[s].q = x.q
      BY <1>1
    <3> HIDE DEF N
    <3> QED BY <3>1, <3>2
  <2> DEFINE c == Cardinality(Places(so))
             d == Cardinality(Places(so'))
             e == Cardinality(Places(so) \ N)
             k == Len(so[s].q)
             l == Len(x.q)
  <2>6. /\ c \in Nat /\ k \in Nat /\ e = c - k /\ d \in Nat /\ l \in Nat /\ e = d - l
    BY <2>3, <2>4, <2>5
  <2>7. HeldBySockets(p) = c /\ HeldBySockets(p)' = d
        /\ SocketHas(so[s], p) = k /\ SocketHas(x, p) = l
    BY <2>1, <2>2
  <2> HIDE DEF c, d, e, k, l
  <2> QED BY <2>6, <2>7
<1>4. CASE p \notin {"m1buf", "lobuf", "hibuf"}
  <2>1. /\ HeldBySockets(p) = 0 /\ HeldBySockets(p)' = 0
        /\ SocketHas(so[s], p) = 0 /\ SocketHas(x, p) = 0
    BY <1>4 DEF HeldBySockets, SocketHas
  <2> QED BY <2>1
<1> QED
  BY <1>2, <1>3, <1>4

-----------------------------------------------------------------------------
(* A step is balanced when the blocks that leave one place turn up in      *)
(* another one.                                                            *)
Balanced(t, j, y, x) ==
    \A p \in DOMAIN Pools :
        free'[p] + lost'[p] + DriverHas(wire', p) + TaskHas(t, j, p) + SocketHas(x, p)
        = free[p] + lost[p] + DriverHas(wire, p) + TaskHas(t, job[t], p) + SocketHas(y, p)

PoolsTyped ==
    /\ DOMAIN free = DOMAIN Pools /\ DOMAIN lost = DOMAIN Pools
    /\ \A p \in DOMAIN Pools : free[p] \in Int /\ lost[p] \in Int
    /\ wire \in Int

(* The account of one pool: y blocks leave the sockets, z come to them.    *)
LEMMA Account ==
    ASSUME MInv, PoolsTyped', NEW t \in Tasks, NEW j, job' = [job EXCEPT ![t] = j],
           NEW p \in DOMAIN Pools, NEW y \in Int, NEW z \in Int,
           HeldBySockets(p) \in Int, HeldBySockets(p)' = HeldBySockets(p) - y + z,
           free'[p] + lost'[p] + DriverHas(wire', p) + TaskHas(t, j, p) + z
           = free[p] + lost[p] + DriverHas(wire, p) + TaskHas(t, job[t], p) + y
    PROVE  free'[p] + lost'[p] + HeldByDriver(p)' + HeldByTasks(p)' + HeldBySockets(p)'
           = Pools[p]
<1>0. Shape
  BY DEF MInv, IInv
<1>1. free[p] + lost[p] + HeldByDriver(p) + HeldByTasks(p) + HeldBySockets(p) = Pools[p]
  BY DEF MInv, MemoryCounted
<1>2. /\ free[p] \in Int /\ lost[p] \in Int /\ wire \in Int
      /\ free'[p] \in Int /\ lost'[p] \in Int /\ wire' \in Int
  BY DEF MInv, MemInv, PoolsTyped
<1>3. HeldByDriver(p) = DriverHas(wire, p) /\ HeldByDriver(p)' = DriverHas(wire', p)
  BY DEF HeldByDriver, DriverHas
<1>4. DriverHas(wire, p) \in Int /\ DriverHas(wire', p) \in Int
  BY <1>2 DEF DriverHas
<1>5. TaskHas(t, job[t], p) \in Int /\ TaskHas(t, j, p) \in Int
  BY DEF TaskHas
<1>6. /\ HeldByTasks(p) \in Nat /\ HeldByTasks(p)' \in Nat
      /\ HeldByTasks(p)' = HeldByTasks(p) - TaskHas(t, job[t], p) + TaskHas(t, j, p)
  BY <1>0, TaskCount
<1> DEFINE a1 == free[p]
           b1 == lost[p]
           c1 == DriverHas(wire, p)
           d1 == TaskHas(t, job[t], p)
           f1 == HeldByTasks(p)
           g1 == HeldBySockets(p)
           a2 == free'[p]
           b2 == lost'[p]
           c2 == DriverHas(wire', p)
           d2 == TaskHas(t, j, p)
           f2 == HeldByTasks(p)'
           g2 == HeldBySockets(p)'
           n == Pools[p]
<1>9. /\ a1 \in Int /\ b1 \in Int /\ c1 \in Int /\ d1 \in Int /\ f1 \in Int /\ g1 \in Int
      /\ a2 \in Int /\ b2 \in Int /\ c2 \in Int /\ d2 \in Int /\ f2 \in Int
  BY <1>2, <1>4, <1>5, <1>6
<1>10. /\ a1 + b1 + c1 + f1 + g1 = n /\ f2 = f1 - d1 + d2 /\ g2 = g1 - y + z
       /\ a2 + b2 + c2 + d2 + z = a1 + b1 + c1 + d1 + y
  BY <1>1, <1>3, <1>6
<1>11. a2 + b2 + c2 + f2 + g2 = n
  <2> HIDE DEF a1, b1, c1, d1, f1, g1, a2, b2, c2, d2, f2, g2, n
  <2> QED BY <1>9, <1>10
<1> QED
  BY <1>3, <1>11

(* A balanced step of task t that replaces socket s                        *)
LEMMA BalancedStep ==
    ASSUME MInv, PoolsTyped', NEW t \in Tasks, NEW j, job' = [job EXCEPT ![t] = j],
           NEW s \in Sockets, NEW x, so' = [so EXCEPT ![s] = x], MemSocket(x),
           Balanced(t, j, so[s], x)
    PROVE  MemoryCounted'
<1> SUFFICES ASSUME NEW p \in DOMAIN Pools
             PROVE  free'[p] + lost'[p] + HeldByDriver(p)' + HeldByTasks(p)' + HeldBySockets(p)'
                    = Pools[p]
  BY DEF MemoryCounted
<1>0. Shape /\ \A y \in Sockets : MemSocket(so[y])
  BY DEF MInv, IInv, MemInv
<1>1. /\ HeldBySockets(p) \in Int
      /\ SocketHas(so[s], p) \in Int /\ SocketHas(x, p) \in Int
      /\ HeldBySockets(p)' = HeldBySockets(p) - SocketHas(so[s], p) + SocketHas(x, p)
  BY <1>0, SocketCount
<1>2. free'[p] + lost'[p] + DriverHas(wire', p) + TaskHas(t, j, p) + SocketHas(x, p)
      = free[p] + lost[p] + DriverHas(wire, p) + TaskHas(t, job[t], p) + SocketHas(so[s], p)
  BY DEF Balanced
<1> DEFINE y == SocketHas(so[s], p)
           z == SocketHas(x, p)
<1>3. /\ y \in Int /\ z \in Int /\ HeldBySockets(p)' = HeldBySockets(p) - y + z
      /\ free'[p] + lost'[p] + DriverHas(wire', p) + TaskHas(t, j, p) + z
         = free[p] + lost[p] + DriverHas(wire, p) + TaskHas(t, job[t], p) + y
  BY <1>1, <1>2
<1> HIDE DEF y, z
<1> QED
  BY <1>1, <1>3, Account

(* A balanced step of task t that leaves the sockets alone                 *)
LEMMA BalancedAlone ==
    ASSUME MInv, PoolsTyped', NEW t \in Tasks, NEW j, job' = [job EXCEPT ![t] = j], so' = so,
           Balanced(t, j, Closed, Closed)
    PROVE  MemoryCounted'
<1> SUFFICES ASSUME NEW p \in DOMAIN Pools
             PROVE  free'[p] + lost'[p] + HeldByDriver(p)' + HeldByTasks(p)' + HeldBySockets(p)'
                    = Pools[p]
  BY DEF MemoryCounted
<1>1. HeldBySockets(p) \in Int
  <2>1. Cardinality(Places(so)) \in Nat
    BY PlacesFinite DEF MInv, MemInv
  <2>2. Queued = Places(so)
    BY DEF Queued, Places
  <2>3. Cardinality({s \in Sockets : so[s].open}) \in Nat
    BY FS_Subset, FS_CardinalityType, SocketsAssumption
  <2> QED BY <2>1, <2>2, <2>3 DEF HeldBySockets
<1>2. HeldBySockets(p)' = HeldBySockets(p)
  BY DEF HeldBySockets, Queued
<1>3. SocketHas(Closed, p) = 0
  BY DEF SocketHas, Closed
<1> DEFINE z == SocketHas(Closed, p)
<1>4. free'[p] + lost'[p] + DriverHas(wire', p) + TaskHas(t, j, p) + z
      = free[p] + lost[p] + DriverHas(wire, p) + TaskHas(t, job[t], p) + z
  BY DEF Balanced
<1>5. z \in Int /\ HeldBySockets(p)' = HeldBySockets(p) - z + z
  BY <1>1, <1>2, <1>3
<1> HIDE DEF z
<1> QED
  BY <1>1, <1>4, <1>5, Account

-----------------------------------------------------------------------------
(* The steps                                                               *)

(* The list of the pcbs after socket s became x                            *)
ListRight(s, x) ==
    udb' \in Seq(Sockets)
    /\ Lists(udb', IF x.open THEN OpenSockets \cup {s} ELSE OpenSockets \ {s})

LEMMA SameList ==
    ASSUME MInv, udb' = udb, NEW s \in Sockets, NEW x, x.open = so[s].open
    PROVE  ListRight(s, x)
<1>1. (IF x.open THEN OpenSockets \cup {s} ELSE OpenSockets \ {s}) = OpenSockets
  BY DEF OpenSockets
<1>2. udb \in Seq(Sockets) /\ Lists(udb, OpenSockets)
  BY DEF MInv, MemInv
<1> QED
  BY <1>1, <1>2 DEF ListRight

LEMMA OpenAfter ==
    ASSUME Shape, NEW s \in Sockets, NEW x, so' = [so EXCEPT ![s] = x]
    PROVE  OpenSockets' = IF x.open THEN OpenSockets \cup {s} ELSE OpenSockets \ {s}
<1>1. so'[s] = x /\ \A y \in Sockets \ {s} : so'[y] = so[y]
  BY DEF Shape
<1> QED
  BY <1>1 DEF OpenSockets

(* A step of an application task with its socket                           *)
LEMMA AppMem ==
    ASSUME MInv, NEW t \in Apps, NEW s \in Sockets, Owner[s] = t,
           NEW j, job' = [job EXCEPT ![t] = j], MemJob(t, j),
           NEW x, so' = [so EXCEPT ![s] = x], MemSocket(x),
           j.pc # "idle" => j.s = s /\ x.open = (j.call # "socket"),
           ListRight(s, x), PoolsTyped', Balanced(t, j, so[s], x)
    PROVE  MemInv' /\ MemoryCounted'
<1>0. Shape /\ t \in Tasks
  BY TheTasks DEF MInv, IInv
<1>1. job'[t] = j /\ \A u \in Tasks \ {t} : job'[u] = job[u]
  BY <1>0 DEF Shape
<1>2. so'[s] = x /\ \A y \in Sockets \ {s} : so'[y] = so[y]
  BY <1>0 DEF Shape
<1>3. \A u \in Tasks : MemJob(u, job'[u])
  BY <1>1 DEF MInv, MemInv
<1>4. \A y \in Sockets : MemSocket(so'[y])
  BY <1>2 DEF MInv, MemInv
<1>5. ASSUME NEW u \in Apps, job'[u].pc # "idle"
      PROVE  so'[job'[u].s].open = (job'[u].call # "socket")
  <2>1. CASE u = t
    BY <2>1, <1>1, <1>2, <1>5
  <2>2. CASE u # t
    <3>1. job'[u] = job[u] /\ job[u].pc # "idle"
      BY <2>2, <1>1, <1>5, TheTasks
    <3>2. job[u].s \in Sockets /\ Owner[job[u].s] = u
      BY <3>1 DEF MInv, IInv, CallOK
    <3>3. so'[job[u].s] = so[job[u].s]
      BY <3>2, <2>2, <1>2
    <3>4. so[job[u].s].open = (job[u].call # "socket")
      BY <3>1 DEF MInv, MemInv
    <3> QED BY <3>1, <3>3, <3>4
  <2> QED BY <2>1, <2>2
<1>6. udb' \in Seq(Sockets) /\ Lists(udb', OpenSockets')
  <2>1. OpenSockets' = IF x.open THEN OpenSockets \cup {s} ELSE OpenSockets \ {s}
    BY <1>0, OpenAfter
  <2> QED BY <2>1 DEF ListRight
<1>7. MemInv'
  BY <1>3, <1>4, <1>5, <1>6 DEF MemInv, PoolsTyped
<1>8. MemoryCounted'
  BY <1>0, BalancedStep
<1> QED
  BY <1>7, <1>8

(* What is known of a call and of its socket                               *)
LEMMA MemInCall ==
    ASSUME MInv, NEW t \in Apps, job[t].pc # "idle"
    PROVE  /\ t \in Tasks /\ t # Rx /\ job[t].s \in Sockets /\ Owner[job[t].s] = t
           /\ JobShape(job[t]) /\ SocketShape(so[job[t].s]) /\ CallOK(t, job[t], so[job[t].s])
           /\ MemJob(t, job[t]) /\ MemSocket(so[job[t].s])
           /\ so[job[t].s].open = (job[t].call # "socket")
           /\ so = [so EXCEPT ![job[t].s] = so[job[t].s]]
           /\ PoolsTyped
<1>1. IInv /\ MemInv
  BY DEF MInv
<1>2. /\ t \in Tasks /\ job[t].s \in Sockets /\ Owner[job[t].s] = t
      /\ JobShape(job[t]) /\ SocketShape(so[job[t].s]) /\ CallOK(t, job[t], so[job[t].s])
      /\ so = [so EXCEPT ![job[t].s] = so[job[t].s]]
  BY <1>1, InCall
<1>3. t # Rx
  BY TheTasks
<1> QED
  BY <1>1, <1>2, <1>3 DEF MemInv, PoolsTyped

LEMMA PoolNames == DOMAIN Pools = {"m1buf", "lobuf", "drv_lobuf", "drv_m1buf", "hibuf"}
BY SocketsAssumption

(* The blocks balance without the sockets.                                 *)
Settled(t, j) ==
    \A p \in DOMAIN Pools :
        free'[p] + lost'[p] + DriverHas(wire', p) + TaskHas(t, j, p)
        = free[p] + lost[p] + DriverHas(wire, p) + TaskHas(t, job[t], p)

(* A call goes on; the socket keeps its blocks.                            *)
LEMMA MemGoOn ==
    ASSUME MInv, NEW t \in Apps, job[t].pc # "idle",
           NEW j, job' = [job EXCEPT ![t] = j], MemJob(t, j),
           j.s = job[t].s, j.call = job[t].call,
           NEW x, so' = [so EXCEPT ![job[t].s] = x],
           x.open = so[job[t].s].open, x.q = so[job[t].s].q,
           udb' = udb, PoolsTyped', Settled(t, j)
    PROVE  MemInv' /\ MemoryCounted'
<1> DEFINE s == job[t].s
<1>1. /\ s \in Sockets /\ Owner[s] = t /\ MemSocket(so[s])
      /\ so[s].open = (job[t].call # "socket")
  BY MemInCall
<1>2. MemSocket(x) /\ ListRight(s, x)
  BY <1>1, SameList DEF MemSocket
<1>3. Balanced(t, j, so[s], x)
  <2> SUFFICES ASSUME NEW p \in DOMAIN Pools
               PROVE  free'[p] + lost'[p] + DriverHas(wire', p) + TaskHas(t, j, p) + SocketHas(x, p)
                      = free[p] + lost[p] + DriverHas(wire, p) + TaskHas(t, job[t], p)
                        + SocketHas(so[s], p)
    BY DEF Balanced
  <2>1. SocketHas(x, p) = SocketHas(so[s], p)
    BY DEF SocketHas
  <2> QED BY <2>1 DEF Settled
<1> HIDE DEF s
<1>4. so' = [so EXCEPT ![s] = x] /\ j.s = s /\ x.open = (j.call # "socket")
  BY <1>1 DEF s
<1> QED
  BY <1>1, <1>2, <1>3, <1>4, AppMem

(* A call returns and gives back the blocks it has, or forgets them.       *)
LEMMA MemReturn ==
    ASSUME MInv, NEW t \in Apps, job[t].pc # "idle", Return(t),
           NEW x, so' = [so EXCEPT ![job[t].s] = x],
           x.open = so[job[t].s].open, x.q = so[job[t].s].q, udb' = udb, wire' = wire,
           \/ free' = Freed(NameOf(t) \cup DataOf(t)) /\ lost' = lost
           \/ /\ free' = free
              /\ lost' = [p \in DOMAIN lost |-> IF p \in NameOf(t) \cup DataOf(t)
                                                THEN lost[p] + 1 ELSE lost[p]]
    PROVE  MemInv' /\ MemoryCounted'
<1> DEFINE s == job[t].s
           k == NameOf(t) \cup DataOf(t)
<1>1. /\ t \in Tasks /\ t # Rx /\ s \in Sockets /\ Owner[s] = t /\ MemSocket(so[s])
      /\ PoolsTyped /\ MemJob(t, job[t]) /\ JobShape(job[t])
  BY MemInCall
<1>2. MemSocket(x) /\ ListRight(s, x)
  BY <1>1, SameList DEF MemSocket
<1>3. /\ PoolsTyped'
      /\ \A p \in DOMAIN Pools :
            free'[p] + lost'[p] = free[p] + lost[p] + (IF p \in k THEN 1 ELSE 0)
  <2> HIDE DEF k
  <2>1. CASE free' = Freed(k) /\ lost' = lost
    BY <2>1, <1>1 DEF Freed, PoolsTyped
  <2>2. CASE /\ free' = free
             /\ lost' = [p \in DOMAIN lost |-> IF p \in k THEN lost[p] + 1 ELSE lost[p]]
    BY <2>2, <1>1 DEF PoolsTyped
  <2> QED BY <2>1, <2>2 DEF k
<1>4. Balanced(t, Idle, so[s], x)
  <2> SUFFICES ASSUME NEW p \in DOMAIN Pools
               PROVE  free'[p] + lost'[p] + DriverHas(wire', p) + TaskHas(t, Idle, p)
                      + SocketHas(x, p)
                      = free[p] + lost[p] + DriverHas(wire, p) + TaskHas(t, job[t], p)
                        + SocketHas(so[s], p)
    BY DEF Balanced
  <2>1. SocketHas(x, p) = SocketHas(so[s], p) /\ SocketHas(x, p) \in Int
    BY <1>2, LenProperties DEF SocketHas, MemSocket
  <2>2. TaskHas(t, Idle, p) = 0
    BY <1>1 DEF TaskHas, HoldsBlock, Idle
  <2>3. TaskHas(t, job[t], p) = IF p \in k THEN 1 ELSE 0
    BY <1>1 DEF TaskHas, HoldsBlock, NameOf, DataOf
  <2>4. DriverHas(wire', p) = DriverHas(wire, p) /\ DriverHas(wire, p) \in Int
    BY <1>1 DEF DriverHas, PoolsTyped
  <2>5. free[p] \in Int /\ lost[p] \in Int /\ free'[p] \in Int /\ lost'[p] \in Int
    BY <1>1, <1>3 DEF PoolsTyped
  <2>6. free'[p] + lost'[p] = free[p] + lost[p] + (IF p \in k THEN 1 ELSE 0)
    BY <1>3
  <2> DEFINE a == free'[p]
             b == lost'[p]
             c == DriverHas(wire, p)
             d == IF p \in k THEN 1 ELSE 0
             e == SocketHas(x, p)
             f == free[p]
             g == lost[p]
  <2>7. a + b + c + 0 + e = f + g + c + d + e
    <3>1. /\ a \in Int /\ b \in Int /\ c \in Int /\ d \in Int /\ e \in Int
          /\ f \in Int /\ g \in Int /\ a + b = f + g + d
      BY <2>1, <2>4, <2>5, <2>6
    <3> HIDE DEF a, b, c, d, e, f, g
    <3> QED BY <3>1
  <2> QED BY <2>1, <2>2, <2>3, <2>4, <2>7
<1>5. MemJob(t, Idle) /\ Idle.pc = "idle"
  BY <1>1 DEF MemJob, Idle
<1> HIDE DEF s, k
<1>6. so' = [so EXCEPT ![s] = x] /\ job' = [job EXCEPT ![t] = Idle]
  BY DEF s, Return
<1> QED
  BY <1>1, <1>2, <1>3, <1>4, <1>5, <1>6, AppMem

(* A call goes on and neither takes nor gives a block.                     *)
LEMMA MemSame ==
    ASSUME MInv, NEW t \in Apps, job[t].pc # "idle", NEW j, job' = [job EXCEPT ![t] = j],
           MemJob(t, j), j.s = job[t].s, j.call = job[t].call,
           j.nam = job[t].nam, j.data = job[t].data,
           NEW x, so' = [so EXCEPT ![job[t].s] = x],
           x.open = so[job[t].s].open, x.q = so[job[t].s].q,
           UNCHANGED <<udb, free, lost, wire>>
    PROVE  MemInv' /\ MemoryCounted'
<1>1. t # Rx /\ PoolsTyped
  BY MemInCall
<1>2. PoolsTyped' /\ free' = free /\ lost' = lost /\ wire' = wire /\ udb' = udb
  BY <1>1 DEF PoolsTyped
<1>3. ASSUME NEW p PROVE TaskHas(t, j, p) = TaskHas(t, job[t], p)
  BY <1>1 DEF TaskHas, HoldsBlock
<1>4. Settled(t, j)
  BY <1>2, <1>3 DEF Settled
<1> QED
  BY <1>2, <1>4, MemGoOn

(* splnet of a call *)
LEMMA SplMem ==
    ASSUME MInv, NEW t \in Apps, splnet(t)
    PROVE  MemInv' /\ MemoryCounted'
<1> DEFINE j == [job[t] EXCEPT !.pc = "crit"]
<1>0. /\ job[t].pc = "spl" /\ so' = so /\ udb' = udb /\ free' = free /\ wire' = wire
      /\ lost' = lost
  BY DEF splnet
<1>1. /\ t \in Tasks /\ t # Rx /\ JobShape(job[t]) /\ MemJob(t, job[t]) /\ PoolsTyped
      /\ so = [so EXCEPT ![job[t].s] = so[job[t].s]]
  BY <1>0, MemInCall
<1>2. job' = [job EXCEPT ![t] = j]
  BY <1>1, LockTaken DEF MInv
<1>3. /\ j.s = job[t].s /\ j.call = job[t].call /\ j.nam = job[t].nam /\ j.data = job[t].data
      /\ j.to = job[t].to /\ j.pc = "crit"
  BY <1>1 DEF JobShape, Idle
<1> HIDE DEF j
<1>4. MemJob(t, j)
  BY <1>0, <1>1, <1>3 DEF MemJob
<1>8. so' = [so EXCEPT ![job[t].s] = so[job[t].s]] /\ job[t].pc # "idle"
  BY <1>0, <1>1
<1> DEFINE x == so[job[t].s]
<1>9. so' = [so EXCEPT ![job[t].s] = x] /\ x.open = so[job[t].s].open /\ x.q = so[job[t].s].q
  BY <1>8
<1> HIDE DEF x
<1> QED
  BY <1>0, <1>2, <1>3, <1>4, <1>8, <1>9, MemSame

(* The call returns with the blocks freed, and the sockets stay the same.  *)
LEMMA MemGivenUp ==
    ASSUME MInv, NEW t \in Apps, job[t].pc # "idle", Return(t), so' = so,
           udb' = udb, wire' = wire, lost' = lost, free' = Freed(NameOf(t) \cup DataOf(t))
    PROVE  MemInv' /\ MemoryCounted'
<1> DEFINE x == so[job[t].s]
<1>1. so' = [so EXCEPT ![job[t].s] = x] /\ x.open = so[job[t].s].open /\ x.q = so[job[t].s].q
  BY MemInCall
<1> HIDE DEF x
<1> QED
  BY <1>1, MemReturn

(* The data of sendto *)
LEMMA DataMem ==
    ASSUME MInv, NEW t \in Apps, DataCopied(t)
    PROVE  MemInv' /\ MemoryCounted'
<1> DEFINE j == [job[t] EXCEPT !.pc = "out", !.data = TRUE]
<1>0. job[t].pc = "data" /\ so' = so /\ udb' = udb /\ wire' = wire /\ lost' = lost
  BY DEF DataCopied
<1>1. /\ t \in Tasks /\ t # Rx /\ JobShape(job[t]) /\ MemJob(t, job[t]) /\ PoolsTyped
      /\ so = [so EXCEPT ![job[t].s] = so[job[t].s]] /\ job[t].pc # "idle"
  BY <1>0, MemInCall
<1>2. ~job[t].data /\ job[t].call = "sendto"
  BY <1>0, <1>1 DEF MemJob
<1>3. CASE Return(t) /\ free' = Freed(NameOf(t))
  <2>1. NameOf(t) \cup DataOf(t) = NameOf(t)
    BY <1>2 DEF DataOf
  <2> QED BY <1>0, <1>1, <1>3, <2>1, MemGivenUp
<1>4. CASE /\ free' = [free EXCEPT !.drv_m1buf = @ - 1]
           /\ job' = [job EXCEPT ![t].pc = "out", ![t].data = TRUE]
  <2>1. job' = [job EXCEPT ![t] = j]
    <3>1. job = [u \in Tasks |-> job[u]]
      BY DEF MInv, IInv, Shape
    <3> QED BY <3>1, <1>1, <1>4 DEF JobShape, Idle
  <2>2. /\ j.s = job[t].s /\ j.call = job[t].call /\ j.nam = job[t].nam /\ j.data = TRUE
        /\ j.to = job[t].to /\ j.pc = "out"
    BY <1>1 DEF JobShape, Idle
  <2> HIDE DEF j
  <2>3. MemJob(t, j)
    BY <1>0, <1>1, <1>2, <2>2 DEF MemJob
  <2>4. PoolsTyped'
    BY <1>0, <1>1, <1>4, PoolNames DEF PoolsTyped
  <2>5. ASSUME NEW p \in DOMAIN Pools
        PROVE  free'[p] + lost'[p] + DriverHas(wire', p) + TaskHas(t, j, p)
               = free[p] + lost[p] + DriverHas(wire, p) + TaskHas(t, job[t], p)
    <3>1. TaskHas(t, j, p) = TaskHas(t, job[t], p) + (IF p = "drv_m1buf" THEN 1 ELSE 0)
      BY <1>1, <1>2, <2>2 DEF TaskHas, HoldsBlock
    <3>2. free'[p] = free[p] - (IF p = "drv_m1buf" THEN 1 ELSE 0) /\ lost'[p] = lost[p]
      BY <1>0, <1>1, <1>4 DEF PoolsTyped
    <3>3. DriverHas(wire', p) = DriverHas(wire, p) /\ DriverHas(wire, p) \in Int
      BY <1>0, <1>1 DEF DriverHas, PoolsTyped
    <3>4. free[p] \in Int /\ lost[p] \in Int /\ TaskHas(t, job[t], p) \in Int
      BY <1>1 DEF PoolsTyped, TaskHas
    <3> QED BY <3>1, <3>2, <3>3, <3>4
  <2> DEFINE x == so[job[t].s]
  <2>6. so' = [so EXCEPT ![job[t].s] = x] /\ x.open = so[job[t].s].open /\ x.q = so[job[t].s].q
    BY <1>0, <1>1
  <2> HIDE DEF x
  <2>7. Settled(t, j)
    BY <2>5 DEF Settled
  <2> QED BY <1>0, <1>1, <2>1, <2>2, <2>3, <2>4, <2>6, <2>7, MemGoOn
<1> QED
  BY <1>3, <1>4 DEF DataCopied

(* The checks of udp_output *)
LEMMA OutputMem ==
    ASSUME MInv, NEW t \in Apps, udp_output(t, job[t].s)
    PROVE  MemInv' /\ MemoryCounted'
<1> DEFINE s == job[t].s
           j == [job[t] EXCEPT !.pc = IF job[t].nam THEN "spl" ELSE "hdr",
                               !.saved = so[s].laddr]
<1>0. job[t].pc = "out" /\ so' = so /\ udb' = udb /\ wire' = wire /\ lost' = lost
  BY DEF udp_output
<1>1. /\ t \in Tasks /\ t # Rx /\ JobShape(job[t]) /\ MemJob(t, job[t])
      /\ so = [so EXCEPT ![s] = so[s]] /\ job[t].pc # "idle"
  BY <1>0, MemInCall
<1>2. job[t].data /\ job[t].call = "sendto"
  BY <1>0, <1>1 DEF MemJob
<1>3. CASE Return(t) /\ free' = Freed(NameOf(t) \cup DataOf(t))
  BY <1>0, <1>1, <1>3, MemGivenUp
<1>4. CASE /\ job' = [job EXCEPT ![t].pc = IF job[t].nam THEN "spl" ELSE "hdr",
                                 ![t].saved = so[s].laddr]
           /\ free' = free
  <2>1. job' = [job EXCEPT ![t] = j]
    <3>1. job = [u \in Tasks |-> job[u]]
      BY DEF MInv, IInv, Shape
    <3> QED BY <3>1, <1>1, <1>4 DEF JobShape, Idle
  <2>2. /\ j.s = job[t].s /\ j.call = job[t].call /\ j.nam = job[t].nam /\ j.data = job[t].data
        /\ j.to = job[t].to /\ j.pc \in {"spl", "hdr"}
    BY <1>1 DEF JobShape, Idle
  <2> HIDE DEF j
  <2>3. MemJob(t, j)
    BY <1>0, <1>1, <1>2, <2>2 DEF MemJob
  <2> DEFINE x == so[s]
  <2>6. so' = [so EXCEPT ![job[t].s] = x] /\ x.open = so[job[t].s].open /\ x.q = so[job[t].s].q
    BY <1>0, <1>1
  <2> HIDE DEF x
  <2> QED BY <1>0, <1>1, <1>4, <2>1, <2>2, <2>3, <2>6, MemSame
<1> QED
  BY <1>3, <1>4 DEF udp_output

(* What happens to the addresses of a socket leaves its blocks alone.      *)
LEMMA BindBlocks ==
    ASSUME NEW s \in Sockets, SocketShape(so[s]), NEW laddr, NEW lport,
           NEW x, x = in_pcbbind(s, laddr, lport)
    PROVE  x.open = so[s].open /\ x.q = so[s].q
<1>1. \/ x = so[s]
      \/ x = [so[s] EXCEPT !.laddr = laddr, !.lport = lport]
      \/ x = [so[s] EXCEPT !.laddr = laddr, !.lport = EphemeralPort(laddr)]
  BY DEF in_pcbbind
<1> QED
  BY <1>1 DEF SocketShape, Closed

LEMMA ConnectBlocks ==
    ASSUME NEW y, SocketShape(y), NEW faddr, NEW x, x = in_pcbconnect(y, faddr)
    PROVE  x.open = y.open /\ x.q = y.q
<1> DEFINE p == IF y.laddr = AnyAddr /\ y.lport = 0 THEN EphemeralPort(AnyAddr) ELSE y.lport
           l == LocalAddr(y)
<1>1. x = [y EXCEPT !.lport = p, !.laddr = l, !.faddr = faddr]
  BY DEF in_pcbconnect
<1> HIDE DEF p, l
<1> QED
  BY <1>1 DEF SocketShape, Closed

LEMMA ReconnectBlocks ==
    ASSUME NEW s \in Sockets, SocketShape(so[s]), NEW faddr, NEW x, x = Connected(s, faddr)
    PROVE  x.open = so[s].open /\ x.q = so[s].q
<1> DEFINE d == Disconnected(so[s])
           c == in_pcbconnect(d, faddr)
<1>1. SocketShape(d) /\ d.open = so[s].open /\ d.q = so[s].q
  BY DEF Disconnected, SocketShape, Closed
<1> HIDE DEF d
<1>2. x = IF CannotConnect(s, d, faddr) THEN d ELSE [c EXCEPT !.conn = TRUE]
  BY DEF Connected, d
<1>3. SocketShape(c) /\ c.open = d.open /\ c.q = d.q
  BY <1>1, ConnectKeeps, ConnectBlocks
<1> HIDE DEF c
<1> QED
  BY <1>1, <1>2, <1>3 DEF SocketShape, Closed

(* The temporary connection *)
LEMMA SendConnectedMem ==
    ASSUME MInv, NEW t \in Apps, SendConnected(t, job[t].s)
    PROVE  MemInv' /\ MemoryCounted'
<1> DEFINE s == job[t].s
           j == [job[t] EXCEPT !.pc = "hdr"]
<1>0. /\ job[t].pc = "crit" /\ job[t].call = "sendto" /\ job[t].pc # "idle"
      /\ udb' = udb /\ wire' = wire /\ lost' = lost
  BY DEF SendConnected
<1>1. /\ t \in Tasks /\ t # Rx /\ JobShape(job[t]) /\ MemJob(t, job[t]) /\ SocketShape(so[s])
  BY <1>0, MemInCall
<1>2. CASE CannotConnect(s, so[s], job[t].to)
  <2>1. Return(t) /\ so' = so /\ free' = Freed(NameOf(t) \cup DataOf(t))
    BY <1>2 DEF SendConnected
  <2> QED BY <1>0, <2>1, MemGivenUp
<1>3. CASE ~CannotConnect(s, so[s], job[t].to)
  <2> DEFINE x == in_pcbconnect(so[s], job[t].to)
  <2>1. so' = [so EXCEPT ![job[t].s] = x] /\ free' = free /\ job' = [job EXCEPT ![t].pc = "hdr"]
    BY <1>3 DEF SendConnected, Stay
  <2>2. x.open = so[job[t].s].open /\ x.q = so[job[t].s].q
    BY <1>1, ConnectBlocks
  <2> HIDE DEF x
  <2>3. job' = [job EXCEPT ![t] = j]
    <3>1. job = [u \in Tasks |-> job[u]]
      BY DEF MInv, IInv, Shape
    <3> QED BY <3>1, <2>1, <1>1 DEF JobShape, Idle
  <2>4. /\ j.s = job[t].s /\ j.call = job[t].call /\ j.nam = job[t].nam /\ j.data = job[t].data
        /\ j.to = job[t].to /\ j.pc = "hdr"
    BY <1>1 DEF JobShape, Idle
  <2> HIDE DEF j
  <2>5. MemJob(t, j)
    BY <1>0, <1>1, <2>4 DEF MemJob
  <2> QED BY <1>0, <2>1, <2>2, <2>3, <2>4, <2>5, MemSame
<1> QED
  BY <1>2, <1>3

(* What Restored does to a socket leaves its blocks alone.                 *)
LEMMA RestoredBlocks ==
    ASSUME MInv, NEW t \in Apps, job[t].pc # "idle",
           so' = IF job[t].nam THEN Restored(t, job[t].s) ELSE so
    PROVE  \E x : /\ so' = [so EXCEPT ![job[t].s] = x]
                  /\ x.open = so[job[t].s].open /\ x.q = so[job[t].s].q
<1> DEFINE s == job[t].s
           x == [so[s] EXCEPT !.laddr = job[t].saved, !.faddr = AnyAddr]
<1>1. s \in Sockets /\ SocketShape(so[s]) /\ so = [so EXCEPT ![s] = so[s]]
  BY MemInCall
<1>2. so = [y \in Sockets |-> so[y]]
  BY DEF MInv, IInv, Shape
<1>3. CASE job[t].nam
  <2>1. so' = [so EXCEPT ![job[t].s] = x]
    BY <1>1, <1>2, <1>3 DEF Restored, SocketShape, Closed
  <2>2. x.open = so[s].open /\ x.q = so[s].q
    BY <1>1 DEF SocketShape, Closed
  <2> HIDE DEF x
  <2> QED BY <2>1, <2>2
<1>4. CASE ~job[t].nam
  BY <1>1, <1>4
<1> QED
  BY <1>3, <1>4

(* The end of udp_output *)
LEMMA SentMem ==
    ASSUME MInv, NEW t \in Apps, Sent(t, job[t].s)
    PROVE  MemInv' /\ MemoryCounted'
<1>0. /\ job[t].pc = "sent" /\ job[t].pc # "idle" /\ Return(t) /\ free' = Freed(NameOf(t))
      /\ udb' = udb /\ wire' = wire /\ lost' = lost
      /\ so' = IF job[t].nam THEN Restored(t, job[t].s) ELSE so
  BY DEF Sent
<1>1. MemJob(t, job[t])
  BY <1>0, MemInCall
<1>2. NameOf(t) \cup DataOf(t) = NameOf(t)
  BY <1>0, <1>1 DEF DataOf, MemJob
<1>3. PICK x : /\ so' = [so EXCEPT ![job[t].s] = x]
               /\ x.open = so[job[t].s].open /\ x.q = so[job[t].s].q
  BY <1>0, RestoredBlocks
<1> QED
  BY <1>0, <1>2, <1>3, MemReturn

(* The header: no block for it, or the packet goes to ip_output            *)
LEMMA HeaderMem ==
    ASSUME MInv, NEW t \in Apps, Header(t, job[t].s)
    PROVE  MemInv' /\ MemoryCounted'
<1> DEFINE s == job[t].s
           j == [job[t] EXCEPT !.pc = "sent", !.data = FALSE]
<1>0. job[t].pc = "hdr" /\ udb' = udb /\ job[t].pc # "idle"
  BY DEF Header
<1>1. /\ t \in Tasks /\ t # Rx /\ JobShape(job[t]) /\ MemJob(t, job[t]) /\ PoolsTyped
      /\ so = [so EXCEPT ![s] = so[s]]
  BY <1>0, MemInCall
<1>2. CASE HeaderFails(t, s)
  <2>1. /\ Return(t) /\ wire' = wire /\ free' = free
        /\ lost' = [p \in DOMAIN lost |-> IF p \in NameOf(t) \cup DataOf(t)
                                          THEN lost[p] + 1 ELSE lost[p]]
        /\ so' = IF job[t].nam THEN Restored(t, job[t].s) ELSE so
    BY <1>2 DEF HeaderFails
  <2>2. PICK x : /\ so' = [so EXCEPT ![job[t].s] = x]
                 /\ x.open = so[job[t].s].open /\ x.q = so[job[t].s].q
    BY <1>0, <2>1, RestoredBlocks
  <2> QED BY <1>0, <2>1, <2>2, MemReturn
<1>3. CASE HeaderSent(t)
  <2>1. so' = so /\ lost' = lost /\ job' = [job EXCEPT ![t].pc = "sent", ![t].data = FALSE]
    BY <1>3 DEF HeaderSent
  <2>2. job' = [job EXCEPT ![t] = j]
    <3>1. job = [u \in Tasks |-> job[u]]
      BY DEF MInv, IInv, Shape
    <3> QED BY <3>1, <2>1, <1>1 DEF JobShape, Idle
  <2>3. /\ j.s = job[t].s /\ j.nam = job[t].nam /\ j.call = job[t].call
        /\ j.pc = "sent" /\ j.to = job[t].to /\ j.data = FALSE
    BY <1>0, <1>1 DEF JobShape, Idle
  <2> HIDE DEF j
  <2>4. MemJob(t, j) /\ job[t].data
    BY <1>0, <1>1, <2>3 DEF MemJob
  <2>5. \A p \in DOMAIN Pools :
           TaskHas(t, job[t], p) = TaskHas(t, j, p) + (IF p = "drv_m1buf" THEN 1 ELSE 0)
    BY <1>1, <2>3, <2>4 DEF TaskHas, HoldsBlock
  <2>6. /\ PoolsTyped'
        /\ \A p \in DOMAIN Pools :
              free'[p] + DriverHas(wire', p)
              = free[p] + DriverHas(wire, p) + (IF p = "drv_m1buf" THEN 1 ELSE 0)
    <3>1. CASE wire' = wire + 1 /\ free' = [free EXCEPT !.drv_lobuf = @ - 1]
      BY <3>1, <2>1, <1>1, PoolNames DEF PoolsTyped, DriverHas
    <3>2. CASE wire' = wire /\ free' = Freed(DataOf(t))
      BY <3>2, <2>1, <2>4, <1>1, PoolNames DEF PoolsTyped, DriverHas, Freed, DataOf
    <3> QED BY <3>1, <3>2, <1>3 DEF HeaderSent
  <2>7. ASSUME NEW p \in DOMAIN Pools
        PROVE  free'[p] + lost'[p] + DriverHas(wire', p) + TaskHas(t, j, p)
               = free[p] + lost[p] + DriverHas(wire, p) + TaskHas(t, job[t], p)
    <3> DEFINE a == free'[p]
               b == DriverHas(wire', p)
               c == TaskHas(t, j, p)
               d == free[p]
               e == DriverHas(wire, p)
               f == TaskHas(t, job[t], p)
               g == lost[p]
               h == IF p = "drv_m1buf" THEN 1 ELSE 0
    <3>1. /\ a \in Int /\ d \in Int /\ g \in Int /\ b \in Int /\ e \in Int
      BY <1>1, <2>6 DEF PoolsTyped, DriverHas
    <3>2. c \in Int /\ f \in Int /\ h \in Int
      BY DEF TaskHas
    <3>3. f = c + h /\ a + b = d + e + h /\ lost'[p] = g
      BY <2>1, <2>5, <2>6
    <3>4. a + g + b + c = d + g + e + f
      <4> HIDE DEF a, b, c, d, e, f, g, h
      <4> QED BY <3>1, <3>2, <3>3
    <3> QED BY <3>3, <3>4
  <2> DEFINE x == so[s]
  <2>8. so' = [so EXCEPT ![job[t].s] = x] /\ x.open = so[job[t].s].open /\ x.q = so[job[t].s].q
    BY <2>1, <1>1
  <2> HIDE DEF x
  <2>9. Settled(t, j)
    BY <2>7 DEF Settled
  <2> QED BY <1>0, <2>2, <2>3, <2>4, <2>6, <2>8, <2>9, MemGoOn
<1> QED
  BY <1>2, <1>3 DEF Header

(* An element put before a list *)
LEMMA ListsCons ==
    ASSUME NEW U, NEW seq \in Seq(U), NEW S, Lists(seq, S), NEW e \in U, e \notin S
    PROVE  <<e>> \o seq \in Seq(U) /\ Lists(<<e>> \o seq, S \cup {e})
<1> DEFINE r == <<e>> \o seq
<1>0. Len(seq) \in Nat
  BY LenProperties
<1>1. /\ r \in Seq(U) /\ Len(r) = Len(seq) + 1 /\ r[1] = e
      /\ \A i \in 2 .. Len(seq) + 1 : r[i] = seq[i - 1]
  BY <1>0
<1>2. /\ \A i \in 1 .. Len(seq) : seq[i] \in S
      /\ \A x \in S : \E i \in 1 .. Len(seq) : seq[i] = x
      /\ \A i, k \in 1 .. Len(seq) : seq[i] = seq[k] => i = k
  BY ListsElements
<1> HIDE DEF r
<1>3. \A i \in 1 .. Len(r) : r[i] \in S \cup {e}
  <2> SUFFICES ASSUME NEW i \in 1 .. Len(r), i # 1 PROVE r[i] \in S
    BY <1>1
  <2>1. i - 1 \in 1 .. Len(seq) /\ r[i] = seq[i - 1]
    BY <1>0, <1>1
  <2> QED BY <2>1, <1>2
<1>4. \A x \in S \cup {e} : \E i \in 1 .. Len(r) : r[i] = x
  <2> SUFFICES ASSUME NEW x \in S PROVE \E i \in 1 .. Len(r) : r[i] = x
    BY <1>0, <1>1
  <2>1. PICK i \in 1 .. Len(seq) : seq[i] = x
    BY <1>2
  <2>2. i + 1 \in 1 .. Len(r) /\ r[i + 1] = seq[i]
    BY <1>0, <1>1
  <2> QED BY <2>1, <2>2
<1>5. \A i, k \in 1 .. Len(r) : r[i] = r[k] => i = k
  <2> SUFFICES ASSUME NEW i \in 1 .. Len(r), NEW k \in 1 .. Len(r), r[i] = r[k] PROVE i = k
    OBVIOUS
  <2>1. i # 1 => i - 1 \in 1 .. Len(seq) /\ r[i] = seq[i - 1] /\ r[i] # e
    BY <1>0, <1>1, <1>2
  <2>2. k # 1 => k - 1 \in 1 .. Len(seq) /\ r[k] = seq[k - 1] /\ r[k] # e
    BY <1>0, <1>1, <1>2
  <2> QED BY <2>1, <2>2, <1>0, <1>1, <1>2
<1>6. Lists(r, S \cup {e})
  BY <1>1, <1>3, <1>4, <1>5, ListsIntro
<1> QED
  BY <1>1, <1>6 DEF r

(* A socket without datagrams *)
LEMMA EmptyQueue ==
    ASSUME NEW x, x.open \in BOOLEAN, x.q = <<>>
    PROVE  MemSocket(x)
<1>1. RX_QUEUE_SIZE \in Nat
  BY SocketsAssumption
<1>2. <<>> \in Seq(Peers) /\ Len(<<>>) = 0
  OBVIOUS
<1>3. x.q \in Seq(Peers) /\ Len(x.q) = 0
  BY <1>2
<1> QED
  BY <1>1, <1>3 DEF MemSocket

(* The critical sections of socket, close, bind and connect                *)
LEMMA CriticalMem ==
    ASSUME MInv, NEW t \in Apps, CriticalSection(t, job[t].s)
    PROVE  MemInv' /\ MemoryCounted'
<1> DEFINE s == job[t].s
<1>0. /\ job[t].pc = "crit" /\ job[t].call # "sendto" /\ job[t].pc # "idle"
      /\ Return(t) /\ wire' = wire /\ lost' = lost
  BY DEF CriticalSection
<1>1. /\ t \in Tasks /\ t # Rx /\ s \in Sockets /\ Owner[s] = t /\ JobShape(job[t])
      /\ SocketShape(so[s]) /\ CallOK(t, job[t], so[s]) /\ MemJob(t, job[t])
      /\ MemSocket(so[s]) /\ so[s].open = (job[t].call # "socket")
      /\ so = [so EXCEPT ![s] = so[s]] /\ PoolsTyped
  BY <1>0, MemInCall
<1>2. ~job[t].data
  BY <1>0, <1>1 DEF MemJob
<1>3. job' = [job EXCEPT ![t] = Idle] /\ MemJob(t, Idle) /\ Idle.pc = "idle"
  BY <1>0, <1>1 DEF Return, MemJob, Idle
<1>4. /\ udb \in Seq(Sockets) /\ Lists(udb, OpenSockets)
  BY DEF MInv, MemInv
<1>5. ASSUME NEW p, ~job[t].nam
      PROVE  TaskHas(t, job[t], p) = 0 /\ TaskHas(t, Idle, p) = 0
  BY <1>1, <1>2, <1>5 DEF TaskHas, HoldsBlock, Idle
<1>6. ASSUME NEW p \in DOMAIN Pools
      PROVE  /\ DriverHas(wire', p) = DriverHas(wire, p) /\ DriverHas(wire, p) \in Int
             /\ free[p] \in Int /\ lost[p] \in Int /\ lost'[p] = lost[p]
  BY <1>0, <1>1 DEF DriverHas, PoolsTyped
<1>7. CASE job[t].call = "socket"
  <2>0. ~job[t].nam /\ so[s].open = FALSE /\ so[s].q = <<>>
    BY <1>1, <1>7 DEF MemJob, MemSocket
  <2>1. SocketMade(t, s)
    BY <1>7 DEF CriticalSection
  <2>2. CASE so' = so /\ udb' = udb /\ free' = free
    <3>1. Balanced(t, Idle, so[s], so[s])
      BY <2>0, <2>2, <1>0, <1>5 DEF Balanced
    <3>2. PoolsTyped'
      BY <2>2, <1>0, <1>1 DEF PoolsTyped
    <3> DEFINE x == so[s]
    <3>3. /\ ListRight(s, x) /\ so' = [so EXCEPT ![s] = x] /\ MemSocket(x)
          /\ Balanced(t, Idle, so[s], x)
      BY <2>2, <3>1, <1>1, SameList
    <3> HIDE DEF x, s
    <3> QED BY <3>2, <3>3, <1>1, <1>3, AppMem
  <2>3. CASE /\ so' = [so EXCEPT ![s] = [Closed EXCEPT !.open = TRUE]]
             /\ udb' = <<s>> \o udb
             /\ free' = [free EXCEPT !.m1buf = @ - 1, !.lobuf = @ - 1]
    <3> DEFINE x == [Closed EXCEPT !.open = TRUE]
    <3>1. x.open = TRUE /\ x.q = <<>> /\ x.open \in BOOLEAN
      BY DEF Closed
    <3>2. so' = [so EXCEPT ![s] = x]
      BY <2>3
    <3> HIDE DEF x
    <3>3. MemSocket(x)
      BY <3>1, EmptyQueue
    <3>4. PoolsTyped'
      BY <2>3, <1>0, <1>1, PoolNames DEF PoolsTyped
    <3>5. ListRight(s, x)
      <4>1. s \notin OpenSockets
        BY <2>0 DEF OpenSockets
      <4>2. udb' \in Seq(Sockets) /\ Lists(udb', OpenSockets \cup {s})
        BY <4>1, <2>3, <1>1, <1>4, ListsCons
      <4> QED BY <4>2, <3>1 DEF ListRight
    <3>6. Balanced(t, Idle, so[s], x)
      <4> SUFFICES ASSUME NEW p \in DOMAIN Pools
                   PROVE  free'[p] + lost'[p] + DriverHas(wire', p) + TaskHas(t, Idle, p)
                          + SocketHas(x, p)
                          = free[p] + lost[p] + DriverHas(wire, p) + TaskHas(t, job[t], p)
                            + SocketHas(so[s], p)
        BY DEF Balanced
      <4> DEFINE k == IF p \in {"m1buf", "lobuf"} THEN 1 ELSE 0
      <4>1. free'[p] = free[p] - k
        <5>1. free' = [free EXCEPT !["m1buf"] = free["m1buf"] - 1, !["lobuf"] = free["lobuf"] - 1]
          BY <2>3
        <5>2. free[p] \in Int /\ p \in DOMAIN free
          BY <1>1 DEF PoolsTyped
        <5>3. CASE p \in {"m1buf", "lobuf"}
          BY <5>1, <5>2, <5>3
        <5>4. CASE p \notin {"m1buf", "lobuf"}
          BY <5>1, <5>2, <5>4
        <5> QED BY <5>3, <5>4
      <4>2. SocketHas(x, p) = k /\ SocketHas(so[s], p) = 0
        BY <3>1, <2>0 DEF SocketHas
      <4>3. k \in Int
        OBVIOUS
      <4> HIDE DEF k
      <4> QED BY <4>1, <4>2, <4>3, <1>5, <1>6, <2>0
    <3> HIDE DEF s
    <3> QED BY <3>2, <3>3, <3>4, <3>5, <3>6, <1>1, <1>3, AppMem
  <2> QED BY <2>1, <2>2, <2>3 DEF SocketMade
<1>8. CASE job[t].call = "close"
  <2>0. ~job[t].nam /\ so[s].open = TRUE
    BY <1>1, <1>8 DEF MemJob
  <2>1. /\ so' = [so EXCEPT ![s] = Closed] /\ udb' = RemoveFirst(udb, s)
        /\ free' = [free EXCEPT !.m1buf = @ + 1, !.lobuf = @ + 1, !.hibuf = @ + Len(so[s].q)]
    BY <1>8 DEF CriticalSection, SocketClosed
  <2>2. Closed.open = FALSE /\ Closed.q = <<>> /\ Closed.open \in BOOLEAN
    BY DEF Closed
  <2>3. MemSocket(Closed)
    BY <2>2, EmptyQueue
  <2> DEFINE n == Len(so[s].q)
  <2>4. n \in Nat
    BY <1>1, LenProperties DEF MemSocket
  <2>5. /\ DOMAIN free' = DOMAIN Pools
        /\ \A p \in DOMAIN Pools :
              free'[p] = free[p] + (IF p \in {"m1buf", "lobuf"} THEN 1
                                    ELSE IF p = "hibuf" THEN n ELSE 0)
    <3>1. free' = [free EXCEPT !.m1buf = @ + 1, !.lobuf = @ + 1, !.hibuf = @ + n]
      BY <2>1
    <3> HIDE DEF n
    <3> QED BY <3>1, <2>4, <1>1, PoolNames DEF PoolsTyped
  <2>6. PoolsTyped'
    <3> HIDE DEF n
    <3> QED BY <2>4, <2>5, <1>0, <1>1 DEF PoolsTyped
  <2>7. ListRight(s, Closed)
    BY <2>1, <2>2, <1>4, ListsRemove DEF ListRight
  <2>8. Balanced(t, Idle, so[s], Closed)
    <3> SUFFICES ASSUME NEW p \in DOMAIN Pools
                 PROVE  free'[p] + lost'[p] + DriverHas(wire', p) + TaskHas(t, Idle, p)
                        + SocketHas(Closed, p)
                        = free[p] + lost[p] + DriverHas(wire, p) + TaskHas(t, job[t], p)
                          + SocketHas(so[s], p)
      BY DEF Balanced
    <3> DEFINE k == IF p \in {"m1buf", "lobuf"} THEN 1 ELSE IF p = "hibuf" THEN n ELSE 0
    <3>1. SocketHas(so[s], p) = k /\ SocketHas(Closed, p) = 0
      BY <2>0, <2>2 DEF SocketHas
    <3>2. k \in Int /\ free'[p] = free[p] + k
      BY <2>4, <2>5
    <3> HIDE DEF k
    <3> QED BY <3>1, <3>2, <1>5, <1>6, <2>0
  <2> HIDE DEF s, n
  <2> QED BY <2>1, <2>3, <2>6, <2>7, <2>8, <1>1, <1>3, AppMem
<1>9. ASSUME NEW x, so' = [so EXCEPT ![s] = x], x.open = so[s].open, x.q = so[s].q,
             free' = Freed(NameOf(t)), udb' = udb
      PROVE  MemInv' /\ MemoryCounted'
  <2>1. NameOf(t) \cup DataOf(t) = NameOf(t)
    BY <1>2 DEF DataOf
  <2> QED BY <2>1, <1>0, <1>9, MemReturn
<1>10. CASE job[t].call = "bind"
  <2> DEFINE x == in_pcbbind(s, job[t].to, job[t].port)
  <2>1. so' = [so EXCEPT ![s] = x] /\ free' = Freed(NameOf(t)) /\ udb' = udb
    BY <1>10 DEF CriticalSection, Readdressed
  <2>2. x.open = so[s].open /\ x.q = so[s].q
    BY <1>1, BindBlocks
  <2> HIDE DEF x, s
  <2> QED BY <2>1, <2>2, <1>9
<1>11. CASE job[t].call = "connect"
  <2> DEFINE x == Connected(s, job[t].to)
  <2>1. so' = [so EXCEPT ![s] = x] /\ free' = Freed(NameOf(t)) /\ udb' = udb
    BY <1>11 DEF CriticalSection, Readdressed
  <2>2. x.open = so[s].open /\ x.q = so[s].q
    BY <1>1, ReconnectBlocks
  <2> HIDE DEF x, s
  <2> QED BY <2>1, <2>2, <1>9
<1>12. job[t].call \in {"socket", "close", "bind", "connect"}
  BY <1>0, <1>1 DEF CallOK
<1> QED
  BY <1>7, <1>8, <1>10, <1>11, <1>12

(* udp_s_recvfrom *)
LEMMA ReceiveMem ==
    ASSUME MInv, NEW t \in Apps, udp_s_recvfrom(t, job[t].s)
    PROVE  MemInv' /\ MemoryCounted'
<1> DEFINE s == job[t].s
<1>0. /\ job[t].pc = "recv" /\ job[t].pc # "idle" /\ Return(t)
      /\ udb' = udb /\ wire' = wire /\ lost' = lost
  BY DEF udp_s_recvfrom
<1>1. /\ t \in Tasks /\ t # Rx /\ s \in Sockets /\ Owner[s] = t
      /\ SocketShape(so[s]) /\ MemJob(t, job[t]) /\ MemSocket(so[s])
      /\ so = [so EXCEPT ![s] = so[s]] /\ PoolsTyped
  BY <1>0, MemInCall
<1>2. ~job[t].data /\ ~job[t].nam
  BY <1>0, <1>1 DEF MemJob
<1>3. job' = [job EXCEPT ![t] = Idle] /\ MemJob(t, Idle) /\ Idle.pc = "idle"
  BY <1>0, <1>1 DEF Return, MemJob, Idle
<1>4. ASSUME NEW p PROVE  TaskHas(t, job[t], p) = 0 /\ TaskHas(t, Idle, p) = 0
  BY <1>1, <1>2 DEF TaskHas, HoldsBlock, Idle
<1>5. ASSUME NEW p \in DOMAIN Pools
      PROVE  /\ DriverHas(wire', p) = DriverHas(wire, p) /\ DriverHas(wire, p) \in Int
             /\ free[p] \in Int /\ lost[p] \in Int /\ lost'[p] = lost[p]
  BY <1>0, <1>1 DEF DriverHas, PoolsTyped
<1>6. CASE so' = so /\ free' = free
  <2>1. Balanced(t, Idle, so[s], so[s])
    BY <1>6, <1>0, <1>4 DEF Balanced
  <2>2. PoolsTyped'
    BY <1>6, <1>0, <1>1 DEF PoolsTyped
  <2> DEFINE x == so[s]
  <2>3. /\ ListRight(s, x) /\ so' = [so EXCEPT ![s] = x] /\ MemSocket(x)
        /\ Balanced(t, Idle, so[s], x)
    BY <1>6, <2>1, <1>0, <1>1, SameList
  <2> HIDE DEF x, s
  <2> QED BY <2>2, <2>3, <1>1, <1>3, AppMem
<1>7. CASE /\ so[s].q # <<>> /\ so' = [so EXCEPT ![s].q = Tail(@)]
           /\ free' = Freed({"hibuf"})
  <2> DEFINE x == [so[s] EXCEPT !.q = Tail(@)]
  <2>1. x.open = so[s].open /\ x.q = Tail(so[s].q)
    BY <1>1 DEF SocketShape, Closed
  <2>2. so' = [so EXCEPT ![s] = x]
    <3>1. so = [y \in Sockets |-> so[y]]
      BY DEF MInv, IInv, Shape
    <3> QED BY <3>1, <1>1, <1>7
  <2> HIDE DEF x
  <2>3. Tail(so[s].q) \in Seq(Peers) /\ Len(Tail(so[s].q)) = Len(so[s].q) - 1
        /\ Len(so[s].q) \in Nat
    BY <1>1, <1>7, HeadTailProperties, LenProperties DEF MemSocket
  <2>4. MemSocket(x) /\ ListRight(s, x)
    <3>1. MemSocket(x)
      <4>1. x.q \in Seq(Peers) /\ Len(x.q) = Len(so[s].q) - 1
        BY <2>1, <2>3
      <4>2. RX_QUEUE_SIZE \in Nat
        BY SocketsAssumption
      <4>3. /\ so[s].open \in BOOLEAN /\ Len(so[s].q) <= RX_QUEUE_SIZE
            /\ ~so[s].open => so[s].q = <<>>
        BY <1>1 DEF MemSocket
      <4>4. Len(x.q) <= RX_QUEUE_SIZE
        BY <4>1, <4>2, <4>3, <2>3
      <4>5. x.open \in BOOLEAN /\ x.open
        BY <4>3, <2>1, <1>7
      <4> QED BY <4>1, <4>4, <4>5 DEF MemSocket
    <3> QED BY <3>1, <2>1, <1>0, <1>1, SameList
  <2>5. PoolsTyped' /\ \A p \in DOMAIN Pools : free'[p] = free[p] + (IF p = "hibuf" THEN 1 ELSE 0)
    BY <1>7, <1>0, <1>1, PoolNames DEF PoolsTyped, Freed
  <2>6. Balanced(t, Idle, so[s], x)
    <3> SUFFICES ASSUME NEW p \in DOMAIN Pools
                 PROVE  free'[p] + lost'[p] + DriverHas(wire', p) + TaskHas(t, Idle, p)
                        + SocketHas(x, p)
                        = free[p] + lost[p] + DriverHas(wire, p) + TaskHas(t, job[t], p)
                          + SocketHas(so[s], p)
      BY DEF Balanced
    <3> DEFINE k == IF p = "hibuf" THEN 1 ELSE 0
    <3>1. SocketHas(x, p) = SocketHas(so[s], p) - k /\ SocketHas(so[s], p) \in Int
      <4>1. CASE p = "hibuf"
        <5>1. SocketHas(x, p) = Len(Tail(so[s].q)) /\ SocketHas(so[s], p) = Len(so[s].q)
          BY <4>1, <2>1 DEF SocketHas
        <5> QED BY <4>1, <5>1, <2>3
      <4>2. CASE p # "hibuf"
        <5>1. SocketHas(x, p) = SocketHas(so[s], p) /\ SocketHas(so[s], p) \in {0, 1}
          BY <4>2, <2>1 DEF SocketHas
        <5> QED BY <4>2, <5>1
      <4> QED BY <4>1, <4>2
    <3>2. k \in Int /\ free'[p] = free[p] + k
      BY <2>5
    <3> HIDE DEF k
    <3> QED BY <3>1, <3>2, <1>4, <1>5
  <2> HIDE DEF s
  <2> QED BY <2>2, <2>4, <2>5, <2>6, <1>1, <1>3, AppMem
<1> QED
  BY <1>6, <1>7 DEF udp_s_recvfrom

(* A new call, or an option of a socket *)
LEMMA CallMem ==
    ASSUME MInv, NEW s \in Sockets, NEW r \in Requests(s), Call(Owner[s], s, r)
    PROVE  MemInv' /\ MemoryCounted'
<1> DEFINE t == Owner[s]
<1>0. /\ job[t].pc = "idle" /\ udb' = udb /\ wire' = wire /\ lost' = lost
      /\ IF r.call \in Options THEN OptionSet(s, r) ELSE CallMade(t, s, r)
  BY DEF Call
<1>1. /\ t \in Apps /\ t \in Tasks /\ t # Rx /\ JobShape(job[t]) /\ SocketShape(so[s])
      /\ so = [y \in Sockets |-> so[y]] /\ job = [u \in Tasks |-> job[u]]
      /\ MemJob(t, job[t]) /\ MemSocket(so[s]) /\ PoolsTyped
  BY TheTasks DEF MInv, IInv, Shape, MemInv, PoolsTyped
<1>2. ~job[t].nam /\ ~job[t].data
  BY <1>0, <1>1 DEF MemJob
<1> HIDE DEF t
<1>3. Owner[s] = t
  BY DEF t
<1>4. CASE r.call \in Options
  <2>0. OptionSet(s, r) /\ job' = job /\ free' = free
    BY <1>0, <1>4 DEF OptionSet
  <2>1. job' = [job EXCEPT ![t] = job[t]]
    BY <2>0, <1>1
  <2>2. PICK x : so' = [so EXCEPT ![s] = x] /\ x.open = so[s].open /\ x.q = so[s].q
    <3> DEFINE n == [so[s] EXCEPT !.nbio = ~@]
               m == [so[s] EXCEPT !.timed = ~@]
               p == [so[s] EXCEPT !.reuse = ~@]
    <3>1. /\ n.open = so[s].open /\ n.q = so[s].q /\ m.open = so[s].open /\ m.q = so[s].q
          /\ p.open = so[s].open /\ p.q = so[s].q
      BY <1>1 DEF SocketShape, Closed
    <3>2. CASE r.call = "_FIONBIO"
      <4>1. so' = [so EXCEPT ![s].nbio = ~@]
        BY <2>0, <3>2 DEF OptionSet
      <4>2. so' = [so EXCEPT ![s] = n]
        BY <4>1, <1>1
      <4> HIDE DEF n
      <4> QED BY <4>2, <3>1
    <3>3. CASE r.call = "SO_RCVTIMEO"
      <4>1. so' = [so EXCEPT ![s].timed = ~@]
        BY <2>0, <3>3 DEF OptionSet
      <4>2. so' = [so EXCEPT ![s] = m]
        BY <4>1, <1>1
      <4> HIDE DEF m
      <4> QED BY <4>2, <3>1
    <3>4. CASE r.call = "SO_REUSEPORT"
      <4>1. so' = [so EXCEPT ![s].reuse = ~@]
        BY <2>0, <3>4 DEF OptionSet
      <4>2. so' = [so EXCEPT ![s] = p]
        BY <4>1, <1>1
      <4> HIDE DEF p
      <4> QED BY <4>2, <3>1
    <3> QED BY <3>2, <3>3, <3>4, <1>4 DEF Options
  <2>3. MemSocket(x) /\ ListRight(s, x)
    BY <2>2, <1>0, <1>1, SameList DEF MemSocket
  <2>4. PoolsTyped'
    BY <2>0, <1>0, <1>1 DEF PoolsTyped
  <2>5. Balanced(t, job[t], so[s], x)
    <3>1. \A p : SocketHas(x, p) = SocketHas(so[s], p)
      BY <2>2 DEF SocketHas
    <3> QED BY <3>1, <2>0, <1>0 DEF Balanced
  <2> DEFINE j == job[t]
  <2>6. job' = [job EXCEPT ![t] = j] /\ j.pc = "idle" /\ MemJob(t, j) /\ Balanced(t, j, so[s], x)
    BY <2>1, <2>5, <1>0, <1>1 DEF t
  <2> HIDE DEF j
  <2> QED BY <2>2, <2>3, <2>4, <2>6, <1>1, <1>3, AppMem
<1>5. CASE r.call \notin Options
  <2> DEFINE j == [Idle EXCEPT !.pc = FirstPc(r), !.call = r.call, !.s = s,
                               !.to = r.to, !.port = r.port, !.nam = HasName(r)]
  <2>0. /\ so' = so /\ job' = [job EXCEPT ![t] = j]
        /\ free' = IF HasName(r) THEN [free EXCEPT !.m1buf = @ - 1] ELSE free
    BY <1>0, <1>5 DEF CallMade
  <2>1. /\ j.pc = FirstPc(r) /\ j.call = r.call /\ j.s = s
        /\ j.to = r.to /\ j.nam = HasName(r) /\ j.data = FALSE
    BY DEF Idle
  <2>2. /\ r.call \in {"socket", "close", "bind", "connect", "sendto", "recvfrom"}
        /\ so[s].open = (r.call # "socket")
    <3>1. CASE so[s].open
      BY <3>1, <1>5 DEF Requests, Options
    <3>2. CASE ~so[s].open
      BY <3>2, <1>1 DEF Requests, MemSocket
    <3> QED BY <3>1, <3>2
  <2>3. /\ r.call \in {"socket", "close", "bind", "connect"} => FirstPc(r) = "spl"
        /\ r.call = "sendto" => FirstPc(r) = "data"
        /\ r.call = "recvfrom" => FirstPc(r) = "recv"
    BY DEF FirstPc
  <2>4. HasName(r) => r.call \in {"bind", "connect", "sendto"}
    BY DEF HasName
  <2> HIDE DEF j
  <2>5. MemJob(t, j)
    BY <2>1, <2>2, <2>3, <2>4, <1>1 DEF MemJob
  <2>6. /\ PoolsTyped'
        /\ \A p \in DOMAIN Pools :
              free'[p] = free[p] - (IF HasName(r) /\ p = "m1buf" THEN 1 ELSE 0)
    <3>1. CASE HasName(r)
      BY <3>1, <2>0, <1>0, <1>1, PoolNames DEF PoolsTyped
    <3>2. CASE ~HasName(r)
      BY <3>2, <2>0, <1>0, <1>1 DEF PoolsTyped
    <3> QED BY <3>1, <3>2
  <2>7. Balanced(t, j, so[s], so[s])
    <3> SUFFICES ASSUME NEW p \in DOMAIN Pools
                 PROVE  free'[p] + lost'[p] + DriverHas(wire', p) + TaskHas(t, j, p)
                        + SocketHas(so[s], p)
                        = free[p] + lost[p] + DriverHas(wire, p) + TaskHas(t, job[t], p)
                          + SocketHas(so[s], p)
      BY DEF Balanced
    <3> DEFINE k == IF HasName(r) /\ p = "m1buf" THEN 1 ELSE 0
    <3>1. TaskHas(t, j, p) = k /\ TaskHas(t, job[t], p) = 0
      BY <2>1, <1>1, <1>2 DEF TaskHas, HoldsBlock, t
    <3>2. k \in Int /\ free'[p] = free[p] - k /\ free[p] \in Int
      BY <2>6, <1>1 DEF PoolsTyped
    <3>3. /\ DriverHas(wire', p) = DriverHas(wire, p) /\ DriverHas(wire, p) \in Int
          /\ lost[p] \in Int /\ lost'[p] = lost[p]
      BY <1>0, <1>1 DEF DriverHas, PoolsTyped
    <3>4. SocketHas(so[s], p) \in Int
      BY <1>1, LenProperties DEF SocketHas, MemSocket
    <3> HIDE DEF k
    <3> QED BY <3>1, <3>2, <3>3, <3>4
  <2> DEFINE x == so[s]
  <2>8. /\ so' = [so EXCEPT ![s] = x] /\ MemSocket(x) /\ ListRight(s, x)
        /\ Balanced(t, j, so[s], x) /\ x.open = (j.call # "socket")
    BY <2>0, <2>1, <2>2, <2>7, <1>0, <1>1, SameList
  <2> HIDE DEF x
  <2> QED BY <2>0, <2>1, <2>5, <2>6, <2>8, <1>1, <1>3, AppMem
<1> QED
  BY <1>4, <1>5

-----------------------------------------------------------------------------
(* The receive task *)

(* in_pcblookup finds a socket or none.                                    *)
LEMMA LookupFinds ==
    ASSUME MInv, NEW tab, NEW faddr, NEW laddr, NEW lport, NEW wildcard
    PROVE  in_pcblookup(tab, faddr, laddr, lport, wildcard) \in Sockets \cup {None}
<1> DEFINE fit == {i \in DOMAIN udb :
                     /\ Fits(tab[udb[i]], faddr, laddr, lport)
                     /\ wildcard \/ Wildcards(tab[udb[i]], faddr, laddr) = 0}
           W(i) == Wildcards(tab[udb[i]], faddr, laddr)
           best == {i \in fit : \A k \in fit : ~Better(tab, udb[k], udb[i], faddr, laddr)}
           N == {n \in Nat : \E i \in fit : W(i) = n}
<1>1. udb \in Seq(Sockets) /\ DOMAIN udb = 1 .. Len(udb) /\ Len(udb) \in Nat
  BY LenProperties DEF MInv, MemInv
<1>2. in_pcblookup(tab, faddr, laddr, lport, wildcard) = IF fit = {} THEN None ELSE udb[Min(best)]
  BY DEF in_pcblookup, BestOf
<1>3. fit \subseteq 1 .. Len(udb)
  BY <1>1
<1>4. \A i : W(i) \in Nat
  BY DEF Wildcards, Differ
<1>5. best = {i \in fit : \A k \in fit : ~(W(k) < W(i))}
  BY DEF Better
<1> HIDE DEF fit, W, best
<1>6. ASSUME fit # {} PROVE udb[Min(best)] \in Sockets
  <2>1. N # {} /\ N \subseteq Nat
    BY <1>4, <1>6
  <2>2. PICK n \in N : \A m \in N : n <= m
    <3> HIDE DEF N
    <3> QED BY <2>1, SmallestNat
  <2>3. PICK i \in fit : W(i) = n
    BY <2>2
  <2>4. ASSUME NEW k \in fit PROVE ~(W(k) < W(i))
    <3>1. W(k) \in N
      BY <1>4
    <3> QED BY <3>1, <2>2, <2>3, <1>4
  <2>5. best # {} /\ best \subseteq 1 .. Len(udb) /\ best \subseteq Nat
    <3> HIDE DEF N
    <3>1. i \in best
      BY <2>4, <1>5
    <3>2. best \subseteq fit
      BY <1>5
    <3> QED BY <3>1, <3>2, <1>3
  <2>6. \E m \in best : \A y \in best : m <= y
    BY <2>5, SmallestNat
  <2>7. Min(best) \in best
    BY <2>6 DEF Min
  <2> DEFINE m == Min(best)
  <2>8. m \in 1 .. Len(udb)
    BY <2>5, <2>7
  <2> HIDE DEF m
  <2>9. udb[m] \in Sockets
    BY <2>8, <1>1
  <2> QED BY <2>9 DEF m
<1> QED
  BY <1>2, <1>6

(* A step of the receive task opens and closes no socket.                  *)
LEMMA RxMem ==
    ASSUME MInv, NEW j, job' = [job EXCEPT ![Rx] = j], MemJob(Rx, j), udb' = udb, PoolsTyped',
           \A y \in Sockets : MemSocket(so'[y]) /\ so'[y].open = so[y].open
    PROVE  MemInv'
<1>1. job'[Rx] = j /\ \A u \in Tasks \ {Rx} : job'[u] = job[u]
  BY TheTasks DEF MInv, IInv, Shape
<1>2. \A u \in Tasks : MemJob(u, job'[u])
  BY <1>1 DEF MInv, MemInv
<1>3. ASSUME NEW u \in Apps, job'[u].pc # "idle"
      PROVE  so'[job'[u].s].open = (job'[u].call # "socket")
  <2>1. job'[u] = job[u]
    BY <1>1, TheTasks
  <2>2. job[u].s \in Sockets
    BY <1>3, <2>1 DEF MInv, IInv, CallOK
  <2>3. so[job[u].s].open = (job[u].call # "socket")
    BY <1>3, <2>1 DEF MInv, MemInv
  <2> QED BY <2>1, <2>2, <2>3
<1>4. OpenSockets' = OpenSockets
  BY DEF OpenSockets
<1>5. udb' \in Seq(Sockets) /\ Lists(udb', OpenSockets')
  BY <1>4 DEF MInv, MemInv
<1> QED
  BY <1>2, <1>3, <1>5 DEF MemInv, PoolsTyped

(* The receive task and the sockets that it leaves alone                   *)
LEMMA RxAloneMem ==
    ASSUME MInv, NEW j, job' = [job EXCEPT ![Rx] = j], MemJob(Rx, j), so' = so, udb' = udb,
           wire' = wire, lost' = lost, NEW d \in {-1, 0, 1},
           DOMAIN free' = DOMAIN free,
           \A p \in DOMAIN Pools : free'[p] = IF p = "hibuf" THEN free[p] + d ELSE free[p],
           d = TaskHas(Rx, job[Rx], "hibuf") - TaskHas(Rx, j, "hibuf")
    PROVE  MemInv' /\ MemoryCounted'
<1>1. PoolsTyped /\ MemJob(Rx, job[Rx]) /\ Rx \in Tasks
  BY TheTasks DEF MInv, MemInv, PoolsTyped
<1>2. PoolsTyped'
  BY <1>1 DEF PoolsTyped
<1>3. \A y \in Sockets : MemSocket(so'[y]) /\ so'[y].open = so[y].open
  BY DEF MInv, MemInv
<1>4. Balanced(Rx, j, Closed, Closed)
  <2> SUFFICES ASSUME NEW p \in DOMAIN Pools
               PROVE  free'[p] + lost'[p] + DriverHas(wire', p) + TaskHas(Rx, j, p)
                      + SocketHas(Closed, p)
                      = free[p] + lost[p] + DriverHas(wire, p) + TaskHas(Rx, job[Rx], p)
                        + SocketHas(Closed, p)
    BY DEF Balanced
  <2>1. SocketHas(Closed, p) = 0
    BY DEF SocketHas, Closed
  <2>2. /\ DriverHas(wire', p) = DriverHas(wire, p) /\ DriverHas(wire, p) \in Int
        /\ lost[p] \in Int /\ lost'[p] = lost[p] /\ free[p] \in Int
    BY <1>1 DEF DriverHas, PoolsTyped
  <2>3. TaskHas(Rx, j, p) \in Int /\ TaskHas(Rx, job[Rx], p) \in Int
    BY DEF TaskHas
  <2>4. p # "hibuf" => TaskHas(Rx, j, p) = 0 /\ TaskHas(Rx, job[Rx], p) = 0
    BY <1>1 DEF TaskHas, HoldsBlock, MemJob
  <2>5. d \in Int
    OBVIOUS
  <2>6. CASE p = "hibuf"
    BY <2>1, <2>2, <2>3, <2>5, <2>6
  <2>7. CASE p # "hibuf"
    BY <2>1, <2>2, <2>4, <2>7
  <2> QED BY <2>6, <2>7
<1>5. MemInv'
  BY <1>2, <1>3, RxMem
<1>6. MemoryCounted'
  BY <1>1, <1>2, <1>4, BalancedAlone
<1> QED
  BY <1>5, <1>6

LEMMA RxIdle == MemJob(Rx, Idle) /\ TaskHas(Rx, Idle, "hibuf") = 0
BY DEF MemJob, Idle, TaskHas, HoldsBlock

LEMMA RxBusy ==
    ASSUME NEW j, j.pc # "idle"
    PROVE  TaskHas(Rx, j, "hibuf") = 1
BY DEF TaskHas, HoldsBlock

LEMMA RxStepMem ==
    ASSUME MInv, RxStep
    PROVE  MemInv' /\ MemoryCounted'
<1>0. /\ Rx \in Tasks /\ so = [s \in Sockets |-> so[s]] /\ job = [u \in Tasks |-> job[u]]
      /\ \A s \in Sockets : SocketShape(so[s]) /\ MemSocket(so[s])
      /\ JobShape(job[Rx]) /\ MemJob(Rx, job[Rx]) /\ PoolsTyped
  BY TheTasks DEF MInv, IInv, Shape, MemInv, PoolsTyped
<1>1. CASE splnet(Rx)
  <2> DEFINE j == [job[Rx] EXCEPT !.pc = "crit"]
  <2>1. /\ so' = so /\ udb' = udb /\ wire' = wire /\ lost' = lost /\ free' = free
        /\ job[Rx].pc = "spl"
    BY <1>1 DEF splnet
  <2>2. job' = [job EXCEPT ![Rx] = j]
    BY <1>0, <1>1, LockTaken DEF MInv
  <2>3. /\ j.pc = "crit" /\ j.nam = job[Rx].nam /\ j.data = job[Rx].data /\ j.to = job[Rx].to
        /\ j.call = job[Rx].call
    BY <1>0 DEF JobShape, Idle
  <2> HIDE DEF j
  <2>4. MemJob(Rx, j)
    BY <2>1, <2>3, <1>0 DEF MemJob
  <2>5. 0 = TaskHas(Rx, job[Rx], "hibuf") - TaskHas(Rx, j, "hibuf")
    BY <2>1, <2>3, RxBusy
  <2>6. \A p \in DOMAIN Pools : free'[p] = IF p = "hibuf" THEN free[p] + 0 ELSE free[p]
    BY <2>1, <1>0 DEF PoolsTyped
  <2> DEFINE d == 0
  <2>7. /\ d \in {-1, 0, 1} /\ d = TaskHas(Rx, job[Rx], "hibuf") - TaskHas(Rx, j, "hibuf")
        /\ \A p \in DOMAIN Pools : free'[p] = IF p = "hibuf" THEN free[p] + d ELSE free[p]
    BY <2>5, <2>6
  <2> HIDE DEF d
  <2> QED BY <2>1, <2>2, <2>4, <2>7, RxAloneMem
<1>2. CASE udp_input
  <2>1. /\ job[Rx].pc = "crit" /\ so' = so /\ udb' = udb /\ wire' = wire /\ lost' = lost
    BY <1>2 DEF udp_input
  <2>2. CASE Return(Rx) /\ free' = Freed({"hibuf"})
    <3> DEFINE d == 1
    <3>1. job' = [job EXCEPT ![Rx] = Idle]
      BY <2>2 DEF Return
    <3>2. DOMAIN free' = DOMAIN free /\ d \in {-1, 0, 1}
          /\ \A p \in DOMAIN Pools : free'[p] = IF p = "hibuf" THEN free[p] + d ELSE free[p]
      BY <2>2, <1>0 DEF Freed, PoolsTyped
    <3>3. d = TaskHas(Rx, job[Rx], "hibuf") - TaskHas(Rx, Idle, "hibuf")
      BY <2>1, RxBusy, RxIdle
    <3> HIDE DEF d
    <3> QED BY <3>1, <3>2, <3>3, <2>1, RxIdle, RxAloneMem
  <2>3. CASE /\ Found(so) # None /\ free' = free
             /\ job' = [job EXCEPT ![Rx].pc = "deliver", ![Rx].s = Found(so)]
    <3> DEFINE f == Found(so)
               j == [job[Rx] EXCEPT !.pc = "deliver", !.s = f]
               d == 0
    <3>0. f \in Sockets
      BY <2>3, LookupFinds DEF Found
    <3>1. job' = [job EXCEPT ![Rx].pc = "deliver", ![Rx].s = f]
      BY <2>3
    <3> HIDE DEF f
    <3>2. job' = [job EXCEPT ![Rx] = j]
      BY <3>1, <1>0 DEF JobShape, Idle
    <3>3. /\ j.pc = "deliver" /\ j.nam = job[Rx].nam /\ j.data = job[Rx].data
          /\ j.to = job[Rx].to /\ j.call = job[Rx].call /\ j.s = f
      BY <1>0 DEF JobShape, Idle
    <3> HIDE DEF j
    <3>4. MemJob(Rx, j)
      BY <3>0, <3>3, <2>1, <1>0 DEF MemJob
    <3>5. d = TaskHas(Rx, job[Rx], "hibuf") - TaskHas(Rx, j, "hibuf") /\ d \in {-1, 0, 1}
      BY <3>3, <2>1, RxBusy
    <3>6. /\ DOMAIN free' = DOMAIN free
          /\ \A p \in DOMAIN Pools : free'[p] = IF p = "hibuf" THEN free[p] + d ELSE free[p]
      <4>1. free' = free
        BY <2>3
      <4> QED BY <4>1, <1>0 DEF PoolsTyped
    <3> HIDE DEF d
    <3> QED BY <3>2, <3>4, <3>5, <3>6, <2>1, RxAloneMem
  <2> QED BY <1>2, <2>2, <2>3 DEF udp_input
<1>3. CASE Deliver
  <2> DEFINE s == job[Rx].s
  <2>1. /\ job[Rx].pc = "deliver" /\ udb' = udb /\ wire' = wire /\ lost' = lost
        /\ job' = [job EXCEPT ![Rx] = Idle]
    BY <1>3 DEF Deliver, Return
  <2>2. s \in Sockets /\ job[Rx].to \in Peers
    BY <2>1, <1>0 DEF MemJob
  <2>3. CASE so' = so /\ free' = Freed({"hibuf"})
    <3> DEFINE d == 1
    <3>2. DOMAIN free' = DOMAIN free /\ d \in {-1, 0, 1}
          /\ \A p \in DOMAIN Pools : free'[p] = IF p = "hibuf" THEN free[p] + d ELSE free[p]
      BY <2>3, <1>0 DEF Freed, PoolsTyped
    <3>3. d = TaskHas(Rx, job[Rx], "hibuf") - TaskHas(Rx, Idle, "hibuf")
      BY <2>1, RxBusy, RxIdle
    <3> HIDE DEF d
    <3> QED BY <3>2, <3>3, <2>1, <2>3, RxIdle, RxAloneMem
  <2>4. CASE /\ so[s].open /\ Len(so[s].q) < RX_QUEUE_SIZE /\ free' = free
             /\ so' = [so EXCEPT ![s].q = Append(@, job[Rx].to)]
    <3> DEFINE x == [so[s] EXCEPT !.q = Append(@, job[Rx].to)]
    <3>1. so' = [so EXCEPT ![s] = x]
      BY <2>4, <1>0
    <3>2. x.open = so[s].open /\ x.q = Append(so[s].q, job[Rx].to)
      BY <2>2, <1>0 DEF SocketShape, Closed
    <3> HIDE DEF x
    <3>3. /\ x.q \in Seq(Peers) /\ Len(x.q) = Len(so[s].q) + 1 /\ Len(so[s].q) \in Nat
      BY <3>2, <2>2, <1>0, LenProperties, AppendProperties DEF MemSocket
    <3>4. MemSocket(x)
      <4>1. MemSocket(so[s]) /\ RX_QUEUE_SIZE \in Nat
        BY <2>2, <1>0, SocketsAssumption
      <4> QED BY <3>2, <3>3, <2>4, <4>1 DEF MemSocket
    <3>5. PoolsTyped'
      BY <2>1, <2>4, <1>0 DEF PoolsTyped
    <3>6. Balanced(Rx, Idle, so[s], x)
      <4> SUFFICES ASSUME NEW p \in DOMAIN Pools
                   PROVE  free'[p] + lost'[p] + DriverHas(wire', p) + TaskHas(Rx, Idle, p)
                          + SocketHas(x, p)
                          = free[p] + lost[p] + DriverHas(wire, p) + TaskHas(Rx, job[Rx], p)
                            + SocketHas(so[s], p)
        BY DEF Balanced
      <4> DEFINE k == IF p = "hibuf" THEN 1 ELSE 0
      <4>1. SocketHas(x, p) = SocketHas(so[s], p) + k /\ SocketHas(so[s], p) \in Int
        <5>1. CASE p = "hibuf"
          <6>1. SocketHas(x, p) = Len(x.q) /\ SocketHas(so[s], p) = Len(so[s].q)
            BY <5>1 DEF SocketHas
          <6> QED BY <5>1, <6>1, <3>3
        <5>2. CASE p # "hibuf"
          <6>1. SocketHas(x, p) = SocketHas(so[s], p) /\ SocketHas(so[s], p) \in {0, 1}
            BY <5>2, <3>2 DEF SocketHas
          <6> QED BY <5>2, <6>1
        <5> QED BY <5>1, <5>2
      <4>2. TaskHas(Rx, job[Rx], p) = k /\ TaskHas(Rx, Idle, p) = 0
        BY <2>1, <1>0 DEF TaskHas, HoldsBlock, MemJob, Idle
      <4>3. /\ DriverHas(wire', p) = DriverHas(wire, p) /\ DriverHas(wire, p) \in Int
            /\ lost[p] \in Int /\ lost'[p] = lost[p] /\ free[p] \in Int /\ free'[p] = free[p]
        BY <2>1, <2>4, <1>0 DEF DriverHas, PoolsTyped
      <4>4. k \in Int
        OBVIOUS
      <4> HIDE DEF k
      <4> QED BY <4>1, <4>2, <4>3, <4>4
    <3> HIDE DEF s
    <3>7. \A y \in Sockets : MemSocket(so'[y]) /\ so'[y].open = so[y].open
      BY <3>1, <3>2, <3>4, <1>0
    <3>8. MemInv'
      BY <3>5, <3>7, <2>1, RxIdle, RxMem
    <3>9. MemoryCounted'
      BY <3>1, <3>4, <3>5, <3>6, <2>1, <2>2, <1>0, BalancedStep
    <3> QED BY <3>8, <3>9
  <2> QED BY <1>3, <2>3, <2>4 DEF Deliver
<1> QED
  BY <1>1, <1>2, <1>3 DEF RxStep

(* A datagram comes up to udp_input. *)
LEMMA ArriveMem ==
    ASSUME MInv, NEW src \in Peers, NEW dst, NEW port, Arrive(src, dst, port)
    PROVE  MemInv' /\ MemoryCounted'
<1> DEFINE j == [Idle EXCEPT !.pc = "spl", !.call = "input", !.to = src,
                             !.saved = dst, !.port = port]
           d == -1
<1>0. PoolsTyped
  BY DEF MInv, MemInv, PoolsTyped
<1>1. /\ job[Rx].pc = "idle" /\ job' = [job EXCEPT ![Rx] = j] /\ so' = so /\ udb' = udb
      /\ wire' = wire /\ lost' = lost /\ free' = [free EXCEPT !.hibuf = @ - 1]
  BY DEF Arrive
<1>2. /\ j.pc = "spl" /\ j.call = "input" /\ j.to = src /\ j.nam = FALSE /\ j.data = FALSE
  BY DEF Idle
<1> HIDE DEF j
<1>3. MemJob(Rx, j)
  BY <1>2 DEF MemJob
<1>4. DOMAIN free' = DOMAIN free /\ d \in {-1, 0, 1}
      /\ \A p \in DOMAIN Pools : free'[p] = IF p = "hibuf" THEN free[p] + d ELSE free[p]
  BY <1>0, <1>1 DEF PoolsTyped
<1>5. d = TaskHas(Rx, job[Rx], "hibuf") - TaskHas(Rx, j, "hibuf")
  <2>1. TaskHas(Rx, job[Rx], "hibuf") = 0
    BY <1>1 DEF TaskHas, HoldsBlock
  <2>2. TaskHas(Rx, j, "hibuf") = 1
    BY <1>2, RxBusy
  <2> QED BY <2>1, <2>2
<1> HIDE DEF d
<1> QED
  BY <1>1, <1>3, <1>4, <1>5, RxAloneMem

(* The driver frees a chain: a block with the header, one with the data.   *)
LEMMA TransmittedMem ==
    ASSUME MInv, Transmitted
    PROVE  MemInv' /\ MemoryCounted'
<1>0. PoolsTyped /\ Rx \in Tasks /\ MemJob(Rx, job[Rx]) /\ job = [u \in Tasks |-> job[u]]
  BY TheTasks DEF MInv, MemInv, IInv, Shape, PoolsTyped
<1>1. /\ wire' = wire - 1 /\ free' = Freed({"drv_lobuf", "drv_m1buf"})
      /\ so' = so /\ udb' = udb /\ job' = job /\ lost' = lost
  BY DEF Transmitted
<1> DEFINE j == job[Rx]
<1>2. job' = [job EXCEPT ![Rx] = j] /\ MemJob(Rx, j)
  BY <1>0, <1>1
<1>3. PoolsTyped'
  BY <1>0, <1>1 DEF PoolsTyped, Freed
<1>4. Balanced(Rx, job[Rx], Closed, Closed)
  <2> SUFFICES ASSUME NEW p \in DOMAIN Pools
               PROVE  free'[p] + lost'[p] + DriverHas(wire', p) + TaskHas(Rx, job[Rx], p)
                      + SocketHas(Closed, p)
                      = free[p] + lost[p] + DriverHas(wire, p) + TaskHas(Rx, job[Rx], p)
                        + SocketHas(Closed, p)
    BY DEF Balanced
  <2>1. SocketHas(Closed, p) = 0
    BY DEF SocketHas, Closed
  <2>2. TaskHas(Rx, job[Rx], p) \in Int
    BY DEF TaskHas
  <2>3. /\ free[p] \in Int /\ lost[p] \in Int /\ lost'[p] = lost[p] /\ wire \in Int
        /\ free'[p] = IF p \in {"drv_lobuf", "drv_m1buf"} THEN free[p] + 1 ELSE free[p]
        /\ DriverHas(wire, p) = IF p \in {"drv_lobuf", "drv_m1buf"} THEN wire ELSE 0
        /\ DriverHas(wire', p) = IF p \in {"drv_lobuf", "drv_m1buf"} THEN wire - 1 ELSE 0
    BY <1>0, <1>1 DEF PoolsTyped, DriverHas, Freed
  <2>4. CASE p \in {"drv_lobuf", "drv_m1buf"}
    BY <2>1, <2>2, <2>3, <2>4
  <2>5. CASE p \notin {"drv_lobuf", "drv_m1buf"}
    BY <2>1, <2>2, <2>3, <2>5
  <2> QED BY <2>4, <2>5
<1>5. \A y \in Sockets : MemSocket(so'[y]) /\ so'[y].open = so[y].open
  BY <1>1 DEF MInv, MemInv
<1>6. Balanced(Rx, j, Closed, Closed)
  BY <1>4
<1> HIDE DEF j
<1>7. MemInv'
  BY <1>1, <1>2, <1>3, <1>5, RxMem
<1>8. MemoryCounted'
  BY <1>0, <1>1, <1>2, <1>3, <1>6, BalancedAlone
<1> QED
  BY <1>7, <1>8

-----------------------------------------------------------------------------
LEMMA InitMem == Init => MInv
<1> SUFFICES ASSUME Init PROVE MInv
  OBVIOUS
<1>1. /\ so = [s \in Sockets |-> Closed] /\ job = [t \in Tasks |-> Idle] /\ udb = <<>>
      /\ free = Pools /\ wire = 0 /\ lost = [p \in DOMAIN Pools |-> 0]
  BY DEF Init
<1>2. Closed.open = FALSE /\ Closed.q = <<>> /\ Closed.open \in BOOLEAN
  BY DEF Closed
<1>3. \A s \in Sockets : MemSocket(so[s])
  BY <1>1, <1>2, EmptyQueue
<1>4. \A t \in Tasks : MemJob(t, job[t]) /\ job[t].pc = "idle"
  BY <1>1 DEF MemJob, Idle
<1>5. OpenSockets = {}
  BY <1>1, <1>2 DEF OpenSockets
<1>6. udb \in Seq(Sockets) /\ Lists(udb, OpenSockets)
  BY <1>1, <1>5 DEF Lists, ToSet, IsInjective
<1>7. /\ DOMAIN free = DOMAIN Pools /\ DOMAIN lost = DOMAIN Pools /\ wire \in Int
      /\ \A p \in DOMAIN Pools : free[p] = Pools[p] /\ free[p] \in Int /\ lost[p] = 0
  BY <1>1, SocketsAssumption
<1>8. MemInv
  BY <1>3, <1>4, <1>6, <1>7, TheTasks DEF MemInv
<1>9. MemoryCounted
  <2> SUFFICES ASSUME NEW p \in DOMAIN Pools
               PROVE  free[p] + lost[p] + HeldByDriver(p) + HeldByTasks(p) + HeldBySockets(p)
                      = Pools[p]
    BY DEF MemoryCounted
  <2>1. HeldByDriver(p) = 0
    BY <1>1 DEF HeldByDriver
  <2>2. HeldByTasks(p) = 0
    <3>1. {t \in Tasks : HoldsBlock(t, job[t], p)} = {}
      BY <1>1 DEF HoldsBlock, Idle
    <3> QED BY <3>1, FS_EmptySet DEF HeldByTasks
  <2>3. HeldBySockets(p) = 0
    <3>1. {s \in Sockets : so[s].open} = {}
      BY <1>5 DEF OpenSockets
    <3>2. Queued = {}
      BY <1>1, <1>2 DEF Queued
    <3> QED BY <3>1, <3>2, FS_EmptySet DEF HeldBySockets
  <2> QED BY <2>1, <2>2, <2>3, <1>7
<1> QED
  BY <1>8, <1>9, InitHidden DEF MInv

LEMMA StepMem == MInv /\ [Next]_vars => MInv'
<1> SUFFICES ASSUME MInv, [Next]_vars PROVE MInv'
  OBVIOUS
<1>0. IInv'
  BY StepHidden DEF MInv
<1>1. CASE \E t \in Apps : Step(t)
  <2>1. PICK t \in Apps : Step(t)
    BY <1>1
  <2>2. CASE splnet(t) \/ DataCopied(t)
    BY <2>2, <1>0, SplMem, DataMem DEF MInv
  <2>3. CASE \/ CriticalSection(t, job[t].s) \/ udp_output(t, job[t].s)
             \/ SendConnected(t, job[t].s) \/ Header(t, job[t].s)
             \/ Sent(t, job[t].s) \/ udp_s_recvfrom(t, job[t].s)
    BY <2>3, <1>0, CriticalMem, OutputMem, SendConnectedMem, HeaderMem, SentMem, ReceiveMem
    DEF MInv
  <2> QED BY <2>1, <2>2, <2>3 DEF Step
<1>2. CASE RxStep
  BY <1>0, <1>2, RxStepMem DEF MInv
<1>3. CASE \E s \in Sockets : \E r \in Requests(s) : Call(Owner[s], s, r)
  BY <1>0, <1>3, CallMem DEF MInv
<1>4. CASE \E src \in Peers, dst \in {If, Bc}, port \in Ports : Arrive(src, dst, port)
  BY <1>0, <1>4, ArriveMem DEF MInv
<1>5. CASE Transmitted
  BY <1>0, <1>5, TransmittedMem DEF MInv
<1>6. CASE UNCHANGED vars
  <2>1. MemInv'
    BY <1>6 DEF MInv, MemInv, vars, OpenSockets
  <2>2. MemoryCounted'
    <3>1. so' = so /\ job' = job /\ free' = free /\ lost' = lost /\ wire' = wire
      BY <1>6 DEF vars
    <3>2. ASSUME NEW p
          PROVE  /\ HeldByDriver(p)' = HeldByDriver(p) /\ HeldByTasks(p)' = HeldByTasks(p)
                 /\ HeldBySockets(p)' = HeldBySockets(p)
      BY <3>1 DEF HeldByDriver, HeldByTasks, HoldsBlock, HeldBySockets, Queued
    <3> QED BY <3>1, <3>2 DEF MInv, MemoryCounted
  <2> QED BY <2>1, <2>2, <1>0 DEF MInv
<1> QED
  BY <1>1, <1>2, <1>3, <1>4, <1>5, <1>6 DEF Next

(* MemoryCounted of TNSockets for every number of sockets, tasks, blocks   *)
(* and calls: every block of the five pools is free, in a queue or a       *)
(* socket, with a task or the driver, or one of those that udp_output      *)
(* forgets when it gets no block for the header.                           *)
THEOREM MemoryStaysCounted == Spec => []MemoryCounted
<1>1. MInv => MemoryCounted
  BY DEF MInv
<1> QED
  BY InitMem, StepMem, <1>1, PTL DEF Spec
=============================================================================
