---------------------------- MODULE TNTasksProofs ----------------------------
(***************************************************************************)
(* The specification of the task services keeps the scheduler data sound,  *)
(* for any number of tasks and priorities, whatever interrupts come        *)
(* between a service and its context switch.                               *)
(*                                                                         *)
(* First, what the routines of tn_tasks.c preserve.  They are called one   *)
(* after the other on data that is not consistent in between: a task is    *)
(* first taken from its list, then its TCB is changed, then it is put into *)
(* another list.  Sound(s, {t}) is the consistency of everything but task  *)
(* t, which is in no list; Sound(s, {}) is consistency, and implies        *)
(* SchedOK.                                                                *)
(***************************************************************************)
EXTENDS TNTasks, TNListProofs

Runnables(s, X) == {u \in AllTasks \ X : s.state[u] = "runnable"}

Waiters(s, X) == {u \in AllTasks \ X : Waiting(s, u)}

Timed(s, X) == {u \in AllTasks \ X : s.tick[u] # TN_WAIT_INFINITE}

(* The tasks of R of a priority, the tasks of W that wait in a queue, the  *)
(* priorities with a ready task                                            *)
ReadyAt(s, R, p) == {u \in R : s.priority[u] = p}

In(s, W, q) == {u \in W : s.pwait[u] = q}

Bits(s) == {p \in Priorities : s.ready[p] # <<>>}

ReadyLists(s, R) == \A p \in Priorities : Lists(s.ready[p], ReadyAt(s, R, p))

(* Task n is the first one of the highest priority in the bitmap.          *)
First(s, n) ==
    /\ s.ready[s.priority[n]][1] = n
    /\ \A p \in s.bmp : s.priority[n] <= p

(* The ready lists, the bitmap and tn_next_task_to_run agree on the set R  *)
(* of tasks that are ready.                                                *)
ReadyFor(s, R) ==
    /\ ReadyLists(s, R)
    /\ s.bmp = Bits(s)
    /\ s.next \in R
    /\ First(s, s.next)

WaitsFor(s, W) == \A q \in WaitQueues : Lists(s.wait[q], In(s, W, q))

(* What the TCB of a task says of the lists the task is in                 *)
TcbOK(s, u) ==
    /\ s.tick[u] # TN_WAIT_INFINITE => Waiting(s, u)
    /\ s.state[u] = "runnable" => s.link[u] = "listed" /\ s.pwait[u] = NoQueue
    /\ Waiting(s, u) => s.link[u] # "stale"
    /\ Waiting(s, u) /\ s.reason[u] = "sleep" => s.pwait[u] = NoQueue

(* The priorities, and the two system tasks                                *)
SystemOK(s) ==
    /\ s.state[IdleTask] = "runnable"
    /\ s.priority[IdleTask] = TN_NUM_PRIORITY - 1
    /\ s.state[TimerTask] \in {"runnable", "wait"}
    /\ s.priority[TimerTask] = 0
    /\ s.tick[TimerTask] = TN_WAIT_INFINITE
    /\ \A u \in Tasks : s.priority[u] \in 1 .. TN_NUM_PRIORITY - 2

(* What is true of the waiting tasks that are not in X                     *)
Rest(s, X) ==
    /\ WaitsFor(s, Waiters(s, X))
    /\ Lists(s.timeouts, Timed(s, X))
    /\ \A u \in AllTasks \ X : TcbOK(s, u)
    /\ s.fault = FALSE
    /\ SystemOK(s)

Sound(s, X) ==
    /\ SchedType(s)
    /\ ReadyFor(s, Runnables(s, X))
    /\ Rest(s, X)

-----------------------------------------------------------------------------

(* Sound data satisfies what TNSched states of it.                         *)
LEMMA SoundIsOK ==
    ASSUME NEW s, Sound(s, {})
    PROVE  SchedType(s) /\ SchedOK(s)
<1> USE DEF Sound
<1>1. ReadyListsOK(s)
  <2> SUFFICES ASSUME NEW p \in Priorities
               PROVE  /\ IsInjective(s.ready[p])
                      /\ ToSet(s.ready[p]) =
                           {t \in AllTasks : s.state[t] = "runnable" /\ s.priority[t] = p}
    BY DEF ReadyListsOK
  <2>1. Lists(s.ready[p], {u \in Runnables(s, {}) : s.priority[u] = p})
    BY DEF ReadyFor, ReadyLists, ReadyAt
  <2> QED BY <2>1 DEF Lists, Runnables
<1>2. BitmapOK(s) /\ NextOK(s)
  BY DEF ReadyFor, First, Bits, BitmapOK, NextOK, Runnables
<1>3. WaitListsOK(s)
  <2> SUFFICES ASSUME NEW q \in WaitQueues
               PROVE  /\ IsInjective(s.wait[q])
                      /\ ToSet(s.wait[q]) =
                           {t \in AllTasks : Waiting(s, t) /\ s.pwait[t] = q}
    BY DEF WaitListsOK
  <2>1. Lists(s.wait[q], {u \in Waiters(s, {}) : s.pwait[u] = q})
    BY DEF Rest, WaitsFor, In
  <2> QED BY <2>1 DEF Lists, Waiters
<1>4. TimeoutListOK(s)
  BY DEF Rest, TcbOK, Lists, Timed, TimeoutListOK
<1>5. LinkOK(s)
  BY DEF Rest, TcbOK, LinkOK
<1> QED
  BY <1>1, <1>2, <1>3, <1>4, <1>5 DEF SchedOK

(* Types of the fields, and where they lead                                *)
LEMMA Fields ==
    ASSUME NEW s, SchedType(s), NEW t \in AllTasks
    PROVE  /\ s.priority[t] \in Priorities
           /\ s.next \in AllTasks /\ s.next # NoTask
           /\ s.curr \in AllTasks
           /\ s.timeouts \in Seq(AllTasks)
           /\ \A p \in Priorities : s.ready[p] \in Seq(AllTasks)
           /\ \A q \in WaitQueues : s.wait[q] \in Seq(AllTasks)
BY TasksAssumption DEF SchedType, AllTasks

(* The tasks and priorities of tn_start_system.                            *)
LEMMA SystemTasks ==
    /\ TimerTask \in AllTasks /\ IdleTask \in AllTasks
    /\ TimerTask # IdleTask
    /\ Tasks \subseteq AllTasks
    /\ TN_NUM_PRIORITY \in Nat /\ TN_NUM_PRIORITY >= 3
    /\ 0 \in Priorities /\ TN_NUM_PRIORITY - 1 \in Priorities
    /\ \A t \in AllTasks : base_priority(t) \in Priorities
    /\ \A t \in Tasks : base_priority(t) \in 1 .. TN_NUM_PRIORITY - 2
BY TasksAssumption, PriorityAssumption DEF AllTasks, Priorities, base_priority

-----------------------------------------------------------------------------
(* What the lists depend on                                                *)

(* Ready lists, bitmap and next task depend on these fields only.          *)
LEMMA SameReady ==
    ASSUME NEW s, NEW u, NEW R, ReadyFor(s, R),
           u.ready = s.ready, u.bmp = s.bmp, u.next = s.next,
           \A x \in R : u.priority[x] = s.priority[x]
    PROVE  ReadyFor(u, R)
<1>1. ASSUME NEW p \in Priorities PROVE ReadyAt(u, R, p) = ReadyAt(s, R, p)
  BY DEF ReadyAt
<1>2. ReadyLists(u, R)
  BY <1>1 DEF ReadyFor, ReadyLists
<1>3. Bits(u) = Bits(s)
  BY DEF Bits
<1> QED
  BY <1>2, <1>3 DEF ReadyFor, First

(* Wait queues and timeout list depend on these fields only.               *)
LEMMA SameWaits ==
    ASSUME NEW s, NEW u, NEW W, WaitsFor(s, W), u.wait = s.wait,
           \A x \in W : u.pwait[x] = s.pwait[x]
    PROVE  WaitsFor(u, W)
<1>1. ASSUME NEW q \in WaitQueues PROVE In(u, W, q) = In(s, W, q)
  BY DEF In
<1> QED
  BY <1>1 DEF WaitsFor

(* A change of the TCB of a task that is in no list changes nothing.       *)
LEMMA TcbChange ==
    ASSUME NEW s, NEW t \in AllTasks, NEW u, Sound(s, {t}), SchedType(u),
           t # IdleTask,
           u.ready = s.ready, u.bmp = s.bmp, u.next = s.next, u.wait = s.wait,
           u.timeouts = s.timeouts, u.fault = s.fault,
           \A x \in AllTasks \ {t} :
              /\ u.state[x] = s.state[x] /\ u.priority[x] = s.priority[x]
              /\ u.reason[x] = s.reason[x] /\ u.pwait[x] = s.pwait[x]
              /\ u.tick[x] = s.tick[x] /\ u.link[x] = s.link[x],
           t \in Tasks => u.priority[t] \in 1 .. TN_NUM_PRIORITY - 2,
           t = TimerTask => /\ u.priority[t] = 0 /\ u.tick[t] = TN_WAIT_INFINITE
                            /\ u.state[t] \in {"runnable", "wait"}
    PROVE  Sound(u, {t})
<1>1. /\ Runnables(u, {t}) = Runnables(s, {t})
      /\ Waiters(u, {t}) = Waiters(s, {t})
      /\ Timed(u, {t}) = Timed(s, {t})
  BY DEF Runnables, Waiters, Timed, Waiting
<1>2. ReadyFor(u, Runnables(u, {t}))
  <2>1. \A x \in Runnables(s, {t}) : u.priority[x] = s.priority[x]
    BY DEF Runnables
  <2> QED BY <2>1, <1>1, SameReady DEF Sound
<1>3. WaitsFor(u, Waiters(u, {t}))
  <2>1. \A x \in Waiters(s, {t}) : u.pwait[x] = s.pwait[x]
    BY DEF Waiters
  <2> QED BY <2>1, <1>1, SameWaits DEF Sound, Rest
<1>4. \A x \in AllTasks \ {t} : TcbOK(u, x)
  BY DEF Sound, Rest, TcbOK, Waiting
<1>5. SystemOK(u)
  BY SystemTasks DEF Sound, Rest, SystemOK
<1> QED
  BY <1>1, <1>2, <1>3, <1>4, <1>5 DEF Sound, Rest

-----------------------------------------------------------------------------
(* Taking a task from its list                                             *)

(* The fields queue_remove_entry, and task_to_non_runnable up to the       *)
(* bitmap and the next task, leave alone                                   *)
SameTcbs(s, u) ==
    /\ u.curr = s.curr /\ u.timeouts = s.timeouts /\ u.state = s.state
    /\ u.priority = s.priority /\ u.reason = s.reason /\ u.pwait = s.pwait
    /\ u.rc = s.rc /\ u.tick = s.tick /\ u.wakeup = s.wakeup
    /\ u.activate = s.activate /\ u.tslice = s.tslice

(* Only the list that task t was in has changed, and only by losing t.     *)
OthersKept(s, u, R, t) ==
    /\ \A x \in AllTasks \ {t} : u.link[x] = s.link[x]
    /\ \A p \in Priorities :
         /\ t \notin R \/ p # s.priority[t] => u.ready[p] = s.ready[p]
         /\ s.ready[p] # <<>> /\ s.ready[p][1] # t =>
              u.ready[p] # <<>> /\ u.ready[p][1] = s.ready[p][1]

OtherLinks(s, u, t) == \A x \in AllTasks \ {t} : u.link[x] = s.link[x]

(* What queue_remove_entry does to the fields of the scheduler.            *)
LEMMA RemoveEntry ==
    ASSUME NEW s, SchedType(s), NEW t \in AllTasks, s.link[t] # "stale",
           NEW R, ReadyLists(s, R), NEW W, WaitsFor(s, W),
           NEW u, u = queue_remove_entry(s, t)
    PROVE  /\ SchedType(u)
           /\ SameTcbs(s, u) /\ u.bmp = s.bmp /\ u.next = s.next
           /\ u.fault = s.fault
           /\ ReadyLists(u, R \ {t}) /\ WaitsFor(u, W \ {t})
           /\ OthersKept(s, u, R, t)
<1> DEFINE rd == [p \in Priorities |-> RemoveFirst(s.ready[p], t)]
           wt == [q \in WaitQueues |-> RemoveFirst(s.wait[q], t)]
           lk == [s.link EXCEPT ![t] = IF @ = "reset" THEN "reset" ELSE "stale"]
           ft == s.fault \/ s.link[t] = "stale"
<1>0. u = [s EXCEPT !.ready = rd, !.wait = wt, !.link = lk, !.fault = ft]
  BY DEF queue_remove_entry
<1>1. ASSUME NEW p \in Priorities
      PROVE  /\ rd[p] \in Seq(AllTasks)
             /\ Lists(rd[p], {x \in R : s.priority[x] = p} \ {t})
             /\ t \notin {x \in R : s.priority[x] = p} => rd[p] = s.ready[p]
             /\ s.ready[p] # <<>> /\ s.ready[p][1] # t =>
                  rd[p] # <<>> /\ rd[p][1] = s.ready[p][1]
  <2>1. s.ready[p] \in Seq(AllTasks)
    BY Fields
  <2> DEFINE S == {x \in R : s.priority[x] = p}
  <2>2. Lists(s.ready[p], S)
    BY DEF ReadyLists, ReadyAt
  <2> DEFINE r == RemoveFirst(s.ready[p], t)
  <2>3. rd[p] = r
    OBVIOUS
  <2> HIDE DEF S, rd
  <2>4. r \in Seq(AllTasks) /\ Lists(r, S \ {t})
    BY <2>1, <2>2, ListsRemove
  <2>5. t \notin S => r = s.ready[p]
    BY <2>1, <2>2, ListsRemove
  <2>6. s.ready[p] # <<>> /\ s.ready[p][1] # t => r # <<>> /\ r[1] = s.ready[p][1]
    BY <2>1, <2>2, ListsRemove
  <2> QED BY <2>3, <2>4, <2>5, <2>6 DEF S
<1>2. ASSUME NEW q \in WaitQueues
      PROVE  /\ wt[q] \in Seq(AllTasks)
             /\ Lists(wt[q], {x \in W : s.pwait[x] = q} \ {t})
  <2>1. s.wait[q] \in Seq(AllTasks)
    BY Fields
  <2>2. Lists(s.wait[q], {x \in W : s.pwait[x] = q})
    BY DEF WaitsFor, In
  <2> QED BY <2>1, <2>2, ListsRemove
<1>3. rd \in [Priorities -> Seq(AllTasks)] /\ wt \in [WaitQueues -> Seq(AllTasks)]
  BY <1>1, <1>2
<1>4. lk \in [AllTasks -> {"listed", "reset", "stale"}]
  BY DEF SchedType
<1>5. \A x \in AllTasks \ {t} : lk[x] = s.link[x]
  BY DEF SchedType
<1>7. ft = s.fault /\ ft \in BOOLEAN
  BY DEF SchedType
<1> HIDE DEF rd, wt, lk, ft
<1>6. /\ u.ready = rd /\ u.wait = wt /\ u.link = lk
      /\ u.fault = ft
      /\ u.bmp = s.bmp /\ u.next = s.next
  BY <1>0 DEF SchedType
<1>12. SameTcbs(s, u)
  BY <1>0 DEF SchedType, SameTcbs
<1>8. SchedType(u)
  BY <1>0, <1>3, <1>4, <1>7, ZenonT(30) DEF SchedType
<1>9. ReadyLists(u, R \ {t})
  <2> SUFFICES ASSUME NEW p \in Priorities
               PROVE  Lists(rd[p], ReadyAt(u, R \ {t}, p))
    BY <1>6 DEF ReadyLists
  <2>1. ReadyAt(u, R \ {t}, p) = {x \in R : s.priority[x] = p} \ {t}
    BY <1>12 DEF ReadyAt, SameTcbs
  <2> QED BY <2>1, <1>1
<1>10. WaitsFor(u, W \ {t})
  <2> SUFFICES ASSUME NEW q \in WaitQueues
               PROVE  Lists(wt[q], In(u, W \ {t}, q))
    BY <1>6 DEF WaitsFor
  <2>1. In(u, W \ {t}, q) = {x \in W : s.pwait[x] = q} \ {t}
    BY <1>12 DEF In, SameTcbs
  <2> QED BY <2>1, <1>2
<1>11. \A p \in Priorities :
         /\ t \notin R \/ p # s.priority[t] => u.ready[p] = s.ready[p]
         /\ s.ready[p] # <<>> /\ s.ready[p][1] # t =>
              u.ready[p] # <<>> /\ u.ready[p][1] = s.ready[p][1]
  <2> SUFFICES ASSUME NEW p \in Priorities
               PROVE  /\ t \notin R \/ p # s.priority[t] => rd[p] = s.ready[p]
                      /\ s.ready[p] # <<>> /\ s.ready[p][1] # t =>
                           rd[p] # <<>> /\ rd[p][1] = s.ready[p][1]
    BY <1>6
  <2>1. t \notin R \/ p # s.priority[t] => t \notin {x \in R : s.priority[x] = p}
    OBVIOUS
  <2> QED BY <2>1, <1>1
<1> QED
  BY <1>5, <1>6, <1>7, <1>8, <1>9, <1>10, <1>11, <1>12 DEF OthersKept

(* find_next_task_to_run finds the first task of the highest priority with *)
(* a ready task.                                                           *)
LEMMA FindNext ==
    ASSUME NEW s, NEW R, R \subseteq AllTasks, R # {},
           s.ready \in [Priorities -> Seq(AllTasks)],
           s.priority \in [AllTasks -> Priorities],
           ReadyLists(s, R), s.bmp = Bits(s),
           NEW n, n = Head(s.ready[Min(s.bmp)])
    PROVE  n \in R /\ First(s, n) /\ s.bmp # {}
<1>1. PICK x \in R : TRUE
  OBVIOUS
<1>2. s.priority[x] \in s.bmp
  <2>1. s.ready[s.priority[x]] \in Seq(AllTasks)
    OBVIOUS
  <2> DEFINE S == ReadyAt(s, R, s.priority[x])
  <2>2. Lists(s.ready[s.priority[x]], S)
    BY DEF ReadyLists
  <2>3. S # {}
    BY DEF ReadyAt
  <2> HIDE DEF S
  <2>4. s.ready[s.priority[x]] # <<>>
    BY <2>1, <2>2, <2>3, ListsEmpty
  <2> QED BY <2>4 DEF Bits
<1>3. \E m \in s.bmp : \A y \in s.bmp : m <= y
  <2>1. s.bmp \subseteq Nat /\ s.bmp # {}
    BY <1>2 DEF Priorities, Bits
  <2> QED BY <2>1, SmallestNat
<1>4. Min(s.bmp) \in s.bmp /\ \A y \in s.bmp : Min(s.bmp) <= y
  BY <1>3 DEF Min
<1> DEFINE m == Min(s.bmp)
           S == ReadyAt(s, R, m)
<1> HIDE DEF m, S
<1>5. m \in Priorities /\ s.ready[m] # <<>> /\ s.ready[m] \in Seq(AllTasks)
  BY <1>4 DEF m, Bits
<1>6. Lists(s.ready[m], S)
  BY <1>5 DEF ReadyLists, S
<1>7. s.ready[m][1] \in S /\ Head(s.ready[m]) = s.ready[m][1]
  BY <1>5, <1>6, ListsEmpty
<1>8. n = s.ready[m][1] /\ n \in R /\ s.priority[n] = m
  BY <1>7 DEF m, S, ReadyAt
<1> QED
  BY <1>2, <1>4, <1>8 DEF m, First

(* A new bitmap and a new next task *)
WithNext(v, b, n) == [v EXCEPT !.bmp = b, !.next = n]

(* Setting the bitmap and tn_next_task_to_run changes nothing else.        *)
LEMMA SetNext ==
    ASSUME NEW v, SchedType(v), NEW b \in SUBSET Priorities, NEW n \in AllTasks,
           NEW u, u = WithNext(v, b, n)
    PROVE  /\ SchedType(u) /\ SameTcbs(v, u)
           /\ u.bmp = b /\ u.next = n /\ u.ready = v.ready /\ u.wait = v.wait
           /\ u.link = v.link /\ u.fault = v.fault
<1>1. SchedType(u)
  BY DEF SchedType, WithNext
<1>2. SameTcbs(v, u)
  BY DEF SchedType, SameTcbs, WithNext
<1>3. /\ u.bmp = b /\ u.next = n /\ u.ready = v.ready /\ u.wait = v.wait
      /\ u.link = v.link /\ u.fault = v.fault
  BY DEF SchedType, WithNext
<1> QED
  BY <1>1, <1>2, <1>3

(* task_to_non_runnable takes one task from the ready tasks; the idle task *)
(* remains, so that there is a next task to run.                           *)
LEMMA NonRunnable ==
    ASSUME NEW s, SchedType(s), NEW t \in AllTasks, s.link[t] # "stale",
           NEW R, R \subseteq AllTasks, t \in R, IdleTask \in R, t # IdleTask,
           ReadyFor(s, R),
           NEW W, WaitsFor(s, W), t \notin W,
           NEW u, u = task_to_non_runnable(s, t)
    PROVE  /\ SchedType(u) /\ SameTcbs(s, u) /\ u.fault = s.fault
           /\ OtherLinks(s, u, t)
           /\ ReadyFor(u, R \ {t})
           /\ WaitsFor(u, W)
<1> DEFINE p == s.priority[t]
           v == queue_remove_entry(s, t)
           b == s.bmp \ {p}
           Q == R \ {t}
<1>0. u = IF v.ready[p] = <<>>
          THEN IF b = {} THEN [v EXCEPT !.bmp = b, !.next = NoTask]
               ELSE [[v EXCEPT !.bmp = b] EXCEPT
                       !.next = Head([v EXCEPT !.bmp = b].ready[Min([v EXCEPT !.bmp = b].bmp)])]
          ELSE IF v.next = t THEN [v EXCEPT !.next = Head(v.ready[p])]
          ELSE v
  BY DEF task_to_non_runnable, find_next_task_to_run
<1> HIDE DEF v
<1>1. /\ SchedType(v)
      /\ SameTcbs(s, v) /\ v.bmp = s.bmp /\ v.next = s.next
      /\ v.fault = s.fault
      /\ \A x \in AllTasks \ {t} : v.link[x] = s.link[x]
      /\ ReadyLists(v, R \ {t}) /\ WaitsFor(v, W \ {t})
      /\ \A r \in Priorities :
           /\ t \notin R \/ r # s.priority[t] => v.ready[r] = s.ready[r]
           /\ s.ready[r] # <<>> /\ s.ready[r][1] # t =>
                v.ready[r] # <<>> /\ v.ready[r][1] = s.ready[r][1]
  <2>1. ReadyLists(s, R)
    BY DEF ReadyFor
  <2>2. /\ SchedType(v)
        /\ SameTcbs(s, v) /\ v.bmp = s.bmp /\ v.next = s.next
        /\ v.fault = s.fault
        /\ ReadyLists(v, R \ {t}) /\ WaitsFor(v, W \ {t})
        /\ OthersKept(s, v, R, t)
    <3> HIDE DEF p, b, Q
    <3> QED BY <2>1, RemoveEntry DEF v
  <2> QED BY <2>2 DEF OthersKept
<1>2. W \ {t} = W
  OBVIOUS
<1>3. p \in Priorities /\ v.priority = s.priority
  BY <1>1, Fields DEF SameTcbs
<1>4. s.ready[p] # <<>>
  <2> DEFINE S == ReadyAt(s, R, p)
  <2>1. Lists(s.ready[p], S)
    BY <1>3 DEF ReadyFor, ReadyLists
  <2>2. S # {}
    BY DEF ReadyAt
  <2>3. s.ready[p] \in Seq(AllTasks)
    BY <1>3, Fields
  <2> HIDE DEF S, p
  <2> QED BY <2>1, <2>2, <2>3, ListsEmpty
<1>5. Bits(v) = IF v.ready[p] = <<>> THEN b ELSE s.bmp
  <2>1. s.bmp = {r \in Priorities : s.ready[r] # <<>>}
    BY DEF ReadyFor, Bits
  <2>2. \A r \in Priorities : r # p => v.ready[r] = s.ready[r]
    BY <1>1
  <2> HIDE DEF p
  <2> QED BY <2>1, <2>2, <1>3, <1>4 DEF Bits
<1>6. /\ v.ready \in [Priorities -> Seq(AllTasks)]
      /\ v.priority \in [AllTasks -> Priorities]
      /\ v.next \in AllTasks /\ v.bmp \in SUBSET Priorities
  BY <1>1 DEF SchedType
<1>7. Q # {} /\ Q \subseteq AllTasks
  OBVIOUS
<1>8. ReadyLists(v, Q)
  BY <1>1
<1> HIDE DEF Q, p
<1>9. CASE v.ready[p] = <<>>
  <2> DEFINE w == [v EXCEPT !.bmp = b]
             n == Head(w.ready[Min(w.bmp)])
  <2>1. b = Bits(v)
    BY <1>5, <1>9
  <2>2. w.ready = v.ready /\ w.priority = v.priority /\ w.bmp = b
    BY <1>1 DEF SchedType
  <2> HIDE DEF w, b
  <2>3. n \in Q /\ First(w, n) /\ b # {}
    <3>1. Bits(w) = b
      BY <2>1, <2>2 DEF Bits
    <3>2. ReadyLists(w, Q)
      <4>1. ASSUME NEW r \in Priorities PROVE ReadyAt(w, Q, r) = ReadyAt(v, Q, r)
        BY <2>2 DEF ReadyAt
      <4> QED BY <4>1, <2>2, <1>8 DEF ReadyLists
    <3>3. /\ w.ready \in [Priorities -> Seq(AllTasks)]
          /\ w.priority \in [AllTasks -> Priorities]
          /\ w.bmp = Bits(w)
      BY <3>1, <2>2, <1>6
    <3> QED BY <3>2, <3>3, <2>2, <1>7, FindNext
  <2>4. u = [w EXCEPT !.next = n]
    BY <1>0, <1>9, <2>3 DEF w
  <2> HIDE DEF n
  <2>5. u = WithNext(v, b, n)
    BY <2>4 DEF w, WithNext
  <2>6. b \in SUBSET Priorities /\ n \in AllTasks
    BY <2>1, <2>3, <1>7 DEF Bits
  <2>7. /\ SchedType(u) /\ SameTcbs(v, u)
        /\ u.bmp = b /\ u.next = n /\ u.ready = v.ready /\ u.wait = v.wait
        /\ u.link = v.link /\ u.fault = v.fault
    BY <2>5, <2>6, <1>1, SetNext
  <2>8. ReadyFor(u, Q)
    <3>1. ASSUME NEW r \in Priorities PROVE ReadyAt(u, Q, r) = ReadyAt(v, Q, r)
      BY <2>7 DEF ReadyAt, SameTcbs
    <3>2. ReadyLists(u, Q)
      BY <3>1, <2>7, <1>8 DEF ReadyLists
    <3>3. Bits(u) = b
      BY <2>1, <2>7 DEF Bits
    <3>4. First(u, n)
      BY <2>2, <2>3, <2>7 DEF First, SameTcbs
    <3> QED BY <3>2, <3>3, <3>4, <2>3, <2>7 DEF ReadyFor
  <2>9. WaitsFor(u, W)
    <3>1. u.pwait = v.pwait
      BY <2>7 DEF SameTcbs
    <3> QED BY <3>1, <2>7, <1>1, <1>2, SameWaits, ZenonT(30)
  <2> QED BY <2>7, <2>8, <2>9, <1>1 DEF SameTcbs, OtherLinks, Q
<1>10. CASE v.ready[p] # <<>> /\ v.next = t
  <2> DEFINE n == Head(v.ready[p])
             S == ReadyAt(v, Q, p)
  <2>1. Lists(v.ready[p], S)
    BY <1>3, <1>8 DEF ReadyLists
  <2>2. v.ready[p] \in Seq(AllTasks)
    BY <1>3, <1>6
  <2>3. n \in S /\ n = v.ready[p][1]
    <3> HIDE DEF S
    <3> QED BY <2>1, <2>2, <1>10, ListsEmpty
  <2>4. n \in Q /\ v.priority[n] = p /\ n \in AllTasks
    BY <2>3, <1>7 DEF ReadyAt
  <2> HIDE DEF n, S
  <2>5. u = WithNext(v, v.bmp, n)
    <3>1. u = [v EXCEPT !.next = n]
      BY <1>0, <1>10 DEF n
    <3> QED BY <3>1, <1>1 DEF SchedType, WithNext
  <2>6. /\ SchedType(u) /\ SameTcbs(v, u)
        /\ u.bmp = v.bmp /\ u.next = n /\ u.ready = v.ready /\ u.wait = v.wait
        /\ u.link = v.link /\ u.fault = v.fault
    <3>1. v.bmp \in SUBSET Priorities /\ SchedType(v)
      BY <1>1, <1>6
    <3> HIDE DEF b
    <3> QED BY <3>1, <2>4, <2>5, SetNext
  <2>7. \A r \in v.bmp : p <= r
    BY <1>1, <1>10 DEF ReadyFor, First, p
  <2>8. ReadyFor(u, Q)
    <3>1. ASSUME NEW r \in Priorities PROVE ReadyAt(u, Q, r) = ReadyAt(v, Q, r)
      BY <2>6 DEF ReadyAt, SameTcbs
    <3>2. ReadyLists(u, Q)
      BY <3>1, <2>6, <1>8 DEF ReadyLists
    <3>3. Bits(u) = u.bmp
      BY <1>1, <1>5, <1>10, <2>6 DEF Bits
    <3>4. First(u, n)
      BY <2>3, <2>4, <2>6, <2>7 DEF First, SameTcbs
    <3> QED BY <3>2, <3>3, <3>4, <2>4, <2>6 DEF ReadyFor
  <2>9. WaitsFor(u, W)
    <3>1. u.pwait = v.pwait
      BY <2>6 DEF SameTcbs
    <3> QED BY <3>1, <2>6, <1>1, <1>2, SameWaits, ZenonT(40)
  <2> QED BY <2>6, <2>8, <2>9, <1>1 DEF SameTcbs, OtherLinks, Q
<1>11. CASE v.ready[p] # <<>> /\ v.next # t
  <2>1. u = v
    BY <1>0, <1>11
  <2>2. v.next \in Q
    BY <1>1, <1>11 DEF ReadyFor, Q
  <2>3. v.ready[v.priority[v.next]][1] = v.next
    <3> DEFINE r == s.priority[s.next]
    <3>1. r \in Priorities /\ s.ready[r][1] = s.next /\ s.next \in R
      BY Fields DEF ReadyFor, First
    <3>2. s.ready[r] # <<>>
      <4> DEFINE S == ReadyAt(s, R, r)
      <4>1. Lists(s.ready[r], S)
        BY <3>1 DEF ReadyFor, ReadyLists
      <4>2. S # {} /\ s.ready[r] \in Seq(AllTasks)
        BY <3>1, Fields DEF ReadyAt
      <4> HIDE DEF S, r
      <4> QED BY <4>1, <4>2, ListsEmpty
    <3> HIDE DEF r
    <3>3. v.ready[r][1] = s.next
      BY <3>1, <3>2, <1>1, <1>11
    <3> QED BY <3>3, <1>1, <1>3 DEF r
  <2>4. ReadyFor(u, Q)
    <3>1. First(v, v.next)
      BY <2>3, <1>1, <1>3 DEF ReadyFor, First
    <3> QED BY <3>1, <2>1, <2>2, <1>1, <1>5, <1>8, <1>11 DEF ReadyFor
  <2> QED BY <2>1, <2>4, <1>1, <1>2 DEF OtherLinks, Q
<1> QED
  BY <1>9, <1>10, <1>11

-----------------------------------------------------------------------------
(* The routines applied to sound scheduler data.  A routine that takes a   *)
(* task from its list leads from Sound(s, {}) to Sound(u, {t}), one that   *)
(* puts the task back leads from there to Sound(u, {}).                    *)

(* u differs from s only in the TCB of task t, in what no list depends on, *)
(* and in which task runs.                                                 *)
SameLists(s, u) ==
    /\ u.ready = s.ready /\ u.bmp = s.bmp /\ u.next = s.next
    /\ u.wait = s.wait /\ u.timeouts = s.timeouts /\ u.fault = s.fault

SameFor(s, u, x) ==
    /\ u.state[x] = s.state[x] /\ u.priority[x] = s.priority[x]
    /\ u.reason[x] = s.reason[x] /\ u.pwait[x] = s.pwait[x]
    /\ u.tick[x] = s.tick[x] /\ u.link[x] = s.link[x]

SameOthers(s, u, t) == \A x \in AllTasks \ {t} : SameFor(s, u, x)

(* The part of the change of a routine that the invariants on the running  *)
(* task and on the created tasks depend on                                 *)
Only(s, u, t) ==
    /\ u.curr = s.curr
    /\ \A x \in AllTasks \ {t} : u.state[x] = s.state[x]

-----------------------------------------------------------------------------

(* A step that changes nothing the lists depend on keeps the data sound.   *)
LEMMA SoundSame ==
    ASSUME NEW s, NEW X, Sound(s, X), NEW u, SchedType(u), SameLists(s, u),
           \A x \in AllTasks : SameFor(s, u, x)
    PROVE  Sound(u, X)
<1>1. /\ Runnables(u, X) = Runnables(s, X)
      /\ Waiters(u, X) = Waiters(s, X)
      /\ Timed(u, X) = Timed(s, X)
  BY DEF Runnables, Waiters, Timed, Waiting, SameFor
<1>2. ReadyFor(u, Runnables(u, X))
  <2>1. \A x \in Runnables(s, X) : u.priority[x] = s.priority[x]
    BY DEF Runnables, SameFor
  <2> QED BY <2>1, <1>1, SameReady DEF Sound, SameLists
<1>3. WaitsFor(u, Waiters(u, X))
  <2>1. \A x \in Waiters(s, X) : u.pwait[x] = s.pwait[x]
    BY DEF Waiters, SameFor
  <2> QED BY <2>1, <1>1, SameWaits DEF Sound, Rest, SameLists
<1>4. \A x \in AllTasks \ X : TcbOK(u, x)
  BY DEF Sound, Rest, TcbOK, Waiting, SameFor
<1>5. SystemOK(u)
  BY SystemTasks DEF Sound, Rest, SystemOK, SameFor
<1> QED
  BY <1>1, <1>2, <1>3, <1>4, <1>5 DEF Sound, Rest, SameLists

(* A task that is in no list because it is dormant or suspended *)
LEMMA Exclude ==
    ASSUME NEW s, Sound(s, {}), NEW t \in AllTasks,
           s.state[t] \in {"dormant", "suspend"}
    PROVE  Sound(s, {t}) /\ s.tick[t] = TN_WAIT_INFINITE
<1>1. TcbOK(s, t)
  BY DEF Sound, Rest
<1>2. s.tick[t] = TN_WAIT_INFINITE
  BY <1>1 DEF TcbOK, Waiting
<1>3. /\ Runnables(s, {t}) = Runnables(s, {})
      /\ Waiters(s, {t}) = Waiters(s, {})
      /\ Timed(s, {t}) = Timed(s, {})
  BY <1>2 DEF Runnables, Waiters, Timed, Waiting
<1> QED
  BY <1>2, <1>3 DEF Sound, Rest

(* A dormant or suspended task that is sound except for its TCB is sound.  *)
LEMMA Include ==
    ASSUME NEW s, NEW t \in AllTasks, Sound(s, {t}),
           s.state[t] \in {"dormant", "suspend"}, s.tick[t] = TN_WAIT_INFINITE
    PROVE  Sound(s, {})
<1>1. /\ Runnables(s, {t}) = Runnables(s, {})
      /\ Waiters(s, {t}) = Waiters(s, {})
      /\ Timed(s, {t}) = Timed(s, {})
  BY DEF Runnables, Waiters, Timed, Waiting
<1>2. TcbOK(s, t)
  BY DEF TcbOK, Waiting
<1>3. \A x \in AllTasks \ {} : TcbOK(s, x)
  BY <1>2 DEF Sound, Rest
<1> QED
  BY <1>1, <1>3 DEF Sound, Rest

-----------------------------------------------------------------------------
(* Taking a task from its list                                             *)

(* task_to_non_runnable of a runnable task whose state may already have    *)
(* been changed (tn_task_suspend does so first)                            *)
LEMMA TakeReady ==
    ASSUME NEW s, Sound(s, {}), NEW t \in AllTasks, t # IdleTask,
           s.state[t] = "runnable",
           NEW v, SchedType(v), SameLists(s, v), SameOthers(s, v, t),
           v.priority[t] = s.priority[t], v.tick[t] = s.tick[t],
           v.link[t] = s.link[t],
           t = TimerTask => v.state[t] \in {"runnable", "wait"},
           NEW u, u = task_to_non_runnable(v, t)
    PROVE  Sound(u, {t}) /\ SameTcbs(v, u)
<1> DEFINE R == Runnables(s, {})
           W == Waiters(s, {})
<1>1. R \subseteq AllTasks /\ t \in R /\ IdleTask \in R /\ t \notin W
  BY SystemTasks DEF Runnables, Waiters, Waiting, Sound, Rest, SystemOK
<1>2. TcbOK(s, t)
  BY DEF Sound, Rest
<1>3. v.link[t] # "stale" /\ v.tick[t] = TN_WAIT_INFINITE
  BY <1>2 DEF TcbOK, Waiting
<1>4. ReadyFor(v, R)
  <2>1. \A x \in R : v.priority[x] = s.priority[x]
    BY DEF SameOthers, SameFor, Runnables
  <2> HIDE DEF R
  <2> QED BY <2>1, SameReady DEF Sound, SameLists, R
<1>5. WaitsFor(v, W)
  <2>1. \A x \in W : v.pwait[x] = s.pwait[x]
    BY <1>1 DEF SameOthers, SameFor, Waiters
  <2> HIDE DEF W
  <2> QED BY <2>1, SameWaits DEF Sound, Rest, SameLists, W
<1> HIDE DEF R, W
<1>6. /\ SchedType(u) /\ SameTcbs(v, u) /\ u.fault = v.fault
      /\ OtherLinks(v, u, t)
      /\ ReadyFor(u, R \ {t})
      /\ WaitsFor(u, W)
  BY <1>1, <1>3, <1>4, <1>5, NonRunnable
<1>7. \A x \in AllTasks \ {t} : SameFor(s, u, x)
  BY <1>6 DEF SameOthers, SameFor, SameTcbs, OtherLinks
<1>8. Runnables(u, {t}) = R \ {t}
  BY <1>7 DEF R, Runnables, SameFor
<1>9. Waiters(u, {t}) = W
  BY <1>1, <1>7 DEF W, Waiters, Waiting, SameFor
<1>10. Timed(u, {t}) = Timed(s, {})
  BY <1>3, <1>7 DEF Timed, SameFor
<1>11. u.timeouts = s.timeouts /\ u.fault = s.fault
  BY <1>6 DEF SameTcbs, SameLists
<1>12. \A x \in AllTasks \ {t} : TcbOK(u, x)
  BY <1>7 DEF Sound, Rest, TcbOK, Waiting, SameFor
<1>13. u.priority[t] = s.priority[t] /\ u.tick[t] = TN_WAIT_INFINITE
  BY <1>3, <1>6 DEF SameTcbs
<1>14. SystemOK(u)
  <2>1. t = TimerTask => u.state[t] \in {"runnable", "wait"}
    BY <1>6 DEF SameTcbs
  <2> QED BY <2>1, <1>7, <1>13, SystemTasks DEF Sound, Rest, SystemOK, SameFor
<1> QED
  BY <1>6, <1>8, <1>9, <1>10, <1>11, <1>12, <1>14 DEF Sound, Rest

-----------------------------------------------------------------------------
(* Putting a task into a list                                              *)

(* The fields task_to_runnable changes and leaves alone.                   *)
LEMMA RunnableFields ==
    ASSUME NEW s, SchedType(s), NEW t \in AllTasks,
           NEW u, u = task_to_runnable(s, t)
    PROVE  /\ SchedType(u)
           /\ u.ready = [s.ready EXCEPT ![s.priority[t]] = Append(@, t)]
           /\ u.bmp = s.bmp \cup {s.priority[t]}
           /\ u.next = IF s.priority[t] < s.priority[s.next] THEN t ELSE s.next
           /\ u.state = [s.state EXCEPT ![t] = "runnable"]
           /\ u.pwait = [s.pwait EXCEPT ![t] = NoQueue]
           /\ u.link = [s.link EXCEPT ![t] = "listed"]
           /\ u.curr = s.curr /\ u.wait = s.wait /\ u.timeouts = s.timeouts
           /\ u.priority = s.priority /\ u.reason = s.reason /\ u.tick = s.tick
           /\ u.fault = s.fault
<1> DEFINE p == s.priority[t]
<1>1. s.next # NoTask
  BY Fields
<1>2. p \in Priorities
  BY Fields
<1>3. Append(s.ready[p], t) \in Seq(AllTasks)
  BY <1>2, Fields, AppendProperties
<1>4. /\ u.bmp = s.bmp \cup {s.priority[t]}
      /\ u.next = IF s.priority[t] < s.priority[s.next] THEN t ELSE s.next
      /\ u.ready = [s.ready EXCEPT ![s.priority[t]] = Append(@, t)]
  BY <1>1 DEF SchedType, task_to_runnable
<1>5. /\ u.state = [s.state EXCEPT ![t] = "runnable"]
      /\ u.pwait = [s.pwait EXCEPT ![t] = NoQueue]
      /\ u.link = [s.link EXCEPT ![t] = "listed"]
  BY DEF SchedType, task_to_runnable
<1>6. /\ u.curr = s.curr /\ u.wait = s.wait /\ u.timeouts = s.timeouts
      /\ u.priority = s.priority /\ u.reason = s.reason /\ u.tick = s.tick
      /\ u.fault = s.fault
  BY DEF SchedType, task_to_runnable
<1>7. SchedType(u)
  BY <1>1, <1>2, <1>3, ZenonT(40) DEF SchedType, task_to_runnable, TaskStates
<1> QED
  BY <1>4, <1>5, <1>6, <1>7

(* A task with the highest priority so far becomes the next one to run,    *)
(* any other one is put behind those that are ready.                       *)
LEMMA PutReady ==
    ASSUME NEW s, NEW t \in AllTasks, Sound(s, {t}), s.tick[t] = TN_WAIT_INFINITE,
           NEW u, u = task_to_runnable(s, t)
    PROVE  Sound(u, {}) /\ Only(s, u, t) /\ u.state[t] = "runnable"
<1> DEFINE p == s.priority[t]
           n == s.next
           Q == Runnables(s, {t})
           R == Q \cup {t}
<1>0. SchedType(s) /\ ReadyFor(s, Q) /\ Rest(s, {t})
  BY DEF Sound
<1>1. /\ SchedType(u)
      /\ u.ready = [s.ready EXCEPT ![p] = Append(@, t)]
      /\ u.bmp = s.bmp \cup {p}
      /\ u.next = IF p < s.priority[n] THEN t ELSE n
      /\ u.state = [s.state EXCEPT ![t] = "runnable"]
      /\ u.pwait = [s.pwait EXCEPT ![t] = NoQueue]
      /\ u.link = [s.link EXCEPT ![t] = "listed"]
      /\ u.curr = s.curr /\ u.wait = s.wait /\ u.timeouts = s.timeouts
      /\ u.priority = s.priority /\ u.reason = s.reason /\ u.tick = s.tick
      /\ u.fault = s.fault
  BY <1>0, RunnableFields
<1>2. /\ p \in Priorities /\ n \in AllTasks /\ s.priority[n] \in Priorities
      /\ s.ready[p] \in Seq(AllTasks) /\ s.ready[s.priority[n]] \in Seq(AllTasks)
  BY <1>0, Fields
<1>3. DOMAIN s.ready = Priorities /\ DOMAIN s.state = AllTasks
      /\ DOMAIN s.pwait = AllTasks /\ DOMAIN s.link = AllTasks
  BY <1>0 DEF SchedType
<1>4. /\ u.ready[p] = Append(s.ready[p], t)
      /\ \A r \in Priorities : r # p => u.ready[r] = s.ready[r]
  BY <1>1, <1>2, <1>3
<1>5. t \notin Q /\ n \in Q
  BY <1>0 DEF Runnables, ReadyFor
<1>6. /\ Append(s.ready[p], t) # <<>>
      /\ Lists(Append(s.ready[p], t), ReadyAt(s, Q, p) \cup {t})
      /\ Append(s.ready[p], t)[1] = IF s.ready[p] = <<>> THEN t ELSE s.ready[p][1]
  <2>1. Lists(s.ready[p], ReadyAt(s, Q, p)) /\ t \notin ReadyAt(s, Q, p)
    BY <1>0, <1>2, <1>5 DEF ReadyFor, ReadyLists, ReadyAt
  <2> DEFINE S == ReadyAt(s, Q, p)
  <2> HIDE DEF Q, p, S
  <2>2. s.ready[p] \in Seq(AllTasks) /\ Lists(s.ready[p], S) /\ t \notin S
    BY <2>1, <1>2 DEF S
  <2>3. Append(s.ready[p], t) # <<>> /\ Lists(Append(s.ready[p], t), S \cup {t})
    BY <2>2, ListsAppend
  <2>4. Append(s.ready[p], t)[1] = IF s.ready[p] = <<>> THEN t ELSE s.ready[p][1]
    BY <2>2, ListsAppend
  <2> QED BY <2>3, <2>4 DEF S
<1>7. ReadyLists(u, R)
  <2> SUFFICES ASSUME NEW r \in Priorities PROVE Lists(u.ready[r], ReadyAt(u, R, r))
    BY DEF ReadyLists
  <2>1. CASE r = p
    <3>1. ReadyAt(u, R, r) = ReadyAt(s, Q, p) \cup {t}
      BY <2>1, <1>1 DEF ReadyAt
    <3> QED BY <3>1, <2>1, <1>4, <1>6
  <2>2. CASE r # p
    <3>1. ReadyAt(u, R, r) = ReadyAt(s, Q, r)
      BY <2>2, <1>1 DEF ReadyAt
    <3> QED BY <3>1, <2>2, <1>0, <1>4 DEF ReadyFor, ReadyLists
  <2> QED BY <2>1, <2>2
<1>8. u.bmp = Bits(u)
  <2>1. s.bmp = Bits(s)
    BY <1>0 DEF ReadyFor
  <2> HIDE DEF p
  <2> QED BY <2>1, <1>1, <1>2, <1>4, <1>6 DEF Bits
<1>9. /\ s.ready[s.priority[n]] # <<>> /\ s.ready[s.priority[n]][1] = n
      /\ \A r \in s.bmp : s.priority[n] <= r
      /\ s.bmp \subseteq Priorities /\ s.bmp = Bits(s)
  <2>1. Lists(s.ready[s.priority[n]], ReadyAt(s, Q, s.priority[n]))
    BY <1>0, <1>2 DEF ReadyFor, ReadyLists
  <2>2. ReadyAt(s, Q, s.priority[n]) # {}
    BY <1>5 DEF ReadyAt
  <2> HIDE DEF n, Q
  <2>3. s.ready[s.priority[n]] # <<>>
    BY <2>1, <2>2, <1>2, ListsEmpty
  <2> QED BY <2>3, <1>0 DEF ReadyFor, First, Bits, n
<1>10. First(u, u.next)
  <2> HIDE DEF p, n, Q, R
  <2>1. CASE p < s.priority[n]
    <3>1. s.ready[p] = <<>>
      BY <2>1, <1>2, <1>9 DEF Bits, Priorities
    <3>2. u.next = t /\ u.priority[u.next] = p
      BY <2>1, <1>1 DEF p
    <3>3. u.ready[p][1] = t
      BY <3>1, <1>4, <1>6
    <3>4. \A r \in u.bmp : p <= r
      BY <2>1, <1>1, <1>2, <1>9 DEF Priorities
    <3> QED BY <3>2, <3>3, <3>4 DEF First
  <2>2. CASE ~(p < s.priority[n])
    <3>1. u.next = n /\ u.priority[u.next] = s.priority[n]
      BY <2>2, <1>1
    <3>2. u.ready[s.priority[n]][1] = n
      BY <1>2, <1>4, <1>6, <1>9
    <3>3. \A r \in u.bmp : s.priority[n] <= r
      BY <2>2, <1>1, <1>2, <1>9 DEF Priorities
    <3> QED BY <3>1, <3>2, <3>3 DEF First
  <2> QED BY <2>1, <2>2
<1>11. ReadyFor(u, R)
  <2>1. u.next \in R
    BY <1>1, <1>5
  <2> HIDE DEF R
  <2> QED BY <2>1, <1>7, <1>8, <1>10 DEF ReadyFor
<1>12. /\ \A x \in AllTasks \ {t} : SameFor(s, u, x)
       /\ u.state[t] = "runnable" /\ u.pwait[t] = NoQueue /\ u.link[t] = "listed"
       /\ u.tick[t] = TN_WAIT_INFINITE
  BY <1>1, <1>3 DEF SameFor
<1>13. Runnables(u, {}) = R
  BY <1>12 DEF Runnables, SameFor
<1>14. Waiters(u, {}) = Waiters(s, {t}) /\ Timed(u, {}) = Timed(s, {t})
  BY <1>12 DEF Waiters, Timed, Waiting, SameFor
<1>15. WaitsFor(u, Waiters(u, {}))
  <2>1. \A x \in Waiters(s, {t}) : u.pwait[x] = s.pwait[x]
    BY <1>12 DEF Waiters, SameFor
  <2>2. WaitsFor(s, Waiters(s, {t})) /\ u.wait = s.wait
    BY <1>0, <1>1 DEF Rest
  <2> QED BY <2>1, <2>2, <1>14, SameWaits
<1>16. \A x \in AllTasks \ {} : TcbOK(u, x)
  BY <1>0, <1>12 DEF Rest, TcbOK, Waiting, SameFor
<1>17. SystemOK(u)
  BY <1>0, <1>1, <1>12, SystemTasks DEF Rest, SystemOK, SameFor
<1>18. Sound(u, {})
  <2> HIDE DEF R, Q, p, n
  <2> QED BY <1>0, <1>1, <1>11, <1>13, <1>14, <1>15, <1>16, <1>17 DEF Sound, Rest
<1> QED
  BY <1>1, <1>12, <1>18 DEF Only, SameFor

(* The wait reason of one task changes, not to "sleep".                    *)
LEMMA ReasonChange ==
    ASSUME NEW s, Sound(s, {}), NEW t \in AllTasks, NEW u, SchedType(u),
           SameLists(s, u), \A x \in AllTasks \ {t} : SameFor(s, u, x),
           u.state = s.state, u.priority = s.priority, u.pwait = s.pwait,
           u.tick = s.tick, u.link = s.link, u.reason[t] = "none"
    PROVE  Sound(u, {})
<1>1. /\ Runnables(u, {}) = Runnables(s, {})
      /\ Waiters(u, {}) = Waiters(s, {})
      /\ Timed(u, {}) = Timed(s, {})
  BY DEF Runnables, Waiters, Timed, Waiting
<1>2. ReadyFor(u, Runnables(u, {}))
  BY <1>1, SameReady DEF Sound, SameLists
<1>3. WaitsFor(u, Waiters(u, {}))
  BY <1>1, SameWaits DEF Sound, Rest, SameLists
<1>4. \A x \in AllTasks \ {} : TcbOK(u, x)
  BY DEF Sound, Rest, TcbOK, Waiting, SameFor
<1>5. SystemOK(u)
  BY DEF Sound, Rest, SystemOK
<1> QED
  BY <1>1, <1>2, <1>3, <1>4, <1>5 DEF Sound, Rest, SameLists

-----------------------------------------------------------------------------
(* The end of a wait                                                       *)

(* Task t leaves the timeout list and, if remove is set, its wait queue.   *)
OffTimeouts(s, a, t) ==
    [a EXCEPT !.timeouts = IF s.tick[t] = TN_WAIT_INFINITE THEN s.timeouts
                           ELSE RemoveFirst(s.timeouts, t)]

Unwait(s, t, remove) ==
    OffTimeouts(s, IF remove THEN queue_remove_entry(s, t) ELSE s, t)

(* The task is in no list any more: it is runnable or suspended.           *)
Completed(v, t, woken) ==
    LET b == [v EXCEPT !.pwait[t] = NoQueue, !.rc[t] = "NO_ERR",
                       !.tick[t] = TN_WAIT_INFINITE]
        c == IF woken THEN task_to_runnable(b, t) ELSE [b EXCEPT !.state[t] = "suspend"]
    IN  [c EXCEPT !.reason[t] = "none"]

(* The TCB fields of u are those of s, except for its links.               *)
SameTcbFields(s, u) ==
    /\ u.curr = s.curr /\ u.state = s.state
    /\ u.priority = s.priority /\ u.reason = s.reason /\ u.pwait = s.pwait
    /\ u.rc = s.rc /\ u.tick = s.tick /\ u.wakeup = s.wakeup
    /\ u.activate = s.activate /\ u.tslice = s.tslice

(* A waiting task that is out of its queue leaves the timeouts, too: a is  *)
(* the data without the task in the queue.                                 *)
LEMMA LeaveTimeouts ==
    ASSUME NEW s, Sound(s, {}), NEW t \in AllTasks, Waiting(s, t),
           NEW a, SchedType(a), SameTcbs(s, a), a.fault = s.fault, OtherLinks(s, a, t),
           ReadyFor(a, Runnables(s, {})), WaitsFor(a, Waiters(s, {}) \ {t}),
           NEW u, u = OffTimeouts(s, a, t)
    PROVE  Sound(u, {t}) /\ SameTcbFields(s, u)
<1> DEFINE R == Runnables(s, {})
           W == Waiters(s, {})
           tm == IF s.tick[t] = TN_WAIT_INFINITE THEN s.timeouts
                 ELSE RemoveFirst(s.timeouts, t)
<1>0. SchedType(s) /\ ReadyFor(s, R) /\ Rest(s, {}) /\ WaitsFor(s, W)
  BY DEF Sound, Rest
<1>1. TcbOK(s, t) /\ t \notin R /\ t \in W
  BY <1>0 DEF Rest, Runnables, Waiters, Waiting
<1>2. u = [a EXCEPT !.timeouts = tm]
  BY DEF OffTimeouts
<1> HIDE DEF R, W, tm
<1>3. /\ SchedType(a) /\ SameTcbs(s, a) /\ a.fault = s.fault
      /\ OtherLinks(s, a, t) /\ ReadyFor(a, R) /\ WaitsFor(a, W \ {t})
  BY DEF R, W
<1>4. tm \in Seq(AllTasks) /\ Lists(tm, Timed(s, {}) \ {t})
  <2>1. s.timeouts \in Seq(AllTasks)
    BY <1>0, Fields
  <2>2. Lists(s.timeouts, Timed(s, {}))
    BY <1>0 DEF Rest
  <2>3. CASE s.tick[t] = TN_WAIT_INFINITE
    <3>1. Timed(s, {}) \ {t} = Timed(s, {})
      BY <2>3 DEF Timed
    <3> QED BY <3>1, <2>1, <2>2, <2>3 DEF tm
  <2>4. CASE s.tick[t] # TN_WAIT_INFINITE
    <3>1. tm = RemoveFirst(s.timeouts, t)
      BY <2>4 DEF tm
    <3> QED BY <3>1, <2>1, <2>2, ListsRemove
  <2> QED BY <2>3, <2>4
<1>5. SchedType(u)
  BY <1>2, <1>3, <1>4 DEF SchedType
<1>6. /\ u.ready = a.ready /\ u.bmp = a.bmp /\ u.next = a.next
      /\ u.wait = a.wait /\ u.link = a.link /\ u.timeouts = tm
      /\ u.fault = a.fault
  BY <1>2, <1>3 DEF SchedType
<1>7. SameTcbFields(a, u)
  BY <1>2, <1>3 DEF SchedType, SameTcbFields
<1>8. SameTcbFields(s, u)
  BY <1>3, <1>7 DEF SameTcbs, SameTcbFields
<1>9. ReadyFor(u, R)
  <2>1. u.priority = a.priority
    BY <1>7 DEF SameTcbFields
  <2> QED BY <2>1, <1>3, <1>6, SameReady
<1>10. WaitsFor(u, W \ {t})
  <2>1. u.pwait = a.pwait
    BY <1>7 DEF SameTcbFields
  <2> QED BY <2>1, <1>3, <1>6, SameWaits
<1>11. \A x \in AllTasks \ {t} : SameFor(s, u, x)
  BY <1>3, <1>6, <1>8 DEF SameFor, SameTcbFields, OtherLinks
<1>12. Runnables(u, {t}) = R /\ Waiters(u, {t}) = W \ {t}
  BY <1>1, <1>11 DEF Runnables, Waiters, Waiting, SameFor, R, W
<1>13. Timed(u, {t}) = Timed(s, {}) \ {t}
  BY <1>11 DEF Timed, SameFor
<1>14. \A x \in AllTasks \ {t} : TcbOK(u, x)
  BY <1>0, <1>11 DEF Rest, TcbOK, Waiting, SameFor
<1>15. SystemOK(u)
  BY <1>0, <1>8 DEF Rest, SystemOK, SameTcbFields
<1>16. u.fault = FALSE
  BY <1>0, <1>3, <1>6 DEF Rest
<1> QED
  BY <1>4, <1>5, <1>6, <1>8, <1>9, <1>10, <1>12, <1>13, <1>14, <1>15, <1>16
  DEF Sound, Rest

(* task_wait_complete takes a waiting task out of its queue and the        *)
(* timeouts.                                                               *)
LEMMA TakeWaiting ==
    ASSUME NEW s, Sound(s, {}), NEW t \in AllTasks, Waiting(s, t),
           NEW remove \in BOOLEAN, remove \/ s.pwait[t] = NoQueue,
           NEW u, u = Unwait(s, t, remove)
    PROVE  Sound(u, {t}) /\ SameTcbFields(s, u)
<1> DEFINE R == Runnables(s, {})
           W == Waiters(s, {})
           a == IF remove THEN queue_remove_entry(s, t) ELSE s
<1>0. SchedType(s) /\ ReadyFor(s, R) /\ Rest(s, {}) /\ WaitsFor(s, W)
  BY DEF Sound, Rest
<1>1. TcbOK(s, t) /\ t \notin R /\ t \in W
  BY <1>0 DEF Rest, Runnables, Waiters, Waiting
<1>2. u = OffTimeouts(s, a, t)
  BY DEF Unwait
<1> HIDE DEF R, W, a
<1>3. /\ SchedType(a) /\ SameTcbs(s, a) /\ a.fault = s.fault
      /\ OtherLinks(s, a, t) /\ ReadyFor(a, R) /\ WaitsFor(a, W \ {t})
  <2>1. CASE remove
    <3> DEFINE v == queue_remove_entry(s, t)
    <3>1. a = v
      BY <2>1 DEF a
    <3>2. ReadyLists(s, R) /\ s.link[t] # "stale"
      BY <1>0, <1>1 DEF ReadyFor, TcbOK
    <3> HIDE DEF v
    <3>3. /\ SchedType(v)
          /\ SameTcbs(s, v) /\ v.bmp = s.bmp /\ v.next = s.next
          /\ v.fault = s.fault
          /\ ReadyLists(v, R \ {t}) /\ WaitsFor(v, W \ {t})
          /\ OthersKept(s, v, R, t)
      BY <1>0, <3>2, RemoveEntry DEF v
    <3>4. v.ready = s.ready
      <4>1. \A p \in Priorities : v.ready[p] = s.ready[p]
        BY <3>3, <1>1 DEF OthersKept
      <4>2. /\ v.ready \in [Priorities -> Seq(AllTasks)]
            /\ s.ready \in [Priorities -> Seq(AllTasks)]
        BY <3>3, <1>0 DEF SchedType
      <4> QED BY <4>1, <4>2
    <3>5. ReadyFor(v, R)
      <4>1. v.priority = s.priority
        BY <3>3 DEF SameTcbs
      <4> QED BY <4>1, <3>3, <3>4, <1>0, SameReady
    <3> QED BY <3>1, <3>3, <3>5 DEF OthersKept, OtherLinks
  <2>2. CASE ~remove
    <3>1. a = s /\ s.pwait[t] = NoQueue
      BY <2>2 DEF a
    <3>2. WaitsFor(s, W \ {t})
      <4>1. ASSUME NEW q \in WaitQueues PROVE In(s, W \ {t}, q) = In(s, W, q)
        BY <3>1, QueueAssumption DEF In
      <4> QED BY <4>1, <1>0 DEF WaitsFor
    <3>3. SameTcbs(s, s) /\ OtherLinks(s, s, t)
      BY DEF SameTcbs, OtherLinks
    <3> QED BY <3>1, <3>2, <3>3, <1>0
  <2> QED BY <2>1, <2>2
<1> QED
  BY <1>2, <1>3, LeaveTimeouts DEF R, W

(* queue_remove_head takes the first task from a wait queue, and           *)
(* task_wait_complete takes it from the timeouts.                          *)
LEMMA TakeHead ==
    ASSUME NEW s, Sound(s, {}), NEW q \in WaitQueues, s.wait[q] # <<>>,
           NEW t, t = Head(s.wait[q]),
           NEW u, u = Unwait(queue_remove_head(s, q), t, FALSE)
    PROVE  /\ t \in AllTasks /\ Waiting(s, t) /\ s.pwait[t] = q
           /\ Sound(u, {t}) /\ SameTcbFields(s, u)
<1> DEFINE R == Runnables(s, {})
           W == Waiters(s, {})
           w == s.wait[q]
           a == queue_remove_head(s, q)
<1>0. SchedType(s) /\ ReadyFor(s, R) /\ WaitsFor(s, W)
  BY DEF Sound, Rest
<1>1. w \in Seq(AllTasks) /\ Lists(w, In(s, W, q)) /\ s.wait \in [WaitQueues -> Seq(AllTasks)]
  BY <1>0 DEF WaitsFor, SchedType
<1>2. t \in In(s, W, q) /\ Tail(w) \in Seq(AllTasks) /\ Lists(Tail(w), In(s, W, q) \ {t})
  <2> DEFINE S == In(s, W, q)
  <2> HIDE DEF S, W
  <2>1. w \in Seq(AllTasks) /\ w # <<>> /\ Lists(w, S)
    BY <1>1 DEF S
  <2>2. Head(w) \in S /\ Tail(w) \in Seq(AllTasks) /\ Lists(Tail(w), S \ {Head(w)})
    <3> HIDE DEF w
    <3> QED BY <2>1, ListsTail
  <2> QED BY <2>2 DEF S
<1>3. t \in AllTasks /\ Waiting(s, t) /\ s.pwait[t] = q
  BY <1>2 DEF In, Waiters
<1> HIDE DEF R, W
<1>4. /\ a = [s EXCEPT !.wait = [s.wait EXCEPT ![q] = Tail(w)],
                       !.link = [s.link EXCEPT ![t] = "stale"]]
  BY DEF queue_remove_head
<1> HIDE DEF a
<1>5. [s.wait EXCEPT ![q] = Tail(w)] \in [WaitQueues -> Seq(AllTasks)]
  BY <1>1, <1>2
<1>6. SchedType(a)
  BY <1>0, <1>3, <1>4, <1>5 DEF SchedType
<1>7. /\ SameTcbs(s, a) /\ a.fault = s.fault /\ OtherLinks(s, a, t)
      /\ a.ready = s.ready /\ a.bmp = s.bmp /\ a.next = s.next
      /\ a.wait = [s.wait EXCEPT ![q] = Tail(w)]
  BY <1>0, <1>4 DEF SchedType, SameTcbs, OtherLinks
<1>8. ReadyFor(a, R)
  <2>1. a.priority = s.priority
    BY <1>7 DEF SameTcbs
  <2> QED BY <2>1, <1>0, <1>7, SameReady
<1>9. WaitsFor(a, W \ {t})
  <2> SUFFICES ASSUME NEW r \in WaitQueues
               PROVE  Lists(a.wait[r], In(a, W \ {t}, r))
    BY DEF WaitsFor
  <2>0. a.pwait = s.pwait
    BY <1>7 DEF SameTcbs
  <2>1. CASE r = q
    <3>1. In(a, W \ {t}, r) = In(s, W, q) \ {t}
      BY <2>0, <2>1 DEF In
    <3>2. a.wait[r] = Tail(w)
      BY <2>1, <1>1, <1>7
    <3> QED BY <3>1, <3>2, <1>2
  <2>2. CASE r # q
    <3>1. In(a, W \ {t}, r) = In(s, W, r)
      BY <2>0, <2>2, <1>3 DEF In
    <3>2. a.wait[r] = s.wait[r]
      BY <2>2, <1>1, <1>7
    <3> QED BY <3>1, <3>2, <1>0 DEF WaitsFor
  <2> QED BY <2>1, <2>2
<1>10. u = OffTimeouts(s, a, t)
  <2>1. a.tick = s.tick /\ a.timeouts = s.timeouts
    BY <1>7 DEF SameTcbs
  <2>2. u = OffTimeouts(a, a, t)
    BY DEF Unwait, a
  <2> QED BY <2>1, <2>2 DEF OffTimeouts
<1>11. Sound(u, {t}) /\ SameTcbFields(s, u)
  BY <1>3, <1>6, <1>7, <1>8, <1>9, <1>10, LeaveTimeouts DEF R, W
<1> QED
  BY <1>3, <1>11

(* The end of task_wait_complete, for a task that is in no list: it is     *)
(* runnable, or suspended if it was suspended while it waited.             *)
LEMMA WaitDone ==
    ASSUME NEW v, NEW t \in Tasks, Sound(v, {t}), NEW woken \in BOOLEAN,
           NEW u, u = Completed(v, t, woken)
    PROVE  /\ Sound(u, {}) /\ Only(v, u, t)
           /\ u.state[t] \in {"runnable", "suspend"}
<1> DEFINE b == [v EXCEPT !.pwait[t] = NoQueue, !.rc[t] = "NO_ERR",
                          !.tick[t] = TN_WAIT_INFINITE]
           c == IF woken THEN task_to_runnable(b, t)
                ELSE [b EXCEPT !.state[t] = "suspend"]
<1>0. t \in AllTasks /\ t # IdleTask /\ t # TimerTask
  BY TasksAssumption DEF AllTasks
<1>1. u = [c EXCEPT !.reason[t] = "none"]
  BY DEF Completed
<1>2. Sound(v, {t})
  OBVIOUS
<1>3. SchedType(v) /\ v.priority[t] \in 1 .. TN_NUM_PRIORITY - 2
  BY <1>2 DEF Sound, Rest, SystemOK
<1>4. SchedType(b)
  <2>1. "NO_ERR" \in WaitCodes /\ TN_WAIT_INFINITE \in Int
    BY DEF WaitCodes, TN_WAIT_INFINITE
  <2> QED BY <2>1, <1>0, <1>3 DEF SchedType
<1>5. SameLists(v, b) /\ b.priority = v.priority /\ b.state = v.state /\ b.curr = v.curr
  BY <1>3 DEF SchedType, SameLists
<1>6. SameOthers(v, b, t) /\ b.tick[t] = TN_WAIT_INFINITE
  BY <1>0, <1>3 DEF SchedType, SameOthers, SameFor
<1> HIDE DEF b
<1>7. Sound(b, {t})
  <2>1. \A x \in AllTasks \ {t} :
           /\ b.state[x] = v.state[x] /\ b.priority[x] = v.priority[x]
           /\ b.reason[x] = v.reason[x] /\ b.pwait[x] = v.pwait[x]
           /\ b.tick[x] = v.tick[x] /\ b.link[x] = v.link[x]
    BY <1>6 DEF SameOthers, SameFor
  <2>2. b.priority[t] \in 1 .. TN_NUM_PRIORITY - 2
    BY <1>3, <1>5
  <2> QED BY <2>1, <2>2, <1>0, <1>2, <1>4, <1>5, TcbChange DEF SameLists
<1>8. /\ Sound(c, {}) /\ Only(b, c, t)
      /\ c.state[t] \in {"runnable", "suspend"}
  <2>1. CASE woken
    <3>1. c = task_to_runnable(b, t)
      BY <2>1
    <3> HIDE DEF c
    <3> QED BY <3>1, <1>0, <1>6, <1>7, PutReady
  <2>2. CASE ~woken
    <3>1. c = [b EXCEPT !.state[t] = "suspend"]
      BY <2>2
    <3> HIDE DEF c
    <3>2. SchedType(c)
      BY <3>1, <1>0, <1>4 DEF SchedType, TaskStates
    <3>3. /\ SameLists(b, c) /\ c.curr = b.curr /\ c.tick = b.tick
          /\ c.priority = b.priority /\ c.state[t] = "suspend"
      BY <3>1, <1>0, <1>4 DEF SchedType, SameLists
    <3>4. SameOthers(b, c, t)
      BY <3>1, <1>0, <1>4 DEF SchedType, SameOthers, SameFor
    <3>5. Sound(c, {t})
      <4>1. \A x \in AllTasks \ {t} :
               /\ c.state[x] = b.state[x] /\ c.priority[x] = b.priority[x]
               /\ c.reason[x] = b.reason[x] /\ c.pwait[x] = b.pwait[x]
               /\ c.tick[x] = b.tick[x] /\ c.link[x] = b.link[x]
        BY <3>4 DEF SameOthers, SameFor
      <4>2. c.priority[t] \in 1 .. TN_NUM_PRIORITY - 2
        BY <3>3, <1>3, <1>5
      <4> QED BY <4>1, <4>2, <3>2, <3>3, <1>0, <1>7, TcbChange DEF SameLists
    <3>6. Sound(c, {})
      BY <3>3, <3>5, <1>0, <1>6, Include
    <3> QED BY <3>3, <3>4, <3>6 DEF Only, SameOthers, SameFor
  <2> QED BY <2>1, <2>2
<1> HIDE DEF c
<1>9. SchedType(c)
  BY <1>8 DEF Sound
<1>10. SchedType(u)
  <2>1. "none" \in WaitReasons
    BY DEF WaitReasons
  <2>2. c.reason \in [AllTasks -> WaitReasons]
    BY <1>9 DEF SchedType
  <2>3. [c.reason EXCEPT ![t] = "none"] \in [AllTasks -> WaitReasons]
    BY <2>1, <2>2, <1>0
  <2> QED BY <2>3, <1>1, <1>9 DEF SchedType
<1>11. SameLists(c, u) /\ u.state = c.state /\ u.curr = c.curr
  BY <1>1, <1>9 DEF SchedType, SameLists
<1>12. \A x \in AllTasks \ {t} : SameFor(c, u, x)
  BY <1>0, <1>1, <1>9 DEF SchedType, SameFor
<1>13. Sound(u, {})
  <2>1. /\ u.priority = c.priority /\ u.pwait = c.pwait /\ u.tick = c.tick
        /\ u.link = c.link /\ u.reason[t] = "none"
    BY <1>0, <1>1, <1>9 DEF SchedType
  <2> QED BY <2>1, <1>0, <1>8, <1>10, <1>11, <1>12, ReasonChange
<1>14. Only(v, u, t)
  BY <1>5, <1>6, <1>8, <1>11 DEF Only, SameOthers, SameFor
<1> QED
  BY <1>8, <1>11, <1>13, <1>14

(* task_wait_complete in these two parts                                   *)
LEMMA CompleteIs ==
    ASSUME NEW s, SchedType(s), NEW t \in AllTasks, NEW remove \in BOOLEAN
    PROVE  task_wait_complete(s, t, remove) =
             Completed(Unwait(s, t, remove), t, Woken(s, t))
<1> DEFINE v == Unwait(s, t, remove)
           a == IF remove THEN queue_remove_entry(s, t) ELSE s
           tm == IF s.tick[t] = TN_WAIT_INFINITE THEN s.timeouts
                 ELSE RemoveFirst(s.timeouts, t)
           b == [v EXCEPT !.pwait[t] = NoQueue, !.rc[t] = "NO_ERR",
                          !.tick[t] = TN_WAIT_INFINITE]
           d == [a EXCEPT !.pwait[t] = NoQueue, !.rc[t] = "NO_ERR",
                          !.timeouts = tm, !.tick[t] = TN_WAIT_INFINITE]
           e == [a EXCEPT !.pwait[t] = NoQueue, !.rc[t] = "NO_ERR",
                          !.timeouts = IF s.tick[t] = TN_WAIT_INFINITE THEN @
                                       ELSE RemoveFirst(@, t),
                          !.tick[t] = TN_WAIT_INFINITE]
<1>1. task_wait_complete(s, t, remove) =
        [(IF Woken(s, t) THEN task_to_runnable(e, t)
          ELSE [e EXCEPT !.state[t] = "suspend"]) EXCEPT !.reason[t] = "none"]
  BY DEF task_wait_complete
<1>2. Completed(v, t, Woken(s, t)) =
        [(IF Woken(s, t) THEN task_to_runnable(b, t)
          ELSE [b EXCEPT !.state[t] = "suspend"]) EXCEPT !.reason[t] = "none"]
  BY DEF Completed
<1>3. a.timeouts = s.timeouts
  BY DEF SchedType, queue_remove_entry
<1>4. v = [a EXCEPT !.timeouts = tm]
  BY DEF Unwait, OffTimeouts
<1>5. e = d
  <2> HIDE DEF a
  <2> QED BY <1>3
<1>6. d = b
  <2> HIDE DEF a, tm, v
  <2> QED BY <1>4
<1> HIDE DEF b, d, e, v
<1>7. e = b
  BY <1>5, <1>6
<1> QED
  BY <1>1, <1>2, <1>7 DEF v

(* task_wait_complete: the task leaves its lists and is runnable, or       *)
(* suspended if it was suspended while it waited.                          *)
LEMMA WaitComplete ==
    ASSUME NEW s, Sound(s, {}), NEW t \in Tasks, Waiting(s, t),
           NEW remove \in BOOLEAN, remove \/ s.pwait[t] = NoQueue,
           NEW u, u = task_wait_complete(s, t, remove)
    PROVE  /\ Sound(u, {}) /\ Only(s, u, t)
           /\ u.state[t] \in {"runnable", "suspend"}
<1> DEFINE v == Unwait(s, t, remove)
<1>0. t \in AllTasks /\ SchedType(s) /\ Woken(s, t) \in BOOLEAN
  BY DEF AllTasks, Sound, Woken
<1>1. u = Completed(v, t, Woken(s, t))
  BY <1>0, CompleteIs
<1>2. Sound(v, {t}) /\ SameTcbFields(s, v)
  BY <1>0, TakeWaiting
<1> HIDE DEF v
<1>3. /\ Sound(u, {}) /\ Only(v, u, t)
      /\ u.state[t] \in {"runnable", "suspend"}
  BY <1>0, <1>1, <1>2, WaitDone
<1>4. Only(s, u, t)
  BY <1>2, <1>3 DEF Only, SameTcbFields
<1> QED
  BY <1>3, <1>4

(* The fields of a TCB after task_wait_complete                            *)
LEMMA CompleteFields ==
    ASSUME NEW s, SchedType(s), NEW t \in AllTasks, NEW remove \in BOOLEAN
    PROVE  /\ task_wait_complete(s, t, remove).pwait = [s.pwait EXCEPT ![t] = NoQueue]
           /\ task_wait_complete(s, t, remove).rc = [s.rc EXCEPT ![t] = "NO_ERR"]
           /\ task_wait_complete(s, t, remove).curr = s.curr
           /\ DOMAIN task_wait_complete(s, t, remove) = DOMAIN s
<1> DEFINE a == IF remove THEN queue_remove_entry(s, t) ELSE s
           b == [a EXCEPT !.pwait[t] = NoQueue,
                          !.rc[t] = "NO_ERR",
                          !.timeouts = IF s.tick[t] = TN_WAIT_INFINITE THEN @
                                       ELSE RemoveFirst(@, t),
                          !.tick[t] = TN_WAIT_INFINITE]
           c == IF Woken(s, t) THEN task_to_runnable(b, t)
                ELSE [b EXCEPT !.state[t] = "suspend"]
<1>1. task_wait_complete(s, t, remove) = [c EXCEPT !.reason[t] = "none"]
  BY DEF task_wait_complete
<1>2. /\ DOMAIN a = DOMAIN s /\ a.pwait = s.pwait /\ a.rc = s.rc
      /\ a.curr = s.curr
  BY DEF queue_remove_entry, SchedType
<1> HIDE DEF a
<1>3. /\ DOMAIN b = DOMAIN s /\ b.pwait = [s.pwait EXCEPT ![t] = NoQueue]
      /\ b.rc = [s.rc EXCEPT ![t] = "NO_ERR"]
      /\ b.curr = s.curr
  BY <1>2 DEF SchedType
<1> HIDE DEF b
<1>4. /\ DOMAIN c = DOMAIN s /\ c.pwait = [s.pwait EXCEPT ![t] = NoQueue]
      /\ c.rc = b.rc /\ c.curr = s.curr
  BY <1>3 DEF SchedType, task_to_runnable
<1> HIDE DEF c
<1> QED
  BY <1>1, <1>3, <1>4 DEF SchedType

(* The state of the task after task_wait_complete                          *)
LEMMA CompleteState ==
    ASSUME NEW s, SchedType(s), NEW t \in AllTasks, NEW remove \in BOOLEAN
    PROVE  task_wait_complete(s, t, remove).state =
             [s.state EXCEPT ![t] = IF Woken(s, t) THEN "runnable" ELSE "suspend"]
BY ZenonT(30) DEF task_wait_complete, task_to_runnable, queue_remove_entry, SchedType

(* Task t, which waited in q in s, does not wait in u; nothing else changed. *)
HeadDone(s, u, t, q) ==
    /\ Sound(u, {}) /\ Only(s, u, t)
    /\ Waiting(s, t) /\ s.pwait[t] = q
    /\ u.state[t] \in {"runnable", "suspend"}
    /\ \A x \in AllTasks \ {t} : u.pwait[x] = s.pwait[x] /\ u.rc[x] = s.rc[x]
    /\ u.pwait[t] = NoQueue /\ u.rc[t] = "NO_ERR"

(* A service releases the first task of a wait queue.                      *)
LEMMA HeadComplete ==
    ASSUME NEW s, Sound(s, {}), NEW q \in WaitQueues, s.wait[q] # <<>>,
           NEW t, t = Head(s.wait[q]), t \in Tasks,
           NEW u, u = task_wait_complete(queue_remove_head(s, q), t, FALSE)
    PROVE  HeadDone(s, u, t, q)
<1> DEFINE a == queue_remove_head(s, q)
           v == Unwait(a, t, FALSE)
<1>0. SchedType(s) /\ t \in AllTasks
  BY DEF Sound, AllTasks
<1>1. /\ SchedType(a) /\ a.state = s.state /\ a.pwait = s.pwait /\ a.rc = s.rc
      /\ a.wait = [s.wait EXCEPT ![q] = Tail(s.wait[q])]
  <2>1. s.wait[q] \in Seq(AllTasks) /\ s.wait \in [WaitQueues -> Seq(AllTasks)]
    BY <1>0 DEF SchedType
  <2>2. Tail(s.wait[q]) \in Seq(AllTasks)
    BY <2>1
  <2>3. [s.wait EXCEPT ![q] = Tail(s.wait[q])] \in [WaitQueues -> Seq(AllTasks)]
    BY <2>1, <2>2
  <2>4. a = [s EXCEPT !.wait = [s.wait EXCEPT ![q] = Tail(s.wait[q])],
                      !.link = [s.link EXCEPT ![t] = "stale"]]
    BY DEF queue_remove_head
  <2> HIDE DEF a
  <2> QED BY <2>3, <2>4, <1>0 DEF SchedType
<1> HIDE DEF a
<1>2. u = Completed(v, t, Woken(a, t)) /\ Woken(a, t) \in BOOLEAN
  BY <1>0, <1>1, CompleteIs DEF a, Woken
<1>9. v = Unwait(queue_remove_head(s, q), t, FALSE)
  BY DEF a
<1> HIDE DEF v
<1>3. Waiting(s, t) /\ s.pwait[t] = q /\ Sound(v, {t}) /\ SameTcbFields(s, v)
  BY <1>9, TakeHead, ZenonT(30)
<1>4. /\ Sound(u, {}) /\ Only(v, u, t)
      /\ u.state[t] \in {"runnable", "suspend"}
  BY <1>2, <1>3, WaitDone
<1>5. Only(s, u, t)
  BY <1>3, <1>4 DEF Only, SameTcbFields
<1>6. /\ u.pwait = [a.pwait EXCEPT ![t] = NoQueue]
      /\ u.rc = [a.rc EXCEPT ![t] = "NO_ERR"]
  <2>1. u = task_wait_complete(a, t, FALSE) /\ FALSE \in BOOLEAN
    BY DEF a
  <2>3. /\ task_wait_complete(a, t, FALSE).pwait = [a.pwait EXCEPT ![t] = NoQueue]
        /\ task_wait_complete(a, t, FALSE).rc = [a.rc EXCEPT ![t] = "NO_ERR"]
    <3> SUFFICES ASSUME NEW x, SchedType(x)
                 PROVE  /\ task_wait_complete(x, t, FALSE).pwait = [x.pwait EXCEPT ![t] = NoQueue]
                        /\ task_wait_complete(x, t, FALSE).rc = [x.rc EXCEPT ![t] = "NO_ERR"]
      BY <1>1
    <3> QED BY <1>0, CompleteFields
  <2> QED BY <2>1, <2>3
<1>7. s.pwait \in [AllTasks -> WaitQueues \cup {NoQueue}] /\ s.rc \in [AllTasks -> WaitCodes]
  BY <1>0 DEF SchedType
<1>8. /\ \A x \in AllTasks \ {t} : u.pwait[x] = s.pwait[x] /\ u.rc[x] = s.rc[x]
      /\ u.pwait[t] = NoQueue /\ u.rc[t] = "NO_ERR"
  <2>1. u.pwait = [s.pwait EXCEPT ![t] = NoQueue] /\ u.rc = [s.rc EXCEPT ![t] = "NO_ERR"]
    BY <1>1, <1>6, Zenon
  <2>2. u.pwait[t] = NoQueue /\ \A x \in AllTasks \ {t} : u.pwait[x] = s.pwait[x]
    <3>1. u.pwait = [s.pwait EXCEPT ![t] = NoQueue]
      BY <2>1
    <3> QED BY ONLY <3>1, <1>0, <1>7
  <2>3. u.rc[t] = "NO_ERR" /\ \A x \in AllTasks \ {t} : u.rc[x] = s.rc[x]
    <3>1. u.rc = [s.rc EXCEPT ![t] = "NO_ERR"]
      BY <2>1
    <3> QED BY ONLY <3>1, <1>0, <1>7
  <2> QED BY <2>2, <2>3
<1> QED
  BY <1>3, <1>4, <1>5, <1>8 DEF HeadDone

-----------------------------------------------------------------------------
(* The running task starts to wait                                         *)

(* task_curr_to_wait_action applied by a runnable task.                    *)
LEMMA StartWait ==
    ASSUME NEW s, Sound(s, {}), NEW t \in AllTasks, t = s.curr, t # IdleTask,
           s.state[t] = "runnable",
           NEW q \in WaitQueues \cup {NoQueue},
           NEW reason \in WaitReasons, reason = "sleep" => q = NoQueue,
           NEW timeout \in Int, t = TimerTask => timeout = TN_WAIT_INFINITE,
           NEW u, u = task_curr_to_wait_action(s, q, reason, timeout)
    PROVE  Sound(u, {}) /\ Only(s, u, t) /\ u.state[t] = "wait"
<1> DEFINE w == task_to_non_runnable(s, t)
           tm == IF timeout = TN_WAIT_INFINITE THEN w.timeouts ELSE Append(w.timeouts, t)
           v == [w EXCEPT !.state[t] = "wait", !.reason[t] = reason,
                          !.tick[t] = timeout, !.timeouts = tm]
           W == Waiters(w, {t})
<1>0. u = IF q = NoQueue THEN [v EXCEPT !.link[t] = "reset"]
          ELSE [v EXCEPT !.wait[q] = Append(@, t), !.link[t] = "listed", !.pwait[t] = q]
  BY DEF task_curr_to_wait_action
<1> HIDE DEF w
<1>1. SchedType(s) /\ TcbOK(s, t)
  BY DEF Sound, Rest
<1>2. Sound(w, {t}) /\ SameTcbs(s, w)
  <2>1. SameLists(s, s) /\ SameOthers(s, s, t)
    BY DEF SameLists, SameOthers, SameFor
  <2> HIDE DEF tm, v, W
  <2> QED BY <2>1, <1>1, TakeReady DEF w
<1>3. SchedType(w) /\ Rest(w, {t}) /\ ReadyFor(w, Runnables(w, {t}))
  BY <1>2 DEF Sound
<1>4. w.pwait[t] = NoQueue /\ w.curr = s.curr /\ w.state = s.state
  BY <1>1, <1>2 DEF TcbOK, SameTcbs
<1>5. /\ tm \in Seq(AllTasks)
      /\ Lists(tm, IF timeout = TN_WAIT_INFINITE THEN Timed(w, {t})
                   ELSE Timed(w, {t}) \cup {t})
  <2>1. w.timeouts \in Seq(AllTasks) /\ Lists(w.timeouts, Timed(w, {t}))
    BY <1>3, Fields DEF Rest
  <2>2. t \notin Timed(w, {t})
    BY DEF Timed
  <2> DEFINE S == Timed(w, {t})
  <2> HIDE DEF S, v
  <2>3. /\ Append(w.timeouts, t) \in Seq(AllTasks)
        /\ Lists(Append(w.timeouts, t), S \cup {t})
    BY <2>1, <2>2, ListsAppend DEF S
  <2> QED BY <2>1, <2>3 DEF S
<1> HIDE DEF tm, W
<1>6. /\ SchedType(v)
      /\ v.ready = w.ready /\ v.bmp = w.bmp /\ v.next = w.next
      /\ v.wait = w.wait /\ v.timeouts = tm /\ v.fault = w.fault
      /\ v.curr = w.curr /\ v.priority = w.priority /\ v.pwait = w.pwait
      /\ v.link = w.link
      /\ v.state = [w.state EXCEPT ![t] = "wait"]
      /\ v.reason = [w.reason EXCEPT ![t] = reason]
      /\ v.tick = [w.tick EXCEPT ![t] = timeout]
  <2>1. /\ v.ready = w.ready /\ v.bmp = w.bmp /\ v.next = w.next
        /\ v.wait = w.wait /\ v.timeouts = tm /\ v.fault = w.fault
        /\ v.curr = w.curr /\ v.priority = w.priority /\ v.pwait = w.pwait
        /\ v.link = w.link
    BY <1>3 DEF SchedType
  <2>2. /\ v.state = [w.state EXCEPT ![t] = "wait"]
        /\ v.reason = [w.reason EXCEPT ![t] = reason]
        /\ v.tick = [w.tick EXCEPT ![t] = timeout]
    BY <1>3 DEF SchedType
  <2>3. "wait" \in TaskStates
    BY DEF TaskStates
  <2>4. SchedType(v)
    BY <2>3, <1>3, <1>5 DEF SchedType
  <2> QED BY <2>1, <2>2, <2>4
<1> HIDE DEF v
<1>7. /\ SchedType(u)
      /\ u.ready = v.ready /\ u.bmp = v.bmp /\ u.next = v.next
      /\ u.timeouts = v.timeouts /\ u.fault = v.fault
      /\ u.curr = v.curr /\ u.priority = v.priority /\ u.state = v.state
      /\ u.reason = v.reason /\ u.tick = v.tick
      /\ \A x \in AllTasks \ {t} : u.pwait[x] = v.pwait[x] /\ u.link[x] = v.link[x]
      /\ u.pwait[t] = q /\ u.link[t] # "stale"
      /\ \A r \in WaitQueues : u.wait[r] = IF r = q THEN Append(v.wait[r], t) ELSE v.wait[r]
  <2>1. CASE q = NoQueue
    <3>1. u = [v EXCEPT !.link[t] = "reset"]
      BY <2>1, <1>0
    <3>2. SchedType(u)
      <4>1. SchedType(v)
        BY <1>6
      <4>2. v.link \in [AllTasks -> {"listed", "reset", "stale"}]
        BY <4>1 DEF SchedType
      <4>3. [v.link EXCEPT ![t] = "reset"] \in [AllTasks -> {"listed", "reset", "stale"}]
        BY <4>2
      <4> QED BY <4>1, <4>3, <3>1 DEF SchedType
    <3>3. /\ u.ready = v.ready /\ u.bmp = v.bmp /\ u.next = v.next
          /\ u.timeouts = v.timeouts /\ u.fault = v.fault
          /\ u.curr = v.curr /\ u.priority = v.priority /\ u.state = v.state
          /\ u.reason = v.reason /\ u.tick = v.tick
      BY <3>1, <1>6 DEF SchedType
    <3>4. u.pwait = v.pwait /\ u.wait = v.wait /\ u.link = [v.link EXCEPT ![t] = "reset"]
      BY <3>1, <1>6 DEF SchedType
    <3>5. v.link \in [AllTasks -> {"listed", "reset", "stale"}]
      BY <1>6 DEF SchedType
    <3> QED BY <3>2, <3>3, <3>4, <3>5, <2>1, <1>4, <1>6, QueueAssumption
  <2>2. CASE q # NoQueue
    <3>0. q \in WaitQueues
      BY <2>2
    <3>1. u = [v EXCEPT !.wait[q] = Append(@, t), !.link[t] = "listed", !.pwait[t] = q]
      BY <2>2, <1>0
    <3>2. Append(v.wait[q], t) \in Seq(AllTasks)
      BY <3>0, <1>6, Fields, AppendProperties
    <3>3. SchedType(u)
      <4>1. SchedType(v)
        BY <1>6
      <4>2. /\ v.link \in [AllTasks -> {"listed", "reset", "stale"}]
            /\ v.pwait \in [AllTasks -> WaitQueues \cup {NoQueue}]
            /\ v.wait \in [WaitQueues -> Seq(AllTasks)]
        BY <4>1 DEF SchedType
      <4>3. [v.link EXCEPT ![t] = "listed"] \in [AllTasks -> {"listed", "reset", "stale"}]
        BY <4>2
      <4>4. [v.pwait EXCEPT ![t] = q] \in [AllTasks -> WaitQueues \cup {NoQueue}]
        BY <4>2
      <4>5. [v.wait EXCEPT ![q] = Append(@, t)] \in [WaitQueues -> Seq(AllTasks)]
        BY <4>2, <3>0, <3>2
      <4> QED BY <4>1, <4>3, <4>4, <4>5, <3>1, ZenonT(30) DEF SchedType
    <3>4. /\ u.ready = v.ready /\ u.bmp = v.bmp /\ u.next = v.next
          /\ u.timeouts = v.timeouts /\ u.fault = v.fault
          /\ u.curr = v.curr /\ u.priority = v.priority /\ u.state = v.state
          /\ u.reason = v.reason /\ u.tick = v.tick
      BY <3>1, <1>6, SMTT(30) DEF SchedType
    <3>5. /\ u.pwait = [v.pwait EXCEPT ![t] = q]
          /\ u.wait = [v.wait EXCEPT ![q] = Append(@, t)]
          /\ u.link = [v.link EXCEPT ![t] = "listed"]
      BY <3>1, <1>6 DEF SchedType
    <3>6. /\ v.link \in [AllTasks -> {"listed", "reset", "stale"}]
          /\ v.pwait \in [AllTasks -> WaitQueues \cup {NoQueue}]
          /\ v.wait \in [WaitQueues -> Seq(AllTasks)]
      BY <1>6 DEF SchedType
    <3> QED BY <3>0, <3>3, <3>4, <3>5, <3>6
  <2> QED BY <2>1, <2>2
<1>8. DOMAIN w.state = AllTasks /\ DOMAIN w.reason = AllTasks /\ DOMAIN w.tick = AllTasks
  BY <1>3 DEF SchedType
<1>9. /\ \A x \in AllTasks \ {t} : SameFor(w, u, x)
      /\ u.state[t] = "wait" /\ u.reason[t] = reason /\ u.tick[t] = timeout
  BY <1>6, <1>7, <1>8 DEF SameFor
<1>10. Runnables(u, {}) = Runnables(w, {t})
  BY <1>9 DEF Runnables, SameFor
<1>11. Waiters(u, {}) = W \cup {t} /\ t \notin W
  BY <1>9 DEF Waiters, Waiting, SameFor, W
<1>12. Timed(u, {}) = IF timeout = TN_WAIT_INFINITE THEN Timed(w, {t})
                      ELSE Timed(w, {t}) \cup {t}
  BY <1>9 DEF Timed, SameFor
<1>13. ReadyFor(u, Runnables(u, {}))
  <2>1. u.priority = w.priority /\ u.ready = w.ready /\ u.bmp = w.bmp /\ u.next = w.next
    BY <1>6, <1>7
  <2> QED BY <2>1, <1>3, <1>10, SameReady
<1>14. WaitsFor(u, Waiters(u, {}))
  <2> SUFFICES ASSUME NEW r \in WaitQueues PROVE Lists(u.wait[r], In(u, W \cup {t}, r))
    BY <1>11 DEF WaitsFor
  <2>1. Lists(w.wait[r], In(w, W, r)) /\ w.wait[r] \in Seq(AllTasks)
    BY <1>3, Fields DEF Rest, WaitsFor, W
  <2>2. \A x \in W : u.pwait[x] = w.pwait[x]
    BY <1>9 DEF W, Waiters, SameFor
  <2>3. CASE r = q
    <3>1. In(u, W \cup {t}, r) = In(w, W, r) \cup {t}
      BY <2>2, <2>3, <1>7 DEF In
    <3>2. t \notin In(w, W, r)
      BY <1>11 DEF In
    <3> DEFINE S == In(w, W, r)
    <3> HIDE DEF S
    <3>3. Lists(Append(w.wait[r], t), S \cup {t})
      BY <2>1, <3>2, ListsAppend DEF S
    <3> QED BY <3>1, <3>3, <2>3, <1>6, <1>7 DEF S
  <2>4. CASE r # q
    <3>1. In(u, W \cup {t}, r) = In(w, W, r)
      BY <2>2, <2>4, <1>7, QueueAssumption DEF In
    <3> QED BY <3>1, <2>1, <2>4, <1>6, <1>7
  <2> QED BY <2>3, <2>4
<1>15. \A x \in AllTasks \ {} : TcbOK(u, x)
  <2>1. TcbOK(u, t)
    BY <1>7, <1>9 DEF TcbOK, Waiting
  <2>2. \A x \in AllTasks \ {t} : TcbOK(u, x)
    BY <1>3, <1>9 DEF Rest, TcbOK, Waiting, SameFor
  <2> QED BY <2>1, <2>2
<1>16. SystemOK(u)
  <2>1. u.priority = w.priority
    BY <1>6, <1>7
  <2> QED BY <2>1, <1>3, <1>9, SystemTasks DEF Rest, SystemOK, SameFor
<1>17. u.fault = FALSE /\ u.timeouts = tm
  BY <1>3, <1>6, <1>7 DEF Rest
<1>18. Sound(u, {})
  BY <1>5, <1>7, <1>12, <1>13, <1>14, <1>15, <1>16, <1>17 DEF Sound, Rest
<1> QED
  BY <1>4, <1>6, <1>7, <1>9, <1>18 DEF Only, SameFor

-----------------------------------------------------------------------------
(* A change of priority                                                    *)

(* change_running_task_priority applied to a runnable task.                *)
LEMMA ChangeRunning ==
    ASSUME NEW s, Sound(s, {}), NEW t \in Tasks, s.state[t] = "runnable",
           NEW new \in 1 .. TN_NUM_PRIORITY - 2,
           NEW u, u = change_running_task_priority(s, t, new)
    PROVE  Sound(u, {}) /\ u.state = s.state /\ u.curr = s.curr
<1> DEFINE R == Runnables(s, {})
           W == Waiters(s, {})
           old == s.priority[t]
           n == s.next
           a == queue_remove_entry(s, t)
           bits == (IF a.ready[old] = <<>> THEN a.bmp \ {old} ELSE a.bmp) \cup {new}
           v == [a EXCEPT !.priority[t] = new, !.ready[new] = Append(@, t),
                          !.link[t] = "listed", !.bmp = bits]
<1>0. u = IF s.next = t
          THEN IF new >= old THEN [v EXCEPT !.next = Head(v.ready[Min(v.bmp)])] ELSE v
          ELSE IF new < v.priority[v.next] THEN [v EXCEPT !.next = t] ELSE v
  BY DEF change_running_task_priority, find_next_task_to_run
<1>t. t \in AllTasks /\ t # IdleTask /\ t # TimerTask /\ IdleTask \in AllTasks
  BY TasksAssumption DEF AllTasks
<1>1. SchedType(s) /\ ReadyFor(s, R) /\ Rest(s, {}) /\ WaitsFor(s, W) /\ TcbOK(s, t)
  BY <1>t DEF Sound, Rest
<1>2. t \in R /\ t \notin W /\ R \subseteq AllTasks /\ R # {} /\ n \in R
  BY <1>t, <1>1 DEF Runnables, Waiters, Waiting, ReadyFor
<1>3. /\ old \in Priorities /\ new \in Priorities /\ n \in AllTasks
      /\ s.priority[n] \in Priorities
  BY <1>t, <1>1, Fields, SystemTasks DEF Priorities
<1> HIDE DEF R, W, a
<1>4. /\ SchedType(a)
      /\ SameTcbs(s, a) /\ a.bmp = s.bmp /\ a.next = s.next
      /\ a.fault = s.fault
      /\ ReadyLists(a, R \ {t}) /\ WaitsFor(a, W \ {t})
      /\ OthersKept(s, a, R, t)
  <2>1. ReadyLists(s, R) /\ s.link[t] # "stale"
    BY <1>1 DEF ReadyFor, TcbOK
  <2> HIDE DEF old, n, bits, v
  <2> QED BY <2>1, <1>t, <1>1, RemoveEntry DEF a
<1>5. /\ a.ready \in [Priorities -> Seq(AllTasks)] /\ a.bmp \in SUBSET Priorities
      /\ a.priority \in [AllTasks -> Priorities]
      /\ a.link \in [AllTasks -> {"listed", "reset", "stale"}]
  BY <1>4 DEF SchedType
<1>6. Append(a.ready[new], t) \in Seq(AllTasks)
  BY <1>t, <1>3, <1>5, AppendProperties
<1>7. bits \in SUBSET Priorities
  BY <1>3, <1>5
<1> HIDE DEF bits
<1>8. /\ v.priority = [a.priority EXCEPT ![t] = new]
      /\ v.ready = [a.ready EXCEPT ![new] = Append(@, t)]
      /\ v.link = [a.link EXCEPT ![t] = "listed"] /\ v.bmp = bits
  BY <1>4 DEF SchedType
<1>9. /\ v.curr = a.curr /\ v.next = a.next /\ v.wait = a.wait
      /\ v.timeouts = a.timeouts /\ v.state = a.state /\ v.reason = a.reason
      /\ v.pwait = a.pwait /\ v.tick = a.tick /\ v.fault = a.fault
  BY <1>4 DEF SchedType
<1>10. SchedType(v)
  <2>1. [a.priority EXCEPT ![t] = new] \in [AllTasks -> Priorities]
    BY <1>t, <1>3, <1>5
  <2>2. [a.ready EXCEPT ![new] = Append(@, t)] \in [Priorities -> Seq(AllTasks)]
    BY <1>3, <1>5, <1>6
  <2>3. [a.link EXCEPT ![t] = "listed"] \in [AllTasks -> {"listed", "reset", "stale"}]
    BY <1>t, <1>5
  <2> QED BY <2>1, <2>2, <2>3, <1>4, <1>7 DEF SchedType
<1> HIDE DEF v
<1>11. /\ v.priority[t] = new
       /\ \A x \in AllTasks : x # t => v.priority[x] = s.priority[x]
       /\ v.ready[new] = Append(a.ready[new], t)
       /\ \A r \in Priorities : r # new => v.ready[r] = a.ready[r]
       /\ v.link[t] = "listed"
       /\ \A x \in AllTasks : x # t => v.link[x] = s.link[x]
  BY <1>t, <1>3, <1>4, <1>5, <1>8 DEF SameTcbs, OthersKept
<1>12. a.priority = s.priority
  BY <1>4 DEF SameTcbs
<1>13. /\ \A r \in Priorities : r # old => a.ready[r] = s.ready[r]
       /\ \A r \in Priorities : s.ready[r] # <<>> /\ s.ready[r][1] # t =>
             a.ready[r] # <<>> /\ a.ready[r][1] = s.ready[r][1]
  BY <1>4 DEF OthersKept
<1>14. /\ Append(a.ready[new], t) # <<>>
       /\ Lists(Append(a.ready[new], t), ReadyAt(a, R \ {t}, new) \cup {t})
       /\ Append(a.ready[new], t)[1] = IF a.ready[new] = <<>> THEN t ELSE a.ready[new][1]
  <2> DEFINE S == ReadyAt(a, R \ {t}, new)
  <2>1. t \notin S /\ Lists(a.ready[new], S) /\ a.ready[new] \in Seq(AllTasks)
    BY <1>3, <1>4, <1>5 DEF ReadyAt, ReadyLists
  <2> HIDE DEF S, old, n
  <2>2. Lists(Append(a.ready[new], t), S \cup {t})
    BY <2>1, <1>t, ListsAppend
  <2>4. Append(a.ready[new], t) # <<>>
    BY <2>1, <1>t, AppendProperties
  <2>3. Append(a.ready[new], t)[1] = IF a.ready[new] = <<>> THEN t ELSE a.ready[new][1]
    BY <2>1, <1>t, ListsAppend
  <2> QED BY <2>2, <2>3, <2>4 DEF S
<1>15. ReadyLists(v, R)
  <2> SUFFICES ASSUME NEW r \in Priorities PROVE Lists(v.ready[r], ReadyAt(v, R, r))
    BY DEF ReadyLists
  <2>1. \A x \in R : x # t => v.priority[x] = a.priority[x]
    BY <1>2, <1>11, <1>12
  <2>2. CASE r = new
    <3>1. ReadyAt(v, R, r) = ReadyAt(a, R \ {t}, new) \cup {t}
      BY <2>1, <2>2, <1>2, <1>11 DEF ReadyAt
    <3> QED BY <3>1, <2>2, <1>11, <1>14
  <2>3. CASE r # new
    <3>1. ReadyAt(v, R, r) = ReadyAt(a, R \ {t}, r)
      BY <2>1, <2>3, <1>2, <1>11 DEF ReadyAt
    <3> QED BY <3>1, <2>3, <1>4, <1>11 DEF ReadyLists
  <2> QED BY <2>2, <2>3
<1>16. /\ s.bmp = Bits(s) /\ old \in s.bmp /\ s.priority[n] \in s.bmp
       /\ s.ready[s.priority[n]] # <<>> /\ s.ready[s.priority[n]][1] = n
       /\ \A r \in s.bmp : s.priority[n] <= r
  <2>1. \A x \in R : s.ready[s.priority[x]] # <<>> /\ s.priority[x] \in Priorities
    <3> SUFFICES ASSUME NEW x \in R
                 PROVE  s.ready[s.priority[x]] # <<>> /\ s.priority[x] \in Priorities
      OBVIOUS
    <3> DEFINE p == s.priority[x]
               S == ReadyAt(s, R, p)
    <3>1. p \in Priorities /\ s.ready[p] \in Seq(AllTasks)
      BY <1>1, <1>2, Fields
    <3>2. Lists(s.ready[p], S) /\ S # {}
      BY <3>1, <1>1 DEF ReadyFor, ReadyLists, ReadyAt
    <3> HIDE DEF S, p
    <3>3. s.ready[p] # <<>>
      BY <3>1, <3>2, ListsEmpty
    <3> QED BY <3>1, <3>3 DEF p
  <2> QED BY <2>1, <1>1, <1>2 DEF ReadyFor, First, Bits
<1>17. v.bmp = Bits(v)
  <2> HIDE DEF old
  <2>1. Bits(v) = {r \in Priorities : v.ready[r] # <<>>}
    BY DEF Bits
  <2>2. \A r \in Priorities : r \in s.bmp <=> s.ready[r] # <<>>
    BY <1>16 DEF Bits
  <2>3. \A r \in Priorities : r \in bits <=> v.ready[r] # <<>>
    BY <2>2, <1>3, <1>4, <1>11, <1>13, <1>14, <1>16 DEF bits
  <2> QED BY <2>1, <2>3, <1>7, <1>8
<1>18. \A r \in v.bmp : r \in Priorities /\ (r \in s.bmp \/ r = new)
  BY <1>4, <1>7, <1>8 DEF bits
(* The task is put in front of those that are ready.                       *)
<1>19. ASSUME new < s.priority[n] PROVE First(v, t)
  <2>1. a.ready[new] = <<>>
    <3>1. new \notin s.bmp
      BY <1>3, <1>16, <1>19 DEF Priorities
    <3> QED BY <3>1, <1>3, <1>13, <1>16 DEF Bits
  <2>2. v.ready[new][1] = t
    BY <2>1, <1>11, <1>14
  <2>3. \A r \in v.bmp : new <= r
    BY <1>3, <1>16, <1>18, <1>19 DEF Priorities
  <2> QED BY <2>2, <2>3, <1>11 DEF First
<1> DEFINE h == Head(v.ready[Min(v.bmp)])
<1>20. h \in R /\ First(v, h)
  <2>1. /\ v.ready \in [Priorities -> Seq(AllTasks)]
        /\ v.priority \in [AllTasks -> Priorities]
    BY <1>10 DEF SchedType
  <2> QED BY <2>1, <1>2, <1>15, <1>17, FindNext
<1> HIDE DEF h
<1>21. PICK m \in R : First(v, m) /\ u = WithNext(v, v.bmp, m)
  <2>v. WithNext(v, v.bmp, v.next) = v
    BY <1>10 DEF SchedType, WithNext
  <2>w. \A m : WithNext(v, v.bmp, m) = [v EXCEPT !.next = m]
    BY <1>10 DEF SchedType, WithNext
  <2>1. CASE s.next = t /\ new >= old
    <3>1. u = [v EXCEPT !.next = h]
      BY <2>1, <1>0 DEF h
    <3> QED BY <3>1, <2>w, <1>20
  <2>2. CASE s.next = t /\ ~(new >= old)
    <3>1. u = v /\ v.next = t
      BY <2>2, <1>0, <1>4, <1>9
    <3>2. new < s.priority[n]
      BY <2>2, <1>3 DEF Priorities
    <3> QED BY <3>1, <3>2, <2>v, <1>2, <1>19
  <2>3. CASE s.next # t /\ new < v.priority[v.next]
    <3>1. u = [v EXCEPT !.next = t]
      BY <2>3, <1>0
    <3>2. new < s.priority[n]
      BY <2>3, <1>3, <1>4, <1>9, <1>11
    <3> QED BY <3>1, <3>2, <2>w, <1>2, <1>19
  <2>4. CASE s.next # t /\ ~(new < v.priority[v.next])
    <3>1. u = v /\ v.next = n /\ v.priority[n] = s.priority[n]
      BY <2>4, <1>0, <1>3, <1>4, <1>9, <1>11
    <3>2. v.ready[s.priority[n]][1] = n
      <4>1. a.ready[s.priority[n]] # <<>> /\ a.ready[s.priority[n]][1] = n
        BY <2>4, <1>3, <1>13, <1>16
      <4> QED BY <4>1, <1>3, <1>11, <1>14
    <3>3. \A r \in v.bmp : s.priority[n] <= r
      BY <2>4, <3>1, <1>3, <1>16, <1>18 DEF Priorities
    <3>4. First(v, n)
      BY <3>1, <3>2, <3>3 DEF First
    <3> QED BY <3>1, <3>4, <2>v, <1>2
  <2> QED BY <2>1, <2>2, <2>3, <2>4
<1>22. /\ SchedType(u) /\ SameTcbs(v, u)
       /\ u.bmp = v.bmp /\ u.next = m /\ u.ready = v.ready /\ u.wait = v.wait
       /\ u.link = v.link /\ u.fault = v.fault
  <2>1. v.bmp \in SUBSET Priorities /\ m \in AllTasks
    BY <1>2, <1>7, <1>8
  <2> QED BY <2>1, <1>10, <1>21, SetNext
<1>23. ReadyFor(u, R)
  <2>1. ASSUME NEW r \in Priorities PROVE ReadyAt(u, R, r) = ReadyAt(v, R, r)
    BY <1>22 DEF ReadyAt, SameTcbs
  <2>2. ReadyLists(u, R)
    BY <2>1, <1>15, <1>22 DEF ReadyLists
  <2>3. Bits(u) = u.bmp
    BY <1>17, <1>22 DEF Bits
  <2>4. First(u, m)
    BY <1>21, <1>22 DEF First, SameTcbs
  <2> QED BY <2>2, <2>3, <2>4, <1>21, <1>22 DEF ReadyFor
<1>24. /\ u.state = s.state /\ u.curr = s.curr /\ u.tick = s.tick
       /\ u.reason = s.reason /\ u.pwait = s.pwait /\ u.timeouts = s.timeouts
       /\ u.fault = s.fault /\ u.priority = v.priority /\ u.link = v.link
       /\ u.wait = a.wait /\ a.pwait = s.pwait
  BY <1>4, <1>9, <1>22 DEF SameTcbs
<1>25. /\ Runnables(u, {}) = R /\ Waiters(u, {}) = W /\ Timed(u, {}) = Timed(s, {})
  BY <1>24 DEF Runnables, Waiters, Waiting, Timed, R, W
<1>26. WaitsFor(u, W)
  <2>1. W \ {t} = W
    BY <1>2
  <2>2. WaitsFor(a, W)
    BY <2>1, <1>4
  <2>3. u.wait = a.wait /\ u.pwait = a.pwait
    BY <1>24
  <2> QED BY <2>2, <2>3, SameWaits
<1>27. \A x \in AllTasks \ {} : TcbOK(u, x)
  <2>1. \A x \in AllTasks : x # t => u.link[x] = s.link[x]
    BY <1>11, <1>24
  <2>2. u.link[t] = "listed"
    BY <1>11, <1>24
  <2> QED BY <2>1, <2>2, <1>1, <1>24 DEF Rest, TcbOK, Waiting
<1>28. SystemOK(u)
  <2>1. \A x \in AllTasks : x # t => u.priority[x] = s.priority[x]
    BY <1>11, <1>24
  <2>2. u.priority[t] = new
    BY <1>11, <1>24
  <2> QED BY <2>1, <2>2, <1>t, <1>1, <1>24, SystemTasks DEF Rest, SystemOK
<1>29. u.fault = FALSE /\ Lists(u.timeouts, Timed(u, {}))
  BY <1>1, <1>24, <1>25 DEF Rest
<1> QED
  BY <1>22, <1>23, <1>24, <1>25, <1>26, <1>27, <1>28, <1>29 DEF Sound, Rest

-----------------------------------------------------------------------------
(* Changes of one TCB that move the task to no other list                  *)

(* A change of a TCB that does not move the task keeps the scheduler       *)
(* sound.                                                                  *)
LEMMA TcbTweak ==
    ASSUME NEW s, Sound(s, {}), NEW t \in Tasks, NEW u, SchedType(u),
           SameLists(s, u), SameOthers(s, u, t),
           u.state[t] = "runnable" <=> s.state[t] = "runnable",
           Waiting(u, t) <=> Waiting(s, t),
           u.pwait[t] = s.pwait[t], u.reason[t] = s.reason[t],
           u.link[t] = s.link[t],
           u.tick[t] = TN_WAIT_INFINITE <=> s.tick[t] = TN_WAIT_INFINITE,
           u.priority[t] \in 1 .. TN_NUM_PRIORITY - 2,
           s.state[t] = "runnable" => u.priority[t] = s.priority[t]
    PROVE  Sound(u, {})
<1>0. t \in AllTasks /\ t # IdleTask /\ t # TimerTask
  BY TasksAssumption DEF AllTasks
<1>1. /\ Runnables(u, {}) = Runnables(s, {})
      /\ Waiters(u, {}) = Waiters(s, {})
      /\ Timed(u, {}) = Timed(s, {})
  BY <1>0 DEF Runnables, Waiters, Timed, Waiting, SameOthers, SameFor
<1>2. ReadyFor(u, Runnables(u, {}))
  <2>1. \A x \in Runnables(s, {}) : u.priority[x] = s.priority[x]
    BY <1>0 DEF Runnables, SameOthers, SameFor
  <2> QED BY <2>1, <1>1, SameReady DEF Sound, SameLists
<1>3. WaitsFor(u, Waiters(u, {}))
  <2>1. \A x \in Waiters(s, {}) : u.pwait[x] = s.pwait[x]
    BY <1>0 DEF Waiters, SameOthers, SameFor
  <2> QED BY <2>1, <1>1, SameWaits DEF Sound, Rest, SameLists
<1>4. \A x \in AllTasks \ {} : TcbOK(u, x)
  <2>1. TcbOK(s, t)
    BY <1>0 DEF Sound, Rest
  <2>2. TcbOK(u, t)
    BY <2>1 DEF TcbOK
  <2>3. \A x \in AllTasks \ {t} : TcbOK(u, x)
    BY DEF Sound, Rest, TcbOK, Waiting, SameOthers, SameFor
  <2> QED BY <2>2, <2>3
<1>5. SystemOK(u)
  BY <1>0, SystemTasks DEF Sound, Rest, SystemOK, SameOthers, SameFor
<1> QED
  BY <1>1, <1>2, <1>3, <1>4, <1>5 DEF Sound, Rest, SameLists

(* The TCB of a task that is in no list is reset.                          *)
LEMMA SetDormant ==
    ASSUME NEW s, NEW t \in Tasks, Sound(s, {t}),
           NEW u, u = task_set_dormant_state(s, t)
    PROVE  /\ Sound(u, {t}) /\ Only(s, u, t)
           /\ u.state[t] = "dormant" /\ u.tick[t] = TN_WAIT_INFINITE
           /\ u.activate = s.activate
<1>0. t \in AllTasks /\ t # IdleTask /\ t # TimerTask
  BY TasksAssumption DEF AllTasks
<1>1. SchedType(s)
  BY DEF Sound
<1>2. /\ base_priority(t) \in Priorities
      /\ base_priority(t) \in 1 .. TN_NUM_PRIORITY - 2
      /\ "dormant" \in TaskStates /\ "none" \in WaitReasons /\ "NO_ERR" \in WaitCodes
      /\ TN_WAIT_INFINITE \in Int
  BY <1>0, SystemTasks DEF TaskStates, WaitReasons, WaitCodes, TN_WAIT_INFINITE
<1>3. SchedType(u)
  BY <1>0, <1>1, <1>2, ZenonT(30) DEF SchedType, task_set_dormant_state
<1>4. /\ u.priority = [s.priority EXCEPT ![t] = base_priority(t)]
      /\ u.state = [s.state EXCEPT ![t] = "dormant"]
      /\ u.tick = [s.tick EXCEPT ![t] = TN_WAIT_INFINITE]
      /\ u.reason = [s.reason EXCEPT ![t] = "none"]
      /\ u.pwait = [s.pwait EXCEPT ![t] = NoQueue]
      /\ u.link = [s.link EXCEPT ![t] = "reset"]
  BY <1>1 DEF SchedType, task_set_dormant_state
<1>5. SameLists(s, u) /\ u.curr = s.curr /\ u.activate = s.activate
  BY <1>1 DEF SchedType, task_set_dormant_state, SameLists
<1>6. /\ DOMAIN s.priority = AllTasks /\ DOMAIN s.state = AllTasks
      /\ DOMAIN s.tick = AllTasks /\ DOMAIN s.reason = AllTasks
      /\ DOMAIN s.pwait = AllTasks /\ DOMAIN s.link = AllTasks
  BY <1>1 DEF SchedType
<1>7. \A x \in AllTasks \ {t} :
         /\ u.state[x] = s.state[x] /\ u.priority[x] = s.priority[x]
         /\ u.reason[x] = s.reason[x] /\ u.pwait[x] = s.pwait[x]
         /\ u.tick[x] = s.tick[x] /\ u.link[x] = s.link[x]
  BY <1>4, <1>6
<1>8. /\ u.state[t] = "dormant" /\ u.tick[t] = TN_WAIT_INFINITE
      /\ u.priority[t] \in 1 .. TN_NUM_PRIORITY - 2
  BY <1>0, <1>2, <1>4, <1>6
<1>9. Sound(u, {t})
  BY <1>0, <1>3, <1>5, <1>7, <1>8, TcbChange DEF SameLists
<1> QED
  BY <1>5, <1>7, <1>8, <1>9 DEF Only

(* The data is sound when the timer task starts.                           *)
LEMMA StartSound == Sound(tn_start_system, {})
<1> DEFINE s == tn_start_system
           R == {TimerTask, IdleTask}
<1>0. /\ 0 \in Priorities /\ TN_NUM_PRIORITY - 1 \in Priorities
      /\ TN_NUM_PRIORITY - 1 # 0 /\ TimerTask # IdleTask
      /\ TimerTask \in AllTasks /\ IdleTask \in AllTasks
      /\ TimerTask \notin Tasks /\ IdleTask \notin Tasks
      /\ NoQueue \notin WaitQueues
  BY SystemTasks, TasksAssumption, QueueAssumption
<1>1. \A t \in AllTasks : base_priority(t) \in Priorities
  BY SystemTasks
<1>2. base_priority(TimerTask) = 0 /\ base_priority(IdleTask) = TN_NUM_PRIORITY - 1
  BY <1>0 DEF base_priority
<1>3. /\ s.ready = [p \in Priorities |->
                     IF p = 0 THEN <<TimerTask>>
                     ELSE IF p = TN_NUM_PRIORITY - 1 THEN <<IdleTask>> ELSE <<>>]
      /\ s.bmp = {0, TN_NUM_PRIORITY - 1} /\ s.next = TimerTask
      /\ s.curr = TimerTask /\ s.wait = [q \in WaitQueues |-> <<>>]
      /\ s.timeouts = <<>> /\ s.fault = FALSE
      /\ s.state = [t \in AllTasks |-> IF t \in Tasks THEN "dormant" ELSE "runnable"]
      /\ s.priority = [t \in AllTasks |-> base_priority(t)]
      /\ s.tick = [t \in AllTasks |-> TN_WAIT_INFINITE]
      /\ s.pwait = [t \in AllTasks |-> NoQueue]
      /\ s.link = [t \in AllTasks |-> IF t \in Tasks THEN "reset" ELSE "listed"]
  BY DEF tn_start_system
<1>4. SchedType(s)
  <2>1. /\ "dormant" \in TaskStates /\ "runnable" \in TaskStates
        /\ "none" \in WaitReasons /\ "NO_ERR" \in WaitCodes
        /\ TN_WAIT_INFINITE \in Int /\ NoQueue \in WaitQueues \cup {NoQueue}
    BY DEF TaskStates, WaitReasons, WaitCodes, TN_WAIT_INFINITE
  <2>2. /\ <<TimerTask>> \in Seq(AllTasks) /\ <<IdleTask>> \in Seq(AllTasks)
        /\ <<>> \in Seq(AllTasks)
    BY <1>0
  <2>3. {0, TN_NUM_PRIORITY - 1} \in SUBSET Priorities
    BY <1>0
  <2> QED BY <2>1, <2>2, <2>3, <1>0, <1>1 DEF tn_start_system, SchedType
<1> HIDE DEF s
<1>5. Runnables(s, {}) = R /\ Waiters(s, {}) = {} /\ Timed(s, {}) = {}
  BY <1>0, <1>3 DEF Runnables, Waiters, Timed, Waiting, AllTasks
<1>6. Lists(<<>>, {}) /\ \A x : Lists(<<x>>, {x})
  BY DEF Lists, ToSet, IsInjective
<1>7. ReadyFor(s, R)
  <2>1. s.priority[TimerTask] = 0 /\ s.priority[IdleTask] = TN_NUM_PRIORITY - 1
    BY <1>0, <1>2, <1>3
  <2>2. ReadyLists(s, R)
    <3> SUFFICES ASSUME NEW p \in Priorities PROVE Lists(s.ready[p], ReadyAt(s, R, p))
      BY DEF ReadyLists
    <3>1. CASE p = 0
      <4>1. ReadyAt(s, R, p) = {TimerTask} /\ s.ready[p] = <<TimerTask>>
        BY <3>1, <2>1, <1>0, <1>3, ZenonT(30) DEF ReadyAt
      <4> QED BY <4>1, <1>6
    <3>2. CASE p = TN_NUM_PRIORITY - 1
      <4>1. ReadyAt(s, R, p) = {IdleTask}
        BY <3>2, <2>1, <1>0 DEF ReadyAt
      <4>2. p # 0
        BY <3>2, <1>0
      <4>3. s.ready[p] = <<IdleTask>>
        BY <3>2, <4>2, <1>3
      <4> QED BY <4>1, <4>3, <1>6
    <3>3. CASE p # 0 /\ p # TN_NUM_PRIORITY - 1
      <4>1. ReadyAt(s, R, p) = {} /\ s.ready[p] = <<>>
        BY <3>3, <2>1, <1>3 DEF ReadyAt
      <4> QED BY <4>1, <1>6
    <3> QED BY <3>1, <3>2, <3>3
  <2>3. s.bmp = Bits(s)
    <3>1. <<TimerTask>> # <<>> /\ <<IdleTask>> # <<>>
      OBVIOUS
    <3> QED BY <3>1, <1>0, <1>3 DEF Bits
  <2>4. First(s, s.next)
    BY <2>1, <1>0, <1>3, SystemTasks DEF First
  <2> QED BY <2>2, <2>3, <2>4, <1>3 DEF ReadyFor
<1>8. WaitsFor(s, {})
  <2>1. \A q : In(s, {}, q) = {}
    BY DEF In
  <2> QED BY <2>1, <1>3, <1>6 DEF WaitsFor
<1>9. \A x \in AllTasks \ {} : TcbOK(s, x)
  BY <1>3 DEF TcbOK, Waiting
<1>10. SystemOK(s)
  <2>1. \A x \in Tasks : s.priority[x] \in 1 .. TN_NUM_PRIORITY - 2
    BY <1>3, SystemTasks
  <2> QED BY <2>1, <1>0, <1>2, <1>3 DEF SystemOK
<1> QED
  BY <1>3, <1>4, <1>5, <1>6, <1>7, <1>8, <1>9, <1>10 DEF Sound, Rest, s

-----------------------------------------------------------------------------
(* The task services                                                       *)

(* While the timer task scans, it is the running task and has not called   *)
(* tn_switch_context.                                                      *)
ScanOK == scanning => sys.curr = TimerTask /\ TimerTask \notin pending

IInv ==
    /\ TypeOK
    /\ Sound(sys, {})
    /\ OnlyRunnableRuns
    /\ OnlyCreatedScheduled
    /\ ScanOK

-----------------------------------------------------------------------------
(* The tick interrupt                                                      *)

(* What round robin leaves alone                                           *)
SameButReady(s, u) ==
    /\ u.bmp = s.bmp /\ u.next = s.next /\ u.curr = s.curr /\ u.wait = s.wait
    /\ u.timeouts = s.timeouts /\ u.state = s.state /\ u.priority = s.priority
    /\ u.reason = s.reason /\ u.pwait = s.pwait /\ u.tick = s.tick
    /\ u.link = s.link /\ u.fault = s.fault

(* Everything but tn_next_task_to_run, which may no longer be the head of  *)
(* its ready list                                                          *)
SoundButNext(s) ==
    /\ SchedType(s)
    /\ ReadyLists(s, Runnables(s, {}))
    /\ s.bmp = Bits(s)
    /\ Rest(s, {})

(* RoundRobin keeps the lists; only tn_next_task_to_run may be out of      *)
(* date.                                                                   *)
LEMMA RotateSound ==
    ASSUME NEW s, Sound(s, {}), slices \in [Priorities -> Nat],
           NEW u, u = RoundRobin(s)
    PROVE  SoundButNext(u) /\ u.curr = s.curr /\ u.state = s.state
<1> DEFINE t == s.curr
           p == s.priority[t]
           r == s.ready[p]
           rot == IF Len(r) > 1 THEN <<Last(r)>> \o Front(r) ELSE r
           R == Runnables(s, {})
<1>0. u = IF slices[p] = 0 THEN s
          ELSE IF s.tslice[t] + 1 <= slices[p] THEN [s EXCEPT !.tslice[t] = @ + 1]
          ELSE [s EXCEPT !.tslice[t] = 0, !.ready[p] = rot]
  BY DEF RoundRobin
<1>1. SchedType(s) /\ ReadyFor(s, R) /\ Rest(s, {})
  BY DEF Sound
<1>2. /\ t \in AllTasks /\ p \in Priorities /\ r \in Seq(AllTasks)
      /\ s.tslice \in [AllTasks -> Nat] /\ s.ready \in [Priorities -> Seq(AllTasks)]
  <2>1. t \in AllTasks
    BY <1>1 DEF SchedType
  <2> QED BY <2>1, <1>1, Fields DEF SchedType
<1>3. ReadyLists(s, R) /\ s.bmp = Bits(s) /\ Lists(r, ReadyAt(s, R, p))
  BY <1>1, <1>2 DEF ReadyFor, ReadyLists
<1>4. rot \in Seq(AllTasks) /\ Lists(rot, ReadyAt(s, R, p)) /\ (rot = <<>> <=> r = <<>>)
  <2> DEFINE S == ReadyAt(s, R, p)
  <2> HIDE DEF r, S
  <2>1. CASE Len(r) > 1
    <3>1. r # <<>>
      BY <2>1, <1>2, EmptySeq
    <3>2. rot = <<Last(r)>> \o Front(r)
      BY <2>1
    <3>3. <<Last(r)>> \o Front(r) \in Seq(AllTasks) /\ Lists(<<Last(r)>> \o Front(r), S)
      BY <3>1, <1>2, <1>3, ListsRotate DEF S
    <3> HIDE DEF rot
    <3>4. rot # <<>>
      BY <3>1, <3>2, <3>3, <1>2, <1>3, ListsEmpty DEF S
    <3> QED BY <3>1, <3>2, <3>3, <3>4 DEF S
  <2>2. CASE ~(Len(r) > 1)
    BY <2>2, <1>2, <1>3
  <2> QED BY <2>1, <2>2
<1> HIDE DEF rot, R
<1>5. /\ SchedType(u) /\ SameButReady(s, u)
      /\ \A x \in Priorities : Lists(u.ready[x], ReadyAt(s, R, x))
      /\ \A x \in Priorities : u.ready[x] = <<>> <=> s.ready[x] = <<>>
  <2>1. CASE slices[p] = 0
    <3>1. u = s
      BY <2>1, <1>0
    <3> QED BY <3>1, <1>1, <1>3 DEF SameButReady, ReadyLists
  <2>2. CASE slices[p] # 0 /\ s.tslice[t] + 1 <= slices[p]
    <3>1. u = [s EXCEPT !.tslice[t] = @ + 1]
      BY <2>2, <1>0
    <3>2. [s.tslice EXCEPT ![t] = @ + 1] \in [AllTasks -> Nat]
      BY <1>2
    <3>3. SchedType(u)
      BY <3>1, <3>2, <1>1 DEF SchedType
    <3>4. SameButReady(s, u) /\ u.ready = s.ready
      BY <3>1, <1>1 DEF SchedType, SameButReady
    <3> QED BY <3>3, <3>4, <1>3 DEF ReadyLists
  <2>3. CASE slices[p] # 0 /\ ~(s.tslice[t] + 1 <= slices[p])
    <3>1. u = [s EXCEPT !.tslice[t] = 0, !.ready[p] = rot]
      BY <2>3, <1>0
    <3>2. [s.tslice EXCEPT ![t] = 0] \in [AllTasks -> Nat]
      BY <1>2
    <3>3. [s.ready EXCEPT ![p] = rot] \in [Priorities -> Seq(AllTasks)]
      BY <1>2, <1>4
    <3>4. SchedType(u)
      BY <3>1, <3>2, <3>3, <1>1 DEF SchedType
    <3>5. SameButReady(s, u) /\ u.ready = [s.ready EXCEPT ![p] = rot]
      BY <3>1, <1>1 DEF SchedType, SameButReady
    <3> HIDE DEF p, t
    <3>6. \A x \in Priorities : u.ready[x] = IF x = p THEN rot ELSE s.ready[x]
      BY <3>5, <1>2
    <3> QED BY <3>4, <3>5, <3>6, <1>3, <1>4 DEF ReadyLists
  <2> QED BY <2>1, <2>2, <2>3
<1>6. Runnables(u, {}) = R
  BY <1>5 DEF Runnables, SameButReady, R
<1>7. ReadyLists(u, R)
  <2>1. ASSUME NEW x \in Priorities PROVE ReadyAt(u, R, x) = ReadyAt(s, R, x)
    BY <1>5 DEF ReadyAt, SameButReady
  <2> QED BY <2>1, <1>5 DEF ReadyLists
<1>8. u.bmp = Bits(u)
  BY <1>3, <1>5 DEF Bits, SameButReady
<1>9. Rest(u, {})
  <2>1. Waiters(u, {}) = Waiters(s, {}) /\ Timed(u, {}) = Timed(s, {})
    BY <1>5 DEF Waiters, Timed, Waiting, SameButReady
  <2>2. WaitsFor(u, Waiters(u, {}))
    <3>1. WaitsFor(s, Waiters(s, {})) /\ u.wait = s.wait /\ u.pwait = s.pwait
      BY <1>1, <1>5 DEF Rest, SameButReady
    <3> QED BY <3>1, <2>1, SameWaits
  <2>3. \A x \in AllTasks \ {} : TcbOK(u, x)
    BY <1>1, <1>5 DEF Rest, TcbOK, Waiting, SameButReady
  <2>4. SystemOK(u)
    BY <1>1, <1>5 DEF Rest, SystemOK, SameButReady
  <2> QED BY <2>1, <2>2, <2>3, <2>4, <1>1, <1>5 DEF Rest, SameButReady
<1> QED
  BY <1>5, <1>6, <1>7, <1>8, <1>9 DEF SoundButNext, SameButReady

(* The timer task, whatever list it was in, is the only task of priority 0 *)
(* and the next one to run.                                                *)
LEMMA WakeTimerSound ==
    ASSUME NEW s, SoundButNext(s), NEW u, u = WakeTimer(s)
    PROVE  /\ Sound(u, {}) /\ Only(s, u, TimerTask)
           /\ u.next = TimerTask /\ u.state[TimerTask] = "runnable"
<1> DEFINE t == TimerTask
           R == Runnables(s, {})
           W == Waiters(s, {})
           a == queue_remove_entry(s, t)
           Q == R \cup {t}
<1>0. u = [a EXCEPT !.reason[t] = "none", !.state[t] = "runnable",
                    !.pwait[t] = NoQueue, !.rc[t] = "NO_ERR",
                    !.ready[0] = Append(@, t), !.link[t] = "listed",
                    !.bmp = @ \cup {0}, !.next = t]
  BY DEF WakeTimer
<1>1. SchedType(s) /\ ReadyLists(s, R) /\ s.bmp = Bits(s) /\ Rest(s, {}) /\ WaitsFor(s, W)
  BY DEF SoundButNext, Rest
<1>2. t \in AllTasks /\ 0 \in Priorities /\ s.priority[t] = 0 /\ s.tick[t] = TN_WAIT_INFINITE
  BY <1>1, SystemTasks DEF Rest, SystemOK
<1>3. s.link[t] # "stale"
  <2>1. TcbOK(s, t) /\ s.state[t] \in {"runnable", "wait"}
    BY <1>1, <1>2 DEF Rest, SystemOK
  <2> QED BY <2>1 DEF TcbOK, Waiting
<1> HIDE DEF R, W, a
<1>4. /\ SchedType(a)
      /\ SameTcbs(s, a) /\ a.bmp = s.bmp /\ a.next = s.next
      /\ a.fault = s.fault
      /\ ReadyLists(a, R \ {t}) /\ WaitsFor(a, W \ {t})
      /\ OthersKept(s, a, R, t)
  <2> HIDE DEF t, Q
  <2> QED BY <1>1, <1>2, <1>3, RemoveEntry DEF a
<1>5. R \subseteq AllTasks
  BY DEF R, Runnables
<1>6. \A x \in AllTasks : s.priority[x] = 0 => x = t
  BY <1>1, SystemTasks DEF Rest, SystemOK, AllTasks
<1>7. a.priority = s.priority /\ a.tick = s.tick /\ a.timeouts = s.timeouts
      /\ a.state = s.state /\ a.reason = s.reason /\ a.pwait = s.pwait /\ a.curr = s.curr
  BY <1>4 DEF SameTcbs
<1>8. a.ready[0] = <<>> /\ a.ready \in [Priorities -> Seq(AllTasks)]
  <2>1. ReadyAt(a, R \ {t}, 0) = {}
    BY <1>5, <1>6, <1>7 DEF ReadyAt
  <2>2. a.ready \in [Priorities -> Seq(AllTasks)]
    BY <1>4 DEF SchedType
  <2>4. Lists(a.ready[0], {})
    BY <2>1, <1>2, <1>4 DEF ReadyLists
  <2>3. a.ready[0] \in Seq(AllTasks)
    BY <2>2, <1>2
  <2> QED BY <2>2, <2>3, <2>4, ListsEmpty
<1>9. Append(a.ready[0], t) = <<t>> /\ <<t>> \in Seq(AllTasks)
  BY <1>2, <1>8
<1>10. /\ u.ready = [a.ready EXCEPT ![0] = Append(@, t)]
       /\ u.bmp = s.bmp \cup {0} /\ u.next = t
       /\ u.state = [a.state EXCEPT ![t] = "runnable"]
       /\ u.reason = [a.reason EXCEPT ![t] = "none"]
       /\ u.pwait = [a.pwait EXCEPT ![t] = NoQueue]
       /\ u.link = [a.link EXCEPT ![t] = "listed"]
  BY <1>0, <1>4 DEF SchedType
<1>11. /\ u.curr = a.curr /\ u.wait = a.wait /\ u.timeouts = a.timeouts
       /\ u.priority = a.priority /\ u.tick = a.tick /\ u.fault = a.fault
  BY <1>0, <1>4 DEF SchedType
<1>12. SchedType(u)
  <2>1. "runnable" \in TaskStates /\ "none" \in WaitReasons /\ "NO_ERR" \in WaitCodes
    BY DEF TaskStates, WaitReasons, WaitCodes
  <2>2. [a.ready EXCEPT ![0] = Append(@, t)] \in [Priorities -> Seq(AllTasks)]
    BY <1>2, <1>8, <1>9
  <2>3. /\ a.state \in [AllTasks -> TaskStates] /\ a.reason \in [AllTasks -> WaitReasons]
        /\ a.pwait \in [AllTasks -> WaitQueues \cup {NoQueue}]
        /\ a.rc \in [AllTasks -> WaitCodes] /\ a.bmp \in SUBSET Priorities
        /\ a.link \in [AllTasks -> {"listed", "reset", "stale"}]
    BY <1>4 DEF SchedType
  <2> HIDE DEF t
  <2>4. /\ [a.state EXCEPT ![t] = "runnable"] \in [AllTasks -> TaskStates]
        /\ [a.reason EXCEPT ![t] = "none"] \in [AllTasks -> WaitReasons]
        /\ [a.pwait EXCEPT ![t] = NoQueue] \in [AllTasks -> WaitQueues \cup {NoQueue}]
        /\ [a.rc EXCEPT ![t] = "NO_ERR"] \in [AllTasks -> WaitCodes]
        /\ [a.link EXCEPT ![t] = "listed"] \in [AllTasks -> {"listed", "reset", "stale"}]
    BY <2>1, <2>3, <1>2
  <2>5. a.bmp \cup {0} \in SUBSET Priorities
    BY <2>3, <1>2
  <2>6. SchedType(a)
    BY <1>4
  <2> DEFINE b == [a EXCEPT !.ready[0] = Append(@, t), !.link[t] = "listed",
                            !.bmp = @ \cup {0}, !.next = t]
             c == [b EXCEPT !.reason[t] = "none", !.state[t] = "runnable",
                            !.pwait[t] = NoQueue, !.rc[t] = "NO_ERR"]
  <2>7. SchedType(b)
    BY <2>2, <2>4, <2>5, <2>6, <1>2 DEF SchedType
  <2>8. b.reason = a.reason /\ b.state = a.state /\ b.pwait = a.pwait /\ b.rc = a.rc
    BY <2>6 DEF SchedType
  <2>9. u = c
    BY <2>6, <1>0, ZenonT(40) DEF SchedType
  <2> HIDE DEF b
  <2>10. SchedType(c)
    BY <2>4, <2>7, <2>8 DEF SchedType
  <2> QED BY <2>9, <2>10
<1>13. /\ DOMAIN a.state = AllTasks /\ DOMAIN a.reason = AllTasks
       /\ DOMAIN a.pwait = AllTasks /\ DOMAIN a.link = AllTasks
  BY <1>4 DEF SchedType
<1>14. /\ \A x \in AllTasks \ {t} : SameFor(s, u, x)
       /\ u.state[t] = "runnable" /\ u.pwait[t] = NoQueue /\ u.link[t] = "listed"
       /\ u.tick[t] = TN_WAIT_INFINITE
  BY <1>2, <1>4, <1>7, <1>10, <1>11, <1>13 DEF SameFor, OthersKept
<1>15. /\ u.ready[0] = <<t>>
       /\ \A r \in Priorities : r # 0 => u.ready[r] = a.ready[r]
       /\ \A r \in Priorities : r # 0 => a.ready[r] = s.ready[r]
  BY <1>2, <1>4, <1>8, <1>9, <1>10 DEF OthersKept
<1>16. ReadyLists(u, Q)
  <2> SUFFICES ASSUME NEW r \in Priorities PROVE Lists(u.ready[r], ReadyAt(u, Q, r))
    BY DEF ReadyLists
  <2>1. CASE r = 0
    <3>1. ReadyAt(u, Q, r) = {t}
      BY <2>1, <1>2, <1>5, <1>6, <1>7, <1>11 DEF ReadyAt
    <3>2. Lists(<<t>>, {t})
      BY DEF Lists, ToSet, IsInjective
    <3> QED BY <3>1, <3>2, <2>1, <1>15
  <2>2. CASE r # 0
    <3>1. ReadyAt(u, Q, r) = ReadyAt(a, R \ {t}, r)
      BY <2>2, <1>2, <1>7, <1>11 DEF ReadyAt
    <3> QED BY <3>1, <2>2, <1>4, <1>15 DEF ReadyLists
  <2> QED BY <2>1, <2>2
<1>17. u.bmp = Bits(u)
  <2>1. <<t>> # <<>>
    OBVIOUS
  <2>2. \A r \in Priorities : r \in s.bmp <=> s.ready[r] # <<>>
    BY <1>1 DEF Bits
  <2>3. s.bmp \subseteq Priorities
    BY <1>1 DEF Bits
  <2>4. \A r \in Priorities : r \in u.bmp <=> u.ready[r] # <<>>
    BY <2>1, <2>2, <1>10, <1>15
  <2> QED BY <2>3, <2>4, <1>2, <1>10 DEF Bits
<1>18. First(u, u.next)
  <2>1. u.priority[t] = 0 /\ u.ready[0][1] = t
    BY <1>2, <1>7, <1>11, <1>15
  <2>2. \A r \in u.bmp : 0 <= r
    BY <1>17 DEF Bits, Priorities
  <2> QED BY <2>1, <2>2, <1>10 DEF First
<1>19. Runnables(u, {}) = Q
  BY <1>2, <1>14 DEF Runnables, SameFor, R
<1>20. ReadyFor(u, Runnables(u, {}))
  <2>1. u.next \in Q
    BY <1>10
  <2> HIDE DEF Q
  <2> QED BY <2>1, <1>16, <1>17, <1>18, <1>19 DEF ReadyFor
<1>21. Waiters(u, {}) = W \ {t} /\ Timed(u, {}) = Timed(s, {})
  BY <1>2, <1>14 DEF Waiters, Timed, Waiting, SameFor, W
<1>22. WaitsFor(u, Waiters(u, {}))
  <2>1. \A x \in W \ {t} : u.pwait[x] = a.pwait[x]
    BY <1>7, <1>14 DEF SameFor, W, Waiters
  <2> QED BY <2>1, <1>4, <1>11, <1>21, SameWaits
<1>23. \A x \in AllTasks \ {} : TcbOK(u, x)
  <2>1. TcbOK(u, t)
    BY <1>14 DEF TcbOK, Waiting
  <2>2. \A x \in AllTasks \ {t} : TcbOK(u, x)
    BY <1>1, <1>14 DEF Rest, TcbOK, Waiting, SameFor
  <2> QED BY <2>1, <2>2
<1>24. SystemOK(u)
  BY <1>1, <1>7, <1>11, <1>14, SystemTasks DEF Rest, SystemOK, SameFor
<1>25. u.fault = FALSE /\ Lists(u.timeouts, Timed(u, {}))
  BY <1>1, <1>4, <1>7, <1>11, <1>21 DEF Rest
<1>26. Sound(u, {})
  BY <1>12, <1>20, <1>22, <1>23, <1>24, <1>25 DEF Sound, Rest
<1> QED
  BY <1>7, <1>10, <1>11, <1>14, <1>26 DEF Only, SameFor

-----------------------------------------------------------------------------
(* Changes of fields that no list depends on                               *)

(* u differs from s in nothing but counters and return codes.              *)
SameButCounters(s, u) ==
    /\ SameLists(s, u)
    /\ u.curr = s.curr /\ u.state = s.state /\ u.priority = s.priority
    /\ u.reason = s.reason /\ u.pwait = s.pwait /\ u.tick = s.tick
    /\ u.link = s.link

(* The counters of a TCB are no part of the lists.                         *)
LEMMA SoundCounters ==
    ASSUME NEW s, NEW X, Sound(s, X), NEW u, SchedType(u), SameButCounters(s, u)
    PROVE  Sound(u, X)
<1>1. SameLists(s, u) /\ \A x \in AllTasks : SameFor(s, u, x)
  BY DEF SameButCounters, SameFor
<1> QED
  BY <1>1, SoundSame

(* CountWakeup keeps the scheduler sound.                                  *)
LEMMA SetWakeup ==
    ASSUME NEW s, NEW X, Sound(s, X), NEW t \in AllTasks, NEW n \in Nat,
           NEW u, u = [s EXCEPT !.wakeup[t] = n]
    PROVE  Sound(u, X) /\ SameButCounters(s, u)
<1>1. SchedType(s)
  BY DEF Sound
<1>2. [s.wakeup EXCEPT ![t] = n] \in [AllTasks -> Nat]
  BY <1>1 DEF SchedType
<1>3. SchedType(u)
  BY <1>1, <1>2 DEF SchedType
<1>4. SameButCounters(s, u)
  BY <1>1 DEF SchedType, SameButCounters, SameLists
<1> QED
  BY <1>3, <1>4, SoundCounters

(* A counted activation request keeps the scheduler sound.                 *)
LEMMA SetActivate ==
    ASSUME NEW s, NEW X, Sound(s, X), NEW t \in AllTasks, NEW n \in Nat,
           NEW u, u = [s EXCEPT !.activate[t] = n]
    PROVE  Sound(u, X) /\ SameButCounters(s, u) /\ u.activate[t] = n
<1>1. SchedType(s)
  BY DEF Sound
<1>2. [s.activate EXCEPT ![t] = n] \in [AllTasks -> Nat]
  BY <1>1 DEF SchedType
<1>3. SchedType(u)
  BY <1>1, <1>2 DEF SchedType
<1>4. SameButCounters(s, u) /\ u.activate[t] = n
  BY <1>1 DEF SchedType, SameButCounters, SameLists
<1> QED
  BY <1>3, <1>4, SoundCounters

(* A completion code keeps the scheduler sound.                            *)
LEMMA SetCode ==
    ASSUME NEW s, NEW X, Sound(s, X), NEW t \in AllTasks, NEW c \in WaitCodes,
           NEW u, u = [s EXCEPT !.rc[t] = c]
    PROVE  Sound(u, X) /\ SameButCounters(s, u)
<1>1. SchedType(s)
  BY DEF Sound
<1>2. [s.rc EXCEPT ![t] = c] \in [AllTasks -> WaitCodes]
  BY <1>1 DEF SchedType
<1>3. SchedType(u)
  BY <1>1, <1>2 DEF SchedType
<1>4. SameButCounters(s, u)
  BY <1>1 DEF SchedType, SameButCounters, SameLists
<1> QED
  BY <1>3, <1>4, SoundCounters

(* The context switch loads tn_next_task_to_run, which is runnable.        *)
LEMMA SwitchTo ==
    ASSUME NEW s, Sound(s, {}), NEW u, u = [s EXCEPT !.curr = s.next]
    PROVE  /\ Sound(u, {}) /\ u.state = s.state
           /\ u.curr = s.next /\ u.state[u.curr] = "runnable"
<1>1. SchedType(s) /\ s.next \in AllTasks /\ s.state[s.next] = "runnable"
  <2>1. SchedType(s) /\ s.next \in Runnables(s, {})
    BY DEF Sound, ReadyFor
  <2> QED BY <2>1 DEF Runnables
<1>2. SchedType(u)
  BY <1>1 DEF SchedType
<1>3. /\ SameLists(s, u) /\ u.curr = s.next
      /\ u.state = s.state /\ u.priority = s.priority /\ u.reason = s.reason
      /\ u.pwait = s.pwait /\ u.tick = s.tick /\ u.link = s.link
  BY <1>1 DEF SchedType, SameLists
<1>4. \A x \in AllTasks : SameFor(s, u, x)
  BY <1>3 DEF SameFor
<1> QED
  BY <1>1, <1>2, <1>3, <1>4, SoundSame

(* The state of a task of the application that only gains or loses the     *)
(* suspension, while it waits.                                             *)
LEMMA SetWaitState ==
    ASSUME NEW s, Sound(s, {}), NEW t \in Tasks, Waiting(s, t),
           NEW x \in {"wait", "waitsusp"}, NEW u, u = [s EXCEPT !.state[t] = x]
    PROVE  Sound(u, {}) /\ Only(s, u, t)
<1>0. t \in AllTasks /\ SchedType(s) /\ SystemOK(s) /\ x \in TaskStates
  BY SystemTasks DEF Sound, Rest, TaskStates
<1>1. [s.state EXCEPT ![t] = x] \in [AllTasks -> TaskStates]
  BY <1>0 DEF SchedType
<1>2. SchedType(u)
  BY <1>0, <1>1 DEF SchedType
<1>3. /\ SameLists(s, u) /\ u.curr = s.curr
      /\ u.state = [s.state EXCEPT ![t] = x] /\ u.priority = s.priority
      /\ u.reason = s.reason /\ u.pwait = s.pwait /\ u.tick = s.tick /\ u.link = s.link
  BY <1>0 DEF SchedType, SameLists
<1>4. DOMAIN s.state = AllTasks
  BY <1>0 DEF SchedType
<1>5. SameOthers(s, u, t) /\ u.state[t] = x
  BY <1>0, <1>3, <1>4 DEF SameOthers, SameFor
<1>6. Waiting(u, t) /\ u.state[t] # "runnable" /\ s.state[t] # "runnable"
  BY <1>5 DEF Waiting
<1>7. u.priority[t] \in 1 .. TN_NUM_PRIORITY - 2
  BY <1>0, <1>3 DEF SystemOK
<1>8. Sound(u, {})
  BY <1>2, <1>3, <1>5, <1>6, <1>7, TcbTweak
<1> QED
  BY <1>3, <1>5, <1>8 DEF Only, SameOthers, SameFor

-----------------------------------------------------------------------------
(* The parts of the services that call more than one routine               *)

(* One entry of the timeout list: nothing happens, or a waiting task of    *)
(* the application has one tick less or stops waiting.                     *)
LEMMA ExpireSound ==
    ASSUME NEW s, Sound(s, {}), NEW t \in AllTasks, NEW u, u = Expire(s, t)
    PROVE  /\ Sound(u, {}) /\ Only(s, u, t)
           /\ u = s \/ (t \in Tasks /\ Waiting(s, t))
<1> DEFINE d == [s EXCEPT !.tick[t] = @ - 1]
           w == task_wait_complete(d, t, TRUE)
<1>0. u = IF s.tick[t] <= 0 THEN s
          ELSE IF s.tick[t] = 1 THEN [w EXCEPT !.rc[t] = "TIMEOUT"] ELSE d
  BY DEF Expire
<1>1. SchedType(s) /\ SystemOK(s) /\ TcbOK(s, t) /\ s.tick \in [AllTasks -> Int]
  BY DEF Sound, Rest, SchedType
<1>2. CASE s.tick[t] <= 0
  <2>1. u = s
    BY <1>0, <1>2
  <2> QED BY <2>1 DEF Only
<1>3. CASE s.tick[t] > 0
  <2>0. s.tick[t] \in Int /\ TN_WAIT_INFINITE = -1
    BY <1>1 DEF TN_WAIT_INFINITE
  <2>1. s.tick[t] # TN_WAIT_INFINITE /\ s.tick[t] - 1 # TN_WAIT_INFINITE
    BY <2>0, <1>3
  <2>2. Waiting(s, t) /\ t \in Tasks
    BY <2>1, <1>1 DEF TcbOK, SystemOK, Waiting, AllTasks
  <2>3. [s.tick EXCEPT ![t] = @ - 1] \in [AllTasks -> Int]
    BY <2>0, <1>1
  <2>4. SchedType(d)
    BY <2>3, <1>1 DEF SchedType
  <2>5. /\ SameLists(s, d) /\ d.curr = s.curr /\ d.state = s.state
        /\ d.tick = [s.tick EXCEPT ![t] = @ - 1] /\ d.priority = s.priority
        /\ d.reason = s.reason /\ d.pwait = s.pwait /\ d.link = s.link
    BY <1>1 DEF SchedType, SameLists
  <2> HIDE DEF d
  <2>6. SameOthers(s, d, t) /\ d.tick[t] = s.tick[t] - 1
    BY <2>5, <1>1 DEF SameOthers, SameFor
  <2>7. Waiting(d, t) /\ d.priority[t] \in 1 .. TN_NUM_PRIORITY - 2
    BY <2>2, <2>5, <1>1 DEF Waiting, SystemOK
  <2>8. Sound(d, {}) /\ Only(s, d, t)
    <3>1. Sound(d, {})
      BY <2>1, <2>2, <2>4, <2>5, <2>6, <2>7, TcbTweak
    <3> QED BY <3>1, <2>5 DEF Only
  <2>9. CASE s.tick[t] = 1
    <3>1. Sound(w, {}) /\ Only(d, w, t)
      BY <2>2, <2>7, <2>8, WaitComplete
    <3>2. u = [w EXCEPT !.rc[t] = "TIMEOUT"] /\ "TIMEOUT" \in WaitCodes
      BY <2>9, <1>0 DEF WaitCodes
    <3> HIDE DEF w
    <3>3. Sound(u, {}) /\ SameButCounters(w, u)
      BY <3>1, <3>2, SetCode
    <3>4. Only(s, u, t)
      BY <3>1, <3>3, <2>8 DEF Only, SameButCounters
    <3> QED BY <3>3, <3>4, <2>2
  <2>10. CASE s.tick[t] # 1
    <3>1. u = d
      BY <2>10, <1>0, <1>3, <2>0
    <3> QED BY <3>1, <2>2, <2>8
  <2> QED BY <2>9, <2>10
<1> QED
  BY <1>1, <1>2, <1>3

(* A task that is in no list is reset and, if that is asked for, started   *)
(* again.                                                                  *)
LEMMA RestartSound ==
    ASSUME NEW s, NEW t \in Tasks, Sound(s, {t}), NEW u, u = Restart(s, t)
    PROVE  /\ Sound(u, {}) /\ Only(s, u, t)
           /\ u.state[t] \in {"dormant", "runnable"}
           /\ s.activate[t] = 0 => u.state[t] = "dormant"
           /\ u.state[t] # "runnable" => u.next = s.next
<1> DEFINE d == task_set_dormant_state(s, t)
           e == [d EXCEPT !.activate[t] = @ - 1]
<1>0. u = IF d.activate[t] > 0 THEN task_to_runnable(e, t) ELSE d
  BY DEF Restart
<1>1. t \in AllTasks
  BY SystemTasks
<1>2. /\ Sound(d, {t}) /\ Only(s, d, t)
      /\ d.state[t] = "dormant" /\ d.tick[t] = TN_WAIT_INFINITE
      /\ d.activate = s.activate
  BY SetDormant
<1>n. d.next = s.next
  <2>1. SchedType(s)
    BY DEF Sound
  <2> QED BY <2>1 DEF task_set_dormant_state, SchedType
<1> HIDE DEF d
<1>3. d.activate[t] \in Nat
  BY <1>1, <1>2 DEF Sound, SchedType
<1>4. CASE d.activate[t] > 0
  <2>1. d.activate[t] - 1 \in Nat
    BY <1>3, <1>4
  <2>2. e = [d EXCEPT !.activate[t] = d.activate[t] - 1]
    OBVIOUS
  <2>3. Sound(e, {t}) /\ SameButCounters(d, e)
    <3> HIDE DEF e
    <3> QED BY <2>1, <2>2, <1>1, <1>2, SetActivate
  <2>4. e.tick[t] = TN_WAIT_INFINITE /\ u = task_to_runnable(e, t)
    BY <2>3, <1>0, <1>2, <1>4 DEF SameButCounters
  <2> HIDE DEF e
  <2>5. Sound(u, {}) /\ Only(e, u, t) /\ u.state[t] = "runnable"
    BY <2>3, <2>4, <1>1, PutReady
  <2>6. Only(s, u, t)
    BY <2>3, <2>5, <1>2 DEF Only, SameButCounters
  <2> QED BY <2>5, <2>6, <1>2, <1>3, <1>4
<1>5. CASE ~(d.activate[t] > 0)
  <2>1. u = d
    BY <1>0, <1>5
  <2>2. Sound(u, {})
    BY <2>1, <1>1, <1>2, Include
  <2> QED BY <2>1, <2>2, <1>2, <1>n
<1> QED
  BY <1>4, <1>5

(* A task that is not dormant leaves the list it is in.                    *)
LEMMA DetachSound ==
    ASSUME NEW s, Sound(s, {}), NEW t \in Tasks, s.state[t] # "dormant",
           NEW u, u = Detach(s, t)
    PROVE  Sound(u, {t}) /\ Only(s, u, t)
<1>0. t \in AllTasks /\ t # IdleTask /\ t # TimerTask
  BY TasksAssumption, SystemTasks
<1>1. SchedType(s)
  BY DEF Sound
<1>2. CASE s.state[t] = "runnable"
  <2>1. u = task_to_non_runnable(s, t)
    BY <1>2 DEF Detach
  <2>2. SameLists(s, s) /\ SameOthers(s, s, t)
    BY DEF SameLists, SameOthers, SameFor
  <2>3. Sound(u, {t}) /\ SameTcbs(s, u)
    BY <2>1, <2>2, <1>0, <1>1, <1>2, TakeReady
  <2> QED BY <2>3 DEF SameTcbs, Only
<1>3. CASE Waiting(s, t)
  <2>0. queue_remove_entry(s, t).timeouts = s.timeouts
    BY <1>1 DEF queue_remove_entry, SchedType
  <2>1. u = Unwait(s, t, TRUE)
    <3> DEFINE a == queue_remove_entry(s, t)
    <3>1. u = [a EXCEPT !.timeouts = IF s.tick[t] = TN_WAIT_INFINITE THEN @
                                     ELSE RemoveFirst(@, t)]
      BY <1>3 DEF Detach, Waiting
    <3>2. Unwait(s, t, TRUE) = OffTimeouts(s, a, t)
      BY DEF Unwait
    <3> HIDE DEF a
    <3>3. a.timeouts = s.timeouts
      BY <2>0 DEF a
    <3> QED BY <3>1, <3>2, <3>3 DEF OffTimeouts
  <2>2. Sound(u, {t}) /\ SameTcbFields(s, u)
    BY <2>1, <1>0, <1>3, TakeWaiting
  <2> QED BY <2>2 DEF SameTcbFields, Only
<1>4. CASE s.state[t] = "suspend"
  <2>1. u = s
    BY <1>4 DEF Detach, Waiting
  <2> QED BY <2>1, <1>0, <1>4, Exclude DEF Only
<1>5. s.state[t] \in TaskStates
  BY <1>0, <1>1 DEF SchedType
<1> QED
  BY <1>2, <1>3, <1>4, <1>5 DEF TaskStates, Waiting

-----------------------------------------------------------------------------
(* The invariant, step by step                                             *)

(* The types of the variables other than sys *)
OtherTypes ==
    /\ pending \in SUBSET AllTasks
    /\ masked \in SUBSET Tasks
    /\ created \in SUBSET Tasks
    /\ revived \in SUBSET Tasks
    /\ slices \in [Priorities -> Nat]
    /\ booted \in BOOLEAN
    /\ scanning \in BOOLEAN
    /\ cursor \in Seq(AllTasks)
    /\ skipped \in BOOLEAN

(* What a service may assume of the running task *)
LEMMA RunningTask ==
    ASSUME IInv, sys.curr \in Tasks, sys.curr \notin pending
    PROVE  /\ sys.state[sys.curr] = "runnable" /\ sys.curr \in created \cup revived
           /\ ~scanning
<1>1. sys.state[sys.curr] = "runnable"
  BY DEF IInv, OnlyRunnableRuns
<1>2. ~scanning
  BY TasksAssumption DEF IInv, ScanOK
<1> QED
  BY <1>1, <1>2 DEF IInv, OnlyCreatedScheduled

(* A step that changes the state of one existing task and does not switch *)
LEMMA ServiceStep ==
    ASSUME IInv, NEW t \in created \cup revived, Sound(sys', {}), Only(sys, sys', t),
           created' = created, revived' = revived, pending \subseteq pending',
           t = sys.curr => t \in pending' \/ sys'.state[t] = "runnable",
           OtherTypes', ScanOK'
    PROVE  IInv'
<1>1. TypeOK'
  BY DEF Sound, OtherTypes, TypeOK
<1>2. sys.curr \in AllTasks /\ Tasks \subseteq AllTasks
  BY SystemTasks DEF IInv, Sound, SchedType
<1>3. OnlyRunnableRuns'
  BY <1>2 DEF IInv, OnlyRunnableRuns, Only
<1>4. OnlyCreatedScheduled'
  BY <1>2 DEF IInv, OnlyCreatedScheduled, Only
<1> QED
  BY <1>1, <1>3, <1>4 DEF IInv

(* A step after which tn_next_task_to_run is the running task *)
LEMMA SwitchStep ==
    ASSUME IInv, NEW s, Sound(s, {}), sys' = [s EXCEPT !.curr = s.next],
           \A x \in Tasks : s.state[x] # "dormant" => x \in created' \cup revived',
           OtherTypes', ~scanning'
    PROVE  IInv'
<1>1. /\ Sound(sys', {}) /\ sys'.state = s.state
      /\ sys'.state[sys'.curr] = "runnable"
  <2>1. \A u : u = [s EXCEPT !.curr = s.next] =>
           /\ Sound(u, {}) /\ u.state = s.state /\ u.state[u.curr] = "runnable"
    BY SwitchTo
  <2> QED BY <2>1
<1>2. TypeOK'
  BY <1>1 DEF Sound, OtherTypes, TypeOK
<1> QED
  BY <1>1, <1>2 DEF IInv, OnlyRunnableRuns, OnlyCreatedScheduled, ScanOK

(* An interrupt that changes the state of one existing task *)
LEMMA IsrStep ==
    ASSUME IInv, ~scanning, NEW t \in created \cup revived, NEW s, Sound(s, {}), Only(sys, s, t),
           t = sys.curr => t \in pending \/ s.state[t] = "runnable",
           NEW request \in BOOLEAN, tn_cpu_irq_isr(s, request),
           UNCHANGED <<pending, masked, created, revived, slices, booted, cursor, scanning>>
    PROVE  IInv'
<1>1. OtherTypes' /\ ~scanning'
  BY DEF IInv, TypeOK, OtherTypes, tn_cpu_irq_isr
<1>2. CASE request
  <2>1. sys' = [s EXCEPT !.curr = s.next]
    BY <1>2 DEF tn_cpu_irq_isr
  <2>2. \A x \in Tasks : s.state[x] # "dormant" => x \in created' \cup revived'
    BY SystemTasks DEF IInv, OnlyCreatedScheduled, Only
  <2> QED BY <2>1, <2>2, <1>1, SwitchStep
<1>3. CASE ~request
  <2>1. sys' = s /\ created' = created /\ revived' = revived /\ pending' = pending /\ ScanOK'
    BY <1>1, <1>3 DEF tn_cpu_irq_isr, ScanOK
  <2> QED BY <2>1, <1>1, ServiceStep
<1> QED
  BY <1>2, <1>3

(* A step of tn_task_create preserves the inductive invariant.             *)
LEMMA CreateStep ==
    ASSUME IInv, NEW t \in Tasks, NEW start \in BOOLEAN, tn_task_create(t, start)
    PROVE  IInv'
<1> DEFINE a == [sys EXCEPT !.activate[t] = 0]
           d == task_set_dormant_state(a, t)
           s == IF start THEN task_to_runnable(d, t) ELSE d
<1>a. /\ created' = created \cup {t} /\ skipped' \in BOOLEAN
      /\ UNCHANGED <<revived, pending, masked, slices, booted, cursor, scanning>>
      /\ IF sys.state[t] = "dormant" THEN sys' = s ELSE UNCHANGED <<sys, skipped>>
  BY DEF tn_task_create, IInv, TypeOK
<1>b. CASE sys.state[t] # "dormant"
  BY <1>a, <1>b DEF IInv, TypeOK, OnlyRunnableRuns, OnlyCreatedScheduled, ScanOK
<1> SUFFICES ASSUME sys.state[t] = "dormant" PROVE IInv'
  BY <1>b
<1>0. /\ created' = created \cup {t} /\ sys' = s /\ skipped' \in BOOLEAN
      /\ UNCHANGED <<revived, pending, masked, slices, booted, cursor, scanning>>
  BY <1>a
<1>1. Sound(sys, {}) /\ sys.state[t] = "dormant" /\ t \in AllTasks
  BY SystemTasks DEF IInv
<1>2. Sound(sys, {t})
  BY <1>1, Exclude
<1>3. Sound(a, {t}) /\ SameButCounters(sys, a)
  BY <1>1, <1>2, SetActivate
<1> HIDE DEF a
<1>4. /\ Sound(d, {t}) /\ Only(a, d, t)
      /\ d.state[t] = "dormant" /\ d.tick[t] = TN_WAIT_INFINITE
  BY <1>3, SetDormant
<1> HIDE DEF d
<1>5. Sound(s, {}) /\ Only(d, s, t)
  <2>1. CASE start
    BY <2>1, <1>1, <1>4, PutReady
  <2>2. CASE ~start
    BY <2>2, <1>1, <1>4, Include DEF Only
  <2> QED BY <2>1, <2>2
<1>6. Only(sys, s, t)
  BY <1>3, <1>4, <1>5 DEF Only, SameButCounters
<1> HIDE DEF s
<1>7. OnlyRunnableRuns'
  <2>1. sys.curr \in AllTasks
    BY DEF IInv, TypeOK, SchedType
  <2> QED BY <2>1, <1>0, <1>1, <1>6 DEF IInv, OnlyRunnableRuns, Only
<1>8. OnlyCreatedScheduled'
  BY <1>0, <1>6, SystemTasks DEF IInv, OnlyCreatedScheduled, Only
<1>9. TypeOK'
  BY <1>0, <1>5 DEF IInv, TypeOK, Sound
<1> QED
  BY <1>0, <1>5, <1>6, <1>7, <1>8, <1>9 DEF IInv, ScanOK, Only

(* A step of tn_task_suspend preserves the inductive invariant.            *)
LEMMA SuspendStep ==
    ASSUME IInv, NEW t \in Tasks, tn_task_suspend(t)
    PROVE  IInv'
<1>0. /\ t \in created /\ created' = created /\ revived' = revived /\ ~Suspended(sys, t)
      /\ sys.state[t] # "dormant" /\ Sound(sys, {})
      /\ UNCHANGED <<masked, slices, booted, cursor, scanning, skipped>>
  BY DEF tn_task_suspend, IInv
<1>1. sys.curr \in Tasks /\ sys.curr \in AllTasks /\ ~scanning
  BY RunningTask, SystemTasks DEF tn_task_suspend, Calls
<1>2. t \in AllTasks /\ t # IdleTask /\ t # TimerTask /\ SchedType(sys)
  BY TasksAssumption, SystemTasks DEF IInv, TypeOK
<1>3. ASSUME pending' \in {pending, pending \cup {sys.curr}}
      PROVE  OtherTypes' /\ ScanOK' /\ pending \subseteq pending'
  BY <1>0, <1>1, <1>3 DEF IInv, TypeOK, OtherTypes, ScanOK
<1>4. CASE sys.state[t] = "runnable"
  <2> DEFINE v == [sys EXCEPT !.state[t] = "suspend"]
             s == task_to_non_runnable(v, t)
  <2>1. sys' = s /\ SwitchIfNeeded(s)
    BY <1>4 DEF tn_task_suspend
  <2>2. "suspend" \in TaskStates /\ sys.state \in [AllTasks -> TaskStates]
    BY <1>2 DEF TaskStates, SchedType
  <2>3. [sys.state EXCEPT ![t] = "suspend"] \in [AllTasks -> TaskStates]
    BY <2>2
  <2>4. SchedType(v)
    BY <2>3, <1>2 DEF SchedType
  <2>5. /\ SameLists(sys, v) /\ v.state = [sys.state EXCEPT ![t] = "suspend"]
        /\ v.curr = sys.curr /\ v.priority = sys.priority /\ v.tick = sys.tick
        /\ v.reason = sys.reason /\ v.pwait = sys.pwait /\ v.link = sys.link
    BY <1>2 DEF SchedType, SameLists
  <2> HIDE DEF v
  <2>6. SameOthers(sys, v, t) /\ v.state[t] = "suspend"
    BY <2>2, <2>5, <1>2 DEF SameOthers, SameFor
  <2>7. Sound(s, {t}) /\ SameTcbs(v, s)
    BY <2>4, <2>5, <2>6, <1>0, <1>2, <1>4, TakeReady
  <2> HIDE DEF s
  <2>8. TcbOK(sys, t)
    BY <1>0, <1>2 DEF Sound, Rest
  <2>9. s.state[t] = "suspend" /\ s.tick[t] = TN_WAIT_INFINITE
    BY <2>5, <2>6, <2>7, <2>8, <1>4 DEF SameTcbs, TcbOK, Waiting
  <2>10. Sound(s, {})
    BY <2>7, <2>9, <1>2, Include
  <2>11. Only(sys, s, t)
    BY <2>5, <2>6, <2>7 DEF Only, SameTcbs, SameOthers, SameFor
  <2>12. pending' \in {pending, pending \cup {sys.curr}}
    BY <2>1, <2>11 DEF SwitchIfNeeded, Only
  <2>13. t = sys.curr => t \in pending'
    <3>1. s.state[s.next] = "runnable"
      BY <2>10 DEF Sound, ReadyFor, Runnables
    <3> QED BY <3>1, <2>1, <2>9, <2>11 DEF SwitchIfNeeded, Only
  <2> QED BY <2>1, <2>10, <2>11, <2>12, <2>13, <1>0, <1>3, ServiceStep
<1>5. CASE sys.state[t] # "runnable"
  <2>1. sys' = [sys EXCEPT !.state[t] = "waitsusp"] /\ pending' = pending
    BY <1>5 DEF tn_task_suspend
  <2>2. Waiting(sys, t)
    <3>1. sys.state[t] \in TaskStates
      BY <1>2 DEF SchedType
    <3> QED BY <3>1, <1>0, <1>5 DEF TaskStates, Waiting, Suspended
  <2>3. \A u : u = [sys EXCEPT !.state[t] = "waitsusp"] => Sound(u, {}) /\ Only(sys, u, t)
    BY <2>2, <1>0, SetWaitState
  <2>4. Sound(sys', {}) /\ Only(sys, sys', t)
    BY <2>1, <2>3
  <2>5. t = sys.curr => t \in pending'
    BY <2>1, <1>5 DEF IInv, OnlyRunnableRuns
  <2> QED BY <2>1, <2>4, <2>5, <1>0, <1>3, ServiceStep
<1> QED
  BY <1>4, <1>5

(* A service of a task that changes at most the state of task t, and adds  *)
(* at most its caller to the tasks about to switch.                        *)
LEMMA CallStep ==
    ASSUME IInv, sys.curr \in Tasks \ (pending \cup masked), NEW t \in created \cup revived,
           Sound(sys', {}), Only(sys, sys', t),
           pending' \in {pending, pending \cup {sys.curr}},
           t = sys.curr => t \in pending' \/ sys'.state[t] = "runnable",
           UNCHANGED <<masked, created, revived, slices, booted, cursor, scanning, skipped>>
    PROVE  IInv'
<1>1. sys.curr \in AllTasks /\ ~scanning
  BY RunningTask, SystemTasks
<1>2. OtherTypes' /\ ScanOK' /\ pending \subseteq pending'
  BY <1>1 DEF IInv, TypeOK, OtherTypes, ScanOK
<1> QED
  BY <1>2, ServiceStep

(* task_to_runnable applied to a dormant or suspended task *)
LEMMA StartTask ==
    ASSUME NEW s, Sound(s, {}), NEW t \in Tasks,
           s.state[t] \in {"dormant", "suspend"},
           NEW u, u = task_to_runnable(s, t)
    PROVE  Sound(u, {}) /\ Only(s, u, t) /\ u.state[t] = "runnable"
<1>1. t \in AllTasks
  BY SystemTasks
<1>2. Sound(s, {t}) /\ s.tick[t] = TN_WAIT_INFINITE
  BY <1>1, Exclude
<1> QED
  BY <1>1, <1>2, PutReady

(* A step of tn_task_resume preserves the inductive invariant.             *)
LEMMA ResumeStep ==
    ASSUME IInv, NEW t \in Tasks, tn_task_resume(t)
    PROVE  IInv'
<1>0. /\ t \in created /\ Suspended(sys, t) /\ Sound(sys, {})
      /\ sys.curr \in Tasks \ (pending \cup masked)
      /\ UNCHANGED <<masked, created, revived, slices, booted, cursor, scanning, skipped>>
  BY DEF tn_task_resume, Calls, IInv
<1>1. CASE ~Waiting(sys, t)
  <2> DEFINE s == task_to_runnable(sys, t)
  <2>1. sys' = s /\ SwitchIfNeeded(s)
    BY <1>1 DEF tn_task_resume
  <2>2. sys.state[t] \in {"dormant", "suspend"}
    BY <1>0, <1>1 DEF Suspended, Waiting
  <2>3. Sound(s, {}) /\ Only(sys, s, t) /\ s.state[t] = "runnable"
    BY <2>2, <1>0, StartTask
  <2> HIDE DEF s
  <2>4. pending' \in {pending, pending \cup {sys.curr}}
    BY <2>1, <2>3 DEF SwitchIfNeeded, Only
  <2> QED BY <2>1, <2>3, <2>4, <1>0, CallStep
<1>2. CASE Waiting(sys, t)
  <2>1. sys' = [sys EXCEPT !.state[t] = "wait"] /\ pending' = pending
    BY <1>2 DEF tn_task_resume
  <2>2. \A u : u = [sys EXCEPT !.state[t] = "wait"] => Sound(u, {}) /\ Only(sys, u, t)
    BY <1>0, <1>2, SetWaitState
  <2>3. Sound(sys', {}) /\ Only(sys, sys', t)
    BY <2>1, <2>2
  <2>4. t # sys.curr
    BY <1>0, <1>2, RunningTask DEF Waiting
  <2> QED BY <2>1, <2>3, <2>4, <1>0, CallStep
<1> QED
  BY <1>1, <1>2

(* A step of tn_task_sleep preserves the inductive invariant.              *)
LEMMA SleepStep ==
    ASSUME IInv, NEW timeout \in Timeouts, tn_task_sleep(timeout)
    PROVE  IInv'
<1> DEFINE t == sys.curr
<1>0. /\ Sound(sys, {}) /\ t \in Tasks \ (pending \cup masked)
      /\ UNCHANGED <<masked, created, revived, slices, booted, cursor, scanning, skipped>>
  BY DEF tn_task_sleep, Calls, IInv
<1>1. t \in AllTasks /\ t # IdleTask /\ t # TimerTask
  BY <1>0, TasksAssumption, SystemTasks
<1>2. sys.state[t] = "runnable" /\ t \in created \cup revived
  BY <1>0, RunningTask
<1>3. sys.wakeup[t] \in Nat
  BY <1>1 DEF IInv, TypeOK, SchedType
<1>4. timeout \in Int
  BY ServicesAssumption DEF TN_WAIT_INFINITE
<1> HIDE DEF t
<1>5. CASE sys.wakeup[t] > 0
  <2> DEFINE u == [sys EXCEPT !.wakeup[t] = sys.wakeup[t] - 1]
  <2>1. sys' = u /\ pending' = pending
    BY <1>5 DEF tn_task_sleep, t
  <2>2. sys.wakeup[t] - 1 \in Nat
    BY <1>3, <1>5
  <2>3. Sound(u, {}) /\ SameButCounters(sys, u)
    <3> HIDE DEF u
    <3>1. u = [sys EXCEPT !.wakeup[t] = sys.wakeup[t] - 1]
      BY DEF u
    <3> QED BY <3>1, <2>2, <1>0, <1>1, SetWakeup
  <2> HIDE DEF u
  <2>4. Only(sys, u, t) /\ u.state[t] = "runnable"
    BY <2>3, <1>2 DEF SameButCounters, Only
  <2> QED BY <2>1, <2>3, <2>4, <1>0, <1>2, CallStep DEF t
<1>6. CASE ~(sys.wakeup[t] > 0)
  <2> DEFINE u == task_curr_to_wait_action(sys, NoQueue, "sleep", timeout)
  <2>1. sys' = u /\ pending' = pending \cup {t}
    BY <1>6 DEF tn_task_sleep, t
  <2>2. "sleep" \in WaitReasons
    BY DEF WaitReasons
  <2>3. Sound(u, {}) /\ Only(sys, u, t)
    BY <2>2, <1>0, <1>1, <1>2, <1>4, StartWait DEF t
  <2> HIDE DEF u
  <2> QED BY <2>1, <2>3, <1>0, <1>2, CallStep DEF t
<1> QED
  BY <1>5, <1>6

(* The end of the sleep of a task, or a wakeup that is counted             *)
LEMMA WakeupParts ==
    ASSUME IInv, NEW t \in Tasks, sys.curr \in AllTasks
    PROVE  /\ Asleep(t) => /\ Sound(task_wait_complete(sys, t, FALSE), {})
                           /\ Only(sys, task_wait_complete(sys, t, FALSE), t)
           /\ Sound(CountWakeup, {}) /\ SameButCounters(sys, CountWakeup)
<1>1. Sound(sys, {}) /\ t \in AllTasks
  BY SystemTasks DEF IInv
<1>2. ASSUME Asleep(t)
      PROVE  /\ Sound(task_wait_complete(sys, t, FALSE), {})
             /\ Only(sys, task_wait_complete(sys, t, FALSE), t)
  <2>1. Waiting(sys, t) /\ sys.pwait[t] = NoQueue
    BY <1>1, <1>2 DEF Asleep, Sound, Rest, TcbOK
  <2> QED BY <2>1, <1>1, WaitComplete
<1>3. CountWakeup = [sys EXCEPT !.wakeup[sys.curr] = 1] /\ 1 \in Nat
  BY DEF CountWakeup
<1>4. Sound(CountWakeup, {}) /\ SameButCounters(sys, CountWakeup)
  BY <1>1, <1>3, SetWakeup
<1> QED
  BY <1>2, <1>4

(* A step of tn_task_wakeup preserves the inductive invariant.             *)
LEMMA WakeupStep ==
    ASSUME IInv, NEW t \in Tasks, tn_task_wakeup(t)
    PROVE  IInv'
<1>0. /\ t \in created /\ sys.curr \in Tasks \ (pending \cup masked)
      /\ UNCHANGED <<masked, created, revived, slices, booted, cursor, scanning, skipped>>
  BY DEF tn_task_wakeup, Calls
<1>1. sys.curr \in AllTasks /\ sys.state[sys.curr] = "runnable"
  BY <1>0, RunningTask, SystemTasks
<1>2. Waiting(sys, t) => t # sys.curr
  BY <1>1 DEF Waiting
<1>3. CASE Asleep(t)
  <2>1. /\ sys' = task_wait_complete(sys, t, FALSE)
        /\ pending' \in {pending, pending \cup {sys.curr}}
    BY <1>3 DEF tn_task_wakeup
  <2>2. Sound(sys', {}) /\ Only(sys, sys', t)
    BY <2>1, <1>1, <1>2, <1>3, WakeupParts
  <2>3. t # sys.curr
    BY <1>2, <1>3 DEF Asleep
  <2> QED BY <2>1, <2>2, <2>3, <1>0, CallStep
<1>4. CASE ~Asleep(t)
  <2>1. sys' = CountWakeup /\ pending' = pending
    BY <1>4 DEF tn_task_wakeup
  <2>2. Sound(sys', {}) /\ SameButCounters(sys, sys')
    BY <2>1, <1>1, <1>2, WakeupParts
  <2>3. Only(sys, sys', t) /\ (t = sys.curr => sys'.state[t] = "runnable")
    BY <2>2, <1>1 DEF SameButCounters, Only
  <2> QED BY <2>1, <2>2, <2>3, <1>0, CallStep
<1> QED
  BY <1>3, <1>4

(* A task that waits and is the running one is about to switch.            *)
LEMMA WaitingIsPending ==
    ASSUME IInv, NEW t \in Tasks, sys.state[t] # "runnable"
    PROVE  t = sys.curr => t \in pending
BY DEF IInv, OnlyRunnableRuns

(* A step of tn_task_iwakeup preserves the inductive invariant.            *)
LEMMA IWakeupStep ==
    ASSUME IInv, NEW t \in Tasks, tn_task_iwakeup(t)
    PROVE  IInv'
<1>0. /\ t \in created /\ ~scanning
      /\ UNCHANGED <<pending, masked, created, revived, slices, booted, cursor, scanning>>
  BY DEF tn_task_iwakeup, IrqEnabled
<1>1. sys.curr \in AllTasks
  BY DEF IInv, TypeOK, SchedType
<1>2. Waiting(sys, t) => (t = sys.curr => t \in pending)
  BY WaitingIsPending DEF Waiting
<1>3. CASE Asleep(t)
  <2> DEFINE s == task_wait_complete(sys, t, FALSE)
  <2>1. tn_cpu_irq_isr(s, Woken(sys, t)) /\ Woken(sys, t) \in BOOLEAN
    BY <1>3 DEF tn_task_iwakeup, Woken
  <2>2. Sound(s, {}) /\ Only(sys, s, t)
    BY <1>1, <1>2, <1>3, WakeupParts
  <2>3. t = sys.curr => t \in pending
    BY <1>2, <1>3 DEF Asleep
  <2> HIDE DEF s
  <2> QED BY <2>1, <2>2, <2>3, <1>0, IsrStep
<1>4. CASE ~Asleep(t)
  <2> DEFINE s == CountWakeup
  <2>1. tn_cpu_irq_isr(s, FALSE)
    BY <1>4 DEF tn_task_iwakeup
  <2>2. Sound(s, {}) /\ SameButCounters(sys, s)
    BY <1>1, <1>2, WakeupParts
  <2> HIDE DEF s
  <2>3. Only(sys, s, t)
    BY <2>2 DEF SameButCounters, Only
  <2>4. t = sys.curr => t \in pending \/ s.state[t] = "runnable"
    BY <2>2 DEF SameButCounters, IInv, OnlyRunnableRuns
  <2> QED BY <2>1, <2>2, <2>3, <2>4, <1>0, IsrStep
<1> QED
  BY <1>3, <1>4

(* A step of tn_task_release_wait preserves the inductive invariant.       *)
LEMMA ReleaseWaitStep ==
    ASSUME IInv, NEW t \in Tasks, tn_task_release_wait(t)
    PROVE  IInv'
<1>0. /\ t \in created /\ sys.curr \in Tasks \ (pending \cup masked)
      /\ Sound(sys, {}) /\ Waiting(sys, t)
      /\ sys' = task_wait_complete(sys, t, TRUE)
      /\ pending' \in {pending, pending \cup {sys.curr}}
      /\ UNCHANGED <<masked, created, revived, slices, booted, cursor, scanning, skipped>>
  BY DEF tn_task_release_wait, Calls, IInv
<1>1. t # sys.curr
  BY <1>0, RunningTask DEF Waiting
<1>2. \A u : u = task_wait_complete(sys, t, TRUE) => Sound(u, {}) /\ Only(sys, u, t)
  BY <1>0, WaitComplete
<1>3. Sound(sys', {}) /\ Only(sys, sys', t)
  BY <1>0, <1>2
<1> QED
  BY <1>0, <1>1, <1>3, CallStep

(* A step of tn_task_irelease_wait preserves the inductive invariant.      *)
LEMMA IReleaseWaitStep ==
    ASSUME IInv, NEW t \in Tasks, tn_task_irelease_wait(t)
    PROVE  IInv'
<1> DEFINE s == task_wait_complete(sys, t, TRUE)
<1>0. /\ t \in created /\ ~scanning /\ Sound(sys, {}) /\ Waiting(sys, t)
      /\ tn_cpu_irq_isr(s, Woken(sys, t)) /\ Woken(sys, t) \in BOOLEAN
      /\ UNCHANGED <<pending, masked, created, revived, slices, booted, cursor, scanning>>
  BY DEF tn_task_irelease_wait, IrqEnabled, IInv, Woken
<1>1. t = sys.curr => t \in pending
  BY <1>0, WaitingIsPending DEF Waiting
<1>2. Sound(s, {}) /\ Only(sys, s, t)
  BY <1>0, WaitComplete
<1> HIDE DEF s
<1> QED
  BY <1>0, <1>1, <1>2, IsrStep

(* A step of tn_task_activate preserves the inductive invariant.           *)
LEMMA ActivateStep ==
    ASSUME IInv, NEW t \in Tasks, tn_task_activate(t)
    PROVE  IInv'
<1>0. /\ t \in created /\ sys.curr \in Tasks \ (pending \cup masked)
      /\ Sound(sys, {}) /\ t \in AllTasks
      /\ UNCHANGED <<masked, created, revived, slices, booted, cursor, scanning, skipped>>
  BY SystemTasks DEF tn_task_activate, Calls, IInv
<1>1. CASE sys.state[t] = "dormant"
  <2> DEFINE s == task_to_runnable(sys, t)
  <2>1. sys' = s /\ SwitchIfNeeded(s)
    BY <1>1 DEF tn_task_activate
  <2>2. Sound(s, {}) /\ Only(sys, s, t) /\ s.state[t] = "runnable"
    BY <1>0, <1>1, StartTask
  <2> HIDE DEF s
  <2>3. pending' \in {pending, pending \cup {sys.curr}}
    BY <2>1, <2>2 DEF SwitchIfNeeded, Only
  <2> QED BY <2>1, <2>2, <2>3, <1>0, CallStep
<1>2. CASE sys.state[t] # "dormant"
  <2> DEFINE s == [sys EXCEPT !.activate[t] = 1]
  <2>1. sys' = s /\ pending' = pending
    BY <1>2 DEF tn_task_activate
  <2>2. Sound(s, {}) /\ SameButCounters(sys, s)
    BY <1>0, SetActivate
  <2> HIDE DEF s
  <2>3. Only(sys, s, t) /\ (t = sys.curr => s.state[t] = "runnable")
    BY <2>2, <1>0, RunningTask DEF SameButCounters, Only
  <2> QED BY <2>1, <2>2, <2>3, <1>0, CallStep
<1> QED
  BY <1>1, <1>2

(* A step of tn_task_iactivate preserves the inductive invariant.          *)
LEMMA IActivateStep ==
    ASSUME IInv, NEW t \in Tasks, tn_task_iactivate(t)
    PROVE  IInv'
<1>0. /\ t \in created /\ ~scanning /\ Sound(sys, {}) /\ t \in AllTasks
      /\ UNCHANGED <<pending, masked, created, revived, slices, booted, cursor, scanning>>
  BY SystemTasks DEF tn_task_iactivate, IrqEnabled, IInv
<1>1. CASE sys.state[t] = "dormant"
  <2> DEFINE s == task_to_runnable(sys, t)
             request == s.next # s.curr
  <2>1. tn_cpu_irq_isr(s, request) /\ request \in BOOLEAN
    BY <1>1 DEF tn_task_iactivate
  <2>2. Sound(s, {}) /\ Only(sys, s, t) /\ s.state[t] = "runnable"
    BY <1>0, <1>1, StartTask
  <2> HIDE DEF s, request
  <2> QED BY <2>1, <2>2, <1>0, IsrStep
<1>2. CASE sys.state[t] # "dormant"
  <2> DEFINE s == [sys EXCEPT !.activate[t] = 1]
  <2>1. tn_cpu_irq_isr(s, FALSE)
    BY <1>2 DEF tn_task_iactivate
  <2>2. Sound(s, {}) /\ SameButCounters(sys, s)
    BY <1>0, SetActivate
  <2> HIDE DEF s
  <2>3. Only(sys, s, t)
    BY <2>2 DEF SameButCounters, Only
  <2>4. t = sys.curr => t \in pending \/ s.state[t] = "runnable"
    BY <2>2 DEF SameButCounters, IInv, OnlyRunnableRuns
  <2> QED BY <2>1, <2>2, <2>3, <2>4, <1>0, IsrStep
<1> QED
  BY <1>1, <1>2

(* A step of tn_task_exit preserves the inductive invariant.               *)
LEMMA ExitStep ==
    ASSUME IInv, NEW delete \in BOOLEAN, tn_task_exit(delete)
    PROVE  IInv'
<1> DEFINE t == sys.curr
           n == task_to_non_runnable(sys, t)
           s == Restart(n, t)
<1>0. /\ t \in Tasks /\ t \notin pending
      /\ sys' = [s EXCEPT !.curr = s.next] /\ masked' = masked \ {t}
      /\ created' = IF delete THEN created \ {t} ELSE created
      /\ revived' = IF s.state[t] = "dormant" THEN revived \ {t}
                    ELSE IF delete THEN revived \cup {t} ELSE revived
      /\ skipped' = FALSE
      /\ UNCHANGED <<pending, slices, booted, cursor, scanning>>
  BY DEF tn_task_exit
<1>1. /\ t \in AllTasks /\ t # IdleTask /\ t # TimerTask
      /\ sys.state[t] = "runnable" /\ t \in created \cup revived /\ ~scanning
  BY <1>0, RunningTask, TasksAssumption, SystemTasks
<1>2. SameLists(sys, sys) /\ SameOthers(sys, sys, t) /\ Sound(sys, {}) /\ SchedType(sys)
  BY DEF SameLists, SameOthers, SameFor, IInv, TypeOK
<1>3. Sound(n, {t}) /\ SameTcbs(sys, n)
  <2> HIDE DEF t
  <2> QED BY <1>1, <1>2, TakeReady
<1> HIDE DEF t, n
<1>4. /\ Sound(s, {}) /\ Only(n, s, t)
  BY <1>0, <1>3, RestartSound
<1> HIDE DEF s
<1>5. \A x \in Tasks : s.state[x] # "dormant" => x \in created' \cup revived'
  <2> SUFFICES ASSUME NEW x \in Tasks, s.state[x] # "dormant"
                 PROVE  x \in created' \cup revived'
    OBVIOUS
  <2>1. CASE x = t
    BY <2>1, <1>0, <1>1, <1>3, <1>4 DEF SameTcbs
  <2>2. CASE x # t
    <3>1. sys.state[x] # "dormant"
      BY <2>2, <1>3, <1>4, SystemTasks DEF SameTcbs, Only
    <3> QED BY <3>1, <2>2, <1>0 DEF IInv, OnlyCreatedScheduled
  <2> QED BY <2>1, <2>2
<1>6. OtherTypes' /\ ~scanning'
  BY <1>0, <1>1 DEF IInv, TypeOK, OtherTypes
<1> QED
  BY <1>0, <1>4, <1>5, <1>6, SwitchStep

(* A step of tn_task_terminate preserves the inductive invariant.          *)
LEMMA TerminateStep ==
    ASSUME IInv, NEW t \in Tasks, tn_task_terminate(t)
    PROVE  IInv'
<1> DEFINE n == Detach(sys, t)
           s == Restart(n, t)
<1>0. /\ t \in created /\ sys.curr \in Tasks \ (pending \cup masked) /\ t # sys.curr
      /\ sys.state[t] # "dormant" /\ sys' = s
      /\ pending' \in {pending \ {t}, (pending \ {t}) \cup {s.curr}}
      /\ masked' = masked \ {t}
      /\ UNCHANGED <<created, revived, slices, booted, cursor, scanning, skipped>>
  BY DEF tn_task_terminate, Calls
<1>1. Sound(sys, {}) /\ sys.curr \in AllTasks /\ ~scanning /\ sys.state[sys.curr] = "runnable"
  BY <1>0, RunningTask, SystemTasks DEF IInv
<1>2. Sound(n, {t}) /\ Only(sys, n, t)
  BY <1>0, <1>1, DetachSound
<1> HIDE DEF n
<1>3. Sound(s, {}) /\ Only(n, s, t)
  BY <1>2, RestartSound
<1> HIDE DEF s
<1>4. Only(sys, s, t)
  BY <1>2, <1>3 DEF Only
<1>5. TypeOK'
  <2>1. SchedType(sys') /\ s.curr \in AllTasks
    BY <1>0, <1>1, <1>3, <1>4 DEF Sound, Only
  <2> QED BY <2>1, <1>0 DEF IInv, TypeOK
<1>6. OnlyRunnableRuns'
  BY <1>0, <1>1, <1>4 DEF OnlyRunnableRuns, Only
<1>7. OnlyCreatedScheduled'
  BY <1>0, <1>4, SystemTasks DEF IInv, OnlyCreatedScheduled, Only
<1> QED
  BY <1>0, <1>1, <1>3, <1>5, <1>6, <1>7 DEF IInv, ScanOK

(* A step of tn_task_delete preserves the inductive invariant.             *)
LEMMA DeleteStep ==
    ASSUME IInv, NEW t \in Tasks, tn_task_delete(t)
    PROVE  IInv'
<1>0. /\ sys.state[t] = "dormant" /\ created' = created \ {t} /\ revived' = revived
      /\ UNCHANGED <<sys, pending, masked, slices, booted, cursor, scanning, skipped>>
  BY DEF tn_task_delete
<1>1. OnlyCreatedScheduled'
  BY <1>0 DEF IInv, OnlyCreatedScheduled
<1>2. TypeOK'
  BY <1>0 DEF IInv, TypeOK
<1> QED
  BY <1>0, <1>1, <1>2 DEF IInv, OnlyRunnableRuns, ScanOK

(* A step of tn_task_change_priority preserves the inductive invariant.    *)
LEMMA ChangePriorityStep ==
    ASSUME IInv, NEW t \in Tasks, NEW priority \in 0 .. TN_NUM_PRIORITY - 2,
           tn_task_change_priority(t, priority)
    PROVE  IInv'
<1> DEFINE p == IF priority = 0 THEN base_priority(t) ELSE priority
<1>0. /\ t \in created /\ sys.curr \in Tasks \ (pending \cup masked)
      /\ Sound(sys, {}) /\ SchedType(sys) /\ t \in AllTasks
      /\ UNCHANGED <<masked, created, revived, slices, booted, cursor, scanning, skipped>>
  BY SystemTasks DEF tn_task_change_priority, Calls, IInv, TypeOK
<1>1. p \in 1 .. TN_NUM_PRIORITY - 2 /\ p \in Priorities
  BY SystemTasks DEF Priorities
<1>2. sys.state[sys.curr] = "runnable"
  BY <1>0, RunningTask
<1>3. CASE sys.state[t] = "runnable"
  <2> DEFINE s == change_running_task_priority(sys, t, p)
  <2>1. sys' = s /\ pending' \in {pending, pending \cup {sys.curr}}
    BY <1>3 DEF tn_task_change_priority
  <2> HIDE DEF p
  <2>2. Sound(s, {}) /\ s.state = sys.state /\ s.curr = sys.curr
    BY <1>0, <1>1, <1>3, ChangeRunning
  <2> HIDE DEF s
  <2>3. Only(sys, s, t) /\ s.state[t] = "runnable"
    BY <2>2, <1>3 DEF Only
  <2> QED BY <2>1, <2>2, <2>3, <1>0, CallStep
<1>4. CASE sys.state[t] # "runnable"
  <2> DEFINE s == [sys EXCEPT !.priority[t] = p]
  <2>1. sys' = s /\ pending' = pending
    BY <1>4 DEF tn_task_change_priority
  <2> HIDE DEF p
  <2>2. [sys.priority EXCEPT ![t] = p] \in [AllTasks -> Priorities]
        /\ DOMAIN sys.priority = AllTasks
    BY <1>0, <1>1 DEF SchedType
  <2>3. SchedType(s)
    BY <2>2, <1>0, ZenonT(40) DEF SchedType
  <2>4. /\ SameLists(sys, s) /\ s.priority = [sys.priority EXCEPT ![t] = p]
        /\ s.curr = sys.curr /\ s.state = sys.state /\ s.tick = sys.tick
        /\ s.reason = sys.reason /\ s.pwait = sys.pwait /\ s.link = sys.link
    BY <1>0 DEF SchedType, SameLists
  <2> HIDE DEF s
  <2>5. SameOthers(sys, s, t) /\ s.priority[t] = p
    BY <2>2, <2>4, <1>0 DEF SameOthers, SameFor
  <2>6. Waiting(s, t) <=> Waiting(sys, t)
    BY <2>4 DEF Waiting
  <2>7. Sound(s, {})
    BY <2>3, <2>4, <2>5, <2>6, <1>0, <1>1, <1>4, TcbTweak
  <2>8. Only(sys, s, t) /\ t # sys.curr
    BY <2>4, <1>2, <1>4 DEF Only
  <2> QED BY <2>1, <2>7, <2>8, <1>0, CallStep
<1> QED
  BY <1>3, <1>4

(* A step of tn_sys_tslice_ticks preserves the inductive invariant.        *)
LEMMA TsliceStep ==
    ASSUME IInv, NEW p \in SlicePriorities, NEW v \in Slices, tn_sys_tslice_ticks(p, v)
    PROVE  IInv'
<1>1. sys.curr \in Tasks /\ v \in Nat /\ p \in Priorities
      /\ UNCHANGED <<sys, pending, created, revived, booted, cursor, scanning, skipped>>
  BY ServicesAssumption DEF tn_sys_tslice_ticks, Calls
<1>2. masked' \in SUBSET Tasks /\ slices' \in [Priorities -> Nat]
  BY <1>1 DEF tn_sys_tslice_ticks, IInv, TypeOK
<1> QED
  BY <1>1, <1>2 DEF IInv, TypeOK, OnlyRunnableRuns, OnlyCreatedScheduled, ScanOK

(* A step of the timer task (tn_timer_task_func) preserves the inductive   *)
(* invariant.                                                              *)
LEMMA TimerStep ==
    ASSUME IInv, Timer
    PROVE  IInv'
<1>1. CASE TimerBegin
  <2>1. cursor' \in Seq(AllTasks)
    BY <1>1 DEF TimerBegin, IInv, TypeOK, SchedType
  <2> QED BY <2>1, <1>1 DEF TimerBegin, IInv, TypeOK, OnlyRunnableRuns,
                            OnlyCreatedScheduled, ScanOK
<1>2. CASE TimerVisit
  <2> DEFINE t == Head(cursor)
             s == Expire(sys, t)
  <2>1. /\ sys' = s /\ scanning /\ cursor' = Tail(cursor) /\ cursor # <<>>
        /\ UNCHANGED <<pending, masked, created, revived, slices, booted, scanning, skipped>>
    BY <1>2 DEF TimerVisit
  <2>2. Sound(sys, {}) /\ cursor \in Seq(AllTasks) /\ sys.curr = TimerTask
    BY <2>1 DEF IInv, TypeOK, ScanOK
  <2>3. t \in AllTasks /\ Tail(cursor) \in Seq(AllTasks)
    BY <2>1, <2>2
  <2> HIDE DEF t
  <2>4. Sound(s, {}) /\ Only(sys, s, t) /\ (s = sys \/ (t \in Tasks /\ Waiting(sys, t)))
    BY <2>2, <2>3, ExpireSound
  <2> HIDE DEF s
  <2>5. OtherTypes' /\ ScanOK'
    BY <2>1, <2>3, <2>4 DEF IInv, TypeOK, OtherTypes, ScanOK, Only
  <2>6. CASE s = sys
    BY <2>1, <2>5, <2>6 DEF IInv, TypeOK, OtherTypes, OnlyRunnableRuns, OnlyCreatedScheduled
  <2>7. CASE t \in Tasks /\ Waiting(sys, t)
    <3>1. t \in created \cup revived /\ t # sys.curr
      BY <2>2, <2>7, TasksAssumption DEF IInv, OnlyCreatedScheduled, Waiting
    <3> QED BY <3>1, <2>1, <2>4, <2>5, ServiceStep
  <2> QED BY <2>4, <2>6, <2>7
<1>3. CASE TimerSleep
  <2> DEFINE s == task_curr_to_wait_action(sys, NoQueue, "sleep", TN_WAIT_INFINITE)
  <2>1. /\ sys' = s /\ scanning /\ ~scanning' /\ pending' = pending \cup {TimerTask}
        /\ scanning' \in BOOLEAN
        /\ UNCHANGED <<masked, created, revived, slices, booted, cursor, skipped>>
    BY <1>3 DEF TimerSleep
  <2>2. /\ Sound(sys, {}) /\ sys.curr = TimerTask /\ sys.state[sys.curr] = "runnable"
        /\ TimerTask \in AllTasks /\ TimerTask # IdleTask
    BY <2>1, SystemTasks DEF IInv, ScanOK, OnlyRunnableRuns
  <2>3. TN_WAIT_INFINITE \in Int /\ "sleep" \in WaitReasons
    BY DEF TN_WAIT_INFINITE, WaitReasons
  <2>4. Sound(s, {}) /\ Only(sys, s, TimerTask)
    BY <2>2, <2>3, StartWait
  <2> HIDE DEF s
  <2>5. TypeOK'
    BY <2>1, <2>2, <2>4 DEF IInv, TypeOK, Sound
  <2>6. OnlyRunnableRuns' /\ OnlyCreatedScheduled' /\ ScanOK'
    BY <2>1, <2>2, <2>4, TasksAssumption, SystemTasks
       DEF IInv, OnlyRunnableRuns, OnlyCreatedScheduled, ScanOK, Only
  <2> QED BY <2>1, <2>4, <2>5, <2>6 DEF IInv
<1> QED
  BY <1>1, <1>2, <1>3 DEF Timer

(* A step of tn_tick_int_processing preserves the inductive invariant.     *)
LEMMA TickStep ==
    ASSUME IInv, tn_tick_int_processing
    PROVE  IInv'
<1> DEFINE r == RoundRobin(sys)
           s == WakeTimer(r)
<1>0. /\ sys' = [s EXCEPT !.curr = s.next] /\ ~scanning /\ skipped' \in BOOLEAN
      /\ UNCHANGED <<pending, masked, created, revived, slices, booted, cursor, scanning>>
  BY DEF tn_tick_int_processing, tn_cpu_irq_isr, IrqEnabled, IInv, TypeOK
<1>1. Sound(sys, {}) /\ slices \in [Priorities -> Nat]
  BY DEF IInv, TypeOK
<1>2. SoundButNext(r) /\ r.state = sys.state
  BY <1>1, RotateSound
<1> HIDE DEF r
<1>3. Sound(s, {}) /\ Only(r, s, TimerTask)
  BY <1>2, WakeTimerSound
<1> HIDE DEF s
<1>4. \A x \in Tasks : s.state[x] # "dormant" => x \in created' \cup revived'
  BY <1>0, <1>2, <1>3, TasksAssumption, SystemTasks DEF IInv, OnlyCreatedScheduled, Only
<1>5. OtherTypes' /\ ~scanning'
  BY <1>0 DEF IInv, TypeOK, OtherTypes
<1> QED
  BY <1>0, <1>3, <1>4, <1>5, SwitchStep

(* A step of tn_switch_context preserves the inductive invariant.          *)
LEMMA SwitchContextStep ==
    ASSUME IInv, tn_switch_context
    PROVE  IInv'
<1>0. /\ sys' = [sys EXCEPT !.curr = IF sys.next = NoTask THEN @ ELSE sys.next]
      /\ ~scanning /\ pending' = pending \ {sys.curr} /\ skipped' = FALSE
      /\ UNCHANGED <<masked, created, revived, slices, booted, cursor, scanning>>
  BY DEF tn_switch_context
<1>1. sys.next # NoTask /\ Sound(sys, {})
  BY TasksAssumption DEF IInv, TypeOK, SchedType, AllTasks
<1>2. sys' = [sys EXCEPT !.curr = sys.next]
  BY <1>0, <1>1
<1>3. OtherTypes' /\ ~scanning'
  BY <1>0 DEF IInv, TypeOK, OtherTypes
<1>4. \A x \in Tasks : sys.state[x] # "dormant" => x \in created' \cup revived'
  BY <1>0 DEF IInv, OnlyCreatedScheduled
<1> QED
  BY <1>1, <1>2, <1>3, <1>4, SwitchStep

-----------------------------------------------------------------------------
(* The theorems.  The deleted task that tn_task_exit has made runnable     *)
(* again needs no exception in the other invariants: the lists agree with  *)
(* the task states whether or not a task has its id.                       *)

(* The inductive invariant holds in the state tn_start_system leaves.      *)
LEMMA InitInvariant == Init => IInv
<1> SUFFICES ASSUME Init PROVE IInv
  OBVIOUS
<1>0. sys = tn_start_system /\ pending = {} /\ created = {} /\ revived = {}
  BY DEF Init
<1>1. Sound(sys, {})
  BY <1>0, StartSound
<1>2. SchedType(sys)
  BY <1>1 DEF Sound
<1>3. slices \in [Priorities -> Nat] /\ cursor \in Seq(AllTasks)
  BY DEF Init
<1>4. TypeOK
  <2>1. pending = {} /\ masked = {} /\ created = {} /\ revived = {}
    BY DEF Init
  <2>2. booted \in BOOLEAN /\ scanning \in BOOLEAN /\ skipped \in BOOLEAN
    BY DEF Init
  <2> QED BY <2>1, <2>2, <1>2, <1>3 DEF TypeOK
<1>5. /\ sys.curr = TimerTask
      /\ sys.state = [t \in AllTasks |-> IF t \in Tasks THEN "dormant" ELSE "runnable"]
  BY <1>0 DEF tn_start_system
<1>6. OnlyRunnableRuns
  BY <1>5, TasksAssumption, SystemTasks DEF OnlyRunnableRuns
<1>7. OnlyCreatedScheduled
  BY <1>5, SystemTasks DEF OnlyCreatedScheduled
<1> QED
  BY <1>1, <1>4, <1>6, <1>7 DEF IInv, ScanOK, Init

(* Every service, interrupt and context switch keeps it.                   *)
LEMMA NextInvariant ==
    IInv /\ [Next]_vars => IInv'
<1> SUFFICES ASSUME IInv, [Next]_vars PROVE IInv'
  OBVIOUS
<1>1. CASE TaskService
  <2>1. ASSUME NEW t \in Tasks, NEW start \in BOOLEAN, tn_task_create(t, start)
        PROVE  IInv'
    BY <2>1, CreateStep
  <2>2. ASSUME NEW t \in Tasks,
               \/ tn_task_suspend(t) \/ tn_task_resume(t) \/ tn_task_wakeup(t)
               \/ tn_task_activate(t) \/ tn_task_release_wait(t)
               \/ tn_task_terminate(t) \/ tn_task_delete(t)
        PROVE  IInv'
    BY <2>2, SuspendStep, ResumeStep, WakeupStep, ActivateStep, ReleaseWaitStep,
       TerminateStep, DeleteStep
  <2>3. ASSUME NEW timeout \in Timeouts, tn_task_sleep(timeout) PROVE IInv'
    BY <2>3, SleepStep
  <2>4. ASSUME NEW delete \in BOOLEAN, tn_task_exit(delete) PROVE IInv'
    BY <2>4, ExitStep
  <2>5. ASSUME NEW t \in Tasks, NEW p \in 0 .. TN_NUM_PRIORITY - 2,
               tn_task_change_priority(t, p)
        PROVE  IInv'
    BY <2>5, ChangePriorityStep
  <2>6. ASSUME NEW p \in SlicePriorities, NEW v \in Slices, tn_sys_tslice_ticks(p, v)
        PROVE  IInv'
    BY <2>6, TsliceStep
  <2> QED BY <1>1, <2>1, <2>2, <2>3, <2>4, <2>5, <2>6 DEF TaskService
<1>2. CASE IsrService
  BY <1>2, IWakeupStep, IActivateStep, IReleaseWaitStep DEF IsrService
<1>3. CASE AppInitDone
  BY <1>3 DEF AppInitDone, IInv, TypeOK, OnlyRunnableRuns, OnlyCreatedScheduled, ScanOK
<1>4. CASE Timer
  BY <1>4, TimerStep
<1>5. CASE tn_tick_int_processing
  BY <1>5, TickStep
<1>6. CASE tn_switch_context
  BY <1>6, SwitchContextStep
<1>7. CASE UNCHANGED vars
  BY <1>7 DEF vars, IInv, TypeOK, OnlyRunnableRuns, OnlyCreatedScheduled, ScanOK
<1> QED
  BY <1>1, <1>2, <1>3, <1>4, <1>5, <1>6, <1>7 DEF Next

(* The inductive invariant holds in every reachable state.                 *)
THEOREM Invariance ==
    Spec => []IInv
<1>1. Init => IInv
  BY InitInvariant
<1>2. IInv /\ [Next]_vars => IInv'
  BY NextInvariant
<1> QED
  BY <1>1, <1>2, PTL DEF Spec

(* Every variable keeps its type: in particular tn_next_task_to_run is     *)
(* never NULL and a ready list, a wait queue or the timeout list never     *)
(* holds anything but TCBs.                                                *)
THEOREM TypeCorrect ==
    Spec => []TypeOK
<1>1. IInv => TypeOK
  BY DEF IInv
<1> QED
  BY <1>1, Invariance, PTL

(* The ready lists, the bitmap, tn_next_task_to_run, the wait queues and   *)
(* the timeout list agree with the task states after any sequence of task  *)
(* services, interrupts and context switches, and queue_remove_entry is    *)
(* never applied to a stale entry.                                         *)
THEOREM SchedulerConsistent ==
    Spec => []SchedInv
<1>1. IInv => SchedInv
  BY SoundIsOK DEF IInv, SchedInv
<1> QED
  BY <1>1, Invariance, PTL

(* A task that executes its own code is runnable, whatever interrupts come *)
(* between tn_enable_interrupt and tn_switch_context.                      *)
THEOREM RunningIsRunnable ==
    Spec => []OnlyRunnableRuns
<1>1. IInv => OnlyRunnableRuns
  BY DEF IInv
<1> QED
  BY <1>1, Invariance, PTL

(* No deleted task is runnable, waiting or suspended, so its TCB can be    *)
(* handed to tn_task_create again, but for a task that tn_task_exit made   *)
(* runnable and then deleted (tn_tasks.c:508-519), until it ends.          *)
THEOREM DeletedIsUnlinked ==
    Spec => []OnlyCreatedScheduled
<1>1. IInv => OnlyCreatedScheduled
  BY DEF IInv
<1> QED
  BY <1>1, Invariance, PTL

-----------------------------------------------------------------------------
(* The running task has the best claim to the processor                    *)

(* The timer task, when it can run, is the next one to run: no other task  *)
(* has priority 0.                                                         *)
LEMMA TimerFirst ==
    ASSUME NEW s, Sound(s, {}), s.state[TimerTask] = "runnable"
    PROVE  s.next = TimerTask
<1> DEFINE R == Runnables(s, {})
<1>1. /\ SchedType(s) /\ ReadyLists(s, R) /\ s.bmp = Bits(s)
      /\ s.next \in R /\ First(s, s.next) /\ SystemOK(s)
  BY DEF Sound, ReadyFor, Rest
<1>2. TimerTask \in ReadyAt(s, R, 0) /\ 0 \in Priorities
  BY <1>1, SystemTasks DEF ReadyAt, Runnables, SystemOK
<1>3. s.ready[0] \in Seq(AllTasks) /\ Lists(s.ready[0], ReadyAt(s, R, 0))
  BY <1>1, <1>2 DEF SchedType, ReadyLists
<1>4. s.ready[0] # <<>>
  BY <1>2, <1>3, ListsEmpty
<1>5. 0 \in s.bmp
  BY <1>1, <1>2, <1>4 DEF Bits
<1>6. s.next \in AllTasks /\ s.priority[s.next] \in Priorities
  BY <1>1, SystemTasks, Fields DEF Runnables
<1>7. s.priority[s.next] = 0
  BY <1>1, <1>5, <1>6 DEF First, Priorities
<1> QED
  BY <1>1, <1>6, <1>7, SystemTasks DEF SystemOK, AllTasks

(* task_to_non_runnable chooses another task only when the one it takes    *)
(* away was the next to run.                                               *)
LEMMA NextKept ==
    ASSUME NEW s, Sound(s, {}), NEW t \in AllTasks, t # IdleTask,
           s.state[t] = "runnable", t # s.next,
           NEW u, u = task_to_non_runnable(s, t)
    PROVE  u.next = s.next
<1> DEFINE R == Runnables(s, {})
           W == Waiters(s, {})
           a == queue_remove_entry(s, t)
           n == s.next
           q == s.priority[n]
<1>1. /\ SchedType(s) /\ ReadyFor(s, R) /\ ReadyLists(s, R) /\ WaitsFor(s, W)
      /\ s.bmp = Bits(s) /\ n \in R /\ First(s, n) /\ TcbOK(s, t) /\ SystemOK(s)
  BY DEF Sound, ReadyFor, Rest
<1>2. /\ t \in R /\ IdleTask \in R /\ t \notin W /\ R \subseteq AllTasks
      /\ s.link[t] # "stale"
  BY <1>1, SystemTasks DEF Runnables, Waiters, Waiting, SystemOK, TcbOK
<1>3. n \in AllTasks /\ q \in Priorities
  BY <1>1, <1>2, Fields
<1> HIDE DEF R, W
<1>4. SchedType(u) /\ SameTcbs(s, u) /\ ReadyFor(u, R \ {t})
  BY <1>1, <1>2, NonRunnable
<1>5. SchedType(a) /\ OthersKept(s, a, R, t)
  BY <1>1, <1>2, RemoveEntry
<1>6. u.ready = a.ready
  <2> DEFINE p == s.priority[t]
             b == s.bmp \ {p}
  <2> HIDE DEF a
  <2>1. u = IF a.ready[p] = <<>>
            THEN IF b = {} THEN [a EXCEPT !.bmp = b, !.next = NoTask]
                 ELSE find_next_task_to_run([a EXCEPT !.bmp = b])
            ELSE IF a.next = t THEN [a EXCEPT !.next = Head(a.ready[p])] ELSE a
    BY DEF task_to_non_runnable, a
  <2> QED BY <2>1, <1>5 DEF find_next_task_to_run, SchedType
<1>7. s.ready[q] # <<>> /\ s.ready[q][1] = n
  <2>1. s.ready[q] \in Seq(AllTasks) /\ Lists(s.ready[q], ReadyAt(s, R, q)) /\ n \in ReadyAt(s, R, q)
    BY <1>1, <1>3 DEF ReadyLists, ReadyAt, SchedType
  <2> QED BY <2>1, <1>1, ListsEmpty DEF First
<1>8. u.ready[q] # <<>> /\ u.ready[q][1] = n
  BY <1>3, <1>5, <1>6, <1>7 DEF OthersKept
<1>9. ASSUME NEW r \in u.bmp PROVE r \in Priorities /\ q <= r
  <2>1. r \in Priorities /\ u.ready[r] # <<>>
    BY <1>4 DEF ReadyFor, Bits
  <2>2. s.ready[r] # <<>>
    <3>1. CASE s.ready[r] = <<>>
      <4>1. ReadyAt(s, R, r) = {}
        <5>1. s.ready[r] \in Seq(AllTasks) /\ Lists(s.ready[r], ReadyAt(s, R, r))
          BY <1>1, <2>1 DEF ReadyLists, SchedType
        <5> QED BY <5>1, <3>1, ListsEmpty
      <4>2. r # s.priority[t]
        BY <4>1, <1>2 DEF ReadyAt
      <4>3. u.ready[r] = s.ready[r]
        BY <4>2, <2>1, <1>5, <1>6 DEF OthersKept
      <4> QED BY <4>3, <2>1, <3>1
    <3> QED BY <3>1
  <2>3. r \in s.bmp
    BY <2>1, <2>2, <1>1 DEF Bits
  <2> QED BY <2>1, <2>3, <1>1 DEF First
<1>10. q \in u.bmp /\ u.next \in R \ {t} /\ First(u, u.next)
  BY <1>3, <1>4, <1>8 DEF ReadyFor, Bits
<1>11. u.next \in AllTasks /\ u.priority[u.next] \in Priorities
  BY <1>2, <1>4, <1>10, Fields
<1>12. u.priority[u.next] \in u.bmp
  <2>1. u.next \in ReadyAt(u, R \ {t}, u.priority[u.next])
    BY <1>10 DEF ReadyAt
  <2>2. /\ u.ready[u.priority[u.next]] \in Seq(AllTasks)
        /\ Lists(u.ready[u.priority[u.next]], ReadyAt(u, R \ {t}, u.priority[u.next]))
    BY <1>4, <1>11 DEF ReadyFor, ReadyLists, SchedType
  <2>3. u.ready[u.priority[u.next]] # <<>>
    BY <2>1, <2>2, ListsEmpty
  <2> QED BY <2>3, <1>4, <1>11 DEF ReadyFor, Bits
<1>13. u.priority[u.next] = q
  BY <1>3, <1>9, <1>10, <1>11, <1>12 DEF First, Priorities
<1> QED
  BY <1>8, <1>10, <1>13 DEF First

(* tn_task_terminate leaves the choice alone unless it ends the task that  *)
(* was chosen.                                                             *)
LEMMA DetachNext ==
    ASSUME NEW s, Sound(s, {}), NEW t \in Tasks, s.state[t] # "dormant", t # s.next
    PROVE  Detach(s, t).next = s.next
<1>0. t \in AllTasks /\ t # IdleTask /\ SchedType(s)
  BY TasksAssumption, SystemTasks DEF Sound
<1>1. CASE s.state[t] = "runnable"
  BY <1>0, <1>1, NextKept DEF Detach
<1>2. CASE s.state[t] # "runnable"
  BY <1>0, <1>2 DEF Detach, queue_remove_entry, SchedType
<1> QED
  BY <1>1, <1>2

(* task_wait_complete of a suspended task does not change the choice.      *)
LEMMA CompleteNext ==
    ASSUME NEW s, SchedType(s), NEW t \in AllTasks, ~Woken(s, t),
           NEW remove \in BOOLEAN
    PROVE  task_wait_complete(s, t, remove).next = s.next
BY DEF task_wait_complete, queue_remove_entry, SchedType

(* Every step keeps HighestPriorityRuns.                                   *)
LEMMA NextHighest ==
    ASSUME IInv, IInv', HighestPriorityRuns, [Next]_vars
    PROVE  HighestPriorityRuns'
<1>0. Sound(sys, {}) /\ SchedType(sys) /\ sys.curr \in AllTasks
  BY DEF IInv, TypeOK, SchedType
<1>1. ASSUME sys'.curr = sys.curr, sys'.next = sys.next, pending \subseteq pending',
             skipped => skipped'
      PROVE  HighestPriorityRuns'
  BY <1>1 DEF HighestPriorityRuns
<1>2. ASSUME NEW s, SwitchIfNeeded(s), sys' = s PROVE HighestPriorityRuns'
  BY <1>2 DEF HighestPriorityRuns, SwitchIfNeeded
<1>3. ASSUME NEW s, SchedType(s), sys' = [s EXCEPT !.curr = s.next]
      PROVE  HighestPriorityRuns'
  BY <1>3 DEF HighestPriorityRuns, SchedType
<1>4. ASSUME NEW t \in Tasks, NEW start \in BOOLEAN, tn_task_create(t, start)
      PROVE  HighestPriorityRuns'
  BY <1>4 DEF tn_task_create, HighestPriorityRuns
<1>5. ASSUME NEW t \in Tasks, tn_task_suspend(t) PROVE HighestPriorityRuns'
  <2>1. CASE sys.state[t] = "runnable"
    BY <1>2, <1>5, <2>1 DEF tn_task_suspend
  <2>2. CASE sys.state[t] # "runnable"
    <3>1. sys' = [sys EXCEPT !.state[t] = "waitsusp"] /\ UNCHANGED <<pending, skipped>>
      BY <1>5, <2>2 DEF tn_task_suspend
    <3>2. sys'.curr = sys.curr /\ sys'.next = sys.next
      BY <3>1, <1>0 DEF SchedType
    <3> QED BY <3>1, <3>2, <1>1
  <2> QED BY <2>1, <2>2
<1>6. ASSUME NEW t \in Tasks, tn_task_resume(t) PROVE HighestPriorityRuns'
  <2>1. CASE ~Waiting(sys, t)
    BY <1>2, <1>6, <2>1 DEF tn_task_resume
  <2>2. CASE Waiting(sys, t)
    <3>1. sys' = [sys EXCEPT !.state[t] = "wait"] /\ UNCHANGED <<pending, skipped>>
      BY <1>6, <2>2 DEF tn_task_resume
    <3>2. sys'.curr = sys.curr /\ sys'.next = sys.next
      BY <3>1, <1>0 DEF SchedType
    <3> QED BY <3>1, <3>2, <1>1
  <2> QED BY <2>1, <2>2
<1>7. ASSUME NEW timeout \in Timeouts, tn_task_sleep(timeout) PROVE HighestPriorityRuns'
  <2>1. CASE sys.wakeup[sys.curr] > 0
    <3>1. /\ sys' = [sys EXCEPT !.wakeup[sys.curr] = @ - 1] /\ UNCHANGED <<pending, skipped>>
      BY <1>7, <2>1 DEF tn_task_sleep
    <3>2. sys'.curr = sys.curr /\ sys'.next = sys.next
      BY <3>1, <1>0 DEF SchedType
    <3> QED BY <3>1, <3>2, <1>1
  <2>2. CASE ~(sys.wakeup[sys.curr] > 0)
    <3>1. /\ sys' = task_curr_to_wait_action(sys, NoQueue, "sleep", timeout)
          /\ pending' = pending \cup {sys.curr} /\ sys.curr \in Tasks \ pending
      BY <1>7, <2>2 DEF tn_task_sleep, Calls
    <3>2. /\ "sleep" \in WaitReasons /\ timeout \in Int /\ sys.curr # IdleTask
          /\ sys.curr # TimerTask /\ sys.state[sys.curr] = "runnable"
      BY <3>1, RunningTask, ServicesAssumption, TasksAssumption
         DEF WaitReasons, TN_WAIT_INFINITE
    <3>3. \A u : u = task_curr_to_wait_action(sys, NoQueue, "sleep", timeout) =>
              Only(sys, u, sys.curr)
      BY <3>2, <1>0, StartWait
    <3>4. sys'.curr = sys.curr
      BY <3>1, <3>3 DEF Only
    <3> QED BY <3>1, <3>4 DEF HighestPriorityRuns
  <2> QED BY <2>1, <2>2
<1>8. ASSUME NEW t \in Tasks, NEW remove \in BOOLEAN, Waiting(sys, t),
             remove \/ sys.pwait[t] = NoQueue
      PROVE  /\ task_wait_complete(sys, t, remove).curr = sys.curr
             /\ ~Woken(sys, t) => task_wait_complete(sys, t, remove).next = sys.next
  <2>1. Only(sys, task_wait_complete(sys, t, remove), t)
    BY <1>0, <1>8, WaitComplete
  <2> QED BY <2>1, <1>0, SystemTasks, CompleteNext DEF Only
<1>9. ASSUME NEW t \in Tasks, Asleep(t) PROVE Waiting(sys, t) /\ sys.pwait[t] = NoQueue
  BY <1>0, <1>9, SystemTasks DEF Asleep, Sound, Rest, TcbOK
<1>10. CountWakeup.curr = sys.curr /\ CountWakeup.next = sys.next
  BY <1>0 DEF CountWakeup, SchedType
<1>11. ASSUME NEW t \in Tasks, tn_task_wakeup(t) PROVE HighestPriorityRuns'
  <2>1. CASE Asleep(t)
    <3>1. /\ sys' = task_wait_complete(sys, t, FALSE) /\ skipped' = skipped
          /\ pending' = IF Woken(sys, t) THEN pending \cup {sys.curr} ELSE pending
      BY <1>11, <2>1 DEF tn_task_wakeup
    <3>2. sys'.curr = sys.curr /\ (~Woken(sys, t) => sys'.next = sys.next)
      BY <3>1, <2>1, <1>8, <1>9
    <3> QED BY <3>1, <3>2, <1>1 DEF HighestPriorityRuns
  <2>2. CASE ~Asleep(t)
    BY <1>1, <1>10, <1>11, <2>2 DEF tn_task_wakeup
  <2> QED BY <2>1, <2>2
<1>12. ASSUME NEW t \in Tasks, tn_task_release_wait(t) PROVE HighestPriorityRuns'
  <2>1. /\ sys' = task_wait_complete(sys, t, TRUE) /\ skipped' = skipped /\ Waiting(sys, t)
        /\ pending' = IF Woken(sys, t) THEN pending \cup {sys.curr} ELSE pending
    BY <1>12 DEF tn_task_release_wait
  <2>2. sys'.curr = sys.curr /\ (~Woken(sys, t) => sys'.next = sys.next)
    BY <2>1, <1>8
  <2> QED BY <2>1, <2>2, <1>1 DEF HighestPriorityRuns
<1>13. ASSUME NEW t \in Tasks, tn_task_activate(t) PROVE HighestPriorityRuns'
  <2>1. CASE sys.state[t] = "dormant"
    BY <1>2, <1>13, <2>1 DEF tn_task_activate
  <2>2. CASE sys.state[t] # "dormant"
    <3>1. sys' = [sys EXCEPT !.activate[t] = 1] /\ UNCHANGED <<pending, skipped>>
      BY <1>13, <2>2 DEF tn_task_activate
    <3>2. sys'.curr = sys.curr /\ sys'.next = sys.next
      BY <3>1, <1>0 DEF SchedType
    <3> QED BY <3>1, <3>2, <1>1
  <2> QED BY <2>1, <2>2
<1>14. ASSUME NEW t \in Tasks, tn_task_terminate(t) PROVE HighestPriorityRuns'
  <2> DEFINE n == Detach(sys, t)
             s == Restart(n, t)
  <2>0. /\ sys.curr \in Tasks \ pending /\ t # sys.curr /\ sys.state[t] # "dormant"
        /\ sys' = s /\ skipped' = skipped
        /\ pending' = IF s.state[t] = "runnable" /\ s.next # s.curr
                      THEN (pending \ {t}) \cup {s.curr} ELSE pending \ {t}
    BY <1>14 DEF tn_task_terminate, Calls
  <2>1. Sound(n, {t}) /\ (t # sys.next => n.next = sys.next) /\ n.curr = sys.curr
    BY <2>0, <1>0, DetachSound, DetachNext DEF Only
  <2> HIDE DEF n
  <2>2. s.curr = n.curr /\ (s.state[t] # "runnable" => s.next = n.next)
    BY <2>1, RestartSound DEF Only
  <2> HIDE DEF s
  <2>3. CASE s.state[t] = "runnable"
    BY <2>0, <2>3 DEF HighestPriorityRuns
  <2>4. CASE s.state[t] # "runnable" /\ t # sys.next
    BY <2>0, <2>1, <2>2, <2>4 DEF HighestPriorityRuns
  <2>5. CASE t = sys.next
    BY <2>0, <2>5 DEF HighestPriorityRuns
  <2> QED BY <2>3, <2>4, <2>5
<1>15. ASSUME NEW t \in Tasks, NEW p \in 0 .. TN_NUM_PRIORITY - 2,
              tn_task_change_priority(t, p)
       PROVE  HighestPriorityRuns'
  <2> DEFINE new == IF p = 0 THEN base_priority(t) ELSE p
  <2>1. new \in 1 .. TN_NUM_PRIORITY - 2
    BY SystemTasks
  <2>2. CASE sys.state[t] = "runnable"
    <3> DEFINE s == change_running_task_priority(sys, t, new)
    <3>1. /\ sys' = s /\ skipped' = skipped
          /\ pending' = IF s.next # sys.next THEN pending \cup {sys.curr} ELSE pending
      BY <1>15, <2>2 DEF tn_task_change_priority
    <3> HIDE DEF new
    <3>2. s.curr = sys.curr
      BY <2>1, <2>2, <1>0, ChangeRunning
    <3> HIDE DEF s
    <3> QED BY <3>1, <3>2 DEF HighestPriorityRuns
  <2>3. CASE sys.state[t] # "runnable"
    <3>1. sys' = [sys EXCEPT !.priority[t] = new] /\ UNCHANGED <<pending, skipped>>
      BY <1>15, <2>3 DEF tn_task_change_priority
    <3> HIDE DEF new
    <3>2. sys'.curr = sys.curr /\ sys'.next = sys.next
      BY <3>1, <1>0 DEF SchedType
    <3> QED BY <3>1, <3>2, <1>1
  <2> QED BY <2>2, <2>3
<1>16. ASSUME NEW delete \in BOOLEAN, tn_task_exit(delete) PROVE HighestPriorityRuns'
  <2> DEFINE t == sys.curr
             n == task_to_non_runnable(sys, t)
             s == Restart(n, t)
  <2>0. t \in Tasks \ pending /\ sys' = [s EXCEPT !.curr = s.next]
    BY <1>16 DEF tn_task_exit
  <2>1. t \in AllTasks /\ t # IdleTask /\ t # TimerTask /\ sys.state[t] = "runnable"
    BY <2>0, RunningTask, TasksAssumption, SystemTasks
  <2>2. SameLists(sys, sys) /\ SameOthers(sys, sys, t)
    BY DEF SameLists, SameOthers, SameFor
  <2> HIDE DEF t
  <2>3. Sound(n, {t})
    BY <2>1, <2>2, <1>0, TakeReady
  <2> HIDE DEF n
  <2>4. SchedType(s)
    BY <2>0, <2>3, RestartSound DEF Sound
  <2> HIDE DEF s
  <2> QED BY <2>0, <2>4, <1>3
<1>17. ASSUME NEW t \in Tasks, tn_task_iwakeup(t) PROVE HighestPriorityRuns'
  <2>1. CASE Asleep(t)
    <3> DEFINE s == task_wait_complete(sys, t, FALSE)
    <3>1. tn_cpu_irq_isr(s, Woken(sys, t)) /\ pending' = pending
      BY <1>17, <2>1 DEF tn_task_iwakeup
    <3>2. s.curr = sys.curr /\ (~Woken(sys, t) => s.next = sys.next)
      BY <2>1, <1>8, <1>9
    <3>3. SchedType(s)
      BY <2>1, <1>0, <1>9, WaitComplete DEF Sound
    <3> HIDE DEF s
    <3>4. CASE Woken(sys, t)
      BY <3>1, <3>3, <3>4, <1>3 DEF tn_cpu_irq_isr
    <3>5. CASE ~Woken(sys, t)
      BY <3>1, <3>2, <3>5, <1>1 DEF tn_cpu_irq_isr
    <3> QED BY <3>4, <3>5
  <2>2. CASE ~Asleep(t)
    BY <1>1, <1>10, <1>17, <2>2 DEF tn_task_iwakeup, tn_cpu_irq_isr
  <2> QED BY <2>1, <2>2
<1>18. ASSUME NEW t \in Tasks, tn_task_irelease_wait(t) PROVE HighestPriorityRuns'
  <2> DEFINE s == task_wait_complete(sys, t, TRUE)
  <2>1. tn_cpu_irq_isr(s, Woken(sys, t)) /\ pending' = pending /\ Waiting(sys, t)
    BY <1>18 DEF tn_task_irelease_wait
  <2>2. s.curr = sys.curr /\ (~Woken(sys, t) => s.next = sys.next)
    BY <2>1, <1>8
  <2>3. SchedType(s)
    BY <2>1, <1>0, WaitComplete DEF Sound
  <2> HIDE DEF s
  <2>4. CASE Woken(sys, t)
    BY <2>1, <2>3, <2>4, <1>3 DEF tn_cpu_irq_isr
  <2>5. CASE ~Woken(sys, t)
    BY <2>1, <2>2, <2>5, <1>1 DEF tn_cpu_irq_isr
  <2> QED BY <2>4, <2>5
<1>19. ASSUME NEW t \in Tasks, tn_task_iactivate(t) PROVE HighestPriorityRuns'
  <2>1. CASE sys.state[t] = "dormant"
    <3> DEFINE s == task_to_runnable(sys, t)
    <3>1. tn_cpu_irq_isr(s, s.next # s.curr)
      BY <1>19, <2>1 DEF tn_task_iactivate
    <3>2. SchedType(s)
      BY <2>1, <1>0, StartTask DEF Sound
    <3> HIDE DEF s
    <3>3. CASE s.next # s.curr
      BY <3>1, <3>2, <3>3, <1>3 DEF tn_cpu_irq_isr
    <3>4. CASE s.next = s.curr
      BY <3>1, <3>4 DEF tn_cpu_irq_isr, HighestPriorityRuns
    <3> QED BY <3>3, <3>4
  <2>2. CASE sys.state[t] # "dormant"
    <3>1. tn_cpu_irq_isr([sys EXCEPT !.activate[t] = 1], FALSE) /\ pending' = pending
      BY <1>19, <2>2 DEF tn_task_iactivate
    <3>2. sys'.curr = sys.curr /\ sys'.next = sys.next /\ skipped' = skipped
      BY <3>1, <1>0 DEF SchedType, tn_cpu_irq_isr, IInv, TypeOK
    <3> QED BY <3>1, <3>2, <1>1
  <2> QED BY <2>1, <2>2
<1>20. ASSUME TimerVisit PROVE HighestPriorityRuns'
  <2>1. scanning /\ scanning' = scanning
    BY <1>20 DEF TimerVisit
  <2>2. sys'.curr = TimerTask /\ sys'.curr \notin pending'
    BY <2>1 DEF IInv, ScanOK
  <2>3. Sound(sys', {}) /\ sys'.state[TimerTask] = "runnable"
    BY <2>2 DEF IInv, OnlyRunnableRuns
  <2> QED BY <2>2, <2>3, TimerFirst DEF HighestPriorityRuns
<1>21. ASSUME TimerSleep PROVE HighestPriorityRuns'
  <2>1. /\ sys' = task_curr_to_wait_action(sys, NoQueue, "sleep", TN_WAIT_INFINITE)
        /\ pending' = pending \cup {TimerTask} /\ scanning
    BY <1>21 DEF TimerSleep
  <2>2. /\ sys.curr = TimerTask /\ sys.state[sys.curr] = "runnable" /\ sys.curr # IdleTask
        /\ "sleep" \in WaitReasons /\ TN_WAIT_INFINITE \in Int
    BY <2>1, TasksAssumption DEF IInv, ScanOK, OnlyRunnableRuns, WaitReasons, TN_WAIT_INFINITE
  <2>3. \A u : u = task_curr_to_wait_action(sys, NoQueue, "sleep", TN_WAIT_INFINITE) =>
            Only(sys, u, sys.curr)
    BY <2>2, <1>0, StartWait
  <2>4. sys'.curr = sys.curr
    BY <2>1, <2>3 DEF Only
  <2> QED BY <2>1, <2>2, <2>4 DEF HighestPriorityRuns
<1>22. ASSUME tn_tick_int_processing PROVE HighestPriorityRuns'
  <2> DEFINE r == RoundRobin(sys)
             s == WakeTimer(r)
  <2>0. sys' = [s EXCEPT !.curr = s.next]
    BY <1>22 DEF tn_tick_int_processing, tn_cpu_irq_isr
  <2>1. SoundButNext(r)
    BY <1>0, RotateSound DEF IInv, TypeOK
  <2> HIDE DEF r
  <2>2. SchedType(s)
    BY <2>1, WakeTimerSound DEF Sound
  <2> HIDE DEF s
  <2> QED BY <2>0, <2>2, <1>3
<1>23. ASSUME tn_switch_context PROVE HighestPriorityRuns'
  <2>1. sys' = [sys EXCEPT !.curr = sys.next]
    BY <1>23, TasksAssumption DEF tn_switch_context, IInv, TypeOK, SchedType, AllTasks
  <2> QED BY <2>1, <1>0, <1>3
<1>24. ASSUME UNCHANGED <<sys, pending, skipped>> PROVE HighestPriorityRuns'
  BY <1>24 DEF HighestPriorityRuns
<1>25. CASE TaskService
  <2>1. ASSUME NEW t \in Tasks, tn_task_delete(t) PROVE HighestPriorityRuns'
    BY <2>1, <1>24 DEF tn_task_delete
  <2>2. ASSUME NEW p \in SlicePriorities, NEW v \in Slices, tn_sys_tslice_ticks(p, v)
        PROVE  HighestPriorityRuns'
    BY <2>2, <1>24 DEF tn_sys_tslice_ticks
  <2> QED BY <2>1, <2>2, <1>4, <1>5, <1>6, <1>7, <1>11, <1>12, <1>13, <1>14, <1>15, <1>16, <1>25
          DEF TaskService
<1>26. CASE IsrService
  BY <1>17, <1>18, <1>19, <1>26 DEF IsrService
<1>27. CASE Timer
  BY <1>20, <1>21, <1>24, <1>27 DEF Timer, TimerBegin
<1>28. CASE AppInitDone
  BY <1>24, <1>28 DEF AppInitDone
<1>29. CASE UNCHANGED vars
  BY <1>24, <1>29 DEF vars
<1> QED
  BY <1>22, <1>23, <1>25, <1>26, <1>27, <1>28, <1>29 DEF Next

(* A task executes its own code only while it has the best claim to the    *)
(* processor, or while no context switch has happened since tn_task_create *)
(* started a better one: no order of services, interrupts and switches     *)
(* loses a context switch that a service had to make.                      *)
THEOREM BestTaskRuns ==
    Spec => []HighestPriorityRuns
<1>1. Init => HighestPriorityRuns
  BY DEF Init, tn_start_system, HighestPriorityRuns
<1>2. IInv /\ IInv' /\ HighestPriorityRuns /\ [Next]_vars => HighestPriorityRuns'
  BY NextHighest
<1> QED
  BY <1>1, <1>2, Invariance, PTL DEF Spec

-----------------------------------------------------------------------------
(* The timeout list under the cursor of the timer task                     *)

(* The timer task scans the list only after tn_app_init, and what it has   *)
(* still to visit is the end of the list.                                  *)
CursorOK == scanning => booted /\ IsSuffix(cursor, sys.timeouts)

(* Expire removes nothing but the entry it is applied to.                  *)
LEMMA ExpireTimeouts ==
    ASSUME NEW s, Sound(s, {}), NEW t \in AllTasks
    PROVE  Expire(s, t).timeouts \in {s.timeouts, RemoveFirst(s.timeouts, t)}
<1> DEFINE d == [s EXCEPT !.tick[t] = @ - 1]
           w == task_wait_complete(d, t, TRUE)
<1>0. SchedType(s) /\ s.tick[t] \in Int /\ d.timeouts = s.timeouts
  BY DEF Sound, SchedType
<1>1. SchedType(d)
  <2>1. [s.tick EXCEPT ![t] = @ - 1] \in [AllTasks -> Int]
    BY <1>0, SMTT(40) DEF SchedType
  <2> QED BY <2>1, <1>0 DEF SchedType
<1> HIDE DEF d
<1>2. w.timeouts \in {d.timeouts, RemoveFirst(d.timeouts, t)} /\ "timeouts" \in DOMAIN w
  <2> DEFINE a == queue_remove_entry(d, t)
             tm == IF d.tick[t] = TN_WAIT_INFINITE THEN a.timeouts ELSE RemoveFirst(a.timeouts, t)
             b == [a EXCEPT !.pwait[t] = NoQueue, !.rc[t] = "NO_ERR",
                            !.timeouts = tm, !.tick[t] = TN_WAIT_INFINITE]
             c == IF Woken(d, t) THEN task_to_runnable(b, t)
                                 ELSE [b EXCEPT !.state[t] = "suspend"]
  <2>1. a.timeouts = d.timeouts
    BY <1>1 DEF queue_remove_entry, SchedType
  <2>2. w = [c EXCEPT !.reason[t] = "none"]
    BY DEF task_wait_complete
  <2>3. "timeouts" \in DOMAIN a /\ "reason" \in DOMAIN a /\ "state" \in DOMAIN a
    BY <1>1 DEF queue_remove_entry, SchedType
  <2> HIDE DEF a, tm
  <2>4. b.timeouts = tm /\ "timeouts" \in DOMAIN b
    BY <2>3
  <2> HIDE DEF b
  <2>5. c.timeouts = b.timeouts /\ "timeouts" \in DOMAIN c
    <3>1. CASE Woken(d, t)
      BY <2>4, <3>1 DEF task_to_runnable
    <3>2. CASE ~Woken(d, t)
      BY <2>4, <3>2
    <3> QED BY <3>1, <3>2
  <2> HIDE DEF c
  <2>6. w.timeouts = c.timeouts /\ "timeouts" \in DOMAIN w
    BY <2>2, <2>5
  <2> QED BY <2>1, <2>4, <2>5, <2>6 DEF tm
<1> HIDE DEF w
<1>3. Expire(s, t) \in {s, d, [w EXCEPT !.rc[t] = "TIMEOUT"]}
  BY DEF Expire, d, w
<1> QED
  BY <1>0, <1>2, <1>3

(* Every step keeps CursorOK.                                              *)
LEMMA NextCursor ==
    ASSUME IInv, CursorOK, [Next]_vars
    PROVE  CursorOK'
<1>0. Sound(sys, {}) /\ cursor \in Seq(AllTasks) /\ sys.timeouts \in Seq(AllTasks)
  BY DEF IInv, TypeOK, SchedType
<1>1. ASSUME ~scanning' PROVE CursorOK'
  BY <1>1 DEF CursorOK
<1>2. sys.curr \in Tasks => ~scanning
  BY TasksAssumption DEF IInv, ScanOK
<1>3. CASE TimerBegin
  <2>1. booted' /\ cursor' = sys.timeouts /\ sys'.timeouts = sys.timeouts
    BY <1>3 DEF TimerBegin
  <2>2. IsSuffix(sys.timeouts, sys.timeouts)
    BY <1>0, LenProperties, SuffixElements
  <2> QED BY <2>1, <2>2 DEF CursorOK
<1>4. CASE TimerVisit
  <2> DEFINE t == Head(cursor)
  <2>1. /\ scanning /\ cursor # <<>> /\ sys' = Expire(sys, t) /\ cursor' = Tail(cursor)
        /\ booted' = booted
    BY <1>4 DEF TimerVisit
  <2>2. t \in AllTasks /\ Lists(sys.timeouts, Timed(sys, {}))
    BY <2>1, <1>0 DEF Sound, Rest
  <2>3. booted /\ IsSuffix(cursor, sys.timeouts)
    BY <2>1 DEF CursorOK
  <2>4. IsSuffix(Tail(cursor), sys.timeouts) /\ IsSuffix(Tail(cursor), RemoveFirst(sys.timeouts, t))
    BY <2>1, <2>2, <2>3, <1>0, SuffixStep
  <2> HIDE DEF t
  <2>5. sys'.timeouts \in {sys.timeouts, RemoveFirst(sys.timeouts, t)}
    BY <2>1, <2>2, <1>0, ExpireTimeouts
  <2> QED BY <2>1, <2>3, <2>4, <2>5 DEF CursorOK
<1>5. CASE TimerSleep
  BY <1>1, <1>5 DEF TimerSleep
<1>6. CASE TaskService
  <2>1. ASSUME NEW t \in Tasks, NEW start \in BOOLEAN, tn_task_create(t, start)
        PROVE  ~scanning'
    BY <2>1, <1>2 DEF tn_task_create, Calls, CursorOK
  <2>2. ASSUME NEW t \in Tasks,
               \/ tn_task_suspend(t) \/ tn_task_resume(t) \/ tn_task_wakeup(t)
               \/ tn_task_activate(t) \/ tn_task_release_wait(t)
               \/ tn_task_terminate(t) \/ tn_task_delete(t)
        PROVE  ~scanning'
    BY <2>2, <1>2 DEF tn_task_suspend, tn_task_resume, tn_task_wakeup, tn_task_activate,
       tn_task_release_wait, tn_task_terminate, tn_task_delete, Calls
  <2>3. ASSUME NEW timeout \in Timeouts, tn_task_sleep(timeout) PROVE ~scanning'
    BY <2>3, <1>2 DEF tn_task_sleep, Calls
  <2>4. ASSUME NEW delete \in BOOLEAN, tn_task_exit(delete) PROVE ~scanning'
    BY <2>4, <1>2 DEF tn_task_exit
  <2>5. ASSUME NEW t \in Tasks, NEW p \in 0 .. TN_NUM_PRIORITY - 2,
               tn_task_change_priority(t, p)
        PROVE  ~scanning'
    BY <2>5, <1>2 DEF tn_task_change_priority, Calls
  <2>6. ASSUME NEW p \in SlicePriorities, NEW v \in Slices, tn_sys_tslice_ticks(p, v)
        PROVE  ~scanning'
    BY <2>6, <1>2 DEF tn_sys_tslice_ticks, Calls
  <2>7. ~scanning'
    BY <1>6, <2>1, <2>2, <2>3, <2>4, <2>5, <2>6 DEF TaskService
  <2> QED BY <2>7, <1>1
<1>7. CASE IsrService
  <2>1. ASSUME NEW t \in Tasks,
               tn_task_iwakeup(t) \/ tn_task_iactivate(t) \/ tn_task_irelease_wait(t)
        PROVE  ~scanning'
    BY <2>1 DEF tn_task_iwakeup, tn_task_iactivate, tn_task_irelease_wait, IrqEnabled
  <2>2. ~scanning'
    BY <1>7, <2>1 DEF IsrService
  <2> QED BY <2>2, <1>1
<1>8. CASE tn_tick_int_processing \/ tn_switch_context
  BY <1>1, <1>8 DEF tn_tick_int_processing, tn_switch_context, IrqEnabled
<1>9. CASE AppInitDone
  BY <1>9 DEF AppInitDone, CursorOK
<1>10. CASE UNCHANGED vars
  BY <1>10 DEF vars, CursorOK
<1> QED
  BY <1>3, <1>4, <1>5, <1>6, <1>7, <1>8, <1>9, <1>10 DEF Next, Timer

(* While the timer task walks the timeout list, nothing but the walk       *)
(* itself changes what it has still to visit, for a timeout list of any    *)
(* length.                                                                 *)
THEOREM CursorStays ==
    Spec => []CursorInList
<1>1. Init => CursorOK
  BY DEF Init, CursorOK
<1>2. IInv /\ CursorOK /\ [Next]_vars => CursorOK'
  BY NextCursor
<1>3. IInv /\ CursorOK => CursorInList
  BY TimerFirst DEF IInv, ScanOK, OnlyRunnableRuns, CursorOK, CursorInList
<1> QED
  BY <1>1, <1>2, <1>3, Invariance, PTL DEF Spec

=============================================================================
