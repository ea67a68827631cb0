--------------------------- MODULE TNObjectsProofs ---------------------------
(***************************************************************************)
(* Tasks that wait for a semaphore, a data queue, a memory pool or an      *)
(* event: what the wait queue of an object says about the tasks and about  *)
(* the object, for any number of tasks, queues and units.                  *)
(*                                                                         *)
(* A task waits in the queue of an object exactly while it is in a call    *)
(* for that object (CallsInv).  The kernel ends such a wait only by a      *)
(* timeout or a forced release and never starts one, so that what an       *)
(* object says of its wait queue is a matter of the services of the        *)
(* object alone.                                                           *)
(*                                                                         *)
(* The third part shows that the pool and the queue of TNBuffers implement *)
(* BufferFlow: every block is in one place, and every step moves blocks    *)
(* the way a step of BufferFlow does, or moves none.  The last part is     *)
(* about events, whose scan of the wait queue releases many tasks at once. *)
(***************************************************************************)
EXTENDS TNSem, TNBuffers, TNEvent, TNTasksProofs

-----------------------------------------------------------------------------
(* What the routines of tn_tasks.c do to the fields a call depends on      *)

Kept(s, u, x) ==
    u.state[x] = s.state[x] /\ u.pwait[x] = s.pwait[x] /\ u.rc[x] = s.rc[x]

KeptBut(s, u, t) == \A x \in AllTasks \ {t} : Kept(s, u, x)

(* Fields that are functions of the task                                   *)
LEMMA TcbFunctions ==
    ASSUME NEW s, SchedType(s)
    PROVE  /\ s.state \in [AllTasks -> TaskStates]
           /\ s.pwait \in [AllTasks -> WaitQueues \cup {NoQueue}]
           /\ s.rc \in [AllTasks -> WaitCodes]
           /\ s.curr \in AllTasks
           /\ s.wait \in [WaitQueues -> Seq(AllTasks)]
BY DEF SchedType

(* task_to_non_runnable changes neither the state nor the wait queue of a  *)
(* task.                                                                   *)
LEMMA NonRunnableTcb ==
    ASSUME NEW s, SchedType(s), NEW t \in AllTasks,
           NEW u, u = task_to_non_runnable(s, t)
    PROVE  /\ u.state = s.state /\ u.pwait = s.pwait /\ u.rc = s.rc
           /\ u.curr = s.curr /\ DOMAIN u = DOMAIN s
<1> DEFINE a == queue_remove_entry(s, t)
           p == s.priority[t]
           b == s.bmp \ {p}
<1>1. /\ a.state = s.state /\ a.pwait = s.pwait /\ a.rc = s.rc
      /\ a.curr = s.curr /\ DOMAIN a = DOMAIN s
  BY DEF queue_remove_entry, SchedType
<1>2. u = IF a.ready[p] = <<>>
          THEN IF b = {} THEN [a EXCEPT !.bmp = b, !.next = NoTask]
                         ELSE find_next_task_to_run([a EXCEPT !.bmp = b])
          ELSE IF a.next = t THEN [a EXCEPT !.next = Head(a.ready[p])] ELSE a
  BY DEF task_to_non_runnable
<1> HIDE DEF a, b, p
<1> QED
  BY <1>1, <1>2 DEF find_next_task_to_run, SchedType

(* The running task waits, in queue q or in none.                          *)
LEMMA WaitTcb ==
    ASSUME NEW s, SchedType(s), NEW t \in AllTasks, t = s.curr,
           NEW q \in WaitQueues \cup {NoQueue},
           NEW reason \in WaitReasons, NEW timeout \in Int,
           NEW u, u = task_curr_to_wait_action(s, q, reason, timeout)
    PROVE  /\ KeptBut(s, u, t) /\ u.state[t] = "wait" /\ u.rc[t] = s.rc[t]
           /\ u.pwait[t] = IF q = NoQueue THEN s.pwait[t] ELSE q
           /\ u.curr = s.curr
<1> DEFINE w == task_to_non_runnable(s, t)
           tm == IF timeout = TN_WAIT_INFINITE THEN w.timeouts ELSE Append(w.timeouts, t)
           v == [w EXCEPT !.state[t] = "wait", !.reason[t] = reason,
                          !.tick[t] = timeout, !.timeouts = tm]
<1>1. u = IF q = NoQueue THEN [v EXCEPT !.link[t] = "reset"]
          ELSE [v EXCEPT !.wait[q] = Append(@, t), !.link[t] = "listed", !.pwait[t] = q]
  BY DEF task_curr_to_wait_action
<1>2. /\ w.state = s.state /\ w.pwait = s.pwait /\ w.rc = s.rc
      /\ w.curr = s.curr /\ DOMAIN w = DOMAIN s
  BY NonRunnableTcb, TcbFunctions
<1> HIDE DEF w, tm
<1>3. /\ v.state = [s.state EXCEPT ![t] = "wait"] /\ v.pwait = s.pwait /\ v.rc = s.rc
      /\ v.curr = s.curr /\ DOMAIN v = DOMAIN s
  BY <1>2 DEF SchedType
<1> HIDE DEF v
<1>4. /\ u.state = v.state /\ u.rc = v.rc /\ u.curr = v.curr
      /\ u.pwait = IF q = NoQueue THEN v.pwait ELSE [v.pwait EXCEPT ![t] = q]
  <2>0. DOMAIN v = DOMAIN s
    BY <1>3
  <2>1. CASE q = NoQueue
    <3>1. u = [v EXCEPT !.link[t] = "reset"]
      BY <2>1, <1>1
    <3> QED BY <3>1, <2>0, <2>1 DEF SchedType
  <2>2. CASE q # NoQueue
    <3>1. u = [v EXCEPT !.wait[q] = Append(@, t), !.link[t] = "listed", !.pwait[t] = q]
      BY <2>2, <1>1
    <3> QED BY <3>1, <2>0, <2>2 DEF SchedType
  <2> QED BY <2>1, <2>2
<1> QED
  BY <1>3, <1>4, TcbFunctions DEF KeptBut, Kept

(* A task becomes runnable.                                                *)
LEMMA RunnableTcb ==
    ASSUME NEW s, SchedType(s), NEW t \in AllTasks,
           NEW u, u = task_to_runnable(s, t)
    PROVE  /\ u.state = [s.state EXCEPT ![t] = "runnable"]
           /\ u.pwait = [s.pwait EXCEPT ![t] = NoQueue]
           /\ u.rc = s.rc /\ u.curr = s.curr
BY DEF task_to_runnable, SchedType

(* A change of priority                                                    *)
LEMMA PriorityTcb ==
    ASSUME NEW s, SchedType(s), NEW t \in AllTasks, NEW p,
           NEW u, u = change_running_task_priority(s, t, p)
    PROVE  u.state = s.state /\ u.pwait = s.pwait /\ u.rc = s.rc /\ u.curr = s.curr
<1> DEFINE old == s.priority[t]
           a == queue_remove_entry(s, t)
           bits == (IF a.ready[old] = <<>> THEN a.bmp \ {old} ELSE a.bmp) \cup {p}
           v == [a EXCEPT !.priority[t] = p, !.ready[p] = Append(@, t),
                          !.link[t] = "listed", !.bmp = bits]
<1>1. /\ a.state = s.state /\ a.pwait = s.pwait /\ a.rc = s.rc
      /\ a.curr = s.curr /\ DOMAIN a = DOMAIN s
  BY DEF queue_remove_entry, SchedType
<1>2. u = IF s.next = t
          THEN IF p >= old THEN find_next_task_to_run(v) ELSE v
          ELSE IF p < v.priority[v.next] THEN [v EXCEPT !.next = t] ELSE v
  BY DEF change_running_task_priority
<1> HIDE DEF a, bits, old
<1>3. /\ v.state = s.state /\ v.pwait = s.pwait /\ v.rc = s.rc
      /\ v.curr = s.curr /\ DOMAIN v = DOMAIN s
  BY <1>1 DEF SchedType
<1> HIDE DEF v
<1> QED
  BY <1>2, <1>3 DEF find_next_task_to_run, SchedType

(* The end of a wait                                                       *)
LEMMA CompleteTcb ==
    ASSUME NEW s, SchedType(s), NEW t \in AllTasks, NEW remove \in BOOLEAN
    PROVE  /\ KeptBut(s, task_wait_complete(s, t, remove), t)
           /\ task_wait_complete(s, t, remove).state[t] \in {"runnable", "suspend"}
<1> DEFINE u == task_wait_complete(s, t, remove)
<1>0. /\ task_wait_complete(s, t, remove).pwait = [s.pwait EXCEPT ![t] = NoQueue]
      /\ task_wait_complete(s, t, remove).rc = [s.rc EXCEPT ![t] = "NO_ERR"]
  BY CompleteFields
<1>1. /\ u.pwait = [s.pwait EXCEPT ![t] = NoQueue]
      /\ u.rc = [s.rc EXCEPT ![t] = "NO_ERR"]
  BY <1>0
<1>2. u.state = [s.state EXCEPT ![t] = IF Woken(s, t) THEN "runnable" ELSE "suspend"]
  BY CompleteState
<1> DEFINE x == IF Woken(s, t) THEN "runnable" ELSE "suspend"
<1>3. x \in {"runnable", "suspend"} /\ u.state = [s.state EXCEPT ![t] = x]
  BY <1>2
<1> HIDE DEF u, x
<1>4. KeptBut(s, u, t) /\ u.state[t] = x
  BY <1>1, <1>3, TcbFunctions DEF KeptBut, Kept
<1> QED
  BY <1>3, <1>4 DEF u

(* The tick interrupt changes the timer task only.                         *)
LEMMA WakeTimerTcb ==
    ASSUME NEW s, SoundButNext(s), NEW u, u = WakeTimer(s)
    PROVE  KeptBut(s, u, TimerTask) /\ u.pwait[TimerTask] = NoQueue
<1> DEFINE t == TimerTask
           a == queue_remove_entry(s, t)
           R == Runnables(s, {})
           W == Waiters(s, {})
<1>0. t \in AllTasks /\ SchedType(s)
  BY SystemTasks DEF SoundButNext
<1>1. SchedType(a) /\ SameTcbs(s, a)
  <2>1. ReadyLists(s, R) /\ WaitsFor(s, W) /\ s.link[t] # "stale"
    BY <1>0 DEF SoundButNext, Rest, TcbOK, SystemOK, Waiting
  <2> HIDE DEF t, R, W
  <2> QED BY <2>1, <1>0, RemoveEntry
<1>2. u = [a EXCEPT !.reason[t] = "none", !.state[t] = "runnable",
                    !.pwait[t] = NoQueue, !.rc[t] = "NO_ERR",
                    !.ready[0] = Append(@, t), !.link[t] = "listed",
                    !.bmp = @ \cup {0}, !.next = t]
  BY DEF WakeTimer
<1> HIDE DEF a, t
<1>3. /\ u.state = [a.state EXCEPT ![t] = "runnable"]
      /\ u.pwait = [a.pwait EXCEPT ![t] = NoQueue]
      /\ u.rc = [a.rc EXCEPT ![t] = "NO_ERR"]
  BY <1>1, <1>2 DEF SchedType
<1>4. KeptBut(s, u, t) /\ u.pwait[t] = NoQueue
  BY <1>0, <1>1, <1>3, TcbFunctions DEF SameTcbs, KeptBut, Kept
<1> QED
  BY <1>4 DEF t

(* Round robin changes the order of a ready list only.                     *)
LEMMA RoundRobinTcb ==
    ASSUME NEW s, SchedType(s), NEW u, u = RoundRobin(s)
    PROVE  u.state = s.state /\ u.pwait = s.pwait /\ u.rc = s.rc
BY DEF RoundRobin, SchedType

-----------------------------------------------------------------------------
(* Where a task is in a call                                               *)

Places ==
    [at : {"none", "wait", "delete", "remove", "finish"}, q : WaitQueues \cup {NoQueue}]

(* A task that waits in a queue is in a call for the object of that queue. *)
(* One that sleeps, or is dormant, is in no call.                          *)
PlaceOK(s, place, t) ==
    /\ Waiting(s, t) =>
         place = IF s.pwait[t] = NoQueue THEN Outside ELSE Place("wait", s.pwait[t])
    /\ s.state[t] = "dormant" => place = Outside

CallsInv ==
    /\ IInv
    /\ call \in [Tasks -> Places]
    /\ \A t \in Tasks : PlaceOK(sys, call[t], t)
    /\ sys.pwait[TimerTask] = NoQueue

(* What a step of the kernel may do to a task that is at a given place in  *)
(* a call: nothing, suspend or resume it; let it sleep, if it is in no     *)
(* call; end its wait, by a timeout or a forced release if it is in a      *)
(* call; or create and start it.                                           *)
Suspends(s, u, x) ==
    /\ Waiting(u, x) <=> Waiting(s, x)
    /\ Waiting(s, x) => u.pwait[x] = s.pwait[x]
    /\ u.rc[x] = s.rc[x]
    /\ s.state[x] # "dormant" /\ u.state[x] # "dormant"

FallsAsleep(s, u, x, place) ==
    place = Outside /\ u.state[x] = "wait" /\ u.pwait[x] = NoQueue

WaitEnds(s, u, x) ==
    /\ Waiting(s, x)
    /\ u.state[x] \in {"runnable", "suspend"}
    /\ \/ s.pwait[x] = NoQueue
       \/ u.rc[x] = "TIMEOUT"
       \/ "release_wait" \in Services
       \/ "irelease_wait" \in Services

Starts(s, u, x) ==
    s.state[x] = "dormant" /\ u.state[x] \in {"dormant", "runnable"}

KernelTcb(s, u, x, place) ==
    \/ Kept(s, u, x)
    \/ Suspends(s, u, x)
    \/ FallsAsleep(s, u, x, place)
    \/ WaitEnds(s, u, x)
    \/ Starts(s, u, x)

KernelEffect(u) ==
    /\ \A x \in Tasks : KernelTcb(sys, u, x, call[x])
    /\ u.pwait[TimerTask] = NoQueue

-----------------------------------------------------------------------------

(* A step that changes the TCB of one task of the application at most      *)
LEMMA OneTask ==
    ASSUME CallsInv, NEW t \in Tasks, NEW u, KeptBut(sys, u, t),
           KernelTcb(sys, u, t, call[t])
    PROVE  KernelEffect(u)
<1>1. Tasks \subseteq AllTasks /\ TimerTask \in AllTasks \ {t}
  BY SystemTasks, TasksAssumption
<1>2. u.pwait[TimerTask] = NoQueue
  BY <1>1 DEF KeptBut, Kept, CallsInv
<1>3. \A x \in Tasks : KernelTcb(sys, u, x, call[x])
  BY <1>1 DEF KeptBut, KernelTcb
<1> QED
  BY <1>2, <1>3 DEF KernelEffect

(* A step that changes no TCB in these fields                              *)
LEMMA NoTcb ==
    ASSUME CallsInv, NEW u, u.state = sys.state, u.pwait = sys.pwait, u.rc = sys.rc
    PROVE  KernelEffect(u)
BY DEF KernelEffect, KernelTcb, Kept, CallsInv

(* A return from an interrupt changes no TCB.                              *)
LEMMA IsrTcb ==
    ASSUME NEW s, SchedType(s), NEW request, tn_cpu_irq_isr(s, request),
           KernelEffect(s)
    PROVE  KernelEffect(sys')
<1> DEFINE u == IF request THEN [s EXCEPT !.curr = s.next] ELSE s
<1>1. sys' = u
  BY DEF tn_cpu_irq_isr
<1>2. u.state = s.state /\ u.pwait = s.pwait /\ u.rc = s.rc
  BY DEF SchedType
<1> HIDE DEF u
<1>3. KernelEffect(u)
  BY <1>2 DEF KernelEffect, KernelTcb, Kept, Suspends, FallsAsleep, WaitEnds, Starts,
     Waiting
<1> QED
  BY <1>1, <1>3

(* tn_task_create                                                          *)
LEMMA CreateEffect ==
    ASSUME CallsInv, NEW t \in Tasks, NEW start \in BOOLEAN, tn_task_create(t, start)
    PROVE  KernelEffect(sys')
<1> DEFINE a == [sys EXCEPT !.activate[t] = 0]
           d == task_set_dormant_state(a, t)
           s == IF start THEN task_to_runnable(d, t) ELSE d
<1>a. CASE sys.state[t] # "dormant"
  <2>1. sys' = sys
    BY <1>a DEF tn_task_create
  <2> QED BY <2>1 DEF KernelEffect, KernelTcb, Kept, CallsInv
<1> SUFFICES ASSUME sys.state[t] = "dormant" PROVE KernelEffect(sys')
  BY <1>a
<1>0. sys' = s
  BY DEF tn_task_create
<1>1. /\ Sound(sys, {}) /\ sys.state[t] = "dormant" /\ t \in AllTasks
      /\ SchedType(sys)
  BY SystemTasks DEF CallsInv, IInv, Sound
<1>2. Sound(a, {t}) /\ SameButCounters(sys, a)
  BY <1>1, Exclude, SetActivate
<1>3. a.rc = sys.rc
  BY <1>1 DEF SchedType
<1> HIDE DEF a
<1>4. SchedType(a) /\ Sound(d, {t})
  BY <1>2, SetDormant DEF Sound
<1>5. /\ d.state = [a.state EXCEPT ![t] = "dormant"]
      /\ d.pwait = [a.pwait EXCEPT ![t] = NoQueue]
      /\ d.rc = [a.rc EXCEPT ![t] = "NO_ERR"]
  BY <1>4 DEF SchedType, task_set_dormant_state
<1> HIDE DEF d
<1>6. /\ s.state = IF start THEN [d.state EXCEPT ![t] = "runnable"] ELSE d.state
      /\ s.pwait = IF start THEN [d.pwait EXCEPT ![t] = NoQueue] ELSE d.pwait
      /\ s.rc = d.rc
  BY <1>1, <1>4, RunnableTcb DEF Sound
<1> HIDE DEF s
<1>7. KeptBut(sys, s, t) /\ s.state[t] \in {"dormant", "runnable"}
  BY <1>1, <1>2, <1>3, <1>5, <1>6, TcbFunctions DEF KeptBut, Kept, SameButCounters
<1> QED
  BY <1>0, <1>1, <1>7, OneTask DEF KernelTcb, Starts

(* tn_task_suspend                                                         *)
LEMMA SuspendEffect ==
    ASSUME CallsInv, NEW t \in Tasks, tn_task_suspend(t)
    PROVE  KernelEffect(sys')
<1>0. SchedType(sys) /\ t \in AllTasks /\ sys.state[t] # "dormant"
  BY SystemTasks DEF CallsInv, IInv, Sound, tn_task_suspend
<1>1. CASE sys.state[t] = "runnable"
  <2> DEFINE v == [sys EXCEPT !.state[t] = "suspend"]
             s == task_to_non_runnable(v, t)
  <2>1. sys' = s
    BY <1>1 DEF tn_task_suspend
  <2>2. "suspend" \in TaskStates
    BY DEF TaskStates
  <2>3. SchedType(v) /\ v.state = [sys.state EXCEPT ![t] = "suspend"]
        /\ v.pwait = sys.pwait /\ v.rc = sys.rc
    BY <2>2, <1>0 DEF SchedType
  <2> HIDE DEF v
  <2>4. s.state = v.state /\ s.pwait = v.pwait /\ s.rc = v.rc
    BY <2>3, <1>0, NonRunnableTcb
  <2> HIDE DEF s
  <2>5. KeptBut(sys, s, t) /\ s.state[t] = "suspend" /\ s.rc = sys.rc
    BY <2>3, <2>4, <1>0, TcbFunctions DEF KeptBut, Kept
  <2>6. KernelTcb(sys, s, t, call[t])
    BY <2>5, <1>1 DEF KernelTcb, Suspends, Waiting
  <2> QED BY <2>1, <2>5, <2>6, OneTask
<1>2. CASE sys.state[t] # "runnable"
  <2>1. sys' = [sys EXCEPT !.state[t] = "waitsusp"] /\ ~Suspended(sys, t)
    BY <1>2 DEF tn_task_suspend
  <2>2. /\ sys'.state = [sys.state EXCEPT ![t] = "waitsusp"]
        /\ sys'.pwait = sys.pwait /\ sys'.rc = sys.rc
    BY <2>1, <1>0 DEF SchedType
  <2>3. KeptBut(sys, sys', t) /\ sys'.state[t] = "waitsusp"
    BY <2>2, <1>0, TcbFunctions DEF KeptBut, Kept
  <2>4. Waiting(sys, t)
    BY <2>1, <1>0, <1>2, TcbFunctions DEF Suspended, Waiting, TaskStates
  <2>5. KernelTcb(sys, sys', t, call[t])
    BY <2>2, <2>3, <2>4, <1>0 DEF KernelTcb, Suspends, Waiting
  <2> QED BY <2>3, <2>5, OneTask
<1> QED
  BY <1>1, <1>2

(* task_to_runnable of a task that does not wait                           *)
LEMMA RunnableEffect ==
    ASSUME CallsInv, NEW t \in Tasks, ~Waiting(sys, t),
           NEW s, s = task_to_runnable(sys, t)
    PROVE  KernelEffect(s) /\ SchedType(s)
<1>0. SchedType(sys) /\ t \in AllTasks
  BY SystemTasks DEF CallsInv, IInv, Sound
<1>1. SchedType(s)
  BY <1>0, RunnableFields
<1>2. /\ s.state = [sys.state EXCEPT ![t] = "runnable"]
      /\ s.pwait = [sys.pwait EXCEPT ![t] = NoQueue] /\ s.rc = sys.rc
  BY <1>0, RunnableTcb
<1>3. KeptBut(sys, s, t) /\ s.state[t] = "runnable"
  BY <1>0, <1>2, TcbFunctions DEF KeptBut, Kept
<1>4. KernelTcb(sys, s, t, call[t])
  BY <1>2, <1>3 DEF KernelTcb, Suspends, Starts, Waiting
<1> QED
  BY <1>1, <1>3, <1>4, OneTask

(* tn_task_resume                                                          *)
LEMMA ResumeEffect ==
    ASSUME CallsInv, NEW t \in Tasks, tn_task_resume(t)
    PROVE  KernelEffect(sys')
<1>0. SchedType(sys) /\ t \in AllTasks /\ Suspended(sys, t)
  BY SystemTasks DEF CallsInv, IInv, Sound, tn_task_resume
<1>1. CASE ~Waiting(sys, t)
  <2>1. sys' = task_to_runnable(sys, t)
    BY <1>1 DEF tn_task_resume
  <2>2. \A s : s = task_to_runnable(sys, t) => KernelEffect(s)
    BY <1>1, RunnableEffect
  <2> QED BY <2>1, <2>2
<1>2. CASE Waiting(sys, t)
  <2>1. sys' = [sys EXCEPT !.state[t] = "wait"]
    BY <1>2 DEF tn_task_resume
  <2>2. /\ sys'.state = [sys.state EXCEPT ![t] = "wait"]
        /\ sys'.pwait = sys.pwait /\ sys'.rc = sys.rc
    BY <2>1, <1>0 DEF SchedType
  <2>3. KeptBut(sys, sys', t) /\ sys'.state[t] = "wait"
    BY <2>2, <1>0, TcbFunctions DEF KeptBut, Kept
  <2>4. KernelTcb(sys, sys', t, call[t])
    BY <2>2, <2>3, <1>2 DEF KernelTcb, Suspends, Waiting
  <2> QED BY <2>3, <2>4, OneTask
<1> QED
  BY <1>1, <1>2

(* tn_task_sleep, called by a task that is in no call for an object        *)
LEMMA SleepEffect ==
    ASSUME CallsInv, NEW timeout \in Timeouts, tn_task_sleep(timeout), At(Outside)
    PROVE  KernelEffect(sys')
<1> DEFINE t == sys.curr
<1>0. /\ SchedType(sys) /\ t \in Tasks /\ t \in AllTasks /\ call[t] = Outside
      /\ sys.state[t] = "runnable"
  BY SystemTasks, RunningTask DEF CallsInv, IInv, Sound, At
<1>1. sys.pwait[t] = NoQueue
  BY <1>0 DEF CallsInv, IInv, Sound, Rest, TcbOK
<1> HIDE DEF t
<1>2. CASE sys.wakeup[t] > 0
  <2>1. sys' = [sys EXCEPT !.wakeup[t] = @ - 1]
    BY <1>2 DEF tn_task_sleep, t
  <2>2. sys'.state = sys.state /\ sys'.pwait = sys.pwait /\ sys'.rc = sys.rc
    BY <2>1, <1>0 DEF SchedType
  <2> QED BY <2>2, NoTcb
<1>3. CASE ~(sys.wakeup[t] > 0)
  <2>1. sys' = task_curr_to_wait_action(sys, NoQueue, "sleep", timeout)
    BY <1>3 DEF tn_task_sleep, t
  <2> DEFINE u == task_curr_to_wait_action(sys, NoQueue, "sleep", timeout)
  <2>2. "sleep" \in WaitReasons /\ timeout \in Int /\ t = sys.curr
    BY ServicesAssumption DEF WaitReasons, TN_WAIT_INFINITE, t
  <2>3. KeptBut(sys, u, t) /\ u.state[t] = "wait" /\ u.pwait[t] = NoQueue
    BY <2>2, <1>0, <1>1, WaitTcb
  <2> HIDE DEF u
  <2>4. KeptBut(sys, sys', t) /\ sys'.state[t] = "wait" /\ sys'.pwait[t] = NoQueue
    BY <2>1, <2>3 DEF u
  <2>5. KernelTcb(sys, sys', t, call[t])
    BY <2>4, <1>0 DEF KernelTcb, FallsAsleep
  <2> QED BY <2>4, <2>5, <1>0, OneTask
<1> QED
  BY <1>2, <1>3

(* task_wait_complete of a task that sleeps or is released by force        *)
LEMMA CompleteEffect ==
    ASSUME CallsInv, NEW t \in Tasks, Waiting(sys, t),
           NEW remove \in BOOLEAN, remove \/ sys.pwait[t] = NoQueue,
           \/ sys.pwait[t] = NoQueue
           \/ "release_wait" \in Services
           \/ "irelease_wait" \in Services,
           NEW u, u = task_wait_complete(sys, t, remove)
    PROVE  KernelEffect(u) /\ SchedType(u)
<1>0. SchedType(sys) /\ Sound(sys, {}) /\ t \in AllTasks
  BY SystemTasks DEF CallsInv, IInv, Sound
<1>1. SchedType(u)
  BY <1>0, WaitComplete DEF Sound
<1>2. KeptBut(sys, u, t) /\ u.state[t] \in {"runnable", "suspend"}
  BY <1>0, CompleteTcb
<1>3. KernelTcb(sys, u, t, call[t])
  BY <1>2 DEF KernelTcb, WaitEnds
<1> QED
  BY <1>1, <1>2, <1>3, OneTask

(* A task that sleeps is in no wait queue.                                 *)
LEMMA AsleepInNone ==
    ASSUME CallsInv, NEW t \in Tasks, Asleep(t)
    PROVE  Waiting(sys, t) /\ sys.pwait[t] = NoQueue
BY SystemTasks DEF CallsInv, IInv, Asleep, Sound, Rest, TcbOK

(* A counted wakeup changes no TCB in the fields a call depends on.        *)
LEMMA CountEffect ==
    ASSUME CallsInv
    PROVE  KernelEffect(CountWakeup) /\ SchedType(CountWakeup)
<1>0. SchedType(sys) /\ sys.curr \in AllTasks
  BY TcbFunctions DEF CallsInv, IInv, Sound
<1> DEFINE u == CountWakeup
<1>1. u = [sys EXCEPT !.wakeup[sys.curr] = 1]
  BY DEF CountWakeup
<1> HIDE DEF u
<1>2. u.state = sys.state /\ u.pwait = sys.pwait /\ u.rc = sys.rc
  BY <1>0, <1>1 DEF SchedType
<1>3. SchedType(u)
  BY <1>0, <1>1, SetWakeup DEF CallsInv, IInv, Sound
<1> QED
  BY <1>2, <1>3, NoTcb DEF u

(* tn_task_wakeup, tn_task_iwakeup                                         *)
LEMMA WakeupEffect ==
    ASSUME CallsInv, NEW t \in Tasks, tn_task_wakeup(t) \/ tn_task_iwakeup(t)
    PROVE  KernelEffect(sys')
<1> DEFINE s == task_wait_complete(sys, t, FALSE)
<1>1. Asleep(t) => KernelEffect(s) /\ SchedType(s)
  BY AsleepInNone, CompleteEffect
<1> HIDE DEF s
<1>2. CASE tn_task_wakeup(t)
  <2>1. sys' = IF Asleep(t) THEN s ELSE CountWakeup
    BY <1>2 DEF tn_task_wakeup, s
  <2> QED BY <2>1, <1>1, CountEffect
<1>3. CASE tn_task_iwakeup(t)
  <2>1. CASE Asleep(t)
    <3>1. tn_cpu_irq_isr(s, Woken(sys, t))
      BY <2>1, <1>3 DEF tn_task_iwakeup, s
    <3> QED BY <3>1, <2>1, <1>1, IsrTcb
  <2>2. CASE ~Asleep(t)
    <3>1. tn_cpu_irq_isr(CountWakeup, FALSE)
      BY <2>2, <1>3 DEF tn_task_iwakeup
    <3> QED BY <3>1, CountEffect, IsrTcb
  <2> QED BY <2>1, <2>2
<1> QED
  BY <1>2, <1>3

(* tn_task_activate, tn_task_iactivate                                     *)
LEMMA ActivateEffect ==
    ASSUME CallsInv, NEW t \in Tasks, tn_task_activate(t) \/ tn_task_iactivate(t)
    PROVE  KernelEffect(sys')
<1> DEFINE s == task_to_runnable(sys, t)
           u == [sys EXCEPT !.activate[t] = 1]
<1>0. SchedType(sys) /\ Sound(sys, {}) /\ t \in AllTasks
  BY SystemTasks DEF CallsInv, IInv, Sound
<1>1. sys.state[t] = "dormant" => KernelEffect(s) /\ SchedType(s)
  BY RunnableEffect DEF Waiting
<1>2. KernelEffect(u) /\ SchedType(u)
  <2>1. u.state = sys.state /\ u.pwait = sys.pwait /\ u.rc = sys.rc
    BY <1>0 DEF SchedType
  <2>2. SchedType(u)
    BY <1>0, SetActivate DEF Sound
  <2> QED BY <2>1, <2>2, NoTcb
<1> HIDE DEF s
<1>3. CASE tn_task_activate(t)
  <2>1. sys' = IF sys.state[t] = "dormant" THEN s ELSE u
    BY <1>3 DEF tn_task_activate, s
  <2> HIDE DEF u
  <2> QED BY <2>1, <1>1, <1>2
<1>4. CASE tn_task_iactivate(t)
  <2>1. CASE sys.state[t] = "dormant"
    <3>1. tn_cpu_irq_isr(s, s.next # s.curr)
      BY <2>1, <1>4 DEF tn_task_iactivate, s
    <3> QED BY <3>1, <2>1, <1>1, IsrTcb
  <2>2. CASE sys.state[t] # "dormant"
    <3>1. tn_cpu_irq_isr(u, FALSE)
      BY <2>2, <1>4 DEF tn_task_iactivate
    <3> HIDE DEF u
    <3> QED BY <3>1, <1>2, IsrTcb
  <2> QED BY <2>1, <2>2
<1> QED
  BY <1>3, <1>4

(* tn_task_release_wait, tn_task_irelease_wait                             *)
LEMMA ReleaseWaitEffect ==
    ASSUME CallsInv, NEW t \in Tasks, tn_task_release_wait(t) \/ tn_task_irelease_wait(t)
    PROVE  KernelEffect(sys')
<1> DEFINE s == task_wait_complete(sys, t, TRUE)
<1>1. /\ Waiting(sys, t)
      /\ "release_wait" \in Services \/ "irelease_wait" \in Services
  BY DEF tn_task_release_wait, tn_task_irelease_wait, Calls
<1>2. KernelEffect(s) /\ SchedType(s)
  BY <1>1, CompleteEffect
<1> HIDE DEF s
<1>3. sys' = s \/ tn_cpu_irq_isr(s, Woken(sys, t))
  BY DEF tn_task_release_wait, tn_task_irelease_wait, s
<1> QED
  BY <1>2, <1>3, IsrTcb

(* tn_task_change_priority                                                 *)
LEMMA ChangePriorityEffect ==
    ASSUME CallsInv, NEW t \in Tasks, NEW priority \in 0 .. TN_NUM_PRIORITY - 2,
           tn_task_change_priority(t, priority)
    PROVE  KernelEffect(sys')
<1> DEFINE p == IF priority = 0 THEN base_priority(t) ELSE priority
           s == change_running_task_priority(sys, t, p)
<1>0. SchedType(sys) /\ t \in AllTasks
  BY SystemTasks DEF CallsInv, IInv, Sound
<1>1. sys' = s \/ sys' = [sys EXCEPT !.priority[t] = p]
  BY DEF tn_task_change_priority
<1> HIDE DEF p
<1>2. s.state = sys.state /\ s.pwait = sys.pwait /\ s.rc = sys.rc
  BY <1>0, PriorityTcb
<1> HIDE DEF s
<1>3. sys'.state = sys.state /\ sys'.pwait = sys.pwait /\ sys'.rc = sys.rc
  BY <1>0, <1>1, <1>2 DEF SchedType
<1> QED
  BY <1>3, NoTcb

(* One entry of the timeout list                                           *)
LEMMA ExpireEffect ==
    ASSUME CallsInv, NEW t \in AllTasks, NEW u, u = Expire(sys, t)
    PROVE  KernelEffect(u)
<1> DEFINE d == [sys EXCEPT !.tick[t] = @ - 1]
           w == task_wait_complete(d, t, TRUE)
<1>0. SchedType(sys) /\ Sound(sys, {})
  BY DEF CallsInv, IInv, Sound
<1>1. u = IF sys.tick[t] <= 0 THEN sys
          ELSE IF sys.tick[t] = 1 THEN [w EXCEPT !.rc[t] = "TIMEOUT"] ELSE d
  BY DEF Expire
<1>2. /\ SchedType(d) /\ d.state = sys.state /\ d.pwait = sys.pwait
      /\ d.rc = sys.rc /\ DOMAIN d = DOMAIN sys
  <2>1. sys.tick \in [AllTasks -> Int] /\ sys.tick[t] \in Int
    BY <1>0 DEF SchedType
  <2>2. [sys.tick EXCEPT ![t] = @ - 1] \in [AllTasks -> Int]
    BY <2>1
  <2> QED BY <2>2, <1>0 DEF SchedType
<1> HIDE DEF d
<1>3. CASE sys.tick[t] > 0 /\ sys.tick[t] = 1
  <2>1. u = [w EXCEPT !.rc[t] = "TIMEOUT"]
    BY <1>1, <1>3
  <2>2. t \in Tasks /\ Waiting(sys, t)
    <3>1. TcbOK(sys, t) /\ SystemOK(sys) /\ sys.tick[t] # TN_WAIT_INFINITE
      BY <1>0, <1>3 DEF Sound, Rest, TN_WAIT_INFINITE
    <3> QED BY <3>1 DEF TcbOK, SystemOK, Waiting, AllTasks
  <2>3. KeptBut(d, w, t) /\ w.state[t] \in {"runnable", "suspend"}
    BY <1>2, CompleteTcb
  <2>4. task_wait_complete(d, t, TRUE).rc = [d.rc EXCEPT ![t] = "NO_ERR"]
    <3> SUFFICES ASSUME NEW x, SchedType(x)
                 PROVE  task_wait_complete(x, t, TRUE).rc = [x.rc EXCEPT ![t] = "NO_ERR"]
      BY <1>2
    <3> QED BY CompleteFields
  <2>9. w.rc = [d.rc EXCEPT ![t] = "NO_ERR"]
    BY <2>4
  <2>5. DOMAIN w = DOMAIN d
    <3> SUFFICES ASSUME NEW x, SchedType(x)
                 PROVE  DOMAIN task_wait_complete(x, t, TRUE) = DOMAIN x
      BY <1>2
    <3> QED BY CompleteFields
  <2> HIDE DEF w
  <2>6. /\ u.state = w.state /\ u.pwait = w.pwait
        /\ u.rc = [w.rc EXCEPT ![t] = "TIMEOUT"]
    BY <2>1, <2>5, <1>0, <1>2 DEF SchedType
  <2>7. KeptBut(sys, u, t) /\ u.state[t] \in {"runnable", "suspend"} /\ u.rc[t] = "TIMEOUT"
    BY <2>3, <2>9, <2>6, <1>0, <1>2, TcbFunctions DEF KeptBut, Kept
  <2>8. KernelTcb(sys, u, t, call[t])
    BY <2>2, <2>7 DEF KernelTcb, WaitEnds
  <2> QED BY <2>2, <2>7, <2>8, OneTask
<1>4. CASE ~(sys.tick[t] > 0 /\ sys.tick[t] = 1)
  <2>1. sys.tick[t] \in Int
    BY <1>0 DEF SchedType
  <2> HIDE DEF w
  <2>2. u = sys \/ u = d
    BY <2>1, <1>1, <1>4
  <2>3. u.state = sys.state /\ u.pwait = sys.pwait /\ u.rc = sys.rc
    BY <2>2, <1>2
  <2> QED BY <2>3, NoTcb
<1> QED
  BY <1>3, <1>4

(* The timer task: its own wait is in no queue.                            *)
LEMMA TimerEffect ==
    ASSUME CallsInv, Timer
    PROVE  KernelEffect(sys')
<1>0. SchedType(sys) /\ TimerTask \in AllTasks
  BY SystemTasks DEF CallsInv, IInv, Sound
<1>1. CASE TimerBegin
  BY <1>1, NoTcb DEF TimerBegin
<1>2. CASE TimerVisit
  <2>1. Head(cursor) \in AllTasks /\ sys' = Expire(sys, Head(cursor))
    <3>1. cursor \in Seq(AllTasks) /\ cursor # <<>>
      BY <1>2 DEF TimerVisit, CallsInv, IInv, TypeOK
    <3> QED BY <3>1, <1>2 DEF TimerVisit
  <2>2. \A u : u = Expire(sys, Head(cursor)) => KernelEffect(u)
    BY <2>1, ExpireEffect
  <2> QED BY <2>1, <2>2
<1>3. CASE TimerSleep
  <2> DEFINE u == task_curr_to_wait_action(sys, NoQueue, "sleep", TN_WAIT_INFINITE)
  <2>1. sys' = u /\ sys.curr = TimerTask
    BY <1>3 DEF TimerSleep, CallsInv, IInv, ScanOK
  <2>2. "sleep" \in WaitReasons /\ TN_WAIT_INFINITE \in Int
    BY DEF WaitReasons, TN_WAIT_INFINITE
  <2>3. KeptBut(sys, u, TimerTask) /\ u.pwait[TimerTask] = sys.pwait[TimerTask]
    BY <2>1, <2>2, <1>0, WaitTcb
  <2> HIDE DEF u
  <2> QED BY <2>1, <2>3, SystemTasks, TasksAssumption
          DEF KernelEffect, KernelTcb, KeptBut, CallsInv
<1> QED
  BY <1>1, <1>2, <1>3 DEF Timer

(* The tick interrupt                                                      *)
LEMMA TickEffect ==
    ASSUME CallsInv, tn_tick_int_processing
    PROVE  KernelEffect(sys')
<1> DEFINE r == RoundRobin(sys)
           s == WakeTimer(r)
<1>0. Sound(sys, {}) /\ SchedType(sys) /\ slices \in [Priorities -> Nat]
  BY DEF CallsInv, IInv, TypeOK, Sound
<1>1. tn_cpu_irq_isr(s, TRUE)
  BY DEF tn_tick_int_processing
<1>2. SoundButNext(r)
  BY <1>0, RotateSound
<1>3. r.state = sys.state /\ r.pwait = sys.pwait /\ r.rc = sys.rc
  BY <1>0, RoundRobinTcb
<1> HIDE DEF r
<1>4. KeptBut(r, s, TimerTask) /\ s.pwait[TimerTask] = NoQueue /\ SchedType(s)
  BY <1>2, WakeTimerTcb, WakeTimerSound DEF Sound
<1> HIDE DEF s
<1>5. KernelEffect(s)
  BY <1>3, <1>4, SystemTasks, TasksAssumption DEF KernelEffect, KernelTcb, KeptBut, Kept
<1> QED
  BY <1>1, <1>4, <1>5, IsrTcb

(* Every step of the kernel.  tn_task_exit and tn_task_terminate are left  *)
(* out by CallsAssumption.                                                 *)
LEMMA KernelEffects ==
    ASSUME CallsInv, KernelStep
    PROVE  KernelEffect(sys')
<1>0. SchedType(sys)
  BY DEF CallsInv, IInv, Sound
<1>1. CASE TaskService /\ (~booted \/ At(Outside))
  <2>1. ASSUME NEW t \in Tasks, NEW start \in BOOLEAN, tn_task_create(t, start)
        PROVE  KernelEffect(sys')
    BY <2>1, CreateEffect
  <2>2. ASSUME NEW t \in Tasks,
               \/ tn_task_suspend(t) \/ tn_task_resume(t) \/ tn_task_wakeup(t)
               \/ tn_task_activate(t) \/ tn_task_release_wait(t)
        PROVE  KernelEffect(sys')
    BY <2>2, SuspendEffect, ResumeEffect, WakeupEffect, ActivateEffect, ReleaseWaitEffect
  <2>3. ASSUME NEW t \in Tasks, tn_task_terminate(t) \/ tn_task_delete(t)
        PROVE  KernelEffect(sys')
    <3>1. ~tn_task_terminate(t)
      BY CallsAssumption DEF tn_task_terminate, Calls
    <3>2. sys' = sys
      BY <3>1, <2>3 DEF tn_task_delete
    <3> QED BY <3>2, NoTcb
  <2>4. ASSUME NEW timeout \in Timeouts, tn_task_sleep(timeout)
        PROVE  KernelEffect(sys')
    <3>1. At(Outside)
      BY <2>4, <1>1 DEF tn_task_sleep, Calls
    <3> QED BY <3>1, <2>4, SleepEffect
  <2>5. ASSUME NEW delete \in BOOLEAN, tn_task_exit(delete)
        PROVE  KernelEffect(sys')
    BY <2>5, CallsAssumption DEF tn_task_exit
  <2>6. ASSUME NEW t \in Tasks, NEW p \in 0 .. TN_NUM_PRIORITY - 2,
               tn_task_change_priority(t, p)
        PROVE  KernelEffect(sys')
    BY <2>6, ChangePriorityEffect
  <2>7. ASSUME NEW p \in SlicePriorities, NEW v \in Slices, tn_sys_tslice_ticks(p, v)
        PROVE  KernelEffect(sys')
    <3>1. sys' = sys
      BY <2>7 DEF tn_sys_tslice_ticks
    <3> QED BY <3>1, NoTcb
  <2> QED BY <1>1, <2>1, <2>2, <2>3, <2>4, <2>5, <2>6, <2>7 DEF TaskService
<1>2. CASE IsrService
  BY <1>2, WakeupEffect, ActivateEffect, ReleaseWaitEffect DEF IsrService
<1>3. CASE AppInitDone
  BY <1>3, NoTcb DEF AppInitDone
<1>4. CASE Timer
  BY <1>4, TimerEffect
<1>5. CASE tn_tick_int_processing
  BY <1>5, TickEffect
<1>6. CASE tn_switch_context
  <2> DEFINE n == IF sys.next = NoTask THEN sys.curr ELSE sys.next
  <2>1. sys' = [sys EXCEPT !.curr = n]
    BY <1>6 DEF tn_switch_context
  <2> HIDE DEF n
  <2>2. sys'.state = sys.state /\ sys'.pwait = sys.pwait /\ sys'.rc = sys.rc
    BY <2>1, <1>0 DEF SchedType
  <2> QED BY <2>2, NoTcb
<1> QED
  BY <1>1, <1>2, <1>3, <1>4, <1>5, <1>6 DEF KernelStep

(* A step that leaves the calls alone keeps the agreement of calls and     *)
(* TCBs, if its effect on every task is one that the kernel may have.      *)
LEMMA EffectPlace ==
    ASSUME NEW s, NEW u, NEW place, NEW x, PlaceOK(s, place, x),
           KernelTcb(s, u, x, place)
    PROVE  PlaceOK(u, place, x)
<1>1. CASE Kept(s, u, x)
  BY <1>1 DEF PlaceOK, Kept, Waiting
<1>2. CASE Suspends(s, u, x)
  BY <1>2 DEF PlaceOK, Suspends
<1>3. CASE FallsAsleep(s, u, x, place)
  BY <1>3 DEF PlaceOK, FallsAsleep
<1>4. CASE WaitEnds(s, u, x)
  BY <1>4 DEF PlaceOK, WaitEnds, Waiting
<1>5. CASE Starts(s, u, x)
  BY <1>5 DEF PlaceOK, Starts, Waiting
<1> QED
  BY <1>1, <1>2, <1>3, <1>4, <1>5 DEF KernelTcb

LEMMA KernelCalls ==
    ASSUME CallsInv, KernelStep
    PROVE  CallsInv' /\ KernelEffect(sys') /\ call' = call
<1>1. KernelEffect(sys')
  BY KernelEffects
<1>2. IInv'
  <2>1. Next
    BY DEF KernelStep, Next
  <2> QED BY <2>1, NextInvariant DEF CallsInv
<1>3. call' = call
  BY DEF KernelStep
<1>4. ASSUME NEW t \in Tasks PROVE PlaceOK(sys', call'[t], t)
  <2>1. PlaceOK(sys, call[t], t) /\ KernelTcb(sys, sys', t, call[t])
    BY <1>1 DEF KernelEffect, CallsInv
  <2>2. PlaceOK(sys', call[t], t)
    BY <2>1, EffectPlace
  <2> QED BY <2>2, <1>3
<1> QED
  BY <1>1, <1>2, <1>3, <1>4 DEF CallsInv, KernelEffect

-----------------------------------------------------------------------------
(* Empty wait queues                                                       *)

WaitsIn(s, x, q) == Waiting(s, x) /\ s.pwait[x] = q

(* A wait queue is empty exactly if no task waits in it.                   *)
LEMMA QueueEmpty ==
    ASSUME NEW s, Sound(s, {}), NEW q \in WaitQueues
    PROVE  s.wait[q] = <<>> <=> \A x \in AllTasks : ~WaitsIn(s, x, q)
<1>1. Lists(s.wait[q], In(s, Waiters(s, {}), q)) /\ s.wait[q] \in Seq(AllTasks)
  BY TcbFunctions DEF Sound, Rest, WaitsFor
<1>2. s.wait[q] = <<>> <=> In(s, Waiters(s, {}), q) = {}
  BY <1>1, ListsEmpty
<1> QED
  BY <1>2 DEF In, Waiters, WaitsIn

NoNewWaiter(s, u, q) ==
    \A x \in AllTasks : WaitsIn(u, x, q) => WaitsIn(s, x, q)

(* A queue in which nobody starts to wait stays empty.                     *)
LEMMA StaysEmpty ==
    ASSUME NEW s, Sound(s, {}), NEW u, Sound(u, {}), NEW q \in WaitQueues,
           NoNewWaiter(s, u, q), s.wait[q] = <<>>
    PROVE  u.wait[q] = <<>>
BY QueueEmpty DEF NoNewWaiter

(* Nobody starts to wait for an object in a step of the kernel.            *)
LEMMA KernelWaiters ==
    ASSUME CallsInv, NEW u, SystemOK(u), KernelEffect(u), NEW q \in WaitQueues
    PROVE  NoNewWaiter(sys, u, q)
<1>0. q # NoQueue
  BY QueueAssumption
<1>1. ASSUME NEW x \in Tasks, WaitsIn(u, x, q) PROVE WaitsIn(sys, x, q)
  <2>1. KernelTcb(sys, u, x, call[x])
    BY DEF KernelEffect
  <2> QED BY <2>1, <1>0, <1>1 DEF KernelTcb, Kept, Suspends, FallsAsleep, WaitEnds,
             Starts, WaitsIn, Waiting
<1>2. ~WaitsIn(u, TimerTask, q) /\ ~WaitsIn(u, IdleTask, q)
  BY <1>0 DEF KernelEffect, SystemOK, WaitsIn, Waiting
<1> QED
  BY <1>1, <1>2 DEF NoNewWaiter, AllTasks

(* An empty wait queue stays empty in a step of the kernel.                *)
LEMMA KernelEmpty ==
    ASSUME CallsInv, KernelStep, NEW q \in WaitQueues,
           sys.wait[q] = <<>>
    PROVE  sys'.wait[q] = <<>>
<1>1. Sound(sys, {}) /\ Sound(sys', {}) /\ KernelEffect(sys')
  BY KernelCalls DEF CallsInv, IInv
<1>2. SystemOK(sys')
  BY <1>1 DEF Sound, Rest
<1>3. NoNewWaiter(sys, sys', q)
  BY <1>1, <1>2, KernelWaiters
<1> QED
  BY <1>1, <1>3, StaysEmpty

-----------------------------------------------------------------------------
(* The steps of the services of an object                                  *)

(* The running task, which does not wait, moves in its call.               *)
LEMMA GotoStep ==
    ASSUME CallsInv, sys.curr \in Tasks \ pending, NEW p \in Places,
           call' = [call EXCEPT ![sys.curr] = p], masked' \in SUBSET Tasks,
           UNCHANGED <<sys, pending, created, revived, slices, booted, cursor, scanning, skipped>>
    PROVE  CallsInv'
<1>1. IInv'
  BY DEF CallsInv, IInv, TypeOK, OnlyRunnableRuns, OnlyCreatedScheduled, ScanOK
<1>2. sys.state[sys.curr] = "runnable"
  BY RunningTask DEF CallsInv
<1>3. call' \in [Tasks -> Places]
  BY DEF CallsInv
<1>4. ASSUME NEW t \in Tasks PROVE PlaceOK(sys', call'[t], t)
  <2>1. CASE t = sys.curr
    BY <2>1, <1>2 DEF PlaceOK, Waiting
  <2>2. CASE t # sys.curr
    <3>1. call'[t] = call[t] /\ sys' = sys
      BY <2>2 DEF CallsInv
    <3> QED BY <3>1 DEF CallsInv
  <2> QED BY <2>1, <2>2
<1> QED
  BY <1>1, <1>3, <1>4 DEF CallsInv

(* A step that changes neither the scheduler nor a call                    *)
LEMMA StillStep ==
    ASSUME CallsInv, UNCHANGED <<vars, call>>
    PROVE  CallsInv'
<1>1. IInv'
  BY DEF CallsInv, IInv, TypeOK, OnlyRunnableRuns, OnlyCreatedScheduled, ScanOK, vars
<1>2. sys' = sys /\ call' = call
  BY DEF vars
<1> QED
  BY <1>1, <1>2 DEF CallsInv

(* The running task starts to wait in q.                                   *)
LEMMA BlockStep ==
    ASSUME CallsInv, Enter, NEW q \in WaitQueues,
           NEW reason \in WaitReasons, reason # "sleep",
           NEW timeout \in Timeouts, Block(q, reason, timeout), UNCHANGED otherVars
    PROVE  /\ CallsInv'
           /\ KeptBut(sys, sys', sys.curr) /\ Waiting(sys', sys.curr)
           /\ \A r \in WaitQueues \ {q} : NoNewWaiter(sys, sys', r)
<1> DEFINE t == sys.curr
           u == task_curr_to_wait_action(sys, q, reason, timeout)
<1>0. /\ Sound(sys, {}) /\ SchedType(sys) /\ t \in Tasks \ (pending \cup masked)
      /\ t \in AllTasks /\ t # IdleTask /\ t # TimerTask
      /\ IInv /\ q # NoQueue
  BY SystemTasks, TasksAssumption, QueueAssumption DEF CallsInv, IInv, Sound, Enter, At
<1>1. sys.state[t] = "runnable" /\ t \in created \cup revived /\ call[t] = Outside
  BY <1>0, RunningTask DEF Enter, At
<1>2. timeout \in Int
  BY ServicesAssumption DEF TN_WAIT_INFINITE
<1>3. /\ sys' = u /\ pending' = pending \cup {t}
      /\ call' = [call EXCEPT ![t] = Place("wait", q)]
      /\ UNCHANGED <<masked, created, revived, slices, booted, cursor, scanning, skipped>>
  BY DEF Block, Goto, otherVars
<1>4. t = sys.curr
  OBVIOUS
<1> HIDE DEF t
<1>5. Sound(u, {}) /\ Only(sys, u, t)
  BY <1>0, <1>1, <1>2, <1>4, StartWait
<1>6. KeptBut(sys, u, t) /\ u.state[t] = "wait" /\ u.pwait[t] = q
  BY <1>0, <1>2, <1>4, WaitTcb
<1> HIDE DEF u
<1>7. IInv'
  BY <1>0, <1>1, <1>3, <1>4, <1>5, CallStep
<1>8. call' \in [Tasks -> Places]
  <2>1. Place("wait", q) \in Places
    BY DEF Place, Places
  <2> QED BY <2>1, <1>3 DEF CallsInv
<1>9. ASSUME NEW x \in Tasks PROVE PlaceOK(u, call'[x], x)
  <2>1. CASE x = t
    <3>1. call'[x] = Place("wait", q)
      BY <2>1, <1>3 DEF CallsInv
    <3> QED BY <3>1, <2>1, <1>0, <1>6 DEF PlaceOK
  <2>2. CASE x # t
    <3>1. call'[x] = call[x] /\ PlaceOK(sys, call[x], x) /\ Kept(sys, u, x)
      BY <2>2, <1>3, <1>6, SystemTasks DEF CallsInv, KeptBut
    <3> QED BY <3>1 DEF PlaceOK, Kept, Waiting
  <2> QED BY <2>1, <2>2
<1>10. u.pwait[TimerTask] = NoQueue
  BY <1>0, <1>6, SystemTasks DEF KeptBut, Kept, CallsInv
<1>11. \A r \in WaitQueues \ {q} : NoNewWaiter(sys, u, r)
  BY <1>6 DEF NoNewWaiter, WaitsIn, Waiting, KeptBut, Kept
<1> QED
  BY <1>3, <1>4, <1>6, <1>7, <1>8, <1>9, <1>10, <1>11 DEF CallsInv, Waiting

(* The head of a wait queue is a task of the application in a call.        *)
LEMMA HeadWaits ==
    ASSUME CallsInv, NEW q \in WaitQueues, sys.wait[q] # <<>>,
           NEW t, t = Head(sys.wait[q])
    PROVE  /\ t \in Tasks /\ t \in created \cup revived /\ WaitsIn(sys, t, q)
           /\ call[t] = Place("wait", q) /\ (t = sys.curr => t \in pending)
<1>0. Sound(sys, {}) /\ SystemOK(sys) /\ q # NoQueue
  BY QueueAssumption DEF CallsInv, IInv, Sound, Rest
<1>1. Lists(sys.wait[q], In(sys, Waiters(sys, {}), q)) /\ sys.wait[q] \in Seq(AllTasks)
  BY <1>0, TcbFunctions DEF Sound, Rest, WaitsFor
<1>2. t \in In(sys, Waiters(sys, {}), q)
  BY <1>1, ListsTail
<1>3. t \in AllTasks /\ WaitsIn(sys, t, q)
  BY <1>2 DEF In, Waiters, WaitsIn
<1>4. t \in Tasks
  BY <1>0, <1>3 DEF AllTasks, SystemOK, WaitsIn, Waiting, CallsInv
<1>5. t \in created \cup revived /\ (t = sys.curr => t \in pending)
  BY <1>3, <1>4, WaitingIsPending
     DEF WaitsIn, Waiting, CallsInv, IInv, OnlyCreatedScheduled
<1>6. call[t] = Place("wait", q)
  BY <1>0, <1>3, <1>4 DEF CallsInv, PlaceOK, WaitsIn
<1> QED
  BY <1>3, <1>4, <1>5, <1>6

(* The head of queue q waits no longer, and nobody else is concerned.      *)
HeadReleased(u, q) ==
    LET t == Head(sys.wait[q])
    IN  /\ t \in Tasks /\ WaitsIn(sys, t, q) /\ call[t] = Place("wait", q)
        /\ KeptBut(sys, u, t) /\ u.state[t] \in {"runnable", "suspend"}

(* Nobody starts to wait when the head of a queue is released.             *)
LEMMA ReleaseWaiters ==
    ASSUME NEW q, NEW u, HeadReleased(u, q)
    PROVE  \A r : NoNewWaiter(sys, u, r)
<1> DEFINE t == Head(sys.wait[q])
<1>1. KeptBut(sys, u, t) /\ u.state[t] \in {"runnable", "suspend"}
  BY DEF HeadReleased
<1> QED
  BY <1>1 DEF KeptBut, Kept, NoNewWaiter, WaitsIn, Waiting

(* The calls of the other tasks still agree with their TCBs.               *)
LEMMA ReleasePlaces ==
    ASSUME CallsInv, NEW q, NEW u, HeadReleased(u, q)
    PROVE  /\ \A x \in Tasks : PlaceOK(u, call[x], x)
           /\ u.pwait[TimerTask] = NoQueue
<1> DEFINE t == Head(sys.wait[q])
<1>1. t \in Tasks /\ KeptBut(sys, u, t) /\ u.state[t] \in {"runnable", "suspend"}
  BY DEF HeadReleased
<1> HIDE DEF t
<1>2. ASSUME NEW x \in Tasks PROVE PlaceOK(u, call[x], x)
  <2>1. CASE x = t
    BY <2>1, <1>1 DEF PlaceOK, Waiting
  <2>2. CASE x # t
    <3>1. Kept(sys, u, x) /\ PlaceOK(sys, call[x], x)
      BY <2>2, <1>1, SystemTasks DEF KeptBut, CallsInv
    <3> QED BY <3>1 DEF PlaceOK, Kept, Waiting
  <2> QED BY <2>1, <2>2
<1>3. u.pwait[TimerTask] = NoQueue
  BY <1>1, SystemTasks, TasksAssumption DEF KeptBut, Kept, CallsInv
<1> QED
  BY <1>2, <1>3

(* What the end of the wait of the head is                                 *)
LEMMA CompleteHeadIs ==
    ASSUME CallsInv, NEW q \in WaitQueues, sys.wait[q] # <<>>,
           NEW u, u = CompleteHead(q)
    PROVE  /\ Sound(u, {}) /\ Only(sys, u, Head(sys.wait[q])) /\ HeadReleased(u, q)
           /\ u.rc[Head(sys.wait[q])] = "NO_ERR"
<1> DEFINE t == Head(sys.wait[q])
<1>0. /\ t \in Tasks /\ t \in AllTasks /\ WaitsIn(sys, t, q) /\ call[t] = Place("wait", q)
      /\ Sound(sys, {}) /\ SchedType(sys)
  BY HeadWaits, SystemTasks DEF CallsInv, IInv, Sound
<1>1. u = task_wait_complete(queue_remove_head(sys, q), t, FALSE) /\ t = Head(sys.wait[q])
  BY DEF CompleteHead
<1> HIDE DEF t
<1>2. /\ Sound(u, {}) /\ Only(sys, u, t)
      /\ u.state[t] \in {"runnable", "suspend"}
      /\ \A x \in AllTasks \ {t} : u.pwait[x] = sys.pwait[x] /\ u.rc[x] = sys.rc[x]
      /\ u.rc[t] = "NO_ERR"
  <2>1. HeadDone(sys, u, t, q)
    BY <1>0, <1>1, HeadComplete
  <2> QED BY <2>1 DEF HeadDone
<1>3. KeptBut(sys, u, t) /\ u.rc[t] = "NO_ERR"
  BY <1>2 DEF KeptBut, Kept, Only
<1> QED
  BY <1>0, <1>1, <1>2, <1>3 DEF HeadReleased

(* A service of a task releases the head of a wait queue.                  *)
LEMMA ReleaseStep ==
    ASSUME CallsInv, Enter, NEW q \in WaitQueues, sys.wait[q] # <<>>, ReleaseHead(q),
           UNCHANGED <<masked, created, revived, slices, booted, cursor, scanning, call>>
    PROVE  /\ CallsInv' /\ HeadReleased(sys', q) /\ sys'.curr = sys.curr
           /\ sys'.rc[Head(sys.wait[q])] = "NO_ERR"
<1> DEFINE t == Head(sys.wait[q])
<1>0. t \in created \cup revived /\ t # sys.curr /\ IInv /\ sys.curr \in Tasks \ (pending \cup masked)
  BY HeadWaits DEF CallsInv, Enter, At
<1>1. /\ Sound(sys', {}) /\ Only(sys, sys', t) /\ HeadReleased(sys', q)
      /\ sys'.rc[t] = "NO_ERR"
  BY CompleteHeadIs DEF ReleaseHead
<1>2. pending' \in {pending, pending \cup {sys.curr}} /\ UNCHANGED skipped
  BY DEF ReleaseHead
<1> HIDE DEF t
<1>3. IInv'
  BY <1>0, <1>1, <1>2, CallStep
<1>4. /\ \A x \in Tasks : PlaceOK(sys', call[x], x)
      /\ sys'.pwait[TimerTask] = NoQueue
  BY <1>1, ReleasePlaces
<1> QED
  BY <1>1, <1>3, <1>4 DEF CallsInv, Only, t

(* An interrupt handler releases the head of a wait queue.                 *)
LEMMA IReleaseStep ==
    ASSUME CallsInv, IrqEnabled, NEW q \in WaitQueues, sys.wait[q] # <<>>, IReleaseHead(q),
           UNCHANGED <<masked, created, revived, slices, booted, cursor, scanning, call>>
    PROVE  /\ CallsInv' /\ HeadReleased(sys', q)
           /\ sys'.rc[Head(sys.wait[q])] = "NO_ERR"
<1> DEFINE t == Head(sys.wait[q])
           u == CompleteHead(q)
<1>0. t \in created \cup revived /\ (t = sys.curr => t \in pending) /\ IInv /\ ~scanning
  BY HeadWaits DEF CallsInv, IrqEnabled
<1>1. /\ Sound(u, {}) /\ Only(sys, u, t) /\ HeadReleased(u, q)
      /\ u.rc[t] = "NO_ERR"
  BY CompleteHeadIs
<1>2. HeadWoken(q) \in BOOLEAN /\ tn_cpu_irq_isr(u, HeadWoken(q)) /\ UNCHANGED pending
  BY DEF IReleaseHead, HeadWoken, Woken
<1> HIDE DEF t, u
<1>3. IInv'
  BY <1>0, <1>1, <1>2, IsrStep
<1>4. sys'.state = u.state /\ sys'.pwait = u.pwait /\ sys'.rc = u.rc
  <2>1. SchedType(u)
    BY <1>1 DEF Sound
  <2> QED BY <2>1, <1>2 DEF tn_cpu_irq_isr, SchedType
<1>5. HeadReleased(sys', q)
  BY <1>1, <1>4 DEF HeadReleased, KeptBut, Kept
<1>6. /\ \A x \in Tasks : PlaceOK(sys', call[x], x)
      /\ sys'.pwait[TimerTask] = NoQueue
  BY <1>5, ReleasePlaces
<1> QED
  BY <1>1, <1>3, <1>4, <1>5, <1>6 DEF CallsInv, t


(* The calling task goes to another place of its call, and the head of q   *)
(* is released.                                                            *)
LEMMA ReleaseGoto ==
    ASSUME CallsInv, sys.curr \in Tasks \ pending,
           NEW q \in WaitQueues, sys.wait[q] # <<>>,
           NEW p \in Places, call' = [call EXCEPT ![sys.curr] = p],
           NEW u, sys' = u,
           Sound(u, {}), Only(sys, u, Head(sys.wait[q])), HeadReleased(u, q),
           pending' \in {pending, pending \cup {sys.curr}}, masked' \in SUBSET Tasks,
           UNCHANGED <<created, revived, slices, booted, cursor, scanning, skipped>>
    PROVE  CallsInv' /\ u.curr = sys.curr
<1> DEFINE t == Head(sys.wait[q])
<1>0. /\ t \in created \cup revived /\ t # sys.curr /\ IInv /\ sys.curr \in AllTasks
      /\ sys.state[sys.curr] = "runnable" /\ ~scanning
  BY HeadWaits, SystemTasks, RunningTask DEF CallsInv
<1>1. Only(sys, u, t) /\ u.curr = sys.curr
  BY DEF Only
<1>2. OtherTypes' /\ ScanOK' /\ pending \subseteq pending'
  BY <1>0 DEF OtherTypes, ScanOK, IInv, TypeOK
<1>3. \A x \in Tasks : PlaceOK(u, call[x], x)
  BY ReleasePlaces
<1>4. u.pwait[TimerTask] = NoQueue
  BY ReleasePlaces
<1> HIDE DEF t
<1>5. IInv'
  BY <1>0, <1>1, <1>2, ServiceStep
<1>6. u.state[sys.curr] = "runnable"
  BY <1>0, <1>1 DEF Only
<1>7. ASSUME NEW x \in Tasks PROVE PlaceOK(u, call'[x], x)
  <2>1. CASE x = sys.curr
    BY <2>1, <1>6 DEF PlaceOK, Waiting
  <2>2. CASE x # sys.curr
    BY <2>2, <1>3 DEF CallsInv
  <2> QED BY <2>1, <2>2
<1>8. call' \in [Tasks -> Places]
  BY DEF CallsInv
<1> QED
  BY <1>1, <1>4, <1>5, <1>7, <1>8 DEF CallsInv

(* A round of the loop of a delete service                                 *)
LEMMA RemoveStep ==
    ASSUME CallsInv, NEW q \in WaitQueues, DeleteRemove(q)
    PROVE  /\ CallsInv' /\ sys'.curr = sys.curr
           /\ \A r \in WaitQueues : NoNewWaiter(sys, sys', r)
<1> DEFINE t == Head(sys.wait[q])
           v == CompleteHead(q)
<1>0. /\ sys.curr \in Tasks \ pending /\ Place("delete", q) \in Places
      /\ call' = [call EXCEPT ![sys.curr] = Place("delete", q)]
      /\ masked \in SUBSET Tasks
      /\ UNCHANGED <<created, revived, slices, booted, cursor, scanning, skipped>>
  BY DEF DeleteRemove, At, Goto, Places, Place, CallsInv, IInv, TypeOK
<1>1. CASE sys.wait[q] = <<>>
  <2>1. UNCHANGED <<sys, pending>> /\ masked' = masked \cup {sys.curr}
    BY <1>1 DEF DeleteRemove
  <2>2. CallsInv'
    BY <2>1, <1>0, GotoStep
  <2> QED BY <2>1, <2>2 DEF NoNewWaiter
<1>2. CASE sys.wait[q] # <<>>
  <2>1. Sound(v, {}) /\ Only(sys, v, t) /\ HeadReleased(v, q) /\ t \in AllTasks
    BY <1>2, CompleteHeadIs, HeadWaits, SystemTasks
  <2>2. /\ sys' = v \/ sys' = [v EXCEPT !.rc[t] = "DLT"]
        /\ pending' \in {pending, pending \cup {sys.curr}}
        /\ masked' \in {masked \ {sys.curr}, masked \cup {sys.curr}}
    BY <1>2 DEF DeleteRemove
  <2> HIDE DEF v
  <2>3. Sound(sys', {}) /\ Only(sys, sys', t) /\ HeadReleased(sys', q)
    <3>1. CASE sys' = v
      BY <3>1, <2>1
    <3>2. CASE sys' = [v EXCEPT !.rc[t] = "DLT"]
      <4> DEFINE w == [v EXCEPT !.rc[t] = "DLT"]
      <4>1. Sound(w, {}) /\ SameButCounters(v, w)
        BY <2>1, SetCode DEF WaitCodes
      <4>2. /\ w.rc = [v.rc EXCEPT ![t] = "DLT"] /\ w.curr = v.curr
            /\ w.state = v.state /\ w.pwait = v.pwait
            /\ v.rc \in [AllTasks -> WaitCodes]
        BY <2>1 DEF Sound, SchedType
      <4> HIDE DEF w, t
      <4>3. Only(sys, w, t)
        BY <4>2, <2>1 DEF Only
      <4>4. HeadReleased(w, q)
        BY <4>2, <2>1 DEF HeadReleased, KeptBut, Kept, t
      <4> QED BY <3>2, <4>1, <4>3, <4>4 DEF w
    <3> QED BY <2>2, <3>1, <3>2
  <2>4. CallsInv' /\ sys'.curr = sys.curr
    BY <1>0, <1>2, <2>2, <2>3, ReleaseGoto
  <2>5. \A r : NoNewWaiter(sys, sys', r)
    BY <2>3, ReleaseWaiters
  <2> QED BY <2>4, <2>5
<1> QED
  BY <1>1, <1>2


-----------------------------------------------------------------------------
(* Interrupts disabled in a delete service                                 *)

(* The task with interrupts disabled runs, in the loop of a delete service. *)
MaskOK ==
    \A t \in masked :
        /\ booted
        /\ t = sys.curr /\ t \in Tasks \ pending
        /\ call[t].at \in {"delete", "remove", "finish"}

(* Neither the kernel nor a service that starts nor the return of a        *)
(* waiting task is a step while interrupts are disabled.                   *)
LEMMA MaskedAlone ==
    ASSUME CallsInv, MaskOK, masked # {}
    PROVE  /\ ~KernelStep /\ ~IrqEnabled /\ booted
           /\ \A p : p.at \in {"none", "wait"} => ~At(p)
<1>1. PICK t \in masked : TRUE
  OBVIOUS
<1>2. /\ booted /\ sys.curr \in masked /\ sys.curr \in Tasks \ pending
      /\ call[sys.curr].at \in {"delete", "remove", "finish"}
  BY <1>1 DEF MaskOK
<1>3. ~IrqEnabled
  BY <1>2 DEF IrqEnabled
<1>4. \A p : p.at \in {"none", "wait"} => ~At(p)
  BY <1>2 DEF At
<1>5. ~At(Outside)
  BY <1>4 DEF Outside
<1>6. sys.curr # TimerTask /\ ~scanning
  BY <1>2, TasksAssumption DEF CallsInv, IInv, ScanOK
<1>7. ~Timer
  BY <1>6 DEF Timer, TimerBegin, TimerVisit, TimerSleep
<1>8. ~IsrService
  BY <1>3 DEF IsrService, tn_task_iwakeup, tn_task_iactivate, tn_task_irelease_wait
<1>9. ~AppInitDone /\ ~tn_tick_int_processing /\ ~tn_switch_context
  BY <1>2, <1>3 DEF AppInitDone, tn_tick_int_processing, tn_switch_context
<1>10. ~KernelStep
  BY <1>2, <1>5, <1>7, <1>8, <1>9 DEF KernelStep
<1> QED
  BY <1>2, <1>3, <1>4, <1>10

(* The priorities for which tn_sys_tslice_ticks returns without enabling   *)
(* interrupts are not used.                                                *)
SliceInRange == SlicePriorities \cap {0, TN_NUM_PRIORITY - 1} = {}

(* The kernel does not disable interrupts for long.                        *)
LEMMA KernelMask ==
    ASSUME SliceInRange, CallsInv, MaskOK, KernelStep
    PROVE  masked' = {}
<1>0. masked = {}
  BY MaskedAlone
<1>1. CASE TaskService
  <2>1. "exit" \notin Services /\ "terminate" \notin Services
    BY CallsAssumption
  <2>2. ASSUME NEW p \in SlicePriorities, NEW v \in Slices, tn_sys_tslice_ticks(p, v)
        PROVE  masked' = masked
    BY <2>2 DEF tn_sys_tslice_ticks, SliceInRange
  <2>3. ASSUME NEW t \in Tasks,
               \/ tn_task_suspend(t) \/ tn_task_resume(t) \/ tn_task_wakeup(t)
               \/ tn_task_activate(t) \/ tn_task_release_wait(t)
               \/ tn_task_terminate(t) \/ tn_task_delete(t)
        PROVE  masked' = masked
    BY <2>1, <2>3 DEF tn_task_suspend, tn_task_resume, tn_task_wakeup, tn_task_activate,
         tn_task_release_wait, tn_task_terminate, tn_task_delete, Calls
  <2>4. ASSUME NEW t \in Tasks, NEW start \in BOOLEAN, tn_task_create(t, start)
        PROVE  masked' = masked
    BY <2>4 DEF tn_task_create
  <2>5. ASSUME NEW timeout \in Timeouts, tn_task_sleep(timeout)
        PROVE  masked' = masked
    BY <2>5 DEF tn_task_sleep
  <2>6. ASSUME NEW delete \in BOOLEAN, tn_task_exit(delete)
        PROVE  masked' = masked
    BY <2>1, <2>6 DEF tn_task_exit
  <2>7. ASSUME NEW t \in Tasks, NEW p \in 0 .. TN_NUM_PRIORITY - 2,
               tn_task_change_priority(t, p)
        PROVE  masked' = masked
    BY <2>7 DEF tn_task_change_priority
  <2> QED BY <1>0, <1>1, <2>2, <2>3, <2>4, <2>5, <2>6, <2>7 DEF TaskService
<1>2. CASE IsrService
  BY <1>0, <1>2 DEF IsrService, tn_task_iwakeup, tn_task_iactivate, tn_task_irelease_wait
<1>3. CASE Timer
  BY <1>0, <1>3 DEF Timer, TimerBegin, TimerVisit, TimerSleep
<1>4. CASE AppInitDone \/ tn_tick_int_processing \/ tn_switch_context
  BY <1>0, <1>4 DEF AppInitDone, tn_tick_int_processing, tn_switch_context
<1> QED
  BY <1>1, <1>2, <1>3, <1>4 DEF KernelStep

(* The steps of a delete service                                           *)
LEMMA CheckStep ==
    ASSUME CallsInv, NEW q \in WaitQueues, NEW next \in Places,
           next.at \in {"delete", "remove", "finish"}, DeleteCheck(q, next)
    PROVE  CallsInv' /\ (MaskOK => MaskOK') /\ sys' = sys
<1>1. /\ booted /\ booted' = booted /\ sys.curr \in Tasks \ pending /\ sys' = sys
      /\ pending' = pending /\ masked' = masked
  BY DEF DeleteCheck, At, otherVars
<1>2. PICK p \in Places : /\ p.at \in {"delete", "remove", "finish"}
                          /\ call' = [call EXCEPT ![sys.curr] = p]
  <2>1. Place("remove", q) \in Places /\ Place("remove", q).at = "remove"
    BY DEF Place, Places
  <2> QED BY <2>1 DEF DeleteCheck, Goto
<1>3. CallsInv'
  <2>1. UNCHANGED <<sys, pending, created, revived, slices, booted, cursor, scanning, skipped>>
    BY DEF DeleteCheck, otherVars
  <2>2. masked' \in SUBSET Tasks
    BY <1>1 DEF CallsInv, IInv, TypeOK
  <2> QED BY <1>1, <1>2, <2>1, <2>2, GotoStep
<1>4. MaskOK => MaskOK'
  <2>1. call'[sys.curr] = p
    BY <1>1, <1>2 DEF CallsInv
  <2> QED BY <1>1, <1>2, <2>1 DEF MaskOK
<1> QED
  BY <1>1, <1>3, <1>4


LEMMA RemoveMask ==
    ASSUME CallsInv, MaskOK, NEW q \in WaitQueues, DeleteRemove(q)
    PROVE  MaskOK'
<1>1. /\ booted /\ booted' = booted /\ sys.curr \in Tasks \ pending
      /\ call' = [call EXCEPT ![sys.curr] = Place("delete", q)]
  BY DEF DeleteRemove, At, Goto
<1>2. sys'.curr = sys.curr
  BY RemoveStep
<1>3. \/ masked' = masked \ {sys.curr}
      \/ masked' = masked \cup {sys.curr} /\ pending' = pending
  BY DEF DeleteRemove
<1>4. \A t \in masked : t = sys.curr
  BY DEF MaskOK
<1>5. call'[sys.curr].at = "delete"
  BY <1>1 DEF CallsInv, Place
<1> QED
  BY <1>1, <1>2, <1>3, <1>4, <1>5 DEF MaskOK

LEMMA FinishStep ==
    ASSUME CallsInv, NEW q \in WaitQueues, DeleteFinish(q)
    PROVE  CallsInv' /\ (MaskOK => MaskOK') /\ sys' = sys
<1>1. /\ sys.curr \in Tasks \ pending /\ Outside \in Places
      /\ call' = [call EXCEPT ![sys.curr] = Outside]
      /\ masked' = masked \ {sys.curr}
      /\ UNCHANGED <<sys, pending, created, revived, slices, booted, cursor, scanning, skipped>>
  BY DEF DeleteFinish, At, Goto, Outside, Places
<1>2. CallsInv'
  <2>1. masked' \in SUBSET Tasks
    BY <1>1 DEF CallsInv, IInv, TypeOK
  <2> QED BY <1>1, <2>1, GotoStep
<1>3. MaskOK => masked' = {}
  BY <1>1 DEF MaskOK
<1> QED
  BY <1>1, <1>2, <1>3 DEF MaskOK

(* A task enters a delete service, or returns to its own code.             *)
LEMMA MoveStep ==
    ASSUME CallsInv, NEW p, NEW r \in Places,
           At(p), p.at \in {"none", "wait"}, Goto(r),
           UNCHANGED <<sys, pending, otherVars>>
    PROVE  CallsInv' /\ (MaskOK => masked = {} /\ MaskOK')
<1>1. CallsInv'
  <2>1. /\ sys.curr \in Tasks \ pending /\ call' = [call EXCEPT ![sys.curr] = r]
        /\ masked' \in SUBSET Tasks
        /\ UNCHANGED <<sys, pending, created, revived, slices, booted, cursor, scanning, skipped>>
    BY DEF At, Goto, otherVars, CallsInv, IInv, TypeOK
  <2> QED BY <2>1, GotoStep
<1>2. masked' = masked /\ (MaskOK => masked = {})
  BY MaskedAlone DEF otherVars
<1> QED
  BY <1>1, <1>2 DEF MaskOK

-----------------------------------------------------------------------------
(* The semaphore                                                           *)

(* tn_sem_create with nobody in the queue leaves the scheduler data alone. *)
LEMMA CreateSame ==
    ASSUME CallsInv, NEW q \in WaitQueues, sys.wait[q] = <<>>
    PROVE  sys = [sys EXCEPT
                    !.wait[q] = <<>>,
                    !.link = [t \in AllTasks |->
                                IF Waiting(sys, t) /\ sys.pwait[t] = q
                                THEN "stale" ELSE @[t]]]
<1>1. Sound(sys, {}) /\ SchedType(sys)
  BY DEF CallsInv, IInv, Sound
<1>2. \A t \in AllTasks : ~(Waiting(sys, t) /\ sys.pwait[t] = q)
  BY <1>1, QueueEmpty DEF WaitsIn
<1>3. sys.link \in [AllTasks -> {"listed", "reset", "stale"}]
  BY <1>1 DEF SchedType
<1>4. [t \in AllTasks |-> IF Waiting(sys, t) /\ sys.pwait[t] = q
                          THEN "stale" ELSE sys.link[t]] = sys.link
  BY <1>2, <1>3
<1>5. [sys.wait EXCEPT ![q] = <<>>] = sys.wait
  BY <1>1 DEF SchedType
<1>6. sys = [sys EXCEPT !.wait = sys.wait, !.link = sys.link]
  BY <1>1 DEF SchedType
<1> QED
  BY <1>4, <1>5, <1>6


(* No task is forced to return from tn_sem_acquire (its return code would  *)
(* be that of a task that got a unit), and the tasks can be counted.       *)
NoForcedRelease ==
    Services \cap {"release_wait", "irelease_wait"} = {} /\ IsFiniteSet(Tasks)

(* Before the first call of tn_sem_delete no task is in it, and before the *)
(* semaphore is created no task is in any service of it.                   *)
QuietOK ==
    untouched => \A t \in Tasks : /\ call[t].at \in {"none", "wait"}
                                  /\ exists \/ call[t] = Outside

(* The inductive invariant of TNSem                                        *)
SemOK ==
    /\ CallsInv
    /\ count \in Nat /\ units \in Int /\ exists \in BOOLEAN
    /\ NoIdleUnit
    /\ QuietOK
    /\ SliceInRange => MaskOK
    /\ NoForcedRelease => NoUnitLost

GrantedIn(s, c) ==
    {t \in Tasks : /\ c[t] = Place("wait", SemQueue)
                   /\ ~Waiting(s, t)
                   /\ s.rc[t] = "NO_ERR"}

LEMMA GrantedFinite ==
    ASSUME NoForcedRelease, NEW s, NEW c
    PROVE  IsFiniteSet(GrantedIn(s, c)) /\ Cardinality(GrantedIn(s, c)) \in Nat
<1>1. GrantedIn(s, c) \subseteq Tasks
  BY DEF GrantedIn
<1> QED
  BY <1>1, FS_Subset, FS_CardinalityType DEF NoForcedRelease

(* The units on their way to a task, before and after a step               *)
LEMMA GrantedIs ==
    /\ Granted = GrantedIn(sys, call)
    /\ Granted' = GrantedIn(sys', call')
BY DEF Granted, GrantedIn

(* A step of the semaphore that leaves the tasks alone                     *)
LEMMA SemStillStep ==
    ASSUME SemOK, UNCHANGED <<vars, call, exists, untouched>>,
           count' \in Nat, units' = units + (count' - count),
           count' > count => sys.wait[SemQueue] = <<>>
    PROVE  SemOK'
<1>1. CallsInv'
  BY StillStep DEF SemOK
<1>2. NoIdleUnit'
  BY DEF SemOK, NoIdleUnit, vars
<1>3. QuietOK'
  BY DEF SemOK, QuietOK, vars
<1>4. MaskOK => MaskOK'
  BY DEF MaskOK, vars
<1>5. ASSUME NoForcedRelease PROVE NoUnitLost'
  <2>1. Granted' = Granted /\ Cardinality(Granted) \in Nat
    BY <1>5, GrantedIs, GrantedFinite DEF vars
  <2> QED BY <2>1, <1>5 DEF SemOK, NoUnitLost
<1> QED
  BY <1>1, <1>2, <1>3, <1>4, <1>5 DEF SemOK

(* The semaphore is created.                                               *)
LEMMA SemCreateStep ==
    ASSUME ~RecreateBusy, SemOK, NEW v \in 0 .. max_val, tn_sem_create(v)
    PROVE  SemOK'
<1>0. CallsInv /\ ~exists /\ sys.wait[SemQueue] = <<>> /\ SemQueue \in WaitQueues
  BY SemAssumption DEF SemOK, tn_sem_create
<1>1. sys' = sys
  <2>1. sys' = [sys EXCEPT
                  !.wait[SemQueue] = <<>>,
                  !.link = [t \in AllTasks |->
                              IF Waiting(sys, t) /\ sys.pwait[t] = SemQueue
                              THEN "stale" ELSE @[t]]]
    BY DEF tn_sem_create
  <2> QED BY <1>0, <2>1, CreateSame
<1>2. /\ UNCHANGED <<vars, call, untouched>> /\ exists' = TRUE
      /\ count' = v /\ units' = v /\ v \in Nat
  BY <1>1, SemAssumption DEF tn_sem_create, vars, otherVars
<1>3. CallsInv'
  BY <1>0, <1>2, StillStep
<1>4. NoIdleUnit'
  BY <1>0, <1>1 DEF NoIdleUnit
<1>5. QuietOK'
  BY <1>2 DEF SemOK, QuietOK
<1>6. MaskOK => MaskOK'
  BY <1>2 DEF MaskOK, vars
<1>7. NoUnitLost'
  <2> SUFFICES ASSUME untouched PROVE Granted' = {}
    BY <1>2, FS_EmptySet DEF NoUnitLost
  <2>1. \A t \in Tasks : call'[t] = Outside
    BY <1>0, <1>2 DEF SemOK, QuietOK
  <2> QED BY <2>1, GrantedIs DEF GrantedIn, Outside, Place
<1> QED
  BY <1>2, <1>3, <1>4, <1>5, <1>6, <1>7 DEF SemOK


(* tn_sem_signal and tn_sem_isignal give a unit to the head of the queue.  *)
LEMMA SemReleaseStep ==
    ASSUME SemOK, sys.wait[SemQueue] # <<>>,
           CallsInv', HeadReleased(sys', SemQueue),
           sys'.rc[Head(sys.wait[SemQueue])] = "NO_ERR",
           MaskOK => masked = {},
           UNCHANGED <<masked, call, count, exists, untouched>>, units' = units + 1
    PROVE  SemOK'
<1> DEFINE t == Head(sys.wait[SemQueue])
<1>0. /\ t \in Tasks /\ WaitsIn(sys, t, SemQueue) /\ call[t] = Place("wait", SemQueue)
      /\ KeptBut(sys, sys', t) /\ sys'.state[t] \in {"runnable", "suspend"}
      /\ sys'.rc[t] = "NO_ERR"
  BY DEF HeadReleased
<1> HIDE DEF t
<1>1. NoIdleUnit'
  BY DEF SemOK, NoIdleUnit
<1>2. QuietOK'
  BY DEF SemOK, QuietOK
<1>3. MaskOK => MaskOK'
  BY DEF MaskOK
<1>4. ASSUME NoForcedRelease PROVE NoUnitLost'
  <2>1. GrantedIn(sys', call') = GrantedIn(sys, call) \cup {t}
    <3>1. \A x \in Tasks \ {t} :
             /\ Waiting(sys', x) <=> Waiting(sys, x)
             /\ sys'.rc[x] = sys.rc[x]
      BY <1>0, SystemTasks DEF KeptBut, Kept, Waiting
    <3>2. ~Waiting(sys', t)
      BY <1>0 DEF Waiting
    <3> QED BY <1>0, <3>1, <3>2 DEF GrantedIn
  <2>2. t \notin GrantedIn(sys, call)
    BY <1>0 DEF GrantedIn, WaitsIn
  <2>3. Cardinality(Granted') = Cardinality(Granted) + 1 /\ Cardinality(Granted) \in Nat
    BY <1>4, <2>1, <2>2, GrantedIs, GrantedFinite, FS_AddElement
  <2> QED BY <1>4, <2>3 DEF SemOK, NoUnitLost
<1>5. count' \in Nat /\ units' \in Int /\ exists' \in BOOLEAN
  BY DEF SemOK
<1> QED
  BY <1>1, <1>2, <1>3, <1>4, <1>5 DEF SemOK

(* tn_sem_acquire finds no unit and waits.                                 *)
LEMMA SemBlockStep ==
    ASSUME SemOK, Enter, exists, count < 1, NEW timeout \in Timeouts,
           Block(SemQueue, "sem", timeout),
           UNCHANGED <<otherVars, count, units, exists, untouched>>
    PROVE  SemOK'
<1> DEFINE t == sys.curr
<1>0. /\ CallsInv /\ t \in Tasks /\ call[t] = Outside
      /\ call' = [call EXCEPT ![t] = Place("wait", SemQueue)]
      /\ (MaskOK => masked = {}) /\ masked' = masked
  BY MaskedAlone DEF SemOK, Enter, At, Block, Goto, otherVars, Outside
<1>1. CallsInv' /\ KeptBut(sys, sys', t) /\ Waiting(sys', t)
  BY <1>0, BlockStep, SemAssumption DEF WaitReasons
<1> HIDE DEF t
<1>2. NoIdleUnit'
  BY DEF SemOK, NoIdleUnit
<1>3. QuietOK'
  BY <1>0 DEF SemOK, QuietOK, CallsInv, Place
<1>4. MaskOK => MaskOK'
  BY <1>0 DEF MaskOK
<1>5. ASSUME NoForcedRelease PROVE NoUnitLost'
  <2>1. GrantedIn(sys', call') = GrantedIn(sys, call)
    <3>1. \A x \in Tasks \ {t} :
             /\ call'[x] = call[x]
             /\ Waiting(sys', x) <=> Waiting(sys, x)
             /\ sys'.rc[x] = sys.rc[x]
      BY <1>0, <1>1, SystemTasks DEF KeptBut, Kept, Waiting, CallsInv
    <3>2. Outside # Place("wait", SemQueue)
      BY DEF Outside, Place
    <3> QED BY <1>0, <1>1, <3>1, <3>2 DEF GrantedIn
  <2> QED BY <1>5, <2>1, GrantedIs DEF SemOK, NoUnitLost
<1>6. count' \in Nat /\ units' \in Int /\ exists' \in BOOLEAN
  BY DEF SemOK
<1> QED
  BY <1>1, <1>2, <1>3, <1>4, <1>5, <1>6 DEF SemOK

(* tn_sem_acquire returns after it has waited.                             *)
LEMMA SemReturnStep ==
    ASSUME SemOK, AcquireReturn
    PROVE  SemOK'
<1> DEFINE t == sys.curr
<1>0. /\ CallsInv /\ t \in Tasks \ pending /\ call[t] = Place("wait", SemQueue)
      /\ Goto(Outside) /\ call' = [call EXCEPT ![t] = Outside]
      /\ UNCHANGED <<sys, pending, otherVars, count, exists, untouched>>
      /\ units' = IF sys.rc[t] = "NO_ERR" THEN units - 1 ELSE units
  BY DEF SemOK, AcquireReturn, At, Goto
<1>1. CallsInv' /\ (MaskOK => MaskOK')
  <2>1. At(Place("wait", SemQueue)) /\ Outside \in Places /\ Place("wait", SemQueue).at = "wait"
    BY DEF AcquireReturn, Outside, Places, Place
  <2> QED BY <1>0, <2>1, MoveStep
<1>2. ~Waiting(sys, t)
  BY <1>0, RunningTask DEF CallsInv, Waiting
<1> HIDE DEF t
<1>3. NoIdleUnit'
  BY <1>0 DEF SemOK, NoIdleUnit
<1>4. QuietOK'
  BY <1>0 DEF SemOK, QuietOK, CallsInv, Outside
<1>5. ASSUME NoForcedRelease PROVE NoUnitLost'
  <2>1. GrantedIn(sys', call') = GrantedIn(sys, call) \ {t}
    <3>1. \A x \in Tasks \ {t} : call'[x] = call[x]
      BY <1>0 DEF CallsInv
    <3>2. Outside # Place("wait", SemQueue) /\ call'[t] = Outside /\ sys' = sys
      BY <1>0 DEF Outside, Place, CallsInv
    <3> QED BY <1>0, <3>1, <3>2 DEF GrantedIn
  <2>2. t \in GrantedIn(sys, call) <=> sys.rc[t] = "NO_ERR"
    BY <1>0, <1>2 DEF GrantedIn
  <2>3. Cardinality(Granted) \in Nat
    BY <1>5, GrantedIs, GrantedFinite
  <2>4. CASE sys.rc[t] = "NO_ERR"
    <3>1. Cardinality(Granted') = Cardinality(Granted) - 1
      BY <1>5, <2>1, <2>2, <2>4, GrantedIs, GrantedFinite, FS_RemoveElement
    <3> QED BY <1>0, <1>5, <2>3, <2>4, <3>1 DEF SemOK, NoUnitLost
  <2>5. CASE sys.rc[t] # "NO_ERR"
    <3>1. Granted' = Granted
      BY <2>1, <2>2, <2>5, GrantedIs
    <3> QED BY <1>0, <1>5, <2>5, <3>1 DEF SemOK, NoUnitLost
  <2> QED BY <2>4, <2>5
<1>6. count' \in Nat /\ units' \in Int /\ exists' \in BOOLEAN
  BY <1>0 DEF SemOK
<1> QED
  BY <1>1, <1>3, <1>4, <1>5, <1>6 DEF SemOK


(* The steps of tn_sem_delete                                              *)
LEMMA SemDeleteStep ==
    ASSUME SemOK, tn_sem_delete
    PROVE  SemOK'
<1>0. CallsInv /\ SemQueue \in WaitQueues
  BY SemAssumption DEF SemOK
<1>1. CASE /\ Enter /\ exists
           /\ Goto(Place("delete", SemQueue))
           /\ untouched' = FALSE
           /\ UNCHANGED <<sys, pending, otherVars, count, max_count, exists, units>>
  <2>1. At(Outside) /\ Place("delete", SemQueue) \in Places /\ Outside.at = "none"
    BY <1>0, <1>1 DEF Enter, Outside, Places, Place
  <2>2. CallsInv' /\ (MaskOK => MaskOK')
    BY <1>0, <1>1, <2>1, MoveStep
  <2> QED BY <1>1, <2>2 DEF SemOK, NoIdleUnit, QuietOK, NoUnitLost
<1>2. ASSUME NEW p, p.at \in {"delete", "remove", "finish"}, At(p)
      PROVE  ~untouched
  BY <1>2 DEF SemOK, QuietOK, At
<1>3. CASE DeleteCheck(SemQueue, Place("finish", SemQueue)) /\ UNCHANGED semVars
  <2>1. ~untouched
    <3>1. At(Place("delete", SemQueue)) /\ Place("delete", SemQueue).at = "delete"
      BY <1>3 DEF DeleteCheck, Place
    <3> QED BY <1>2, <3>1
  <2>2. CallsInv' /\ sys' = sys /\ (MaskOK => MaskOK')
    <3>1. Place("finish", SemQueue) \in Places /\ Place("finish", SemQueue).at = "finish"
      BY <1>0 DEF Place, Places
    <3> QED BY <1>0, <1>3, <3>1, CheckStep
  <2> QED BY <1>3, <2>1, <2>2 DEF SemOK, NoIdleUnit, QuietOK, NoUnitLost, semVars
<1>4. CASE DeleteRemove(SemQueue) /\ UNCHANGED semVars
  <2>1. ~untouched
    <3>1. At(Place("remove", SemQueue)) /\ Place("remove", SemQueue).at = "remove"
      BY <1>4 DEF DeleteRemove, Place
    <3> QED BY <1>2, <3>1
  <2>2. CallsInv' /\ NoNewWaiter(sys, sys', SemQueue)
    BY <1>0, <1>4, RemoveStep
  <2>3. MaskOK => MaskOK'
    BY <1>0, <1>4, RemoveMask
  <2>4. Sound(sys, {}) /\ Sound(sys', {})
    BY <1>0, <2>2 DEF CallsInv, IInv
  <2>5. sys.wait[SemQueue] = <<>> => sys'.wait[SemQueue] = <<>>
    BY <1>0, <2>2, <2>4, StaysEmpty
  <2> QED BY <1>4, <2>1, <2>2, <2>3, <2>5 DEF SemOK, NoIdleUnit, QuietOK, NoUnitLost, semVars
<1>5. CASE /\ DeleteFinish(SemQueue) /\ exists' = FALSE
           /\ UNCHANGED <<count, max_count, units, untouched>>
  <2>1. ~untouched
    <3>1. At(Place("finish", SemQueue)) /\ Place("finish", SemQueue).at = "finish"
      BY <1>5 DEF DeleteFinish, Place
    <3> QED BY <1>2, <3>1
  <2>2. CallsInv' /\ sys' = sys /\ (MaskOK => MaskOK')
    BY <1>0, <1>5, FinishStep
  <2> QED BY <1>5, <2>1, <2>2 DEF SemOK, NoIdleUnit, QuietOK, NoUnitLost
<1> QED
  BY <1>1, <1>3, <1>4, <1>5 DEF tn_sem_delete

(* A step of the kernel                                                    *)
LEMMA SemKernelStep ==
    ASSUME SemOK, KernelStep, UNCHANGED semVars
    PROVE  SemOK'
<1>0. /\ CallsInv /\ SemQueue \in WaitQueues
      /\ UNCHANGED <<count, units, exists, untouched>>
  BY SemAssumption DEF SemOK, semVars
<1>1. CallsInv' /\ KernelEffect(sys') /\ call' = call
  BY <1>0, KernelCalls
<1>2. NoIdleUnit'
  BY <1>0, KernelEmpty DEF SemOK, NoIdleUnit
<1>3. QuietOK'
  BY <1>0, <1>1 DEF SemOK, QuietOK
<1>4. SliceInRange /\ MaskOK => MaskOK'
  BY <1>0, KernelMask DEF MaskOK
<1>5. ASSUME NoForcedRelease PROVE NoUnitLost'
  <2>1. ASSUME NEW x \in Tasks
        PROVE  x \in GrantedIn(sys', call') <=> x \in GrantedIn(sys, call)
    <3>1. KernelTcb(sys, sys', x, call[x]) /\ PlaceOK(sys, call[x], x)
      BY <1>0, <1>1 DEF KernelEffect, CallsInv
    <3>2. Outside # Place("wait", SemQueue)
      BY DEF Outside, Place
    <3>3. CASE Kept(sys, sys', x)
      BY <1>1, <3>3 DEF Kept, GrantedIn, Waiting
    <3>4. CASE Suspends(sys, sys', x)
      BY <1>1, <3>4 DEF Suspends, GrantedIn
    <3>5. CASE FallsAsleep(sys, sys', x, call[x])
      BY <1>1, <3>2, <3>5 DEF FallsAsleep, GrantedIn
    <3>6. CASE WaitEnds(sys, sys', x)
      <4>1. Waiting(sys, x) /\ (sys.pwait[x] = NoQueue => call[x] = Outside)
        BY <3>1, <3>6 DEF WaitEnds, PlaceOK
      <4>2. sys.pwait[x] = NoQueue \/ sys'.rc[x] # "NO_ERR"
        BY <1>5, <3>6 DEF WaitEnds, NoForcedRelease
      <4> QED BY <1>1, <3>2, <4>1, <4>2 DEF GrantedIn
    <3>7. CASE Starts(sys, sys', x)
      BY <1>1, <3>1, <3>2, <3>7 DEF Starts, PlaceOK, GrantedIn
    <3> QED BY <3>1, <3>3, <3>4, <3>5, <3>6, <3>7 DEF KernelTcb
  <2>2. GrantedIn(sys', call') = GrantedIn(sys, call)
    BY <2>1 DEF GrantedIn
  <2> QED BY <1>0, <1>5, <2>2, GrantedIs DEF SemOK, NoUnitLost
<1>6. count' \in Nat /\ units' \in Int /\ exists' \in BOOLEAN
  BY <1>0 DEF SemOK
<1> QED
  BY <1>1, <1>2, <1>3, <1>4, <1>5, <1>6 DEF SemOK


-----------------------------------------------------------------------------

(* Nobody waits and nobody is in a call when the system starts.            *)
LEMMA InitCalls ==
    ASSUME Init, CallsInit
    PROVE  CallsInv /\ MaskOK /\ \A q \in WaitQueues : sys.wait[q] = <<>>
<1>1. IInv
  BY InitInvariant
<1>2. /\ sys.state = [t \in AllTasks |-> IF t \in Tasks THEN "dormant" ELSE "runnable"]
      /\ sys.pwait = [t \in AllTasks |-> NoQueue]
      /\ sys.wait = [q \in WaitQueues |-> <<>>]
      /\ masked = {}
  BY DEF Init, tn_start_system
<1>3. /\ call = [t \in Tasks |-> Outside] /\ Outside \in Places
  BY DEF CallsInit, Outside, Places
<1>4. ASSUME NEW t \in Tasks PROVE PlaceOK(sys, call[t], t)
  BY <1>2, <1>3, SystemTasks DEF PlaceOK, Waiting
<1>5. CallsInv
  <2>1. sys.pwait[TimerTask] = NoQueue
    BY <1>2, SystemTasks
  <2>2. call \in [Tasks -> Places]
    BY <1>3
  <2> QED BY <1>1, <1>4, <2>1, <2>2 DEF CallsInv
<1> QED
  BY <1>2, <1>5 DEF MaskOK

LEMMA SemInitOK ==
    ASSUME SemInit
    PROVE  SemOK
<1>1. CallsInv /\ MaskOK /\ sys.wait[SemQueue] = <<>>
  BY InitCalls, SemAssumption DEF SemInit
<1>2. count = 0 /\ units = 0 /\ exists = FALSE /\ call = [t \in Tasks |-> Outside]
  BY DEF SemInit, CallsInit
<1>3. Granted = {}
  BY <1>2, GrantedIs DEF GrantedIn, Outside, Place
<1>4. NoUnitLost
  BY <1>2, <1>3, FS_EmptySet DEF NoUnitLost
<1>5. QuietOK
  BY <1>2 DEF QuietOK, Outside
<1>6. NoIdleUnit
  BY <1>2 DEF NoIdleUnit
<1>7. count \in Nat /\ units \in Int
  BY <1>2
<1>8. exists \in BOOLEAN
  <2>1. exists = FALSE
    BY DEF SemInit
  <2> QED BY ONLY <2>1
<1> QED
  BY <1>1, <1>4, <1>5, <1>6, <1>7, <1>8 DEF SemOK

(* Every step of the semaphore, its users and the kernel preserves the     *)
(* invariant.                                                              *)
LEMMA SemNextOK ==
    ASSUME ~RecreateBusy, SemOK, [SemNext]_<<vars, call, semVars>>
    PROVE  SemOK'
<1>0. CallsInv /\ SemQueue \in WaitQueues /\ count \in Nat /\ units \in Int
  BY SemAssumption DEF SemOK
<1>m. MaskOK /\ (Enter \/ IrqEnabled) => masked = {}
  BY <1>0, MaskedAlone DEF Enter, Outside
<1>1. CASE \E v \in 0 .. max_val : tn_sem_create(v)
  BY <1>1, SemCreateStep
<1>2. CASE Recreate
  <2>1. UNCHANGED <<vars, call, count, exists, units, untouched>>
    BY <1>2 DEF Recreate, vars, otherVars
  <2> QED BY <1>0, <2>1, SemStillStep
<1>3. CASE tn_sem_signal \/ tn_sem_isignal
  <2>1. /\ UNCHANGED <<masked, created, revived, slices, booted, cursor, scanning, call,
                       exists, untouched>>
        /\ units' = units + 1
        /\ Enter \/ IrqEnabled
    BY <1>3 DEF tn_sem_signal, tn_sem_isignal, EnterSem, IEnterSem
  <2>2. CASE CountSignal
    <3>1. /\ UNCHANGED <<vars, call, exists, untouched>>
          /\ count' = count + 1 /\ sys.wait[SemQueue] = <<>>
      BY <2>1, <2>2 DEF CountSignal, vars
    <3> QED BY <1>0, <2>1, <3>1, SemStillStep
  <2>3. CASE Enter /\ sys.wait[SemQueue] # <<>> /\ ReleaseHead(SemQueue) /\ UNCHANGED count
    <3>1. /\ CallsInv' /\ HeadReleased(sys', SemQueue)
          /\ sys'.rc[Head(sys.wait[SemQueue])] = "NO_ERR"
      BY <1>0, <2>1, <2>3, ReleaseStep
    <3> QED BY <1>m, <2>1, <2>3, <3>1, SemReleaseStep
  <2>4. CASE IrqEnabled /\ sys.wait[SemQueue] # <<>> /\ IReleaseHead(SemQueue) /\ UNCHANGED count
    <3>1. /\ CallsInv' /\ HeadReleased(sys', SemQueue)
          /\ sys'.rc[Head(sys.wait[SemQueue])] = "NO_ERR"
      BY <1>0, <2>1, <2>4, IReleaseStep
    <3> QED BY <1>m, <2>1, <2>4, <3>1, SemReleaseStep
  <2> QED BY <1>3, <2>2, <2>3, <2>4
          DEF tn_sem_signal, tn_sem_isignal, EnterSem, IEnterSem
<1>4. ASSUME TakeUnit, UNCHANGED <<otherVars, exists, untouched>> PROVE SemOK'
  <2>1. /\ UNCHANGED <<vars, call, exists, untouched>>
        /\ count' = count - 1 /\ count >= 1 /\ units' = units - 1
    BY <1>4 DEF TakeUnit, vars, otherVars
  <2> QED BY <1>0, <2>1, SemStillStep
<1>5. CASE \E timeout \in Timeouts : tn_sem_acquire(timeout)
  <2>1. PICK timeout \in Timeouts : tn_sem_acquire(timeout)
    BY <1>5
  <2>2. CASE TakeUnit
    BY <1>4, <2>1, <2>2 DEF tn_sem_acquire
  <2>3. CASE count < 1 /\ Block(SemQueue, "sem", timeout) /\ UNCHANGED <<count, units>>
    BY <2>1, <2>3, SemBlockStep DEF tn_sem_acquire, EnterSem
  <2> QED BY <2>1, <2>2, <2>3 DEF tn_sem_acquire
<1>6. CASE AcquireReturn
  BY <1>6, SemReturnStep
<1>7. CASE tn_sem_polling \/ tn_sem_ipolling
  BY <1>4, <1>7 DEF tn_sem_polling, tn_sem_ipolling
<1>8. CASE tn_sem_delete
  BY <1>8, SemDeleteStep
<1>9. CASE KernelStep /\ UNCHANGED semVars
  BY <1>9, SemKernelStep
<1>10. CASE UNCHANGED <<vars, call, semVars>>
  <2>1. UNCHANGED <<vars, call, count, exists, units, untouched>>
    BY <1>10 DEF semVars
  <2> QED BY <1>0, <2>1, SemStillStep
<1> QED
  BY <1>1, <1>2, <1>3, <1>5, <1>6, <1>7, <1>8, <1>9, <1>10 DEF SemNext

(* The inductive invariant of TNSem holds in every state, for every set of *)
(* tasks and every maximum of the semaphore, if the application does not   *)
(* create a semaphore again while a task waits in its old queue and does   *)
(* not delete a task that is to be activated again.                        *)
THEOREM SemInvariance ==
    ASSUME ~RecreateBusy
    PROVE  SemSpec => []SemOK
<1>1. SemInit => SemOK
  BY SemInitOK
<1>2. SemOK /\ [SemNext]_<<vars, call, semVars>> => SemOK'
  BY SemNextOK
<1> QED
  BY <1>1, <1>2, PTL DEF SemSpec

(* No task waits in tn_sem_acquire while the semaphore has a unit.         *)
THEOREM UnitIsTaken ==
    ASSUME ~RecreateBusy
    PROVE  SemSpec => []NoIdleUnit
<1>1. SemOK => NoIdleUnit
  BY DEF SemOK
<1> QED
  BY <1>1, SemInvariance, PTL

(* Every unit that was signalled is acquired once: by a task that finds it *)
(* in the count, or by the waiting task it was handed to, although that    *)
(* task runs much later.  No other task may force the waiting task to      *)
(* return.                                                                 *)
THEOREM UnitsConserved ==
    ASSUME ~RecreateBusy, NoForcedRelease
    PROVE  SemSpec => []NoUnitLost
<1>1. SemOK => NoUnitLost
  BY DEF SemOK
<1> QED
  BY <1>1, SemInvariance, PTL

(* tn_sem_delete enables the interrupts that it disabled before it returns *)
(* and before another task runs.                                           *)
THEOREM DeleteEnablesInterrupts ==
    ASSUME ~RecreateBusy, SliceInRange
    PROVE  SemSpec => []DeleteUnmasks
<1>1. SemOK => DeleteUnmasks
  BY DEF SemOK, MaskOK, DeleteUnmasks
<1> QED
  BY <1>1, SemInvariance, PTL


-----------------------------------------------------------------------------
(* A data queue and a memory pool                                          *)

(* The counters of the storage FIFO are indices of it.                     *)
FifoOK(f) ==
    /\ DOMAIN f = {"data_fifo", "header_cnt", "tail_cnt"}
    /\ f.header_cnt \in Nat /\ f.tail_cnt \in Nat
    /\ num_entries > 0 => f.header_cnt < num_entries /\ f.tail_cnt < num_entries

VainOK(s, f) ==
    /\ s.wait[ReceiveQueue] # <<>> => FifoEmpty(f) /\ s.wait[SendQueue] = <<>>
    /\ s.wait[SendQueue] # <<>> => FifoFull(f)

FreeOK(s, free) == s.wait[MemQueue] # <<>> => free = <<>>

(* The inductive invariant of TNBuffers                                    *)
BuffersOK ==
    /\ CallsInv
    /\ SliceInRange => MaskOK
    /\ untouched => \A t \in Tasks : call[t].at \in {"none", "wait"}
    /\ FifoOK(dque)
    /\ untouched => VainOK(sys, dque) /\ FreeOK(sys, free_list)

(* dque_fifo_write and dque_fifo_read keep the counters in range.          *)
LEMMA FifoSteps ==
    ASSUME NEW f, FifoOK(f), NEW d
    PROVE  /\ FifoOK(dque_fifo_write(f, d))
           /\ ~FifoEmpty(f) => FifoOK(dque_fifo_read(f))
<1>0. num_entries \in Nat
  BY DqueAssumption
<1>1. FifoOK(dque_fifo_write(f, d))
  <2> DEFINE g == dque_fifo_write(f, d)
  <2>1. CASE FifoFull(f)
    BY <2>1 DEF dque_fifo_write
  <2>2. CASE ~FifoFull(f)
    <3>1. /\ DOMAIN g = DOMAIN f /\ g.tail_cnt = f.tail_cnt
          /\ g.header_cnt = Wrap(f.header_cnt + 1)
      BY <2>2 DEF dque_fifo_write, FifoOK
    <3>2. num_entries > 0
      BY <1>0, <2>2 DEF FifoFull
    <3> HIDE DEF g
    <3>3. FifoOK(g)
      BY <1>0, <3>1, <3>2 DEF FifoOK, Wrap
    <3> QED BY <3>3 DEF g
  <2> QED BY <2>1, <2>2
<1>2. ASSUME ~FifoEmpty(f) PROVE FifoOK(dque_fifo_read(f))
  <2> DEFINE g == dque_fifo_read(f)
  <2>1. /\ DOMAIN g = DOMAIN f /\ g.header_cnt = f.header_cnt
        /\ g.tail_cnt = Wrap(f.tail_cnt + 1)
    BY DEF dque_fifo_read, FifoOK
  <2>2. num_entries > 0
    BY <1>0, <1>2 DEF FifoEmpty
  <2> HIDE DEF g
  <2>3. FifoOK(g)
    BY <1>0, <2>1, <2>2 DEF FifoOK, Wrap
  <2> QED BY <2>3 DEF g
<1> QED
  BY <1>1, <1>2

(* A full FIFO is full again when an element was read and another written, *)
(* wherever the reader is in the ring.                                     *)
LEMMA FullAgain ==
    ASSUME NEW f, FifoOK(f), FifoFull(f), ~FifoEmpty(f), NEW d
    PROVE  FifoFull(dque_fifo_write(dque_fifo_read(f), d))
<1> DEFINE g == dque_fifo_read(f)
           h == dque_fifo_write(g, d)
<1>0. num_entries \in Nat /\ num_entries > 0 /\ f.header_cnt # f.tail_cnt
  BY DqueAssumption DEF FifoEmpty
<1>1. /\ DOMAIN g = DOMAIN f /\ g.header_cnt = f.header_cnt
      /\ g.tail_cnt = Wrap(f.tail_cnt + 1)
  BY DEF dque_fifo_read, FifoOK
<1> HIDE DEF g
<1>2. ~FifoFull(g)
  BY <1>0, <1>1 DEF FifoFull, FifoOK, Wrap
<1>3. h.header_cnt = Wrap(g.header_cnt + 1) /\ h.tail_cnt = g.tail_cnt
  BY <1>1, <1>2 DEF dque_fifo_write, FifoOK
<1> HIDE DEF h
<1>4. FifoFull(h)
  BY <1>0, <1>1, <1>3 DEF FifoFull, FifoOK, Wrap
<1> QED
  BY <1>4 DEF g, h

(* Nothing is in the pipe when the FIFO is empty and nobody sends.         *)
LEMMA PipeEmpty ==
    ASSUME FifoOK(dque), FifoEmpty(dque), sys.wait[SendQueue] = <<>>
    PROVE  Pipe = <<>>
<1>0. num_entries \in Nat
  BY DqueAssumption
<1>1. FifoLen(dque) = 0
  <2>1. CASE num_entries = 0
    BY <2>1 DEF FifoLen
  <2>2. CASE num_entries # 0
    <3>1. dque.header_cnt - dque.tail_cnt = 0
      BY <1>0, <2>2 DEF FifoEmpty, FifoOK
    <3>2. 0 % num_entries = 0
      BY <1>0, <2>2
    <3> QED BY <2>2, <3>1, <3>2 DEF FifoLen
  <2> QED BY <2>1, <2>2
<1>2. FifoContents(dque) = <<>>
  BY <1>1 DEF FifoContents
<1>3. [i \in 1 .. Len(sys.wait[SendQueue]) |-> data_elem[sys.wait[SendQueue][i]]] = <<>>
  OBVIOUS
<1> QED
  BY <1>2, <1>3 DEF Pipe


(* No wait queue gets a task.                                              *)
EmptyStays(u) == \A q \in WaitQueues : sys.wait[q] = <<>> => u.wait[q] = <<>>

(* A task or a handler hands something to the head of a wait queue.        *)
LEMMA ReleaseEither ==
    ASSUME CallsInv, NEW q \in WaitQueues, sys.wait[q] # <<>>,
           (Enter /\ ReleaseHead(q)) \/ (IrqEnabled /\ IReleaseHead(q)),
           UNCHANGED <<masked, created, revived, slices, booted, cursor, scanning, call>>
    PROVE  CallsInv' /\ EmptyStays(sys') /\ (MaskOK => MaskOK')
<1>1. CallsInv' /\ HeadReleased(sys', q)
  BY ReleaseStep, IReleaseStep
<1>2. Sound(sys, {}) /\ Sound(sys', {})
  BY <1>1 DEF CallsInv, IInv
<1>3. EmptyStays(sys')
  <2> SUFFICES ASSUME NEW r \in WaitQueues, sys.wait[r] = <<>> PROVE sys'.wait[r] = <<>>
    BY DEF EmptyStays
  <2>1. NoNewWaiter(sys, sys', r)
    BY <1>1, ReleaseWaiters
  <2> QED BY <1>2, <2>1, StaysEmpty
<1>4. MaskOK => masked = {}
  BY MaskedAlone DEF Enter, Outside
<1> QED
  BY <1>1, <1>3, <1>4 DEF MaskOK

(* The running task starts to wait: the other queues get no task.          *)
LEMMA BlockEmpty ==
    ASSUME CallsInv, Enter, NEW q \in WaitQueues,
           NEW reason \in WaitReasons, reason # "sleep",
           NEW timeout \in Timeouts, Block(q, reason, timeout), UNCHANGED otherVars
    PROVE  /\ CallsInv' /\ (MaskOK => MaskOK')
           /\ \A r \in WaitQueues \ {q} : sys.wait[r] = <<>> => sys'.wait[r] = <<>>
           /\ \A t \in Tasks : call[t].at \in {"none", "wait"} => call'[t].at \in {"none", "wait"}
<1>1. CallsInv' /\ \A r \in WaitQueues \ {q} : NoNewWaiter(sys, sys', r)
  BY BlockStep
<1>2. Sound(sys, {}) /\ Sound(sys', {})
  BY <1>1 DEF CallsInv, IInv
<1>3. ASSUME NEW r \in WaitQueues \ {q}, sys.wait[r] = <<>> PROVE sys'.wait[r] = <<>>
  BY <1>1, <1>2, <1>3, StaysEmpty
<1>4. MaskOK => masked = {}
  BY MaskedAlone DEF Enter, Outside
<1>5. masked' = masked
  BY DEF otherVars
<1>6. call' = [call EXCEPT ![sys.curr] = Place("wait", q)]
  BY DEF Block, Goto
<1>7. \A t \in Tasks : call[t].at \in {"none", "wait"} => call'[t].at \in {"none", "wait"}
  BY <1>6 DEF CallsInv, Place
<1> QED
  BY <1>1, <1>3, <1>4, <1>5, <1>7 DEF MaskOK

(* A step that changes the object alone                                    *)
LEMMA BuffersStill ==
    ASSUME BuffersOK, UNCHANGED <<vars, call, untouched>>,
           FifoOK(dque'), untouched => VainOK(sys, dque') /\ FreeOK(sys, free_list')
    PROVE  BuffersOK'
<1>1. CallsInv'
  BY StillStep DEF BuffersOK
<1>2. MaskOK => MaskOK'
  BY DEF MaskOK, vars
<1>3. sys' = sys
  BY DEF vars
<1> QED
  BY <1>1, <1>2, <1>3 DEF BuffersOK

(* A step that takes a task from a wait queue, or none                     *)
LEMMA BuffersLess ==
    ASSUME BuffersOK, CallsInv', MaskOK => MaskOK', EmptyStays(sys'), call' = call,
           UNCHANGED <<untouched, free_list>>, FifoOK(dque'),
           untouched /\ VainOK(sys, dque) => VainOK(sys', dque')
    PROVE  BuffersOK'
<1>1. untouched => FreeOK(sys', free_list')
  BY MemAssumption DEF BuffersOK, FreeOK, EmptyStays
<1>2. untouched => VainOK(sys', dque')
  BY DEF BuffersOK
<1>3. SliceInRange => MaskOK'
  BY DEF BuffersOK
<1> QED
  BY <1>1, <1>2, <1>3 DEF BuffersOK

LEMMA VainLess ==
    ASSUME EmptyStays(sys'), VainOK(sys, dque)
    PROVE  VainOK(sys', dque)
BY DqueAssumption DEF EmptyStays, VainOK


(* Nothing is said about the objects once a delete service was called.     *)
LEMMA BuffersTouched ==
    ASSUME BuffersOK, CallsInv', MaskOK => MaskOK', ~untouched', UNCHANGED dque
    PROVE  BuffersOK'
BY DEF BuffersOK

(* The steps of a delete service                                           *)
LEMMA BuffersDelete ==
    ASSUME BuffersOK, NEW q \in WaitQueues,
           \/ DeleteBegin(q)
           \/ /\ UNCHANGED transferVars
              /\ \/ \E next \in Places :
                      /\ next.at \in {"delete", "remove", "finish"}
                      /\ DeleteCheck(q, next)
                 \/ DeleteRemove(q)
                 \/ DeleteFinish(q),
           UNCHANGED dque
    PROVE  BuffersOK'
<1>0. CallsInv
  BY DEF BuffersOK
<1>1. CASE DeleteBegin(q)
  <2>1. /\ At(Outside) /\ Place("delete", q) \in Places /\ Outside.at = "none"
        /\ Goto(Place("delete", q)) /\ UNCHANGED <<sys, pending, otherVars>>
        /\ ~untouched'
    BY <1>1 DEF DeleteBegin, Enter, Outside, Places, Place
  <2>2. CallsInv' /\ (MaskOK => MaskOK')
    BY <1>0, <2>1, MoveStep
  <2> QED BY <2>1, <2>2, BuffersTouched
<1>2. ASSUME NEW p, p.at \in {"delete", "remove", "finish"}, At(p), UNCHANGED transferVars
      PROVE  ~untouched'
  BY <1>2 DEF BuffersOK, At, transferVars
<1>3. ASSUME NEW next \in Places, next.at \in {"delete", "remove", "finish"},
             DeleteCheck(q, next), UNCHANGED transferVars
      PROVE  BuffersOK'
  <2>1. At(Place("delete", q)) /\ Place("delete", q).at = "delete"
    BY <1>3 DEF DeleteCheck, Place
  <2>2. CallsInv' /\ (MaskOK => MaskOK')
    BY <1>0, <1>3, CheckStep
  <2> QED BY <1>2, <1>3, <2>1, <2>2, BuffersTouched
<1>4. CASE DeleteRemove(q) /\ UNCHANGED transferVars
  <2>1. At(Place("remove", q)) /\ Place("remove", q).at = "remove"
    BY <1>4 DEF DeleteRemove, Place
  <2>2. CallsInv'
    BY <1>0, <1>4, RemoveStep
  <2>3. MaskOK => MaskOK'
    BY <1>0, <1>4, RemoveMask
  <2> QED BY <1>2, <1>4, <2>1, <2>2, <2>3, BuffersTouched
<1>5. CASE DeleteFinish(q) /\ UNCHANGED transferVars
  <2>1. At(Place("finish", q)) /\ Place("finish", q).at = "finish"
    BY <1>5 DEF DeleteFinish, Place
  <2>2. CallsInv' /\ (MaskOK => MaskOK')
    BY <1>0, <1>5, FinishStep
  <2> QED BY <1>2, <1>5, <2>1, <2>2, BuffersTouched
<1> QED
  BY <1>1, <1>3, <1>4, <1>5

(* A service returns after it has waited.                                  *)
LEMMA BuffersReturn ==
    ASSUME BuffersOK, NEW q \in WaitQueues, Return(q), UNCHANGED <<dque, free_list>>
    PROVE  BuffersOK'
<1>1. /\ At(Place("wait", q)) /\ Place("wait", q).at = "wait" /\ Outside \in Places
      /\ Goto(Outside) /\ UNCHANGED <<sys, pending, otherVars, untouched>> /\ CallsInv
  BY DEF Return, Place, Outside, Places, BuffersOK
<1>2. CallsInv' /\ (MaskOK => MaskOK')
  BY <1>1, MoveStep
<1>3. untouched => \A t \in Tasks : call'[t].at \in {"none", "wait"}
  BY <1>1 DEF BuffersOK, Goto, Outside, CallsInv
<1> QED
  BY <1>1, <1>2, <1>3 DEF BuffersOK

(* A service finds nothing and waits.                                      *)
LEMMA BuffersBlock ==
    ASSUME BuffersOK, Enter, NEW q \in WaitQueues,
           NEW reason \in WaitReasons, reason # "sleep",
           NEW timeout \in Timeouts, Block(q, reason, timeout),
           UNCHANGED <<otherVars, untouched, dque, free_list>>,
           q = SendQueue => sys.wait[ReceiveQueue] = <<>> /\ FifoFull(dque),
           q = ReceiveQueue => sys.wait[SendQueue] = <<>> /\ FifoEmpty(dque),
           q = MemQueue => free_list = <<>>
    PROVE  BuffersOK'
<1>0. CallsInv
  BY DEF BuffersOK
<1>1. /\ CallsInv' /\ (MaskOK => MaskOK')
      /\ \A t \in Tasks : call[t].at \in {"none", "wait"} => call'[t].at \in {"none", "wait"}
  BY <1>0, BlockEmpty
<1>2. \A r \in WaitQueues \ {q} : sys.wait[r] = <<>> => sys'.wait[r] = <<>>
  BY <1>0, BlockEmpty
<1>3. untouched => VainOK(sys', dque)
  <2> SUFFICES ASSUME VainOK(sys, dque) PROVE VainOK(sys', dque)
    BY DEF BuffersOK
  <2> QED BY <1>2, DqueAssumption DEF VainOK
<1>4. untouched => FreeOK(sys', free_list)
  <2> SUFFICES ASSUME FreeOK(sys, free_list) PROVE FreeOK(sys', free_list)
    BY DEF BuffersOK
  <2> QED BY <1>2, MemAssumption DEF FreeOK
<1> QED
  BY <1>1, <1>3, <1>4 DEF BuffersOK


(* The element goes to a waiting receiver or into the FIFO.                *)
LEMMA BuffersSend ==
    ASSUME BuffersOK, NEW d, (Enter /\ Send(d)) \/ (IrqEnabled /\ ISend(d)),
           UNCHANGED <<restVars, call, free_list>>
    PROVE  BuffersOK'
<1>0. /\ CallsInv /\ ReceiveQueue \in WaitQueues /\ SendQueue \in WaitQueues /\ FifoOK(dque)
      /\ UNCHANGED <<masked, created, revived, slices, booted, cursor, scanning, call, untouched, free_list>>
  BY DqueAssumption DEF BuffersOK, restVars
<1>1. CASE Store(d)
  <2>1. /\ UNCHANGED <<vars, call, untouched>> /\ dque' = dque_fifo_write(dque, d)
        /\ sys.wait[ReceiveQueue] = <<>> /\ ~FifoFull(dque)
    BY <1>0, <1>1 DEF Store, vars
  <2>2. FifoOK(dque')
    BY <1>0, <2>1, FifoSteps
  <2>3. untouched => sys.wait[SendQueue] = <<>>
    BY <2>1 DEF BuffersOK, VainOK
  <2>4. untouched => VainOK(sys, dque') /\ FreeOK(sys, free_list')
    BY <1>0, <2>1, <2>3 DEF BuffersOK, VainOK
  <2> QED BY <2>1, <2>2, <2>4, BuffersStill
<1>2. CASE /\ sys.wait[ReceiveQueue] # <<>> /\ dque' = dque
           /\ (Enter /\ ReleaseHead(ReceiveQueue)) \/ (IrqEnabled /\ IReleaseHead(ReceiveQueue))
  <2>1. CallsInv' /\ EmptyStays(sys') /\ (MaskOK => MaskOK')
    BY <1>0, <1>2, ReleaseEither
  <2>2. FifoOK(dque')
    BY <1>0, <1>2
  <2>3. VainOK(sys, dque) => VainOK(sys', dque')
    BY <1>2, <2>1, VainLess
  <2> QED BY <1>0, <2>1, <2>2, <2>3, BuffersLess
<1> QED
  BY <1>1, <1>2 DEF Send, ISend, GiveHead

(* The oldest element is received, and a waiting sender is released.       *)
LEMMA BuffersReceive ==
    ASSUME BuffersOK, (Enter /\ Receive) \/ (IrqEnabled /\ IReceive),
           UNCHANGED <<restVars, call, free_list>>
    PROVE  BuffersOK'
<1>0. /\ CallsInv /\ ReceiveQueue \in WaitQueues /\ SendQueue \in WaitQueues /\ FifoOK(dque)
      /\ UNCHANGED <<masked, created, revived, slices, booted, cursor, scanning, call, untouched, free_list>>
      /\ Fetch
  BY DqueAssumption DEF BuffersOK, restVars, Receive, IReceive
<1>1. CASE sys.wait[SendQueue] = <<>> /\ UNCHANGED <<sys, pending, skipped>>
  <2>1. /\ UNCHANGED <<vars, call, untouched>> /\ dque' = dque_fifo_read(dque)
        /\ sys.wait[SendQueue] = <<>> /\ ~FifoEmpty(dque)
    BY <1>0, <1>1 DEF Fetch, Available, vars
  <2>2. FifoOK(dque')
    BY <1>0, <2>1, FifoSteps
  <2>3. untouched => sys.wait[ReceiveQueue] = <<>>
    BY <2>1 DEF BuffersOK, VainOK
  <2>4. untouched => VainOK(sys, dque') /\ FreeOK(sys, free_list')
    BY <1>0, <2>1, <2>3 DEF BuffersOK, VainOK
  <2> QED BY <2>1, <2>2, <2>4, BuffersStill
<1>2. CASE /\ sys.wait[SendQueue] # <<>>
           /\ (Enter /\ ReleaseHead(SendQueue)) \/ (IrqEnabled /\ IReleaseHead(SendQueue))
  <2>1. CallsInv' /\ EmptyStays(sys') /\ (MaskOK => MaskOK')
    BY <1>0, <1>2, ReleaseEither
  <2>2. PICK d : dque' = IF FifoEmpty(dque) THEN dque
                         ELSE dque_fifo_write(dque_fifo_read(dque), d)
    BY <1>0, <1>2 DEF Fetch
  <2>3. FifoOK(dque')
    <3>1. CASE FifoEmpty(dque)
      BY <1>0, <2>2, <3>1
    <3>2. CASE ~FifoEmpty(dque)
      <4>1. FifoOK(dque_fifo_read(dque))
        BY <1>0, <3>2, FifoSteps
      <4>2. FifoOK(dque_fifo_write(dque_fifo_read(dque), d))
        BY <4>1, FifoSteps
      <4> QED BY <2>2, <3>2, <4>2
    <3> QED BY <3>1, <3>2
  <2>4. ASSUME VainOK(sys, dque) PROVE VainOK(sys', dque')
    <3>1. sys.wait[ReceiveQueue] = <<>> /\ FifoFull(dque)
      BY <1>2, <2>4 DEF VainOK
    <3>2. sys'.wait[ReceiveQueue] = <<>>
      BY <1>0, <2>1, <3>1 DEF EmptyStays
    <3>3. FifoFull(dque')
      BY <1>0, <2>2, <3>1, FullAgain
    <3> QED BY <3>2, <3>3 DEF VainOK
  <2> QED BY <1>0, <2>1, <2>3, <2>4, BuffersLess
<1> QED
  BY <1>1, <1>2 DEF Receive, IReceive

(* The steps of the data queue                                             *)
LEMMA QueueStepOK ==
    ASSUME BuffersOK, QueueStep
    PROVE  BuffersOK'
<1>0. /\ UNCHANGED free_list /\ SendQueue \in WaitQueues /\ ReceiveQueue \in WaitQueues
      /\ CallsInv
  BY DqueAssumption DEF QueueStep, memVars, BuffersOK
<1>1. ASSUME NEW d, NEW timeout \in Timeouts, tn_queue_send(d, timeout)
      PROVE  BuffersOK'
  <2>1. CASE Send(d) /\ UNCHANGED call
    <3>1. Enter /\ UNCHANGED <<restVars, call, free_list>>
      BY <1>0, <1>1, <2>1 DEF tn_queue_send
    <3> QED BY <2>1, <3>1, BuffersSend
  <2>2. CASE /\ sys.wait[ReceiveQueue] = <<>> /\ FifoFull(dque)
             /\ Block(SendQueue, "wsend", timeout) /\ UNCHANGED <<dque, skipped>>
    <3>1. Enter /\ UNCHANGED <<otherVars, untouched>>
      BY <1>1, <2>2 DEF tn_queue_send, otherVars, restVars
    <3>2. "wsend" \in WaitReasons /\ SendQueue # ReceiveQueue /\ SendQueue # MemQueue
      BY DqueAssumption, BuffersAssumption DEF WaitReasons
    <3> QED BY <1>0, <2>2, <3>1, <3>2, BuffersBlock
  <2> QED BY <1>1, <2>1, <2>2 DEF tn_queue_send
<1>2. ASSUME NEW d, tn_queue_send_polling(d) \/ tn_queue_isend_polling(d)
      PROVE  BuffersOK'
  <2>1. /\ (Enter /\ Send(d)) \/ (IrqEnabled /\ ISend(d))
        /\ UNCHANGED <<restVars, call, free_list>>
    BY <1>0, <1>2 DEF tn_queue_send_polling, tn_queue_isend_polling
  <2> QED BY <2>1, BuffersSend
<1>3. ASSUME SendReturn \/ ReceiveReturn PROVE BuffersOK'
  BY <1>0, <1>3, BuffersReturn DEF SendReturn, ReceiveReturn, dqueVars
<1>4. ASSUME NEW timeout \in Timeouts, tn_queue_receive(timeout)
      PROVE  BuffersOK'
  <2>1. CASE Receive /\ UNCHANGED call
    <3>1. Enter /\ UNCHANGED <<restVars, call, free_list>>
      BY <1>0, <1>4, <2>1 DEF tn_queue_receive
    <3> QED BY <2>1, <3>1, BuffersReceive
  <2>2. CASE ~Available /\ Block(ReceiveQueue, "wreceive", timeout) /\ UNCHANGED <<dque, skipped>>
    <3>1. Enter /\ UNCHANGED <<otherVars, untouched>>
      BY <1>4, <2>2 DEF tn_queue_receive, otherVars, restVars
    <3>2. /\ "wreceive" \in WaitReasons /\ SendQueue # ReceiveQueue /\ ReceiveQueue # MemQueue
          /\ sys.wait[SendQueue] = <<>> /\ FifoEmpty(dque)
      BY <2>2, DqueAssumption, BuffersAssumption DEF WaitReasons, Available
    <3> QED BY <1>0, <2>2, <3>1, <3>2, BuffersBlock
  <2> QED BY <1>4, <2>1, <2>2 DEF tn_queue_receive
<1>5. ASSUME tn_queue_receive_polling \/ tn_queue_ireceive PROVE BuffersOK'
  <2>1. /\ (Enter /\ Receive) \/ (IrqEnabled /\ IReceive)
        /\ UNCHANGED <<restVars, call, free_list>>
    BY <1>0, <1>5 DEF tn_queue_receive_polling, tn_queue_ireceive
  <2> QED BY <2>1, BuffersReceive
<1>6. ASSUME tn_queue_delete PROVE BuffersOK'
  <2>1. /\ Place("delete", ReceiveQueue) \in Places /\ Place("delete", ReceiveQueue).at = "delete"
        /\ Place("finish", ReceiveQueue) \in Places /\ Place("finish", ReceiveQueue).at = "finish"
    BY <1>0 DEF Place, Places
  <2>2. UNCHANGED dque
    BY <1>6 DEF tn_queue_delete, dqueVars
  <2>3. \/ DeleteBegin(SendQueue)
        \/ /\ UNCHANGED transferVars
           /\ \/ DeleteCheck(SendQueue, Place("delete", ReceiveQueue))
              \/ DeleteRemove(SendQueue)
              \/ DeleteCheck(ReceiveQueue, Place("finish", ReceiveQueue))
              \/ DeleteRemove(ReceiveQueue)
              \/ DeleteFinish(ReceiveQueue)
    BY <1>6 DEF tn_queue_delete
  <2> QED BY <1>0, <2>1, <2>2, <2>3, BuffersDelete
<1> QED
  BY <1>1, <1>2, <1>3, <1>4, <1>5, <1>6 DEF QueueStep


(* The steps of the memory pool                                            *)
LEMMA MemStepOK ==
    ASSUME BuffersOK, MemStep
    PROVE  BuffersOK'
<1>0. /\ UNCHANGED dque /\ MemQueue \in WaitQueues /\ CallsInv /\ FifoOK(dque)
  BY MemAssumption DEF MemStep, dqueVars, BuffersOK
<1>1. ASSUME GetFree, UNCHANGED <<otherVars, transferVars>> PROVE BuffersOK'
  <2>1. UNCHANGED <<vars, call, untouched>> /\ free_list # <<>>
    BY <1>1 DEF GetFree, otherVars, transferVars, vars
  <2>2. untouched => sys.wait[MemQueue] = <<>>
    BY <2>1 DEF BuffersOK, FreeOK
  <2>3. untouched => VainOK(sys, dque') /\ FreeOK(sys, free_list')
    BY <1>0, <2>2 DEF BuffersOK, FreeOK
  <2> QED BY <1>0, <2>1, <2>3, BuffersStill
<1>2. ASSUME NEW timeout \in Timeouts, tn_fmem_get(timeout) PROVE BuffersOK'
  <2>1. CASE GetFree
    BY <1>1, <1>2, <2>1 DEF tn_fmem_get
  <2>2. CASE free_list = <<>> /\ Block(MemQueue, "wfixmem", timeout) /\ UNCHANGED free_list
    <3>1. Enter /\ UNCHANGED <<otherVars, untouched>>
      BY <1>2 DEF tn_fmem_get, transferVars
    <3>2. "wfixmem" \in WaitReasons /\ MemQueue # ReceiveQueue /\ MemQueue # SendQueue
      BY BuffersAssumption DEF WaitReasons
    <3> QED BY <1>0, <2>2, <3>1, <3>2, BuffersBlock
  <2> QED BY <1>2, <2>1, <2>2 DEF tn_fmem_get
<1>3. ASSUME GetReturn PROVE BuffersOK'
  BY <1>0, <1>3, BuffersReturn DEF GetReturn, memVars
<1>4. ASSUME tn_fmem_get_polling \/ tn_fmem_get_ipolling PROVE BuffersOK'
  BY <1>1, <1>4 DEF tn_fmem_get_polling, tn_fmem_get_ipolling
<1>5. ASSUME NEW d, tn_fmem_release(d) \/ tn_fmem_irelease(d) PROVE BuffersOK'
  <2>1. UNCHANGED <<masked, created, revived, slices, booted, cursor, scanning, untouched, call>>
    BY <1>5 DEF tn_fmem_release, tn_fmem_irelease, restMemVars
  <2>2. CASE PutFree(d)
    <3>1. UNCHANGED <<vars, call, untouched>> /\ sys.wait[MemQueue] = <<>>
      BY <2>1, <2>2 DEF PutFree, vars
    <3>2. untouched => VainOK(sys, dque') /\ FreeOK(sys, free_list')
      BY <1>0, <3>1 DEF BuffersOK, FreeOK
    <3> QED BY <1>0, <3>1, <3>2, BuffersStill
  <2>3. CASE /\ sys.wait[MemQueue] # <<>> /\ UNCHANGED free_list
             /\ (Enter /\ ReleaseHead(MemQueue)) \/ (IrqEnabled /\ IReleaseHead(MemQueue))
    <3>1. CallsInv' /\ EmptyStays(sys') /\ (MaskOK => MaskOK')
      BY <1>0, <2>1, <2>3, ReleaseEither
    <3>2. VainOK(sys, dque) => VainOK(sys', dque')
      BY <1>0, <3>1, VainLess
    <3> QED BY <1>0, <2>1, <2>3, <3>1, <3>2, BuffersLess
  <2> QED BY <1>5, <2>2, <2>3 DEF tn_fmem_release, tn_fmem_irelease, GiveHead
<1>6. ASSUME tn_fmem_delete PROVE BuffersOK'
  <2>1. Place("finish", MemQueue) \in Places /\ Place("finish", MemQueue).at = "finish"
    BY <1>0 DEF Place, Places
  <2>2. \/ DeleteBegin(MemQueue)
        \/ /\ UNCHANGED transferVars
           /\ \/ DeleteCheck(MemQueue, Place("finish", MemQueue))
              \/ DeleteRemove(MemQueue)
              \/ DeleteFinish(MemQueue)
    BY <1>6 DEF tn_fmem_delete
  <2> QED BY <1>0, <2>1, <2>2, BuffersDelete
<1> QED
  BY <1>1, <1>2, <1>3, <1>4, <1>5, <1>6 DEF MemStep

LEMMA BuffersInitOK ==
    ASSUME BuffersInit
    PROVE  BuffersOK
<1>1. /\ CallsInv /\ MaskOK
      /\ sys.wait[SendQueue] = <<>> /\ sys.wait[ReceiveQueue] = <<>>
      /\ sys.wait[MemQueue] = <<>>
  BY InitCalls, DqueAssumption, MemAssumption DEF BuffersInit, TransferInit
<1>2. \A t \in Tasks : call[t].at = "none"
  BY DEF BuffersInit, TransferInit, CallsInit, Outside
<1>3. FifoOK(dque)
  BY DqueAssumption DEF BuffersInit, DqueInit, FifoOK
<1>4. VainOK(sys, dque) /\ FreeOK(sys, free_list)
  BY <1>1 DEF VainOK, FreeOK
<1> QED
  BY <1>1, <1>2, <1>3, <1>4 DEF BuffersOK

(* Every step of the queue, the pool, their users and the kernel preserves *)
(* the invariant.                                                          *)
LEMMA BuffersNextOK ==
    ASSUME BuffersOK,
           [BuffersNext]_<<vars, call, transferVars, dqueVars, memVars, held>>
    PROVE  BuffersOK'
<1>0. CallsInv /\ FifoOK(dque)
  BY DEF BuffersOK
<1>1. CASE KernelStep /\ UNCHANGED <<transferVars, dqueVars, memVars, held>>
  <2>1. CallsInv' /\ call' = call
    BY <1>0, <1>1, KernelCalls
  <2>2. EmptyStays(sys')
    BY <1>0, <1>1, KernelEmpty DEF EmptyStays
  <2>3. SliceInRange /\ MaskOK => MaskOK'
    BY <1>0, <1>1, KernelMask DEF MaskOK
  <2>4. UNCHANGED <<untouched, free_list, dque>>
    BY <1>1 DEF transferVars, dqueVars, memVars
  <2>5. VainOK(sys, dque) => VainOK(sys', dque')
    BY <2>2, <2>4, VainLess
  <2>6. untouched => FreeOK(sys', free_list')
    BY <2>2, <2>4, MemAssumption DEF BuffersOK, FreeOK, EmptyStays
  <2> QED BY <1>0, <2>1, <2>3, <2>4, <2>5, <2>6 DEF BuffersOK
<1>2. CASE UNCHANGED <<vars, call, transferVars, dqueVars, memVars, held>>
  <2>1. UNCHANGED <<vars, call, untouched, dque, free_list>>
    BY <1>2 DEF transferVars, dqueVars, memVars
  <2>2. untouched => VainOK(sys, dque') /\ FreeOK(sys, free_list')
    BY <2>1 DEF BuffersOK
  <2> QED BY <1>0, <2>1, <2>2, BuffersStill
<1> QED
  BY <1>1, <1>2, QueueStepOK, MemStepOK DEF BuffersNext

(* The inductive invariant of TNBuffers holds in every state, for every    *)
(* set of tasks and every size of the queue and of the pool.               *)
THEOREM BuffersInvariance ==
    BuffersSpec => []BuffersOK
<1>1. BuffersInit => BuffersOK
  BY BuffersInitOK
<1>2. BuffersOK /\ [BuffersNext]_<<vars, call, transferVars, dqueVars, memVars, held>>
        => BuffersOK'
  BY BuffersNextOK
<1> QED
  BY <1>1, <1>2, PTL DEF BuffersSpec

(* A task waits in tn_queue_receive only while nothing is in the FIFO and  *)
(* nobody waits to send, and in tn_queue_send only while the FIFO is full. *)
THEOREM QueueNeverInVain ==
    BuffersSpec => []NobodyWaitsInVain
<1>1. BuffersOK => NobodyWaitsInVain
  <2> SUFFICES ASSUME BuffersOK, untouched
               PROVE  /\ sys.wait[ReceiveQueue] # <<>> => Pipe = <<>>
                      /\ sys.wait[SendQueue] # <<>> => FifoFull(dque)
    BY DEF NobodyWaitsInVain
  <2>1. FifoOK(dque) /\ VainOK(sys, dque)
    BY DEF BuffersOK
  <2>2. ASSUME sys.wait[ReceiveQueue] # <<>> PROVE Pipe = <<>>
    <3>1. FifoEmpty(dque) /\ sys.wait[SendQueue] = <<>>
      BY <2>1, <2>2 DEF VainOK
    <3> QED BY <2>1, <3>1, PipeEmpty
  <2> QED BY <2>1, <2>2 DEF VainOK
<1> QED
  BY <1>1, BuffersInvariance, PTL

(* A task waits in tn_fmem_get only while no block is free.                *)
THEOREM PoolNeverInVain ==
    BuffersSpec => []NobodyWaitsForFree
<1>1. BuffersOK => NobodyWaitsForFree
  BY DEF BuffersOK, FreeOK, NobodyWaitsForFree
<1> QED
  BY <1>1, BuffersInvariance, PTL

(* tn_queue_delete and tn_fmem_delete enable the interrupts they disabled. *)
THEOREM BuffersEnableInterrupts ==
    ASSUME SliceInRange
    PROVE  BuffersSpec => []DeleteUnmasks
<1>1. BuffersOK => DeleteUnmasks
  BY DEF BuffersOK, MaskOK, DeleteUnmasks
<1> QED
  BY <1>1, BuffersInvariance, PTL

-----------------------------------------------------------------------------
(***************************************************************************)
(* The memory pool and the data queue implement BufferFlow, for any number *)
(* of tasks and blocks and any size of the queue.                          *)
(***************************************************************************)

-----------------------------------------------------------------------------
(* The storage FIFO as a sequence                                          *)

(* The remainder of a number that is at most one round off                 *)
LEMMA Remainder ==
    ASSUME NEW n \in Nat, n > 0, NEW x \in Int
    PROVE  /\ 0 <= x /\ x < n => x % n = x
           /\ n <= x /\ x < 2 * n => x % n = x - n
           /\ 0 - n <= x /\ x < 0 => x % n = x + n
<1>1. ASSUME 0 <= x, x < n PROVE x % n = x
  BY <1>1
<1>2. ASSUME n <= x, x < 2 * n PROVE x % n = x - n
  BY <1>2
<1>3. ASSUME 0 - n <= x, x < 0 PROVE x % n = x + n
  BY <1>3
<1> QED
  BY <1>1, <1>2, <1>3

Values == Data \cup {NoData}

(* The FIFO is a ring of data elements.                                    *)
RingOK(f) == FifoOK(f) /\ f.data_fifo \in [0 .. num_entries - 1 -> Values]

(* The entry that holds the i-th oldest element                            *)
Slot(f, i) ==
    IF f.tail_cnt + i - 1 < num_entries THEN f.tail_cnt + i - 1
    ELSE f.tail_cnt + i - 1 - num_entries

(* How many elements there are, and where they are                         *)
LEMMA FifoIs ==
    ASSUME NEW f, RingOK(f)
    PROVE  /\ FifoLen(f) \in Nat
           /\ num_entries > 0 =>
                FifoLen(f) = IF f.header_cnt >= f.tail_cnt
                             THEN f.header_cnt - f.tail_cnt
                             ELSE f.header_cnt - f.tail_cnt + num_entries
           /\ FifoEmpty(f) <=> FifoLen(f) = 0
           /\ FifoFull(f) <=> FifoLen(f) = FifoCapacity
           /\ FifoContents(f) \in Seq(Values)
           /\ Len(FifoContents(f)) = FifoLen(f)
           /\ \A i \in 1 .. FifoLen(f) :
                 /\ Slot(f, i) \in 0 .. num_entries - 1
                 /\ FifoContents(f)[i] = f.data_fifo[Slot(f, i)]
<1>0. /\ num_entries \in Nat /\ f.header_cnt \in Nat /\ f.tail_cnt \in Nat
      /\ num_entries > 0 => f.header_cnt < num_entries /\ f.tail_cnt < num_entries
      /\ f.data_fifo \in [0 .. num_entries - 1 -> Values]
  BY DqueAssumption DEF RingOK, FifoOK
<1>1. num_entries > 0 =>
        FifoLen(f) = IF f.header_cnt >= f.tail_cnt
                     THEN f.header_cnt - f.tail_cnt
                     ELSE f.header_cnt - f.tail_cnt + num_entries
  <2> DEFINE x == f.header_cnt - f.tail_cnt
  <2>1. x \in Int /\ (num_entries > 0 => 0 - num_entries <= x /\ x < num_entries)
    BY <1>0
  <2>2. num_entries > 0 => x % num_entries = IF x >= 0 THEN x ELSE x + num_entries
    <3> HIDE DEF x
    <3> QED BY <1>0, <2>1, Remainder, SMTT(60)
  <2>3. x >= 0 <=> f.header_cnt >= f.tail_cnt
    BY <1>0
  <2> QED BY <1>0, <2>2, <2>3 DEF FifoLen
<1>2. num_entries = 0 => FifoLen(f) = 0
  BY DEF FifoLen
<1>3. FifoLen(f) \in Nat /\ FifoLen(f) <= FifoCapacity
  BY <1>0, <1>1, <1>2 DEF FifoCapacity
<1>4. FifoEmpty(f) <=> FifoLen(f) = 0
  BY <1>0, <1>1, <1>2 DEF FifoEmpty
<1>5. FifoFull(f) <=> FifoLen(f) = FifoCapacity
  BY <1>0, <1>1, <1>2 DEF FifoFull, FifoCapacity
<1>6. ASSUME NEW i \in 1 .. FifoLen(f)
      PROVE  /\ Slot(f, i) \in 0 .. num_entries - 1
             /\ (f.tail_cnt + i - 1) % num_entries = Slot(f, i)
  <2> DEFINE x == f.tail_cnt + i - 1
  <2>1. num_entries > 0 /\ i \in Nat /\ i > 0 /\ i < num_entries
    BY <1>0, <1>2, <1>3 DEF FifoCapacity
  <2>2. x \in Int /\ 0 <= x /\ x < 2 * num_entries
    BY <1>0, <2>1
  <2>3. Slot(f, i) = IF x < num_entries THEN x ELSE x - num_entries
    BY <1>0, <2>1 DEF Slot
  <2> HIDE DEF x
  <2>4. x % num_entries = IF x < num_entries THEN x ELSE x - num_entries
    BY <1>0, <2>1, <2>2, Remainder
  <2>5. Slot(f, i) \in 0 .. num_entries - 1
    BY <1>0, <2>1, <2>2, <2>3
  <2> QED BY <2>3, <2>4, <2>5 DEF x
<1>7. FifoContents(f) = [i \in 1 .. FifoLen(f) |-> f.data_fifo[Slot(f, i)]]
  BY <1>6 DEF FifoContents
<1>8. \A i \in 1 .. FifoLen(f) : f.data_fifo[Slot(f, i)] \in Values
  BY <1>0, <1>6
<1> DEFINE c == [i \in 1 .. FifoLen(f) |-> f.data_fifo[Slot(f, i)]]
<1>9. c \in Seq(Values) /\ Len(c) = FifoLen(f)
  <2>1. c \in [1 .. FifoLen(f) -> Values]
    BY <1>8
  <2> HIDE DEF c
  <2> QED BY <1>3, <2>1
<1> QED
  BY <1>1, <1>3, <1>4, <1>5, <1>6, <1>7, <1>9

(* What is written is the newest element.                                  *)
LEMMA WriteIs ==
    ASSUME NEW f, RingOK(f), ~FifoFull(f), NEW d \in Values
    PROVE  /\ RingOK(dque_fifo_write(f, d))
           /\ FifoContents(dque_fifo_write(f, d)) = Append(FifoContents(f), d)
<1> DEFINE g == dque_fifo_write(f, d)
<1>0. /\ num_entries \in Nat /\ num_entries > 0 /\ f.header_cnt \in Nat /\ f.tail_cnt \in Nat
      /\ f.header_cnt < num_entries /\ f.tail_cnt < num_entries
      /\ f.data_fifo \in [0 .. num_entries - 1 -> Values]
      /\ DOMAIN f = {"data_fifo", "header_cnt", "tail_cnt"}
  BY DqueAssumption DEF RingOK, FifoOK, FifoFull
<1>1. /\ g.data_fifo = [f.data_fifo EXCEPT ![f.header_cnt] = d]
      /\ g.tail_cnt = f.tail_cnt /\ g.header_cnt = Wrap(f.header_cnt + 1)
  BY <1>0 DEF dque_fifo_write
<1>2. RingOK(g)
  <2>1. FifoOK(g)
    BY FifoSteps DEF RingOK
  <2>2. g.data_fifo \in [0 .. num_entries - 1 -> Values]
    BY <1>0, <1>1
  <2> QED BY <2>1, <2>2 DEF RingOK
<1> HIDE DEF g
<1>3. FifoLen(g) = FifoLen(f) + 1 /\ FifoLen(f) \in Nat
  <2>1. ~(f.tail_cnt = 0 /\ f.header_cnt = num_entries - 1) /\ f.header_cnt # f.tail_cnt - 1
    BY DEF FifoFull
  <2>2. FifoLen(f) = IF f.header_cnt >= f.tail_cnt
                     THEN f.header_cnt - f.tail_cnt
                     ELSE f.header_cnt - f.tail_cnt + num_entries
    BY <1>0, FifoIs
  <2>3. FifoLen(g) = IF g.header_cnt >= g.tail_cnt
                     THEN g.header_cnt - g.tail_cnt
                     ELSE g.header_cnt - g.tail_cnt + num_entries
    BY <1>0, <1>2, FifoIs
  <2>4. g.tail_cnt = f.tail_cnt
    BY <1>1
  <2>5. g.header_cnt = IF f.header_cnt + 1 >= num_entries THEN 0 ELSE f.header_cnt + 1
    BY <1>1 DEF Wrap
  <2> QED BY <1>0, <2>1, <2>2, <2>3, <2>4, <2>5
<1>4. ASSUME NEW i \in 1 .. FifoLen(f) PROVE FifoContents(g)[i] = FifoContents(f)[i]
  <2>1. Slot(g, i) = Slot(f, i) /\ Slot(f, i) \in 0 .. num_entries - 1
    BY <1>1, FifoIs DEF Slot
  <2>2. Slot(f, i) # f.header_cnt
    <3>1. FifoLen(f) = IF f.header_cnt >= f.tail_cnt
                       THEN f.header_cnt - f.tail_cnt
                       ELSE f.header_cnt - f.tail_cnt + num_entries
      BY <1>0, FifoIs
    <3> QED BY <1>0, <3>1 DEF Slot
  <2>3. FifoContents(g)[i] = g.data_fifo[Slot(g, i)]
    BY <1>2, <1>3, FifoIs
  <2>4. FifoContents(f)[i] = f.data_fifo[Slot(f, i)]
    BY FifoIs
  <2> QED BY <1>0, <1>1, <2>1, <2>2, <2>3, <2>4
<1>5. FifoContents(g)[FifoLen(f) + 1] = d
  <2>1. FifoLen(f) = IF f.header_cnt >= f.tail_cnt
                     THEN f.header_cnt - f.tail_cnt
                     ELSE f.header_cnt - f.tail_cnt + num_entries
    BY <1>0, FifoIs
  <2>2. Slot(g, FifoLen(f) + 1) = f.header_cnt
    BY <1>0, <1>1, <2>1 DEF Slot
  <2>3. FifoContents(g)[FifoLen(f) + 1] = g.data_fifo[Slot(g, FifoLen(f) + 1)]
    BY <1>2, <1>3, FifoIs
  <2> QED BY <1>0, <1>1, <2>2, <2>3
<1> DEFINE a == FifoContents(g)
           b == Append(FifoContents(f), d)
<1>6. /\ a \in Seq(Values) /\ Len(a) = FifoLen(f) + 1
  BY <1>2, <1>3, FifoIs
<1>7. /\ b \in Seq(Values) /\ Len(b) = FifoLen(f) + 1
      /\ \A i \in 1 .. FifoLen(f) : b[i] = FifoContents(f)[i]
      /\ b[FifoLen(f) + 1] = d
  BY FifoIs, AppendProperties
<1>8. \A i \in 1 .. Len(a) : a[i] = b[i]
  BY <1>3, <1>4, <1>5, <1>6, <1>7
<1>9. a = b
  <2> HIDE DEF a, b
  <2> QED BY <1>6, <1>7, <1>8, SeqEqual
<1> QED
  BY <1>2, <1>9 DEF g

(* What is read is the oldest element.                                     *)
LEMMA ReadIs ==
    ASSUME NEW f, RingOK(f), ~FifoEmpty(f)
    PROVE  /\ RingOK(dque_fifo_read(f))
           /\ ~FifoFull(dque_fifo_read(f))
           /\ FifoContents(f) # <<>>
           /\ FifoContents(dque_fifo_read(f)) = Tail(FifoContents(f))
           /\ FifoHead(f) = FifoContents(f)[1]
<1> DEFINE g == dque_fifo_read(f)
<1>0. /\ num_entries \in Nat /\ num_entries > 0 /\ f.header_cnt \in Nat /\ f.tail_cnt \in Nat
      /\ f.header_cnt < num_entries /\ f.tail_cnt < num_entries
      /\ f.data_fifo \in [0 .. num_entries - 1 -> Values]
      /\ DOMAIN f = {"data_fifo", "header_cnt", "tail_cnt"}
      /\ f.tail_cnt # f.header_cnt
  BY DqueAssumption DEF RingOK, FifoOK, FifoEmpty
<1>1. /\ g.data_fifo = f.data_fifo /\ g.header_cnt = f.header_cnt
      /\ g.tail_cnt = Wrap(f.tail_cnt + 1)
  BY <1>0 DEF dque_fifo_read
<1>2. RingOK(g)
  <2>1. FifoOK(g)
    BY FifoSteps DEF RingOK
  <2> QED BY <1>0, <1>1, <2>1 DEF RingOK
<1> HIDE DEF g
<1>3. /\ FifoLen(f) = IF f.header_cnt >= f.tail_cnt
                      THEN f.header_cnt - f.tail_cnt
                      ELSE f.header_cnt - f.tail_cnt + num_entries
      /\ FifoLen(g) = FifoLen(f) - 1 /\ FifoLen(f) \in Nat /\ FifoLen(f) > 0
  <2>1. FifoLen(f) = IF f.header_cnt >= f.tail_cnt
                     THEN f.header_cnt - f.tail_cnt
                     ELSE f.header_cnt - f.tail_cnt + num_entries
    BY <1>0, FifoIs
  <2>2. FifoLen(g) = IF g.header_cnt >= g.tail_cnt
                     THEN g.header_cnt - g.tail_cnt
                     ELSE g.header_cnt - g.tail_cnt + num_entries
    BY <1>0, <1>2, FifoIs
  <2> QED BY <1>0, <1>1, <2>1, <2>2 DEF Wrap
<1>4. ASSUME NEW i \in 1 .. FifoLen(f) - 1 PROVE FifoContents(g)[i] = FifoContents(f)[i + 1]
  <2>1. Slot(g, i) = Slot(f, i + 1)
    BY <1>0, <1>1, <1>3, SMTT(60) DEF Slot, Wrap
  <2>2. i \in 1 .. FifoLen(g) /\ i + 1 \in 1 .. FifoLen(f)
    BY <1>3
  <2>3. FifoContents(g)[i] = g.data_fifo[Slot(g, i)]
    BY <1>2, <2>2, FifoIs
  <2>4. FifoContents(f)[i + 1] = f.data_fifo[Slot(f, i + 1)]
    BY <2>2, FifoIs
  <2> QED BY <1>1, <2>1, <2>3, <2>4
<1>5. FifoHead(f) = FifoContents(f)[1]
  <2>1. Slot(f, 1) = f.tail_cnt /\ 1 \in 1 .. FifoLen(f)
    BY <1>0, <1>3 DEF Slot
  <2> QED BY <2>1, FifoIs DEF FifoHead
<1> DEFINE a == FifoContents(g)
           c == FifoContents(f)
           b == Tail(c)
<1>6. /\ a \in Seq(Values) /\ Len(a) = FifoLen(f) - 1
      /\ c \in Seq(Values) /\ Len(c) = FifoLen(f)
  BY <1>2, <1>3, FifoIs
<1>7. c # <<>>
  BY <1>3, <1>6, EmptySeq
<1>8. /\ b \in Seq(Values) /\ Len(b) = FifoLen(f) - 1
      /\ \A i \in 1 .. FifoLen(f) - 1 : b[i] = c[i + 1]
  <2> HIDE DEF c
  <2> QED BY <1>6, <1>7, HeadTailProperties
<1>9. a = b
  <2>1. \A i \in 1 .. Len(a) : a[i] = b[i]
    BY <1>4, <1>6, <1>8
  <2> HIDE DEF a, b
  <2> QED BY <1>6, <1>8, <2>1, SeqEqual
<1>10. ~FifoFull(g)
  BY <1>0, <1>1, <1>3 DEF FifoFull, Wrap
<1> QED
  BY <1>2, <1>5, <1>7, <1>9, <1>10 DEF g
-----------------------------------------------------------------------------
(* The pipe: the FIFO f, and the elements e of the waiting senders s       *)

Elems(s, e) == [i \in 1 .. Len(s) |-> e[s[i]]]

PipeOf(f, s, e) == FifoContents(f) \o Elems(s, e)

LEMMA PipeIs ==
    ASSUME NEW f, RingOK(f), NEW s \in Seq(Tasks), NEW e \in [Tasks -> Values]
    PROVE  /\ Elems(s, e) \in Seq(Values) /\ Len(Elems(s, e)) = Len(s)
           /\ PipeOf(f, s, e) \in Seq(Values)
           /\ Len(s) \in Nat
           /\ Len(PipeOf(f, s, e)) = FifoLen(f) + Len(s)
           /\ \A i \in 1 .. FifoLen(f) : PipeOf(f, s, e)[i] = FifoContents(f)[i]
           /\ \A i \in 1 .. Len(s) : PipeOf(f, s, e)[FifoLen(f) + i] = e[s[i]]
<1> DEFINE x == Elems(s, e)
           c == FifoContents(f)
           n == FifoLen(f)
<1>0. Len(s) \in Nat /\ \A i \in 1 .. Len(s) : s[i] \in Tasks
  BY LenProperties, ElementOfSeq
<1>1. x \in Seq(Values) /\ Len(x) = Len(s) /\ \A i \in 1 .. Len(s) : x[i] = e[s[i]]
  <2>1. x \in [1 .. Len(s) -> Values] /\ \A i \in 1 .. Len(s) : x[i] = e[s[i]]
    BY <1>0 DEF Elems
  <2> HIDE DEF x
  <2> QED BY <1>0, <2>1
<1>2. c \in Seq(Values) /\ Len(c) = n /\ n \in Nat
  BY FifoIs
<1> DEFINE y == c \o x
<1> HIDE DEF x, c, n
<1>3. /\ y \in Seq(Values)
      /\ Len(y) = n + Len(s)
      /\ \A i \in 1 .. n + Len(s) :
           y[i] = IF i <= n THEN c[i] ELSE x[i - n]
  <2>1. /\ y \in Seq(Values)
        /\ Len(y) = Len(c) + Len(x)
        /\ \A i \in 1 .. Len(c) + Len(x) :
             y[i] = IF i <= Len(c) THEN c[i] ELSE x[i - Len(c)]
    BY <1>1, <1>2, ConcatProperties
  <2> HIDE DEF y
  <2> QED BY <1>1, <1>2, <2>1
<1> HIDE DEF y
<1>4. \A i \in 1 .. n : y[i] = c[i]
  BY <1>0, <1>2, <1>3
<1>5. ASSUME NEW i \in 1 .. Len(s) PROVE y[n + i] = e[s[i]]
  <2>1. n + i \in 1 .. n + Len(s) /\ ~(n + i <= n) /\ (n + i) - n = i
    BY <1>0, <1>2
  <2>2. y[n + i] = x[i]
    BY <1>3, <2>1
  <2> QED BY <1>1, <2>2
<1> QED
  BY <1>0, <1>1, <1>3, <1>4, <1>5 DEF PipeOf, x, c, n, y

(* Two pipes are equal if they have the same elements.                     *)
LEMMA PipeSame ==
    ASSUME NEW f, RingOK(f), NEW s \in Seq(Tasks), NEW e \in [Tasks -> Values],
           NEW r \in [Tasks -> Values], \A i \in 1 .. Len(s) : r[s[i]] = e[s[i]]
    PROVE  PipeOf(f, s, r) = PipeOf(f, s, e)
BY DEF PipeOf, Elems

(* An element goes into the FIFO, while no sender waits.                   *)
LEMMA PipeStore ==
    ASSUME NEW f, RingOK(f), ~FifoFull(f), NEW d \in Values, NEW e
    PROVE  PipeOf(dque_fifo_write(f, d), <<>>, e) = Append(PipeOf(f, <<>>, e), d)
<1> DEFINE c == FifoContents(f)
           g == dque_fifo_write(f, d)
<1>1. Elems(<<>>, e) = <<>>
  BY DEF Elems
<1>2. c \in Seq(Values) /\ FifoContents(g) = Append(c, d) /\ Append(c, d) \in Seq(Values)
  BY FifoIs, WriteIs, AppendProperties
<1> HIDE DEF c, g
<1>3. c \o <<>> = c /\ Append(c, d) \o <<>> = Append(c, d)
  BY <1>2, ConcatEmptySeq
<1> QED
  BY <1>1, <1>2, <1>3 DEF PipeOf, c, g

(* An element leaves the FIFO, while no sender waits.                      *)
LEMMA PipeRead ==
    ASSUME NEW f, RingOK(f), ~FifoEmpty(f), NEW e
    PROVE  /\ PipeOf(dque_fifo_read(f), <<>>, e) = Tail(PipeOf(f, <<>>, e))
           /\ PipeOf(f, <<>>, e) # <<>> /\ Head(PipeOf(f, <<>>, e)) = FifoHead(f)
<1> DEFINE c == FifoContents(f)
           g == dque_fifo_read(f)
<1>1. Elems(<<>>, e) = <<>>
  BY DEF Elems
<1>2. c \in Seq(Values) /\ c # <<>> /\ FifoContents(g) = Tail(c) /\ FifoHead(f) = c[1]
  BY FifoIs, ReadIs
<1> HIDE DEF c, g
<1>3. Tail(c) \in Seq(Values) /\ Head(c) = c[1]
  BY <1>2, HeadTailProperties
<1>4. c \o <<>> = c /\ Tail(c) \o <<>> = Tail(c)
  BY <1>2, <1>3, ConcatEmptySeq
<1> QED
  BY <1>1, <1>2, <1>3, <1>4 DEF PipeOf, c, g

(* A sender starts to wait.                                                *)
LEMMA PipeBlock ==
    ASSUME NEW f, RingOK(f), NEW s \in Seq(Tasks), NEW e \in [Tasks -> Values],
           NEW t \in Tasks, \A i \in 1 .. Len(s) : s[i] # t, NEW d \in Values
    PROVE  PipeOf(f, Append(s, t), [e EXCEPT ![t] = d]) = Append(PipeOf(f, s, e), d)
<1> DEFINE r == [e EXCEPT ![t] = d]
           z == Append(s, t)
           a == PipeOf(f, z, r)
           p == PipeOf(f, s, e)
           b == Append(p, d)
           n == FifoLen(f)
<1>0. /\ r \in [Tasks -> Values] /\ r[t] = d /\ \A x \in Tasks \ {t} : r[x] = e[x]
      /\ n \in Nat
  BY FifoIs
<1>1. /\ z \in Seq(Tasks) /\ Len(z) = Len(s) + 1 /\ z[Len(s) + 1] = t
      /\ \A i \in 1 .. Len(s) : z[i] = s[i]
  BY AppendProperties
<1>2. Len(s) \in Nat /\ \A i \in 1 .. Len(s) : s[i] \in Tasks
  BY LenProperties, ElementOfSeq
<1> HIDE DEF r, z, n
<1>3. /\ a \in Seq(Values) /\ Len(a) = n + Len(s) + 1
      /\ \A i \in 1 .. n : a[i] = FifoContents(f)[i]
      /\ \A i \in 1 .. Len(z) : a[n + i] = r[z[i]]
  <2>1. /\ a \in Seq(Values) /\ Len(a) = n + Len(z)
        /\ \A i \in 1 .. n : a[i] = FifoContents(f)[i]
        /\ \A i \in 1 .. Len(z) : a[n + i] = r[z[i]]
    <3>1. z \in Seq(Tasks) /\ r \in [Tasks -> Values]
      BY <1>0, <1>1
    <3> QED BY <3>1, PipeIs, ZenonT(30) DEF n
  <2>2. Len(a) = n + Len(s) + 1
    BY <1>0, <1>1, <1>2, <2>1
  <2> QED BY <2>1, <2>2
<1>4. /\ p \in Seq(Values) /\ Len(p) = n + Len(s)
      /\ \A i \in 1 .. n : p[i] = FifoContents(f)[i]
      /\ \A i \in 1 .. Len(s) : p[n + i] = e[s[i]]
  BY PipeIs DEF n
<1> HIDE DEF a, p
<1>5. /\ b \in Seq(Values) /\ Len(b) = n + Len(s) + 1
      /\ \A i \in 1 .. n + Len(s) : b[i] = p[i]
      /\ b[n + Len(s) + 1] = d
  <2>1. /\ b \in Seq(Values) /\ Len(b) = Len(p) + 1
        /\ \A i \in 1 .. Len(p) : b[i] = p[i]
        /\ b[Len(p) + 1] = d
    BY <1>4, AppendProperties
  <2> QED BY <1>0, <1>2, <1>4, <2>1
<1> HIDE DEF b
<1>6. ASSUME NEW i \in 1 .. Len(a) PROVE a[i] = b[i]
  <2>1. CASE i <= n
    <3>1. i \in 1 .. n /\ i \in 1 .. n + Len(s)
      BY <2>1, <1>0, <1>2, <1>3
    <3> QED BY <3>1, <1>3, <1>4, <1>5
  <2>2. CASE i > n /\ i <= n + Len(s)
    <3>1. PICK k \in 1 .. Len(s) : i = n + k
      <4>1. i - n \in 1 .. Len(s) /\ i = n + (i - n)
        BY <2>2, <1>0, <1>2
      <4> QED BY <4>1
    <3>2. a[i] = r[z[k]] /\ z[k] = s[k] /\ k \in 1 .. Len(z)
      BY <3>1, <1>1, <1>2, <1>3
    <3>3. r[s[k]] = e[s[k]]
      BY <1>0, <1>2
    <3>4. b[i] = p[i] /\ p[i] = e[s[k]]
      BY <2>2, <3>1, <1>0, <1>2, <1>4, <1>5
    <3> QED BY <3>2, <3>3, <3>4
  <2>3. CASE i = n + Len(s) + 1
    <3>1. Len(s) + 1 \in 1 .. Len(z) /\ i = n + (Len(s) + 1)
      BY <2>3, <1>0, <1>1, <1>2
    <3>2. a[i] = r[z[Len(s) + 1]]
      BY <3>1, <1>3
    <3> QED BY <3>2, <2>3, <1>0, <1>1, <1>5
  <2> QED BY <2>1, <2>2, <2>3, <1>0, <1>2, <1>3
<1>7. a = b
  BY <1>3, <1>5, <1>6, SeqEqual
<1> QED
  BY <1>7 DEF a, b, z, r, p


(* The oldest element is received, and that of the first sender takes its  *)
(* place in the FIFO.                                                      *)
LEMMA PipeTurn ==
    ASSUME NEW f, RingOK(f), ~FifoEmpty(f), NEW s \in Seq(Tasks), s # <<>>,
           NEW e \in [Tasks -> Values], NEW v, v = e[Head(s)],
           NEW h, h = dque_fifo_write(dque_fifo_read(f), v)
    PROVE  /\ RingOK(h) /\ PipeOf(h, Tail(s), e) = Tail(PipeOf(f, s, e))
           /\ PipeOf(f, s, e) # <<>> /\ Head(PipeOf(f, s, e)) = FifoHead(f)
<1> DEFINE n == FifoLen(f)
           c == FifoContents(f)
           p == PipeOf(f, s, e)
           a == PipeOf(h, Tail(s), e)
           b == Tail(p)
<1>0. n \in Nat /\ n > 0 /\ c \in Seq(Values) /\ Len(c) = n
  BY FifoIs
<1>1. /\ Head(s) = s[1] /\ s[1] \in Tasks /\ v \in Values /\ v = e[s[1]]
      /\ Tail(s) \in Seq(Tasks) /\ Len(Tail(s)) = Len(s) - 1 /\ Len(s) \in Nat /\ Len(s) > 0
      /\ \A i \in 1 .. Len(s) - 1 : Tail(s)[i] = s[i + 1]
  BY EmptySeq, LenProperties, HeadTailProperties, ElementOfSeq
<1>2. RingOK(h) /\ FifoContents(h) = Append(Tail(c), v) /\ c # <<>> /\ FifoHead(f) = c[1]
  BY <1>1, ReadIs, WriteIs
<1> HIDE DEF n, c
<1>3. /\ FifoLen(h) = n
      /\ \A i \in 1 .. n - 1 : FifoContents(h)[i] = c[i + 1]
      /\ FifoContents(h)[n] = v
  <2>1. /\ Tail(c) \in Seq(Values) /\ Len(Tail(c)) = n - 1
        /\ \A i \in 1 .. n - 1 : Tail(c)[i] = c[i + 1]
    BY <1>0, <1>2, HeadTailProperties
  <2>2. /\ Len(Append(Tail(c), v)) = n
        /\ \A i \in 1 .. n - 1 : Append(Tail(c), v)[i] = Tail(c)[i]
        /\ Append(Tail(c), v)[n] = v
    <3> DEFINE z == Tail(c)
               y == Append(z, v)
    <3> HIDE DEF z
    <3>1. /\ Len(y) = Len(z) + 1 /\ \A i \in 1 .. Len(z) : y[i] = z[i]
          /\ y[Len(z) + 1] = v
      BY <2>1, <1>1, AppendProperties DEF z
    <3> HIDE DEF y
    <3>2. Len(y) = n /\ (\A i \in 1 .. n - 1 : y[i] = z[i]) /\ y[n] = v
      BY <1>0, <2>1, <3>1 DEF z
    <3> QED BY <3>2 DEF y, z
  <2>3. FifoLen(h) = Len(FifoContents(h))
    BY <1>2, FifoIs
  <2> QED BY <1>2, <2>1, <2>2, <2>3
<1>4. /\ p \in Seq(Values) /\ Len(p) = n + Len(s)
      /\ \A i \in 1 .. n : p[i] = c[i]
      /\ \A i \in 1 .. Len(s) : p[n + i] = e[s[i]]
  BY PipeIs DEF n, c
<1>5. /\ a \in Seq(Values) /\ Len(a) = n + (Len(s) - 1)
      /\ \A i \in 1 .. n : a[i] = FifoContents(h)[i]
      /\ \A i \in 1 .. Len(s) - 1 : a[n + i] = e[Tail(s)[i]]
  <2> DEFINE w == Tail(s)
  <2>1. w \in Seq(Tasks) /\ Len(w) = Len(s) - 1
    BY <1>1
  <2> HIDE DEF w
  <2>2. /\ PipeOf(h, w, e) \in Seq(Values) /\ Len(PipeOf(h, w, e)) = FifoLen(h) + Len(w)
        /\ \A i \in 1 .. FifoLen(h) : PipeOf(h, w, e)[i] = FifoContents(h)[i]
        /\ \A i \in 1 .. Len(w) : PipeOf(h, w, e)[FifoLen(h) + i] = e[w[i]]
    BY <1>2, <2>1, PipeIs, ZenonT(60)
  <2> QED BY <1>3, <2>1, <2>2 DEF w
<1> HIDE DEF p, a
<1>6. p # <<>>
  BY <1>0, <1>1, <1>4, EmptySeq
<1>7. /\ b \in Seq(Values) /\ Len(b) = Len(p) - 1 /\ Head(p) = p[1]
      /\ \A i \in 1 .. Len(b) : b[i] = p[i + 1]
  BY <1>4, <1>6, HeadTailProperties
<1> HIDE DEF b
<1>8. ASSUME NEW i \in 1 .. Len(a) PROVE a[i] = b[i]
  <2>0. i \in Nat /\ i > 0 /\ i <= n + Len(s) - 1 /\ b[i] = p[i + 1]
    BY <1>0, <1>1, <1>4, <1>5, <1>7
  <2>1. CASE i < n
    <3>1. i \in 1 .. n - 1 /\ i \in 1 .. n /\ i + 1 \in 1 .. n
      BY <2>0, <2>1, <1>0
    <3> QED BY <2>0, <3>1, <1>3, <1>4, <1>5
  <2>2. CASE i = n
    <3>1. i \in 1 .. n /\ i + 1 = n + 1 /\ 1 \in 1 .. Len(s)
      BY <2>2, <1>0, <1>1
    <3>2. a[i] = v
      BY <3>1, <2>2, <1>3, <1>5
    <3>3. p[i + 1] = e[s[1]]
      BY <3>1, <1>4
    <3> QED BY <2>0, <3>2, <3>3, <1>1
  <2>3. CASE i > n
    <3>1. PICK k \in 1 .. Len(s) - 1 : i = n + k
      <4>1. i - n \in 1 .. Len(s) - 1 /\ i = n + (i - n)
        BY <2>0, <2>3, <1>0, <1>1
      <4> QED BY <4>1
    <3>2. k + 1 \in 1 .. Len(s) /\ i + 1 = n + (k + 1)
      BY <3>1, <1>0, <1>1
    <3>3. a[i] = e[s[k + 1]]
      BY <3>1, <1>1, <1>5
    <3>4. p[i + 1] = e[s[k + 1]]
      BY <3>2, <1>4
    <3> QED BY <2>0, <3>3, <3>4
  <2> QED BY <2>0, <2>1, <2>2, <2>3, <1>0
<1>9. a = b
  <2>1. Len(a) = Len(b)
    BY <1>0, <1>1, <1>4, <1>5, <1>7
  <2> QED BY <2>1, <1>5, <1>7, <1>8, SeqEqual
<1>10. p[1] = c[1]
  BY <1>0, <1>4
<1> QED
  BY <1>2, <1>6, <1>7, <1>9, <1>10 DEF a, b, p

(* The element of the first sender is received from an empty FIFO.         *)
LEMMA PipeDirect ==
    ASSUME NEW f, RingOK(f), FifoEmpty(f), NEW s \in Seq(Tasks), s # <<>>,
           NEW e \in [Tasks -> Values]
    PROVE  /\ PipeOf(f, Tail(s), e) = Tail(PipeOf(f, s, e))
           /\ PipeOf(f, s, e) # <<>> /\ Head(PipeOf(f, s, e)) = e[Head(s)]
<1> DEFINE p == PipeOf(f, s, e)
           a == PipeOf(f, Tail(s), e)
           b == Tail(p)
<1>0. FifoLen(f) = 0
  BY FifoIs
<1>1. /\ Head(s) = s[1]
      /\ Tail(s) \in Seq(Tasks) /\ Len(Tail(s)) = Len(s) - 1 /\ Len(s) \in Nat /\ Len(s) > 0
      /\ \A i \in 1 .. Len(s) - 1 : Tail(s)[i] = s[i + 1]
  BY EmptySeq, LenProperties, HeadTailProperties
<1>2. /\ p \in Seq(Values) /\ Len(p) = Len(s)
      /\ \A i \in 1 .. Len(s) : p[i] = e[s[i]]
  <2>1. /\ p \in Seq(Values) /\ Len(p) = FifoLen(f) + Len(s)
        /\ \A i \in 1 .. Len(s) : p[FifoLen(f) + i] = e[s[i]]
    BY PipeIs
  <2> HIDE DEF p
  <2> QED BY <1>0, <1>1, <2>1
<1>3. /\ a \in Seq(Values) /\ Len(a) = Len(s) - 1
      /\ \A i \in 1 .. Len(s) - 1 : a[i] = e[Tail(s)[i]]
  <2> DEFINE w == Tail(s)
             y == PipeOf(f, w, e)
  <2>1. w \in Seq(Tasks) /\ Len(w) = Len(s) - 1
    BY <1>1
  <2> HIDE DEF w
  <2>2. /\ y \in Seq(Values) /\ Len(y) = FifoLen(f) + Len(w)
        /\ \A i \in 1 .. Len(w) : y[FifoLen(f) + i] = e[w[i]]
    BY <2>1, PipeIs
  <2> HIDE DEF y
  <2>3. /\ y \in Seq(Values) /\ Len(y) = Len(s) - 1
        /\ \A i \in 1 .. Len(s) - 1 : y[i] = e[w[i]]
    BY <1>0, <1>1, <2>1, <2>2
  <2> QED BY <2>3 DEF w, y
<1> HIDE DEF p, a
<1>4. p # <<>>
  BY <1>1, <1>2, EmptySeq
<1>5. /\ b \in Seq(Values) /\ Len(b) = Len(p) - 1 /\ Head(p) = p[1]
      /\ \A i \in 1 .. Len(b) : b[i] = p[i + 1]
  BY <1>2, <1>4, HeadTailProperties
<1> HIDE DEF b
<1>6. a = b
  <2>1. Len(a) = Len(b) /\ \A i \in 1 .. Len(a) : a[i] = b[i]
    BY <1>1, <1>2, <1>3, <1>5
  <2> QED BY <2>1, <1>3, <1>5, SeqEqual
<1>7. p[1] = e[s[1]]
  BY <1>1, <1>2
<1> QED
  BY <1>1, <1>4, <1>5, <1>6, <1>7 DEF a, b, p

(* RemoveAt closes the gap it makes.                                       *)
LEMMA RemoveAtIs ==
    ASSUME NEW U, NEW q \in Seq(U), NEW j \in 1 .. Len(q)
    PROVE  /\ RemoveAt(q, j) \in Seq(U)
           /\ Len(RemoveAt(q, j)) = Len(q) - 1
           /\ \A i \in 1 .. Len(q) - 1 :
                RemoveAt(q, j)[i] = IF i < j THEN q[i] ELSE q[i + 1]
<1> DEFINE x == SubSeq(q, 1, j - 1)
           y == SubSeq(q, j + 1, Len(q))
           z == x \o y
<1>0. Len(q) \in Nat /\ j \in Nat /\ j >= 1 /\ j <= Len(q) /\ \A i \in 1 .. Len(q) : q[i] \in U
  BY LenProperties, ElementOfSeq
<1>1. /\ x \in Seq(U) /\ Len(x) = j - 1
      /\ \A i \in 1 .. j - 1 : x[i] = q[i]
  <2>1. 1 \in Int /\ j - 1 \in Int /\ \A i \in 1 .. j - 1 : q[i] \in U
    BY <1>0
  <2>2. /\ x \in Seq(U) /\ Len(x) = IF 1 <= j - 1 THEN (j - 1) - 1 + 1 ELSE 0
        /\ \A i \in 1 .. (j - 1) - 1 + 1 : x[i] = q[1 + i - 1]
    BY <2>1, SubSeqProperties
  <2> HIDE DEF x
  <2> QED BY <1>0, <2>2
<1>2. /\ y \in Seq(U) /\ Len(y) = Len(q) - j
      /\ \A i \in 1 .. Len(q) - j : y[i] = q[j + i]
  <2>1. j + 1 \in Int /\ Len(q) \in Int /\ \A i \in j + 1 .. Len(q) : q[i] \in U
    BY <1>0
  <2>2. /\ y \in Seq(U) /\ Len(y) = IF j + 1 <= Len(q) THEN Len(q) - (j + 1) + 1 ELSE 0
        /\ \A i \in 1 .. Len(q) - (j + 1) + 1 : y[i] = q[(j + 1) + i - 1]
    BY <2>1, SubSeqProperties
  <2> HIDE DEF y
  <2> QED BY <1>0, <2>2
<1> HIDE DEF x, y
<1>3. /\ z \in Seq(U) /\ Len(z) = Len(x) + Len(y)
      /\ \A i \in 1 .. Len(x) + Len(y) : z[i] = IF i <= Len(x) THEN x[i] ELSE y[i - Len(x)]
  BY <1>1, <1>2, ConcatProperties
<1> HIDE DEF z
<1>4. Len(z) = Len(q) - 1
  BY <1>0, <1>1, <1>2, <1>3
<1>5. ASSUME NEW i \in 1 .. Len(q) - 1 PROVE z[i] = IF i < j THEN q[i] ELSE q[i + 1]
  <2>1. z[i] = IF i <= Len(x) THEN x[i] ELSE y[i - Len(x)]
    BY <1>0, <1>1, <1>2, <1>3
  <2>2. CASE i < j
    BY <1>0, <1>1, <2>1, <2>2
  <2>3. CASE ~(i < j)
    <3>1. z[i] = y[i - (j - 1)] /\ i - (j - 1) \in 1 .. Len(q) - j /\ j + (i - (j - 1)) = i + 1
      BY <1>0, <1>1, <2>1, <2>3
    <3>2. z[i] = q[j + (i - (j - 1))]
      BY <1>2, <3>1
    <3> QED BY <2>3, <3>1, <3>2
  <2> QED BY <2>2, <2>3
<1> QED
  BY <1>3, <1>4, <1>5 DEF x, y, z, RemoveAt

(* A waiting sender takes its element back.                                *)
LEMMA PipeGap ==
    ASSUME NEW f, RingOK(f), NEW s \in Seq(Tasks), NEW e \in [Tasks -> Values],
           NEW k \in 1 .. Len(s), NEW r \in Seq(Tasks), Len(r) = Len(s) - 1,
           \A i \in 1 .. Len(s) - 1 : r[i] = IF i < k THEN s[i] ELSE s[i + 1]
    PROVE  /\ FifoLen(f) + k \in 1 .. Len(PipeOf(f, s, e))
           /\ PipeOf(f, s, e)[FifoLen(f) + k] = e[s[k]]
           /\ PipeOf(f, r, e) = RemoveAt(PipeOf(f, s, e), FifoLen(f) + k)
<1> DEFINE n == FifoLen(f)
           p == PipeOf(f, s, e)
           a == PipeOf(f, r, e)
           b == RemoveAt(p, n + k)
<1>0. n \in Nat /\ Len(s) \in Nat /\ k \in Nat /\ k >= 1 /\ k <= Len(s)
  BY FifoIs, LenProperties
<1>1. /\ p \in Seq(Values) /\ Len(p) = n + Len(s)
      /\ \A i \in 1 .. n : p[i] = FifoContents(f)[i]
      /\ \A i \in 1 .. Len(s) : p[n + i] = e[s[i]]
  BY PipeIs
<1>2. /\ a \in Seq(Values) /\ Len(a) = n + Len(r)
      /\ \A i \in 1 .. n : a[i] = FifoContents(f)[i]
      /\ \A i \in 1 .. Len(r) : a[n + i] = e[r[i]]
  BY PipeIs
<1> HIDE DEF n, p, a
<1>3. n + k \in 1 .. Len(p)
  BY <1>0, <1>1
<1>4. /\ b \in Seq(Values) /\ Len(b) = Len(p) - 1
      /\ \A i \in 1 .. Len(p) - 1 : b[i] = IF i < n + k THEN p[i] ELSE p[i + 1]
  BY <1>1, <1>3, RemoveAtIs
<1> HIDE DEF b
<1>5. ASSUME NEW i \in 1 .. Len(a) PROVE a[i] = b[i]
  <2>0. i \in Nat /\ i >= 1 /\ i <= n + Len(s) - 1
    BY <1>0, <1>2
  <2>1. b[i] = IF i < n + k THEN p[i] ELSE p[i + 1]
    BY <2>0, <1>0, <1>1, <1>4
  <2>2. CASE i <= n
    <3>1. i \in 1 .. n /\ i < n + k
      BY <2>0, <2>2, <1>0
    <3> QED BY <3>1, <2>1, <1>1, <1>2
  <2>3. CASE i > n
    <3>1. PICK j \in 1 .. Len(s) - 1 : i = n + j
      <4>1. i - n \in 1 .. Len(s) - 1 /\ i = n + (i - n)
        BY <2>0, <2>3, <1>0
      <4> QED BY <4>1
    <3>2. a[i] = e[IF j < k THEN s[j] ELSE s[j + 1]]
      BY <3>1, <1>2
    <3>3. /\ (i < n + k <=> j < k) /\ j \in 1 .. Len(s) /\ j + 1 \in 1 .. Len(s)
          /\ i + 1 = n + (j + 1)
      BY <3>1, <1>0
    <3>4. p[i] = e[s[j]] /\ p[i + 1] = e[s[j + 1]]
      BY <3>1, <3>3, <1>1
    <3> QED BY <2>1, <3>2, <3>3, <3>4
  <2> QED BY <2>0, <2>2, <2>3, <1>0
<1>6. a = b
  <2>1. Len(a) = Len(b)
    BY <1>0, <1>1, <1>2, <1>4
  <2> QED BY <2>1, <1>2, <1>4, <1>5, SeqEqual
<1>7. p[n + k] = e[s[k]]
  BY <1>1
<1> QED
  BY <1>3, <1>6, <1>7 DEF a, b, p, n


-----------------------------------------------------------------------------
(* Every block is in one place                                             *)

FlowPlaces == Tasks \cup {Isr, MemQueue}

(* As BufferFlow sees it: a block is with one user, in the pool, or once   *)
(* in the queue q.                                                         *)
OnePlace(w, q) ==
    /\ w \in [Data -> SUBSET FlowPlaces]
    /\ q \in Seq(Data) /\ Lists(q, {b \in Data : w[b] = {}})
    /\ \A b \in Data : w[b] # {} => \E x \in FlowPlaces : w[b] = {x}

LEMMA MoveAcross ==
    ASSUME NEW w, NEW q, OnePlace(w, q), NEW b \in Data, w[b] # {}, NEW y \in FlowPlaces
    PROVE  OnePlace([w EXCEPT ![b] = {y}], q)
<1> DEFINE v == [w EXCEPT ![b] = {y}]
<1>1. /\ v \in [Data -> SUBSET FlowPlaces] /\ v[b] = {y}
      /\ \A c \in Data \ {b} : v[c] = w[c]
  BY DEF OnePlace
<1> HIDE DEF v
<1>2. {c \in Data : v[c] = {}} = {c \in Data : w[c] = {}}
  BY <1>1
<1>3. \A c \in Data : v[c] # {} => \E x \in FlowPlaces : v[c] = {x}
  BY <1>1 DEF OnePlace
<1>4. OnePlace(v, q)
  BY <1>1, <1>2, <1>3 DEF OnePlace
<1> QED
  BY <1>4 DEF v

LEMMA MoveIn ==
    ASSUME NEW w, NEW q, OnePlace(w, q), NEW b \in Data, w[b] # {}
    PROVE  OnePlace([w EXCEPT ![b] = {}], Append(q, b))
<1> DEFINE v == [w EXCEPT ![b] = {}]
           r == Append(q, b)
           S == {c \in Data : w[c] = {}}
<1>1. /\ v \in [Data -> SUBSET FlowPlaces] /\ v[b] = {}
      /\ \A c \in Data \ {b} : v[c] = w[c]
  BY DEF OnePlace
<1>2. q \in Seq(Data) /\ Lists(q, S) /\ b \notin S
  BY DEF OnePlace
<1> HIDE DEF v, S
<1>3. r \in Seq(Data) /\ Lists(r, S \cup {b})
  BY <1>2, ListsAppend
<1>4. {c \in Data : v[c] = {}} = S \cup {b}
  BY <1>1 DEF S
<1>5. \A c \in Data : v[c] # {} => \E x \in FlowPlaces : v[c] = {x}
  BY <1>1 DEF OnePlace
<1> HIDE DEF r
<1>6. OnePlace(v, r)
  BY <1>1, <1>3, <1>4, <1>5 DEF OnePlace
<1> QED
  BY <1>6 DEF v, r

LEMMA MoveOut ==
    ASSUME NEW w, NEW q, OnePlace(w, q), NEW b \in Data, NEW y \in FlowPlaces,
           NEW r \in Seq(Data), Lists(r, {c \in Data : w[c] = {}} \ {b})
    PROVE  OnePlace([w EXCEPT ![b] = {y}], r)
<1> DEFINE v == [w EXCEPT ![b] = {y}]
           S == {c \in Data : w[c] = {}} \ {b}
<1>1. /\ v \in [Data -> SUBSET FlowPlaces] /\ v[b] = {y}
      /\ \A c \in Data \ {b} : v[c] = w[c]
  BY DEF OnePlace
<1> HIDE DEF v
<1>2. {c \in Data : v[c] = {}} = S
  BY <1>1
<1>3. \A c \in Data : v[c] # {} => \E x \in FlowPlaces : v[c] = {x}
  BY <1>1 DEF OnePlace
<1>4. OnePlace(v, r)
  BY <1>1, <1>2, <1>3 DEF OnePlace
<1> QED
  BY <1>4 DEF v

LEMMA ListsRemoveAt ==
    ASSUME NEW U, NEW q \in Seq(U), NEW S, Lists(q, S), NEW j \in 1 .. Len(q)
    PROVE  RemoveAt(q, j) \in Seq(U) /\ Lists(RemoveAt(q, j), S \ {q[j]})
<1> DEFINE r == RemoveFirst(q, q[j])
           z == RemoveAt(q, j)
<1>1. /\ r \in Seq(U) /\ Len(r) = Len(q) - 1
      /\ \A i \in 1 .. Len(q) - 1 : r[i] = IF i < j THEN q[i] ELSE q[i + 1]
  BY ListsGap
<1>2. Lists(r, S \ {q[j]})
  BY ListsRemove
<1>3. /\ z \in Seq(U) /\ Len(z) = Len(q) - 1
      /\ \A i \in 1 .. Len(q) - 1 : z[i] = IF i < j THEN q[i] ELSE q[i + 1]
  BY RemoveAtIs
<1> HIDE DEF r, z
<1>4. r = z
  BY <1>1, <1>3, SeqEqual
<1> QED
  BY <1>2, <1>3, <1>4 DEF z

(* A step of BufferFlow keeps every block in one place.                    *)
LEMMA AbstractStep ==
    ASSUME OnePlace(Where, Pipe), untouched', [Flow!FlowNext]_(Flow!flowVars), untouched
    PROVE  OnePlace(Where', Pipe')
<1>0. /\ Pipe \in Seq(Data) /\ Lists(Pipe, {b \in Data : Where[b] = {}})
      /\ Tasks \cup {Isr} \subseteq FlowPlaces /\ MemQueue \in FlowPlaces
  BY DEF OnePlace, FlowPlaces
<1>1. ASSUME NEW b \in Data, NEW x, NEW y \in FlowPlaces,
             Where[b] = {x}, Where' = [Where EXCEPT ![b] = {y}], Pipe' = Pipe
      PROVE  OnePlace(Where', Pipe')
  <2>1. Where[b] # {}
    BY <1>1
  <2> QED BY <1>1, <2>1, MoveAcross
<1>2. ASSUME NEW b \in Data, NEW x, Where[b] = {x}, Where' = [Where EXCEPT ![b] = {}],
             Pipe' = Append(Pipe, b)
      PROVE  OnePlace(Where', Pipe')
  <2>1. Where[b] # {}
    BY <1>2
  <2> QED BY <1>2, <2>1, MoveIn
<1>3. ASSUME NEW u \in FlowPlaces, Pipe # <<>>,
             Where' = [Where EXCEPT ![Head(Pipe)] = {u}], Pipe' = Tail(Pipe)
      PROVE  OnePlace(Where', Pipe')
  <2>1. /\ Head(Pipe) \in Data /\ Tail(Pipe) \in Seq(Data)
        /\ Lists(Tail(Pipe), {b \in Data : Where[b] = {}} \ {Head(Pipe)})
    BY <1>0, <1>3, ListsTail
  <2> QED BY <1>3, <2>1, MoveOut
<1>4. ASSUME NEW u \in FlowPlaces, NEW i \in 1 .. Len(Pipe),
             Where' = [Where EXCEPT ![Pipe[i]] = {u}], Pipe' = RemoveAt(Pipe, i)
      PROVE  OnePlace(Where', Pipe')
  <2>1. Pipe[i] \in Data
    BY <1>0, ElementOfSeq
  <2>2. /\ RemoveAt(Pipe, i) \in Seq(Data)
        /\ Lists(RemoveAt(Pipe, i), {b \in Data : Where[b] = {}} \ {Pipe[i]})
    BY <1>0, ListsRemoveAt
  <2> QED BY <1>4, <2>1, <2>2, MoveOut
<1>5. CASE UNCHANGED (Flow!flowVars)
  <2>1. Where' = Where /\ Pipe' = Pipe
    BY <1>5 DEF Flow!flowVars
  <2> QED BY <2>1
<1>6. CASE Flow!FlowNext
  <2>1. PICK u \in Tasks \cup {Isr} :
          \/ \E b \in Data :
               \/ Flow!Alloc(u, b) \/ Flow!Free(u, b) \/ Flow!Put(u, b)
               \/ \E v \in Tasks \cup {Isr} : Flow!Pass(u, v, b)
          \/ Flow!Get(u)
          \/ Flow!TakeBack(u)
    BY <1>6 DEF Flow!FlowNext, Flow!Close
  <2>2. ASSUME NEW b \in Data, Flow!Alloc(u, b) PROVE OnePlace(Where', Pipe')
    BY <1>0, <1>1, <2>2 DEF Flow!Alloc, Flow!Move
  <2>3. ASSUME NEW b \in Data, Flow!Free(u, b) PROVE OnePlace(Where', Pipe')
    BY <1>0, <1>1, <2>3 DEF Flow!Free, Flow!Move
  <2>4. ASSUME NEW b \in Data, Flow!Put(u, b) PROVE OnePlace(Where', Pipe')
    BY <1>2, <2>4 DEF Flow!Put, Flow!Move
  <2>5. ASSUME NEW b \in Data, NEW v \in Tasks \cup {Isr}, Flow!Pass(u, v, b)
        PROVE  OnePlace(Where', Pipe')
    BY <1>0, <1>1, <2>5 DEF Flow!Pass, Flow!Move
  <2>6. CASE Flow!Get(u)
    BY <1>0, <1>3, <2>6 DEF Flow!Get, Flow!Move
  <2>7. CASE Flow!TakeBack(u)
    <3>1. PICK i \in FifoCapacity + 1 .. Len(Pipe) :
            /\ Where' = [Where EXCEPT ![Pipe[i]] = {u}] /\ Pipe' = RemoveAt(Pipe, i)
      BY <2>7 DEF Flow!TakeBack, Flow!Move, Flow!RemoveAt, RemoveAt
    <3>2. i \in 1 .. Len(Pipe)
      BY <1>0, DqueAssumption, LenProperties DEF FifoCapacity
    <3> QED BY <1>0, <1>4, <3>1, <3>2
  <2> QED BY <2>1, <2>2, <2>3, <2>4, <2>5, <2>6, <2>7
<1> QED
  BY <1>5, <1>6


-----------------------------------------------------------------------------
(* The places of a block, in the state of the pool, the queue and the      *)
(* tasks                                                                   *)

(* Block d is in place x.                                                  *)
Owns(x, d) ==
    \/ x \in Tasks \cup {Isr} /\ d \in held[x]
    \/ x \in Tasks /\ data_elem[x] = d /\ Owed(x)
    \/ x = MemQueue /\ Contains(free_list, d)

LEMMA WhereIs ==
    /\ Where \in [Data -> SUBSET FlowPlaces]
    /\ \A d \in Data : \A x : x \in Where[d] <=> Owns(x, d)
<1>1. ASSUME NEW d \in Data
      PROVE  Where[d] = {u \in Tasks \cup {Isr} : d \in Holding(u)}
                          \cup IF Contains(free_list, d) THEN {MemQueue} ELSE {}
  BY DEF Where
<1>2. ASSUME NEW d \in Data, NEW x PROVE x \in Where[d] <=> Owns(x, d)
  BY <1>1, BuffersAssumption DEF Owns, Holding
<1>3. ASSUME NEW d \in Data PROVE Where[d] \in SUBSET FlowPlaces
  BY <1>1 DEF FlowPlaces
<1>4. Where \in [Data -> SUBSET FlowPlaces]
  BY <1>3 DEF Where
<1> QED
  BY <1>2, <1>4

LEMMA WhereIsNext ==
    /\ Where' \in [Data -> SUBSET FlowPlaces]
    /\ \A d \in Data : \A x : x \in Where'[d] <=> Owns(x, d)'
<1>1. ASSUME NEW d \in Data
      PROVE  Where'[d] = {u \in Tasks \cup {Isr} : d \in Holding(u)'}
                          \cup IF Contains(free_list', d) THEN {MemQueue} ELSE {}
  BY DEF Where
<1>2. ASSUME NEW d \in Data, NEW x PROVE x \in Where'[d] <=> Owns(x, d)'
  BY <1>1, BuffersAssumption DEF Owns, Holding
<1>3. ASSUME NEW d \in Data PROVE Where'[d] \in SUBSET FlowPlaces
  BY <1>1 DEF FlowPlaces
<1>4. Where' \in [Data -> SUBSET FlowPlaces]
  BY <1>3 DEF Where
<1> QED
  BY <1>2, <1>4

(* One block moves, or none.                                               *)
LEMMA WhereStep ==
    ASSUME NEW b \in Data, NEW to \in SUBSET FlowPlaces,
           \A x : Owns(x, b)' <=> x \in to,
           \A d \in Data \ {b} : \A x : Owns(x, d)' <=> Owns(x, d)
    PROVE  Where' = [Where EXCEPT ![b] = to]
<1> DEFINE v == Where
           w == Where'
<1>1. v \in [Data -> SUBSET FlowPlaces] /\ w \in [Data -> SUBSET FlowPlaces]
  BY WhereIs, WhereIsNext
<1>2. w[b] = to
  BY WhereIsNext
<1>3. ASSUME NEW d \in Data \ {b} PROVE w[d] = v[d]
  BY WhereIs, WhereIsNext
<1> HIDE DEF v, w
<1>4. w = [v EXCEPT ![b] = to]
  BY <1>1, <1>2, <1>3
<1> QED
  BY <1>4 DEF v, w

LEMMA WhereSame ==
    ASSUME \A d \in Data : \A x : Owns(x, d)' <=> Owns(x, d)
    PROVE  Where' = Where
<1> DEFINE v == Where
           w == Where'
<1>1. v \in [Data -> SUBSET FlowPlaces] /\ w \in [Data -> SUBSET FlowPlaces]
  BY WhereIs, WhereIsNext
<1>3. ASSUME NEW d \in Data PROVE w[d] = v[d]
  BY WhereIs, WhereIsNext
<1> HIDE DEF v, w
<1>4. w = v
  BY <1>1, <1>3
<1> QED
  BY <1>4 DEF v, w

(* A block that is in a place is in no other one.                          *)
LEMMA OnlyOwner ==
    ASSUME NEW q, OnePlace(Where, q), NEW b \in Data, NEW x, Owns(x, b)
    PROVE  Where[b] = {x}
<1>1. x \in Where[b]
  BY WhereIs
<1> QED
  BY <1>1 DEF OnePlace

(* A block in the queue is in no place.                                    *)
LEMMA NoOwner ==
    ASSUME OnePlace(Where, Pipe), NEW b, Contains(Pipe, b)
    PROVE  b \in Data /\ Where[b] = {} /\ \A x : ~Owns(x, b)
<1>1. b \in {c \in Data : Where[c] = {}}
  BY ListsElements DEF OnePlace, Contains
<1> QED
  BY <1>1, WhereIs


-----------------------------------------------------------------------------
(* What the routines of tn_tasks.c do to the wait queues                   *)

(* The wait queues when task t was unlinked                                *)
Without(w, t) == [q \in WaitQueues |-> RemoveFirst(w[q], t)]

LEMMA UnlinkQueues ==
    ASSUME NEW s, "wait" \in DOMAIN s, NEW t
    PROVE  /\ queue_remove_entry(s, t).wait = Without(s.wait, t)
           /\ DOMAIN queue_remove_entry(s, t) = DOMAIN s
BY DEF queue_remove_entry, Without

LEMMA NonRunnableQueues ==
    ASSUME NEW s, "wait" \in DOMAIN s, NEW t
    PROVE  /\ task_to_non_runnable(s, t).wait = Without(s.wait, t)
           /\ DOMAIN task_to_non_runnable(s, t) = DOMAIN s
<1> DEFINE a == queue_remove_entry(s, t)
           p == s.priority[t]
           b == s.bmp \ {p}
           u == task_to_non_runnable(s, t)
<1>1. a.wait = Without(s.wait, t) /\ DOMAIN a = DOMAIN s
  BY UnlinkQueues
<1>2. u = IF a.ready[p] = <<>>
          THEN IF b = {} THEN [a EXCEPT !.bmp = b, !.next = NoTask]
                         ELSE find_next_task_to_run([a EXCEPT !.bmp = b])
          ELSE IF a.next = t THEN [a EXCEPT !.next = Head(a.ready[p])] ELSE a
  BY DEF task_to_non_runnable
<1> HIDE DEF a, b, p, u
<1>3. u.wait = a.wait /\ DOMAIN u = DOMAIN a
  BY <1>1, <1>2 DEF find_next_task_to_run
<1> QED
  BY <1>1, <1>3 DEF u

LEMMA RunnableQueues ==
    ASSUME NEW s, "wait" \in DOMAIN s, NEW t
    PROVE  /\ task_to_runnable(s, t).wait = s.wait
           /\ DOMAIN task_to_runnable(s, t) = DOMAIN s
BY DEF task_to_runnable

LEMMA CompleteQueues ==
    ASSUME NEW s, "wait" \in DOMAIN s, NEW t, NEW remove \in BOOLEAN
    PROVE  /\ task_wait_complete(s, t, remove).wait =
                IF remove THEN Without(s.wait, t) ELSE s.wait
           /\ DOMAIN task_wait_complete(s, t, remove) = DOMAIN s
<1> DEFINE a == IF remove THEN queue_remove_entry(s, t) ELSE s
           b == [a EXCEPT !.pwait[t] = NoQueue,
                          !.rc[t] = "NO_ERR",
                          !.timeouts = IF s.tick[t] = TN_WAIT_INFINITE THEN @
                                       ELSE RemoveFirst(@, t),
                          !.tick[t] = TN_WAIT_INFINITE]
           c == IF Woken(s, t) THEN task_to_runnable(b, t)
                ELSE [b EXCEPT !.state[t] = "suspend"]
           u == task_wait_complete(s, t, remove)
<1>1. u = [c EXCEPT !.reason[t] = "none"]
  BY DEF task_wait_complete
<1>2. /\ a.wait = IF remove THEN Without(s.wait, t) ELSE s.wait
      /\ DOMAIN a = DOMAIN s
  BY UnlinkQueues
<1> HIDE DEF a
<1>3. b.wait = a.wait /\ DOMAIN b = DOMAIN a
  BY <1>2
<1> HIDE DEF b
<1>4. c.wait = b.wait /\ DOMAIN c = DOMAIN b
  BY <1>2, <1>3, RunnableQueues
<1> HIDE DEF c
<1>5. u.wait = c.wait /\ DOMAIN u = DOMAIN c
  BY <1>1, <1>2, <1>3, <1>4
<1> QED
  BY <1>2, <1>3, <1>4, <1>5 DEF u

LEMMA ToWaitQueues ==
    ASSUME NEW s, "wait" \in DOMAIN s, NEW q \in WaitQueues \cup {NoQueue},
           NEW reason, NEW timeout
    PROVE  task_curr_to_wait_action(s, q, reason, timeout).wait =
             IF q = NoQueue THEN Without(s.wait, s.curr)
             ELSE [Without(s.wait, s.curr) EXCEPT ![q] = Append(@, s.curr)]
<1> DEFINE t == s.curr
           w == task_to_non_runnable(s, t)
           tm == IF timeout = TN_WAIT_INFINITE THEN w.timeouts ELSE Append(w.timeouts, t)
           v == [w EXCEPT !.state[t] = "wait", !.reason[t] = reason,
                          !.tick[t] = timeout, !.timeouts = tm]
           u == task_curr_to_wait_action(s, q, reason, timeout)
<1>1. u = IF q = NoQueue THEN [v EXCEPT !.link[t] = "reset"]
          ELSE [v EXCEPT !.wait[q] = Append(@, t), !.link[t] = "listed", !.pwait[t] = q]
  BY DEF task_curr_to_wait_action
<1>2. w.wait = Without(s.wait, t) /\ DOMAIN w = DOMAIN s
  BY NonRunnableQueues
<1> HIDE DEF w, tm
<1>3. v.wait = w.wait /\ DOMAIN v = DOMAIN w
  BY <1>2
<1> HIDE DEF v
<1>4. u.wait = IF q = NoQueue THEN v.wait ELSE [v.wait EXCEPT ![q] = Append(@, t)]
  BY <1>1, <1>2, <1>3
<1> QED
  BY <1>2, <1>3, <1>4 DEF u

LEMMA PriorityQueues ==
    ASSUME NEW s, "wait" \in DOMAIN s, NEW t, NEW p
    PROVE  change_running_task_priority(s, t, p).wait = Without(s.wait, t)
<1> DEFINE old == s.priority[t]
           a == queue_remove_entry(s, t)
           bits == (IF a.ready[old] = <<>> THEN a.bmp \ {old} ELSE a.bmp) \cup {p}
           v == [a EXCEPT !.priority[t] = p, !.ready[p] = Append(@, t),
                          !.link[t] = "listed", !.bmp = bits]
           u == change_running_task_priority(s, t, p)
<1>1. a.wait = Without(s.wait, t) /\ DOMAIN a = DOMAIN s
  BY UnlinkQueues
<1>2. u = IF s.next = t
          THEN IF p >= old THEN find_next_task_to_run(v) ELSE v
          ELSE IF p < v.priority[v.next] THEN [v EXCEPT !.next = t] ELSE v
  BY DEF change_running_task_priority
<1> HIDE DEF a, bits, old
<1>3. v.wait = a.wait /\ DOMAIN v = DOMAIN a
  BY <1>1
<1> HIDE DEF v
<1>4. u.wait = v.wait
  BY <1>1, <1>2, <1>3 DEF find_next_task_to_run
<1> QED
  BY <1>1, <1>3, <1>4 DEF u

LEMMA TickQueues ==
    ASSUME NEW s, "wait" \in DOMAIN s
    PROVE  /\ WakeTimer(RoundRobin(s)).wait = Without(s.wait, TimerTask)
           /\ DOMAIN WakeTimer(RoundRobin(s)) = DOMAIN s
<1> DEFINE r == RoundRobin(s)
           a == queue_remove_entry(r, TimerTask)
           u == WakeTimer(r)
<1>1. r.wait = s.wait /\ DOMAIN r = DOMAIN s
  BY DEF RoundRobin
<1> HIDE DEF r
<1>2. a.wait = Without(r.wait, TimerTask) /\ DOMAIN a = DOMAIN r
  BY <1>1, UnlinkQueues
<1>3. u = [a EXCEPT !.reason[TimerTask] = "none",
                    !.state[TimerTask] = "runnable",
                    !.pwait[TimerTask] = NoQueue,
                    !.rc[TimerTask] = "NO_ERR",
                    !.ready[0] = Append(@, TimerTask),
                    !.link[TimerTask] = "listed",
                    !.bmp = @ \cup {0},
                    !.next = TimerTask]
  BY DEF WakeTimer
<1> HIDE DEF a, u
<1>4. u.wait = a.wait /\ DOMAIN u = DOMAIN a
  BY <1>1, <1>2, <1>3
<1> QED
  BY <1>1, <1>2, <1>4 DEF u, r


(* The end of an interrupt leaves the wait queues alone.                   *)
LEMMA IsrQueues ==
    ASSUME NEW s, "wait" \in DOMAIN s, NEW request, tn_cpu_irq_isr(s, request)
    PROVE  sys'.wait = s.wait
BY DEF tn_cpu_irq_isr

(* One task at most leaves a wait queue.                                   *)
Unlinks(u) == u.wait = sys.wait \/ \E t \in AllTasks : u.wait = Without(sys.wait, t)

(* A step of the kernel takes one task at most from a wait queue, and      *)
(* leaves the others in their order.                                       *)
LEMMA KernelQueues ==
    ASSUME CallsInv, KernelStep
    PROVE  Unlinks(sys')
<1>0. /\ SchedType(sys) /\ "wait" \in DOMAIN sys /\ sys.curr \in AllTasks
      /\ Tasks \subseteq AllTasks /\ TimerTask \in AllTasks
  BY SystemTasks DEF CallsInv, IInv, Sound, SchedType
<1>1. ASSUME NEW t \in Tasks, NEW start \in BOOLEAN, tn_task_create(t, start)
      PROVE  Unlinks(sys')
  <2> DEFINE d == task_set_dormant_state([sys EXCEPT !.activate[t] = 0], t)
  <2>1. sys' = sys \/ sys' = IF start THEN task_to_runnable(d, t) ELSE d
    BY <1>1 DEF tn_task_create
  <2>2. d.wait = sys.wait /\ DOMAIN d = DOMAIN sys
    BY <1>0 DEF task_set_dormant_state
  <2> HIDE DEF d
  <2>3. sys'.wait = d.wait
    BY <1>0, <2>1, <2>2, RunnableQueues
  <2> QED BY <2>2, <2>3 DEF Unlinks
<1>2. ASSUME NEW t \in Tasks, tn_task_suspend(t) PROVE Unlinks(sys')
  <2> DEFINE v == [sys EXCEPT !.state[t] = "suspend"]
  <2>1. sys' = task_to_non_runnable(v, t) \/ sys' = [sys EXCEPT !.state[t] = "waitsusp"]
    BY <1>2 DEF tn_task_suspend
  <2>2. v.wait = sys.wait /\ DOMAIN v = DOMAIN sys
    BY <1>0
  <2> HIDE DEF v
  <2>3. sys'.wait = sys.wait \/ sys'.wait = Without(sys.wait, t)
    BY <1>0, <2>1, <2>2, NonRunnableQueues
  <2> QED BY <1>0, <2>3 DEF Unlinks
<1>3. ASSUME NEW t \in Tasks, tn_task_resume(t) PROVE Unlinks(sys')
  <2>1. sys' = task_to_runnable(sys, t) \/ sys' = [sys EXCEPT !.state[t] = "wait"]
    BY <1>3 DEF tn_task_resume
  <2>2. sys'.wait = sys.wait
    BY <1>0, <2>1, RunnableQueues
  <2> QED BY <2>2 DEF Unlinks
<1>4. ASSUME NEW t \in Tasks, tn_task_wakeup(t) \/ tn_task_iwakeup(t) PROVE Unlinks(sys')
  <2> DEFINE s == task_wait_complete(sys, t, FALSE)
             c == CountWakeup
  <2>1. \/ sys' = s \/ sys' = c
        \/ \E request : tn_cpu_irq_isr(s, request)
        \/ \E request : tn_cpu_irq_isr(c, request)
    BY <1>4 DEF tn_task_wakeup, tn_task_iwakeup
  <2>2. s.wait = sys.wait /\ DOMAIN s = DOMAIN sys
    BY <1>0, CompleteQueues
  <2>3. c.wait = sys.wait /\ DOMAIN c = DOMAIN sys
    BY <1>0 DEF CountWakeup
  <2> HIDE DEF s, c
  <2>4. sys'.wait = sys.wait
    BY <1>0, <2>1, <2>2, <2>3, IsrQueues
  <2> QED BY <2>4 DEF Unlinks
<1>5. ASSUME NEW t \in Tasks, tn_task_activate(t) \/ tn_task_iactivate(t) PROVE Unlinks(sys')
  <2> DEFINE s == task_to_runnable(sys, t)
             c == [sys EXCEPT !.activate[t] = 1]
  <2>1. \/ sys' = s \/ sys' = c
        \/ \E request : tn_cpu_irq_isr(s, request)
        \/ \E request : tn_cpu_irq_isr(c, request)
    BY <1>5 DEF tn_task_activate, tn_task_iactivate
  <2>2. s.wait = sys.wait /\ DOMAIN s = DOMAIN sys
    BY <1>0, RunnableQueues
  <2>3. c.wait = sys.wait /\ DOMAIN c = DOMAIN sys
    BY <1>0
  <2> HIDE DEF s, c
  <2>4. sys'.wait = sys.wait
    BY <1>0, <2>1, <2>2, <2>3, IsrQueues
  <2> QED BY <2>4 DEF Unlinks
<1>6. ASSUME NEW t \in Tasks, tn_task_release_wait(t) \/ tn_task_irelease_wait(t)
      PROVE  Unlinks(sys')
  <2> DEFINE s == task_wait_complete(sys, t, TRUE)
  <2>1. sys' = s \/ \E request : tn_cpu_irq_isr(s, request)
    BY <1>6 DEF tn_task_release_wait, tn_task_irelease_wait
  <2>2. s.wait = Without(sys.wait, t) /\ DOMAIN s = DOMAIN sys
    BY <1>0, CompleteQueues
  <2> HIDE DEF s
  <2>3. sys'.wait = Without(sys.wait, t)
    BY <1>0, <2>1, <2>2, IsrQueues
  <2> QED BY <1>0, <2>3 DEF Unlinks
<1>7. ASSUME NEW t \in Tasks, NEW priority, tn_task_change_priority(t, priority)
      PROVE  Unlinks(sys')
  <2>1. PICK p : \/ sys' = change_running_task_priority(sys, t, p)
                 \/ sys' = [sys EXCEPT !.priority[t] = p]
    BY <1>7 DEF tn_task_change_priority
  <2>2. sys'.wait = sys.wait \/ sys'.wait = Without(sys.wait, t)
    BY <1>0, <2>1, PriorityQueues
  <2> QED BY <1>0, <2>2 DEF Unlinks
<1>8. ASSUME NEW timeout, tn_task_sleep(timeout) PROVE Unlinks(sys')
  <2> DEFINE s == task_curr_to_wait_action(sys, NoQueue, "sleep", timeout)
  <2>1. sys' = s \/ sys' = [sys EXCEPT !.wakeup[sys.curr] = @ - 1]
    BY <1>8 DEF tn_task_sleep
  <2>2. s.wait = Without(sys.wait, sys.curr)
    BY <1>0, ToWaitQueues
  <2> HIDE DEF s
  <2>3. sys'.wait = sys.wait \/ sys'.wait = Without(sys.wait, sys.curr)
    BY <1>0, <2>1, <2>2
  <2> QED BY <1>0, <2>3 DEF Unlinks
<1>9. CASE Timer
  <2>1. CASE TimerBegin
    BY <2>1 DEF TimerBegin, Unlinks
  <2>2. CASE TimerVisit
    <3> DEFINE t == Head(cursor)
               d == [sys EXCEPT !.tick[t] = @ - 1]
               w == task_wait_complete(d, t, TRUE)
    <3>1. t \in AllTasks
      BY <2>2 DEF TimerVisit, CallsInv, IInv, TypeOK
    <3>2. sys' = sys \/ sys' = d \/ sys' = [w EXCEPT !.rc[t] = "TIMEOUT"]
      BY <2>2 DEF TimerVisit, Expire
    <3>3. d.wait = sys.wait /\ DOMAIN d = DOMAIN sys
      BY <1>0
    <3> HIDE DEF d, t
    <3>4. w.wait = Without(d.wait, t) /\ DOMAIN w = DOMAIN d
      BY <1>0, <3>3, CompleteQueues
    <3> HIDE DEF w
    <3>5. sys'.wait = sys.wait \/ sys'.wait = Without(sys.wait, t)
      BY <1>0, <3>2, <3>3, <3>4
    <3> QED BY <3>1, <3>5 DEF Unlinks
  <2>3. CASE TimerSleep
    <3>1. sys'.wait = Without(sys.wait, sys.curr)
      BY <1>0, <2>3, ToWaitQueues DEF TimerSleep
    <3> QED BY <1>0, <3>1 DEF Unlinks
  <2> QED BY <1>9, <2>1, <2>2, <2>3 DEF Timer
<1>10. CASE tn_tick_int_processing
  <2> DEFINE s == WakeTimer(RoundRobin(sys))
  <2>1. tn_cpu_irq_isr(s, TRUE)
    BY <1>10 DEF tn_tick_int_processing
  <2>2. s.wait = Without(sys.wait, TimerTask) /\ DOMAIN s = DOMAIN sys
    BY <1>0, TickQueues
  <2> HIDE DEF s
  <2>3. sys'.wait = Without(sys.wait, TimerTask)
    BY <1>0, <2>1, <2>2, IsrQueues
  <2> QED BY <1>0, <2>3 DEF Unlinks
<1>11. CASE tn_switch_context
  <2>1. sys'.wait = sys.wait
    BY <1>0, <1>11 DEF tn_switch_context
  <2> QED BY <2>1 DEF Unlinks
<1>12. CASE TaskService /\ (~booted \/ At(Outside))
  <2>1. ASSUME NEW t \in Tasks, tn_task_terminate(t) \/ tn_task_delete(t)
        PROVE  Unlinks(sys')
    <3>1. sys' = sys
      BY <2>1, CallsAssumption DEF tn_task_terminate, tn_task_delete, Calls
    <3> QED BY <3>1 DEF Unlinks
  <2>2. ASSUME NEW delete \in BOOLEAN, tn_task_exit(delete) PROVE Unlinks(sys')
    BY <2>2, CallsAssumption DEF tn_task_exit
  <2>3. ASSUME NEW p, NEW v, tn_sys_tslice_ticks(p, v) PROVE Unlinks(sys')
    BY <2>3 DEF tn_sys_tslice_ticks, Unlinks
  <2> QED BY <1>1, <1>2, <1>3, <1>4, <1>5, <1>6, <1>7, <1>8, <1>12, <2>1, <2>2, <2>3
          DEF TaskService
<1>13. CASE IsrService
  BY <1>4, <1>5, <1>6, <1>13 DEF IsrService
<1>14. CASE AppInitDone
  BY <1>14 DEF AppInitDone, Unlinks
<1> QED
  BY <1>9, <1>10, <1>11, <1>12, <1>13, <1>14 DEF KernelStep


(* A wait queue lists the tasks of the application that wait in it.        *)
LEMMA QueueLists ==
    ASSUME NEW s, Sound(s, {}), s.pwait[TimerTask] = NoQueue, NEW q \in WaitQueues
    PROVE  /\ s.wait \in [WaitQueues -> Seq(AllTasks)]
           /\ s.wait[q] \in Seq(Tasks)
           /\ Lists(s.wait[q], {x \in Tasks : WaitsIn(s, x, q)})
<1> DEFINE S == {x \in Tasks : WaitsIn(s, x, q)}
           c == s.wait[q]
<1>0. q # NoQueue /\ SystemOK(s) /\ s.wait \in [WaitQueues -> Seq(AllTasks)]
  BY QueueAssumption, TcbFunctions DEF Sound, Rest
<1>1. Lists(c, In(s, Waiters(s, {}), q)) /\ c \in Seq(AllTasks)
  BY TcbFunctions DEF Sound, Rest, WaitsFor
<1>2. In(s, Waiters(s, {}), q) = S
  BY <1>0 DEF In, Waiters, WaitsIn, SystemOK, Waiting, AllTasks
<1>3. Lists(c, S)
  BY <1>1, <1>2
<1>4. \A i \in 1 .. Len(c) : c[i] \in Tasks
  BY <1>1, <1>3, ListsElements
<1> HIDE DEF c
<1>5. c \in Seq(Tasks)
  BY <1>1, <1>4
<1> QED
  BY <1>0, <1>3, <1>5 DEF c

(* A service or a handler releases the head of q.                          *)
LEMMA HeadQueues ==
    ASSUME CallsInv, NEW q \in WaitQueues, sys.wait[q] # <<>>,
           ReleaseHead(q) \/ IReleaseHead(q)
    PROVE  sys'.wait = [sys.wait EXCEPT ![q] = Tail(@)]
<1> DEFINE a == queue_remove_head(sys, q)
           t == Head(sys.wait[q])
           s == task_wait_complete(a, t, FALSE)
<1>0. "wait" \in DOMAIN sys
  BY DEF CallsInv, IInv, Sound, SchedType
<1>1. a.wait = [sys.wait EXCEPT ![q] = Tail(@)] /\ DOMAIN a = DOMAIN sys
  BY <1>0 DEF queue_remove_head
<1>2. sys' = s \/ \E request : tn_cpu_irq_isr(s, request)
  BY DEF ReleaseHead, IReleaseHead, CompleteHead
<1> HIDE DEF a, t
<1>3. s.wait = a.wait /\ DOMAIN s = DOMAIN a
  BY <1>0, <1>1, CompleteQueues
<1> HIDE DEF s
<1>4. sys'.wait = s.wait
  BY <1>0, <1>1, <1>2, <1>3, IsrQueues
<1> QED
  BY <1>1, <1>3, <1>4

(* The running task goes to the end of queue q.                            *)
LEMMA BlockQueues ==
    ASSUME CallsInv, Enter, NEW q \in WaitQueues, NEW reason, NEW timeout,
           Block(q, reason, timeout)
    PROVE  sys'.wait = [sys.wait EXCEPT ![q] = Append(@, sys.curr)]
<1> DEFINE t == sys.curr
<1>0. /\ Sound(sys, {}) /\ sys.pwait[TimerTask] = NoQueue /\ "wait" \in DOMAIN sys
      /\ t \in Tasks /\ sys.state[t] = "runnable" /\ q # NoQueue
  BY RunningTask, QueueAssumption DEF CallsInv, IInv, Sound, SchedType, Enter, At
<1>1. sys.wait \in [WaitQueues -> Seq(AllTasks)]
  BY <1>0, QueueLists
<1>2. ASSUME NEW r \in WaitQueues PROVE RemoveFirst(sys.wait[r], t) = sys.wait[r]
  <2> DEFINE S == {x \in Tasks : WaitsIn(sys, x, r)}
             c == sys.wait[r]
  <2>1. c \in Seq(Tasks) /\ Lists(c, S)
    BY <1>0, QueueLists
  <2>2. t \notin S
    BY <1>0 DEF WaitsIn, Waiting
  <2> HIDE DEF S, c
  <2>3. RemoveFirst(c, t) = c
    BY <2>1, <2>2, ListsRemove
  <2> QED BY <2>3 DEF c
<1>3. Without(sys.wait, t) = sys.wait
  BY <1>1, <1>2 DEF Without
<1>4. sys'.wait = [Without(sys.wait, t) EXCEPT ![q] = Append(@, t)]
  BY <1>0, ToWaitQueues DEF Block
<1> QED
  BY <1>3, <1>4

(* What a step of the kernel does to a wait queue                          *)
LEMMA KernelQueue ==
    ASSUME CallsInv, KernelStep, NEW q \in WaitQueues
    PROVE  \/ sys'.wait[q] = sys.wait[q]
           \/ \E k \in 1 .. Len(sys.wait[q]) :
                /\ sys'.wait[q] \in Seq(Tasks) /\ Len(sys'.wait[q]) = Len(sys.wait[q]) - 1
                /\ \A i \in 1 .. Len(sys.wait[q]) - 1 :
                     sys'.wait[q][i] = IF i < k THEN sys.wait[q][i] ELSE sys.wait[q][i + 1]
<1> DEFINE S == {x \in Tasks : WaitsIn(sys, x, q)}
           c == sys.wait[q]
           d == sys'.wait[q]
<1>1. c \in Seq(Tasks) /\ Lists(c, S)
  BY QueueLists DEF CallsInv, IInv
<1>2. PICK t : d = c \/ d = RemoveFirst(c, t)
  BY KernelQueues DEF Unlinks, Without
<1> HIDE DEF c, d, S
<1>3. CASE t \in S /\ d = RemoveFirst(c, t)
  <2>1. PICK k \in 1 .. Len(c) : c[k] = t
    BY <1>1, <1>3, ListsElements
  <2> DEFINE r == RemoveFirst(c, t)
  <2>2. /\ r \in Seq(Tasks) /\ Len(r) = Len(c) - 1
        /\ \A i \in 1 .. Len(c) - 1 : r[i] = IF i < k THEN c[i] ELSE c[i + 1]
    BY <1>1, <2>1, ListsGap
  <2> HIDE DEF r
  <2>3. d = r
    BY <1>3 DEF r
  <2> QED BY <2>2, <2>3 DEF c, d
<1>4. CASE t \notin S \/ d = c
  <2>1. d = c
    BY <1>1, <1>2, <1>4, ListsRemove
  <2> QED BY <2>1 DEF c, d
<1> QED
  BY <1>2, <1>3, <1>4

-----------------------------------------------------------------------------
(* Whose data element is its own                                           *)

(* Nobody is released by force, which returns the code of a success.       *)
NoRelease == Services \cap {"release_wait", "irelease_wait"} = {}

LEMMA PlacesDiffer ==
    /\ \A q, r : Place("wait", q) = Place("wait", r) <=> q = r
    /\ \A q : Outside # Place("wait", q)
    /\ SendQueue # ReceiveQueue /\ SendQueue # MemQueue /\ ReceiveQueue # MemQueue
    /\ SendQueue # NoQueue /\ ReceiveQueue # NoQueue /\ MemQueue # NoQueue
    /\ SendQueue \in WaitQueues /\ ReceiveQueue \in WaitQueues /\ MemQueue \in WaitQueues
BY DqueAssumption, MemAssumption, BuffersAssumption, QueueAssumption DEF Place, Outside

(* Nothing but the data element of v, and whether v owns it, has changed.  *)
OthersSame(v) ==
    \A x \in Tasks \ {v} : data_elem'[x] = data_elem[x] /\ (Owed(x)' <=> Owed(x))

LEMMA OwedKept ==
    ASSUME NEW x, call'[x] = call[x], Kept(sys, sys', x)
    PROVE  Owed(x)' <=> Owed(x)
BY DEF Owed, Succeeds, Waiting, Kept

(* A task that waits, or is in no call, owns no element.                   *)
LEMMA NotOwed ==
    ASSUME NEW x, Waiting(sys, x) \/ call[x] = Outside
    PROVE  ~Owed(x)
BY PlacesDiffer DEF Owed, Succeeds

LEMMA NotOwedNext ==
    ASSUME NEW x, Waiting(sys', x) \/ call'[x] = Outside
    PROVE  ~Owed(x)'
BY PlacesDiffer DEF Owed, Succeeds

(* The running task starts to wait.                                        *)
LEMMA OwedBlock ==
    ASSUME CallsInv, Enter, NEW q \in WaitQueues,
           NEW reason \in WaitReasons, reason # "sleep",
           NEW timeout \in Timeouts, Block(q, reason, timeout), UNCHANGED otherVars,
           NEW v, v = sys.curr
    PROVE  /\ v \in Tasks /\ ~Owed(v) /\ ~Owed(v)'
           /\ \A x \in Tasks \ {v} : Owed(x)' <=> Owed(x)
<1>1. KeptBut(sys, sys', v) /\ Waiting(sys', v)
  BY BlockStep
<1>2. call[v] = Outside /\ v \in Tasks
  BY DEF Enter, At
<1>3. \A x \in Tasks \ {v} : call'[x] = call[x]
  BY DEF Block, Goto, CallsInv
<1>4. ASSUME NEW x \in Tasks \ {v} PROVE Owed(x)' <=> Owed(x)
  <2>1. Kept(sys, sys', x)
    BY <1>1, SystemTasks DEF KeptBut
  <2> QED BY <1>3, <2>1, OwedKept
<1> QED
  BY <1>1, <1>2, <1>4, NotOwed, NotOwedNext

(* The head of queue q is released: it owns the element, unless it waited  *)
(* to send it.                                                             *)
LEMMA OwedHead ==
    ASSUME CallsInv, NEW q \in {SendQueue, ReceiveQueue, MemQueue}, sys.wait[q] # <<>>,
           NEW v, v = Head(sys.wait[q]),
           (Enter /\ ReleaseHead(q)) \/ (IrqEnabled /\ IReleaseHead(q)),
           UNCHANGED <<masked, created, revived, slices, booted, cursor, scanning, call>>
    PROVE  /\ v \in Tasks /\ Waiting(sys, v) /\ ~Owed(v)
           /\ Owed(v)' <=> q # SendQueue
           /\ \A x \in Tasks \ {v} : Owed(x)' <=> Owed(x)
<1>0. q \in WaitQueues
  BY PlacesDiffer
<1>1. HeadReleased(sys', q) /\ sys'.rc[v] = "NO_ERR"
  BY <1>0, ReleaseStep, IReleaseStep
<1>2. /\ v \in Tasks /\ WaitsIn(sys, v, q) /\ call[v] = Place("wait", q)
      /\ KeptBut(sys, sys', v) /\ sys'.state[v] \in {"runnable", "suspend"}
  BY <1>1 DEF HeadReleased
<1>3. Waiting(sys, v) /\ ~Waiting(sys', v) /\ call' = call
  BY <1>2 DEF WaitsIn, Waiting
<1>4. Owed(v)' <=> q # SendQueue
  BY <1>1, <1>2, <1>3, PlacesDiffer DEF Owed, Succeeds
<1>5. ASSUME NEW x \in Tasks \ {v} PROVE Owed(x)' <=> Owed(x)
  <2>1. Kept(sys, sys', x)
    BY <1>2, SystemTasks DEF KeptBut
  <2> QED BY <1>3, <2>1, OwedKept
<1> QED
  BY <1>2, <1>3, <1>4, <1>5, NotOwed

(* In a step of the kernel a task gets its element back when it does not   *)
(* wait to send it any more: its time is over.                             *)
LEMMA OwedKernel ==
    ASSUME NoRelease, CallsInv, KernelStep, NEW x \in Tasks
    PROVE  /\ WaitsIn(sys, x, SendQueue) => ~Owed(x)
           /\ Owed(x)' <=> \/ Owed(x)
                           \/ WaitsIn(sys, x, SendQueue) /\ ~WaitsIn(sys', x, SendQueue)
<1>0. KernelTcb(sys, sys', x, call[x]) /\ call' = call /\ PlaceOK(sys, call[x], x)
  BY KernelEffects DEF KernelEffect, KernelStep, CallsInv
<1>1. WaitsIn(sys, x, SendQueue) => ~Owed(x)
  BY NotOwed DEF WaitsIn
<1>2. CASE Kept(sys, sys', x)
  <2>1. WaitsIn(sys', x, SendQueue) <=> WaitsIn(sys, x, SendQueue)
    BY <1>2 DEF Kept, WaitsIn, Waiting
  <2> QED BY <1>0, <1>1, <1>2, <2>1, OwedKept
<1>3. CASE Suspends(sys, sys', x)
  <2>1. WaitsIn(sys', x, SendQueue) <=> WaitsIn(sys, x, SendQueue)
    BY <1>3 DEF Suspends, WaitsIn
  <2>2. Owed(x)' <=> Owed(x)
    BY <1>0, <1>3 DEF Suspends, Owed, Succeeds
  <2> QED BY <1>1, <2>1, <2>2
<1>4. CASE call[x] = Outside
  <2>1. ~WaitsIn(sys, x, SendQueue)
    BY <1>0, <1>4, PlacesDiffer DEF PlaceOK, WaitsIn
  <2> QED BY <1>0, <1>4, <2>1, NotOwed, NotOwedNext
<1>5. CASE WaitEnds(sys, sys', x) /\ call[x] # Outside
  <2>1. /\ Waiting(sys, x) /\ call[x] = Place("wait", sys.pwait[x]) /\ sys.pwait[x] # NoQueue
        /\ ~Waiting(sys', x) /\ sys'.rc[x] = "TIMEOUT"
    BY <1>0, <1>5 DEF PlaceOK, WaitEnds, NoRelease, Waiting
  <2>2. Owed(x)' <=> sys.pwait[x] = SendQueue
    BY <1>0, <2>1, PlacesDiffer DEF Owed, Succeeds
  <2> QED BY <2>1, <2>2, NotOwed DEF WaitsIn
<1> QED
  BY <1>0, <1>2, <1>3, <1>4, <1>5 DEF KernelTcb, FallsAsleep, Starts, PlaceOK


-----------------------------------------------------------------------------
(* How a block moves from one place to another                             *)

Users == Tasks \cup {Isr}

(* The types of the data of the queue, the pool and their users            *)
FlowTypes ==
    /\ RingOK(dque)
    /\ held \in [Users -> SUBSET Data]
    /\ data_elem \in [Tasks -> Values]
    /\ \A t \in Tasks : Owed(t) => data_elem[t] \in Data
    /\ free_list \in Seq(Data) /\ Lists(free_list, ToSet(free_list))

LEMMA UsersAre ==
    /\ MemQueue \notin Users /\ Isr \notin Tasks /\ Tasks \subseteq Users /\ Isr \in Users
    /\ Users \subseteq FlowPlaces /\ MemQueue \in FlowPlaces
    /\ \A u \in Users : u # MemQueue
BY BuffersAssumption DEF Users, FlowPlaces

(* A user that owns no element gives up block b; v, whose element is b,    *)
(* may own it then.                                                        *)
LEMMA WhereLost ==
    ASSUME FlowTypes, OnePlace(Where, Pipe), NEW u \in Users, NEW b \in Data, b \in held[u],
           held' = [held EXCEPT ![u] = @ \ {b}], u \in Tasks => ~Owed(u),
           NEW v \in Users, OthersSame(v), v \in Tasks => ~Owed(v), free_list' = free_list,
           v \in Tasks /\ Owed(v)' => v # u /\ data_elem'[v] = b
    PROVE  /\ Where[b] = {u}
           /\ ~(v \in Tasks /\ Owed(v)') => Where' = [Where EXCEPT ![b] = {}]
           /\ v \in Tasks /\ Owed(v)' => Where' = [Where EXCEPT ![b] = {v}]
<1> DEFINE to == IF v \in Tasks /\ Owed(v)' THEN {v} ELSE {}
<1>0. held \in [Users -> SUBSET Data]
  BY DEF FlowTypes
<1>1. Owns(u, b)
  BY DEF Owns, Users
<1>2. Where[b] = {u} /\ \A x : Owns(x, b) => x = u
  BY <1>1, OnlyOwner, WhereIs
<1>3. \A x \in Users : held'[x] = IF x = u THEN held[x] \ {b} ELSE held[x]
  BY <1>0
<1>4. ASSUME NEW x PROVE Owns(x, b)' <=> x \in to
  <2>1. ~(x \in Users /\ b \in held'[x])
    BY <1>2, <1>3 DEF Owns, Users
  <2>2. ~(x = MemQueue /\ Contains(free_list', b))
    BY <1>2, UsersAre DEF Owns
  <2>3. x \in Tasks /\ data_elem'[x] = b /\ Owed(x)' <=> x \in to
    BY <1>2 DEF Owns, OthersSame
  <2> QED BY <2>1, <2>2, <2>3 DEF Owns, Users
<1>5. ASSUME NEW d \in Data \ {b}, NEW x PROVE Owns(x, d)' <=> Owns(x, d)
  <2>1. x \in Users => (d \in held'[x] <=> d \in held[x])
    BY <1>3
  <2>2. x \in Tasks => (data_elem'[x] = d /\ Owed(x)' <=> data_elem[x] = d /\ Owed(x))
    BY DEF OthersSame
  <2> QED BY <2>1, <2>2 DEF Owns, Users
<1>6. to \in SUBSET FlowPlaces
  BY UsersAre
<1> HIDE DEF to
<1>7. Where' = [Where EXCEPT ![b] = to]
  BY <1>4, <1>5, <1>6, WhereStep
<1> QED
  BY <1>2, <1>7 DEF to

(* A user gets block b, which was in no place or in the pool.              *)
LEMMA WhereGained ==
    ASSUME FlowTypes, NEW u \in Users, NEW b \in Data,
           held' = [held EXCEPT ![u] = @ \cup {b}],
           NEW v \in Users, OthersSame(v), v \in Tasks => ~Owed(v) /\ ~Owed(v)',
           \A x : ~(Owns(x, b) /\ x # MemQueue), ~Contains(free_list', b),
           \A d \in Data \ {b} : Contains(free_list', d) <=> Contains(free_list, d)
    PROVE  Where' = [Where EXCEPT ![b] = {u}]
<1>0. held \in [Users -> SUBSET Data]
  BY DEF FlowTypes
<1>1. \A x \in Users : held'[x] = IF x = u THEN held[x] \cup {b} ELSE held[x]
  BY <1>0
<1>2. ASSUME NEW x PROVE Owns(x, b)' <=> x \in {u}
  <2>1. x \in Users /\ b \in held'[x] <=> x = u
    BY <1>1, UsersAre DEF Owns, Users
  <2>2. ~(x \in Tasks /\ data_elem'[x] = b /\ Owed(x)')
    BY UsersAre DEF Owns, OthersSame
  <2> QED BY <2>1, <2>2 DEF Owns, Users
<1>3. ASSUME NEW d \in Data \ {b}, NEW x PROVE Owns(x, d)' <=> Owns(x, d)
  <2>1. x \in Users => (d \in held'[x] <=> d \in held[x])
    BY <1>1
  <2>2. x \in Tasks => (data_elem'[x] = d /\ Owed(x)' <=> data_elem[x] = d /\ Owed(x))
    BY DEF OthersSame
  <2> QED BY <2>1, <2>2 DEF Owns, Users
<1>4. {u} \in SUBSET FlowPlaces
  BY UsersAre
<1> QED
  BY <1>2, <1>3, <1>4, WhereStep

(* A user that owns no element gives block b back to the pool.             *)
LEMMA WhereFreed ==
    ASSUME FlowTypes, OnePlace(Where, Pipe), NEW u \in Users, NEW b \in Data, b \in held[u],
           held' = [held EXCEPT ![u] = @ \ {b}], u \in Tasks => ~Owed(u),
           OthersSame(u), u \in Tasks => ~Owed(u)', Contains(free_list', b),
           \A d \in Data \ {b} : Contains(free_list', d) <=> Contains(free_list, d)
    PROVE  Where[b] = {u} /\ Where' = [Where EXCEPT ![b] = {MemQueue}]
<1>0. held \in [Users -> SUBSET Data]
  BY DEF FlowTypes
<1>1. Owns(u, b)
  BY DEF Owns, Users
<1>2. Where[b] = {u} /\ \A x : Owns(x, b) => x = u
  BY <1>1, OnlyOwner, WhereIs
<1>3. \A x \in Users : held'[x] = IF x = u THEN held[x] \ {b} ELSE held[x]
  BY <1>0
<1>4. ASSUME NEW x PROVE Owns(x, b)' <=> x \in {MemQueue}
  <2>1. ~(x \in Users /\ b \in held'[x])
    BY <1>2, <1>3 DEF Owns, Users
  <2>2. ~(x \in Tasks /\ data_elem'[x] = b /\ Owed(x)')
    BY <1>2 DEF Owns, OthersSame
  <2> QED BY <2>1, <2>2 DEF Owns, Users
<1>5. ASSUME NEW d \in Data \ {b}, NEW x PROVE Owns(x, d)' <=> Owns(x, d)
  <2>1. x \in Users => (d \in held'[x] <=> d \in held[x])
    BY <1>3
  <2>2. x \in Tasks => (data_elem'[x] = d /\ Owed(x)' <=> data_elem[x] = d /\ Owed(x))
    BY DEF OthersSame
  <2> QED BY <2>1, <2>2 DEF Owns, Users
<1>6. {MemQueue} \in SUBSET FlowPlaces
  BY UsersAre
<1> QED
  BY <1>2, <1>4, <1>5, <1>6, WhereStep

(* A task waits, or returns without a block.                               *)
LEMMA WhereStill ==
    ASSUME UNCHANGED <<held, free_list>>, NEW v, OthersSame(v),
           v \in Tasks => ~Owed(v) /\ ~Owed(v)'
    PROVE  Where' = Where
<1>1. ASSUME NEW d \in Data, NEW x PROVE Owns(x, d)' <=> Owns(x, d)
  <2>1. x \in Tasks => (data_elem'[x] = d /\ Owed(x)' <=> data_elem[x] = d /\ Owed(x))
    BY DEF OthersSame
  <2> QED BY <2>1 DEF Owns, Users
<1> QED
  BY <1>1, WhereSame

(* A task returns with the block it was given while it waited.             *)
LEMMA WhereTaken ==
    ASSUME FlowTypes, UNCHANGED free_list, NEW v \in Tasks, OthersSame(v),
           Owed(v), ~Owed(v)', held' = [held EXCEPT ![v] = @ \cup {data_elem[v]}]
    PROVE  Where' = Where
<1>0. held \in [Users -> SUBSET Data] /\ data_elem[v] \in Data
  BY DEF FlowTypes
<1>1. \A x \in Users : held'[x] = IF x = v THEN held[x] \cup {data_elem[v]} ELSE held[x]
  BY <1>0
<1>2. ASSUME NEW d \in Data, NEW x PROVE Owns(x, d)' <=> Owns(x, d)
  <2>1. CASE x = v
    BY <1>1, <2>1, UsersAre DEF Owns, Users
  <2>2. CASE x # v
    <3>1. x \in Tasks => (data_elem'[x] = d /\ Owed(x)' <=> data_elem[x] = d /\ Owed(x))
      BY <2>2 DEF OthersSame
    <3> QED BY <1>1, <2>2, <3>1 DEF Owns, Users
  <2> QED BY <2>1, <2>2
<1> QED
  BY <1>2, WhereSame

(* A task that waited to send gets its block back.                         *)
LEMMA WhereBack ==
    ASSUME UNCHANGED <<held, free_list, data_elem>>, NEW v \in Tasks, OthersSame(v),
           ~Owed(v), Owed(v)', NEW b \in Data, b = data_elem[v], \A x : ~Owns(x, b)
    PROVE  Where' = [Where EXCEPT ![b] = {v}]
<1>1. ASSUME NEW x PROVE Owns(x, b)' <=> x \in {v}
  BY DEF Owns, OthersSame, Users
<1>2. ASSUME NEW d \in Data \ {b}, NEW x PROVE Owns(x, d)' <=> Owns(x, d)
  <2>1. x \in Tasks => (data_elem'[x] = d /\ Owed(x)' <=> data_elem[x] = d /\ Owed(x))
    BY DEF OthersSame
  <2> QED BY <2>1 DEF Owns, Users
<1>3. {v} \in SUBSET FlowPlaces
  BY UsersAre
<1> QED
  BY <1>1, <1>2, <1>3, WhereStep


-----------------------------------------------------------------------------
(* The steps of the queue and of the pool are steps of BufferFlow.         *)

FlowStep == [Flow!FlowNext]_(Flow!flowVars)

(* What holds before a step, while neither the pool nor the queue is being *)
(* deleted                                                                 *)
FlowInv == BuffersOK /\ untouched /\ FlowTypes /\ OnePlace(Where, Pipe)

LEMMA PipeNow ==
    /\ Pipe = PipeOf(dque, sys.wait[SendQueue], data_elem)
    /\ Pipe' = PipeOf(dque', sys'.wait[SendQueue], data_elem')
BY DEF Pipe, PipeOf, Elems

LEMMA StepStill ==
    ASSUME Where' = Where, Pipe' = Pipe, UNCHANGED untouched
    PROVE  FlowStep
BY DEF FlowStep, Flow!flowVars

LEMMA StepAlloc ==
    ASSUME untouched, UNCHANGED untouched, NEW u \in Users, NEW b \in Data, Pipe' = Pipe,
           Where[b] = {MemQueue}, Where' = [Where EXCEPT ![b] = {u}]
    PROVE  FlowStep
BY DEF FlowStep, Flow!FlowNext, Flow!Alloc, Flow!Move, Users

LEMMA StepFree ==
    ASSUME untouched, UNCHANGED untouched, NEW u \in Users, NEW b \in Data, Pipe' = Pipe,
           Where[b] = {u}, Where' = [Where EXCEPT ![b] = {MemQueue}]
    PROVE  FlowStep
BY DEF FlowStep, Flow!FlowNext, Flow!Free, Flow!Move, Users

LEMMA StepPut ==
    ASSUME untouched, UNCHANGED untouched, NEW u \in Users, NEW b \in Data,
           Where[b] = {u}, Where' = [Where EXCEPT ![b] = {}], Pipe' = Append(Pipe, b)
    PROVE  FlowStep
BY DEF FlowStep, Flow!FlowNext, Flow!Put, Flow!Move, Users

LEMMA StepGet ==
    ASSUME untouched, UNCHANGED untouched, NEW u \in Users, Pipe # <<>>,
           NEW b, b = Head(Pipe), Where[b] = {}, Where' = [Where EXCEPT ![b] = {u}],
           Pipe' = Tail(Pipe)
    PROVE  FlowStep
BY DEF FlowStep, Flow!FlowNext, Flow!Get, Flow!Move, Users

LEMMA StepPass ==
    ASSUME untouched, UNCHANGED untouched, NEW u \in Users, NEW v \in Users, u # v,
           NEW b \in Data, Pipe' = Pipe, Pipe = <<>> \/ \A c \in Data : Where[c] # {MemQueue},
           Where[b] = {u}, Where' = [Where EXCEPT ![b] = {v}]
    PROVE  FlowStep
<1>1. Flow!Pass(u, v, b)
  BY DEF Flow!Pass, Flow!Move, Flow!NoneFree
<1> QED
  BY <1>1 DEF FlowStep, Flow!FlowNext, Users

LEMMA StepTakeBack ==
    ASSUME untouched, UNCHANGED untouched, NEW u \in Users,
           NEW i \in FifoCapacity + 1 .. Len(Pipe), NEW b, b = Pipe[i], Where[b] = {},
           Where' = [Where EXCEPT ![b] = {u}], Pipe' = RemoveAt(Pipe, i)
    PROVE  FlowStep
<1>1. Flow!TakeBack(u)
  BY DEF Flow!TakeBack, Flow!Move, Flow!RemoveAt, RemoveAt
<1> QED
  BY <1>1 DEF FlowStep, Flow!FlowNext, Users

-----------------------------------------------------------------------------

(* The task or the handler that calls a service                            *)
Actor(u) == (Enter /\ u = sys.curr) \/ (IrqEnabled /\ u = Isr)

LEMMA ActorIs ==
    ASSUME CallsInv, NEW u, Actor(u)
    PROVE  /\ u \in Users
           /\ u \in Tasks => /\ ~Owed(u) /\ call[u] = Outside
                             /\ sys.state[u] = "runnable" /\ ~Waiting(sys, u)
<1>1. CASE Enter /\ u = sys.curr
  <2>1. u \in Tasks /\ call[u] = Outside
    BY <1>1 DEF Enter, At
  <2>2. sys.state[u] = "runnable"
    BY <1>1, RunningTask DEF Enter, At, CallsInv
  <2> QED BY <2>1, <2>2, NotOwed DEF Users, Waiting
<1>2. CASE u = Isr
  BY <1>2, UsersAre
<1> QED
  BY <1>1, <1>2 DEF Actor

LEMMA LosesTyped ==
    ASSUME FlowTypes, NEW u, NEW d, Loses(u, d), u \in Users
    PROVE  /\ held' \in [Users -> SUBSET Data] /\ d \in held[u] /\ d \in Data /\ d \in Values
           /\ held' = [held EXCEPT ![u] = @ \ {d}]
<1>1. held \in [Users -> SUBSET Data] /\ d \in held[u] /\ held' = [held EXCEPT ![u] = @ \ {d}]
  BY DEF FlowTypes, Loses
<1> QED
  BY <1>1 DEF Values

LEMMA GainsTyped ==
    ASSUME FlowTypes, NEW u, NEW d \in Data, Gains(u, d), u \in Users
    PROVE  /\ held' \in [Users -> SUBSET Data]
           /\ held' = [held EXCEPT ![u] = @ \cup {d}]
<1>1. held \in [Users -> SUBSET Data] /\ held' = [held EXCEPT ![u] = @ \cup {d}]
  BY DEF FlowTypes, Gains
<1> QED
  BY <1>1

(* The scheduler, the calls and the elements of the tasks stay.            *)
LEMMA OwedStill ==
    ASSUME UNCHANGED <<sys, call, data_elem>>
    PROVE  (\A x : Owed(x)' <=> Owed(x)) /\ \A v : OthersSame(v)
<1>1. \A x : Owed(x)' <=> Owed(x)
  BY DEF Owed, Succeeds
<1> QED
  BY <1>1 DEF OthersSame

(* The element goes into the FIFO.                                         *)
LEMMA StoreFlow ==
    ASSUME FlowInv, NEW u, Actor(u), NEW d, Loses(u, d), Store(d),
           UNCHANGED <<call, untouched, free_list>>
    PROVE  FlowStep /\ FlowTypes'
<1>0. /\ CallsInv /\ FlowTypes /\ OnePlace(Where, Pipe) /\ untouched /\ RingOK(dque)
      /\ VainOK(sys, dque)
  BY DEF FlowInv, BuffersOK, FlowTypes
<1>1. u \in Users /\ (u \in Tasks => ~Owed(u))
  BY <1>0, ActorIs
<1>2. /\ ~FifoFull(dque) /\ dque' = dque_fifo_write(dque, d)
      /\ UNCHANGED <<sys, data_elem>>
  BY DEF Store
<1>3. /\ held' \in [Users -> SUBSET Data] /\ d \in held[u] /\ d \in Data /\ d \in Values
      /\ held' = [held EXCEPT ![u] = @ \ {d}]
  BY <1>0, <1>1, LosesTyped
<1>4. (\A x : Owed(x)' <=> Owed(x)) /\ OthersSame(u)
  BY <1>2, OwedStill
<1>5. Where[d] = {u} /\ Where' = [Where EXCEPT ![d] = {}]
  BY <1>0, <1>1, <1>3, <1>4, WhereLost
<1>6. sys.wait[SendQueue] = <<>>
  BY <1>0, <1>2 DEF VainOK
<1>7. Pipe' = Append(Pipe, d)
  BY <1>0, <1>2, <1>3, <1>6, PipeStore, PipeNow
<1>8. RingOK(dque')
  BY <1>0, <1>2, <1>3, WriteIs
<1>9. FlowTypes'
  BY <1>0, <1>2, <1>3, <1>4, <1>8 DEF FlowTypes
<1> QED
  BY <1>0, <1>1, <1>3, <1>5, <1>7, <1>9, StepPut


(* Nothing goes into the pipe or out of it.                                *)
LEMMA PipeKept ==
    ASSUME CallsInv, FlowTypes, data_elem' \in [Tasks -> Values], UNCHANGED dque,
           sys'.wait[SendQueue] = sys.wait[SendQueue], NEW v,
           \A x \in Tasks \ {v} : data_elem'[x] = data_elem[x],
           ~WaitsIn(sys, v, SendQueue)
    PROVE  Pipe' = Pipe
<1> DEFINE s == sys.wait[SendQueue]
           S == {x \in Tasks : WaitsIn(sys, x, SendQueue)}
           e == data_elem
           r == data_elem'
<1>0. Sound(sys, {}) /\ sys.pwait[TimerTask] = NoQueue /\ SendQueue \in WaitQueues
  BY PlacesDiffer DEF CallsInv, IInv
<1>1. s \in Seq(Tasks) /\ Lists(s, S)
  BY <1>0, QueueLists
<1>2. \A i \in 1 .. Len(s) : s[i] \in S
  BY <1>1, ListsElements
<1>3. \A i \in 1 .. Len(s) : r[s[i]] = e[s[i]]
  BY <1>2
<1>4. RingOK(dque) /\ e \in [Tasks -> Values] /\ r \in [Tasks -> Values]
  BY DEF FlowTypes
<1>5. Pipe = PipeOf(dque, s, e) /\ Pipe' = PipeOf(dque, s, r)
  BY PipeNow
<1> HIDE DEF s, e, r
<1> QED
  BY <1>1, <1>3, <1>4, <1>5, PipeSame

(* The block goes to a task that waits to receive, or for a free block.    *)
LEMMA GiveFlow ==
    ASSUME FlowInv, NEW u, Actor(u), NEW d, Loses(u, d),
           NEW q \in {ReceiveQueue, MemQueue}, GiveHead(q, d),
           (Enter /\ ReleaseHead(q)) \/ (IrqEnabled /\ IReleaseHead(q)),
           UNCHANGED <<masked, created, revived, slices, booted, cursor, scanning, call>>,
           UNCHANGED <<untouched, free_list, dque>>
    PROVE  FlowStep /\ FlowTypes'
<1>7. PICK v : v = Head(sys.wait[q])
  OBVIOUS
<1>0. /\ CallsInv /\ FlowTypes /\ OnePlace(Where, Pipe) /\ untouched /\ RingOK(dque)
      /\ VainOK(sys, dque) /\ FreeOK(sys, free_list) /\ FifoOK(dque)
  BY DEF FlowInv, BuffersOK, FlowTypes
<1>1. u \in Users /\ (u \in Tasks => ~Owed(u) /\ ~Waiting(sys, u))
  BY <1>0, ActorIs
<1>2. sys.wait[q] # <<>> /\ data_elem' = [data_elem EXCEPT ![v] = d]
  BY <1>7 DEF GiveHead
<1>3. /\ q \in WaitQueues /\ q \in {SendQueue, ReceiveQueue, MemQueue} /\ q # SendQueue
      /\ SendQueue \in WaitQueues
  BY PlacesDiffer
<1>4. /\ held' \in [Users -> SUBSET Data] /\ d \in held[u] /\ d \in Data /\ d \in Values
      /\ held' = [held EXCEPT ![u] = @ \ {d}]
  BY <1>0, <1>1, LosesTyped
<1>5. WaitsIn(sys, v, q)
  BY <1>0, <1>2, <1>3, <1>7, HeadWaits
<1>6. sys'.wait = [sys.wait EXCEPT ![q] = Tail(@)]
  BY <1>0, <1>2, <1>3, HeadQueues
<1>8. /\ v \in Tasks /\ Waiting(sys, v) /\ ~Owed(v) /\ Owed(v)'
      /\ \A x \in Tasks \ {v} : Owed(x)' <=> Owed(x)
  BY <1>0, <1>2, <1>3, <1>7, OwedHead
<1>9. /\ data_elem' \in [Tasks -> Values] /\ data_elem'[v] = d
      /\ \A x \in Tasks \ {v} : data_elem'[x] = data_elem[x]
  BY <1>0, <1>2, <1>4, <1>8 DEF FlowTypes
<1>10. OthersSame(v) /\ u # v /\ v \in Users
  BY <1>1, <1>8, <1>9, UsersAre DEF OthersSame
<1>11. Where[d] = {u} /\ Where' = [Where EXCEPT ![d] = {v}]
  BY <1>0, <1>1, <1>4, <1>8, <1>9, <1>10, WhereLost
<1>12. Pipe' = Pipe
  <2>1. sys'.wait[SendQueue] = sys.wait[SendQueue]
    <3>1. sys.wait \in [WaitQueues -> Seq(AllTasks)]
      BY <1>0, <1>3, QueueLists DEF CallsInv, IInv
    <3> QED BY <1>3, <1>6, <3>1
  <2>2. ~WaitsIn(sys, v, SendQueue)
    BY <1>3, <1>5 DEF WaitsIn
  <2> QED BY <1>0, <1>9, <2>1, <2>2, PipeKept
<1>13. Pipe = <<>> \/ \A c \in Data : Where[c] # {MemQueue}
  <2>1. CASE q = ReceiveQueue
    BY <1>0, <1>2, <2>1, PipeEmpty DEF VainOK
  <2>2. CASE q = MemQueue
    <3>1. free_list = <<>>
      BY <1>0, <1>2, <2>2 DEF FreeOK
    <3>2. \A c : ~Contains(free_list, c)
      BY <3>1 DEF Contains
    <3>3. \A c : ~Owns(MemQueue, c)
      BY <3>2, UsersAre DEF Owns, Users
    <3> QED BY <3>3, WhereIs
  <2> QED BY <2>1, <2>2
<1>14. FlowTypes'
  BY <1>0, <1>4, <1>8, <1>9 DEF FlowTypes
<1> QED
  BY <1>0, <1>1, <1>4, <1>10, <1>11, <1>12, <1>13, <1>14, StepPass

(* The sender waits.                                                       *)
LEMMA BlockSendFlow ==
    ASSUME FlowInv, Enter, NEW d, Loses(sys.curr, d), NEW timeout \in Timeouts,
           data_elem' = [data_elem EXCEPT ![sys.curr] = d],
           Block(SendQueue, "wsend", timeout),
           UNCHANGED <<otherVars, untouched, dque, free_list>>
    PROVE  FlowStep /\ FlowTypes'
<1>12. PICK u : u = sys.curr
  OBVIOUS
<1>0. /\ CallsInv /\ FlowTypes /\ OnePlace(Where, Pipe) /\ untouched /\ RingOK(dque)
      /\ data_elem \in [Tasks -> Values]
  BY DEF FlowInv, BuffersOK, FlowTypes
<1>1. Actor(u) /\ u = sys.curr
  BY <1>12 DEF Actor
<1>2. "wsend" \in WaitReasons /\ "wsend" # "sleep" /\ SendQueue \in WaitQueues
  BY PlacesDiffer DEF WaitReasons
<1>3. Loses(u, d) /\ data_elem' = [data_elem EXCEPT ![u] = d]
  BY <1>12
<1>4. u \in Users /\ (u \in Tasks => ~Owed(u) /\ ~Waiting(sys, u))
  BY <1>0, <1>1, ActorIs
<1>5. /\ held' \in [Users -> SUBSET Data] /\ d \in held[u] /\ d \in Data /\ d \in Values
      /\ held' = [held EXCEPT ![u] = @ \ {d}]
  BY <1>0, <1>3, <1>4, LosesTyped
<1>6. /\ u \in Tasks /\ ~Owed(u) /\ ~Owed(u)'
      /\ \A x \in Tasks \ {u} : Owed(x)' <=> Owed(x)
  BY <1>0, <1>1, <1>2, OwedBlock
<1>7. sys'.wait = [sys.wait EXCEPT ![SendQueue] = Append(@, u)]
  BY <1>0, <1>1, <1>2, BlockQueues
<1>8. /\ data_elem' \in [Tasks -> Values]
      /\ \A x \in Tasks \ {u} : data_elem'[x] = data_elem[x]
  BY <1>0, <1>3, <1>5, <1>6
<1>9. Where[d] = {u} /\ Where' = [Where EXCEPT ![d] = {}]
  <2>1. OthersSame(u)
    BY <1>6, <1>8 DEF OthersSame
  <2> QED BY <1>0, <1>4, <1>5, <1>6, <2>1, WhereLost
<1>10. Pipe' = Append(Pipe, d)
  <2> DEFINE s == sys.wait[SendQueue]
             S == {x \in Tasks : WaitsIn(sys, x, SendQueue)}
  <2>1. /\ s \in Seq(Tasks) /\ Lists(s, S) /\ sys.wait \in [WaitQueues -> Seq(AllTasks)]
    BY <1>0, <1>2, QueueLists DEF CallsInv, IInv
  <2>2. sys'.wait[SendQueue] = Append(s, u)
    BY <1>2, <1>7, <2>1
  <2>3. u \notin S
    BY <1>4 DEF WaitsIn
  <2>4. \A i \in 1 .. Len(s) : s[i] # u
    BY <2>1, <2>3, ListsElements
  <2>5. Pipe = PipeOf(dque, s, data_elem) /\ Pipe' = PipeOf(dque, Append(s, u), data_elem')
    BY <2>2, PipeNow
  <2> HIDE DEF s, S
  <2>6. RingOK(dque) /\ data_elem \in [Tasks -> Values] /\ u \in Tasks /\ d \in Values
        /\ s \in Seq(Tasks)
    BY <1>0, <1>5, <1>6, <2>1
  <2>7. PipeOf(dque, Append(s, u), [data_elem EXCEPT ![u] = d])
          = Append(PipeOf(dque, s, data_elem), d)
    BY <2>4, <2>6, PipeBlock
  <2> QED BY <1>3, <2>5, <2>7
<1>11. FlowTypes'
  BY <1>0, <1>5, <1>6, <1>8 DEF FlowTypes
<1> QED
  BY <1>0, <1>4, <1>5, <1>9, <1>10, <1>11, StepPut


(* The oldest element is in no place but the pipe.                         *)
LEMMA HeadOfPipe ==
    ASSUME OnePlace(Where, Pipe), Pipe # <<>>, NEW b, b = Head(Pipe)
    PROVE  b \in Data /\ Where[b] = {} /\ \A x : ~Owns(x, b)
<1>1. Pipe \in Seq(Data) /\ Head(Pipe) = Pipe[1] /\ 1 \in 1 .. Len(Pipe)
  <2> DEFINE p == Pipe
  <2>1. p \in Seq(Data) /\ p # <<>>
    BY DEF OnePlace
  <2> HIDE DEF p
  <2>2. Head(p) = p[1] /\ Len(p) \in Nat /\ Len(p) # 0
    BY <2>1, EmptySeq, LenProperties, HeadTailProperties
  <2>3. 1 \in 1 .. Len(p)
    BY <2>2
  <2> QED BY <2>1, <2>2, <2>3 DEF p
<1>2. Contains(Pipe, b)
  BY <1>1 DEF Contains
<1> QED
  BY <1>2, NoOwner

(* A user takes the oldest element out of the pipe.                        *)
LEMMA TakeFlow ==
    ASSUME FlowInv, NEW u \in Users, NEW b, b = Head(Pipe), Gains(u, b), Pipe # <<>>,
           Pipe' = Tail(Pipe), RingOK(dque'), UNCHANGED <<untouched, data_elem, free_list>>,
           NEW v \in Users, v \in Tasks => ~Owed(v) /\ ~Owed(v)',
           \A x \in Tasks \ {v} : Owed(x)' <=> Owed(x)
    PROVE  FlowStep /\ FlowTypes'
<1>0. FlowTypes /\ OnePlace(Where, Pipe) /\ untouched
  BY DEF FlowInv
<1>1. b \in Data /\ Where[b] = {} /\ \A x : ~Owns(x, b)
  BY <1>0, HeadOfPipe
<1>2. held' \in [Users -> SUBSET Data] /\ held' = [held EXCEPT ![u] = @ \cup {b}]
  BY <1>0, <1>1, GainsTyped
<1>3. OthersSame(v)
  BY DEF OthersSame
<1>4. ~Contains(free_list', b)
  BY <1>1 DEF Owns
<1>5. Where' = [Where EXCEPT ![b] = {u}]
  BY <1>0, <1>1, <1>2, <1>3, <1>4, WhereGained
<1>6. FlowTypes'
  BY <1>0, <1>2 DEF FlowTypes, Users
<1> QED
  BY <1>0, <1>1, <1>5, <1>6, StepGet

(* The oldest element of the pipe is received.                             *)
LEMMA ReceiveFlow ==
    ASSUME FlowInv, NEW u, Actor(u), Gains(u, Received),
           (Enter /\ Receive) \/ (IrqEnabled /\ IReceive),
           UNCHANGED <<restVars, call, data_elem, free_list>>
    PROVE  FlowStep /\ FlowTypes'
<1>0. /\ CallsInv /\ FlowTypes /\ OnePlace(Where, Pipe) /\ untouched /\ RingOK(dque)
      /\ data_elem \in [Tasks -> Values] /\ Fetch /\ SendQueue \in WaitQueues
      /\ UNCHANGED <<masked, created, revived, slices, booted, cursor, scanning, call, untouched>>
  BY PlacesDiffer DEF FlowInv, BuffersOK, FlowTypes, Receive, IReceive, restVars
<1>1. u \in Users /\ (u \in Tasks => ~Owed(u))
  BY <1>0, ActorIs
<1>2. CASE sys.wait[SendQueue] = <<>> /\ UNCHANGED <<sys, pending, skipped>>
  <2>1. ~FifoEmpty(dque) /\ dque' = dque_fifo_read(dque) /\ Received = FifoHead(dque)
    BY <1>0, <1>2 DEF Fetch, Available, Received
  <2>2. /\ PipeOf(dque_fifo_read(dque), <<>>, data_elem) = Tail(PipeOf(dque, <<>>, data_elem))
        /\ PipeOf(dque, <<>>, data_elem) # <<>>
        /\ Head(PipeOf(dque, <<>>, data_elem)) = FifoHead(dque)
    BY <1>0, <2>1, PipeRead
  <2>3. Pipe' = Tail(Pipe) /\ Pipe # <<>> /\ Head(Pipe) = Received
    BY <1>2, <2>1, <2>2, PipeNow
  <2>4. RingOK(dque')
    BY <1>0, <2>1, ReadIs
  <2>5. \A x : Owed(x)' <=> Owed(x)
    BY <1>2, OwedStill
  <2> QED BY <1>0, <1>1, <2>3, <2>4, <2>5, TakeFlow
<1>3. CASE /\ sys.wait[SendQueue] # <<>>
           /\ (Enter /\ ReleaseHead(SendQueue)) \/ (IrqEnabled /\ IReleaseHead(SendQueue))
  <2> DEFINE s == sys.wait[SendQueue]
  <2>1. s \in Seq(Tasks) /\ sys.wait \in [WaitQueues -> Seq(AllTasks)] /\ s # <<>>
    BY <1>0, <1>3, QueueLists DEF CallsInv, IInv
  <2>2. PICK v : v = Head(s)
    OBVIOUS
  <2>3. /\ v \in Tasks /\ ~Owed(v) /\ ~Owed(v)'
        /\ \A x \in Tasks \ {v} : Owed(x)' <=> Owed(x)
    BY <1>0, <1>3, <2>2, OwedHead
  <2>4. sys'.wait = [sys.wait EXCEPT ![SendQueue] = Tail(@)]
    BY <1>0, <1>3, HeadQueues
  <2>5. sys'.wait[SendQueue] = Tail(s)
    BY <1>0, <2>1, <2>4
  <2>6. /\ Pipe = PipeOf(dque, s, data_elem)
        /\ Pipe' = PipeOf(dque', Tail(s), data_elem)
    BY <2>5, PipeNow
  <2>7. /\ dque' = IF FifoEmpty(dque) THEN dque
                   ELSE dque_fifo_write(dque_fifo_read(dque), data_elem[Head(s)])
        /\ Received = IF FifoEmpty(dque) THEN data_elem[Head(s)] ELSE FifoHead(dque)
    BY <1>0, <1>3 DEF Fetch, Received
  <2> HIDE DEF s
  <2>8. Pipe' = Tail(Pipe) /\ Pipe # <<>> /\ Head(Pipe) = Received /\ RingOK(dque')
    <3>1. CASE FifoEmpty(dque)
      <4>1. /\ PipeOf(dque, Tail(s), data_elem) = Tail(PipeOf(dque, s, data_elem))
            /\ PipeOf(dque, s, data_elem) # <<>>
            /\ Head(PipeOf(dque, s, data_elem)) = data_elem[Head(s)]
        BY <1>0, <2>1, <3>1, PipeDirect
      <4> QED BY <1>0, <2>6, <2>7, <3>1, <4>1
    <3>2. CASE ~FifoEmpty(dque)
      <4>0. PICK e : e = data_elem[Head(s)]
        OBVIOUS
      <4>1. dque' = dque_fifo_write(dque_fifo_read(dque), e)
        BY <2>7, <3>2, <4>0
      <4>2. /\ RingOK(dque')
            /\ PipeOf(dque', Tail(s), data_elem) = Tail(PipeOf(dque, s, data_elem))
            /\ PipeOf(dque, s, data_elem) # <<>>
            /\ Head(PipeOf(dque, s, data_elem)) = FifoHead(dque)
        BY <1>0, <2>1, <3>2, <4>0, <4>1, PipeTurn
      <4> QED BY <2>6, <2>7, <3>2, <4>2
    <3> QED BY <3>1, <3>2
  <2>9. v \in Users
    BY <2>3, UsersAre
  <2> QED BY <1>0, <1>1, <2>3, <2>8, <2>9, TakeFlow
<1> QED
  BY <1>2, <1>3 DEF Receive, IReceive


(* A service that waited returns, and its caller has the block if it got   *)
(* one, or could not send it.                                              *)
LEMMA ReturnFlow ==
    ASSUME FlowInv, NEW q \in {SendQueue, ReceiveQueue, MemQueue}, Return(q),
           GainsElem(IF q = SendQueue THEN Failed ELSE ~Failed),
           UNCHANGED <<dque, free_list>>
    PROVE  FlowStep /\ FlowTypes'
<1>9. PICK u : u = sys.curr
  OBVIOUS
<1>0. /\ CallsInv /\ FlowTypes /\ OnePlace(Where, Pipe) /\ untouched /\ RingOK(dque)
      /\ data_elem \in [Tasks -> Values] /\ held \in [Users -> SUBSET Data]
  BY DEF FlowInv, BuffersOK, FlowTypes
<1>1. /\ u \in Tasks /\ call[u] = Place("wait", q) /\ UNCHANGED <<sys, untouched>>
      /\ call' = [call EXCEPT ![u] = Outside]
      /\ data_elem' = [data_elem EXCEPT ![u] = NoData]
  BY <1>9 DEF Return, At, Goto
<1>2. ~Waiting(sys, u)
  <2>1. sys.state[u] = "runnable"
    BY <1>0, <1>9, RunningTask DEF Return, At, CallsInv
  <2> QED BY <2>1 DEF Waiting
<1>3. Owed(u) <=> IF q = SendQueue THEN Failed ELSE ~Failed
  BY <1>1, <1>2, <1>9, PlacesDiffer DEF Owed, Succeeds, Failed
<1>4. call'[u] = Outside /\ \A x \in Tasks \ {u} : call'[x] = call[x]
  BY <1>0, <1>1 DEF CallsInv
<1>5. ~Owed(u)'
  BY <1>4, NotOwedNext
<1>6. /\ data_elem' \in [Tasks -> Values]
      /\ \A x \in Tasks \ {u} : data_elem'[x] = data_elem[x]
  BY <1>0, <1>1 DEF Values
<1>7. OthersSame(u)
  <2>1. ASSUME NEW x \in Tasks \ {u} PROVE Owed(x)' <=> Owed(x)
    BY <1>1, <1>4 DEF Owed, Succeeds
  <2> QED BY <1>6, <2>1 DEF OthersSame
<1>8. Pipe' = Pipe
  <2>1. ~WaitsIn(sys, u, SendQueue)
    BY <1>2 DEF WaitsIn
  <2> QED BY <1>0, <1>1, <1>6, <2>1, PipeKept
<1>10. Where' = Where /\ held' \in [Users -> SUBSET Data]
  <2>1. CASE Owed(u)
    <3>1. held' = [held EXCEPT ![u] = @ \cup {data_elem[u]}] /\ data_elem[u] \in Data
      BY <1>0, <1>1, <1>3, <1>9, <2>1 DEF GainsElem, Gains, FlowTypes
    <3>2. held' \in [Users -> SUBSET Data]
      BY <1>0, <3>1
    <3> QED BY <1>0, <1>1, <1>5, <1>7, <2>1, <3>1, <3>2, WhereTaken
  <2>2. CASE ~Owed(u)
    <3>1. UNCHANGED held
      BY <1>3, <2>2 DEF GainsElem
    <3> QED BY <1>0, <1>5, <1>7, <2>2, <3>1, WhereStill
  <2> QED BY <2>1, <2>2
<1>11. FlowTypes'
  <2>1. \A t \in Tasks : Owed(t)' => data_elem'[t] \in Data
    BY <1>0, <1>5, <1>7 DEF OthersSame, FlowTypes
  <2> QED BY <1>0, <1>6, <1>10, <2>1 DEF FlowTypes
<1> QED
  BY <1>1, <1>8, <1>10, <1>11, StepStill

(* A task starts to wait to receive, or for a free block.                  *)
LEMMA BlockFlow ==
    ASSUME FlowInv, Enter, NEW q \in {ReceiveQueue, MemQueue},
           NEW reason \in WaitReasons, reason # "sleep",
           NEW timeout \in Timeouts, Block(q, reason, timeout),
           UNCHANGED <<otherVars, data_elem, held, untouched, dque, free_list>>
    PROVE  FlowStep /\ FlowTypes'
<1>9. PICK u : u = sys.curr
  OBVIOUS
<1>0. /\ CallsInv /\ FlowTypes /\ OnePlace(Where, Pipe) /\ untouched /\ RingOK(dque)
      /\ data_elem \in [Tasks -> Values]
  BY DEF FlowInv, BuffersOK, FlowTypes
<1>1. q \in WaitQueues /\ q # SendQueue /\ SendQueue \in WaitQueues
  BY PlacesDiffer
<1>2. /\ u \in Tasks /\ ~Owed(u) /\ ~Owed(u)'
      /\ \A x \in Tasks \ {u} : Owed(x)' <=> Owed(x)
  BY <1>0, <1>1, <1>9, OwedBlock
<1>3. OthersSame(u)
  BY <1>2 DEF OthersSame
<1>4. Where' = Where
  BY <1>2, <1>3, WhereStill
<1>5. sys'.wait = [sys.wait EXCEPT ![q] = Append(@, sys.curr)]
  BY <1>0, <1>1, BlockQueues
<1>6. Pipe' = Pipe
  <2>1. sys.wait \in [WaitQueues -> Seq(AllTasks)]
    BY <1>0, <1>1, QueueLists DEF CallsInv, IInv
  <2>2. sys'.wait[SendQueue] = sys.wait[SendQueue]
    BY <1>1, <1>5, <2>1
  <2> QED BY <2>2, PipeNow
<1>7. FlowTypes'
  BY <1>0, <1>2 DEF FlowTypes
<1> QED
  BY <1>4, <1>6, <1>7, StepStill


-----------------------------------------------------------------------------
(* The free list of the pool                                               *)

(* A block is in front of the free list.                                   *)
LEMMA ListsCons ==
    ASSUME NEW U, NEW seq \in Seq(U), NEW S, Lists(seq, S), NEW e \in U, e \notin S
    PROVE  <<e>> \o seq \in Seq(U) /\ Lists(<<e>> \o seq, S \cup {e})
<1> DEFINE r == <<e>> \o seq
           n == Len(seq)
<1>1. /\ <<e>> \in Seq(U) /\ Len(<<e>>) = 1 /\ <<e>>[1] = e /\ n \in Nat
  BY LenProperties
<1>2. r \in Seq(U) /\ Len(r) = n + 1
  BY <1>1, ConcatProperties
<1>3. r[1] = e /\ \A i \in 2 .. n + 1 : r[i] = seq[i - 1]
  BY <1>1, ConcatProperties
<1>4. /\ \A i \in 1 .. n : seq[i] \in S
      /\ \A x \in S : \E i \in 1 .. n : seq[i] = x
      /\ \A i, j \in 1 .. n : seq[i] = seq[j] => i = j
  BY ListsElements
<1> HIDE DEF r, n
<1>5. \A i \in 1 .. Len(r) : r[i] \in S \cup {e}
  <2>1. ASSUME NEW i \in 1 .. n + 1 PROVE i = 1 \/ (i \in 2 .. n + 1 /\ i - 1 \in 1 .. n)
    BY <1>1
  <2> QED BY <1>2, <1>3, <1>4, <2>1
<1>6. ASSUME NEW x \in S \cup {e} PROVE \E i \in 1 .. Len(r) : r[i] = x
  <2>1. CASE x = e
    BY <1>1, <1>2, <1>3, <2>1
  <2>2. CASE x \in S
    <3>1. PICK i \in 1 .. n : seq[i] = x
      BY <1>4, <2>2
    <3>2. i + 1 \in 2 .. n + 1 /\ i + 1 \in 1 .. n + 1 /\ (i + 1) - 1 = i
      BY <1>1
    <3>3. r[i + 1] = x
      BY <1>3, <3>1, <3>2
    <3> QED BY <1>2, <3>2, <3>3
  <2> QED BY <2>1, <2>2
<1>7. ASSUME NEW i \in 1 .. Len(r), NEW j \in 1 .. Len(r), r[i] = r[j] PROVE i = j
  <2>1. /\ i = 1 \/ (i \in 2 .. n + 1 /\ i - 1 \in 1 .. n)
        /\ j = 1 \/ (j \in 2 .. n + 1 /\ j - 1 \in 1 .. n)
    BY <1>1, <1>2
  <2>2. CASE i = 1 \/ j = 1
    BY <1>3, <1>4, <1>7, <2>1, <2>2
  <2>3. CASE i # 1 /\ j # 1
    <3>1. i - 1 = j - 1
      BY <1>3, <1>4, <1>7, <2>1, <2>3
    <3> QED BY <1>1, <2>1, <2>3, <3>1
  <2> QED BY <2>2, <2>3
<1>8. Lists(r, S \cup {e})
  BY <1>2, <1>5, <1>6, <1>7, ListsIntro
<1> QED
  BY <1>2, <1>8 DEF r

(* A list without repetition that lacks an element is shorter than the set *)
(* is large.                                                               *)
LEMMA ListsShort ==
    ASSUME NEW U, IsFiniteSet(U), NEW seq \in Seq(U), NEW S, Lists(seq, S), NEW e \in U,
           e \notin S
    PROVE  Len(seq) < Cardinality(U)
<1> DEFINE V == U \ {e}
           n == Len(seq)
<1>1. n \in Nat /\ \A i \in 1 .. n : seq[i] \in U /\ seq[i] \in S
  BY LenProperties, ElementOfSeq, ListsElements
<1>2. seq \in [1 .. n -> V]
  <2>1. seq \in [1 .. n -> U]
    BY LenProperties
  <2> QED BY <1>1, <2>1
<1>3. IsFiniteSet(V) /\ Cardinality(V) = Cardinality(U) - 1 /\ Cardinality(U) \in Nat
  BY FS_RemoveElement, FS_CardinalityType
<1>4. IsFiniteSet(1 .. n) /\ Cardinality(1 .. n) = n
  <2> HIDE DEF n
  <2>1. 1 \in Int /\ n \in Int
    BY <1>1
  <2>2. Cardinality(1 .. n) = IF 1 > n THEN 0 ELSE n - 1 + 1
    BY <2>1, FS_Interval, ZenonT(30)
  <2>3. IsFiniteSet(1 .. n)
    BY <2>1, FS_Interval, ZenonT(30)
  <2> QED BY <1>1, <2>2, <2>3
<1>5. \A i, j \in 1 .. n : seq[i] = seq[j] => i = j
  BY ListsElements
<1> HIDE DEF V, n
<1>6. ~(Cardinality(V) < n)
  <2> SUFFICES ASSUME Cardinality(V) < n PROVE FALSE
    OBVIOUS
  <2>1. \E i, j \in 1 .. n : i # j /\ seq[i] = seq[j]
    BY <1>2, <1>3, <1>4, FS_PigeonHole
  <2> QED BY <1>5, <2>1
<1> QED
  BY <1>1, <1>3, <1>6 DEF n

(* A sequence contains the elements of the set it lists.                   *)
LEMMA ListsContains ==
    ASSUME NEW U, NEW seq \in Seq(U), NEW S, Lists(seq, S), NEW e
    PROVE  Contains(seq, e) <=> e \in S
BY ListsElements DEF Contains

LEMMA ListsToSet ==
    ASSUME NEW seq, NEW S, Lists(seq, S)
    PROVE  ToSet(seq) = S
BY DEF Lists


(* A user gets the first free block.                                       *)
LEMMA GetFlow ==
    ASSUME FlowInv, NEW u, Actor(u), Gains(u, FirstFree), GetFree,
           UNCHANGED <<data_elem, untouched, dque>>
    PROVE  FlowStep /\ FlowTypes'
<1>9. PICK b : b = FirstFree
  OBVIOUS
<1>0. /\ CallsInv /\ FlowTypes /\ OnePlace(Where, Pipe) /\ untouched
      /\ free_list \in Seq(Data) /\ Lists(free_list, ToSet(free_list))
  BY DEF FlowInv, BuffersOK, FlowTypes
<1>1. u \in Users /\ (u \in Tasks => ~Owed(u))
  BY <1>0, ActorIs
<1>2. free_list # <<>> /\ free_list' = Tail(free_list) /\ UNCHANGED <<sys, call>>
  BY DEF GetFree
<1>3. (\A x : Owed(x)' <=> Owed(x)) /\ OthersSame(u)
  BY <1>2, OwedStill
<1>4. /\ b \in ToSet(free_list) /\ free_list' \in Seq(Data)
      /\ Lists(free_list', ToSet(free_list) \ {b})
  BY <1>0, <1>2, <1>9, ListsTail DEF FirstFree
<1>5. /\ Contains(free_list, b) /\ ~Contains(free_list', b)
      /\ \A d \in Data \ {b} : Contains(free_list', d) <=> Contains(free_list, d)
  BY <1>0, <1>4, ListsContains
<1>6. b \in Data
  BY <1>0, <1>5, ElementOfSeq DEF Contains
<1>7. Where[b] = {MemQueue} /\ \A x : Owns(x, b) => x = MemQueue
  <2>1. Owns(MemQueue, b)
    BY <1>5 DEF Owns
  <2> QED BY <1>0, <1>6, <2>1, OnlyOwner, WhereIs
<1>8. held' \in [Users -> SUBSET Data] /\ held' = [held EXCEPT ![u] = @ \cup {b}]
  BY <1>0, <1>1, <1>6, <1>9, GainsTyped
<1>10. Where' = [Where EXCEPT ![b] = {u}]
  BY <1>0, <1>1, <1>3, <1>5, <1>6, <1>7, <1>8, WhereGained
<1>11. Pipe' = Pipe
  BY <1>2, PipeNow
<1>12. FlowTypes'
  <2>1. Lists(free_list', ToSet(free_list'))
    BY <1>4, ListsToSet
  <2> QED BY <1>0, <1>3, <1>4, <1>8, <2>1 DEF FlowTypes
<1> QED
  BY <1>0, <1>1, <1>6, <1>7, <1>10, <1>11, <1>12, StepAlloc

(* A user gives a block back to the free list, which has room for it.      *)
LEMMA PutFreeFlow ==
    ASSUME FlowInv, NEW u, Actor(u), NEW d, Loses(u, d), PutFree(d),
           UNCHANGED <<call, untouched, dque>>
    PROVE  FlowStep /\ FlowTypes'
<1>0. /\ CallsInv /\ FlowTypes /\ OnePlace(Where, Pipe) /\ untouched
      /\ free_list \in Seq(Data) /\ Lists(free_list, ToSet(free_list))
  BY DEF FlowInv, BuffersOK, FlowTypes
<1>1. u \in Users /\ (u \in Tasks => ~Owed(u))
  BY <1>0, ActorIs
<1>2. free_list' = fm_put(free_list, d) /\ UNCHANGED <<sys, data_elem>>
  BY DEF PutFree
<1>3. /\ held' \in [Users -> SUBSET Data] /\ d \in held[u] /\ d \in Data /\ d \in Values
      /\ held' = [held EXCEPT ![u] = @ \ {d}]
  BY <1>0, <1>1, LosesTyped
<1>4. (\A x : Owed(x)' <=> Owed(x)) /\ OthersSame(u)
  BY <1>2, OwedStill
<1>5. d \notin ToSet(free_list)
  <2>1. Owns(u, d)
    BY <1>1, <1>3 DEF Owns, Users
  <2>2. \A x : Owns(x, d) => x = u
    BY <1>0, <1>3, <2>1, OnlyOwner, WhereIs
  <2>3. ~Contains(free_list, d)
    BY <1>1, <2>2, UsersAre DEF Owns
  <2> QED BY <1>0, <2>3, ListsContains
<1>6. Len(free_list) < num_blocks
  BY <1>0, <1>3, <1>5, ListsShort, BuffersAssumption
<1>7. free_list' = <<d>> \o free_list
  BY <1>2, <1>6 DEF fm_put
<1>8. /\ free_list' \in Seq(Data) /\ Lists(free_list', ToSet(free_list) \cup {d})
  BY <1>0, <1>3, <1>5, <1>7, ListsCons
<1>9. /\ Contains(free_list', d)
      /\ \A e \in Data \ {d} : Contains(free_list', e) <=> Contains(free_list, e)
  BY <1>0, <1>8, ListsContains
<1>10. Where[d] = {u} /\ Where' = [Where EXCEPT ![d] = {MemQueue}]
  BY <1>0, <1>1, <1>3, <1>4, <1>9, WhereFreed
<1>11. Pipe' = Pipe
  BY <1>2, PipeNow
<1>12. FlowTypes'
  <2>1. Lists(free_list', ToSet(free_list'))
    BY <1>8, ListsToSet
  <2> QED BY <1>0, <1>2, <1>3, <1>4, <1>8, <2>1 DEF FlowTypes
<1> QED
  BY <1>0, <1>1, <1>3, <1>10, <1>11, <1>12, StepFree


-----------------------------------------------------------------------------
(* The steps of the kernel                                                 *)

(* A sequence without its k-th element lists the others.                   *)
LEMMA ListsWithout ==
    ASSUME NEW U, NEW seq \in Seq(U), NEW S, Lists(seq, S), NEW k \in 1 .. Len(seq),
           NEW r \in Seq(U), Len(r) = Len(seq) - 1,
           \A i \in 1 .. Len(seq) - 1 : r[i] = IF i < k THEN seq[i] ELSE seq[i + 1]
    PROVE  Lists(r, S \ {seq[k]})
<1> DEFINE z == RemoveFirst(seq, seq[k])
<1>1. /\ z \in Seq(U) /\ Len(z) = Len(seq) - 1
      /\ \A i \in 1 .. Len(seq) - 1 : z[i] = IF i < k THEN seq[i] ELSE seq[i + 1]
  BY ListsGap
<1>2. Lists(z, S \ {seq[k]})
  BY ListsRemove
<1> HIDE DEF z
<1>3. r = z
  BY <1>1, SeqEqual
<1> QED
  BY <1>2, <1>3

(* Unless a task stops to wait to send, a step of the kernel moves no      *)
(* block; a sender whose time is over gets its block back, from behind the *)
(* full FIFO.                                                              *)
LEMMA KernelFlow ==
    ASSUME NoRelease, FlowInv, KernelStep,
           UNCHANGED <<transferVars, dqueVars, memVars, held>>
    PROVE  FlowStep /\ FlowTypes'
<1> DEFINE c == sys.wait[SendQueue]
           d == sys'.wait[SendQueue]
           S == {x \in Tasks : WaitsIn(sys, x, SendQueue)}
           R == {x \in Tasks : WaitsIn(sys', x, SendQueue)}
<1>0. /\ CallsInv /\ FlowTypes /\ OnePlace(Where, Pipe) /\ untouched /\ RingOK(dque)
      /\ data_elem \in [Tasks -> Values] /\ VainOK(sys, dque)
      /\ UNCHANGED <<data_elem, untouched, dque, free_list, held>>
      /\ SendQueue \in WaitQueues
  BY PlacesDiffer DEF FlowInv, BuffersOK, FlowTypes, transferVars, dqueVars, memVars
<1>1. CallsInv'
  BY <1>0, KernelCalls
<1>2. c \in Seq(Tasks) /\ Lists(c, S)
  BY <1>0, QueueLists DEF CallsInv, IInv
<1>3. d \in Seq(Tasks) /\ Lists(d, R)
  BY <1>0, <1>1, QueueLists DEF CallsInv, IInv
<1>4. \A x \in Tasks : (x \in S => ~Owed(x)) /\ (Owed(x)' <=> Owed(x) \/ (x \in S \ R))
  BY <1>0, OwedKernel
<1>5. Pipe = PipeOf(dque, c, data_elem) /\ Pipe' = PipeOf(dque, d, data_elem)
  BY <1>0, PipeNow
<1>6. \/ d = c
      \/ \E k \in 1 .. Len(c) :
           /\ d \in Seq(Tasks) /\ Len(d) = Len(c) - 1
           /\ \A i \in 1 .. Len(c) - 1 : d[i] = IF i < k THEN c[i] ELSE c[i + 1]
  BY <1>0, KernelQueue
<1> HIDE DEF c, d, S, R
<1>7. CASE d = c
  <2>1. S = R
    BY <1>2, <1>3, <1>7, ListsToSet
  <2>2. \A x \in Tasks : Owed(x)' <=> Owed(x)
    BY <1>4, <2>1
  <2>3. \A v : OthersSame(v)
    BY <1>0, <2>2 DEF OthersSame
  <2>4. Where' = Where
    BY <1>0, <2>3, UsersAre, WhereStill
  <2>5. Pipe' = Pipe
    BY <1>5, <1>7
  <2>6. FlowTypes'
    BY <1>0, <2>2 DEF FlowTypes
  <2> QED BY <1>0, <2>4, <2>5, <2>6, StepStill
<1>8. ASSUME NEW k \in 1 .. Len(c), Len(d) = Len(c) - 1,
             \A i \in 1 .. Len(c) - 1 : d[i] = IF i < k THEN c[i] ELSE c[i + 1]
      PROVE  FlowStep /\ FlowTypes'
  <2>1. PICK v : v = c[k]
    OBVIOUS
  <2>2. v \in S /\ v \in Tasks
    BY <1>2, <2>1, ListsElements, ElementOfSeq
  <2>3. R = S \ {v}
    <3>1. Lists(d, S \ {c[k]})
      BY <1>2, <1>3, <1>8, ListsWithout
    <3> QED BY <1>3, <2>1, <3>1, ListsToSet
  <2>4. ~Owed(v) /\ Owed(v)' /\ \A x \in Tasks \ {v} : Owed(x)' <=> Owed(x)
    BY <1>4, <2>2, <2>3
  <2>5. OthersSame(v)
    BY <1>0, <2>4 DEF OthersSame
  <2>6. c # <<>> /\ FifoFull(dque)
    <3>1. c # <<>>
      BY <1>2, <2>2, ListsEmpty
    <3> QED BY <1>0, <3>1 DEF VainOK, c
  <2>7. FifoLen(dque) = FifoCapacity
    BY <1>0, <2>6, FifoIs
  <2> DEFINE i == FifoCapacity + k
  <2>8. i \in 1 .. Len(Pipe) /\ Pipe[i] = data_elem[v] /\ Pipe' = RemoveAt(Pipe, i)
    BY <1>0, <1>2, <1>3, <1>5, <1>8, <2>1, <2>7, PipeGap
  <2>9. PICK b : b = data_elem[v]
    OBVIOUS
  <2>10. b \in Data /\ Where[b] = {} /\ \A x : ~Owns(x, b)
    <3>1. Contains(Pipe, b)
      BY <2>8, <2>9 DEF Contains
    <3> QED BY <1>0, <3>1, NoOwner
  <2>11. Where' = [Where EXCEPT ![b] = {v}]
    BY <1>0, <2>2, <2>4, <2>5, <2>9, <2>10, WhereBack
  <2>12. FlowTypes'
    <3>1. \A t \in Tasks : Owed(t)' => data_elem'[t] \in Data
      BY <1>0, <2>4, <2>9, <2>10 DEF FlowTypes
    <3> QED BY <1>0, <3>1 DEF FlowTypes
  <2>13. i \in FifoCapacity + 1 .. Len(Pipe) /\ v \in Users
    <3>1. FifoCapacity \in Nat /\ k \in Nat /\ k >= 1
      BY <1>2, LenProperties, DqueAssumption DEF FifoCapacity
    <3>2. Len(Pipe) \in Nat
      BY <1>0, LenProperties DEF OnePlace
    <3> HIDE DEF i
    <3>3. i = FifoCapacity + k
      BY DEF i
    <3>4. i \in FifoCapacity + 1 .. Len(Pipe)
      BY <2>8, <3>1, <3>2, <3>3
    <3> QED BY <2>2, <3>4, UsersAre
  <2> HIDE DEF i
  <2> QED BY <1>0, <2>8, <2>9, <2>10, <2>11, <2>12, <2>13, StepTakeBack
<1> QED
  BY <1>6, <1>7, <1>8


-----------------------------------------------------------------------------
(* Every step                                                              *)

(* Whoever begins to delete the queue or the pool ends what is promised;   *)
(* before that nobody is in a delete service.                              *)
LEMMA DeleteFlow ==
    ASSUME FlowInv, NEW q, NEW p, p.at \in {"delete", "remove", "finish"},
           DeleteBegin(q) \/ At(p), UNCHANGED <<held, dque, free_list>>
    PROVE  FlowStep /\ ~untouched'
<1>0. /\ CallsInv /\ untouched
      /\ \A t \in Tasks : call[t].at \in {"none", "wait"}
  BY DEF FlowInv, BuffersOK
<1>1. ~At(p)
  BY <1>0 DEF At
<1>2. /\ Enter /\ UNCHANGED <<sys, data_elem>> /\ untouched' = FALSE
      /\ call' = [call EXCEPT ![sys.curr] = Place("delete", q)]
  BY <1>1 DEF DeleteBegin, Goto
<1>3. PICK u : u = sys.curr
  OBVIOUS
<1>4. u \in Tasks /\ ~Owed(u)
  BY <1>2, <1>3, NotOwed DEF Enter, At
<1>5. /\ call'[u] = Place("delete", q)
      /\ \A x \in Tasks \ {u} : call'[x] = call[x]
  BY <1>0, <1>2, <1>3, <1>4 DEF CallsInv
<1>6. ~Owed(u)'
  BY <1>5 DEF Owed, Succeeds, Place
<1>7. OthersSame(u)
  BY <1>2, <1>5 DEF OthersSame, Owed, Succeeds
<1>8. Where' = Where
  BY <1>4, <1>6, <1>7, WhereStill
<1>9. Pipe' = Pipe
  BY <1>2, PipeNow
<1> QED
  BY <1>0, <1>2, <1>8, <1>9 DEF FlowStep, Flow!FlowNext, Flow!Close

(* Sending, by a task or a handler                                         *)
LEMMA SendFlow ==
    ASSUME FlowInv, NEW u, Actor(u), NEW d, Loses(u, d),
           (Enter /\ Send(d)) \/ (IrqEnabled /\ ISend(d)),
           UNCHANGED <<restVars, call, free_list>>
    PROVE  FlowStep /\ FlowTypes'
<1>0. UNCHANGED <<masked, created, revived, slices, booted, cursor, scanning, call, untouched, free_list>>
  BY DEF restVars
<1>1. CASE Store(d)
  BY <1>0, <1>1, StoreFlow
<1>2. CASE /\ GiveHead(ReceiveQueue, d) /\ UNCHANGED dque
           /\ (Enter /\ ReleaseHead(ReceiveQueue)) \/ (IrqEnabled /\ IReleaseHead(ReceiveQueue))
  BY <1>0, <1>2, GiveFlow
<1> QED
  BY <1>1, <1>2 DEF Send, ISend

(* The steps of the data queue                                             *)
LEMMA QueueStepFlow ==
    ASSUME FlowInv, QueueStep
    PROVE  FlowStep /\ (untouched' => FlowTypes')
<1>0. UNCHANGED free_list
  BY DEF QueueStep, memVars
<1>1. ASSUME NEW d, NEW timeout \in Timeouts, Enter, Loses(sys.curr, d),
             tn_queue_send(d, timeout)
      PROVE  FlowStep /\ FlowTypes'
  <2>0. PICK u : u = sys.curr
    OBVIOUS
  <2>1. Actor(u) /\ Loses(u, d)
    BY <1>1, <2>0 DEF Actor
  <2>2. CASE Send(d) /\ UNCHANGED call
    <3>1. UNCHANGED <<restVars, call, free_list>>
      BY <1>0, <1>1, <2>2 DEF tn_queue_send
    <3> QED BY <1>1, <2>1, <2>2, <3>1, SendFlow
  <2>3. CASE /\ data_elem' = [data_elem EXCEPT ![sys.curr] = d]
             /\ Block(SendQueue, "wsend", timeout) /\ UNCHANGED <<dque, skipped>>
    <3>1. UNCHANGED <<otherVars, untouched, dque, free_list>>
      BY <1>0, <1>1, <2>3 DEF tn_queue_send, otherVars, restVars
    <3> QED BY <1>1, <2>3, <3>1, BlockSendFlow
  <2> QED BY <1>1, <2>2, <2>3 DEF tn_queue_send
<1>2. ASSUME NEW d, Enter, Loses(sys.curr, d), tn_queue_send_polling(d)
      PROVE  FlowStep /\ FlowTypes'
  <2>0. PICK u : u = sys.curr
    OBVIOUS
  <2>1. Actor(u) /\ Loses(u, d) /\ Send(d) /\ UNCHANGED <<restVars, call, free_list>>
    BY <1>0, <1>2, <2>0 DEF Actor, tn_queue_send_polling
  <2> QED BY <1>2, <2>1, SendFlow
<1>3. ASSUME NEW d, IrqEnabled, Loses(Isr, d), tn_queue_isend_polling(d)
      PROVE  FlowStep /\ FlowTypes'
  <2>1. Actor(Isr) /\ ISend(d) /\ UNCHANGED <<restVars, call, free_list>>
    BY <1>0, <1>3 DEF Actor, tn_queue_isend_polling
  <2> QED BY <1>3, <2>1, SendFlow
<1>4. CASE SendReturn /\ GainsElem(Failed)
  BY <1>0, <1>4, ReturnFlow DEF SendReturn, dqueVars
<1>5. CASE ReceiveReturn /\ GainsElem(~Failed)
  BY <1>0, <1>5, ReturnFlow, PlacesDiffer DEF ReceiveReturn, dqueVars
<1>6. ASSUME NEW timeout \in Timeouts, tn_queue_receive(timeout),
             IF Available THEN Gains(sys.curr, Received) ELSE UNCHANGED held
      PROVE  FlowStep /\ FlowTypes'
  <2>0. PICK u : u = sys.curr
    OBVIOUS
  <2>1. Enter /\ Actor(u)
    BY <1>6, <2>0 DEF Actor, tn_queue_receive
  <2>2. CASE Receive /\ UNCHANGED call
    <3>1. Gains(u, Received) /\ UNCHANGED <<restVars, call, data_elem, free_list>>
      BY <1>0, <1>6, <2>0, <2>2 DEF tn_queue_receive, Receive, Fetch
    <3> QED BY <2>1, <2>2, <3>1, ReceiveFlow
  <2>3. CASE /\ ~Available /\ Block(ReceiveQueue, "wreceive", timeout)
             /\ UNCHANGED <<dque, skipped>>
    <3>1. UNCHANGED <<otherVars, data_elem, held, untouched, dque, free_list>>
      BY <1>0, <1>6, <2>3 DEF tn_queue_receive, otherVars, restVars
    <3>2. "wreceive" \in WaitReasons /\ "wreceive" # "sleep"
      BY DEF WaitReasons
    <3> QED BY <2>1, <2>3, <3>1, <3>2, BlockFlow
  <2> QED BY <1>6, <2>2, <2>3 DEF tn_queue_receive
<1>7. CASE tn_queue_receive_polling /\ Gains(sys.curr, Received)
  <2>0. PICK u : u = sys.curr
    OBVIOUS
  <2>1. /\ Enter /\ Actor(u) /\ Gains(u, Received) /\ Receive
        /\ UNCHANGED <<restVars, call, data_elem, free_list>>
    BY <1>0, <1>7, <2>0 DEF Actor, tn_queue_receive_polling
  <2> QED BY <2>1, ReceiveFlow
<1>8. CASE tn_queue_ireceive /\ Gains(Isr, Received)
  <2>1. /\ IrqEnabled /\ Actor(Isr) /\ IReceive
        /\ UNCHANGED <<restVars, call, data_elem, free_list>>
    BY <1>0, <1>8 DEF Actor, tn_queue_ireceive
  <2> QED BY <1>8, <2>1, ReceiveFlow
<1>9. CASE tn_queue_delete /\ UNCHANGED held
  <2>1. UNCHANGED <<held, dque, free_list>>
    BY <1>0, <1>9 DEF tn_queue_delete, dqueVars
  <2>2. \/ DeleteBegin(SendQueue)
        \/ \E p : p.at \in {"delete", "remove", "finish"} /\ At(p)
    BY <1>9 DEF tn_queue_delete, DeleteCheck, DeleteRemove, DeleteFinish, Place
  <2>3. Place("delete", SendQueue).at = "delete"
    BY DEF Place
  <2> QED BY <2>1, <2>2, <2>3, DeleteFlow
<1> QED
  BY <1>1, <1>2, <1>3, <1>4, <1>5, <1>6, <1>7, <1>8, <1>9 DEF QueueStep


(* A block is released, by a task or a handler.                            *)
LEMMA ReleaseFlow ==
    ASSUME FlowInv, NEW u, Actor(u), NEW d, Loses(u, d),
           \/ PutFree(d)
           \/ /\ GiveHead(MemQueue, d) /\ UNCHANGED free_list
              /\ (Enter /\ ReleaseHead(MemQueue)) \/ (IrqEnabled /\ IReleaseHead(MemQueue)),
           UNCHANGED <<restMemVars, call, dque>>
    PROVE  FlowStep /\ FlowTypes'
<1>0. UNCHANGED <<masked, created, revived, slices, booted, cursor, scanning, call, untouched, dque>>
  BY DEF restMemVars
<1>1. CASE PutFree(d)
  BY <1>0, <1>1, PutFreeFlow
<1>2. CASE /\ GiveHead(MemQueue, d) /\ UNCHANGED free_list
           /\ (Enter /\ ReleaseHead(MemQueue)) \/ (IrqEnabled /\ IReleaseHead(MemQueue))
  BY <1>0, <1>2, GiveFlow
<1> QED
  BY <1>1, <1>2

(* The steps of the memory pool                                            *)
LEMMA MemStepFlow ==
    ASSUME FlowInv, MemStep
    PROVE  FlowStep /\ (untouched' => FlowTypes')
<1>0. UNCHANGED dque
  BY DEF MemStep, dqueVars
<1>1. ASSUME NEW timeout \in Timeouts, tn_fmem_get(timeout),
             IF free_list # <<>> THEN Gains(sys.curr, FirstFree) ELSE UNCHANGED held
      PROVE  FlowStep /\ FlowTypes'
  <2>0. PICK u : u = sys.curr
    OBVIOUS
  <2>1. Enter /\ Actor(u) /\ UNCHANGED <<otherVars, data_elem, untouched, dque>>
    BY <1>0, <1>1, <2>0 DEF Actor, tn_fmem_get, transferVars
  <2>2. CASE GetFree
    <3>1. Gains(u, FirstFree)
      BY <1>1, <2>0, <2>2 DEF GetFree
    <3> QED BY <2>1, <2>2, <3>1, GetFlow
  <2>3. CASE free_list = <<>> /\ Block(MemQueue, "wfixmem", timeout) /\ UNCHANGED free_list
    <3>1. UNCHANGED held /\ "wfixmem" \in WaitReasons /\ "wfixmem" # "sleep"
      BY <1>1, <2>3 DEF WaitReasons
    <3> QED BY <2>1, <2>3, <3>1, BlockFlow
  <2> QED BY <1>1, <2>2, <2>3 DEF tn_fmem_get
<1>2. CASE GetReturn /\ GainsElem(~Failed)
  BY <1>0, <1>2, ReturnFlow, PlacesDiffer DEF GetReturn, memVars
<1>3. CASE tn_fmem_get_polling /\ Gains(sys.curr, FirstFree)
  <2>0. PICK u : u = sys.curr
    OBVIOUS
  <2>1. /\ Actor(u) /\ Gains(u, FirstFree) /\ GetFree
        /\ UNCHANGED <<data_elem, untouched, dque>>
    BY <1>0, <1>3, <2>0 DEF Actor, tn_fmem_get_polling, transferVars
  <2> QED BY <2>1, GetFlow
<1>4. CASE tn_fmem_get_ipolling /\ Gains(Isr, FirstFree)
  <2>1. /\ Actor(Isr) /\ GetFree /\ UNCHANGED <<data_elem, untouched, dque>>
    BY <1>0, <1>4 DEF Actor, tn_fmem_get_ipolling, transferVars
  <2> QED BY <1>4, <2>1, GetFlow
<1>5. ASSUME NEW d, Enter, Loses(sys.curr, d), tn_fmem_release(d)
      PROVE  FlowStep /\ FlowTypes'
  <2>0. PICK u : u = sys.curr
    OBVIOUS
  <2>1. Actor(u) /\ Loses(u, d) /\ UNCHANGED <<restMemVars, call, dque>>
    BY <1>0, <1>5, <2>0 DEF Actor, tn_fmem_release
  <2>2. \/ PutFree(d)
        \/ GiveHead(MemQueue, d) /\ UNCHANGED free_list /\ ReleaseHead(MemQueue)
    BY <1>5 DEF tn_fmem_release
  <2> QED BY <1>5, <2>1, <2>2, ReleaseFlow
<1>6. ASSUME NEW d, IrqEnabled, Loses(Isr, d), tn_fmem_irelease(d)
      PROVE  FlowStep /\ FlowTypes'
  <2>1. Actor(Isr) /\ UNCHANGED <<restMemVars, call, dque>>
    BY <1>0, <1>6 DEF Actor, tn_fmem_irelease
  <2>2. \/ PutFree(d)
        \/ GiveHead(MemQueue, d) /\ UNCHANGED free_list /\ IReleaseHead(MemQueue)
    BY <1>6 DEF tn_fmem_irelease
  <2> QED BY <1>6, <2>1, <2>2, ReleaseFlow
<1>7. CASE tn_fmem_delete /\ UNCHANGED held
  <2>1. UNCHANGED <<held, dque, free_list>>
    BY <1>0, <1>7 DEF tn_fmem_delete, memVars
  <2>2. \/ DeleteBegin(MemQueue)
        \/ \E p : p.at \in {"delete", "remove", "finish"} /\ At(p)
    BY <1>7 DEF tn_fmem_delete, DeleteCheck, DeleteRemove, DeleteFinish, Place
  <2>3. Place("delete", MemQueue).at = "delete"
    BY DEF Place
  <2> QED BY <2>1, <2>2, <2>3, DeleteFlow
<1> QED
  BY <1>1, <1>2, <1>3, <1>4, <1>5, <1>6, <1>7 DEF MemStep

(* What was deleted stays so.                                              *)
LEMMA TouchedStays ==
    ASSUME ~untouched, BuffersNext
    PROVE  ~untouched'
BY DEF BuffersNext, QueueStep, MemStep, transferVars, restVars, restMemVars,
       tn_queue_send, tn_queue_send_polling, tn_queue_isend_polling, tn_queue_receive,
       tn_queue_receive_polling, tn_queue_ireceive, tn_queue_delete, SendReturn,
       ReceiveReturn, GetReturn, Return, DeleteBegin, tn_fmem_get, tn_fmem_get_polling,
       tn_fmem_get_ipolling, tn_fmem_release, tn_fmem_irelease, tn_fmem_delete

(* Until the queue or the pool is deleted every block is in one place: the *)
(* inductive invariant of the refinement, together with BuffersOK          *)
FlowOK == untouched => FlowTypes /\ OnePlace(Where, Pipe)

LEMMA BuffersFlow ==
    ASSUME NoRelease, BuffersOK, FlowOK,
           [BuffersNext]_<<vars, call, transferVars, dqueVars, memVars, held>>
    PROVE  FlowOK' /\ FlowStep
<1>1. CASE UNCHANGED <<vars, call, transferVars, dqueVars, memVars, held>>
  <2>1. UNCHANGED <<sys, call, data_elem, untouched, dque, free_list, held>>
    BY <1>1 DEF vars, transferVars, dqueVars, memVars
  <2>2. (\A x : Owed(x)' <=> Owed(x)) /\ OthersSame(Isr)
    BY <2>1, OwedStill
  <2>3. Where' = Where
    BY <2>1, <2>2, UsersAre, WhereStill
  <2>4. Pipe' = Pipe
    BY <2>1, PipeNow
  <2>5. FlowTypes => FlowTypes'
    BY <2>1, <2>2 DEF FlowTypes
  <2> QED BY <2>1, <2>3, <2>4, <2>5, StepStill DEF FlowOK
<1>2. CASE BuffersNext /\ ~untouched
  <2>1. ~untouched'
    BY <1>2, TouchedStays
  <2> QED BY <1>2, <2>1 DEF FlowOK, FlowStep, Flow!FlowNext
<1>3. CASE BuffersNext /\ untouched
  <2>1. FlowInv
    BY <1>3 DEF FlowInv, FlowOK
  <2>2. FlowStep /\ (untouched' => FlowTypes')
    BY <1>3, <2>1, QueueStepFlow, MemStepFlow, KernelFlow DEF BuffersNext
  <2>3. untouched' => OnePlace(Where', Pipe')
    BY <1>3, <2>1, <2>2, AbstractStep DEF FlowInv, FlowStep
  <2> QED BY <2>2, <2>3 DEF FlowOK
<1> QED
  BY <1>1, <1>2, <1>3


-----------------------------------------------------------------------------
(* In the beginning every block is free.                                   *)

LEMMA SetToSeqIs ==
    ASSUME NEW U, IsFiniteSet(U)
    PROVE  SetToSeq(U) \in Seq(U) /\ Lists(SetToSeq(U), U)
<1> DEFINE n == Cardinality(U)
           s == SetToSeq(U)
<1>1. n \in Nat /\ ExistsBijection(1 .. n, U)
  BY FS_CardinalityType
<1>2. PICK g \in [1 .. n -> U] : IsInjective(g)
  BY <1>1 DEF ExistsBijection, Bijection, Injection
<1>3. s \in [1 .. n -> U] /\ IsInjective(s)
  BY <1>2 DEF SetToSeq
<1> HIDE DEF s
<1>4. IsFiniteSet(1 .. n) /\ Cardinality(1 .. n) = n
  <2> HIDE DEF n
  <2>1. 1 \in Int /\ n \in Int
    BY <1>1
  <2>2. Cardinality(1 .. n) = IF 1 > n THEN 0 ELSE n - 1 + 1
    BY <2>1, FS_Interval, ZenonT(30)
  <2>3. IsFiniteSet(1 .. n)
    BY <2>1, FS_Interval, ZenonT(30)
  <2> QED BY <1>1, <2>2, <2>3
<1>5. s \in Surjection(1 .. n, U)
  <2>1. s \in Injection(1 .. n, U)
    BY <1>3 DEF Injection
  <2> QED BY <1>4, <2>1, FS_Injection
<1> HIDE DEF n
<1>6. s \in Seq(U) /\ Len(s) = n
  BY <1>1, <1>3
<1>7. /\ \A i \in 1 .. n : s[i] \in U
      /\ \A x \in U : \E i \in 1 .. n : s[i] = x
      /\ \A i, j \in 1 .. n : s[i] = s[j] => i = j
  BY <1>3, <1>5 DEF Surjection, IsInjective
<1>8. Lists(s, U)
  BY <1>6, <1>7, ListsIntro
<1> QED
  BY <1>6, <1>8 DEF s

LEMMA InitFlow ==
    ASSUME BuffersInit
    PROVE  FlowOK /\ Flow!FlowInit
<1>0. /\ call = [t \in Tasks |-> Outside] /\ untouched = TRUE
      /\ data_elem = [t \in Tasks |-> NoData] /\ free_list = SetToSeq(Data)
      /\ dque = [data_fifo |-> [i \in 0 .. num_entries - 1 |-> NoData],
                 header_cnt |-> 0, tail_cnt |-> 0]
      /\ held = [u \in Users |-> {}] /\ CallsInv /\ BuffersOK
  BY BuffersInitOK DEF BuffersInit, TransferInit, CallsInit, DqueInit, MemInit, Users,
     BuffersOK
<1>1. \A t \in Tasks : ~Owed(t)
  BY <1>0, NotOwed
<1>2. free_list \in Seq(Data) /\ Lists(free_list, Data) /\ ToSet(free_list) = Data
  BY <1>0, SetToSeqIs, ListsToSet, BuffersAssumption
<1>3. RingOK(dque)
  BY <1>0 DEF RingOK, BuffersOK, Values
<1>4. FlowTypes
  BY <1>0, <1>1, <1>2, <1>3 DEF FlowTypes, Values
<1>5. Where = [b \in Data |-> {MemQueue}]
  <2>1. ASSUME NEW d \in Data PROVE Where[d] = {MemQueue}
    <3>1. Contains(free_list, d)
      BY <1>2, ListsContains
    <3>2. \A x : Owns(x, d) <=> x = MemQueue
      BY <1>0, <1>1, <3>1, UsersAre DEF Owns, Users
    <3> QED BY <3>2, WhereIs
  <2> DEFINE w == Where
  <2>2. w \in [Data -> SUBSET FlowPlaces]
    BY WhereIs
  <2> HIDE DEF w
  <2>3. w = [b \in Data |-> w[b]]
    BY <2>2
  <2>4. \A b \in Data : w[b] = {MemQueue}
    BY <2>1 DEF w
  <2> QED BY <2>3, <2>4 DEF w
<1>6. Pipe = <<>>
  <2>1. sys.wait[SendQueue] = <<>>
    BY InitCalls, PlacesDiffer DEF BuffersInit, TransferInit
  <2>2. FifoEmpty(dque)
    BY <1>0 DEF FifoEmpty
  <2> QED BY <1>0, <2>1, <2>2, PipeEmpty DEF BuffersOK
<1>7. OnePlace(Where, Pipe)
  <2>1. {b \in Data : Where[b] = {}} = {} /\ \A b \in Data : Where[b] = {MemQueue}
    BY <1>5
  <2>2. Lists(<<>>, {}) /\ <<>> \in Seq(Data)
    BY DEF Lists, ToSet, IsInjective
  <2> QED BY <1>6, <2>1, <2>2, WhereIs, UsersAre DEF OnePlace
<1> QED
  BY <1>0, <1>4, <1>5, <1>6, <1>7 DEF FlowOK, Flow!FlowInit

(* Until the queue or the pool is deleted every block is in one place: it  *)
(* is free, or one task or the interrupt handlers have it or are about to  *)
(* be given it, or it is in the queue, once; and the free list, the FIFO   *)
(* and the elements of the tasks that were served hold blocks only.        *)
THEOREM EveryBlockInOnePlace ==
    ASSUME NoRelease
    PROVE  BuffersSpec => []FlowOK
<1>1. BuffersInit => BuffersOK /\ FlowOK
  BY BuffersInitOK, InitFlow
<1>2. BuffersOK /\ FlowOK /\ [BuffersNext]_<<vars, call, transferVars, dqueVars, memVars, held>>
        => BuffersOK' /\ FlowOK'
  BY BuffersNextOK, BuffersFlow
<1> QED
  BY <1>1, <1>2, PTL DEF BuffersSpec

(* The services of tn_dqueue.c and tn_mem.c, called by any number of tasks *)
(* and by interrupt handlers, while tasks are suspended, time out and are  *)
(* preempted, implement BufferFlow: no block is lost or duplicated, blocks *)
(* leave the queue in the order in which they came, and only a sender      *)
(* whose time is over takes its block back.                                *)
THEOREM BuffersImplementFlow ==
    ASSUME NoRelease
    PROVE  BuffersSpec => FlowImplemented
<1>1. BuffersInit => BuffersOK /\ FlowOK /\ Flow!FlowInit
  BY BuffersInitOK, InitFlow
<1>2. BuffersOK /\ FlowOK /\ [BuffersNext]_<<vars, call, transferVars, dqueVars, memVars, held>>
        => BuffersOK' /\ FlowOK' /\ [Flow!FlowNext]_(Flow!flowVars)
  BY BuffersNextOK, BuffersFlow DEF FlowStep
<1> QED
  BY <1>1, <1>2, PTL DEF BuffersSpec, FlowImplemented, Flow!FlowSpec

-----------------------------------------------------------------------------
(* Events: the scan of the wait queue                                      *)

(* The scan of the wait queue of an event, entry by entry                  *)
Turn(s, R, t) == IF t \in R THEN WaitDoneFor(s, t) ELSE s

IsScan(f, s, queue, R, n) ==
    f = [k \in 0 .. n |-> IF k = 0 THEN s ELSE Turn(f[k - 1], R, queue[k])]

LEMMA ScanExists ==
    ASSUME NEW s, NEW queue, NEW R, NEW n \in Nat
    PROVE  \E f : IsScan(f, s, queue, R, n)
<1> DEFINE Bad == {m \in Nat : ~\E f : IsScan(f, s, queue, R, m)}
<1> SUFFICES ASSUME Bad # {} PROVE FALSE
  OBVIOUS
<1>1. PICK m \in Bad : \A y \in Bad : m <= y
  BY SmallestNat
<1>2. m # 0
  <2>1. IsScan([k \in 0 .. 0 |-> s], s, queue, R, 0)
    BY DEF IsScan
  <2> QED BY <2>1
<1>3. m - 1 \in Nat /\ m - 1 \notin Bad /\ m \in Nat
  BY <1>1, <1>2
<1>4. PICK f : IsScan(f, s, queue, R, m - 1)
  BY <1>3
<1> DEFINE g == [k \in 0 .. m |-> IF k = m THEN Turn(f[m - 1], R, queue[m]) ELSE f[k]]
<1>5. \A k \in 0 .. m - 1 : f[k] = IF k = 0 THEN s ELSE Turn(f[k - 1], R, queue[k])
  BY <1>4 DEF IsScan
<1>6. ASSUME NEW k \in 0 .. m
      PROVE  g[k] = IF k = 0 THEN s ELSE Turn(g[k - 1], R, queue[k])
  <2>1. CASE k = m
    <3>1. g[k] = Turn(f[m - 1], R, queue[m]) /\ g[m - 1] = f[m - 1]
      BY <1>3, <2>1
    <3> QED BY <1>2, <2>1, <3>1
  <2>2. CASE k # m
    <3>1. g[k] = f[k] /\ k \in 0 .. m - 1
      BY <1>3, <2>2
    <3>2. k # 0 => g[k - 1] = f[k - 1]
      BY <1>3, <2>2
    <3> QED BY <1>5, <3>1, <3>2
  <2> QED BY <2>1, <2>2
<1>7. IsScan(g, s, queue, R, m)
  <2>1. g = [k \in 0 .. m |-> g[k]]
    OBVIOUS
  <2> HIDE DEF g
  <2> QED BY <1>6, <2>1 DEF IsScan
<1> QED BY <1>7, <1>1

LEMMA ScanIs ==
    ASSUME NEW p, Len(sys.wait[EventQueue]) \in Nat
    PROVE  \E f : /\ IsScan(f, sys, sys.wait[EventQueue], Satisfied(p),
                            Len(sys.wait[EventQueue]))
                  /\ scan_event_waitqueue(p) = f[Len(sys.wait[EventQueue])]
<1> DEFINE q == sys.wait[EventQueue]
           f == CHOOSE f : f = [n \in 0 .. Len(q) |->
                    IF n = 0 THEN sys
                    ELSE IF q[n] \in Satisfied(p) THEN WaitDoneFor(f[n - 1], q[n])
                    ELSE f[n - 1]]
           g == CHOOSE g : IsScan(g, sys, q, Satisfied(p), Len(q))
<1>1. scan_event_waitqueue(p) = f[Len(q)]
  BY DEF scan_event_waitqueue
<1>2. f = g
  BY DEF IsScan, Turn
<1>3. IsScan(g, sys, q, Satisfied(p), Len(q))
  <2>1. \E h : IsScan(h, sys, q, Satisfied(p), Len(q))
    BY ScanExists
  <2> QED BY <2>1
<1> QED BY <1>1, <1>2, <1>3

(* queue_remove_entry before task_wait_complete, or within it              *)
LEMMA WaitDoneIs ==
    ASSUME NEW s, SchedType(s), NEW t \in AllTasks
    PROVE  WaitDoneFor(s, t) = task_wait_complete(s, t, TRUE)
<1> DEFINE a == queue_remove_entry(s, t)
           b == [a EXCEPT !.pwait[t] = NoQueue,
                          !.rc[t] = "NO_ERR",
                          !.timeouts = IF s.tick[t] = TN_WAIT_INFINITE THEN @
                                       ELSE RemoveFirst(@, t),
                          !.tick[t] = TN_WAIT_INFINITE]
           d == [a EXCEPT !.pwait[t] = NoQueue,
                          !.rc[t] = "NO_ERR",
                          !.timeouts = IF a.tick[t] = TN_WAIT_INFINITE THEN @
                                       ELSE RemoveFirst(@, t),
                          !.tick[t] = TN_WAIT_INFINITE]
<1>1. a.tick = s.tick /\ a.state = s.state
  BY DEF queue_remove_entry, SchedType
<1>2. Woken(a, t) = Woken(s, t)
  BY <1>1 DEF Woken, Suspended
<1>3. task_wait_complete(s, t, TRUE) =
        [(IF Woken(s, t) THEN task_to_runnable(b, t)
          ELSE [b EXCEPT !.state[t] = "suspend"]) EXCEPT !.reason[t] = "none"]
  BY DEF task_wait_complete
<1>4. WaitDoneFor(s, t) =
        [(IF Woken(a, t) THEN task_to_runnable(d, t)
          ELSE [d EXCEPT !.state[t] = "suspend"]) EXCEPT !.reason[t] = "none"]
  BY DEF task_wait_complete, WaitDoneFor
<1>5. b = d
  <2> HIDE DEF a
  <2> QED BY <1>1
<1> DEFINE done(w, e) == [(IF w THEN task_to_runnable(e, t)
                           ELSE [e EXCEPT !.state[t] = "suspend"]) EXCEPT !.reason[t] = "none"]
<1>6. task_wait_complete(s, t, TRUE) = done(Woken(s, t), b)
  BY <1>3
<1>7. WaitDoneFor(s, t) = done(Woken(a, t), d)
  BY <1>4
<1> HIDE DEF a, b, d, done
<1> QED BY <1>2, <1>5, <1>6, <1>7

(* One entry of the queue whose condition holds                            *)
LEMMA TurnDone ==
    ASSUME NEW s, Sound(s, {}), NEW t \in Tasks, Waiting(s, t),
           NEW u, u = WaitDoneFor(s, t)
    PROVE  /\ Sound(u, {}) /\ u.curr = s.curr /\ KeptBut(s, u, t)
           /\ u.state[t] \in {"runnable", "suspend"} /\ u.rc[t] = "NO_ERR"
<1>0. t \in AllTasks /\ SchedType(s)
  BY SystemTasks DEF Sound
<1>1. u = task_wait_complete(s, t, TRUE)
  BY <1>0, WaitDoneIs
<1>2. Sound(u, {}) /\ Only(s, u, t) /\ u.state[t] \in {"runnable", "suspend"}
  BY <1>1, WaitComplete
<1>3. KeptBut(s, u, t)
  BY <1>0, <1>1, CompleteTcb
<1>4. u.rc[t] = "NO_ERR"
  <2>1. task_wait_complete(s, t, TRUE).rc = [s.rc EXCEPT ![t] = "NO_ERR"]
    BY ONLY <1>0, CompleteFields
  <2>2. s.rc \in [AllTasks -> WaitCodes]
    BY <1>0, TcbFunctions
  <2>3. \A f : f = [s.rc EXCEPT ![t] = "NO_ERR"] => f[t] = "NO_ERR"
    BY ONLY <1>0, <2>2
  <2>4. task_wait_complete(s, t, TRUE).rc[t] = "NO_ERR"
    BY ONLY <2>1, <2>3
  <2> QED BY ONLY <1>1, <2>4
<1> QED BY <1>2, <1>3, <1>4 DEF Only

(* What happened to the tasks of D, which waited: their wait has ended.    *)
EndedFor(s, u, D) ==
    /\ Sound(u, {}) /\ u.curr = s.curr
    /\ \A x \in AllTasks \ D : Kept(s, u, x)
    /\ \A x \in D : u.state[x] \in {"runnable", "suspend"} /\ u.rc[x] = "NO_ERR"

(* The first k tasks of a queue                                            *)
FirstOf(queue, R, k) == {queue[i] : i \in {j \in 1 .. k : queue[j] \in R}}

LEMMA ScanSteps ==
    ASSUME NEW s, Sound(s, {}), NEW R \in SUBSET Tasks, \A x \in R : Waiting(s, x),
           NEW queue \in Seq(AllTasks), IsInjective(queue),
           NEW f, IsScan(f, s, queue, R, Len(queue))
    PROVE  EndedFor(s, f[Len(queue)], FirstOf(queue, R, Len(queue)))
<1> DEFINE n == Len(queue)
           Good(m) == EndedFor(s, f[m], FirstOf(queue, R, m))
           Bad == {m \in 0 .. n : ~Good(m)}
<1>0. n \in Nat /\ \A i \in 1 .. n : queue[i] \in AllTasks
  BY LenProperties, ElementOfSeq
<1>01. \A i, j \in 1 .. n : queue[i] = queue[j] => i = j
  BY LenProperties DEF IsInjective
<1> SUFFICES ASSUME ~Good(n) PROVE FALSE
  OBVIOUS
<1>1. n \in Bad /\ Bad \in SUBSET Nat
  BY <1>0
<1>2. PICK m \in Bad : \A y \in Bad : m <= y
  BY <1>1, SmallestNat
<1>3. f[0] = s /\ \A k \in 1 .. n : f[k] = Turn(f[k - 1], R, queue[k])
  BY <1>0 DEF IsScan
<1>4. Good(0)
  <2>1. FirstOf(queue, R, 0) = {}
    BY DEF FirstOf
  <2> QED BY <1>3, <2>1 DEF EndedFor, Kept
<1>5. m \in 1 .. n /\ m - 1 \in 0 .. n /\ m - 1 \notin Bad
  BY <1>0, <1>2, <1>4
<1>6. Good(m - 1)
  BY <1>5
<1> DEFINE t == queue[m]
           a == f[m - 1]
           D == FirstOf(queue, R, m - 1)
<1>7. t \in AllTasks /\ t \notin D
  BY <1>0, <1>01, <1>5 DEF FirstOf
<1>8. FirstOf(queue, R, m) = IF t \in R THEN D \cup {t} ELSE D
  BY <1>0, <1>5 DEF FirstOf
<1>9. f[m] = Turn(a, R, t)
  BY <1>3, <1>5
<1>10. D \subseteq AllTasks
  BY <1>0, <1>5 DEF FirstOf
<1> HIDE DEF D, a, t, Bad
<1>11. CASE t \notin R
  BY <1>6, <1>8, <1>9, <1>11, <1>2 DEF Turn, D, a, Bad
<1>12. CASE t \in R
  <2>1. Waiting(a, t) /\ Sound(a, {}) /\ a.curr = s.curr
    BY <1>6, <1>7, <1>12 DEF EndedFor, Kept, Waiting, a, D
  <2>2. /\ Sound(f[m], {}) /\ f[m].curr = a.curr /\ KeptBut(a, f[m], t)
        /\ f[m].state[t] \in {"runnable", "suspend"} /\ f[m].rc[t] = "NO_ERR"
    BY <1>9, <1>12, <2>1, TurnDone DEF Turn
  <2>3. /\ \A x \in AllTasks \ D : Kept(s, a, x)
        /\ \A x \in D : a.state[x] \in {"runnable", "suspend"} /\ a.rc[x] = "NO_ERR"
    BY <1>6 DEF EndedFor, a, D
  <2>4. \A x \in AllTasks \ (D \cup {t}) : Kept(s, f[m], x)
    BY <2>2, <2>3 DEF Kept, KeptBut
  <2>5. \A x \in D \cup {t} : /\ f[m].state[x] \in {"runnable", "suspend"}
                              /\ f[m].rc[x] = "NO_ERR"
    BY <1>7, <1>10, <2>2, <2>3 DEF KeptBut, Kept
  <2>6. Good(m)
    BY <1>8, <1>12, <2>1, <2>2, <2>4, <2>5 DEF EndedFor
  <2> QED BY <2>6, <1>2 DEF Bad
<1> QED BY <1>11, <1>12

(* A task in the wait queue of an object                                   *)
LEMMA QueueWaits ==
    ASSUME CallsInv, NEW q \in WaitQueues
    PROVE  /\ sys.wait[q] \in Seq(AllTasks) /\ IsInjective(sys.wait[q])
           /\ \A x : x \in ToSet(sys.wait[q]) <=> x \in AllTasks /\ WaitsIn(sys, x, q)
           /\ \A x \in ToSet(sys.wait[q]) :
                /\ x \in Tasks /\ x \in created \cup revived
                /\ call[x] = Place("wait", q) /\ (x = sys.curr => x \in pending)
<1>0. Sound(sys, {}) /\ SystemOK(sys) /\ q # NoQueue
  BY QueueAssumption DEF CallsInv, IInv, Sound, Rest
<1>1. sys.wait[q] \in Seq(AllTasks) /\ Lists(sys.wait[q], In(sys, Waiters(sys, {}), q))
  BY <1>0, Fields, SystemTasks DEF Sound, Rest, WaitsFor
<1>2. \A x : x \in ToSet(sys.wait[q]) <=> x \in AllTasks /\ WaitsIn(sys, x, q)
  BY <1>1 DEF Lists, In, Waiters, WaitsIn
<1>3. ASSUME NEW x \in ToSet(sys.wait[q])
      PROVE  /\ x \in Tasks /\ x \in created \cup revived
             /\ call[x] = Place("wait", q) /\ (x = sys.curr => x \in pending)
  <2>1. x \in AllTasks /\ Waiting(sys, x) /\ sys.pwait[x] = q
    BY <1>2 DEF WaitsIn
  <2>2. x \in Tasks
    BY <1>0, <2>1 DEF AllTasks, SystemOK, CallsInv, Waiting
  <2>3. call[x] = Place("wait", q)
    BY <1>0, <2>1, <2>2 DEF CallsInv, PlaceOK
  <2>4. x \in created \cup revived
    BY <2>1, <2>2 DEF CallsInv, IInv, OnlyCreatedScheduled, Waiting
  <2>5. x = sys.curr => x \in pending
    BY <2>1, <2>2, WaitingIsPending DEF CallsInv, Waiting
  <2> QED BY <2>2, <2>3, <2>4, <2>5
<1> QED BY <1>1, <1>2, <1>3 DEF Lists

(* scan_event_waitqueue ends the waits whose condition holds, and does     *)
(* nothing else to a task.                                                 *)
LEMMA ScanDone ==
    ASSUME CallsInv, NEW p, NEW u, u = scan_event_waitqueue(p)
    PROVE  EndedFor(sys, u, Satisfied(p))
<1> DEFINE q == sys.wait[EventQueue]
<1>0. EventQueue \in WaitQueues
  BY EventAssumption
<1>1. /\ q \in Seq(AllTasks) /\ IsInjective(q) /\ Len(q) \in Nat
      /\ Satisfied(p) \in SUBSET Tasks
      /\ \A x \in Satisfied(p) : Waiting(sys, x)
  BY <1>0, QueueWaits, LenProperties DEF Satisfied, WaitsIn
<1>2. PICK f : IsScan(f, sys, q, Satisfied(p), Len(q)) /\ u = f[Len(q)]
  BY <1>1, ScanIs
<1>3. FirstOf(q, Satisfied(p), Len(q)) = Satisfied(p)
  <2>1. \A x : x \in ToSet(q) <=> \E i \in 1 .. Len(q) : q[i] = x
    BY <1>1, LenProperties DEF ToSet
  <2> QED BY <2>1 DEF FirstOf, Satisfied
<1>4. Sound(sys, {})
  BY DEF CallsInv, IInv
<1> HIDE DEF q
<1> QED BY <1>1, <1>2, <1>3, <1>4, ScanSteps

-----------------------------------------------------------------------------
(* Steps that end the wait of several tasks                                *)

(* Nobody starts to wait, and calls agree with the TCBs.                   *)
LEMMA EndedPlaces ==
    ASSUME CallsInv, NEW D \in SUBSET Tasks, NEW u, EndedFor(sys, u, D)
    PROVE  /\ \A x \in Tasks : PlaceOK(u, call[x], x)
           /\ u.pwait[TimerTask] = NoQueue
           /\ \A x \in Tasks : \A q : WaitsIn(u, x, q) => x \notin D /\ WaitsIn(sys, x, q)
<1>1. ASSUME NEW x \in Tasks PROVE PlaceOK(u, call[x], x)
  <2>1. CASE x \in D
    BY <2>1 DEF EndedFor, PlaceOK, Waiting
  <2>2. CASE x \notin D
    <3>1. Kept(sys, u, x) /\ PlaceOK(sys, call[x], x)
      BY <2>2, SystemTasks DEF EndedFor, CallsInv
    <3> QED BY <3>1 DEF PlaceOK, Kept, Waiting
  <2> QED BY <2>1, <2>2
<1>2. u.pwait[TimerTask] = NoQueue
  <2>1. TimerTask \in AllTasks \ D
    BY SystemTasks, TasksAssumption
  <2> QED BY <2>1 DEF EndedFor, Kept, CallsInv
<1>3. ASSUME NEW x \in Tasks, NEW q, WaitsIn(u, x, q)
      PROVE  x \notin D /\ WaitsIn(sys, x, q)
  <2>1. x \notin D
    BY <1>3 DEF EndedFor, WaitsIn, Waiting
  <2>2. Kept(sys, u, x)
    BY <2>1, SystemTasks DEF EndedFor
  <2> QED BY <1>3, <2>1, <2>2 DEF Kept, WaitsIn, Waiting
<1> QED BY <1>1, <1>2, <1>3

(* ... in a service of the running task                                    *)
LEMMA EndedStep ==
    ASSUME CallsInv, Enter, NEW D \in SUBSET (created \cup revived),
           \A x \in D : Waiting(sys, x), EndedFor(sys, sys', D),
           pending' \in {pending, pending \cup {sys.curr}},
           UNCHANGED <<masked, created, revived, slices, booted, cursor, scanning, skipped, call>>
    PROVE  CallsInv'
<1>0. /\ IInv /\ created \cup revived \in SUBSET Tasks /\ Tasks \subseteq AllTasks
      /\ sys.curr \in Tasks \ pending
  BY SystemTasks DEF CallsInv, IInv, TypeOK, Enter, At
<1>1. Sound(sys', {}) /\ sys'.curr = sys.curr
  BY DEF EndedFor
<1>2. TypeOK'
  BY <1>0, <1>1 DEF IInv, TypeOK, Sound
<1>3. sys.state[sys.curr] = "runnable" /\ ~scanning
  BY <1>0, RunningTask
<1>4. sys.curr \notin D
  BY <1>3 DEF Waiting
<1>5. OnlyRunnableRuns'
  BY <1>0, <1>1, <1>3, <1>4 DEF OnlyRunnableRuns, EndedFor, Kept
<1>6. OnlyCreatedScheduled'
  BY <1>0 DEF IInv, OnlyCreatedScheduled, EndedFor, Kept
<1>7. IInv'
  BY <1>1, <1>2, <1>3, <1>5, <1>6 DEF IInv, ScanOK
<1>8. D \in SUBSET Tasks
  BY <1>0
<1> QED BY <1>7, <1>8, EndedPlaces DEF CallsInv

(* ... in an interrupt handler                                             *)
LEMMA EndedIsrStep ==
    ASSUME CallsInv, IrqEnabled, NEW D \in SUBSET (created \cup revived),
           \A x \in D : Waiting(sys, x), NEW s, EndedFor(sys, s, D),
           NEW request \in BOOLEAN, tn_cpu_irq_isr(s, request),
           UNCHANGED <<pending, masked, created, revived, slices, booted, cursor, scanning, call>>
    PROVE  /\ CallsInv'
           /\ sys'.state = s.state /\ sys'.pwait = s.pwait /\ sys'.rc = s.rc
<1>0. /\ IInv /\ created \cup revived \in SUBSET Tasks /\ Tasks \subseteq AllTasks
      /\ Sound(s, {}) /\ SchedType(s) /\ s.curr = sys.curr /\ D \in SUBSET Tasks
      /\ sys.curr \in AllTasks
  BY SystemTasks DEF CallsInv, IInv, TypeOK, EndedFor, Sound, SchedType
<1>1. OtherTypes' /\ ~scanning'
  BY <1>0 DEF IInv, TypeOK, OtherTypes, tn_cpu_irq_isr, IrqEnabled
<1>2. \A x \in Tasks : s.state[x] # "dormant" => x \in created' \cup revived'
  BY <1>0 DEF IInv, OnlyCreatedScheduled, EndedFor, Kept
<1>3. CASE request
  <2>1. sys' = [s EXCEPT !.curr = s.next]
    BY <1>3 DEF tn_cpu_irq_isr
  <2>2. IInv'
    BY <1>0, <1>1, <1>2, <2>1, SwitchStep
  <2>3. sys'.state = s.state /\ sys'.pwait = s.pwait /\ sys'.rc = s.rc
    BY <1>0, <2>1 DEF SchedType
  <2>4. call' = call /\ call \in [Tasks -> Places]
    BY DEF CallsInv
  <2>5. (\A x \in Tasks : PlaceOK(s, call[x], x)) /\ s.pwait[TimerTask] = NoQueue
    BY <1>0, EndedPlaces
  <2>6. \A x \in Tasks : PlaceOK(sys', call'[x], x)
    BY <2>3, <2>4, <2>5 DEF PlaceOK, Waiting
  <2> QED BY <2>2, <2>3, <2>4, <2>5, <2>6 DEF CallsInv
<1>4. CASE ~request
  <2>1. sys' = s
    BY <1>4 DEF tn_cpu_irq_isr
  <2>2. TypeOK'
    BY <1>0, <1>1, <2>1 DEF OtherTypes, TypeOK
  <2>3. OnlyRunnableRuns'
    <3>1. CASE sys.curr \in pending
      BY <3>1, <1>0, <2>1 DEF OnlyRunnableRuns
    <3>2. CASE sys.curr \notin pending
      <4>1. sys.state[sys.curr] = "runnable"
        BY <1>0, <3>2 DEF IInv, OnlyRunnableRuns
      <4>2. sys.curr \notin D
        BY <4>1 DEF Waiting
      <4>3. Kept(sys, s, sys.curr)
        BY <1>0, <4>2 DEF EndedFor
      <4> QED BY <1>0, <2>1, <4>1, <4>3 DEF OnlyRunnableRuns, Kept
    <3> QED BY <3>1, <3>2
  <2>4. OnlyCreatedScheduled'
    BY <1>2, <2>1 DEF OnlyCreatedScheduled
  <2>5. IInv'
    BY <1>0, <1>1, <2>1, <2>2, <2>3, <2>4 DEF IInv, ScanOK
  <2> QED BY <2>1, <2>5, <1>0, EndedPlaces DEF CallsInv
<1> QED BY <1>3, <1>4

(* A task whose call is going to return TERR_NO_ERR was going to before a  *)
(* step of the kernel.                                                     *)
LEMMA KernelGrants ==
    ASSUME NoRelease, CallsInv, KernelEffect(sys'), NEW x \in Tasks, NEW q \in WaitQueues,
           call[x] = Place("wait", q), ~Waiting(sys', x), sys'.rc[x] = "NO_ERR"
    PROVE  ~Waiting(sys, x) /\ sys.rc[x] = "NO_ERR"
<1>1. KernelTcb(sys, sys', x, call[x]) /\ PlaceOK(sys, call[x], x)
  BY DEF KernelEffect, CallsInv
<1>2. q # NoQueue /\ call[x] # Outside
  BY QueueAssumption DEF Place, Outside
<1>3. Waiting(sys, x) => sys.pwait[x] # NoQueue
  BY <1>1, <1>2 DEF PlaceOK
<1> QED BY <1>1, <1>2, <1>3 DEF KernelTcb, Kept, Suspends, FallsAsleep, WaitEnds, Starts,
           PlaceOK, NoRelease, Waiting

-----------------------------------------------------------------------------
(* The inductive invariant of TNEvent                                      *)

Conditions == [mode : {"OR", "AND"}, bits : SUBSET Flags]

EventTypes ==
    /\ pattern \in SUBSET Flags
    /\ attr \in Attributes \cup {{}}
    /\ eventExists \in BOOLEAN
    /\ ewait \in [Tasks -> Conditions]
    /\ asked \in [Tasks -> Conditions]
    /\ delivered \in Nat

(* A waiting task has what it asked for in its TCB, and the event does not *)
(* satisfy it.                                                             *)
WaiterOK(x) ==
    WaitsIn(sys, x, EventQueue) =>
        /\ ewait[x] = asked[x] /\ asked[x].bits # {}
        /\ eventExists => ~Cond(pattern, ewait[x])

(* An event for one task has one waiter.                                   *)
SingleOK ==
    "SINGLE" \in attr =>
        \A x, y \in Tasks : WaitsIn(sys, x, EventQueue) /\ WaitsIn(sys, y, EventQueue)
                            => x = y

(* What was delivered of an event that is cleared is not there any more.   *)
ClearedOK ==
    "CLR" \in attr /\ ~kept => delivered = 0 \/ (delivered = 1 /\ pattern = {})

DeletersOK == untouched => \A t \in Tasks : call[t].at \in {"none", "wait"}

(* A task that got what it asked for, before its call returns              *)
GrantOK(x) ==
    untouched /\ call[x] = Place("wait", EventQueue) /\ ~Waiting(sys, x)
      /\ sys.rc[x] = "NO_ERR"
    => /\ ewait[x].bits \cap asked[x].bits # {}
       /\ asked[x].mode = "AND" => asked[x].bits \subseteq ewait[x].bits

EventOK ==
    /\ CallsInv
    /\ EventTypes
    /\ \A x \in Tasks : WaiterOK(x)
    /\ SingleOK
    /\ ClearedOK
    /\ DeletersOK
    /\ NoRelease => \A x \in Tasks : GrantOK(x)

(* EventOK implies the properties. *)
LEMMA EventProperties ==
    ASSUME EventOK
    PROVE  /\ NobodyMissesEvent /\ DeliveredOnce
           /\ NoRelease => GrantMatchesRequest
<1>1. NobodyMissesEvent
  <2>1. \A t \in ToSet(sys.wait[EventQueue]) : t \in Tasks /\ WaitsIn(sys, t, EventQueue)
    BY EventAssumption, QueueWaits DEF EventOK
  <2> QED BY <2>1 DEF EventOK, WaiterOK, NobodyMissesEvent
<1>2. DeliveredOnce
  BY DEF EventOK, EventTypes, ClearedOK, DeliveredOnce
<1>3. NoRelease => GrantMatchesRequest
  BY DEF EventOK, GrantOK, GrantMatchesRequest
<1> QED BY <1>1, <1>2, <1>3

LEMMA EventInitOK ==
    ASSUME EventInit
    PROVE  EventOK
<1>1. CallsInv /\ sys.wait[EventQueue] = <<>>
  BY InitCalls, EventAssumption DEF EventInit
<1>2. /\ pattern = {} /\ attr = {} /\ eventExists = FALSE /\ delivered = 0
      /\ ewait = [t \in Tasks |-> NoCondition] /\ asked = [t \in Tasks |-> NoCondition]
      /\ call = [t \in Tasks |-> Outside]
  BY DEF EventInit, CallsInit
<1>3. NoCondition \in Conditions
  BY DEF NoCondition, Conditions
<1>4. EventTypes
  BY <1>2, <1>3 DEF EventTypes
<1>5. \A x \in Tasks : ~WaitsIn(sys, x, EventQueue)
  BY <1>1, QueueEmpty, EventAssumption, SystemTasks DEF CallsInv, IInv
<1>6. \A x \in Tasks : WaiterOK(x)
  BY <1>5 DEF WaiterOK
<1>7. SingleOK /\ ClearedOK /\ DeletersOK
  BY <1>2 DEF SingleOK, ClearedOK, DeletersOK, Outside
<1>8. \A x \in Tasks : GrantOK(x)
  BY <1>2 DEF GrantOK, Outside, Place
<1> QED BY <1>1, <1>4, <1>6, <1>7, <1>8 DEF EventOK

(* A condition that asks for something does not hold for no flags, and     *)
(* does not begin to hold when flags are cleared.                          *)
LEMMA CondLess ==
    ASSUME NEW w, w.bits # {}, NEW p, NEW b
    PROVE  ~Cond({}, w) /\ (Cond(p \cap b, w) => Cond(p, w))
BY DEF Cond

LEMMA EventCreateStep ==
    ASSUME EventOK, NEW a \in Attributes, NEW p \in SUBSET Flags, tn_event_create(a, p)
    PROVE  EventOK'
<1>1. /\ UNCHANGED <<vars, call>> /\ ewait' = ewait /\ asked' = asked
      /\ untouched' = untouched /\ sys.wait[EventQueue] = <<>> /\ pattern' = p
      /\ attr' = a /\ eventExists' = TRUE /\ delivered' = 0 /\ sys' = sys /\ call' = call
  BY DEF tn_event_create, vars
<1>2. CallsInv'
  BY <1>1, StillStep DEF EventOK
<1>3. \A x \in Tasks : ~WaitsIn(sys, x, EventQueue)
  BY <1>1, QueueEmpty, EventAssumption, SystemTasks DEF EventOK, CallsInv, IInv
<1>4. EventTypes'
  BY <1>1 DEF EventOK, EventTypes
<1>5. \A x \in Tasks : WaiterOK(x)'
  BY <1>1, <1>3 DEF WaiterOK
<1>6. SingleOK'
  BY <1>1, <1>3 DEF SingleOK
<1>7. ClearedOK' /\ DeletersOK'
  BY <1>1 DEF ClearedOK, DeletersOK, EventOK
<1>8. NoRelease => \A x \in Tasks : GrantOK(x)'
  BY <1>1 DEF EventOK, GrantOK
<1> QED BY <1>2, <1>4, <1>5, <1>6, <1>7, <1>8 DEF EventOK

(* A step that only takes flags from the pattern                           *)
LEMMA EventFewer ==
    ASSUME EventOK, UNCHANGED <<vars, call, attr, eventExists, ewait, asked, untouched, kept>>,
           delivered' \in Nat, NEW b, pattern' = pattern \cap b, ClearedOK'
    PROVE  EventOK'
<1>1. sys' = sys /\ call' = call
  BY DEF vars
<1>2. CallsInv'
  BY <1>1, StillStep DEF EventOK
<1>3. EventTypes'
  BY DEF EventOK, EventTypes
<1>4. \A x \in Tasks : WaiterOK(x)'
  <2>1. SUFFICES ASSUME NEW x \in Tasks, WaiterOK(x) PROVE WaiterOK(x)'
    BY DEF EventOK
  <2> QED BY <1>1, <2>1, CondLess DEF WaiterOK
<1>5. SingleOK' /\ DeletersOK'
  BY <1>1 DEF SingleOK, DeletersOK, EventOK
<1>6. NoRelease => \A x \in Tasks : GrantOK(x)'
  BY <1>1 DEF EventOK, GrantOK
<1> QED BY <1>2, <1>3, <1>4, <1>5, <1>6 DEF EventOK

LEMMA ConsumeStep ==
    ASSUME EventOK, NEW w \in [mode : {"OR", "AND"}, bits : WaitPatterns], Consume(w)
    PROVE  EventOK'
<1>0. w.bits # {} /\ attr \in Attributes \cup {{}} /\ delivered \in Nat
  BY EventAssumption DEF EventOK, EventTypes
<1>1. Cond(pattern, w) /\ ~Cond({}, w)
  BY <1>0, CondLess DEF Consume
<1>2. pattern # {}
  BY <1>1
<1>3. /\ UNCHANGED <<vars, call, attr, eventExists, ewait, asked, untouched, kept>>
      /\ pattern' = IF "CLR" \in attr THEN {} ELSE pattern
      /\ delivered' = IF delivered = 2 THEN 2 ELSE delivered + 1
  BY DEF Consume
<1>4. ClearedOK'
  BY <1>0, <1>2, <1>3 DEF ClearedOK, EventOK
<1>5. \E b : pattern' = pattern \cap b
  BY <1>3
<1> QED BY <1>0, <1>3, <1>4, <1>5, EventFewer

LEMMA ClearStep ==
    ASSUME EventOK, NEW bits, Clear(bits)
    PROVE  EventOK'
<1>1. /\ UNCHANGED <<vars, call, attr, eventExists, ewait, asked, untouched, kept, delivered>>
      /\ pattern' = pattern \cap bits
  BY DEF Clear
<1>2. ClearedOK'
  BY <1>1 DEF ClearedOK, EventOK
<1>3. delivered' \in Nat
  BY <1>1 DEF EventOK, EventTypes
<1> QED BY <1>1, <1>2, <1>3, EventFewer

LEMMA EventBlockStep ==
    ASSUME EventOK, NEW w \in [mode : {"OR", "AND"}, bits : WaitPatterns],
           NEW timeout \in Timeouts,
           Enter, ~IllegalUse, ~Cond(pattern, w),
           ewait' = [ewait EXCEPT ![sys.curr] = w],
           asked' = [asked EXCEPT ![sys.curr] = w],
           Block(EventQueue, "event", timeout),
           UNCHANGED <<otherVars, pattern, attr, eventExists, delivered, kept, untouched>>
    PROVE  EventOK'
<1> DEFINE c == sys.curr
<1>0. EventQueue \in WaitQueues /\ w \in Conditions /\ w.bits # {} /\ c \in Tasks
  BY EventAssumption DEF Conditions, Enter, At
<1>1. CallsInv' /\ KeptBut(sys, sys', c) /\ Waiting(sys', c)
  BY <1>0, BlockStep DEF EventOK, WaitReasons
<1>2. call' = [call EXCEPT ![c] = Place("wait", EventQueue)] /\ call \in [Tasks -> Places]
  BY DEF Block, Goto, EventOK, CallsInv
<1>3. EventTypes'
  BY <1>0 DEF EventOK, EventTypes
<1>4. /\ ewait'[c] = w /\ asked'[c] = w
      /\ \A x \in Tasks \ {c} : /\ ewait'[x] = ewait[x] /\ asked'[x] = asked[x]
                                /\ call'[x] = call[x] /\ Kept(sys, sys', x)
  BY <1>0, <1>1, <1>2, SystemTasks DEF EventOK, EventTypes, KeptBut
<1> HIDE DEF c
<1>5. \A x \in Tasks : WaiterOK(x)'
  <2>1. ASSUME NEW x \in Tasks PROVE WaiterOK(x)'
    <3>1. CASE x = c
      BY <1>0, <1>4, <3>1 DEF WaiterOK
    <3>2. CASE x # c
      BY <1>4, <3>2 DEF WaiterOK, EventOK, Kept, WaitsIn, Waiting
    <3> QED BY <3>1, <3>2
  <2> QED BY <2>1
<1>6. SingleOK'
  <2>1. SUFFICES ASSUME "SINGLE" \in attr, NEW x \in Tasks, WaitsIn(sys', x, EventQueue)
                 PROVE  x = c
    BY DEF SingleOK
  <2>2. sys.wait[EventQueue] = <<>>
    BY <2>1 DEF IllegalUse
  <2>3. ~WaitsIn(sys, x, EventQueue)
    BY <1>0, <2>2, QueueEmpty, SystemTasks DEF EventOK, CallsInv, IInv
  <2> QED BY <1>4, <2>1, <2>3 DEF Kept, WaitsIn, Waiting
<1>7. ClearedOK'
  BY DEF ClearedOK, EventOK
<1>8. DeletersOK'
  BY <1>0, <1>2, <1>4 DEF DeletersOK, EventOK, Place
<1>9. NoRelease => \A x \in Tasks : GrantOK(x)'
  <2>1. ASSUME NoRelease, NEW x \in Tasks PROVE GrantOK(x)'
    <3>1. CASE x = c
      BY <1>1, <3>1 DEF GrantOK
    <3>2. CASE x # c
      BY <1>4, <2>1, <3>2 DEF GrantOK, EventOK, Kept, Waiting
    <3> QED BY <3>1, <3>2
  <2> QED BY <2>1
<1> QED BY <1>1, <1>3, <1>5, <1>6, <1>7, <1>8, <1>9 DEF EventOK

LEMMA FiniteToSet ==
    ASSUME NEW U, NEW q \in Seq(U)
    PROVE  IsFiniteSet(ToSet(q))
<1> DEFINE f == [i \in 1 .. Len(q) |-> q[i]]
<1>0. Len(q) \in Nat /\ DOMAIN q = 1 .. Len(q)
  BY LenProperties
<1>1. f \in Surjection(1 .. Len(q), ToSet(q))
  BY <1>0 DEF Surjection, ToSet
<1>2. IsFiniteSet(1 .. Len(q))
  BY <1>0, FS_Interval
<1> QED BY <1>1, <1>2, FS_Surjection

LEMMA EventReturnStep ==
    ASSUME EventOK, WaitReturn
    PROVE  EventOK'
<1> DEFINE c == sys.curr
<1>0. /\ c \in Tasks /\ c \notin pending /\ call[c] = Place("wait", EventQueue)
      /\ sys' = sys /\ UNCHANGED vars
      /\ call' = [call EXCEPT ![c] = Outside] /\ call \in [Tasks -> Places]
      /\ ewait' = [ewait EXCEPT ![c] = NoCondition]
      /\ asked' = [asked EXCEPT ![c] = NoCondition]
      /\ UNCHANGED <<pattern, attr, eventExists, delivered, kept, untouched>>
  BY DEF WaitReturn, At, Goto, EventOK, CallsInv, vars
<1>1. CallsInv'
  <2>1. Outside \in Places /\ Place("wait", EventQueue).at = "wait"
    BY DEF Outside, Places, Place
  <2>2. UNCHANGED <<sys, pending, otherVars>>
    BY <1>0 DEF vars, otherVars
  <2> QED BY <1>0, <2>1, <2>2, MoveStep DEF EventOK, WaitReturn
<1>2. sys.state[c] = "runnable"
  BY <1>0, RunningTask DEF EventOK, CallsInv
<1>3. EventTypes'
  <2>1. NoCondition \in Conditions
    BY DEF NoCondition, Conditions
  <2> QED BY <1>0, <2>1 DEF EventOK, EventTypes
<1>4. /\ call'[c] = Outside
      /\ \A x \in Tasks \ {c} : /\ ewait'[x] = ewait[x] /\ asked'[x] = asked[x]
                                /\ call'[x] = call[x]
  BY <1>0 DEF EventOK, EventTypes
<1> HIDE DEF c
<1>5. \A x \in Tasks : WaiterOK(x)'
  <2>1. ASSUME NEW x \in Tasks PROVE WaiterOK(x)'
    <3>1. CASE x = c
      BY <1>0, <1>2, <3>1 DEF WaiterOK, WaitsIn, Waiting
    <3>2. CASE x # c
      BY <1>0, <1>4, <3>2 DEF WaiterOK, EventOK
    <3> QED BY <3>1, <3>2
  <2> QED BY <2>1
<1>6. SingleOK' /\ ClearedOK'
  BY <1>0 DEF SingleOK, ClearedOK, EventOK
<1>7. DeletersOK'
  BY <1>0, <1>4 DEF DeletersOK, EventOK, Outside
<1>8. NoRelease => \A x \in Tasks : GrantOK(x)'
  <2>1. ASSUME NoRelease, NEW x \in Tasks PROVE GrantOK(x)'
    <3>1. CASE x = c
      BY <1>4, <3>1 DEF GrantOK, Outside, Place
    <3>2. CASE x # c
      BY <1>0, <1>4, <2>1, <3>2 DEF GrantOK, EventOK
    <3> QED BY <3>1, <3>2
  <2> QED BY <2>1
<1> QED BY <1>1, <1>3, <1>5, <1>6, <1>7, <1>8 DEF EventOK

(* Flags are set: every task they satisfy stops to wait, and gets them.    *)
LEMMA RaiseStep ==
    ASSUME EventOK, NEW p \in SUBSET Flags, Raise(p), CallsInv',
           NEW s, EndedFor(sys, s, Satisfied(p)),
           sys'.state = s.state, sys'.pwait = s.pwait, sys'.rc = s.rc
    PROVE  EventOK'
<1> DEFINE D == Satisfied(p)
<1>0. EventQueue \in WaitQueues /\ CallsInv
  BY EventAssumption DEF EventOK
<1>1. \A x : x \in D <=> x \in Tasks /\ WaitsIn(sys, x, EventQueue) /\ Cond(p, ewait[x])
  <2>1. \A x : x \in ToSet(sys.wait[EventQueue]) <=>
                 x \in AllTasks /\ WaitsIn(sys, x, EventQueue)
    BY <1>0, QueueWaits
  <2>2. \A x \in ToSet(sys.wait[EventQueue]) : x \in Tasks
    BY <1>0, QueueWaits
  <2> QED BY <2>1, <2>2, SystemTasks DEF Satisfied
<1>2. D \in SUBSET Tasks /\ Tasks \subseteq AllTasks
  BY <1>1, SystemTasks
<1>3. /\ pattern' = IF SomeWoken(p) /\ "CLR" \in attr THEN {} ELSE p
      /\ ewait' = [t \in Tasks |-> IF t \in D THEN [ewait[t] EXCEPT !.bits = p]
                                   ELSE ewait[t]]
      /\ delivered' = IF Cardinality(D) > 2 THEN 2 ELSE Cardinality(D)
      /\ kept' = (D # {} /\ ~SomeWoken(p))
      /\ call' = call /\ attr' = attr /\ eventExists' = eventExists /\ asked' = asked
      /\ untouched' = untouched
  BY DEF Raise
<1> HIDE DEF D
<1>4. IsFiniteSet(D) /\ Cardinality(D) \in Nat
  <2>1. sys.wait[EventQueue] \in Seq(AllTasks)
    BY <1>0, QueueWaits
  <2>2. IsFiniteSet(ToSet(sys.wait[EventQueue]))
    BY <2>1, FiniteToSet
  <2> QED BY <2>2, FS_Subset, FS_CardinalityType DEF D, Satisfied
<1>5. EventTypes'
  <2>1. ewait' \in [Tasks -> Conditions]
    BY <1>3 DEF EventOK, EventTypes, Conditions
  <2> QED BY <1>3, <1>4, <2>1 DEF EventOK, EventTypes
<1>6. /\ \A x \in D : /\ sys'.state[x] \in {"runnable", "suspend"}
                      /\ ewait'[x].bits = p
      /\ \A x \in Tasks \ D : ewait'[x] = ewait[x] /\ Kept(sys, sys', x)
  BY <1>2, <1>3 DEF EndedFor, Kept, D, EventOK, EventTypes, Conditions
<1>7. ASSUME NEW x \in Tasks, WaitsIn(sys', x, EventQueue)
      PROVE  x \notin D /\ WaitsIn(sys, x, EventQueue)
  <2>1. x \notin D
    BY <1>6, <1>7 DEF WaitsIn, Waiting
  <2> QED BY <1>6, <1>7, <2>1 DEF Kept, WaitsIn, Waiting
<1>8. \A x \in Tasks : WaiterOK(x)'
  <2>1. SUFFICES ASSUME NEW x \in Tasks, WaitsIn(sys', x, EventQueue)
                 PROVE  /\ ewait'[x] = asked'[x] /\ asked'[x].bits # {}
                        /\ eventExists' => ~Cond(pattern', ewait'[x])
    BY DEF WaiterOK
  <2>2. x \notin D /\ WaitsIn(sys, x, EventQueue) /\ ewait'[x] = ewait[x]
    BY <1>6, <1>7, <2>1
  <2>3. ewait[x] = asked[x] /\ asked[x].bits # {}
    BY <2>2 DEF WaiterOK, EventOK
  <2>4. ~Cond(p, ewait[x]) /\ ~Cond({}, ewait[x])
    BY <1>1, <2>2, <2>3, CondLess
  <2> QED BY <1>3, <2>2, <2>3, <2>4
<1>9. SingleOK'
  BY <1>3, <1>7 DEF SingleOK, EventOK
<1>10. ClearedOK'
  <2>1. SUFFICES ASSUME "CLR" \in attr, ~kept'
                 PROVE  delivered' = 0 \/ (delivered' = 1 /\ pattern' = {})
    BY <1>3 DEF ClearedOK
  <2>2. CASE D = {}
    <3>1. Cardinality(D) = 0
      BY <2>2, FS_EmptySet
    <3> QED BY <1>3, <3>1
  <2>3. CASE D # {}
    <3>1. PICK d \in D : TRUE
      BY <2>3
    <3>2. "SINGLE" \in attr
      BY <2>1, EventAssumption DEF EventOK, EventTypes
    <3>3. \A y \in D : y = d
      BY <1>1, <3>2 DEF EventOK, SingleOK
    <3>4. Cardinality(D) = 1
      BY <3>1, <3>3, OneElement
    <3>5. SomeWoken(p)
      BY <1>3, <2>1, <2>3
    <3> QED BY <1>3, <2>1, <3>4, <3>5
  <2> QED BY <2>2, <2>3
<1>11. DeletersOK'
  BY <1>3 DEF DeletersOK, EventOK
<1>12. NoRelease => \A x \in Tasks : GrantOK(x)'
  <2>1. ASSUME NoRelease, NEW x \in Tasks PROVE GrantOK(x)'
    <3>1. CASE x \in D
      <4>1. Cond(p, ewait[x]) /\ ewait[x] = asked[x] /\ asked[x].bits # {}
        BY <1>1, <3>1 DEF EventOK, WaiterOK
      <4>2. asked[x].mode \in {"OR", "AND"}
        BY DEF EventOK, EventTypes, Conditions
      <4>3. p \cap asked[x].bits # {} /\ (asked[x].mode = "AND" => asked[x].bits \subseteq p)
        BY <4>1, <4>2 DEF Cond
      <4> QED BY <1>3, <1>6, <3>1, <4>3 DEF GrantOK
    <3>2. CASE x \notin D
      BY <1>3, <1>6, <2>1, <3>2 DEF GrantOK, EventOK, Kept, Waiting
    <3> QED BY <3>1, <3>2
  <2> QED BY <2>1
<1> QED BY <1>5, <1>8, <1>9, <1>10, <1>11, <1>12 DEF EventOK

LEMMA SatisfiedWait ==
    ASSUME CallsInv, NEW p
    PROVE  Satisfied(p) \in SUBSET (created \cup revived) /\ \A x \in Satisfied(p) : Waiting(sys, x)
BY QueueWaits, EventAssumption DEF Satisfied, WaitsIn

LEMMA EventSetStep ==
    ASSUME EventOK, NEW bits \in SUBSET Flags, tn_event_set(bits) \/ tn_event_iset(bits)
    PROVE  EventOK'
<1> DEFINE p == pattern \cup bits
           s == scan_event_waitqueue(p)
<1>0. CallsInv /\ p \in SUBSET Flags
  BY DEF EventOK, EventTypes
<1>1. EndedFor(sys, s, Satisfied(p))
  BY <1>0, ScanDone
<1>2. Satisfied(p) \in SUBSET (created \cup revived) /\ \A x \in Satisfied(p) : Waiting(sys, x)
  BY <1>0, SatisfiedWait
<1>3. CASE tn_event_set(bits)
  <2>1. /\ Enter /\ sys' = s /\ Raise(p)
        /\ pending' \in {pending, pending \cup {sys.curr}}
        /\ UNCHANGED <<masked, created, revived, slices, booted, cursor, scanning, skipped, call>>
    BY <1>3 DEF tn_event_set, otherVars, Raise
  <2> HIDE DEF s, p
  <2>2. CallsInv'
    BY <1>0, <1>1, <1>2, <2>1, EndedStep
  <2> QED BY <1>0, <1>1, <2>1, <2>2, RaiseStep
<1>4. CASE tn_event_iset(bits)
  <2>1. /\ IrqEnabled /\ tn_cpu_irq_isr(s, SomeWoken(p)) /\ Raise(p)
        /\ UNCHANGED <<pending, masked, created, revived, slices, booted, cursor, scanning, call>>
    BY <1>4 DEF tn_event_iset, Raise
  <2>2. SomeWoken(p) \in BOOLEAN
    BY DEF SomeWoken
  <2> HIDE DEF s, p
  <2>3. /\ CallsInv'
        /\ sys'.state = s.state /\ sys'.pwait = s.pwait /\ sys'.rc = s.rc
    BY <1>0, <1>1, <1>2, <2>1, <2>2, EndedIsrStep
  <2> QED BY <1>0, <1>1, <2>1, <2>3, RaiseStep
<1> QED BY <1>3, <1>4

(* Nobody starts to wait, and the event does not change, or is deleted.    *)
LEMMA EventShorter ==
    ASSUME EventOK, CallsInv', \A x \in Tasks : WaitsIn(sys', x, EventQueue) =>
                                                WaitsIn(sys, x, EventQueue),
           UNCHANGED <<pattern, attr, ewait, asked, delivered, kept>>,
           eventExists' \in {eventExists, FALSE}, DeletersOK',
           NoRelease => \A x \in Tasks : GrantOK(x)'
    PROVE  EventOK'
<1>1. EventTypes'
  BY DEF EventOK, EventTypes
<1>2. \A x \in Tasks : WaiterOK(x)'
  BY DEF EventOK, EventTypes, WaiterOK
<1>3. SingleOK' /\ ClearedOK'
  BY DEF EventOK, SingleOK, ClearedOK
<1> QED BY <1>1, <1>2, <1>3 DEF EventOK

LEMMA EventDeleteStep ==
    ASSUME EventOK, tn_event_delete
    PROVE  EventOK'
<1>0. EventQueue \in WaitQueues /\ CallsInv
  BY EventAssumption DEF EventOK
<1>p. \A at \in {"delete", "remove", "finish"} :
        Place(at, EventQueue) \in Places /\ Place(at, EventQueue).at = at
  BY <1>0 DEF Place, Places
<1>1. CASE /\ Enter /\ Goto(Place("delete", EventQueue)) /\ untouched' = FALSE
           /\ UNCHANGED <<vars, pattern, attr, eventExists, ewait, asked, delivered, kept>>
  <2>1. sys' = sys /\ UNCHANGED <<sys, pending, otherVars>>
    BY <1>1 DEF vars, otherVars
  <2>2. At(Outside) /\ Outside.at = "none"
    BY <1>1 DEF Enter, Outside
  <2>3. CallsInv'
    BY <1>0, <1>1, <1>p, <2>1, <2>2, MoveStep
  <2>4. DeletersOK' /\ \A x \in Tasks : GrantOK(x)'
    BY <1>1 DEF DeletersOK, GrantOK
  <2> QED BY <1>1, <2>1, <2>3, <2>4, EventShorter
<1>2. ASSUME NEW at \in {"delete", "remove", "finish"}, At(Place(at, EventQueue)),
             untouched' = untouched
      PROVE  DeletersOK' /\ \A x \in Tasks : GrantOK(x)'
  <2>1. sys.curr \in Tasks /\ call[sys.curr].at = at
    BY <1>2, <1>p DEF At
  <2>2. ~untouched
    BY <2>1 DEF EventOK, DeletersOK
  <2> QED BY <1>2, <2>2 DEF DeletersOK, GrantOK
<1>3. CASE DeleteCheck(EventQueue, Place("finish", EventQueue)) /\ UNCHANGED eventVars
  <2>1. CallsInv' /\ sys' = sys
    BY <1>0, <1>3, <1>p, CheckStep
  <2>2. DeletersOK' /\ \A x \in Tasks : GrantOK(x)'
    BY <1>2, <1>3 DEF DeleteCheck, eventVars
  <2> QED BY <1>3, <2>1, <2>2, EventShorter DEF eventVars
<1>4. CASE DeleteRemove(EventQueue) /\ UNCHANGED eventVars
  <2>1. CallsInv' /\ NoNewWaiter(sys, sys', EventQueue)
    BY <1>0, <1>4, RemoveStep
  <2>2. DeletersOK' /\ \A x \in Tasks : GrantOK(x)'
    BY <1>2, <1>4 DEF DeleteRemove, eventVars
  <2>3. \A x \in Tasks : WaitsIn(sys', x, EventQueue) => WaitsIn(sys, x, EventQueue)
    BY <2>1, SystemTasks DEF NoNewWaiter
  <2> QED BY <1>4, <2>1, <2>2, <2>3, EventShorter DEF eventVars
<1>5. CASE /\ DeleteFinish(EventQueue) /\ eventExists' = FALSE
           /\ UNCHANGED <<pattern, attr, ewait, asked, delivered, kept, untouched>>
  <2>1. CallsInv' /\ sys' = sys
    BY <1>0, <1>5, FinishStep
  <2>2. DeletersOK' /\ \A x \in Tasks : GrantOK(x)'
    BY <1>2, <1>5 DEF DeleteFinish
  <2> QED BY <1>5, <2>1, <2>2, EventShorter
<1> QED BY <1>1, <1>3, <1>4, <1>5 DEF tn_event_delete

LEMMA EventKernelStep ==
    ASSUME EventOK, KernelStep, UNCHANGED eventVars
    PROVE  EventOK'
<1>0. EventQueue \in WaitQueues /\ CallsInv
  BY EventAssumption DEF EventOK
<1>1. CallsInv' /\ KernelEffect(sys') /\ call' = call
  BY <1>0, KernelCalls
<1>2. SystemOK(sys')
  BY <1>1 DEF CallsInv, IInv, Sound, Rest
<1>3. NoNewWaiter(sys, sys', EventQueue)
  BY <1>0, <1>1, <1>2, KernelWaiters
<1>4. \A x \in Tasks : WaitsIn(sys', x, EventQueue) => WaitsIn(sys, x, EventQueue)
  BY <1>3, SystemTasks DEF NoNewWaiter
<1>5. DeletersOK'
  BY <1>1 DEF DeletersOK, EventOK, eventVars
<1>6. NoRelease => \A x \in Tasks : GrantOK(x)'
  <2>1. ASSUME NoRelease, NEW x \in Tasks, GrantOK(x) PROVE GrantOK(x)'
    BY <1>0, <1>1, <2>1, KernelGrants DEF GrantOK, eventVars
  <2> QED BY <2>1 DEF EventOK
<1> QED BY <1>1, <1>4, <1>5, <1>6, EventShorter DEF eventVars

LEMMA EventNextOK ==
    ASSUME EventOK, [EventNext]_<<vars, call, eventVars>>
    PROVE  EventOK'
<1>1. CASE \E a \in Attributes, p \in SUBSET Flags : tn_event_create(a, p)
  BY <1>1, EventCreateStep
<1>2. ASSUME NEW w \in [mode : {"OR", "AND"}, bits : WaitPatterns],
             \/ \E timeout \in Timeouts : tn_event_wait(w, timeout)
             \/ tn_event_wait_polling(w)
             \/ tn_event_iwait(w)
      PROVE  EventOK'
  <2>1. CASE Consume(w)
    BY <2>1, ConsumeStep
  <2>2. CASE ~Consume(w)
    <3>1. PICK timeout \in Timeouts : tn_event_wait(w, timeout)
      BY <1>2, <2>2 DEF tn_event_wait_polling, tn_event_iwait
    <3> QED BY <2>2, <3>1, EventBlockStep DEF tn_event_wait
  <2> QED BY <2>1, <2>2
<1>3. CASE WaitReturn
  BY <1>3, EventReturnStep
<1>4. ASSUME NEW bits \in SUBSET Flags,
             \/ tn_event_set(bits) \/ tn_event_iset(bits)
             \/ tn_event_clear(bits) \/ tn_event_iclear(bits)
      PROVE  EventOK'
  BY <1>4, EventSetStep, ClearStep DEF tn_event_clear, tn_event_iclear
<1>5. CASE tn_event_delete
  BY <1>5, EventDeleteStep
<1>6. CASE KernelStep /\ UNCHANGED eventVars
  BY <1>6, EventKernelStep
<1>7. CASE UNCHANGED <<vars, call, eventVars>>
  <2>1. UNCHANGED <<vars, call, attr, eventExists, ewait, asked, untouched, kept,
                    delivered, pattern>>
    BY <1>7 DEF eventVars
  <2>2. pattern' = pattern \cap pattern
    BY <2>1
  <2>3. ClearedOK' /\ delivered' \in Nat
    BY <2>1 DEF ClearedOK, EventOK, EventTypes
  <2> QED BY <2>1, <2>2, <2>3, EventFewer
<1> QED BY <1>1, <1>2, <1>3, <1>4, <1>5, <1>6, <1>7 DEF EventNext

(* The inductive invariant of TNEvent: what a waiting task asked for is in *)
(* its TCB and the pattern does not satisfy it, and what was delivered and *)
(* not returned yet (tn_event.c).                                          *)
THEOREM EventInvariance ==
    EventSpec => []EventOK
<1>1. EventInit => EventOK
  BY EventInitOK
<1>2. EventOK /\ [EventNext]_<<vars, call, eventVars>> => EventOK'
  BY EventNextOK
<1> QED BY <1>1, <1>2, PTL DEF EventSpec

(* No task waits for a condition that holds, for any number of tasks and   *)
(* flags: one call of tn_event_set releases every task that it satisfies.  *)
THEOREM EventReachesAll ==
    EventSpec => []NobodyMissesEvent
<1>1. EventOK => NobodyMissesEvent
  BY EventProperties
<1> QED BY <1>1, EventInvariance, PTL

(* A task that tn_event_wait returns TERR_NO_ERR to has the flags it asked *)
(* for, whatever happens to the event between its release and its return,  *)
(* if no wait is ended by force.                                           *)
THEOREM GrantIsRight ==
    ASSUME NoRelease
    PROVE  EventSpec => []GrantMatchesRequest
<1>1. EventOK => GrantMatchesRequest
  BY EventProperties
<1> QED BY <1>1, EventInvariance, PTL

(* What is set in an event with TN_EVENT_ATTR_CLR completes one wait.      *)
THEOREM EventDeliveredOnce ==
    EventSpec => []DeliveredOnce
<1>1. EventOK => DeliveredOnce
  BY EventProperties
<1> QED BY <1>1, EventInvariance, PTL

=============================================================================
