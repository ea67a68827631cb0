------------------------------- MODULE TNTasks -------------------------------
(***************************************************************************)
(* The task services of TNKernel (tn_tasks.c), the timer task, the tick    *)
(* interrupt and the context switch (tn.c, tn_port_asm.s).                 *)
(*                                                                         *)
(* A service runs with interrupts disabled, so it is one step.  It then    *)
(* enables interrupts and, when it has to, calls tn_switch_context: the    *)
(* task is in "pending" from the first to the second, and any interrupt    *)
(* may come in between.  An interrupt handler and the context switch at    *)
(* its end are one step (interrupts do not nest in this port).             *)
(* A call that returns an error and changes nothing is not a step.         *)
(***************************************************************************)
EXTENDS TNSched

CONSTANTS
    Timeouts,        \* the timeouts tasks pass to tn_task_sleep
    SlicePriorities, \* the priorities and the values they pass to
    Slices,          \* tn_sys_tslice_ticks
    Services,        \* the services the application calls
    TickOverrun      \* TRUE: a tick interrupt may come before the timer
                     \* task is done with the tick before it

AllServices == {"create", "suspend", "resume", "sleep", "wakeup", "iwakeup",
                "activate", "iactivate", "release_wait", "irelease_wait",
                "exit", "terminate", "delete", "change_priority", "tslice"}

ASSUME ServicesAssumption ==
    /\ Timeouts \subseteq (Nat \ {0}) \cup {TN_WAIT_INFINITE}
    /\ SlicePriorities \subseteq Priorities
    /\ Slices \subseteq Nat
    /\ Services \subseteq AllServices
    /\ TickOverrun \in BOOLEAN

VARIABLES
    sys,      \* the scheduler data
    pending,  \* the tasks whose next instruction is tn_switch_context
    masked,   \* the tasks whose saved CPSR has interrupts disabled
    created,  \* the tasks with id_task = TN_ID_TASK
    slices,   \* tn_tslice_ticks
    booted,   \* tn_app_init has returned and interrupts are enabled
    cursor,   \* what the timer task has still to visit of the timeout list
    scanning, \* the timer task is in its loop, interrupts disabled
    skipped,  \* history: since the last context switch tn_task_create has
              \* started a task of a higher priority than its caller's
    revived   \* history: the tasks that tn_task_exit has deleted although a
              \* pending request had just made them runnable again

vars == <<sys, pending, masked, created, revived, slices, booted, cursor, scanning, skipped>>

Init ==
    /\ sys = tn_start_system
    /\ pending = {}
    /\ masked = {}
    /\ created = {}
    /\ revived = {}
    /\ slices = [p \in Priorities |-> 0]
    /\ booted = FALSE
    /\ cursor = <<>>
    /\ scanning = FALSE
    /\ skipped = FALSE

-----------------------------------------------------------------------------

(* tn_task_create has written over the TCB of a deleted task that is still *)
(* in use: it may be linked in a list, whose other entries still point to  *)
(* it.  What the lists hold from then on is undefined, and nothing more is *)
(* said about the system.                                                  *)
Overwritten == created \cap revived # {}

(* The calling task is running its own code with interrupts enabled, as    *)
(* TN_CHECK_NON_INT_CONTEXT requires.                                      *)
Calls(name) ==
    /\ name \in Services
    /\ booted
    /\ ~Overwritten
    /\ sys.curr \in Tasks \ (pending \cup masked)

(* Mutant: the timer task walks the timeout list with interrupts enabled.  *)
Unlocked_IrqEnabled == booted /\ ~Overwritten /\ sys.curr \notin masked

(* The services an interrupt handler may call *)
IrqEnabled ==
    /\ booted
    /\ ~Overwritten
    /\ ~scanning
    /\ sys.curr \notin masked

(* if(tn_next_task_to_run != tn_curr_run_task) tn_switch_context();        *)
SwitchIfNeeded(s) ==
    pending' = IF s.next # s.curr THEN pending \cup {s.curr} ELSE pending

(* Return from an interrupt that did or did not request a context switch   *)
tn_cpu_irq_isr(s, request) ==
    /\ sys' = IF request THEN [s EXCEPT !.curr = s.next] ELSE s
    /\ skipped' = (skipped /\ ~request)

tn_switch_context ==
    /\ sys.curr \in pending
    /\ ~scanning
    /\ sys' = [sys EXCEPT !.curr = IF sys.next = NoTask THEN @ ELSE sys.next]
    /\ pending' = pending \ {sys.curr}
    /\ skipped' = FALSE
    /\ UNCHANGED <<masked, created, revived, slices, booted, cursor, scanning>>

-----------------------------------------------------------------------------
(* Task services                                                           *)

(* Called by a task, or by tn_app_init in the timer task before interrupts *)
(* are enabled.  No context switch follows, even when the new task has a   *)
(* higher priority than the caller.  The only check is that id_task is 0:  *)
(* the TCB of a task that was deleted while it was runnable is overwritten *)
(* where it stands, and the system is followed no further (Overwritten).   *)
tn_task_create(t, start) ==
    /\ Calls("create") \/ ~booted
    /\ t \notin created
    /\ LET d == task_set_dormant_state([sys EXCEPT !.activate[t] = 0], t)
           s == IF start THEN task_to_runnable(d, t) ELSE d
       IN  IF sys.state[t] = "dormant"
           THEN sys' = s /\ skipped' = (skipped \/ s.next # s.curr)
           ELSE UNCHANGED <<sys, skipped>>
    /\ created' = created \cup {t}
    /\ UNCHANGED <<revived, pending, masked, slices, booted, cursor, scanning>>

(* Mutant: no context switch after a task has suspended itself.            *)
NoSwitch_tn_task_suspend(t) ==
    /\ Calls("suspend")
    /\ t \in created
    /\ ~Suspended(sys, t)
    /\ sys.state[t] # "dormant"
    /\ sys' = IF sys.state[t] = "runnable"
              THEN task_to_non_runnable([sys EXCEPT !.state[t] = "suspend"], t)
              ELSE [sys EXCEPT !.state[t] = "waitsusp"]
    /\ UNCHANGED <<pending, masked, created, revived, slices, booted, cursor, scanning, skipped>>

tn_task_suspend(t) ==
    /\ Calls("suspend")
    /\ t \in created
    /\ ~Suspended(sys, t)
    /\ sys.state[t] # "dormant"
    /\ IF sys.state[t] = "runnable"
       THEN LET s == task_to_non_runnable([sys EXCEPT !.state[t] = "suspend"], t)
            IN  sys' = s /\ SwitchIfNeeded(s)
       ELSE sys' = [sys EXCEPT !.state[t] = "waitsusp"] /\ UNCHANGED pending
    /\ UNCHANGED <<masked, created, revived, slices, booted, cursor, scanning, skipped>>

tn_task_resume(t) ==
    /\ Calls("resume")
    /\ t \in created
    /\ Suspended(sys, t)
    /\ IF ~Waiting(sys, t)
       THEN LET s == task_to_runnable(sys, t)
            IN  sys' = s /\ SwitchIfNeeded(s)
       ELSE sys' = [sys EXCEPT !.state[t] = "wait"] /\ UNCHANGED pending
    /\ UNCHANGED <<masked, created, revived, slices, booted, cursor, scanning, skipped>>

tn_task_sleep(timeout) ==
    /\ Calls("sleep")
    /\ IF sys.wakeup[sys.curr] > 0
       THEN sys' = [sys EXCEPT !.wakeup[sys.curr] = @ - 1] /\ UNCHANGED pending
       ELSE /\ sys' = task_curr_to_wait_action(sys, NoQueue, "sleep", timeout)
            /\ pending' = pending \cup {sys.curr}
    /\ UNCHANGED <<masked, created, revived, slices, booted, cursor, scanning, skipped>>

Asleep(t) == Waiting(sys, t) /\ sys.reason[t] = "sleep"

(* A wakeup of a task that is not asleep is counted in the TCB of the      *)
(* running task, as the code does, not in that of the task.                *)
CountWakeup == [sys EXCEPT !.wakeup[sys.curr] = 1]

tn_task_wakeup(t) ==
    /\ Calls("wakeup")
    /\ t \in created
    /\ sys.state[t] # "dormant"
    /\ IF Asleep(t)
       THEN /\ sys' = task_wait_complete(sys, t, FALSE)
            /\ pending' = IF Woken(sys, t) THEN pending \cup {sys.curr} ELSE pending
       ELSE /\ sys.wakeup[sys.curr] = 0
            /\ sys' = CountWakeup
            /\ UNCHANGED pending
    /\ UNCHANGED <<masked, created, revived, slices, booted, cursor, scanning, skipped>>

tn_task_iwakeup(t) ==
    /\ "iwakeup" \in Services
    /\ IrqEnabled
    /\ t \in created
    /\ sys.state[t] # "dormant"
    /\ IF Asleep(t)
       THEN tn_cpu_irq_isr(task_wait_complete(sys, t, FALSE), Woken(sys, t))
       ELSE /\ sys.wakeup[sys.curr] = 0
            /\ tn_cpu_irq_isr(CountWakeup, FALSE)
    /\ UNCHANGED <<pending, masked, created, revived, slices, booted, cursor, scanning>>

(* Mutant: no context switch after the activation of a better task.        *)
NoSwitch_tn_task_activate(t) ==
    /\ Calls("activate")
    /\ t \in created
    /\ sys.state[t] = "dormant"
    /\ sys' = task_to_runnable(sys, t)
    /\ UNCHANGED <<pending, masked, created, revived, slices, booted, cursor, scanning, skipped>>

tn_task_activate(t) ==
    /\ Calls("activate")
    /\ t \in created
    /\ IF sys.state[t] = "dormant"
       THEN LET s == task_to_runnable(sys, t)
            IN  sys' = s /\ SwitchIfNeeded(s)
       ELSE /\ sys.activate[t] = 0
            /\ sys' = [sys EXCEPT !.activate[t] = 1]
            /\ UNCHANGED pending
    /\ UNCHANGED <<masked, created, revived, slices, booted, cursor, scanning, skipped>>

tn_task_iactivate(t) ==
    /\ "iactivate" \in Services
    /\ IrqEnabled
    /\ t \in created
    /\ IF sys.state[t] = "dormant"
       THEN LET s == task_to_runnable(sys, t)
            IN  tn_cpu_irq_isr(s, s.next # s.curr)
       ELSE /\ sys.activate[t] = 0
            /\ tn_cpu_irq_isr([sys EXCEPT !.activate[t] = 1], FALSE)
    /\ UNCHANGED <<pending, masked, created, revived, slices, booted, cursor, scanning>>

tn_task_release_wait(t) ==
    /\ Calls("release_wait")
    /\ t \in created
    /\ Waiting(sys, t)
    /\ sys' = task_wait_complete(sys, t, TRUE)
    /\ pending' = IF Woken(sys, t) THEN pending \cup {sys.curr} ELSE pending
    /\ UNCHANGED <<masked, created, revived, slices, booted, cursor, scanning, skipped>>

tn_task_irelease_wait(t) ==
    /\ "irelease_wait" \in Services
    /\ IrqEnabled
    /\ t \in created
    /\ Waiting(sys, t)
    /\ tn_cpu_irq_isr(task_wait_complete(sys, t, TRUE), Woken(sys, t))
    /\ UNCHANGED <<pending, masked, created, revived, slices, booted, cursor, scanning>>

(* The end of a task, by itself or by another one: its TCB is dormant with *)
(* a new stack, and a pending activation request starts it again.          *)
Restart(s, t) ==
    LET d == task_set_dormant_state(s, t)
    IN  IF d.activate[t] > 0
        THEN task_to_runnable([d EXCEPT !.activate[t] = @ - 1], t)
        ELSE d

(* tn_task_exit does not check for disabled interrupts, so a masked task   *)
(* may call it; it ends in tn_switch_context_exit, which loads the next    *)
(* task at once.  The task loses its id whether or not a pending           *)
(* activation has made it runnable again.                                  *)
tn_task_exit(delete) ==
    LET t == sys.curr
        s == Restart(task_to_non_runnable(sys, t), t)
    IN  /\ "exit" \in Services
        /\ booted
        /\ ~Overwritten
        /\ t \in Tasks \ pending
        /\ sys' = [s EXCEPT !.curr = s.next]
        /\ created' = IF delete THEN created \ {t} ELSE created
        /\ revived' = IF s.state[t] = "dormant" THEN revived \ {t}
                      ELSE IF delete THEN revived \cup {t} ELSE revived
        /\ masked' = masked \ {t}
        /\ skipped' = FALSE
        /\ UNCHANGED <<pending, slices, booted, cursor, scanning>>

(* Takes a task that is not running out of every list it is in *)
Detach(s, t) ==
    IF s.state[t] = "runnable" THEN task_to_non_runnable(s, t)
    ELSE IF Waiting(s, t)
    THEN [queue_remove_entry(s, t) EXCEPT
             !.timeouts = IF s.tick[t] = TN_WAIT_INFINITE THEN @
                          ELSE RemoveFirst(@, t)]
    ELSE s

tn_task_terminate(t) ==
    /\ Calls("terminate")
    /\ t \in created
    /\ t # sys.curr
    /\ sys.state[t] # "dormant"
    /\ LET s == Restart(Detach(sys, t), t)
       IN  /\ sys' = s
           /\ pending' = IF s.state[t] = "runnable" /\ s.next # s.curr
                         THEN (pending \ {t}) \cup {s.curr}
                         ELSE pending \ {t}
    /\ masked' = masked \ {t}
    /\ UNCHANGED <<created, revived, slices, booted, cursor, scanning, skipped>>

(* Mutant: a task that is not dormant may be deleted.                      *)
Any_tn_task_delete(t) ==
    /\ Calls("delete")
    /\ t \in created
    /\ created' = created \ {t}
    /\ UNCHANGED <<sys, revived, pending, masked, slices, booted, cursor, scanning, skipped>>

tn_task_delete(t) ==
    /\ Calls("delete")
    /\ t \in created
    /\ sys.state[t] = "dormant"
    /\ created' = created \ {t}
    /\ UNCHANGED <<sys, revived, pending, masked, slices, booted, cursor, scanning, skipped>>

tn_task_change_priority(t, priority) ==
    LET p == IF priority = 0 THEN base_priority(t) ELSE priority
    IN  /\ Calls("change_priority")
        /\ t \in created
        /\ sys.state[t] # "dormant"
        /\ IF sys.state[t] = "runnable"
           THEN LET s == change_running_task_priority(sys, t, p)
                IN  /\ sys' = s
                    /\ pending' = IF s.next # sys.next THEN pending \cup {sys.curr}
                                                       ELSE pending
           ELSE sys' = [sys EXCEPT !.priority[t] = p] /\ UNCHANGED pending
        /\ UNCHANGED <<masked, created, revived, slices, booted, cursor, scanning, skipped>>

(* A priority out of range returns before interrupts are enabled again:    *)
(* the caller goes on with interrupts disabled.                            *)
tn_sys_tslice_ticks(priority, value) ==
    /\ Calls("tslice")
    /\ IF priority \in {0, TN_NUM_PRIORITY - 1}
       THEN masked' = masked \cup {sys.curr} /\ UNCHANGED slices
       ELSE slices' = [slices EXCEPT ![priority] = value] /\ UNCHANGED masked
    /\ UNCHANGED <<sys, pending, created, revived, booted, cursor, scanning, skipped>>

-----------------------------------------------------------------------------
(* Timer task and tick interrupt                                           *)

(* tn_app_init returns and the timer task enables interrupts *)
AppInitDone ==
    /\ ~booted
    /\ booted' = TRUE
    /\ UNCHANGED <<sys, pending, masked, created, revived, slices, cursor, scanning, skipped>>

TimerBegin ==
    /\ booted
    /\ ~scanning
    /\ sys.curr = TimerTask
    /\ TimerTask \notin pending
    /\ scanning' = TRUE
    /\ cursor' = sys.timeouts
    /\ UNCHANGED <<sys, pending, masked, created, revived, slices, booted, skipped>>

(* Mutant: the task whose time has come is not released.                   *)
Forget_Expire(s, t) ==
    IF s.tick[t] <= 0 THEN s ELSE [s EXCEPT !.tick[t] = @ - 1]

(* One entry of the timeout list.  The entry stays in front of the rest of *)
(* the list when it is removed: its own next link is not touched.          *)
Expire(s, t) ==
    LET d == [s EXCEPT !.tick[t] = @ - 1]
    IN  IF s.tick[t] <= 0 THEN s
        ELSE IF s.tick[t] = 1
        THEN [task_wait_complete(d, t, TRUE) EXCEPT !.rc[t] = "TIMEOUT"]
        ELSE d

TimerVisit ==
    /\ scanning
    /\ cursor # <<>>
    /\ sys' = Expire(sys, Head(cursor))
    /\ cursor' = Tail(cursor)
    /\ UNCHANGED <<pending, masked, created, revived, slices, booted, scanning, skipped>>

TimerSleep ==
    /\ scanning
    /\ cursor = <<>>
    /\ sys' = task_curr_to_wait_action(sys, NoQueue, "sleep", TN_WAIT_INFINITE)
    /\ pending' = pending \cup {TimerTask}
    /\ scanning' = FALSE
    /\ UNCHANGED <<masked, created, revived, slices, booted, cursor, skipped>>

(* Mutant: the tail of the ready list goes back to the tail.               *)
Tail_RoundRobin(s) ==
    LET t == s.curr
        p == s.priority[t]
    IN  IF slices[p] = 0 THEN s
        ELSE [s EXCEPT !.tslice[t] = IF @ + 1 <= slices[p] THEN @ + 1 ELSE 0]

(* Round robin: when the slice of the running task is over, the tail of    *)
(* its ready list becomes the head.                                        *)
RoundRobin(s) ==
    LET t == s.curr
        p == s.priority[t]
        r == s.ready[p]
    IN  IF slices[p] = 0 THEN s
        ELSE IF s.tslice[t] + 1 <= slices[p]
        THEN [s EXCEPT !.tslice[t] = @ + 1]
        ELSE [s EXCEPT !.tslice[t] = 0,
                       !.ready[p] = IF Len(r) > 1 THEN <<Last(r)>> \o Front(r)
                                                  ELSE r]

WakeTimer(s) ==
    [queue_remove_entry(s, TimerTask) EXCEPT
        !.reason[TimerTask] = "none",
        !.state[TimerTask] = "runnable",
        !.pwait[TimerTask] = NoQueue,
        !.rc[TimerTask] = "NO_ERR",
        !.ready[0] = Append(@, TimerTask),
        !.link[TimerTask] = "listed",
        !.bmp = @ \cup {0},
        !.next = TimerTask]

tn_tick_int_processing ==
    /\ IrqEnabled
    /\ TickOverrun \/ sys.curr # TimerTask
    /\ tn_cpu_irq_isr(WakeTimer(RoundRobin(sys)), TRUE)
    /\ UNCHANGED <<pending, masked, created, revived, slices, booted, cursor, scanning>>

-----------------------------------------------------------------------------

TaskService ==
    \/ \E t \in Tasks, start \in BOOLEAN : tn_task_create(t, start)
    \/ \E t \in Tasks :
         \/ tn_task_suspend(t)
         \/ tn_task_resume(t)
         \/ tn_task_wakeup(t)
         \/ tn_task_activate(t)
         \/ tn_task_release_wait(t)
         \/ tn_task_terminate(t)
         \/ tn_task_delete(t)
    \/ \E timeout \in Timeouts : tn_task_sleep(timeout)
    \/ \E delete \in BOOLEAN : tn_task_exit(delete)
    \/ \E t \in Tasks, p \in 0 .. TN_NUM_PRIORITY - 2 : tn_task_change_priority(t, p)
    \/ \E p \in SlicePriorities, v \in Slices : tn_sys_tslice_ticks(p, v)

IsrService ==
    \E t \in Tasks :
        \/ tn_task_iwakeup(t)
        \/ tn_task_iactivate(t)
        \/ tn_task_irelease_wait(t)

Timer == TimerBegin \/ TimerVisit \/ TimerSleep

Next ==
    \/ TaskService
    \/ IsrService
    \/ AppInitDone
    \/ Timer
    \/ tn_tick_int_processing
    \/ tn_switch_context
    \/ Overwritten /\ UNCHANGED vars

Spec == Init /\ [][Next]_vars

(* The processor never stops (a pending context switch and the loop of the *)
(* timer task are executed), tn_app_init returns, and the hardware timer   *)
(* interrupts again and again.                                             *)
Fairness ==
    /\ WF_vars(AppInitDone)
    /\ WF_vars(Timer)
    /\ WF_vars(tn_switch_context)
    /\ SF_vars(tn_tick_int_processing)

FairSpec == Spec /\ Fairness

-----------------------------------------------------------------------------
(* Properties                                                              *)

(* Every variable has its type.                                            *)
TypeOK ==
    /\ SchedType(sys)
    /\ pending \in SUBSET AllTasks
    /\ masked \in SUBSET Tasks
    /\ created \in SUBSET Tasks
    /\ revived \in SUBSET Tasks
    /\ slices \in [Priorities -> Nat]
    /\ booted \in BOOLEAN
    /\ scanning \in BOOLEAN
    /\ cursor \in Seq(AllTasks)
    /\ skipped \in BOOLEAN

(* Between two services the ready lists, the bitmap, the wait queues, the  *)
(* timeout list and tn_next_task_to_run agree with the task states, and no *)
(* queue_remove_entry was ever applied to a stale entry, although the same *)
(* task->task_queue links a task into ready lists and wait queues and most *)
(* routines of tn_tasks.c unlink it without knowing which list it is in.   *)
SchedInv == SchedOK(sys)

(* A task that executes its own code is runnable: a task that suspended    *)
(* itself or waits can only be about to call tn_switch_context, whatever   *)
(* interrupts came after tn_enable_interrupt.                              *)
OnlyRunnableRuns ==
    sys.curr \notin pending => sys.state[sys.curr] = "runnable"

(* A task executes its own code only while no other ready task has a       *)
(* better claim to the processor, unless it has started a task of a higher *)
(* priority with tn_task_create, which does not switch: then it may go on  *)
(* until the next context switch.                                          *)
HighestPriorityRuns ==
    sys.curr # sys.next /\ sys.curr \notin pending => skipped

(* Only existing tasks are scheduled: no runnable, waiting or suspended    *)
(* task has been deleted (id_task = 0), so its TCB cannot be handed to     *)
(* tn_task_create while a list still links it.  The one exception is a     *)
(* task that deleted itself by tn_task_exit with an activation request     *)
(* pending, until it ends: only its TCB can be overwritten where it stands. *)
OnlyCreatedScheduled ==
    \A t \in Tasks : sys.state[t] # "dormant" => t \in created \cup revived

(* While the timer task walks the timeout list no other task can get into  *)
(* or out of the part it has not visited, although every expired entry is  *)
(* unlinked under the cursor.                                              *)
CursorInList ==
    scanning => /\ sys.curr = TimerTask
                /\ sys.next = TimerTask
                /\ IsSuffix(cursor, sys.timeouts)

(* A task that sleeps with a timeout wakes up.                             *)
SleepEnds ==
    \A t \in Tasks : sys.tick[t] > 0 ~> sys.tick[t] = TN_WAIT_INFINITE

(* Round robin is fair: once the tasks that share a priority stay          *)
(* runnable there, with a time slice set and no task above them but the    *)
(* timer task, each of them runs again and again.  (The tail of the ready  *)
(* list becomes its head when a slice ends, so a task that sleeps and      *)
(* wakes up over and over, and is always the tail, is chosen before the    *)
(* others: the property does not hold for a set of tasks that changes.)    *)
RoundRobinFair ==
    \A p \in SlicePriorities : \A S \in SUBSET Tasks :
        <>[](/\ slices[p] > 0
             /\ ToSet(sys.ready[p]) = S
             /\ sys.bmp \cap (1 .. p - 1) = {})
          => \A t \in S : []<>(sys.curr = t)

=============================================================================
