------------------------------- MODULE TNSched -------------------------------
(***************************************************************************)
(* The scheduler data of TNKernel and the routines of tn_tasks.c that       *)
(* every kernel service is built from.                                     *)
(*                                                                         *)
(* The globals of tn.c and the fields of the task control blocks are one   *)
(* record s; a C routine that updates them in place is an operator that    *)
(* takes the record and returns the updated one, so that a service is the  *)
(* composition of the routines it calls, in the order it calls them.       *)
(*                                                                         *)
(*   s.ready     tn_ready_list: one list per priority                      *)
(*   s.bmp       tn_ready_to_run_bmp, as a set of priorities               *)
(*   s.next      tn_next_task_to_run                                       *)
(*   s.curr      tn_curr_run_task                                          *)
(*   s.wait      the wait_queue of every kernel object                     *)
(*   s.timeouts  tn_wait_timeout_list                                      *)
(*   s.state, s.priority, s.reason, s.pwait, s.rc, s.tick, s.wakeup,       *)
(*   s.activate, s.tslice    the TCB fields, one function per field        *)
(*   s.link      what task->task_queue points to: "listed" (an entry of    *)
(*               some list), "reset" (itself) or "stale" (the neighbours   *)
(*               it had in a list it has been removed from)                *)
(*   s.fault     TRUE once queue_remove_entry has been applied to a stale  *)
(*               entry, which overwrites the links of unrelated entries    *)
(*                                                                         *)
(* Configuration: USE_MUTEXES is not defined, as in the repository, and    *)
(* tn_enable_switch_context is 1 for ever (nothing clears it).             *)
(***************************************************************************)
EXTENDS Integers, Sequences, FiniteSets, SequencesExt

CONSTANTS
    Tasks,            \* the tasks of the application
    TimerTask,        \* tn_timer_task, priority 0
    IdleTask,         \* tn_idle_task, priority TN_NUM_PRIORITY - 1
    NoTask,           \* a NULL TCB pointer
    TN_NUM_PRIORITY,
    BasePriority,     \* base_priority of every task of the application
    WaitQueues,       \* the wait queues of the kernel objects
    NoQueue           \* a NULL pwait_queue

ASSUME TasksAssumption ==
    /\ TimerTask \notin Tasks
    /\ IdleTask \notin Tasks
    /\ TimerTask # IdleTask
    /\ NoTask \notin Tasks \cup {TimerTask, IdleTask}

ASSUME PriorityAssumption ==
    /\ TN_NUM_PRIORITY \in Nat
    /\ TN_NUM_PRIORITY >= 3
    /\ BasePriority \in [Tasks -> 1 .. TN_NUM_PRIORITY - 2]

ASSUME QueueAssumption == NoQueue \notin WaitQueues

-----------------------------------------------------------------------------

AllTasks == Tasks \cup {TimerTask, IdleTask}

Priorities == 0 .. TN_NUM_PRIORITY - 1

TN_WAIT_INFINITE == -1    \* 0xFFFFFFFF, as the int that tick_count is

TaskStates == {"runnable", "wait", "suspend", "waitsusp", "dormant"}

WaitReasons == {"none", "sleep", "sem", "event", "wsend", "wreceive",
                "wfixmem", "mutex_c", "mutex_c_blk", "mutex_i"}

WaitCodes == {"NO_ERR", "TIMEOUT", "DLT"}

(* Task waits for something: task_state & TSK_STATE_WAIT *)
Waiting(s, t) == s.state[t] \in {"wait", "waitsusp"}

(* task_state & TSK_STATE_SUSPEND *)
Suspended(s, t) == s.state[t] \in {"suspend", "waitsusp"}

base_priority(t) ==
    IF t = TimerTask THEN 0
    ELSE IF t = IdleTask THEN TN_NUM_PRIORITY - 1
    ELSE BasePriority[t]

-----------------------------------------------------------------------------
(* Lists of tasks linked through task->task_queue (tn_utils.c).            *)

(* queue_remove_entry(&task->task_queue): whatever list holds the task     *)
(* loses it.  The entry keeps its old links, unless it was reset.          *)
queue_remove_entry(s, t) ==
    [s EXCEPT !.ready = [p \in Priorities |-> RemoveFirst(s.ready[p], t)],
              !.wait  = [q \in WaitQueues |-> RemoveFirst(s.wait[q], t)],
              !.link[t] = IF @ = "reset" THEN "reset" ELSE "stale",
              !.fault = @ \/ s.link[t] = "stale"]

(* queue_remove_head of an object's wait queue *)
queue_remove_head(s, q) ==
    [s EXCEPT !.wait[q] = Tail(@),
              !.link[Head(s.wait[q])] = "stale"]

-----------------------------------------------------------------------------
(* Routines of tn_tasks.c                                                  *)

find_next_task_to_run(s) ==
    [s EXCEPT !.next = Head(s.ready[Min(s.bmp)])]

task_to_runnable(s, t) ==
    LET p == s.priority[t]
    IN  [s EXCEPT !.state[t] = "runnable",
                  !.pwait[t] = NoQueue,
                  !.ready[p] = Append(@, t),
                  !.link[t]  = "listed",
                  !.bmp      = @ \cup {p},
                  !.next     = IF s.next = NoTask \/ p < s.priority[s.next]
                               THEN t ELSE s.next]

task_to_non_runnable(s, t) ==
    LET p == s.priority[t]
        u == queue_remove_entry(s, t)
        b == s.bmp \ {p}
    IN  IF u.ready[p] = <<>>
        THEN IF b = {} THEN [u EXCEPT !.bmp = b, !.next = NoTask]
                       ELSE find_next_task_to_run([u EXCEPT !.bmp = b])
        ELSE IF u.next = t THEN [u EXCEPT !.next = Head(u.ready[p])]
                           ELSE u

(* The value task_wait_complete returns: the task became runnable.         *)
Woken(s, t) == ~Suspended(s, t)

task_wait_complete(s, t, tqueue_remove_enable) ==
    LET a == IF tqueue_remove_enable THEN queue_remove_entry(s, t) ELSE s
        b == [a EXCEPT !.pwait[t] = NoQueue,
                       !.rc[t] = "NO_ERR",
                       !.timeouts = IF s.tick[t] = TN_WAIT_INFINITE THEN @
                                    ELSE RemoveFirst(@, t),
                       !.tick[t] = TN_WAIT_INFINITE]
        c == IF Woken(s, t) THEN task_to_runnable(b, t)
                            ELSE [b EXCEPT !.state[t] = "suspend"]
    IN  [c EXCEPT !.reason[t] = "none"]

(* Mutant: without queue_reset when the task waits in no queue.            *)
NoReset_task_curr_to_wait_action(s, q, reason, timeout) ==
    LET t == s.curr
        v == [task_to_non_runnable(s, t) EXCEPT
                !.state[t] = "wait",
                !.reason[t] = reason,
                !.tick[t] = timeout,
                !.timeouts = IF timeout = TN_WAIT_INFINITE THEN @
                             ELSE Append(@, t)]
    IN  IF q = NoQueue THEN v
        ELSE [v EXCEPT !.wait[q] = Append(@, t),
                       !.link[t] = "listed",
                       !.pwait[t] = q]

(* The running task starts to wait, in queue q or (NoQueue) in none.       *)
task_curr_to_wait_action(s, q, reason, timeout) ==
    LET t == s.curr
        u == task_to_non_runnable(s, t)
        v == [u EXCEPT !.state[t] = "wait",
                       !.reason[t] = reason,
                       !.tick[t] = timeout,
                       !.timeouts = IF timeout = TN_WAIT_INFINITE THEN @
                                    ELSE Append(@, t)]
    IN  IF q = NoQueue
        THEN [v EXCEPT !.link[t] = "reset"]
        ELSE [v EXCEPT !.wait[q] = Append(@, t),
                       !.link[t] = "listed",
                       !.pwait[t] = q]

(* A runnable task moves to the tail of the ready list of new_priority.    *)
change_running_task_priority(s, t, new_priority) ==
    LET old == s.priority[t]
        u == queue_remove_entry(s, t)
        v == [u EXCEPT !.priority[t] = new_priority,
                       !.ready[new_priority] = Append(@, t),
                       !.link[t] = "listed",
                       !.bmp = (IF u.ready[old] = <<>> THEN @ \ {old} ELSE @)
                                 \cup {new_priority}]
    IN  IF s.next = t
        THEN IF new_priority >= old THEN find_next_task_to_run(v) ELSE v
        ELSE IF new_priority < v.priority[v.next] THEN [v EXCEPT !.next = t]
                                                  ELSE v

task_set_dormant_state(s, t) ==
    [s EXCEPT !.link[t] = "reset",
              !.pwait[t] = NoQueue,
              !.priority[t] = base_priority(t),
              !.state[t] = "dormant",
              !.reason[t] = "none",
              !.rc[t] = "NO_ERR",
              !.tick[t] = TN_WAIT_INFINITE,
              !.wakeup[t] = 0,
              !.tslice[t] = 0]

-----------------------------------------------------------------------------
(* tn_start_system up to tn_start_exe: the two system tasks are created    *)
(* and runnable, the timer task has been dispatched; the TCBs of the       *)
(* application are zero, which is modelled by the dormant values that      *)
(* tn_task_create writes before anything reads them.                       *)
tn_start_system ==
    [ready    |-> [p \in Priorities |->
                     IF p = 0 THEN <<TimerTask>>
                     ELSE IF p = TN_NUM_PRIORITY - 1 THEN <<IdleTask>>
                     ELSE <<>>],
     bmp      |-> {0, TN_NUM_PRIORITY - 1},
     next     |-> TimerTask,
     curr     |-> TimerTask,
     wait     |-> [q \in WaitQueues |-> <<>>],
     timeouts |-> <<>>,
     state    |-> [t \in AllTasks |->
                     IF t \in Tasks THEN "dormant" ELSE "runnable"],
     priority |-> [t \in AllTasks |-> base_priority(t)],
     reason   |-> [t \in AllTasks |-> "none"],
     pwait    |-> [t \in AllTasks |-> NoQueue],
     rc       |-> [t \in AllTasks |-> "NO_ERR"],
     tick     |-> [t \in AllTasks |-> TN_WAIT_INFINITE],
     wakeup   |-> [t \in AllTasks |-> 0],
     activate |-> [t \in AllTasks |-> 0],
     tslice   |-> [t \in AllTasks |-> 0],
     link     |-> [t \in AllTasks |->
                     IF t \in Tasks THEN "reset" ELSE "listed"],
     fault    |-> FALSE]

-----------------------------------------------------------------------------
(* What the scheduler data must satisfy between two routines.              *)

SchedType(s) ==
    s \in [ready    : [Priorities -> Seq(AllTasks)],
           bmp      : SUBSET Priorities,
           next     : AllTasks,
           curr     : AllTasks,
           wait     : [WaitQueues -> Seq(AllTasks)],
           timeouts : Seq(AllTasks),
           state    : [AllTasks -> TaskStates],
           priority : [AllTasks -> Priorities],
           reason   : [AllTasks -> WaitReasons],
           pwait    : [AllTasks -> WaitQueues \cup {NoQueue}],
           rc       : [AllTasks -> WaitCodes],
           tick     : [AllTasks -> Int],
           wakeup   : [AllTasks -> Nat],
           activate : [AllTasks -> Nat],
           tslice   : [AllTasks -> Nat],
           link     : [AllTasks -> {"listed", "reset", "stale"}],
           fault    : BOOLEAN]

(* A ready list holds exactly the runnable tasks of its priority, once.    *)
ReadyListsOK(s) ==
    \A p \in Priorities :
        /\ IsInjective(s.ready[p])
        /\ ToSet(s.ready[p]) =
             {t \in AllTasks : s.state[t] = "runnable" /\ s.priority[t] = p}

(* The bitmap names exactly the priorities with a ready task.              *)
BitmapOK(s) == s.bmp = {p \in Priorities : s.ready[p] # <<>>}

(* tn_next_task_to_run is the first ready task of the highest priority.    *)
NextOK(s) ==
    /\ s.next \in AllTasks
    /\ s.state[s.next] = "runnable"
    /\ s.ready[s.priority[s.next]][1] = s.next
    /\ \A p \in s.bmp : s.priority[s.next] <= p

(* A wait queue holds exactly the waiting tasks whose pwait_queue it is.   *)
WaitListsOK(s) ==
    \A q \in WaitQueues :
        /\ IsInjective(s.wait[q])
        /\ ToSet(s.wait[q]) =
             {t \in AllTasks : Waiting(s, t) /\ s.pwait[t] = q}

(* The timeout list holds exactly the waiting tasks with a timeout.        *)
TimeoutListOK(s) ==
    /\ IsInjective(s.timeouts)
    /\ ToSet(s.timeouts) = {t \in AllTasks : s.tick[t] # TN_WAIT_INFINITE}
    /\ \A t \in AllTasks : s.tick[t] # TN_WAIT_INFINITE => Waiting(s, t)

(* task->task_queue is linked whenever the task is in a list, and is never *)
(* stale when a later queue_remove_entry may be applied to it.             *)
LinkOK(s) ==
    /\ ~s.fault
    /\ \A t \in AllTasks :
        /\ s.state[t] = "runnable" => s.link[t] = "listed"
        /\ Waiting(s, t) => s.link[t] # "stale"

SchedOK(s) ==
    /\ ReadyListsOK(s)
    /\ BitmapOK(s)
    /\ NextOK(s)
    /\ WaitListsOK(s)
    /\ TimeoutListOK(s)
    /\ LinkOK(s)

=============================================================================
