-------------------------------- MODULE TNSem --------------------------------
(* A counting semaphore of TNKernel (tn_sem.c) and the tasks that use it.   *)
EXTENDS TNCalls

CONSTANTS
    SemQueue,      \* &sem->wait_queue
    max_val,       \* the maximum that tn_sem_create is called with
    RecreateBusy   \* TRUE: the application may create the semaphore again
                   \* while a task still waits in its old wait queue

ASSUME SemAssumption ==
    /\ SemQueue \in WaitQueues
    /\ max_val \in Nat \ {0}
    /\ RecreateBusy \in BOOLEAN

VARIABLES
    count,     \* sem->count
    max_count, \* sem->max_count
    exists,    \* sem->id_sem = TN_ID_SEMAPHORE
    units      \* history: the units created or signalled and not yet
               \* acquired, as the callers see it

semVars == <<count, max_count, exists, units, untouched>>

SemInit ==
    /\ Init
    /\ CallsInit
    /\ count = 0
    /\ max_count = 0
    /\ exists = FALSE
    /\ units = 0

-----------------------------------------------------------------------------

(* A task or an interrupt handler calls a service and passes the checks.   *)
EnterSem == Enter /\ exists /\ max_count # 0

IEnterSem == IrqEnabled /\ exists /\ max_count # 0

(* Called by tn_app_init or by a task.  queue_reset forgets the tasks that *)
(* still wait in the queue of a semaphore that was deleted.                *)
tn_sem_create(start_value) ==
    /\ ~booted \/ At(Outside)
    /\ ~exists
    /\ RecreateBusy \/ sys.wait[SemQueue] = <<>>
    /\ sys' = [sys EXCEPT
                 !.wait[SemQueue] = <<>>,
                 !.link = [t \in AllTasks |->
                             IF Waiting(sys, t) /\ sys.pwait[t] = SemQueue
                             THEN "stale" ELSE @[t]]]
    /\ count' = start_value
    /\ max_count' = max_val
    /\ exists' = TRUE
    /\ units' = start_value
    /\ UNCHANGED <<pending, otherVars, call, untouched>>

(* A second tn_sem_create returns TERR_WRONG_PARAM, but clears max_count   *)
(* first: every other service refuses the semaphore from then on.          *)
Recreate ==
    /\ ~booted \/ At(Outside)
    /\ exists
    /\ max_count' = 0
    /\ UNCHANGED <<sys, pending, otherVars, call, count, exists, units, untouched>>

(* Mutant: no check for waiting tasks.                                     *)
Blind_CountSignal ==
    /\ count < max_count
    /\ count' = count + 1
    /\ UNCHANGED <<sys, pending, skipped>>

(* A signal that finds no waiting task                                     *)
CountSignal ==
    /\ sys.wait[SemQueue] = <<>>
    /\ count < max_count
    /\ count' = count + 1
    /\ UNCHANGED <<sys, pending, skipped>>

(* Mutant: the unit is given to the waiting task and counted as well.      *)
Twice_tn_sem_signal ==
    /\ EnterSem
    /\ \/ CountSignal
       \/ /\ sys.wait[SemQueue] # <<>>
          /\ ReleaseHead(SemQueue)
          /\ count' = count + 1
    /\ units' = units + 1
    /\ UNCHANGED <<masked, created, revived, slices, booted, cursor, scanning, call,
                   max_count, exists, untouched>>

tn_sem_signal ==
    /\ EnterSem
    /\ \/ CountSignal
       \/ /\ sys.wait[SemQueue] # <<>>
          /\ ReleaseHead(SemQueue)
          /\ UNCHANGED count
    /\ units' = units + 1
    /\ UNCHANGED <<masked, created, revived, slices, booted, cursor, scanning, call,
                   max_count, exists, untouched>>

tn_sem_isignal ==
    /\ IEnterSem
    /\ \/ CountSignal
       \/ /\ sys.wait[SemQueue] # <<>>
          /\ IReleaseHead(SemQueue)
          /\ UNCHANGED count
    /\ units' = units + 1
    /\ UNCHANGED <<masked, created, revived, slices, booted, cursor, scanning, call,
                   max_count, exists, untouched>>

TakeUnit ==
    /\ count >= 1
    /\ count' = count - 1
    /\ units' = units - 1
    /\ UNCHANGED <<sys, pending, call>>

tn_sem_acquire(timeout) ==
    /\ EnterSem
    /\ \/ TakeUnit
       \/ /\ count < 1
          /\ Block(SemQueue, "sem", timeout)
          /\ UNCHANGED <<count, units>>
    /\ UNCHANGED <<otherVars, max_count, exists, untouched>>

(* return tn_curr_run_task->task_wait_rc                                   *)
AcquireReturn ==
    /\ At(Place("wait", SemQueue))
    /\ Goto(Outside)
    /\ units' = IF sys.rc[sys.curr] = "NO_ERR" THEN units - 1 ELSE units
    /\ UNCHANGED <<sys, pending, otherVars, count, max_count, exists, untouched>>

tn_sem_polling ==
    /\ EnterSem
    /\ TakeUnit
    /\ UNCHANGED <<otherVars, max_count, exists, untouched>>

tn_sem_ipolling ==
    /\ IEnterSem
    /\ TakeUnit
    /\ UNCHANGED <<otherVars, max_count, exists, untouched>>

tn_sem_delete ==
    \/ /\ Enter
       /\ exists
       /\ Goto(Place("delete", SemQueue))
       /\ untouched' = FALSE
       /\ UNCHANGED <<sys, pending, otherVars, count, max_count, exists, units>>
    \/ /\ \/ DeleteCheck(SemQueue, Place("finish", SemQueue))
          \/ DeleteRemove(SemQueue)
       /\ UNCHANGED semVars
    \/ /\ DeleteFinish(SemQueue)
       /\ exists' = FALSE
       /\ UNCHANGED <<count, max_count, units, untouched>>

-----------------------------------------------------------------------------

SemNext ==
    \/ \E v \in 0 .. max_val : tn_sem_create(v)
    \/ Recreate
    \/ tn_sem_signal
    \/ tn_sem_isignal
    \/ \E timeout \in Timeouts : tn_sem_acquire(timeout)
    \/ AcquireReturn
    \/ tn_sem_polling
    \/ tn_sem_ipolling
    \/ tn_sem_delete
    \/ KernelStep /\ UNCHANGED semVars

SemSpec == SemInit /\ [][SemNext]_<<vars, call, semVars>>

-----------------------------------------------------------------------------
(* Properties                                                              *)

(* The tasks whose tn_sem_acquire is going to return TERR_NO_ERR           *)
Granted ==
    {t \in Tasks : /\ call[t] = Place("wait", SemQueue)
                   /\ ~Waiting(sys, t)
                   /\ sys.rc[t] = "NO_ERR"}

(* No unit is lost or handed out twice while the semaphore exists: what    *)
(* was signalled and not yet acquired is in the count or on its way to a   *)
(* task that tn_sem_signal or tn_sem_isignal took from the wait queue,     *)
(* however signals, timeouts, suspensions and the context switch of the    *)
(* waiting task interleave.  (tn_sem_delete grants a suspended waiter a    *)
(* unit that does not exist, so nobody may have called it.)                *)
NoUnitLost == untouched => units = count + Cardinality(Granted)

(* No task waits while a unit is free, until the semaphore is deleted.     *)
NoIdleUnit == exists /\ count > 0 => sys.wait[SemQueue] = <<>>

(* TERR_DLT, "Waiting object deleted", is what a waiting task gets when    *)
(* its semaphore is deleted: no task waits for a semaphore that does not   *)
(* exist any more.                                                         *)
NoWaiterOnDeleted == ~exists => sys.wait[SemQueue] = <<>>

=============================================================================
