------------------------------- MODULE TNCalls -------------------------------
(***************************************************************************)
(* What the services of semaphores, data queues and memory pools share:    *)
(* where a task is in a service that is more than one step, how the task   *)
(* at the head of a wait queue is released, and the loop that empties a    *)
(* wait queue when its object is deleted (the same lines in tn_sem.c,      *)
(* tn_dqueue.c, tn_mem.c, tn_event.c).                                     *)
(*                                                                         *)
(* The body of a service between tn_disable_interrupt and                  *)
(* tn_enable_interrupt is one step.  A service that waits returns in a     *)
(* step of its own, when the task runs again.  A delete service looks at   *)
(* the wait queue with interrupts enabled and is split there.              *)
(***************************************************************************)
EXTENDS TNTasks

ASSUME CallsAssumption == Services \cap {"exit", "terminate"} = {}

VARIABLES
    call,      \* where each task is in a service of an object
    untouched  \* history: nobody has called a delete service

(* A task is in no service, waits in queue q or has waited there (it is    *)
(* about to return), or is in the delete service: about to look at q, to   *)
(* remove the head of q, or (q is empty) to take the id from the object.   *)
Outside == [at |-> "none", q |-> NoQueue]

CallsInit ==
    /\ call = [t \in Tasks |-> Outside]
    /\ untouched = TRUE

Place(at, q) == [at |-> at, q |-> q]

(* The running task is at the given place.                                 *)
At(place) ==
    /\ booted
    /\ sys.curr \in Tasks \ pending
    /\ call[sys.curr] = place

Goto(place) == call' = [call EXCEPT ![sys.curr] = place]

(* A task outside of every service calls one.                              *)
Enter == At(Outside) /\ sys.curr \notin masked

otherVars == <<masked, created, revived, slices, booted, cursor, scanning, skipped>>

-----------------------------------------------------------------------------

(* The running task waits in q, at the tail.                               *)
Block(q, reason, timeout) ==
    /\ sys' = task_curr_to_wait_action(sys, q, reason, timeout)
    /\ pending' = pending \cup {sys.curr}
    /\ Goto(Place("wait", q))

HeadWoken(q) == Woken(sys, Head(sys.wait[q]))

(* The task at the head of q stops to wait.                                *)
CompleteHead(q) ==
    task_wait_complete(queue_remove_head(sys, q), Head(sys.wait[q]), FALSE)

(* ... in a service, which calls tn_switch_context if the task is runnable *)
ReleaseHead(q) ==
    /\ sys' = CompleteHead(q)
    /\ pending' = IF HeadWoken(q) THEN pending \cup {sys.curr} ELSE pending
    /\ UNCHANGED skipped

(* ... in an interrupt handler                                             *)
IReleaseHead(q) ==
    /\ tn_cpu_irq_isr(CompleteHead(q), HeadWoken(q))
    /\ UNCHANGED pending

-----------------------------------------------------------------------------
(* The loop of the delete services                                         *)

(* while(!is_queue_empty(q)): interrupts are enabled, or still disabled    *)
(* since a waiting task that is suspended was removed.                     *)
DeleteCheck(q, next) ==
    /\ At(Place("delete", q))
    /\ Goto(IF sys.wait[q] = <<>> THEN next ELSE Place("remove", q))
    /\ UNCHANGED <<sys, pending, otherVars>>

(* The body of the loop.  The queue may have become empty after the check: *)
(* then queue_remove_head returns NULL, and task_wait_complete 0.          *)
DeleteRemove(q) ==
    /\ At(Place("remove", q))
    /\ Goto(Place("delete", q))
    /\ IF sys.wait[q] # <<>> /\ HeadWoken(q)
       THEN /\ sys' = [CompleteHead(q) EXCEPT !.rc[Head(sys.wait[q])] = "DLT"]
            /\ pending' = pending \cup {sys.curr}
            /\ masked' = masked \ {sys.curr}
       ELSE /\ sys' = IF sys.wait[q] # <<>> THEN CompleteHead(q) ELSE sys
            /\ masked' = masked \cup {sys.curr}
            /\ UNCHANGED pending
    /\ UNCHANGED <<created, revived, slices, booted, cursor, scanning, skipped>>

(* Mutant: interrupts stay disabled after the loop.                        *)
Masked_DeleteFinish(q) ==
    /\ At(Place("finish", q))
    /\ Goto(Outside)
    /\ UNCHANGED <<sys, pending, otherVars>>

(* The object does not exist any more; interrupts are enabled.             *)
DeleteFinish(q) ==
    /\ At(Place("finish", q))
    /\ Goto(Outside)
    /\ masked' = masked \ {sys.curr}
    /\ UNCHANGED <<sys, pending, created, revived, slices, booted, cursor, scanning, skipped>>

-----------------------------------------------------------------------------

(* The steps of TNTasks: a task calls a task service only when it is in no *)
(* other one.                                                              *)
KernelStep ==
    /\ \/ TaskService /\ (~booted \/ At(Outside))
       \/ IsrService
       \/ AppInitDone
       \/ Timer
       \/ tn_tick_int_processing
       \/ tn_switch_context
    /\ UNCHANGED call

-----------------------------------------------------------------------------
(* Properties                                                              *)

(* A delete service keeps interrupts disabled from one round of its loop   *)
(* to the next, when the task it removed is suspended.  It never returns   *)
(* that way and is never preempted that way.                               *)
DeleteUnmasks ==
    \A t \in masked : t = sys.curr /\ call[t].at \in {"delete", "remove", "finish"}

=============================================================================
