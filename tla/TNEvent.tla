------------------------------- MODULE TNEvent -------------------------------
(* An event of TNKernel (tn_event.c) and the tasks that wait for its flags. *)
(* A bit pattern is a set of flags.                                         *)
EXTENDS TNCalls

CONSTANTS
    EventQueue,   \* &evf->wait_queue
    Flags,        \* the bits of a pattern
    Attributes,   \* the attributes tn_event_create is called with
    WaitPatterns  \* the patterns tasks wait for

ASSUME EventAssumption ==
    /\ EventQueue \in WaitQueues
    /\ Attributes \subseteq {{"SINGLE"}, {"MULTI"}, {"SINGLE", "CLR"}}
    /\ WaitPatterns \subseteq (SUBSET Flags) \ {{}}

VARIABLES
    pattern,      \* evf->pattern
    attr,         \* evf->attr
    eventExists,  \* evf->id_event = TN_ID_EVENT
    ewait,        \* ewait_mode and ewait_pattern of every task
    asked,        \* history: what a task in tn_event_wait called it with
    delivered,    \* history: the waits completed since flags were last set
    kept          \* history: a suspended task got the pattern since then,
                  \* and the pattern was not cleared

eventVars == <<pattern, attr, eventExists, ewait, asked, delivered, kept, untouched>>

NoCondition == [mode |-> "AND", bits |-> {}]

EventInit ==
    /\ Init
    /\ CallsInit
    /\ pattern = {}
    /\ attr = {}
    /\ eventExists = FALSE
    /\ ewait = [t \in Tasks |-> NoCondition]
    /\ asked = [t \in Tasks |-> NoCondition]
    /\ delivered = 0
    /\ kept = FALSE

-----------------------------------------------------------------------------

(* Called by tn_app_init or by a task, for an event nobody waits for.      *)
tn_event_create(a, p) ==
    /\ ~booted \/ Enter
    /\ ~eventExists
    /\ sys.wait[EventQueue] = <<>>
    /\ pattern' = p
    /\ attr' = a
    /\ eventExists' = TRUE
    /\ delivered' = 0
    /\ kept' = FALSE
    /\ UNCHANGED <<vars, call, ewait, asked, untouched>>

(* Mutant: one flag is enough, whatever the mode.                          *)
AlwaysOr_Cond(p, w) == p \cap w.bits # {}

(* The release condition *)
Cond(p, w) ==
    IF w.mode = "OR" THEN p \cap w.bits # {} ELSE w.bits \subseteq p

(* Another task already waits for an event of one task: TERR_ILUSE.        *)
IllegalUse == "SINGLE" \in attr /\ sys.wait[EventQueue] # <<>>

(* Mutant: a wait that is satisfied at once does not clear the pattern.    *)
Keep_Consume(w) ==
    /\ eventExists
    /\ ~IllegalUse
    /\ Cond(pattern, w)
    /\ delivered' = IF delivered = 2 THEN 2 ELSE delivered + 1
    /\ UNCHANGED <<vars, call, pattern, attr, eventExists, ewait, asked, kept, untouched>>

(* The condition holds at the time of the call.                            *)
Consume(w) ==
    /\ eventExists
    /\ ~IllegalUse
    /\ Cond(pattern, w)
    /\ pattern' = IF "CLR" \in attr THEN {} ELSE pattern
    /\ delivered' = IF delivered = 2 THEN 2 ELSE delivered + 1
    /\ UNCHANGED <<vars, call, attr, eventExists, ewait, asked, kept, untouched>>

tn_event_wait(w, timeout) ==
    /\ Enter
    /\ \/ Consume(w)
       \/ /\ eventExists
          /\ ~IllegalUse
          /\ ~Cond(pattern, w)
          /\ ewait' = [ewait EXCEPT ![sys.curr] = w]
          /\ asked' = [asked EXCEPT ![sys.curr] = w]
          /\ Block(EventQueue, "event", timeout)
          /\ UNCHANGED <<otherVars, pattern, attr, eventExists, delivered, kept, untouched>>

(* *p_flags_pattern = ewait_pattern; return task_wait_rc.  Nothing reads   *)
(* ewait again before the next tn_event_wait of the task writes it.        *)
WaitReturn ==
    /\ At(Place("wait", EventQueue))
    /\ Goto(Outside)
    /\ ewait' = [ewait EXCEPT ![sys.curr] = NoCondition]
    /\ asked' = [asked EXCEPT ![sys.curr] = NoCondition]
    /\ UNCHANGED <<vars, pattern, attr, eventExists, delivered, kept, untouched>>

tn_event_wait_polling(w) == Enter /\ Consume(w)

tn_event_iwait(w) == IrqEnabled /\ Consume(w)

-----------------------------------------------------------------------------

(* Mutant: the scan ends with the first task that it releases.             *)
First_Satisfied(p) ==
    LET queue == sys.wait[EventQueue]
        fits(n) == Cond(p, ewait[queue[n]])
    IN  {queue[n] : n \in {m \in 1 .. Len(queue) :
                             fits(m) /\ \A k \in 1 .. m - 1 : ~fits(k)}}

(* The waiting tasks that pattern p releases *)
Satisfied(p) == {t \in ToSet(sys.wait[EventQueue]) : Cond(p, ewait[t])}

(* The wait of task t ends. *)
WaitDoneFor(s, t) == task_wait_complete(queue_remove_entry(s, t), t, FALSE)

(* The scheduler after scan_event_waitqueue, which goes once through the   *)
(* wait queue: scan[n] is the scheduler after the first n entries.         *)
scan_event_waitqueue(p) ==
    LET queue == sys.wait[EventQueue]
        scan[n \in 0 .. Len(queue)] ==
            IF n = 0 THEN sys
            ELSE IF queue[n] \in Satisfied(p) THEN WaitDoneFor(scan[n - 1], queue[n])
            ELSE scan[n - 1]
    IN  scan[Len(queue)]

(* What scan_event_waitqueue returns: a task has become runnable.          *)
SomeWoken(p) == \E t \in Satisfied(p) : Woken(sys, t)

(* The pattern is cleared only if a task that waited for it is runnable.   *)
Raise(p) ==
    /\ pattern' = IF SomeWoken(p) /\ "CLR" \in attr THEN {} ELSE p
    /\ ewait' = [t \in Tasks |-> IF t \in Satisfied(p)
                                 THEN [ewait[t] EXCEPT !.bits = p]
                                 ELSE ewait[t]]
    /\ delivered' = IF Cardinality(Satisfied(p)) > 2 THEN 2 ELSE Cardinality(Satisfied(p))
    /\ kept' = (Satisfied(p) # {} /\ ~SomeWoken(p))
    /\ UNCHANGED <<call, attr, eventExists, asked, untouched>>

tn_event_set(bits) ==
    LET p == pattern \cup bits
    IN  /\ Enter
        /\ eventExists
        /\ sys' = scan_event_waitqueue(p)
        /\ pending' = IF SomeWoken(p) THEN pending \cup {sys.curr} ELSE pending
        /\ Raise(p)
        /\ UNCHANGED otherVars

tn_event_iset(bits) ==
    LET p == pattern \cup bits
    IN  /\ IrqEnabled
        /\ eventExists
        /\ tn_cpu_irq_isr(scan_event_waitqueue(p), SomeWoken(p))
        /\ Raise(p)
        /\ UNCHANGED <<pending, masked, created, revived, slices, booted, cursor, scanning>>

Clear(bits) ==
    /\ eventExists
    /\ pattern' = pattern \cap bits
    /\ UNCHANGED <<vars, call, attr, eventExists, ewait, asked, delivered, kept, untouched>>

tn_event_clear(bits) == Enter /\ Clear(bits)

tn_event_iclear(bits) == IrqEnabled /\ Clear(bits)

tn_event_delete ==
    \/ /\ Enter
       /\ eventExists
       /\ Goto(Place("delete", EventQueue))
       /\ untouched' = FALSE
       /\ UNCHANGED <<vars, pattern, attr, eventExists, ewait, asked, delivered, kept>>
    \/ /\ \/ DeleteCheck(EventQueue, Place("finish", EventQueue))
          \/ DeleteRemove(EventQueue)
       /\ UNCHANGED eventVars
    \/ /\ DeleteFinish(EventQueue)
       /\ eventExists' = FALSE
       /\ UNCHANGED <<pattern, attr, ewait, asked, delivered, kept, untouched>>

-----------------------------------------------------------------------------

EventNext ==
    \/ \E a \in Attributes, p \in SUBSET Flags : tn_event_create(a, p)
    \/ \E w \in [mode : {"OR", "AND"}, bits : WaitPatterns] :
         \/ \E timeout \in Timeouts : tn_event_wait(w, timeout)
         \/ tn_event_wait_polling(w)
         \/ tn_event_iwait(w)
    \/ WaitReturn
    \/ \E bits \in SUBSET Flags :
         \/ bits # {} /\ (tn_event_set(bits) \/ tn_event_iset(bits))
         \/ bits # Flags /\ (tn_event_clear(bits) \/ tn_event_iclear(bits))
    \/ tn_event_delete
    \/ KernelStep /\ UNCHANGED eventVars

EventSpec == EventInit /\ [][EventNext]_<<vars, call, eventVars>>

-----------------------------------------------------------------------------
(* Properties                                                              *)

(* No task waits for a condition that holds: tn_event_set releases every   *)
(* task of the wait queue it satisfies, not only the first, although it    *)
(* unlinks the entries it walks over.                                      *)
NobodyMissesEvent ==
    eventExists =>
        \A t \in ToSet(sys.wait[EventQueue]) : ~Cond(pattern, ewait[t])

(* A task whose tn_event_wait is going to return TERR_NO_ERR gets a        *)
(* pattern with the flags it asked for, although the field that holds what *)
(* it asked for is overwritten by what it gets, and the event may be       *)
(* cleared or set again before the task runs.  (A task that was suspended  *)
(* when tn_event_delete released it also returns TERR_NO_ERR, so nobody    *)
(* may have called it.)                                                    *)
GrantMatchesRequest ==
    \A t \in Tasks :
        untouched /\ call[t] = Place("wait", EventQueue) /\ ~Waiting(sys, t)
          /\ sys.rc[t] = "NO_ERR"
        => /\ ewait[t].bits \cap asked[t].bits # {}
           /\ asked[t].mode = "AND" => asked[t].bits \subseteq ewait[t].bits

(* An event with TN_EVENT_ATTR_CLR is delivered once: after flags were     *)
(* set, at most one wait is completed before flags are set again, unless   *)
(* the task that waited was suspended: then scan_event_waitqueue returns 0 *)
(* and the pattern is kept for the next task.                              *)
DeliveredOnce == "CLR" \in attr /\ ~kept => delivered <= 1

=============================================================================
