------------------------------ MODULE TNTransfer ------------------------------
(* task->data_elem, through which tn_dqueue.c and tn_mem.c pass a data      *)
(* element to or from a waiting task.                                      *)
EXTENDS TNCalls

CONSTANTS
    Data,     \* the data elements (for a memory pool: its blocks)
    NoData,   \* a NULL pointer
    Deletable \* the objects that may be deleted, by their first wait queue

ASSUME DataAssumption ==
    /\ NoData \notin Data
    /\ Deletable \subseteq WaitQueues

VARIABLE data_elem   \* task->data_elem

transferVars == <<data_elem, untouched>>

TransferInit ==
    /\ CallsInit
    /\ data_elem = [t \in Tasks |-> NoData]

(* The first step of a delete service of the object with wait queue q.     *)
(* The bound Deletable: once per behaviour, and only of some objects.      *)
DeleteBegin(q) ==
    /\ Enter
    /\ untouched /\ q \in Deletable
    /\ Goto(Place("delete", q))
    /\ untouched' = FALSE
    /\ UNCHANGED <<sys, pending, otherVars, data_elem>>

(* A service that waited in q returns.  data_elem is not read any more     *)
(* until it is written again (a caller does not use the element it gets    *)
(* along with an error), so the model forgets it.                          *)
Return(q) ==
    /\ At(Place("wait", q))
    /\ Goto(Outside)
    /\ data_elem' = [data_elem EXCEPT ![sys.curr] = NoData]
    /\ UNCHANGED <<sys, pending, otherVars, untouched>>

(* The task at the head of q is given d; a service or a handler releases   *)
(* it.                                                                     *)
GiveHead(q, d) ==
    /\ sys.wait[q] # <<>>
    /\ data_elem' = [data_elem EXCEPT ![Head(sys.wait[q])] = d]

(* A task that waited in q is going to return with TERR_NO_ERR.            *)
Succeeds(t, q) ==
    /\ call[t] = Place("wait", q)
    /\ ~Waiting(sys, t)
    /\ sys.rc[t] = "NO_ERR"

=============================================================================
