------------------------------ MODULE TNBuffers ------------------------------
(***************************************************************************)
(* Tasks and interrupt handlers that take blocks from a memory pool, pass  *)
(* them through a data queue and release them, which is how the network    *)
(* stack hands packets from its interrupts to its tasks and back           *)
(* (tn_net_mem.c, lpc23xx_net.c, tn_ip_input.c).                           *)
(***************************************************************************)
EXTENDS TNQueue, TNMem

CONSTANT Isr   \* the interrupt handlers, as a holder of blocks

ASSUME BuffersAssumption ==
    /\ Isr \notin Tasks
    /\ IsFiniteSet(Data) /\ num_blocks = Cardinality(Data)
    /\ MemQueue \notin {SendQueue, ReceiveQueue} \cup Tasks \cup {Isr}

VARIABLE held   \* the blocks each task, and the handlers, can use

BuffersInit ==
    /\ Init
    /\ TransferInit
    /\ DqueInit
    /\ MemInit
    /\ held = [u \in Tasks \cup {Isr} |-> {}]

Gains(u, d) == held' = [held EXCEPT ![u] = @ \cup {d}]

Loses(u, d) ==
    /\ d \in held[u]
    /\ held' = [held EXCEPT ![u] = @ \ {d}]

(* The caller of a service that could wait uses what the service returned, *)
(* as the return code says.                                                *)
Failed == sys.rc[sys.curr] # "NO_ERR"

GainsElem(ok) ==
    IF ok THEN Gains(sys.curr, data_elem[sys.curr]) ELSE UNCHANGED held

QueueStep ==
    /\ \/ \E d \in Data :
            \/ /\ Enter
               /\ Loses(sys.curr, d)
               /\ \/ \E timeout \in Timeouts : tn_queue_send(d, timeout)
                  \/ tn_queue_send_polling(d)
            \/ IrqEnabled /\ Loses(Isr, d) /\ tn_queue_isend_polling(d)
       \/ SendReturn /\ GainsElem(Failed)
       \/ \E timeout \in Timeouts :
            /\ tn_queue_receive(timeout)
            /\ IF Available THEN Gains(sys.curr, Received) ELSE UNCHANGED held
       \/ ReceiveReturn /\ GainsElem(~Failed)
       \/ tn_queue_receive_polling /\ Gains(sys.curr, Received)
       \/ tn_queue_ireceive /\ Gains(Isr, Received)
       \/ tn_queue_delete /\ UNCHANGED held
    /\ UNCHANGED memVars

MemStep ==
    /\ \/ \E timeout \in Timeouts :
            /\ tn_fmem_get(timeout)
            /\ IF free_list # <<>> THEN Gains(sys.curr, FirstFree) ELSE UNCHANGED held
       \/ GetReturn /\ GainsElem(~Failed)
       \/ tn_fmem_get_polling /\ Gains(sys.curr, FirstFree)
       \/ tn_fmem_get_ipolling /\ Gains(Isr, FirstFree)
       \/ \E d \in Data :
            \/ Enter /\ Loses(sys.curr, d) /\ tn_fmem_release(d)
            \/ IrqEnabled /\ Loses(Isr, d) /\ tn_fmem_irelease(d)
       \/ tn_fmem_delete /\ UNCHANGED held
    /\ UNCHANGED dqueVars

BuffersNext ==
    \/ QueueStep
    \/ MemStep
    \/ KernelStep /\ UNCHANGED <<transferVars, dqueVars, memVars, held>>

BuffersSpec == BuffersInit /\ [][BuffersNext]_<<vars, call, transferVars, dqueVars, memVars, held>>

-----------------------------------------------------------------------------
(* Properties                                                              *)

(* The data element of a task is its own, although the task has not yet    *)
(* returned: it waited to receive or for a free block and was served, or   *)
(* it waited to send and was not.                                          *)
Owed(t) ==
    \/ Succeeds(t, ReceiveQueue)
    \/ Succeeds(t, MemQueue)
    \/ /\ call[t] = Place("wait", SendQueue)
       /\ ~Waiting(sys, t)
       /\ sys.rc[t] # "NO_ERR"

(* The blocks a user holds or is about to be given                         *)
Holding(u) == held[u] \cup {d \in Data : u \in Tasks /\ data_elem[u] = d /\ Owed(u)}

(* The places of each block                                                *)
Where ==
    [d \in Data |-> {u \in Tasks \cup {Isr} : d \in Holding(u)}
                      \cup IF Contains(free_list, d) THEN {MemQueue} ELSE {}]

FifoCapacity == IF num_entries = 0 THEN 0 ELSE num_entries - 1

Flow ==
    INSTANCE BufferFlow WITH
        Buffers  <- Data,
        Users    <- Tasks \cup {Isr},
        Pool     <- MemQueue,
        Capacity <- FifoCapacity,
        where    <- Where,
        queue    <- Pipe,
        open     <- untouched

(* The pool and the queue implement BufferFlow: through polling and        *)
(* waiting calls, direct hand-over to a waiting task, timeouts, suspension *)
(* and interrupts no block is lost, duplicated or handed out of order, and *)
(* a task that waited gets the block that was given to it.                 *)
FlowImplemented == Flow!FlowSpec

=============================================================================
