-------------------------------- MODULE TNMem --------------------------------
(* A fixed-size memory pool of TNKernel (tn_mem.c).                         *)
EXTENDS TNTransfer

CONSTANTS
    MemQueue,    \* &fmp->wait_queue
    num_blocks   \* fmp->num_blocks

ASSUME MemAssumption ==
    /\ MemQueue \in WaitQueues
    /\ num_blocks \in Nat \ {0, 1}

VARIABLES
    free_list,  \* fmp->free_list, the first block first; fblkcnt is its length
    fmpExists   \* fmp->id_fmp = TN_ID_FSMEMORYPOOL

memVars == <<free_list, fmpExists>>

(* tn_fmem_create, called by tn_app_init: every block is free.             *)
MemInit ==
    /\ free_list = SetToSeq(Data)
    /\ fmpExists = TRUE

fm_put(free, mem) ==
    IF Len(free) < num_blocks THEN <<mem>> \o free ELSE free

restMemVars == <<masked, created, revived, slices, booted, cursor, scanning, untouched>>

-----------------------------------------------------------------------------

(* fm_get finds a block: the first free one, FirstFree, which the caller   *)
(* gets.                                                                   *)
FirstFree == Head(free_list)

GetFree ==
    /\ free_list # <<>>
    /\ free_list' = Tail(free_list)
    /\ UNCHANGED <<sys, pending, call>>

tn_fmem_get(timeout) ==
    /\ Enter
    /\ fmpExists
    /\ \/ GetFree
       \/ /\ free_list = <<>>
          /\ Block(MemQueue, "wfixmem", timeout)
          /\ UNCHANGED free_list
    /\ UNCHANGED <<otherVars, transferVars, fmpExists>>

(* *p_data = tn_curr_run_task->data_elem, whatever task_wait_rc is         *)
GetReturn == Return(MemQueue) /\ UNCHANGED memVars

tn_fmem_get_polling ==
    /\ Enter
    /\ fmpExists
    /\ GetFree
    /\ UNCHANGED <<otherVars, transferVars, fmpExists>>

tn_fmem_get_ipolling ==
    /\ IrqEnabled
    /\ fmpExists
    /\ GetFree
    /\ UNCHANGED <<otherVars, transferVars, fmpExists>>

(* Mutant: the block goes to the free list although a task waits for one.  *)
Blind_PutFree(d) ==
    /\ free_list' = fm_put(free_list, d)
    /\ UNCHANGED <<sys, pending, skipped, data_elem>>

(* A released block goes to the first task that waits for one, or to the   *)
(* free list.                                                              *)
PutFree(d) ==
    /\ sys.wait[MemQueue] = <<>>
    /\ free_list' = fm_put(free_list, d)
    /\ UNCHANGED <<sys, pending, skipped, data_elem>>

tn_fmem_release(d) ==
    /\ Enter
    /\ fmpExists
    /\ \/ PutFree(d)
       \/ /\ GiveHead(MemQueue, d)
          /\ ReleaseHead(MemQueue)
          /\ UNCHANGED free_list
    /\ UNCHANGED <<restMemVars, call, fmpExists>>

tn_fmem_irelease(d) ==
    /\ IrqEnabled
    /\ fmpExists
    /\ \/ PutFree(d)
       \/ /\ GiveHead(MemQueue, d)
          /\ IReleaseHead(MemQueue)
          /\ UNCHANGED free_list
    /\ UNCHANGED <<restMemVars, call, fmpExists>>

tn_fmem_delete ==
    \/ fmpExists /\ DeleteBegin(MemQueue) /\ UNCHANGED memVars
    \/ /\ \/ DeleteCheck(MemQueue, Place("finish", MemQueue))
          \/ DeleteRemove(MemQueue)
       /\ UNCHANGED <<transferVars, memVars>>
    \/ /\ DeleteFinish(MemQueue)
       /\ fmpExists' = FALSE
       /\ UNCHANGED <<transferVars, free_list>>

(* No task waits for a block while one is free.                            *)
NobodyWaitsForFree ==
    untouched => (sys.wait[MemQueue] # <<>> => free_list = <<>>)

=============================================================================
