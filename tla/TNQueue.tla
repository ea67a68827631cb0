------------------------------- MODULE TNQueue -------------------------------
(* A data queue of TNKernel (tn_dqueue.c, and its storage FIFO in           *)
(* tn_utils.c): a ring buffer, a queue of tasks that wait to send and a    *)
(* queue of tasks that wait to receive.                                    *)
EXTENDS TNTransfer

CONSTANTS
    SendQueue,     \* &dque->wait_send_list
    ReceiveQueue,  \* &dque->wait_receive_list
    num_entries    \* dque->num_entries

ASSUME DqueAssumption ==
    /\ SendQueue \in WaitQueues
    /\ ReceiveQueue \in WaitQueues
    /\ SendQueue # ReceiveQueue
    /\ num_entries \in Nat

VARIABLES
    dque,       \* data_fifo, header_cnt (next to write), tail_cnt (next to read)
    dqueExists  \* dque->id_dque = TN_ID_DATAQUEUE

dqueVars == <<dque, dqueExists>>

-----------------------------------------------------------------------------
(* Data queue storage FIFO (tn_utils.c).  One entry is never used: the     *)
(* FIFO holds at most num_entries - 1 elements.                            *)

(* Mutant: the FIFO is not full when the reader is at the first entry.     *)
Wrapped_FifoFull(f) == num_entries <= 0 \/ f.header_cnt = f.tail_cnt - 1

FifoFull(f) ==
    \/ num_entries <= 0
    \/ f.tail_cnt = 0 /\ f.header_cnt = num_entries - 1
    \/ f.header_cnt = f.tail_cnt - 1

FifoEmpty(f) == num_entries <= 0 \/ f.tail_cnt = f.header_cnt

Wrap(cnt) == IF cnt >= num_entries THEN 0 ELSE cnt

(* Unless it returns an error: FifoFull                                    *)
dque_fifo_write(f, d) ==
    IF FifoFull(f) THEN f
    ELSE [f EXCEPT !.data_fifo[f.header_cnt] = d,
                   !.header_cnt = Wrap(@ + 1)]

(* The FIFO after a read, unless it returns an error: FifoEmpty            *)
dque_fifo_read(f) == [f EXCEPT !.tail_cnt = Wrap(@ + 1)]

FifoHead(f) == f.data_fifo[f.tail_cnt]

-----------------------------------------------------------------------------

(* tn_queue_create, called by tn_app_init                                  *)
DqueInit ==
    /\ dque = [data_fifo |-> [i \in 0 .. num_entries - 1 |-> NoData],
               header_cnt |-> 0, tail_cnt |-> 0]
    /\ dqueExists = TRUE

(* Mutant: no check for a task that waits to receive.                      *)
Blind_Store(d) ==
    /\ ~FifoFull(dque)
    /\ dque' = dque_fifo_write(dque, d)
    /\ UNCHANGED <<sys, pending, skipped, data_elem>>

(* Sending: the element goes to a waiting receiver or into the FIFO.       *)
Store(d) ==
    /\ sys.wait[ReceiveQueue] = <<>>
    /\ ~FifoFull(dque)
    /\ dque' = dque_fifo_write(dque, d)
    /\ UNCHANGED <<sys, pending, skipped, data_elem>>

Send(d) ==
    \/ Store(d)
    \/ /\ GiveHead(ReceiveQueue, d)
       /\ ReleaseHead(ReceiveQueue)
       /\ UNCHANGED dque

ISend(d) ==
    \/ Store(d)
    \/ /\ GiveHead(ReceiveQueue, d)
       /\ IReleaseHead(ReceiveQueue)
       /\ UNCHANGED dque

restVars == <<masked, created, revived, slices, booted, cursor, scanning, untouched>>

tn_queue_send(d, timeout) ==
    /\ Enter
    /\ dqueExists
    /\ \/ Send(d) /\ UNCHANGED call
       \/ /\ sys.wait[ReceiveQueue] = <<>>
          /\ FifoFull(dque)
          /\ data_elem' = [data_elem EXCEPT ![sys.curr] = d]
          /\ Block(SendQueue, "wsend", timeout)
          /\ UNCHANGED <<dque, skipped>>
    /\ UNCHANGED <<restVars, dqueExists>>

SendReturn == Return(SendQueue) /\ UNCHANGED dqueVars

tn_queue_send_polling(d) ==
    /\ Enter
    /\ dqueExists
    /\ Send(d)
    /\ UNCHANGED <<restVars, call, dqueExists>>

tn_queue_isend_polling(d) ==
    /\ IrqEnabled
    /\ dqueExists
    /\ ISend(d)
    /\ UNCHANGED <<restVars, call, dqueExists>>

(* Receiving: the oldest element of the FIFO, whose place is filled with   *)
(* that of the first waiting sender; or that element when the FIFO is      *)
(* empty.                                                                  *)
Available == ~FifoEmpty(dque) \/ sys.wait[SendQueue] # <<>>

Received ==
    IF FifoEmpty(dque) THEN data_elem[Head(sys.wait[SendQueue])] ELSE FifoHead(dque)

Fetch ==
    /\ Available
    /\ dque' = IF FifoEmpty(dque) THEN dque
               ELSE IF sys.wait[SendQueue] = <<>> THEN dque_fifo_read(dque)
               ELSE dque_fifo_write(dque_fifo_read(dque),
                                    data_elem[Head(sys.wait[SendQueue])])

Receive ==
    /\ Fetch
    /\ \/ sys.wait[SendQueue] = <<>> /\ UNCHANGED <<sys, pending, skipped>>
       \/ sys.wait[SendQueue] # <<>> /\ ReleaseHead(SendQueue)

IReceive ==
    /\ Fetch
    /\ \/ sys.wait[SendQueue] = <<>> /\ UNCHANGED <<sys, pending, skipped>>
       \/ sys.wait[SendQueue] # <<>> /\ IReleaseHead(SendQueue)

tn_queue_receive(timeout) ==
    /\ Enter
    /\ dqueExists
    /\ \/ Receive /\ UNCHANGED call
       \/ /\ ~Available
          /\ Block(ReceiveQueue, "wreceive", timeout)
          /\ UNCHANGED <<dque, skipped>>
    /\ UNCHANGED <<restVars, data_elem, dqueExists>>

(* *data_ptr = tn_curr_run_task->data_elem, whatever task_wait_rc is       *)
ReceiveReturn == Return(ReceiveQueue) /\ UNCHANGED dqueVars

tn_queue_receive_polling ==
    /\ Enter
    /\ dqueExists
    /\ Receive
    /\ UNCHANGED <<restVars, call, data_elem, dqueExists>>

tn_queue_ireceive ==
    /\ IrqEnabled
    /\ dqueExists
    /\ IReceive
    /\ UNCHANGED <<restVars, call, data_elem, dqueExists>>

(* First the senders are released, then the receivers.                     *)
tn_queue_delete ==
    \/ dqueExists /\ DeleteBegin(SendQueue) /\ UNCHANGED dqueVars
    \/ /\ \/ DeleteCheck(SendQueue, Place("delete", ReceiveQueue))
          \/ DeleteRemove(SendQueue)
          \/ DeleteCheck(ReceiveQueue, Place("finish", ReceiveQueue))
          \/ DeleteRemove(ReceiveQueue)
       /\ UNCHANGED <<transferVars, dqueVars>>
    \/ /\ DeleteFinish(ReceiveQueue)
       /\ dqueExists' = FALSE
       /\ UNCHANGED <<transferVars, dque>>

-----------------------------------------------------------------------------

(* The elements in the FIFO, oldest first                                  *)
FifoLen(f) ==
    IF num_entries = 0 THEN 0 ELSE (f.header_cnt - f.tail_cnt) % num_entries

FifoContents(f) ==
    [i \in 1 .. FifoLen(f) |-> f.data_fifo[(f.tail_cnt + i - 1) % num_entries]]

(* The elements on their way from the senders to the receivers             *)
Pipe ==
    FifoContents(dque)
      \o [i \in 1 .. Len(sys.wait[SendQueue]) |-> data_elem[sys.wait[SendQueue][i]]]

(* A task waits to receive only while there is nothing to receive, and to  *)
(* send only while the FIFO is full.                                       *)
NobodyWaitsInVain ==
    untouched => /\ sys.wait[ReceiveQueue] # <<>> => Pipe = <<>>
                 /\ sys.wait[SendQueue] # <<>> => FifoFull(dque)

=============================================================================
