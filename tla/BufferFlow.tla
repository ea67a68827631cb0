----------------------------- MODULE BufferFlow ------------------------------
(***************************************************************************)
(* What a memory pool and a data queue promise to the tasks and interrupt  *)
(* handlers that pass buffers to each other: every buffer is in exactly    *)
(* one place, buffers leave the queue in the order they came, only a       *)
(* sender that had to wait can take its buffer back, and nobody is given a *)
(* buffer past others that could be given.  Once someone begins to delete  *)
(* the pool or the queue, nothing is promised any more.                    *)
(***************************************************************************)
EXTENDS Naturals, Sequences, SequencesExt

CONSTANTS
    Buffers,
    Users,      \* who can hold a buffer
    Pool,       \* the place of a free buffer
    Capacity    \* of the queue, not counting the buffers of waiting senders

VARIABLES
    where,  \* the places of each buffer
    queue,  \* the buffers between senders and receivers
    open    \* neither the pool nor the queue is being or has been deleted

flowVars == <<where, queue, open>>

FlowInit ==
    /\ where = [b \in Buffers |-> {Pool}]
    /\ queue = <<>>
    /\ open = TRUE

Move(b, from, to) ==
    /\ where[b] = from
    /\ where' = [where EXCEPT ![b] = to]

NoneFree == \A b \in Buffers : where[b] # {Pool}

Alloc(u, b) == Move(b, {Pool}, {u}) /\ UNCHANGED queue

Free(u, b) == Move(b, {u}, {Pool}) /\ UNCHANGED queue

(* A buffer in the queue has no other place.                               *)
Put(u, b) == Move(b, {u}, {}) /\ queue' = Append(queue, b)

Get(u) ==
    /\ queue # <<>>
    /\ Move(Head(queue), {}, {u})
    /\ queue' = Tail(queue)

TakeBack(u) ==
    \E i \in Capacity + 1 .. Len(queue) :
        /\ Move(queue[i], {}, {u})
        /\ queue' = RemoveAt(queue, i)

(* A buffer goes to a user that waits, for the queue or for the pool.      *)
Pass(u, v, b) ==
    /\ u # v
    /\ queue = <<>> \/ NoneFree
    /\ Move(b, {u}, {v})
    /\ UNCHANGED queue

Close == open /\ open' = FALSE /\ UNCHANGED <<where, queue>>

FlowNext ==
    \/ /\ open /\ open' = open
       /\ \E u \in Users :
            \/ \E b \in Buffers :
                 \/ Alloc(u, b)
                 \/ Free(u, b)
                 \/ Put(u, b)
                 \/ \E v \in Users : Pass(u, v, b)
            \/ Get(u)
            \/ TakeBack(u)
    \/ Close
    \/ ~open /\ ~open'

FlowSpec == FlowInit /\ [][FlowNext]_flowVars

=============================================================================
