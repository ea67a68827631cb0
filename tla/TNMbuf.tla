------------------------------- MODULE TNMbuf -------------------------------
(***************************************************************************)
(* The mbufs of TN NET (tn_mbuf.c, tn_net_mem.c): descriptors that share   *)
(* counted data buffers, as operators on a heap.  A data buffer and its    *)
(* primary descriptor are released together, so the data is kept with the  *)
(* descriptor.  Data is a sequence of units; a unit stands for the eight   *)
(* bytes that the offset of an IP fragment counts, and for an IP header.   *)
(***************************************************************************)
EXTENDS Integers, Sequences, FiniteSets, SequencesExt, FiniteSetsExt

CONSTANTS
    NUM_SMALL_BUF,      \* the descriptors of the pool lobuf_mpool
    NUM_DRV_SMALL_BUF,  \* the data buffers of drv_lobuf_mpool
    NUM_DRV_MID1_BUF,   \* the data buffers of drv_m1buf_mpool
    MID1_BUF_SIZE       \* the units in a data buffer of drv_m1buf_mpool

ASSUME MbufAssumption ==
    {NUM_SMALL_BUF, NUM_DRV_SMALL_BUF, NUM_DRV_MID1_BUF, MID1_BUF_SIZE} \subseteq Nat \ {0}

Descrs == 1 .. NUM_SMALL_BUF

NULL == 0

(* struct mbuf.  pool is where the data buffer of a primary descriptor is  *)
(* from, "none" for a descriptor that shares the buffer of m_pri, and      *)
(* "free" for memory that is in the pool.                                  *)
FreeMem == [pool |-> "free", m_pri |-> NULL, m_next |-> NULL, m_nextpkt |-> NULL,
            m_refcnt |-> 0, m_off |-> 0, m_len |-> 0, data |-> <<>>]

EmptyHeap == [d \in Descrs |-> FreeMem]

(* tn_net_free_pool, tn_net_alloc_tx_*: the buffers left in a pool *)
PoolSize(pool) == IF pool = "drv_lobuf" THEN NUM_DRV_SMALL_BUF ELSE NUM_DRV_MID1_BUF

HasBuffer(h, pool) == Cardinality({d \in Descrs : h[d].pool = pool}) < PoolSize(pool)

FreeDescrs(h) == {d \in Descrs : h[d].pool = "free"}

FirstFree(h) == CHOOSE d \in FreeDescrs(h) : \A e \in FreeDescrs(h) : d <= e

(* m_alloc_hdr, then the data buffer; NULL when either pool is empty.      *)
CanGet(h, pool) == FreeDescrs(h) # {} /\ HasBuffer(h, pool)

(* mb_get with the data that the caller puts into the buffer *)
mb_get(h, pool, data) ==
    LET d == FirstFree(h)
    IN  [h EXCEPT ![d] = [FreeMem EXCEPT !.pool = pool, !.m_pri = d, !.m_refcnt = 1,
                                         !.m_len = Len(data), !.data = data]]

-----------------------------------------------------------------------------
(* Chains                                                                  *)

(* The descriptors from m on along m_next *)
Chain(h, m) ==
    LET at[k \in Descrs] == IF k = 1 THEN m
                            ELSE IF at[k - 1] = NULL THEN NULL ELSE h[at[k - 1]].m_next
    IN  SelectSeq(at, LAMBDA d : d # NULL)

(* The first descriptors of the packets from m on along m_nextpkt *)
Packets(h, m) ==
    LET at[k \in Descrs] == IF k = 1 THEN m
                            ELSE IF at[k - 1] = NULL THEN NULL ELSE h[at[k - 1]].m_nextpkt
    IN  SelectSeq(at, LAMBDA d : d # NULL)

DataOf(h, d) == SubSeq(h[h[d].m_pri].data, h[d].m_off + 1, h[d].m_off + h[d].m_len)

Data(h, m) ==
    FoldLeft(LAMBDA acc, d : acc \o DataOf(h, d), <<>>, Chain(h, m))

(* The length of the descriptors before the k-th one of chain c *)
Before(h, c, k) ==
    FoldLeft(LAMBDA acc, d : acc + h[d].m_len, 0, SubSeq(c, 1, k - 1))

-----------------------------------------------------------------------------
(* m_free                                                                  *)

(* The decrement under tn_disable_interrupt leaves nobody else *)
LastReference(h, d) == h[h[d].m_pri].m_refcnt = 1

Decremented(h, d) ==
    LET p == h[d].m_pri
    IN  [h EXCEPT ![p].m_refcnt = IF @ > 0 THEN @ - 1 ELSE 0]

(* The buffer and its primary descriptor p if release is TRUE, and d *)
Released(h, d, p, release) ==
    [e \in Descrs |-> IF (e = p /\ release) \/ (e = d /\ d # p) THEN FreeMem ELSE h[e]]

m_free(h, d) ==
    Released(Decremented(h, d), d, h[d].m_pri, LastReference(h, d))

m_freem(h, m) == FoldLeft(LAMBDA acc, d : m_free(acc, d), h, Chain(h, m))

-----------------------------------------------------------------------------
(* m_copym                                                                 *)

(* The part of descriptor d, which is at position pos of a chain, that is  *)
(* in [offset, offset + len)                                               *)
Piece(h, d, pos, offset, len) ==
    [d |-> d, from |-> Max({0, offset - pos}),
     len |-> Min({h[d].m_len, offset + len - pos}) - Max({0, offset - pos})]

PiecesOf(h, c, offset, len) ==
    SelectSeq([k \in DOMAIN c |-> Piece(h, c[k], Before(h, c, k), offset, len)],
              LAMBDA p : p.len > 0)

(* The parts of the chain from m that [offset, offset + len) is in *)
Pieces(h, m, offset, len) == PiecesOf(h, Chain(h, m), offset, len)

(* Mutant: the copy does not count as a user of the data buffer.           *)
Uncounted_Shared(h, d) == h

Shared(h, d) == [h EXCEPT ![h[d].m_pri].m_refcnt = @ + 1]

(* Descriptor n for piece p, at the end of the copy first ... last         *)
WithPiece(c, p, n) ==
    [heap |-> [Shared(c.heap, p.d) EXCEPT
                 ![n] = [FreeMem EXCEPT !.pool = "none", !.m_pri = c.heap[p.d].m_pri,
                                        !.m_off = c.heap[p.d].m_off + p.from,
                                        !.m_len = p.len],
                 ![c.last].m_next = IF c.last = n THEN NULL ELSE n],
     first |-> c.first, last |-> n]

(* Copies of the pieces ps, one after the other                            *)
Copy(h, ps) ==
    FoldLeft(LAMBDA c, p : WithPiece(c, p, FirstFree(c.heap)),
             [heap |-> h, first |-> FirstFree(h), last |-> FirstFree(h)], ps)

(* Too few descriptors: what is copied is freed again.                     *)
Uncopied(c) == [heap |-> m_freem(c.heap, c.first), mb |-> NULL, fault |-> FALSE]

Copied(c) == [heap |-> c.heap, mb |-> c.first, fault |-> FALSE]

(* "fault": the allocation of the first descriptor fails, and its NULL     *)
(* pointer is written to.                                                  *)
CopyPieces(h, ps, have) ==
    CASE Len(ps) <= have            -> Copied(Copy(h, ps))
      [] Len(ps) > have /\ have > 0 -> Uncopied(Copy(h, SubSeq(ps, 1, have)))
      [] OTHER                      -> [heap |-> h, mb |-> NULL, fault |-> TRUE]

m_copym(h, m, offset, len) ==
    CopyPieces(h, Pieces(h, m, offset, len), Cardinality(FreeDescrs(h)))

-----------------------------------------------------------------------------
(* m_adj_free                                                              *)

(* The first descriptor of chain c with which count units are complete *)
Kept(h, c, count) ==
    CHOOSE k \in DOMAIN c : /\ Before(h, c, k + 1) >= count
                            /\ \A j \in 1 .. k - 1 : Before(h, c, j + 1) < count

(* Chain c is cut to count units, and ends with its k-th descriptor.       *)
CutAfter(h, c, k, count) ==
    [(IF k < Len(c) THEN m_freem(h, c[k + 1]) ELSE h)
        EXCEPT ![c[k]].m_next = NULL, ![c[k]].m_len = count - Before(h, c, k)]

CutChain(h, c, count) ==
    CutAfter(h, c, IF Before(h, c, Len(c)) <= count THEN Len(c) ELSE Kept(h, c, count), count)

(* The chain from m is cut to count units.  When the cut is within its     *)
(* last descriptor nothing is freed, else what follows the cut is.         *)
m_adj_free(h, m, count) == CutChain(h, Chain(h, m), count)

=============================================================================
