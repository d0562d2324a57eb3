------------------------------ MODULE FifoQueue ------------------------------
(***************************************************************************)
(* What CacheProvider.enqueue and dequeue promise (interfaces/cache.ts):   *)
(* "atomic FIFO".  Items leave in the order they entered, each at most     *)
(* once.  The memory map (push / shift) is this specification as it        *)
(* stands, and KvQueue is shown to implement it.  Redis (RPUSH / LPOP)     *)
(* implements it only while connected: without a connection its enqueue    *)
(* returns without storing the item, and its dequeue answers null whatever *)
(* is waiting (redis-cache.provider.ts:816 and :826).                      *)
(***************************************************************************)
EXTENDS Sequences

CONSTANT Value

VARIABLES queue,    \* items waiting, oldest first
          taken     \* items handed out, in order

fifoVars == <<queue, taken>>

FifoInit == queue = <<>> /\ taken = <<>>

Enqueue(v) == queue' = Append(queue, v) /\ UNCHANGED taken

Dequeue ==
  /\ queue # <<>>
  /\ taken' = Append(taken, Head(queue))
  /\ queue' = Tail(queue)

FifoNext == Dequeue \/ \E v \in Value : Enqueue(v)

FifoSpec == FifoInit /\ [][FifoNext]_fifoVars
=============================================================================
