------------------------------- MODULE KvQueue -------------------------------
(***************************************************************************)
(* DenoKVCacheProvider.enqueue and dequeue: a queue kept in Deno KV as two *)
(* counters and one key per item.  Each call reads with separate kv.get's  *)
(* and commits with atomic().check(...), retrying when another call of any *)
(* instance committed in between.                                          *)
(*                                                                         *)
(* The counters only grow, and an item key is written once and deleted     *)
(* once, so comparing a versionstamp is comparing the value read.          *)
(***************************************************************************)
EXTENDS Naturals, Sequences, FiniteSets

CONSTANTS Procs,      \* calls of enqueue or dequeue, on any instance
          Value,      \* serialized strings
          NoValue,    \* kv.get of a key that is not there
          MaxItems,   \* bound: items ever enqueued
          MaxRetries  \* QUEUE_MAX_RETRIES

ASSUME KvQueueAssumption ==
  /\ NoValue \notin Value
  /\ MaxItems \in Nat
  /\ MaxRetries \in Nat \ {0}

VARIABLES head,     \* ["queue_head", name]
          tail,     \* ["queue_tail", name]
          item,     \* ["queue", name, n]
          pc,       \* where each call stands
          seen,     \* what each call has read and will check
          tries,    \* commits a call has left
          taken     \* values returned by committed dequeues, in commit order

vars == <<head, tail, item, pc, seen, tries, taken>>

Index == 0..MaxItems
Nothing == [head |-> 0, tail |-> 0, value |-> NoValue]

TypeOK ==
  /\ head \in Index /\ tail \in Index /\ head <= tail
  /\ item \in [Index -> Value \cup {NoValue}]
  /\ pc \in [Procs -> {"idle", "enqRead", "enqCommit", "deqHead", "deqTail",
                       "deqItem", "deqCommit", "failed"}]
  /\ seen \in [Procs -> [head : Index, tail : Index, value : Value \cup {NoValue}]]
  /\ tries \in [Procs -> 0..MaxRetries]
  /\ taken \in Seq(Value)

Init ==
  /\ head = 0 /\ tail = 0
  /\ item = [n \in Index |-> NoValue]
  /\ pc = [p \in Procs |-> "idle"]
  /\ seen = [p \in Procs |-> Nothing]
  /\ tries = [p \in Procs |-> 0]
  /\ taken = <<>>

Go(p, here, there) == pc[p] = here /\ pc' = [pc EXCEPT ![p] = there]
Forget(p) == seen' = [seen EXCEPT ![p] = Nothing] /\ tries' = [tries EXCEPT ![p] = 0]
Enqueueing == {p \in Procs : pc[p] \in {"enqRead", "enqCommit"}}
Store == <<head, tail, item, taken>>

-----------------------------------------------------------------------------
(* enqueue(queueName, value) *)

StartEnqueue(p, v) ==
  /\ tail + Cardinality(Enqueueing) < MaxItems
  /\ Go(p, "idle", "enqRead")
  /\ seen' = [seen EXCEPT ![p] = [Nothing EXCEPT !.value = v]]
  /\ tries' = [tries EXCEPT ![p] = MaxRetries]
  /\ UNCHANGED Store

ReadTailToAppend(p) ==
  /\ Go(p, "enqRead", "enqCommit")
  /\ seen' = [seen EXCEPT ![p].tail = tail]
  /\ UNCHANGED <<Store, tries>>

\* Faulty variant: the tail is not checked
CommitEnqueueUnchecked(p) ==
  /\ seen[p].tail < MaxItems
  /\ Go(p, "enqCommit", "idle")
  /\ tail' = seen[p].tail + 1
  /\ item' = [item EXCEPT ![seen[p].tail] = seen[p].value]
  /\ Forget(p)
  /\ UNCHANGED <<head, taken>>

\* check(tailEntry), set tail + 1 and the item
CommitEnqueue(p) ==
  /\ seen[p].tail = tail
  /\ tail < MaxItems
  /\ Go(p, "enqCommit", "idle")
  /\ tail' = tail + 1
  /\ item' = [item EXCEPT ![tail] = seen[p].value]
  /\ Forget(p)
  /\ UNCHANGED <<head, taken>>

\* result.ok is false: back off and read again, or throw after the last try
Retry(p, here, again) ==
  /\ Go(p, here, IF tries[p] > 1 THEN again ELSE "failed")
  /\ tries' = [tries EXCEPT ![p] = @ - 1]

\* Faulty variant: a commit fails although nobody else committed
EnqueueSpurious(p) ==
  /\ Retry(p, "enqCommit", "enqRead")
  /\ UNCHANGED <<Store, seen>>

EnqueueConflict(p) ==
  /\ seen[p].tail # tail
  /\ Retry(p, "enqCommit", "enqRead")
  /\ UNCHANGED <<Store, seen>>

-----------------------------------------------------------------------------
(* dequeue(queueName) *)

StartDequeue(p) ==
  /\ Go(p, "idle", "deqHead")
  /\ seen' = [seen EXCEPT ![p] = Nothing]
  /\ tries' = [tries EXCEPT ![p] = MaxRetries]
  /\ UNCHANGED Store

ReadHead(p) ==
  /\ Go(p, "deqHead", "deqTail")
  /\ seen' = [seen EXCEPT ![p].head = head]
  /\ UNCHANGED <<Store, tries>>

\* Faulty variant: the queue is taken for empty one item too early
ReadTailOffByOne(p) ==
  /\ seen[p].head + 1 >= tail
  /\ Go(p, "deqTail", "idle")
  /\ Forget(p)
  /\ UNCHANGED Store

\* head >= tail: return null
ReadTailEmpty(p) ==
  /\ seen[p].head >= tail
  /\ Go(p, "deqTail", "idle")
  /\ Forget(p)
  /\ UNCHANGED Store

ReadTail(p) ==
  /\ seen[p].head < tail
  /\ Go(p, "deqTail", "deqItem")
  /\ UNCHANGED <<Store, seen, tries>>

ReadItem(p) ==
  /\ Go(p, "deqItem", "deqCommit")
  /\ seen' = [seen EXCEPT ![p].value = item[seen[p].head]]
  /\ UNCHANGED <<Store, tries>>

\* Faulty variant: only the item is checked, and it reads as absent twice
UnmovedItem(p) == seen[p].value = item[seen[p].head]

\* check(headEntry), check(itemEntry): both keys are as they were read
Unmoved(p) == seen[p].head = head /\ seen[p].value = item[head]

\* set head + 1, delete the item; the value read is the result
CommitDequeue(p) ==
  /\ Unmoved(p)
  /\ Go(p, "deqCommit", "idle")
  /\ head' = seen[p].head + 1
  /\ item' = [item EXCEPT ![seen[p].head] = NoValue]
  /\ taken' = Append(taken, seen[p].value)
  /\ Forget(p)
  /\ UNCHANGED tail

DequeueConflict(p) ==
  /\ ~Unmoved(p)
  /\ Retry(p, "deqCommit", "deqHead")
  /\ UNCHANGED <<Store, seen>>

\* "Failed to ... after N attempts": the caller may call again
Thrown(p) ==
  /\ Go(p, "failed", "idle")
  /\ Forget(p)
  /\ UNCHANGED Store

\* The instance dies before the next kv call
Crash(p) ==
  /\ pc[p] # "idle"
  /\ pc' = [pc EXCEPT ![p] = "idle"]
  /\ Forget(p)
  /\ UNCHANGED Store

Running(p) ==
  \/ ReadTailToAppend(p) \/ CommitEnqueue(p) \/ EnqueueConflict(p)
  \/ ReadHead(p) \/ ReadTailEmpty(p) \/ ReadTail(p) \/ ReadItem(p)
  \/ CommitDequeue(p) \/ DequeueConflict(p) \/ Thrown(p)

Next ==
  \E p \in Procs :
     \/ Running(p) \/ StartDequeue(p) \/ Crash(p)
     \/ \E v \in Value : StartEnqueue(p, v)

Spec == Init /\ [][Next]_vars

-----------------------------------------------------------------------------
\* The items between head and tail, oldest first
Waiting == [n \in 1..(tail - head) |-> item[head + n - 1]]

\* The optimistic commits make the three keys behave as one FIFO queue:
\* concurrent calls of several instances never lose, repeat or reorder items.
Fifo == INSTANCE FifoQueue WITH queue <- Waiting
ImplementsFifo == Fifo!FifoSpec

\* The item keys are exactly the indices from head to tail.
ItemsBetween ==
  \A n \in Index : (item[n] # NoValue) <=> (head <= n /\ n < tail)

\* dequeue answers null only when the queue is empty at that moment, although
\* head and tail come from two reads.
NullOnlyWhenEmpty ==
  [][\A p \in Procs : ReadTailEmpty(p) => head = tail]_vars

\* A failed commit is always some other call's success: conflicting calls do
\* not block one another.
ConflictMeansProgress ==
  [][\A p \in Procs :
       /\ (EnqueueConflict(p) => tail > seen[p].tail)
       /\ (DequeueConflict(p) => head > seen[p].head)]_vars
=============================================================================
