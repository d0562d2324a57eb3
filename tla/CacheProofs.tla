----------------------------- MODULE CacheProofs -----------------------------
(***************************************************************************)
(* Proofs about what the cache service offers over its stores: the lock    *)
(* (CacheLock), its types and its exclusion for the length of the lease    *)
(* wherever the store grants it in one atomic command, and the queue of    *)
(* Deno KV (KvQueue), which implements the FIFO queue, for any number of   *)
(* calls, items and retries.  The two share no variable.                   *)
(***************************************************************************)
EXTENDS CacheLock, KvQueue, SequenceTheorems, TLAPS

-----------------------------------------------------------------------------
(* The lock *)


LEMMA LessFacts ==
  ASSUME NEW n \in Nat, NEW m \in 0..n
  PROVE  /\ Less(m) \in 0..n
         /\ Less(m) > 0 => m > 1 /\ Less(m) = m - 1
         /\ m = 0 => Less(m) = 0
  BY DEF Less

\* Every state of withLock and of the store has the declared shape, with any
\* of the three providers.
THEOREM LockTyping == LockSpec => []LockTypeOK
<1> USE LockAssumption
<1>1. LockInit => LockTypeOK
  BY DEF LockInit, LockTypeOK, Free
<1>2. LockTypeOK /\ [LockNext]_lockVars => LockTypeOK'
  <2> SUFFICES ASSUME LockTypeOK, [LockNext]_lockVars
               PROVE  LockTypeOK'
    OBVIOUS
  <2> USE DEF LockTypeOK
  <2>1. CASE Tick
    <3>1. \A c \in Callers : Less(waitLeft[c]) \in 0..Wait /\ Less(lease[c]) \in 0..Ttl
      BY DEF Less
    <3>2. lock' \in [owner : Callers \cup {NoCaller}, left : 0..Ttl]
      BY <2>1 DEF Tick, Free, Less
    <3> QED  BY <2>1, <3>1, <3>2 DEF Tick
  <2>2. CASE KvExpire
    BY <2>2 DEF KvExpire, Free, Outdated
  <2>3. ASSUME NEW c \in Callers, LockStep(c)
        PROVE  LockTypeOK'
    <3>1. CASE Call(c)  BY <3>1 DEF Call
    <3>2. CASE AcquireAtomic(c)  BY <3>2 DEF AcquireAtomic, Grant
    <3>3. CASE AcquireRefused(c)  BY <3>3 DEF AcquireRefused
    <3>4. CASE AcquireRead(c)  BY <3>4 DEF AcquireRead
    <3>5. CASE AcquireCommit(c)  BY <3>5 DEF AcquireCommit, Grant, Outdated
    <3>6. CASE Wake(c)  BY <3>6 DEF Wake
    <3>7. CASE GiveUp(c)  BY <3>7 DEF GiveUp
    <3>8. CASE FnReturns(c)  BY <3>8 DEF FnReturns
    <3>9. CASE ReleaseAtomic(c)  BY <3>9 DEF ReleaseAtomic, Leave, Free
    <3>10. CASE ReleaseLost(c)  BY <3>10 DEF ReleaseLost, Leave
    <3>11. CASE ReleaseRead(c)  BY <3>11 DEF ReleaseRead, Leave
    <3>12. CASE ReleaseCommit(c)  BY <3>12 DEF ReleaseCommit, Leave, Free, Outdated
    <3>13. CASE CallerStops(c)  BY <3>13 DEF CallerStops, Leave
    <3> QED
      BY <2>3, <3>1, <3>2, <3>3, <3>4, <3>5, <3>6, <3>7, <3>8, <3>9, <3>10,
         <3>11, <3>12, <3>13 DEF LockStep
  <2>4. CASE UNCHANGED lockVars
    BY <2>4 DEF lockVars
  <2> QED
    BY <2>1, <2>2, <2>3, <2>4 DEF LockNext
<1> QED
  BY <1>1, <1>2, PTL DEF LockSpec

LEMMA ProviderStays == [LockNext]_lockVars => provider' = provider
<1> SUFFICES ASSUME [LockNext]_lockVars
             PROVE  provider' = provider
  OBVIOUS
<1>1. CASE Tick  BY <1>1 DEF Tick
<1>2. CASE KvExpire  BY <1>2 DEF KvExpire
<1>3. ASSUME NEW c \in Callers, LockStep(c)
      PROVE  provider' = provider
  <2>1. CASE Call(c)  BY <2>1 DEF Call
  <2>2. CASE AcquireAtomic(c) \/ AcquireRefused(c)
    BY <2>2 DEF AcquireAtomic, AcquireRefused
  <2>3. CASE AcquireRead(c) \/ AcquireCommit(c)
    BY <2>3 DEF AcquireRead, AcquireCommit
  <2>4. CASE Wake(c) \/ GiveUp(c) \/ FnReturns(c)
    BY <2>4 DEF Wake, GiveUp, FnReturns
  <2>5. CASE ReleaseAtomic(c) \/ ReleaseLost(c)
    BY <2>5 DEF ReleaseAtomic, ReleaseLost
  <2>6. CASE ReleaseRead(c) \/ ReleaseCommit(c) \/ CallerStops(c)
    BY <2>6 DEF ReleaseRead, ReleaseCommit, CallerStops
  <2> QED
    BY <1>3, <2>1, <2>2, <2>3, <2>4, <2>5, <2>6 DEF LockStep
<1>4. CASE UNCHANGED lockVars
  BY <1>4 DEF lockVars
<1> QED
  BY <1>1, <1>2, <1>3, <1>4 DEF LockNext

\* The two-step grant of Deno KV is never taken over an atomic store.
NoKvStep == \A c \in Callers : place[c] \notin {"read", "unlock"}

LockInv == LockTypeOK /\ (Atomic => NoKvStep) /\ LeaseStored

\* The invariant the theorems on atomic stores follow from.
LEMMA Inductive == LockSpec => []LockInv
<1> USE LockAssumption
<1>1. LockInit => LockInv
  BY DEF LockInit, LockInv, LockTypeOK, NoKvStep, LeaseStored, Free
<1>2. LockInv /\ LockTypeOK' /\ [LockNext]_lockVars => LockInv'
  <2>0. [LockNext]_lockVars => (Atomic <=> Atomic')
    BY ProviderStays DEF Atomic
  <2> SUFFICES ASSUME LockInv, LockTypeOK', [LockNext]_lockVars, Atomic
               PROVE  NoKvStep' /\ LeaseStored'
    BY <2>0 DEF LockInv, LeaseStored
  <2> USE DEF LockInv, LockTypeOK, NoKvStep, LeaseStored, InBody
  <2>1. CASE Tick
    <3>1. NoKvStep'
      BY <2>1 DEF Tick
    <3>2. ASSUME NEW c \in Callers, lease'[c] > 0
          PROVE  (InBody(c) /\ lock.owner = c /\ lock.left = lease[c])'
      <4>1. lease[c] > 1 /\ lease'[c] = lease[c] - 1
        BY <2>1, <3>2 DEF Tick, Less
      <4>2. lock.owner = c /\ lock.left = lease[c] /\ InBody(c)
        BY <4>1
      <4>3. lock' = [lock EXCEPT !.left = Less(@)]
        BY <2>1, <4>1, <4>2 DEF Tick
      <4> QED
        BY <2>1, <4>1, <4>2, <4>3 DEF Tick, Less
    <3> QED  BY <3>1, <3>2
  <2>2. CASE KvExpire
    BY <2>2 DEF KvExpire, Atomic
  <2>3. ASSUME NEW c \in Callers, LockStep(c)
        PROVE  NoKvStep' /\ LeaseStored'
    <3>1. CASE Call(c)  BY <3>1 DEF Call
    <3>2. CASE AcquireAtomic(c)
      <4>1. \A d \in Callers : lease[d] = 0
        BY <3>2 DEF AcquireAtomic, Held
      <4> QED  BY <3>2, <4>1 DEF AcquireAtomic, Grant
    <3>3. CASE AcquireRefused(c)  BY <3>3 DEF AcquireRefused
    <3>4. CASE AcquireRead(c)  BY <3>4 DEF AcquireRead, Atomic
    <3>5. CASE AcquireCommit(c)  BY <3>5 DEF AcquireCommit
    <3>6. CASE Wake(c)  BY <3>6 DEF Wake
    <3>7. CASE GiveUp(c)  BY <3>7 DEF GiveUp
    <3>8. CASE FnReturns(c)  BY <3>8 DEF FnReturns
    <3>9. CASE ReleaseAtomic(c)  BY <3>9 DEF ReleaseAtomic, Leave
    <3>10. CASE ReleaseLost(c)  BY <3>10 DEF ReleaseLost, Leave
    <3>11. CASE ReleaseRead(c)  BY <3>11 DEF ReleaseRead, Atomic
    <3>12. CASE ReleaseCommit(c)  BY <3>12 DEF ReleaseCommit
    <3>13. CASE CallerStops(c)  BY <3>13 DEF CallerStops, Leave
    <3> QED
      BY <2>3, <3>1, <3>2, <3>3, <3>4, <3>5, <3>6, <3>7, <3>8, <3>9, <3>10,
         <3>11, <3>12, <3>13 DEF LockStep
  <2>4. CASE UNCHANGED lockVars
    BY <2>4 DEF lockVars
  <2> QED
    BY <2>1, <2>2, <2>3, <2>4 DEF LockNext
<1> QED
  BY <1>1, <1>2, LockTyping, PTL DEF LockSpec

\* Over Redis or the memory map an unexpired lease is always the stored
\* record: its owner is the call that was granted it and both run out at the
\* same tick, through every interleaving of polls, releases and crashes.
THEOREM LeaseIsStored == LockSpec => []LeaseStored
<1>1. LockInv => LeaseStored
  BY DEF LockInv
<1> QED
  BY <1>1, Inductive, PTL

\* acquireLock over Redis or the memory map excludes: of two calls inside fn
\* at once, one has outlived its ttlMs.
THEOREM ExclusionForTheLease == LockSpec => []AtomicExclusion
<1>1. LeaseStored => AtomicExclusion
  BY DEF LeaseStored, LeaseExclusion, AtomicExclusion
<1> QED
  BY <1>1, LeaseIsStored, PTL

-----------------------------------------------------------------------------
\* An unexpired record in Redis or the memory map goes only in its owner's own
\* release: neither another call's finally block nor a crash takes it away.
THEOREM OnlyOwnerReleases == LockSpec => ReleasedByOwner
<1>1. LockInv /\ [LockNext]_lockVars =>
        [Atomic /\ Held /\ lock.left > 1 /\ lock'.owner # lock.owner
           => place[lock.owner] \in {"release", "unlock"} /\ place'[lock.owner] = "idle"]_lockVars
  <2> SUFFICES ASSUME LockInv, [LockNext]_lockVars, Atomic, Held, lock.left > 1,
                      lock'.owner # lock.owner
               PROVE  place[lock.owner] = "release" /\ place'[lock.owner] = "idle"
    OBVIOUS
  <2> USE DEF LockInv, NoKvStep, LockTypeOK
  <2>1. CASE Tick
    BY <2>1 DEF Tick, Less
  <2>2. CASE KvExpire
    BY <2>2 DEF KvExpire, Atomic
  <2>3. ASSUME NEW c \in Callers, LockStep(c)
        PROVE  place[lock.owner] = "release" /\ place'[lock.owner] = "idle"
    <3>1. CASE ReleaseAtomic(c)
      BY <3>1 DEF ReleaseAtomic, Leave
    <3>2. CASE AcquireAtomic(c)
      BY <3>2 DEF AcquireAtomic
    <3>3. CASE AcquireCommit(c) \/ ReleaseCommit(c)
      BY <3>3 DEF AcquireCommit, ReleaseCommit
    <3>4. CASE Call(c) \/ AcquireRefused(c) \/ AcquireRead(c) \/ Wake(c) \/ GiveUp(c)
      BY <3>4 DEF Call, AcquireRefused, AcquireRead, Wake, GiveUp
    <3>5. CASE FnReturns(c) \/ ReleaseLost(c) \/ ReleaseRead(c) \/ CallerStops(c)
      BY <3>5 DEF FnReturns, ReleaseLost, ReleaseRead, CallerStops
    <3> QED
      BY <2>3, <3>1, <3>2, <3>3, <3>4, <3>5 DEF LockStep
  <2>4. CASE UNCHANGED lockVars
    BY <2>4 DEF lockVars
  <2> QED
    BY <2>1, <2>2, <2>3, <2>4 DEF LockNext
<1> QED
  BY <1>1, Inductive, PTL DEF LockSpec, ReleasedByOwner

\* A call about to commit its release to Deno KV has read its own entry; while
\* the versionstamp it read is the stored one, the entry is still its own.
OwnSnap ==
  \A c \in Callers : place[c] = "unlock" =>
    /\ snap[c] \in {"current", "gone"}
    /\ snap[c] = "current" => lock.owner = c

KvInv == LockTypeOK /\ (Atomic => NoKvStep) /\ OwnSnap

LEMMA KvInductive == LockSpec => []KvInv
<1> USE LockAssumption
<1>1. LockInit => OwnSnap
  BY DEF LockInit, OwnSnap
<1>2. LockInv /\ OwnSnap /\ [LockNext]_lockVars => OwnSnap'
  <2> SUFFICES ASSUME LockInv, OwnSnap, [LockNext]_lockVars
               PROVE  OwnSnap'
    OBVIOUS
  <2> USE DEF LockInv, LockTypeOK, NoKvStep, OwnSnap
  <2>1. CASE Tick
    BY <2>1 DEF Tick
  <2>2. CASE KvExpire
    BY <2>2 DEF KvExpire, Outdated
  <2>3. ASSUME NEW c \in Callers, LockStep(c)
        PROVE  OwnSnap'
    <3>1. CASE AcquireAtomic(c)
      BY <3>1 DEF AcquireAtomic, Grant
    <3>2. CASE AcquireCommit(c)
      BY <3>2 DEF AcquireCommit, Grant, Outdated
    <3>3. CASE Call(c)  BY <3>3 DEF Call
    <3>4. CASE AcquireRefused(c)  BY <3>4 DEF AcquireRefused
    <3>5. CASE AcquireRead(c)  BY <3>5 DEF AcquireRead
    <3>6. CASE Wake(c)  BY <3>6 DEF Wake
    <3>7. CASE GiveUp(c)  BY <3>7 DEF GiveUp
    <3>8. CASE FnReturns(c)  BY <3>8 DEF FnReturns
    <3>9. CASE ReleaseAtomic(c)  BY <3>9 DEF ReleaseAtomic, Leave
    <3>10. CASE ReleaseLost(c)  BY <3>10 DEF ReleaseLost, Leave
    <3>11. CASE ReleaseRead(c)  BY <3>11 DEF ReleaseRead, Leave
    <3>12. CASE ReleaseCommit(c)
      BY <3>12 DEF ReleaseCommit, Leave, Outdated
    <3>13. CASE CallerStops(c)  BY <3>13 DEF CallerStops, Leave
    <3> QED
      BY <2>3, <3>1, <3>2, <3>3, <3>4, <3>5, <3>6, <3>7, <3>8, <3>9, <3>10,
         <3>11, <3>12, <3>13 DEF LockStep
  <2>4. CASE UNCHANGED lockVars
    BY <2>4 DEF lockVars
  <2> QED
    BY <2>1, <2>2, <2>3, <2>4 DEF LockNext
<1>3. LockInv /\ OwnSnap => KvInv
  BY DEF LockInv, KvInv
<1> QED
  BY <1>1, <1>2, <1>3, Inductive, PTL DEF LockSpec

\* Over every store, Deno KV included, a call that ends never deletes an entry
\* that holds another call's token, whatever was written since it read.
THEOREM NoForeignDelete == LockSpec => NoForeignRelease
<1> USE LockAssumption
<1>1. KvInv /\ [LockNext]_lockVars =>
        [\A c \in Callers :
           place[c] \in {"release", "unlock"} /\ place'[c] = "idle" /\ lock' # lock
             => lock.owner = c]_lockVars
  <2> SUFFICES ASSUME KvInv, [LockNext]_lockVars, NEW c \in Callers,
                      place[c] \in {"release", "unlock"}, place'[c] = "idle", lock' # lock
               PROVE  lock.owner = c
    OBVIOUS
  <2> USE DEF KvInv, LockTypeOK
  <2>1. CASE Tick \/ KvExpire \/ UNCHANGED lockVars
    BY <2>1 DEF Tick, KvExpire, lockVars
  <2>2. ASSUME NEW d \in Callers, LockStep(d)
        PROVE  lock.owner = c
    <3>1. CASE ReleaseAtomic(d)
      BY <3>1 DEF ReleaseAtomic, Leave
    <3>2. CASE ReleaseCommit(d)
      BY <3>2 DEF ReleaseCommit, Leave, CheckHolds, OwnSnap
    <3>3. CASE AcquireAtomic(d) \/ AcquireCommit(d)
      BY <3>3 DEF AcquireAtomic, AcquireCommit, Grant
    <3>4. CASE Call(d) \/ AcquireRefused(d) \/ AcquireRead(d) \/ Wake(d) \/ GiveUp(d)
      BY <3>4 DEF Call, AcquireRefused, AcquireRead, Wake, GiveUp
    <3>5. CASE FnReturns(d) \/ ReleaseLost(d) \/ ReleaseRead(d) \/ CallerStops(d)
      BY <3>5 DEF FnReturns, ReleaseLost, ReleaseRead, CallerStops
    <3> QED
      BY <2>2, <3>1, <3>2, <3>3, <3>4, <3>5 DEF LockStep
  <2> QED
    BY <2>1, <2>2 DEF LockNext
<1> QED
  BY <1>1, KvInductive, PTL DEF LockSpec, NoForeignRelease

-----------------------------------------------------------------------------
(* The queue *)


\* What a call has read bounds where the counters can be.
Reads ==
  \A p \in Procs :
    /\ pc[p] \in {"enqRead", "enqCommit"} => seen[p].value \in Value
    /\ pc[p] \in {"deqItem", "deqCommit"} => seen[p].head < tail
    /\ pc[p] \notin {"idle", "failed"} => tries[p] > 0

QueueInv == TypeOK /\ ItemsBetween /\ Reads

LEMMA Invariance ==
  ASSUME QueueInv, [Next]_vars
  PROVE  QueueInv'
<1> USE KvQueueAssumption DEF QueueInv, TypeOK, ItemsBetween, Reads, Index
<1>1. ASSUME NEW p \in Procs, NEW v \in Value, StartEnqueue(p, v)
      PROVE  QueueInv'
  BY <1>1 DEF StartEnqueue, Go, Store, Nothing
<1>2. ASSUME NEW p \in Procs, StartDequeue(p)
      PROVE  QueueInv'
  BY <1>2 DEF StartDequeue, Go, Store, Nothing
<1>3. ASSUME NEW p \in Procs, Crash(p)
      PROVE  QueueInv'
  BY <1>3 DEF Crash, Forget, Store, Nothing
<1>4. ASSUME NEW p \in Procs, Running(p)
      PROVE  QueueInv'
  <2>1. CASE ReadTailToAppend(p)
    <3> USE <2>1 DEF ReadTailToAppend, Go, Store
    <3>1. TypeOK'
      <4>0. [seen[p] EXCEPT !.tail = tail] \in [head : Index, tail : Index, value : Value \cup {NoValue}]
        OBVIOUS
      <4>2. seen' = [seen EXCEPT ![p] = [seen[p] EXCEPT !.tail = tail]]
        OBVIOUS
      <4>1. seen' \in [Procs -> [head : Index, tail : Index, value : Value \cup {NoValue}]]
        BY <4>0, <4>2
      <4> QED  BY <4>1
    <3>2. ItemsBetween'  OBVIOUS
    <3>3. Reads'  OBVIOUS
    <3> QED  BY <3>1, <3>2, <3>3
  <2>2. CASE CommitEnqueue(p)
    <3>1. TypeOK'  BY <2>2 DEF CommitEnqueue, Go, Forget, Nothing
    <3>2. ItemsBetween'  BY <2>2 DEF CommitEnqueue, Go, Forget
    <3>3. Reads'  BY <2>2 DEF CommitEnqueue, Go, Forget, Nothing
    <3> QED  BY <3>1, <3>2, <3>3
  <2>3. CASE EnqueueConflict(p)
    <3> USE <2>3 DEF EnqueueConflict, Go, Retry, Store
    <3>1. TypeOK'
      <4>2. pc[p] = "enqCommit" /\ tries' = [tries EXCEPT ![p] = tries[p] - 1]
        OBVIOUS
      <4>3. tries[p] > 0 /\ tries[p] \in 0..MaxRetries
        BY <4>2
      <4>0. tries[p] - 1 \in 0..MaxRetries
        BY <4>3
      <4>1. tries' \in [Procs -> 0..MaxRetries]
        BY <4>0, <4>2
      <4> QED  BY <4>1
    <3>2. ItemsBetween'  OBVIOUS
    <3>3. Reads'  OBVIOUS
    <3> QED  BY <3>1, <3>2, <3>3
  <2>4. CASE ReadHead(p)
    <3> USE <2>4 DEF ReadHead, Go, Store
    <3>1. TypeOK'
      <4>0. [seen[p] EXCEPT !.head = head] \in [head : Index, tail : Index, value : Value \cup {NoValue}]
        OBVIOUS
      <4>2. seen' = [seen EXCEPT ![p] = [seen[p] EXCEPT !.head = head]]
        OBVIOUS
      <4>1. seen' \in [Procs -> [head : Index, tail : Index, value : Value \cup {NoValue}]]
        BY <4>0, <4>2
      <4> QED  BY <4>1
    <3>2. ItemsBetween'  OBVIOUS
    <3>3. Reads'  OBVIOUS
    <3> QED  BY <3>1, <3>2, <3>3
  <2>5. CASE ReadTailEmpty(p)
    <3> USE <2>5 DEF ReadTailEmpty, Go, Forget, Store, Nothing
    <3>1. TypeOK'  OBVIOUS
    <3>2. ItemsBetween'  OBVIOUS
    <3>3. Reads'  OBVIOUS
    <3> QED  BY <3>1, <3>2, <3>3
  <2>6. CASE ReadTail(p)
    <3> USE <2>6 DEF ReadTail, Go, Store
    <3>1. TypeOK'  OBVIOUS
    <3>2. ItemsBetween'  OBVIOUS
    <3>3. Reads'  OBVIOUS
    <3> QED  BY <3>1, <3>2, <3>3
  <2>7. CASE ReadItem(p)
    <3> USE <2>7 DEF ReadItem, Go, Store
    <3>1. TypeOK'
      <4>0. [seen[p] EXCEPT !.value = item[seen[p].head]] \in [head : Index, tail : Index, value : Value \cup {NoValue}]
        OBVIOUS
      <4>2. seen' = [seen EXCEPT ![p] = [seen[p] EXCEPT !.value = item[seen[p].head]]]
        OBVIOUS
      <4>1. seen' \in [Procs -> [head : Index, tail : Index, value : Value \cup {NoValue}]]
        BY <4>0, <4>2
      <4> QED  BY <4>1
    <3>2. ItemsBetween'  OBVIOUS
    <3>3. Reads'  OBVIOUS
    <3> QED  BY <3>1, <3>2, <3>3
  <2>8. CASE CommitDequeue(p)
    <3> USE <2>8 DEF CommitDequeue, Go, Forget, Nothing, Unmoved
    <3>1. head < tail /\ seen[p].value \in Value
      OBVIOUS
    <3>2. TypeOK'  BY <3>1
    <3>3. ItemsBetween'  BY <3>1
    <3>4. Reads'  BY <3>1
    <3> QED  BY <3>2, <3>3, <3>4
  <2>9. CASE DequeueConflict(p)
    <3> USE <2>9 DEF DequeueConflict, Go, Retry, Store
    <3>1. TypeOK'
      <4>2. pc[p] = "deqCommit" /\ tries' = [tries EXCEPT ![p] = tries[p] - 1]
        OBVIOUS
      <4>3. tries[p] > 0 /\ tries[p] \in 0..MaxRetries
        BY <4>2
      <4>0. tries[p] - 1 \in 0..MaxRetries
        BY <4>3
      <4>1. tries' \in [Procs -> 0..MaxRetries]
        BY <4>0, <4>2
      <4> QED  BY <4>1
    <3>2. ItemsBetween'  OBVIOUS
    <3>3. Reads'  OBVIOUS
    <3> QED  BY <3>1, <3>2, <3>3
  <2>10. CASE Thrown(p)
    <3> USE <2>10 DEF Thrown, Go, Forget, Store, Nothing
    <3>1. TypeOK'  OBVIOUS
    <3>2. ItemsBetween'  OBVIOUS
    <3>3. Reads'  OBVIOUS
    <3> QED  BY <3>1, <3>2, <3>3
  <2> QED
    BY <1>4, <2>1, <2>2, <2>3, <2>4, <2>5, <2>6, <2>7, <2>8, <2>9, <2>10 DEF Running
<1>5. CASE UNCHANGED vars
  BY <1>5 DEF vars
<1> QED
  BY <1>1, <1>2, <1>3, <1>4, <1>5 DEF Next

LEMMA InitInv == Init => QueueInv
  BY KvQueueAssumption DEF Init, QueueInv, TypeOK, ItemsBetween, Reads, Index, Nothing

\* The counters and item keys agree in every reachable state: an item key is
\* present exactly between head and tail.
THEOREM Invariant == Spec => [](TypeOK /\ ItemsBetween)
<1>1. QueueInv /\ [Next]_vars => QueueInv'
  BY Invariance
<1>2. QueueInv => TypeOK /\ ItemsBetween
  BY DEF QueueInv
<1> QED
  BY InitInv, <1>1, <1>2, PTL DEF Spec

-----------------------------------------------------------------------------
LEMMA WaitingIsSeq ==
  QueueInv => /\ Waiting \in Seq(Value)
          /\ Len(Waiting) = tail - head
          /\ \A n \in 1..(tail - head) : Waiting[n] = item[head + n - 1]
<1> SUFFICES ASSUME QueueInv
             PROVE  /\ Waiting \in Seq(Value)
                    /\ Len(Waiting) = tail - head
                    /\ \A n \in 1..(tail - head) : Waiting[n] = item[head + n - 1]
  OBVIOUS
<1> USE KvQueueAssumption DEF QueueInv, TypeOK, ItemsBetween, Index
<1>1. tail - head \in Nat
  OBVIOUS
<1>2. \A n \in 1..(tail - head) : item[head + n - 1] \in Value
  OBVIOUS
<1>3. Waiting \in [1..(tail - head) -> Value]
  BY <1>2 DEF Waiting
<1> QED
  BY <1>1, <1>3 DEF Waiting

\* A committed enqueue appends its value to the items waiting.
LEMMA EnqueueAppends ==
  ASSUME QueueInv, NEW p \in Procs, CommitEnqueue(p)
  PROVE  \E v \in Value : Fifo!Enqueue(v)
<1> DEFINE v == seen[p].value  c == Append(Waiting, v)
<1>1. /\ v \in Value /\ head \in Nat /\ tail \in Nat /\ head <= tail
      /\ tail' = tail + 1 /\ head' = head /\ taken' = taken
      /\ item'[tail] = v
      /\ \A n \in head..(tail - 1) : item'[n] = item[n] /\ item'[n] \in Value
  BY KvQueueAssumption DEF QueueInv, TypeOK, ItemsBetween, Reads, Index, CommitEnqueue, Go
<1>2. /\ c \in Seq(Value) /\ Len(c) = Len(Waiting) + 1
      /\ c[Len(Waiting) + 1] = v
      /\ \A n \in 1..Len(Waiting) : c[n] = Waiting[n]
  BY <1>1, WaitingIsSeq, AppendProperties
<1> HIDE DEF c, v
<1>5. /\ Waiting' \in Seq(Value) /\ Len(Waiting') = tail + 1 - head
      /\ \A n \in 1..(tail + 1 - head) : Waiting'[n] = item'[head + n - 1]
  <2>1. \A n \in 1..(tail + 1 - head) : item'[head + n - 1] \in Value
    BY <1>1
  <2>2. Waiting' = [n \in 1..(tail + 1 - head) |-> item'[head + n - 1]]
    BY <1>1 DEF Waiting
  <2>3. tail + 1 - head \in Nat /\ Waiting' \in [1..(tail + 1 - head) -> Value]
    BY <1>1, <2>1, <2>2
  <2> QED  BY <2>2, <2>3
<1>3. \A n \in 1..Len(c) : Waiting'[n] = c[n]
  <2> SUFFICES ASSUME NEW n \in 1..Len(c)
               PROVE  Waiting'[n] = c[n]
    OBVIOUS
  <2>1. n \in 1..(tail + 1 - head) /\ Waiting'[n] = item'[head + n - 1]
    BY <1>1, <1>2, WaitingIsSeq, <1>5
  <2>2. CASE n = tail + 1 - head
    <3>1. head + n - 1 = tail /\ n = Len(Waiting) + 1
      BY <1>1, <2>2, WaitingIsSeq
    <3> QED  BY <1>1, <1>2, <2>1, <3>1
  <2>3. CASE n # tail + 1 - head
    <3>1. n \in 1..(tail - head) /\ head + n - 1 \in head..(tail - 1)
      BY <1>1, <2>1, <2>3
    <3> QED  BY <1>1, <1>2, <2>1, <3>1, WaitingIsSeq
  <2> QED  BY <2>2, <2>3
<1>4. Waiting' = c
  <2>1. Waiting' \in Seq(Value) /\ Len(Waiting') = Len(c)
    <3>1. Len(Waiting) = tail - head /\ head \in Nat /\ tail \in Nat
      BY <1>1, WaitingIsSeq
    <3>2. Len(c) = tail + 1 - head
      BY <1>2, <3>1
    <3> QED  BY <1>5, <3>2
  <2> QED  BY <1>2, <1>3, <2>1, SeqEqual
<1> QED
  BY <1>1, <1>4 DEF Fifo!Enqueue, c

\* A committed dequeue hands out the oldest item waiting.
LEMMA DequeueTakesHead ==
  ASSUME QueueInv, NEW p \in Procs, CommitDequeue(p)
  PROVE  Fifo!Dequeue
<1> DEFINE c == Tail(Waiting)
<1>1. /\ head \in Nat /\ tail \in Nat /\ head < tail
      /\ tail' = tail /\ head' = head + 1
      /\ \A n \in (head + 1)..(tail - 1) : item'[n] = item[n] /\ item[n] \in Value
      /\ taken' = Append(taken, item[head])
  BY KvQueueAssumption
  DEF QueueInv, TypeOK, ItemsBetween, Reads, Index, CommitDequeue, Go, Unmoved
<1>2. Waiting # <<>> /\ Head(Waiting) = item[head]
  BY <1>1, WaitingIsSeq
<1>3. /\ c \in Seq(Value) /\ Len(c) = Len(Waiting) - 1
      /\ \A n \in 1..Len(c) : c[n] = Waiting[n + 1]
  BY <1>1, <1>2, WaitingIsSeq, HeadTailProperties
<1> HIDE DEF c
<1>6. /\ Waiting' \in Seq(Value) /\ Len(Waiting') = tail - head - 1
      /\ \A n \in 1..(tail - head - 1) : Waiting'[n] = item'[head + n]
  <2>1. \A n \in 1..(tail - head - 1) : item'[head + n] \in Value
    BY <1>1
  <2>2. Waiting' = [n \in 1..(tail - head - 1) |-> item'[head + n]]
    BY <1>1 DEF Waiting
  <2>3. tail - head - 1 \in Nat /\ Waiting' \in [1..(tail - head - 1) -> Value]
    BY <1>1, <2>1, <2>2
  <2> QED  BY <2>2, <2>3
<1>4. \A n \in 1..Len(c) : Waiting'[n] = c[n]
  <2> SUFFICES ASSUME NEW n \in 1..Len(c)
               PROVE  Waiting'[n] = c[n]
    OBVIOUS
  <2>1. n \in 1..(tail - head - 1)
    BY <1>1, <1>3, WaitingIsSeq
  <2>2. Waiting'[n] = item'[head + n]
    BY <1>1, <2>1, <1>6
  <2>3. c[n] = item[head + n]
    BY <1>1, <1>3, <2>1, WaitingIsSeq
  <2>4. head + n \in (head + 1)..(tail - 1)
    BY <1>1, <2>1
  <2> QED  BY <1>1, <2>2, <2>3, <2>4
<1>5. Waiting' = c
  <2>1. Waiting' \in Seq(Value) /\ Len(Waiting') = Len(c)
    BY <1>1, <1>3, WaitingIsSeq, <1>6
  <2> QED  BY <1>3, <1>4, <2>1, SeqEqual
<1> QED
  BY <1>1, <1>2, <1>5 DEF Fifo!Dequeue, c

LEMMA StoreKeepsWaiting ==
  ASSUME UNCHANGED Store
  PROVE  UNCHANGED <<Waiting, taken>>
  BY DEF Store, Waiting

\* Every step of the optimistic algorithm is one step of the FIFO queue or
\* leaves it alone: concurrent enqueues and dequeues of any number of
\* instances neither lose nor repeat nor reorder an item.
THEOREM Refinement == Spec => ImplementsFifo
<1>1. Init => Fifo!FifoInit
  BY KvQueueAssumption DEF Init, Fifo!FifoInit, Waiting
<1>2. QueueInv /\ [Next]_vars => [Fifo!FifoNext]_(Fifo!fifoVars)
  <2> SUFFICES ASSUME QueueInv, [Next]_vars
               PROVE  [Fifo!FifoNext]_(Fifo!fifoVars)
    OBVIOUS
  <2>1. ASSUME UNCHANGED Store
        PROVE  UNCHANGED Fifo!fifoVars
    BY <2>1, StoreKeepsWaiting DEF Fifo!fifoVars
  <2>2. ASSUME NEW p \in Procs, CommitEnqueue(p)
        PROVE  Fifo!FifoNext
    BY <2>2, EnqueueAppends DEF Fifo!FifoNext
  <2>3. ASSUME NEW p \in Procs, CommitDequeue(p)
        PROVE  Fifo!FifoNext
    BY <2>3, DequeueTakesHead DEF Fifo!FifoNext
  <2>4. ASSUME NEW p \in Procs, Running(p), ~CommitEnqueue(p), ~CommitDequeue(p)
        PROVE  UNCHANGED Store
    BY <2>4 DEF Running, ReadTailToAppend, EnqueueConflict, ReadHead,
       ReadTailEmpty, ReadTail, ReadItem, DequeueConflict, Thrown, Store
  <2>5. ASSUME NEW p \in Procs, StartDequeue(p) \/ Crash(p)
        PROVE  UNCHANGED Store
    BY <2>5 DEF StartDequeue, Crash
  <2>6. ASSUME NEW p \in Procs, NEW v \in Value, StartEnqueue(p, v)
        PROVE  UNCHANGED Store
    BY <2>6 DEF StartEnqueue
  <2>7. CASE UNCHANGED vars
    BY <2>1, <2>7 DEF vars, Store
  <2> QED
    BY <2>1, <2>2, <2>3, <2>4, <2>5, <2>6, <2>7 DEF Next
<1>3. QueueInv /\ [Next]_vars => QueueInv'
  BY Invariance
<1> QED
  BY InitInv, <1>1, <1>2, <1>3, PTL DEF Spec, ImplementsFifo, Fifo!FifoSpec

-----------------------------------------------------------------------------
\* What a call has read lies behind what is stored, and its item is the stored
\* one for as long as the head has not moved.
Behind ==
  \A p \in Procs :
    /\ pc[p] = "enqCommit" => seen[p].tail <= tail
    /\ pc[p] \in {"deqTail", "deqItem", "deqCommit"} => seen[p].head <= head
    /\ pc[p] = "deqCommit" /\ seen[p].head = head => seen[p].value = item[head]

LEMMA BehindNext ==
  ASSUME QueueInv, Behind, [Next]_vars
  PROVE  Behind'
<1> USE KvQueueAssumption DEF QueueInv, TypeOK, Reads, Behind, Index
<1>1. ASSUME NEW p \in Procs, NEW v \in Value, StartEnqueue(p, v)
      PROVE  Behind'
  BY <1>1 DEF StartEnqueue, Go, Store, Nothing
<1>2. ASSUME NEW p \in Procs, StartDequeue(p)
      PROVE  Behind'
  BY <1>2 DEF StartDequeue, Go, Store, Nothing
<1>3. ASSUME NEW p \in Procs, Crash(p)
      PROVE  Behind'
  BY <1>3 DEF Crash, Forget, Store, Nothing
<1>4. ASSUME NEW p \in Procs, Running(p)
      PROVE  Behind'
  <2>1. CASE ReadTailToAppend(p)
    BY <2>1 DEF ReadTailToAppend, Go, Store
  <2>2. CASE CommitEnqueue(p)
    BY <2>2 DEF CommitEnqueue, Go, Forget, Nothing
  <2>3. CASE EnqueueConflict(p)
    BY <2>3 DEF EnqueueConflict, Go, Retry, Store
  <2>4. CASE ReadHead(p)
    BY <2>4 DEF ReadHead, Go, Store
  <2>5. CASE ReadTailEmpty(p)
    BY <2>5 DEF ReadTailEmpty, Go, Forget, Store, Nothing
  <2>6. CASE ReadTail(p)
    BY <2>6 DEF ReadTail, Go, Store
  <2>7. CASE ReadItem(p)
    BY <2>7 DEF ReadItem, Go, Store
  <2>8. CASE CommitDequeue(p)
    BY <2>8 DEF CommitDequeue, Unmoved, Go, Forget, Nothing
  <2>9. CASE DequeueConflict(p)
    BY <2>9 DEF DequeueConflict, Go, Retry, Store
  <2>10. CASE Thrown(p)
    BY <2>10 DEF Thrown, Go, Forget, Store, Nothing
  <2> QED
    BY <1>4, <2>1, <2>2, <2>3, <2>4, <2>5, <2>6, <2>7, <2>8, <2>9, <2>10 DEF Running
<1>5. CASE UNCHANGED vars
  BY <1>5 DEF vars
<1> QED
  BY <1>1, <1>2, <1>3, <1>4, <1>5 DEF Next

LEMMA AlwaysBehind == Spec => [](QueueInv /\ Behind)
<1>1. Init => Behind
  BY DEF Init, Behind
<1>2. (QueueInv /\ Behind) /\ [Next]_vars => (QueueInv /\ Behind)'
  BY Invariance, BehindNext
<1> QED
  BY InitInv, <1>1, <1>2, PTL DEF Spec

\* dequeue answers null only when the queue is empty at that moment: the head
\* it read earlier cannot have been ahead of the stored one.
THEOREM NullMeansEmpty == Spec => NullOnlyWhenEmpty
<1>1. QueueInv /\ Behind => [\A p \in Procs : ReadTailEmpty(p) => head = tail]_vars
  <2> SUFFICES ASSUME QueueInv, Behind, NEW p \in Procs, ReadTailEmpty(p)
               PROVE  head = tail
    OBVIOUS
  <2>1. pc[p] = "deqTail" /\ seen[p].head >= tail
    BY DEF ReadTailEmpty, Go
  <2>2. seen[p].head <= head /\ head <= tail
    BY <2>1 DEF Behind, QueueInv, TypeOK
  <2>3. seen[p].head \in Nat /\ head \in Nat /\ tail \in Nat
    BY KvQueueAssumption DEF QueueInv, TypeOK, Index
  <2> QED  BY <2>1, <2>2, <2>3
<1> QED
  BY <1>1, AlwaysBehind, PTL DEF NullOnlyWhenEmpty

\* A call's commit fails only because another call's commit succeeded since it
\* read: under contention somebody always gets on.
THEOREM LockFree == Spec => ConflictMeansProgress
<1>1. QueueInv /\ Behind =>
        [\A p \in Procs :
           /\ (EnqueueConflict(p) => tail > seen[p].tail)
           /\ (DequeueConflict(p) => head > seen[p].head)]_vars
  <2> SUFFICES ASSUME QueueInv, Behind, NEW p \in Procs
               PROVE  /\ EnqueueConflict(p) => tail > seen[p].tail
                      /\ DequeueConflict(p) => head > seen[p].head
    OBVIOUS
  <2>0. /\ seen[p].head \in Nat /\ seen[p].tail \in Nat
        /\ head \in Nat /\ tail \in Nat
    BY KvQueueAssumption DEF QueueInv, TypeOK, Index
  <2>1. ASSUME EnqueueConflict(p) PROVE tail > seen[p].tail
    <3>1. seen[p].tail <= tail /\ seen[p].tail # tail
      BY <2>1 DEF EnqueueConflict, Retry, Go, Behind
    <3> QED  BY <2>0, <3>1
  <2>2. ASSUME DequeueConflict(p) PROVE head > seen[p].head
    <3>1. seen[p].head <= head /\ seen[p].head # head
      BY <2>2 DEF DequeueConflict, Retry, Go, Behind, Unmoved
    <3> QED  BY <2>0, <3>1
  <2> QED  BY <2>1, <2>2
<1> QED
  BY <1>1, AlwaysBehind, PTL DEF ConflictMeansProgress
=============================================================================
