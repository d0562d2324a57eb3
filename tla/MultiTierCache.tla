---------------------------- MODULE MultiTierCache ----------------------------
(***************************************************************************)
(* One key of the multi-tier cache (services/cache): a memory cache (L1)   *)
(* in every instance, one Redis (L2) behind them, and the bus that tells   *)
(* the other instances to drop their L1 copy.  Requests of all instances   *)
(* interleave between the commands they await.  A value is named by the    *)
(* number of the write that stored it.                                     *)
(*                                                                         *)
(* Commands of one instance reach Redis in the order it sent them (one     *)
(* connection), which is why MultiTierCacheProvider.delete, which sends    *)
(* DEL and drops its L1 copy before it yields, is one step.                *)
(*                                                                         *)
(* A command on Redis may fail, before or after it took effect: the        *)
(* provider swallows the error (RedisCacheProvider answers null or returns *)
(* as if the write had landed), publishes nothing, and the call goes on.   *)
(* PUBLISH may fail too, a message may be lost on its way, and the bus may *)
(* be off, which is the default: any write may go unpublished.             *)
(***************************************************************************)
EXTENDS Naturals, FiniteSets

CONSTANTS Instances,    \* processes sharing the Redis L2
          Requests,     \* cache calls in progress at one time, finitely many
          NoInstance,   \* where a request that is not running is
          MaxWrites,    \* bound: sets, deletes and getAndDeletes together
          MaxFaults     \* bound: Redis commands that fail, messages that are lost

ASSUME CacheAssumption ==
  /\ NoInstance \notin Instances
  /\ IsFiniteSet(Requests)
  /\ MaxWrites \in Nat /\ MaxFaults \in Nat

VARIABLES l1,           \* copy held by each instance
          l2,           \* the value in Redis, 0 when there is none
          bus,          \* invalidations published and not yet received
          pc,           \* where each request stands
          at,           \* the instance that runs it
          val,          \* the value it has read or writes
          overtaken,    \* it overlaps another write, or its own SET did not land
          writes,       \* writes so far: names the next value
          big,          \* values above the threshold
          taken,        \* values getAndDelete has returned, by how many calls
          expired,      \* values whose TTL has run out
          faults        \* failures so far

vars == <<l1, l2, bus, pc, at, val, overtaken, writes, big, taken, expired, faults>>

Values == 1..MaxWrites
\* clean: neither made by an overtaken call nor left out of date by a write that
\* will not invalidate it
Copies == [val : Values, clean : BOOLEAN]
NoCopy == [val |-> 0, clean |-> TRUE]

WritePhases == {"publishSet", "setL1", "publish", "take"}
Writing == \E r \in Requests : pc[r] \in WritePhases

TypeOK ==
  /\ l1 \in [Instances -> Copies \cup {NoCopy}]
  /\ l2 \in 0..MaxWrites
  /\ bus \in [Instances -> 0..MaxWrites]
  /\ pc \in [Requests -> {"idle", "readL2", "fill"} \cup WritePhases]
  /\ at \in [Requests -> Instances \cup {NoInstance}]
  /\ val \in [Requests -> 0..MaxWrites]
  /\ overtaken \in [Requests -> BOOLEAN]
  /\ writes \in 0..MaxWrites
  /\ big \subseteq Values /\ expired \subseteq Values
  /\ taken \in [Values -> 0..Cardinality(Requests)]
  /\ faults \in 0..MaxFaults

Init ==
  /\ l1 = [i \in Instances |-> NoCopy] /\ l2 = 0
  /\ bus = [i \in Instances |-> 0]
  /\ pc = [r \in Requests |-> "idle"]
  /\ at = [r \in Requests |-> NoInstance]
  /\ val = [r \in Requests |-> 0]
  /\ overtaken = [r \in Requests |-> FALSE]
  /\ writes = 0 /\ big = {} /\ expired = {}
  /\ taken = [v \in Values |-> 0] /\ faults = 0

-----------------------------------------------------------------------------
Goto(r, l) == pc' = [pc EXCEPT ![r] = l]

\* The call returns
Done(r) ==
  /\ Goto(r, "idle")
  /\ at' = [at EXCEPT ![r] = NoInstance]
  /\ val' = [val EXCEPT ![r] = 0]

\* Request r writes: it overlaps every call that is going to set a copy, and
\* itself any write already in progress
Overtake(r) ==
  overtaken' = [q \in Requests |->
                  IF q = r THEN \E p \in Requests \ {r} : pc[p] \in WritePhases
                  ELSE overtaken[q] \/ pc[q] \in {"fill", "publishSet", "setL1"}]

Fault == faults < MaxFaults /\ faults' = faults + 1

\* The copies, but those in S that differ from what Redis now holds are no
\* longer clean: nobody is going to drop them
Missed(copies, S, now) ==
  [i \in Instances |->
     IF i \in S /\ copies[i] # NoCopy /\ copies[i].val # now
     THEN [copies[i] EXCEPT !.clean = FALSE] ELSE copies[i]]

Without(i) == [l1 EXCEPT ![i] = NoCopy]

\* shouldUseL1(namespace, value)
ShouldUseL1(v) == v \notin big

(* get *)

\* L1 miss (a hit returns at once and changes nothing)
Get(r, i) ==
  /\ pc[r] = "idle" /\ l1[i] = NoCopy
  /\ Goto(r, "readL2")
  /\ at' = [at EXCEPT ![r] = i]
  /\ UNCHANGED <<l1, l2, bus, val, overtaken, writes, big, taken, expired, faults>>

\* Redis answers; the value is worth a copy or is returned as it is.  A failed
\* GET answers null
ReadL2(r) ==
  /\ pc[r] = "readL2"
  /\ \/ /\ l2 # 0 /\ ShouldUseL1(l2)
        /\ Goto(r, "fill")
        /\ val' = [val EXCEPT ![r] = l2]
        /\ overtaken' = [overtaken EXCEPT ![r] = Writing]
        /\ UNCHANGED <<at, faults>>
     \/ /\ \/ (l2 = 0 \/ ~ShouldUseL1(l2)) /\ UNCHANGED faults
           \/ Fault
        /\ Done(r)
        /\ UNCHANGED overtaken
  /\ UNCHANGED <<l1, l2, bus, writes, big, taken, expired>>

\* l1Cache.set(namespace, key, l2Result), without a ttl
Fill(r) ==
  /\ pc[r] = "fill"
  /\ l1' = [l1 EXCEPT ![at[r]] =
              [val |-> val[r], clean |-> ~overtaken[r]]]
  /\ overtaken' = [overtaken EXCEPT ![r] = FALSE]
  /\ Done(r)
  /\ UNCHANGED <<l2, bus, writes, big, taken, expired, faults>>

-----------------------------------------------------------------------------
(* set, delete, getAndDelete *)

\* The next write; a delete counts as one
NewWrite ==
  /\ writes < MaxWrites
  /\ writes' = writes + 1

\* set: SETEX on Redis
SetL2(r, i) ==
  /\ pc[r] = "idle" /\ NewWrite
  /\ l2' = writes'
  /\ big' \in {big, big \cup {writes'}}
  /\ Goto(r, "publishSet")
  /\ at' = [at EXCEPT ![r] = i]
  /\ val' = [val EXCEPT ![r] = writes']
  /\ Overtake(r)
  /\ UNCHANGED <<l1, bus, taken, expired, faults>>

\* set: SETEX fails or there is no connection, and RedisCacheProvider.set
\* returns without a broadcast: the own copy is set all the same
SetL2Fails(r, i) ==
  /\ pc[r] = "idle" /\ NewWrite
  /\ Fault
  /\ l2' \in {l2, writes'}
  /\ l1' = Missed(l1, Instances, l2')
  /\ \/ /\ Goto(r, "setL1")
        /\ at' = [at EXCEPT ![r] = i]
        /\ val' = [val EXCEPT ![r] = writes']
        /\ UNCHANGED big
     \/ /\ big' = big \cup {writes'}
        /\ UNCHANGED <<pc, at, val>>
  /\ overtaken' = [q \in Requests |->
                     q = r \/ overtaken[q] \/ pc[q] \in {"fill", "publishSet", "setL1"}]
  /\ UNCHANGED <<bus, taken, expired>>

\* broadcastKeyInvalidation of instance i: the others will drop their copies (the
\* sender's own message is ignored on arrival), or are not told: the bus is off,
\* or PUBLISH failed
Broadcast(i, told) ==
  bus' = [j \in Instances |-> IF told /\ j # i THEN bus[j] + 1 ELSE bus[j]]

\* set: PUBLISH, then the own copy.  A value that is not worth one leaves the
\* copy of the old value where it is
PublishSet(r) ==
  /\ pc[r] = "publishSet"
  /\ \E told \in BOOLEAN :
       /\ Broadcast(at[r], told)
       /\ LET untold == IF told THEN {} ELSE Instances \ {at[r]} IN
          IF ShouldUseL1(val[r])
          THEN /\ Goto(r, "setL1")
               /\ l1' = Missed(l1, untold, l2)
               /\ UNCHANGED <<at, val>>
          ELSE Done(r) /\ l1' = Missed(l1, untold \cup {at[r]}, l2)
  /\ UNCHANGED <<l2, overtaken, writes, big, taken, expired, faults>>

\* set: l1Cache.set(namespace, key, value, options).  Two sets of one
\* instance may get here in the other order than they reached Redis
SetL1(r) ==
  /\ pc[r] = "setL1"
  /\ l1' = [l1 EXCEPT ![at[r]] =
              [val |-> val[r], clean |-> ~overtaken[r]]]
  /\ overtaken' = [overtaken EXCEPT ![r] = FALSE]
  /\ Done(r)
  /\ UNCHANGED <<l2, bus, writes, big, taken, expired, faults>>

\* delete: DEL is sent and the own copy dropped before anything else runs
Delete(r, i) ==
  /\ pc[r] = "idle" /\ NewWrite
  /\ l2' = 0
  /\ l1' = Without(i)
  /\ Goto(r, "publish")
  /\ at' = [at EXCEPT ![r] = i]
  /\ Overtake(r)
  /\ UNCHANGED <<bus, val, big, taken, expired, faults>>

\* delete: DEL fails or there is no connection; nothing is published
DeleteFails(r, i) ==
  /\ pc[r] = "idle" /\ NewWrite
  /\ Fault
  /\ l2' \in {0, l2}
  /\ l1' = Missed(Without(i), Instances, l2')
  /\ Overtake(r)
  /\ UNCHANGED <<bus, pc, at, val, big, taken, expired>>

\* getAndDelete: the own copy is dropped and awaited first
TakeL1(r, i) ==
  /\ pc[r] = "idle" /\ NewWrite
  /\ l1' = Without(i)
  /\ Goto(r, "take")
  /\ at' = [at EXCEPT ![r] = i]
  /\ Overtake(r)
  /\ UNCHANGED <<l2, bus, val, big, taken, expired, faults>>

\* Faulty variant: GET, with the DEL sent when the value is returned
TakeTwoCommands(r) ==
  /\ pc[r] = "take"
  /\ IF l2 = 0 THEN Done(r) ELSE Goto(r, "publish") /\ UNCHANGED <<at, val>>
  /\ taken' = IF l2 = 0 THEN taken ELSE [taken EXCEPT ![l2] = @ + 1]
  /\ Overtake(r)
  /\ UNCHANGED <<l1, l2, bus, writes, big, expired, faults>>

\* Redis GETDEL; a miss returns without a broadcast
TakeL2(r) ==
  /\ pc[r] = "take"
  /\ l2' = 0
  /\ IF l2 = 0 THEN Done(r) ELSE Goto(r, "publish") /\ UNCHANGED <<at, val>>
  /\ taken' = IF l2 = 0 THEN taken ELSE [taken EXCEPT ![l2] = @ + 1]
  /\ Overtake(r)
  /\ UNCHANGED <<l1, bus, writes, big, expired, faults>>

\* GETDEL fails or its answer is lost: the caller gets null, nothing is published
TakeL2Fails(r) ==
  /\ pc[r] = "take"
  /\ Fault
  /\ l2' \in {0, l2}
  /\ l1' = Missed(l1, Instances, l2')
  /\ Done(r)
  /\ Overtake(r)
  /\ UNCHANGED <<bus, writes, big, taken, expired>>

\* delete, getAndDelete: PUBLISH
Publish(r) ==
  /\ pc[r] = "publish"
  /\ \E told \in BOOLEAN :
       /\ Broadcast(at[r], told)
       /\ l1' = Missed(l1, IF told THEN {} ELSE Instances \ {at[r]}, l2)
  /\ Done(r)
  /\ UNCHANGED <<l2, overtaken, writes, big, taken, expired, faults>>

-----------------------------------------------------------------------------
(* The bus, and time *)

\* Faulty variant: a message may be handled twice
DeliverRepeated(i) ==
  /\ bus' = [bus EXCEPT ![i] = @ - 1]
  /\ l1' = Without(i)
  /\ UNCHANGED <<l2, pc, at, val, overtaken, writes, big, taken, expired, faults>>

\* Faulty variant: the test that skips one's own messages is inverted
DeliverSkipped(i) ==
  /\ bus[i] > 0
  /\ bus' = [bus EXCEPT ![i] = @ - 1]
  /\ UNCHANGED <<l1, l2, pc, at, val, overtaken, writes, big, taken, expired, faults>>

\* handleIncomingMessages, handleInvalidationMessage: the copy goes
Deliver(i) ==
  /\ bus[i] > 0
  /\ bus' = [bus EXCEPT ![i] = @ - 1]
  /\ l1' = Without(i)
  /\ UNCHANGED <<l2, pc, at, val, overtaken, writes, big, taken, expired, faults>>

\* A message published while the subscriber reconnects is never received
Lose(i) ==
  /\ bus[i] > 0 /\ Fault
  /\ bus' = [bus EXCEPT ![i] = @ - 1]
  /\ l1' = Missed(l1, {i}, l2)
  /\ UNCHANGED <<l2, pc, at, val, overtaken, writes, big, taken, expired>>

\* The TTL runs out in Redis
Expire ==
  /\ l2 # 0
  /\ expired' = expired \cup {l2}
  /\ l2' = 0
  /\ UNCHANGED <<l1, bus, pc, at, val, overtaken, writes, big, taken, faults>>

\* A memory cache drops its copy: the copy's own TTL, or room is needed
Evict(i) ==
  /\ l1[i] # NoCopy
  /\ l1' = Without(i)
  /\ UNCHANGED <<l2, bus, pc, at, val, overtaken, writes, big, taken, expired, faults>>

Continue(r) ==
  \/ ReadL2(r) \/ Fill(r) \/ PublishSet(r) \/ SetL1(r)
  \/ TakeL2(r) \/ TakeL2Fails(r) \/ Publish(r)

Next ==
  \/ \E r \in Requests :
       \/ Continue(r)
       \/ \E i \in Instances :
            \/ Get(r, i) \/ SetL2(r, i) \/ SetL2Fails(r, i)
            \/ Delete(r, i) \/ DeleteFails(r, i) \/ TakeL1(r, i)
  \/ \E i \in Instances : Deliver(i) \/ Lose(i) \/ Evict(i)
  \/ Expire

Spec == Init /\ [][Next]_vars

-----------------------------------------------------------------------------
\* A copy that disagrees with Redis though its TTL has not run out
Stale(i) == l1[i] # NoCopy /\ l1[i].val # l2 /\ l1[i].val \notin expired

\* When all writes are over and an instance has received its invalidations, its
\* copy is what Redis holds, but for four ways in which the code leaves it out
\* of date: a read or a set that overlapped another write made it; the SET it
\* comes from did not land; a write did not reach the instance (bus off, or a
\* command or message lost); the instance itself stored a large value over it.
CoherentAtRest ==
  ~Writing => \A i \in Instances : bus[i] = 0 /\ l1[i].clean => ~Stale(i)

\* getAndDelete hands a value to one caller, over all instances, however many
\* commands and messages are lost: a magic link is redeemed once
\* (magic-link.service.ts relies on it).
TakenOnce == \A v \in Values : taken[v] <= 1
=============================================================================
