------------------------------ MODULE CacheLock ------------------------------
(***************************************************************************)
(* GlobalCacheService.withLock over the provider's acquireLock and         *)
(* releaseLock (services/cache).  A caller polls acquireLock until it      *)
(* succeeds or its wait budget is spent, runs fn, and releases by token in *)
(* a finally block.  The lock is a lease: the store drops it TtlMs after   *)
(* it was granted, whether or not fn has returned.                         *)
(*                                                                         *)
(* Time is modelled by countdowns that Tick decrements together, so that   *)
(* no clock grows: `lock.left` is what remains of the stored lease,        *)
(* `lease[c]` what remains of the lease c was granted (kept by the model,  *)
(* the code has no such variable) and `waitLeft[c]` what remains of c's    *)
(* wait budget.                                                            *)
(***************************************************************************)
EXTENDS Integers

CONSTANTS Callers,      \* concurrent withLock calls on one lock key
          NoCaller,     \* owner of a lock that is free
          Providers,    \* stores that may run underneath
          Ttl,          \* ttlMs, in ticks
          Wait          \* waitTimeoutMs, in ticks

ASSUME LockAssumption ==
  /\ NoCaller \notin Callers
  /\ Providers \subseteq {"redis", "memory", "denokv"}
  /\ Ttl \in Nat \ {0}
  /\ Wait \in Nat \ {0}

VARIABLES provider,     \* the store chosen at the start of the instance
          lock,         \* the stored lock record
          place,        \* where each call stands in withLock
          waitLeft,     \* waitTimeoutMs - (now - start), per call
          lease,        \* remaining lease as granted to the call
          snap          \* Deno KV: the entry a call has read and will check

lockVars == <<provider, lock, place, waitLeft, lease, snap>>

Free == [owner |-> NoCaller, left |-> 0]
Held == lock.owner # NoCaller
InBody(c) == place[c] \in {"body", "release", "unlock"}

\* A store whose acquireLock and releaseLock are single atomic commands
Atomic == provider \in {"redis", "memory"}

\* Every write of the lock key outdates the entries read before it
Outdated(s) == IF s = "current" THEN "gone" ELSE s

\* atomic().check(entry): the versionstamp read is still the stored one
CheckHolds(c) == \/ snap[c] = "current"
                 \/ snap[c] = "absent" /\ ~Held

LockTypeOK ==
  /\ provider \in Providers
  /\ lock \in [owner : Callers \cup {NoCaller}, left : 0..Ttl]
  /\ place \in [Callers -> {"idle", "poll", "read", "sleep", "body", "release", "unlock"}]
  /\ waitLeft \in [Callers -> 0..Wait]
  /\ lease \in [Callers -> 0..Ttl]
  /\ snap \in [Callers -> {"none", "absent", "current", "gone"}]

LockInit ==
  /\ provider \in Providers
  /\ lock = Free
  /\ place = [c \in Callers |-> "idle"]
  /\ waitLeft = [c \in Callers |-> 0]
  /\ lease = [c \in Callers |-> 0]
  /\ snap = [c \in Callers |-> "none"]

-----------------------------------------------------------------------------
(* withLock: the polling loop *)

\* start = getTimeNow(), a fresh token
Call(c) ==
  /\ place[c] = "idle"
  /\ place' = [place EXCEPT ![c] = "poll"]
  /\ waitLeft' = [waitLeft EXCEPT ![c] = Wait]
  /\ UNCHANGED <<provider, lock, lease, snap>>

\* The store writes the caller's token with a full TTL
Grant(c) ==
  /\ lock' = [owner |-> c, left |-> Ttl]
  /\ lease' = [lease EXCEPT ![c] = Ttl]
  /\ place' = [place EXCEPT ![c] = "body"]

\* Faulty variant: SET without NX
AcquireHeld(c) ==
  /\ Atomic
  /\ place[c] = "poll" /\ waitLeft[c] > 0
  /\ Grant(c)
  /\ UNCHANGED <<provider, waitLeft, snap>>

\* Redis SET NX PX, memory map test-and-set: granted only when free
AcquireAtomic(c) ==
  /\ Atomic
  /\ place[c] = "poll" /\ waitLeft[c] > 0
  /\ ~Held
  /\ Grant(c)
  /\ UNCHANGED <<provider, waitLeft, snap>>

\* Refused; Redis also refuses whenever it is not connected
AcquireRefused(c) ==
  /\ Atomic
  /\ place[c] = "poll" /\ waitLeft[c] > 0
  /\ Held \/ provider = "redis"
  /\ place' = [place EXCEPT ![c] = "sleep"]
  /\ UNCHANGED <<provider, lock, waitLeft, lease, snap>>

\* Deno KV: kv.get(["lock", key]).  The entry is not inspected
AcquireRead(c) ==
  /\ provider = "denokv"
  /\ place[c] = "poll" /\ waitLeft[c] > 0
  /\ snap' = [snap EXCEPT ![c] = IF Held THEN "current" ELSE "absent"]
  /\ place' = [place EXCEPT ![c] = "read"]
  /\ UNCHANGED <<provider, lock, waitLeft, lease>>

\* Deno KV: atomic().check(entry).set(...).commit()
AcquireCommit(c) ==
  /\ place[c] = "read"
  /\ \/ /\ CheckHolds(c)
        /\ Grant(c)
        /\ snap' = [d \in Callers |-> IF d = c THEN "none" ELSE Outdated(snap[d])]
     \/ /\ ~CheckHolds(c)
        /\ place' = [place EXCEPT ![c] = "sleep"]
        /\ snap' = [snap EXCEPT ![c] = "none"]
        /\ UNCHANGED <<lock, lease>>
  /\ UNCHANGED <<provider, waitLeft>>

\* Faulty variant: the wait budget is started anew on every iteration
WakeRestarted(c) ==
  /\ place[c] = "sleep"
  /\ place' = [place EXCEPT ![c] = "poll"]
  /\ waitLeft' = [waitLeft EXCEPT ![c] = Wait]
  /\ UNCHANGED <<provider, lock, lease, snap>>

\* sleep(retryDelayMs + jitter) is over
Wake(c) ==
  /\ place[c] = "sleep"
  /\ place' = [place EXCEPT ![c] = "poll"]
  /\ UNCHANGED <<provider, lock, waitLeft, lease, snap>>

\* The while condition fails: "Failed to acquire cache lock"
GiveUp(c) ==
  /\ place[c] = "poll" /\ waitLeft[c] = 0
  /\ place' = [place EXCEPT ![c] = "idle"]
  /\ UNCHANGED <<provider, lock, waitLeft, lease, snap>>

-----------------------------------------------------------------------------
(* withLock: fn and the finally block *)

FnReturns(c) ==
  /\ place[c] = "body"
  /\ place' = [place EXCEPT ![c] = "release"]
  /\ UNCHANGED <<provider, lock, waitLeft, lease, snap>>

\* The call is over: it no longer relies on its lease
Leave(c) ==
  /\ place' = [place EXCEPT ![c] = "idle"]
  /\ lease' = [lease EXCEPT ![c] = 0]

\* Redis compare-and-delete script, memory token test: own token only
ReleaseAtomic(c) ==
  /\ Atomic
  /\ place[c] = "release"
  /\ lock' = IF lock.owner = c THEN Free ELSE lock
  /\ Leave(c)
  /\ UNCHANGED <<provider, waitLeft, snap>>

\* Redis is not connected: releaseLock returns false, the lease stays
ReleaseLost(c) ==
  /\ provider = "redis"
  /\ place[c] = "release"
  /\ Leave(c)
  /\ UNCHANGED <<provider, lock, waitLeft, snap>>

\* Deno KV: kv.get, then give up unless the entry holds the own token
ReleaseRead(c) ==
  /\ provider = "denokv"
  /\ place[c] = "release"
  /\ \/ /\ lock.owner = c
        /\ snap' = [snap EXCEPT ![c] = "current"]
        /\ place' = [place EXCEPT ![c] = "unlock"]
        /\ UNCHANGED lease
     \/ /\ lock.owner # c
        /\ Leave(c)
        /\ UNCHANGED snap
  /\ UNCHANGED <<provider, lock, waitLeft>>

\* Faulty variant: kv.delete instead of a checked commit
ReleaseBlind(c) ==
  /\ place[c] = "unlock"
  /\ lock' = Free
  /\ snap' = [d \in Callers |-> IF d = c THEN "none" ELSE Outdated(snap[d])]
  /\ Leave(c)
  /\ UNCHANGED <<provider, waitLeft>>

\* Deno KV: atomic().check(entry).delete(key).commit()
ReleaseCommit(c) ==
  /\ place[c] = "unlock"
  /\ lock' = IF CheckHolds(c) THEN Free ELSE lock
  /\ snap' = [d \in Callers |-> IF d = c THEN "none"
                                ELSE IF CheckHolds(c) THEN Outdated(snap[d])
                                ELSE snap[d]]
  /\ Leave(c)
  /\ UNCHANGED <<provider, waitLeft>>

\* The instance dies inside fn or before the release arrives
CallerStops(c) ==
  /\ InBody(c)
  /\ Leave(c)
  /\ snap' = [snap EXCEPT ![c] = "none"]
  /\ UNCHANGED <<provider, lock, waitLeft>>

-----------------------------------------------------------------------------
\* Faulty variant: a countdown that runs below zero
LessUnbounded(n) == n - 1

Less(n) == IF n = 0 THEN 0 ELSE n - 1

\* Faulty variant: the record is stored without an expiry
TickNoExpiry ==
  /\ waitLeft' = [c \in Callers |-> Less(waitLeft[c])]
  /\ lease' = [c \in Callers |-> Less(lease[c])]
  /\ UNCHANGED <<provider, lock, place, snap>>

\* Time passes.  Redis and memory drop the record the moment it expires;
\* Deno KV deletes it at some later time (KvExpire)
Tick ==
  /\ lock' = IF Atomic /\ lock.left <= 1 THEN Free
             ELSE [lock EXCEPT !.left = Less(@)]
  /\ waitLeft' = [c \in Callers |-> Less(waitLeft[c])]
  /\ lease' = [c \in Callers |-> Less(lease[c])]
  /\ UNCHANGED <<provider, place, snap>>

\* expireIn is a lower bound: the entry goes away once it has passed
KvExpire ==
  /\ provider = "denokv"
  /\ Held /\ lock.left = 0
  /\ lock' = Free
  /\ snap' = [d \in Callers |-> Outdated(snap[d])]
  /\ UNCHANGED <<provider, place, waitLeft, lease>>

LockStep(c) ==
  \/ Call(c) \/ AcquireAtomic(c) \/ AcquireRefused(c)
  \/ AcquireRead(c) \/ AcquireCommit(c) \/ Wake(c) \/ GiveUp(c)
  \/ FnReturns(c) \/ ReleaseAtomic(c) \/ ReleaseLost(c)
  \/ ReleaseRead(c) \/ ReleaseCommit(c) \/ CallerStops(c)

LockNext == Tick \/ KvExpire \/ (\E c \in Callers : LockStep(c))

LockSpec == LockInit /\ [][LockNext]_lockVars

\* The event loop runs what is ready, time passes, the store expires keys.
\* Nothing makes fn return, a call start or an instance crash
Progress(c) ==
  \/ AcquireAtomic(c) \/ AcquireRefused(c) \/ AcquireRead(c)
  \/ AcquireCommit(c) \/ Wake(c) \/ GiveUp(c)

LockFairness ==
  /\ WF_lockVars(Tick) /\ WF_lockVars(KvExpire)
  /\ \A c \in Callers : WF_lockVars(Progress(c))

FairLockSpec == LockSpec /\ LockFairness

-----------------------------------------------------------------------------
\* acquireLock is mutual exclusion for the length of the lease: two calls are
\* inside fn together only if one of them has outlived its ttlMs.
LeaseExclusion ==
  \A c, d \in Callers :
    InBody(c) /\ InBody(d) /\ lease[c] > 0 /\ lease[d] > 0 => c = d

\* Redis and the memory map, which test and set in one step, keep to it.
AtomicExclusion == Atomic => LeaseExclusion

\* The inductive form: over an atomic store an unexpired lease is the stored
\* record, to the tick.
LeaseStored ==
  Atomic => \A c \in Callers :
    lease[c] > 0 => InBody(c) /\ lock.owner = c /\ lock.left = lease[c]

\* The finally block of a call whose lease ran out, and the crash of a call,
\* leave the lock of the next holder alone: an unexpired record in an atomic
\* store loses its owner only in that owner's own release.
ReleasedByOwner ==
  [][Atomic /\ Held /\ lock.left > 1 /\ lock'.owner # lock.owner
       => place[lock.owner] \in {"release", "unlock"} /\ place'[lock.owner] = "idle"]_lockVars

\* The same guarantee for every store, also where the grant itself is not
\* exclusive (Deno KV): the call that ends never deletes an entry holding
\* another call's token, even one written between its kv.get and its commit.
NoForeignRelease ==
  [][\A c \in Callers :
       place[c] \in {"release", "unlock"} /\ place'[c] = "idle" /\ lock' # lock
         => lock.owner = c]_lockVars

\* withLock either gets the lock or throws once waitTimeoutMs is spent: no
\* call polls for ever, whatever the store and the holders do.
PollingEnds == \A c \in Callers : (place[c] = "poll") ~> (place[c] \in {"body", "idle"})

\* A holder that crashed or hangs in fn does not keep the lock of an atomic
\* store: the record of any grant is dropped or replaced.
LockComesFree ==
  \A c \in Callers : (Atomic /\ lock.owner = c) ~> (lock.owner # c)
=============================================================================
