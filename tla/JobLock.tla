------------------------------- MODULE JobLock -------------------------------
(***************************************************************************)
(* The lock a scheduled job takes for itself (jobs/services/               *)
(* job-lock.service.ts): one row per job in the global database, read and  *)
(* then upserted without a condition, owned by an instance and not by a    *)
(* run, a lease that a run may refresh on a timer.  A run is one call of   *)
(* the job's function, shaped like the backup jobs (jobs/*-backup.job.ts): *)
(* acquire, work while a timer refreshes the lock and aborts the work when *)
(* the lock is another's, release in a finally block.                      *)
(*                                                                         *)
(* What calls the job function, and when, is left to the module that       *)
(* extends this one (Jobs).                                                *)
(***************************************************************************)
EXTENDS Integers

CONSTANTS Instances,    \* processes that host a job runner
          Copies,       \* calls of the job function one instance may have unfinished
          NoOwner,      \* owner of the row that is not there
          Lease,        \* LOCK_EXPIRATION_SECONDS, in ticks
          Interval,     \* lockRefreshIntervalMs, in ticks
          Latency,      \* the ticks acquireJobLock's two statements may be apart
          MaxTime,      \* bound: the clock stops here
          MaxFaults     \* bound: statements that throw and crashes, together

ASSUME JobLockAssumption ==
  /\ NoOwner \notin Instances
  /\ Lease \in Nat /\ Interval \in Nat \ {0} /\ Latency \in Nat
  /\ Interval + Latency <= Lease
  /\ MaxTime \in Nat \ {0} /\ MaxFaults \in Nat

VARIABLES clock,
          lock,         \* the job's row of jobLocks
          run,          \* the calls of the job function
          acquired,     \* history: when a run last acquired the lock
          tainted,      \* history: the row has changed hands under a run
          faults

lockVars == <<clock, lock, run, acquired, tainted, faults>>

Runs == Instances \X Copies
Host(r) == r[1]

NoRow == [owner |-> NoOwner, expiresAt |-> 0]
Idle == [pc |-> "idle", now |-> 0, beat |-> 0, refreshing |-> FALSE,
         aborted |-> FALSE]
Returned == [Idle EXCEPT !.pc = "returned"]
Called == [Idle EXCEPT !.pc = "reading", !.now = clock]
Claiming(r) == [run[r] EXCEPT !.pc = "acquiring"]
Acquired == [Idle EXCEPT !.pc = "working", !.beat = clock + Interval]

\* What outlives the work: a refresh under way
Past(r, l) == [Idle EXCEPT !.pc = l, !.now = run[r].now, !.refreshing = run[r].refreshing]

Working(r) == run[r].pc = "working"
AtWork(r) == Working(r) /\ ~run[r].aborted
Unfinished(r) == run[r].pc # "idle"

Times == 0..MaxTime
BeatTimes == 0..(MaxTime + Interval)
Rows == {NoRow} \cup [owner : Instances, expiresAt : 0..(MaxTime + Lease)]

Calls == [pc : {"idle", "reading", "acquiring", "working", "releasing", "returned"},
          now : Times, beat : BeatTimes,
          refreshing : BOOLEAN, aborted : BOOLEAN]

LockTypeOK ==
  /\ clock \in Times
  /\ lock \in Rows
  /\ run \in [Runs -> Calls]
  /\ acquired \in Times
  /\ tainted \in BOOLEAN
  /\ faults \in 0..MaxFaults

LockInit ==
  /\ clock = 1
  /\ lock = NoRow
  /\ run = [r \in Runs |-> Idle]
  /\ acquired = 0
  /\ tainted = FALSE
  /\ faults = 0

Fault == faults < MaxFaults /\ faults' = faults + 1

-----------------------------------------------------------------------------
\* The job function is called: acquireJobLock takes the time before it reads
Begin(r) ==
  /\ run[r].pc = "idle"
  /\ run' = [run EXCEPT ![r] = Called]
  /\ UNCHANGED <<clock, lock, acquired, tainted, faults>>

HeldByOther(r) ==
  /\ lock.owner \notin {NoOwner, Host(r)}
  /\ ~(lock.expiresAt < run[r].now)

AcquireRead(r) ==
  /\ run[r].pc = "reading"
  /\ run' = [run EXCEPT ![r] = IF HeldByOther(r) THEN Returned ELSE Claiming(r)]
  /\ UNCHANGED <<clock, lock, acquired, tainted, faults>>

\* The upsert, whatever has become of the row since it was read.
\* tainted: by now another holds it, or an unfinished run of this instance does
AcquireUpsert(r) ==
  /\ run[r].pc = "acquiring"
  /\ lock' = [owner |-> Host(r), expiresAt |-> run[r].now + Lease]
  /\ run' = [run EXCEPT ![r] = Acquired]
  /\ acquired' = clock
  /\ tainted' = (\/ tainted
                 \/ HeldByOther(r)
                 \/ \E s \in Runs \ {r} : Host(s) = Host(r) /\ Unfinished(s))
  /\ UNCHANGED <<clock, faults>>

\* A statement of acquireJobLock throws: reported as "not acquired"
AcquireFails(r) ==
  /\ Fault
  /\ run[r].pc \in {"reading", "acquiring"}
  /\ run' = [run EXCEPT ![r] = Returned]
  /\ UNCHANGED <<clock, lock, acquired, tainted>>

-----------------------------------------------------------------------------
TimerDue(r) == Working(r) /\ run[r].beat = clock

Refreshing(r) == [run[r] EXCEPT !.beat = clock + Interval, !.now = clock, !.refreshing = TRUE]
Aborting(r) == [run[r] EXCEPT !.beat = clock + Interval, !.aborted = TRUE]
Refreshed(r) == [run[r] EXCEPT !.now = 0, !.refreshing = FALSE]
Refused(r) == [Refreshed(r) EXCEPT !.aborted = Working(r)]

\* Faulty variant: a refresh is content with any row
RefreshReadAnyOwner(r) ==
  /\ TimerDue(r)
  /\ run' = [run EXCEPT ![r] = IF lock # NoRow THEN Refreshing(r) ELSE Aborting(r)]
  /\ UNCHANGED <<clock, lock, acquired, tainted, faults>>

\* The refresh timer fires: refreshJobLock reads the row, and a row that is
\* not this instance's aborts the run
RefreshRead(r) ==
  /\ TimerDue(r)
  /\ run' = [run EXCEPT ![r] = IF lock.owner = Host(r) THEN Refreshing(r) ELSE Aborting(r)]
  /\ UNCHANGED <<clock, lock, acquired, tainted, faults>>

\* A statement of refreshJobLock throws: the run is aborted all the same
RefreshFails(r) ==
  /\ Fault
  /\ \/ /\ TimerDue(r)
        /\ run' = [run EXCEPT ![r] = Aborting(r)]
     \/ /\ run[r].refreshing
        /\ run' = [run EXCEPT ![r] = Refused(r)]
  /\ UNCHANGED <<clock, lock, acquired, tainted>>

\* Faulty variant: the refresh does not prolong the lease
RefreshWriteNothing(r) ==
  /\ run[r].refreshing
  /\ run' = [run EXCEPT ![r] = Refreshed(r)]
  /\ UNCHANGED <<clock, lock, acquired, tainted, faults>>

\* Faulty variant: the update is an upsert that keeps the other columns
RefreshWriteBlind(r) ==
  /\ run[r].refreshing
  /\ lock' = [lock EXCEPT !.expiresAt = run[r].now + Lease]
  /\ run' = [run EXCEPT ![r] = Refreshed(r)]
  /\ UNCHANGED <<clock, acquired, tainted, faults>>

\* ... and otherwise prolongs the lease of whoever has the row by now
RefreshWrite(r) ==
  /\ run[r].refreshing
  /\ lock' = IF lock = NoRow THEN NoRow ELSE [lock EXCEPT !.expiresAt = run[r].now + Lease]
  /\ run' = [run EXCEPT ![r] = Refreshed(r)]
  /\ UNCHANGED <<clock, acquired, tainted, faults>>

-----------------------------------------------------------------------------
\* The work is done, has thrown, or has met isAborted(): clearInterval
Finish(r) ==
  /\ Working(r)
  /\ run' = [run EXCEPT ![r] = Past(r, "releasing")]
  /\ UNCHANGED <<clock, lock, acquired, tainted, faults>>

\* releaseJobLock deletes the job's row, whoever owns it
Release(r) ==
  /\ run[r].pc = "releasing"
  /\ lock' = NoRow
  /\ run' = [run EXCEPT ![r] = Past(r, "returned")]
  /\ tainted' = (tainted \/ lock.owner \notin {NoOwner, Host(r)})
  /\ UNCHANGED <<clock, acquired, faults>>

\* ... and a delete that fails is ignored
ReleaseFails(r) ==
  /\ Fault
  /\ run[r].pc = "releasing"
  /\ run' = [run EXCEPT ![r] = Past(r, "returned")]
  /\ UNCHANGED <<clock, lock, acquired, tainted>>

RunStep(r) ==
  \/ AcquireRead(r) \/ AcquireUpsert(r) \/ AcquireFails(r)
  \/ RefreshRead(r) \/ RefreshFails(r) \/ RefreshWrite(r)
  \/ Finish(r) \/ Release(r) \/ ReleaseFails(r)

\* The function's promise is settled and nothing of the call is left
Forget(r) ==
  /\ run[r].pc = "returned" /\ ~run[r].refreshing
  /\ run' = [run EXCEPT ![r] = Idle]
  /\ UNCHANGED <<clock, lock, acquired, tainted, faults>>

\* An instance dies; the row it owns stays
Vanish(i) ==
  /\ Fault
  /\ run' = [r \in Runs |-> IF Host(r) = i THEN Idle ELSE run[r]]
  /\ UNCHANGED <<clock, lock, acquired, tainted>>

\* Time passes, but timers fire on time, a refresh is done within the tick
\* and the statements of an acquisition are at most Latency apart
Tick ==
  /\ clock < MaxTime
  /\ \A r \in Runs : /\ ~TimerDue(r)
                     /\ ~run[r].refreshing
                     /\ run[r].pc \in {"reading", "acquiring"} => clock < run[r].now + Latency
  /\ clock' = clock + 1
  /\ UNCHANGED <<lock, run, acquired, tainted, faults>>

\* All that can happen to the lock, whoever calls the job function and when
LockNext ==
  \/ Tick
  \/ \E r \in Runs : Begin(r) \/ RunStep(r) \/ Forget(r)
  \/ \E i \in Instances : Vanish(i)

-----------------------------------------------------------------------------
\* Only one instance at a time runs the job (jobs/README.md: the lock "guards
\* against double-execution").
OnlyOneInstance ==
  \A r, s \in Runs : AtWork(r) /\ AtWork(s) => Host(r) = Host(s)

\* Two instances are at work together only after the row changed hands under
\* a run: two acquisitions that both read before either wrote, a run that
\* re-enters the lock of an unfinished run of its own instance, or a release
\* that deleted another's row.  Nothing else lets a second instance in: not a
\* refresh racing a release, not a crash, not a lease that runs out. So it is for
\* the jobs that refresh their lock and abort, the two backup jobs. The others,
\* jobs/upload-session-cleanup.job.ts among them, take the lock once: a run of
\* theirs that outlasts the lease lets a second instance in.
OnlyOneUnlessTainted == tainted \/ OnlyOneInstance

\* When two instances are at work together, the refresh timers end it: once
\* nobody has acquired the lock for an interval, at most one is left. A job that
\* does not refresh its lock has no such timer, and its overlap lasts as long as
\* the two runs do.
OverlapBounded == OnlyOneInstance \/ clock <= acquired + Interval
=============================================================================
