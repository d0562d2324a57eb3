---------------------------- MODULE JobLockProofs ----------------------------
(***************************************************************************)
(* What JobLock promises for any instances, calls, lease and intervals,    *)
(* and that Jobs keeps it: every step of Jobs is a step of JobLock or      *)
(* leaves the lock alone.                                                  *)
(***************************************************************************)
EXTENDS Jobs, TLAPS

\* Timers: a run at work has its next refresh ahead, at most an interval away
Beats == \A r \in Runs :
  Working(r) => clock <= run[r].beat /\ run[r].beat <= clock + Interval

\* The time an acquisition or a refresh will write is recent
Fresh == \A r \in Runs :
  /\ run[r].pc \in {"reading", "acquiring"} => /\ run[r].now <= clock
                                               /\ clock <= run[r].now + Latency
  /\ run[r].refreshing => /\ run[r].now = clock
                          /\ run[r].pc \in {"working", "releasing", "returned"}

\* Where the row belongs to somebody, every run at work elsewhere stops at its
\* next refresh, which was due when that somebody acquired the row
LosersStop == \A r \in Runs :
  AtWork(r) /\ lock.owner \in Instances /\ lock.owner # Host(r)
    => run[r].beat <= acquired + Interval

\* ... and of two runs at work on different instances one is such a loser,
\* also after the row is gone
OneLoser == \A r, s \in Runs :
  AtWork(r) /\ AtWork(s) /\ Host(r) # Host(s)
    => run[r].beat <= acquired + Interval \/ run[s].beat <= acquired + Interval

OverlapInv == LockTypeOK /\ Beats /\ LosersStop /\ OneLoser

\* As long as the row has not changed hands under a run, a run at work owns a
\* row whose lease lasts beyond its next refresh
Covered == \A r \in Runs : AtWork(r) =>
  /\ lock.owner = Host(r)
  /\ clock <= lock.expiresAt
  /\ run[r].beat <= lock.expiresAt \/ run[r].refreshing

\* ... and shares its instance with no other run past its acquisition
Alone == \A r, s \in Runs :
  (/\ Host(r) = Host(s)
   /\ run[r].pc \in {"working", "releasing"}
   /\ run[s].pc \in {"working", "releasing"}) => r = s

LeaseInv == LockTypeOK /\ Beats /\ Fresh /\ (~tainted => Covered /\ Alone)

-----------------------------------------------------------------------------
LEMMA HostIsInstance == \A r \in Runs : Host(r) \in Instances
BY DEF Runs, Host

LEMMA NextLock == Next => LockNext \/ UNCHANGED lockVars
<1>1. LockStep => LockNext
  BY DEF LockStep, LockNext, TickDelivered
<1>1a. ASSUME NEW r \in Runs, Discard(r) PROVE LockNext
  BY <1>1a DEF Discard, LockNext
<1>2. ASSUME NEW i \in Instances, Dispatch(i) PROVE LockNext \/ UNCHANGED lockVars
  <2>1. Crash(i) => LockNext  BY DEF Crash, LockNext
  <2>2. Trigger(i) => LockNext \/ UNCHANGED lockVars
    BY DEF Trigger, Call, LockNext, lockVars
  <2>3. QED
    BY <1>2, <2>1, <2>2
    DEF Dispatch, Register, SetDispatch, Check, InlineFails, Conclude, TimesOut
<1>3. QED  BY <1>1, <1>1a, <1>2 DEF Next

-----------------------------------------------------------------------------
LEMMA IdleTyped == Idle \in Calls /\ Returned \in Calls /\ NoRow \in Rows
<1>1. 0 \in Times /\ 0 \in BeatTimes
  BY JobLockAssumption DEF Times, BeatTimes
<1>2. QED  BY <1>1 DEF Idle, Returned, Calls, NoRow, Rows

\* The records the steps give to a run
LEMMA RecordsTyped ==
  ASSUME LockTypeOK, NEW r \in Runs
  PROVE  /\ run[r] \in Calls
         /\ Called \in Calls
         /\ Claiming(r) \in Calls
         /\ Acquired \in Calls
         /\ Past(r, "releasing") \in Calls
         /\ Past(r, "returned") \in Calls
         /\ Refreshing(r) \in Calls
         /\ Aborting(r) \in Calls
         /\ Refreshed(r) \in Calls
         /\ Refused(r) \in Calls
<1>1. run[r] \in Calls
  BY DEF LockTypeOK
<1>2. clock \in Times /\ clock + Interval \in BeatTimes
  BY JobLockAssumption DEF LockTypeOK, Times, BeatTimes
<1>3. 0 \in Times /\ 0 \in BeatTimes
  BY JobLockAssumption DEF Times, BeatTimes
<1>4. /\ Called \in Calls
      /\ Acquired \in Calls
  BY <1>2, <1>3 DEF Calls, Idle, Called, Acquired
<1>5. Past(r, "releasing") \in Calls /\ Past(r, "returned") \in Calls
  BY <1>1, <1>3 DEF Calls, Idle, Past
<1>6. /\ Claiming(r) \in Calls
      /\ Refreshing(r) \in Calls /\ Aborting(r) \in Calls /\ Refreshed(r) \in Calls
  BY <1>1, <1>2, <1>3 DEF Calls, Claiming, Refreshing, Aborting, Refreshed
<1>7. Working(r) \in BOOLEAN
  BY DEF Working
<1>8. Refused(r) \in Calls
  BY <1>6, <1>7 DEF Calls, Refused
<1>9. QED  BY <1>1, <1>4, <1>5, <1>6, <1>8

LEMMA TypingInit == LockInit => LockTypeOK
<1> SUFFICES ASSUME LockInit PROVE LockTypeOK
  OBVIOUS
<1>1. run \in [Runs -> Calls]
  BY IdleTyped DEF LockInit
<1>2. clock \in Times /\ acquired \in Times /\ faults \in 0..MaxFaults
  BY JobLockAssumption DEF LockInit, Times
<1>3. QED
  BY <1>1, <1>2, IdleTyped DEF LockInit, LockTypeOK

LEMMA TypingNext == LockTypeOK /\ LockNext => LockTypeOK'
<1> SUFFICES ASSUME LockTypeOK, LockNext PROVE LockTypeOK'
  OBVIOUS
<1>a. ASSUME NEW r \in Runs, NEW c \in Calls, run' = [run EXCEPT ![r] = c]
      PROVE  run' \in [Runs -> Calls]
  BY <1>a DEF LockTypeOK
<1>b. ASSUME NEW r \in Runs PROVE run[r].now + Lease \in 0..(MaxTime + Lease)
  BY JobLockAssumption DEF LockTypeOK, Calls, Times
<1>c. Fault => faults' \in 0..MaxFaults
  BY JobLockAssumption DEF Fault, LockTypeOK
<1>1. CASE Tick
  BY <1>1, JobLockAssumption DEF Tick, LockTypeOK, Times
<1>2. ASSUME NEW r \in Runs, Begin(r) PROVE LockTypeOK'
  BY <1>2, <1>a, RecordsTyped DEF Begin, LockTypeOK
<1>3. ASSUME NEW r \in Runs, AcquireRead(r) PROVE LockTypeOK'
  <2>1. run' \in [Runs -> Calls]
    BY <1>3, <1>a, RecordsTyped, IdleTyped DEF AcquireRead
  <2>2. QED  BY <1>3, <2>1 DEF AcquireRead, LockTypeOK
<1>4. ASSUME NEW r \in Runs, AcquireUpsert(r) PROVE LockTypeOK'
  <2>1. lock' \in Rows
    BY <1>4, <1>b, HostIsInstance DEF AcquireUpsert, Rows
  <2>2. run' \in [Runs -> Calls]
    BY <1>4, <1>a, RecordsTyped DEF AcquireUpsert
  <2>3. tainted' \in BOOLEAN
    BY <1>4 DEF AcquireUpsert
  <2>4. QED  BY <1>4, <2>1, <2>2, <2>3 DEF AcquireUpsert, LockTypeOK
<1>5. ASSUME NEW r \in Runs, AcquireFails(r) PROVE LockTypeOK'
  BY <1>5, <1>a, <1>c, IdleTyped DEF AcquireFails, LockTypeOK
<1>6. ASSUME NEW r \in Runs, RefreshRead(r) PROVE LockTypeOK'
  <2>1. run' \in [Runs -> Calls]
    BY <1>6, <1>a, RecordsTyped DEF RefreshRead
  <2>2. QED  BY <1>6, <2>1 DEF RefreshRead, LockTypeOK
<1>7. ASSUME NEW r \in Runs, RefreshFails(r) PROVE LockTypeOK'
  <2>1. run' \in [Runs -> Calls]
    BY <1>7, <1>a, RecordsTyped DEF RefreshFails
  <2>2. QED  BY <1>7, <2>1, <1>c DEF RefreshFails, LockTypeOK
<1>8. ASSUME NEW r \in Runs, RefreshWrite(r) PROVE LockTypeOK'
  <2>1. lock' \in Rows
    <3>1. CASE lock = NoRow
      BY <1>8, <3>1, IdleTyped DEF RefreshWrite
    <3>2. CASE lock # NoRow
      BY <1>8, <3>2, <1>b DEF RefreshWrite, LockTypeOK, Rows
    <3>3. QED  BY <3>1, <3>2
  <2>2. run' \in [Runs -> Calls]
    BY <1>8, <1>a, RecordsTyped DEF RefreshWrite
  <2>3. QED  BY <1>8, <2>1, <2>2 DEF RefreshWrite, LockTypeOK
<1>9. ASSUME NEW r \in Runs, Finish(r) \/ ReleaseFails(r) PROVE LockTypeOK'
  BY <1>9, <1>a, <1>c, RecordsTyped DEF Finish, ReleaseFails, LockTypeOK
<1>10. ASSUME NEW r \in Runs, Release(r) PROVE LockTypeOK'
  BY <1>10, <1>a, RecordsTyped, IdleTyped DEF Release, LockTypeOK
<1>11. ASSUME NEW r \in Runs, Forget(r) PROVE LockTypeOK'
  BY <1>11, <1>a, IdleTyped DEF Forget, LockTypeOK
<1>12. ASSUME NEW i \in Instances, Vanish(i) PROVE LockTypeOK'
  <2>1. run' \in [Runs -> Calls]
    BY <1>12, IdleTyped DEF Vanish, LockTypeOK
  <2>2. QED  BY <1>12, <2>1, <1>c DEF Vanish, LockTypeOK
<1>13. QED
  BY <1>1, <1>2, <1>3, <1>4, <1>5, <1>6, <1>7, <1>8, <1>9, <1>10, <1>11, <1>12
  DEF LockNext, RunStep

-----------------------------------------------------------------------------
\* The records the steps give to a run, field by field
LEMMA Fields ==
  ASSUME LockTypeOK, NEW r \in Runs
  PROVE  /\ Idle.pc = "idle" /\ Returned.pc = "returned"
         /\ Past(r, "releasing").pc = "releasing" /\ Past(r, "returned").pc = "returned"
         /\ Past(r, "releasing").now = run[r].now /\ Past(r, "returned").now = run[r].now
         /\ Refreshing(r).pc = run[r].pc /\ Refreshing(r).now = clock
         /\ Refreshing(r).beat = clock + Interval
         /\ Aborting(r).pc = run[r].pc /\ Aborting(r).now = run[r].now
         /\ Aborting(r).beat = clock + Interval
         /\ Refreshed(r).pc = run[r].pc /\ Refreshed(r).beat = run[r].beat
         /\ Refused(r).pc = run[r].pc /\ Refused(r).beat = run[r].beat
         /\ Called.pc = "reading" /\ Called.now = clock
         /\ Claiming(r).pc = "acquiring" /\ Claiming(r).now = run[r].now
         /\ Acquired.pc = "working" /\ Acquired.beat = clock + Interval
<1>1. run[r] \in Calls
  BY DEF LockTypeOK
<1>2. QED
  BY <1>1 DEF Calls, Idle, Returned, Past, Called, Claiming, Acquired, Refreshing, Aborting,
              Refreshed, Refused

LEMMA Flags ==
  ASSUME LockTypeOK, NEW r \in Runs
  PROVE  /\ Idle.refreshing = FALSE /\ Returned.refreshing = FALSE
         /\ Past(r, "releasing").refreshing = run[r].refreshing
         /\ Past(r, "returned").refreshing = run[r].refreshing
         /\ Refreshing(r).aborted = run[r].aborted
         /\ Aborting(r).aborted = TRUE /\ Aborting(r).refreshing = run[r].refreshing
         /\ Refreshed(r).aborted = run[r].aborted /\ Refreshed(r).refreshing = FALSE
         /\ Refused(r).refreshing = FALSE /\ (Working(r) => Refused(r).aborted = TRUE)
         /\ Called.refreshing = FALSE
         /\ Claiming(r).refreshing = run[r].refreshing
         /\ Acquired.refreshing = FALSE /\ Acquired.aborted = FALSE
<1>1. run[r] \in Calls
  BY DEF LockTypeOK
<1>2. QED
  BY <1>1 DEF Calls, Idle, Returned, Past, Called, Claiming, Acquired, Refreshing, Aborting,
              Refreshed, Refused

LEMMA Elsewhere ==
  ASSUME LockTypeOK, NEW r \in Runs, NEW c, run' = [run EXCEPT ![r] = c]
  PROVE  run'[r] = c /\ \A s \in Runs \ {r} : run'[s] = run[s]
BY DEF LockTypeOK

\* A step of a run leaves the clock and the other runs alone
LEMMA OnlyItsRun ==
  ASSUME LockTypeOK, NEW r \in Runs, Begin(r) \/ RunStep(r) \/ Forget(r)
  PROVE  clock' = clock /\ \A s \in Runs \ {r} : run'[s] = run[s]
BY Elsewhere
DEF Begin, RunStep, Forget, AcquireRead, AcquireUpsert, AcquireFails, RefreshRead,
    RefreshFails, RefreshWrite, Finish, Release, ReleaseFails

\* What each step makes of its run, as a record
LEMMA Outcomes ==
  ASSUME LockTypeOK, NEW r \in Runs
  PROVE  /\ Begin(r) => run'[r] = Called
         /\ AcquireRead(r) => run'[r] \in {Returned, Claiming(r)}
         /\ AcquireUpsert(r) => run'[r] = Acquired
         /\ AcquireFails(r) => run'[r] = Returned
         /\ RefreshRead(r) =>
              run'[r] = IF lock.owner = Host(r) THEN Refreshing(r) ELSE Aborting(r)
         /\ RefreshFails(r) => \/ Working(r) /\ run'[r] = Aborting(r)
                               \/ run'[r] = Refused(r)
         /\ RefreshWrite(r) => run'[r] = Refreshed(r)
         /\ Finish(r) => run'[r] = Past(r, "releasing")
         /\ Release(r) \/ ReleaseFails(r) => run'[r] = Past(r, "returned")
         /\ Forget(r) => run'[r] = Idle
<1>1. /\ Begin(r) => run'[r] = Called
      /\ AcquireRead(r) => run'[r] \in {Returned, Claiming(r)}
      /\ AcquireUpsert(r) => run'[r] = Acquired
      /\ AcquireFails(r) => run'[r] = Returned
  BY Elsewhere DEF Begin, AcquireRead, AcquireUpsert, AcquireFails
<1>2. RefreshRead(r) =>
        run'[r] = IF lock.owner = Host(r) THEN Refreshing(r) ELSE Aborting(r)
  BY Elsewhere DEF RefreshRead
<1>3. RefreshFails(r) => \/ Working(r) /\ run'[r] = Aborting(r)
                         \/ run'[r] = Refused(r)
  BY Elsewhere DEF RefreshFails, TimerDue
<1>4. RefreshWrite(r) => run'[r] = Refreshed(r)
  BY Elsewhere DEF RefreshWrite
<1>5. /\ Finish(r) => run'[r] = Past(r, "releasing")
      /\ Release(r) \/ ReleaseFails(r) => run'[r] = Past(r, "returned")
      /\ Forget(r) => run'[r] = Idle
  BY Elsewhere DEF Finish, Release, ReleaseFails, Forget
<1>6. QED  BY <1>1, <1>2, <1>3, <1>4, <1>5

\* A run at work has kept its next refresh or has just set it, and was at work
\* before unless it has acquired the lock
LEMMA WorkingAfter ==
  ASSUME LockTypeOK, LockNext, NEW s \in Runs, Working(s)'
  PROVE  /\ clock' \in Nat
         /\ \/ /\ Working(s)
               /\ run'[s].beat = run[s].beat /\ (clock' = clock \/ Tick)
            \/ /\ run'[s].beat = clock + Interval /\ clock' = clock
               /\ Working(s) \/ AcquireUpsert(s)
<1> USE DEF Working
<1>0. clock \in Nat /\ clock' \in Nat
  BY TypingNext DEF LockTypeOK, Times
<1>1. CASE Tick
  BY <1>0, <1>1 DEF Tick
<1>2. ASSUME NEW r \in Runs, Begin(r) \/ AcquireRead(r) \/ AcquireFails(r)
                          \/ Finish(r) \/ Release(r) \/ ReleaseFails(r) \/ Forget(r)
      PROVE  s # r /\ run'[s] = run[s] /\ clock' = clock
  <2>1. clock' = clock /\ (s # r => run'[s] = run[s])
    BY <1>2, OnlyItsRun DEF RunStep
  <2>2. run'[r].pc # "working"
    BY <1>2, Outcomes, Fields
  <2>3. QED  BY <2>1, <2>2
<1>3. ASSUME NEW r \in Runs, AcquireUpsert(r)
      PROVE  clock' = clock /\ IF s = r THEN run'[s].beat = clock + Interval
                               ELSE run'[s] = run[s]
  <2>1. clock' = clock /\ (s # r => run'[s] = run[s])
    BY <1>3, OnlyItsRun DEF RunStep
  <2>2. run'[r].beat = clock + Interval
    BY <1>3, Outcomes, Fields
  <2>3. QED  BY <2>1, <2>2
<1>4. ASSUME NEW r \in Runs, RefreshRead(r) \/ RefreshFails(r) \/ RefreshWrite(r)
      PROVE  clock' = clock /\ run'[s].pc = run[s].pc
             /\ (run'[s].beat = run[s].beat \/ run'[s].beat = clock + Interval)
  <2>1. clock' = clock /\ (s # r => run'[s] = run[s])
    BY <1>4, OnlyItsRun DEF RunStep
  <2>2. run'[r] \in {Refreshing(r), Aborting(r), Refused(r), Refreshed(r)}
    BY <1>4, Outcomes
  <2>3. run'[r].pc = run[r].pc
        /\ (run'[r].beat = run[r].beat \/ run'[r].beat = clock + Interval)
    BY <2>2, Fields
  <2>4. QED  BY <2>1, <2>3
<1>5. ASSUME NEW i \in Instances, Vanish(i)
      PROVE  run'[s] = run[s] /\ clock' = clock
  BY <1>5, Fields DEF Vanish
<1>6. QED
  BY <1>0, <1>1, <1>2, <1>3, <1>4, <1>5 DEF LockNext, RunStep

LEMMA BeatsNext == LockTypeOK /\ Beats /\ LockNext => Beats'
<1> SUFFICES ASSUME LockTypeOK, Beats, LockNext, NEW s \in Runs, Working(s)'
             PROVE  clock' <= run'[s].beat /\ run'[s].beat <= clock' + Interval
  BY DEF Beats
<1>1. clock \in Nat /\ run[s].beat \in Nat /\ Interval \in Nat
  BY JobLockAssumption DEF LockTypeOK, Times, BeatTimes, Calls
<1>2. Working(s) => clock <= run[s].beat /\ run[s].beat <= clock + Interval
  BY DEF Beats
<1>3. Tick /\ Working(s) => clock # run[s].beat /\ clock' = clock + 1
  BY DEF Tick, TimerDue
<1>4. QED
  BY <1>1, <1>2, <1>3, WorkingAfter

LEMMA FreshNext == LockTypeOK /\ Fresh /\ LockNext => Fresh'
<1> SUFFICES ASSUME LockTypeOK, Fresh, LockNext, NEW s \in Runs
             PROVE  /\ run'[s].pc \in {"reading", "acquiring"} =>
                         /\ run'[s].now <= clock'
                         /\ clock' <= run'[s].now + Latency
                    /\ run'[s].refreshing =>
                         /\ run'[s].now = clock'
                         /\ run'[s].pc \in {"working", "releasing", "returned"}
  BY DEF Fresh
<1>1. clock \in Nat /\ run[s].now \in Nat /\ Latency \in Nat
  BY JobLockAssumption DEF LockTypeOK, Times, Calls
<1>2. /\ run[s].pc \in {"reading", "acquiring"} => /\ run[s].now <= clock
                                                  /\ clock <= run[s].now + Latency
      /\ run[s].refreshing => /\ run[s].now = clock
                              /\ run[s].pc \in {"working", "releasing", "returned"}
  BY DEF Fresh
<1>3. CASE Tick
  BY <1>1, <1>2, <1>3 DEF Tick
<1>4. ASSUME NEW r \in Runs, Begin(r) \/ RunStep(r) \/ Forget(r), s # r
      PROVE  run'[s] = run[s] /\ clock' = clock
  BY <1>4, OnlyItsRun
<1>5. CASE Begin(s) \/ RunStep(s) \/ Forget(s)
  <2>0. clock' = clock
    BY <1>5, OnlyItsRun
  <2>1. CASE Begin(s)
    <3>1. run'[s].pc = "reading" /\ run'[s].now = clock /\ run'[s].refreshing = FALSE
      BY <2>1, Outcomes, Fields, Flags
    <3>2. QED  BY <1>1, <2>0, <3>1
  <2>2. CASE AcquireRead(s)
    <3>1. run[s].pc = "reading"
      BY <2>2 DEF AcquireRead
    <3>2. CASE run'[s] = Returned
      BY <3>2, Fields, Flags
    <3>3. CASE run'[s] = Claiming(s)
      BY <1>1, <1>2, <2>0, <3>1, <3>3, Fields, Flags
    <3>4. QED  BY <2>2, <3>2, <3>3, Outcomes
  <2>3. CASE AcquireUpsert(s)
    BY <2>3, Outcomes, Fields, Flags
  <2>4. CASE AcquireFails(s)
    BY <2>4, Outcomes, Fields, Flags
  <2>5. CASE RefreshRead(s)
    <3>1. run[s].pc = "working"
      BY <2>5 DEF RefreshRead, TimerDue, Working
    <3>2. CASE run'[s] = Refreshing(s)
      BY <2>0, <3>1, <3>2, Fields
    <3>3. CASE run'[s] = Aborting(s)
      <4>1. /\ run'[s].pc = "working" /\ run'[s].now = run[s].now
            /\ run'[s].refreshing = run[s].refreshing
        BY <3>1, <3>3, Fields, Flags
      <4>2. QED  BY <1>2, <2>0, <4>1
    <3>4. QED  BY <2>5, <3>2, <3>3, Outcomes
  <2>6. CASE RefreshFails(s)
    <3>1. run[s].pc \in {"working", "releasing", "returned"}
      BY <1>2, <2>6 DEF RefreshFails, TimerDue, Working
    <3>2. CASE run'[s] = Aborting(s)
      <4>1. /\ run'[s].pc = run[s].pc /\ run'[s].now = run[s].now
            /\ run'[s].refreshing = run[s].refreshing
        BY <3>2, Fields, Flags
      <4>2. QED  BY <1>2, <2>0, <4>1
    <3>3. CASE run'[s] = Refused(s)
      BY <3>1, <3>3, Fields, Flags
    <3>4. QED  BY <2>6, <3>2, <3>3, Outcomes
  <2>7. CASE RefreshWrite(s)
    <3>1. run[s].pc \in {"working", "releasing", "returned"}
      BY <1>2, <2>7 DEF RefreshWrite
    <3>2. run'[s] = Refreshed(s)
      BY <2>7, Outcomes
    <3>3. run'[s].pc = run[s].pc /\ run'[s].refreshing = FALSE
      BY <3>2, Fields, Flags
    <3>4. QED  BY <3>1, <3>3
  <2>8. CASE Finish(s) \/ Release(s) \/ ReleaseFails(s)
    <3>1. run'[s] = Past(s, "releasing") \/ run'[s] = Past(s, "returned")
      BY <2>8, Outcomes
    <3>2. /\ run'[s].pc \in {"releasing", "returned"} /\ run'[s].now = run[s].now
          /\ run'[s].refreshing = run[s].refreshing
      BY <3>1, Fields, Flags
    <3>3. QED  BY <1>2, <2>0, <3>2
  <2>9. CASE Forget(s)
    BY <2>9, Outcomes, Fields, Flags
  <2>10. QED
    BY <1>5, <2>1, <2>2, <2>3, <2>4, <2>5, <2>6, <2>7, <2>8, <2>9 DEF RunStep
<1>8. ASSUME NEW i \in Instances, Vanish(i)
      PROVE  (run'[s] = run[s] \/ run'[s] = Idle) /\ clock' = clock
  BY <1>8 DEF Vanish
<1>9. QED
  BY <1>2, <1>3, <1>4, <1>5, <1>8, Fields, Flags DEF LockNext

-----------------------------------------------------------------------------
\* Only an acquisition or a run that was at work before is at work after a step
LEMMA AtWorkAfter ==
  ASSUME LockTypeOK, LockNext, NEW s \in Runs, AtWork(s)'
  PROVE  AtWork(s) \/ AcquireUpsert(s)
<1>1. Working(s)' /\ ~run'[s].aborted
  BY DEF AtWork
<1>2. Working(s) \/ AcquireUpsert(s)
  BY <1>1, WorkingAfter
<1>3. CASE Tick
  BY <1>3 DEF Tick, AtWork, Working
<1>4. ASSUME NEW r \in Runs, Begin(r) \/ RunStep(r) \/ Forget(r), s # r
      PROVE  AtWork(s)
  <2>1. run'[s] = run[s]
    BY <1>4, OnlyItsRun
  <2>2. QED  BY <1>1, <2>1 DEF AtWork, Working
<1>5. ASSUME Begin(s) \/ RunStep(s) \/ Forget(s), Working(s)
      PROVE  AtWork(s)
  <2>1. CASE RefreshRead(s)
    <3>1. CASE run'[s] = Refreshing(s)
      BY <1>1, <1>5, <3>1, Flags DEF AtWork
    <3>2. CASE run'[s] = Aborting(s)
      BY <1>1, <3>2, Flags
    <3>3. QED  BY <2>1, <3>1, <3>2, Outcomes
  <2>2. CASE RefreshFails(s)
    BY <1>1, <1>5, <2>2, Outcomes, Flags
  <2>3. CASE RefreshWrite(s)
    BY <1>1, <1>5, <2>3, Outcomes, Flags DEF AtWork
  <2>4. CASE Finish(s) \/ Release(s) \/ ReleaseFails(s) \/ Begin(s) \/ Forget(s)
             \/ AcquireRead(s) \/ AcquireFails(s)
    <3>1. run'[s].pc # "working"
      BY <2>4, Outcomes, Fields
    <3>2. QED  BY <1>1, <3>1 DEF Working
  <2>5. CASE AcquireUpsert(s)
    BY <1>5, <2>5 DEF AcquireUpsert, Working
  <2>6. QED  BY <1>5, <2>1, <2>2, <2>3, <2>4, <2>5 DEF RunStep
<1>6. ASSUME NEW i \in Instances, Vanish(i)
      PROVE  AtWork(s)
  <2>1. run'[s] = run[s] \/ run'[s] = Idle
    BY <1>6 DEF Vanish
  <2>2. QED  BY <1>1, <2>1, Fields DEF AtWork, Working
<1>7. QED
  BY <1>2, <1>3, <1>4, <1>5, <1>6 DEF LockNext

LEMMA Refreshes == \A r \in Runs : LockTypeOK => Refreshing(r).refreshing
BY DEF Refreshing, LockTypeOK, Calls

\* A run still at work has postponed its next refresh only if the row is its
\* instance's
LEMMA BeatAfter ==
  ASSUME LockTypeOK, LockNext, NEW s \in Runs, AtWork(s)', ~AcquireUpsert(s)
  PROVE  \/ run'[s].beat = run[s].beat /\ (run'[s] = run[s] \/ RefreshWrite(s))
         \/ lock.owner = Host(s) /\ run'[s].refreshing /\ run'[s].beat = clock + Interval
<1>1. Working(s) /\ ~run'[s].aborted
  BY AtWorkAfter DEF AtWork
<1>2. CASE Tick
  BY <1>2 DEF Tick
<1>3. ASSUME NEW r \in Runs, Begin(r) \/ RunStep(r) \/ Forget(r), s # r
      PROVE  run'[s] = run[s]
  BY <1>3, OnlyItsRun
<1>4. CASE RefreshRead(s)
  <2>1. CASE run'[s] = Refreshing(s) /\ lock.owner = Host(s)
    <3>1. run'[s].refreshing
      BY <2>1, Refreshes
    <3>2. QED  BY <2>1, <3>1, Fields
  <2>2. CASE run'[s] = Aborting(s)
    BY <1>1, <2>2, Flags
  <2>3. QED  BY <1>4, <2>1, <2>2, Outcomes
<1>5. CASE RefreshFails(s)
  BY <1>1, <1>5, Outcomes, Flags
<1>6. CASE RefreshWrite(s)
  BY <1>6, Outcomes, Fields
<1>7. CASE Finish(s) \/ Release(s) \/ ReleaseFails(s) \/ Begin(s) \/ Forget(s)
           \/ AcquireRead(s) \/ AcquireFails(s)
  <2>1. run'[s].pc # "working"
    BY <1>7, Outcomes, Fields
  <2>2. QED  BY <2>1 DEF AtWork, Working
<1>8. ASSUME NEW i \in Instances, Vanish(i)
      PROVE  run'[s] = run[s]
  <2>1. run'[s] = run[s] \/ run'[s] = Idle
    BY <1>8 DEF Vanish
  <2>2. QED  BY <2>1, Fields DEF AtWork, Working
<1>9. QED
  BY <1>2, <1>3, <1>4, <1>5, <1>6, <1>7, <1>8 DEF LockNext, RunStep

\* But for an acquisition, a step gives the row to nobody
LEMMA OwnerAfter ==
  ASSUME LockTypeOK, LockNext, \A r \in Runs : ~AcquireUpsert(r)
  PROVE  acquired' = acquired /\ lock'.owner \in {lock.owner, NoOwner}
<1>1. \A r \in Runs : RefreshWrite(r) => lock'.owner = lock.owner
  BY DEF RefreshWrite, LockTypeOK, Rows, NoRow
<1>2. \A r \in Runs : RunStep(r) => acquired' = acquired /\ lock'.owner \in {lock.owner, NoOwner}
  BY <1>1 DEF RunStep, AcquireRead, AcquireFails, RefreshRead, RefreshFails, RefreshWrite,
              Finish, Release, ReleaseFails, NoRow
<1>3. QED  BY <1>2 DEF LockNext, Tick, Begin, Forget, Vanish

LEMMA OverlapInit == LockInit => OverlapInv
BY TypingInit, Fields
DEF LockInit, OverlapInv, Beats, LosersStop, OneLoser, AtWork, Working

LEMMA OverlapNext == OverlapInv /\ LockNext => OverlapInv'
<1> SUFFICES ASSUME OverlapInv, LockNext PROVE OverlapInv'
  OBVIOUS
<1>1. LockTypeOK /\ Beats /\ LosersStop /\ OneLoser /\ LockTypeOK' /\ Beats'
  BY TypingNext, BeatsNext DEF OverlapInv
<1>2. CASE \E r \in Runs : AcquireUpsert(r)
  <2>1. acquired' = clock /\ clock' = clock
    BY <1>2 DEF AcquireUpsert
  <2>2. \A s \in Runs : AtWork(s)' => run'[s].beat <= acquired' + Interval
    BY <1>1, <2>1 DEF Beats, AtWork
  <2>3. QED  BY <1>1, <2>2 DEF OverlapInv, LosersStop, OneLoser
<1>3. CASE \A r \in Runs : ~AcquireUpsert(r)
  <2>1. acquired' = acquired /\ (lock'.owner \in Instances => lock'.owner = lock.owner)
    BY <1>1, <1>3, OwnerAfter, JobLockAssumption
  <2>2. ASSUME NEW s \in Runs, AtWork(s)'
        PROVE  /\ AtWork(s)
               /\ run'[s].beat = run[s].beat \/ lock.owner = Host(s)
    BY <1>1, <1>3, <2>2, AtWorkAfter, BeatAfter
  <2>3. LosersStop'
    BY <1>1, <2>1, <2>2 DEF LosersStop
  <2>4. ASSUME NEW s \in Runs, NEW q \in Runs, AtWork(s)', AtWork(q)', Host(s) # Host(q)
        PROVE  run'[s].beat <= acquired' + Interval \/ run'[q].beat <= acquired' + Interval
    <3>1. AtWork(s) /\ AtWork(q)
      BY <2>2, <2>4
    <3>2. CASE run'[s].beat = run[s].beat /\ run'[q].beat = run[q].beat
      BY <1>1, <2>1, <2>4, <3>1, <3>2 DEF OneLoser
    <3>3. CASE lock.owner = Host(s)
      <4>1. run'[q].beat = run[q].beat
        BY <2>2, <2>4, <3>3
      <4>2. run[q].beat <= acquired + Interval
        BY <1>1, <2>4, <3>1, <3>3, HostIsInstance DEF LosersStop
      <4>3. QED  BY <2>1, <4>1, <4>2
    <3>4. CASE lock.owner = Host(q)
      <4>1. run'[s].beat = run[s].beat
        BY <2>2, <2>4, <3>4
      <4>2. run[s].beat <= acquired + Interval
        BY <1>1, <2>4, <3>1, <3>4, HostIsInstance DEF LosersStop
      <4>3. QED  BY <2>1, <4>1, <4>2
    <3>5. QED  BY <2>2, <2>4, <3>2, <3>3, <3>4
  <2>5. OneLoser'
    BY <2>4 DEF OneLoser, Host
  <2>6. QED  BY <1>1, <2>3, <2>5 DEF OverlapInv
<1>4. QED  BY <1>2, <1>3

LEMMA OverlapSuffices == OverlapInv => OverlapBounded
<1> SUFFICES ASSUME OverlapInv, NEW r \in Runs, NEW s \in Runs,
                    AtWork(r), AtWork(s), Host(r) # Host(s)
             PROVE  clock <= acquired + Interval
  BY DEF OverlapBounded, OnlyOneInstance
<1>1. PICK q \in {r, s} : run[q].beat <= acquired + Interval
  BY DEF OverlapInv, OneLoser
<1>2. clock <= run[q].beat
  BY DEF OverlapInv, Beats, AtWork
<1>3. clock \in Int /\ run[q].beat \in Int /\ acquired + Interval \in Int
  BY JobLockAssumption DEF OverlapInv, LockTypeOK, Times, BeatTimes, Calls
<1>4. QED  BY <1>1, <1>2, <1>3

-----------------------------------------------------------------------------
LEMMA PastAcquisition ==
  ASSUME LockTypeOK, LockNext, NEW s \in Runs, ~AcquireUpsert(s),
         run'[s].pc \in {"working", "releasing"}
  PROVE  run[s].pc \in {"working", "releasing"}
<1>1. CASE Tick
  BY <1>1 DEF Tick
<1>2. ASSUME NEW r \in Runs, Begin(r) \/ RunStep(r) \/ Forget(r), s # r
      PROVE  run'[s] = run[s]
  BY <1>2, OnlyItsRun
<1>3. CASE RefreshRead(s) \/ RefreshFails(s) \/ RefreshWrite(s)
  <2>1. run'[s] \in {Refreshing(s), Aborting(s), Refused(s), Refreshed(s)}
    BY <1>3, Outcomes
  <2>2. QED  BY <2>1, Fields
<1>4. CASE Finish(s)
  BY <1>4 DEF Finish, Working
<1>5. CASE Release(s) \/ ReleaseFails(s) \/ Begin(s) \/ Forget(s)
           \/ AcquireRead(s) \/ AcquireFails(s)
  BY <1>5, Outcomes, Fields
<1>6. ASSUME NEW i \in Instances, Vanish(i)
      PROVE  run'[s] = run[s]
  BY <1>6, Fields DEF Vanish
<1>7. QED
  BY <1>1, <1>2, <1>3, <1>4, <1>5, <1>6 DEF LockNext, RunStep

LEMMA TaintStays == LockNext /\ tainted => tainted'
BY DEF LockNext, RunStep, Tick, Begin, AcquireRead, AcquireUpsert, AcquireFails, RefreshRead,
       RefreshFails, RefreshWrite, Finish, Release, ReleaseFails, Forget, Vanish

LEMMA LeaseInit == LockInit => LeaseInv
<1> SUFFICES ASSUME LockInit PROVE LeaseInv
  OBVIOUS
<1>1. LockTypeOK
  BY TypingInit
<1>2. \A r \in Runs : run[r].pc = "idle" /\ ~run[r].refreshing
  BY <1>1, Fields, Flags DEF LockInit
<1>3. QED
  BY <1>1, <1>2 DEF LeaseInv, Beats, Fresh, Covered, Alone, AtWork, Working

LEMMA LeaseNext == LeaseInv /\ LockNext => LeaseInv'
<1> SUFFICES ASSUME LeaseInv, LockNext PROVE LeaseInv'
  OBVIOUS
<1>1. /\ LockTypeOK /\ Beats /\ Fresh /\ (~tainted => Covered /\ Alone)
      /\ LockTypeOK' /\ Beats' /\ Fresh'
  BY TypingNext, BeatsNext, FreshNext DEF LeaseInv
<1> SUFFICES ASSUME ~tainted' PROVE Covered' /\ Alone'
  BY <1>1 DEF LeaseInv
<1>2. Covered /\ Alone
  BY <1>1, TaintStays
<1>3. /\ clock \in Nat /\ clock' \in Nat /\ Lease \in Nat /\ Interval \in Nat
      /\ Latency \in Nat /\ Interval + Latency <= Lease
  BY <1>1, JobLockAssumption DEF LockTypeOK, Times
<1>4. \A s \in Runs : /\ run[s].now \in Nat /\ run[s].beat \in Nat
                      /\ run'[s].now \in Nat /\ run'[s].beat \in Nat
  BY <1>1 DEF LockTypeOK, Calls, Times, BeatTimes
<1>5. lock.expiresAt \in Nat
  BY <1>1 DEF LockTypeOK, Rows, NoRow
<1>6. ASSUME NEW r \in Runs, AcquireUpsert(r) PROVE Covered' /\ Alone'
  <2>1. ~HeldByOther(r) /\ \A s \in Runs \ {r} : Host(s) = Host(r) => ~Unfinished(s)
    BY <1>6 DEF AcquireUpsert
  <2>2. run[r].pc = "acquiring" /\ clock' = clock
    BY <1>6 DEF AcquireUpsert
  <2>3. ASSUME NEW s \in Runs, AtWork(s) PROVE FALSE
    <3>1. lock.owner = Host(s) /\ clock <= lock.expiresAt
      BY <1>2, <2>3 DEF Covered
    <3>2. s # r /\ Unfinished(s)
      BY <2>2, <2>3 DEF AtWork, Working, Unfinished
    <3>3. Host(s) # Host(r)
      BY <2>1, <3>2
    <3>4. run[r].now <= clock
      BY <1>1, <2>2 DEF Fresh
    <3>5. ~(lock.expiresAt < run[r].now)
      BY <1>3, <1>4, <1>5, <3>1, <3>4
    <3>6. QED
      BY <2>1, <3>1, <3>3, <3>5, HostIsInstance, JobLockAssumption DEF HeldByOther
  <2>4. lock'.owner = Host(r) /\ lock'.expiresAt = run[r].now + Lease
    BY <1>6 DEF AcquireUpsert
  <2>5. run'[r].beat = clock + Interval
    BY <1>1, <1>6, Outcomes, Fields
  <2>6. clock <= run[r].now + Latency
    BY <1>1, <2>2 DEF Fresh
  <2>7. clock' <= lock'.expiresAt /\ run'[r].beat <= lock'.expiresAt
    BY <1>3, <1>4, <2>2, <2>4, <2>5, <2>6
  <2>8. \A s \in Runs \ {r} : run'[s] = run[s]
    BY <1>1, <1>6, OnlyItsRun DEF RunStep
  <2>9. \A s \in Runs : AtWork(s)' => s = r
    BY <2>3, <2>8 DEF AtWork, Working
  <2>10. Covered'
    BY <2>4, <2>7, <2>9 DEF Covered, Host
  <2>11. Alone'
    <3> SUFFICES ASSUME NEW p \in Runs, NEW q \in Runs, Host(p) = Host(q), p # q,
                        run'[p].pc \in {"working", "releasing"},
                        run'[q].pc \in {"working", "releasing"}
                 PROVE  FALSE
      BY DEF Alone, Host
    <3>1. CASE p = r
      BY <2>1, <2>8, <3>1 DEF Unfinished
    <3>2. CASE q = r
      BY <2>1, <2>8, <3>2 DEF Unfinished
    <3>3. CASE p # r /\ q # r
      BY <1>2, <2>8, <3>3 DEF Alone
    <3>4. QED  BY <3>1, <3>2, <3>3
  <2>12. QED  BY <2>10, <2>11
<1>7. CASE \A r \in Runs : ~AcquireUpsert(r)
  <2>1. Alone'
    <3>1. \A p \in Runs : run'[p].pc \in {"working", "releasing"}
                           => run[p].pc \in {"working", "releasing"}
      BY <1>1, <1>7, PastAcquisition
    <3>2. QED  BY <1>2, <3>1 DEF Alone, Host
  <2>2. ASSUME NEW s \in Runs, AtWork(s)'
        PROVE  /\ AtWork(s)
               /\ lock.owner = Host(s) /\ clock <= lock.expiresAt
               /\ run[s].beat <= lock.expiresAt \/ run[s].refreshing
    BY <1>1, <1>2, <1>7, <2>2, AtWorkAfter DEF Covered
  <2>3. CASE Tick
    <3>1. lock' = lock /\ run' = run /\ clock' = clock + 1
          /\ \A s \in Runs : ~TimerDue(s) /\ ~run[s].refreshing
      BY <2>3 DEF Tick
    <3>2. ASSUME NEW s \in Runs, AtWork(s)'
          PROVE  clock' <= lock.expiresAt /\ run[s].beat <= lock.expiresAt
      <4>1. clock <= run[s].beat /\ run[s].beat # clock
        BY <1>1, <2>2, <3>1, <3>2 DEF Beats, AtWork, TimerDue
      <4>2. run[s].beat <= lock.expiresAt
        BY <2>2, <3>1, <3>2
      <4>3. QED  BY <1>3, <1>4, <1>5, <3>1, <4>1, <4>2
    <3>3. QED  BY <2>1, <2>2, <3>1, <3>2 DEF Covered, Host
  <2>4. ASSUME NEW r \in Runs, Release(r) PROVE Covered'
    <3>1. lock.owner \in {NoOwner, Host(r)} /\ run[r].pc = "releasing"
      BY <2>4 DEF Release
    <3>2. ASSUME NEW s \in Runs, AtWork(s)' PROVE FALSE
      <4>1. AtWork(s) /\ Host(s) = Host(r)
        BY <2>2, <3>1, <3>2, HostIsInstance, JobLockAssumption
      <4>2. run[s].pc = "working"
        BY <4>1 DEF AtWork, Working
      <4>3. QED  BY <1>2, <3>1, <4>1, <4>2 DEF Alone
    <3>3. QED  BY <3>2 DEF Covered
  <2>5. ASSUME NEW r \in Runs, RefreshWrite(r) PROVE Covered'
    <3>1. clock' = clock /\ run[r].now = clock
      BY <1>1, <2>5 DEF RefreshWrite, Fresh
    <3>2. ASSUME NEW s \in Runs, AtWork(s)'
          PROVE  /\ lock'.owner = Host(s) /\ clock' <= lock'.expiresAt
                 /\ run'[s].beat <= lock'.expiresAt
      <4>1. lock # NoRow /\ lock.owner = Host(s)
        BY <2>2, <3>2, HostIsInstance, JobLockAssumption DEF NoRow
      <4>2. lock'.owner = Host(s) /\ lock'.expiresAt = clock + Lease
        BY <1>1, <2>5, <3>1, <4>1 DEF RefreshWrite, LockTypeOK, Rows
      <4>3. run'[s].beat <= clock + Interval
        BY <1>1, <3>1, <3>2 DEF Beats, AtWork
      <4>4. QED  BY <1>3, <1>4, <3>1, <4>2, <4>3
    <3>3. QED  BY <3>2 DEF Covered, Host
  <2>6. CASE /\ ~Tick
             /\ \A r \in Runs : ~Release(r) /\ ~RefreshWrite(r)
    <3>1. lock' = lock /\ clock' = clock
      BY <1>7, <2>6
      DEF LockNext, RunStep, Begin, AcquireRead, AcquireFails, RefreshRead, RefreshFails,
          Finish, ReleaseFails, Forget, Vanish
    <3>2. ASSUME NEW s \in Runs, AtWork(s)'
          PROVE  run'[s] = run[s] \/ run'[s].refreshing
      BY <1>1, <1>7, <2>6, <3>2, BeatAfter
    <3>3. ASSUME NEW s \in Runs, AtWork(s)'
          PROVE  /\ lock'.owner = Host(s) /\ clock' <= lock'.expiresAt
                 /\ run'[s].beat <= lock'.expiresAt \/ run'[s].refreshing
      <4>1. CASE run'[s] = run[s]
        BY <2>2, <3>1, <3>3, <4>1
      <4>2. CASE run'[s].refreshing
        BY <2>2, <3>1, <3>3, <4>2
      <4>3. QED  BY <3>2, <3>3, <4>1, <4>2
    <3>4. QED  BY <2>1, <3>3 DEF Covered, Host
  <2>7. QED  BY <2>1, <2>3, <2>4, <2>5, <2>6
<1>8. QED  BY <1>6, <1>7

LEMMA LeaseSuffices == LeaseInv => OnlyOneUnlessTainted
BY DEF LeaseInv, Covered, OnlyOneUnlessTainted, OnlyOneInstance

-----------------------------------------------------------------------------
\* A stutter on the lock keeps both invariants
LEMMA LockStutters == UNCHANGED lockVars => (OverlapInv => OverlapInv') /\ (LeaseInv => LeaseInv')
BY DEF lockVars, OverlapInv, LeaseInv, LockTypeOK, Beats, Fresh, LosersStop, OneLoser,
       Covered, Alone, AtWork, Working, Rows, Runs, Host

\* Whenever two instances are at work on the job together, at most one of them
\* is left an interval after the last acquisition: jobs/*-backup.job.ts abort
\* when refreshJobLock (jobs/services/job-lock.service.ts) finds the row another's.
THEOREM OverlapEnds == Spec => []OverlapBounded
<1>1. Init => OverlapInv
  BY OverlapInit DEF Init
<1>2. OverlapInv /\ [Next]_vars => OverlapInv'
  <2>1. Next => LockNext \/ UNCHANGED lockVars
    BY NextLock
  <2>2. UNCHANGED vars => UNCHANGED lockVars
    BY DEF vars
  <2>3. QED  BY <2>1, <2>2, OverlapNext, LockStutters
<1>3. QED
  BY <1>1, <1>2, OverlapSuffices, PTL DEF Spec

\* A second instance is at work on the job only after the row changed hands
\* under a run: the lease and its refreshes (jobs/services/job-lock.service.ts)
\* let nobody else in, whatever is lost or crashes.
THEOREM OneInstance == Spec => []OnlyOneUnlessTainted
<1>1. Init => LeaseInv
  BY LeaseInit DEF Init
<1>2. LeaseInv /\ [Next]_vars => LeaseInv'
  <2>1. Next => LockNext \/ UNCHANGED lockVars
    BY NextLock
  <2>2. UNCHANGED vars => UNCHANGED lockVars
    BY DEF vars
  <2>3. QED  BY <2>1, <2>2, LeaseNext, LockStutters
<1>3. QED
  BY <1>1, <1>2, LeaseSuffices, PTL DEF Spec

-----------------------------------------------------------------------------
(* The scheduler and the worker of Jobs *)

\* The scheduler has seen every start of the worker, and a trigger on its way
\* is one for this tick, sent at the first firing time since the last start
DispatchInv ==
  /\ TypeOK
  /\ record <= clock /\ 1 <= clock
  /\ \A i \in Instances :
       /\ started[i] <= lastRun[i] /\ lastRun[i] <= clock
       /\ inbox[i] \in {0, 1}
       /\ inbox[i] = 1 => /\ lastRun[i] = clock
                          /\ started[i] = 0 \/ started[i] < Firing(clock)
       /\ phase[i] = "down" => inbox[i] = 0 /\ started[i] = 0

LEMMA FiringBefore == \A t \in Times : /\ Firing(t) \in Int /\ Firing(t) <= t
                                       /\ t % Period = 0 => Firing(t) = t
BY JobsAssumption, SMT DEF Times, Firing

LEMMA NoRunIsNone == NoRun \notin Runs
BY JobLockAssumption DEF NoRun, Runs

LEMMA DispatchInit == Init => DispatchInv
<1> SUFFICES ASSUME Init PROVE DispatchInv
  OBVIOUS
<1>1. 0 \in Times /\ 0 \in 0..MaxTime
  BY JobLockAssumption DEF Times
<1>2. LockTypeOK /\ clock = 1
  BY TypingInit DEF Init, LockInit
<1>3. TypeOK
  BY <1>1, <1>2 DEF Init, TypeOK
<1>4. QED  BY <1>2, <1>3 DEF DispatchInv, Init

\* Only a tick moves the clock, and it waits for the triggers
LEMMA ClockMoves ==
  ASSUME LockTypeOK, LockNext PROVE clock' = clock \/ (clock' = clock + 1 /\ Tick)
BY DEF LockNext, Tick, Begin, RunStep, Forget, Vanish, AcquireRead, AcquireUpsert, AcquireFails,
       RefreshRead, RefreshFails, RefreshWrite, Finish, Release, ReleaseFails

LEMMA DispatchTyping == TypeOK /\ Next /\ (\A i \in Instances : inbox'[i] \in {0, 1}) => TypeOK'
<1> SUFFICES ASSUME TypeOK, Next, \A i \in Instances : inbox'[i] \in {0, 1}
             PROVE  TypeOK'
  OBVIOUS
<1>1. LockTypeOK'
  BY NextLock, TypingNext DEF TypeOK, LockTypeOK, lockVars, Rows, Runs
<1>2. 0 \in Times /\ clock \in Times /\ {0, 1} \subseteq 0..MaxTime
  BY JobLockAssumption DEF TypeOK, LockTypeOK, Times
<1>3. CASE UNCHANGED dispatchVars
  BY <1>1, <1>3 DEF TypeOK, dispatchVars, Host, Runs
<1>4. ASSUME NEW i \in Instances, Dispatch(i) PROVE TypeOK'
  <2>1. inbox' \in [Instances -> 0..MaxTime]
    <3>1. inbox' = [inbox EXCEPT ![i] = inbox'[i]]
      BY <1>4 DEF TypeOK, Dispatch, Register, SetDispatch, Crash, Check, InlineFails, Trigger,
         Conclude, TimesOut
    <3>2. QED  BY <1>2, <3>1 DEF TypeOK
  <2>2. phase' \in [Instances -> {"down", "registered", "ready"}]
    BY <1>4 DEF TypeOK, Dispatch, Register, SetDispatch, Crash, Check, InlineFails, Trigger,
       Conclude, TimesOut
  <2>3. lastRun' \in [Instances -> Times] /\ record' \in Times
    BY <1>2, <1>4 DEF TypeOK, Dispatch, Register, SetDispatch, Crash, Check, InlineFails, Trigger,
       Conclude, TimesOut
  <2>4. inline' \in [Instances -> BOOLEAN]
    BY <1>4 DEF TypeOK, Dispatch, Register, SetDispatch, Crash, Check, InlineFails, Trigger,
       Conclude, TimesOut
  <2>5. started' \in [Instances -> Times]
    BY <1>2, <1>4 DEF TypeOK, Dispatch, Register, SetDispatch, Crash, Check, InlineFails, Trigger,
       Call, Conclude, TimesOut
  <2>6. /\ handler' \in [Instances -> Runs \cup {NoRun}]
        /\ \A j \in Instances : handler'[j] # NoRun => Host(handler'[j]) = j
    <3>1. \/ handler' = handler
          \/ handler' = [handler EXCEPT ![i] = NoRun]
          \/ \E r \in Runs : Host(r) = i /\ handler' = [handler EXCEPT ![i] = r]
      BY <1>4 DEF Dispatch, Register, SetDispatch, Crash, Check, InlineFails, Trigger, Call,
         Conclude, TimesOut
    <3>2. QED  BY <3>1 DEF TypeOK
  <2>7. QED  BY <1>1, <2>1, <2>2, <2>3, <2>4, <2>5, <2>6 DEF TypeOK, Runs, Host
<1>5. QED  BY <1>3, <1>4 DEF Next, LockStep, Discard

LEMMA DispatchNext == DispatchInv /\ Next => DispatchInv'
<1> SUFFICES ASSUME DispatchInv, Next PROVE DispatchInv'
  OBVIOUS
<1> DEFINE Sound(i) ==
      /\ started[i] <= lastRun[i] /\ lastRun[i] <= clock
      /\ inbox[i] \in {0, 1}
      /\ inbox[i] = 1 => /\ lastRun[i] = clock
                         /\ started[i] = 0 \/ started[i] < Firing(clock)
      /\ phase[i] = "down" => inbox[i] = 0 /\ started[i] = 0
<1>1. /\ clock \in Nat /\ record \in Nat /\ clock \in Times
      /\ \A i \in Instances : lastRun[i] \in Nat /\ started[i] \in Nat
  BY JobLockAssumption DEF DispatchInv, TypeOK, LockTypeOK, Times
<1>2. TypeOK /\ record <= clock /\ 1 <= clock /\ \A i \in Instances : Sound(i)
  BY DEF DispatchInv
<1>3. record' <= clock' /\ 1 <= clock' /\ \A i \in Instances : Sound(i)'
  <2>1. CASE LockStep
    <3>1. LockNext /\ UNCHANGED dispatchVars
      BY <2>1 DEF LockStep, LockNext, TickDelivered
    <3>2. CASE clock' = clock
      BY <1>2, <3>1, <3>2 DEF dispatchVars, Firing
    <3>3. CASE TickDelivered
      <4>1. clock' = clock + 1 /\ \A i \in Instances : inbox[i] = 0
        BY <3>3 DEF TickDelivered, Tick
      <4>2. QED  BY <1>1, <1>2, <3>1, <4>1 DEF dispatchVars
    <3>4. QED
      BY <2>1, <3>2, <3>3
      DEF LockStep, RunStep, AcquireRead, AcquireUpsert, AcquireFails,
          RefreshRead, RefreshFails, RefreshWrite, Finish, Release, ReleaseFails
  <2>2. ASSUME NEW r \in Runs, Discard(r)
        PROVE  record' <= clock' /\ 1 <= clock' /\ \A i \in Instances : Sound(i)'
    BY <1>2, <2>2 DEF Discard, Forget, dispatchVars, Firing
  <2>3. ASSUME NEW i \in Instances, Dispatch(i)
        PROVE  record' <= clock' /\ 1 <= clock' /\ \A j \in Instances : Sound(j)'
    <3>1. clock' = clock
      BY <2>3 DEF Dispatch, Register, SetDispatch, Crash, Check, InlineFails, Trigger, Call,
         Begin, Vanish, Conclude, TimesOut, lockVars
    <3>2. Firing(clock)' = Firing(clock)
      BY <3>1 DEF Firing
    <3>3. record' <= clock
      BY <1>1, <1>2, <2>3 DEF Dispatch, Register, SetDispatch, Crash, Check, InlineFails, Trigger,
         Conclude, TimesOut
    <3>4. ASSUME NEW j \in Instances, j # i PROVE Sound(j)'
      <4>1. /\ started'[j] = started[j] /\ lastRun'[j] = lastRun[j]
            /\ inbox'[j] = inbox[j] /\ phase'[j] = phase[j]
        BY <1>2, <2>3, <3>4 DEF TypeOK, Dispatch, Register, SetDispatch, Crash, Check,
           InlineFails, Trigger, Call, Conclude, TimesOut
      <4>2. QED  BY <1>2, <3>1, <3>2, <4>1
    <3>5. Sound(i)'
      <4>1. CASE Register(i)
        BY <1>1, <1>2, <3>1, <3>2, <4>1 DEF Register, TypeOK
      <4>2. CASE SetDispatch(i)
        BY <1>1, <1>2, <3>1, <3>2, <4>2 DEF SetDispatch, TypeOK
      <4>3. CASE Crash(i)
        BY <1>1, <1>2, <3>1, <3>2, <4>3 DEF Crash, TypeOK
      <4>4. CASE Check(i)
        <5>1. lastRun' = [lastRun EXCEPT ![i] = clock] /\ UNCHANGED <<phase, started>>
          BY <4>4 DEF Check
        <5>2. started[i] = 0 \/ started[i] < Firing(clock)
          BY <1>1, <1>2, <4>4, FiringBefore DEF Check, Due, IsCronDue, IsJobOverdue
        <5>3. inbox[i] = 0
          BY <1>1, <1>2, <4>4, FiringBefore, JobsAssumption
          DEF Check, Due, IsCronDue, IsJobOverdue
        <5>4. inbox'[i] \in {0, 1} /\ phase[i] # "down"
          BY <1>2, <4>4, <5>3 DEF Check, TypeOK
        <5>5. QED  BY <1>1, <1>2, <3>1, <3>2, <5>1, <5>2, <5>4 DEF TypeOK
      <4>5. CASE InlineFails(i)
        BY <1>1, <1>2, <3>1, <3>2, <4>5 DEF InlineFails, TypeOK
      <4>6. CASE Trigger(i)
        <5>1. inbox[i] = 1 /\ lastRun[i] = clock /\ phase[i] # "down"
          BY <1>2, <4>6 DEF Trigger
        <5>2. inbox'[i] = 0 /\ lastRun' = lastRun /\ phase' = phase
          BY <1>2, <4>6, <5>1 DEF Trigger, TypeOK
        <5>3. started'[i] \in {started[i], clock}
          BY <1>2, <4>6 DEF Trigger, Call, TypeOK
        <5>4. QED  BY <1>1, <1>2, <3>1, <5>1, <5>2, <5>3
      <4>7. CASE Conclude(i) \/ TimesOut(i)
        BY <1>1, <1>2, <3>1, <3>2, <4>7 DEF Conclude, TimesOut, TypeOK
      <4>8. QED  BY <2>3, <4>1, <4>2, <4>3, <4>4, <4>5, <4>6, <4>7 DEF Dispatch
    <3>6. QED  BY <1>2, <3>1, <3>3, <3>4, <3>5
  <2>4. QED  BY <2>1, <2>2, <2>3 DEF Next
<1>4. QED  BY <1>2, <1>3, DispatchTyping DEF DispatchInv

LEMMA DispatchStutters == DispatchInv /\ UNCHANGED vars => DispatchInv'
<1> SUFFICES ASSUME DispatchInv, UNCHANGED vars PROVE DispatchInv'
  OBVIOUS
<1>1. LockTypeOK'
  BY DEF vars, lockVars, DispatchInv, TypeOK, LockTypeOK, Rows, Runs
<1>2. TypeOK'
  BY <1>1 DEF vars, dispatchVars, DispatchInv, TypeOK, Runs, Host
<1>3. QED  BY <1>2 DEF vars, lockVars, dispatchVars, DispatchInv, Firing

LEMMA DispatchHolds == Spec => []DispatchInv
<1>1. DispatchInv /\ [Next]_vars => DispatchInv'
  BY DispatchNext, DispatchStutters
<1>2. QED  BY <1>1, DispatchInit, PTL DEF Spec

\* Whatever boots, crashes, ticks, fires and times out: the scheduler, the worker,
\* the row of the lock and the record keep their types (jobs/services/scheduler.ts,
\* jobs/runners/worker.ts); a trigger never waits behind another.
THEOREM Typing == Spec => []TypeOK
BY DispatchHolds, PTL DEF DispatchInv

\* An instance never starts the job a second time before the next firing time
\* (jobs/services/scheduler.ts, checkAndRunJobs sets the time of the run before the
\* trigger is sent), for any period, timeout and number of instances.
THEOREM OneStart == Spec => OncePerFiring
<1>1. DispatchInv /\ Next => \A i \in Instances :
        Begins(i) /\ started[i] # 0 => Firing(clock) > Firing(started[i])
  <2> SUFFICES ASSUME DispatchInv, Next, NEW i \in Instances, Begins(i), started[i] # 0
               PROVE  Firing(clock) > Firing(started[i])
    OBVIOUS
  <2>1. TypeOK /\ clock \in Times /\ started[i] \in Times
    BY DEF DispatchInv, TypeOK, LockTypeOK
  <2>2. ASSUME NEW j \in Instances, Dispatch(j) PROVE Trigger(i)
    <3>1. CASE Trigger(j)
      BY <2>1, <3>1 DEF Trigger, Call, Begins, TypeOK, lockVars
    <3>2. CASE handler' = handler \/ handler' = [handler EXCEPT ![j] = NoRun]
      BY <2>1, <3>2 DEF Begins, TypeOK
    <3>3. QED
      BY <2>2, <3>1, <3>2 DEF Dispatch, Register, SetDispatch, Crash, Check, InlineFails,
         Conclude, TimesOut
  <2>3. Trigger(i)
    BY <2>2 DEF Next, LockStep, Discard, dispatchVars, Begins
  <2>4. started[i] < Firing(clock)
    BY <2>3 DEF Trigger, DispatchInv
  <2>5. QED  BY <2>1, <2>4, FiringBefore DEF Times
<1>2. DispatchInv /\ [Next]_vars
        => [\A i \in Instances :
              Begins(i) /\ started[i] # 0 => Firing(clock) > Firing(started[i])]_vars
  BY <1>1
<1>3. QED  BY <1>2, DispatchHolds, PTL DEF Spec, OncePerFiring
=============================================================================
