--------------------------------- MODULE Jobs ---------------------------------
(***************************************************************************)
(* Event-driven inline mode (JOB_MODE=inline): on every request the        *)
(* scheduler of the main thread (jobs/services/scheduler.ts) looks whether *)
(* the job is due and sends a trigger to the worker thread                 *)
(* (jobs/runners/worker.ts), which calls the job function under a timeout  *)
(* and records the time of the run in the global database.  Instances      *)
(* boot, register the job from that record, crash.  The job function and   *)
(* its lock are those of JobLock.                                          *)
(*                                                                         *)
(* One job; a schedule is reduced to its firing times, one every Period    *)
(* ticks, the first at Period, and one tick is the scheduler's minute.     *)
(***************************************************************************)
EXTENDS JobLock

CONSTANTS Period,       \* ticks between firing times
          JobTimeout    \* timeoutMs of createJobHandler, in ticks

ASSUME JobsAssumption ==
  /\ Period \in Nat \ {0}
  /\ JobTimeout \in Nat \ {0}

VARIABLES phase,        \* how far initializeJobs has come
          lastRun,      \* scheduler: job.lastRun, 0 for undefined
          inline,       \* scheduler: job.isRunning, the fallback without dispatch
          inbox,        \* TRIGGER_JOB messages on their way to the worker
          handler,      \* worker: the call the handler awaits, NoRun when ~isRunning
          started,      \* worker: job.lastRun
          record        \* cronJobExecutions.lastRunAt, 0 when there is no row

dispatchVars == <<phase, lastRun, inline, inbox, handler, started, record>>
vars == <<lockVars, dispatchVars>>

NoRun == <<NoOwner, NoOwner>>

Firing(t) == t - (t % Period)           \* getMostRecentScheduledTime

\* isCronDue: a firing time, and not already run in this minute
IsCronDue(last, t) == t % Period = 0 /\ t >= Period /\ last # t

\* isJobOverdue: never run, or not since the last firing time
IsJobOverdue(last, t) == last = 0 \/ last < Firing(t)

TypeOK ==
  /\ LockTypeOK
  /\ phase \in [Instances -> {"down", "registered", "ready"}]
  /\ lastRun \in [Instances -> Times]
  /\ inline \in [Instances -> BOOLEAN]
  /\ inbox \in [Instances -> 0..MaxTime]
  /\ handler \in [Instances -> Runs \cup {NoRun}]
  /\ started \in [Instances -> Times]
  /\ record \in Times
  /\ \A i \in Instances : handler[i] # NoRun => Host(handler[i]) = i

Init ==
  /\ LockInit
  /\ phase = [i \in Instances |-> "down"]
  /\ lastRun = [i \in Instances |-> 0]
  /\ inline = [i \in Instances |-> FALSE]
  /\ inbox = [i \in Instances |-> 0]
  /\ handler = [i \in Instances |-> NoRun]
  /\ started = [i \in Instances |-> 0]
  /\ record = 0

-----------------------------------------------------------------------------
(* Boot and crash of an instance *)

\* main.ts starts initializeJobs in the background and serves requests: once the
\* worker is initialized, scheduler.register reads getLastRun
Register(i) ==
  /\ phase[i] = "down"
  /\ phase' = [phase EXCEPT ![i] = "registered"]
  /\ lastRun' = [lastRun EXCEPT ![i] = record]
  /\ UNCHANGED <<lockVars, inline, inbox, handler, started, record>>

\* All jobs are registered: setDispatch(triggerJob)
SetDispatch(i) ==
  /\ phase[i] = "registered"
  /\ phase' = [phase EXCEPT ![i] = "ready"]
  /\ UNCHANGED <<lockVars, lastRun, inline, inbox, handler, started, record>>

Crash(i) ==
  /\ phase[i] # "down"
  /\ Vanish(i)
  /\ phase' = [phase EXCEPT ![i] = "down"]
  /\ lastRun' = [lastRun EXCEPT ![i] = 0]
  /\ inline' = [inline EXCEPT ![i] = FALSE]
  /\ inbox' = [inbox EXCEPT ![i] = 0]
  /\ handler' = [handler EXCEPT ![i] = NoRun]
  /\ started' = [started EXCEPT ![i] = 0]
  /\ UNCHANGED record

-----------------------------------------------------------------------------
(* The scheduler, on the main thread *)

Due(i) == IsCronDue(lastRun[i], clock) \/ IsJobOverdue(lastRun[i], clock)

\* Faulty variant: the time of the run is left to be set when it is over
CheckRemembersNothing(i) ==
  /\ phase[i] = "ready" /\ Due(i)
  /\ inbox' = [inbox EXCEPT ![i] = 1]
  /\ UNCHANGED <<lockVars, phase, lastRun, inline, handler, started, record>>

\* checkAndRunJobs finds the job due.  The time of the run is set before
\* anything is known of it (and hides the job from further checks for the
\* tick, as the 30 s of isCheckingJobs do).  Without a dispatch function the job
\* is run here, though initializeJobs has registered it without a handler
Check(i) ==
  /\ phase[i] \in {"registered", "ready"} /\ ~inline[i]
  /\ Due(i)
  /\ lastRun' = [lastRun EXCEPT ![i] = clock]
  /\ IF phase[i] = "ready"
       THEN inbox' = [inbox EXCEPT ![i] = @ + 1] /\ UNCHANGED inline
       ELSE inline' = [inline EXCEPT ![i] = TRUE] /\ UNCHANGED inbox
  /\ UNCHANGED <<lockVars, phase, handler, started, record>>

\* job.handler!() of no handler throws, and the attempt is recorded as a run
InlineFails(i) ==
  /\ inline[i]
  /\ inline' = [inline EXCEPT ![i] = FALSE]
  /\ record' = lastRun[i]
  /\ UNCHANGED <<lockVars, phase, lastRun, inbox, handler, started>>

-----------------------------------------------------------------------------
(* The worker *)

\* The handler calls the job function
Call(i) ==
  /\ \E r \in Runs :
       /\ Host(r) = i /\ Begin(r)
       /\ handler' = [handler EXCEPT ![i] = r]
  /\ started' = [started EXCEPT ![i] = clock]

\* A trigger starts the job function, unless the handler is still busy with
\* an earlier run: then the trigger is dropped
Trigger(i) ==
  /\ inbox[i] > 0
  /\ inbox' = [inbox EXCEPT ![i] = @ - 1]
  /\ IF handler[i] = NoRun THEN Call(i) ELSE UNCHANGED <<lockVars, handler, started>>
  /\ UNCHANGED <<phase, lastRun, inline, record>>

\* The function returned or threw: updateLastRun with the time it was started,
\* then isRunning is reset
Conclude(i) ==
  /\ handler[i] # NoRun /\ run[handler[i]].pc = "returned"
  /\ record' = started[i]
  /\ handler' = [handler EXCEPT ![i] = NoRun]
  /\ UNCHANGED <<lockVars, phase, lastRun, inline, inbox, started>>

\* The timeout wins the race: the handler is done with the function, which
\* goes on.  Copies bounds how many may
TimesOut(i) ==
  /\ handler[i] # NoRun /\ run[handler[i]].pc # "returned"
  /\ clock >= started[i] + JobTimeout
  /\ \E r \in Runs : Host(r) = i /\ ~Unfinished(r)
  /\ record' = started[i]
  /\ handler' = [handler EXCEPT ![i] = NoRun]
  /\ UNCHANGED <<lockVars, phase, lastRun, inline, inbox, started>>

-----------------------------------------------------------------------------
\* One tick is enough for the worker to take its messages
TickDelivered == Tick /\ \A i \in Instances : inbox[i] = 0

Awaited(r) == handler[Host(r)] = r

LockStep ==
  /\ TickDelivered \/ \E r \in Runs : RunStep(r)
  /\ UNCHANGED dispatchVars

\* Nothing is left of a call the handler is done with
Discard(r) ==
  /\ ~Awaited(r) /\ Forget(r)
  /\ UNCHANGED dispatchVars

Dispatch(i) ==
  \/ Register(i) \/ SetDispatch(i) \/ Crash(i)
  \/ Check(i) \/ InlineFails(i)
  \/ Trigger(i) \/ Conclude(i) \/ TimesOut(i)

Next ==
  \/ LockStep \/ \E r \in Runs : Discard(r)
  \/ \E i \in Instances : Dispatch(i)

Spec == Init /\ [][Next]_vars

-----------------------------------------------------------------------------
Begins(i) == handler'[i] \notin {NoRun, handler[i]}

\* An instance starts the job at most once between two firing times, since it
\* booted (jobs/services/scheduler.ts, "To prevent running multiple times").
OncePerFiring ==
  [][\A i \in Instances :
       (Begins(i) /\ started[i] # 0) => Firing(clock) > Firing(started[i])]_vars
=============================================================================
