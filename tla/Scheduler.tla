------------------------------ MODULE Scheduler ------------------------------
(***************************************************************************)
(* internal/checks/scheduler.go: one ticker goroutine per check feeds a    *)
(* bounded job channel, a pool of workers runs the checks and delivers     *)
(* results to the channel the incident manager reads.  Start spawns the    *)
(* goroutines one by one outside the scheduler's lock; Stop, called by     *)
(* another goroutine, cancels, waits for the tickers, closes the job       *)
(* channel and waits for the workers.                                      *)
(***************************************************************************)
EXTENDS Integers, Sequences, FiniteSets

CONSTANTS
    Checks,     \* s.checks
    Workers,    \* s.workers goroutines
    Outcomes,   \* the statuses a check may return
    ResultCap,  \* capacity of the results channel (256 in the agent)
    MaxStarts   \* bound: calls of Start

ASSUME SchedulerConstants ==
    /\ IsFiniteSet(Checks) /\ IsFiniteSet(Workers)
    /\ Outcomes \subseteq {"healthy", "degraded", "failed"}
    /\ ResultCap \in Nat \ {0} /\ MaxStarts \in Nat

VARIABLES
    ctx,        \* the agent's context: "live" or "done"
    cancel,     \* s.cancel: "nil", "live", or "called"
    jobs,       \* the current job channel: its queue
    closed,     \* has it been closed
    jobsField,  \* s.jobs: "nil" or "chan"
    starter,    \* Start: "idle", "waiting", "spawning" or "returned"
    starts,     \* calls of Start so far
    stopper,    \* Stop: "idle", "tickers", "workers" or "returned"
    stopJobs,   \* Stop's local copy of s.jobs: "nil", "chan", or "old" once Start replaced it
    ticker,     \* check -> "none", "sending", "sleeping" or "exited"
    worker,     \* worker -> "none", "idle", "running", "delivering" or "exited"
    job,        \* worker -> the check it runs, or "none"
    outcome,    \* worker -> the status its check returned, or "none"
    results,    \* the results channel
    panicked,   \* a goroutine sent on a closed channel
    overlapped  \* history: a Stop was in progress during a Start

goroutines == <<ticker, worker, job, outcome>>
control == <<ctx, cancel, jobsField, starter, starts, stopper, stopJobs, overlapped>>
vars == <<control, jobs, closed, goroutines, results, panicked>>

JobCap == Cardinality(Checks)

\* Mutant: the context of a run is not derived from the agent's.
CanceledByStop == cancel = "called"

Canceled == ctx = "done" \/ cancel = "called"   \* ctx.Done() of the current run

\* checks.CheckResult
CheckResult == [check : Checks, status : Outcomes]

LiveTickers == {c \in Checks : ticker[c] \in {"sending", "sleeping"}}           \* tickerWg
LiveWorkers == {w \in Workers : worker[w] \in {"idle", "running", "delivering"}}  \* workerWg

TypeOK ==
    /\ ctx \in {"live", "done"} /\ cancel \in {"nil", "live", "called"}
    /\ jobs \in Seq(Checks) /\ Len(jobs) <= JobCap
    /\ closed \in BOOLEAN /\ panicked \in BOOLEAN /\ overlapped \in BOOLEAN
    /\ jobsField \in {"nil", "chan"} /\ stopJobs \in {"nil", "chan", "old"}
    /\ starter \in {"idle", "waiting", "spawning", "returned"} /\ starts \in 0..MaxStarts
    /\ stopper \in {"idle", "tickers", "workers", "returned"}
    /\ ticker \in [Checks -> {"none", "sending", "sleeping", "exited"}]
    /\ worker \in [Workers -> {"none", "idle", "running", "delivering", "exited"}]
    /\ job \in [Workers -> Checks \cup {"none"}]
    /\ outcome \in [Workers -> Outcomes \cup {"none"}]
    /\ results \in Seq(CheckResult) /\ Len(results) <= ResultCap

-----------------------------------------------------------------------------
(* Start *)

\* Start may meet a Stop that a signal has begun; otherwise it is not called
\* while Stop is in progress (the agent calls each of them once).
StartCall ==
    /\ starter \in {"idle", "returned"} /\ starts < MaxStarts
    /\ stopper \in {"idle", "returned"} \/ (starts = 0 /\ ctx = "done")
    /\ overlapped' = (overlapped \/ stopper \in {"tickers", "workers"})
    /\ starter' = "waiting" /\ starts' = starts + 1
    /\ cancel' = IF cancel = "nil" THEN "nil" ELSE "called"
    /\ stopper' = IF stopper = "returned" THEN "idle" ELSE stopper
    /\ UNCHANGED <<ctx, jobs, closed, jobsField, stopJobs, goroutines, results, panicked>>

\* The previous run has ended: a new context and a new job channel.
StartPrepare ==
    /\ starter = "waiting"
    /\ cancel # "nil" => LiveTickers = {} /\ LiveWorkers = {}
    /\ cancel' = "live"
    /\ jobsField' = "chan" /\ jobs' = << >> /\ closed' = FALSE
    /\ starter' = "spawning"
    /\ stopJobs' = IF stopJobs = "chan" THEN "old" ELSE stopJobs
    /\ ticker' = [c \in Checks |-> "none"] /\ worker' = [w \in Workers |-> "none"]
    /\ UNCHANGED <<ctx, starts, stopper, overlapped, job, outcome, results, panicked>>

SpawnWorker(w) ==
    /\ starter = "spawning" /\ worker[w] = "none"
    /\ worker' = [worker EXCEPT ![w] = "idle"]
    /\ UNCHANGED <<control, jobs, closed, ticker, job, outcome, results, panicked>>

SpawnTicker(c) ==
    /\ starter = "spawning" /\ ticker[c] = "none"
    /\ \A w \in Workers : worker[w] # "none"
    /\ ticker' = [ticker EXCEPT ![c] = "sending"]
    /\ UNCHANGED <<control, jobs, closed, worker, job, outcome, results, panicked>>

StartReturn ==
    /\ starter = "spawning"
    /\ \A c \in Checks : ticker[c] # "none"
    /\ starter' = "returned"
    /\ UNCHANGED <<ctx, cancel, jobsField, starts, stopper, stopJobs, overlapped,
                   jobs, closed, goroutines, results, panicked>>

-----------------------------------------------------------------------------
(* Ticker goroutines *)

\* select: a send on a closed channel is a ready case, and it panics.  The panic
\* ends the process; panicked records it and the other goroutines' further steps
\* are of no consequence.
TickerSend(c) ==
    /\ ticker[c] = "sending"
    /\ \/ /\ ~closed /\ Len(jobs) < JobCap
          /\ jobs' = Append(jobs, c)
          /\ ticker' = [ticker EXCEPT ![c] = "sleeping"]
          /\ UNCHANGED panicked
       \/ /\ closed
          /\ panicked' = TRUE
          /\ ticker' = [ticker EXCEPT ![c] = "exited"]
          /\ UNCHANGED jobs
    /\ UNCHANGED <<control, closed, worker, job, outcome, results>>

TickerTick(c) ==
    /\ ticker[c] = "sleeping"
    /\ ticker' = [ticker EXCEPT ![c] = "sending"]
    /\ UNCHANGED <<control, jobs, closed, worker, job, outcome, results, panicked>>

TickerExit(c) ==
    /\ ticker[c] \in {"sending", "sleeping"} /\ Canceled
    /\ ticker' = [ticker EXCEPT ![c] = "exited"]
    /\ UNCHANGED <<control, jobs, closed, worker, job, outcome, results, panicked>>

-----------------------------------------------------------------------------
(* Worker goroutines *)

\* Mutant: the newest job first.
WorkerTakeNewest(w) ==
    /\ worker[w] = "idle" /\ jobs # << >>
    /\ job' = [job EXCEPT ![w] = jobs[Len(jobs)]]
    /\ jobs' = SubSeq(jobs, 1, Len(jobs) - 1)
    /\ worker' = [worker EXCEPT ![w] = "running"]
    /\ UNCHANGED <<control, closed, ticker, outcome, results, panicked>>

WorkerTake(w) ==
    /\ worker[w] = "idle" /\ jobs # << >>
    /\ job' = [job EXCEPT ![w] = Head(jobs)]
    /\ jobs' = Tail(jobs)
    /\ worker' = [worker EXCEPT ![w] = "running"]
    /\ UNCHANGED <<control, closed, ticker, outcome, results, panicked>>

\* check.Run returns: every checker has a timeout.
WorkerRan(w) ==
    /\ worker[w] = "running"
    /\ \E status \in Outcomes : outcome' = [outcome EXCEPT ![w] = status]
    /\ worker' = [worker EXCEPT ![w] = "delivering"]
    /\ UNCHANGED <<control, jobs, closed, ticker, job, results, panicked>>

\* The worker's variables go out of scope.
Forget(w) ==
    /\ job' = [job EXCEPT ![w] = "none"]
    /\ outcome' = [outcome EXCEPT ![w] = "none"]

\* Mutant: a result that finds the channel full is dropped.
WorkerDeliverOrDrop(w) ==
    /\ worker[w] = "delivering"
    /\ results' = IF Len(results) < ResultCap
                     THEN Append(results, [check |-> job[w], status |-> outcome[w]])
                     ELSE results
    /\ worker' = [worker EXCEPT ![w] = "idle"]
    /\ Forget(w)
    /\ UNCHANGED <<control, jobs, closed, ticker, panicked>>

WorkerDeliver(w) ==
    /\ worker[w] = "delivering" /\ Len(results) < ResultCap
    /\ results' = Append(results, [check |-> job[w], status |-> outcome[w]])
    /\ worker' = [worker EXCEPT ![w] = "idle"]
    /\ Forget(w)
    /\ UNCHANGED <<control, jobs, closed, ticker, panicked>>

\* Mutant: the delivery does not watch the context.
WorkerExitWhenIdle(w) ==
    /\ worker[w] = "idle" /\ (Canceled \/ (closed /\ jobs = << >>))
    /\ worker' = [worker EXCEPT ![w] = "exited"]
    /\ Forget(w)
    /\ UNCHANGED <<control, jobs, closed, ticker, results, panicked>>

\* ctx.Done in either select, or a closed and empty job channel.
WorkerExit(w) ==
    /\ \/ worker[w] \in {"idle", "delivering"} /\ Canceled
       \/ worker[w] = "idle" /\ closed /\ jobs = << >>
    /\ worker' = [worker EXCEPT ![w] = "exited"]
    /\ Forget(w)
    /\ UNCHANGED <<control, jobs, closed, ticker, results, panicked>>

-----------------------------------------------------------------------------
(* Stop *)

\* Mutant: the run's context is left to the caller to cancel.
StopCallOnly ==
    /\ stopper = "idle"
    /\ ctx = "done" \/ starter \in {"idle", "returned"}
    /\ overlapped' = (overlapped \/ starter \in {"waiting", "spawning"})
    /\ stopJobs' = jobsField /\ jobsField' = "nil"
    /\ stopper' = "tickers"
    /\ UNCHANGED <<ctx, cancel, starter, starts, jobs, closed, goroutines, results, panicked>>

\* Called by Shutdown once the context is canceled, wherever Start is, or by a
\* caller for whom Start has returned.
StopCall ==
    /\ stopper = "idle"
    /\ ctx = "done" \/ starter \in {"idle", "returned"}
    /\ overlapped' = (overlapped \/ starter \in {"waiting", "spawning"})
    /\ cancel' = IF cancel = "nil" THEN "nil" ELSE "called"
    /\ stopJobs' = jobsField /\ jobsField' = "nil"
    /\ stopper' = "tickers"
    /\ UNCHANGED <<ctx, starter, starts, jobs, closed, goroutines, results, panicked>>

\* Mutant: the channel is closed without waiting for the tickers.
StopCloseAtOnce ==
    /\ stopper = "tickers"
    /\ closed' = (closed \/ stopJobs = "chan")
    /\ stopper' = "workers"
    /\ UNCHANGED <<ctx, cancel, jobsField, starter, starts, stopJobs, overlapped,
                   jobs, goroutines, results, panicked>>

StopClose ==
    /\ stopper = "tickers" /\ LiveTickers = {}
    /\ closed' = (closed \/ stopJobs = "chan")
    /\ stopper' = "workers"
    /\ UNCHANGED <<ctx, cancel, jobsField, starter, starts, stopJobs, overlapped,
                   jobs, goroutines, results, panicked>>

\* Mutant: Stop does not wait for the workers.
StopReturnAtOnce ==
    /\ stopper = "workers"
    /\ stopper' = "returned" /\ stopJobs' = "nil"
    /\ UNCHANGED <<ctx, cancel, jobsField, starter, starts, overlapped,
                   jobs, closed, goroutines, results, panicked>>

StopReturn ==
    /\ stopper = "workers" /\ LiveWorkers = {}
    /\ stopper' = "returned" /\ stopJobs' = "nil"
    /\ UNCHANGED <<ctx, cancel, jobsField, starter, starts, overlapped,
                   jobs, closed, goroutines, results, panicked>>

-----------------------------------------------------------------------------
(* The agent's context, and the incident manager reading results *)

CancelContext ==
    /\ ctx = "live" /\ ctx' = "done"
    /\ UNCHANGED <<cancel, jobsField, starter, starts, stopper, stopJobs, overlapped,
                   jobs, closed, goroutines, results, panicked>>

TakeResult ==
    /\ results # << >> /\ results' = Tail(results)
    /\ UNCHANGED <<control, jobs, closed, goroutines, panicked>>

Init ==
    /\ ctx = "live" /\ cancel = "nil"
    /\ jobs = << >> /\ closed = FALSE /\ jobsField = "nil"
    /\ starter = "idle" /\ starts = 0
    /\ stopper = "idle" /\ stopJobs = "nil"
    /\ ticker = [c \in Checks |-> "none"]
    /\ worker = [w \in Workers |-> "none"]
    /\ job = [w \in Workers |-> "none"] /\ outcome = [w \in Workers |-> "none"]
    /\ results = << >>
    /\ panicked = FALSE /\ overlapped = FALSE

StartStep ==
    StartPrepare \/ StartReturn \/ (\E w \in Workers : SpawnWorker(w))
                                \/ (\E c \in Checks : SpawnTicker(c))
StopStep == StopClose \/ StopReturn
TickerStep(c) == TickerSend(c) \/ TickerExit(c)
WorkerStep(w) == WorkerTake(w) \/ WorkerRan(w) \/ WorkerDeliver(w) \/ WorkerExit(w)

Next ==
    \/ StartCall \/ StopCall \/ StartStep \/ StopStep
    \/ \E c \in Checks : TickerStep(c) \/ TickerTick(c)
    \/ \E w \in Workers : WorkerStep(w)
    \/ CancelContext \/ TakeResult

Spec == Init /\ [][Next]_vars

\* Goroutines that can run do run; senders blocked on a channel are served in
\* the order in which they queued up, hence the strong fairness.  The manager
\* reads results only while its context is live.
FairSpec ==
    /\ Spec
    /\ WF_vars(StartStep) /\ WF_vars(StopStep)
    /\ \A c \in Checks : WF_vars(TickerExit(c)) /\ SF_vars(TickerSend(c))
    /\ \A w \in Workers : WF_vars(WorkerStep(w)) /\ SF_vars(WorkerDeliver(w))
    /\ WF_vars(TakeResult /\ ctx = "live")

-----------------------------------------------------------------------------
(* Properties *)

\* A ticker sends on the closed job channel, and panics, in one case only: the
\* agent's context was canceled and Stop ran while Start was still spawning, so
\* the tickers came after Stop had found their wait group empty.  A Stop that
\* does not overlap with Start closes a channel without senders, as its comment
\* ("Now safe to close the channel - no more senders") says of every Stop.
NoSendOnClosed == panicked => overlapped /\ ctx = "done"

\* When Stop has returned, and until the next Start, every ticker and worker that
\* is left has been told to leave; and none is left, unless Stop overlapped with
\* Start ("waits for them to finish" is true of a Stop that does not).
StopLeavesNothing ==
    stopper = "returned" =>
       /\ LiveTickers # {} \/ LiveWorkers # {} => Canceled
       /\ ~overlapped => LiveTickers = {} /\ LiveWorkers = {}

\* While Stop, or a Start that follows one, waits, all those it waits for have
\* been told to leave, also when the two overlap.  And nobody joins them, unless
\* they overlap: Start adds to the wait groups without the lock (the two Waits
\* of Stop, and Start's for the run before it).
WaitsForLeaving ==
    [][(stopper \in {"tickers", "workers"} \/ starter = "waiting") =>
          /\ LiveTickers # {} \/ LiveWorkers # {} => Canceled
          /\ \/ LiveTickers' \subseteq LiveTickers /\ LiveWorkers' \subseteq LiveWorkers
             \/ overlapped']_vars

\* The goroutines that a Stop during Start misses end all the same, those spawned
\* after Stop returned included: their context is derived from the agent's, which
\* is done by then (context.WithCancel in Start).
MissedGoroutinesEnd == overlapped ~> [](LiveTickers = {} /\ LiveWorkers = {})

\* Stop returns, even when nobody reads results any more and a worker is
\* blocked on the full channel.
StopReturns == stopper = "tickers" ~> stopper = "returned"

\* A due check is run: the full job channel and the full results channel delay
\* it, but other checks do not starve it.
DueCheckRuns ==
    \A c \in Checks :
       ticker[c] = "sending" ~>
          ((\E w \in Workers : worker[w] = "running" /\ job[w] = c) \/ Canceled)
=============================================================================
