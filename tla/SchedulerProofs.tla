--------------------------- MODULE SchedulerProofs ---------------------------
(***************************************************************************)
(* Theorems about the check scheduler, for every finite set of checks and  *)
(* of workers, any capacity of the results channel and any number of       *)
(* restarts.                                                               *)
(***************************************************************************)
EXTENDS Scheduler, FiniteSetTheorems, TLAPS

\* A worker that runs a check has one, and a status once it has run it.
WorkerHasJob ==
    \A w \in Workers :
      /\ worker[w] \in {"running", "delivering"} => job[w] \in Checks
      /\ worker[w] = "delivering" => outcome[w] \in Outcomes

\* Without overlap, Stop is past its call only when no Start is in progress.
StopAfterStart ==
    stopper \in {"tickers", "workers", "returned"} => starter \in {"idle", "returned"}

\* Without overlap, a closed job channel has no ticker and gets none.
ClosedWithoutTickers == closed => LiveTickers = {} /\ starter # "spawning"

\* Without overlap, what Stop has waited for stays so.
StopWaited ==
    /\ stopper \in {"workers", "returned"} => LiveTickers = {}
    /\ stopper = "returned" => LiveWorkers = {}

\* The inductive invariant, beside the types.
StopInv ==
    overlapped \/ (StopAfterStart /\ ClosedWithoutTickers /\ StopWaited /\ ~panicked)

-----------------------------------------------------------------------------
(* Types *)

SchedulerType == TypeOK /\ WorkerHasJob

LEMMA JobCapType == JobCap \in Nat
BY SchedulerConstants, FS_CardinalityType DEF JobCap

\* The steps of Start and Stop, and of the agent.
LEMMA ControlType ==
    ASSUME SchedulerType,
           \/ StartCall \/ StartPrepare \/ StartReturn \/ StopCall \/ StopClose \/ StopReturn
           \/ CancelContext \/ TakeResult
    PROVE  SchedulerType'
<1> USE SchedulerConstants, JobCapType DEF SchedulerType, TypeOK, WorkerHasJob
<1>1. CASE StartCall
  <2>1. starts' \in 0..MaxStarts /\ cancel' \in {"nil", "live", "called"}
        /\ overlapped' \in BOOLEAN /\ stopper' \in {"idle", "tickers", "workers", "returned"}
    BY <1>1 DEF StartCall
  <2> QED BY <1>1, <2>1 DEF StartCall, goroutines
<1>2. CASE StartPrepare
  <2>1. jobs' \in Seq(Checks) /\ Len(jobs') <= JobCap
    <3>1. jobs' = << >>
      BY <1>2 DEF StartPrepare
    <3> HIDE DEF SchedulerType, TypeOK
    <3> QED BY <3>1, JobCapType
  <2>2. /\ ticker' \in [Checks -> {"none", "sending", "sleeping", "exited"}]
        /\ worker' \in [Workers -> {"none", "idle", "running", "delivering", "exited"}]
        /\ \A w \in Workers : worker'[w] = "none"
    BY <1>2 DEF StartPrepare
  <2>3. WorkerHasJob'
    BY <2>2
  <2> QED BY <1>2, <2>1, <2>2, <2>3 DEF StartPrepare
<1>3. CASE StartReturn \/ StopClose \/ StopReturn \/ CancelContext
  <2>1. closed' \in BOOLEAN
    BY <1>3 DEF StartReturn, StopClose, StopReturn, CancelContext
  <2> QED BY <1>3, <2>1 DEF StartReturn, StopClose, StopReturn, CancelContext, goroutines
<1>4. CASE StopCall
  BY <1>4 DEF StopCall, goroutines
<1>5. CASE TakeResult
  <2>1. results' \in Seq(CheckResult) /\ Len(results') <= ResultCap
    BY <1>5 DEF TakeResult
  <2> QED BY <1>5, <2>1 DEF TakeResult, control, goroutines
<1> QED BY <1>1, <1>2, <1>3, <1>4, <1>5

\* The steps of a ticker, from its spawning on.
LEMMA TickerType ==
    ASSUME SchedulerType, NEW c \in Checks,
           SpawnTicker(c) \/ TickerStep(c) \/ TickerTick(c)
    PROVE  SchedulerType'
<1> USE SchedulerConstants, JobCapType DEF SchedulerType, TypeOK, WorkerHasJob, control
<1>1. CASE SpawnTicker(c) \/ TickerTick(c) \/ TickerExit(c)
  BY <1>1 DEF SpawnTicker, TickerTick, TickerExit
<1>2. CASE TickerSend(c)
  <2>1. jobs' \in Seq(Checks) /\ Len(jobs') <= JobCap
    <3>1. CASE ~closed
      <4>1. jobs \in Seq(Checks) /\ jobs' = Append(jobs, c) /\ Len(jobs) < JobCap
        BY <1>2, <3>1 DEF TickerSend
      <4> HIDE DEF SchedulerType, TypeOK
      <4> QED BY <4>1, JobCapType
    <3>2. CASE closed
      BY <1>2, <3>2 DEF TickerSend
    <3> QED BY <3>1, <3>2
  <2>2. /\ ticker' \in [Checks -> {"none", "sending", "sleeping", "exited"}]
        /\ panicked' \in BOOLEAN
    BY <1>2 DEF TickerSend
  <2>3. UNCHANGED <<control, closed, worker, job, outcome, results>>
    BY <1>2 DEF TickerSend
  <2> QED BY <2>1, <2>2, <2>3
<1> QED BY <1>1, <1>2 DEF TickerStep

\* The steps of a worker, from its spawning on.
LEMMA WorkerType ==
    ASSUME SchedulerType, NEW w \in Workers, SpawnWorker(w) \/ WorkerStep(w)
    PROVE  SchedulerType'
<1> USE SchedulerConstants, JobCapType DEF SchedulerType, TypeOK, WorkerHasJob, control
<1>1. CASE SpawnWorker(w)
  BY <1>1 DEF SpawnWorker
<1>2. CASE WorkerTake(w)
  <2>1. /\ Head(jobs) \in Checks /\ jobs' \in Seq(Checks) /\ Len(jobs') <= JobCap
    BY <1>2 DEF WorkerTake
  <2> QED BY <1>2, <2>1 DEF WorkerTake
<1>3. CASE WorkerRan(w)
  BY <1>3 DEF WorkerRan
<1>4. CASE WorkerDeliver(w)
  <2>1. [check |-> job[w], status |-> outcome[w]] \in CheckResult
    BY <1>4 DEF WorkerDeliver, CheckResult
  <2>2. results' \in Seq(CheckResult) /\ Len(results') <= ResultCap
    BY <1>4, <2>1 DEF WorkerDeliver
  <2> QED BY <1>4, <2>2 DEF WorkerDeliver, Forget
<1>5. CASE WorkerExit(w)
  BY <1>5 DEF WorkerExit, Forget
<1> QED BY <1>1, <1>2, <1>3, <1>4, <1>5 DEF WorkerStep

LEMMA SchedulerTypeStep == SchedulerType /\ [Next]_vars => SchedulerType'
<1>1. SchedulerType /\ UNCHANGED vars => SchedulerType'
  BY DEF vars, control, goroutines, SchedulerType, TypeOK, WorkerHasJob
<1> QED BY <1>1, ControlType, TickerType, WorkerType DEF Next, StartStep, StopStep

LEMMA SchedulerTyped == Spec => []SchedulerType
<1>1. Init => SchedulerType
  <2> SUFFICES ASSUME Init PROVE SchedulerType
    OBVIOUS
  <2>1. jobs \in Seq(Checks) /\ Len(jobs) <= JobCap
    BY JobCapType DEF Init
  <2>2. results \in Seq(CheckResult) /\ Len(results) <= ResultCap
    BY SchedulerConstants DEF Init
  <2>3. WorkerHasJob
    BY DEF Init, WorkerHasJob
  <2>4. /\ ticker \in [Checks -> {"none", "sending", "sleeping", "exited"}]
        /\ worker \in [Workers -> {"none", "idle", "running", "delivering", "exited"}]
        /\ job \in [Workers -> Checks \cup {"none"}]
        /\ outcome \in [Workers -> Outcomes \cup {"none"}]
    BY DEF Init
  <2>5. starts \in 0..MaxStarts
    BY SchedulerConstants DEF Init
  <2> QED BY <2>1, <2>2, <2>3, <2>4, <2>5 DEF Init, SchedulerType, TypeOK
<1> QED BY <1>1, SchedulerTypeStep, PTL DEF Spec

\* The type invariant of the scheduler, with the capacities of its two channels.
THEOREM SchedulerTypeCorrect == Spec => []TypeOK
BY SchedulerTyped, PTL DEF SchedulerType

-----------------------------------------------------------------------------
(* Stop *)

\* Steps that leave tickers and workers alone, and those that spawn or end them.
LEMMA StopStepKeeps == SchedulerType /\ StopInv /\ [Next]_vars => StopInv'
<1> SUFFICES ASSUME SchedulerType, StopInv, [Next]_vars, ~overlapped'
             PROVE  (StopAfterStart /\ ClosedWithoutTickers /\ StopWaited /\ ~panicked)'
  BY DEF StopInv
<1>1. ~overlapped
  BY DEF Next, vars, control, StartCall, StopCall, StartStep, StopStep, StartPrepare,
         StartReturn, SpawnWorker, SpawnTicker, StopClose, StopReturn, TickerStep,
         TickerSend, TickerExit, TickerTick, WorkerStep, WorkerTake, WorkerRan,
         WorkerDeliver, WorkerExit, CancelContext, TakeResult
<1>2. StopAfterStart /\ ClosedWithoutTickers /\ StopWaited /\ ~panicked
  BY <1>1 DEF StopInv
<1>3. ticker \in [Checks -> {"none", "sending", "sleeping", "exited"}]
      /\ worker \in [Workers -> {"none", "idle", "running", "delivering", "exited"}]
      /\ stopper \in {"idle", "tickers", "workers", "returned"}
  BY DEF SchedulerType, TypeOK
<1> USE <1>1, <1>2, <1>3
    DEF StopAfterStart, ClosedWithoutTickers, StopWaited, LiveTickers, LiveWorkers, control,
        goroutines
<1>4. CASE StartCall
  BY <1>4 DEF StartCall
<1>5. CASE StopCall
  <2>1. starter' \notin {"waiting", "spawning"} /\ stopper' = "tickers"
    BY <1>5 DEF StopCall
  <2>2. starter' = starter /\ starter \in {"idle", "waiting", "spawning", "returned"}
    BY <1>5 DEF StopCall, SchedulerType, TypeOK
  <2>3. UNCHANGED <<closed, ticker, panicked>>
    BY <1>5 DEF StopCall
  <2> QED BY <2>1, <2>2, <2>3
<1>6. CASE StartPrepare
  <2>1. stopper \notin {"tickers", "workers", "returned"} /\ stopper' = stopper
    BY <1>6 DEF StartPrepare
  <2>2. ~closed' /\ ~panicked'
    BY <1>6 DEF StartPrepare
  <2> QED BY <2>1, <2>2
<1>7. CASE StartReturn \/ CancelContext \/ TakeResult \/ UNCHANGED vars
  BY <1>7 DEF StartReturn, CancelContext, TakeResult, vars
<1>8. CASE StopClose \/ StopReturn
  BY <1>8 DEF StopClose, StopReturn
<1>9. ASSUME NEW w \in Workers, SpawnWorker(w)
      PROVE  (StopAfterStart /\ ClosedWithoutTickers /\ StopWaited /\ ~panicked)'
  BY <1>9 DEF SpawnWorker
<1>10. ASSUME NEW c \in Checks, SpawnTicker(c)
       PROVE  (StopAfterStart /\ ClosedWithoutTickers /\ StopWaited /\ ~panicked)'
  BY <1>10 DEF SpawnTicker
<1>11. ASSUME NEW c \in Checks, TickerStep(c) \/ TickerTick(c)
       PROVE  (StopAfterStart /\ ClosedWithoutTickers /\ StopWaited /\ ~panicked)'
  <2>1. c \in LiveTickers
    BY <1>11 DEF TickerStep, TickerSend, TickerExit, TickerTick
  <2>2. ~closed /\ stopper \notin {"workers", "returned"}
    BY <2>1
  <2> QED BY <1>11, <2>2 DEF TickerStep, TickerSend, TickerExit, TickerTick
<1>12. ASSUME NEW w \in Workers, WorkerStep(w)
       PROVE  (StopAfterStart /\ ClosedWithoutTickers /\ StopWaited /\ ~panicked)'
  <2>1. w \in LiveWorkers
    BY <1>12 DEF WorkerStep, WorkerTake, WorkerRan, WorkerDeliver, WorkerExit
  <2>2. stopper # "returned"
    BY <2>1
  <2> QED BY <1>12, <2>2 DEF WorkerStep, WorkerTake, WorkerRan, WorkerDeliver, WorkerExit
<1> QED BY <1>4, <1>5, <1>6, <1>7, <1>8, <1>9, <1>10, <1>11, <1>12
        DEF Next, StartStep, StopStep

LEMMA StopInvariant == Spec => []StopInv
<1>1. Init => StopInv
  BY DEF Init, StopInv, StopAfterStart, ClosedWithoutTickers, StopWaited
<1> QED BY <1>1, SchedulerTyped, StopStepKeeps, PTL DEF Spec

\* Stop and Start overlap on the way out only: the context is canceled then.
OverlapAtExit == overlapped => ctx = "done"

LEMMA OverlapInvariant == Spec => []OverlapAtExit
<1>1. Init => OverlapAtExit
  BY DEF Init, OverlapAtExit
<1>2. SchedulerType /\ OverlapAtExit /\ [Next]_vars => OverlapAtExit'
  <2> SUFFICES ASSUME SchedulerType, OverlapAtExit, [Next]_vars PROVE OverlapAtExit'
    OBVIOUS
  <2>1. CASE StartCall
    BY <2>1 DEF StartCall, OverlapAtExit, SchedulerType, TypeOK
  <2>2. CASE StopCall
    BY <2>2 DEF StopCall, OverlapAtExit, SchedulerType, TypeOK
  <2>3. CASE CancelContext
    BY <2>3 DEF CancelContext, OverlapAtExit
  <2>4. CASE StartStep \/ StopStep \/ TakeResult \/ UNCHANGED vars
    <3>1. UNCHANGED <<ctx, overlapped>>
      BY <2>4 DEF StartStep, StopStep, TakeResult, vars, control, StartPrepare, StartReturn,
                  SpawnWorker, SpawnTicker, StopClose, StopReturn
    <3> QED BY <3>1 DEF OverlapAtExit
  <2>5. CASE \/ \E c \in Checks : TickerStep(c) \/ TickerTick(c)
             \/ \E w \in Workers : WorkerStep(w)
    <3>1. UNCHANGED control
      BY <2>5 DEF TickerStep, TickerSend, TickerExit, TickerTick, WorkerStep, WorkerTake,
                  WorkerRan, WorkerDeliver, WorkerExit
    <3> QED BY <3>1 DEF OverlapAtExit, control
  <2> QED BY <2>1, <2>2, <2>3, <2>4, <2>5 DEF Next
<1> QED BY <1>1, <1>2, SchedulerTyped, PTL DEF Spec

\* A ticker sends on a job channel that Stop has closed only if that Stop ran during
\* Start in an agent whose context is canceled: any other Stop waits for tickerWg,
\* which nobody joins, before it closes the channel.
THEOREM NoSendAfterClose == Spec => []NoSendOnClosed
<1>1. StopInv /\ OverlapAtExit => NoSendOnClosed
  BY DEF StopInv, OverlapAtExit, NoSendOnClosed
<1> QED BY <1>1, StopInvariant, OverlapInvariant, PTL

\* After Stop's two waits every ticker and worker that is left, until the next
\* Start, has been told to leave; and there is one only if Stop ran during Start.
THEOREM StopLeavesNoGoroutine == Spec => []StopLeavesNothing
<1>1. StopInv /\ OverlapAtExit => StopLeavesNothing
  BY DEF StopInv, StopWaited, OverlapAtExit, StopLeavesNothing, Canceled
<1> QED BY <1>1, StopInvariant, OverlapInvariant, PTL

-----------------------------------------------------------------------------
(* Waiting *)

Waits == stopper \in {"tickers", "workers"} \/ starter = "waiting"

\* Without overlap, whoever waits has canceled those it waits for; before the
\* first Start there is nobody to cancel.
WaitInv ==
    overlapped \/
      /\ Waits => Canceled \/ (LiveTickers = {} /\ LiveWorkers = {})
      /\ cancel = "nil" => LiveTickers = {} /\ LiveWorkers = {} /\ starter \in {"idle", "waiting"}

\* Goroutines that leave, and steps that touch neither these nor who waits.
LEMMA LeavingKeepsWait ==
    ASSUME WaitInv, UNCHANGED <<cancel, starter, overlapped>>,
           stopper' \in {"tickers", "workers"} => stopper \in {"tickers", "workers"},
           ctx = "done" => ctx' = "done",
           LiveTickers' \subseteq LiveTickers, LiveWorkers' \subseteq LiveWorkers
    PROVE  WaitInv'
BY DEF WaitInv, Waits, Canceled

LEMMA WaitStep ==
    ASSUME SchedulerType, StopInv, WaitInv, [Next]_vars
    PROVE  /\ WaitInv'
           /\ Waits /\ ~overlapped' =>
                LiveTickers' \subseteq LiveTickers /\ LiveWorkers' \subseteq LiveWorkers
<1> DEFINE Shrink == LiveTickers' \subseteq LiveTickers /\ LiveWorkers' \subseteq LiveWorkers
<1>0. ticker \in [Checks -> {"none", "sending", "sleeping", "exited"}]
      /\ worker \in [Workers -> {"none", "idle", "running", "delivering", "exited"}]
  BY DEF SchedulerType, TypeOK
<1>1. CASE StartCall
  <2>1. Shrink /\ starter' = "waiting"
    BY <1>1 DEF StartCall, goroutines, LiveTickers, LiveWorkers
  <2>2. cancel' = (IF cancel = "nil" THEN "nil" ELSE "called")
        /\ overlapped' = (overlapped \/ stopper \in {"tickers", "workers"})
    BY <1>1 DEF StartCall
  <2> QED BY <2>1, <2>2 DEF WaitInv, Canceled
<1>2. CASE StopCall
  <2>1. Shrink /\ starter' = starter
    BY <1>2 DEF StopCall, goroutines, LiveTickers, LiveWorkers
  <2>2. cancel' = (IF cancel = "nil" THEN "nil" ELSE "called")
        /\ overlapped' = (overlapped \/ starter \in {"waiting", "spawning"})
    BY <1>2 DEF StopCall
  <2> QED BY <2>1, <2>2 DEF WaitInv, Canceled
<1>3. CASE StartPrepare
  <2>1. LiveTickers' = {} /\ LiveWorkers' = {} /\ cancel' = "live"
    BY <1>3 DEF StartPrepare, LiveTickers, LiveWorkers
  <2> QED BY <2>1 DEF WaitInv
<1>4. ASSUME starter = "spawning", UNCHANGED control PROVE WaitInv' /\ (Waits => overlapped')
  <2>1. Waits => overlapped
    BY <1>4 DEF Waits, StopInv, StopAfterStart
  <2>2. cancel = "nil" => overlapped
    BY <1>4 DEF WaitInv
  <2> QED BY <1>4, <2>1, <2>2 DEF WaitInv, Waits, control
<1>5. ASSUME NEW w \in Workers, SpawnWorker(w) PROVE WaitInv' /\ (Waits => overlapped')
  BY <1>4, <1>5 DEF SpawnWorker
<1>6. ASSUME NEW c \in Checks, SpawnTicker(c) PROVE WaitInv' /\ (Waits => overlapped')
  BY <1>4, <1>6 DEF SpawnTicker
<1>7. CASE StartReturn
  <2>1. Shrink /\ starter = "spawning" /\ starter' = "returned"
    BY <1>7 DEF StartReturn, goroutines, LiveTickers, LiveWorkers
  <2>2. UNCHANGED <<ctx, cancel, stopper, overlapped>>
    BY <1>7 DEF StartReturn
  <2> QED BY <2>1, <2>2 DEF WaitInv, Waits, Canceled
<1>8. CASE StopClose \/ StopReturn \/ CancelContext \/ TakeResult \/ UNCHANGED vars
  <2>1. Shrink
    BY <1>8 DEF StopClose, StopReturn, CancelContext, TakeResult, vars, goroutines,
                LiveTickers, LiveWorkers
  <2>2. /\ UNCHANGED <<cancel, starter, overlapped>>
        /\ stopper' \in {"tickers", "workers"} => stopper \in {"tickers", "workers"}
        /\ ctx = "done" => ctx' = "done"
    BY <1>8 DEF StopClose, StopReturn, CancelContext, TakeResult, vars, control
  <2> QED BY <2>1, <2>2, LeavingKeepsWait
<1>9. ASSUME NEW c \in Checks, TickerStep(c) \/ TickerTick(c) PROVE WaitInv' /\ Shrink
  <2>1. Shrink
    BY <1>0, <1>9
       DEF TickerStep, TickerTick, TickerSend, TickerExit, LiveTickers, LiveWorkers
  <2>2. UNCHANGED control
    BY <1>9 DEF TickerStep, TickerTick, TickerSend, TickerExit
  <2> QED BY <2>1, <2>2, LeavingKeepsWait DEF control
<1>10. ASSUME NEW w \in Workers, WorkerStep(w) PROVE WaitInv' /\ Shrink
  <2>1. Shrink
    BY <1>0, <1>10 DEF WorkerStep, WorkerTake, WorkerRan, WorkerDeliver, WorkerExit,
                       LiveTickers, LiveWorkers
  <2>2. UNCHANGED control
    BY <1>10 DEF WorkerStep, WorkerTake, WorkerRan, WorkerDeliver, WorkerExit
  <2> QED BY <2>1, <2>2, LeavingKeepsWait DEF control
<1> QED BY <1>1, <1>2, <1>3, <1>5, <1>6, <1>7, <1>8, <1>9, <1>10 DEF Next, StartStep, StopStep

\* WaitsForLeaving: Stop, and a Start after it, wait for goroutines that have been
\* canceled only, whether or not the two overlap; and for no new one, unless they
\* do.  This is the part of Stop's return that does not rest on fairness.
THEOREM WaitersAreServed == Spec => WaitsForLeaving
<1>1. Init => WaitInv
  BY DEF Init, WaitInv, Waits, LiveTickers, LiveWorkers
<1>2. SchedulerType /\ StopInv /\ WaitInv /\ [Next]_vars => WaitInv'
  BY WaitStep
<1>3. SchedulerType /\ StopInv /\ OverlapAtExit /\ WaitInv /\ [Next]_vars =>
        [(stopper \in {"tickers", "workers"} \/ starter = "waiting") =>
           /\ LiveTickers # {} \/ LiveWorkers # {} => Canceled
           /\ \/ LiveTickers' \subseteq LiveTickers /\ LiveWorkers' \subseteq LiveWorkers
              \/ overlapped']_vars
  <2> SUFFICES ASSUME SchedulerType, StopInv, OverlapAtExit, WaitInv, [Next]_vars, Waits
               PROVE  /\ LiveTickers # {} \/ LiveWorkers # {} => Canceled
                      /\ \/ LiveTickers' \subseteq LiveTickers /\ LiveWorkers' \subseteq LiveWorkers
                         \/ overlapped'
    BY DEF Waits
  <2>1. overlapped => Canceled
    BY DEF OverlapAtExit, Canceled
  <2>2. ~overlapped => Canceled \/ (LiveTickers = {} /\ LiveWorkers = {})
    BY DEF WaitInv
  <2>3. \/ LiveTickers' \subseteq LiveTickers /\ LiveWorkers' \subseteq LiveWorkers
        \/ overlapped'
    BY WaitStep
  <2>4. LiveTickers # {} \/ LiveWorkers # {} => Canceled
    BY <2>1, <2>2
  <2> QED BY <2>3, <2>4
<1> QED BY <1>1, <1>2, <1>3, SchedulerTyped, StopInvariant, OverlapInvariant, PTL
        DEF Spec, WaitsForLeaving
=============================================================================
