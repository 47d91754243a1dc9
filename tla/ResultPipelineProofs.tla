------------------------ MODULE ResultPipelineProofs ------------------------
(***************************************************************************)
(* Theorems about the check results channel and the components it joins,   *)
(* for any number of checks, workers and cluster objects.                  *)
(***************************************************************************)
EXTENDS ResultPipeline, IncidentManagerProofs, SequenceTheorems

-----------------------------------------------------------------------------
(* Types *)

AnyResult == S!CheckResult \cup W!Result

ChannelType == results \in Seq(AnyResult) /\ Len(results) <= ResultCap

SchedulerType ==
    /\ jobs \in Seq(Scheduled)
    /\ ticker \in [Scheduled -> {"none", "sending", "sleeping", "exited"}]
    /\ worker \in [Workers -> {"none", "idle", "running", "delivering", "exited"}]
    /\ job \in [Workers -> Scheduled \cup {"none"}]
    /\ outcome \in [Workers -> Outcomes \cup {"none"}]
    /\ \A w \in Workers :
         /\ worker[w] \in {"running", "delivering"} => job[w] \in Scheduled
         /\ worker[w] = "delivering" => outcome[w] \in Outcomes

\* An object in the cluster has occurred.
WatcherType ==
    W!TypeOK /\ version \in [Objects -> Nat] /\ \A o \in exists : version[o] # 0

HistoryType ==
    /\ taken \subseteq W!Occurrence
    /\ newest \in [Scheduled -> Outcomes \cup {"none"}]
    /\ overtaken \subseteq Scheduled

PipelineType == ChannelType /\ SchedulerType /\ WatcherType /\ HistoryType

LEMMA ResultFields ==
    ASSUME NEW r \in AnyResult
    PROVE  /\ r.check \in Checks
           /\ "about" \in DOMAIN r => r.about \in W!Occurrence
<1>1. CASE r \in S!CheckResult
  <2>1. r.check \in Scheduled /\ DOMAIN r = {"check", "status"}
    BY <1>1 DEF S!CheckResult
  <2>2. "about" \notin DOMAIN r
    BY <2>1
  <2> QED BY <2>1, <2>2, PipelineConstants
<1>2. CASE r \in W!Result
  BY <1>2 DEF W!Result
<1> QED BY <1>1, <1>2 DEF AnyResult

\* The steps that touch the channel of results: a worker and the watcher append
\* to it, the manager takes its head.
LEMMA AppendChannel ==
    ASSUME ChannelType, NEW r \in AnyResult, Len(results) < ResultCap,
           results' = Append(results, r)
    PROVE  ChannelType'
<1>1. results' \in Seq(AnyResult) /\ Len(results') = Len(results) + 1
  BY AppendProperties DEF ChannelType
<1>2. Len(results) \in Nat /\ ResultCap \in Nat
  BY PipelineConstants, LenProperties DEF ChannelType
<1> QED BY <1>1, <1>2 DEF ChannelType

LEMMA ReceiveType ==
    ASSUME ChannelType, HistoryType, Receive
    PROVE  ChannelType' /\ HistoryType'
<1>1. results \in Seq(AnyResult) /\ results # << >> /\ results' = Tail(results)
  BY DEF Receive, ChannelType
<1>2. PICK r \in AnyResult : r = Head(results)
  BY <1>1, HeadTailProperties
<1>3. results' \in Seq(AnyResult) /\ Len(results') = Len(results) - 1
  BY <1>1, HeadTailProperties
<1>4. Len(results) \in Nat /\ ResultCap \in Nat
  BY <1>1, PipelineConstants, LenProperties
<1>5. ChannelType'
  BY <1>3, <1>4 DEF ChannelType
<1>6. taken' = IF "about" \in DOMAIN r THEN taken \cup {r.about} ELSE taken
  BY <1>2 DEF Receive
<1>7. taken' \subseteq W!Occurrence
  BY <1>2, <1>6, ResultFields DEF HistoryType
<1>8. UNCHANGED <<newest, overtaken>>
  BY DEF Receive
<1> QED BY <1>5, <1>7, <1>8 DEF HistoryType

LEMMA TickType ==
    ASSUME SchedulerType, NEW c \in Scheduled, Tick(c)
    PROVE  SchedulerType' /\ results' = results
<1> USE DEF S!control, S!goroutines
<1>1. UNCHANGED <<results, worker, job, outcome>>
  BY DEF Tick, S!TickerSend, S!TickerTick, S!TickerExit
<1>2. jobs' = jobs \/ jobs' = Append(jobs, c)
  BY DEF Tick, S!TickerSend, S!TickerTick, S!TickerExit
<1>3. \E t \in {"none", "sending", "sleeping", "exited"} : ticker' = [ticker EXCEPT ![c] = t]
  BY DEF Tick, S!TickerSend, S!TickerTick, S!TickerExit
<1>4. jobs' \in Seq(Scheduled)
  BY <1>2, AppendProperties DEF SchedulerType
<1>5. ticker' \in [Scheduled -> {"none", "sending", "sleeping", "exited"}]
  BY <1>3 DEF SchedulerType
<1> QED BY <1>1, <1>4, <1>5 DEF SchedulerType

LEMMA BeginRunType ==
    ASSUME SchedulerType, HistoryType, NEW w \in Workers, BeginRun(w)
    PROVE  SchedulerType' /\ HistoryType' /\ results' = results
<1> USE DEF S!control, S!goroutines
<1>1. jobs # << >> /\ jobs \in Seq(Scheduled)
  BY DEF BeginRun, S!WorkerTake, SchedulerType
<1>2. Head(jobs) \in Scheduled /\ Tail(jobs) \in Seq(Scheduled)
  BY <1>1, HeadTailProperties
<1>3. /\ worker[w] = "idle" /\ worker' = [worker EXCEPT ![w] = "running"]
      /\ job' = [job EXCEPT ![w] = Head(jobs)] /\ jobs' = Tail(jobs)
      /\ UNCHANGED <<ticker, outcome, results, taken, newest>>
  BY DEF BeginRun, S!WorkerTake
<1>4. job'[w] \in Scheduled
  BY <1>2, <1>3 DEF SchedulerType
<1>5. overtaken' \subseteq Scheduled
  BY <1>4 DEF BeginRun, HistoryType
<1>6. SchedulerType'
  BY <1>2, <1>3 DEF SchedulerType
<1> QED BY <1>3, <1>5, <1>6 DEF HistoryType

LEMMA EndRunType ==
    ASSUME SchedulerType, HistoryType, NEW w \in Workers, EndRun(w)
    PROVE  SchedulerType' /\ HistoryType' /\ results' = results
<1> USE DEF S!control, S!goroutines
<1>1. PICK status \in Outcomes : outcome' = [outcome EXCEPT ![w] = status]
  BY DEF EndRun, S!WorkerRan
<1>2. /\ worker[w] = "running" /\ worker' = [worker EXCEPT ![w] = "delivering"]
      /\ newest' = [newest EXCEPT ![job[w]] = outcome'[w]]
      /\ UNCHANGED <<jobs, ticker, job, results, taken, overtaken>>
  BY DEF EndRun, S!WorkerRan
<1>3. job[w] \in Scheduled /\ outcome'[w] = status
  BY <1>1, <1>2 DEF SchedulerType
<1>4. newest' \in [Scheduled -> Outcomes \cup {"none"}]
  BY <1>2, <1>3 DEF HistoryType
<1>5. SchedulerType'
  BY <1>1, <1>2 DEF SchedulerType
<1> QED BY <1>2, <1>4, <1>5 DEF HistoryType

LEMMA ReportType ==
    ASSUME SchedulerType, ChannelType, NEW w \in Workers, Report(w)
    PROVE  SchedulerType' /\ ChannelType'
<1> USE DEF S!control, S!goroutines
<1>1. /\ worker' \in {[worker EXCEPT ![w] = "idle"], [worker EXCEPT ![w] = "exited"]}
      /\ job' = [job EXCEPT ![w] = "none"] /\ outcome' = [outcome EXCEPT ![w] = "none"]
      /\ UNCHANGED <<jobs, ticker>>
  BY DEF Report, S!WorkerDeliver, S!WorkerExit, S!Forget
<1>2. SchedulerType'
  BY <1>1 DEF SchedulerType
<1>3. CASE S!WorkerDeliver(w)
  <2>1. [check |-> job[w], status |-> outcome[w]] \in AnyResult
    BY <1>3 DEF S!WorkerDeliver, S!CheckResult, AnyResult, SchedulerType
  <2>2. Len(results) < ResultCap
        /\ results' = Append(results, [check |-> job[w], status |-> outcome[w]])
    BY <1>3 DEF S!WorkerDeliver
  <2> QED BY <1>2, <2>1, <2>2, AppendChannel
<1>4. CASE S!WorkerExit(w)
  BY <1>2, <1>4 DEF S!WorkerExit, ChannelType
<1> QED BY <1>3, <1>4 DEF Report

\* A sequence made of a set: SetToSeq chooses an injection, which exists, and
\* which reaches every element because the set is finite.
LEMMA SequenceOfSet ==
    ASSUME NEW T, IsFiniteSet(T)
    PROVE  /\ W!SetToSeq(T) \in Seq(T)
           /\ \A x \in T : \E i \in 1..Len(W!SetToSeq(T)) : W!SetToSeq(T)[i] = x
           /\ \A i, j \in 1..Len(W!SetToSeq(T)) :
                W!SetToSeq(T)[i] = W!SetToSeq(T)[j] => i = j
<1> DEFINE n == Cardinality(T)
           s == W!SetToSeq(T)
<1>1. n \in Nat
  BY FS_CardinalityType
<1>2. PICK b \in Bijection(1..n, T) : TRUE
  BY FS_CardinalityType DEF ExistsBijection
<1>3. b \in [1..n -> T] /\ IsInjective(b)
  BY <1>2 DEF Bijection, Injection
<1>4. s \in [1..n -> T] /\ IsInjective(s)
  <2>1. W!IsInjective(b)
    BY <1>3 DEF W!IsInjective, IsInjective
  <2>0. W!Cardinality(T) = n
    BY DEF W!Cardinality, Cardinality
  <2>2. s = CHOOSE f \in [1..n -> T] : W!IsInjective(f)
    BY <2>0 DEF W!SetToSeq
  <2> HIDE DEF s
  <2>3. s \in [1..n -> T] /\ W!IsInjective(s)
    BY <1>3, <2>1, <2>2
  <2> QED BY <2>3 DEF W!IsInjective, IsInjective
<1> HIDE DEF s
<1>5. s \in Injection(1..n, T)
  BY <1>4 DEF Injection
<1>6. Cardinality(1..n) = n
  BY <1>1, FS_Interval
<1>7. s \in Surjection(1..n, T)
  BY <1>5, <1>6, FS_Injection
<1>8. \A i, j \in 1..n : s[i] = s[j] => i = j
  BY <1>4 DEF IsInjective
<1> HIDE DEF n
<1>9. s \in Seq(T) /\ \A x \in T : \E i \in 1..n : s[i] = x
  BY <1>1, <1>4, <1>7 DEF Surjection
<1>10. Len(s) = n
  BY <1>1, <1>4, <1>9, LenProperties
<1> QED BY <1>8, <1>9, <1>10 DEF s

\* The notifications a watch starts with.
AddedOnes == {[type |-> "Added", about |-> W!Latest(o)] : o \in exists}

LEMMA LatestType ==
    ASSUME WatcherType, NEW o \in exists
    PROVE  W!Latest(o) \in W!Occurrence
<1>1. o \in Objects /\ version[o] \in 0..MaxVersion[o] /\ version[o] # 0
  BY DEF WatcherType, W!TypeOK
<1>2. version[o] \in 1..MaxVersion[o]
  BY <1>1, PipelineConstants
<1>3. W!Latest(o) \in [object : {o}, version : 1..MaxVersion[o]]
  BY <1>2 DEF W!Latest
<1> QED BY <1>1, <1>3 DEF W!Occurrence

LEMMA AddedOnesFinite ==
    ASSUME WatcherType
    PROVE  AddedOnes \subseteq W!Notification /\ IsFiniteSet(AddedOnes)
<1>1. AddedOnes \subseteq W!Notification
  BY LatestType DEF AddedOnes, W!Notification, W!NotificationTypes
<1>2. IsFiniteSet(exists)
  BY PipelineConstants, FS_Subset DEF WatcherType, W!TypeOK
<1> DEFINE f == [o \in exists |-> [type |-> "Added", about |-> W!Latest(o)]]
<1>3. f \in Surjection(exists, AddedOnes)
  BY DEF Surjection, AddedOnes
<1> QED BY <1>1, <1>2, <1>3, FS_Surjection

LEMMA OpenType ==
    ASSUME WatcherType, W!WatchOpens PROVE WatcherType'
<1>1. AddedOnes \subseteq W!Notification /\ IsFiniteSet(AddedOnes)
  BY AddedOnesFinite
<1>2. stream' = W!SetToSeq(AddedOnes)
  BY DEF W!WatchOpens, AddedOnes
<1>3. stream' \in Seq(AddedOnes)
  BY <1>1, <1>2, SequenceOfSet
<1>4. stream' \in Seq(W!Notification)
  BY <1>1, <1>3
<1>5. run' = "watching" /\ UNCHANGED <<exists, version, dropped>>
  BY DEF W!WatchOpens, W!cluster
<1>6. replayed' \in [Objects -> 0..FailureCap]
  BY ManagerConstants DEF W!WatchOpens, WatcherType, W!TypeOK
<1> QED BY <1>4, <1>5, <1>6 DEF WatcherType, W!TypeOK

LEMMA ProcessEventType ==
    ASSUME ChannelType, WatcherType, W!processEvent PROVE ChannelType' /\ WatcherType'
<1>1. stream \in Seq(W!Notification) /\ stream # << >> /\ stream' = Tail(stream)
  BY DEF W!processEvent, WatcherType, W!TypeOK
<1>2. PICK n \in W!Notification : n = Head(stream)
  BY <1>1, HeadTailProperties
<1>3. stream' \in Seq(W!Notification)
  BY <1>1, HeadTailProperties
<1>4. UNCHANGED <<run, exists, version, replayed>>
  BY DEF W!processEvent, W!cluster
<1>5. n.about \in W!Occurrence
  BY DEF W!Notification
<1>6. IF W!Relevant(n) THEN W!Deliver(n.about) ELSE UNCHANGED <<results, dropped>>
  BY <1>2 DEF W!processEvent
<1>7. CASE UNCHANGED <<results, dropped>>
  BY <1>3, <1>4, <1>7 DEF ChannelType, WatcherType, W!TypeOK
<1>8. CASE dropped' = dropped \cup {n.about} /\ UNCHANGED results
  BY <1>3, <1>4, <1>5, <1>8 DEF ChannelType, WatcherType, W!TypeOK
<1>9. CASE /\ Len(results) < ResultCap /\ UNCHANGED dropped
           /\ results' = Append(results, W!FailedResult(n.about))
  <2>1. n.about.object \in Objects
    BY <1>5 DEF W!Occurrence
  <2>2. W!FailedResult(n.about) \in AnyResult
    BY <1>5, <2>1, PipelineConstants DEF W!FailedResult, W!Result, AnyResult
  <2>3. ChannelType'
    BY <1>9, <2>2, AppendChannel
  <2> QED BY <1>3, <1>4, <1>9, <2>3 DEF WatcherType, W!TypeOK
<1> QED BY <1>6, <1>7, <1>8, <1>9 DEF W!Deliver

LEMMA WatchType ==
    ASSUME ChannelType, WatcherType, Watch PROVE ChannelType' /\ WatcherType'
<1>1. CASE W!WatchOpens
  <2>1. results' = results
    BY <1>1 DEF W!WatchOpens
  <2> QED BY <1>1, <2>1, OpenType DEF ChannelType
<1>2. CASE W!WatchFails \/ W!WatchBreaks \/ W!SeeCanceled \/ W!WaitOver
  <2>1. /\ run' \in {"opening", "waiting", "returned"} /\ stream' \in {stream, << >>}
        /\ UNCHANGED <<exists, version, results, dropped, replayed>>
    BY <1>2 DEF W!WatchFails, W!WatchBreaks, W!SeeCanceled, W!WaitOver, W!AfterError, W!cluster
  <2>2. stream' \in Seq(W!Notification)
    <3>1. stream \in Seq(W!Notification) /\ << >> \in Seq(W!Notification)
      BY DEF WatcherType, W!TypeOK
    <3> QED BY <2>1, <3>1
  <2> QED BY <2>1, <2>2 DEF ChannelType, WatcherType, W!TypeOK
<1> QED BY <1>1, <1>2, ProcessEventType DEF Watch, W!WatcherStep

LEMMA ClusterType ==
    ASSUME WatcherType, Cluster PROVE WatcherType' /\ results' = results
<1>1. PICK o \in Objects : W!Occurs(o) \/ W!Expires(o)
  BY DEF Cluster, W!ClusterStep
<1>2. UNCHANGED <<run, results, dropped, replayed>>
  BY <1>1 DEF W!Occurs, W!Expires
<1>3. ASSUME NEW t \in W!NotificationTypes, NEW x \in W!Occurrence, stream' = W!Notify(t, x)
      PROVE  stream' \in Seq(W!Notification)
  <2>1. [type |-> t, about |-> x] \in W!Notification
    BY DEF W!Notification
  <2>2. stream \in Seq(W!Notification)
    BY DEF WatcherType, W!TypeOK
  <2>3. Append(stream, [type |-> t, about |-> x]) \in Seq(W!Notification)
    BY <2>1, <2>2, AppendProperties
  <2> QED BY <1>3, <2>2, <2>3 DEF W!Notify
<1>4. CASE W!Occurs(o)
  <2>1. version[o] \in 0..MaxVersion[o] /\ version[o] < MaxVersion[o] /\ MaxVersion[o] \in Nat
    BY <1>4, PipelineConstants DEF W!Occurs, WatcherType, W!TypeOK
  <2>2. [object |-> o, version |-> version[o] + 1] \in W!Occurrence
    <3>1. version[o] + 1 \in 1..MaxVersion[o]
      BY <2>1
    <3>2. [object |-> o, version |-> version[o] + 1] \in [object : {o}, version : 1..MaxVersion[o]]
      BY <3>1
    <3> QED BY <3>2 DEF W!Occurrence
  <2>3. stream' \in Seq(W!Notification)
    BY <1>3, <1>4, <2>2 DEF W!Occurs, W!NotificationTypes
  <2>4. exists' = exists \cup {o} /\ version' = [version EXCEPT ![o] = version[o] + 1]
    BY <1>4 DEF W!Occurs
  <2> QED BY <1>2, <2>1, <2>3, <2>4 DEF WatcherType, W!TypeOK
<1>5. CASE W!Expires(o)
  <2>1. stream' \in Seq(W!Notification)
    BY <1>3, <1>5, LatestType DEF W!Expires, W!NotificationTypes
  <2>2. exists' \subseteq exists /\ version' = version
    BY <1>5 DEF W!Expires
  <2> QED BY <1>2, <2>1, <2>2 DEF WatcherType, W!TypeOK
<1> QED BY <1>1, <1>2, <1>4, <1>5

LEMMA PipelineTypeStep ==
    ASSUME PipelineType, [PipelineNext]_vars PROVE PipelineType'
<1> USE DEF PipelineType
<1>1. ASSUME UNCHANGED watcherVars PROVE WatcherType'
  BY <1>1 DEF watcherVars, WatcherType, W!TypeOK
<1>2. ASSUME UNCHANGED schedulerVars PROVE SchedulerType'
  BY <1>2 DEF schedulerVars, SchedulerType
<1>3. ASSUME UNCHANGED history PROVE HistoryType'
  BY <1>3 DEF history, HistoryType
<1>4. ASSUME UNCHANGED results PROVE ChannelType'
  BY <1>4 DEF ChannelType
<1>5. ASSUME NEW c \in Scheduled, Tick(c) PROVE PipelineType'
  BY <1>1, <1>3, <1>4, <1>5, TickType DEF Tick
<1>6. ASSUME NEW w \in Workers, BeginRun(w) PROVE PipelineType'
  BY <1>1, <1>4, <1>6, BeginRunType DEF BeginRun
<1>7. ASSUME NEW w \in Workers, EndRun(w) PROVE PipelineType'
  BY <1>1, <1>4, <1>7, EndRunType DEF EndRun
<1>8. ASSUME NEW w \in Workers, Report(w) PROVE PipelineType'
  BY <1>1, <1>3, <1>8, ReportType DEF Report
<1>9. CASE Watch
  BY <1>2, <1>3, <1>9, WatchType DEF Watch
<1>10. CASE Cluster
  BY <1>2, <1>3, <1>4, <1>10, ClusterType DEF Cluster
<1>11. CASE Receive
  BY <1>1, <1>2, <1>11, ReceiveType DEF Receive
<1>12. CASE ManagerStep \/ Stop \/ UNCHANGED vars
  <2>1. UNCHANGED <<results, schedulerVars, watcherVars, history>>
    BY <1>12 DEF ManagerStep, Stop, vars
  <2> QED BY <1>1, <1>2, <1>3, <1>4, <2>1
<1> QED BY <1>5, <1>6, <1>7, <1>8, <1>9, <1>10, <1>11, <1>12 DEF PipelineNext

LEMMA PipelineTypeInit == PipelineInit => PipelineType
<1> SUFFICES ASSUME PipelineInit PROVE PipelineType
  OBVIOUS
<1>1. ChannelType
  <2>1. results = << >> /\ ResultCap \in Nat
    BY PipelineConstants DEF PipelineInit
  <2>2. << >> \in Seq(AnyResult) /\ Len(<< >>) = 0
    OBVIOUS
  <2> QED BY <2>1, <2>2 DEF ChannelType
<1>2. SchedulerType
  <2>1. PICK agent \in Agents :
          /\ ticker = [c \in Scheduled |-> IF c \in agent.checks THEN "sending" ELSE "none"]
          /\ worker = [w \in Workers |-> IF w \in agent.workers THEN "idle" ELSE "none"]
    BY DEF PipelineInit
  <2>2. /\ jobs = << >> /\ job = [w \in Workers |-> "none"]
        /\ outcome = [w \in Workers |-> "none"]
    BY DEF PipelineInit
  <2>3. /\ ticker \in [Scheduled -> {"none", "sending"}]
        /\ worker \in [Workers -> {"none", "idle"}]
    BY <2>1
  <2> QED BY <2>2, <2>3 DEF SchedulerType
<1>3. WatcherType
  <2>1. /\ run \in {"opening", "off"} /\ exists = {} /\ version = [o \in Objects |-> 0]
        /\ stream = << >> /\ dropped = {} /\ replayed = [o \in Objects |-> 0]
    BY DEF PipelineInit, W!Init
  <2>2. \A o \in Objects : MaxVersion[o] \in Nat
    BY PipelineConstants
  <2>3. << >> \in Seq(W!Notification) /\ FailureCap \in Nat
    BY ManagerConstants
  <2> QED BY <2>1, <2>2, <2>3 DEF WatcherType, W!TypeOK
<1>4. HistoryType
  BY DEF PipelineInit, HistoryType
<1> QED BY <1>1, <1>2, <1>3, <1>4 DEF PipelineType

LEMMA PipelineTypeInvariant == PipelineSpec => []PipelineType
BY PipelineTypeInit, PipelineTypeStep, PTL DEF PipelineSpec

-----------------------------------------------------------------------------
(* The manager in the pipeline is the manager of IncidentManager *)

LEMMA ReceiveIsProcessResult ==
    ASSUME PipelineType, Receive PROVE Next \/ UNCHANGED managerVars
<1>1. results \in Seq(AnyResult) /\ results # << >>
  BY DEF PipelineType, ChannelType, Receive
<1>2. PICK r \in AnyResult : r = Head(results)
  BY <1>1, HeadTailProperties
<1>3. r.check \in Checks /\ Process(r.check, r.status)
  BY <1>2, ResultFields DEF Receive
<1>4. processResult(r.check) \/ UNCHANGED managerVars
  BY <1>3 DEF Process, processResult, NothingToResolve
<1> QED BY <1>3, <1>4 DEF Next

LEMMA PipelineStepIsManagerStep ==
    ASSUME PipelineType, [PipelineNext]_vars PROVE [Next]_managerVars
<1>1. CASE Receive
  BY <1>1, ReceiveIsProcessResult
<1>2. CASE ManagerStep
  <2>1. emit(Loop) \/ RunReturns
    BY <1>2 DEF ManagerStep
  <2>2. Loop \in Goroutines
    BY DEF Goroutines
  <2> QED BY <2>1, <2>2 DEF Next
<1>3. CASE Stop
  BY <1>3 DEF Stop, Next
<1>4. CASE \/ (\E c \in Scheduled : Tick(c))
           \/ (\E w \in Workers : BeginRun(w) \/ EndRun(w) \/ Report(w))
           \/ Watch \/ Cluster \/ UNCHANGED vars
  <2>1. UNCHANGED managerVars
    BY <1>4 DEF Tick, BeginRun, EndRun, Report, Watch, Cluster, vars
  <2> QED BY <2>1
<1> QED BY <1>1, <1>2, <1>3, <1>4 DEF PipelineNext

\* The incident manager, fed by the channel, is the manager that is fed any
\* result in any order: what is proved of IncidentManager holds in the pipeline
\* (Manager.Run reads the channel that runtime.New gave it).
THEOREM PipelineImplementsManager == PipelineSpec => Spec
<1>1. PipelineInit => Init
  BY DEF PipelineInit
<1>2. PipelineType /\ [PipelineNext]_vars => [Next]_managerVars
  BY PipelineStepIsManagerStep
<1> QED BY <1>1, <1>2, PipelineTypeInvariant, PTL DEF PipelineSpec, Spec

\* PipelineTypeOK, for any number of checks, workers and objects: what the
\* scheduler and the watcher write to the channel is a result of a known check,
\* and the channel keeps its capacity although two kinds of writers share it.
THEOREM PipelineTypeCorrect == PipelineSpec => []PipelineTypeOK
<1>1. TypeOK /\ PipelineType => PipelineTypeOK
  BY DEF PipelineType, ChannelType, WatcherType, HistoryType, AnyResult, PipelineTypeOK
<1> QED BY <1>1, PipelineTypeInvariant, PipelineImplementsManager, TypeCorrect, PTL

\* The manager's map and the bucket agree in the pipeline.
THEOREM PipelineDiskConsistent ==
    ASSUME ~ClockStepsBack PROVE PipelineSpec => []DiskMatchesMemory
BY PipelineImplementsManager, DiskConsistent, PTL

-----------------------------------------------------------------------------
(* The newest run decides *)

\* The last result of c in the channel is the newest run's, and if there is
\* none, the manager has taken it.
Settled(c) ==
    /\ \A i \in 1..Len(results) :
         results[i].check = c /\ (\A j \in 1..Len(results) : i < j => results[j].check # c)
           => results[i].status = newest[c]
    /\ (\A i \in 1..Len(results) : results[i].check # c) =>
         (c \in DOMAIN active <=> newest[c] # "healthy")

\* Of a check that is not overtaken at most one run is under way; its result
\* is on its way to the channel, or there.
Undisputed(c) ==
    /\ \A v, w \in Busy(c) : v = w
    /\ \A w \in Busy(c) : worker[w] = "delivering" => outcome[w] = newest[c]
    /\ ctx = "live" /\ newest[c] # "none" /\ Busy(c) = {} => Settled(c)

NewestInv == \A c \in Scheduled \ overtaken : Undisputed(c)

LEMMA NewestInit == PipelineInit => NewestInv
BY DEF PipelineInit, NewestInv, Undisputed, Busy

\* A result is appended behind the others.
LEMMA SettledByAppend ==
    ASSUME ChannelType, NEW c \in Scheduled, NEW r \in AnyResult,
           results' = Append(results, r), UNCHANGED <<active, newest>>,
           IF r.check = c THEN r.status = newest[c] ELSE Settled(c)
    PROVE  Settled(c)'
<1>1. results \in Seq(AnyResult) /\ Len(results) \in Nat
  BY LenProperties DEF ChannelType
<1>2. /\ Len(results') = Len(results) + 1 /\ results'[Len(results) + 1] = r
      /\ \A i \in 1..Len(results) : results'[i] = results[i]
  BY <1>1, AppendProperties
<1>3. ASSUME NEW i \in 1..Len(results'), results'[i].check = c,
             \A j \in 1..Len(results') : i < j => results'[j].check # c
      PROVE  results'[i].status = newest[c]
  <2>1. CASE i = Len(results) + 1
    BY <1>2, <1>3, <2>1
  <2>2. CASE i \in 1..Len(results)
    <3>1. r.check # c
      BY <1>1, <1>2, <1>3, <2>2
    <3>2. results[i].check = c /\ \A j \in 1..Len(results) : i < j => results[j].check # c
      BY <1>1, <1>2, <1>3, <2>2
    <3> QED BY <1>2, <2>2, <3>1, <3>2 DEF Settled
  <2> QED BY <1>1, <1>2, <2>1, <2>2
<1>4. ASSUME \A i \in 1..Len(results') : results'[i].check # c
      PROVE  c \in DOMAIN active <=> newest[c] # "healthy"
  <2>1. r.check # c /\ \A i \in 1..Len(results) : results[i].check # c
    BY <1>1, <1>2, <1>4
  <2> QED BY <2>1 DEF Settled
<1> QED BY <1>3, <1>4 DEF Settled

\* The manager takes the head of the channel.
LEMMA SettledByReceive ==
    ASSUME PipelineType, NEW c \in Scheduled, Receive, Settled(c)
    PROVE  Settled(c)'
<1>1. results \in Seq(AnyResult) /\ results # << >> /\ results' = Tail(results)
  BY DEF PipelineType, ChannelType, Receive
<1>2. PICK r \in AnyResult : r = Head(results)
  BY <1>1, HeadTailProperties
<1>3. /\ Len(results) \in Nat \ {0} /\ Len(results') = Len(results) - 1 /\ r = results[1]
      /\ \A i \in 1..Len(results') : results'[i] = results[i + 1]
  BY <1>1, <1>2, HeadTailProperties, EmptySeq
<1>4. \A i \in 1..Len(results') : i + 1 \in 1..Len(results)
  BY <1>3
<1>5. newest' = newest /\ Process(r.check, r.status)
  BY <1>2 DEF Receive
<1>6. ASSUME NEW i \in 1..Len(results'), results'[i].check = c,
             \A j \in 1..Len(results') : i < j => results'[j].check # c
      PROVE  results'[i].status = newest[c]
  <2>1. results[i + 1].check = c /\ i + 1 \in 1..Len(results)
    BY <1>3, <1>4, <1>6
  <2>2. ASSUME NEW j \in 1..Len(results), i + 1 < j PROVE results[j].check # c
    <3>1. j - 1 \in 1..Len(results') /\ i < j - 1 /\ (j - 1) + 1 = j
      BY <1>3, <2>2
    <3> QED BY <1>3, <1>6, <3>1
  <2> QED BY <1>3, <2>1, <2>2 DEF Settled
<1>7. ASSUME \A i \in 1..Len(results') : results'[i].check # c
      PROVE  c \in DOMAIN active' <=> newest[c] # "healthy"
  <2>1. ASSUME NEW j \in 1..Len(results), 1 < j PROVE results[j].check # c
    <3>1. j - 1 \in 1..Len(results') /\ (j - 1) + 1 = j
      BY <1>3, <2>1
    <3> QED BY <1>3, <1>7, <3>1
  <2>2. CASE r.check = c
    <3>1. r.status = newest[c]
      BY <1>3, <2>1, <2>2 DEF Settled
    <3>2. r.status = "healthy" => c \notin DOMAIN active'
      BY <1>5, <2>2 DEF Process, ResultHealthy, resolveIncidentLocked, NothingToResolve, Delete,
                        Restrict, managerVars
    <3>3. r.status # "healthy" => c \in DOMAIN active'
      BY <1>5, <2>2 DEF Process, ResultFailedFirst, ResultFailedAgain, Put
    <3> QED BY <3>1, <3>2, <3>3
  <2>3. CASE r.check # c
    <3>1. \A j \in 1..Len(results) : results[j].check # c
      BY <1>3, <2>1, <2>3
    <3>2. c \in DOMAIN active' <=> c \in DOMAIN active
      BY <1>5, <2>3 DEF Process, ResultHealthy, resolveIncidentLocked, NothingToResolve, Delete,
                        Restrict, managerVars, ResultFailedFirst, ResultFailedAgain, Put
    <3> QED BY <3>1, <3>2 DEF Settled
  <2> QED BY <2>2, <2>3
<1> QED BY <1>5, <1>6, <1>7 DEF Settled

LEMMA NewestByBeginRun ==
    ASSUME PipelineType, NewestInv, NEW w \in Workers, BeginRun(w)
    PROVE  NewestInv'
<1> USE DEF S!control, S!goroutines
<1>1. /\ worker[w] = "idle" /\ worker' = [worker EXCEPT ![w] = "running"]
      /\ job' = [job EXCEPT ![w] = job'[w]]
      /\ UNCHANGED <<active, ctx, outcome, results, newest>>
  BY DEF BeginRun, S!WorkerTake, managerVars, PipelineType, SchedulerType
<1>2. worker \in [Workers -> {"none", "idle", "running", "delivering", "exited"}]
      /\ job \in [Workers -> Scheduled \cup {"none"}]
  BY DEF PipelineType, SchedulerType
<1> DEFINE d == job'[w]
<1>3. overtaken' = IF Busy(d) = {} THEN overtaken \ {d} ELSE overtaken \cup {d}
  BY DEF BeginRun
<1>4. \A c \in Scheduled : Busy(c)' = IF c = d THEN Busy(c) \cup {w} ELSE Busy(c)
  BY <1>1, <1>2 DEF Busy
<1> SUFFICES ASSUME NEW c \in Scheduled \ overtaken' PROVE Undisputed(c)'
  BY DEF NewestInv
<1>5. CASE c = d
  <2>1. Busy(c)' = {w}
    BY <1>3, <1>4, <1>5
  <2>2. worker'[w] = "running"
    BY <1>1, <1>2
  <2> QED BY <2>1, <2>2 DEF Undisputed
<1>6. CASE c # d
  <2>1. Undisputed(c) /\ Busy(c)' = Busy(c)
    BY <1>3, <1>4, <1>6 DEF NewestInv
  <2>2. \A v \in Busy(c) : v # w /\ worker'[v] = worker[v]
    BY <1>1, <1>2 DEF Busy
  <2>3. Settled(c)' <=> Settled(c)
    BY <1>1 DEF Settled
  <2> QED BY <1>1, <2>1, <2>2, <2>3 DEF Undisputed
<1> QED BY <1>5, <1>6

LEMMA NewestByEndRun ==
    ASSUME PipelineType, NewestInv, NEW w \in Workers, EndRun(w)
    PROVE  NewestInv'
<1> USE DEF S!control, S!goroutines
<1>1. /\ worker[w] = "running" /\ worker' = [worker EXCEPT ![w] = "delivering"]
      /\ outcome' = [outcome EXCEPT ![w] = outcome'[w]]
      /\ newest' = [newest EXCEPT ![job[w]] = outcome'[w]]
      /\ UNCHANGED <<active, ctx, job, results, overtaken>>
  BY DEF EndRun, S!WorkerRan, managerVars, PipelineType, SchedulerType
<1>2. /\ worker \in [Workers -> {"none", "idle", "running", "delivering", "exited"}]
      /\ outcome \in [Workers -> Outcomes \cup {"none"}]
      /\ newest \in [Scheduled -> Outcomes \cup {"none"}]
      /\ job[w] \in Scheduled
  BY <1>1 DEF PipelineType, SchedulerType, HistoryType
<1>3. \A c \in Scheduled : Busy(c)' = Busy(c)
  BY <1>1, <1>2 DEF Busy
<1> SUFFICES ASSUME NEW c \in Scheduled \ overtaken PROVE Undisputed(c)'
  BY <1>1 DEF NewestInv
<1>4. Undisputed(c)
  BY DEF NewestInv
<1>5. CASE c = job[w]
  <2>1. w \in Busy(c) /\ newest'[c] = outcome'[w]
    BY <1>1, <1>2, <1>5 DEF Busy
  <2> QED BY <1>3, <1>4, <2>1 DEF Undisputed
<1>6. CASE c # job[w]
  <2>1. newest'[c] = newest[c] /\ w \notin Busy(c)
    BY <1>1, <1>2, <1>6 DEF Busy
  <2>2. \A v \in Busy(c) : worker'[v] = worker[v] /\ outcome'[v] = outcome[v]
    BY <1>1, <1>2, <2>1 DEF Busy
  <2>3. Settled(c)' <=> Settled(c)
    BY <1>1, <2>1 DEF Settled
  <2> QED BY <1>1, <1>3, <1>4, <2>1, <2>2, <2>3 DEF Undisputed
<1> QED BY <1>5, <1>6

LEMMA NewestByReport ==
    ASSUME PipelineType, NewestInv, NEW w \in Workers, Report(w)
    PROVE  NewestInv'
<1> USE DEF S!control, S!goroutines
<1>1. /\ worker[w] \in {"idle", "delivering"}
      /\ worker' \in {[worker EXCEPT ![w] = "idle"], [worker EXCEPT ![w] = "exited"]}
      /\ job' = [job EXCEPT ![w] = "none"] /\ outcome' = [outcome EXCEPT ![w] = "none"]
      /\ UNCHANGED <<active, ctx, newest, overtaken>>
  BY DEF Report, S!WorkerDeliver, S!WorkerExit, S!Forget, managerVars, history
<1>2. /\ worker \in [Workers -> {"none", "idle", "running", "delivering", "exited"}]
      /\ job \in [Workers -> Scheduled \cup {"none"}]
      /\ outcome \in [Workers -> Outcomes \cup {"none"}]
  BY DEF PipelineType, SchedulerType
<1>3. \A c \in Scheduled : Busy(c)' = Busy(c) \ {w}
  BY <1>1, <1>2 DEF Busy
<1>4. \A v \in Workers : v # w => worker'[v] = worker[v] /\ outcome'[v] = outcome[v]
  BY <1>1, <1>2
<1> SUFFICES ASSUME NEW c \in Scheduled \ overtaken PROVE Undisputed(c)'
  BY <1>1 DEF NewestInv
<1>5. Undisputed(c) /\ Busy(c) \subseteq Workers
  BY DEF NewestInv, Busy
<1>6. /\ \A u, v \in Busy(c)' : u = v
      /\ \A v \in Busy(c)' : worker'[v] = "delivering" => outcome'[v] = newest'[c]
  BY <1>1, <1>3, <1>4, <1>5 DEF Undisputed
<1>7. ASSUME ctx = "live", newest[c] # "none", Busy(c)' = {} PROVE Settled(c)'
  <2>1. Busy(c) = {} => Settled(c)
    BY <1>5, <1>7 DEF Undisputed
  <2>2. CASE S!WorkerExit(w)
    <3>1. worker[w] = "idle" /\ results' = results
      BY <1>7, <2>2 DEF S!WorkerExit, S!Canceled
    <3>2. Busy(c) = {}
      BY <1>3, <1>7, <3>1 DEF Busy
    <3> QED BY <1>1, <2>1, <3>1, <3>2 DEF Settled
  <2>3. CASE S!WorkerDeliver(w)
    <3> DEFINE r == [check |-> job[w], status |-> outcome[w]]
    <3>1. worker[w] = "delivering" /\ results' = Append(results, r)
      BY <2>3 DEF S!WorkerDeliver
    <3>2. r \in AnyResult
      BY <3>1 DEF PipelineType, SchedulerType, AnyResult, S!CheckResult
    <3>3. r.check = job[w] /\ r.status = outcome[w]
      OBVIOUS
    <3> HIDE DEF r
    <3>4. IF r.check = c THEN r.status = newest[c] ELSE Settled(c)
      <4>1. CASE job[w] = c
        <5>1. w \in Busy(c)
          BY <3>1, <4>1 DEF Busy
        <5> QED BY <1>5, <3>1, <3>3, <4>1, <5>1 DEF Undisputed
      <4>2. CASE job[w] # c
        <5>1. Busy(c) = {}
          BY <1>3, <1>7, <4>2 DEF Busy
        <5> QED BY <2>1, <3>3, <4>2, <5>1
      <4> QED BY <4>1, <4>2
    <3> QED BY <1>1, <3>1, <3>2, <3>4, SettledByAppend DEF PipelineType
  <2> QED BY <2>2, <2>3 DEF Report
<1> QED BY <1>1, <1>6, <1>7 DEF Undisputed

LEMMA NewestByWatch ==
    ASSUME PipelineType, NewestInv, Watch PROVE NewestInv'
<1>1. UNCHANGED <<active, ctx, worker, job, outcome, newest, overtaken>>
  BY DEF Watch, managerVars, schedulerVars, history
<1> SUFFICES ASSUME NEW c \in Scheduled \ overtaken PROVE Undisputed(c)'
  BY <1>1 DEF NewestInv
<1>2. Undisputed(c) /\ Busy(c)' = Busy(c)
  BY <1>1 DEF NewestInv, Busy
<1>3. ASSUME Settled(c) PROVE Settled(c)'
  <2>1. CASE results' = results
    BY <1>1, <1>3, <2>1 DEF Settled
  <2>2. CASE W!processEvent /\ results' # results
    <3>1. stream \in Seq(W!Notification) /\ stream # << >>
      BY <2>2 DEF W!processEvent, PipelineType, WatcherType, W!TypeOK
    <3>2. PICK n \in W!Notification : n = Head(stream)
      BY <3>1, HeadTailProperties
    <3>3. n.about \in W!Occurrence /\ results' = Append(results, W!FailedResult(n.about))
      BY <2>2, <3>2 DEF W!processEvent, W!Deliver, W!Notification
    <3>4. n.about.object \in Objects
      BY <3>3 DEF W!Occurrence
    <3>5. W!FailedResult(n.about) \in AnyResult /\ W!FailedResult(n.about).check # c
      BY <3>3, <3>4, PipelineConstants DEF W!FailedResult, W!Result, AnyResult
    <3> HIDE DEF W!FailedResult
    <3> QED BY <1>1, <1>3, <3>3, <3>5, SettledByAppend DEF PipelineType
  <2>3. W!processEvent \/ results' = results
    BY DEF Watch, W!WatcherStep, W!WatchOpens, W!WatchFails, W!WatchBreaks, W!SeeCanceled,
           W!WaitOver
  <2> QED BY <2>1, <2>2, <2>3
<1> QED BY <1>1, <1>2, <1>3 DEF Undisputed

LEMMA NewestByReceive ==
    ASSUME PipelineType, NewestInv, Receive PROVE NewestInv'
<1>1. UNCHANGED <<worker, job, outcome, newest, overtaken>>
  BY DEF Receive, schedulerVars
<1>2. ctx' = ctx
  BY DEF Receive, Process, ResultHealthy, ResultFailedFirst, ResultFailedAgain,
         NothingToResolve, lifecycle, managerVars
<1> SUFFICES ASSUME NEW c \in Scheduled \ overtaken PROVE Undisputed(c)'
  BY <1>1 DEF NewestInv
<1>3. Undisputed(c) /\ Busy(c)' = Busy(c)
  BY <1>1 DEF NewestInv, Busy
<1>4. Settled(c) => Settled(c)'
  BY SettledByReceive
<1> QED BY <1>1, <1>2, <1>3, <1>4 DEF Undisputed

LEMMA NewestStep ==
    ASSUME PipelineType, NewestInv, [PipelineNext]_vars PROVE NewestInv'
<1>1. CASE \/ (\E c \in Scheduled : Tick(c)) \/ Cluster \/ ManagerStep \/ Stop \/ UNCHANGED vars
  <2>1. UNCHANGED <<worker, job, outcome, results, newest, overtaken, active>>
    BY <1>1 DEF Tick, S!TickerSend, S!TickerTick, S!TickerExit, S!goroutines, S!control, Cluster,
                W!ClusterStep, W!Occurs, W!Expires, ManagerStep, emit, RunReturns, Stop, Cancel,
                vars, managerVars, schedulerVars, history
  <2>2. ctx' = "live" => ctx = "live"
    BY <1>1 DEF Tick, Cluster, ManagerStep, emit, RunReturns, Stop, Cancel, vars, managerVars
  <2>3. \A c : (Busy(c)' = Busy(c)) /\ (Settled(c)' <=> Settled(c))
    BY <2>1 DEF Busy, Settled
  <2> QED BY <2>1, <2>2, <2>3 DEF NewestInv, Undisputed
<1> QED BY <1>1, NewestByBeginRun, NewestByEndRun, NewestByReport, NewestByWatch,
           NewestByReceive DEF PipelineNext

\* NewestRunDecides: whatever the number of workers and the capacity of the
\* channel, once nothing of a check is under way its incident tells the result
\* of its newest run, unless that run began beside another one
\* (Scheduler.worker, Watcher.processEvent and Manager.processResult).
THEOREM NewestResultWins == PipelineSpec => []NewestRunDecides
<1>1. PipelineType /\ NewestInv => NewestRunDecides
  <2> SUFFICES ASSUME PipelineType, NewestInv, NEW c \in Scheduled \ overtaken,
                      ctx = "live", newest[c] # "none", Busy(c) = {},
                      \A i \in DOMAIN results : results[i].check # c
               PROVE  c \in DOMAIN active <=> newest[c] # "healthy"
    BY DEF NewestRunDecides
  <2>1. DOMAIN results = 1..Len(results)
    BY LenProperties DEF PipelineType, ChannelType
  <2> QED BY <2>1 DEF NewestInv, Undisputed, Settled
<1> QED BY <1>1, NewestInit, NewestStep, PipelineTypeInvariant, PTL DEF PipelineSpec

-----------------------------------------------------------------------------
(* The watcher catches up *)

\* An occurrence that the agent has seen, or has dropped.
Handled(x) ==
    \/ x \in taken \cup dropped
    \/ \E i \in 1..Len(results) : "about" \in DOMAIN results[i] /\ results[i].about = x

\* An occurrence that the open watch is about to report.
Notified(x) ==
    \E i \in 1..Len(stream) : stream[i].type \in {"Added", "Modified"} /\ stream[i].about = x

CatchUpInv ==
    run = "watching" =>
       \A o \in exists \cap Failures : Handled(W!Latest(o)) \/ Notified(W!Latest(o))

LEMMA HandledByAppend ==
    ASSUME ChannelType, NEW r, NEW x, Handled(x), r \in AnyResult,
           results' = Append(results, r), UNCHANGED <<taken, dropped>>
    PROVE  Handled(x)'
<1>1. results \in Seq(AnyResult) /\ Len(results) \in Nat
  BY LenProperties DEF ChannelType
<1>2. /\ Len(results') = Len(results) + 1
      /\ \A i \in 1..Len(results) : i \in 1..Len(results') /\ results'[i] = results[i]
  BY <1>1, AppendProperties
<1> QED BY <1>2 DEF Handled

LEMMA HandledByReceive ==
    ASSUME PipelineType, NEW x, Handled(x), Receive
    PROVE  Handled(x)'
<1>1. results \in Seq(AnyResult) /\ results # << >> /\ results' = Tail(results)
  BY DEF PipelineType, ChannelType, Receive
<1>2. PICK r \in AnyResult : r = Head(results)
  BY <1>1, HeadTailProperties
<1>3. /\ Len(results) \in Nat \ {0} /\ Len(results') = Len(results) - 1 /\ r = results[1]
      /\ \A i \in 1..Len(results') : results'[i] = results[i + 1]
  BY <1>1, <1>2, HeadTailProperties, EmptySeq
<1>4. taken' = IF "about" \in DOMAIN r THEN taken \cup {r.about} ELSE taken
  BY <1>2 DEF Receive
<1>5. dropped' = dropped
  BY DEF Receive, watcherVars
<1>6. CASE x \in taken \cup dropped
  BY <1>4, <1>5, <1>6 DEF Handled
<1>7. ASSUME NEW i \in 1..Len(results), "about" \in DOMAIN results[i], results[i].about = x
      PROVE  Handled(x)'
  <2>1. CASE i = 1
    BY <1>3, <1>4, <1>7, <2>1 DEF Handled
  <2>2. CASE i # 1
    <3>1. i - 1 \in 1..Len(results') /\ (i - 1) + 1 = i
      BY <1>3, <2>2
    <3>2. results'[i - 1] = results[i]
      BY <1>3, <3>1
    <3> QED BY <1>7, <3>1, <3>2 DEF Handled
  <2> QED BY <2>1, <2>2
<1> QED BY <1>6, <1>7 DEF Handled

\* What processEvent takes from the stream is delivered, dropped or irrelevant.
LEMMA CatchUpByProcessEvent ==
    ASSUME PipelineType, CatchUpInv, W!processEvent, UNCHANGED taken
    PROVE  CatchUpInv'
<1>1. stream \in Seq(W!Notification) /\ stream # << >> /\ stream' = Tail(stream)
  BY DEF W!processEvent, PipelineType, WatcherType, W!TypeOK
<1>2. PICK n \in W!Notification : n = Head(stream)
  BY <1>1, HeadTailProperties
<1>3. /\ Len(stream) \in Nat \ {0} /\ Len(stream') = Len(stream) - 1 /\ n = stream[1]
      /\ \A i \in 1..Len(stream') : stream'[i] = stream[i + 1]
  BY <1>1, <1>2, HeadTailProperties, EmptySeq
<1>4. run = "watching" /\ UNCHANGED <<exists, version>>
  BY DEF W!processEvent, W!cluster
<1>5. IF W!Relevant(n) THEN W!Deliver(n.about) ELSE UNCHANGED <<results, dropped>>
  BY <1>2 DEF W!processEvent
<1>6. n.about \in W!Occurrence
  BY DEF W!Notification
<1>7. W!FailedResult(n.about) \in AnyResult
  <2>1. n.about.object \in Objects
    BY <1>6 DEF W!Occurrence
  <2> QED BY <1>6, <2>1, PipelineConstants DEF W!FailedResult, W!Result, AnyResult
<1>8. ASSUME NEW x, Handled(x) PROVE Handled(x)'
  <2>1. CASE UNCHANGED results /\ dropped \subseteq dropped'
    BY <1>8, <2>1 DEF Handled
  <2>2. CASE results' = Append(results, W!FailedResult(n.about)) /\ UNCHANGED dropped
    BY <1>7, <1>8, <2>2, HandledByAppend DEF PipelineType
  <2> QED BY <1>5, <2>1, <2>2 DEF W!Deliver
<1>9. ASSUME W!Relevant(n) PROVE Handled(n.about)'
  <2>1. CASE dropped' = dropped \cup {n.about}
    BY <2>1 DEF Handled
  <2>2. CASE results' = Append(results, W!FailedResult(n.about))
    <3> DEFINE r == W!FailedResult(n.about)
    <3>1. r.about = n.about /\ "about" \in DOMAIN r
      BY DEF W!FailedResult
    <3> HIDE DEF r
    <3>2. results \in Seq(AnyResult) /\ r \in AnyResult
      BY <1>7 DEF r, PipelineType, ChannelType
    <3>3. Len(results') \in 1..Len(results') /\ results'[Len(results')] = r
      BY <2>2, <3>2, AppendProperties, LenProperties DEF r
    <3> QED BY <3>1, <3>3 DEF Handled
  <2> QED BY <1>5, <1>9, <2>1, <2>2 DEF W!Deliver
<1>10. ASSUME NEW o \in exists \cap Failures, Notified(W!Latest(o))
       PROVE  Handled(W!Latest(o))' \/ Notified(W!Latest(o))'
  <2>1. PICK i \in 1..Len(stream) :
           stream[i].type \in {"Added", "Modified"} /\ stream[i].about = W!Latest(o)
    BY <1>10 DEF Notified
  <2>2. W!Latest(o)' = W!Latest(o) /\ W!Latest(o).object = o
    BY <1>4 DEF W!Latest
  <2>3. CASE i = 1
    BY <1>3, <1>9, <2>1, <2>2, <2>3 DEF W!Relevant
  <2>4. CASE i # 1
    <3>1. i - 1 \in 1..Len(stream') /\ (i - 1) + 1 = i
      BY <1>3, <2>4
    <3>2. stream'[i - 1] = stream[i]
      BY <1>3, <3>1
    <3> QED BY <2>1, <2>2, <3>1, <3>2 DEF Notified
  <2> QED BY <2>3, <2>4
<1>11. \A o : W!Latest(o)' = W!Latest(o)
  BY <1>4 DEF W!Latest
<1> QED BY <1>4, <1>8, <1>10, <1>11 DEF CatchUpInv

\* A watch starts with a notification for every object.
LEMMA CatchUpByOpen ==
    ASSUME PipelineType, W!WatchOpens PROVE CatchUpInv'
<1>1. IsFiniteSet(AddedOnes)
  BY AddedOnesFinite DEF PipelineType
<1>2. stream' = W!SetToSeq(AddedOnes) /\ UNCHANGED <<exists, version>>
  BY DEF W!WatchOpens, AddedOnes, W!cluster
<1>3. ASSUME NEW o \in exists PROVE Notified(W!Latest(o))'
  <2>1. [type |-> "Added", about |-> W!Latest(o)] \in AddedOnes
    BY DEF AddedOnes
  <2>2. PICK i \in 1..Len(stream') : stream'[i] = [type |-> "Added", about |-> W!Latest(o)]
    BY <1>1, <1>2, <2>1, SequenceOfSet
  <2>3. stream'[i].type = "Added" /\ stream'[i].about = W!Latest(o)
    BY <2>2
  <2>4. W!Latest(o)' = W!Latest(o)
    BY <1>2 DEF W!Latest
  <2> QED BY <2>3, <2>4 DEF Notified
<1> QED BY <1>2, <1>3 DEF CatchUpInv

\* An open watch is told of every change.
LEMMA CatchUpByCluster ==
    ASSUME PipelineType, CatchUpInv, Cluster PROVE CatchUpInv'
<1>1. PICK o \in Objects : W!Occurs(o) \/ W!Expires(o)
  BY DEF Cluster, W!ClusterStep
<1>2. UNCHANGED <<run, results, dropped, taken>>
  BY <1>1 DEF W!Occurs, W!Expires, Cluster, history
<1>3. PICK n : stream' = IF run = "watching" THEN Append(stream, n) ELSE stream
  BY <1>1 DEF W!Occurs, W!Expires, W!Notify
<1>4. stream \in Seq(W!Notification) /\ stream' \in Seq(W!Notification)
  BY ClusterType DEF PipelineType, WatcherType, W!TypeOK
<1>5. ASSUME run = "watching", NEW x, Notified(x) PROVE Notified(x)'
  <2>1. stream' = Append(stream, n)
    BY <1>3, <1>5
  <2>2. Len(stream) \in Nat /\ Len(stream') = Len(stream) + 1
        /\ \A i \in 1..Len(stream) : stream'[i] = stream[i]
    BY <1>4, <2>1
  <2> QED BY <1>5, <2>2 DEF Notified
<1>6. \A x : Handled(x) => Handled(x)'
  BY <1>2 DEF Handled
<1>7. version \in [Objects -> Nat]
  BY DEF PipelineType, WatcherType
<1>8. CASE W!Expires(o)
  <2>1. exists' \subseteq exists /\ \A p : W!Latest(p)' = W!Latest(p)
    BY <1>8 DEF W!Expires, W!Latest
  <2> QED BY <1>2, <1>5, <1>6, <2>1 DEF CatchUpInv
<1>9. CASE W!Occurs(o)
  <2>1. /\ exists' = exists \cup {o} /\ version' = [version EXCEPT ![o] = version[o] + 1]
    BY <1>9 DEF W!Occurs
  <2>2. \A p \in Objects : p # o => W!Latest(p)' = W!Latest(p)
    BY <1>7, <2>1 DEF W!Latest
  <2>3. ASSUME run = "watching" PROVE Notified(W!Latest(o))'
    <3>1. PICK t \in {"Added", "Modified"} :
             stream' = Append(stream, [type |-> t, about |-> [object |-> o, version |-> version[o] + 1]])
      BY <1>9, <2>3 DEF W!Occurs, W!Notify
    <3>2. W!Latest(o)' = [object |-> o, version |-> version[o] + 1]
      BY <1>7, <2>1 DEF W!Latest
    <3> DEFINE m == [type |-> t, about |-> [object |-> o, version |-> version[o] + 1]]
    <3>3. m.type = t /\ m.about = W!Latest(o)'
      BY <3>2
    <3>4. stream' = Append(stream, m)
      BY <3>1
    <3> HIDE DEF m
    <3>5. Len(stream) + 1 \in 1..Len(stream') /\ stream'[Len(stream) + 1] = m
      BY <1>4, <3>4
    <3> QED BY <3>3, <3>5 DEF Notified
  <2>4. exists \subseteq Objects
    BY DEF PipelineType, WatcherType, W!TypeOK
  <2> QED BY <1>2, <1>5, <1>6, <2>1, <2>2, <2>3, <2>4 DEF CatchUpInv
<1> QED BY <1>1, <1>8, <1>9

LEMMA CatchUpStep ==
    ASSUME PipelineType, CatchUpInv, [PipelineNext]_vars PROVE CatchUpInv'
<1>1. ASSUME UNCHANGED <<run, exists, version, stream, dropped>>,
             \A x : Handled(x) => Handled(x)'
      PROVE  CatchUpInv'
  <2>1. \A o : W!Latest(o)' = W!Latest(o)
    BY <1>1 DEF W!Latest
  <2>2. \A x : Notified(x)' <=> Notified(x)
    BY <1>1 DEF Notified
  <2> QED BY <1>1, <2>1, <2>2 DEF CatchUpInv
<1>2. CASE Receive
  <2>1. UNCHANGED <<run, exists, version, stream, dropped>>
    BY <1>2 DEF Receive, watcherVars
  <2> QED BY <1>1, <1>2, <2>1, HandledByReceive
<1>3. ASSUME NEW w \in Workers, Report(w) PROVE CatchUpInv'
  <2>1. UNCHANGED <<run, exists, version, stream, dropped, taken>>
    BY <1>3 DEF Report, watcherVars, history
  <2>2. ASSUME NEW x, Handled(x) PROVE Handled(x)'
    <3>1. CASE S!WorkerDeliver(w)
      <4>1. [check |-> job[w], status |-> outcome[w]] \in AnyResult
        BY <3>1 DEF S!WorkerDeliver, S!CheckResult, AnyResult, PipelineType, SchedulerType
      <4>2. results' = Append(results, [check |-> job[w], status |-> outcome[w]])
        BY <3>1 DEF S!WorkerDeliver
      <4> QED BY <2>1, <2>2, <4>1, <4>2, HandledByAppend DEF PipelineType
    <3>2. CASE S!WorkerExit(w)
      <4>1. results' = results
        BY <3>2 DEF S!WorkerExit
      <4> QED BY <2>1, <2>2, <4>1 DEF Handled
    <3> QED BY <1>3, <3>1, <3>2 DEF Report
  <2> QED BY <1>1, <2>1, <2>2
<1>4. CASE \/ (\E c \in Scheduled : Tick(c)) \/ (\E w \in Workers : BeginRun(w) \/ EndRun(w))
           \/ ManagerStep \/ Stop \/ UNCHANGED vars
  <2>1. UNCHANGED <<run, exists, version, stream, dropped, taken, results>>
    BY <1>4 DEF Tick, S!TickerSend, S!TickerTick, S!TickerExit, BeginRun, S!WorkerTake, EndRun,
                S!WorkerRan, ManagerStep, Stop, vars, watcherVars, history
  <2>2. \A x : Handled(x) => Handled(x)'
    BY <2>1 DEF Handled
  <2> QED BY <1>1, <2>1, <2>2
<1>5. CASE Watch
  <2>1. CASE W!WatchFails \/ W!WatchBreaks \/ W!SeeCanceled \/ W!WaitOver
    <3>1. run' # "watching"
      BY <2>1 DEF W!WatchFails, W!WatchBreaks, W!SeeCanceled, W!WaitOver, W!AfterError
    <3> QED BY <3>1 DEF CatchUpInv
  <2>2. CASE W!processEvent
    BY <1>5, <2>2, CatchUpByProcessEvent DEF Watch, history
  <2> QED BY <1>5, <2>1, <2>2, CatchUpByOpen DEF Watch, W!WatcherStep
<1> QED BY <1>2, <1>3, <1>4, <1>5, CatchUpByCluster DEF PipelineNext

\* CaughtUp, for any number of objects, versions and workers: an open watch whose
\* notifications are all processed leaves no latest occurrence of a failure that
\* was neither delivered nor dropped on the full channel (watchEvents,
\* processEvent).
THEOREM WatcherCatchesUp == PipelineSpec => []CaughtUp
<1>1. PipelineType /\ CatchUpInv => CaughtUp
  <2> SUFFICES ASSUME PipelineType, CatchUpInv, run = "watching", stream = << >>,
                      NEW o \in exists \cap Failures
               PROVE  \/ W!Latest(o) \in taken \cup dropped
                      \/ \E i \in DOMAIN results :
                           "about" \in DOMAIN results[i] /\ results[i].about = W!Latest(o)
    BY DEF CaughtUp
  <2>1. ~Notified(W!Latest(o))
    BY DEF Notified
  <2>2. DOMAIN results = 1..Len(results)
    BY LenProperties DEF PipelineType, ChannelType
  <2> QED BY <2>1, <2>2 DEF CatchUpInv, Handled
<1>2. PipelineInit => CatchUpInv
  BY DEF PipelineInit, W!Init, CatchUpInv
<1> QED BY <1>1, <1>2, CatchUpStep, PipelineTypeInvariant, PTL DEF PipelineSpec

-----------------------------------------------------------------------------
(* Counting *)

\* The places of a diagram with a column of height w[o] for each o in Keys.
Area(Keys, w) == UNION {{o} \X (1..w[o]) : o \in Keys}

\* How many entries of the sequence s are in M.
HowMany(s, M) == Cardinality({i \in 1..Len(s) : s[i] \in M})

\* A finite number of columns is finite, and no column is larger than all of them.
LEMMA AreaFinite ==
    ASSUME NEW Keys, IsFiniteSet(Keys), NEW w \in [Keys -> Nat]
    PROVE  /\ IsFiniteSet(Area(Keys, w)) /\ Cardinality(Area(Keys, w)) \in Nat
           /\ \A o \in Keys : w[o] <= Cardinality(Area(Keys, w))
<1> DEFINE column == [o \in Keys |-> {o} \X (1..w[o])]
           columns == {{o} \X (1..w[o]) : o \in Keys}
<1>1. ASSUME NEW o \in Keys
      PROVE  IsFiniteSet({o} \X (1..w[o])) /\ Cardinality({o} \X (1..w[o])) = w[o]
  <2>1. w[o] \in Nat
    OBVIOUS
  <2> DEFINE place == {o}
             heights == 1..w[o]
  <2>2. IsFiniteSet(heights) /\ Cardinality(heights) = w[o]
    BY <2>1, FS_Interval
  <2>3. IsFiniteSet(place) /\ Cardinality(place) = 1
    BY FS_Singleton
  <2> HIDE DEF place, heights
  <2>4. /\ IsFiniteSet(place \X heights)
        /\ Cardinality(place \X heights) = Cardinality(place) * Cardinality(heights)
    BY <2>2, <2>3, FS_Product
  <2>5. Cardinality(place \X heights) = w[o]
    BY <2>1, <2>2, <2>3, <2>4
  <2>6. IsFiniteSet({o} \X (1..w[o]))
    BY <2>4 DEF place, heights
  <2>7. Cardinality({o} \X (1..w[o])) = w[o]
    BY <2>5 DEF place, heights
  <2> QED BY <2>6, <2>7
<1>2. IsFiniteSet(columns)
  <2>1. column \in Surjection(Keys, columns)
    BY DEF Surjection
  <2> QED BY <2>1, FS_Surjection
<1>3. IsFiniteSet(UNION columns)
  <2>1. \A T \in columns : IsFiniteSet(T)
    BY <1>1
  <2> QED BY <1>2, <2>1, FS_UNION
<1>4. IsFiniteSet(Area(Keys, w))
  BY <1>3 DEF Area
<1>5. ASSUME NEW o \in Keys PROVE w[o] <= Cardinality(Area(Keys, w))
  <2>1. {o} \X (1..w[o]) \subseteq Area(Keys, w)
    BY DEF Area
  <2>2. Cardinality({o} \X (1..w[o])) <= Cardinality(Area(Keys, w))
    BY <1>4, <2>1, FS_Subset
  <2> QED BY <1>1, <2>2
<1> QED BY <1>4, <1>5, FS_CardinalityType

\* The places of one column.
LEMMA InColumn == \A x, o, T : x \in {o} \X T <=> \E n \in T : x = <<o, n>>
OBVIOUS

\* Columns that grow by one each.
LEMMA AreaGrows ==
    ASSUME NEW Keys, IsFiniteSet(Keys), NEW w \in [Keys -> Nat], NEW v \in [Keys -> Nat], NEW G \in SUBSET Keys,
           \A o \in Keys : v[o] = IF o \in G THEN w[o] + 1 ELSE w[o]
    PROVE  Cardinality(Area(Keys, v)) = Cardinality(Area(Keys, w)) + Cardinality(G)
<1> DEFINE top == [o \in G |-> <<o, w[o] + 1>>]
           tops == {<<o, w[o] + 1>> : o \in G}
<1>1. IsFiniteSet(G)
  BY FS_Subset
<1>2. IsFiniteSet(tops) /\ Cardinality(tops) = Cardinality(G)
  <2>1. top \in Bijection(G, tops)
    BY DEF Bijection, Injection, Surjection, IsInjective
  <2> HIDE DEF top, tops
  <2> QED BY <1>1, <2>1, FS_Bijection DEF ExistsBijection
<1>3. ASSUME NEW x
      PROVE  x \in Area(Keys, v) <=> x \in Area(Keys, w) \/ x \in tops
  <2>1. /\ x \in Area(Keys, v) <=> \E o \in Keys : x \in {o} \X (1..v[o])
        /\ x \in Area(Keys, w) <=> \E o \in Keys : x \in {o} \X (1..w[o])
    BY DEF Area
  <2>2. /\ x \in Area(Keys, v) <=> \E o \in Keys : \E n \in 1..v[o] : x = <<o, n>>
        /\ x \in Area(Keys, w) <=> \E o \in Keys : \E n \in 1..w[o] : x = <<o, n>>
    BY <2>1
  <2>3. \A o \in Keys : w[o] \in Nat /\ v[o] \in Nat
    OBVIOUS
  <2>4. \A o \in Keys : \A n : n \in 1..v[o] <=> n \in 1..w[o] \/ (o \in G /\ n = w[o] + 1)
    BY <2>3
  <2>5. x \in tops <=> \E o \in Keys : o \in G /\ x = <<o, w[o] + 1>>
    OBVIOUS
  <2> HIDE DEF tops
  <2> QED BY <2>2, <2>4, <2>5, Zenon
<1>4. Area(Keys, v) = Area(Keys, w) \cup tops
  BY <1>3
<1>5. Area(Keys, w) \cap tops = {}
  <2> SUFFICES ASSUME NEW x \in Area(Keys, w), x \in tops PROVE FALSE
    OBVIOUS
  <2>0. PICK o \in Keys : x \in {o} \X (1..w[o])
    BY DEF Area
  <2>1. PICK n \in 1..w[o] : x = <<o, n>>
    BY <2>0, InColumn
  <2>2. PICK p \in G : x = <<p, w[p] + 1>>
    OBVIOUS
  <2>3. o = p /\ n = w[o] + 1 /\ w[o] \in Nat
    BY <2>1, <2>2
  <2> QED BY <2>1, <2>3
<1>6. IsFiniteSet(Area(Keys, w)) /\ Cardinality(Area(Keys, w)) \in Nat
  BY AreaFinite
<1> HIDE DEF tops
<1>7. Cardinality(Area(Keys, w) \cup tops) =
         Cardinality(Area(Keys, w)) + Cardinality(tops) - Cardinality(Area(Keys, w) \cap tops)
  BY <1>2, <1>6, FS_Union
<1>8. Cardinality(Area(Keys, w) \cap tops) = 0
  BY <1>5, FS_EmptySet
<1>9. Cardinality(tops) \in Nat
  BY <1>2, FS_CardinalityType
<1> QED BY <1>2, <1>4, <1>6, <1>7, <1>8, <1>9

\* Counting in a sequence, behind an append and a tail.
LEMMA HowManyType ==
    ASSUME NEW T, NEW s \in Seq(T), NEW M
    PROVE  IsFiniteSet({i \in 1..Len(s) : s[i] \in M}) /\ HowMany(s, M) \in Nat
<1>1. Len(s) \in Nat /\ IsFiniteSet(1..Len(s))
  BY LenProperties, FS_Interval
<1>2. IsFiniteSet({i \in 1..Len(s) : s[i] \in M})
  BY <1>1, FS_Subset
<1> QED BY <1>2, FS_CardinalityType DEF HowMany

LEMMA HowManyAppend ==
    ASSUME NEW T, NEW s \in Seq(T), NEW x \in T, NEW M
    PROVE  HowMany(Append(s, x), M) = IF x \in M THEN HowMany(s, M) + 1 ELSE HowMany(s, M)
<1> DEFINE n == Len(s) + 1
           these == {i \in 1..Len(s) : s[i] \in M}
<1>1. /\ Len(s) \in Nat /\ Len(Append(s, x)) = n /\ Append(s, x)[n] = x
      /\ \A i \in 1..Len(s) : Append(s, x)[i] = s[i]
  BY LenProperties, AppendProperties
<1>2. {i \in 1..n : Append(s, x)[i] \in M} = IF x \in M THEN these \cup {n} ELSE these
  BY <1>1
<1>3. IsFiniteSet(these) /\ n \notin these
  <2>1. IsFiniteSet(these)
    BY HowManyType
  <2> QED BY <1>1, <2>1
<1>4. Cardinality(these \cup {n}) = Cardinality(these) + 1
  BY <1>3, FS_AddElement
<1> QED BY <1>1, <1>2, <1>4 DEF HowMany

LEMMA HowManyTail ==
    ASSUME NEW T, NEW s \in Seq(T), s # << >>, NEW M
    PROVE  HowMany(s, M) = IF Head(s) \in M THEN HowMany(Tail(s), M) + 1 ELSE HowMany(Tail(s), M)
<1> DEFINE these == {i \in 1..Len(s) : s[i] \in M}
           rest == {i \in 1..Len(Tail(s)) : Tail(s)[i] \in M}
           shift == [i \in these \ {1} |-> i - 1]
<1>1. /\ Len(s) \in Nat \ {0} /\ Tail(s) \in Seq(T) /\ Len(Tail(s)) = Len(s) - 1
      /\ Head(s) = s[1] /\ \A i \in 1..Len(Tail(s)) : Tail(s)[i] = s[i + 1]
  BY HeadTailProperties, EmptySeq
<1>2. IsFiniteSet(these) /\ IsFiniteSet(rest)
  BY <1>1, HowManyType
<1>3. IsFiniteSet(these \ {1})
      /\ Cardinality(these \ {1}) = IF 1 \in these THEN Cardinality(these) - 1 ELSE Cardinality(these)
  BY <1>2, FS_RemoveElement
<1>4. Cardinality(rest) = Cardinality(these \ {1})
  <2>1. \A i \in these \ {1} : i - 1 \in rest
    BY <1>1
  <2>2. \A j \in rest : j + 1 \in these \ {1} /\ (j + 1) - 1 = j
    BY <1>1
  <2>3. shift \in [these \ {1} -> rest] /\ \A i, j \in these \ {1} : shift[i] = shift[j] => i = j
    BY <2>1
  <2>4. \A j \in rest : \E i \in these \ {1} : shift[i] = j
    BY <2>2
  <2>5. shift \in Bijection(these \ {1}, rest)
    BY <2>3, <2>4 DEF Bijection, Injection, Surjection, IsInjective
  <2> HIDE DEF these, rest, shift
  <2> QED BY <1>3, <2>5, FS_Bijection DEF ExistsBijection
<1>5. Cardinality(these) \in Nat
  BY <1>2, FS_CardinalityType
<1>6. 1 \in these <=> Head(s) \in M
  BY <1>1
<1>7. HowMany(s, M) = Cardinality(these) /\ HowMany(Tail(s), M) = Cardinality(rest)
  BY DEF HowMany
<1> HIDE DEF these, rest
<1> QED BY <1>3, <1>4, <1>5, <1>6, <1>7

-----------------------------------------------------------------------------
(* Replays are counted once each *)

\* How often check c was seen.
Weight(c) == [o \in Named(c) |-> version[o] + replayed[o]]

\* What is counted of it: in the incident, in the channel, in the open watch.
FailuresOf(c) == IF c \in DOMAIN active THEN active[c].failures ELSE 0
ResultsOf(c) == {r \in AnyResult : r.check = c}
NotificationsOf(c) == {n \in W!Notification : W!Relevant(n) /\ CheckName[n.about.object] = c}

UnderWay(c) == HowMany(results, ResultsOf(c)) + HowMany(stream, NotificationsOf(c))

CountedOnce(c) == FailureCap <= Seen(c) \/ FailuresOf(c) + UnderWay(c) <= Seen(c)

OneRecord(c) ==
    \A i \in DOMAIN store :
       store[i].check = c =>
         c \in DOMAIN active /\ i = active[c].id /\ store[i].failures <= active[c].failures

ReplayInv == \A c \in Checks \ Scheduled : OneRecord(c) /\ CountedOnce(c)

\* The sightings of a check are such places.
LEMMA SeenIsArea ==
    ASSUME WatcherType, NEW c
    PROVE  /\ IsFiniteSet(Named(c)) /\ Weight(c) \in [Named(c) -> Nat]
           /\ Sightings(c) = Area(Named(c), Weight(c))
           /\ Seen(c) = Cardinality(Area(Named(c), Weight(c))) /\ Seen(c) \in Nat
           /\ \A o \in Named(c) : version[o] + replayed[o] <= Seen(c)
<1>1. Named(c) \subseteq Objects
  BY PipelineConstants DEF Named
<1>2. IsFiniteSet(Named(c))
  BY <1>1, PipelineConstants, FS_Subset
<1>3. \A o \in Objects : version[o] \in Nat /\ replayed[o] \in Nat
  BY ManagerConstants DEF WatcherType, W!TypeOK
<1>4. Weight(c) \in [Named(c) -> Nat]
  BY <1>1, <1>3 DEF Weight
<1>5. \A o \in Named(c) : Weight(c)[o] = version[o] + replayed[o]
  BY DEF Weight
<1>6. Sightings(c) = Area(Named(c), Weight(c))
  BY <1>5 DEF Sightings, Area
<1>7. Seen(c) = Cardinality(Area(Named(c), Weight(c)))
  BY <1>6 DEF Seen
<1>8. /\ Cardinality(Area(Named(c), Weight(c))) \in Nat
      /\ \A o \in Named(c) : Weight(c)[o] <= Cardinality(Area(Named(c), Weight(c)))
  BY <1>2, <1>4, AreaFinite
<1> QED BY <1>2, <1>4, <1>5, <1>6, <1>7, <1>8

\* The objects of G occurred, or were replayed.
LEMMA SeenGrows ==
    ASSUME WatcherType, WatcherType', NEW c, NEW G \in SUBSET Named(c),
           \A o \in Named(c) : version'[o] + replayed'[o] =
              IF o \in G THEN version[o] + replayed[o] + 1 ELSE version[o] + replayed[o]
    PROVE  Seen(c)' = Seen(c) + Cardinality(G) /\ Cardinality(G) \in Nat
<1> DEFINE w == [o \in Named(c) |-> version[o] + replayed[o]]
           v == [o \in Named(c) |-> version'[o] + replayed'[o]]
<1>1. Named(c)' = Named(c) /\ Weight(c) = w /\ Weight(c)' = v
  BY DEF Named, Weight
<1>2. /\ IsFiniteSet(Named(c)) /\ w \in [Named(c) -> Nat]
      /\ Seen(c) = Cardinality(Area(Named(c), w))
  BY <1>1, SeenIsArea
<1>3. \A o \in Objects : version'[o] \in Nat /\ replayed'[o] \in Nat
  BY ManagerConstants DEF WatcherType, W!TypeOK
<1>4. Named(c) \subseteq Objects
  BY PipelineConstants DEF Named
<1>5. v \in [Named(c) -> Nat]
  BY <1>3, <1>4
<1>6. Sightings(c)' = Area(Named(c), v)
  BY <1>1 DEF Sightings, Area
<1>7. Seen(c)' = Cardinality(Area(Named(c), v))
  BY <1>6 DEF Seen
<1>8. \A o \in Named(c) : v[o] = IF o \in G THEN w[o] + 1 ELSE w[o]
  OBVIOUS
<1> HIDE DEF w, v
<1>9. Cardinality(Area(Named(c), v)) = Cardinality(Area(Named(c), w)) + Cardinality(G)
  BY <1>2, <1>5, <1>8, AreaGrows
<1>10. IsFiniteSet(G) /\ Cardinality(G) \in Nat
  BY <1>2, FS_Subset, FS_CardinalityType
<1> QED BY <1>2, <1>7, <1>9, <1>10

LEMMA CountsType ==
    ASSUME TypeOK, PipelineType, NEW c
    PROVE  /\ FailuresOf(c) \in 0..FailureCap
           /\ HowMany(results, ResultsOf(c)) \in Nat
           /\ HowMany(stream, NotificationsOf(c)) \in Nat
           /\ Seen(c) \in Nat /\ FailureCap \in Nat
<1>1. FailuresOf(c) \in 0..FailureCap /\ FailureCap \in Nat
  BY ManagerConstants DEF FailuresOf, TypeOK, Incident
<1>2. results \in Seq(AnyResult) /\ stream \in Seq(W!Notification)
  BY DEF PipelineType, ChannelType, WatcherType, W!TypeOK
<1>3. HowMany(results, ResultsOf(c)) \in Nat
  BY <1>2, HowManyType
<1>4. HowMany(stream, NotificationsOf(c)) \in Nat
  BY <1>2, HowManyType
<1>5. Seen(c) \in Nat
  BY SeenIsArea DEF PipelineType
<1> QED BY <1>1, <1>3, <1>4, <1>5

\* Each object counted once: a watch starts with one notification per object.
LEMMA StartOfWatchIsSmall ==
    ASSUME WatcherType, NEW c, NEW s, s = W!SetToSeq(AddedOnes)
    PROVE  /\ IsFiniteSet(exists \cap Named(c))
           /\ HowMany(s, NotificationsOf(c)) <= Cardinality(exists \cap Named(c))
<1>1. AddedOnes \subseteq W!Notification /\ IsFiniteSet(AddedOnes)
  BY AddedOnesFinite
<1>2. s \in Seq(AddedOnes) /\ \A i, j \in 1..Len(s) : s[i] = s[j] => i = j
  BY <1>1, SequenceOfSet
<1>3. \A i \in 1..Len(s) : s[i] \in AddedOnes
  BY <1>2
<1> DEFINE these == {i \in 1..Len(s) : s[i] \in NotificationsOf(c)}
           objects == exists \cap Named(c)
           object == [i \in these |-> s[i].about.object]
<1>4. IsFiniteSet(objects)
  BY SeenIsArea, FS_Subset
<1>5. ASSUME NEW i \in these
      PROVE  /\ s[i].about.object \in objects
             /\ s[i] = [type |-> "Added", about |-> W!Latest(s[i].about.object)]
  <2>1. PICK o \in exists : s[i] = [type |-> "Added", about |-> W!Latest(o)]
    BY <1>3 DEF AddedOnes
  <2>2. s[i].about.object = o
    BY <2>1 DEF W!Latest
  <2>3. o \in Failures /\ CheckName[o] = c
    BY <2>2 DEF NotificationsOf, W!Relevant
  <2> QED BY <2>1, <2>2, <2>3 DEF Named
<1>6. object \in [these -> objects]
  BY <1>5
<1>7. ASSUME NEW i \in these, NEW j \in these, object[i] = object[j] PROVE i = j
  <2>1. s[i].about.object = s[j].about.object
    BY <1>7
  <2>2. s[i] = s[j]
    BY <1>5, <2>1
  <2> QED BY <1>2, <2>2
<1>8. object \in Injection(these, objects)
  <2> HIDE DEF these, objects, object
  <2>1. DOMAIN object = these
    BY <1>6
  <2>2. IsInjective(object)
    BY <1>7, <2>1 DEF IsInjective
  <2> QED BY <1>6, <2>2 DEF Injection
<1> HIDE DEF these, objects, object
<1>9. Cardinality(these) <= Cardinality(objects)
  BY <1>4, <1>8, FS_Injection
<1> QED BY <1>4, <1>9 DEF these, objects, HowMany

LEMMA CountedByOpen ==
    ASSUME TypeOK, PipelineType, PipelineType', NEW c, CountedOnce(c), Watch, W!WatchOpens
    PROVE  CountedOnce(c)'
<1>1. /\ UNCHANGED <<active, results, exists, version>>
      /\ stream' = W!SetToSeq(AddedOnes)
      /\ replayed' = [o \in Objects |-> IF o \in exists /\ replayed[o] < FailureCap
                                          THEN replayed[o] + 1 ELSE replayed[o]]
  BY DEF Watch, W!WatchOpens, W!cluster, AddedOnes, managerVars
<1> DEFINE G == {o \in exists \cap Named(c) : replayed[o] < FailureCap}
<1>2. Named(c) \subseteq Objects
  BY PipelineConstants DEF Named
<1>3. \A o \in Objects : version[o] \in Nat /\ replayed[o] \in 0..FailureCap
  BY DEF PipelineType, WatcherType, W!TypeOK
<1>4. \A o \in Named(c) : version'[o] + replayed'[o] =
         IF o \in G THEN version[o] + replayed[o] + 1 ELSE version[o] + replayed[o]
  BY <1>1, <1>2, <1>3, ManagerConstants
<1>5. Seen(c)' = Seen(c) + Cardinality(G) /\ Cardinality(G) \in Nat
  <2> HIDE DEF G
  <2>1. G \in SUBSET Named(c)
    BY DEF G
  <2> QED BY <1>4, <2>1, SeenGrows DEF PipelineType
<1>6. Seen(c) \in Nat /\ FailureCap \in Nat
  BY CountsType
<1>7. CASE FailureCap <= Seen(c)
  BY <1>5, <1>6, <1>7 DEF CountedOnce
<1>8. CASE \E o \in exists \cap Named(c) : replayed[o] = FailureCap
  <2>1. PICK o \in Named(c) : replayed[o] = FailureCap
    BY <1>8
  <2>2. version[o] + replayed[o] <= Seen(c) /\ version[o] \in Nat
    BY <1>2, <1>3, SeenIsArea DEF PipelineType
  <2>3. FailureCap <= Seen(c)
    BY <1>6, <2>1, <2>2
  <2> QED BY <1>7, <2>3
<1>9. CASE ~(FailureCap <= Seen(c)) /\ \A o \in exists \cap Named(c) : replayed[o] # FailureCap
  <2>1. G = exists \cap Named(c)
    BY <1>2, <1>3, <1>6, <1>9
  <2>2. HowMany(stream', NotificationsOf(c)) <= Cardinality(G)
    BY <1>1, <2>1, StartOfWatchIsSmall DEF PipelineType
  <2> HIDE DEF G
  <2>3. /\ FailuresOf(c) \in Nat /\ HowMany(results, ResultsOf(c)) \in Nat
        /\ HowMany(stream, NotificationsOf(c)) \in Nat
    BY CountsType
  <2>4. HowMany(stream', NotificationsOf(c)) \in Nat
    BY HowManyType DEF PipelineType, WatcherType, W!TypeOK
  <2>5. FailuresOf(c)' = FailuresOf(c) /\ HowMany(results', ResultsOf(c)) = HowMany(results, ResultsOf(c))
    BY <1>1 DEF FailuresOf
  <2>6. FailuresOf(c) + (HowMany(results, ResultsOf(c)) + HowMany(stream, NotificationsOf(c))) <= Seen(c)
    BY <1>9 DEF CountedOnce, UnderWay
  <2>7. FailuresOf(c)' + (HowMany(results', ResultsOf(c)) + HowMany(stream', NotificationsOf(c))) <= Seen(c)'
    BY <1>5, <1>6, <2>2, <2>3, <2>4, <2>5, <2>6
  <2> QED BY <2>7 DEF CountedOnce, UnderWay, ResultsOf, NotificationsOf
<1> QED BY <1>7, <1>8, <1>9

LEMMA CountedByCluster ==
    ASSUME TypeOK, PipelineType, PipelineType', NEW c, CountedOnce(c), Cluster
    PROVE  CountedOnce(c)'
<1>1. PICK o \in Objects : W!Occurs(o) \/ W!Expires(o)
  BY DEF Cluster, W!ClusterStep
<1>2. UNCHANGED <<active, results, replayed>>
  BY <1>1 DEF Cluster, W!Occurs, W!Expires, managerVars
<1>3. /\ FailuresOf(c) \in Nat /\ HowMany(results, ResultsOf(c)) \in Nat
      /\ HowMany(stream, NotificationsOf(c)) \in Nat /\ Seen(c) \in Nat /\ FailureCap \in Nat
  BY CountsType
<1>4. FailuresOf(c)' = FailuresOf(c) /\ HowMany(results', ResultsOf(c)) = HowMany(results, ResultsOf(c))
  BY <1>2 DEF FailuresOf
<1>5. stream \in Seq(W!Notification) /\ stream' \in Seq(W!Notification)
  BY DEF PipelineType, WatcherType, W!TypeOK
<1>6. \A p \in Objects : version[p] \in Nat /\ replayed[p] \in Nat
  BY ManagerConstants DEF PipelineType, WatcherType, W!TypeOK
<1>7. Named(c) \subseteq Objects
  BY PipelineConstants DEF Named
<1>8. ASSUME NEW t \in W!NotificationTypes, NEW x \in W!Occurrence, stream' = W!Notify(t, x)
      PROVE  HowMany(stream', NotificationsOf(c)) <=
               HowMany(stream, NotificationsOf(c))
                 + IF t # "Deleted" /\ x.object \in Named(c) THEN 1 ELSE 0
  <2> DEFINE n == [type |-> t, about |-> x]
  <2>1. n \in W!Notification
    BY DEF W!Notification
  <2>2. n \in NotificationsOf(c) => t # "Deleted" /\ x.object \in Named(c)
    BY DEF NotificationsOf, W!Relevant, Named
  <2>3. stream' = Append(stream, n) \/ stream' = stream
    BY <1>8 DEF W!Notify
  <2> HIDE DEF n
  <2>4. HowMany(Append(stream, n), NotificationsOf(c)) =
          IF n \in NotificationsOf(c) THEN HowMany(stream, NotificationsOf(c)) + 1
                                      ELSE HowMany(stream, NotificationsOf(c))
    BY <1>5, <2>1, HowManyAppend
  <2>5. \/ HowMany(stream', NotificationsOf(c)) = HowMany(stream, NotificationsOf(c))
        \/ /\ n \in NotificationsOf(c)
           /\ HowMany(stream', NotificationsOf(c)) = HowMany(stream, NotificationsOf(c)) + 1
    BY <2>3, <2>4, Zenon
  <2>7. CASE t # "Deleted" /\ x.object \in Named(c)
    BY <1>3, <2>5, <2>7
  <2>8. CASE ~(t # "Deleted" /\ x.object \in Named(c))
    BY <1>3, <2>2, <2>5, <2>8
  <2> QED BY <2>7, <2>8
<1>9. HowMany(stream', NotificationsOf(c)) \in Nat
  BY <1>5, HowManyType
<1>10. CASE W!Occurs(o)
  <2> DEFINE G == {o} \cap Named(c)
             x == [object |-> o, version |-> version[o] + 1]
  <2>1. version' = [version EXCEPT ![o] = version[o] + 1] /\ version[o] < MaxVersion[o]
    BY <1>10 DEF W!Occurs
  <2>2. \A p \in Named(c) : version'[p] + replayed'[p] =
          IF p \in G THEN version[p] + replayed[p] + 1 ELSE version[p] + replayed[p]
    BY <1>1, <1>2, <1>6, <1>7, <2>1 DEF PipelineType, WatcherType
  <2>3. Seen(c)' = Seen(c) + Cardinality(G) /\ Cardinality(G) \in Nat
    <3> HIDE DEF G
    <3>1. G \in SUBSET Named(c)
      BY DEF G
    <3> QED BY <2>2, <3>1, SeenGrows DEF PipelineType
  <2>4. o \in Named(c) => Cardinality(G) = 1
    <3>1. o \in Named(c) => G = {o}
      OBVIOUS
    <3> QED BY <3>1, FS_Singleton
  <2>5. x \in W!Occurrence /\ x.object = o
    <3>1. version[o] + 1 \in 1..MaxVersion[o]
      BY <1>6, <2>1, PipelineConstants
    <3>2. x \in [object : {o}, version : 1..MaxVersion[o]]
      BY <3>1
    <3> QED BY <3>2 DEF W!Occurrence
  <2>6. stream' = W!Notify(IF o \in exists THEN "Modified" ELSE "Added", x)
    BY <1>10 DEF W!Occurs
  <2>7. HowMany(stream', NotificationsOf(c)) <=
          HowMany(stream, NotificationsOf(c)) + IF o \in Named(c) THEN 1 ELSE 0
    <3> HIDE DEF x
    <3>1. PICK t \in {"Modified", "Added"} : stream' = W!Notify(t, x)
      BY <2>6
    <3> QED BY <1>8, <2>5, <3>1 DEF W!NotificationTypes
  <2> HIDE DEF G, x
  <2>8. \/ FailureCap <= Seen(c)'
        \/ FailuresOf(c)' + (HowMany(results', ResultsOf(c)) + HowMany(stream', NotificationsOf(c)))
             <= Seen(c)'
    BY <1>3, <1>4, <1>9, <2>3, <2>4, <2>7 DEF CountedOnce, UnderWay
  <2> QED BY <2>8 DEF CountedOnce, UnderWay, ResultsOf, NotificationsOf
<1>11. CASE W!Expires(o)
  <2>1. Seen(c)' = Seen(c)
    BY <1>2, <1>11 DEF W!Expires, Seen, Sightings, Named
  <2>2. o \in exists /\ stream' = W!Notify("Deleted", W!Latest(o))
    BY <1>11 DEF W!Expires
  <2>3. HowMany(stream', NotificationsOf(c)) <= HowMany(stream, NotificationsOf(c))
    BY <1>3, <1>8, <2>2, LatestType DEF PipelineType, W!NotificationTypes
  <2>4. \/ FailureCap <= Seen(c)'
        \/ FailuresOf(c)' + (HowMany(results', ResultsOf(c)) + HowMany(stream', NotificationsOf(c)))
             <= Seen(c)'
    BY <1>3, <1>4, <1>9, <2>1, <2>3 DEF CountedOnce, UnderWay
  <2> QED BY <2>4 DEF CountedOnce, UnderWay, ResultsOf, NotificationsOf
<1> QED BY <1>1, <1>10, <1>11

\* processEvent moves a notification to the channel, drops it or ignores it.
LEMMA CountedByProcessEvent ==
    ASSUME TypeOK, PipelineType, PipelineType', NEW c, CountedOnce(c), Watch, W!processEvent
    PROVE  CountedOnce(c)'
<1>1. UNCHANGED <<active, exists, version, replayed>>
  BY DEF Watch, W!processEvent, W!cluster, managerVars
<1>2. stream \in Seq(W!Notification) /\ stream # << >> /\ stream' = Tail(stream)
  BY DEF W!processEvent, PipelineType, WatcherType, W!TypeOK
<1>3. PICK n \in W!Notification : n = Head(stream)
  BY <1>2, HeadTailProperties
<1>4. IF W!Relevant(n) THEN W!Deliver(n.about) ELSE UNCHANGED <<results, dropped>>
  BY <1>3 DEF W!processEvent
<1>5. /\ FailuresOf(c) \in Nat /\ HowMany(results, ResultsOf(c)) \in Nat
      /\ HowMany(stream, NotificationsOf(c)) \in Nat /\ Seen(c) \in Nat /\ FailureCap \in Nat
  BY CountsType
<1>6. Seen(c)' = Seen(c) /\ FailuresOf(c)' = FailuresOf(c)
  BY <1>1 DEF Seen, Sightings, Named, FailuresOf
<1>7. HowMany(stream, NotificationsOf(c)) =
        IF n \in NotificationsOf(c) THEN HowMany(stream', NotificationsOf(c)) + 1
                                    ELSE HowMany(stream', NotificationsOf(c))
  BY <1>2, <1>3, HowManyTail
<1>8. HowMany(stream', NotificationsOf(c)) \in Nat /\ HowMany(results', ResultsOf(c)) \in Nat
  <2>1. stream' \in Seq(W!Notification) /\ results' \in Seq(AnyResult)
    BY DEF PipelineType, ChannelType, WatcherType, W!TypeOK
  <2> QED BY <2>1, HowManyType
<1>9. CASE results' = results
  <2>1. HowMany(results', ResultsOf(c)) = HowMany(results, ResultsOf(c))
    BY <1>9
  <2>2. HowMany(stream', NotificationsOf(c)) <= HowMany(stream, NotificationsOf(c))
    BY <1>5, <1>7, <1>8
  <2>3. \/ FailureCap <= Seen(c)'
        \/ FailuresOf(c)' + (HowMany(results', ResultsOf(c)) + HowMany(stream', NotificationsOf(c)))
             <= Seen(c)'
    BY <1>5, <1>6, <1>8, <2>1, <2>2 DEF CountedOnce, UnderWay
  <2> QED BY <2>3 DEF CountedOnce, UnderWay, ResultsOf, NotificationsOf
<1>10. CASE W!Relevant(n) /\ results' = Append(results, W!FailedResult(n.about))
  <2> DEFINE r == W!FailedResult(n.about)
  <2>1. n.about \in W!Occurrence
    BY DEF W!Notification
  <2>2. n.about.object \in Objects
    BY <2>1 DEF W!Occurrence
  <2>3. r \in AnyResult /\ r.check = CheckName[n.about.object]
    BY <2>1, <2>2, PipelineConstants DEF W!FailedResult, W!Result, AnyResult
  <2> HIDE DEF r
  <2>4. r \in ResultsOf(c) <=> n \in NotificationsOf(c)
    BY <1>10, <2>3 DEF ResultsOf, NotificationsOf
  <2>5. HowMany(Append(results, r), ResultsOf(c)) =
          IF r \in ResultsOf(c) THEN HowMany(results, ResultsOf(c)) + 1
                                ELSE HowMany(results, ResultsOf(c))
    BY <2>3, HowManyAppend DEF PipelineType, ChannelType
  <2>6. HowMany(results', ResultsOf(c)) =
          IF n \in NotificationsOf(c) THEN HowMany(results, ResultsOf(c)) + 1
                                      ELSE HowMany(results, ResultsOf(c))
    BY <1>10, <2>4, <2>5 DEF r
  <2>7. HowMany(results', ResultsOf(c)) + HowMany(stream', NotificationsOf(c)) =
          HowMany(results, ResultsOf(c)) + HowMany(stream, NotificationsOf(c))
    BY <1>5, <1>7, <1>8, <2>6
  <2>8. \/ FailureCap <= Seen(c)'
        \/ FailuresOf(c)' + (HowMany(results', ResultsOf(c)) + HowMany(stream', NotificationsOf(c)))
             <= Seen(c)'
    BY <1>6, <2>7 DEF CountedOnce, UnderWay
  <2> QED BY <2>8 DEF CountedOnce, UnderWay, ResultsOf, NotificationsOf
<1> QED BY <1>4, <1>9, <1>10 DEF W!Deliver

\* A watch that breaks loses its notifications.
LEMMA CountedByEndOfWatch ==
    ASSUME TypeOK, PipelineType, NEW c, CountedOnce(c), Watch,
           W!WatchFails \/ W!WatchBreaks \/ W!SeeCanceled \/ W!WaitOver
    PROVE  CountedOnce(c)'
<1>1. /\ stream' \in {stream, << >>}
      /\ UNCHANGED <<active, exists, version, results, replayed>>
  BY DEF Watch, managerVars, W!WatchFails, W!WatchBreaks, W!SeeCanceled, W!WaitOver, W!cluster
<1>2. Seen(c)' = Seen(c) /\ FailuresOf(c)' = FailuresOf(c)
  BY <1>1 DEF Seen, Sightings, Named, FailuresOf
<1>3. /\ FailuresOf(c) \in Nat /\ HowMany(results, ResultsOf(c)) \in Nat
      /\ HowMany(stream, NotificationsOf(c)) \in Nat /\ Seen(c) \in Nat /\ FailureCap \in Nat
  BY CountsType
<1>4. HowMany(<< >>, NotificationsOf(c)) = 0
  <2>1. {i \in 1..Len(<< >>) : << >>[i] \in NotificationsOf(c)} = {}
    OBVIOUS
  <2> QED BY <2>1, FS_EmptySet DEF HowMany
<1>5. HowMany(stream', NotificationsOf(c)) <= HowMany(stream, NotificationsOf(c))
      /\ HowMany(stream', NotificationsOf(c)) \in Nat
  BY <1>1, <1>3, <1>4
<1>6. HowMany(results', ResultsOf(c)) = HowMany(results, ResultsOf(c))
  BY <1>1
<1>7. \/ FailureCap <= Seen(c)'
      \/ FailuresOf(c)' + (HowMany(results', ResultsOf(c)) + HowMany(stream', NotificationsOf(c)))
           <= Seen(c)'
  BY <1>2, <1>3, <1>5, <1>6 DEF CountedOnce, UnderWay
<1> QED BY <1>7 DEF CountedOnce, UnderWay, ResultsOf, NotificationsOf

\* The manager counts a result of the watcher, and writes no second record.
LEMMA ReplayByReceive ==
    ASSUME TypeOK, TypeOK', PipelineType, PipelineType', NEW c \in Checks \ Scheduled,
           OneRecord(c), CountedOnce(c), Receive
    PROVE  OneRecord(c)' /\ CountedOnce(c)'
<1>1. results \in Seq(AnyResult) /\ results # << >> /\ results' = Tail(results)
  BY DEF PipelineType, ChannelType, Receive
<1>2. PICK r \in AnyResult : r = Head(results)
  BY <1>1, HeadTailProperties
<1>3. Process(r.check, r.status)
  BY <1>2 DEF Receive
<1>4. UNCHANGED <<exists, version, stream, replayed>>
  BY DEF Receive, watcherVars
<1>5. /\ FailuresOf(c) \in 0..FailureCap /\ HowMany(results, ResultsOf(c)) \in Nat
      /\ HowMany(stream, NotificationsOf(c)) \in Nat /\ Seen(c) \in Nat /\ FailureCap \in Nat
  BY CountsType
<1>6. Seen(c)' = Seen(c)
  BY <1>4 DEF Seen, Sightings, Named
<1>7. HowMany(results, ResultsOf(c)) =
        IF r \in ResultsOf(c) THEN HowMany(results', ResultsOf(c)) + 1
                              ELSE HowMany(results', ResultsOf(c))
  BY <1>1, <1>2, HowManyTail
<1>8. HowMany(results', ResultsOf(c)) \in Nat
  BY HowManyType DEF PipelineType, ChannelType
<1>9. r \in ResultsOf(c) <=> r.check = c
  BY DEF ResultsOf
<1>10. ASSUME FailuresOf(c)' \in Nat,
              FailuresOf(c)' <= FailuresOf(c) + IF r.check = c THEN 1 ELSE 0
       PROVE  CountedOnce(c)'
  <2>1. FailuresOf(c)' + HowMany(results', ResultsOf(c)) <=
          FailuresOf(c) + HowMany(results, ResultsOf(c))
    <3>1. CASE r.check = c
      BY <1>5, <1>7, <1>8, <1>9, <1>10, <3>1
    <3>2. CASE r.check # c
      BY <1>5, <1>7, <1>8, <1>9, <1>10, <3>2
    <3> QED BY <3>1, <3>2
  <2>2. HowMany(stream', NotificationsOf(c)) = HowMany(stream, NotificationsOf(c))
    BY <1>4
  <2>3. \/ FailureCap <= Seen(c)'
        \/ FailuresOf(c)' + (HowMany(results', ResultsOf(c)) + HowMany(stream', NotificationsOf(c)))
             <= Seen(c)'
    BY <1>5, <1>6, <1>8, <1>10, <2>1, <2>2 DEF CountedOnce, UnderWay
  <2> QED BY <2>3 DEF CountedOnce, UnderWay, ResultsOf, NotificationsOf
<1>11. CASE r.check = c
  <2>1. r.status # "healthy"
    <3>1. r \notin S!CheckResult
      BY <1>11 DEF S!CheckResult
    <3> QED BY <3>1 DEF AnyResult, W!Result
  <2>2. CASE ResultFailedFirst(c)
    <3>1. c \notin DOMAIN active /\ active' = Put(active, c, createIncident)
          /\ \E saved \in BOOLEAN : persistIncident(c, createIncident, saved)
      BY <2>2 DEF ResultFailedFirst
    <3>2. createIncident.failures = 1 /\ StoredForm(c, createIncident).failures = 1
      BY DEF createIncident, StoredForm
    <3>3. c \in DOMAIN active' /\ active'[c] = createIncident
      BY <3>1 DEF Put
    <3>4. \A i \in DOMAIN store : store[i].check # c
      BY <3>1 DEF OneRecord
    <3>5. store' = Put(store, createIncident.id, StoredForm(c, createIncident)) \/ store' = store
      BY <3>1 DEF persistIncident
    <3>6. OneRecord(c)'
      BY <3>2, <3>3, <3>4, <3>5 DEF OneRecord, Put
    <3>7. FailuresOf(c) = 0 /\ FailuresOf(c)' = 1
      BY <3>1, <3>2, <3>3 DEF FailuresOf
    <3> QED BY <1>10, <1>11, <3>6, <3>7
  <2>3. CASE ResultFailedAgain(c)
    <3> DEFINE inc == [active[c] EXCEPT !.failures = CountOf(active[c].failures)]
    <3>1. /\ c \in DOMAIN active /\ active' = [active EXCEPT ![c] = inc]
          /\ \E saved \in BOOLEAN : persistIncident(c, inc, saved)
      BY <2>3 DEF ResultFailedAgain
    <3>2. active[c] \in Incident
      BY <3>1 DEF TypeOK
    <3>3. active[c].failures \in 1..FailureCap
      BY <3>2 DEF Incident
    <3>4. /\ CountOf(active[c].failures) \in Nat
          /\ active[c].failures <= CountOf(active[c].failures)
          /\ CountOf(active[c].failures) <= active[c].failures + 1
      BY <1>5, <3>3 DEF CountOf
    <3>5. inc.failures = CountOf(active[c].failures) /\ inc.id = active[c].id
      BY <3>2 DEF Incident
    <3>6. active'[c] = inc /\ c \in DOMAIN active'
      BY <3>1
    <3>7. StoredForm(c, inc).failures = inc.failures
      BY DEF StoredForm
    <3> HIDE DEF inc
    <3>8. store' = Put(store, inc.id, StoredForm(c, inc)) \/ store' = store
      BY <3>1 DEF persistIncident
    <3>9. OneRecord(c)'
      <4> SUFFICES ASSUME NEW i \in DOMAIN store', store'[i].check = c
                   PROVE  i = inc.id /\ store'[i].failures <= inc.failures
        BY <3>6 DEF OneRecord
      <4>1. CASE i = inc.id /\ store' = Put(store, inc.id, StoredForm(c, inc))
        <5>1. store'[i] = StoredForm(c, inc)
          BY <4>1 DEF Put
        <5> QED BY <3>4, <3>5, <3>7, <4>1, <5>1
      <4>2. CASE i \in DOMAIN store /\ store'[i] = store[i]
        <5>1. i = active[c].id /\ store[i].failures <= active[c].failures
          BY <4>2 DEF OneRecord
        <5>2. store[i].failures \in 1..FailureCap
          BY <4>2 DEF TypeOK, StoredIncident
        <5> QED BY <1>5, <3>3, <3>4, <3>5, <4>2, <5>1, <5>2
      <4> QED BY <3>8, <4>1, <4>2 DEF Put
    <3>10. FailuresOf(c) = active[c].failures /\ FailuresOf(c)' = CountOf(active[c].failures)
      BY <3>1, <3>5, <3>6 DEF FailuresOf
    <3> QED BY <1>10, <1>11, <3>4, <3>9, <3>10
  <2> QED BY <1>3, <1>11, <2>1, <2>2, <2>3 DEF Process
<1>12. CASE r.check # c
  <2>1. /\ c \in DOMAIN active' <=> c \in DOMAIN active
        /\ c \in DOMAIN active => active'[c] = active[c]
    BY <1>3, <1>12 DEF Process, ResultHealthy, resolveIncidentLocked, NothingToResolve, Delete,
                       Restrict, managerVars, ResultFailedFirst, ResultFailedAgain, Put
  <2>2. \/ store' = store
        \/ \E inc : store' = Put(store, inc.id, StoredForm(r.check, inc))
    BY <1>3 DEF Process, ResultHealthy, resolveIncidentLocked, NothingToResolve, managerVars,
                ResultFailedFirst, ResultFailedAgain, persistIncident
  <2>3. \A inc : StoredForm(r.check, inc).check = r.check
    BY DEF StoredForm
  <2>4. \A i \in DOMAIN store' : store'[i].check = c => i \in DOMAIN store /\ store'[i] = store[i]
    BY <1>12, <2>2, <2>3 DEF Put
  <2>5. OneRecord(c)'
    BY <2>1, <2>4 DEF OneRecord
  <2>6. FailuresOf(c)' = FailuresOf(c)
    BY <2>1 DEF FailuresOf
  <2> QED BY <1>5, <1>10, <1>12, <2>5, <2>6
<1> QED BY <1>11, <1>12

\* A worker reports a configured check, which is none of the watcher's.
LEMMA CountedByReport ==
    ASSUME TypeOK, PipelineType, PipelineType', NEW c \in Checks \ Scheduled, CountedOnce(c),
           NEW w \in Workers, Report(w)
    PROVE  CountedOnce(c)'
<1>1. UNCHANGED <<active, exists, version, stream, replayed>>
  BY DEF Report, managerVars, watcherVars
<1>2. HowMany(results', ResultsOf(c)) = HowMany(results, ResultsOf(c))
  <2>1. CASE S!WorkerDeliver(w)
    <3> DEFINE r == [check |-> job[w], status |-> outcome[w]]
    <3>1. results' = Append(results, r) /\ worker[w] = "delivering"
      BY <2>1 DEF S!WorkerDeliver
    <3>2. r \in AnyResult /\ r.check \in Scheduled
      BY <3>1 DEF S!CheckResult, AnyResult, PipelineType, SchedulerType
    <3> HIDE DEF r
    <3>3. r \notin ResultsOf(c)
      BY <3>2 DEF ResultsOf
    <3>4. HowMany(Append(results, r), ResultsOf(c)) =
            IF r \in ResultsOf(c) THEN HowMany(results, ResultsOf(c)) + 1
                                  ELSE HowMany(results, ResultsOf(c))
      BY <3>2, HowManyAppend DEF PipelineType, ChannelType
    <3> QED BY <3>1, <3>3, <3>4, Zenon
  <2>2. CASE S!WorkerExit(w)
    BY <2>2 DEF S!WorkerExit
  <2> QED BY <2>1, <2>2 DEF Report
<1>3. Seen(c)' = Seen(c) /\ FailuresOf(c)' = FailuresOf(c)
  BY <1>1 DEF Seen, Sightings, Named, FailuresOf
<1>4. HowMany(stream', NotificationsOf(c)) = HowMany(stream, NotificationsOf(c))
  BY <1>1
<1>5. \/ FailureCap <= Seen(c)'
      \/ FailuresOf(c)' + (HowMany(results', ResultsOf(c)) + HowMany(stream', NotificationsOf(c)))
           <= Seen(c)'
  BY <1>2, <1>3, <1>4 DEF CountedOnce, UnderWay
<1> QED BY <1>5 DEF CountedOnce, UnderWay, ResultsOf, NotificationsOf

LEMMA ReplayStep ==
    ASSUME TypeOK, TypeOK', PipelineType, PipelineType', ReplayInv, [PipelineNext]_vars
    PROVE  ReplayInv'
<1> SUFFICES ASSUME NEW c \in Checks \ Scheduled PROVE OneRecord(c)' /\ CountedOnce(c)'
  BY DEF ReplayInv
<1>1. OneRecord(c) /\ CountedOnce(c)
  BY DEF ReplayInv
<1>2. ASSUME UNCHANGED <<active, store>> PROVE OneRecord(c)'
  BY <1>1, <1>2 DEF OneRecord
<1>3. CASE \/ (\E d \in Scheduled : Tick(d)) \/ (\E w \in Workers : BeginRun(w) \/ EndRun(w))
           \/ ManagerStep \/ Stop \/ UNCHANGED vars
  <2>1. UNCHANGED <<active, store, results, exists, version, stream, replayed>>
    BY <1>3 DEF Tick, S!TickerSend, S!TickerTick, S!TickerExit, S!goroutines, S!control, BeginRun,
                S!WorkerTake, EndRun, S!WorkerRan, ManagerStep, emit, RunReturns, Stop, Cancel,
                vars, managerVars, watcherVars
  <2>2. Seen(c)' = Seen(c) /\ FailuresOf(c)' = FailuresOf(c) /\ UnderWay(c)' = UnderWay(c)
    BY <2>1 DEF Seen, Sightings, Named, FailuresOf, UnderWay, ResultsOf, NotificationsOf
  <2> QED BY <1>1, <1>2, <2>1, <2>2 DEF CountedOnce
<1>4. ASSUME NEW w \in Workers, Report(w) PROVE OneRecord(c)' /\ CountedOnce(c)'
  <2>1. UNCHANGED <<active, store>>
    BY <1>4 DEF Report, managerVars
  <2> QED BY <1>1, <1>2, <1>4, <2>1, CountedByReport
<1>5. CASE Watch
  <2>1. UNCHANGED <<active, store>>
    BY <1>5 DEF Watch, managerVars
  <2>2. CountedOnce(c)'
    BY <1>1, <1>5, CountedByOpen, CountedByProcessEvent, CountedByEndOfWatch
       DEF Watch, W!WatcherStep
  <2> QED BY <1>2, <2>1, <2>2
<1>6. CASE Cluster
  <2>1. UNCHANGED <<active, store>>
    BY <1>6 DEF Cluster, managerVars
  <2> QED BY <1>1, <1>2, <1>6, <2>1, CountedByCluster
<1>7. CASE Receive
  BY <1>1, <1>7, ReplayByReceive
<1> QED BY <1>3, <1>4, <1>5, <1>6, <1>7 DEF PipelineNext

LEMMA ReplayInit == PipelineInit => ReplayInv
<1> SUFFICES ASSUME PipelineInit, NEW c PROVE OneRecord(c) /\ CountedOnce(c)
  BY DEF ReplayInv
<1>1. active = EmptyMap /\ store = EmptyMap /\ results = << >> /\ stream = << >>
  BY DEF PipelineInit, Init, W!Init
<1>2. OneRecord(c) /\ FailuresOf(c) = 0
  BY <1>1 DEF OneRecord, FailuresOf, EmptyMap
<1>3. \A M : HowMany(<< >>, M) = 0
  <2>1. \A M : {i \in 1..Len(<< >>) : << >>[i] \in M} = {}
    OBVIOUS
  <2> QED BY <2>1, FS_EmptySet DEF HowMany
<1>4. Seen(c) \in Nat
  BY PipelineTypeInit, SeenIsArea DEF PipelineType
<1>5. UnderWay(c) = 0
  BY <1>1, <1>3 DEF UnderWay
<1> QED BY <1>2, <1>4, <1>5 DEF CountedOnce

\* ReplaysBoundCount, for any number of objects, occurrences and watches: the
\* incident of a check that no worker runs counts every occurrence once, and
\* once more for each watch that replayed it, and has one record
\* (Watcher.processEvent, Manager.processResult).
THEOREM ReplaysAreBounded == PipelineSpec => []ReplaysBoundCount
<1>1. TypeOK /\ PipelineType /\ ReplayInv => ReplaysBoundCount
  <2> SUFFICES ASSUME TypeOK, PipelineType, ReplayInv, NEW c \in Checks \ Scheduled
               PROVE  LET ids == {i \in DOMAIN store : store[i].check = c} IN
                        /\ Cardinality(ids) <= 1
                        /\ \A i \in ids : store[i].failures <= Seen(c)
    BY DEF ReplaysBoundCount
  <2> DEFINE ids == {i \in DOMAIN store : store[i].check = c}
  <2>1. OneRecord(c) /\ CountedOnce(c)
    BY DEF ReplayInv
  <2>2. Cardinality(ids) <= 1
    <3>1. ids = {} \/ ids = {active[c].id}
      <4>1. \A i \in ids : i = active[c].id
        BY <2>1 DEF OneRecord
      <4> HIDE DEF ids
      <4> QED BY <4>1
    <3> HIDE DEF ids
    <3>2. CASE ids = {}
      BY <3>2, FS_EmptySet
    <3>3. CASE ids = {active[c].id}
      <4>1. Cardinality({active[c].id}) = 1
        BY FS_Singleton
      <4> QED BY <3>3, <4>1
    <3> QED BY <3>1, <3>2, <3>3
  <2>3. ASSUME NEW i \in ids PROVE store[i].failures <= Seen(c)
    <3>1. c \in DOMAIN active /\ store[i].failures <= active[c].failures
      BY <2>1 DEF OneRecord
    <3>2. FailuresOf(c) = active[c].failures
      BY <3>1 DEF FailuresOf
    <3>3. store[i].failures \in Nat
      BY DEF TypeOK, StoredIncident
    <3>4. /\ FailuresOf(c) \in 0..FailureCap /\ HowMany(results, ResultsOf(c)) \in Nat
          /\ HowMany(stream, NotificationsOf(c)) \in Nat
          /\ Seen(c) \in Nat /\ FailureCap \in Nat
      BY CountsType
    <3>5. FailuresOf(c) <= Seen(c)
      BY <2>1, <3>4 DEF CountedOnce, UnderWay
    <3> QED BY <3>1, <3>2, <3>3, <3>4, <3>5
  <2> QED BY <2>2, <2>3
<1> QED BY <1>1, ReplayInit, ReplayStep, PipelineTypeInvariant, PipelineImplementsManager,
           TypeCorrect, PTL DEF PipelineSpec
=============================================================================
