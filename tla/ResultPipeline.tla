--------------------------- MODULE ResultPipeline ---------------------------
(***************************************************************************)
(* The check results channel, as runtime.New wires it: the scheduler's     *)
(* workers and the Kubernetes watcher write it, the incident manager's     *)
(* loop reads it.  The workers block when it is full, the watcher drops.   *)
(* Scheduler and watcher are instances of their modules; the manager is    *)
(* IncidentManager, here fed by the channel instead of by any result.      *)
(***************************************************************************)
EXTENDS IncidentManager

CONSTANTS
    Scheduled,   \* the checks of the configuration
    Workers,     \* agent.worker_pool_size of them
    Outcomes,    \* the statuses a scheduled check may return
    Agents,      \* the agents there may be: what each was configured with
    Objects, Failures, CheckName, MaxVersion,  \* of KubernetesWatcher
    ResultCap    \* capacity of the channel (256 in the agent)

ASSUME PipelineConstants ==
    /\ Scheduled \subseteq Checks /\ IsFiniteSet(Objects) /\ IsFiniteSet(Workers)
    /\ Outcomes \subseteq {"healthy", "degraded", "failed"}
    /\ Agents \subseteq [checks : SUBSET Scheduled, workers : SUBSET Workers, watches : BOOLEAN]
    /\ Failures \subseteq Objects
    \* No configured check bears a name the watcher makes.
    /\ CheckName \in [Objects -> Checks \ Scheduled]
    /\ MaxVersion \in [Objects -> Nat \ {0}] /\ ResultCap \in Nat \ {0}

VARIABLES
    results,                                       \* the channel
    jobs, ticker, worker, job, outcome,            \* of the scheduler, running
    run, exists, version, stream, dropped, replayed,  \* of the watcher
    taken,       \* history: occurrences the manager received
    newest,      \* history: check -> the status its last run returned
    overtaken    \* history: checks whose last run began beside another one

schedulerVars == <<jobs, ticker, worker, job, outcome>>
watcherVars == <<run, exists, version, stream, dropped, replayed>>
history == <<taken, newest, overtaken>>
vars == <<managerVars, results, schedulerVars, watcherVars, history>>

\* The scheduler between Start's return and Stop.  (~TRUE: TLC takes no constant
\* FALSE in an UNCHANGED.)
S == INSTANCE Scheduler WITH
       Checks <- Scheduled, MaxStarts <- 1, cancel <- "live", closed <- ~TRUE,
       jobsField <- "chan", starter <- "returned", starts <- 1, stopper <- "idle",
       stopJobs <- "nil", panicked <- ~TRUE, overlapped <- ~TRUE

W == INSTANCE KubernetesWatcher WITH
       CheckNames <- Checks, ReplayCap <- FailureCap, ResultsCap <- ResultCap

PipelineTypeOK ==
    /\ TypeOK
    /\ W!TypeOK
    /\ \A i \in DOMAIN results : results[i] \in S!CheckResult \cup W!Result
    /\ Len(results) <= ResultCap
    /\ taken \subseteq W!Occurrence
    /\ newest \in [Scheduled -> Outcomes \cup {"none"}]
    /\ overtaken \subseteq Scheduled

-----------------------------------------------------------------------------
(* The writers *)

Busy(c) == {w \in Workers : worker[w] \in {"running", "delivering"} /\ job[w] = c}

Tick(c) ==
    /\ S!TickerSend(c) \/ S!TickerTick(c) \/ S!TickerExit(c)
    /\ UNCHANGED <<managerVars, watcherVars, history>>

BeginRun(w) ==
    /\ S!WorkerTake(w)
    /\ LET c == job'[w] IN
         overtaken' = IF Busy(c) = {} THEN overtaken \ {c} ELSE overtaken \cup {c}
    /\ UNCHANGED <<managerVars, watcherVars, taken, newest>>

EndRun(w) ==
    /\ S!WorkerRan(w)
    /\ newest' = [newest EXCEPT ![job[w]] = outcome'[w]]
    /\ UNCHANGED <<managerVars, watcherVars, taken, overtaken>>

Report(w) ==
    /\ S!WorkerDeliver(w) \/ S!WorkerExit(w)
    /\ UNCHANGED <<managerVars, watcherVars, history>>

Watch == W!WatcherStep /\ UNCHANGED <<managerVars, schedulerVars, history>>

\* The cluster of an agent that runs in one.
Cluster ==
    /\ run # "off" /\ W!ClusterStep
    /\ UNCHANGED <<managerVars, schedulerVars, history>>

-----------------------------------------------------------------------------
(* The reader *)

\* A healthy result of a check without an incident.
NothingToResolve(c) == LoopReady /\ c \notin DOMAIN active /\ UNCHANGED managerVars

\* processResult: a degraded check fails.
Process(c, status) ==
    IF status = "healthy"
      THEN ResultHealthy(c) \/ NothingToResolve(c)
      ELSE ResultFailedFirst(c) \/ ResultFailedAgain(c)

Receive ==
    /\ results # << >>
    /\ LET r == Head(results) IN
         /\ Process(r.check, r.status)
         /\ taken' = IF "about" \in DOMAIN r THEN taken \cup {r.about} ELSE taken
    /\ results' = Tail(results)
    /\ UNCHANGED <<schedulerVars, watcherVars, newest, overtaken>>

\* The manager's other steps.  Nobody needs to read the channel of events: emit
\* never waits.
ManagerStep ==
    /\ emit(Loop) \/ RunReturns
    /\ UNCHANGED <<results, schedulerVars, watcherVars, history>>

Stop == Cancel /\ UNCHANGED <<results, schedulerVars, watcherVars, history>>

-----------------------------------------------------------------------------
PipelineInit ==
    /\ Init
    /\ results = << >> /\ jobs = << >>
    /\ \E agent \in Agents :
         /\ ticker = [c \in Scheduled |-> IF c \in agent.checks THEN "sending" ELSE "none"]
         /\ worker = [w \in Workers |-> IF w \in agent.workers THEN "idle" ELSE "none"]
         /\ W!Init(agent.watches)
    /\ job = [w \in Workers |-> "none"] /\ outcome = [w \in Workers |-> "none"]
    /\ taken = {}
    /\ newest = [c \in Scheduled |-> "none"] /\ overtaken = {}

PipelineNext ==
    \/ \E c \in Scheduled : Tick(c)
    \/ \E w \in Workers : BeginRun(w) \/ EndRun(w) \/ Report(w)
    \/ Watch \/ Cluster
    \/ Receive \/ ManagerStep \/ Stop

PipelineSpec == PipelineInit /\ [][PipelineNext]_vars

\* The watcher's goroutine runs, select sees a ready ctx.Done sooner or later,
\* and the API server accepts a watch again and again.
WatcherFairness ==
    /\ WF_vars(Watch)
    /\ SF_vars(Watch /\ W!WatchOpens) /\ SF_vars(Watch /\ W!SeeCanceled)
WatcherSpec == PipelineSpec /\ WatcherFairness

-----------------------------------------------------------------------------
(* Properties *)

\* The result of the newest run of a check decides whether it has an incident,
\* once nothing of the check is under way: no full channel and no other writer
\* loses or reorders it.  The exception is a run that began while another
\* worker still had the same check: then the older result may come last
\* (Scheduler.worker runs the check outside any lock, processResult looks at the
\* order of arrival only).
NewestRunDecides ==
    \A c \in Scheduled \ overtaken :
       /\ ctx = "live" /\ newest[c] # "none"
       /\ Busy(c) = {} /\ \A i \in DOMAIN results : results[i].check # c
       => (c \in DOMAIN active <=> newest[c] # "healthy")

\* Once the watcher has caught up with an open watch, the latest occurrence of
\* every failure in the cluster reached the results channel, or was dropped
\* because that channel was full: recurrences, broken watches and the ten
\* seconds without one lose nothing else (watchEvents, processEvent).
CaughtUp ==
    run = "watching" /\ stream = << >> =>
      \A o \in exists \cap Failures :
        \/ W!Latest(o) \in taken \cup dropped
        \/ \E i \in DOMAIN results :
             "about" \in DOMAIN results[i] /\ results[i].about = W!Latest(o)

\* How often the objects of check c occurred, and how often they were replayed.
Named(c) == {o \in Failures : CheckName[o] = c}
Sightings(c) == UNION {{o} \X (1..(version[o] + replayed[o])) : o \in Named(c)}
Seen(c) == Cardinality(Sightings(c))

\* All objects of one name share one incident, that nothing ever closes, and its
\* failure count is bounded by what happened in the cluster: each occurrence is
\* counted once, and once more for every watch that was opened while its object
\* existed (processEvent; Watch with empty ListOptions replays).
ReplaysBoundCount ==
    \A c \in Checks \ Scheduled :
       LET ids == {i \in DOMAIN store : store[i].check = c} IN
         /\ Cardinality(ids) <= 1
         /\ \A i \in ids : store[i].failures <= Seen(c)

\* While the agent runs, its watcher, if it has one, watches again and again,
\* whatever watches fail or break (Run).
WatchesAgain == []<>(run \in {"off", "watching"} \/ ctx = "done")

\* After the cancellation Run returns, although watchEvents reports a
\* cancellation as success and Run looks at the context on errors only.
WatcherStops == ctx = "done" ~> run \in {"off", "returned"}
=============================================================================
