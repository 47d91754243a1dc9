--------------------------- MODULE AgentLifecycle ---------------------------
(***************************************************************************)
(* cmd/agent (the run command) and internal/runtime: how the process       *)
(* builds its components (New), runs them in an errgroup (Start), and      *)
(* stops (a signal, the metrics exporter's failure, Shutdown).             *)
(*                                                                         *)
(* main, the goroutine that runs Start, and the errgroup's members are     *)
(* separate processes.  What a member does while it runs is in the other   *)
(* modules; here it runs until the errgroup's context is canceled, and the *)
(* repair engine also waits for the repairs under way.                     *)
(***************************************************************************)
EXTENDS Configuration, FiniteSets

CONSTANTS
    Files,      \* the configuration files the command may be given
    MaxRepairs  \* bound: repair goroutines under way at once

ASSUME LifecycleConstants ==
    (\A file \in Files : Merged(file) \in Config) /\ MaxRepairs \in Nat

VARIABLES
    main,      \* where the run command is
    config,    \* cfg: << >> until it is loaded
    optional,  \* the members New enables, of exporter, watcher, client
    outcome,   \* what it returned: "none", "error" or "nil"
    store,     \* "none", "open" or "closed"
    ctx,       \* main's context
    group,     \* the errgroup's context, derived from ctx
    start,     \* Start: "idle", "launching", "waiting" or "returned"
    failed,    \* a member returned an error
    member,    \* member -> "off", "running", "draining" (the engine) or "returned"
    repairs,   \* repair goroutines, waiting for the semaphore or repairing
    workers    \* the scheduler's tickers and workers: "off", "running" or "gone"

command == <<main, config, optional, outcome, store>>
vars == <<command, ctx, group, start, failed, member, repairs, workers>>

Members == {"scheduler", "manager", "engine", "uptime"} \cup optional
AllMembers == {"scheduler", "manager", "engine", "uptime", "exporter", "watcher", "client"}

Exit(result) == main' = "exited" /\ outcome' = result

-----------------------------------------------------------------------------
(* The run command up to its select *)

running == <<optional, ctx, group, start, failed, member, repairs, workers>>

\* LoadFromFile; the --log-level flag overrides the level of the file.
LoadConfig ==
    /\ main = "loading"
    /\ \E file \in Files, flag \in {"", "info"} :
         /\ Valid(Merged(file))
         /\ config' = [Validated(Merged(file)) EXCEPT !.logLevel = IF flag = "" THEN @ ELSE flag]
    /\ main' = "opening"
    /\ UNCHANGED <<outcome, store, running>>

\* The file cannot be read or parsed, or is not valid.
LoadFails ==
    /\ main = "loading"
    /\ Exit("error")
    /\ UNCHANGED <<config, store, running>>

\* New: the logger and the database.
OpenStore ==
    /\ main = "opening"
    /\ config.logLevel \in LogLevels
    /\ store' = "open" /\ main' = "building"
    /\ UNCHANGED <<config, outcome, running>>

\* Validate does not look at the level; the database may be locked or unreadable.
OpenStoreFails ==
    /\ main = "opening"
    /\ Exit("error")
    /\ UNCHANGED <<config, store, running>>

\* The rest of New: a check that cannot be registered closes the database, and
\* nothing else can fail.  Then main starts Start in a goroutine of its own.
Build ==
    /\ main = "building"
    /\ IF RegisterFails(config)
         THEN store' = "closed" /\ Exit("error") /\ UNCHANGED <<optional, start>>
         ELSE /\ \E inCluster \in BOOLEAN : optional' = Enabled(config, inCluster)
              /\ main' = "selecting" /\ start' = "launching"
              /\ UNCHANGED <<outcome, store>>
    /\ UNCHANGED <<config, ctx, group, failed, member, repairs, workers>>

-----------------------------------------------------------------------------
(* Start and the members of its errgroup *)

Alive == main # "exited"

\* The order of the g.Go calls in Start.
Rank == [exporter |-> 1, scheduler |-> 2, manager |-> 3, engine |-> 4,
         watcher |-> 5, client |-> 6, uptime |-> 7]

Launch(m) ==
    /\ Alive /\ m \in Members /\ start = "launching" /\ member[m] = "off"
    /\ \A n \in Members : Rank[n] < Rank[m] => member[n] # "off"
    /\ member' = [member EXCEPT ![m] = "running"]
    /\ UNCHANGED <<command, ctx, group, start, failed, repairs, workers>>

WaitGroup ==
    /\ Alive /\ start = "launching" /\ \A m \in Members : member[m] # "off"
    /\ start' = "waiting"
    /\ UNCHANGED <<command, ctx, group, failed, member, repairs, workers>>

\* Scheduler.Start spawns its goroutines and returns; with a canceled context
\* they end at once.
SchedulerStarts ==
    /\ Alive /\ member["scheduler"] = "running"
    /\ member' = [member EXCEPT !["scheduler"] = "returned"]
    /\ workers' = "running"
    /\ UNCHANGED <<command, ctx, group, start, failed, repairs>>

WorkersEnd ==
    /\ Alive /\ workers = "running" /\ group = "done"
    /\ workers' = "gone"
    /\ UNCHANGED <<command, ctx, group, start, failed, member, repairs>>

\* The engine's loop takes an event and starts a goroutine, also after the
\* cancellation: its select may choose either.
RepairBegins ==
    /\ Alive /\ member["engine"] = "running" /\ repairs < MaxRepairs
    /\ repairs' = repairs + 1
    /\ UNCHANGED <<command, ctx, group, start, failed, member, workers>>

RepairEnds ==
    /\ Alive /\ repairs > 0
    /\ repairs' = repairs - 1
    /\ UNCHANGED <<command, ctx, group, start, failed, member, workers>>

\* Mutant: the error does not cancel the other members.
ExporterFailsAlone ==
    /\ Alive /\ member["exporter"] = "running"
    /\ member' = [member EXCEPT !["exporter"] = "returned"]
    /\ failed' = TRUE
    /\ UNCHANGED <<command, ctx, group, start, repairs, workers>>

\* The server does not come up, breaks, or reports an error when it is shut
\* down: the errgroup cancels its context.
ExporterFails ==
    /\ Alive /\ member["exporter"] = "running"
    /\ member' = [member EXCEPT !["exporter"] = "returned"]
    /\ failed' = TRUE /\ group' = "done"
    /\ UNCHANGED <<command, ctx, start, repairs, workers>>

\* The engine's loop ends; its deferred wg.Wait begins.
EngineDrains ==
    /\ Alive /\ member["engine"] = "running" /\ group = "done"
    /\ member' = [member EXCEPT !["engine"] = "draining"]
    /\ UNCHANGED <<command, ctx, group, start, failed, repairs, workers>>

\* A member sees the canceled context; wg.Wait ends with the last goroutine.
MemberReturns(m) ==
    /\ Alive
    /\ IF m = "engine"
         THEN member[m] = "draining" /\ repairs = 0
         ELSE m # "scheduler" /\ member[m] = "running" /\ group = "done"
    /\ member' = [member EXCEPT ![m] = "returned"]
    /\ UNCHANGED <<command, ctx, group, start, failed, repairs, workers>>

\* g.Wait returns; the error, if any, goes to errCh.
StartReturns ==
    /\ Alive /\ start = "waiting" /\ \A m \in Members : member[m] = "returned"
    /\ start' = "returned" /\ group' = "done"
    /\ UNCHANGED <<command, ctx, failed, member, repairs, workers>>

-----------------------------------------------------------------------------
(* The select of the run command, and Shutdown *)

\* The first SIGINT or SIGTERM; later ones are not read.
Signal ==
    /\ main = "selecting" /\ ctx = "live"
    /\ ctx' = "done" /\ group' = "done"
    /\ UNCHANGED <<command, start, failed, member, repairs, workers>>

\* errCh delivers an error: the command returns without Shutdown.
AgentError ==
    /\ main = "selecting" /\ start = "returned" /\ failed
    /\ Exit("error")
    /\ UNCHANGED <<config, store, running>>

\* Mutant: the command waits for Start only.
BeginShutdownAfterStart ==
    /\ main = "selecting" /\ start = "returned" /\ ~failed
    /\ main' = "stopping"
    /\ UNCHANGED <<config, outcome, store, running>>

\* errCh delivers nil, or the context is done.
BeginShutdown ==
    /\ main = "selecting" /\ (ctx = "done" \/ (start = "returned" /\ ~failed))
    /\ main' = "stopping"
    /\ UNCHANGED <<config, outcome, store, running>>

\* Scheduler.Stop cancels and waits for the goroutines it finds.
StopScheduler ==
    /\ main = "stopping" /\ workers # "running"
    /\ main' = "disconnecting"
    /\ UNCHANGED <<config, outcome, store, running>>

\* The exporter and the client: neither waits for Start.
DisconnectAll ==
    /\ main = "disconnecting"
    /\ main' = "closing"
    /\ UNCHANGED <<config, outcome, store, running>>

CloseStore ==
    /\ main = "closing"
    /\ store' = "closed"
    /\ Exit("nil")
    /\ UNCHANGED <<config, running>>

-----------------------------------------------------------------------------
Init ==
    /\ main = "loading" /\ config = << >> /\ optional = {}
    /\ outcome = "none" /\ store = "none"
    /\ ctx = "live" /\ group = "live" /\ start = "idle" /\ failed = FALSE
    /\ member = [m \in AllMembers |-> "off"]
    /\ repairs = 0 /\ workers = "off"

MainStep ==
    \/ LoadConfig \/ LoadFails \/ OpenStore \/ OpenStoreFails \/ Build
    \/ AgentError \/ BeginShutdown \/ StopScheduler \/ DisconnectAll \/ CloseStore
StartStep == (\E m \in AllMembers : Launch(m)) \/ WaitGroup \/ StartReturns

Next ==
    \/ MainStep \/ StartStep
    \/ SchedulerStarts \/ WorkersEnd
    \/ \E m \in AllMembers : MemberReturns(m)
    \/ RepairBegins \/ RepairEnds \/ EngineDrains
    \/ ExporterFails \/ Signal

Spec == Init /\ [][Next]_vars

\* Goroutines run, and members and workers see a canceled context.  Nothing is
\* assumed of repairs: an action may take as long as it likes.
Fairness ==
    /\ WF_vars(MainStep) /\ WF_vars(StartStep)
    /\ WF_vars(SchedulerStarts) /\ WF_vars(WorkersEnd) /\ WF_vars(EngineDrains)
    /\ \A m \in AllMembers : WF_vars(MemberReturns(m))
FairSpec == Spec /\ Fairness

-----------------------------------------------------------------------------
(* Properties *)

\* What the components are given.  After Validate, New can fail in the logger or
\* the database only; every ticker gets a positive interval (NewTicker panics
\* otherwise), every check its own name and a time limit, the ring buffer a slot;
\* the scheduler has a worker, the client an endpoint, the exporter a port; and a
\* rule's check and recipe exist, in a configuration that lists checks and
\* recipes (Validate, BuildFromConfig, Engine.LoadConfig).
StartedConfigIsSound ==
    config # << >> /\ store # "none" =>
      /\ start = "idle" => main = "building"
      /\ config.workers >= 1 /\ config.bufferSize >= 1
      /\ \A ch \in ToSet(Schedule(config)) : ch.interval > 0 /\ ch.timeout > 0
      /\ DistinctNames(Schedule(config))
      /\ "client" \in optional => config.endpoint # ""
      /\ "exporter" \in optional => config.metricsPort >= 1
      /\ \A c \in DOMAIN Rules(config) :
           /\ config.checks # << >> => c \in Names(config.checks)
           /\ config.recipes # << >> => Rules(config)[c].recipe \in DOMAIN Recipes(config)

\* After a signal the process exits, even if a repair never ends: the run
\* command and Shutdown wait for the scheduler's goroutines only.
SignalExits == ctx = "done" ~> main = "exited"

\* A failed exporter ends the agent unless some repair never ends: the errgroup's
\* context reaches every member, and the engine, which may start repairs for a
\* while after the cancellation, waits for all of them (Start, Run's wg.Wait).
FailureExits == []<>(repairs = 0) => (failed ~> main = "exited")
=============================================================================
