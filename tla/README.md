# Uptimy agent: TLA+ verification

The agent runs health checks, turns failures into incidents, repairs them with
configured recipes, keeps incidents in a local database across restarts, and
reports to a control plane. This directory holds TLA+ models of its components,
the TLC configurations that check them, and TLAPS proofs of every safety
property the passing runs check. `PROJECT.json` lists components, runs, the
source lines behind each definition, the mutants that show each property can
fail, findings, hazards and theorems.

    tlc -workers 2 -config Manager.cfg IncidentManager       # any run
    tlapm IncidentManagerProofs.tla                          # the proofs
    tlapm RepairEngineProofs.tla                             # and the other *Proofs modules

## The system

| Component | State | Operations | Talks to |
|---|---|---|---|
| check scheduler (`checks/scheduler.go`) | cancel function, job channel, two wait groups | Start, Stop, a ticker per check, a worker pool | results channel (256) to the manager |
| kubernetes watcher (`kubernetes/watcher.go`) | none but the open watch | Run, watchEvents, processEvent | results channel, without blocking |
| incident manager (`incidents/manager.go`) | map check -> incident, identifier counter | processResult, SetStatus, GetActive, Rehydrate | database, recorder, event channel (256) to the engine |
| repair engine (`repair/engine.go`) | rules, recipes, semaphore (10), wait group | Run, handleIncident, executeRecipe, executeStep | manager (GetActive, SetStatus), guardrails, database |
| guardrails (`repair/guardrails.go`) | repair history per rule, last execution per action | CheckRateLimit, RecordRepair, CheckAction, RecordActionExecution | called by the engine under their own lock |
| telemetry buffer (`telemetry/buffer.go`) | slots, head, count | Push, Drain, Snapshot | filled by the recorder, drained by the client |
| control plane client (`pkg/client`) | connection, connected flag, two report channels (128) | RunWithReconnect, sendLoop, recvLoop, Report*, Disconnect | grpc stream |
| recorder (`metrics/recorder.go`) | none of its own | Record* | gauge, buffer, client |
| storage (`storage/boltdb.go`) | buckets incidents, repairs, config_cache | Save*, List*, Close | manager, engine |
| runtime and CLI (`runtime`, `cmd/agent`) | wiring, contexts, errgroup | New, Start, Shutdown, the run command | everything |
| configuration (`config`, `checkers/build.go`) | fixed after Validate | LoadFromFile, Validate, BuildFromConfig, LoadConfig | everything, at start-up |
| checkers (`plugins/checkers`) | none | Run of nine kinds | the operating system, docker, remote endpoints |
| actions (`plugins/actions`) | none | Execute of fifteen kinds | docker, systemd, files, Kubernetes, webhooks |
| registries, exporter, logging | fixed at start-up, or I/O | | |

What is hard here: repair goroutines work on snapshots while the manager's loop
changes the incident under them; checks and counts are separate critical
sections; channels drop what they cannot hold; every save may fail; the process
may stop between any two steps and start again from the database; Shutdown does
not wait for Start; streams and watches break; two writers share the results channel, one
that blocks and one that drops; an action's call may take effect although its answer is
lost, and is then retried. `PROJECT.json` lists these hazards
at their lines, each with the properties that would catch it.

What makes each component correct: the manager's map and the database agree, and
a restart rebuilds the map; an incident that is being repaired is always moved
on, and an open one is repaired in the end; the rate limit bounds repairs; a step's success means
that its effect is there; the newest result of a check decides whether it has an
incident; Stop returns and leaves no goroutine; the buffer is a drop-oldest queue;
items reach the control plane in order and once; an agent runs on a configuration whose
references resolve; after a signal everything ends.

## Modules

Conventions. A Go map is a partial function whose DOMAIN is its keys. A method
that runs under a mutex is one action up to the unlock. Timestamps, service
names, messages and logging are left out. An operator whose comment begins with
"Mutant" is not part of the model: it is a variant of the definition after it, with a plausible
bug, under which the property named in `PROJECT.json` fails.

**IncidentManager**. `active`, `idCounter` and `events` are the
manager's fields; `store` is the incidents bucket; `pending[g]` is the event that
goroutine `g` built under the lock and sends after the unlock (`emit`), so other
goroutines may step in between and events may be sent out of order or dropped.
`persistIncident` may fail (`StoreMayFail`, or after `CloseStore`), and `unsaved`
remembers which incidents' last change did not reach disk. `Restart` is possible
in every state: a crash, or the start after a shutdown. It reseeds the counter
from the clock and rehydrates. Keys are compared as numbers: bbolt orders
`inc-<n>` by bytes, which agrees for the 13-digit millisecond values in use until
the year 2286.

**IncidentLog** is what the bucket promises whoever reads it: a history in which the incidents of a check enter in
order and only the newest unresolved one changes. The manager implements it (`StoreIsLog`), with `store` as the log.

**RepairEngine** (`MCRepairEngine`) extends IncidentManager: the engine's loop takes the
manager's events and starts goroutines (`Callers` are the slots for them). `pc[w]`
follows handleIncident from one access to shared state to the next; `snap[w]` is the
snapshot it was started with. `history` is the guardrails' repair history of the rules
that have a limit (that of the others is never read); `records` the keys of the
repairs bucket: start times, as in persistResult, so two repairs of one instant share a record. A recipe is a step that
takes a while and succeeds or fails.

**RecipeExecution**: executeRecipe and executeStep, one action per step outcome and
attempt, for every recipe of `RecipeSet`. Cooldowns are a constant: no production
code calls SetCooldown. The run has one, so that a step is also refused for it; no property is stated (see below).

**Checkers**: for each checker the status it gives to an observation, as an operator. A record
with the field `ok` stands for a probe and whether it worked. **Configuration**: the defaults, the merge
with a file, Validate, and what BuildFromConfig, Engine.LoadConfig and New make of the
result, as operators on records.

**RepairActions** (`MCRepairActions`) extends RecipeExecution and Checkers: between BeginAttempt and the end
of the attempt, `pc[r]` and `local[r]` follow the Execute of a built-in action from one call
to the outside to the next. A call is refused, or takes effect and is answered, or takes effect and
its answer is lost. The machine and the cluster (`unit`, `files`, `temp`, `sets`,
`template`, `object`, `pod`) also change by themselves. A healthcheck step evaluates the
checker on that same world, so a recipe such as "restart the service, wait, check it" is followed from
end to end. An action that is not built in succeeds or fails.

**RingBuffer** implements **DropOldestQueue** (the abstract specification) under the
mapping that reads the live slots from `head`. The client holds an instance of it, and the
refinement is checked there (`BufferImplementsQueue`), with the client's drains and the recorder's pushes.

**Scheduler**: Start spawns goroutines one at a time after releasing the
lock; Stop runs concurrently. A send on the closed job channel is the outcome
Go gives it: a panic, chosen by `select` like any ready case. The history variable
`overlapped` says that a Stop ran during a Start. A check's run returns one of `Outcomes`.

**ControlPlaneClient** (`MCControlPlaneClient`): RunWithReconnect, the two loops of the open stream, the recorder's
pushes and reports, Disconnect. Items are numbered per kind. The grpc stream is external:
a broken stream loses what is on the wire. A method call on a nil connection is a panic.

**KubernetesWatcher**: Run, watchEvents, processEvent. The API server is external: a watch
without a resource version starts with every object that exists; `replayed` counts how often that
named each object. Objects of one name in two namespaces have the same check name (`CheckName`).

**ResultPipeline** (`MCResultPipeline`) composes the results channel: it extends IncidentManager and
instantiates Scheduler (between Start's return and Stop) and KubernetesWatcher, whose
variables `results` is. `Agents` says what an agent has: which scheduled checks, which workers, a watcher or none.
Workers block on a full channel, the watcher drops, and the manager's `processResult`
takes the head. Nobody reads the manager's events there: `emit` never waits.

**AgentLifecycle** (`MCAgentLifecycle`) extends Configuration: the run command from the file it reads, New and its
failures, Start with its errgroup, Shutdown. Start, the members and main are separate
processes; the members are those the configuration enables, launched in the order of the code. The engine's loop
takes events, and starts repairs, until it sees the cancellation, and then waits for them (`draining`).

**IncidentManagerProofs**, **RepairEngineProofs**, **RecipeExecutionProofs**, **RepairActionsProofs**,
**SchedulerProofs**, **ControlPlaneClientProofs**, **ResultPipelineProofs**, **AgentLifecycleProofs**: theorems
about the modules they are named for. Each extends its module; those of a composition extend the proofs
of the component it is made of as well.

## Runs

Passing:

| Run | Properties | What it shows |
|---|---|---|
| `manager` | TypeOK, DiskMatchesMemory, StoreIsLog, RestartIsLossless | map and bucket under results, status changes, failed saves, shutdown, a crash anywhere and a restart; the bucket implements the history IncidentLog: no late or stale save takes back a failure or a resolution |
| `engine` | RepairingHasWorker, RateLimitOvershoot | whoever writes last, an incident in repairing has a goroutine that will move it on; the limit is passed by at most SemCap - 1 repairs |
| `engine_live` | OpenIncidentIsRepaired, ShutdownCompletes | dropped events, semaphore timeouts, a crash and a restart only delay a repair; after a cancellation both loops and all repairs end |
| `recipe` | ActionsTypeOK, OnFailureStepFollowsFailure, RecipeTerminates, RecipeAdvances, SuccessMeansAchieved, LogContentKept, RollbackTargetIsSecond, RollbackLeavesFaulty, NoBlindUpdate | all recipes of up to three abstract steps, and fifteen of the built-in actions, run by one goroutine on a world that refuses, forgets to answer and changes |
| `scheduler` | NoSendOnClosed, StopLeavesNothing, WaitsForLeaving, MissedGoroutinesEnd, StopReturns, DueCheckRuns | Start, Stop at any point of Start, Start again, with nobody reading results |
| `client` | TypeOK, ReceivedInOrder, NoOrphanLoops, NilConnOnlyAtShutdown, Reconnects, ClientStops, LossesAreNamed, BufferImplementsQueue | queues, broken streams, reconnections, a concurrent Disconnect; the four ways an item is lost; refinement of the drop-oldest queue |
| `pipeline` | CaughtUp, ReplaysBoundCount, WatchesAgain, WatcherStops, NewestRunDecides | watcher, channel and manager: only a full channel loses a failure, only replays count one twice; scheduler, channel and manager: only runs of one check that overlap are decided by the older one |
| `lifecycle` | StartedConfigIsSound, SignalExits, FailureExits | every small configuration, failures of New, signals and exporter failures at any point, Shutdown |

Violations, each a sentence of the repository that the code does not keep (the full
quotations are in `PROJECT.json`):

| Run | What happens |
|---|---|
| `engine_double_repair` | goroutines started by two events of one open incident both repair it |
| `engine_stranded` | an incident rehydrated in repairing is never repaired |
| `client_telemetry_lost` | a drained batch whose Send fails is lost |
| `rollback_finds_nothing` | a rollback finds no previous revision when the second-highest is listed before the highest |

Several properties carry an exception because the code has one. They are worth knowing:

* `NoSendOnClosed`: Start releases the lock before it adds the tickers to their wait group, so a Stop that overlaps with
  Start may close the job channel before a ticker exists, and the ticker's send panics, whatever the comment of Stop
  says (below). The property says that this takes such a Stop, and an agent whose context is canceled.
* `StopLeavesNothing` and `WaitsForLeaving`: after a Stop that overlapped with Start goroutines may be left, and they may join
  the groups it waits for. Those that are left have been canceled in that case too, and `MissedGoroutinesEnd` says that they
  end.
* `RateLimitOvershoot`, not "at most max repairs": CheckRateLimit runs before the recipe and RecordRepair
  after it, so repairs admitted together are not counted against each other.
* `LossesAreNamed`: a failed Send loses its message (for telemetry the whole batch), a break what is on the wire,
  besides what full channels and a full buffer drop. `client_telemetry_lost` sets this against the docs.
* `NilConnOnlyAtShutdown`: a Disconnect between Connect and the read of `c.conn` leaves
  RunWithReconnect with a nil connection.
* The manager's properties assume a clock that is not set back across a restart
  (`ClockStepsBack = FALSE`): the identifier counter is seeded from it.
* `RepairingHasWorker` holds before the first restart; `engine_stranded` shows why. An incident that was
  still open at the crash is repaired after the restart (`OpenIncidentIsRepaired` in `engine_live`).
* `NewestRunDecides` exempts a run that begins while another worker still has the same check
  (`overtaken`): nothing orders their results. Without the exemption TLC finds an incident re-opened by
  the older result.
* `ReplaysBoundCount`: an incident of the watcher is shared by all objects of that kind and name, whatever
  their namespace, is never resolved, and counts an event object again after each new watch.
* `RollbackTargetIsSecond` is about what findPreviousRevision finds; that it always finds it is what
  `rollback_finds_nothing` refutes.
* `RollbackLeavesFaulty` is about one rollback. The merge patch carries no resource version, and a retry after
  a lost answer rolls back from the revision it had just rolled back to: to the faulty one.
* `LogContentKept` names two losses of rotate_logs without logrotate: a backup of the same second is replaced; `os.Create`
  and the renaming back replace a log that the application re-created meanwhile. It says nothing of `truncateFile`, the
  fallback for a rename that fails, which cuts the wrong end (below). With logrotate the copy and the truncation are one
  step here.
* `SuccessMeansAchieved`: stop_service takes an `is-active` that could not run (the step's timeout) for a
  stopped service, so only its own stop call is certain. Of a swarm it says that the node is active without an error, not
  that its managers have a quorum (below).
* `FailureExits` holds in an agent whose repairs come to an end again and again: the engine waits for all of them, and its
  loop may start some after the cancellation.
* After a signal `SignalExits` holds because main does not wait for Start, so the process may
  exit with repairs under way and the database closed before the manager's last save
  (`DiskMatchesMemory` covers the failed saves, through `CloseStore` and `unsaved`).

### Bounds

Two goroutines suffice for the races above: each lies between a check and an act of one
goroutine, and one step of another comes in between. One check shows the races on an incident; two identifiers show that
a check can be re-opened, with a record of its earlier incident still unresolved if a save was lost. That incidents of different
checks do not mix is proved (`DiskConsistent`, `BucketIsHistory`). Channels of capacity one or two are full after one or two
sends, so drops happen. `FailureCap` merges failure counts, which no guard reads. `MayStop` and `MayClose` keep
shutdown, or the closing of the database, out of instances that are not about them: `manager` closes the database, at any point of
the shutdown; the engine reads nothing from it, so `engine` leaves it open, and `pipeline` does not close it. A
restart gives a state with rehydrated and new incidents: `engine_live` has one; `manager` has two, so that what
was loaded after a lost save is saved, lost and loaded again; `engine`, which shuts down instead, has none. In `engine`
the window is one tick and the clock moves by one, so entries expire while others are fresh. Recipes of
three steps contain every order of a failed, a skipped and a successful step, and the
retry counts include the negative one nothing rejects. The proofs do away with the bounds for the safety properties. The client's run has
reports of one of the two kinds, which take the same path, and telemetry enough to be reordered, to overflow queues of one and to make its ring wrap.

In `recipe` the world changes by itself once per run (`MaxEvents`): each race lies between two calls of one
Execute, where one change comes in between; the application may write two more entries to a log of two. Only changes that a
step of the recipe can notice are taken, which leaves out nothing the properties see. The
healthcheck recipes see processors, memory, certificates and swarms on both sides of each threshold (`Hosts`);
`ReplicaSetLists` has three owned revisions in every order, two with a foreign replica set, and one alone.
`pipeline` has two agents: one whose check runs on two workers, so that it overlaps with itself, with a channel of
one on which they wait; and one that watches two objects of one name, one of which recurs, with replays
up to a failure count of two. Scheduler and watcher share nothing but the channel, and their results never bear the same name. The life cycle's files combine lists of up to two checks, recipes and
rules, with duplicate, missing and unknown names, with one other setting that is missing or wrong.

When all slots of `Callers` are taken the engine's loop waits where the agent would start
one more goroutine; such a goroutine would wait on the semaphore, which the instances keep
no larger than the number of slots.

Runs that say `CHECK_DEADLOCK FALSE` end legitimately: an agent that has stopped, or a
bounded clock, identifier or item count that is used up.

### Fairness

* Weak fairness on each goroutine: the Go scheduler runs what can run.
* Strong fairness where a `select` has `ctx.Done` among ready cases: Go picks among them
  at random, so a case that stays ready is taken in the end.
* `engine_live`, `engine_stranded`: a check with an active incident keeps reporting
  (its ticker fires for ever). A result may be healthy or failed, so `engine_stranded` is
  the agent in which the failure persists, as the docs have it.
* `engine_*`: a recipe ends (its actions get the agent's context and may have timeouts).
  `lifecycle` assumes nothing about repairs; `FailureExits` has as its hypothesis that again and again none is under way. Its
  engine's loop sees the cancellation in the end, although its select may take events first. `recipe` assumes that a call to the outside returns.
* `client`, `pipeline`: the remote side accepts a connection again and again. A canceled
  context ends the stream (grpc). `pipeline` assumes nothing about the scheduler or the manager.

## Proofs

The theorems hold for every value of the constants that satisfies the modules' named assumptions and, where said,
`~ClockStepsBack`. The assumptions say what the code or the outside guarantees:

* `ManagerConstants`, `EngineConstants`: finite sets of checks and goroutines, capacities that are positive, a sequence of
  repair rules. `SchedulerConstants`, `ClientConstants`, `PipelineConstants`: the same for workers, channels and cluster
  objects, and no configured check bears a name the watcher makes.
* `RecipeConstants`: recipes are sequences of steps.
* `ActionConstants`: the deployment controller numbers the replica sets of a deployment, and a faulty template is, at the
  start, its newest; the disk has a size in which percentages are exact.
* `LifecycleConstants`: a file merged with the defaults is a record of the Go type.

Every property of a passing run that is not a liveness property is stated by a theorem. Proved and in no run are the type
invariants of the scheduler and of two compositions (`SchedulerTypeCorrect`, `EngineTypeCorrect`, `PipelineTypeCorrect`), on which the other proofs
rest, and `ResolvedIsFinal`, which is a part of `StoreIsLog`.

`IncidentManagerProofs`:

* `TypeCorrect`: `Spec => []TypeOK`.
* `DiskConsistent`: `Spec => []DiskMatchesMemory`, for a clock that is not set back across
  a restart (with such a clock an identifier may be used twice, and it is false).
* `ResolvedStays`: `Spec => ResolvedIsFinal`, under the same assumption.
* `RestartLossless`: `Spec => RestartIsLossless`, under the same assumption.

The inductive invariant is `TypeOK /\ DiskMatchesMemory`. What one wants to know is
`SavedAgrees`: an incident whose last save succeeded is on disk as it is in memory,
and an unresolved record is active. It is not inductive. A restart loads,
of several unresolved records of a check, the one with the greatest key, so one needs
`ActiveIsNewest`: the active incident's record is that one, even while it is
stale because a save failed. That in turn holds for a new incident only because
its identifier is above every stored one, `IdsBelowCounter`. `ActiveDistinct` keeps the
save of one check from overwriting another's record. There is one lemma per operation
(resolve, first failure, later failure, status change, emit, restart), each with one step per
conjunct. `ResolvedIsFinal` follows because every save writes either the active incident's record,
which is not resolved, or a fresh one; `RestartIsLossless` because with nothing unsaved
the newest unresolved record of a check is its active incident, with the same contents.

* `BucketIsHistory`: `Spec => StoreIsLog`, under the same assumption. `DiskConsistent`'s invariant is not enough: while a save
  is missing, it says nothing of the record that is behind. `LogInv` says how far behind it may be: it
  counts no more failures than the active incident, and an active incident without a record is newer than
  every record of its check. Then each save enters or amends the history (`UpdateKeepsLog`, `ResolveKeepsLog`,
  `CreateKeepsLog`), and a restart, which loads the newest unresolved record, re-establishes `LogInv` (`RestartKeepsLog`).

`RepairEngineProofs`:

* `EngineTypeCorrect`: `EngineSpec => []EngineTypeOK`.
* `EngineImplementsManager`: `EngineSpec => Spec`. The engine touches the manager only through
  `GetActive`, `SetStatus` and the event channel, so every step of the composition is a step of the
  manager or leaves it alone (`ManagerStep`), and the theorems above hold of the composition. The engine's
  type invariant is needed for it: a status change is a call for a known check.
* `RepairingIsOwned`: `EngineSpec => []RepairingHasWorker`. Inductive relative to the type
  invariant: only MarkRepairing makes an incident repairing, and its goroutine then stays in `Repairing`
  until SettleStatus, which takes the incident of the same check out of repairing.
* `RateLimitBounded`: `EngineSpec => []RateLimitOvershoot`. The invariant `RateInv` adds that
  the semaphore is not over-full and that histories are finite. A repair is admitted while fewer than
  the limit are counted, and those in flight all hold the semaphore; counting a repair takes it out of those
  in flight. The limit itself is a number because the last configured rule exists, which
  `MaxOfBounded` gets from the well-foundedness of the natural numbers.

`RecipeExecutionProofs`:

* `OnFailureStepsFollowFailures`: `Spec => []OnFailureStepFollowsFailure`. It is inductive only with
  `FlagNamesLastStep`: previousFailed is set only if the last result, skipped ones included, is a failure (a skipped
  step keeps the flag, but is skipped only while the flag is clear); and with `OnFailureStepAdmitted`: while an
  on-failure step is tried, the flag it was admitted by is still set, whatever other goroutines do.
* `RecipesAdvance`: `Spec => RecipeAdvances`. A goroutine's results and its place in the step in hand (`Place`) only grow, and
  `ReachInv` bounds both: by the number of steps, and by retries + 1 attempts or none. This is the safety half of
  `RecipeTerminates`: what fairness has to add is that a goroutine takes its steps.

`RepairActionsProofs`:

* `ActionsImplementRecipes`: `ActionsSpec => Spec`. Each call an action makes leaves the recipe alone, or is the end of
  an attempt. `OnFailureActionsFollowFailures` and `ActionsAdvance` are the theorems above for the composition,
  which is what the run checks.
* `ActionsTypeCorrect`: `ActionsSpec => []ActionsTypeOK`.
* `UpdatesAreNotBlind`: `ActionsSpec => NoBlindUpdate`. The invariant `VersionInv` says that a goroutine between reading
  an object and writing it holds a version the object has had, and a smaller one than the object's
  now if anybody changed it unseen; one write of several goroutines raises the version, so the others' are refused.
  It takes any number of goroutines, where the run has one.
* `RollbacksGoToSecond`: `ActionsSpec => []RollbackTargetIsSecond`. findPreviousRevision is one pass with three variables;
  `Knows` says what they hold after each prefix of the list: the highest revision, and the second-highest with its template
  if it came after the highest. `PassKnows` proves it by induction on the prefix, for lists of any length. `PlaceInv` keeps
  the revisions of a deployment different, through rollouts and the deployments of others.
* `RollbackEndsFault`: `ActionsSpec => []RollbackLeavesFaulty`. `RollbackInv`: before the first patch, and while nobody
  else deploys, the newest replica set has the deployment's template, and no goroutine between its List and its Patch
  has found the faulty template to go back to.
* `LogKeepsContent`: `ActionsSpec => LogContentKept`. `FilesInv`: an entry is in one file at most. So what a rename or a new
  file replaces is all that is lost, and a rename back finds its backup or does nothing.
* `SuccessIsAchieved`: `ActionsSpec => SuccessMeansAchieved`. A success is reported in the step that looked: the inspect, the
  is-active, or the checker's probe. `HealthyIsSound` shows for each checker that healthy means what `Sound` says of the world,
  and `UsageIsExact` that the truncated percentage of the disk loses nothing. stop_service succeeds also when it
  could not look; `StoppedInv` says that its service is stopped unless somebody else started it.

`SchedulerProofs`:

* `SchedulerTypeCorrect`: `Spec => []TypeOK`.
* `NoSendAfterClose`, `StopLeavesNoGoroutine`: `Spec => []NoSendOnClosed` and `Spec => []StopLeavesNothing`, both with what they
  say of a Stop that overlaps with Start. The invariant `OverlapAtExit`: such a Stop comes after the context is canceled. The
  invariant `StopInv`: unless Stop overlapped with Start, there is no Stop under way while Start spawns, the job channel is closed only
  when no ticker is left, and the stages of Stop have waited for the tickers and then for the workers.
* `WaitersAreServed`: `Spec => WaitsForLeaving`. `WaitInv`: without overlap, while somebody waits either the run is canceled or
  nobody is there, and before the first Start nobody is; with overlap the context is canceled (`OverlapAtExit`), and goroutines
  may join, as the property says. This is the safety half of `StopReturns`: what fairness has to add
  is that a canceled goroutine leaves.

`ControlPlaneClientProofs`:

* `ClientTypeCorrect`: `Spec => []TypeOK`, with the ring buffer: its live slots are written.
* `NoLoopSurvivesItsStream`: `Spec => []NoOrphanLoops`, an invariant as it stands. `PanicOnlyAtShutdown`:
  `Spec => []NilConnOnlyAtShutdown`, by `ConnectionInv`: between Connect and the read of the field, only Shutdown's
  Disconnect makes the connection nil.
* `RingBufferIsQueue`: `Spec => BufferImplementsQueue`. Under the mapping that reads the live slots from the head, a push
  is an append, at capacity without the oldest, and a drain empties the queue: arithmetic modulo the capacity.
* `ItemsArriveInOrder`: `Spec => []ReceivedInOrder`. `OrderInv`: along the way from the control plane back to the recorder
  (received, wire, outbox, queue) the numbers of a kind increase, within each place and from each to the next. What a
  step loses leaves the rest in order; what it moves goes from the head of one place to the end of the next.
* `OnlyNamedLosses`: `Spec => LossesAreNamed`. `OutboxInv`: the outbox is empty except between the select that filled it and
  its Send, so no step but a failed Send can drop from it, and a new stream starts without it.

`ResultPipelineProofs`:

* `PipelineImplementsManager`: `PipelineSpec => Spec`, so the manager's theorems hold of the pipeline;
  `PipelineDiskConsistent` is one of them. `PipelineTypeCorrect`: `PipelineSpec => []PipelineTypeOK`.
* `NewestResultWins`: `PipelineSpec => []NewestRunDecides`. `NewestInv`: of a check that is not overtaken at most one run is
  under way, and then its outcome is the newest; with none under way, the last result of the check in the channel is the
  newest run's, or the manager has decided by it. The watcher's results are of other checks, so they only take room.
* `WatcherCatchesUp`: `PipelineSpec => []CaughtUp`. `CatchUpInv`: while a watch is open the latest occurrence of each failure
  was delivered or dropped, or a notification of it is in the stream. An open starts with all objects; a break
  ends the claim.
* `ReplaysAreBounded`: `PipelineSpec => []ReplaysBoundCount`. `ReplayInv` counts what the incident has counted, what is in the
  channel and what is in the stream together: an occurrence or a replay adds one to both sides, processEvent and the
  manager move one along, drops and breaks lose some. The incident has one record because no result ever resolves it.
  Counting needs cardinalities of sets of positions (`HowManyAppend`, `HowManyTail`) and of pairs (`AreaGrows`).

`AgentLifecycleProofs`:

* `AgentStartsSound`: `Spec => []StartedConfigIsSound`. Validate's conditions imply the soundness of the configuration
  (`Sound`) for configurations of any length; the invariant carries it through New and Start.

Where an argument is an induction (a pass over a list, the greatest index of a set) it is stated about sets of numbers and taken
from the well-foundedness of the natural numbers (`BoundedInduction`, `MaxOfBounded`, `GreatestIndex`), because the library's
induction theorems take an operator as a parameter, which the provers cannot instantiate.

Only model-checked: liveness, which rests on fairness and ENABLED, beyond the prover (`OpenIncidentIsRepaired`,
`ShutdownCompletes`, `RecipeTerminates`, `StopReturns`, `DueCheckRuns`, `MissedGoroutinesEnd`, `Reconnects`, `ClientStops`,
`WatchesAgain`, `WatcherStops`, `SignalExits`, `FailureExits`).

## What the models show besides

Sentences of the repository that the definitions contradict and no run refutes: what the code does shows in one or two
actions, and no property above claims any of them.

* Stop closes the job channel under "Now safe to close the channel - no more senders" (`scheduler.go:117`). A Stop during
  Start has found no ticker to wait for, and the tickers that come then send on the closed channel: in the model,
  `panicked`. That agent is exiting: Stop overlaps with Start only after the cancellation. The comment of Scheduler.Start, "It
  blocks until ctx is canceled" (`scheduler.go:49`), is not true either: it returns when the goroutines are launched.
* The gauge of active incidents, "Number of currently active (unresolved) incidents." (`metrics.go:69`): a restart sets it to
  zero and Rehydrate fills the map without counting, so it is too low from then on, and below zero once the
  loaded incidents are resolved (`gauge` in IncidentManager).
* A swarm that is "active with quorum" is healthy, and "reachable managers should be a majority" (`docker_swarm.go:92`, `:102`):
  of an even number of managers half is enough for `evaluateSwarm`, which is no majority.
* The rotation keeps "recent content" and truncateFile "the last maxSize bytes" (`rotate_logs.go:91`, `:133`): `TruncateFile`
  keeps the first ones, because f.Truncate cuts the end.
* A cooldown is "the minimum duration between executions of each action" (Guardrails): two of the engine's ten repairs can pass
  CheckAction together and execute the action back to back. No production code sets a cooldown.

Facts that nothing in the repository contradicts:

* A rotation by backup frees no room on its disk, so "rotate the log, then check the disk" fails unless something else helps.
* restart_container wraps the wrong error when the restart fails (`restart_container.go:51`, a nil one).
* A certificate with less than a day left is failed, not degraded as "Warning state if still valid"
  (`certificate.go:98`) suggests: hours are divided and truncated.
* A retry of restart_pod after a lost answer finds no pod of that name and fails.
* Validate does not look at `logging.level`: the validate command may accept what the run command refuses.
* Validate rejects an interval of zero, so BuildFromConfig's default interval is never used.
* A check of an unknown type is skipped with a warning, so a rule for it never fires. With any check configured, a rule
  for a check name the watcher makes (`k8s-...`) is rejected.
* A later rule for a check replaces the earlier one, whose limit remains under its own name.
* After Validate no registration can fail, so New closes the database on paths the run command cannot reach.
* An incident in verifying or failed is not repaired again while its check keeps failing.

## Not modelled

The exporter's HTTP server, the Kubernetes client and detector (pure I/O: they are there or not, `inCluster`), and
generated protocol code. Of logging only the accepted levels. Of the actions, the syntax of their parameters (allowed
paths, URLs, unit names, sizes, durations): a parameter is there or not. Of the
configuration, the expansion of environment variables and TLSEnabled. Of storage the
configuration cache, DeleteIncident and GetIncident, which nothing calls. Of the recorder, counters that only
increase and the conversion of durations (`recorder.go:165` reports whole seconds as nanoseconds). Guardrails'
AllowAction and SetCooldown are called by tests only.

## Plan

Written, in this order: IncidentManager and its proofs, RepairEngine on top of it and its proofs,
RecipeExecution, RingBuffer with DropOldestQueue, Scheduler, ControlPlaneClient,
KubernetesWatcher, AgentLifecycle; then Checkers and RepairActions on RecipeExecution, Configuration under
AgentLifecycle, ResultPipeline over Scheduler, KubernetesWatcher and IncidentManager; then the proofs about
recipes and actions, and about all other components.

Next:
1. Transfer of `NoSendOnClosed` and the like to the pipeline. It takes Start and Stop there as well, and a
   channel in Scheduler that others write too: as they stand, the pipeline's scheduler begins after Start and shares
   `results` with the watcher, so it is no refinement of Scheduler.
2. The safety halves of the other liveness properties, as `RecipeAdvances` and `WaitsForLeaving` are those of
   `RecipeTerminates` and `StopReturns`.
3. The drop-oldest queue with a capacity, as the abstract specification of the report channels too.
