------------------------- MODULE AgentLifecycleProofs -------------------------
(***************************************************************************)
(* Whatever configuration files the run command may be given, the agent    *)
(* that it starts has a sound configuration: what Validate accepts is what *)
(* the scheduler, the repair engine, the client and the exporter rely on.  *)
(***************************************************************************)
EXTENDS AgentLifecycle, FiniteSetTheorems, WellFoundedInduction, TLAPS

-----------------------------------------------------------------------------
(* The last rule of a check *)

\* A nonempty set of indices has a greatest one, so Max is defined on it.  The
\* sets of the indices above each index are finite, and the strict subset
\* relation is well-founded on them: a least of these sets is empty.
LEMMA GreatestIndex ==
    ASSUME NEW n \in Nat, NEW T \in SUBSET (1..n), T # {}
    PROVE  Max(T) \in T
<1> DEFINE Above(i) == {j \in T : i < j}
           Aboves == {Above(i) : i \in T}
<1>1. IsFiniteSet(1..n)
  BY FS_Interval
<1>2. Aboves \subseteq FiniteSubsetsOf(1..n) /\ Aboves # {}
  <2>1. \A i \in T : Above(i) \in SUBSET (1..n)
    OBVIOUS
  <2>2. FiniteSubsetsOf(1..n) = SUBSET (1..n)
    BY <1>1, FS_FiniteSubsetsOfFinite
  <2>3. PICK i \in T : TRUE
    OBVIOUS
  <2> HIDE DEF Above
  <2>4. Aboves \subseteq SUBSET (1..n)
    BY <2>1
  <2>5. Above(i) \in Aboves
    OBVIOUS
  <2> HIDE DEF Aboves
  <2> QED BY <2>2, <2>4, <2>5
<1>3. IsWellFoundedOn(StrictSubsetOrdering(1..n), FiniteSubsetsOf(1..n))
  BY FS_StrictSubsetOrderingWellFounded
<1>4. \E A \in Aboves : \A B \in Aboves : <<B, A>> \notin StrictSubsetOrdering(1..n)
  <2> HIDE DEF Aboves
  <2> QED BY <1>2, <1>3, WFMin
<1>5. PICK i \in T : \A B \in Aboves : <<B, Above(i)>> \notin StrictSubsetOrdering(1..n)
  BY <1>4
<1>6. \A j \in T : ~ (i < j)
  <2> SUFFICES ASSUME NEW j \in T, i < j
               PROVE  FALSE
    OBVIOUS
  <2>1. Above(j) \subseteq Above(i) /\ Above(j) # Above(i)
    <3>1. Above(j) \subseteq Above(i)
      <4>1. T \subseteq Int
        OBVIOUS
      <4>2. \A k \in T : j < k => i < k
        BY <4>1
      <4> QED BY <4>2
    <3>2. j \in Above(i) /\ j \notin Above(j)
      OBVIOUS
    <3> QED BY <3>1, <3>2
  <2>2. Above(j) \in SUBSET (1..n) /\ Above(i) \in SUBSET (1..n)
    OBVIOUS
  <2>3. <<Above(j), Above(i)>> \in StrictSubsetOrdering(1..n)
    <3> HIDE DEF Above
    <3> QED BY <2>1, <2>2 DEF StrictSubsetOrdering
  <2> QED BY <1>5, <2>3
<1>7. \A j \in T : i >= j
  BY <1>6
<1> QED BY <1>7 DEF Max

-----------------------------------------------------------------------------
(* What Validate accepts *)

\* What the components rely on: the scheduler has a worker, the ring buffer a
\* slot, each ticker a positive interval, each check a time limit and a name of its
\* own that can be registered, and each kept rule a check and a recipe.
Sound(cfg) ==
    /\ cfg.workers >= 1 /\ cfg.bufferSize >= 1
    /\ ~RegisterFails(cfg)
    /\ \A ch \in ToSet(Schedule(cfg)) : ch.interval > 0 /\ ch.timeout > 0
    /\ DistinctNames(Schedule(cfg))
    /\ ControlPlaneEnabled(cfg) => cfg.endpoint # ""
    /\ cfg.metrics => cfg.metricsPort >= 1
    /\ \A c \in DOMAIN Rules(cfg) :
         /\ cfg.checks # << >> => c \in Names(cfg.checks)
         /\ cfg.recipes # << >> => Rules(cfg)[c].recipe \in DOMAIN Recipes(cfg)

\* BuildFromConfig on valid checks: no name is registered twice, and the defaults
\* make what is left at zero positive.
LEMMA ScheduleIsSound ==
    ASSUME NEW cfg \in Config, Valid(cfg)
    PROVE  /\ ~RegisterFails(cfg)
           /\ \A ch \in ToSet(Schedule(cfg)) : ch.interval > 0 /\ ch.timeout > 0
           /\ DistinctNames(Schedule(cfg))
<1>1. Known(cfg) \subseteq DOMAIN cfg.checks
  BY DEF Known
<1>2. /\ \A i, j \in DOMAIN cfg.checks : cfg.checks[i].name = cfg.checks[j].name => i = j
      /\ \A i \in DOMAIN cfg.checks : cfg.checks[i].name # ""
  BY DEF Valid, DistinctNames, Names
<1>3. \A i \in DOMAIN cfg.checks : cfg.checks[i].interval > 0 /\ cfg.checks[i].timeout >= 0
  BY DEF Valid, ValidCheck, ToSet
<1>4. \A i \in DOMAIN cfg.checks : cfg.checks[i].interval \in Int /\ cfg.checks[i].timeout \in Int
  <2> DEFINE CheckType == [name : STRING, type : STRING, interval : Int, timeout : Int]
  <2>1. cfg.checks \in Seq(CheckType)
    BY DEF Config
  <2>2. \A i \in DOMAIN cfg.checks : cfg.checks[i] \in CheckType
    <3> HIDE DEF CheckType
    <3> QED BY <2>1
  <2> QED BY <2>2
<1>5. DOMAIN Schedule(cfg) = Known(cfg)
  BY DEF Schedule
<1>6. ASSUME NEW i \in Known(cfg)
      PROVE  /\ Schedule(cfg)[i].name = cfg.checks[i].name
             /\ Schedule(cfg)[i].interval > 0 /\ Schedule(cfg)[i].timeout > 0
  BY <1>1, <1>3, <1>4 DEF Schedule, Scheduled
<1>7. ~RegisterFails(cfg)
  BY <1>1, <1>2 DEF RegisterFails
<1>8. \A ch \in ToSet(Schedule(cfg)) : ch.interval > 0 /\ ch.timeout > 0
  BY <1>5, <1>6 DEF ToSet
<1>9. DistinctNames(Schedule(cfg))
  <2>1. \A i \in DOMAIN Schedule(cfg) : Schedule(cfg)[i].name # ""
    BY <1>1, <1>2, <1>5, <1>6
  <2>2. \A i, j \in DOMAIN Schedule(cfg) : Schedule(cfg)[i].name = Schedule(cfg)[j].name => i = j
    BY <1>1, <1>2, <1>5, <1>6
  <2> QED BY <2>1, <2>2 DEF DistinctNames, Names
<1> QED BY <1>7, <1>8, <1>9

\* Engine.LoadConfig on valid rules: the rule kept for a check is one of the list,
\* so its recipe and its check exist where the file lists any.
LEMMA RulesAreSound ==
    ASSUME NEW cfg \in Config, Valid(cfg), NEW c \in DOMAIN Rules(cfg)
    PROVE  /\ cfg.checks # << >> => c \in Names(cfg.checks)
           /\ cfg.recipes # << >> => Rules(cfg)[c].recipe \in DOMAIN Recipes(cfg)
<1> DEFINE last == Max(RulesOf(cfg, c))
<1>1. PICK rule \in ToSet(cfg.repairs) : c = rule.check
  BY DEF Rules
<1>2. PICK i \in DOMAIN cfg.repairs : rule = cfg.repairs[i]
  BY <1>1 DEF ToSet
<1>3. DOMAIN cfg.repairs = 1..Len(cfg.repairs) /\ Len(cfg.repairs) \in Nat
  BY DEF Config
<1>4. RulesOf(cfg, c) \in SUBSET (1..Len(cfg.repairs)) /\ RulesOf(cfg, c) # {}
  BY <1>1, <1>2, <1>3 DEF RulesOf
<1>5. last \in RulesOf(cfg, c)
  BY <1>3, <1>4, GreatestIndex
<1>6. last \in DOMAIN cfg.repairs /\ cfg.repairs[last].check = c
  <2> HIDE DEF last
  <2> QED BY <1>5 DEF RulesOf
<1>7. Rules(cfg)[c] = cfg.repairs[last]
  BY DEF Rules
<1>8. ValidRule(cfg, cfg.repairs[last])
  <2> HIDE DEF last
  <2> QED BY <1>6 DEF Valid, ToSet
<1>9. DOMAIN Recipes(cfg) = Names(cfg.recipes)
  BY DEF Recipes
<1> HIDE DEF last
<1> QED BY <1>6, <1>7, <1>8, <1>9 DEF ValidRule

LEMMA ValidIsSound ==
    ASSUME NEW cfg \in Config, Valid(cfg), NEW level
    PROVE  Sound([Validated(cfg) EXCEPT !.logLevel = level])
<1> DEFINE kept == [Validated(cfg) EXCEPT !.logLevel = level]
<1>1. /\ kept.workers = cfg.workers /\ kept.checks = cfg.checks
      /\ kept.recipes = cfg.recipes /\ kept.repairs = cfg.repairs
      /\ kept.metrics = cfg.metrics /\ kept.metricsPort = cfg.metricsPort
      /\ kept.endpoint = cfg.endpoint
      /\ kept.agentUUID = cfg.agentUUID /\ kept.apiKey = cfg.apiKey
      /\ kept.bufferSize = IF cfg.bufferSize < 1 THEN 1000 ELSE cfg.bufferSize
  BY DEF Validated, Config
<1> HIDE DEF kept
<1>2. kept.bufferSize >= 1
  BY <1>1 DEF Config
<1>3. /\ Known(kept) = Known(cfg) /\ RegisterFails(kept) = RegisterFails(cfg)
      /\ Schedule(kept) = Schedule(cfg)
  BY <1>1 DEF Known, RegisterFails, Schedule
<1>4. /\ Rules(kept) = Rules(cfg) /\ Recipes(kept) = Recipes(cfg)
      /\ ControlPlaneEnabled(kept) = ControlPlaneEnabled(cfg)
  BY <1>1 DEF Rules, RulesOf, Recipes, ControlPlaneEnabled
<1>5. /\ cfg.workers >= 1 /\ (cfg.metrics => cfg.metricsPort >= 1)
      /\ ControlPlaneEnabled(cfg) => cfg.endpoint # ""
  BY DEF Valid
<1>6. Sound(kept)
  BY <1>1, <1>2, <1>3, <1>4, <1>5, ScheduleIsSound, RulesAreSound DEF Sound
<1> QED BY <1>6 DEF kept

-----------------------------------------------------------------------------
(* The invariant: from the load on the run command holds a sound configuration *)

\* The store is opened with a sound configuration, New then fails nowhere, and the
\* members it enables are those that the configuration turns on.
LifecycleInv ==
    /\ main \in {"loading", "opening", "building", "selecting", "stopping",
                 "disconnecting", "closing", "exited"}
    /\ main \in {"loading", "opening"} => store = "none"
    /\ main \in {"building", "selecting", "stopping", "disconnecting", "closing"} => store # "none"
    /\ main \in {"loading", "opening", "building"} => optional = {}
    /\ main \notin {"loading", "exited"} \/ store # "none" => Sound(config)
    /\ store # "none" /\ start = "idle" => main = "building"
    /\ "client" \in optional => ControlPlaneEnabled(config) /\ store # "none"
    /\ "exporter" \in optional => config.metrics /\ store # "none"

LEMMA LifecycleStep ==
    ASSUME LifecycleInv, [Next]_vars
    PROVE  LifecycleInv'
<1>1. CASE LoadConfig
  <2>1. PICK file \in Files, flag \in {"", "info"} :
          /\ Valid(Merged(file))
          /\ config' = [Validated(Merged(file)) EXCEPT !.logLevel = IF flag = "" THEN @ ELSE flag]
    BY <1>1 DEF LoadConfig
  <2>2. Merged(file) \in Config
    BY LifecycleConstants
  <2> DEFINE level == IF flag = "" THEN Validated(Merged(file)).logLevel ELSE flag
  <2>3. config' = [Validated(Merged(file)) EXCEPT !.logLevel = level]
    BY <2>1
  <2>4. Sound(config')
    <3>1. Sound([Validated(Merged(file)) EXCEPT !.logLevel = level])
      <4> HIDE DEF level
      <4> QED BY <2>1, <2>2, ValidIsSound
    <3> HIDE DEF level
    <3> QED BY <2>3, <3>1
  <2> QED BY <1>1, <2>4 DEF LoadConfig, LifecycleInv, running
<1>2. CASE Build
  <2>1. main = "building" /\ Sound(config) /\ config' = config
    BY <1>2 DEF Build, LifecycleInv
  <2>2. Sound(config')
    BY <2>1
  <2>3. ~RegisterFails(config)
    BY <2>1 DEF Sound
  <2>4. PICK inCluster \in BOOLEAN : optional' = Enabled(config, inCluster)
    BY <1>2, <2>3 DEF Build
  <2>5. /\ "client" \in optional' => ControlPlaneEnabled(config)
        /\ "exporter" \in optional' => config.metrics
    BY <2>4 DEF Enabled
  <2>6. /\ main' = "selecting" /\ start' = "launching" /\ store' = store
        /\ store # "none"
    BY <1>2, <2>3 DEF Build, LifecycleInv
  <2>7. ControlPlaneEnabled(config') = ControlPlaneEnabled(config)
    BY <2>1
  <2> QED BY <2>1, <2>2, <2>5, <2>6, <2>7 DEF LifecycleInv
<1>3. CASE LoadFails \/ OpenStore \/ OpenStoreFails \/ AgentError \/ BeginShutdown
           \/ StopScheduler \/ DisconnectAll \/ CloseStore
  BY <1>3 DEF LoadFails, OpenStore, OpenStoreFails, AgentError, BeginShutdown, StopScheduler,
     DisconnectAll, CloseStore, Exit, running, LifecycleInv
<1>4. CASE StartStep
  <2>1. /\ UNCHANGED <<main, config, optional, store>>
        /\ start' = "idle" => start = "idle"
    BY <1>4 DEF StartStep, Launch, WaitGroup, StartReturns, command
  <2> QED BY <2>1 DEF LifecycleInv
<1>5. CASE \/ SchedulerStarts \/ WorkersEnd \/ RepairBegins \/ RepairEnds \/ EngineDrains
           \/ ExporterFails \/ Signal
  <2>1. UNCHANGED <<main, config, optional, store, start>>
    BY <1>5 DEF SchedulerStarts, WorkersEnd, RepairBegins, RepairEnds, EngineDrains, ExporterFails,
       Signal, command
  <2> QED BY <2>1 DEF LifecycleInv
<1>6. CASE \E m \in AllMembers : MemberReturns(m)
  <2>1. UNCHANGED <<main, config, optional, store, start>>
    BY <1>6 DEF MemberReturns, command
  <2> QED BY <2>1 DEF LifecycleInv
<1>7. CASE UNCHANGED vars
  BY <1>7 DEF vars, command, LifecycleInv
<1> QED BY <1>1, <1>2, <1>3, <1>4, <1>5, <1>6, <1>7 DEF Next, MainStep

LEMMA LifecycleInvariant == Spec => []LifecycleInv
<1>1. Init => LifecycleInv
  BY DEF Init, LifecycleInv
<1> QED BY <1>1, LifecycleStep, PTL DEF Spec

\* An agent that was built runs on a sound configuration: after Validate, New can
\* fail in the logger or the database only (Config.Validate, BuildFromConfig,
\* Engine.LoadConfig, runtime.New), whatever the file.
THEOREM AgentStartsSound == Spec => []StartedConfigIsSound
<1>1. LifecycleInv => StartedConfigIsSound
  BY DEF LifecycleInv, Sound, StartedConfigIsSound
<1> QED BY <1>1, LifecycleInvariant, PTL
=============================================================================
