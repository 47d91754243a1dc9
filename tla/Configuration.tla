---------------------------- MODULE Configuration ----------------------------
(***************************************************************************)
(* internal/config, and what the components make of it: the checks that    *)
(* BuildFromConfig registers and schedules, the rules and recipes that     *)
(* Engine.LoadConfig keeps, the members that runtime.New enables.          *)
(*                                                                         *)
(* A configuration is a record, its nested sections flattened; a file is   *)
(* the record of the fields it sets.  Durations are in seconds.            *)
(***************************************************************************)
EXTENDS Integers, Sequences, SequencesExt, TLC

\* The fields of a file and their types, in a configuration that was decoded.
Config ==
    [name : STRING, workers : Int, storage : STRING,
     checks : Seq([name : STRING, type : STRING, interval : Int, timeout : Int]),
     recipes : Seq([name : STRING, steps : Seq([action : STRING])]),
     repairs : Seq([rule : STRING, check : STRING, recipe : STRING]),
     metrics : BOOLEAN, metricsPort : Int, bufferSize : Int,
     kubernetes : STRING, logLevel : STRING, endpoint : STRING,
     agentUUID : STRING, apiKey : STRING]

DefaultConfig ==
    [name |-> "uptimy-agent", workers |-> 4, storage |-> "./data/state.db",
     checks |-> << >>, recipes |-> << >>, repairs |-> << >>,
     metrics |-> TRUE, metricsPort |-> 9090, bufferSize |-> 10000,
     kubernetes |-> "auto", logLevel |-> "info",
     endpoint |-> "grpc.coordinator.upti.my:443",
     agentUUID |-> "", apiKey |-> ""]

\* yaml.Unmarshal into the defaults: a field the file does not set keeps them.
Merged(file) == file @@ DefaultConfig

-----------------------------------------------------------------------------
(* Validate *)

Names(list) == {list[i].name : i \in DOMAIN list}

DistinctNames(list) ==
    /\ "" \notin Names(list)
    /\ \A i, j \in DOMAIN list : list[i].name = list[j].name => i = j

ValidCheck(ch) == ch.type # "" /\ ch.interval > 0 /\ ch.timeout >= 0

ValidRecipe(r) == \A i \in DOMAIN r.steps : r.steps[i].action # ""

\* Without checks, or without recipes, a rule may name any.
ValidRule(cfg, rule) ==
    /\ "" \notin {rule.rule, rule.check, rule.recipe}
    /\ cfg.checks # << >> => rule.check \in Names(cfg.checks)
    /\ cfg.recipes # << >> => rule.recipe \in Names(cfg.recipes)

ControlPlaneEnabled(cfg) == cfg.agentUUID # "" /\ cfg.apiKey # ""

\* Mutant: the names of checks are not compared.
ValidWithDuplicates(cfg) ==
    /\ "" \notin {cfg.name, cfg.storage} /\ cfg.workers >= 1
    /\ "" \notin Names(cfg.checks) /\ \A ch \in ToSet(cfg.checks) : ValidCheck(ch)
    /\ DistinctNames(cfg.recipes) /\ \A r \in ToSet(cfg.recipes) : ValidRecipe(r)
    /\ \A rule \in ToSet(cfg.repairs) : ValidRule(cfg, rule)
    /\ cfg.metrics => cfg.metricsPort >= 1
    /\ cfg.kubernetes \in {"auto", "true", "false"}
    /\ ControlPlaneEnabled(cfg) => cfg.endpoint # ""

Valid(cfg) ==
    /\ "" \notin {cfg.name, cfg.storage} /\ cfg.workers >= 1
    /\ DistinctNames(cfg.checks) /\ \A ch \in ToSet(cfg.checks) : ValidCheck(ch)
    /\ DistinctNames(cfg.recipes) /\ \A r \in ToSet(cfg.recipes) : ValidRecipe(r)
    /\ \A rule \in ToSet(cfg.repairs) : ValidRule(cfg, rule)
    /\ cfg.metrics => cfg.metricsPort >= 1
    /\ cfg.kubernetes \in {"auto", "true", "false"}
    /\ ControlPlaneEnabled(cfg) => cfg.endpoint # ""

\* What Validate changes.
Validated(cfg) == [cfg EXCEPT !.bufferSize = IF @ < 1 THEN 1000 ELSE @]

-----------------------------------------------------------------------------
(* runtime.New *)

\* The levels zap reads; the empty one is info.
LogLevels == {"", "debug", "info", "warn", "error", "dpanic", "panic", "fatal"}

CheckTypes == {"http", "tcp", "cpu", "memory", "disk", "process", "certificate",
               "docker_container", "docker_swarm"}

\* BuildFromConfig skips a type it does not know, and fails on a registered name.
Known(cfg) == {i \in DOMAIN cfg.checks : cfg.checks[i].type \in CheckTypes}

RegisterFails(cfg) ==
    \E i, j \in Known(cfg) : i # j /\ cfg.checks[i].name = cfg.checks[j].name

\* A scheduled check; zero stands for the default.
Scheduled(ch) ==
    [name |-> ch.name,
     interval |-> IF ch.interval = 0 THEN 30 ELSE ch.interval,
     timeout |-> IF ch.timeout = 0 THEN 10 ELSE ch.timeout]

Schedule(cfg) == [i \in Known(cfg) |-> Scheduled(cfg.checks[i])]

\* Engine.LoadConfig: check -> rule; the last rule of a check replaces the others.
RulesOf(cfg, c) == {i \in DOMAIN cfg.repairs : cfg.repairs[i].check = c}

Rules(cfg) ==
    [c \in {rule.check : rule \in ToSet(cfg.repairs)} |-> cfg.repairs[Max(RulesOf(cfg, c))]]

\* recipe -> the actions of its steps
Recipes(cfg) ==
    [n \in Names(cfg.recipes) |->
        LET r == cfg.recipes[CHOOSE i \in DOMAIN cfg.recipes : cfg.recipes[i].name = n]
        IN [i \in DOMAIN r.steps |-> r.steps[i].action]]

\* The members of the errgroup that the configuration turns on; inCluster: a
\* Kubernetes client could be made.
Enabled(cfg, inCluster) ==
    (IF cfg.metrics THEN {"exporter"} ELSE {})
    \cup (IF inCluster /\ cfg.kubernetes # "false" THEN {"watcher"} ELSE {})
    \cup (IF ControlPlaneEnabled(cfg) /\ cfg.endpoint # "" THEN {"client"} ELSE {})
=============================================================================
