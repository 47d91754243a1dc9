---------------------------- MODULE RepairActions ----------------------------
(***************************************************************************)
(* internal/plugins/actions: what the Execute of each built-in action does *)
(* to the machine and the cluster, composed with the recipe that calls it  *)
(* and with the checkers its healthcheck step runs.                        *)
(*                                                                         *)
(* One action here is one call to the outside.  Docker, systemd, the file  *)
(* system, the API server and webhook receivers are external: a call is    *)
(* refused, or it takes effect, and then its answer may still be lost (the *)
(* step's timeout).  Between two calls the world changes by itself, at     *)
(* most MaxEvents times, where a step of the recipe can notice.            *)
(***************************************************************************)
EXTENDS RecipeExecution, Checkers

CONSTANTS
    MaxEvents,      \* bound: changes of the world by others
    MaxEntries,     \* bound: entries the application writes to its log
    DiskSize,       \* entries and temporary files that fill the disk
    OtherData,      \* what else is on the disk, in the same unit
    Hosts,          \* what the read-only checkers may observe
    ReplicaSetLists \* the orders in which the API server may list the replica sets

\* What the probes of the read-only checkers return.
Observations ==
    [cpu : [ok : BOOLEAN, usage : Seq(Nat)], memory : [ok : BOOLEAN, usage : Nat],
     certificate : [ok : BOOLEAN, hours : Int],
     swarm : [ok : BOOLEAN, state : STRING, error : BOOLEAN, managers : Nat, reachable : Nat]]

\* Pod templates: those a deployment has had or gets, and one of another's.
Templates == {"t1", "t2", "t3", "t4", "t9"}
Faulty == "t3"              \* the template whose pods answer with an error
ReplicaSets == [template : Templates, revision : Nat \ {0}, owned : BOOLEAN]

\* The deployment controller numbers the replica sets of a deployment.
Numbered(list) ==
    /\ list \in Seq(ReplicaSets)
    /\ \E i \in DOMAIN list : list[i].owned
    /\ \A i, j \in DOMAIN list :
         list[i].owned /\ list[j].owned /\ list[i].revision = list[j].revision => i = j

\* The deployment was well up to its last revision.
FaultyIsNewest(list) ==
    \A i, j \in DOMAIN list :
       list[i].owned /\ list[j].owned /\ list[i].template = Faulty =>
          list[j].revision <= list[i].revision

ASSUME ActionConstants ==
    /\ MaxEvents \in Nat /\ MaxEntries \in Nat \ {0, 1} /\ OtherData \in Nat
    /\ DiskSize \in 1..100 /\ 100 % DiskSize = 0   \* so that Usage is exact
    /\ Hosts \subseteq Observations /\ Hosts # {}
    /\ ReplicaSetLists # {}
    /\ \A list \in ReplicaSetLists : Numbered(list) /\ FaultyIsNewest(list)

VARIABLES
    pc,         \* runner -> where the Execute it is in stands
    local,      \* runner -> what that Execute keeps between two calls
    host,       \* CPU, memory, certificate and swarm
    unit,       \* the docker container and the systemd service
    files,      \* the log file and its backups: name -> entries
    written,    \* entries the application has written
    temp,       \* temporary file -> "old", "fresh" or "gone"
    sets,       \* replica sets as listed: [template, revision, owned]
    template,   \* the deployment's pod template
    object,     \* "scale" and "swarm": the version and value of an API object
    pod,        \* "there" or "deleted"
    deliveries, \* webhook requests received
    applied,    \* history: rollback patches that took effect
    unseen,     \* history: objects changed by others since last read here
    events      \* changes of the world by others so far

fileSystem == <<files, written, temp>>
cluster == <<sets, template, pod, applied>>
objects == <<object, unseen>>
world == <<host, unit, fileSystem, cluster, objects, deliveries, events>>
allVars == <<vars, pc, local, world>>

LogFile == <<"log", 0>>
Backup(t) == <<"backup", t>>
Archive == <<"archive", 0>>
TempFiles == {"cache", "keep"}
Pattern == {"cache"}        \* the names the pattern parameter matches
NoTemplate == "none"

\* What ContainerInspect answers, and systemctl is-active.
Container(state, health) == [ok |-> TRUE, state |-> state, health |-> health]
Absent == [ok |-> FALSE, state |-> "absent", health |-> "none"]
Containers ==
    {Container("running", "none"), Container("running", "unhealthy"),
     Container("paused", "none"), Container("exited", "none"), Absent}
ServiceStates == {"active", "inactive", "failed"}

ActionsTypeOK ==
    /\ TypeOK
    /\ pc \in [Runners -> {"start", "called", "renamed", "listed", "read", "walking"}]
    /\ \A r \in Runners : at[r] # "running" => pc[r] = "start"
    /\ host \in Hosts
    /\ unit \in [container : Containers, service : ServiceStates]
    /\ \A f \in DOMAIN files : files[f] \in Seq(1..written)
    /\ written \in 0..MaxEntries /\ events \in 0..MaxEvents
    /\ DOMAIN temp = TempFiles

-----------------------------------------------------------------------------
(* Execute, called by executeStep *)

Executing(r, action, label) ==
    at[r] = "running" /\ Current(r).action = action /\ pc[r] = label

Param(r) == Current(r).param

NoLocal == [target |-> NoTemplate, version |-> 0, walk |-> {}, backup |-> LogFile]
Return(r) ==
    /\ pc' = [pc EXCEPT ![r] = "start"]
    /\ local' = [local EXCEPT ![r] = NoLocal]
ReturnNil(r) == AttemptSucceeds(r) /\ Return(r)
ReturnError(r) == AttemptFails(r) /\ Return(r)
GoOn(r, label) == pc' = [pc EXCEPT ![r] = label] /\ UNCHANGED vars

\* A required parameter is missing, or the kubernetes client is.
Requiring == {"healthcheck", "restart_container", "start_container", "stop_container",
              "restart_service", "start_service", "stop_service", "clear_temp",
              "rotate_logs", "rollback_deployment", "scale_replicas", "restart_pod",
              "update_swarm_service", "webhook"}
RejectParams(r) ==
    /\ at[r] = "running" /\ Current(r).action \in Requiring /\ Param(r) = "none"
    /\ ReturnError(r) /\ UNCHANGED world

Given(r, action) == Executing(r, action, "start") /\ Param(r) # "none"

\* time.After, or the step's timeout.
Wait(r) ==
    /\ Executing(r, "wait", "start")
    /\ ReturnNil(r) \/ ReturnError(r)
    /\ UNCHANGED world

-----------------------------------------------------------------------------
(* The healthcheck action and the checks of the registry *)

\* The endpoint serves the template of the newest replica set.
Owned == {i \in DOMAIN sets : sets[i].owned}
Highest == CHOOSE i \in Owned : \A j \in Owned : sets[j].revision <= sets[i].revision
Serving == sets[Highest].template

Entries == UNION {{f} \X DOMAIN files[f] : f \in DOMAIN files \ {Archive}}

Used ==
    OtherData + Cardinality(Entries) + Cardinality({f \in TempFiles : temp[f] # "gone"})
Usage == (100 * Used) \div DiskSize

\* The status that check c gives now.
Verdict(c) ==
    CASE c = "http" -> HTTPCheck(0, [ok |-> TRUE, code |-> IF Serving = Faulty THEN 500 ELSE 200])
      [] c = "tcp" -> TCPCheck([ok |-> unit.service = "active"])
      [] c = "cpu" -> CPUCheck(0, host.cpu)
      [] c = "memory" -> MemoryCheck(-1, host.memory)
      [] c = "disk" -> DiskCheck(85, [ok |-> TRUE, usage |-> Usage])
      [] c = "process" -> ProcessCheck(TRUE, FALSE, unit.service, [ok |-> FALSE, matching |-> 0])
      [] c = "process_name" ->
            ProcessCheck(FALSE, TRUE, unit.service,
                         [ok |-> TRUE, matching |-> IF unit.service = "active" THEN 1 ELSE 0])
      [] c = "certificate" -> CertificateCheck(0, host.certificate)
      [] c = "docker_container" -> DockerContainerCheck(unit.container)
      [] c = "docker_swarm" -> DockerSwarmCheck(host.swarm)
      [] OTHER -> "failed"

\* A check the registry does not have is an error; so is any status but healthy.
Healthcheck(r) ==
    /\ Given(r, "healthcheck")
    /\ IF Verdict(Param(r)) = "healthy" THEN ReturnNil(r) ELSE ReturnError(r)
    /\ UNCHANGED world

-----------------------------------------------------------------------------
(* restart_, start_ and stop_container; restart_, start_ and stop_service: *)
(* a call that changes the unit, then one that verifies the change         *)

\* The call takes effect and is answered, takes effect and the answer is lost,
\* or is refused.
CallUnit(r, possible, changed) ==
    \/ /\ possible
       /\ unit' = changed
       /\ \/ GoOn(r, "called") /\ UNCHANGED local
          \/ ReturnError(r)
       /\ UNCHANGED <<host, fileSystem, cluster, objects, deliveries, events>>
    \/ ReturnError(r) /\ UNCHANGED world

ContainerBecomes(state) == [unit EXCEPT !.container = Container(state, "none")]
ServiceBecomes(state) == [unit EXCEPT !.service = state]

RestartContainer(r) ==
    /\ Given(r, "restart_container")
    /\ CallUnit(r, unit.container.ok, ContainerBecomes("running"))

\* Docker does not start a paused container, and leaves a running one alone.
StartContainer(r) ==
    /\ Given(r, "start_container")
    /\ CallUnit(r, unit.container.state \in {"running", "exited"},
                IF unit.container.state = "running" THEN unit ELSE ContainerBecomes("running"))

StopContainer(r) ==
    /\ Given(r, "stop_container")
    /\ CallUnit(r, unit.container.ok, ContainerBecomes("exited"))

RestartService(r) ==
    /\ Given(r, "restart_service") /\ CallUnit(r, TRUE, ServiceBecomes("active"))

StartService(r) ==
    /\ Given(r, "start_service") /\ CallUnit(r, TRUE, ServiceBecomes("active"))

StopService(r) ==
    /\ Given(r, "stop_service") /\ CallUnit(r, TRUE, ServiceBecomes("inactive"))

\* What the second call looks for: up after a start or restart, else stopped.
\* A paused container is not running, but docker's Running flag is set.
Up(action) ==
    IF action \in {"restart_service", "start_service"}
      THEN unit.service = "active" ELSE unit.container.state = "running"

Stopped(action) ==
    IF action = "stop_service"
      THEN unit.service # "active"
      ELSE unit.container.ok /\ unit.container.state \notin {"running", "paused"}

\* Mutant: the answer to the first call is believed.
AsAskedUnverified(action) == TRUE

AsAsked(action) ==
    IF action \in {"stop_container", "stop_service"} THEN Stopped(action) ELSE Up(action)

\* The second call may get no answer, too.  That is an error, but for stop_service:
\* is-active not succeeding is all it asks for.
VerifyUnit(r) ==
    /\ at[r] = "running" /\ pc[r] = "called"
    /\ LET a == Current(r).action IN
         \/ AsAsked(a) /\ ReturnNil(r)
         \/ ~AsAsked(a) /\ ReturnError(r)
         \/ a = "stop_service" /\ ReturnNil(r)
         \/ a # "stop_service" /\ ReturnError(r)
    /\ UNCHANGED world

-----------------------------------------------------------------------------
(* clear_temp: WalkDir, one file after the other *)

BeginWalk(r) ==
    /\ Given(r, "clear_temp")
    /\ local' = [local EXCEPT ![r].walk = TempFiles]
    /\ GoOn(r, "walking") /\ UNCHANGED world

\* Info and Remove; a removal that fails is passed over.
WalkFile(r) ==
    /\ Executing(r, "clear_temp", "walking")
    /\ \E f \in local[r].walk :
         /\ local' = [local EXCEPT ![r].walk = @ \ {f}]
         /\ \/ /\ f \in Pattern /\ temp[f] = "old"
               /\ temp' = [temp EXCEPT ![f] = "gone"]
            \/ UNCHANGED temp
    /\ UNCHANGED <<vars, pc, host, unit, files, written, cluster, objects, deliveries, events>>

\* The walk is over, or its context is done.
EndWalk(r) ==
    /\ Executing(r, "clear_temp", "walking")
    /\ \/ local[r].walk = {} /\ ReturnNil(r)
       \/ ReturnError(r)
    /\ UNCHANGED world

-----------------------------------------------------------------------------
(* rotate_logs *)

MaxSize == 1    \* what the max_size parameter stands for, in entries

Oversized == LogFile \in DOMAIN files /\ Len(files[LogFile]) > MaxSize

FilesWith(f, entries) ==
    [x \in DOMAIN files \cup {f} |-> IF x = f THEN entries ELSE files[x]]
Renamed(from, to) ==
    [x \in (DOMAIN files \ {from}) \cup {to} |-> IF x = to THEN files[from] ELSE files[x]]

\* logrotate is installed.  With copytruncate it moves the entries to a compressed
\* archive (in one step here, and the five it keeps never fill up); missingok: it
\* is content without a file.  Or it fails.
RotateWithLogrotate(r) ==
    /\ Given(r, "rotate_logs")
    /\ \/ /\ LogFile \in DOMAIN files
          /\ files' = [FilesWith(LogFile, << >>) EXCEPT ![Archive] = @ \o files[LogFile]]
          /\ ReturnNil(r)
       \/ LogFile \notin DOMAIN files /\ ReturnNil(r) /\ UNCHANGED files
       \/ ReturnError(r) /\ UNCHANGED files
    /\ UNCHANGED <<host, unit, written, temp, cluster, objects, deliveries, events>>

\* Mutant: there is one backup name.
BackupNameFixed == Backup(0)

\* time.Now().Format("20060102-150405"): one name per second.
BackupName == Backup(now)

\* Without logrotate: a small file is left alone; else it becomes the backup.
RotateBySafeTruncation(r) ==
    /\ Given(r, "rotate_logs")
    /\ \/ LogFile \notin DOMAIN files /\ ReturnError(r) /\ UNCHANGED files
       \/ LogFile \in DOMAIN files /\ ~Oversized /\ ReturnNil(r) /\ UNCHANGED files
       \/ /\ Oversized
          /\ files' = Renamed(LogFile, BackupName)
          /\ local' = [local EXCEPT ![r].backup = BackupName]
          /\ GoOn(r, "renamed")
    /\ UNCHANGED <<host, unit, written, temp, cluster, objects, deliveries, events>>

\* The rename fails.  Truncate(maxSize) keeps the first bytes, although the
\* comment of truncateFile says the last.
TruncateFile(r) ==
    /\ Given(r, "rotate_logs") /\ Oversized
    /\ \/ /\ files' = [files EXCEPT ![LogFile] = SubSeq(@, 1, MaxSize)]
          /\ ReturnNil(r)
       \/ ReturnError(r) /\ UNCHANGED files
    /\ UNCHANGED <<host, unit, written, temp, cluster, objects, deliveries, events>>

\* os.Create makes an empty file, whatever is there; when it fails, the backup
\* is renamed back, as far as that works.
CreateLog(r) ==
    /\ Executing(r, "rotate_logs", "renamed")
    /\ \/ files' = FilesWith(LogFile, << >>) /\ ReturnNil(r)
       \/ /\ \/ local[r].backup \in DOMAIN files /\ files' = Renamed(local[r].backup, LogFile)
             \/ UNCHANGED files
          /\ ReturnError(r)
    /\ UNCHANGED <<host, unit, written, temp, cluster, objects, deliveries, events>>

-----------------------------------------------------------------------------
(* rollback_deployment *)

\* Mutant: the highest revision is its own predecessor.
findPreviousRevisionHighest(list) ==
    LET owned == {i \in DOMAIN list : list[i].owned}
    IN  IF Cardinality(owned) < 2 THEN NoTemplate
        ELSE list[CHOOSE i \in owned :
                    \A j \in owned : list[j].revision <= list[i].revision].template

\* One pass over the list, with the highest revision, the previous one, and the
\* template found for it.  A new highest revision forgets the template of the
\* old one.
Higher(acc, rs) ==
    IF rs.revision > acc.max
      THEN [max |-> rs.revision, prev |-> acc.max, found |-> NoTemplate] ELSE acc

Match(acc, rs) ==
    IF \/ rs.revision = acc.prev /\ rs.revision > 0
       \/ rs.revision > acc.prev /\ rs.revision < acc.max
      THEN [acc EXCEPT !.prev = rs.revision, !.found = rs.template] ELSE acc

Pass(acc, rs) == IF rs.owned THEN Match(Higher(acc, rs), rs) ELSE acc

Passed(list) ==
    LET after[n \in 0..Len(list)] ==
          IF n = 0 THEN [max |-> 0, prev |-> 0, found |-> NoTemplate]
                   ELSE Pass(after[n - 1], list[n])
    IN  after

findPreviousRevision(list) == Passed(list)[Len(list)].found

\* Get and List; one of them may fail.
ListReplicaSets(r) ==
    /\ Given(r, "rollback_deployment")
    /\ LET found == findPreviousRevision(sets) IN
         \/ /\ found # NoTemplate
            /\ local' = [local EXCEPT ![r].target = found]
            /\ GoOn(r, "listed")
         \/ ReturnError(r)
    /\ UNCHANGED world

\* The merge patch carries no resource version: it overwrites whatever template
\* the deployment has by now.
PatchTemplate(r) ==
    /\ Executing(r, "rollback_deployment", "listed")
    /\ \/ /\ template' = local[r].target /\ applied' = applied + 1
          /\ ReturnNil(r) \/ ReturnError(r)
       \/ ReturnError(r) /\ UNCHANGED <<template, applied>>
    /\ UNCHANGED <<host, unit, fileSystem, sets, pod, objects, deliveries, events>>

-----------------------------------------------------------------------------
(* scale_replicas and update_swarm_service read an object and write it     *)
(* back with the version they read; restart_pod; webhook                   *)

ObjectOf == [scale_replicas |-> "scale", update_swarm_service |-> "swarm"]

\* GetScale, ServiceInspectWithRaw
ReadObject(r) ==
    /\ \E a \in DOMAIN ObjectOf : Given(r, a)
    /\ LET o == ObjectOf[Current(r).action] IN
         \/ /\ local' = [local EXCEPT ![r].version = object[o]]
            /\ unseen' = unseen \ {o}
            /\ GoOn(r, "read")
         \/ ReturnError(r) /\ UNCHANGED unseen
    /\ UNCHANGED <<host, unit, fileSystem, cluster, object, deliveries, events>>

\* Mutant: the version is not sent.
UpdateObjectBlindly(r) ==
    /\ at[r] = "running" /\ pc[r] = "read"
    /\ LET o == ObjectOf[Current(r).action] IN
         \/ /\ object' = [object EXCEPT ![o] = @ + 1]
            /\ ReturnNil(r) \/ ReturnError(r)
         \/ ReturnError(r) /\ UNCHANGED object
    /\ UNCHANGED <<host, unit, fileSystem, cluster, unseen, deliveries, events>>

\* UpdateScale, ServiceUpdate: the server refuses a version that is not the last.
UpdateObject(r) ==
    /\ at[r] = "running" /\ pc[r] = "read"
    /\ LET o == ObjectOf[Current(r).action] IN
         \/ /\ object[o] = local[r].version
            /\ object' = [object EXCEPT ![o] = @ + 1]
            /\ ReturnNil(r) \/ ReturnError(r)
         \/ ReturnError(r) /\ UNCHANGED object
    /\ UNCHANGED <<host, unit, fileSystem, cluster, unseen, deliveries, events>>

\* Delete; the controller's new pod has another name, so a retry finds nothing.
DeletePod(r) ==
    /\ Given(r, "restart_pod")
    /\ \/ /\ pod = "there" /\ pod' = "deleted"
          /\ ReturnNil(r) \/ ReturnError(r)
       \/ ReturnError(r) /\ UNCHANGED pod
    /\ UNCHANGED <<host, unit, fileSystem, sets, template, applied, objects, deliveries, events>>

\* A request that arrives is answered below 400, from 400 on, or not in time.
CallWebhook(r) ==
    /\ Given(r, "webhook")
    /\ \/ /\ deliveries' = deliveries + 1
          /\ ReturnNil(r) \/ ReturnError(r)
       \/ ReturnError(r) /\ UNCHANGED deliveries
    /\ UNCHANGED <<host, unit, fileSystem, cluster, objects, events>>

-----------------------------------------------------------------------------
(* The world, where some step of a recipe can notice a change *)

Uses(words) ==
    \E r \in Runners : \E i \in DOMAIN recipe[r] :
       {recipe[r][i].action, recipe[r][i].param} \cap words # {}

ContainerWords ==
    {"restart_container", "start_container", "stop_container", "docker_container"}
ServiceWords ==
    {"restart_service", "start_service", "stop_service", "process", "process_name", "tcp"}

Event == events < MaxEvents /\ events' = events + 1

UnitChanges ==
    /\ Event
    /\ \/ /\ Uses(ContainerWords)
          /\ \E c \in Containers \ {unit.container} : unit' = [unit EXCEPT !.container = c]
       \/ /\ Uses(ServiceWords)
          /\ \E s \in ServiceStates \ {unit.service} : unit' = [unit EXCEPT !.service = s]
    /\ UNCHANGED <<vars, pc, local, host, fileSystem, cluster, objects, deliveries>>

\* The application opens its log for every entry.
AppLogs ==
    /\ Uses({"rotate_logs"}) /\ written < MaxEntries
    /\ written' = written + 1
    /\ files' = FilesWith(LogFile, Append(IF LogFile \in DOMAIN files THEN files[LogFile]
                                                                      ELSE << >>, written + 1))
    /\ UNCHANGED <<vars, pc, local, host, unit, temp, cluster, objects, deliveries, events>>

TempChanges ==
    /\ Event /\ Uses({"clear_temp"})
    /\ \E f \in TempFiles : temp' = [temp EXCEPT ![f] = "fresh"]
    /\ UNCHANGED <<vars, pc, local, host, unit, files, written, cluster, objects, deliveries>>

UserDeploys ==
    /\ Event /\ Uses({"rollback_deployment"})
    /\ template' \in {"t1", "t4"} \ {template}
    /\ UNCHANGED <<vars, pc, local, host, unit, fileSystem, sets, pod, applied, objects, deliveries>>

\* The deployment controller: the replica set of the template becomes the newest
\* revision; a new one is listed anywhere.
Rollout ==
    /\ template # Serving
    /\ LET newest == sets[Highest].revision + 1
           same == {i \in Owned : sets[i].template = template}
           new == [template |-> template, revision |-> newest, owned |-> TRUE]
       IN  IF same # {}
             THEN \E i \in same : sets' = [sets EXCEPT ![i].revision = newest]
             ELSE \E i \in 1..Len(sets) + 1 : sets' = InsertAt(sets, i, new)
    /\ UNCHANGED <<vars, pc, local, host, unit, fileSystem, template, pod, applied, objects,
                   deliveries, events>>

ObjectChanges ==
    /\ Event
    /\ \E a \in DOMAIN ObjectOf :
         /\ Uses({a})
         /\ object' = [object EXCEPT ![ObjectOf[a]] = @ + 1]
         /\ unseen' = unseen \cup {ObjectOf[a]}
    /\ UNCHANGED <<vars, pc, local, host, unit, fileSystem, cluster, deliveries>>

-----------------------------------------------------------------------------
ActionsInit ==
    /\ Init
    /\ pc = [r \in Runners |-> "start"] /\ local = [r \in Runners |-> NoLocal]
    /\ host \in IF Uses({"cpu", "memory", "certificate", "docker_swarm"})
                  THEN Hosts ELSE {CHOOSE h \in Hosts : TRUE}
    /\ unit \in [container : IF Uses(ContainerWords) THEN Containers
                                                     ELSE {Container("running", "none")},
                 service : IF Uses(ServiceWords) THEN ServiceStates ELSE {"active"}]
    /\ written = 2
    /\ files = [f \in {LogFile, Archive} |-> IF f = LogFile THEN <<1, 2>> ELSE << >>]
    /\ temp = [f \in TempFiles |-> "old"]
    /\ sets \in IF Uses({"rollback_deployment"}) THEN ReplicaSetLists
                                                 ELSE {CHOOSE l \in ReplicaSetLists : TRUE}
    /\ template = Serving
    /\ object = [o \in {"scale", "swarm"} |-> 0] /\ unseen = {}
    /\ pod = "there" /\ deliveries = 0 /\ applied = 0 /\ events = 0

\* The runner's own steps, outside Execute.
RecipeStep(r) ==
    /\ SkipStep(r) \/ BlockStep(r) \/ AdmitStep(r) \/ BeginAttempt(r) \/ GiveUp(r)
         \/ FinishRecipe(r)
    /\ UNCHANGED <<pc, local, world>>

BuiltIn == Requiring \cup {"wait"}
\* An action that is none of the built-in ones.
OtherAction(r) ==
    /\ at[r] = "running" /\ Current(r).action \notin BuiltIn
    /\ AttemptSucceeds(r) \/ AttemptFails(r)
    /\ UNCHANGED <<pc, local, world>>

Execute(r) ==
    \/ OtherAction(r) \/ RejectParams(r) \/ Wait(r) \/ Healthcheck(r)
    \/ RestartContainer(r) \/ StartContainer(r) \/ StopContainer(r)
    \/ RestartService(r) \/ StartService(r) \/ StopService(r) \/ VerifyUnit(r)
    \/ BeginWalk(r) \/ WalkFile(r) \/ EndWalk(r)
    \/ RotateWithLogrotate(r) \/ RotateBySafeTruncation(r) \/ TruncateFile(r) \/ CreateLog(r)
    \/ ListReplicaSets(r) \/ PatchTemplate(r)
    \/ ReadObject(r) \/ UpdateObject(r) \/ DeletePod(r) \/ CallWebhook(r)

ActionsNext ==
    \/ \E r \in Runners : RecipeStep(r) \/ Execute(r)
    \/ Tick /\ UNCHANGED <<pc, local, world>>
    \/ UnitChanges \/ AppLogs \/ TempChanges \/ UserDeploys \/ Rollout \/ ObjectChanges

ActionsSpec ==
    /\ ActionsInit /\ [][ActionsNext]_allVars
    /\ \A r \in Runners : WF_allVars(RecipeStep(r) \/ Execute(r))

-----------------------------------------------------------------------------
(* Properties *)

\* What a check that says healthy stands for, said without the checkers.
Sound(c) ==
    CASE c = "http" -> Serving # Faulty
      [] c \in {"tcp", "process", "process_name"} -> unit.service = "active"
      [] c = "cpu" -> host.cpu.ok /\ host.cpu.usage[1] <= 90
      [] c = "memory" -> host.memory.ok /\ host.memory.usage <= 90
      [] c = "disk" -> 100 * Used <= 85 * DiskSize
      [] c = "certificate" -> host.certificate.ok /\ host.certificate.hours >= 30 * 24
      [] c = "docker_container" -> unit.container \in {Container("running", "none")}
      [] c = "docker_swarm" -> host.swarm.state = "active" /\ ~host.swarm.error
      [] OTHER -> FALSE

\* What the success of an action of runner r stands for at that moment.
Achieved(r, a, p) ==
    CASE a = "healthcheck" -> Sound(p)
      [] a \in {"restart_container", "start_container"} -> unit.container.state = "running"
      [] a = "stop_container" -> unit.container.state = "exited"
      [] a \in {"restart_service", "start_service"} -> unit.service = "active"
      [] a = "stop_service" -> unit.service # "active" \/ events > 0 \/ Runners # {r}
      [] a = "rotate_logs" -> ~Oversized
      [] a = "restart_pod" -> pod = "deleted"
      [] a = "webhook" -> deliveries > 0
      [] OTHER -> TRUE

StepSucceeds(r) == Len(results'[r]) > Len(results[r]) /\ Last(results'[r]) = "success"

\* "Verify the container is running after restart" and the like: a step that
\* reports success, on whatever attempt, did what it is for, also when a unit it
\* started stops again at once, and a healthcheck step succeeds on a world that
\* is well only.  stop_service alone may be wrong when somebody else, or another
\* recipe, starts the service: it takes an is-active that could not run for a
\* stopped service.  (That a certificate has its days and a disk its room is said
\* here without the checkers' arithmetic.  Nothing is said of the managers of a
\* swarm: "active with quorum", reads the comment of evaluateSwarm, but half of an
\* even number is enough for it.)
SuccessMeansAchieved ==
    [][\A r \in Runners :
          at[r] = "running" /\ StepSucceeds(r) =>
             \A a \in {Current(r).action}, p \in {Param(r)} : Achieved(r, a, p)']_allVars

Content(fs) == UNION {ToSet(fs[f]) : f \in DOMAIN fs}

\* The log between logrotate, a rename and an application that goes on writing:
\* an entry is lost in two ways only, when the backup of the same second is
\* replaced, and when the application re-created its log before os.Create, or the
\* renaming back, did.  This is a property of the rotation, not of its fallback
\* for a rename that fails: truncateFile cuts the newest entries, where its comment
\* ("keeping the last maxSize bytes") has it cut the oldest.
LogContentKept ==
    [][LET lost == Content(files) \ Content(files') IN
         lost # {} /\ ~(\E r \in Runners : TruncateFile(r)) =>
            \/ Backup(now) \in DOMAIN files /\ lost = ToSet(files[Backup(now)])
            \/ /\ \E r \in Runners : pc[r] = "renamed"
               /\ LogFile \in DOMAIN files /\ lost = ToSet(files[LogFile])]_allVars

SecondHighest(i) ==
    /\ i \in Owned \ {Highest}
    /\ \A j \in Owned \ {Highest} : sets[j].revision <= sets[i].revision

\* "returns the ReplicaSet with the second-highest revision number that is owned
\* by the given deployment" (findPreviousRevision), whenever a rollback lists the
\* replica sets.  The code forgets it when the list names it before the highest.
RollbackFindsSecondHighest ==
    \A r \in Runners : Given(r, "rollback_deployment") =>
       \A i \in Owned : SecondHighest(i) => findPreviousRevision(sets) = sets[i].template

\* What it does find is never another one: in whatever order the replica sets are
\* listed and renumbered, a rollback goes to the second-highest revision of its own
\* deployment or reports that there is none.
RollbackTargetIsSecond ==
    findPreviousRevision(sets) # NoTemplate =>
       \E i \in Owned : SecondHighest(i) /\ findPreviousRevision(sets) = sets[i].template

\* One rollback leaves the faulty template, and unless somebody deploys only a
\* second one (the retry of a patch whose answer was lost) can bring it back.
RollbackLeavesFaulty == applied = 1 /\ events = 0 => template # Faulty

\* scale_replicas and update_swarm_service never overwrite a change they have
\* not seen: a retry reads the object again, and the server compares versions.
NoBlindUpdate ==
    [][\A o \in DOMAIN object :
          object'[o] # object[o] /\ events' = events => o \notin unseen]_allVars
=============================================================================
