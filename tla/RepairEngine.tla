----------------------------- MODULE RepairEngine -----------------------------
(***************************************************************************)
(* internal/repair: the repair engine, its hourly rate limit, and the      *)
(* goroutines that run recipes, composed with the incident manager whose   *)
(* event channel the engine reads and whose statuses it sets.              *)
(*                                                                         *)
(* The engine loop starts one goroutine per "opened" or "updated" event,   *)
(* with the snapshot of the incident GetActive returned at that moment.    *)
(* A member of Callers is a slot for such a goroutine: pc[w] is where it   *)
(* is in handleIncident, and everything between two of its calls on shared *)
(* state is one step.  What a recipe does is module RecipeExecution; here  *)
(* it takes a while and succeeds or fails.                                 *)
(***************************************************************************)
EXTENDS IncidentManager, FiniteSetsExt

CONSTANTS
    Repairs,    \* cfg.Repairs: sequence of [rule, check, recipe, max]
    Recipes,    \* names of the configured recipes
    SemCap,     \* capacity of e.sem (10 in the agent)
    Window,     \* the rate limit's hour, in ticks
    MaxTime     \* bound: number of ticks

RepairRuleConfig == [rule : STRING, check : Checks, recipe : STRING, max : Nat]

ASSUME EngineConstants ==
    /\ IsFiniteSet(Callers)
    /\ SemCap \in Nat \ {0} /\ Window \in Nat \ {0} /\ MaxTime \in Nat
    /\ Repairs \in Seq(RepairRuleConfig)

VARIABLES
    engine,     \* "running", "draining" in the deferred wg.Wait, or "returned"
    pc,         \* where each goroutine is
    snap,       \* goroutine -> the snapshot it was started with
    ok,         \* goroutine -> did its recipe succeed
    started,    \* goroutine -> result.StartedAt
    now,        \* the clock
    history,    \* guardrails.repairHistory: limited rule -> set of [at, n]
    recorded,   \* number of RecordRepair calls, which tells entries apart
    records     \* the repairs bucket: its keys, which are start times

engineVars == <<engine, pc, snap, ok, started, now, history, recorded, records>>
vars == <<managerVars, engineVars>>

-----------------------------------------------------------------------------
(* LoadConfig *)

\* The last rule configured for a check replaces the earlier ones.
rules ==
    [c \in {Repairs[i].check : i \in DOMAIN Repairs} |->
       Repairs[Max({i \in DOMAIN Repairs : Repairs[i].check = c})]]

\* A positive limit is set under the rule's name; zero sets none.
maxRepairs ==
    LET Limiting(r) == {i \in DOMAIN Repairs : Repairs[i].rule = r /\ Repairs[i].max > 0}
    IN  [r \in {Repairs[i].rule : i \in {j \in DOMAIN Repairs : Repairs[j].max > 0}} |->
           Repairs[Max(Limiting(r))].max]

-----------------------------------------------------------------------------
(* Guardrails: the rate limit.  Each of these holds the guardrails' lock. *)

Pruned(r) == {h \in history[r] : h.at > now - Window}

\* Mutant: the limit is off by one.
RateLimitedLate(r) == r \in DOMAIN maxRepairs /\ Cardinality(Pruned(r)) > maxRepairs[r]

RateLimited(r) == r \in DOMAIN maxRepairs /\ Cardinality(Pruned(r)) >= maxRepairs[r]

\* CheckRateLimit returns first when the rule has no limit, so the history of
\* such a rule is never read, and is not kept here.
CheckRateLimit(r) ==
    history' = IF r \in DOMAIN maxRepairs THEN [history EXCEPT ![r] = Pruned(r)] ELSE history

RecordRepair(r) ==
    IF r \in DOMAIN maxRepairs
      THEN /\ history' = [history EXCEPT ![r] = Pruned(r) \cup {[at |-> now, n |-> recorded]}]
           /\ recorded' = recorded + 1
      ELSE UNCHANGED <<history, recorded>>

-----------------------------------------------------------------------------
(* The goroutines *)

PcValues == {"idle", "waiting", "holding", "marking", "starting", "executing",
             "recording", "settling", "leaving"}

\* A repair the rate limit has admitted and RecordRepair has not yet counted.
Admitted == {"marking", "starting", "executing", "recording"}
\* A goroutine that has set "repairing" and will still set the final status.
Repairing == {"starting", "executing", "recording", "settling"}

Holders == {w \in Callers : pc[w] \notin {"idle", "waiting"}}   \* len(e.sem)
RuleOf(w) == rules[snap[w].check]

\* w is at p and has sent the event of its last SetStatus.
At(w, p) == pc[w] = p /\ w \notin DOMAIN pending
Goto(w, p) == pc' = [pc EXCEPT ![w] = p]

\* The goroutine ends: its stack is gone.
Exit(w) ==
    /\ Goto(w, "idle")
    /\ snap' = Delete(snap, w) /\ ok' = Delete(ok, w) /\ started' = Delete(started, w)

\* Mutant: repeated failures do not start a repair.
TriggersOnce(e) == e.type = "opened"

Triggers(e) == e.type \in {"opened", "updated"}

\* One turn of the loop in Run.  A full set of slots makes the loop wait: the
\* agent would start one more goroutine.
Receive ==
    /\ engine = "running"
    /\ TakeEvent
    /\ LET e == Head(events) IN
         IF Triggers(e) /\ e.check \in DOMAIN active
         THEN \E w \in Callers :
                /\ At(w, "idle") /\ Goto(w, "waiting")
                /\ LET inc == GetActive(e.check) IN
                     snap' = Put(snap, w, [check |-> e.check, id |-> inc.id,
                                           status |-> inc.status])
         ELSE UNCHANGED <<pc, snap>>
    /\ UNCHANGED <<engine, ok, started, now, history, recorded, records>>

AcquireSem(w) ==
    /\ At(w, "waiting")
    /\ Cardinality(Holders) < SemCap
    /\ Goto(w, "holding")
    /\ UNCHANGED <<managerVars, engine, snap, ok, started, now, history, recorded, records>>

\* The 30 s timer fires on a goroutine that is still blocked, or the agent stops.
AbandonWait(w) ==
    /\ At(w, "waiting")
    /\ Cardinality(Holders) >= SemCap \/ ctx = "done"
    /\ Exit(w)
    /\ UNCHANGED <<managerVars, engine, now, history, recorded, records>>

\* handleIncident's first two returns: no rule, or a snapshot that is not open.
Repairable(w) == snap[w].check \in DOMAIN rules /\ snap[w].status = "open"

handleIncident(w) ==
    /\ At(w, "holding")
    /\ IF Repairable(w)
         THEN LET r == RuleOf(w) IN
                /\ CheckRateLimit(r.rule)
                /\ Goto(w, IF RateLimited(r.rule) \/ r.recipe \notin Recipes
                             THEN "leaving" ELSE "marking")
         ELSE Goto(w, "leaving") /\ UNCHANGED history
    /\ UNCHANGED <<managerVars, engine, snap, ok, started, now, recorded, records>>

MarkRepairing(w) ==
    /\ At(w, "marking")
    /\ SetStatus(w, snap[w].check, "repairing")
    /\ Goto(w, "starting")
    /\ UNCHANGED <<engine, snap, ok, started, now, history, recorded, records>>

BeginRecipe(w) ==
    /\ At(w, "starting")
    /\ started' = Put(started, w, now)
    /\ Goto(w, "executing")
    /\ UNCHANGED <<managerVars, engine, snap, ok, now, history, recorded, records>>

FinishRecipe(w) ==
    /\ At(w, "executing")
    /\ \E result \in BOOLEAN : ok' = Put(ok, w, result)
    /\ Goto(w, "recording")
    /\ UNCHANGED <<managerVars, engine, snap, started, now, history, recorded, records>>

persistResult(w) ==
    \E saved \in SaveOutcomes :
       records' = IF saved THEN records \cup {started[w]} ELSE records

RecordOutcome(w) ==
    /\ At(w, "recording")
    /\ RecordRepair(RuleOf(w).rule)
    /\ persistResult(w)
    /\ Goto(w, "settling")
    /\ UNCHANGED <<managerVars, engine, snap, ok, started, now>>

\* Mutant: a failed recipe leaves the status alone.
SettleSuccessOnly(w) ==
    /\ At(w, "settling")
    /\ IF ok[w] THEN SetStatus(w, snap[w].check, "verifying") ELSE UNCHANGED managerVars
    /\ Goto(w, "leaving")
    /\ UNCHANGED <<engine, snap, ok, started, now, history, recorded, records>>

SettleStatus(w) ==
    /\ At(w, "settling")
    /\ SetStatus(w, snap[w].check, IF ok[w] THEN "verifying" ELSE "failed")
    /\ Goto(w, "leaving")
    /\ UNCHANGED <<engine, snap, ok, started, now, history, recorded, records>>

\* Mutant: the deferred release and wg.Done do not run.
LeaveWithoutDone(w) == At(w, "leaving") /\ UNCHANGED vars

Leave(w) ==
    /\ At(w, "leaving")
    /\ Exit(w)
    /\ UNCHANGED <<managerVars, engine, now, history, recorded, records>>

\* ctx.Done in Run, then the deferred wg.Wait.
StopLoop ==
    /\ engine = "running" /\ ctx = "done"
    /\ engine' = "draining"
    /\ UNCHANGED <<managerVars, pc, snap, ok, started, now, history, recorded, records>>

Drained ==
    /\ engine = "draining"
    /\ \A w \in Callers : pc[w] = "idle" /\ w \notin DOMAIN pending
    /\ engine' = "returned"
    /\ UNCHANGED <<managerVars, pc, snap, ok, started, now, history, recorded, records>>

-----------------------------------------------------------------------------
Tick ==
    /\ now < MaxTime
    /\ now' = now + 1
    /\ UNCHANGED <<managerVars, engine, pc, snap, ok, started, history, recorded, records>>

\* The goroutines and the guardrails' history are lost, the buckets are not.
EngineRestart ==
    /\ Restart
    /\ engine' = "running"
    /\ pc' = [w \in Callers |-> "idle"]
    /\ snap' = EmptyMap /\ ok' = EmptyMap /\ started' = EmptyMap
    /\ history' = [r \in DOMAIN maxRepairs |-> {}]
    /\ recorded' = 0
    /\ UNCHANGED <<now, records>>

EngineInit ==
    /\ Init
    /\ engine = "running"
    /\ pc = [w \in Callers |-> "idle"]
    /\ snap = EmptyMap /\ ok = EmptyMap /\ started = EmptyMap
    /\ now = 0
    /\ history = [r \in DOMAIN maxRepairs |-> {}]
    /\ recorded = 0
    /\ records = {}

Worker(w) ==
    \/ AcquireSem(w) \/ AbandonWait(w)
    \/ handleIncident(w)
    \/ MarkRepairing(w) \/ BeginRecipe(w) \/ FinishRecipe(w)
    \/ RecordOutcome(w) \/ SettleStatus(w) \/ Leave(w)

EngineNext ==
    \/ \E c \in Checks : processResult(c) /\ UNCHANGED engineVars
    \/ \E g \in Goroutines : emit(g) /\ UNCHANGED engineVars
    \/ (Cancel \/ RunReturns \/ CloseStore) /\ UNCHANGED engineVars
    \/ Receive
    \/ \E w \in Callers : Worker(w)
    \/ StopLoop \/ Drained
    \/ Tick
    \/ EngineRestart

\* Goroutines that can run do run; a check with an active incident keeps
\* reporting; a ready ctx.Done is chosen by the manager's select sooner or later.
Fairness ==
    /\ \A g \in Goroutines : WF_vars(emit(g) /\ UNCHANGED engineVars)
    /\ \A w \in Callers : WF_vars(Worker(w))
    /\ WF_vars(Receive)
    /\ WF_vars(StopLoop) /\ WF_vars(Drained)
    /\ SF_vars(RunReturns /\ UNCHANGED engineVars)
    /\ \A c \in Checks :
         WF_vars((ResultHealthy(c) \/ ResultFailedAgain(c)) /\ UNCHANGED engineVars)

EngineSpec == EngineInit /\ [][EngineNext]_vars
FairSpec == EngineSpec /\ Fairness

-----------------------------------------------------------------------------
(* Properties *)

Snapshot == [check : Checks, id : Ids, status : Statuses]

EngineTypeOK ==
    /\ TypeOK
    /\ engine \in {"running", "draining", "returned"}
    /\ pc \in [Callers -> PcValues]
    /\ DOMAIN snap = {w \in Callers : pc[w] # "idle"}
    /\ snap \in [DOMAIN snap -> Snapshot]
    /\ {w \in Callers : pc[w] \in {"recording", "settling"}} \subseteq DOMAIN ok
    /\ DOMAIN ok \subseteq Callers /\ ok \in [DOMAIN ok -> BOOLEAN]
    /\ {w \in Callers : pc[w] \in {"executing", "recording", "settling"}}
         \subseteq DOMAIN started
    /\ DOMAIN started \subseteq Callers /\ started \in [DOMAIN started -> 0..now]
    /\ now \in 0..MaxTime
    /\ history \in [DOMAIN maxRepairs -> SUBSET [at : 0..MaxTime, n : Nat]]
    /\ recorded \in Nat
    /\ records \subseteq 0..MaxTime

\* An incident in "repairing" always has a goroutine that will move it on: no
\* interleaving of overlapping repairs, resolutions and re-openings of the same
\* check strands it (the SetStatus calls of handleIncident; within one run of
\* the process).
RepairingHasWorker ==
    restarts = 0 => \A c \in DOMAIN active : active[c].status = "repairing" =>
       \E w \in Callers : pc[w] \in Repairing /\ snap[w].check = c

InFlight(r) == {w \in Callers : pc[w] \in Admitted /\ RuleOf(w).rule = r}

\* CheckRateLimit and RecordRepair are two critical sections with the recipe in
\* between, so the hourly limit can be passed, but never by more than the other
\* holders of the semaphore: counted and admitted repairs together stay within
\* limit + SemCap - 1.
RateLimitOvershoot ==
    \A r \in DOMAIN maxRepairs :
       Cardinality(Pruned(r)) + Cardinality(InFlight(r)) <= maxRepairs[r] + SemCap - 1

\* "Only trigger repairs for open incidents (avoid re-triggering)"
\* (handleIncident): an incident is repaired by one goroutine at a time.
NoDoubleRepair ==
    \A v, w \in Callers :
       pc[v] \in Repairing /\ pc[w] \in Repairing /\ snap[v].id = snap[w].id => v = w

\* The checks whose open incidents the configuration can repair without limit.
Covered == {c \in DOMAIN rules : rules[c].recipe \in Recipes
                                /\ rules[c].rule \notin DOMAIN maxRepairs}

IsOpen(c) == c \in DOMAIN active /\ active[c].status = "open"
IsRepairing(c) == c \in DOMAIN active /\ active[c].status = "repairing"

\* An open incident with a rule, a recipe and no limit is repaired or resolved,
\* however many events the full channel drops and however many goroutines time
\* out on the semaphore: the next failure of the check tries again.
OpenIncidentIsRepaired ==
    \A c \in Covered : IsOpen(c) ~> (~IsOpen(c) \/ ctx = "done")

\* "so repairs resume after restart" (runtime.New, Rehydrate): an incident in
\* "repairing" does not stay there while the agent runs.
RepairingEnds == \A c \in Checks : IsRepairing(c) ~> (~IsRepairing(c) \/ ctx = "done")

\* After a cancellation both loops return: no goroutine keeps wg.Wait waiting.
ShutdownCompletes ==
    ctx = "done" ~> ((engine = "returned" /\ loop = "returned") \/ ctx = "live")
=============================================================================
