-------------------------- MODULE RepairEngineProofs --------------------------
(***************************************************************************)
(* Theorems about the repair engine composed with the incident manager,    *)
(* for every set of checks and goroutines, every configuration and every   *)
(* capacity of the semaphore and the event channel.                        *)
(***************************************************************************)
EXTENDS RepairEngine, IncidentManagerProofs

\* The status changes a repair goroutine makes are calls of SetStatus for the
\* check of its snapshot.
LEMMA WorkerSetsStatus ==
    ASSUME EngineTypeOK, NEW w \in Callers, MarkRepairing(w) \/ SettleStatus(w)
    PROVE  \E c \in Checks, s \in SettableStatuses : SetStatus(w, c, s)
<1>1. snap[w].check \in Checks
  BY DEF EngineTypeOK, MarkRepairing, SettleStatus, At, Snapshot
<1>2. CASE MarkRepairing(w)
  BY <1>1, <1>2 DEF MarkRepairing, SettableStatuses
<1>3. CASE SettleStatus(w)
  <2>1. (IF ok[w] THEN "verifying" ELSE "failed") \in SettableStatuses
    BY DEF SettableStatuses
  <2> QED BY <1>1, <1>3, <2>1 DEF SettleStatus
<1> QED BY <1>2, <1>3

\* Whatever the engine does is a step of the manager, or leaves it alone.
LEMMA ManagerStep == EngineTypeOK /\ [EngineNext]_vars => [Next]_managerVars
<1> SUFFICES ASSUME EngineTypeOK, [EngineNext]_vars PROVE [Next]_managerVars
  OBVIOUS
<1>1. ASSUME NEW w \in Callers, Worker(w) PROVE [Next]_managerVars
  <2>1. CASE MarkRepairing(w) \/ SettleStatus(w)
    BY <2>1, WorkerSetsStatus DEF Next
  <2>2. CASE ~(MarkRepairing(w) \/ SettleStatus(w))
    BY <1>1, <2>2 DEF Worker, AcquireSem, AbandonWait, handleIncident, BeginRecipe,
                      FinishRecipe, RecordOutcome, Leave
  <2> QED BY <2>1, <2>2
<1>2. CASE Receive
  BY <1>2 DEF Receive, Next
<1>3. CASE StopLoop \/ Drained \/ Tick
  BY <1>3 DEF StopLoop, Drained, Tick
<1>4. CASE EngineRestart
  BY <1>4 DEF EngineRestart, Next
<1>5. CASE UNCHANGED vars
  BY <1>5 DEF vars
<1> QED BY <1>1, <1>2, <1>3, <1>4, <1>5 DEF EngineNext, Next

\* Every step of a repair goroutine keeps the engine's types.
LEMMA WorkerType ==
    ASSUME EngineTypeOK, TypeOK', NEW w \in Callers, Worker(w)
    PROVE  EngineTypeOK'
<1> USE DEF At, Goto, PcValues
<1>1. CASE AcquireSem(w)
  BY <1>1 DEF AcquireSem, EngineTypeOK
<1>2. CASE AbandonWait(w)
  BY <1>2 DEF AbandonWait, Exit, Delete, Restrict, EngineTypeOK
<1>3. CASE handleIncident(w)
  <2>1. history' \in [DOMAIN maxRepairs -> SUBSET [at : 0..MaxTime, n : Nat]]
    BY <1>3 DEF handleIncident, CheckRateLimit, Pruned, EngineTypeOK
  <2> QED BY <1>3, <2>1 DEF handleIncident, EngineTypeOK
<1>4. CASE MarkRepairing(w)
  BY <1>4 DEF MarkRepairing, EngineTypeOK
<1>5. CASE BeginRecipe(w)
  BY <1>5 DEF BeginRecipe, Put, EngineTypeOK
<1>6. CASE FinishRecipe(w)
  BY <1>6 DEF FinishRecipe, Put, EngineTypeOK
<1>7. CASE RecordOutcome(w)
  <2>1. /\ pc[w] = "recording" /\ pc' = [pc EXCEPT ![w] = "settling"]
        /\ UNCHANGED <<engine, snap, ok, started, now>>
    BY <1>7 DEF RecordOutcome
  <2>2. started[w] \in 0..MaxTime
    <3>1. w \in DOMAIN started
      BY <2>1 DEF EngineTypeOK
    <3>2. started[w] \in 0..now /\ now \in 0..MaxTime
      BY <3>1 DEF EngineTypeOK
    <3> QED BY <3>2, EngineConstants
  <2>3. records' \subseteq 0..MaxTime
    BY <1>7, <2>2 DEF RecordOutcome, persistResult, EngineTypeOK
  <2>4. /\ history' \in [DOMAIN maxRepairs -> SUBSET [at : 0..MaxTime, n : Nat]]
        /\ recorded' \in Nat
    BY <1>7 DEF RecordOutcome, RecordRepair, Pruned, EngineTypeOK
  <2> QED BY <2>1, <2>3, <2>4 DEF EngineTypeOK
<1>8. CASE SettleStatus(w)
  BY <1>8 DEF SettleStatus, EngineTypeOK
<1>9. CASE Leave(w)
  BY <1>9 DEF Leave, Exit, Delete, Restrict, EngineTypeOK
<1> QED BY <1>1, <1>2, <1>3, <1>4, <1>5, <1>6, <1>7, <1>8, <1>9 DEF Worker

\* Every step of the composition keeps the types of both components.
LEMMA EngineTypeStep == EngineTypeOK /\ [EngineNext]_vars => EngineTypeOK'
<1> SUFFICES ASSUME EngineTypeOK, [EngineNext]_vars PROVE EngineTypeOK'
  OBVIOUS
<1>0. TypeOK /\ TypeOK'
  BY ManagerStep, TypeStep DEF EngineTypeOK
<1>1. CASE UNCHANGED engineVars
  BY <1>0, <1>1 DEF engineVars, EngineTypeOK
<1>2. ASSUME NEW w \in Callers, Worker(w) PROVE EngineTypeOK'
  BY <1>0, <1>2, WorkerType
<1>3. CASE Receive
  <2> DEFINE e == Head(events)
  <2>1. CASE Triggers(e) /\ e.check \in DOMAIN active
    <3>1. PICK w \in Callers :
            /\ At(w, "idle") /\ Goto(w, "waiting")
            /\ snap' = Put(snap, w, [check |-> e.check, id |-> active[e.check].id,
                                     status |-> active[e.check].status])
      BY <1>3, <2>1 DEF Receive, GetActive
    <3>2. [check |-> e.check, id |-> active[e.check].id,
           status |-> active[e.check].status] \in Snapshot
      BY <1>0, <2>1 DEF TypeOK, Incident, Snapshot
    <3> QED BY <1>0, <1>3, <3>1, <3>2
            DEF Receive, At, Goto, Put, PcValues, EngineTypeOK
  <2>2. CASE ~(Triggers(e) /\ e.check \in DOMAIN active)
    BY <1>0, <1>3, <2>2 DEF Receive, EngineTypeOK
  <2> QED BY <2>1, <2>2
<1>4. CASE StopLoop \/ Drained
  BY <1>0, <1>4 DEF StopLoop, Drained, EngineTypeOK
<1>5. CASE Tick
  BY <1>0, <1>5, EngineConstants DEF Tick, EngineTypeOK
<1>6. CASE EngineRestart
  BY <1>0, <1>6 DEF EngineRestart, EmptyMap, PcValues, EngineTypeOK
<1> QED BY <1>1, <1>2, <1>3, <1>4, <1>5, <1>6 DEF EngineNext, vars

\* Type correctness of the composition: in particular a goroutine has a snapshot
\* exactly while it runs, and the start time and outcome of its recipe when it
\* records them.
THEOREM EngineTypeCorrect == EngineSpec => []EngineTypeOK
<1>1. EngineInit => EngineTypeOK
  <2>1. Init => TypeOK
    BY ManagerConstants DEF Init, TypeOK, EmptyMap
  <2> QED BY <2>1, EngineConstants DEF EngineInit, EngineTypeOK, EmptyMap, PcValues
<1> QED BY <1>1, EngineTypeStep, PTL DEF EngineSpec

\* The composition implements the manager's specification: the repair engine
\* drives the manager only through the operations it offers, so everything
\* proved of the manager alone holds in the agent.
THEOREM EngineImplementsManager == EngineSpec => Spec
<1>1. EngineInit => Init
  BY DEF EngineInit
<1> QED BY <1>1, ManagerStep, EngineTypeCorrect, PTL DEF EngineSpec, Spec

-----------------------------------------------------------------------------
(* No incident is stranded in repairing. *)

\* Nobody but a repair goroutine puts an incident into "repairing".
LEMMA ResultKeepsRepairing ==
    ASSUME TypeOK, NEW d \in Checks, processResult(d),
           NEW c \in DOMAIN active', active'[c].status = "repairing"
    PROVE  c \in DOMAIN active /\ active[c].status = "repairing"
<1>1. CASE ResultHealthy(d)
  BY <1>1 DEF ResultHealthy, resolveIncidentLocked, Delete, Restrict
<1>2. CASE ResultFailedAgain(d)
  BY <1>2 DEF ResultFailedAgain, TypeOK, Incident
<1>3. CASE ResultFailedFirst(d)
  BY <1>3 DEF ResultFailedFirst, Put, createIncident
<1> QED BY <1>1, <1>2, <1>3 DEF processResult

\* A status change by a repair goroutine sets the status of its own check's
\* incident and leaves the others alone.
LEMMA StatusOfOthers ==
    ASSUME TypeOK, NEW g \in Callers, NEW d \in Checks,
           NEW s \in {"repairing", "verifying", "failed"}, SetStatus(g, d, s)
    PROVE  /\ DOMAIN active' = DOMAIN active
           /\ UNCHANGED restarts
           /\ \A c \in DOMAIN active :
                active'[c].status = IF c = d THEN s ELSE active[c].status
<1>1. CASE SetStatusUnknown(d)
  BY <1>1 DEF SetStatusUnknown, managerVars
<1>2. CASE SetStatusKnown(g, d, s)
  BY <1>2 DEF SetStatusKnown, TypeOK, Incident, lifecycle
<1> QED BY <1>1, <1>2 DEF SetStatus

\* A step of a repair goroutine leaves no incident in repairing without one.
LEMMA WorkerKeepsRepairing ==
    ASSUME EngineTypeOK, RepairingHasWorker, NEW w \in Callers, Worker(w)
    PROVE  RepairingHasWorker'
<1> USE DEF At, Goto, PcValues
<1>1. ASSUME UNCHANGED managerVars, pc[w] \notin Repairing,
             NEW p, Goto(w, p), \A v \in Callers \ {w} : v \in DOMAIN snap => snap'[v] = snap[v]
      PROVE  RepairingHasWorker'
  BY <1>1 DEF RepairingHasWorker, managerVars, EngineTypeOK, Repairing
<1>2. ASSUME UNCHANGED managerVars, UNCHANGED snap, NEW p \in Repairing, Goto(w, p)
      PROVE  RepairingHasWorker'
  BY <1>2 DEF RepairingHasWorker, managerVars, EngineTypeOK
<1>3. CASE AcquireSem(w) \/ handleIncident(w)
  BY <1>1, <1>3 DEF AcquireSem, handleIncident, Repairing
<1>4. CASE AbandonWait(w) \/ Leave(w)
  BY <1>1, <1>4 DEF AbandonWait, Leave, Exit, Delete, Restrict, Repairing
<1>5. CASE BeginRecipe(w) \/ FinishRecipe(w) \/ RecordOutcome(w)
  BY <1>2, <1>5 DEF BeginRecipe, FinishRecipe, RecordOutcome, Repairing
<1>6. CASE MarkRepairing(w)
  <2>1. snap[w].check \in Checks
    BY <1>6 DEF MarkRepairing, EngineTypeOK, Snapshot
  <2>2. /\ DOMAIN active' = DOMAIN active /\ UNCHANGED restarts
        /\ \A c \in DOMAIN active :
             c # snap[w].check => active'[c].status = active[c].status
    BY <1>6, <2>1, StatusOfOthers DEF MarkRepairing, EngineTypeOK
  <2> QED BY <1>6, <2>2 DEF MarkRepairing, RepairingHasWorker, EngineTypeOK, Repairing
<1>7. CASE SettleStatus(w)
  <2> DEFINE s == IF ok[w] THEN "verifying" ELSE "failed"
  <2>1. snap[w].check \in Checks
    BY <1>7 DEF SettleStatus, EngineTypeOK, Snapshot
  <2>2. s \in {"repairing", "verifying", "failed"} /\ s # "repairing"
    OBVIOUS
  <2>3. /\ DOMAIN active' = DOMAIN active /\ UNCHANGED restarts
        /\ \A c \in DOMAIN active :
             active'[c].status = IF c = snap[w].check THEN s ELSE active[c].status
    BY <1>7, <2>1, <2>2, StatusOfOthers DEF SettleStatus, EngineTypeOK
  <2> HIDE DEF s
  <2> QED BY <1>7, <2>2, <2>3 DEF SettleStatus, RepairingHasWorker, EngineTypeOK, Repairing
<1> QED BY <1>3, <1>4, <1>5, <1>6, <1>7 DEF Worker

\* Within one run of the process an incident in "repairing" always has a repair
\* goroutine that will still set its final status, however repairs, resolutions,
\* re-openings, failed saves and shutdown interleave (handleIncident's SetStatus
\* calls).
THEOREM RepairingIsOwned == EngineSpec => []RepairingHasWorker
<1>1. EngineInit => RepairingHasWorker
  BY DEF EngineInit, Init, EmptyMap, RepairingHasWorker
<1>2. EngineTypeOK /\ RepairingHasWorker /\ [EngineNext]_vars => RepairingHasWorker'
  <2> SUFFICES ASSUME EngineTypeOK, RepairingHasWorker, [EngineNext]_vars
               PROVE  RepairingHasWorker'
    OBVIOUS
  <2>1. ASSUME NEW d \in Checks, processResult(d), UNCHANGED engineVars
        PROVE  RepairingHasWorker'
    <3>1. restarts' = restarts
      BY <2>1 DEF processResult, ResultHealthy, ResultFailedAgain, ResultFailedFirst,
                  lifecycle
    <3>2. \A c \in DOMAIN active' : active'[c].status = "repairing" =>
            c \in DOMAIN active /\ active[c].status = "repairing"
      BY <2>1, ResultKeepsRepairing DEF EngineTypeOK
    <3> QED BY <2>1, <3>1, <3>2 DEF RepairingHasWorker, engineVars
  <2>2. ASSUME UNCHANGED <<active, restarts, pc, snap>> PROVE RepairingHasWorker'
    BY <2>2 DEF RepairingHasWorker
  <2>3. ASSUME NEW g \in Goroutines, emit(g), UNCHANGED engineVars PROVE RepairingHasWorker'
    BY <2>2, <2>3 DEF emit, engineVars
  <2>4. CASE (Cancel \/ RunReturns \/ CloseStore) /\ UNCHANGED engineVars
    BY <2>2, <2>4 DEF Cancel, RunReturns, CloseStore, engineVars
  <2>5. CASE Receive
    <3>1. UNCHANGED <<active, restarts>>
      BY <2>5 DEF Receive, TakeEvent
    <3>2. \A v \in Callers : pc[v] \in Repairing => pc'[v] = pc[v] /\ snap'[v] = snap[v]
      BY <2>5 DEF Receive, At, Goto, Put, Repairing, EngineTypeOK
    <3> QED BY <3>1, <3>2 DEF RepairingHasWorker
  <2>6. ASSUME NEW w \in Callers, Worker(w) PROVE RepairingHasWorker'
    BY <2>6, WorkerKeepsRepairing
  <2>7. CASE StopLoop \/ Drained \/ Tick
    BY <2>2, <2>7 DEF StopLoop, Drained, Tick, managerVars
  <2>8. CASE EngineRestart
    BY <2>8 DEF EngineRestart, Restart, RepairingHasWorker, EngineTypeOK, TypeOK
  <2>9. CASE UNCHANGED vars
    BY <2>2, <2>9 DEF vars, managerVars, engineVars
  <2> QED BY <2>1, <2>3, <2>4, <2>5, <2>6, <2>7, <2>8, <2>9 DEF EngineNext
<1> QED BY <1>1, <1>2, EngineTypeCorrect, PTL DEF EngineSpec

-----------------------------------------------------------------------------
(* The rate limit *)

\* A non-empty set of indices has a greatest one, and Max chooses it.
LEMMA MaxOfBounded ==
    ASSUME NEW n \in Nat, NEW S \in SUBSET (1..n), S # {}
    PROVE  Max(S) \in S
<1> DEFINE T == {k \in Nat : n - k \in S}
<1> DEFINE R == OpToRel(<, Nat)
<1>1. T \subseteq Nat /\ T # {}
  <2>1. PICK i \in S : TRUE
    OBVIOUS
  <2>2. n - i \in Nat /\ n - (n - i) = i
    OBVIOUS
  <2> QED BY <2>1, <2>2
<1>2. \E k \in T : \A j \in T : ~ (<<j, k>> \in R)
  <2>1. IsWellFoundedOn(R, Nat)
    BY NatLessThanWellFounded, Zenon
  <2> HIDE DEF R, T
  <2> QED BY <1>1, <2>1, WFMin
<1>3. PICK k \in T : \A j \in T : ~ (<<j, k>> \in R)
  BY <1>2
<1>4. \A j, m \in Nat : <<j, m>> \in R <=> j < m
  BY Zenon DEF OpToRel
<1> HIDE DEF R
<1>5. \A j \in T : j >= k
  <2>1. \A j \in T : ~ (j < k) /\ j \in Nat /\ k \in Nat
    BY <1>3, <1>4
  <2> QED BY <2>1
<1>6. n - k \in S /\ \A i \in S : n - k >= i
  <2>1. ASSUME NEW i \in S PROVE n - k >= i
    <3>1. n - i \in Nat /\ n - (n - i) = i
      OBVIOUS
    <3>2. n - i >= k
      BY <1>5, <3>1
    <3>3. n \in Nat /\ i \in Nat /\ k \in Nat
      BY <1>1
    <3> HIDE DEF T
    <3> QED BY <3>2, <3>3
  <2> QED BY <2>1, <1>3
<1> QED BY <1>6 DEF Max

\* The limit LoadConfig leaves under a rule's name is one of the configured ones.
LEMMA LimitType == \A r \in DOMAIN maxRepairs : maxRepairs[r] \in Nat
<1> SUFFICES ASSUME NEW r \in DOMAIN maxRepairs PROVE maxRepairs[r] \in Nat
  OBVIOUS
<1> DEFINE S == {i \in DOMAIN Repairs : Repairs[i].rule = r /\ Repairs[i].max > 0}
<1>1. S \in SUBSET (1..Len(Repairs)) /\ Len(Repairs) \in Nat
  BY EngineConstants
<1>2. S # {}
  BY DEF maxRepairs
<1>3. Max(S) \in S
  <2> HIDE DEF S
  <2> QED BY <1>1, <1>2, MaxOfBounded
<1>4. maxRepairs[r] = Repairs[Max(S)].max
  BY DEF maxRepairs
<1>5. Repairs[Max(S)] \in RepairRuleConfig
  BY <1>3, EngineConstants
<1> HIDE DEF S
<1> QED BY <1>4, <1>5 DEF RepairRuleConfig

\* The semaphore is held by no more goroutines than it has room for, and the
\* history of a rule is a finite set of entries.
SemaphoreBounded == Cardinality(Holders) <= SemCap
HistoryFinite == \A r \in DOMAIN maxRepairs : IsFiniteSet(history[r])
RateInv == SemaphoreBounded /\ HistoryFinite /\ RateLimitOvershoot

\* One element makes a finite set larger by at most one.
LEMMA AddOne ==
    ASSUME NEW S, NEW x, IsFiniteSet(S)
    PROVE  /\ IsFiniteSet(S \cup {x})
           /\ Cardinality(S) \in Nat /\ Cardinality(S \cup {x}) \in Nat
           /\ Cardinality(S \cup {x}) <= Cardinality(S) + 1
<1>1. Cardinality(S) \in Nat
  BY FS_CardinalityType
<1>2. /\ IsFiniteSet(S \cup {x})
      /\ Cardinality(S \cup {x}) = IF x \in S THEN Cardinality(S) ELSE Cardinality(S) + 1
  BY FS_AddElement
<1> QED BY <1>1, <1>2

\* The cardinalities of the sets involved are natural numbers.
LEMMA FiniteSets ==
    ASSUME HistoryFinite
    PROVE  /\ IsFiniteSet(Holders)
           /\ \A r \in DOMAIN maxRepairs : IsFiniteSet(Pruned(r)) /\ IsFiniteSet(InFlight(r))
<1>1. IsFiniteSet(Holders)
  BY EngineConstants, FS_Subset DEF Holders
<1>2. ASSUME NEW r \in DOMAIN maxRepairs
      PROVE  IsFiniteSet(Pruned(r)) /\ IsFiniteSet(InFlight(r))
  <2>1. IsFiniteSet(history[r]) /\ Pruned(r) \in SUBSET history[r]
    BY DEF HistoryFinite, Pruned
  <2>2. InFlight(r) \in SUBSET Callers
    BY DEF InFlight
  <2> QED BY <2>1, <2>2, EngineConstants, FS_Subset
<1> QED BY <1>1, <1>2

\* A step after which no rule has more counted or more admitted repairs.
LEMMA FewerRepairs ==
    ASSUME HistoryFinite, RateLimitOvershoot,
           \A r \in DOMAIN maxRepairs :
              Pruned(r)' \subseteq Pruned(r) /\ InFlight(r)' \subseteq InFlight(r)
    PROVE  RateLimitOvershoot'
<1> SUFFICES ASSUME NEW r \in DOMAIN maxRepairs
             PROVE  Cardinality(Pruned(r)') + Cardinality(InFlight(r)')
                      <= maxRepairs[r] + SemCap - 1
  BY DEF RateLimitOvershoot
<1>1. IsFiniteSet(Pruned(r)) /\ IsFiniteSet(InFlight(r))
  BY FiniteSets
<1>2. /\ Cardinality(Pruned(r)') <= Cardinality(Pruned(r))
      /\ Cardinality(InFlight(r)') <= Cardinality(InFlight(r))
      /\ IsFiniteSet(Pruned(r)') /\ IsFiniteSet(InFlight(r)')
  BY <1>1, FS_Subset
<1>3. /\ Cardinality(Pruned(r)) \in Nat /\ Cardinality(InFlight(r)) \in Nat
      /\ Cardinality(Pruned(r)') \in Nat /\ Cardinality(InFlight(r)') \in Nat
  BY <1>1, <1>2, FS_CardinalityType
<1> QED BY <1>2, <1>3, LimitType, EngineConstants DEF RateLimitOvershoot

\* A step after which, moreover, no more goroutines hold the semaphore.
LEMMA RateKept ==
    ASSUME RateInv, HistoryFinite', Holders' \subseteq Holders,
           \A r \in DOMAIN maxRepairs :
              Pruned(r)' \subseteq Pruned(r) /\ InFlight(r)' \subseteq InFlight(r)
    PROVE  RateInv'
<1>1. RateLimitOvershoot'
  BY FewerRepairs DEF RateInv
<1>2. IsFiniteSet(Holders)
  BY FiniteSets DEF RateInv
<1>3. /\ Cardinality(Holders') <= Cardinality(Holders)
      /\ Cardinality(Holders') \in Nat /\ Cardinality(Holders) \in Nat
  BY <1>2, FS_Subset, FS_CardinalityType
<1> QED BY <1>1, <1>3, EngineConstants DEF RateInv, SemaphoreBounded

\* A goroutine that moves on without entering or leaving the admitted repairs.
LEMMA RateMove ==
    ASSUME EngineTypeOK, RateInv, UNCHANGED <<history, now>>,
           NEW w \in Callers, NEW p \in PcValues, Goto(w, p),
           \A v \in Callers \ {w} : v \in DOMAIN snap => snap'[v] = snap[v],
           \/ p \notin Admitted
           \/ p \in Admitted /\ pc[w] \in Admitted /\ snap'[w] = snap[w],
           p \notin {"idle", "waiting"} => pc[w] \notin {"idle", "waiting"}
    PROVE  RateInv'
<1>1. HistoryFinite'
  BY DEF RateInv, HistoryFinite
<1>2. \A r \in DOMAIN maxRepairs : Pruned(r)' = Pruned(r)
  BY DEF Pruned
<1>3. pc' = [pc EXCEPT ![w] = p] /\ pc \in [Callers -> PcValues]
      /\ \A v \in Callers : pc[v] # "idle" => v \in DOMAIN snap
  BY DEF Goto, EngineTypeOK
<1>4. Holders' \subseteq Holders
  BY <1>3 DEF Holders
<1>5. \A v \in Callers : pc'[v] \in Admitted => pc[v] \in Admitted /\ snap'[v] = snap[v]
  BY <1>3 DEF Admitted
<1>6. \A r \in DOMAIN maxRepairs : InFlight(r)' \subseteq InFlight(r)
  BY <1>5 DEF InFlight, RuleOf
<1> QED BY <1>1, <1>2, <1>4, <1>6, RateKept

\* Admission: below the limit, and no more repairs in flight than holders.
LEMMA RateAdmit ==
    ASSUME EngineTypeOK, RateInv, NEW w \in Callers, handleIncident(w)
    PROVE  RateInv'
<1> DEFINE rule == RuleOf(w).rule
           p == IF Repairable(w)
                  THEN IF RateLimited(rule) \/ RuleOf(w).recipe \notin Recipes
                         THEN "leaving" ELSE "marking"
                  ELSE "leaving"
<1>1. pc[w] = "holding" /\ pc' = [pc EXCEPT ![w] = p] /\ UNCHANGED <<snap, now>>
      /\ pc \in [Callers -> PcValues] /\ p \in {"leaving", "marking"}
  BY DEF handleIncident, At, Goto, EngineTypeOK
<1>2. \A r \in DOMAIN maxRepairs : history'[r] \in {history[r], Pruned(r)}
  BY DEF handleIncident, CheckRateLimit, EngineTypeOK
<1>3. HistoryFinite' /\ \A r \in DOMAIN maxRepairs : Pruned(r)' = Pruned(r)
  <2>1. \A r \in DOMAIN maxRepairs : IsFiniteSet(history[r]) /\ IsFiniteSet(Pruned(r))
    BY FiniteSets DEF RateInv, HistoryFinite
  <2> QED BY <1>1, <1>2, <2>1 DEF HistoryFinite, Pruned
<1> HIDE DEF p
<1>4. Holders' = Holders
  BY <1>1 DEF Holders
<1>5. CASE p = "leaving"
  <2>1. \A r \in DOMAIN maxRepairs : InFlight(r)' \subseteq InFlight(r)
    BY <1>1, <1>5 DEF InFlight, RuleOf, Admitted
  <2> QED BY <1>3, <1>4, <2>1, RateKept
<1>6. CASE p = "marking"
  <2>1. ~RateLimited(rule)
    BY <1>6 DEF p
  <2>2. ASSUME NEW r \in DOMAIN maxRepairs
        PROVE  Cardinality(Pruned(r)') + Cardinality(InFlight(r)')
                 <= maxRepairs[r] + SemCap - 1
    <3>1. /\ IsFiniteSet(Holders) /\ IsFiniteSet(Pruned(r)) /\ IsFiniteSet(InFlight(r))
          /\ maxRepairs[r] \in Nat
      BY FiniteSets, LimitType DEF RateInv
    <3>2. CASE r = rule
      <4>1. Cardinality(Pruned(r)) \in Nat /\ Cardinality(Pruned(r)) < maxRepairs[r]
        BY <2>1, <3>1, <3>2, FS_CardinalityType DEF RateLimited
      <4>2. InFlight(r)' \in SUBSET Holders
        BY <1>4 DEF InFlight, Holders, Admitted
      <4>3. /\ Cardinality(InFlight(r)') <= Cardinality(Holders)
            /\ Cardinality(InFlight(r)') \in Nat /\ Cardinality(Holders) \in Nat
        BY <3>1, <4>2, FS_Subset, FS_CardinalityType
      <4> QED BY <1>3, <3>1, <4>1, <4>3, EngineConstants DEF RateInv, SemaphoreBounded
    <3>3. CASE r # rule
      <4>1. InFlight(r)' = InFlight(r)
        BY <1>1, <3>3 DEF InFlight, RuleOf, Admitted
      <4> QED BY <1>3, <4>1 DEF RateInv, RateLimitOvershoot
    <3> QED BY <3>2, <3>3
  <2>3. RateLimitOvershoot'
    BY <2>2 DEF RateLimitOvershoot
  <2> QED BY <1>3, <1>4, <2>3 DEF RateInv, SemaphoreBounded
<1> QED BY <1>1, <1>5, <1>6

\* Counting a repair: one entry more, one repair in flight less.
LEMMA RateRecord ==
    ASSUME EngineTypeOK, RateInv, NEW w \in Callers, RecordOutcome(w)
    PROVE  RateInv'
<1> DEFINE rule == RuleOf(w).rule
           entry == [at |-> now, n |-> recorded]
<1>1. /\ pc[w] = "recording" /\ pc' = [pc EXCEPT ![w] = "settling"]
      /\ UNCHANGED <<snap, now>> /\ pc \in [Callers -> PcValues]
  BY DEF RecordOutcome, At, Goto, EngineTypeOK
<1>2. Holders' = Holders
  BY <1>1 DEF Holders
<1>3. ASSUME NEW r \in DOMAIN maxRepairs
      PROVE  history'[r] = IF r = rule THEN Pruned(r) \cup {entry} ELSE history[r]
  BY DEF RecordOutcome, RecordRepair, EngineTypeOK
<1>4. \A r \in DOMAIN maxRepairs : /\ IsFiniteSet(history[r]) /\ IsFiniteSet(Pruned(r))
                                    /\ IsFiniteSet(InFlight(r))
  BY FiniteSets DEF RateInv, HistoryFinite
<1>5. HistoryFinite'
  <2>1. ASSUME NEW r \in DOMAIN maxRepairs PROVE IsFiniteSet(history'[r])
    <3> HIDE DEF entry, rule
    <3>1. IsFiniteSet(Pruned(r) \cup {entry}) /\ IsFiniteSet(history[r])
      BY <1>4, FS_AddElement
    <3> QED BY <1>3, <3>1
  <2> QED BY <2>1 DEF HistoryFinite
<1>6. ASSUME NEW r \in DOMAIN maxRepairs
      PROVE  Cardinality(Pruned(r)') + Cardinality(InFlight(r)')
               <= maxRepairs[r] + SemCap - 1
  <2>1. CASE r = rule
    <3> HIDE DEF entry
    <3>1. InFlight(r)' = InFlight(r) \ {w} /\ w \in InFlight(r)
      BY <1>1, <2>1 DEF InFlight, RuleOf, Admitted
    <3>2. Cardinality(InFlight(r)') = Cardinality(InFlight(r)) - 1
      BY <1>4, <3>1, FS_RemoveElement
    <3>3. Pruned(r)' \in SUBSET (Pruned(r) \cup {entry})
      BY <1>1, <1>3, <2>1 DEF Pruned
    <3>4. /\ IsFiniteSet(Pruned(r) \cup {entry}) /\ Cardinality(Pruned(r)) \in Nat
          /\ Cardinality(Pruned(r) \cup {entry}) <= Cardinality(Pruned(r)) + 1
          /\ Cardinality(Pruned(r) \cup {entry}) \in Nat
      BY <1>4, AddOne
    <3>5. /\ Cardinality(Pruned(r)') <= Cardinality(Pruned(r) \cup {entry})
          /\ Cardinality(Pruned(r)') \in Nat
      BY <3>3, <3>4, FS_Subset, FS_CardinalityType
    <3>6. Cardinality(InFlight(r)) \in Nat /\ maxRepairs[r] \in Nat
      BY <1>4, FS_CardinalityType, LimitType
    <3>7. Cardinality(Pruned(r)) + Cardinality(InFlight(r)) <= maxRepairs[r] + SemCap - 1
      BY DEF RateInv, RateLimitOvershoot
    <3> QED BY <3>2, <3>4, <3>5, <3>6, <3>7, EngineConstants
  <2>2. CASE r # rule
    <3>1. InFlight(r)' = InFlight(r)
      BY <1>1, <2>2 DEF InFlight, RuleOf, Admitted
    <3>2. Pruned(r)' = Pruned(r)
      BY <1>1, <1>3, <2>2 DEF Pruned
    <3> QED BY <3>1, <3>2 DEF RateInv, RateLimitOvershoot
  <2> QED BY <2>1, <2>2
<1>7. RateLimitOvershoot'
  BY <1>6 DEF RateLimitOvershoot
<1> QED BY <1>2, <1>5, <1>7 DEF RateInv, SemaphoreBounded

\* Every step of the composition keeps the rate limit's invariant.
LEMMA RateStep == EngineTypeOK /\ RateInv /\ [EngineNext]_vars => RateInv'
<1> SUFFICES ASSUME EngineTypeOK, RateInv, [EngineNext]_vars PROVE RateInv'
  OBVIOUS
<1>1. ASSUME UNCHANGED <<pc, snap, history, now>> PROVE RateInv'
  BY <1>1 DEF RateInv, SemaphoreBounded, HistoryFinite, RateLimitOvershoot,
              Holders, Pruned, InFlight, RuleOf
<1>2. CASE UNCHANGED engineVars
  BY <1>1, <1>2 DEF engineVars
<1>3. CASE StopLoop \/ Drained
  BY <1>1, <1>3 DEF StopLoop, Drained
<1>4. CASE Receive
  <2>1. CASE UNCHANGED <<pc, snap>>
    BY <1>1, <1>4, <2>1 DEF Receive
  <2>2. CASE ~UNCHANGED <<pc, snap>>
    <3>1. PICK w \in Callers : Goto(w, "waiting") /\ \E m : snap' = Put(snap, w, m)
      BY <1>4, <2>2 DEF Receive
    <3>2. \A v \in Callers \ {w} : v \in DOMAIN snap => snap'[v] = snap[v]
      BY <3>1 DEF Put
    <3> QED BY <1>4, <3>1, <3>2, RateMove DEF Receive, PcValues, Admitted
  <2> QED BY <2>1, <2>2
<1>5. ASSUME NEW w \in Callers, Worker(w) PROVE RateInv'
  <2> USE DEF At, PcValues, Admitted
  <2>1. CASE AcquireSem(w)
    <3>1. /\ pc[w] = "waiting" /\ pc' = [pc EXCEPT ![w] = "holding"]
          /\ pc \in [Callers -> PcValues] /\ UNCHANGED <<snap, history, now>>
          /\ Cardinality(Holders) < SemCap
      BY <2>1 DEF AcquireSem, Goto, EngineTypeOK
    <3>2. Holders' = Holders \cup {w}
      BY <3>1 DEF Holders
    <3>3. IsFiniteSet(Holders) /\ Cardinality(Holders) \in Nat
      BY FiniteSets, FS_CardinalityType DEF RateInv
    <3>4. Cardinality(Holders') <= Cardinality(Holders) + 1 /\ Cardinality(Holders') \in Nat
      BY <3>2, <3>3, AddOne
    <3>5. SemaphoreBounded'
      BY <3>1, <3>3, <3>4, EngineConstants DEF SemaphoreBounded
    <3>6. \A r \in DOMAIN maxRepairs : Pruned(r)' = Pruned(r) /\ InFlight(r)' = InFlight(r)
      BY <3>1 DEF Pruned, InFlight, RuleOf
    <3> QED BY <3>1, <3>5, <3>6 DEF RateInv, HistoryFinite, RateLimitOvershoot
  <2>2. CASE AbandonWait(w)
    BY <2>2, RateMove DEF AbandonWait, Exit, Delete, Restrict
  <2>3. CASE handleIncident(w)
    BY <2>3, RateAdmit
  <2>4. CASE MarkRepairing(w)
    BY <2>4, RateMove DEF MarkRepairing
  <2>5. CASE BeginRecipe(w)
    BY <2>5, RateMove DEF BeginRecipe
  <2>6. CASE FinishRecipe(w)
    BY <2>6, RateMove DEF FinishRecipe
  <2>7. CASE RecordOutcome(w)
    BY <2>7, RateRecord
  <2>8. CASE SettleStatus(w)
    BY <2>8, RateMove DEF SettleStatus
  <2>9. CASE Leave(w)
    BY <2>9, RateMove DEF Leave, Exit, Delete, Restrict
  <2> QED BY <1>5, <2>1, <2>2, <2>3, <2>4, <2>5, <2>6, <2>7, <2>8, <2>9 DEF Worker
<1>6. CASE Tick
  <2>1. UNCHANGED <<pc, snap, history>> /\ now' = now + 1 /\ now \in Int
    BY <1>6, EngineConstants DEF Tick, EngineTypeOK
  <2>2. ASSUME NEW r \in DOMAIN maxRepairs
        PROVE  Pruned(r)' \subseteq Pruned(r) /\ InFlight(r)' = InFlight(r)
    <3>1. \A h \in history[r] : h.at \in Int
      BY DEF EngineTypeOK
    <3>2. \A h \in history[r] : h.at > (now + 1) - Window => h.at > now - Window
      BY <2>1, <3>1, EngineConstants
    <3> QED BY <2>1, <3>2 DEF Pruned, InFlight, RuleOf
  <2>3. Holders' = Holders /\ HistoryFinite'
    BY <2>1 DEF Holders, RateInv, HistoryFinite
  <2> QED BY <2>2, <2>3, RateKept
<1>7. CASE EngineRestart
  <2>1. pc' = [w \in Callers |-> "idle"] /\ history' = [r \in DOMAIN maxRepairs |-> {}]
    BY <1>7 DEF EngineRestart
  <2>2. Holders' = {} /\ \A r \in DOMAIN maxRepairs : Pruned(r)' = {} /\ InFlight(r)' = {}
    BY <2>1 DEF Holders, Pruned, InFlight, Admitted
  <2>3. HistoryFinite'
    BY <2>1, FS_EmptySet DEF HistoryFinite
  <2> QED BY <2>2, <2>3, RateKept DEF RateInv
<1> QED BY <1>2, <1>3, <1>4, <1>5, <1>6, <1>7, <1>1 DEF EngineNext, vars, engineVars

\* Within any hour a rule starts at most its limit plus one repair less than the
\* semaphore has room for, for every configuration (CheckRateLimit before the
\* recipe, RecordRepair after it, at most ten goroutines in between).
THEOREM RateLimitBounded == EngineSpec => []RateLimitOvershoot
<1>1. EngineInit => RateInv
  <2> SUFFICES ASSUME EngineInit PROVE RateInv
    OBVIOUS
  <2>1. Holders = {} /\ \A r \in DOMAIN maxRepairs :
                           history[r] = {} /\ Pruned(r) = {} /\ InFlight(r) = {}
    BY DEF EngineInit, Holders, Pruned, InFlight, Admitted
  <2>2. IsFiniteSet({}) /\ Cardinality({}) = 0
    BY FS_EmptySet
  <2>3. SemaphoreBounded /\ HistoryFinite
    <3>1. Cardinality(Holders) = 0
      BY <2>1, <2>2
    <3>2. \A r \in DOMAIN maxRepairs : IsFiniteSet(history[r])
      BY <2>1, <2>2
    <3> QED BY <3>1, <3>2, EngineConstants DEF SemaphoreBounded, HistoryFinite
  <2>4. \A r \in DOMAIN maxRepairs : 0 + 0 <= maxRepairs[r] + SemCap - 1
    BY LimitType, EngineConstants
  <2> QED BY <2>1, <2>2, <2>3, <2>4 DEF RateInv, RateLimitOvershoot
<1>2. RateInv => RateLimitOvershoot
  BY DEF RateInv
<1> QED BY <1>1, <1>2, RateStep, EngineTypeCorrect, PTL DEF EngineSpec
=============================================================================
