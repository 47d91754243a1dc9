------------------------- MODULE RepairActionsProofs -------------------------
(***************************************************************************)
(* Theorems about the built-in actions inside recipes, for every set of    *)
(* recipes and of goroutines, and any number of changes by others:         *)
(*   - they are one way to execute a step, so what is proved of recipes    *)
(*     holds of them;                                                      *)
(*   - the two that read an object and write it back never overwrite a     *)
(*     change they have not seen;                                          *)
(*   - rollback_deployment goes back to the second-highest revision or     *)
(*     nowhere, and one rollback leaves the faulty template;               *)
(*   - the rotation loses entries of the log in two ways only, as long as  *)
(*     it does not fall back to truncation;                                *)
(*   - a step that reports success did what it is for.                     *)
(***************************************************************************)
EXTENDS RepairActions, RecipeExecutionProofs, FiniteSetTheorems, SequenceTheorems,
        WellFoundedInduction

\* What a goroutine does inside and outside Execute is a step of its recipe, or
\* leaves the recipe alone.
LEMMA ExecuteIsRecipeStep ==
    ASSUME NEW r \in Runners, Execute(r)
    PROVE  AttemptSucceeds(r) \/ AttemptFails(r) \/ UNCHANGED vars
<1> USE DEF ReturnNil, ReturnError, GoOn
<1>1. CASE OtherAction(r) \/ RejectParams(r) \/ Wait(r) \/ Healthcheck(r)
  BY <1>1 DEF OtherAction, RejectParams, Wait, Healthcheck
<1>2. CASE RestartContainer(r) \/ StartContainer(r) \/ StopContainer(r)
             \/ RestartService(r) \/ StartService(r) \/ StopService(r) \/ VerifyUnit(r)
  <2>1. ASSUME NEW possible, NEW changed, CallUnit(r, possible, changed)
        PROVE  AttemptFails(r) \/ UNCHANGED vars
    BY <2>1 DEF CallUnit
  <2> QED BY <1>2, <2>1 DEF RestartContainer, StartContainer, StopContainer, RestartService,
                            StartService, StopService, VerifyUnit
<1>3. CASE BeginWalk(r) \/ WalkFile(r) \/ EndWalk(r)
  BY <1>3 DEF BeginWalk, WalkFile, EndWalk
<1>4. CASE RotateWithLogrotate(r) \/ RotateBySafeTruncation(r) \/ TruncateFile(r)
             \/ CreateLog(r)
  BY <1>4 DEF RotateWithLogrotate, RotateBySafeTruncation, TruncateFile, CreateLog
<1>5. CASE ListReplicaSets(r) \/ PatchTemplate(r)
  BY <1>5 DEF ListReplicaSets, PatchTemplate
<1>6. CASE ReadObject(r) \/ UpdateObject(r) \/ DeletePod(r) \/ CallWebhook(r)
  BY <1>6 DEF ReadObject, UpdateObject, DeletePod, CallWebhook
<1> QED BY <1>1, <1>2, <1>3, <1>4, <1>5, <1>6 DEF Execute

LEMMA ActionsStep == [ActionsNext]_allVars => [Next]_vars
<1> SUFFICES ASSUME [ActionsNext]_allVars PROVE [Next]_vars
  OBVIOUS
<1>1. ASSUME NEW r \in Runners, RecipeStep(r) PROVE [Next]_vars
  BY <1>1 DEF RecipeStep, Runner, Next
<1>2. ASSUME NEW r \in Runners, Execute(r) PROVE [Next]_vars
  BY <1>2, ExecuteIsRecipeStep DEF Runner, Next
<1>3. CASE Tick
  BY <1>3 DEF Next
<1>4. CASE UnitChanges \/ AppLogs \/ TempChanges \/ UserDeploys \/ Rollout \/ ObjectChanges
  BY <1>4 DEF UnitChanges, AppLogs, TempChanges, UserDeploys, Rollout, ObjectChanges
<1>5. CASE UNCHANGED allVars
  BY <1>5 DEF allVars
<1> QED BY <1>1, <1>2, <1>3, <1>4, <1>5 DEF ActionsNext

\* Recipes of built-in actions are recipes: every behaviour of the composition is
\* one of RecipeExecution, so the theorems about recipes hold of it.
THEOREM ActionsImplementRecipes == ActionsSpec => Spec
<1>1. ActionsInit => Init
  BY DEF ActionsInit
<1> QED BY <1>1, ActionsStep, PTL DEF ActionsSpec, Spec

\* An on-failure step of built-in actions follows a step that failed.
THEOREM OnFailureActionsFollowFailures == ActionsSpec => []OnFailureStepFollowsFailure
BY ActionsImplementRecipes, OnFailureStepsFollowFailures, PTL

\* Recipes of built-in actions advance.
THEOREM ActionsAdvance == ActionsSpec => RecipeAdvances
BY ActionsImplementRecipes, RecipesAdvance, PTL

-----------------------------------------------------------------------------
(* Read, then write back *)

Objects == {"scale", "swarm"}
Target(r) == ObjectOf[Current(r).action]

\* A goroutine that has read an object holds a version the object has had, and a
\* smaller one than it has now if somebody changed it since.
VersionHeld(r) ==
    pc[r] = "read" =>
      /\ at[r] = "running" /\ Current(r).action \in DOMAIN ObjectOf
      /\ local[r].version \in Nat /\ local[r].version <= object[Target(r)]
      /\ Target(r) \in unseen => local[r].version < object[Target(r)]

\* The inductive invariant, beside TypeOK.
VersionInv ==
    /\ object \in [Objects -> Nat] /\ events \in Nat
    /\ DOMAIN pc = Runners /\ DOMAIN local = Runners
    /\ \A r \in Runners :
         /\ pc[r] = "start" => local[r] = NoLocal
         /\ pc[r] # "start" => at[r] = "running" /\ Current(r).action \in BuiltIn
         /\ VersionHeld(r)

\* Only goroutine r moves.
OnlyMoves(r) ==
    /\ recipe' = recipe
    /\ DOMAIN pc' = Runners /\ DOMAIN local' = Runners
    /\ \A q \in Runners \ {r} : /\ at'[q] = at[q] /\ results'[q] = results[q]
                                /\ pc'[q] = pc[q] /\ local'[q] = local[q]

\* Goroutine r ends its Execute, or gets to a place where it holds no version.
HoldsNothing(r) ==
    \/ pc'[r] = "start" /\ local'[r] = NoLocal
    \/ /\ pc'[r] \in {"called", "renamed", "listed", "walking"}
       /\ at'[r] = "running" /\ results'[r] = results[r]
       /\ Current(r).action \in BuiltIn

LEMMA ReturnMoves ==
    ASSUME TypeOK, VersionInv, NEW r \in Runners, ReturnNil(r) \/ ReturnError(r)
    PROVE  OnlyMoves(r) /\ HoldsNothing(r)
<1>1. \/ StepDone(r, "success") /\ UNCHANGED recipe
      \/ at' = [at EXCEPT ![r] = "trying"] /\ UNCHANGED <<recipe, results>>
  BY DEF ReturnNil, ReturnError, AttemptSucceeds, AttemptFails
<1>2. \A q \in Runners \ {r} : at'[q] = at[q] /\ results'[q] = results[q]
  BY <1>1 DEF StepDone, TypeOK
<1>3. pc' = [pc EXCEPT ![r] = "start"] /\ local' = [local EXCEPT ![r] = NoLocal]
  BY DEF ReturnNil, ReturnError, Return
<1> QED BY <1>1, <1>2, <1>3 DEF OnlyMoves, HoldsNothing, VersionInv

LEMMA GoOnMoves ==
    ASSUME TypeOK, VersionInv, NEW r \in Runners, NEW label, GoOn(r, label),
           UNCHANGED local \/ \E x : local' = [local EXCEPT ![r] = x]
    PROVE  OnlyMoves(r) /\ pc'[r] = label /\ at'[r] = at[r] /\ results'[r] = results[r]
BY DEF GoOn, vars, OnlyMoves, VersionInv

\* Most of what Execute does holds no version.
LEMMA QuietExecute ==
    ASSUME TypeOK, VersionInv, NEW r \in Runners, Execute(r),
           ~ReadObject(r), ~UpdateObject(r)
    PROVE  OnlyMoves(r) /\ HoldsNothing(r) /\ UNCHANGED <<object, unseen, events>>
<1> DEFINE Quiet == OnlyMoves(r) /\ HoldsNothing(r)
<1> USE DEF world, objects
<1>1. ReturnNil(r) \/ ReturnError(r) => Quiet
  BY ReturnMoves
<1>2. ASSUME NEW label \in {"called", "renamed", "listed", "walking"},
             at[r] = "running", Current(r).action \in BuiltIn, GoOn(r, label),
             UNCHANGED local \/ \E x : local' = [local EXCEPT ![r] = x]
      PROVE  Quiet
  BY <1>2, GoOnMoves DEF HoldsNothing
<1> HIDE DEF Quiet
<1>3. CASE RejectParams(r) \/ Wait(r) \/ Healthcheck(r)
  <2>1. Quiet BY <1>3, <1>1 DEF RejectParams, Wait, Healthcheck
  <2> QED BY <1>3, <2>1 DEF RejectParams, Wait, Healthcheck, Quiet
<1>4. CASE OtherAction(r)
  <2>1. pc[r] = "start" /\ local[r] = NoLocal /\ UNCHANGED <<pc, local, world>>
    BY <1>4 DEF OtherAction, VersionInv
  <2>2. \/ StepDone(r, "success") /\ UNCHANGED recipe
        \/ at' = [at EXCEPT ![r] = "trying"] /\ UNCHANGED <<recipe, results>>
    BY <1>4 DEF OtherAction, AttemptSucceeds, AttemptFails
  <2>3. \A q \in Runners \ {r} : at'[q] = at[q] /\ results'[q] = results[q]
    BY <2>2 DEF StepDone, TypeOK
  <2> QED BY <2>1, <2>2, <2>3 DEF OnlyMoves, HoldsNothing, VersionInv
<1>5. CASE RestartContainer(r) \/ StartContainer(r) \/ StopContainer(r)
             \/ RestartService(r) \/ StartService(r) \/ StopService(r)
  <2>1. ASSUME NEW possible, NEW changed, at[r] = "running", Current(r).action \in BuiltIn,
             CallUnit(r, possible, changed)
        PROVE  Quiet /\ UNCHANGED <<object, unseen, events>>
    <3>1. CASE ReturnError(r)
      BY <2>1, <3>1, <1>1 DEF CallUnit
    <3>2. CASE GoOn(r, "called") /\ UNCHANGED local
      BY <2>1, <3>2, <1>2 DEF CallUnit
    <3> QED BY <2>1, <3>1, <3>2 DEF CallUnit
  <2>2. /\ at[r] = "running" /\ Current(r).action \in BuiltIn
        /\ \E possible, changed : CallUnit(r, possible, changed)
    BY <1>5 DEF RestartContainer, StartContainer, StopContainer, RestartService,
                StartService, StopService, Given, Executing, BuiltIn, Requiring
  <2> QED BY <2>1, <2>2 DEF Quiet
<1>6. CASE VerifyUnit(r)
  <2>1. Quiet BY <1>6, <1>1 DEF VerifyUnit
  <2> QED BY <1>6, <2>1 DEF VerifyUnit, Quiet
<1>7. CASE BeginWalk(r) \/ EndWalk(r)
  <2>1. Quiet BY <1>7, <1>1, <1>2 DEF BeginWalk, EndWalk, Given, Executing, BuiltIn, Requiring
  <2> QED BY <1>7, <2>1 DEF BeginWalk, EndWalk, Quiet
<1>8. CASE WalkFile(r)
  <2>1. /\ at[r] = "running" /\ pc[r] = "walking" /\ UNCHANGED <<vars, pc>>
        /\ Current(r).action \in BuiltIn
        /\ \E x : local' = [local EXCEPT ![r] = x]
    BY <1>8 DEF WalkFile, Executing, BuiltIn, Requiring
  <2>2. OnlyMoves(r) /\ HoldsNothing(r)
    BY <2>1 DEF vars, OnlyMoves, HoldsNothing, VersionInv
  <2> QED BY <1>8, <2>2 DEF WalkFile
<1>9. CASE RotateWithLogrotate(r) \/ RotateBySafeTruncation(r) \/ TruncateFile(r)
             \/ CreateLog(r)
  <2> USE DEF RotateWithLogrotate, RotateBySafeTruncation, TruncateFile, CreateLog
  <2>1. \/ ReturnNil(r) \/ ReturnError(r)
        \/ /\ at[r] = "running" /\ Current(r).action \in BuiltIn /\ GoOn(r, "renamed")
           /\ \E x : local' = [local EXCEPT ![r] = x]
    BY <1>9 DEF Given, Executing, BuiltIn, Requiring
  <2>2. Quiet BY <2>1, <1>1, <1>2
  <2> QED BY <1>9, <2>2 DEF Quiet
<1>10. CASE ListReplicaSets(r) \/ PatchTemplate(r)
  <2> USE DEF ListReplicaSets, PatchTemplate
  <2>1. \/ ReturnNil(r) \/ ReturnError(r)
        \/ /\ at[r] = "running" /\ Current(r).action \in BuiltIn /\ GoOn(r, "listed")
           /\ \E x : local' = [local EXCEPT ![r] = x]
    BY <1>10 DEF Given, Executing, BuiltIn, Requiring
  <2>2. Quiet BY <2>1, <1>1, <1>2
  <2> QED BY <1>10, <2>2 DEF Quiet
<1>11. CASE DeletePod(r) \/ CallWebhook(r)
  <2>1. Quiet BY <1>11, <1>1 DEF DeletePod, CallWebhook
  <2> QED BY <1>11, <2>1 DEF DeletePod, CallWebhook, Quiet
<1> QED BY <1>3, <1>4, <1>5, <1>6, <1>7, <1>8, <1>9, <1>10, <1>11 DEF Execute

\* A goroutine that holds no version keeps the invariant.
LEMMA QuietKeeps ==
    ASSUME VersionInv, NEW r \in Runners, OnlyMoves(r), HoldsNothing(r),
           UNCHANGED <<object, unseen, events>>
    PROVE  VersionInv'
BY DEF VersionInv, VersionHeld, OnlyMoves, HoldsNothing, Current, Target

LEMMA ReadObjectKeeps ==
    ASSUME TypeOK, VersionInv, NEW r \in Runners, ReadObject(r)
    PROVE  VersionInv'
<1> USE DEF objects
<1>1. CASE ReturnError(r) /\ UNCHANGED unseen
  BY <1>1, ReturnMoves, QuietKeeps DEF ReadObject
<1>2. CASE ~(ReturnError(r) /\ UNCHANGED unseen)
  <2> DEFINE o == Target(r)
  <2>1. /\ at[r] = "running" /\ pc[r] = "start" /\ Current(r).action \in DOMAIN ObjectOf
        /\ local' = [local EXCEPT ![r].version = object[o]]
        /\ unseen' = unseen \ {o} /\ GoOn(r, "read")
        /\ UNCHANGED <<object, events>>
    BY <1>2 DEF ReadObject, Given, Executing, Target
  <2>2. OnlyMoves(r) /\ pc'[r] = "read" /\ at'[r] = at[r] /\ results'[r] = results[r]
    BY <2>1, GoOnMoves
  <2>3. local[r] = NoLocal
    BY <2>1 DEF VersionInv
  <2>4. local'[r] = [NoLocal EXCEPT !.version = object[o]]
    BY <2>1, <2>3 DEF VersionInv
  <2>5. local'[r].version = object[o]
    BY <2>4 DEF NoLocal
  <2>6. Current(r)' = Current(r) /\ Target(r)' = o
    BY <2>2 DEF OnlyMoves, Current, Target
  <2>7. o \in Objects /\ object[o] \in Nat /\ Current(r).action \in BuiltIn
    BY <2>1 DEF VersionInv, Target, ObjectOf, Objects, BuiltIn, Requiring
  <2>8. VersionHeld(r)'
    BY <2>1, <2>2, <2>5, <2>6, <2>7 DEF VersionHeld
  <2>9. \A q \in Runners \ {r} : VersionHeld(q)'
    BY <2>1, <2>2 DEF VersionInv, VersionHeld, OnlyMoves, Current, Target
  <2>10. \A q \in Runners \ {r} :
            /\ pc'[q] = "start" => local'[q] = NoLocal
            /\ pc'[q] # "start" => at'[q] = "running" /\ Current(q).action' \in BuiltIn
    BY <2>2 DEF VersionInv, OnlyMoves, Current
  <2> QED BY <2>1, <2>2, <2>6, <2>7, <2>8, <2>9, <2>10 DEF VersionInv, OnlyMoves
<1> QED BY <1>1, <1>2

LEMMA UpdateObjectKeeps ==
    ASSUME TypeOK, VersionInv, NEW r \in Runners, UpdateObject(r)
    PROVE  VersionInv'
<1> DEFINE o == Target(r)
<1>1. OnlyMoves(r) /\ HoldsNothing(r) /\ UNCHANGED <<unseen, events>>
  BY ReturnMoves DEF UpdateObject
<1>2. CASE UNCHANGED object
  BY <1>1, <1>2, QuietKeeps
<1>3. CASE object' = [object EXCEPT ![o] = @ + 1]
  <2>1. object' \in [Objects -> Nat] /\ \A x \in Objects : object'[x] >= object[x]
    <3>1. object \in [Objects -> Nat]
      BY DEF VersionInv
    <3>2. o \in Objects
      BY DEF UpdateObject, VersionInv, VersionHeld, Target, ObjectOf, Objects
    <3> HIDE DEF o
    <3>3. \A x \in Objects :
             object[x] \in Nat /\ object'[x] = IF x = o THEN object[x] + 1 ELSE object[x]
      BY <1>3, <3>1, <3>2
    <3>4. object' \in [Objects -> Nat]
      BY <1>3, <3>1, <3>2, <3>3
    <3> QED BY <3>3, <3>4
  <2>2. \A q \in Runners : Current(q).action \in DOMAIN ObjectOf => Target(q) \in Objects
    BY DEF Target, ObjectOf, Objects
  <2>3. ASSUME NEW q \in Runners \ {r} PROVE VersionHeld(q)'
    <3>1. Current(q)' = Current(q) /\ Target(q)' = Target(q)
      BY <1>1 DEF OnlyMoves, Current, Target
    <3>2. VersionHeld(q) /\ object \in [Objects -> Nat]
      BY DEF VersionInv
    <3> QED BY <1>1, <2>1, <2>2, <3>1, <3>2 DEF VersionHeld, OnlyMoves
  <2>4. VersionHeld(r)'
    BY <1>1 DEF HoldsNothing, VersionHeld
  <2>5. \A q \in Runners :
            /\ pc'[q] = "start" => local'[q] = NoLocal
            /\ pc'[q] # "start" => at'[q] = "running" /\ Current(q).action' \in BuiltIn
    BY <1>1 DEF VersionInv, OnlyMoves, HoldsNothing, Current
  <2> QED BY <1>1, <2>1, <2>3, <2>4, <2>5 DEF VersionInv, OnlyMoves
<1> QED BY <1>2, <1>3 DEF UpdateObject, Target

\* Outside Execute, a goroutine has its place at the start and holds nothing.
LEMMA RecipeStepKeeps ==
    ASSUME TypeOK, VersionInv, NEW r \in Runners, RecipeStep(r)
    PROVE  VersionInv'
<1>1. at[r] # "running" /\ UNCHANGED <<recipe, pc, local, object, unseen, events>>
  BY DEF RecipeStep, SkipStep, BlockStep, AdmitStep, BeginAttempt, GiveUp, FinishRecipe,
         StepDone, world, objects
<1>2. \A q \in Runners \ {r} : at'[q] = at[q] /\ results'[q] = results[q]
  BY DEF RecipeStep, SkipStep, BlockStep, AdmitStep, BeginAttempt, GiveUp, FinishRecipe,
         StepDone, TypeOK
<1>3. OnlyMoves(r) /\ HoldsNothing(r)
  BY <1>1, <1>2 DEF OnlyMoves, HoldsNothing, VersionInv
<1> QED BY <1>1, <1>3, QuietKeeps

\* Nobody moves: the world may change an object, and then its version grows.
LEMMA WorldKeeps ==
    ASSUME VersionInv, UNCHANGED <<recipe, at, results, pc, local>>, events' \in Nat,
           \/ UNCHANGED <<object, unseen>>
           \/ \E o \in Objects : /\ object' = [object EXCEPT ![o] = @ + 1]
                                 /\ unseen' = unseen \cup {o}
    PROVE  VersionInv'
<1>1. CASE UNCHANGED <<object, unseen>>
  BY <1>1 DEF VersionInv, VersionHeld, Current, Target
<1>2. ASSUME NEW o \in Objects, object' = [object EXCEPT ![o] = @ + 1],
             unseen' = unseen \cup {o}
      PROVE  VersionInv'
  <2>1. object' \in [Objects -> Nat]
        /\ \A x \in Objects : object'[x] = IF x = o THEN object[x] + 1 ELSE object[x]
    BY <1>2 DEF VersionInv
  <2>2. \A q \in Runners : Current(q).action \in DOMAIN ObjectOf => Target(q) \in Objects
    BY DEF Target, ObjectOf, Objects
  <2>3. ASSUME NEW q \in Runners PROVE VersionHeld(q)'
    <3>1. /\ Current(q)' = Current(q) /\ Target(q)' = Target(q)
          /\ pc'[q] = pc[q] /\ at'[q] = at[q] /\ local'[q] = local[q]
      BY DEF Current, Target
    <3>2. VersionHeld(q)
      BY DEF VersionInv
    <3>3. SUFFICES ASSUME pc[q] = "read"
                   PROVE  /\ local[q].version <= object'[Target(q)]
                          /\ Target(q) \in unseen' => local[q].version < object'[Target(q)]
      BY <3>1, <3>2 DEF VersionHeld
    <3>4. Target(q) \in Objects /\ object[Target(q)] \in Nat /\ local[q].version \in Nat
      BY <2>2, <3>2, <3>3 DEF VersionHeld, VersionInv
    <3> QED BY <1>2, <2>1, <3>2, <3>3, <3>4 DEF VersionHeld
  <2> QED BY <2>1, <2>3 DEF VersionInv, Current
<1> QED BY <1>1, <1>2

LEMMA VersionStep == TypeOK /\ VersionInv /\ [ActionsNext]_allVars => VersionInv'
<1> SUFFICES ASSUME TypeOK, VersionInv, [ActionsNext]_allVars PROVE VersionInv'
  OBVIOUS
<1> USE DEF world, objects, vars
<1>1. ASSUME NEW r \in Runners, RecipeStep(r) PROVE VersionInv'
  BY <1>1, RecipeStepKeeps
<1>2. ASSUME NEW r \in Runners, Execute(r) PROVE VersionInv'
  BY <1>2, QuietExecute, QuietKeeps, ReadObjectKeeps, UpdateObjectKeeps
<1>3. events \in Nat
  BY DEF VersionInv
<1>4. CASE Tick /\ UNCHANGED <<pc, local, world>>
  BY <1>3, <1>4, WorldKeeps DEF Tick
<1>5. CASE UnitChanges \/ AppLogs \/ TempChanges \/ UserDeploys \/ Rollout
  BY <1>3, <1>5, WorldKeeps
     DEF UnitChanges, AppLogs, TempChanges, UserDeploys, Rollout, Event
<1>6. CASE ObjectChanges
  <2>1. PICK a \in DOMAIN ObjectOf :
            /\ object' = [object EXCEPT ![ObjectOf[a]] = @ + 1]
            /\ unseen' = unseen \cup {ObjectOf[a]}
    BY <1>6 DEF ObjectChanges
  <2>2. ObjectOf[a] \in Objects
    BY DEF ObjectOf, Objects
  <2>3. UNCHANGED <<recipe, at, results, pc, local>> /\ events' \in Nat
    BY <1>3, <1>6 DEF ObjectChanges, Event
  <2> QED BY <2>1, <2>2, <2>3, WorldKeeps
<1>7. CASE UNCHANGED allVars
  BY <1>3, <1>7, WorldKeeps DEF allVars
<1> QED BY <1>1, <1>2, <1>4, <1>5, <1>6, <1>7 DEF ActionsNext

LEMMA VersionInit == ActionsInit => VersionInv
BY DEF ActionsInit, VersionInv, VersionHeld, Objects, Init

\* What a step of the composition may do to an object.
LEMMA NoBlindStep ==
    ASSUME TypeOK, VersionInv, [ActionsNext]_allVars, NEW o \in DOMAIN object,
           object'[o] # object[o], events' = events
    PROVE  o \notin unseen
<1> USE DEF world, objects
<1>1. ASSUME NEW r \in Runners, UpdateObject(r) PROVE o \notin unseen
  <2>1. /\ pc[r] = "read" /\ o = Target(r)
        /\ object[Target(r)] = local[r].version
    BY <1>1 DEF UpdateObject, Target
  <2>2. Target(r) \in unseen => local[r].version < object[Target(r)]
    BY <2>1 DEF VersionInv, VersionHeld
  <2>3. local[r].version \in Nat
    BY <2>1 DEF VersionInv, VersionHeld
  <2> QED BY <2>1, <2>2, <2>3
<1>2. ASSUME NEW r \in Runners, Execute(r), ~UpdateObject(r) PROVE FALSE
  BY <1>2, QuietExecute DEF ReadObject
<1>3. ASSUME NEW r \in Runners, RecipeStep(r) PROVE FALSE
  BY <1>3 DEF RecipeStep
<1>4. CASE Tick /\ UNCHANGED <<pc, local, world>>
  BY <1>4
<1>5. CASE UnitChanges \/ AppLogs \/ TempChanges \/ UserDeploys \/ Rollout
  BY <1>5 DEF UnitChanges, AppLogs, TempChanges, UserDeploys, Rollout
<1>6. CASE ObjectChanges
  BY <1>6 DEF ObjectChanges, Event, VersionInv
<1>7. CASE UNCHANGED allVars
  BY <1>7 DEF allVars
<1> QED BY <1>1, <1>2, <1>3, <1>4, <1>5, <1>6, <1>7 DEF ActionsNext

\* scale_replicas and update_swarm_service never overwrite a change they have not
\* seen, with any number of goroutines, of retries and of changes by others.
THEOREM UpdatesAreNotBlind == ActionsSpec => NoBlindUpdate
<1> DEFINE NotBlind == \A o \in DOMAIN object :
                      object'[o] # object[o] /\ events' = events => o \notin unseen
<1>1. TypeOK /\ VersionInv /\ [ActionsNext]_allVars => [NotBlind]_allVars
  BY NoBlindStep
<1>2. ActionsSpec => []TypeOK
  BY ActionsImplementRecipes, RecipeInvariant, PTL DEF RecipeInv
<1> QED BY <1>1, <1>2, VersionInit, VersionStep, PTL DEF ActionsSpec, NoBlindUpdate

-----------------------------------------------------------------------------
(* One pass over a list *)

\* Induction up to n, stated of a set: the library's induction theorems take an
\* operator.  The initial segments that end outside T are finite, and the strict
\* subset relation is well-founded on them.
LEMMA BoundedInduction ==
    ASSUME NEW n \in Nat, NEW T, 0 \in T, \A k \in 0..(n - 1) : k \in T => k + 1 \in T
    PROVE  0..n \subseteq T
<1> DEFINE Missing == (0..n) \ T
           Segments == {0..k : k \in Missing}
<1> SUFFICES ASSUME Missing # {} PROVE FALSE
  OBVIOUS
<1>1. IsFiniteSet(0..n)
  BY FS_Interval
<1>2. Segments \subseteq FiniteSubsetsOf(0..n) /\ Segments # {}
  <2>1. \A k \in Missing : 0..k \in SUBSET (0..n)
    OBVIOUS
  <2>2. FiniteSubsetsOf(0..n) = SUBSET (0..n)
    BY <1>1, FS_FiniteSubsetsOfFinite
  <2>3. Segments # {}
    OBVIOUS
  <2> HIDE DEF Missing
  <2>4. Segments \subseteq SUBSET (0..n)
    BY <2>1
  <2> QED BY <2>2, <2>3, <2>4
<1>3. IsWellFoundedOn(StrictSubsetOrdering(0..n), FiniteSubsetsOf(0..n))
  BY FS_StrictSubsetOrderingWellFounded
<1>4. \E A \in Segments : \A B \in Segments : <<B, A>> \notin StrictSubsetOrdering(0..n)
  <2> HIDE DEF Segments
  <2> QED BY <1>2, <1>3, WFMin
<1>5. PICK k \in Missing : \A B \in Segments : <<B, 0..k>> \notin StrictSubsetOrdering(0..n)
  BY <1>4
<1>6. k \in 1..n /\ k - 1 \in 0..(n - 1)
  OBVIOUS
<1>7. CASE k - 1 \in T
  <2>1. (k - 1) + 1 \in T
    BY <1>6, <1>7
  <2> QED BY <1>6, <2>1
<1>8. CASE k - 1 \notin T
  <2>1. k - 1 \in Missing
    BY <1>6, <1>8
  <2>2. /\ 0..(k - 1) \in SUBSET (0..n) /\ 0..k \in SUBSET (0..n)
        /\ 0..(k - 1) \subseteq 0..k /\ 0..(k - 1) # 0..k
    <3>1. k \in 0..k /\ k \notin 0..(k - 1)
      BY <1>6
    <3> QED BY <1>6, <3>1
  <2>3. <<0..(k - 1), 0..k>> \in StrictSubsetOrdering(0..n)
    BY <2>2 DEF StrictSubsetOrdering
  <2>4. 0..(k - 1) \in Segments
    BY <2>1
  <2> QED BY <1>5, <2>3, <2>4
<1> QED BY <1>7, <1>8

Start == [max |-> 0, prev |-> 0, found |-> NoTemplate]

PassesTo(list, g, k) ==
    g = [n \in 0..k |-> IF n = 0 THEN Start ELSE Pass(g[n - 1], list[n])]

\* The pass over a list is what its recursive definition says.
LEMMA PassedUnfolds ==
    ASSUME NEW list, Len(list) \in Nat
    PROVE  /\ Passed(list)[0] = Start
           /\ \A n \in 1..Len(list) : Passed(list)[n] = Pass(Passed(list)[n - 1], list[n])
<1> DEFINE N == Len(list)
           T == {k \in 0..N : \E g : PassesTo(list, g, k)}
<1>1. 0 \in T
  <2>1. PassesTo(list, [n \in 0..0 |-> Start], 0)
    BY DEF PassesTo
  <2> QED BY <2>1
<1>2. ASSUME NEW k \in 0..(N - 1), k \in T
      PROVE  k + 1 \in T
  <2>1. PICK g : PassesTo(list, g, k)
    BY <1>2
  <2> DEFINE h == [n \in 0..(k + 1) |-> IF n <= k THEN g[n] ELSE Pass(g[k], list[k + 1])]
  <2>2. ASSUME NEW n \in 0..(k + 1)
        PROVE  h[n] = IF n = 0 THEN Start ELSE Pass(h[n - 1], list[n])
    <3>1. CASE n <= k
      <4>1. g[n] = IF n = 0 THEN Start ELSE Pass(g[n - 1], list[n])
        <5>1. n \in 0..k
          BY <3>1
        <5> QED BY <2>1, <5>1 DEF PassesTo
      <4>2. n # 0 => n - 1 \in 0..(k + 1) /\ n - 1 <= k
        BY <3>1
      <4> QED BY <3>1, <4>1, <4>2
    <3>2. CASE n = k + 1
      <4>1. k \in 0..(k + 1) /\ n - 1 = k /\ n # 0 /\ ~(n <= k)
        BY <3>2
      <4> QED BY <3>2, <4>1
    <3> QED BY <3>1, <3>2
  <2>3. PassesTo(list, h, k + 1)
    <3>1. h = [n \in 0..(k + 1) |-> h[n]]
      OBVIOUS
    <3> HIDE DEF h
    <3> QED BY <2>2, <3>1 DEF PassesTo
  <2>4. k + 1 \in 0..N
    OBVIOUS
  <2> QED BY <2>3, <2>4
<1>3. N \in T
  <2> HIDE DEF T
  <2>1. 0..N \subseteq T
    BY <1>1, <1>2, BoundedInduction
  <2> QED BY <2>1
<1>4. PICK g : PassesTo(list, g, N)
  BY <1>3
<1>5. PassesTo(list, Passed(list), N)
  BY <1>4 DEF PassesTo, Passed, Start
<1> QED
  <2>1. 0 \in 0..N /\ \A n \in 1..N : n \in 0..N /\ n # 0
    OBVIOUS
  <2> DEFINE P == Passed(list)
  <2> HIDE DEF P
  <2>2. P = [n \in 0..N |-> IF n = 0 THEN Start ELSE Pass(P[n - 1], list[n])]
    BY <1>5 DEF PassesTo, P
  <2>3. P[0] = Start /\ \A n \in 1..N : P[n] = Pass(P[n - 1], list[n])
    BY <2>1, <2>2
  <2> QED BY <2>3 DEF P

\* After some of a list, of which the replica sets at S were the deployment's: the
\* highest revision among them is known, and the one below it with its template,
\* unless it was listed before.
KnowsTop(list, acc, S, t) ==
    /\ t \in S /\ acc.max = list[t].revision
    /\ \A j \in S \ {t} : list[j].revision < list[t].revision

KnowsSecond(list, acc, S, t, s) ==
    /\ s \in S \ {t} /\ acc.prev = list[s].revision
    /\ \A j \in S \ {t, s} : list[j].revision < list[s].revision
    /\ acc.found = IF t < s THEN list[s].template ELSE NoTemplate

Knows(list, acc, S) ==
    \/ S = {} /\ acc = Start
    \/ \E t \in S :
         /\ KnowsTop(list, acc, S, t)
         /\ \/ S = {t} /\ acc.prev = 0 /\ acc.found = NoTemplate
            \/ \E s \in S \ {t} : KnowsSecond(list, acc, S, t, s)

Acc == [max : Nat, prev : Nat, found : Templates \cup {NoTemplate}]

\* One more replica set of the deployment.
LEMMA PassOwned ==
    ASSUME NEW list, NEW n \in Nat, NEW S \in SUBSET (1..n), NEW i \in Nat, i > n,
           \A j \in S \cup {i} : list[j] \in ReplicaSets,
           \A j \in S : list[j].revision # list[i].revision,
           NEW acc \in Acc, Knows(list, acc, S)
    PROVE  /\ Match(Higher(acc, list[i]), list[i]) \in Acc
           /\ Knows(list, Match(Higher(acc, list[i]), list[i]), S \cup {i})
<1> DEFINE rs == list[i]
           mid == Higher(acc, rs)
           new == Match(mid, rs)
           U == S \cup {i}
<1>1. /\ \A j \in U : list[j].revision \in Nat \ {0} /\ list[j].template \in Templates
      /\ i \notin S /\ \A j \in S : j \in Nat /\ j < i
      /\ rs.revision \in Nat \ {0} /\ rs.template \in Templates
  <2>1. ASSUME NEW j \in U
        PROVE  list[j].revision \in Nat \ {0} /\ list[j].template \in Templates
    <3>1. list[j] \in ReplicaSets
      OBVIOUS
    <3> QED BY <3>1 DEF ReplicaSets
  <2>2. i \notin S /\ \A j \in S : j \in Nat /\ j < i
    OBVIOUS
  <2>3. i \in U
    OBVIOUS
  <2> HIDE DEF U
  <2> QED BY <2>1, <2>2, <2>3
<1>2. acc.max \in Nat /\ acc.prev \in Nat /\ acc.found \in Templates \cup {NoTemplate}
  BY DEF Acc
<1>3. acc = [max |-> acc.max, prev |-> acc.prev, found |-> acc.found]
  BY DEF Acc
<1>4. \A t \in S : KnowsTop(list, acc, S, t) => acc.max > 0
  BY <1>1 DEF KnowsTop
<1>5. CASE rs.revision > acc.max
  <2>1. mid = [max |-> rs.revision, prev |-> acc.max, found |-> NoTemplate]
    BY <1>5 DEF Higher
  <2>2. mid.max = rs.revision /\ mid.prev = acc.max /\ mid.found = NoTemplate
    BY <2>1
  <2>3. new = mid
    <3> HIDE DEF mid
    <3> QED BY <1>1, <1>2, <1>5, <2>2 DEF Match
  <2>4. new \in Acc
    BY <1>1, <1>2, <2>1, <2>3 DEF Acc
  <2> HIDE DEF mid, new
  <2>5. KnowsTop(list, new, U, i)
    <3>1. CASE S = {}
      BY <2>2, <2>3, <3>1 DEF KnowsTop
    <3>2. ASSUME NEW t \in S, KnowsTop(list, acc, S, t)
          PROVE  KnowsTop(list, new, U, i)
      BY <1>1, <1>5, <2>2, <2>3, <3>2 DEF KnowsTop
    <3> QED BY <3>1, <3>2 DEF Knows
  <2>6. CASE S = {}
    <3>1. acc = Start
      BY <2>6 DEF Knows
    <3>2. U = {i} /\ new.prev = 0 /\ new.found = NoTemplate
      BY <2>2, <2>3, <2>6, <3>1 DEF Start
    <3> QED BY <2>4, <2>5, <3>2 DEF Knows, new, mid
  <2>7. ASSUME NEW t \in S, KnowsTop(list, acc, S, t)
        PROVE  Knows(list, new, U)
    <3>1. KnowsSecond(list, new, U, i, t)
      <4>1. t \in U \ {i} /\ ~(i < t)
        BY <1>1
      <4>2. new.prev = list[t].revision /\ new.found = NoTemplate
        BY <2>2, <2>3, <2>7 DEF KnowsTop
      <4>3. \A j \in U \ {i, t} : list[j].revision < list[t].revision
        BY <2>7 DEF KnowsTop
      <4> QED BY <4>1, <4>2, <4>3 DEF KnowsSecond
    <3> QED BY <1>1, <2>5, <3>1 DEF Knows
  <2> QED BY <2>4, <2>6, <2>7 DEF Knows, new, mid
<1>6. CASE ~(rs.revision > acc.max)
  <2>1. mid = acc
    BY <1>6 DEF Higher
  <2>2. PICK t \in S : /\ KnowsTop(list, acc, S, t)
                       /\ \/ S = {t} /\ acc.prev = 0 /\ acc.found = NoTemplate
                          \/ \E s \in S \ {t} : KnowsSecond(list, acc, S, t, s)
    <3>1. ~(acc = Start)
      BY <1>1, <1>6 DEF Start
    <3> QED BY <3>1 DEF Knows
  <2>3. rs.revision < acc.max /\ acc.max = list[t].revision
    BY <1>1, <1>2, <1>6, <2>2 DEF KnowsTop
  <2>4. rs.revision # acc.prev
    <3>1. CASE acc.prev = 0
      BY <1>1, <3>1
    <3>2. ASSUME NEW s \in S \ {t}, KnowsSecond(list, acc, S, t, s)
          PROVE  rs.revision # acc.prev
      BY <3>2 DEF KnowsSecond
    <3> QED BY <2>2, <3>1, <3>2
  <2>5. CASE rs.revision > acc.prev
    <3>1. new = [acc EXCEPT !.prev = rs.revision, !.found = rs.template]
      <4> HIDE DEF mid
      <4> QED BY <2>1, <2>3, <2>5 DEF Match
    <3>2. /\ new.max = acc.max /\ new.prev = rs.revision /\ new.found = rs.template
          /\ new \in Acc
      BY <1>1, <3>1 DEF Acc
    <3> HIDE DEF mid, new
    <3>3. KnowsTop(list, new, U, t)
      BY <1>1, <2>2, <2>3, <3>2 DEF KnowsTop
    <3>4. KnowsSecond(list, new, U, t, i)
      <4>1. t < i /\ i \in U \ {t}
        BY <1>1
      <4>2. \A j \in U \ {t, i} : list[j].revision < rs.revision
        <5>1. CASE S = {t}
          BY <5>1
        <5>2. ASSUME NEW s \in S \ {t}, KnowsSecond(list, acc, S, t, s)
              PROVE  \A j \in U \ {t, i} : list[j].revision < rs.revision
          BY <1>1, <1>2, <2>5, <5>2 DEF KnowsSecond
        <5> QED BY <2>2, <5>1, <5>2
      <4> QED BY <3>2, <4>1, <4>2 DEF KnowsSecond
    <3>5. Knows(list, new, U)
      BY <1>1, <3>3, <3>4 DEF Knows
    <3> QED BY <3>2, <3>5 DEF new, mid
  <2>6. CASE ~(rs.revision > acc.prev)
    <3>1. new = acc
      <4> HIDE DEF mid
      <4> QED BY <2>1, <2>4, <2>6 DEF Match
    <3>2. rs.revision < acc.prev
      BY <1>1, <1>2, <2>4, <2>6
    <3>3. PICK s \in S \ {t} : KnowsSecond(list, acc, S, t, s)
      BY <1>1, <2>2, <3>2
    <3>4. KnowsTop(list, acc, U, t)
      BY <1>1, <2>2, <2>3 DEF KnowsTop
    <3>5. KnowsSecond(list, acc, U, t, s)
      BY <1>1, <3>2, <3>3 DEF KnowsSecond
    <3>6. Knows(list, acc, U)
      BY <3>3, <3>4, <3>5 DEF Knows
    <3> QED BY <3>1, <3>6
  <2> QED BY <2>5, <2>6
<1> QED BY <1>1, <1>2, <1>5, <1>6

Seen(list, k) == {i \in 1..k : list[i].owned}

LEMMA PassKnows ==
    ASSUME NEW list, Numbered(list)
    PROVE  LET acc == Passed(list)[Len(list)] IN
             acc \in Acc /\ Knows(list, acc, Seen(list, Len(list)))
<1> DEFINE N == Len(list)
           P == Passed(list)
           T == {k \in 0..N : P[k] \in Acc /\ Knows(list, P[k], Seen(list, k))}
<1>1. N \in Nat /\ DOMAIN list = 1..N /\ \A i \in 1..N : list[i] \in ReplicaSets
  BY DEF Numbered
<1>2. \A i, j \in 1..N :
         list[i].owned /\ list[j].owned /\ list[i].revision = list[j].revision => i = j
  BY <1>1 DEF Numbered
<1>3. P[0] = Start /\ \A n \in 1..N : P[n] = Pass(P[n - 1], list[n])
  BY <1>1, PassedUnfolds
<1>4. 0 \in T
  <2>1. Start \in Acc
    BY DEF Start, Acc
  <2>2. Seen(list, 0) = {}
    BY DEF Seen
  <2> QED BY <1>1, <1>3, <2>1, <2>2 DEF Knows
<1> HIDE DEF P
<1>5. ASSUME NEW k \in 0..(N - 1), k \in T
      PROVE  k + 1 \in T
  <2> DEFINE i == k + 1
  <2>1. i \in 1..N /\ k + 1 > k /\ k \in Nat /\ P[i] = Pass(P[k], list[i])
    <3>1. i \in 1..N /\ i - 1 = k
      BY <1>1
    <3> QED BY <1>3, <3>1
  <2>2. P[k] \in Acc /\ Knows(list, P[k], Seen(list, k))
    BY <1>5
  <2>3. CASE list[i].owned
    <3>1. Seen(list, i) = Seen(list, k) \cup {i}
      BY <2>1, <2>3 DEF Seen
    <3>2. Seen(list, k) \in SUBSET (1..k)
      BY DEF Seen
    <3>3. \A j \in Seen(list, k) \cup {i} : list[j] \in ReplicaSets
      BY <1>1, <2>1 DEF Seen
    <3>4. \A j \in Seen(list, k) : list[j].revision # list[i].revision
      BY <1>1, <1>2, <2>1, <2>3 DEF Seen
    <3>5. P[i] = Match(Higher(P[k], list[i]), list[i])
      BY <2>1, <2>3 DEF Pass
    <3>6. i \in Nat /\ i > k
      BY <2>1
    <3> HIDE DEF i
    <3>7. P[i] \in Acc /\ Knows(list, P[i], Seen(list, i))
      <4> DEFINE S == Seen(list, k)
      <4>1. P[k] \in Acc /\ Knows(list, P[k], S) /\ S \in SUBSET (1..k) /\ k \in Nat
        BY <2>1, <2>2, <3>2
      <4>2. /\ \A j \in S \cup {i} : list[j] \in ReplicaSets
            /\ \A j \in S : list[j].revision # list[i].revision
        BY <3>3, <3>4
      <4> HIDE DEF S
      <4>3. /\ Match(Higher(P[k], list[i]), list[i]) \in Acc
            /\ Knows(list, Match(Higher(P[k], list[i]), list[i]), S \cup {i})
        BY <3>6, <4>1, <4>2, PassOwned
      <4> QED BY <3>1, <3>5, <4>3 DEF S
    <3> QED BY <1>1, <2>1, <3>7 DEF i
  <2>4. CASE ~list[i].owned
    <3>1. Seen(list, i) = Seen(list, k)
      BY <2>1, <2>4 DEF Seen
    <3>2. P[i] = P[k]
      BY <2>1, <2>4 DEF Pass
    <3> QED BY <2>1, <2>2, <3>1, <3>2
  <2> QED BY <2>3, <2>4
<1>6. N \in T
  <2> HIDE DEF T
  <2>1. 0..N \subseteq T
    BY <1>1, <1>4, <1>5, BoundedInduction
  <2> QED BY <1>1, <2>1
<1> QED BY <1>6 DEF P

\* In a numbered list one replica set is the highest.
LEMMA HighestExists ==
    ASSUME NEW list, Numbered(list)
    PROVE  \E t \in Seen(list, Len(list)) :
              \A j \in Seen(list, Len(list)) \ {t} : list[j].revision < list[t].revision
<1>1. Seen(list, Len(list)) # {}
  BY DEF Numbered, Seen
<1> QED BY <1>1, PassKnows DEF Knows, KnowsTop

\* findPreviousRevision on a numbered list finds the second-highest revision, or
\* nothing.
LEMMA FindsPrevious ==
    ASSUME Numbered(sets)
    PROVE  RollbackTargetIsSecond
<1> DEFINE acc == Passed(sets)[Len(sets)]
<1>1. Seen(sets, Len(sets)) = Owned /\ Owned # {}
  BY DEF Numbered, Seen, Owned
<1>2. Knows(sets, acc, Owned)
  BY <1>1, PassKnows
<1>3. findPreviousRevision(sets) = acc.found
  BY DEF findPreviousRevision
<1> HIDE DEF acc
<1>4. PICK t \in Owned :
         /\ KnowsTop(sets, acc, Owned, t)
         /\ \/ Owned = {t} /\ acc.prev = 0 /\ acc.found = NoTemplate
            \/ \E s \in Owned \ {t} : KnowsSecond(sets, acc, Owned, t, s)
  BY <1>1, <1>2 DEF Knows
<1>5. \A j \in Owned : sets[j].revision \in Nat
  <2>1. DOMAIN sets = 1..Len(sets) /\ \A j \in DOMAIN sets : sets[j] \in ReplicaSets
    BY DEF Numbered
  <2> QED BY <2>1 DEF Owned, ReplicaSets
<1>6. Highest = t
  <2>1. \A i \in Owned : (\A j \in Owned : sets[j].revision <= sets[i].revision) <=> i = t
    BY <1>4, <1>5 DEF KnowsTop
  <2> QED BY <2>1 DEF Highest
<1>7. ASSUME NEW s \in Owned \ {t}, KnowsSecond(sets, acc, Owned, t, s),
             acc.found # NoTemplate
      PROVE  SecondHighest(s) /\ acc.found = sets[s].template
  BY <1>5, <1>6, <1>7 DEF KnowsSecond, SecondHighest
<1> QED BY <1>3, <1>4, <1>7 DEF RollbackTargetIsSecond

-----------------------------------------------------------------------------
(* The list of replica sets stays numbered *)

\* A sequence with an element put in.
LEMMA Inserted ==
    ASSUME NEW S, NEW list \in Seq(S), NEW e \in S, NEW p \in 1..(Len(list) + 1)
    PROVE  LET with == InsertAt(list, p, e) IN
             /\ with \in Seq(S) /\ Len(with) = Len(list) + 1
             /\ \A k \in 1..(Len(list) + 1) :
                  with[k] = IF k < p THEN list[k] ELSE IF k = p THEN e ELSE list[k - 1]
<1> DEFINE front == SubSeq(list, 1, p - 1)
           back == SubSeq(list, p, Len(list))
<1>1. /\ front \in Seq(S) /\ Len(front) = p - 1
      /\ \A k \in 1..(p - 1) : front[k] = list[k]
  OBVIOUS
<1>2. /\ back \in Seq(S) /\ Len(back) = Len(list) - p + 1
      /\ \A k \in 1..(Len(list) - p + 1) : back[k] = list[p + k - 1]
  OBVIOUS
<1> HIDE DEF front, back
<1> DEFINE half == front \o <<e>>
<1>3. /\ half \in Seq(S) /\ Len(half) = p
      /\ \A k \in 1..(p - 1) : half[k] = list[k]
      /\ half[p] = e
  BY <1>1
<1> HIDE DEF half
<1>4. /\ half \o back \in Seq(S) /\ Len(half \o back) = Len(list) + 1
      /\ \A k \in 1..p : (half \o back)[k] = half[k]
      /\ \A k \in (p + 1)..(Len(list) + 1) : (half \o back)[k] = back[k - p]
  <2>1. half \o back \in Seq(S) /\ Len(half \o back) = Len(half) + Len(back)
    BY <1>2, <1>3, ConcatProperties
  <2>2. \A k \in 1..(Len(half) + Len(back)) :
           (half \o back)[k] = IF k <= Len(half) THEN half[k] ELSE back[k - Len(half)]
    BY <1>2, <1>3, ConcatProperties
  <2>3. Len(half) + Len(back) = Len(list) + 1 /\ Len(list) \in Nat
    BY <1>2, <1>3
  <2> QED BY <1>2, <1>3, <2>1, <2>2, <2>3
<1>5. \A k \in (p + 1)..(Len(list) + 1) : back[k - p] = list[k - 1]
  <2> SUFFICES ASSUME NEW k \in (p + 1)..(Len(list) + 1) PROVE back[k - p] = list[k - 1]
    OBVIOUS
  <2>1. k - p \in 1..(Len(list) - p + 1) /\ p + (k - p) - 1 = k - 1
    OBVIOUS
  <2> QED BY <1>2, <2>1
<1>6. InsertAt(list, p, e) = half \o back
  BY DEF InsertAt, half, front, back
<1> QED BY <1>3, <1>4, <1>5, <1>6

\* The deployment controller numbers the newest replica set above the others.
LEMMA RolloutKeepsNumbers ==
    ASSUME Numbered(sets), template \in Templates, Rollout
    PROVE  Numbered(sets')
<1> DEFINE N == Len(sets)
           newest == sets[Highest].revision + 1
           new == [template |-> template, revision |-> newest, owned |-> TRUE]
<1>1. sets \in Seq(ReplicaSets) /\ DOMAIN sets = 1..N /\ N \in Nat
  BY DEF Numbered
<1>2. \A i \in 1..N : sets[i] \in ReplicaSets
  BY <1>1
<1>3. Owned = Seen(sets, N) /\ Owned \subseteq 1..N
  BY <1>1 DEF Owned, Seen
<1>4. Highest \in Owned /\ \A j \in Owned : sets[j].revision <= sets[Highest].revision
  <2>1. \A j \in Owned : sets[j].revision \in Nat
    BY <1>2, <1>3 DEF ReplicaSets
  <2>2. \E i \in Owned : \A j \in Owned : sets[j].revision <= sets[i].revision
    BY <1>3, <2>1, HighestExists
  <2> QED BY <2>2 DEF Highest
<1>5. newest \in Nat \ {0} /\ \A j \in Owned : sets[j].revision # newest
  BY <1>2, <1>3, <1>4 DEF ReplicaSets
<1>6. new \in ReplicaSets
  BY <1>5 DEF ReplicaSets
<1>7. \A i, j \in 1..N :
         sets[i].owned /\ sets[j].owned /\ sets[i].revision = sets[j].revision => i = j
  BY <1>1 DEF Numbered
<1> HIDE DEF newest, new
<1>8. ASSUME NEW i \in Owned, sets' = [sets EXCEPT ![i].revision = newest]
      PROVE  Numbered(sets')
  <2> DEFINE one == [sets[i] EXCEPT !.revision = newest]
  <2>1. i \in 1..N /\ sets[i] \in ReplicaSets /\ sets[i].owned
    BY <1>2, <1>3 DEF Owned
  <2>2. one \in ReplicaSets /\ one.revision = newest /\ one.owned
    BY <1>5, <2>1 DEF ReplicaSets
  <2> HIDE DEF one
  <2>3. sets' = [sets EXCEPT ![i] = one]
    BY <1>8 DEF one
  <2>4. /\ sets' \in Seq(ReplicaSets) /\ DOMAIN sets' = 1..N
        /\ \A j \in 1..N : sets'[j] = IF j = i THEN one ELSE sets[j]
    BY <1>1, <2>1, <2>2, <2>3
  <2>5. \A j \in 1..N : sets[j].owned => j \in Owned
    BY <1>1 DEF Owned
  <2> QED BY <1>5, <1>7, <2>1, <2>2, <2>4, <2>5 DEF Numbered
<1>9. ASSUME NEW p \in 1..(N + 1), sets' = InsertAt(sets, p, new)
      PROVE  Numbered(sets')
  <2>1. /\ sets' \in Seq(ReplicaSets) /\ Len(sets') = N + 1
        /\ \A k \in 1..(N + 1) :
             sets'[k] = IF k < p THEN sets[k] ELSE IF k = p THEN new ELSE sets[k - 1]
    BY <1>1, <1>6, <1>9, Inserted
  <2>2. DOMAIN sets' = 1..(N + 1) /\ p \in DOMAIN sets' /\ sets'[p] = new
    BY <1>1, <2>1
  <2>3. new.owned /\ new.revision = newest
    BY DEF new
  <2>4. \A k \in 1..(N + 1) : k # p =>
           \E i \in 1..N : sets'[k] = sets[i] /\ i = IF k < p THEN k ELSE k - 1
    BY <1>1, <2>1
  <2>5. \A i \in 1..N : sets[i].owned => sets[i].revision # newest
    BY <1>1, <1>5 DEF Owned
  <2>6. ASSUME NEW k \in 1..(N + 1), NEW l \in 1..(N + 1), sets'[k].owned, sets'[l].owned,
               sets'[k].revision = sets'[l].revision
        PROVE  k = l
    <3>1. CASE k = p \/ l = p
      BY <2>2, <2>3, <2>4, <2>5, <2>6, <3>1
    <3>2. CASE k # p /\ l # p
      <4>1. PICK i \in 1..N : sets'[k] = sets[i] /\ i = IF k < p THEN k ELSE k - 1
        BY <2>4, <3>2
      <4>2. PICK j \in 1..N : sets'[l] = sets[j] /\ j = IF l < p THEN l ELSE l - 1
        BY <2>4, <3>2
      <4>3. i = j
        BY <1>7, <2>6, <4>1, <4>2
      <4> QED BY <3>2, <4>1, <4>2, <4>3
    <3> QED BY <3>1, <3>2
  <2> QED BY <2>1, <2>2, <2>3, <2>6 DEF Numbered
<1> QED BY <1>8, <1>9 DEF Rollout, new, newest

-----------------------------------------------------------------------------
(* Where an Execute stands, and what it changes *)

UnitCalls(r) ==
    RestartContainer(r) \/ StartContainer(r) \/ StopContainer(r)
      \/ RestartService(r) \/ StartService(r) \/ StopService(r)
UnitActions == {"restart_container", "start_container", "stop_container",
                "restart_service", "start_service", "stop_service"}
Rotates(r) ==
    RotateWithLogrotate(r) \/ RotateBySafeTruncation(r) \/ TruncateFile(r) \/ CreateLog(r)

\* Each part of the world is changed by the actions that are about it.
LEMMA ExecuteChanges ==
    ASSUME NEW r \in Runners, Execute(r)
    PROVE  /\ UNCHANGED <<events, host, written, sets>>
           /\ unit' = unit \/ UnitCalls(r)
           /\ files' = files \/ Rotates(r)
           /\ temp' = temp \/ WalkFile(r)
           /\ UNCHANGED <<template, applied>> \/ PatchTemplate(r)
<1> USE DEF world, fileSystem, cluster, objects
<1>1. CASE OtherAction(r) \/ RejectParams(r) \/ Wait(r) \/ Healthcheck(r) \/ VerifyUnit(r)
  BY <1>1 DEF OtherAction, RejectParams, Wait, Healthcheck, VerifyUnit
<1>2. CASE UnitCalls(r)
  <2>1. \E possible, changed : CallUnit(r, possible, changed)
    BY <1>2 DEF UnitCalls, RestartContainer, StartContainer, StopContainer, RestartService,
                StartService, StopService
  <2> QED BY <1>2, <2>1 DEF CallUnit
<1>3. CASE BeginWalk(r) \/ WalkFile(r) \/ EndWalk(r)
  BY <1>3 DEF BeginWalk, WalkFile, EndWalk
<1>4. CASE Rotates(r)
  BY <1>4 DEF Rotates, RotateWithLogrotate, RotateBySafeTruncation, TruncateFile, CreateLog
<1>5. CASE ListReplicaSets(r) \/ PatchTemplate(r)
  BY <1>5 DEF ListReplicaSets, PatchTemplate
<1>6. CASE ReadObject(r) \/ UpdateObject(r) \/ DeletePod(r) \/ CallWebhook(r)
  BY <1>6 DEF ReadObject, UpdateObject, DeletePod, CallWebhook
<1> QED BY <1>1, <1>2, <1>3, <1>4, <1>5, <1>6 DEF Execute, UnitCalls, Rotates

\* Only the goroutine that executes moves.
LEMMA ExecuteMoves ==
    ASSUME TypeOK, VersionInv, NEW r \in Runners, Execute(r)
    PROVE  OnlyMoves(r)
<1>1. CASE ReadObject(r)
  <2>1. CASE ReturnError(r)
    BY <2>1, ReturnMoves
  <2>2. CASE GoOn(r, "read") /\ \E x : local' = [local EXCEPT ![r] = x]
    BY <2>2, GoOnMoves
  <2> QED BY <1>1, <2>1, <2>2 DEF ReadObject
<1>2. CASE UpdateObject(r)
  BY <1>2, ReturnMoves DEF UpdateObject
<1> QED BY <1>1, <1>2, QuietExecute

\* Only rollback_deployment gets to the place between its two calls, and only the
\* actions on a unit to that between theirs.
LEMMA ExecuteLeads ==
    ASSUME TypeOK, VersionInv, NEW r \in Runners, Execute(r)
    PROVE  /\ pc'[r] = "listed" => ListReplicaSets(r)
           /\ pc'[r] = "called" => UnitCalls(r)
<1>1. ReturnNil(r) \/ ReturnError(r) => pc'[r] = "start"
  BY DEF ReturnNil, ReturnError, Return, VersionInv
<1>2. ASSUME NEW label, GoOn(r, label)
      PROVE  pc'[r] = label
  BY <1>2 DEF GoOn, VersionInv
<1>3. CASE OtherAction(r)
  BY <1>3 DEF OtherAction, VersionInv
<1>4. CASE UnitCalls(r)
  <2>1. \E possible, changed : CallUnit(r, possible, changed)
    BY <1>4 DEF UnitCalls, RestartContainer, StartContainer, StopContainer, RestartService,
                StartService, StopService
  <2>2. GoOn(r, "called") \/ ReturnError(r)
    BY <2>1 DEF CallUnit
  <2>3. pc'[r] # "listed"
    BY <1>1, <1>2, <2>2
  <2> QED BY <1>4, <2>3
<1>5. CASE BeginWalk(r) \/ EndWalk(r)
  BY <1>1, <1>2, <1>5 DEF BeginWalk, EndWalk
<1>6. CASE WalkFile(r)
  BY <1>6 DEF WalkFile, Executing
<1>7. CASE Rotates(r)
  BY <1>1, <1>2, <1>7 DEF Rotates, RotateWithLogrotate, RotateBySafeTruncation, TruncateFile,
     CreateLog
<1>8. CASE ReadObject(r)
  BY <1>1, <1>2, <1>8 DEF ReadObject
<1>9. CASE RejectParams(r) \/ Wait(r) \/ Healthcheck(r) \/ VerifyUnit(r) \/ PatchTemplate(r)
             \/ UpdateObject(r) \/ DeletePod(r) \/ CallWebhook(r)
  BY <1>1, <1>9 DEF RejectParams, Wait, Healthcheck, VerifyUnit, PatchTemplate, UpdateObject,
     DeletePod, CallWebhook
<1>10. CASE ListReplicaSets(r)
  BY <1>1, <1>2, <1>10 DEF ListReplicaSets
<1> QED BY <1>3, <1>4, <1>5, <1>6, <1>7, <1>8, <1>9, <1>10 DEF Execute, UnitCalls, Rotates

\* What a goroutine keeps between two calls.
PlaceOK(r) ==
    /\ pc[r] \in {"start", "called", "renamed", "listed", "read", "walking"}
    /\ pc[r] = "called" => Current(r).action \in UnitActions
    /\ pc[r] = "renamed" => \E t \in Nat : local[r].backup = Backup(t)
    /\ pc[r] = "listed" => local[r].target \in Templates

\* The replica sets are numbered, and templates are templates.
ClusterType == Numbered(sets) /\ template \in Templates

PlaceInv == ClusterType /\ \A r \in Runners : PlaceOK(r)

\* Where a goroutine stands after its step.
LEMMA ExecutePlaces ==
    ASSUME TypeOK, VersionInv, PlaceInv, NEW r \in Runners, Execute(r)
    PROVE  PlaceOK(r)'
<1> USE DEF PlaceOK
<1>1. ReturnNil(r) \/ ReturnError(r) => pc'[r] = "start"
  BY DEF ReturnNil, ReturnError, Return, VersionInv
<1>2. ASSUME NEW label, GoOn(r, label)
      PROVE  pc'[r] = label /\ Current(r)' = Current(r)
  BY <1>2 DEF GoOn, vars, VersionInv, Current
<1>3. CASE ReturnNil(r) \/ ReturnError(r)
  BY <1>1, <1>3
<1>4. CASE OtherAction(r)
  BY <1>4 DEF OtherAction, VersionInv
<1>5. CASE UnitCalls(r) /\ ~ReturnError(r)
  <2>1. \E possible, changed : CallUnit(r, possible, changed)
    BY <1>5 DEF UnitCalls, RestartContainer, StartContainer, StopContainer, RestartService,
                StartService, StopService
  <2>2. GoOn(r, "called")
    BY <1>5, <2>1 DEF CallUnit
  <2>3. Current(r).action \in UnitActions
    BY <1>5 DEF UnitCalls, RestartContainer, StartContainer, StopContainer, RestartService,
                StartService, StopService, Given, Executing, UnitActions
  <2> QED BY <1>2, <2>2, <2>3
<1>6. CASE (BeginWalk(r) \/ EndWalk(r)) /\ ~ReturnError(r) /\ ~ReturnNil(r)
  BY <1>2, <1>6 DEF BeginWalk, EndWalk
<1>7. CASE WalkFile(r)
  BY <1>7 DEF WalkFile, Executing, vars
<1>8. CASE Rotates(r) /\ ~ReturnError(r) /\ ~ReturnNil(r)
  <2>1. GoOn(r, "renamed") /\ local' = [local EXCEPT ![r].backup = BackupName]
    BY <1>8 DEF Rotates, RotateWithLogrotate, RotateBySafeTruncation, TruncateFile, CreateLog
  <2>2. pc[r] = "start"
    BY <1>8 DEF Rotates, RotateWithLogrotate, RotateBySafeTruncation, TruncateFile, CreateLog,
                Given, Executing
  <2>3. local'[r] = [NoLocal EXCEPT !.backup = BackupName]
    BY <2>1, <2>2 DEF VersionInv
  <2>4. local'[r].backup = Backup(now) /\ now \in Nat
    BY <2>3, RecipeConstants DEF NoLocal, BackupName, TypeOK
  <2> QED BY <1>2, <2>1, <2>4
<1>9. CASE ListReplicaSets(r) /\ ~ReturnError(r)
  <2>1. /\ findPreviousRevision(sets) # NoTemplate /\ GoOn(r, "listed") /\ pc[r] = "start"
        /\ local' = [local EXCEPT ![r].target = findPreviousRevision(sets)]
    BY <1>9 DEF ListReplicaSets, Given, Executing
  <2>2. findPreviousRevision(sets) \in Templates
    <3>1. Passed(sets)[Len(sets)] \in Acc
      BY PassKnows DEF PlaceInv, ClusterType
    <3> QED BY <2>1, <3>1 DEF findPreviousRevision, Acc
  <2>3. local'[r] = [NoLocal EXCEPT !.target = findPreviousRevision(sets)]
    BY <2>1 DEF VersionInv
  <2>4. local'[r].target \in Templates
    BY <2>2, <2>3 DEF NoLocal
  <2> QED BY <1>2, <2>1, <2>4
<1>10. CASE ReadObject(r) /\ ~ReturnError(r)
  BY <1>2, <1>10 DEF ReadObject
<1>11. CASE RejectParams(r) \/ Wait(r) \/ Healthcheck(r) \/ VerifyUnit(r) \/ PatchTemplate(r)
             \/ UpdateObject(r) \/ DeletePod(r) \/ CallWebhook(r)
  BY <1>3, <1>11 DEF RejectParams, Wait, Healthcheck, VerifyUnit, PatchTemplate, UpdateObject,
     DeletePod, CallWebhook
<1> QED BY <1>3, <1>4, <1>5, <1>6, <1>7, <1>8, <1>9, <1>10, <1>11 DEF Execute, UnitCalls, Rotates

LEMMA PlaceStep == TypeOK /\ VersionInv /\ PlaceInv /\ [ActionsNext]_allVars => PlaceInv'
<1> SUFFICES ASSUME TypeOK, VersionInv, PlaceInv, [ActionsNext]_allVars PROVE PlaceInv'
  OBVIOUS
<1> USE DEF world, cluster
<1>1. ASSUME NEW r \in Runners, RecipeStep(r) PROVE PlaceInv'
  <2>1. at[r] # "running" /\ UNCHANGED <<recipe, pc, local, sets, template>>
    BY <1>1 DEF RecipeStep, SkipStep, BlockStep, AdmitStep, BeginAttempt, GiveUp, FinishRecipe
  <2>2. \A q \in Runners \ {r} : results'[q] = results[q]
    BY <1>1 DEF RecipeStep, SkipStep, BlockStep, AdmitStep, BeginAttempt, GiveUp, FinishRecipe,
                StepDone, TypeOK
  <2>3. pc[r] = "start"
    BY <2>1 DEF VersionInv
  <2> QED BY <2>1, <2>2, <2>3 DEF PlaceInv, PlaceOK, ClusterType, Current
<1>2. ASSUME NEW r \in Runners, Execute(r) PROVE PlaceInv'
  <2>1. OnlyMoves(r) /\ PlaceOK(r)'
    BY <1>2, ExecuteMoves, ExecutePlaces
  <2>2. \A q \in Runners \ {r} : PlaceOK(q)'
    BY <2>1 DEF PlaceInv, PlaceOK, OnlyMoves, Current
  <2>3. sets' = sets /\ template' \in Templates
    <3>1. CASE UNCHANGED template
      BY <1>2, <3>1, ExecuteChanges DEF PlaceInv, ClusterType
    <3>2. CASE PatchTemplate(r)
      BY <3>2 DEF PatchTemplate, Executing, PlaceInv, PlaceOK, ClusterType
    <3> QED BY <1>2, <3>1, <3>2, ExecuteChanges
  <2> QED BY <2>1, <2>2, <2>3 DEF PlaceInv, ClusterType
<1>3. CASE \/ Tick /\ UNCHANGED <<pc, local, world>>
           \/ UnitChanges \/ AppLogs \/ TempChanges \/ ObjectChanges \/ UNCHANGED allVars
  <2>1. UNCHANGED <<recipe, results, pc, local, sets, template>>
    BY <1>3 DEF Tick, UnitChanges, AppLogs, TempChanges, ObjectChanges, allVars, vars
  <2> QED BY <2>1 DEF PlaceInv, PlaceOK, ClusterType, Current
<1>4. CASE UserDeploys
  <2>1. UNCHANGED <<recipe, results, pc, local, sets>> /\ template' \in Templates
    BY <1>4 DEF UserDeploys, Templates, vars
  <2> QED BY <2>1 DEF PlaceInv, PlaceOK, ClusterType, Current
<1>5. CASE Rollout
  <2>1. UNCHANGED <<recipe, results, pc, local, template>>
    BY <1>5 DEF Rollout, vars
  <2>2. Numbered(sets')
    BY <1>5, RolloutKeepsNumbers DEF PlaceInv, ClusterType
  <2> QED BY <2>1, <2>2 DEF PlaceInv, PlaceOK, ClusterType, Current
<1> QED BY <1>1, <1>2, <1>3, <1>4, <1>5 DEF ActionsNext

LEMMA PlaceInit == ActionsInit => PlaceInv
<1> SUFFICES ASSUME ActionsInit PROVE PlaceInv
  OBVIOUS
<1>1. sets \in ReplicaSetLists
  BY ActionConstants DEF ActionsInit
<1>2. Numbered(sets)
  BY <1>1, ActionConstants
<1>3. template \in Templates
  <2>1. Owned = Seen(sets, Len(sets)) /\ sets \in Seq(ReplicaSets)
    BY <1>2 DEF Numbered, Owned, Seen
  <2>2. \E i \in Owned : \A j \in Owned : sets[j].revision <= sets[i].revision
    <3>1. \A j \in Owned : sets[j] \in ReplicaSets
      BY <2>1 DEF Owned
    <3>2. \A j \in Owned : sets[j].revision \in Nat
      BY <3>1 DEF ReplicaSets
    <3> QED BY <1>2, <2>1, <3>2, HighestExists
  <2>3. Highest \in Owned
    BY <2>2 DEF Highest
  <2>4. sets[Highest] \in ReplicaSets
    BY <2>1, <2>3 DEF Owned
  <2> QED BY <2>4 DEF ActionsInit, Serving, ReplicaSets
<1>4. \A r \in Runners : pc[r] = "start"
  BY DEF ActionsInit
<1> QED BY <1>2, <1>3, <1>4 DEF PlaceInv, PlaceOK, ClusterType

\* findPreviousRevision never rolls back to anything but the second-highest
\* revision, for any list of replica sets, however the deployment went on: the
\* list is read once, and what is not found there is an error.
THEOREM RollbacksGoToSecond == ActionsSpec => []RollbackTargetIsSecond
<1>1. PlaceInv => RollbackTargetIsSecond
  BY FindsPrevious DEF PlaceInv, ClusterType
<1>2. ActionsSpec => [](TypeOK /\ VersionInv)
  <2>1. ActionsSpec => []TypeOK
    BY ActionsImplementRecipes, RecipeInvariant, PTL DEF RecipeInv
  <2> QED BY <2>1, VersionInit, VersionStep, PTL DEF ActionsSpec
<1> QED BY <1>1, <1>2, PlaceInit, PlaceStep, PTL DEF ActionsSpec

-----------------------------------------------------------------------------
(* A rollback leaves the faulty template *)

\* Up to the first patch, and as long as nobody deploys, the deployment serves its
\* template, and no goroutine has found the faulty one to go back to.
RollbackInv ==
    /\ applied \in Nat
    /\ events = 0 /\ applied = 0 =>
         /\ template = Serving /\ FaultyIsNewest(sets)
         /\ \A r \in Runners : pc[r] = "listed" => local[r].target # Faulty
    /\ RollbackLeavesFaulty

LEMMA PreviousIsNotFaulty ==
    ASSUME Numbered(sets), FaultyIsNewest(sets)
    PROVE  findPreviousRevision(sets) # Faulty
<1> DEFINE acc == Passed(sets)[Len(sets)]
<1>1. Seen(sets, Len(sets)) = Owned /\ Owned # {} /\ sets \in Seq(ReplicaSets)
  BY DEF Numbered, Seen, Owned
<1>2. Knows(sets, acc, Owned) /\ acc.found = findPreviousRevision(sets)
  BY <1>1, PassKnows DEF findPreviousRevision
<1> HIDE DEF acc
<1>3. NoTemplate # Faulty
  BY DEF NoTemplate, Faulty
<1>4. ASSUME NEW t \in Owned, NEW s \in Owned \ {t}, KnowsTop(sets, acc, Owned, t),
             KnowsSecond(sets, acc, Owned, t, s)
      PROVE  acc.found # Faulty
  <2>1. sets[s] \in ReplicaSets /\ sets[t] \in ReplicaSets
    BY <1>1 DEF Owned
  <2>2. sets[s].revision < sets[t].revision
    BY <1>4 DEF KnowsTop
  <2>3. sets[s].template # Faulty
    BY <2>1, <2>2 DEF FaultyIsNewest, Owned, ReplicaSets
  <2> QED BY <1>3, <1>4, <2>3 DEF KnowsSecond
<1> QED BY <1>1, <1>2, <1>3, <1>4 DEF Knows

\* The steps of goroutines, but for those of rollback_deployment, and of everybody
\* else but the deployment controller.
LEMMA RollbackFrame ==
    ASSUME RollbackInv, events \in Nat, events' = events \/ events' = events + 1,
           UNCHANGED sets,
           UNCHANGED <<template, applied>> \/ (events' = events + 1 /\ UNCHANGED applied),
           \A r \in Runners :
              pc'[r] = "listed" => pc[r] = "listed" /\ local'[r].target = local[r].target
    PROVE  RollbackInv'
<1>1. UNCHANGED applied
  OBVIOUS
<1>2. events' = 0 => events = 0 /\ UNCHANGED template
  OBVIOUS
<1>3. Serving' = Serving /\ FaultyIsNewest(sets') = FaultyIsNewest(sets)
  BY DEF Serving, Highest, Owned
<1> QED BY <1>1, <1>2, <1>3 DEF RollbackInv, RollbackLeavesFaulty

LEMMA RollbackStep ==
    TypeOK /\ VersionInv /\ PlaceInv /\ RollbackInv /\ [ActionsNext]_allVars => RollbackInv'
<1> SUFFICES ASSUME TypeOK, VersionInv, PlaceInv, RollbackInv, [ActionsNext]_allVars
             PROVE  RollbackInv'
  OBVIOUS
<1> USE DEF world, cluster
<1>1. events \in Nat
  BY DEF VersionInv
<1>2. ASSUME NEW r \in Runners, RecipeStep(r) PROVE RollbackInv'
  <2>1. UNCHANGED <<events, sets, template, applied, pc, local>>
    BY <1>2 DEF RecipeStep
  <2> QED BY <1>1, <2>1, RollbackFrame
<1>3. ASSUME NEW r \in Runners, Execute(r), ~ListReplicaSets(r), ~PatchTemplate(r)
      PROVE  RollbackInv'
  <2>1. UNCHANGED <<events, sets, template, applied>> /\ OnlyMoves(r)
    BY <1>3, ExecuteChanges, ExecuteMoves
  <2>2. pc'[r] # "listed"
    BY <1>3, ExecuteLeads
  <2> QED BY <1>1, <2>1, <2>2, RollbackFrame DEF OnlyMoves
<1>4. ASSUME NEW r \in Runners, ListReplicaSets(r) PROVE RollbackInv'
  <2>1. UNCHANGED <<events, sets, template, applied>> /\ OnlyMoves(r)
    BY <1>4, ExecuteMoves DEF ListReplicaSets, Execute
  <2>2. CASE ReturnError(r)
    <3>1. pc'[r] = "start"
      BY <2>2 DEF ReturnError, Return, VersionInv
    <3> QED BY <1>1, <2>1, <3>1, RollbackFrame DEF OnlyMoves
  <2>3. CASE local' = [local EXCEPT ![r].target = findPreviousRevision(sets)]
    <3>1. local[r] = NoLocal
      BY <1>4 DEF ListReplicaSets, Given, Executing, VersionInv
    <3>2. local'[r] = [NoLocal EXCEPT !.target = findPreviousRevision(sets)]
      BY <2>3, <3>1 DEF VersionInv
    <3>3. local'[r].target = findPreviousRevision(sets)
      BY <3>2 DEF NoLocal
    <3>4. events = 0 /\ applied = 0 => local'[r].target # Faulty
      BY <3>3, PreviousIsNotFaulty DEF RollbackInv, PlaceInv, ClusterType
    <3>5. Serving' = Serving /\ FaultyIsNewest(sets') = FaultyIsNewest(sets)
      BY <2>1 DEF Serving, Highest, Owned
    <3> QED BY <2>1, <3>4, <3>5 DEF RollbackInv, RollbackLeavesFaulty, OnlyMoves
  <2> QED BY <1>4, <2>2, <2>3 DEF ListReplicaSets
<1>5. ASSUME NEW r \in Runners, PatchTemplate(r) PROVE RollbackInv'
  <2>1. UNCHANGED <<events, sets>> /\ OnlyMoves(r) /\ pc[r] = "listed" /\ pc'[r] = "start"
    <3>1. ReturnNil(r) \/ ReturnError(r)
      BY <1>5 DEF PatchTemplate
    <3>2. pc'[r] = "start"
      BY <3>1 DEF ReturnNil, ReturnError, Return, VersionInv
    <3> QED BY <1>5, <3>2, ExecuteMoves DEF PatchTemplate, Executing, Execute
  <2>2. CASE UNCHANGED <<template, applied>>
    BY <1>1, <2>1, <2>2, RollbackFrame DEF OnlyMoves
  <2>3. CASE template' = local[r].target /\ applied' = applied + 1
    <3>1. applied \in Nat /\ applied' \in Nat /\ applied' # 0 /\ (applied' = 1 => applied = 0)
      BY <2>3 DEF RollbackInv
    <3>2. events = 0 /\ applied = 0 => template' # Faulty
      BY <2>1, <2>3 DEF RollbackInv
    <3> QED BY <2>1, <3>1, <3>2 DEF RollbackInv, RollbackLeavesFaulty
  <2> QED BY <1>5, <2>2, <2>3 DEF PatchTemplate
<1>6. CASE \/ Tick /\ UNCHANGED <<pc, local, world>>
           \/ UnitChanges \/ AppLogs \/ TempChanges \/ ObjectChanges \/ UNCHANGED allVars
  <2>1. UNCHANGED <<sets, template, applied, pc, local>> /\ (events' = events \/ events' = events + 1)
    BY <1>6 DEF Tick, UnitChanges, AppLogs, TempChanges, ObjectChanges, Event, allVars
  <2> QED BY <1>1, <2>1, RollbackFrame
<1>7. CASE UserDeploys
  <2>1. UNCHANGED <<sets, applied, pc, local>> /\ events' = events + 1
    BY <1>7 DEF UserDeploys, Event
  <2> QED BY <1>1, <2>1, RollbackFrame
<1>8. CASE Rollout
  <2>1. template # Serving /\ UNCHANGED <<template, applied, events>>
    BY <1>8 DEF Rollout
  <2>2. ~(events = 0 /\ applied = 0)
    BY <2>1 DEF RollbackInv
  <2> QED BY <2>1, <2>2 DEF RollbackInv, RollbackLeavesFaulty
<1> QED BY <1>2, <1>3, <1>4, <1>5, <1>6, <1>7, <1>8 DEF ActionsNext

LEMMA RollbackInit == ActionsInit => RollbackInv
<1> SUFFICES ASSUME ActionsInit PROVE RollbackInv
  OBVIOUS
<1>1. FaultyIsNewest(sets)
  BY ActionConstants DEF ActionsInit
<1> QED BY <1>1 DEF ActionsInit, RollbackInv, RollbackLeavesFaulty

\* One rollback leaves the faulty template, whatever the order in which the API
\* server lists the replica sets, and however many goroutines roll back: only a
\* second patch, or a user, can bring it back.
THEOREM RollbackEndsFault == ActionsSpec => []RollbackLeavesFaulty
<1>1. ActionsSpec => []TypeOK
  BY ActionsImplementRecipes, RecipeInvariant, PTL DEF RecipeInv
<1>2. ActionsSpec => [](TypeOK /\ VersionInv)
  BY <1>1, VersionInit, VersionStep, PTL DEF ActionsSpec
<1>3. ActionsSpec => [](TypeOK /\ VersionInv /\ PlaceInv)
  BY <1>2, PlaceInit, PlaceStep, PTL DEF ActionsSpec
<1>4. RollbackInv => RollbackLeavesFaulty
  BY DEF RollbackInv
<1> QED BY <1>3, <1>4, RollbackInit, RollbackStep, PTL DEF ActionsSpec

-----------------------------------------------------------------------------
(* The log, its backups and the archive *)

\* Every entry is in one file at most.
FilesInv ==
    /\ written \in Nat /\ Archive \in DOMAIN files /\ IsFiniteSet(DOMAIN files)
    /\ \A f \in DOMAIN files : files[f] \in Seq(1..written)
    /\ \A f, g \in DOMAIN files : f # g => ToSet(files[f]) \cap ToSet(files[g]) = {}

\* The names of the files are different.
LEMMA FileNames ==
    /\ LogFile # Archive
    /\ \A t : Backup(t) # LogFile /\ Backup(t) # Archive
BY DEF LogFile, Archive, Backup

\* What is in the files, entry by entry.
LEMMA ContentDef ==
    ASSUME NEW fs, NEW x
    PROVE  x \in Content(fs) <=> \E f \in DOMAIN fs : x \in ToSet(fs[f])
BY DEF Content

LEMMA ToSetOfSequences ==
    /\ ToSet(<< >>) = {}
    /\ \A S : \A s, t \in Seq(S) : ToSet(s \o t) = ToSet(s) \cup ToSet(t)
    /\ \A S : \A s \in Seq(S) : ToSet(s) \subseteq S
<1>1. ToSet(<< >>) = {}
  BY DEF ToSet
<1>2. ASSUME NEW S, NEW s \in Seq(S), NEW t \in Seq(S)
      PROVE  ToSet(s \o t) = ToSet(s) \cup ToSet(t)
  <2>1. /\ Len(s) \in Nat /\ Len(t) \in Nat /\ DOMAIN s = 1..Len(s) /\ DOMAIN t = 1..Len(t)
        /\ s \o t \in Seq(S) /\ Len(s \o t) = Len(s) + Len(t)
        /\ \A i \in 1..(Len(s) + Len(t)) :
             (s \o t)[i] = IF i <= Len(s) THEN s[i] ELSE t[i - Len(s)]
    BY ConcatProperties
  <2>2. DOMAIN (s \o t) = 1..(Len(s) + Len(t))
    BY <2>1
  <2>3. ASSUME NEW i \in DOMAIN (s \o t)
        PROVE  (s \o t)[i] \in ToSet(s) \cup ToSet(t)
    <3>1. CASE i <= Len(s)
      BY <2>1, <2>2, <3>1 DEF ToSet
    <3>2. CASE ~(i <= Len(s))
      <4>1. i - Len(s) \in DOMAIN t /\ (s \o t)[i] = t[i - Len(s)]
        BY <2>1, <2>2, <3>2
      <4> QED BY <4>1 DEF ToSet
    <3> QED BY <3>1, <3>2
  <2>4. ASSUME NEW i \in DOMAIN s
        PROVE  s[i] \in ToSet(s \o t)
    <3>1. i \in DOMAIN (s \o t) /\ (s \o t)[i] = s[i]
      BY <2>1, <2>2
    <3> QED BY <3>1 DEF ToSet
  <2>5. ASSUME NEW i \in DOMAIN t
        PROVE  t[i] \in ToSet(s \o t)
    <3>1. /\ Len(s) + i \in DOMAIN (s \o t) /\ ~(Len(s) + i <= Len(s))
          /\ (Len(s) + i) - Len(s) = i
      BY <2>1, <2>2
    <3>2. (s \o t)[Len(s) + i] = t[i]
      BY <2>1, <2>2, <3>1
    <3> QED BY <3>1, <3>2 DEF ToSet
  <2>6. ToSet(s \o t) \subseteq ToSet(s) \cup ToSet(t)
    BY <2>3 DEF ToSet
  <2>7. ToSet(s) \subseteq ToSet(s \o t)
    BY <2>4 DEF ToSet
  <2>8. ToSet(t) \subseteq ToSet(s \o t)
    BY <2>5 DEF ToSet
  <2> QED BY <2>6, <2>7, <2>8
<1>3. ASSUME NEW S, NEW s \in Seq(S)
      PROVE  ToSet(s) \subseteq S
  BY DEF ToSet
<1> QED BY <1>1, <1>2, <1>3

\* A rename takes the content of the file along, over whatever had that name.
LEMMA RenameKeeps ==
    ASSUME FilesInv, NEW from \in DOMAIN files, NEW to, from # to,
           from # Archive, to # Archive, files' = Renamed(from, to), written' = written
    PROVE  /\ FilesInv'
           /\ LET lost == Content(files) \ Content(files') IN
                lost # {} => to \in DOMAIN files /\ lost = ToSet(files[to])
<1>1. /\ DOMAIN files' = (DOMAIN files \ {from}) \cup {to}
      /\ files'[to] = files[from]
      /\ \A f \in DOMAIN files \ {from, to} : files'[f] = files[f]
  BY DEF Renamed
<1>2. IsFiniteSet(DOMAIN files')
  <2>1. IsFiniteSet(DOMAIN files \ {from})
    BY FS_RemoveElement DEF FilesInv
  <2>2. IsFiniteSet((DOMAIN files \ {from}) \cup {to})
    BY <2>1, FS_AddElement
  <2> QED BY <1>1, <2>2
<1>3. /\ Archive \in DOMAIN files' /\ written' \in Nat
      /\ \A f \in DOMAIN files' : files'[f] \in Seq(1..written')
      /\ \A f, g \in DOMAIN files' : f # g => ToSet(files'[f]) \cap ToSet(files'[g]) = {}
  BY <1>1 DEF FilesInv
<1>4. FilesInv'
  BY <1>2, <1>3 DEF FilesInv
<1>5. ASSUME NEW x \in Content(files) \ Content(files')
      PROVE  to \in DOMAIN files /\ x \in ToSet(files[to])
  <2>1. PICK f \in DOMAIN files : x \in ToSet(files[f])
    BY <1>5, ContentDef
  <2>2. \A g \in DOMAIN files' : x \notin ToSet(files'[g])
    BY <1>5, ContentDef
  <2> QED BY <1>1, <2>1, <2>2
<1>6. ASSUME to \in DOMAIN files, NEW x \in ToSet(files[to])
      PROVE  x \in Content(files) \ Content(files')
  <2>1. x \in Content(files)
    BY <1>6, ContentDef
  <2>2. \A g \in DOMAIN files' : x \notin ToSet(files'[g])
    BY <1>1, <1>6 DEF FilesInv
  <2> QED BY <2>1, <2>2, ContentDef
<1> QED BY <1>4, <1>5, <1>6

\* os.Create empties the file, if it is there.
LEMMA CreateKeeps ==
    ASSUME FilesInv, NEW name, name # Archive, files' = FilesWith(name, << >>), written' = written
    PROVE  /\ FilesInv'
           /\ LET lost == Content(files) \ Content(files') IN
                lost # {} => name \in DOMAIN files /\ lost = ToSet(files[name])
<1>1. /\ DOMAIN files' = DOMAIN files \cup {name} /\ files'[name] = << >>
      /\ \A f \in DOMAIN files \ {name} : files'[f] = files[f]
  BY DEF FilesWith
<1>2. IsFiniteSet(DOMAIN files')
  BY <1>1, FS_AddElement DEF FilesInv
<1>3. /\ Archive \in DOMAIN files' /\ written' \in Nat
      /\ \A f \in DOMAIN files' : files'[f] \in Seq(1..written')
      /\ \A f, g \in DOMAIN files' : f # g => ToSet(files'[f]) \cap ToSet(files'[g]) = {}
  <2>1. \A f \in DOMAIN files' : files'[f] \in Seq(1..written')
    <3>1. << >> \in Seq(1..written')
      OBVIOUS
    <3> QED BY <1>1, <3>1 DEF FilesInv
  <2>2. ToSet(files'[name]) = {}
    BY <1>1, ToSetOfSequences
  <2>3. \A f, g \in DOMAIN files' : f # g => ToSet(files'[f]) \cap ToSet(files'[g]) = {}
    BY <1>1, <2>2 DEF FilesInv
  <2> QED BY <1>1, <2>1, <2>3 DEF FilesInv
<1>4. FilesInv'
  BY <1>2, <1>3 DEF FilesInv
<1>5. ASSUME NEW x \in Content(files) \ Content(files')
      PROVE  name \in DOMAIN files /\ x \in ToSet(files[name])
  <2>1. PICK f \in DOMAIN files : x \in ToSet(files[f])
    BY <1>5, ContentDef
  <2>2. \A g \in DOMAIN files' : x \notin ToSet(files'[g])
    BY <1>5, ContentDef
  <2> QED BY <1>1, <2>1, <2>2
<1>6. ASSUME name \in DOMAIN files, NEW x \in ToSet(files[name])
      PROVE  x \in Content(files) \ Content(files')
  <2>1. x \in Content(files)
    BY <1>6, ContentDef
  <2>2. \A g \in DOMAIN files' : x \notin ToSet(files'[g])
    BY <1>1, <1>6, ToSetOfSequences DEF FilesInv
  <2> QED BY <2>1, <2>2, ContentDef
<1> QED BY <1>4, <1>5, <1>6

\* copytruncate moves the entries to the archive.
LEMMA LogrotateKeeps ==
    ASSUME FilesInv, LogFile \in DOMAIN files, written' = written,
           files' = [FilesWith(LogFile, << >>) EXCEPT ![Archive] = @ \o files[LogFile]]
    PROVE  FilesInv' /\ Content(files) \subseteq Content(files')
<1>1. /\ DOMAIN files' = DOMAIN files /\ files'[LogFile] = << >>
      /\ files'[Archive] = files[Archive] \o files[LogFile]
      /\ \A f \in DOMAIN files \ {LogFile, Archive} : files'[f] = files[f]
  BY FileNames DEF FilesWith, FilesInv
<1>2. files'[Archive] \in Seq(1..written)
  <2>1. files[Archive] \in Seq(1..written) /\ files[LogFile] \in Seq(1..written)
    BY DEF FilesInv
  <2>2. files[Archive] \o files[LogFile] \in Seq(1..written)
    BY <2>1, ConcatProperties
  <2> QED BY <1>1, <2>2
<1>3. /\ ToSet(files'[Archive]) = ToSet(files[Archive]) \cup ToSet(files[LogFile])
      /\ ToSet(files'[LogFile]) = {}
  <2>1. files[Archive] \in Seq(1..written) /\ files[LogFile] \in Seq(1..written)
    BY DEF FilesInv
  <2>2. ToSet(files[Archive] \o files[LogFile]) = ToSet(files[Archive]) \cup ToSet(files[LogFile])
    BY <2>1, ToSetOfSequences
  <2> QED BY <1>1, <2>2, ToSetOfSequences
<1>4. ASSUME NEW f \in DOMAIN files', NEW g \in DOMAIN files', f # g
      PROVE  ToSet(files'[f]) \cap ToSet(files'[g]) = {}
  <2>1. \A x, y \in DOMAIN files : x # y => ToSet(files[x]) \cap ToSet(files[y]) = {}
    BY DEF FilesInv
  <2>2. CASE f = LogFile \/ g = LogFile
    BY <1>3, <2>2
  <2>3. CASE f # LogFile /\ g # LogFile
    <3>1. \A x \in DOMAIN files \ {LogFile, Archive} : ToSet(files'[x]) = ToSet(files[x])
      BY <1>1
    <3>2. \A x \in DOMAIN files \ {LogFile, Archive} :
             ToSet(files[x]) \cap (ToSet(files[Archive]) \cup ToSet(files[LogFile])) = {}
      BY <2>1 DEF FilesInv
    <3> QED BY <1>1, <1>3, <1>4, <2>1, <2>3, <3>1, <3>2
  <2> QED BY <2>2, <2>3
<1>5. \A f \in DOMAIN files' : files'[f] \in Seq(1..written)
  <2>1. << >> \in Seq(1..written)
    OBVIOUS
  <2> QED BY <1>1, <1>2, <2>1 DEF FilesInv
<1>6. FilesInv'
  BY <1>1, <1>4, <1>5 DEF FilesInv
<1>7. ASSUME NEW x \in Content(files)
      PROVE  x \in Content(files')
  <2>1. PICK f \in DOMAIN files : x \in ToSet(files[f])
    BY ContentDef
  <2>2. \E g \in DOMAIN files' : x \in ToSet(files'[g])
    BY <1>1, <1>3, <2>1 DEF FilesInv
  <2> QED BY <2>2, ContentDef
<1> QED BY <1>6, <1>7

\* The first entries of a sequence are entries of it.
LEMMA FirstOfSequence ==
    ASSUME NEW S, NEW s \in Seq(S), Len(s) > 1
    PROVE  SubSeq(s, 1, 1) \in Seq(S) /\ ToSet(SubSeq(s, 1, 1)) \subseteq ToSet(s)
<1>1. 1 \in DOMAIN s /\ s[1] \in S
  BY LenProperties, ElementOfSeq
<1>2. /\ SubSeq(s, 1, 1) \in Seq(S) /\ Len(SubSeq(s, 1, 1)) = 1
      /\ SubSeq(s, 1, 1)[1] = s[1]
  BY <1>1
<1>3. DOMAIN SubSeq(s, 1, 1) = 1..1
  BY <1>2
<1> QED BY <1>1, <1>2, <1>3 DEF ToSet

\* Truncate keeps the first entries.
LEMMA TruncateKeeps ==
    ASSUME FilesInv, LogFile \in DOMAIN files, Len(files[LogFile]) > MaxSize,
           written' = written, files' = [files EXCEPT ![LogFile] = SubSeq(@, 1, MaxSize)]
    PROVE  FilesInv'
<1>1. /\ DOMAIN files' = DOMAIN files /\ files'[LogFile] = SubSeq(files[LogFile], 1, MaxSize)
      /\ \A f \in DOMAIN files \ {LogFile} : files'[f] = files[f]
  OBVIOUS
<1>2. files[LogFile] \in Seq(1..written)
  BY DEF FilesInv
<1>3. /\ files'[LogFile] \in Seq(1..written)
      /\ ToSet(files'[LogFile]) \subseteq ToSet(files[LogFile])
  <2>1. Len(files[LogFile]) > 1 /\ files'[LogFile] = SubSeq(files[LogFile], 1, 1)
    BY <1>1 DEF MaxSize
  <2> QED BY <1>2, <2>1, FirstOfSequence
<1> QED BY <1>1, <1>3 DEF FilesInv

\* The application appends a new entry.
LEMMA AppendKeeps ==
    ASSUME FilesInv, written' = written + 1,
           files' = FilesWith(LogFile, Append(IF LogFile \in DOMAIN files THEN files[LogFile]
                                                                        ELSE << >>, written + 1))
    PROVE  FilesInv' /\ Content(files) \subseteq Content(files')
<1> DEFINE old == IF LogFile \in DOMAIN files THEN files[LogFile] ELSE << >>
<1>1. old \in Seq(1..written) /\ written \in Nat
  <2>1. << >> \in Seq(1..written)
    OBVIOUS
  <2> QED BY <2>1 DEF FilesInv
<1>2. /\ DOMAIN files' = DOMAIN files \cup {LogFile} /\ files'[LogFile] = Append(old, written + 1)
      /\ \A f \in DOMAIN files \ {LogFile} : files'[f] = files[f]
  BY DEF FilesWith
<1>3. /\ LogFile \in DOMAIN files => old = files[LogFile]
      /\ LogFile \notin DOMAIN files => old = << >>
  OBVIOUS
<1> HIDE DEF old
<1>4. \A s \in Seq(1..written) : s \in Seq(1..written')
  <2>1. 1..written \subseteq 1..written'
    BY <1>1
  <2> QED BY <2>1, SeqMonotonic
<1>5. <<written + 1>> \in Seq(1..written') /\ Append(old, written + 1) = old \o <<written + 1>>
  BY <1>1, AppendIsConcat
<1>6. ToSet(<<written + 1>>) = {written + 1}
  BY DEF ToSet
<1>7. /\ files'[LogFile] \in Seq(1..written')
      /\ ToSet(files'[LogFile]) = ToSet(old) \cup {written + 1}
  <2>1. old \in Seq(1..written')
    BY <1>1, <1>4
  <2> DEFINE one == <<written + 1>>
  <2> HIDE DEF one
  <2>2. one \in Seq(1..written') /\ ToSet(one) = {written + 1} /\ files'[LogFile] = old \o one
    BY <1>2, <1>5, <1>6 DEF one
  <2>3. old \o one \in Seq(1..written')
    BY <2>1, <2>2, ConcatProperties
  <2>4. ToSet(old \o one) = ToSet(old) \cup ToSet(one)
    BY <2>1, <2>2, ToSetOfSequences
  <2> QED BY <2>2, <2>3, <2>4
<1>8. \A f \in DOMAIN files : written + 1 \notin ToSet(files[f])
  BY <1>1, ToSetOfSequences DEF FilesInv
<1>9. \A f, g \in DOMAIN files' : f # g => ToSet(files'[f]) \cap ToSet(files'[g]) = {}
  <2>1. \A x, y \in DOMAIN files : x # y => ToSet(files[x]) \cap ToSet(files[y]) = {}
    BY DEF FilesInv
  <2>2. \A x \in DOMAIN files \ {LogFile} :
           /\ ToSet(files'[x]) = ToSet(files[x])
           /\ ToSet(files[x]) \cap (ToSet(old) \cup {written + 1}) = {}
    <3> SUFFICES ASSUME NEW x \in DOMAIN files \ {LogFile}
                 PROVE  /\ ToSet(files'[x]) = ToSet(files[x])
                        /\ ToSet(files[x]) \cap (ToSet(old) \cup {written + 1}) = {}
      OBVIOUS
    <3>1. ToSet(files[x]) \cap ToSet(old) = {}
      <4>1. CASE LogFile \in DOMAIN files
        BY <1>3, <2>1, <4>1
      <4>2. CASE LogFile \notin DOMAIN files
        BY <1>3, <4>2, ToSetOfSequences
      <4> QED BY <4>1, <4>2
    <3> QED BY <1>2, <1>8, <3>1
  <2> QED BY <1>2, <1>7, <2>1, <2>2
<1>10. IsFiniteSet(DOMAIN files')
  BY <1>2, FS_AddElement DEF FilesInv
<1>11. \A f \in DOMAIN files' : files'[f] \in Seq(1..written')
  BY <1>2, <1>4, <1>7 DEF FilesInv
<1>12. FilesInv'
  BY <1>1, <1>2, <1>9, <1>10, <1>11 DEF FilesInv
<1>13. ASSUME NEW x \in Content(files)
      PROVE  x \in Content(files')
  <2>1. PICK f \in DOMAIN files : x \in ToSet(files[f])
    BY ContentDef
  <2>2. \E g \in DOMAIN files' : x \in ToSet(files'[g])
    BY <1>2, <1>3, <1>7, <2>1
  <2> QED BY <2>2, ContentDef
<1> QED BY <1>12, <1>13

\* What LogContentKept says of one step.
KeepsContent ==
    LET lost == Content(files) \ Content(files') IN
      lost # {} /\ ~(\E r \in Runners : TruncateFile(r)) =>
         \/ Backup(now) \in DOMAIN files /\ lost = ToSet(files[Backup(now)])
         \/ /\ \E r \in Runners : pc[r] = "renamed"
            /\ LogFile \in DOMAIN files /\ lost = ToSet(files[LogFile])

LEMMA RotatesKeeps ==
    ASSUME VersionInv, PlaceInv, FilesInv, NEW r \in Runners, Rotates(r)
    PROVE  FilesInv' /\ KeepsContent
<1>1. written' = written
  BY DEF Rotates, RotateWithLogrotate, RotateBySafeTruncation, TruncateFile, CreateLog
<1>2. CASE UNCHANGED files
  BY <1>1, <1>2 DEF FilesInv, KeepsContent
<1>3. CASE RotateWithLogrotate(r) /\ ~UNCHANGED files
  <2>1. /\ LogFile \in DOMAIN files
        /\ files' = [FilesWith(LogFile, << >>) EXCEPT ![Archive] = @ \o files[LogFile]]
    BY <1>3 DEF RotateWithLogrotate
  <2>2. FilesInv' /\ Content(files) \subseteq Content(files')
    BY <1>1, <2>1, LogrotateKeeps
  <2> QED BY <2>2 DEF KeepsContent
<1>4. CASE RotateBySafeTruncation(r) /\ ~UNCHANGED files
  <2>1. LogFile \in DOMAIN files /\ files' = Renamed(LogFile, Backup(now))
    BY <1>4 DEF RotateBySafeTruncation, Oversized, BackupName
  <2>2. FilesInv' /\ (Content(files) \ Content(files') # {} =>
                        /\ Backup(now) \in DOMAIN files
                        /\ Content(files) \ Content(files') = ToSet(files[Backup(now)]))
    BY <1>1, <2>1, FileNames, RenameKeeps
  <2> QED BY <2>2 DEF KeepsContent
<1>5. CASE TruncateFile(r) /\ ~UNCHANGED files
  <2>1. /\ LogFile \in DOMAIN files /\ Len(files[LogFile]) > MaxSize
        /\ files' = [files EXCEPT ![LogFile] = SubSeq(@, 1, MaxSize)]
    BY <1>5 DEF TruncateFile, Oversized
  <2>2. FilesInv'
    BY <1>1, <2>1, TruncateKeeps
  <2> QED BY <1>5, <2>2 DEF KeepsContent
<1>6. CASE CreateLog(r) /\ ~UNCHANGED files
  <2>1. pc[r] = "renamed" /\ \E t \in Nat : local[r].backup = Backup(t)
    BY <1>6 DEF CreateLog, Executing, PlaceInv, PlaceOK
  <2>2. local[r].backup # LogFile /\ local[r].backup # Archive
    BY <2>1, FileNames
  <2>3. CASE files' = FilesWith(LogFile, << >>)
    <3>1. FilesInv' /\ (Content(files) \ Content(files') # {} =>
                          /\ LogFile \in DOMAIN files
                          /\ Content(files) \ Content(files') = ToSet(files[LogFile]))
      BY <1>1, <2>3, FileNames, CreateKeeps
    <3> QED BY <2>1, <3>1 DEF KeepsContent
  <2>4. CASE local[r].backup \in DOMAIN files /\ files' = Renamed(local[r].backup, LogFile)
    <3>1. FilesInv' /\ (Content(files) \ Content(files') # {} =>
                          /\ LogFile \in DOMAIN files
                          /\ Content(files) \ Content(files') = ToSet(files[LogFile]))
      BY <1>1, <2>2, <2>4, FileNames, RenameKeeps
    <3> QED BY <2>1, <3>1 DEF KeepsContent
  <2> QED BY <1>6, <2>3, <2>4 DEF CreateLog
<1> QED BY <1>2, <1>3, <1>4, <1>5, <1>6 DEF Rotates

LEMMA FilesStep ==
    VersionInv /\ PlaceInv /\ FilesInv /\ [ActionsNext]_allVars => FilesInv' /\ KeepsContent
<1> SUFFICES ASSUME VersionInv, PlaceInv, FilesInv, [ActionsNext]_allVars
             PROVE  FilesInv' /\ KeepsContent
  OBVIOUS
<1>1. CASE UNCHANGED <<files, written>>
  BY <1>1 DEF FilesInv, KeepsContent
<1>2. ASSUME NEW r \in Runners, Execute(r)
      PROVE  FilesInv' /\ KeepsContent
  BY <1>1, <1>2, ExecuteChanges, RotatesKeeps
<1>3. CASE AppLogs
  <2>1. FilesInv' /\ Content(files) \subseteq Content(files')
    BY <1>3, AppendKeeps DEF AppLogs
  <2> QED BY <2>1 DEF KeepsContent
<1>4. ASSUME ~AppLogs, \A r \in Runners : ~Execute(r)
      PROVE  UNCHANGED <<files, written>>
  BY <1>4 DEF ActionsNext, RecipeStep, UnitChanges, TempChanges, UserDeploys, Rollout,
     ObjectChanges, allVars, world, fileSystem
<1> QED BY <1>1, <1>2, <1>3, <1>4

LEMMA FilesInit == ActionsInit => FilesInv
<1> SUFFICES ASSUME ActionsInit PROVE FilesInv
  OBVIOUS
<1>1. /\ DOMAIN files = {LogFile, Archive} /\ written = 2
      /\ files[LogFile] = <<1, 2>> /\ files[Archive] = << >>
  BY FileNames DEF ActionsInit
<1>2. IsFiniteSet(DOMAIN files)
  <2>1. IsFiniteSet({LogFile})
    BY FS_Singleton
  <2>2. IsFiniteSet({LogFile} \cup {Archive})
    BY <2>1, FS_AddElement
  <2>3. DOMAIN files = {LogFile} \cup {Archive}
    BY <1>1
  <2> QED BY <2>2, <2>3
<1>3. \A f \in DOMAIN files : files[f] \in Seq(1..written)
  <2>1. << >> \in Seq(1..2) /\ <<1, 2>> \in Seq(1..2)
    OBVIOUS
  <2> QED BY <1>1, <2>1
<1>4. ToSet(files[Archive]) = {}
  BY <1>1, ToSetOfSequences
<1>5. \A f, g \in DOMAIN files : f # g => ToSet(files[f]) \cap ToSet(files[g]) = {}
  BY <1>1, <1>4
<1> QED BY <1>1, <1>2, <1>3, <1>5 DEF FilesInv

\* The invariants of the composition, together.
ActionsInv == TypeOK /\ VersionInv /\ PlaceInv /\ FilesInv

LEMMA ActionsInvariant == ActionsSpec => []ActionsInv
<1>1. ActionsSpec => []TypeOK
  BY ActionsImplementRecipes, RecipeInvariant, PTL DEF RecipeInv
<1>2. ActionsSpec => [](TypeOK /\ VersionInv)
  BY <1>1, VersionInit, VersionStep, PTL DEF ActionsSpec
<1>3. ActionsSpec => [](TypeOK /\ VersionInv /\ PlaceInv)
  BY <1>2, PlaceInit, PlaceStep, PTL DEF ActionsSpec
<1>4. VersionInv /\ PlaceInv /\ FilesInv /\ [ActionsNext]_allVars => FilesInv'
  BY FilesStep
<1>5. ActionsSpec => []FilesInv
  BY <1>3, <1>4, FilesInit, PTL DEF ActionsSpec
<1> QED BY <1>3, <1>5, PTL DEF ActionsInv

\* Entries of the log are lost in the two ways the rotation has, and no other, as
\* long as its fallback does not truncate: for any number of goroutines that rotate
\* it at once, and of entries written meanwhile.
THEOREM LogKeepsContent == ActionsSpec => LogContentKept
<1>1. ActionsInv /\ [ActionsNext]_allVars => [KeepsContent]_allVars
  BY FilesStep DEF ActionsInv
<1>2. ActionsSpec => [][KeepsContent]_allVars
  BY <1>1, ActionsInvariant, PTL DEF ActionsSpec
<1> QED BY <1>2, PTL DEF LogContentKept, KeepsContent

-----------------------------------------------------------------------------
(* Types *)

Places == {"start", "called", "renamed", "listed", "read", "walking"}
Units == [container : Containers, service : ServiceStates]

\* The part of the type invariant that the invariants above do not give.
WorldType ==
    /\ pc \in [Runners -> Places]
    /\ host \in Hosts /\ unit \in Units
    /\ written \in 0..MaxEntries /\ events \in 0..MaxEvents
    /\ DOMAIN temp = TempFiles

\* An Execute goes from one of its places to another.
LEMMA ExecutePlaceType ==
    ASSUME pc \in [Runners -> Places], NEW r \in Runners, Execute(r)
    PROVE  pc' \in [Runners -> Places]
<1> DEFINE One == pc' \in [Runners -> Places]
<1>1. ReturnNil(r) \/ ReturnError(r) => One
  BY DEF ReturnNil, ReturnError, Return, Places
<1>2. ASSUME NEW label \in Places, GoOn(r, label) PROVE One
  BY <1>2 DEF GoOn
<1>9. {"called", "renamed", "listed", "walking", "read"} \subseteq Places
  BY DEF Places
<1> SUFFICES One
  OBVIOUS
<1> HIDE DEF One
<1>3. CASE OtherAction(r) \/ WalkFile(r)
  BY <1>3 DEF OtherAction, WalkFile, One
<1>4. CASE UnitCalls(r)
  <2>1. \E possible, changed : CallUnit(r, possible, changed)
    BY <1>4 DEF UnitCalls, RestartContainer, StartContainer, StopContainer, RestartService,
                StartService, StopService
  <2> QED BY <1>1, <1>2, <1>9, <2>1 DEF CallUnit
<1>5. CASE BeginWalk(r) \/ EndWalk(r)
  BY <1>1, <1>2, <1>9, <1>5 DEF BeginWalk, EndWalk
<1>6. CASE Rotates(r)
  BY <1>1, <1>2, <1>9, <1>6 DEF Rotates, RotateWithLogrotate, RotateBySafeTruncation, TruncateFile,
     CreateLog
<1>7. CASE ListReplicaSets(r) \/ PatchTemplate(r) \/ ReadObject(r) \/ UpdateObject(r)
  BY <1>1, <1>2, <1>9, <1>7 DEF ListReplicaSets, PatchTemplate, ReadObject, UpdateObject
<1>8. CASE RejectParams(r) \/ Wait(r) \/ Healthcheck(r) \/ VerifyUnit(r) \/ DeletePod(r)
             \/ CallWebhook(r)
  BY <1>1, <1>8 DEF RejectParams, Wait, Healthcheck, VerifyUnit, DeletePod, CallWebhook
<1> QED BY <1>3, <1>4, <1>5, <1>6, <1>7, <1>8 DEF Execute, UnitCalls, Rotates

\* The calls leave the unit in one of its states.
LEMMA UnitCallsType ==
    ASSUME NEW r \in Runners, unit \in Units, UnitCalls(r)
    PROVE  unit' \in Units
<1>1. ASSUME NEW state \in {"running", "exited"}
      PROVE  ContainerBecomes(state) \in Units
  <2>1. Container(state, "none") \in Containers
    BY DEF Containers
  <2> QED BY <2>1 DEF ContainerBecomes, Units
<1>2. ASSUME NEW state \in {"active", "inactive"}
      PROVE  ServiceBecomes(state) \in Units
  BY DEF ServiceBecomes, Units, ServiceStates
<1>3. ASSUME NEW possible, NEW changed \in Units, CallUnit(r, possible, changed)
      PROVE  unit' \in Units
  BY <1>3 DEF CallUnit, world
<1>4. \E possible : \E changed \in Units : CallUnit(r, possible, changed)
  <2>1. CASE RestartContainer(r)
    BY <1>1, <2>1 DEF RestartContainer
  <2>2. CASE StartContainer(r)
    BY <1>1, <2>2 DEF StartContainer
  <2>3. CASE StopContainer(r)
    BY <1>1, <2>3 DEF StopContainer
  <2>4. CASE RestartService(r) \/ StartService(r)
    BY <1>2, <2>4 DEF RestartService, StartService
  <2>5. CASE StopService(r)
    BY <1>2, <2>5 DEF StopService
  <2> QED BY <2>1, <2>2, <2>3, <2>4, <2>5 DEF UnitCalls
<1> QED BY <1>3, <1>4

LEMMA WorldTypeStep ==
    WorldType /\ [ActionsNext]_allVars => WorldType'
<1> SUFFICES ASSUME WorldType, [ActionsNext]_allVars PROVE WorldType'
  OBVIOUS
<1> USE DEF world, fileSystem
<1>1. ASSUME NEW r \in Runners, RecipeStep(r) PROVE WorldType'
  BY <1>1 DEF RecipeStep, WorldType
<1>2. ASSUME NEW r \in Runners, Execute(r) PROVE WorldType'
  <2>1. UNCHANGED <<events, host, written>>
    BY <1>2, ExecuteChanges
  <2>2. pc' \in [Runners -> Places]
    BY <1>2, ExecutePlaceType DEF WorldType
  <2>3. unit' \in Units
    BY <1>2, ExecuteChanges, UnitCallsType DEF WorldType
  <2>4. DOMAIN temp' = TempFiles
    <3>1. CASE UNCHANGED temp
      BY <3>1 DEF WorldType
    <3>2. CASE WalkFile(r)
      BY <3>2 DEF WalkFile, WorldType
    <3> QED BY <1>2, <3>1, <3>2, ExecuteChanges
  <2> QED BY <2>1, <2>2, <2>3, <2>4 DEF WorldType
<1>3. CASE \/ Tick /\ UNCHANGED <<pc, local, world>>
           \/ Rollout \/ UNCHANGED allVars
  BY <1>3 DEF Rollout, allVars, WorldType
<1>4. CASE UnitChanges \/ TempChanges \/ UserDeploys \/ ObjectChanges
  <2>1. UNCHANGED <<pc, host, written>> /\ events < MaxEvents /\ events' = events + 1
    BY <1>4 DEF UnitChanges, TempChanges, UserDeploys, ObjectChanges, Event
  <2>2. events' \in 0..MaxEvents
    BY <2>1, ActionConstants DEF WorldType
  <2>3. unit' \in Units
    BY <1>4 DEF UnitChanges, TempChanges, UserDeploys, ObjectChanges, WorldType, Units
  <2>4. DOMAIN temp' = TempFiles
    BY <1>4 DEF UnitChanges, TempChanges, UserDeploys, ObjectChanges, WorldType
  <2> QED BY <2>1, <2>2, <2>3, <2>4 DEF WorldType
<1>5. CASE AppLogs
  <2>1. written' \in 0..MaxEntries
    BY <1>5, ActionConstants DEF AppLogs, WorldType
  <2> QED BY <1>5, <2>1 DEF AppLogs, WorldType
<1> QED BY <1>1, <1>2, <1>3, <1>4, <1>5 DEF ActionsNext

LEMMA WorldTypeInit == ActionsInit => WorldType
<1> SUFFICES ASSUME ActionsInit PROVE WorldType
  OBVIOUS
<1>1. host \in Hosts
  BY ActionConstants DEF ActionsInit
<1>2. unit \in Units
  <2>1. Container("running", "none") \in Containers /\ "active" \in ServiceStates
    BY DEF Containers, ServiceStates
  <2> QED BY <2>1 DEF ActionsInit, Units
<1>3. pc \in [Runners -> Places] /\ DOMAIN temp = TempFiles
  BY DEF ActionsInit, Places
<1>4. written \in 0..MaxEntries /\ events \in 0..MaxEvents
  BY ActionConstants DEF ActionsInit
<1> QED BY <1>1, <1>2, <1>3, <1>4 DEF WorldType

LEMMA WorldTypeInvariant == ActionsSpec => []WorldType
BY WorldTypeInit, WorldTypeStep, PTL DEF ActionsSpec

\* Every variable of the composition has its type, and an Execute that stands
\* between two calls is one its recipe is in.
THEOREM ActionsTypeCorrect == ActionsSpec => []ActionsTypeOK
<1>1. ActionsInv /\ WorldType => ActionsTypeOK
  BY DEF ActionsInv, WorldType, ActionsTypeOK, VersionInv, FilesInv, Places, Units
<1> QED BY <1>1, ActionsInvariant, WorldTypeInvariant, PTL

-----------------------------------------------------------------------------
(* Success means achieved *)

LEMMA UsedIsNatural ==
    ASSUME FilesInv
    PROVE  Used \in Nat
<1> DEFINE D == DOMAIN files \ {Archive}
           image == [f \in D |-> {f} \X DOMAIN files[f]]
           parts == {{f} \X DOMAIN files[f] : f \in D}
<1>1. IsFiniteSet(D)
  BY FS_RemoveElement DEF FilesInv
<1>2. IsFiniteSet(parts)
  <2>1. image \in Surjection(D, parts)
    BY DEF Surjection
  <2> QED BY <1>1, <2>1, FS_Surjection
<1>3. ASSUME NEW f \in D
      PROVE  IsFiniteSet({f} \X DOMAIN files[f])
  <2>1. Len(files[f]) \in Nat /\ DOMAIN files[f] = 1..Len(files[f])
    BY LenProperties DEF FilesInv
  <2>2. IsFiniteSet(DOMAIN files[f]) /\ IsFiniteSet({f})
    <3>1. IsFiniteSet(1..Len(files[f]))
      BY <2>1, FS_Interval
    <3> QED BY <2>1, <3>1, FS_Singleton
  <2> QED BY <2>2, FS_Product
<1>4. IsFiniteSet(Entries)
  <2>1. \A part \in parts : IsFiniteSet(part)
    BY <1>3
  <2>2. IsFiniteSet(UNION parts)
    BY <1>2, <2>1, FS_UNION
  <2> QED BY <2>2 DEF Entries
<1>5. IsFiniteSet({f \in TempFiles : temp[f] # "gone"})
  <2>1. IsFiniteSet({"cache"} \cup {"keep"})
    BY FS_Singleton, FS_AddElement
  <2>2. {f \in TempFiles : temp[f] # "gone"} \subseteq {"cache"} \cup {"keep"}
    BY DEF TempFiles
  <2> QED BY <2>1, <2>2, FS_Subset
<1>6. Cardinality(Entries) \in Nat /\ Cardinality({f \in TempFiles : temp[f] # "gone"}) \in Nat
  BY <1>4, <1>5, FS_CardinalityType
<1> QED BY <1>6, ActionConstants DEF Used

\* What is less than its factor away from a multiple of it is the multiple.
LEMMA SmallMultiple ==
    ASSUME NEW d \in Nat \ {0}, NEW x \in Int, 0 <= d * x, d * x < d
    PROVE  x = 0
<1>1. CASE x >= 1
  <2>1. d * x >= d * 1
    BY <1>1
  <2> QED BY <2>1
<1>2. CASE x <= -1
  <2>1. d * x <= d * (-1)
    BY <1>2
  <2> QED BY <2>1
<1> QED BY <1>1, <1>2

\* The percentage of the disk in use is exact.
LEMMA UsageIsExact ==
    ASSUME Used \in Nat
    PROVE  Usage \in Nat /\ 100 * Used = DiskSize * Usage
<1> DEFINE k == 100 \div DiskSize
<1>1. DiskSize \in Nat \ {0} /\ 100 % DiskSize = 0
  BY ActionConstants
<1>2. k \in Nat /\ 100 = DiskSize * k
  BY <1>1
<1> HIDE DEF k
<1>3. 100 * Used = DiskSize * (k * Used)
  BY <1>1, <1>2
<1>4. /\ Usage \in Int
      /\ 0 <= 100 * Used - DiskSize * Usage /\ 100 * Used - DiskSize * Usage < DiskSize
  BY <1>1 DEF Usage
<1>5. 100 * Used - DiskSize * Usage = DiskSize * (k * Used - Usage)
  BY <1>1, <1>2, <1>3, <1>4
<1>6. k * Used - Usage = 0
  BY <1>1, <1>2, <1>4, <1>5, SmallMultiple
<1> QED BY <1>2, <1>3, <1>4, <1>6

\* A verdict of healthy is what the check stands for.
LEMMA HealthyIsSound ==
    ASSUME FilesInv, unit \in Units, host \in Hosts, NEW c, Verdict(c) = "healthy"
    PROVE  Sound(c)
<1>1. host \in Observations
  BY ActionConstants
<1>2. CASE c = "http"
  BY <1>2 DEF Verdict, Sound, HTTPCheck, ExpectedStatus, Status
<1>3. CASE c \in {"tcp", "process", "process_name"}
  <2>1. unit.service = "active"
    <3>1. CASE c = "tcp"
      BY <3>1 DEF Verdict, TCPCheck, Status
    <3>2. CASE c = "process"
      BY <3>2 DEF Verdict, ProcessCheck, checkSystemdService, Status
    <3>3. CASE c = "process_name"
      BY <3>3 DEF Verdict, ProcessCheck, checkProcessByName, Status
    <3> QED BY <1>3, <3>1, <3>2, <3>3
  <2> QED BY <1>3, <2>1 DEF Sound
<1>4. CASE c = "cpu"
  <2>1. host.cpu.ok /\ host.cpu.usage[1] <= 90
    BY <1>1, <1>4 DEF Verdict, CPUCheck, Threshold, Status, Observations
  <2> QED BY <1>4, <2>1 DEF Sound
<1>5. CASE c = "memory"
  BY <1>1, <1>5 DEF Verdict, Sound, MemoryCheck, Threshold, Status, Observations
<1>6. CASE c = "disk"
  <2>1. Usage \in Nat /\ 100 * Used = DiskSize * Usage /\ DiskSize \in Nat
    BY UsedIsNatural, UsageIsExact, ActionConstants
  <2>2. Usage <= 85
    BY <1>6, <2>1 DEF Verdict, DiskCheck, Threshold, Status
  <2>3. DiskSize * Usage <= DiskSize * 85
    BY <2>1, <2>2
  <2> QED BY <1>6, <2>1, <2>3 DEF Sound
<1>7. CASE c = "certificate"
  <2>1. host.certificate.ok /\ DaysUntilExpiry(host.certificate.hours) >= 30
    BY <1>1, <1>7 DEF Verdict, CertificateCheck, DaysBeforeExpiry
  <2>2. host.certificate.hours \in Int
    BY <1>1 DEF Observations
  <2>3. host.certificate.hours >= 30 * 24
    BY <2>1, <2>2 DEF DaysUntilExpiry
  <2> QED BY <1>7, <2>1, <2>3 DEF Sound
<1>8. CASE c = "docker_container"
  <2>1. unit.container \in Containers
    BY DEF Units
  <2>2. unit.container.ok /\ unit.container.state = "running" /\ unit.container.health # "unhealthy"
    BY <1>8 DEF Verdict, DockerContainerCheck, evaluateState
  <2>3. /\ Container("running", "unhealthy").health = "unhealthy"
        /\ Container("paused", "none").state = "paused"
        /\ Container("exited", "none").state = "exited" /\ Absent.state = "absent"
    BY DEF Container, Absent
  <2>4. unit.container = Container("running", "none")
    BY <2>1, <2>2, <2>3 DEF Containers
  <2> QED BY <1>8, <2>4 DEF Sound
<1>9. CASE c = "docker_swarm"
  <2>1. /\ host.swarm.state = "active" /\ ~host.swarm.error
        /\ ~(host.swarm.managers > 0 /\ host.swarm.reachable < (host.swarm.managers + 1) \div 2)
    BY <1>9 DEF Verdict, DockerSwarmCheck, evaluateSwarm
  <2> QED BY <1>9, <2>1 DEF Sound
<1>10. CASE c \notin {"http", "tcp", "process", "process_name", "cpu", "memory", "disk",
                      "certificate", "docker_container", "docker_swarm"}
  BY <1>10 DEF Verdict
<1> QED BY <1>2, <1>3, <1>4, <1>5, <1>6, <1>7, <1>8, <1>9, <1>10

\* A stopped service stays stopped, unless somebody else starts it.
StoppedInv ==
    /\ deliveries \in Nat
    /\ \A r \in Runners :
         Runners = {r} /\ events = 0 /\ pc[r] = "called" /\ Current(r).action = "stop_service" =>
            unit.service # "active"

\* What SuccessMeansAchieved says of one goroutine's step.
Claims(r) ==
    at[r] = "running" /\ StepSucceeds(r) =>
       \A a \in {Current(r).action}, p \in {Param(r)} : Achieved(r, a, p)'

LEMMA NoSuccessClaims ==
    ASSUME TypeOK, NEW r \in Runners, results'[r] = results[r]
    PROVE  Claims(r)
BY DEF Claims, StepSucceeds, TypeOK

LEMMA RotatesClaims ==
    ASSUME TypeOK, NEW r \in Runners, Rotates(r)
    PROVE  Claims(r)
<1>1. CASE UNCHANGED results
  BY <1>1, NoSuccessClaims
<1>2. CASE ReturnNil(r)
  <2>1. Current(r).action = "rotate_logs"
    BY <1>2 DEF Rotates, RotateWithLogrotate, RotateBySafeTruncation, TruncateFile, CreateLog,
                Given, Executing
  <2>2. ~Oversized'
    <3>1. CASE files' = FilesWith(LogFile, << >>)
      BY <3>1 DEF Oversized, FilesWith, MaxSize
    <3>2. CASE RotateWithLogrotate(r) /\ LogFile \in DOMAIN files
               /\ files' = [FilesWith(LogFile, << >>) EXCEPT ![Archive] = @ \o files[LogFile]]
      <4>1. files'[LogFile] = << >>
        BY <3>2, FileNames DEF FilesWith
      <4> QED BY <4>1 DEF Oversized, MaxSize
    <3>3. CASE UNCHANGED files /\ ~Oversized
      BY <3>3 DEF Oversized
    <3>4. CASE Oversized /\ files' = [files EXCEPT ![LogFile] = SubSeq(@, 1, MaxSize)]
      <4>1. Len(files'[LogFile]) = 1
        BY <3>4 DEF Oversized, MaxSize
      <4> QED BY <4>1 DEF Oversized, MaxSize
    <3>5. CASE UNCHANGED files /\ LogFile \notin DOMAIN files
      BY <3>5 DEF Oversized
    <3>6. ~ReturnError(r) /\ ~GoOn(r, "renamed")
      <4>1. at[r] = "running" /\ at'[r] = "loop"
        BY <1>2 DEF ReturnNil, AttemptSucceeds, StepDone, TypeOK
      <4> QED BY <4>1 DEF ReturnError, AttemptFails, GoOn, vars, TypeOK
    <3>7. CASE RotateWithLogrotate(r)
      BY <3>2, <3>5, <3>6, <3>7 DEF RotateWithLogrotate
    <3>8. CASE RotateBySafeTruncation(r)
      BY <3>3, <3>5, <3>6, <3>8 DEF RotateBySafeTruncation
    <3>9. CASE TruncateFile(r)
      BY <3>4, <3>6, <3>9 DEF TruncateFile
    <3>10. CASE CreateLog(r)
      BY <3>1, <3>6, <3>10 DEF CreateLog
    <3> QED BY <3>7, <3>8, <3>9, <3>10 DEF Rotates
  <2> QED BY <2>1, <2>2 DEF Claims, Achieved
<1> QED BY <1>1, <1>2 DEF Rotates, RotateWithLogrotate, RotateBySafeTruncation, TruncateFile,
        CreateLog, ReturnError, AttemptFails, GoOn, vars

\* The second call of an action on the unit sees what the first was for.
LEMMA VerifyClaims ==
    ASSUME TypeOK, VersionInv, PlaceInv, WorldType, StoppedInv, NEW r \in Runners, VerifyUnit(r)
    PROVE  Claims(r)
<1> DEFINE a == Current(r).action
<1>1. a \in UnitActions /\ pc[r] = "called" /\ UNCHANGED world
  BY DEF VerifyUnit, PlaceInv, PlaceOK
<1>2. unit' = unit /\ events' = events /\ events \in Nat /\ unit.container \in Containers
  BY <1>1 DEF world, VersionInv, WorldType, Units
<1>3. CASE ReturnError(r)
  BY <1>3, NoSuccessClaims DEF ReturnError, AttemptFails
<1>4. CASE ReturnNil(r) /\ (AsAsked(a) \/ a = "stop_service")
  <2>1. CASE a \in {"restart_container", "start_container"}
    BY <1>2, <1>4, <2>1 DEF Claims, Achieved, AsAsked, Up
  <2>2. CASE a \in {"restart_service", "start_service"}
    BY <1>2, <1>4, <2>2 DEF Claims, Achieved, AsAsked, Up
  <2>3. CASE a = "stop_container"
    <3>1. unit.container.ok /\ unit.container.state \notin {"running", "paused"}
      BY <1>4, <2>3 DEF AsAsked, Stopped
    <3>2. \A state, health : /\ Container(state, health).state = state
                             /\ Absent.ok = FALSE
      BY DEF Container, Absent
    <3>3. unit.container.state = "exited"
      BY <1>2, <3>1, <3>2 DEF Containers
    <3> QED BY <1>2, <2>3, <3>3 DEF Claims, Achieved
  <2>4. CASE a = "stop_service"
    <3>1. events = 0 /\ Runners = {r} => unit.service # "active"
      BY <1>1, <2>4 DEF StoppedInv
    <3> QED BY <1>2, <2>4, <3>1 DEF Claims, Achieved
  <2> QED BY <1>1, <2>1, <2>2, <2>3, <2>4 DEF UnitActions
<1> QED BY <1>3, <1>4 DEF VerifyUnit

LEMMA HealthcheckClaims ==
    ASSUME TypeOK, FilesInv, WorldType, NEW r \in Runners, Healthcheck(r)
    PROVE  Claims(r)
<1>1. CASE ReturnError(r)
  BY <1>1, NoSuccessClaims DEF ReturnError, AttemptFails
<1>2. CASE Verdict(Param(r)) = "healthy"
  <2>1. Sound(Param(r))
    BY <1>2, HealthyIsSound DEF WorldType
  <2>2. UNCHANGED <<unit, host, files, temp, sets>> /\ Current(r).action = "healthcheck"
    BY DEF Healthcheck, Given, Executing, world, fileSystem, cluster
  <2>3. Used' = Used /\ Serving' = Serving
    BY <2>2 DEF Used, Entries, Serving, Highest, Owned
  <2>4. \A p \in {Param(r)} : Sound(p)'
    BY <2>1, <2>2, <2>3 DEF Sound
  <2> QED BY <2>2, <2>4 DEF Claims, Achieved
<1> QED BY <1>1, <1>2 DEF Healthcheck

\* An action whose success SuccessMeansAchieved says nothing about.
LEMMA OtherClaims ==
    ASSUME NEW r \in Runners,
           Current(r).action \notin UnitActions \cup
              {"healthcheck", "rotate_logs", "restart_pod", "webhook"}
    PROVE  Claims(r)
BY DEF Claims, Achieved, UnitActions

LEMMA ExecuteClaims ==
    ASSUME ActionsInv, WorldType, StoppedInv, NEW r \in Runners, Execute(r)
    PROVE  Claims(r)
<1> USE DEF ActionsInv
<1>1. CASE OtherAction(r)
  BY <1>1, OtherClaims DEF OtherAction, UnitActions, BuiltIn, Requiring
<1>2. CASE RejectParams(r)
  BY <1>2, NoSuccessClaims DEF RejectParams, ReturnError, AttemptFails
<1>3. CASE Wait(r) \/ BeginWalk(r) \/ WalkFile(r) \/ EndWalk(r) \/ ListReplicaSets(r)
             \/ PatchTemplate(r)
  BY <1>3, OtherClaims DEF Wait, BeginWalk, WalkFile, EndWalk, ListReplicaSets, PatchTemplate,
     Given, Executing, UnitActions
<1>4. CASE UnitCalls(r)
  <2>1. \E possible, changed : CallUnit(r, possible, changed)
    BY <1>4 DEF UnitCalls, RestartContainer, StartContainer, StopContainer, RestartService,
                StartService, StopService
  <2>2. UNCHANGED results
    BY <2>1 DEF CallUnit, GoOn, vars, ReturnError, AttemptFails
  <2> QED BY <2>2, NoSuccessClaims
<1>5. CASE ReadObject(r) \/ UpdateObject(r)
  <2>1. Current(r).action \in DOMAIN ObjectOf
    BY <1>5 DEF ReadObject, UpdateObject, Given, Executing, VersionInv, VersionHeld
  <2> QED BY <2>1, OtherClaims DEF ObjectOf, UnitActions
<1>6. CASE DeletePod(r)
  <2>1. Current(r).action = "restart_pod"
    BY <1>6 DEF DeletePod, Given, Executing
  <2>2. CASE pod' = "deleted"
    BY <2>1, <2>2 DEF Claims, Achieved
  <2>3. CASE ReturnError(r)
    BY <2>3, NoSuccessClaims DEF ReturnError, AttemptFails
  <2> QED BY <1>6, <2>2, <2>3 DEF DeletePod
<1>7. CASE CallWebhook(r)
  <2>1. Current(r).action = "webhook"
    BY <1>7 DEF CallWebhook, Given, Executing
  <2>2. CASE deliveries' = deliveries + 1
    <3>1. deliveries' > 0
      BY <2>2 DEF StoppedInv
    <3> QED BY <2>1, <3>1 DEF Claims, Achieved
  <2>3. CASE ReturnError(r)
    BY <2>3, NoSuccessClaims DEF ReturnError, AttemptFails
  <2> QED BY <1>7, <2>2, <2>3 DEF CallWebhook
<1> QED BY <1>1, <1>2, <1>3, <1>4, <1>5, <1>6, <1>7, VerifyClaims, HealthcheckClaims, RotatesClaims
        DEF Execute, UnitCalls, Rotates

LEMMA StoppedStep ==
    ActionsInv /\ StoppedInv /\ [ActionsNext]_allVars => StoppedInv'
<1> SUFFICES ASSUME ActionsInv, StoppedInv, [ActionsNext]_allVars PROVE StoppedInv'
  OBVIOUS
<1> USE DEF ActionsInv
<1>1. deliveries' \in Nat
  <2>1. ASSUME NEW r \in Runners, Execute(r)
        PROVE  deliveries' = deliveries \/ deliveries' = deliveries + 1
    <3>1. CASE UnitCalls(r)
      <4>1. \E possible, changed : CallUnit(r, possible, changed)
        BY <3>1 DEF UnitCalls, RestartContainer, StartContainer, StopContainer, RestartService,
                    StartService, StopService
      <4> QED BY <4>1 DEF CallUnit, world
    <3>2. CASE Rotates(r)
      BY <3>2 DEF Rotates, RotateWithLogrotate, RotateBySafeTruncation, TruncateFile, CreateLog
    <3>3. CASE OtherAction(r) \/ RejectParams(r) \/ Wait(r) \/ Healthcheck(r) \/ VerifyUnit(r)
                 \/ BeginWalk(r) \/ WalkFile(r) \/ EndWalk(r) \/ ListReplicaSets(r)
      BY <3>3 DEF OtherAction, RejectParams, Wait, Healthcheck, VerifyUnit, BeginWalk, WalkFile,
         EndWalk, ListReplicaSets, world
    <3>4. CASE PatchTemplate(r) \/ ReadObject(r) \/ UpdateObject(r) \/ DeletePod(r) \/ CallWebhook(r)
      BY <3>4 DEF PatchTemplate, ReadObject, UpdateObject, DeletePod, CallWebhook, world
    <3> QED BY <2>1, <3>1, <3>2, <3>3, <3>4 DEF Execute, UnitCalls, Rotates
  <2>2. ASSUME ~(\E r \in Runners : Execute(r)) PROVE deliveries' = deliveries
    BY <2>2 DEF ActionsNext, RecipeStep, UnitChanges, AppLogs, TempChanges, UserDeploys, Rollout,
       ObjectChanges, allVars, world
  <2> QED BY <2>1, <2>2 DEF StoppedInv
<1>2. ASSUME NEW r \in Runners, Runners = {r}, events' = 0, pc'[r] = "called",
             Current(r).action' = "stop_service"
      PROVE  unit'.service # "active"
  <2>1. CASE Execute(r)
    <3>1. UnitCalls(r) /\ events' = events
      BY <1>2, <2>1, ExecuteLeads, ExecuteChanges
    <3>2. \E possible, changed : CallUnit(r, possible, changed)
      BY <3>1 DEF UnitCalls, RestartContainer, StartContainer, StopContainer, RestartService,
                  StartService, StopService
    <3>3. ~ReturnError(r)
      BY <1>2 DEF ReturnError, Return, VersionInv
    <3>4. Current(r)' = Current(r)
      BY <3>2, <3>3 DEF CallUnit, GoOn, vars, Current
    <3>5. StopService(r)
      BY <1>2, <3>1, <3>4 DEF UnitCalls, RestartContainer, StartContainer, StopContainer,
         RestartService, StartService, Given, Executing
    <3>6. unit' = ServiceBecomes("inactive")
      BY <3>3, <3>5 DEF StopService, CallUnit
    <3> QED BY <3>6 DEF ServiceBecomes
  <2>2. CASE ~Execute(r)
    <3>1. events' = events /\ UNCHANGED <<unit, pc>>
      <4>1. ~(events' = events + 1)
        BY <1>2 DEF VersionInv
      <4>2. ~UnitChanges /\ ~TempChanges /\ ~UserDeploys /\ ~ObjectChanges
        BY <4>1 DEF UnitChanges, TempChanges, UserDeploys, ObjectChanges, Event
      <4> QED BY <1>2, <2>2, <4>2 DEF ActionsNext, RecipeStep, AppLogs, Rollout, allVars, world
    <3>2. UNCHANGED <<recipe, results>>
      <4>1. ~RecipeStep(r)
        BY <1>2, <3>1 DEF VersionInv, RecipeStep, SkipStep, BlockStep, AdmitStep, BeginAttempt,
           GiveUp, FinishRecipe
      <4> QED BY <1>2, <2>2, <4>1 DEF ActionsNext, Tick, UnitChanges, AppLogs, TempChanges,
              UserDeploys, Rollout, ObjectChanges, allVars, vars
    <3> QED BY <1>2, <3>1, <3>2 DEF StoppedInv, Current
  <2> QED BY <2>1, <2>2
<1> QED BY <1>1, <1>2 DEF StoppedInv

LEMMA StoppedInvariant == ActionsSpec => []StoppedInv
<1>1. ActionsInit => StoppedInv
  BY DEF ActionsInit, StoppedInv
<1> QED BY <1>1, ActionsInvariant, StoppedStep, PTL DEF ActionsSpec

LEMMA ClaimsStep ==
    ActionsInv /\ WorldType /\ StoppedInv /\ [ActionsNext]_allVars =>
       \A r \in Runners : Claims(r)
<1> SUFFICES ASSUME ActionsInv, WorldType, StoppedInv, [ActionsNext]_allVars, NEW r \in Runners
             PROVE  Claims(r)
  OBVIOUS
<1> USE DEF ActionsInv
<1>1. CASE Execute(r)
  BY <1>1, ExecuteClaims
<1>2. ASSUME NEW q \in Runners, q # r, Execute(q)
      PROVE  Claims(r)
  BY <1>2, ExecuteMoves, NoSuccessClaims DEF OnlyMoves
<1>3. ASSUME NEW q \in Runners, RecipeStep(q)
      PROVE  Claims(r)
  <2>1. at[q] # "running"
    BY <1>3 DEF RecipeStep, SkipStep, BlockStep, AdmitStep, BeginAttempt, GiveUp, FinishRecipe
  <2>2. q # r => results'[r] = results[r]
    BY <1>3 DEF RecipeStep, SkipStep, BlockStep, AdmitStep, BeginAttempt, GiveUp, FinishRecipe,
                StepDone, TypeOK
  <2> QED BY <2>1, <2>2, NoSuccessClaims DEF Claims
<1>4. CASE \/ Tick /\ UNCHANGED <<pc, local, world>>
           \/ UnitChanges \/ AppLogs \/ TempChanges \/ UserDeploys \/ Rollout \/ ObjectChanges
           \/ UNCHANGED allVars
  <2>1. UNCHANGED results
    BY <1>4 DEF Tick, UnitChanges, AppLogs, TempChanges, UserDeploys, Rollout, ObjectChanges,
                allVars, vars
  <2> QED BY <2>1, NoSuccessClaims
<1> QED BY <1>1, <1>2, <1>3, <1>4 DEF ActionsNext

\* A step that reports success did what it is for, on whatever attempt: for any
\* recipes, goroutines that interleave between the two calls of an action, and
\* changes by others.
THEOREM SuccessIsAchieved == ActionsSpec => SuccessMeansAchieved
<1>1. ActionsInv /\ WorldType /\ StoppedInv /\ [ActionsNext]_allVars =>
         [\A r \in Runners : Claims(r)]_allVars
  BY ClaimsStep
<1>2. ActionsSpec => [][\A r \in Runners : Claims(r)]_allVars
  BY <1>1, ActionsInvariant, WorldTypeInvariant, StoppedInvariant, PTL DEF ActionsSpec
<1> QED BY <1>2, PTL DEF SuccessMeansAchieved, Claims
=============================================================================
