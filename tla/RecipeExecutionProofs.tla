------------------------ MODULE RecipeExecutionProofs ------------------------
(***************************************************************************)
(* Theorems about the execution of recipes, for every set of recipes,      *)
(* every number of goroutines and every configuration of the guardrails.   *)
(***************************************************************************)
EXTENDS RecipeExecution, TLAPS

\* A runner has a step wherever it is inside one.
StepInHand ==
    \A r \in Runners : at[r] \in {"trying", "running"} => HasStep(r)

\* The flag is set only by the step just before, which failed: a skipped step
\* keeps the flag, and is skipped only while it is clear.
FlagNamesLastStep ==
    \A r \in Runners : previousFailed[r] =>
       results[r] # << >> /\ results[r][Len(results[r])] = "failed"

\* An on-failure step is entered with the flag set.
OnFailureStepAdmitted ==
    \A r \in Runners : at[r] \in {"trying", "running"} =>
       (Current(r).onFailureOnly => previousFailed[r])

\* The inductive invariant.
RecipeInv ==
    TypeOK /\ StepInHand /\ FlagNamesLastStep /\ OnFailureStepAdmitted
      /\ OnFailureStepFollowsFailure

\* The step in hand is a step.
LEMMA CurrentIsStep ==
    ASSUME TypeOK, NEW r \in Runners, HasStep(r)
    PROVE  Current(r) \in Step
<1>1. recipe[r] \in Seq(Step)
  BY RecipeConstants DEF TypeOK
<1>2. Len(results[r]) \in Nat /\ Len(recipe[r]) \in Nat
  BY <1>1 DEF TypeOK
<1> QED BY <1>1, <1>2 DEF HasStep, Current

\* What the bookkeeping after a step does to the goroutine's own results.
LEMMA StepDoneKeeps ==
    ASSUME RecipeInv, NEW r \in Runners, NEW outcome \in StepStatuses,
           StepDone(r, outcome), UNCHANGED <<recipe, attempt, status>>,
           HasStep(r),
           outcome = "skipped" <=> Skippable(r),
           DOMAIN lastExecution' \subseteq Actions, now' \in 0..MaxTime
    PROVE  RecipeInv'
<1> USE DEF RecipeInv
<1>1. TypeOK'
  <2>1. results' \in [Runners -> Seq(StepStatuses)]
    BY DEF StepDone, TypeOK
  <2> QED BY <2>1 DEF StepDone, TypeOK
<1>2. \A q \in Runners \ {r} :
         /\ at'[q] = at[q] /\ previousFailed'[q] = previousFailed[q]
         /\ results'[q] = results[q] /\ recipe'[q] = recipe[q]
  BY DEF StepDone, TypeOK
<1>3. /\ at'[r] = "loop" /\ recipe'[r] = recipe[r]
      /\ results'[r] = Append(results[r], outcome)
      /\ previousFailed'[r] = IF outcome = "skipped" THEN previousFailed[r]
                              ELSE outcome = "failed"
  BY DEF StepDone, TypeOK
<1>4. results[r] \in Seq(StepStatuses)
  BY DEF TypeOK
<1>5. StepInHand'
  BY <1>2, <1>3 DEF StepInHand, HasStep
<1>6. FlagNamesLastStep'
  <2>1. previousFailed'[r] => outcome = "failed"
    BY <1>3 DEF Skippable
  <2>2. previousFailed'[r] =>
           results'[r] # << >> /\ results'[r][Len(results'[r])] = "failed"
    <3>1. results'[r] # << >> /\ results'[r][Len(results'[r])] = outcome
      BY <1>3, <1>4
    <3> QED BY <2>1, <3>1
  <2> QED BY <2>2, <1>2 DEF FlagNamesLastStep
<1>7. OnFailureStepAdmitted'
  BY <1>2, <1>3 DEF OnFailureStepAdmitted, Current
<1>8. OnFailureStepFollowsFailure'
  <2> SUFFICES ASSUME NEW i \in DOMAIN results'[r], recipe'[r][i].onFailureOnly,
                      results'[r][i] # "skipped"
               PROVE  i > 1 /\ results'[r][i - 1] = "failed"
    BY <1>2 DEF OnFailureStepFollowsFailure
  <2> DEFINE n == Len(results[r])
  <2>1. n \in Nat /\ i \in 1..(n + 1)
    BY <1>3, <1>4
  <2>2. CASE i \in 1..n
    <3>1. results'[r][i] = results[r][i] /\ i \in DOMAIN results[r]
      BY <2>1, <2>2, <1>3, <1>4
    <3>2. i > 1 /\ results[r][i - 1] = "failed"
      BY <3>1, <1>3 DEF OnFailureStepFollowsFailure
    <3> QED BY <3>2, <2>1, <2>2, <1>3, <1>4
  <2>3. CASE i = n + 1
    <3>1. results'[r][i] = outcome
      BY <2>1, <2>3, <1>3, <1>4
    <3>2. previousFailed[r]
      BY <3>1, <2>3, <1>3 DEF Skippable, Current
    <3>3. n > 0 /\ results[r][n] = "failed"
      BY <3>2, <1>4, <2>1 DEF FlagNamesLastStep
    <3> QED BY <3>3, <2>1, <2>3, <1>3, <1>4
  <2> QED BY <2>1, <2>2, <2>3
<1> QED BY <1>1, <1>5, <1>6, <1>7, <1>8

\* Every step of a goroutine keeps the invariant.
LEMMA RunnerKeeps ==
    ASSUME RecipeInv, NEW r \in Runners, Runner(r)
    PROVE  RecipeInv'
<1> USE DEF RecipeInv
<1>1. DOMAIN lastExecution \subseteq Actions /\ now \in 0..MaxTime
  BY DEF TypeOK
<1>2. CASE SkipStep(r)
  BY <1>1, <1>2, StepDoneKeeps DEF SkipStep, StepStatuses
<1>3. CASE BlockStep(r)
  BY <1>1, <1>3, StepDoneKeeps DEF BlockStep, StepStatuses
<1>4. CASE AdmitStep(r)
  <2>1. TypeOK'
    BY <1>4 DEF AdmitStep, TypeOK
  <2>2. \A q \in Runners : at'[q] \in {"trying", "running"} =>
           q = r \/ (q # r /\ at'[q] = at[q])
    BY <1>4 DEF AdmitStep, TypeOK
  <2>3. StepInHand'
    BY <1>4, <2>2 DEF AdmitStep, StepInHand, HasStep
  <2>4. FlagNamesLastStep' /\ OnFailureStepFollowsFailure'
    BY <1>4 DEF AdmitStep, FlagNamesLastStep, OnFailureStepFollowsFailure
  <2>5. OnFailureStepAdmitted'
    BY <1>4, <2>2 DEF AdmitStep, OnFailureStepAdmitted, Current, Skippable
  <2> QED BY <2>1, <2>3, <2>4, <2>5
<1>5. CASE BeginAttempt(r) \/ AttemptFails(r)
  <2> USE DEF BeginAttempt, AttemptFails
  <2>1. TypeOK'
    <3>1. at' \in [Runners -> {"loop", "trying", "running", "done"}]
      BY <1>5 DEF TypeOK
    <3>2. attempt' = attempt \/ attempt' = [attempt EXCEPT ![r] = @ + 1]
      BY <1>5
    <3>3. attempt \in [Runners -> Nat] /\ attempt[r] + 1 \in Nat
      BY DEF TypeOK
    <3>4. attempt' \in [Runners -> Nat]
      BY <3>2, <3>3
    <3> QED BY <1>5, <3>1, <3>4 DEF TypeOK
  <2>2. /\ at[r] \in {"trying", "running"}
        /\ \A q \in Runners \ {r} : at'[q] = at[q]
        /\ UNCHANGED <<recipe, previousFailed, results>>
    BY <1>5 DEF TypeOK
  <2>3. StepInHand' /\ OnFailureStepAdmitted'
    BY <2>2 DEF StepInHand, OnFailureStepAdmitted, HasStep, Current
  <2>4. FlagNamesLastStep' /\ OnFailureStepFollowsFailure'
    BY <2>2 DEF FlagNamesLastStep, OnFailureStepFollowsFailure
  <2> QED BY <2>1, <2>3, <2>4
<1>6. CASE AttemptSucceeds(r)
  <2>1. HasStep(r) /\ ~Skippable(r)
    BY <1>6 DEF AttemptSucceeds, StepInHand, OnFailureStepAdmitted, Skippable
  <2>2. DOMAIN lastExecution' \subseteq Actions
    BY <1>1, <1>6, <2>1, CurrentIsStep DEF AttemptSucceeds, RecordActionExecution, Step
  <2> QED BY <1>1, <1>6, <2>1, <2>2, StepDoneKeeps DEF AttemptSucceeds, StepStatuses
<1>7. CASE GiveUp(r)
  <2>1. HasStep(r) /\ ~Skippable(r)
    BY <1>7 DEF GiveUp, StepInHand, OnFailureStepAdmitted, Skippable
  <2> QED BY <1>1, <1>7, <2>1, StepDoneKeeps DEF GiveUp, StepStatuses
<1>8. CASE FinishRecipe(r)
  <2>1. TypeOK'
    BY <1>8 DEF FinishRecipe, OverallStatus, TypeOK
  <2>2. /\ at'[r] = "done" /\ \A q \in Runners \ {r} : at'[q] = at[q]
        /\ UNCHANGED <<recipe, previousFailed, results>>
    BY <1>8 DEF FinishRecipe, TypeOK
  <2>3. StepInHand' /\ OnFailureStepAdmitted'
    BY <2>2 DEF StepInHand, OnFailureStepAdmitted, HasStep, Current
  <2>4. FlagNamesLastStep' /\ OnFailureStepFollowsFailure'
    BY <2>2 DEF FlagNamesLastStep, OnFailureStepFollowsFailure
  <2> QED BY <2>1, <2>3, <2>4
<1> QED BY <1>2, <1>3, <1>4, <1>5, <1>6, <1>7, <1>8 DEF Runner

\* The invariant holds in every behaviour of the recipes.
LEMMA RecipeInvariant == Spec => []RecipeInv
<1>1. Init => RecipeInv
  <2> SUFFICES ASSUME Init PROVE RecipeInv
    OBVIOUS
  <2>1. TypeOK
    BY RecipeConstants DEF Init, TypeOK
  <2>2. StepInHand /\ FlagNamesLastStep /\ OnFailureStepAdmitted
    BY DEF Init, StepInHand, FlagNamesLastStep, OnFailureStepAdmitted
  <2>3. OnFailureStepFollowsFailure
    BY DEF Init, OnFailureStepFollowsFailure
  <2> QED BY <2>1, <2>2, <2>3 DEF RecipeInv
<1>2. RecipeInv /\ [Next]_vars => RecipeInv'
  <2> SUFFICES ASSUME RecipeInv, [Next]_vars PROVE RecipeInv'
    OBVIOUS
  <2>1. CASE Tick
    BY <2>1, RecipeConstants
       DEF Tick, RecipeInv, TypeOK, StepInHand, FlagNamesLastStep, OnFailureStepAdmitted,
           OnFailureStepFollowsFailure, HasStep, Current
  <2>2. CASE UNCHANGED vars
    BY <2>2
       DEF vars, RecipeInv, TypeOK, StepInHand, FlagNamesLastStep, OnFailureStepAdmitted,
           OnFailureStepFollowsFailure, HasStep, Current
  <2> QED BY <2>1, <2>2, RunnerKeeps DEF Next
<1> QED BY <1>1, <1>2, PTL DEF Spec

\* An on-failure step is executed only right after a step that failed, in every
\* recipe, with any number of recipes running: executeRecipe's previousFailed.
THEOREM OnFailureStepsFollowFailures == Spec => []OnFailureStepFollowsFailure
<1>1. RecipeInv => OnFailureStepFollowsFailure
  BY DEF RecipeInv
<1> QED BY <1>1, RecipeInvariant, PTL

-----------------------------------------------------------------------------
(* Progress *)

\* A goroutine leaves the others where they are.
LEMMA OthersStay ==
    ASSUME TypeOK, NEW r \in Runners, Runner(r), NEW p \in Runners \ {r}
    PROVE  /\ at'[p] = at[p] /\ attempt'[p] = attempt[p]
           /\ results'[p] = results[p] /\ recipe' = recipe /\ now' = now
BY DEF TypeOK, Runner, SkipStep, BlockStep, AdmitStep, BeginAttempt, AttemptSucceeds, AttemptFails,
       GiveUp, FinishRecipe, StepDone

\* No goroutine is past its last place.
ReachInv == \A r \in Runners : InReach(r)

Advance(r) ==
    /\ InReach(r)'
    /\ \/ Len(results[r]) < Len(results'[r])
       \/ results'[r] = results[r] /\ Place(r) < Place(r)'

\* The end of a step: the goroutine had one, so it has a result for each at most.
LEMMA StepDoneAdvances ==
    ASSUME TypeOK, NEW r \in Runners, HasStep(r), NEW outcome, StepDone(r, outcome),
           UNCHANGED recipe
    PROVE  Advance(r)
<1>1. results[r] \in Seq(StepStatuses) /\ recipe[r] \in Seq(Step)
  BY RecipeConstants DEF TypeOK
<1>2. results'[r] = Append(results[r], outcome) /\ at'[r] = "loop" /\ recipe'[r] = recipe[r]
  BY DEF StepDone, TypeOK
<1>3. Len(results'[r]) = Len(results[r]) + 1 /\ Len(results[r]) \in Nat /\ Len(recipe[r]) \in Nat
  BY <1>1, <1>2
<1> QED BY <1>2, <1>3 DEF Advance, InReach, HasStep

LEMMA RunnerAdvances ==
    ASSUME RecipeInv, ReachInv, NEW r \in Runners, Runner(r)
    PROVE  Advance(r)
<1> USE DEF RecipeInv
<1>1. InReach(r) /\ attempt[r] \in Nat
  BY DEF ReachInv, TypeOK
<1>2. CASE SkipStep(r) \/ BlockStep(r)
  BY <1>2, StepDoneAdvances DEF SkipStep, BlockStep
<1>3. CASE AttemptSucceeds(r) \/ GiveUp(r)
  <2>1. HasStep(r)
    BY <1>3 DEF AttemptSucceeds, GiveUp, StepInHand
  <2> QED BY <1>3, <2>1, StepDoneAdvances DEF AttemptSucceeds, GiveUp
<1>4. CASE AdmitStep(r)
  <2>1. /\ at[r] = "loop" /\ at'[r] = "trying" /\ attempt'[r] = 0
        /\ recipe' = recipe /\ results' = results
    BY <1>4 DEF AdmitStep, TypeOK
  <2>2. Place(r) = 0 /\ Place(r)' = 1
    BY <2>1 DEF Place
  <2>3. MaxAttempts(r)' > 0 => 0 <= MaxAttempts(r)'
    <3>1. Current(r)' = Current(r) /\ HasStep(r)
      BY <1>4, <2>1 DEF Current, AdmitStep
    <3>2. MaxAttempts(r)' \in Int
      BY <3>1, CurrentIsStep DEF MaxAttempts, Step
    <3> QED BY <3>2
  <2> QED BY <1>1, <2>1, <2>2, <2>3 DEF Advance, InReach
<1>5. CASE BeginAttempt(r)
  <2>1. /\ at[r] = "trying" /\ at'[r] = "running" /\ attempt'[r] = attempt[r] + 1
        /\ attempt[r] < MaxAttempts(r) /\ recipe' = recipe /\ results' = results
    BY <1>5 DEF BeginAttempt, TypeOK
  <2>2. Place(r) = 1 + 2 * attempt[r] /\ Place(r)' = 2 * (attempt[r] + 1)
    BY <2>1 DEF Place
  <2>3. MaxAttempts(r)' = MaxAttempts(r) /\ MaxAttempts(r) \in Int
    <3>1. HasStep(r)
      BY <2>1 DEF StepInHand
    <3> QED BY <2>1, <3>1, CurrentIsStep DEF MaxAttempts, Current, Step
  <2> QED BY <1>1, <2>1, <2>2, <2>3 DEF Advance, InReach
<1>6. CASE AttemptFails(r)
  <2>1. /\ at[r] = "running" /\ at'[r] = "trying" /\ attempt'[r] = attempt[r]
        /\ recipe' = recipe /\ results' = results
    BY <1>6 DEF AttemptFails, TypeOK
  <2>2. Place(r) = 2 * attempt[r] /\ Place(r)' = 1 + 2 * attempt[r]
    BY <2>1 DEF Place
  <2>3. MaxAttempts(r)' = MaxAttempts(r)
    BY <2>1 DEF MaxAttempts, Current
  <2> QED BY <1>1, <2>1, <2>2, <2>3 DEF Advance, InReach
<1>7. CASE FinishRecipe(r)
  <2>1. /\ at[r] = "loop" /\ at'[r] = "done" /\ recipe' = recipe /\ results' = results
    BY <1>7 DEF FinishRecipe, TypeOK
  <2>2. Place(r) = 0 /\ Place(r)' = 1
    BY <2>1 DEF Place
  <2> QED BY <1>1, <2>1, <2>2 DEF Advance, InReach
<1> QED BY <1>2, <1>3, <1>4, <1>5, <1>6, <1>7 DEF Runner

\* The others keep their places.
LEMMA AdvanceStep ==
    ASSUME RecipeInv, ReachInv, [Next]_vars, NEW p \in Runners
    PROVE  /\ recipe'[p] = recipe[p] /\ InReach(p)'
           /\ UNCHANGED <<at[p], attempt[p], results[p]>> \/ Advance(p)
<1>1. ASSUME UNCHANGED <<at[p], attempt[p], results[p]>>, recipe' = recipe PROVE InReach(p)'
  BY <1>1 DEF ReachInv, InReach, MaxAttempts, Current
<1>2. CASE Tick \/ UNCHANGED vars
  BY <1>1, <1>2 DEF Tick, vars
<1>3. ASSUME NEW r \in Runners, Runner(r), p # r
      PROVE  UNCHANGED <<at[p], attempt[p], results[p]>> /\ recipe' = recipe
  BY <1>3, OthersStay DEF RecipeInv
<1>4. ASSUME Runner(p) PROVE Advance(p) /\ recipe' = recipe
  <2>1. recipe' = recipe
    BY <1>4 DEF Runner, SkipStep, BlockStep, AdmitStep, BeginAttempt, AttemptSucceeds,
                AttemptFails, GiveUp, FinishRecipe
  <2> QED BY <1>4, <2>1, RunnerAdvances
<1> QED BY <1>1, <1>2, <1>3, <1>4 DEF Next, Advance

\* RecipeAdvances, for recipes of any length, any retry counts, negative ones
\* included, and any number of goroutines: what the end of a recipe rests on,
\* beside the fairness that every action returns.
THEOREM RecipesAdvance == Spec => RecipeAdvances
<1>1. Init => ReachInv
  BY RecipeConstants DEF Init, ReachInv, InReach
<1>2. RecipeInv /\ ReachInv /\ [Next]_vars => ReachInv'
  BY AdvanceStep DEF ReachInv
<1>3. RecipeInv /\ ReachInv /\ [Next]_vars =>
        \A r \in Runners :
          /\ recipe'[r] = recipe[r]
          /\ UNCHANGED <<at[r], attempt[r], results[r]>>
             \/ /\ InReach(r)'
                /\ \/ Len(results[r]) < Len(results'[r])
                   \/ results'[r] = results[r] /\ Place(r) < Place(r)'
  BY AdvanceStep DEF Advance
<1> QED BY <1>1, <1>2, <1>3, RecipeInvariant, PTL DEF Spec, RecipeAdvances
=============================================================================
