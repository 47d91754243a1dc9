--------------------------- MODULE RecipeExecution ---------------------------
(***************************************************************************)
(* internal/repair: executeRecipe and executeStep, with the action         *)
(* guardrails they consult.  Several goroutines (Runners) execute recipes  *)
(* at once and share the guardrails' lastExecution map; an action takes    *)
(* time and succeeds or fails, so other runners move while it is running.  *)
(* RepairActions says what the built-in actions do.                        *)
(***************************************************************************)
EXTENDS Integers, Sequences, FiniteSets, SequencesExt

CONSTANTS
    Runners,        \* goroutines executing a recipe
    RecipeSet,      \* the recipes a runner may be given: sequences of steps
    Allowed,        \* guardrails.allowedActions
    Forbidden,      \* guardrails.forbiddenActions
    Registered,     \* names in the ActionRegistry
    Cooldowns,      \* guardrails.cooldowns: action -> ticks, a partial function
    Params,         \* what a step passes to its action
    MaxTime         \* bound: number of ticks

Actions == Allowed \cup Forbidden \cup Registered
Step == [action : Actions, retries : Int, onFailureOnly : BOOLEAN, param : Params]

ASSUME RecipeConstants ==
    /\ RecipeSet \subseteq Seq(Step)
    /\ DOMAIN Cooldowns \subseteq Actions
    /\ \A a \in DOMAIN Cooldowns : Cooldowns[a] \in Nat
    /\ MaxTime \in Nat

VARIABLES
    recipe,         \* runner -> the recipe it executes
    at,             \* runner -> "loop", "trying", "running" or "done"
    attempt,        \* runner -> attempts of the current step so far
    previousFailed, \* runner -> the flag of the same name
    results,        \* runner -> statuses of the steps done: result.StepResults
    status,         \* runner -> result.Status
    lastExecution,  \* guardrails.lastExecution: action -> time
    now

vars == <<recipe, at, attempt, previousFailed, results, status, lastExecution, now>>

StepStatuses == {"success", "failed", "skipped"}

TypeOK ==
    /\ recipe \in [Runners -> RecipeSet]
    /\ at \in [Runners -> {"loop", "trying", "running", "done"}]
    /\ attempt \in [Runners -> Nat]
    /\ previousFailed \in [Runners -> BOOLEAN]
    /\ results \in [Runners -> Seq(StepStatuses)]
    /\ status \in [Runners -> {"running", "success", "failed"}]
    /\ DOMAIN lastExecution \subseteq Actions
    /\ now \in 0..MaxTime

-----------------------------------------------------------------------------
\* The step runner r is at; the steps before it have their results.
Current(r) == recipe[r][Len(results[r]) + 1]
HasStep(r) == Len(results[r]) < Len(recipe[r])
MaxAttempts(r) == 1 + Current(r).retries

\* CheckAction returns nil.
CheckAction(a) ==
    /\ a \notin Forbidden
    /\ Allowed # {} => a \in Allowed
    /\ a \in DOMAIN Cooldowns \cap DOMAIN lastExecution =>
         now - lastExecution[a] >= Cooldowns[a]

RecordActionExecution(a) ==
    lastExecution' = [x \in DOMAIN lastExecution \cup {a} |->
                        IF x = a THEN now ELSE lastExecution[x]]

\* Mutant: a success does not clear the flag.
StepDoneStickyFailure(r, outcome) ==
    /\ results' = [results EXCEPT ![r] = Append(@, outcome)]
    /\ previousFailed' = [previousFailed EXCEPT ![r] = @ \/ outcome = "failed"]
    /\ at' = [at EXCEPT ![r] = "loop"]

\* executeRecipe's bookkeeping after a step, skipped or executed.
StepDone(r, outcome) ==
    /\ results' = [results EXCEPT ![r] = Append(@, outcome)]
    /\ previousFailed' = [previousFailed EXCEPT ![r] =
                            IF outcome = "skipped" THEN @ ELSE outcome = "failed"]
    /\ at' = [at EXCEPT ![r] = "loop"]

-----------------------------------------------------------------------------
Skippable(r) == Current(r).onFailureOnly /\ ~previousFailed[r]

SkipStep(r) ==
    /\ at[r] = "loop" /\ HasStep(r)
    /\ Skippable(r)
    /\ StepDone(r, "skipped")
    /\ UNCHANGED <<recipe, attempt, status, lastExecution, now>>

\* The guardrails refuse the action, or the registry does not have it.
BlockStep(r) ==
    /\ at[r] = "loop" /\ HasStep(r)
    /\ ~Skippable(r)
    /\ ~CheckAction(Current(r).action) \/ Current(r).action \notin Registered
    /\ StepDone(r, "failed")
    /\ UNCHANGED <<recipe, attempt, status, lastExecution, now>>

AdmitStep(r) ==
    /\ at[r] = "loop" /\ HasStep(r)
    /\ ~Skippable(r)
    /\ CheckAction(Current(r).action) /\ Current(r).action \in Registered
    /\ at' = [at EXCEPT ![r] = "trying"]
    /\ attempt' = [attempt EXCEPT ![r] = 0]
    /\ UNCHANGED <<recipe, previousFailed, results, status, lastExecution, now>>

\* Mutant: the attempt is not counted.
BeginAttemptUncounted(r) ==
    /\ at[r] = "trying"
    /\ attempt[r] < MaxAttempts(r)
    /\ at' = [at EXCEPT ![r] = "running"]
    /\ UNCHANGED <<recipe, attempt, previousFailed, results, status, lastExecution, now>>

BeginAttempt(r) ==
    /\ at[r] = "trying"
    /\ attempt[r] < MaxAttempts(r)
    /\ at' = [at EXCEPT ![r] = "running"]
    /\ attempt' = [attempt EXCEPT ![r] = @ + 1]
    /\ UNCHANGED <<recipe, previousFailed, results, status, lastExecution, now>>

\* action.Execute returns nil.
AttemptSucceeds(r) ==
    /\ at[r] = "running"
    /\ RecordActionExecution(Current(r).action)
    /\ StepDone(r, "success")
    /\ UNCHANGED <<recipe, attempt, status, now>>

\* action.Execute returns an error: its own, the step's timeout, or cancellation.
AttemptFails(r) ==
    /\ at[r] = "running"
    /\ at' = [at EXCEPT ![r] = "trying"]
    /\ UNCHANGED <<recipe, attempt, previousFailed, results, status, lastExecution, now>>

\* The attempts are used up; a negative retry count leaves none.
GiveUp(r) ==
    /\ at[r] = "trying"
    /\ attempt[r] >= MaxAttempts(r)
    /\ StepDone(r, "failed")
    /\ UNCHANGED <<recipe, attempt, status, lastExecution, now>>

\* Mutant: the last step counts even when it was skipped.
LastStepStatus(steps) == IF steps = << >> THEN "success" ELSE Last(steps)

\* The status of the last step that was not skipped; success if all were.
OverallStatus(steps) ==
    LET executed == SelectSeq(steps, LAMBDA s : s # "skipped")
    IN  IF executed # << >> /\ Last(executed) = "failed" THEN "failed" ELSE "success"

FinishRecipe(r) ==
    /\ at[r] = "loop" /\ ~HasStep(r)
    /\ status' = [status EXCEPT ![r] = OverallStatus(results[r])]
    /\ at' = [at EXCEPT ![r] = "done"]
    /\ UNCHANGED <<recipe, attempt, previousFailed, results, lastExecution, now>>

Tick ==
    /\ now < MaxTime
    /\ now' = now + 1
    /\ UNCHANGED <<recipe, at, attempt, previousFailed, results, status, lastExecution>>

-----------------------------------------------------------------------------
Init ==
    /\ recipe \in [Runners -> RecipeSet]
    /\ at = [r \in Runners |-> "loop"]
    /\ attempt = [r \in Runners |-> 0]
    /\ previousFailed = [r \in Runners |-> FALSE]
    /\ results = [r \in Runners |-> << >>]
    /\ status = [r \in Runners |-> "running"]
    /\ lastExecution = << >>
    /\ now = 0

Runner(r) ==
    \/ SkipStep(r) \/ BlockStep(r) \/ AdmitStep(r)
    \/ BeginAttempt(r) \/ AttemptSucceeds(r) \/ AttemptFails(r) \/ GiveUp(r)
    \/ FinishRecipe(r)

Next == Tick \/ \E r \in Runners : Runner(r)

Spec == Init /\ [][Next]_vars
\* Goroutines run, and every action returns: each takes a context or has a bound
\* of its own.
FairSpec == Spec /\ \A r \in Runners : WF_vars(Runner(r))

-----------------------------------------------------------------------------
\* "this step is only executed if a previous step failed" (RecipeStep): more
\* exactly, the step just before it was executed and failed, so a recovery that
\* worked ends the on-failure branch.
OnFailureStepFollowsFailure ==
    \A r \in Runners : \A i \in DOMAIN results[r] :
       recipe[r][i].onFailureOnly /\ results[r][i] # "skipped" =>
          i > 1 /\ results[r][i - 1] = "failed"

\* How far a goroutine is within the step in hand.
Place(r) ==
    CASE at[r] = "loop"    -> 0
      [] at[r] = "trying"  -> 1 + 2 * attempt[r]
      [] at[r] = "running" -> 2 * attempt[r]
      [] at[r] = "done"    -> 1

\* The last places of a step and of a recipe.
InReach(r) ==
    /\ Len(results[r]) <= Len(recipe[r])
    /\ at[r] \in {"trying", "running"} =>
         attempt[r] <= IF MaxAttempts(r) > 0 THEN MaxAttempts(r) ELSE 0

\* No step of a goroutine is in vain, whatever retries a recipe asks for and others
\* do meanwhile: it ends a step of the recipe, or it gets further in the one in
\* hand, up to a fixed last place.  So an agent executes each action at most
\* retries + 1 times and ends every recipe whose actions return (the two loops of
\* executeStep and executeRecipe).
RecipeAdvances ==
    [][\A r \in Runners :
          /\ recipe'[r] = recipe[r]
          /\ UNCHANGED <<at[r], attempt[r], results[r]>>
             \/ /\ InReach(r)'
                /\ \/ Len(results[r]) < Len(results'[r])
                   \/ results'[r] = results[r] /\ Place(r) < Place(r)']_vars

\* Every recipe comes to an end, however its attempts fail.
RecipeTerminates == \A r \in Runners : <>(at[r] = "done")
=============================================================================
