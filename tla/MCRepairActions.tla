--------------------------- MODULE MCRepairActions ---------------------------
(* Small instances of RepairActions for TLC. *)
EXTENDS RepairActions

StepOf(a, n, f) == [action |-> a, retries |-> n, onFailureOnly |-> f, param |-> "given"]
With(a, n, p) == [StepOf(a, n, FALSE) EXCEPT !.param = p]

\* Every recipe of up to three steps over an allowed action ("restart"), one the
\* guardrails forbid ("shell_exec") and one nobody registered ("custom"), with
\* no, one or a negative number of retries.
StepChoices ==
    {StepOf("restart", n, f) : n \in {-1, 0, 1}, f \in BOOLEAN}
      \cup {StepOf(a, 0, FALSE) : a \in {"shell_exec", "custom"}}
AbstractRecipes == UNION {[1..n -> StepChoices] : n \in 0..3}

\* The recipes of configs/default.yaml, and what they leave out.
WaitStep == StepOf("wait", 0, FALSE)
ConcreteRecipes ==
    { <<With("restart_pod", 1, "given")>>,
      <<WaitStep, With("healthcheck", 0, "http"), StepOf("rollback_deployment", 0, TRUE)>>,
      <<With("restart_service", 1, "given"), WaitStep, With("healthcheck", 0, "process")>>,
      <<With("clear_temp", 0, "given"), With("rotate_logs", 1, "given"),
        With("healthcheck", 0, "disk")>>,
      <<With("webhook", 1, "given"), With("restart_container", 0, "given"), WaitStep,
        With("healthcheck", 0, "docker_container")>>,
      <<With("rollback_deployment", 1, "given"), With("healthcheck", 0, "http")>>,
      <<With("rotate_logs", 0, "given"), With("rotate_logs", 0, "given")>>,
      <<With("stop_service", 0, "given"), With("start_service", 0, "given"),
        With("healthcheck", 0, "tcp"), With("healthcheck", 0, "process_name")>>,
      <<With("stop_container", 0, "given"), With("start_container", 0, "given")>>,
      <<With("scale_replicas", 1, "given")>>,
      <<With("update_swarm_service", 1, "given"), With("healthcheck", 0, "docker_swarm")>>,
      <<With("webhook", 1, "none"), With("healthcheck", 0, "unknown")>> }
    \cup {<<With("healthcheck", 0, c)>> : c \in {"cpu", "memory", "certificate"}}

Recipes == AbstractRecipes \cup ConcreteRecipes

AllowedNames == {"restart", "custom"} \cup BuiltIn
RegisteredNames == {"restart", "shell_exec"} \cup BuiltIn
ParamChoices ==
    {"given", "none", "unknown", "http", "tcp", "process", "process_name", "disk", "cpu",
     "memory", "certificate", "docker_container", "docker_swarm"}

\* The cooldown nobody sets yet.
RestartCooldown == [a \in {"restart"} |-> 2]

Nominal ==
    [cpu |-> [ok |-> TRUE, usage |-> <<50>>], memory |-> [ok |-> TRUE, usage |-> 50],
     certificate |-> [ok |-> TRUE, hours |-> 2000],
     swarm |-> [ok |-> TRUE, state |-> "active", error |-> FALSE,
                managers |-> 3, reachable |-> 3]]
Swarm(o, s, e, m, n) ==
    [ok |-> o, state |-> s, error |-> e, managers |-> m, reachable |-> n]
Swarms ==
    {Swarm(TRUE, "active", FALSE, m, n) : m \in 0..4, n \in 0..4}
      \cup {Swarm(o, s, e, 3, 3) : o \in BOOLEAN, e \in BOOLEAN,
                                  s \in {"active", "pending", "error", "inactive"}}
HostChoices ==
    {[Nominal EXCEPT !.cpu = [ok |-> o, usage |-> u]] :
        o \in BOOLEAN, u \in {<< >>, <<90>>, <<91>>}}
      \cup {[Nominal EXCEPT !.memory = [ok |-> o, usage |-> u]] : o \in BOOLEAN, u \in {90, 91}}
      \cup {[Nominal EXCEPT !.certificate = [ok |-> o, hours |-> h]] :
              o \in BOOLEAN, h \in {-25, -1, 0, 23, 24, 719, 720, 721}}
      \cup {[Nominal EXCEPT !.swarm = s] : s \in Swarms}

\* Three revisions of the deployment in any order; two, or one, beside a replica
\* set of another.
Revision(n) == [template |-> <<"t1", "t2", "t3">>[n], revision |-> n, owned |-> TRUE]
Foreign == [template |-> "t9", revision |-> 5, owned |-> FALSE]
Lists ==
    SetToSeqs({Revision(1), Revision(2), Revision(3)})
      \cup {<<Foreign, Revision(3), Revision(2)>>, <<Revision(2), Revision(3), Foreign>>,
            <<Foreign, Revision(3)>>}
=============================================================================
