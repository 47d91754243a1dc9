-------------------------- MODULE MCAgentLifecycle --------------------------
(* A small instance of AgentLifecycle for TLC. *)
EXTENDS AgentLifecycle

Check(name, type, interval, timeout) ==
    [name |-> name, type |-> type, interval |-> interval, timeout |-> timeout]
Restart == [action |-> "restart_container"]
Wait == [action |-> "wait"]
Recipe(name, steps) == [name |-> name, steps |-> steps]
Rule(check, recipe) == [rule |-> "r", check |-> check, recipe |-> recipe]

CheckLists == {
    << >>,
    <<Check("web", "http", 30, 0), Check("db", "tcp", 15, 5)>>,
    <<Check("web", "http", 30, 0), Check("typo", "htpt", 30, 0)>>,
    <<Check("web", "http", 30, 0), Check("web", "tcp", 15, 5)>>,
    <<Check("web", "http", 0, 0)>>,
    <<Check("web", "http", 30, -1)>>}
RecipeLists == {<< >>, <<Recipe("fix", <<Restart, Wait>>)>>,
                <<Recipe("fix", << >>), Recipe("fix", << >>)>>}
RuleLists == {<< >>, <<Rule("web", "fix"), Rule("web", "fix")>>, <<Rule("other", "fix")>>,
              <<Rule("web", "other")>>}

\* One section of the file at a time is unlike the example configuration.
Others == {
    << >>,
    [workers |-> 0],
    [storage |-> ""],
    [metrics |-> FALSE, metricsPort |-> 0, bufferSize |-> 0],
    [metricsPort |-> 0],
    [kubernetes |-> "false", logLevel |-> "verbose"],
    [kubernetes |-> "maybe"],
    [agentUUID |-> "uuid", apiKey |-> "key"],
    [agentUUID |-> "uuid", apiKey |-> "key", endpoint |-> ""],
    [agentUUID |-> "uuid", endpoint |-> "", kubernetes |-> "false"]}

Lists(cs, ps, rs) == [checks |-> cs, recipes |-> ps, repairs |-> rs]

MCFiles ==
    {Lists(cs, ps, rs) : cs \in CheckLists, ps \in RecipeLists, rs \in RuleLists}
    \cup {other @@ Lists(cs, ps, rs) :
            cs \in {<<Check("web", "http", 30, 0)>>}, ps \in {<<Recipe("fix", <<Restart, Wait>>)>>},
            rs \in {<<Rule("web", "fix")>>}, other \in Others}
=============================================================================
