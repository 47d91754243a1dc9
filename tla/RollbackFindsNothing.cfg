SPECIFICATION ActionsSpec
CONSTANTS
    Runners = {r1}
    RecipeSet <- Recipes
    Allowed <- AllowedNames
    Forbidden = {"shell_exec"}
    Registered <- RegisteredNames
    Cooldowns <- RestartCooldown
    Params <- ParamChoices
    MaxTime = 2
    MaxEvents = 1
    MaxEntries = 4
    DiskSize = 10
    OtherData = 3
    Hosts <- HostChoices
    ReplicaSetLists <- Lists
INVARIANT RollbackFindsSecondHighest
CHECK_DEADLOCK FALSE
