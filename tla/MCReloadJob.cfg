\* Two pod deaths, two failing calls and an operator abort.
SPECIFICATION Spec
CONSTANTS
    Order <- MCOrder
    Deps <- MCDeps
    Resources <- MCResources
    Concurrency = 2
    Verify = "verify"
    NeedsClient = {"profiles"}
    MaxCrashes = 2
    MaxFaults = 2
    MaxAborts = 1
INVARIANTS
    CompleteMeansDone
    GateJudgedThisLife
PROPERTIES
    DoneStaysDone
    JobEnds
CHECK_DEADLOCK FALSE
