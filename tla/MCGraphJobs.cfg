\* Any asynchronous route beside a wipe.
SPECIFICATION Spec
CONSTANTS
    Requests = {r1, r2}
    Routes <- MCRoutes
    MCFirst = r1
    Pipelines = {lyrics}
    Keep = 1
    MaxJobs = 2
    MaxCrashes = 1
    MaxFaults = 1
INVARIANTS
    SerialReloads
    NoOrphanJob
    FlagNotLeaked
PROPERTIES
    NothingStartsDuringReload
    WipeSparesEarlierReload
CHECK_DEADLOCK FALSE
