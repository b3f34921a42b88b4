\* Three candidates, two workers, two rounds; a cap two failures reach.
SPECIFICATION Spec
CONSTANTS
    Total = 3
    Concurrency = 2
    Handled = {"enriched", "skipped"}
    Sweeps = TRUE
    MaxRounds = 2
    Cap = 2
INVARIANTS
    ClaimedOnce
    CountsExact
    SummaryMatchesGraph
PROPERTIES
    RunEnds
CHECK_DEADLOCK FALSE
