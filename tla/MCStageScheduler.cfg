\* Spec of the scheduler from every set of stages already done.
SPECIFICATION Spec
CONSTANTS
    Order <- MCOrder
    Deps <- MCDeps
    Resources <- MCResources
    Concurrency = 2
    AlreadyDone <- MCAlreadyDone
INVARIANTS
    WorkConserving
PROPERTIES
    ImplementsPromise
    EveryStageSettles
CHECK_DEADLOCK FALSE
