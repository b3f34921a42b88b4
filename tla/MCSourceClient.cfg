\* Three callers, and a breaker with or without a cooldown.
SPECIFICATION ClientSpec
CONSTANTS
    Callers = {c1, c2, c3}
    Threshold = 2
    Cooldown = 2
    MaxRetries = 1
INVARIANTS
    HalfOpenHasProbe
PROPERTIES
    CallsSettle
CHECK_DEADLOCK FALSE
