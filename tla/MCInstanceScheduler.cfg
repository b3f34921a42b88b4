\* Overlapping invocations, failing calls.
SPECIFICATION Spec
CONSTANTS
    Tasks = {t1, t2}
    Alarms = {status, health}
    MaxFaults = 2
    AsyncRetries = 1
SYMMETRY MCSymmetry
INVARIANTS
    MonitoredWhenRunning
    NoSilentAlarm
PROPERTY
    QuietSleep
CHECK_DEADLOCK FALSE
