SPECIFICATION LiveSpec
CONSTANTS
    None = None
    Clients = {c1, c2}
    Runners = {r1, r2, r3, r4}
    Ops = {"start", "stop", "pause", "reset", "set", "update", "delete"}
    Schedules = {TRUE, FALSE}
    MaxRestarts = 1
    MaxWork = 3
INVARIANTS
    ResetHolds
    OneRunPerGeneration
PROPERTIES
    NoRunAgainstIntent
    EndIsObserved
CHECK_DEADLOCK FALSE
