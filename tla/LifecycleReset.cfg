SPECIFICATION Spec
CONSTANTS
    None = None
    Clients = {c1}
    Runners = {r1, r2}
    Ops = {"start", "stop", "reset"}
    Schedules = {FALSE}
    MaxRestarts = 0
    MaxWork = 3
INVARIANTS
    OlderWritesAreRejected
CHECK_DEADLOCK FALSE
