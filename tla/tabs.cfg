SPECIFICATION Spec
CONSTANTS
    left = left
    right = right
    None = None
    Tab = {left, right}
    Flaky = {left}
    Callers = {right}
    Leavers = {right}
    Resetters = {right}
    MaxBootRetries = 1
    MaxReelections = 1
    MaxCalls = 1
    MaxFailures = 4
    MaxCrashes = 1
    MaxLag = 1
    MaxDepartures = 1
INVARIANTS TypeOK OwnerHoldsLock HolderIsBusy OncePerLeader BootsAreBounded
PROPERTIES LeavesOnlyForALeader WaiterServed CallsSurviveHandOff
CHECK_DEADLOCK FALSE
