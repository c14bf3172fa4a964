SPECIFICATION Spec
CONSTANTS
    w1 = w1
    w2 = w2
    Work = {w1, w2}
    MaxReopens = 1
    MaxOpens = 3
    Scenarios <- Sessions
INVARIANTS TypeOK HandleHasOwner ResetsAreBounded
PROPERTIES WorkIsKept ServiceResumes
CHECK_DEADLOCK FALSE
