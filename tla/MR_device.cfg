\* What "module insertion success" stands for.
SPECIFICATION Spec
CONSTANTS
    Procs = {p1}
    MaxLoads = 1
INVARIANT InsertedHasDevice
CHECK_DEADLOCK FALSE
