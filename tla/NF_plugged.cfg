\* What the key is said to do.
SPECIFICATION NfSpec
CONSTANTS
    Callers = {c1, c2}
    MaxPlugs = 2
    NoDevice = NoDevice
INVARIANT CutOffWhenPlugged
CHECK_DEADLOCK FALSE
