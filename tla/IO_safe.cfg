\* Three fds, any order of events, callbacks that add and delete.
SPECIFICATION Spec
CONSTANTS
    Fds = {1, 2, 3}
    Blocks = {b1, b2, b3}
    Kinds <- WithCallback
    None = None
SYMMETRY BlockSymmetry
INVARIANTS
    RegistrationsAgree
    BatchValid
    LostOnlyWithoutClean
CHECK_DEADLOCK FALSE
