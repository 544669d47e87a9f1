\* Two fds; the loop runs for ever.
SPECIFICATION FairSpec
CONSTANTS
    Fds = {1, 2}
    Blocks = {1, 2}
    Kinds <- WithClean
    None = None
PROPERTY EndIsRemoved
CHECK_DEADLOCK FALSE
