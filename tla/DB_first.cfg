SPECIFICATION Spec
CONSTANTS
    Nr = 3
    Capacity = 2
    Files <- MCFiles
    FileLen <- MCFileLen
    Missing = {"gone"}
    FileLists <- TripleLists
    NoFile = NoFile
    MaxWorks = 1
    MaxErrors = 0
INVARIANTS TypeOK StaleTail RoundsFollowLastFile
PROPERTIES WriterOwnsBank ImplementsStreams
CHECK_DEADLOCK FALSE
