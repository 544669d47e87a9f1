SPECIFICATION Spec
CONSTANTS
    Nr = 2
    Capacity = 2
    Files <- MCFiles
    FileLen <- MCFileLen
    Missing = {"gone"}
    FileLists <- ShortLists
    NoFile = NoFile
    MaxWorks = 2
    MaxErrors = 0
INVARIANTS EveryRunHandsOff
CHECK_DEADLOCK FALSE
