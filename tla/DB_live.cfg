SPECIFICATION FairSpec
CONSTANTS
    Nr = 2
    Capacity = 2
    Files <- MCFiles
    FileLen <- MCFileLen
    Missing = {"gone"}
    FileLists <- CallerLists
    NoFile = NoFile
    MaxWorks = 2
    MaxErrors = 1
INVARIANTS HandOff
PROPERTIES  DropReturns
CHECK_DEADLOCK FALSE
