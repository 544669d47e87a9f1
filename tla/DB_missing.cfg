SPECIFICATION FairSpec
CONSTANTS
    Nr = 2
    Capacity = 2
    Files <- MCFiles
    FileLen <- MCFileLen
    Missing = {"gone"}
    FileLists <- MissingLists
    NoFile = NoFile
    MaxWorks = 1
    MaxErrors = 0
PROPERTIES EveryWorkReturns
CHECK_DEADLOCK FALSE
