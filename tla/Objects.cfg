\* Eight requests on two bases; 31 executables; 28 processes; four mappings
\* of 162 libraries; three descriptors of two plugins.
SPECIFICATION ObjectsSpec
CONSTANTS
    Page = 4096
    Word = 8
    Desc = 72
    Width = 1073741824
    Requests <- MCRequests
    Bases <- MCBases
    MaxNrel = 4
    EINVAL = EINVAL
    ENOMEM = ENOMEM
    None = None
    Executables <- MCExecutables
    Dynamic <- MCDynamic
    SymNames = {"", "main", "f", "data", "malloc"}
    NoName = ""
    Addrs = {0, 2, 4, 6}
    Slots = {1, 2}
    LOP_MAX_DYNSYM = 4
    NotFound = NotFound
    Pids <- MCPids
    Exe <- MCExe
    Lib <- MCLib
    LoadAddr = 100
    PidWidth = 100
    Maps <- MCMaps
    Libraries <- MCLibraryFiles
    LibPath = "lib"
    SameName = {"lib", "old/lib"}
    NULL = NULL
    Plugins = {p1, p2, p3}
    Exports <- MCExports
    Symbols = {"get", "more"}
    Absent = Absent
    MaxOpens = 3
INVARIANTS
    ObjectsTypeOK
    ChunksInPlace
    DescriptorsHeld
    SymAnswers
    LopTables
    GmRestored
    
    DlsRelocations
    
    DsoRefsBalance
PROPERTIES
    ImplementsHeapPool
    InjectionEnds
CHECK_DEADLOCK FALSE
