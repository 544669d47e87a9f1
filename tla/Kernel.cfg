\* Two processes and three insertions; three sockets at a time and three
\* keys; two packets of at most three cells.
SPECIFICATION KernelSpec
CONSTANTS
    Procs = {p1, p2}
    MaxLoads = 3
    Callers = {c1, c2, c3}
    MaxPlugs = 3
    NoDevice = NoDevice
    Packets <- MCPackets
    Hdr = 1
    NewLen = 2
    BufLen = 3
    MaxPackets = 2
INVARIANTS
    KernelTypeOK
    CodeStays
    BrokenOnlyByDevice
    UnloadedIsClean
    NfRefsBalance
    SqWellFormed
    
CHECK_DEADLOCK FALSE
