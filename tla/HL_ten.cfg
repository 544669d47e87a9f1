\* The number of chunks of the pools that main.c works with.
SPECIFICATION Spec
CONSTANTS
    Page = 4096
    Word = 8
    Desc = 72
    Width = 1073741824
    Requests <- TenChunks
    Bases <- MCBases
    MaxNrel = 30
    EINVAL = EINVAL
    ENOMEM = ENOMEM
    None = None
INVARIANT GrantsRequested
