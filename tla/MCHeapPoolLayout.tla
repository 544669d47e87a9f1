-------------------------- MODULE MCHeapPoolLayout --------------------------
(* Requests for TLC.                                                       *)
EXTENDS HeapPoolLayout

PoolRequest(n, s, a) == [nb |-> n, size |-> s, align |-> a]

MCRequests ==
    {PoolRequest(1, 3000, 0), PoolRequest(2, 1000, 1), PoolRequest(3, 1001, 0), PoolRequest(3, 998, 2),
     PoolRequest(2, 1500, 64), PoolRequest(1, 4088, 4096), PoolRequest(2, 900, 1024),
     PoolRequest(2, 1000, 24)}

(* The first pages that a mapping can start at.                            *)
MCBases == {4096, 8192}

(* The pools main.c takes ten chunks of: the size it asks for, and another *)
(* of the sizes it sweeps.                                                 *)
TenChunks == {PoolRequest(10, 128, 0), PoolRequest(10, 386, 0)}
=============================================================================
