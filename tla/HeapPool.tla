------------------------------ MODULE HeapPool ------------------------------
(***************************************************************************)
(* The chunk allocator of heap_pool: heap_pool_create, heap_pool_alloc,    *)
(* heap_pool_free and heap_pool_destroy, seen from one client that frees   *)
(* only what it holds.  The free chunks are linked through array_index:    *)
(* hpd_firstfree is the first, array_index[i] the one behind chunk i.      *)
(* Which bytes the chunks, the array and the index in front of each chunk  *)
(* occupy is the business of HeapPoolLayout; here a chunk is its number,   *)
(* which is also what the word in front of it says.                        *)
(***************************************************************************)
EXTENDS Integers, FiniteSets

CONSTANTS
    MaxNrel,   \* bound: chunks of a pool
    ENOMEM,    \* the error heap_pool_alloc returns
    None       \* no pool, no result

ASSUME MaxNrelAssumption == MaxNrel \in Nat
ASSUME NoneAssumption == None \notin Int /\ ENOMEM \notin Int /\ None # ENOMEM

VARIABLES
    hpd_nrel,       \* number of chunks, None without a pool
    hpd_nralloc,    \* number of chunks handed out
    hpd_firstfree,
    array_index,
    held,           \* the chunks the client holds
    result          \* what the last call returned

vars == <<hpd_nrel, hpd_nralloc, hpd_firstfree, array_index, held, result>>

Chunks == IF hpd_nrel = None THEN {} ELSE 0 .. hpd_nrel - 1

TypeOK ==
    /\ hpd_nrel \in Nat \cup {None}
    /\ hpd_nralloc \in Nat
    /\ hpd_firstfree \in Nat
    /\ array_index \in [Chunks -> Nat]
    /\ held \subseteq Chunks
    /\ result \in Chunks \cup {ENOMEM, None}

Init ==
    /\ hpd_nrel = None
    /\ hpd_nralloc = 0
    /\ hpd_firstfree = 0
    /\ array_index = [c \in {} |-> 0]
    /\ held = {}
    /\ result = None

(* The loop of heap_pool_create writes i + 1 into entry i.                 *)
Links(n) == [i \in 0 .. n - 1 |-> i + 1]

heap_pool_create(nrel) ==
    /\ hpd_nrel = None
    /\ hpd_nrel' = nrel
    /\ hpd_nralloc' = 0
    /\ hpd_firstfree' = 0
    /\ array_index' = Links(nrel)
    /\ held' = {}
    /\ result' = None

(* The macro heap_pool_nb_free.                                            *)
nb_free == hpd_nrel - hpd_nralloc

heap_pool_alloc_fails ==
    /\ hpd_nrel # None
    /\ nb_free = 0
    /\ result' = ENOMEM
    /\ UNCHANGED <<hpd_nrel, hpd_nralloc, hpd_firstfree, array_index, held>>

(* The chunk returned is the first free one, not the one its entry names.  *)
(* Fault: it is not counted.                                               *)
heap_pool_alloc_uncounted ==
    /\ hpd_nrel # None
    /\ nb_free # 0
    /\ hpd_firstfree' = array_index[hpd_firstfree]
    /\ result' = hpd_firstfree
    /\ held' = held \cup {hpd_firstfree}
    /\ UNCHANGED <<hpd_nrel, array_index, hpd_nralloc>>
heap_pool_alloc ==
    /\ hpd_nrel # None
    /\ nb_free # 0
    /\ hpd_firstfree' = array_index[hpd_firstfree]
    /\ hpd_nralloc' = hpd_nralloc + 1
    /\ result' = hpd_firstfree
    /\ held' = held \cup {hpd_firstfree}
    /\ UNCHANGED <<hpd_nrel, array_index>>

(* Faults: the freed chunk is not linked to the rest of the free list; the *)
(* count of chunks handed out is not adjusted.                             *)
heap_pool_free_unlinked(c) ==
    /\ c \in held
    /\ hpd_firstfree' = c
    /\ hpd_nralloc' = hpd_nralloc - 1
    /\ result' = None
    /\ held' = held \ {c}
    /\ UNCHANGED <<hpd_nrel, array_index>>
heap_pool_free_uncounted(c) ==
    /\ c \in held
    /\ array_index' = [array_index EXCEPT ![c] = hpd_firstfree]
    /\ hpd_firstfree' = c
    /\ result' = None
    /\ held' = held \ {c}
    /\ UNCHANGED <<hpd_nrel, hpd_nralloc>>
heap_pool_free(c) ==
    /\ c \in held
    /\ array_index' = [array_index EXCEPT ![c] = hpd_firstfree]
    /\ hpd_firstfree' = c
    /\ hpd_nralloc' = hpd_nralloc - 1
    /\ result' = None
    /\ held' = held \ {c}
    /\ UNCHANGED hpd_nrel

(* heap_pool_destroy, heap_pool_close: the mapping and all in it is gone.  *)
heap_pool_destroy ==
    /\ hpd_nrel # None
    /\ hpd_nrel' = None
    /\ hpd_nralloc' = 0
    /\ hpd_firstfree' = 0
    /\ array_index' = [c \in {} |-> 0]
    /\ held' = {}
    /\ result' = None

Next ==
    \/ \E nrel \in 0 .. MaxNrel : heap_pool_create(nrel)
    \/ \E c \in held : heap_pool_free(c)
    \/ heap_pool_alloc_fails
    \/ heap_pool_alloc
    \/ heap_pool_destroy

Spec == Init /\ [][Next]_vars

----------------------------------------------------------------------------
(* Properties                                                              *)

(* The free list is a chain from hpd_firstfree through exactly the chunks  *)
(* the client does not hold, each once, whatever the order of the frees:   *)
(* the list and the counter, kept separately, never disagree.              *)
FreeList ==
    hpd_nrel # None =>
        \E fl \in [1 .. nb_free -> Chunks] :
            /\ nb_free > 0 => fl[1] = hpd_firstfree
            /\ \A i \in 1 .. nb_free - 1 : array_index[fl[i]] = fl[i + 1]
            /\ \A i, j \in 1 .. nb_free : fl[i] = fl[j] => i = j
            /\ {fl[i] : i \in 1 .. nb_free} = Chunks \ held

Pool == INSTANCE ChunkPool WITH size <- hpd_nrel

(* The array of links and the counter implement a pool: no chunk has two   *)
(* holders, none is lost, and -ENOMEM is returned only when all are out.   *)
ImplementsPool == Pool!Spec
=============================================================================
