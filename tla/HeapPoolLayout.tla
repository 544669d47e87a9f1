--------------------------- MODULE HeapPoolLayout ---------------------------
(***************************************************************************)
(* heap_pool down to its bytes: how heap_pool_create lays the descriptor,  *)
(* the array of links, and the chunks, each behind a word with its index,  *)
(* out in one mapping, and heap_pool_alloc and heap_pool_free on those     *)
(* words while the client fills the chunks it holds.  One client, the      *)
(* anonymous mapping of the default build, mmap succeeding.                *)
(***************************************************************************)
EXTENDS Integers

CONSTANTS
    Page,       \* heap_pool_getpagesize()
    Word,       \* sizeof(size_t)
    Desc,       \* sizeof(struct heap_pool_desc), the offset of hpd_raw
    Width,      \* size_t computes modulo Width
    Requests,   \* the arguments of heap_pool_create: [nb, size, align]
    Bases,      \* the addresses mmap may return
    MaxNrel,    \* bound: chunks of the pool HeapPool describes
    EINVAL, ENOMEM, None

VARIABLES
    asked,   \* the request in force, None without a pool
    base,    \* where the mapping is
    hpd,     \* the descriptor, None without a pool
    i, ptr,  \* the loop of heap_pool_create
    mem,     \* the words of the mapping that hold a known value
    held,    \* the addresses the client holds
    result   \* what the last call returned

vars == <<asked, base, hpd, i, ptr, mem, held, result>>

__ALIGN(x, y) == ((x + y - 1) \div y) * y

is_power_of_two(val) == \E k \in 0 .. 20 : val = 2 ^ k

__compute_new_alignment(curr) ==
    IF Word > curr THEN __ALIGN(curr + (Word - curr), curr) ELSE curr

align(r) == IF r.align = 0 THEN Word ELSE __compute_new_alignment(r.align)

(* The gap in front of each chunk: room for the index, and what brings the *)
(* next chunk to the alignment asked for.                                  *)
holesize(r) ==
    Word + IF r.align > 1 THEN __ALIGN(r.size + Word, r.align) - (r.size + Word) ELSE 0

allocsize(r) ==
    __ALIGN((Desc + align(r) - holesize(r) + r.nb * (Word + r.size + holesize(r))) % Width,
            Page)

nrel(r) ==
    ((allocsize(r) - align(r) - Desc) % Width) \div (Word + holesize(r) + r.size)

firstelem(r, addr) == __ALIGN(addr + Desc + Word * nrel(r) + align(r), align(r))

(* The descriptor, with k chunks handed out and the free list at first.    *)
descriptor(r, addr, k, first) ==
    [szel |-> r.size, nrel |-> nrel(r), nralloc |-> k, firstfree |-> first,
     szck |-> holesize(r) + r.size, allocsize |-> allocsize(r),
     offfirstelem |-> firstelem(r, addr) - addr]

layout(r, addr) == descriptor(r, addr, 0, 0)

(* What heap_pool_create takes for an alignment.                           *)
valid_align(r) == r.align = 0 \/ is_power_of_two(r.align)
Accepted == {r \in Requests : valid_align(r)}

(* Pages and the descriptor are whole words, mmap returns pages.           *)
ASSUME SizesAssumption ==
    /\ Page \in Nat \ {0} /\ Word \in Nat \ {0} /\ Desc \in Nat \ {0} /\ Width \in Nat \ {0}
    /\ MaxNrel \in Nat
    /\ Page % Word = 0 /\ Desc % Word = 0
    /\ \A addr \in Bases : addr \in Nat /\ addr % Page = 0

(* The pools considered: of one chunk at least, aligned to no more than a  *)
(* page, of a size that size_t can count.  A power of two divides, or is   *)
(* divided by, the size of a word.                                         *)
ASSUME RequestsAssumption ==
    \A r \in Accepted :
        /\ r.nb \in Nat \ {0} /\ r.size \in Nat /\ r.align \in Nat
        /\ r.align # 0 =>
              /\ Page % r.align = 0
              /\ IF r.align < Word THEN Word % r.align = 0 ELSE r.align % Word = 0
        /\ Desc + align(r) + r.nb * (Word + r.size + holesize(r)) + Page <= Width
        /\ nrel(r) <= MaxNrel

ASSUME ValuesAssumption ==
    /\ None \notin Int /\ ENOMEM \notin Int /\ EINVAL \notin Int
    /\ None # ENOMEM /\ EINVAL # ENOMEM
    /\ None \notin Requests
    /\ \A r \in Accepted, addr \in Bases :
           \A k, first \in 0 .. nrel(r) : descriptor(r, addr, k, first) # None

(***************************************************************************)
(* Memory.  Storing a word, or filling a chunk, destroys every word that   *)
(* shares a byte with it; reading one that is gone yields anything, here   *)
(* the value None that is no number.                                       *)
(***************************************************************************)
Spoil(m, addr, len) ==
    LET left == {a \in DOMAIN m : a + Word <= addr \/ addr + len <= a}
    IN  [a \in left |-> m[a]]

Store(m, addr, val) ==
    LET n == Spoil(m, addr, Word)
    IN  [a \in DOMAIN n \cup {addr} |-> IF a = addr THEN val ELSE n[a]]

Load(addr) == IF addr \in DOMAIN mem THEN mem[addr] ELSE None

raw == base + Desc
LinkAddr(c) == raw + Word * c
HEAP_POOL_GET_NTH_CHUNK(nth) == base + hpd.offfirstelem + nth * hpd.szck
heap_pool_nb_free == hpd.nrel - hpd.nralloc

(* heap_pool_create has returned and the pool was not destroyed.           *)
Ready == hpd # None /\ i = hpd.nrel
Chunks == 0 .. hpd.nrel - 1

TypeOK ==
    /\ asked \in Requests \cup {None} /\ base \in Bases
    /\ hpd = None <=> asked = None
    /\ hpd # None =>
          /\ hpd.nralloc \in 0 .. hpd.nrel /\ hpd.firstfree \in 0 .. hpd.nrel
          /\ i \in 0 .. hpd.nrel
          /\ held \subseteq {HEAP_POOL_GET_NTH_CHUNK(c) : c \in Chunks}
          /\ \A a \in DOMAIN mem : mem[a] \in 0 .. hpd.nrel

Init ==
    /\ asked = None /\ hpd = None
    /\ base \in Bases
    /\ i = 0 /\ ptr = 0
    /\ mem = [a \in {} |-> 0]
    /\ held = {}
    /\ result = None

heap_pool_create(r, addr) ==
    /\ hpd = None
    /\ valid_align(r)
    /\ asked' = r
    /\ base' = addr
    /\ hpd' = layout(r, addr)
    /\ i' = 0
    /\ ptr' = firstelem(r, addr)
    /\ result' = None
    /\ UNCHANGED <<mem, held>>

heap_pool_create_einval(r) ==
    /\ hpd = None
    /\ ~ valid_align(r)
    /\ result' = EINVAL
    /\ UNCHANGED <<asked, base, hpd, i, ptr, mem, held>>

(* One turn of the loop of heap_pool_create: link chunk i to the next, put *)
(* its index in front of it.  Fault: the walk forgets the alignment gap.   *)
init_chunk_packed ==
    /\ hpd # None /\ i < hpd.nrel
    /\ mem' = Store(Store(mem, LinkAddr(i), i + 1), ptr - Word, i)
    /\ i' = i + 1
    /\ ptr' = ptr + hpd.szel + Word
    /\ UNCHANGED <<asked, base, hpd, held, result>>
init_chunk ==
    /\ hpd # None /\ i < hpd.nrel
    /\ mem' = Store(Store(mem, LinkAddr(i), i + 1), ptr - Word, i)
    /\ i' = i + 1
    /\ ptr' = ptr + hpd.szel + holesize(asked)
    /\ UNCHANGED <<asked, base, hpd, held, result>>

heap_pool_alloc ==
    /\ Ready /\ heap_pool_nb_free # 0
    /\ hpd' = [hpd EXCEPT !.firstfree = Load(LinkAddr(hpd.firstfree)),
                          !.nralloc = @ + 1]
    /\ result' = HEAP_POOL_GET_NTH_CHUNK(hpd.firstfree)
    /\ held' = held \cup {result'}
    /\ UNCHANGED <<asked, base, i, ptr, mem>>

heap_pool_alloc_enomem ==
    /\ Ready /\ heap_pool_nb_free = 0
    /\ result' = ENOMEM
    /\ UNCHANGED <<asked, base, hpd, i, ptr, mem, held>>

(* The index of the chunk is what the word in front of it says.  Fault:    *)
(* the freed chunk is not linked to the rest of the free list.             *)
heap_pool_free_unlinked(addr) ==
    LET index_index == Load(addr - Word) IN
    /\ Ready /\ addr \in held
    /\ hpd' = [hpd EXCEPT !.firstfree = index_index, !.nralloc = @ - 1]
    /\ held' = held \ {addr}
    /\ result' = None
    /\ UNCHANGED <<asked, base, i, ptr, mem>>
heap_pool_free(addr) ==
    LET index_index == Load(addr - Word) IN
    /\ Ready /\ addr \in held
    /\ mem' = Store(mem, LinkAddr(index_index), hpd.firstfree)
    /\ hpd' = [hpd EXCEPT !.firstfree = index_index, !.nralloc = @ - 1]
    /\ held' = held \ {addr}
    /\ result' = None
    /\ UNCHANGED <<asked, base, i, ptr>>

(* The client fills a chunk it holds, all hpd_szel bytes of it.            *)
client_fill(addr) ==
    /\ Ready /\ addr \in held
    /\ mem' = Spoil(mem, addr, hpd.szel)
    /\ UNCHANGED <<asked, base, hpd, i, ptr, held, result>>

heap_pool_destroy ==
    /\ Ready
    /\ asked' = None /\ hpd' = None
    /\ i' = 0 /\ ptr' = 0
    /\ mem' = [a \in {} |-> 0]
    /\ held' = {}
    /\ result' = None
    /\ UNCHANGED base

Next ==
    \/ \E r \in Requests, addr \in Bases : heap_pool_create(r, addr)
    \/ \E r \in Requests : heap_pool_create_einval(r)
    \/ init_chunk
    \/ heap_pool_alloc
    \/ heap_pool_alloc_enomem
    \/ \E addr \in held : heap_pool_free(addr)
    \/ \E addr \in held : client_fill(addr)
    \/ heap_pool_destroy

Spec == Init /\ [][Next]_vars

----------------------------------------------------------------------------
(* Properties                                                              *)

(* The word in front of every chunk names it, and the chunk is where the   *)
(* loop put that word: neither the links, nor what clients store in their  *)
(* chunks, ever touch it.  heap_pool_free relies on nothing else.          *)
MarksHold == Ready => \A c \in Chunks : Load(HEAP_POOL_GET_NTH_CHUNK(c) - Word) = c

(* The assertion of the loop: a chunk is on the alignment asked for.       *)
ChunksAligned ==
    hpd # None /\ asked.align # 0 =>
        \A c \in Chunks : HEAP_POOL_GET_NTH_CHUNK(c) % asked.align = 0

(* Every byte of every chunk is in the mapping, behind the array of links  *)
(* (the organization heap_pool.h draws, and HEAP_POOL_ADDR_IN_BNDS).       *)
ChunksInBounds ==
    hpd # None =>
        \A c \in Chunks :
            /\ HEAP_POOL_GET_NTH_CHUNK(c) - Word >= LinkAddr(hpd.nrel)
            /\ HEAP_POOL_GET_NTH_CHUNK(c) + hpd.szel <= base + hpd.allocsize

(* Every chunk is where it should be: aligned, in bounds, and marked.      *)
ChunksInPlace == MarksHold /\ ChunksAligned /\ ChunksInBounds

(* A pool created for nb elements has room for nb elements.                *)
GrantsRequested == hpd # None => hpd.nrel >= asked.nb

ChunkOf(addr) == (addr - base - hpd.offfirstelem) \div hpd.szck

(* The state of HeapPool that the words stand for.                         *)
pool_nrel == IF Ready THEN hpd.nrel ELSE None
pool_nralloc == IF Ready THEN hpd.nralloc ELSE 0
pool_firstfree == IF Ready THEN hpd.firstfree ELSE 0
pool_index == [c \in IF Ready THEN Chunks ELSE {} |-> Load(LinkAddr(c))]
pool_held == IF Ready THEN {ChunkOf(a) : a \in held} ELSE {}
pool_result ==
    IF Ready /\ result \in Int THEN ChunkOf(result)
    ELSE IF result = ENOMEM THEN ENOMEM ELSE None

Pool == INSTANCE HeapPool WITH
    hpd_nrel <- pool_nrel, hpd_nralloc <- pool_nralloc, hpd_firstfree <- pool_firstfree,
    array_index <- pool_index, held <- pool_held, result <- pool_result

(* The words in memory implement the pool of HeapPool: the loop builds the *)
(* free list heap_pool_create promises, and filling chunks never shows.    *)
ImplementsHeapPool == Pool!Spec
=============================================================================
