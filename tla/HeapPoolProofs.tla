--------------------------- MODULE HeapPoolProofs ---------------------------
(***************************************************************************)
(* Proofs about HeapPool, for pools of every size.                         *)
(***************************************************************************)
EXTENDS HeapPool, FiniteSetTheorems, TLAPS

(* fl is a chain of n members of cs that starts at first, follows the      *)
(* links, and goes through exactly those that are not out.                 *)
Chain(fl, n, cs, first, links, out) ==
    /\ fl \in [1 .. n -> cs]
    /\ n > 0 => fl[1] = first
    /\ \A i \in 1 .. n - 1 : links[fl[i]] = fl[i + 1]
    /\ \A i, j \in 1 .. n : fl[i] = fl[j] => i = j
    /\ \A d \in cs : d \notin out <=> \E i \in 1 .. n : fl[i] = d

HasChain == \E fl : Chain(fl, nb_free, Chunks, hpd_firstfree, array_index, held)

(* The inductive invariant: the chain, and a counter that is the number of *)
(* chunks held, so that the chain is as long as nb_free says.              *)
IInv ==
    /\ TypeOK
    /\ IsFiniteSet(held)
    /\ hpd_nralloc = Cardinality(held)
    /\ hpd_nrel # None => nb_free \in Nat /\ HasChain

LEMMA IInvFreeList == IInv => FreeList
<1> SUFFICES ASSUME IInv, hpd_nrel # None
             PROVE \E fl \in [1 .. nb_free -> Chunks] :
                      /\ nb_free > 0 => fl[1] = hpd_firstfree
                      /\ \A i \in 1 .. nb_free - 1 : array_index[fl[i]] = fl[i + 1]
                      /\ \A i, j \in 1 .. nb_free : fl[i] = fl[j] => i = j
                      /\ {fl[i] : i \in 1 .. nb_free} = Chunks \ held
  BY DEF FreeList
<1> PICK fl : Chain(fl, nb_free, Chunks, hpd_firstfree, array_index, held)
  BY DEF IInv, HasChain
<1>1. {fl[i] : i \in 1 .. nb_free} = Chunks \ held
  BY DEF Chain
<1>2. fl \in [1 .. nb_free -> Chunks]
  BY DEF Chain
<1> QED
  BY <1>1, <1>2 DEF Chain

(* What the counter says of the chunks held and of the free list.          *)
LEMMA Counts ==
    ASSUME IInv, hpd_nrel # None
    PROVE  /\ hpd_nralloc \in 0 .. hpd_nrel
           /\ nb_free # 0 => hpd_firstfree \in Chunks
           /\ held # {} => hpd_nralloc # 0
<1>1. /\ hpd_nrel \in Nat /\ hpd_nralloc \in Nat /\ nb_free \in Nat
      /\ IsFiniteSet(held) /\ hpd_nralloc = Cardinality(held)
  BY DEF IInv, TypeOK
<1>2. hpd_nralloc \in 0 .. hpd_nrel
  BY <1>1 DEF nb_free
<1>3. nb_free # 0 => hpd_firstfree \in Chunks
  <2>1. PICK fl : Chain(fl, nb_free, Chunks, hpd_firstfree, array_index, held)
    BY DEF IInv, HasChain
  <2> QED
    BY <1>1, <2>1 DEF Chain
<1> QED
  BY <1>1, <1>2, <1>3, FS_EmptySet

LEMMA IInvInit == Init => IInv
BY FS_EmptySet DEF Init, IInv, TypeOK, Chunks

LEMMA CreateStep ==
    ASSUME IInv, NEW nrel \in 0 .. MaxNrel, heap_pool_create(nrel)
    PROVE  IInv'
<1>1. nrel \in Nat /\ hpd_nrel' = nrel /\ hpd_nrel' # None
  BY MaxNrelAssumption, NoneAssumption DEF heap_pool_create
<1>2. Chunks' = 0 .. nrel - 1
  BY <1>1 DEF Chunks
<1>3. /\ array_index' = [i \in 0 .. nrel - 1 |-> i + 1] /\ held' = {} /\ hpd_nralloc' = 0
      /\ hpd_firstfree' = 0 /\ result' = None
  BY DEF heap_pool_create, Links
<1>4. TypeOK'
  BY <1>1, <1>2, <1>3 DEF TypeOK
<1>5. nb_free' = nrel
  BY <1>1, <1>3 DEF nb_free
<1> DEFINE fl == [i \in 1 .. nrel |-> i - 1]
<1>6. Chain(fl, nrel, Chunks', hpd_firstfree', array_index', held')
  BY <1>1, <1>2, <1>3 DEF Chain
<1> HIDE DEF fl
<1>7. HasChain'
  BY <1>5, <1>6 DEF HasChain
<1> QED
  BY <1>1, <1>3, <1>4, <1>5, <1>7, FS_EmptySet DEF IInv

LEMMA AllocStep ==
    ASSUME IInv, heap_pool_alloc
    PROVE  /\ IInv'
           /\ hpd_firstfree \in Chunks \ held
<1>1. /\ hpd_nrel # None /\ nb_free # 0
      /\ hpd_firstfree' = array_index[hpd_firstfree] /\ hpd_nralloc' = hpd_nralloc + 1
      /\ result' = hpd_firstfree /\ held' = held \cup {hpd_firstfree}
      /\ UNCHANGED <<hpd_nrel, array_index>>
  BY DEF heap_pool_alloc
<1> PICK n : n = nb_free
  OBVIOUS
<1>0. n \in Nat /\ n # 0 /\ hpd_nrel \in Nat /\ hpd_nralloc \in Nat
  BY <1>1 DEF IInv, TypeOK
<1>2. n \in Nat /\ n > 0
  BY <1>0
<1> PICK fl : Chain(fl, n, Chunks, hpd_firstfree, array_index, held)
  BY <1>1 DEF IInv, HasChain
<1>3. fl[1] = hpd_firstfree /\ hpd_firstfree \in Chunks \ held
  BY <1>2 DEF Chain
<1>4. Chunks' = Chunks /\ nb_free' = n - 1
  BY <1>0, <1>1 DEF Chunks, nb_free
<1>5. TypeOK'
  BY <1>0, <1>1, <1>3, <1>4 DEF IInv, TypeOK
<1> DEFINE gl == [i \in 1 .. n - 1 |-> fl[i + 1]]
<1>6. Chain(gl, n - 1, Chunks, hpd_firstfree', array_index', held')
  <2>1. gl \in [1 .. n - 1 -> Chunks]
    BY <1>2 DEF Chain
  <2>2. n - 1 > 0 => gl[1] = hpd_firstfree'
    BY <1>1, <1>2, <1>3 DEF Chain
  <2>3. \A i \in 1 .. n - 1 - 1 : array_index'[gl[i]] = gl[i + 1]
    BY <1>1, <1>2 DEF Chain
  <2>4. \A i, j \in 1 .. n - 1 : gl[i] = gl[j] => i = j
    BY <1>2 DEF Chain
  <2>5. ASSUME NEW c \in Chunks PROVE c \notin held' <=> \E i \in 1 .. n - 1 : gl[i] = c
    <3>1. ASSUME c \notin held' PROVE \E i \in 1 .. n - 1 : gl[i] = c
      <4> PICK j \in 1 .. n : fl[j] = c
        BY <1>1, <3>1 DEF Chain
      <4>1. j # 1
        BY <1>1, <1>3, <3>1
      <4>2. j - 1 \in 1 .. n - 1 /\ gl[j - 1] = c
        BY <1>2, <4>1
      <4> QED
        BY <4>2
    <3>2. ASSUME NEW i \in 1 .. n - 1, gl[i] = c PROVE c \notin held'
      <4>1. i + 1 \in 1 .. n /\ 1 \in 1 .. n /\ i + 1 # 1 /\ fl[i + 1] = c
        BY <1>2, <3>2
      <4>2. c \notin held /\ c # fl[1]
        BY <4>1 DEF Chain
      <4> QED
        BY <1>1, <1>3, <4>2
    <3> QED
      BY <3>1, <3>2
  <2> HIDE DEF gl
  <2> QED
    BY <2>1, <2>2, <2>3, <2>4, <2>5 DEF Chain
<1>7. IsFiniteSet(held') /\ hpd_nralloc' = Cardinality(held')
  BY <1>1, <1>3, FS_AddElement DEF IInv
<1> HIDE DEF gl
<1>8. HasChain'
  BY <1>4, <1>6 DEF HasChain
<1> QED
  BY <1>0, <1>1, <1>3, <1>4, <1>5, <1>7, <1>8 DEF IInv

LEMMA FreeStep ==
    ASSUME IInv, NEW c \in held, heap_pool_free(c)
    PROVE  IInv'
<1>1. /\ array_index' = [array_index EXCEPT ![c] = hpd_firstfree]
      /\ hpd_firstfree' = c /\ hpd_nralloc' = hpd_nralloc - 1
      /\ result' = None /\ held' = held \ {c} /\ hpd_nrel' = hpd_nrel
  BY DEF heap_pool_free
<1> PICK n : n = nb_free
  OBVIOUS
<1>2. c \in Chunks /\ hpd_nrel # None
  BY DEF IInv, TypeOK, Chunks
<1>3. n \in Nat /\ hpd_nrel \in Nat /\ hpd_nralloc \in Nat
  BY <1>2 DEF IInv, TypeOK
<1> PICK fl : Chain(fl, n, Chunks, hpd_firstfree, array_index, held)
  BY <1>2 DEF IInv, HasChain
<1>4. IsFiniteSet(held') /\ hpd_nralloc' = Cardinality(held')
  BY <1>1, FS_RemoveElement DEF IInv
<1>5. hpd_nralloc' \in Nat
  BY <1>4, FS_CardinalityType
<1>6. Chunks' = Chunks /\ nb_free' = n + 1
  BY <1>1, <1>3 DEF Chunks, nb_free
<1>7. TypeOK'
  <2>1. c \in Nat /\ hpd_firstfree \in Nat /\ array_index \in [Chunks -> Nat]
    BY <1>2 DEF IInv, TypeOK, Chunks
  <2>2. array_index' \in [Chunks -> Nat]
    BY <1>1, <2>1
  <2> QED
    BY <1>1, <1>2, <1>5, <1>6, <2>1, <2>2 DEF IInv, TypeOK
<1> DEFINE gl == [i \in 1 .. n + 1 |-> IF i = 1 THEN c ELSE fl[i - 1]]
<1>8. \A i \in 1 .. n : fl[i] # c /\ fl[i] \in Chunks
  BY DEF Chain
<1>9. Chain(gl, n + 1, Chunks, hpd_firstfree', array_index', held')
  <2>1. gl \in [1 .. n + 1 -> Chunks]
    BY <1>2, <1>3, <1>8
  <2>2. n + 1 > 0 => gl[1] = hpd_firstfree'
    BY <1>1, <1>3
  <2>3. ASSUME NEW i \in 1 .. n PROVE array_index'[gl[i]] = gl[i + 1]
    <3>1. CASE i = 1
      BY <1>1, <1>2, <1>3, <3>1 DEF Chain, IInv, TypeOK
    <3>2. CASE i # 1
      <4>1. i - 1 \in 1 .. n - 1 /\ gl[i] = fl[i - 1] /\ gl[i + 1] = fl[i] /\ i - 1 \in 1 .. n
        BY <1>3, <3>2
      <4>2. array_index[fl[i - 1]] = fl[i]
        BY <1>3, <4>1 DEF Chain
      <4>3. array_index'[fl[i - 1]] = array_index[fl[i - 1]]
        BY <1>1, <1>8, <4>1 DEF IInv, TypeOK
      <4> QED
        BY <4>1, <4>2, <4>3
    <3> QED
      BY <3>1, <3>2
  <2>4. \A i, j \in 1 .. n + 1 : gl[i] = gl[j] => i = j
    <3> SUFFICES ASSUME NEW i \in 1 .. n + 1, NEW j \in 1 .. n + 1, gl[i] = gl[j] PROVE i = j
      OBVIOUS
    <3>1. CASE i = 1 \/ j = 1
      BY <1>3, <1>8, <3>1
    <3>2. CASE i # 1 /\ j # 1
      <4>1. i - 1 \in 1 .. n /\ j - 1 \in 1 .. n /\ fl[i - 1] = fl[j - 1]
        BY <1>3, <3>2
      <4> QED
        BY <1>3, <4>1 DEF Chain
    <3> QED
      BY <3>1, <3>2
  <2>5. ASSUME NEW d \in Chunks PROVE d \notin held' <=> \E i \in 1 .. n + 1 : gl[i] = d
    <3>1. ASSUME d \notin held' PROVE \E i \in 1 .. n + 1 : gl[i] = d
      <4>1. CASE d = c
        BY <1>3, <4>1
      <4>2. CASE d # c
        <5> PICK j \in 1 .. n : fl[j] = d
          BY <1>1, <3>1, <4>2 DEF Chain
        <5>1. j + 1 \in 1 .. n + 1 /\ gl[j + 1] = d
          BY <1>3
        <5> QED
          BY <5>1
      <4> QED
        BY <4>1, <4>2
    <3>2. ASSUME NEW i \in 1 .. n + 1, gl[i] = d PROVE d \notin held'
      <4>1. CASE i = 1
        BY <1>1, <1>3, <3>2, <4>1
      <4>2. CASE i # 1
        <5>1. i - 1 \in 1 .. n /\ fl[i - 1] = d
          BY <1>3, <3>2, <4>2
        <5> QED
          BY <1>1, <5>1 DEF Chain
      <4> QED
        BY <4>1, <4>2
    <3> QED
      BY <3>1, <3>2
  <2>6. \A i \in 1 .. (n + 1) - 1 : array_index'[gl[i]] = gl[i + 1]
    BY <1>3, <2>3
  <2> HIDE DEF gl
  <2> QED
    BY <2>1, <2>2, <2>4, <2>5, <2>6 DEF Chain
<1> HIDE DEF gl
<1>10. HasChain'
  BY <1>6, <1>9 DEF HasChain
<1> QED
  BY <1>1, <1>2, <1>3, <1>4, <1>6, <1>7, <1>10 DEF IInv

LEMMA IInvStep == IInv /\ [Next]_vars => IInv'
<1> SUFFICES ASSUME IInv, [Next]_vars PROVE IInv'
  OBVIOUS
<1>1. CASE heap_pool_alloc_fails
  <2>1. /\ UNCHANGED <<hpd_nrel, hpd_nralloc, hpd_firstfree, array_index, held>>
        /\ result' = ENOMEM
    BY <1>1 DEF heap_pool_alloc_fails
  <2>2. Chunks' = Chunks /\ nb_free' = nb_free
    BY <2>1 DEF Chunks, nb_free
  <2>3. TypeOK'
    BY <2>1, <2>2 DEF IInv, TypeOK
  <2>4. HasChain' <=> HasChain
    BY <2>1, <2>2 DEF HasChain
  <2> QED
    BY <2>1, <2>2, <2>3, <2>4 DEF IInv
<1>2. CASE heap_pool_destroy
  BY <1>2, FS_EmptySet DEF heap_pool_destroy, IInv, TypeOK, Chunks
<1>3. CASE UNCHANGED vars
  BY <1>3 DEF vars, IInv, TypeOK, Chunks, nb_free, HasChain
<1> QED
  BY <1>1, <1>2, <1>3, CreateStep, AllocStep, FreeStep DEF Next

LEMMA Invariance == Spec => []IInv
BY IInvInit, IInvStep, PTL DEF Spec

(* Every link and every chunk held is inside the pool.                     *)
THEOREM TypeCorrect == Spec => []TypeOK
<1>1. IInv => TypeOK
  BY DEF IInv
<1> QED
  BY <1>1, Invariance, PTL

(* The free list links exactly the chunks that are not held, as many as    *)
(* heap_pool_nb_free counts, after every sequence of calls.                *)
THEOREM FreeListCorrect == Spec => []FreeList
BY Invariance, IInvFreeList, PTL

----------------------------------------------------------------------------
(* The pool implements ChunkPool.                                          *)

LEMMA AllOut ==
    ASSUME IInv, hpd_nrel # None, nb_free = 0
    PROVE  held = Chunks
<1> PICK fl : Chain(fl, 0, Chunks, hpd_firstfree, array_index, held)
  BY DEF IInv, HasChain
<1>1. \A c \in Chunks : c \in held
  BY DEF Chain
<1> QED
  BY <1>1 DEF IInv, TypeOK

LEMMA PoolStep == IInv /\ [Next]_vars => [Pool!Next]_(Pool!vars)
<1> SUFFICES ASSUME IInv, [Next]_vars PROVE [Pool!Next]_(Pool!vars)
  OBVIOUS
<1>1. ASSUME NEW nrel \in 0 .. MaxNrel, heap_pool_create(nrel) PROVE Pool!Next
  BY <1>1, MaxNrelAssumption DEF heap_pool_create, Pool!Next, Pool!Create
<1>2. ASSUME NEW c \in held, heap_pool_free(c) PROVE Pool!Next
  BY <1>2 DEF heap_pool_free, Pool!Next, Pool!Return
<1>3. CASE heap_pool_alloc_fails
  BY <1>3, AllOut DEF heap_pool_alloc_fails, Pool!Next, Pool!Exhausted, Chunks
<1>4. CASE heap_pool_alloc
  BY <1>4, AllocStep DEF heap_pool_alloc, Pool!Next, Pool!Take, Chunks
<1>5. CASE heap_pool_destroy
  BY <1>5 DEF heap_pool_destroy, Pool!Next, Pool!Destroy
<1>6. CASE UNCHANGED vars
  BY <1>6 DEF vars, Pool!vars
<1> QED
  BY <1>1, <1>2, <1>3, <1>4, <1>5, <1>6 DEF Next

(* No chunk ever has two holders, none is lost, and heap_pool_alloc fails  *)
(* only when all are out.                                                  *)
THEOREM PoolImplemented == Spec => ImplementsPool
<1>1. Init => Pool!Init
  BY DEF Init, Pool!Init
<1> QED
  BY <1>1, PoolStep, Invariance, PTL DEF Spec, ImplementsPool, Pool!Spec
=============================================================================
