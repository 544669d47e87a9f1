----------------------------- MODULE IoLoopProofs ----------------------------
(***************************************************************************)
(* Proofs about IoLoop, for any number of fds and addresses.               *)
(***************************************************************************)
EXTENDS IoLoop, FiniteSetTheorems, TLAPS

Entry == [fd : Fds, ptr : Blocks]

(* A registration as the library keeps it: the tree within the kernel's    *)
(* table, each fd at an address of its own that holds its descriptor.      *)
Tables(s) ==
    /\ s.open \subseteq Fds
    /\ DOMAIN s.epoll \subseteq s.open
    /\ DOMAIN s.tree \subseteq DOMAIN s.epoll
    /\ s.heap \in [Blocks -> Descs \cup {None}]
    /\ \A f \in DOMAIN s.epoll :
          s.epoll[f] \in Blocks /\ s.heap[s.epoll[f]] # None /\ s.heap[s.epoll[f]].fd = f
    /\ \A f \in DOMAIN s.tree : s.tree[f] = s.epoll[f]

(* Nothing is lost: a descriptor with an iol_clean is registered.          *)
Kept(s) ==
    \A b \in Blocks : s.heap[b] # None /\ s.heap[b].clean => \E f \in DOMAIN s.epoll : s.epoll[f] = b

Sound(s) == Tables(s) /\ Kept(s)

(* What both threads know of each other.                                   *)
Shared(s, f) ==
    /\ f \in Fds \cup {None}
    /\ f # None => f \in DOMAIN s.epoll \ DOMAIN s.tree
    /\ DOMAIN s.epoll \ DOMAIN s.tree \subseteq {f}

(* The rest of a batch, of which nothing but the fds that someone revoked  *)
(* may have gone.                                                          *)
Rest(s, v, gone) ==
    /\ v \in Seq(Entry)
    /\ \A j, k \in 1 .. Len(v) : j # k => v[j].fd # v[k].fd
    /\ \A j \in 1 .. Len(v) :
          v[j].fd \notin gone => v[j].fd \in DOMAIN s.epoll /\ s.epoll[v[j].fd] = v[j].ptr

Control ==
    /\ state \in [Fds -> {"quiet", "data", "eof"}]
    /\ pc \in {"caller", "dispatch", "returned", "undefined", "exited"}
    /\ ret \in -1 .. 1
    /\ revoked \subseteq Fds
    /\ pc \in {"caller", "exited"} => vec = <<>>
    /\ pc \in {"dispatch", "returned"} => vec # <<>>

IoInv == Sound(reg) /\ Shared(reg, adder) /\ Rest(reg, vec, revoked) /\ Control

----------------------------------------------------------------------------
(* What the library's operations do to the tables                          *)

(* Two registrations have different addresses.                             *)
LEMMA AddressesDiffer ==
    ASSUME NEW s, Tables(s), NEW f \in DOMAIN s.epoll, NEW g \in DOMAIN s.epoll, f # g
    PROVE  s.epoll[f] # s.epoll[g]
BY DEF Tables

(* A new registration in the kernel.                                       *)
LEMMA EpollAdd ==
    ASSUME Sound(reg), NEW f \in Fds, NEW b \in Blocks, NEW kind \in Kinds, CanAdd(f, b)
    PROVE  LET s == epoll_add(f, b, kind) IN
           /\ Sound(s) /\ s.tree = reg.tree
           /\ DOMAIN s.epoll = DOMAIN reg.epoll \cup {f}
           /\ s.open = reg.open \cup {f}
           /\ \A g \in DOMAIN reg.epoll : s.epoll[g] = reg.epoll[g]
<1> DEFINE s == epoll_add(f, b, kind)
<1> DEFINE d == [fd |-> f, func |-> kind.func, clean |-> kind.clean]
<1>1. /\ s.open = reg.open \cup {f} /\ s.tree = reg.tree
      /\ s.epoll = With(reg.epoll, f, b) /\ s.heap = [reg.heap EXCEPT ![b] = d]
  BY DEF epoll_add
<1>2. d \in Descs /\ d # None /\ d.fd = f
  <2>1. kind \in [func : BOOLEAN, clean : BOOLEAN]
    BY KindAssumption
  <2>2. kind.func \in BOOLEAN /\ kind.clean \in BOOLEAN
    BY <2>1
  <2>3. d \in [fd : Fds, func : BOOLEAN, clean : BOOLEAN]
    BY <2>2
  <2> QED
    BY <2>3, NoneAssumption DEF Descs
<1> HIDE DEF s, d
<1>3. /\ DOMAIN s.epoll = DOMAIN reg.epoll \cup {f} /\ f \notin DOMAIN reg.epoll
      /\ s.epoll[f] = b /\ \A g \in DOMAIN reg.epoll : s.epoll[g] = reg.epoll[g]
  BY <1>1 DEF With, CanAdd
<1>4. reg.heap[b] = None /\ reg.heap \in [Blocks -> Descs \cup {None}]
  BY DEF CanAdd, Sound, Tables
<1>5. s.heap \in [Blocks -> Descs \cup {None}] /\ \A c \in Blocks : s.heap[c] = IF c = b THEN d ELSE reg.heap[c]
  BY <1>1, <1>2, <1>4
<1>6. Tables(s)
  BY <1>1, <1>2, <1>3, <1>4, <1>5 DEF Sound, Tables
<1>7. Kept(s)
  BY <1>3, <1>5 DEF Sound, Kept
<1> QED
  BY <1>1, <1>3, <1>6, <1>7 DEF Sound, s

(* Then the same in the tree.                                              *)
LEMMA TreeSearch ==
    ASSUME NEW s, Sound(s), NEW f \in DOMAIN s.epoll
    PROVE  LET t == tsearch(s, f) IN
           /\ Sound(t) /\ t.epoll = s.epoll /\ t.open = s.open
           /\ DOMAIN t.tree = DOMAIN s.tree \cup {f}
<1> DEFINE t == tsearch(s, f)
<1>1. CASE f \in DOMAIN s.tree
  BY <1>1 DEF tsearch
<1>2. CASE f \notin DOMAIN s.tree
  <2>1. /\ t.open = s.open /\ t.epoll = s.epoll /\ t.heap = s.heap
        /\ t.tree = With(s.tree, f, s.epoll[f])
    BY <1>2 DEF Sound, Tables, tsearch
  <2> HIDE DEF t
  <2>2. /\ DOMAIN t.tree = DOMAIN s.tree \cup {f}
        /\ t.tree[f] = s.epoll[f] /\ \A g \in DOMAIN s.tree : t.tree[g] = s.tree[g]
    BY <1>2, <2>1 DEF With
  <2>3. Sound(t)
    BY <2>1, <2>2 DEF Sound, Tables, Kept
  <2> QED
    BY <2>1, <2>2, <2>3 DEF t
<1> QED
  BY <1>1, <1>2

Takes(s, f, t) ==
    /\ t.open \in {s.open, s.open \ {f}}
    /\ t.epoll = Without(s.epoll, f)
    /\ DOMAIN t.tree = DOMAIN s.tree \ {f} /\ \A g \in DOMAIN t.tree : t.tree[g] = s.tree[g]
    /\ \/ t.heap = s.heap /\ ~ s.heap[s.epoll[f]].clean
       \/ t.heap = [s.heap EXCEPT ![s.epoll[f]] = None]

Left(s, gone, t) ==
    /\ Sound(t)
    /\ DOMAIN t.epoll = DOMAIN s.epoll \ gone
    /\ DOMAIN t.tree = DOMAIN s.tree \ gone
    /\ \A g \in DOMAIN t.epoll : t.epoll[g] = s.epoll[g]

(* Taking a registration out of the kernel, and its memory if it has an    *)
(* iol_clean.                                                              *)
LEMMA Removed ==
    ASSUME NEW s, Sound(s), NEW f \in DOMAIN s.epoll, NEW t, Takes(s, f, t)
    PROVE  Left(s, {f}, t)
<1>2. /\ DOMAIN t.epoll = DOMAIN s.epoll \ {f} /\ DOMAIN t.tree = DOMAIN s.tree \ {f}
      /\ \A g \in DOMAIN t.epoll : t.epoll[g] = s.epoll[g]
      /\ \A g \in DOMAIN t.tree : t.tree[g] = s.tree[g]
  BY DEF Without, Takes
<1>3. s.epoll[f] \in Blocks /\ s.heap \in [Blocks -> Descs \cup {None}]
  BY DEF Sound, Tables
<1>4. /\ t.heap \in [Blocks -> Descs \cup {None}]
      /\ \A b \in Blocks : b # s.epoll[f] => t.heap[b] = s.heap[b]
      /\ ~ (t.heap[s.epoll[f]] # None /\ t.heap[s.epoll[f]].clean)
  BY <1>3 DEF Takes
<1>5. \A g \in DOMAIN t.epoll : s.epoll[g] # s.epoll[f] /\ s.epoll[g] \in Blocks
  BY <1>2, AddressesDiffer DEF Sound, Tables
<1>6. Tables(t)
  <2>1. t.open \subseteq Fds /\ DOMAIN t.epoll \subseteq t.open /\ DOMAIN t.tree \subseteq DOMAIN t.epoll
    BY <1>2 DEF Sound, Tables, Takes
  <2>2. \A g \in DOMAIN t.epoll :
           t.epoll[g] \in Blocks /\ t.heap[t.epoll[g]] # None /\ t.heap[t.epoll[g]].fd = g
    BY <1>2, <1>4, <1>5 DEF Sound, Tables
  <2>3. \A g \in DOMAIN t.tree : t.tree[g] = t.epoll[g]
    BY <1>2 DEF Sound, Tables
  <2> QED
    BY <1>4, <2>1, <2>2, <2>3 DEF Tables
<1>7. Kept(t)
  <2> SUFFICES ASSUME NEW b \in Blocks, t.heap[b] # None, t.heap[b].clean
               PROVE  \E g \in DOMAIN t.epoll : t.epoll[g] = b
    BY DEF Kept
  <2>1. s.heap[b] # None /\ s.heap[b].clean /\ b # s.epoll[f]
    BY <1>4
  <2>2. PICK g \in DOMAIN s.epoll : s.epoll[g] = b
    BY <2>1 DEF Sound, Kept
  <2> QED
    BY <1>2, <2>1, <2>2
<1> QED
  BY <1>2, <1>6, <1>7 DEF Sound, Left

(* iol_del_event: f is gone if it was in the tree, and nothing else is.    *)
LEMMA DelEvent ==
    ASSUME NEW s, Sound(s), NEW f
    PROVE  Left(s, {f} \cap DOMAIN s.tree, iol_del_event(s, f))
<1>1. CASE f \in DOMAIN s.tree
  <2>1. f \in DOMAIN s.epoll /\ s.tree[f] = s.epoll[f]
    BY <1>1 DEF Sound, Tables
  <2>2. Takes(s, f, del_internal_event(s, f))
    BY <2>1 DEF Takes, del_internal_event, OpenAfter, HeapAfter, Without
  <2>3. Left(s, {f}, del_internal_event(s, f))
    BY <2>1, <2>2, Removed
  <2> QED
    BY <1>1, <2>3 DEF iol_del_event, Left
<1>2. CASE f \notin DOMAIN s.tree
  BY <1>2 DEF iol_del_event, Left
<1> QED
  BY <1>1, <1>2

(* A batch stays right when others register, ...                           *)
LEMMA RestMore ==
    ASSUME NEW s, NEW t, NEW v, NEW rev, Rest(s, v, rev), DOMAIN s.epoll \subseteq DOMAIN t.epoll,
           \A g \in DOMAIN s.epoll : t.epoll[g] = s.epoll[g]
    PROVE  Rest(t, v, rev)
BY DEF Rest

(* ... when registrations go whose fds are noted, ...                      *)
LEMMA RestLess ==
    ASSUME NEW s, NEW t, NEW v, NEW rev, NEW gone, NEW noted,
           Rest(s, v, rev), Left(s, gone, t), rev \cup gone \subseteq noted
    PROVE  Rest(t, v, noted)
BY DEF Rest, Left

(* ... and when its first entry is done, whose fd may be gone then.        *)
LEMMA RestTail ==
    ASSUME NEW s, NEW t, NEW v, NEW rev, NEW gone, NEW noted, Rest(s, v, rev), v # <<>>,
           Left(s, gone, t), rev \subseteq noted, gone \subseteq noted \cup {Head(v).fd}
    PROVE  Rest(t, Tail(v), noted)
<1>1. v \in Seq(Entry) /\ Tail(v) \in Seq(Entry) /\ Len(v) \in Nat \ {0} /\ Head(v) = v[1]
  BY DEF Rest
<1>2. Len(Tail(v)) = Len(v) - 1 /\ \A j \in 1 .. Len(Tail(v)) : Tail(v)[j] = v[j + 1]
  BY <1>1
<1>3. \A j \in 1 .. Len(Tail(v)) : j + 1 \in 1 .. Len(v) /\ j + 1 # 1 /\ 1 \in 1 .. Len(v)
  BY <1>1, <1>2
<1>4. \A j, k \in 1 .. Len(Tail(v)) : j # k => Tail(v)[j].fd # Tail(v)[k].fd
  <2> SUFFICES ASSUME NEW j \in 1 .. Len(Tail(v)), NEW k \in 1 .. Len(Tail(v)), j # k
               PROVE  Tail(v)[j].fd # Tail(v)[k].fd
    OBVIOUS
  <2>1. j + 1 # k + 1
    OBVIOUS
  <2> QED
    BY <1>2, <1>3, <2>1 DEF Rest
<1>5. ASSUME NEW j \in 1 .. Len(Tail(v)), Tail(v)[j].fd \notin noted
      PROVE  Tail(v)[j].fd \in DOMAIN t.epoll /\ t.epoll[Tail(v)[j].fd] = Tail(v)[j].ptr
  <2>1. v[j + 1].fd # v[1].fd
    BY <1>3 DEF Rest
  <2>2. v[j + 1].fd \notin gone /\ v[j + 1].fd \notin rev
    BY <1>1, <1>2, <1>5, <2>1
  <2>3. v[j + 1].fd \in DOMAIN s.epoll /\ s.epoll[v[j + 1].fd] = v[j + 1].ptr
    BY <1>3, <2>2 DEF Rest
  <2> QED
    BY <1>2, <2>2, <2>3 DEF Left
<1> QED
  BY <1>1, <1>4, <1>5 DEF Rest

(* Nothing at all goes.                                                    *)
LEMMA LeftNone ==
    ASSUME NEW s, Sound(s)
    PROVE  Left(s, {}, s)
BY DEF Left

LEMMA RestEmpty ==
    ASSUME NEW s, NEW noted
    PROVE  Rest(s, <<>>, noted)
<1>1. <<>> \in Seq(Entry) /\ Len(<<>>) = 0
  OBVIOUS
<1>2. 1 .. 0 = {}
  OBVIOUS
<1> QED
  BY <1>1, <1>2 DEF Rest

(* The end of a turn.                                                      *)
LEMMA EntryDone ==
    ASSUME NEW rev \in SUBSET Fds, vec \in Seq(Entry), vec # <<>>, NextEntry(rev),
           Rest(reg', Tail(vec), rev)
    PROVE  /\ Rest(reg', vec', revoked') /\ revoked' \subseteq Fds
           /\ \/ pc' = "caller" /\ vec' = <<>>
              \/ pc' = "dispatch" /\ vec' # <<>>
<1>1. CASE Tail(vec) = <<>>
  BY <1>1, RestEmpty DEF NextEntry
<1>2. CASE Tail(vec) # <<>>
  BY <1>2 DEF NextEntry
<1> QED
  BY <1>1, <1>2

(* The two steps of iol_add_event in one.                                  *)
LEMMA BothAdded ==
    ASSUME Sound(reg), NEW f \in Fds, NEW b \in Blocks, NEW kind \in Kinds, CanAdd(f, b)
    PROVE  LET t == tsearch(epoll_add(f, b, kind), f) IN
           /\ Sound(t)
           /\ DOMAIN t.epoll = DOMAIN reg.epoll \cup {f}
           /\ DOMAIN t.tree = DOMAIN reg.tree \cup {f}
           /\ \A g \in DOMAIN reg.epoll : t.epoll[g] = reg.epoll[g]
<1> DEFINE s == epoll_add(f, b, kind)
<1>1. /\ Sound(s) /\ s.tree = reg.tree
      /\ DOMAIN s.epoll = DOMAIN reg.epoll \cup {f}
      /\ \A g \in DOMAIN reg.epoll : s.epoll[g] = reg.epoll[g]
  BY EpollAdd
<1> HIDE DEF s
<1>2. /\ Sound(tsearch(s, f)) /\ tsearch(s, f).epoll = s.epoll
      /\ DOMAIN tsearch(s, f).tree = DOMAIN s.tree \cup {f}
  BY <1>1, TreeSearch
<1> QED
  BY <1>1, <1>2 DEF s

----------------------------------------------------------------------------
(* The invariant at the start and after each action                        *)

LEMMA IoInvInit == Init => IoInv
<1> SUFFICES ASSUME Init PROVE IoInv
  OBVIOUS
<1>1. Sound(reg) /\ Shared(reg, adder)
  BY DEF Init, Sound, Tables, Kept, Shared
<1>2. Rest(reg, vec, revoked)
  BY RestEmpty DEF Init
<1>3. Control
  BY DEF Init, Control
<1> QED
  BY <1>1, <1>2, <1>3 DEF IoInv

LEMMA AroundStep ==
    ASSUME IoInv, NEW f \in Fds, Ready(f) \/ Close(f)
    PROVE  IoInv'
<1>1. CASE Ready(f)
  BY <1>1 DEF Ready, IoInv, Control
<1>2. CASE Close(f)
  <2>1. /\ reg'.epoll = reg.epoll /\ reg'.tree = reg.tree /\ reg'.heap = reg.heap
        /\ reg'.open = reg.open \ {f} /\ f \notin DOMAIN reg.epoll
    BY <1>2 DEF Close
  <2>2. Sound(reg)' /\ Shared(reg, adder)' /\ Rest(reg, vec, revoked)'
    BY <1>2, <2>1 DEF Close, IoInv, Sound, Tables, Kept, Shared, Rest
  <2> QED
    BY <1>2, <2>2 DEF Close, IoInv, Control
<1> QED
  BY <1>1, <1>2

LEMMA StateOnAddType ==
    ASSUME NEW f \in Fds, Control
    PROVE  StateOnAdd(f) \in [Fds -> {"quiet", "data", "eof"}]
BY DEF StateOnAdd, Control

LEMMA AddStep ==
    ASSUME IoInv, NEW f \in Fds, NEW b \in Blocks, NEW kind \in Kinds, iol_add_event(f, b, kind)
    PROVE  IoInv'
<1>1. /\ Sound(reg') /\ DOMAIN reg'.epoll = DOMAIN reg.epoll \cup {f}
      /\ DOMAIN reg'.tree = DOMAIN reg.tree \cup {f} /\ f \notin DOMAIN reg.epoll
      /\ \A g \in DOMAIN reg.epoll : reg'.epoll[g] = reg.epoll[g]
  BY BothAdded DEF IoInv, iol_add_event, CanAdd
<1>2. Shared(reg', adder) /\ Rest(reg', vec, revoked)
  BY <1>1, RestMore DEF IoInv, Shared
<1>3. Control'
  BY StateOnAddType DEF IoInv, Control, iol_add_event
<1> QED
  BY <1>1, <1>2, <1>3 DEF IoInv, iol_add_event

LEMMA DeleteStep ==
    ASSUME IoInv, NEW f \in Fds, Delete(f)
    PROVE  IoInv'
<1>1. Left(reg, {f}, reg') /\ f \in DOMAIN reg.tree
  BY DelEvent DEF IoInv, Delete, Left
<1>2. Sound(reg') /\ Shared(reg', adder)
  BY <1>1 DEF Left, IoInv, Shared
<1>3. vec' = <<>>
  BY DEF IoInv, Control, Delete
<1> QED
  BY <1>2, <1>3, RestEmpty DEF IoInv, Control, Delete

LEMMA ThreadAddStep ==
    ASSUME IoInv, NEW f \in Fds, NEW b \in Blocks, NEW kind \in Kinds, ThreadAdd(f, b, kind)
    PROVE  IoInv'
<1>1. /\ Sound(reg') /\ DOMAIN reg'.epoll = DOMAIN reg.epoll \cup {f}
      /\ reg'.tree = reg.tree /\ f \notin DOMAIN reg.epoll
      /\ \A g \in DOMAIN reg.epoll : reg'.epoll[g] = reg.epoll[g]
  <2>1. Sound(reg) /\ CanAdd(f, b) /\ reg' = epoll_add(f, b, kind)
    BY DEF IoInv, ThreadAdd
  <2>2. f \notin DOMAIN reg.epoll
    BY <2>1 DEF CanAdd
  <2> QED
    BY <2>1, <2>2, EpollAdd
<1>2. Shared(reg', adder')
  <2>1. adder = None /\ adder' = f
    BY DEF ThreadAdd
  <2>2. DOMAIN reg.epoll \subseteq DOMAIN reg.tree \cup {None} /\ DOMAIN reg.epoll \subseteq Fds
    BY <2>1 DEF IoInv, Sound, Tables, Shared
  <2>3. DOMAIN reg.tree \subseteq DOMAIN reg.epoll /\ None \notin Fds
    BY NoneAssumption DEF IoInv, Sound, Tables
  <2> QED
    BY <1>1, <2>1, <2>2, <2>3 DEF Shared
<1>3. Rest(reg', vec, revoked)
  BY <1>1, RestMore DEF IoInv
<1>4. Control'
  BY StateOnAddType DEF IoInv, Control, ThreadAdd
<1> QED
  BY <1>1, <1>2, <1>3, <1>4 DEF IoInv, ThreadAdd

LEMMA ThreadInsertStep ==
    ASSUME IoInv, ThreadInsert
    PROVE  IoInv'
<1>1. adder \in DOMAIN reg.epoll
  BY DEF IoInv, Shared, ThreadInsert
<1>2. /\ Sound(reg') /\ reg'.epoll = reg.epoll
      /\ DOMAIN reg'.tree = DOMAIN reg.tree \cup {adder}
  BY <1>1, TreeSearch DEF IoInv, ThreadInsert
<1>3. Shared(reg', adder')
  BY <1>2 DEF IoInv, Shared, ThreadInsert
<1>4. Rest(reg', vec, revoked)
  BY <1>2, RestMore DEF IoInv
<1> QED
  BY <1>2, <1>3, <1>4 DEF IoInv, Control, ThreadInsert

LEMMA ThreadInsertFailsStep ==
    ASSUME IoInv, ThreadInsertFails
    PROVE  IoInv'
<1>1. adder \in DOMAIN reg.epoll \ DOMAIN reg.tree /\ adder \in Fds
  BY DEF IoInv, Shared, ThreadInsertFails
<1>3. Takes(reg, adder, reg')
  BY <1>1 DEF Takes, ThreadInsertFails
<1>4. Left(reg, {adder}, reg')
  BY <1>1, <1>3, Removed DEF IoInv
<1>5. Sound(reg') /\ Shared(reg', adder')
  BY <1>1, <1>4 DEF Left, IoInv, Shared, ThreadInsertFails
<1>6. Rest(reg', vec, revoked') /\ revoked' \subseteq Fds
  <2>1. CASE vec = <<>>
    BY <2>1, RestEmpty DEF ThreadInsertFails
  <2>2. CASE vec # <<>>
    <3>1. revoked' = revoked \cup {adder}
      BY <2>2 DEF ThreadInsertFails
    <3> QED
      BY <1>1, <1>4, <3>1, RestLess DEF IoInv, Control
  <2> QED
    BY <2>1, <2>2
<1> QED
  BY <1>5, <1>6 DEF IoInv, Control, ThreadInsertFails

LEMMA WaitStep ==
    ASSUME IoInv, epoll_wait
    PROVE  IoInv'
<1> DEFINE S == {[fd |-> f, ptr |-> reg.epoll[f]] : f \in ReadyFds}
<1>1. ReadyFds \subseteq DOMAIN reg.epoll /\ ReadyFds \subseteq Fds /\ ReadyFds # {}
  BY DEF ReadyFds, epoll_wait, IoInv, Sound, Tables
<1>2. S \subseteq Entry /\ S # {}
  <2>1. \A f \in ReadyFds : f \in Fds /\ reg.epoll[f] \in Blocks
    BY <1>1 DEF IoInv, Sound, Tables
  <2>2. \A f \in ReadyFds : [fd |-> f, ptr |-> reg.epoll[f]] \in Entry
    BY <2>1 DEF Entry
  <2> QED
    BY <1>1, <2>2
<1>3. \A x \in S : x.fd \in DOMAIN reg.epoll /\ reg.epoll[x.fd] = x.ptr
  BY <1>1
<1>4. \A x, y \in S : x # y => x.fd # y.fd
  OBVIOUS
<1>5. IsFiniteSet(S)
  <2>1. IsFiniteSet(ReadyFds)
    BY <1>1, FinAssumption, FS_Subset
  <2> DEFINE g == [x \in S |-> x.fd]
  <2>2. g \in Injection(S, ReadyFds)
    <3>1. g \in [S -> ReadyFds] /\ \A x, y \in S : g[x] = g[y] => x = y
      BY <1>4
    <3> QED
      BY <3>1 DEF Injection, IsInjective
  <2> QED
    BY <2>1, <2>2, FS_Injection
<1>6. Cardinality(S) \in Nat \ {0}
  BY <1>2, <1>5, FS_CardinalityType, FS_EmptySet
<1>7. vec' \in SetToSeqs(S) /\ pc' = "dispatch" /\ UNCHANGED <<reg, state, adder, ret, revoked>>
  BY DEF epoll_wait
<1> HIDE DEF S
<1>8. /\ vec' \in [1 .. Cardinality(S) -> S]
      /\ \A j, k \in 1 .. Cardinality(S) : j # k => vec'[j] # vec'[k]
  BY <1>7 DEF SetToSeqs
<1>9. vec' \in Seq(Entry) /\ Len(vec') = Cardinality(S) /\ vec' # <<>>
  BY <1>2, <1>6, <1>8
<1>10. Rest(reg, vec', revoked)
  BY <1>3, <1>4, <1>8, <1>9 DEF Rest
<1> QED
  BY <1>7, <1>9, <1>10 DEF IoInv, Control

LEMMA SkipStep ==
    ASSUME IoInv, SkipEntry
    PROVE  IoInv'
<1>1. UNCHANGED <<reg, state, adder, ret>> /\ Sound(reg') /\ Shared(reg', adder')
  BY DEF SkipEntry, IoInv
<1>2. CASE NextEntry(revoked)
  <2>1. vec \in Seq(Entry) /\ vec # <<>>
    BY DEF SkipEntry, IoInv, Control, Rest
  <2>2. Rest(reg', Tail(vec), revoked)
    BY <1>1, <2>1, RestTail, LeftNone DEF IoInv
  <2> QED
    BY <1>1, <1>2, <2>1, <2>2, EntryDone DEF IoInv, Control
<1>3. CASE pc' = "undefined" /\ UNCHANGED <<vec, revoked>>
  BY <1>1, <1>3 DEF IoInv, Control
<1> QED
  BY <1>2, <1>3 DEF SkipEntry

LEMMA CallBackStep ==
    ASSUME IoInv, CallBack
    PROVE  IoInv'
<1> DEFINE rest == [state EXCEPT ![curr.fd] = IF @ = "data" THEN "quiet" ELSE @]
<1>1. vec # <<>> /\ pc' = "returned" /\ UNCHANGED <<adder, vec>> /\ ret' \in -1 .. 1
  BY DEF CallBack, IoInv, Control
<1>2. rest \in [Fds -> {"quiet", "data", "eof"}]
  BY DEF IoInv, Control
<1> HIDE DEF rest
<1>3. CASE state' = rest /\ UNCHANGED <<reg, revoked>>
  BY <1>1, <1>2, <1>3 DEF IoInv, Control
<1>4. ASSUME NEW f \in DOMAIN reg.tree, reg' = iol_del_event(reg, f),
             revoked' = revoked \cup {f}, state' = rest
      PROVE  IoInv'
  <2>1. Left(reg, {f}, reg') /\ f \in Fds
    BY <1>4, DelEvent DEF IoInv, Left, Sound, Tables
  <2>2. Sound(reg') /\ Shared(reg', adder)
    BY <2>1 DEF Left, IoInv, Shared
  <2>3. Rest(reg', vec, revoked')
    BY <1>4, <2>1, RestLess DEF IoInv
  <2> QED
    BY <1>1, <1>2, <1>4, <2>1, <2>2, <2>3 DEF IoInv, Control
<1>5. ASSUME NEW f \in Fds, NEW b \in Blocks, NEW kind \in Kinds, CanAdd(f, b),
             reg' = tsearch(epoll_add(f, b, kind), f),
             state' = IF f \in reg.open THEN rest ELSE [rest EXCEPT ![f] = "quiet"],
             UNCHANGED revoked
      PROVE  IoInv'
  <2>1. f \notin DOMAIN reg.epoll
    BY <1>5 DEF CanAdd
  <2>2. /\ Sound(reg') /\ DOMAIN reg'.epoll = DOMAIN reg.epoll \cup {f}
        /\ DOMAIN reg'.tree = DOMAIN reg.tree \cup {f}
        /\ \A g \in DOMAIN reg.epoll : reg'.epoll[g] = reg.epoll[g]
    BY <1>5, BothAdded DEF IoInv
  <2>3. Shared(reg', adder) /\ Rest(reg', vec, revoked)
    BY <2>1, <2>2, RestMore DEF IoInv, Shared
  <2>4. state' \in [Fds -> {"quiet", "data", "eof"}]
    BY <1>2, <1>5
  <2> QED
    BY <1>1, <1>5, <2>2, <2>3, <2>4 DEF IoInv, Control
<1> QED
  BY <1>3, <1>4, <1>5 DEF CallBack, rest

LEMMA ReturnedStep ==
    ASSUME IoInv, Returned
    PROVE  IoInv'
<1>1. /\ vec \in Seq(Entry) /\ vec # <<>> /\ Rest(reg, vec, revoked)
      /\ ret' = 0 /\ UNCHANGED <<state, adder>>
  BY DEF Returned, IoInv, Control, Rest
<1>2. Head(vec).fd \in Fds /\ Head(vec).ptr \in Blocks
  <2>1. Head(vec) \in Entry
    BY <1>1
  <2> QED
    BY <2>1 DEF Entry
<1>3. CASE NextEntry(revoked) /\ UNCHANGED reg
  <2>1. Rest(reg', Tail(vec), revoked)
    BY <1>1, <1>3, RestTail, LeftNone DEF IoInv
  <2> QED
    BY <1>1, <1>3, <2>1, EntryDone DEF IoInv, Control
<1>4. ASSUME curr # None, reg' = iol_del_event(reg, curr.fd),
             NextEntry(IF curr.fd = Head(vec).fd THEN revoked ELSE revoked \cup {curr.fd})
      PROVE  IoInv'
  <2> DEFINE rev == IF curr.fd = Head(vec).fd THEN revoked ELSE revoked \cup {curr.fd}
  <2> DEFINE gone == {curr.fd} \cap DOMAIN reg.tree
  <2>1. curr.fd \in Fds
    BY <1>2, <1>4 DEF curr, IoInv, Sound, Tables, Descs
  <2>2. Left(reg, gone, reg')
    BY <1>4, DelEvent DEF IoInv
  <2>3. rev \in SUBSET Fds /\ revoked \subseteq rev /\ gone \subseteq rev \cup {Head(vec).fd}
    BY <2>1 DEF IoInv, Control
  <2>4. Sound(reg') /\ Shared(reg', adder)
    BY <2>2 DEF Left, IoInv, Shared
  <2> HIDE DEF rev, gone
  <2>5. Rest(reg', Tail(vec), rev)
    BY <1>1, <2>2, <2>3, RestTail
  <2>6. NextEntry(rev)
    BY <1>4 DEF rev
  <2> QED
    BY <1>1, <2>3, <2>4, <2>5, <2>6, EntryDone DEF IoInv, Control
<1>5. CASE pc' = "undefined" /\ UNCHANGED <<reg, vec, revoked>>
  BY <1>1, <1>5 DEF IoInv, Control
<1> QED
  BY <1>3, <1>4, <1>5 DEF Returned

LEMMA ExitStep ==
    ASSUME IoInv, iol_exitlib
    PROVE  IoInv'
<1>1. vec' = <<>> /\ UNCHANGED <<state, adder, ret, revoked>> /\ pc' = "exited"
  BY DEF iol_exitlib, IoInv, Control
<1>2. /\ reg'.open = reg.open \ DOMAIN reg.tree /\ DOMAIN reg'.tree = {}
      /\ DOMAIN reg'.epoll = DOMAIN reg.epoll \ DOMAIN reg.tree
      /\ \A f \in DOMAIN reg'.epoll : reg'.epoll[f] = reg.epoll[f]
      /\ reg'.heap = [b \in Blocks |-> IF \E f \in DOMAIN reg.tree : reg.tree[f] = b THEN None
                                      ELSE reg.heap[b]]
  BY DEF iol_exitlib
<1>3. \A f \in DOMAIN reg'.epoll : \A g \in DOMAIN reg.tree : reg.tree[g] # reg.epoll[f]
  BY <1>2, AddressesDiffer DEF IoInv, Sound, Tables
<1>4. \A f \in DOMAIN reg'.epoll :
         reg.epoll[f] \in Blocks /\ reg'.heap[reg.epoll[f]] = reg.heap[reg.epoll[f]]
  BY <1>2, <1>3 DEF IoInv, Sound, Tables
<1>5. Tables(reg')
  BY <1>2, <1>4 DEF IoInv, Sound, Tables
<1>6. Kept(reg')
  <2> SUFFICES ASSUME NEW b \in Blocks, reg'.heap[b] # None, reg'.heap[b].clean
               PROVE  \E g \in DOMAIN reg'.epoll : reg'.epoll[g] = b
    BY DEF Kept
  <2>1. reg'.heap[b] = reg.heap[b] /\ \A f \in DOMAIN reg.tree : reg.tree[f] # b
    BY <1>2
  <2>2. PICK g \in DOMAIN reg.epoll : reg.epoll[g] = b
    BY <2>1 DEF IoInv, Sound, Kept
  <2>3. g \notin DOMAIN reg.tree
    BY <2>1, <2>2 DEF IoInv, Sound, Tables
  <2> QED
    BY <1>2, <2>2, <2>3
<1>7. Shared(reg', adder)
  BY <1>2 DEF IoInv, Shared
<1> QED
  BY <1>1, <1>5, <1>6, <1>7, RestEmpty DEF IoInv, Sound, Control

LEMMA IoInvNext == IoInv /\ [Next]_vars => IoInv'
<1> SUFFICES ASSUME IoInv, [Next]_vars PROVE IoInv'
  OBVIOUS
<1>1. CASE UNCHANGED vars
  BY <1>1 DEF vars, IoInv, Control
<1>2. CASE Loop
  BY <1>2, WaitStep, SkipStep, CallBackStep, ReturnedStep DEF Loop
<1>3. CASE Thread
  BY <1>3, ThreadInsertStep, ThreadInsertFailsStep DEF Thread
<1>4. CASE \E f \in Fds : Ready(f) \/ Close(f) \/ Delete(f)
  BY <1>4, AroundStep, DeleteStep
<1>5. CASE \E f \in Fds, b \in Blocks, kind \in Kinds :
              iol_add_event(f, b, kind) \/ ThreadAdd(f, b, kind)
  BY <1>5, AddStep, ThreadAddStep
<1> QED
  BY <1>1, <1>2, <1>3, <1>4, <1>5, ExitStep DEF Next

----------------------------------------------------------------------------
(* The theorems                                                            *)

(* The inductive invariant: the tables of the library, the two threads and *)
(* what is left of a batch fit together.                                   *)
THEOREM IoInvariant == Spec => []IoInv
BY IoInvInit, IoInvNext, PTL DEF Spec

(* Tree and kernel hold the same registrations, each at a live descriptor  *)
(* of its fd, but for the one that the second thread is adding.            *)
THEOREM IoRegistrationsAgree == Spec => []RegistrationsAgree
<1>1. IoInv => RegistrationsAgree
  <2> SUFFICES ASSUME IoInv PROVE RegistrationsAgree
    OBVIOUS
  <2>1. TypeOK
    BY DEF IoInv, Sound, Tables, Shared, Rest, Control, TypeOK, Entry
  <2> QED
    BY <2>1 DEF IoInv, Sound, Tables, Shared, RegistrationsAgree
<1> QED
  BY <1>1, IoInvariant, PTL

(* The rest of a batch points to live descriptors, but for fds that were   *)
(* revoked while it was handled.                                           *)
THEOREM IoBatchValid == Spec => []BatchValid
<1>1. IoInv => BatchValid
  BY DEF IoInv, Sound, Tables, Rest, BatchValid
<1> QED
  BY <1>1, IoInvariant, PTL

(* No descriptor with an iol_clean is lost.                                *)
THEOREM IoNothingLost == Spec => []LostOnlyWithoutClean
<1>1. IoInv => LostOnlyWithoutClean
  BY DEF IoInv, Sound, Kept, LostOnlyWithoutClean
<1> QED
  BY <1>1, IoInvariant, PTL
=============================================================================
