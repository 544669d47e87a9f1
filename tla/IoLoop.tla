------------------------------- MODULE IoLoop -------------------------------
(***************************************************************************)
(* The event loop of ioloop: iol_add_event, iol_del_event, iol_main_loop   *)
(* and the destructor iol_exitlib, on one thread with its callbacks, next  *)
(* to a second thread that adds events as test.c does.                     *)
(*                                                                         *)
(* A registration is kept twice: in the search tree, by fd, and by the     *)
(* kernel, which hands the descriptor's address back with each event.      *)
(* iol_add_event makes the two in two steps, which the other thread may    *)
(* see between.  One that fails undoes what it did, and is no step at all  *)
(* unless the other thread can see between.  Tree operations of the two    *)
(* threads, which no lock separates, are taken one after the other.        *)
(***************************************************************************)
EXTENDS Integers, SequencesExt

CONSTANTS
    Fds,      \* file descriptors, all > 0
    Blocks,   \* bound: the addresses of descriptors
    Kinds,    \* the descriptors clients fill in: [func, clean : BOOLEAN]
    None

ASSUME FdsAssumption  == Fds \subseteq Nat \ {0}
ASSUME NoneAssumption == None \notin Blocks \cup Fds \cup [fd : Fds, func : BOOLEAN, clean : BOOLEAN]
ASSUME FinAssumption  == IsFiniteSet(Fds)
ASSUME KindAssumption == Kinds \subseteq [func : BOOLEAN, clean : BOOLEAN]

VARIABLES
    reg,      \* open: open fds; epoll, tree: fd -> descriptor; heap: see TypeOK
    state,    \* what can be read from each fd: "quiet", "data", "eof"
    adder,    \* the second thread: fd it has registered but not put in the tree
    pc,       \* the loop's thread
    vec,      \* the rest of the batch epoll_wait returned, its current entry first
    ret,      \* what the current callback returned
    revoked   \* fds whose registration someone else than the loop ended in this batch

vars == <<reg, state, adder, pc, vec, ret, revoked>>

Without(f, x) == [y \in DOMAIN f \ {x} |-> f[y]]
With(f, x, v) == [y \in DOMAIN f \cup {x} |-> IF y = x THEN v ELSE f[y]]

(* struct ioloop_event_desc; iol_rev is left out, iol_func and iol_clean   *)
(* are given by whether they are set.                                      *)
Descs == [fd : Fds, func : BOOLEAN, clean : BOOLEAN]

TypeOK ==
    /\ reg.open \subseteq Fds
    /\ DOMAIN reg.epoll \subseteq reg.open /\ DOMAIN reg.tree \subseteq Fds
    /\ reg.heap \in [Blocks -> Descs \cup {None}]
    /\ state \in [Fds -> {"quiet", "data", "eof"}]
    /\ adder \in Fds \cup {None}
    /\ pc \in {"caller", "dispatch", "returned", "undefined", "exited"}
    /\ vec \in Seq([fd : Fds, ptr : Blocks])
    /\ ret \in -1 .. 1
    /\ revoked \subseteq Fds

(* iol_initlib.                                                            *)
Init ==
    /\ reg = [open |-> {}, epoll |-> [f \in {} |-> None], tree |-> [f \in {} |-> None],
              heap |-> [b \in Blocks |-> None]]
    /\ state = [f \in Fds |-> "quiet"]
    /\ adder = None
    /\ pc = "caller"
    /\ vec = <<>>
    /\ ret = 0
    /\ revoked = {}

----------------------------------------------------------------------------
(* The library's operations, as functions of reg                           *)

(* iol_add_event up to the success of epoll_ctl: a copy of the caller's    *)
(* descriptor in memory and in the kernel.                                 *)
CanAdd(f, b) == f \notin DOMAIN reg.epoll /\ reg.heap[b] = None
epoll_add(f, b, kind) ==
    [open  |-> reg.open \cup {f},
     epoll |-> With(reg.epoll, f, b),
     tree  |-> reg.tree,
     heap  |-> [reg.heap EXCEPT ![b] = [fd |-> f, func |-> kind.func, clean |-> kind.clean]]]

(* tsearch: a node for the same fd, if there is one, stays.                *)
tsearch(s, f) ==
    IF f \in DOMAIN s.tree THEN s
    ELSE [open |-> s.open, epoll |-> s.epoll, tree |-> With(s.tree, f, s.epoll[f]), heap |-> s.heap]

(* What _iol_del_internal_event does about iol_clean, which is the         *)
(* client's and closes the fd; without one the descriptor is not freed.    *)
OpenAfter(s, f) == IF s.heap[s.tree[f]].clean THEN s.open \ {f} ELSE s.open
HeapAfter(s, f) == IF s.heap[s.tree[f]].clean THEN [s.heap EXCEPT ![s.tree[f]] = None] ELSE s.heap

(* _iol_del_internal_event.  Faults: the node stays in the tree; a cleaned *)
(* descriptor is not freed.                                                *)
del_internal_event_keepsTree(s, f) ==
    [open |-> OpenAfter(s, f), epoll |-> Without(s.epoll, f), tree |-> s.tree, heap |-> HeapAfter(s, f)]
del_internal_event_noFree(s, f) ==
    [open |-> OpenAfter(s, f), epoll |-> Without(s.epoll, f), tree |-> Without(s.tree, f), heap |-> s.heap]
del_internal_event(s, f) ==
    [open  |-> OpenAfter(s, f),
     epoll |-> Without(s.epoll, f),
     tree  |-> Without(s.tree, f),
     heap  |-> HeapAfter(s, f)]

iol_del_event(s, f) == IF f \in DOMAIN s.tree THEN del_internal_event(s, f) ELSE s

----------------------------------------------------------------------------
(* What goes on around the loop                                            *)

(* Something can be read from f: the events are level-triggered, and an fd *)
(* at its end stays there.                                                 *)
Ready(f) ==
    /\ f \in reg.open
    /\ \/ /\ state[f] = "quiet"
          /\ state' = [state EXCEPT ![f] = "data"]
       \/ /\ state[f] # "eof"
          /\ state' = [state EXCEPT ![f] = "eof"]
    /\ UNCHANGED <<reg, adder, pc, vec, ret, revoked>>

(* A client that adds opens a new fd for it, or takes one that is open and *)
(* registered no more.                                                     *)
StateOnAdd(f) == IF f \in reg.open THEN state ELSE [state EXCEPT ![f] = "quiet"]

(* iol_add_event of the loop's thread, between two turns of the loop.      *)
iol_add_event(f, b, kind) ==
    /\ pc = "caller"
    /\ CanAdd(f, b)
    /\ reg' = tsearch(epoll_add(f, b, kind), f)
    /\ state' = StateOnAdd(f)
    /\ UNCHANGED <<adder, pc, vec, ret, revoked>>

(* iol_del_event of the loop's thread, and the end of an fd that nothing   *)
(* watches any more.                                                       *)
Delete(f) ==
    /\ pc = "caller" /\ f \in DOMAIN reg.tree
    /\ reg' = iol_del_event(reg, f)
    /\ UNCHANGED <<state, adder, pc, vec, ret, revoked>>

Close(f) ==
    /\ pc = "caller" /\ f \in reg.open \ DOMAIN reg.epoll
    /\ reg' = [reg EXCEPT !.open = @ \ {f}]
    /\ UNCHANGED <<state, adder, pc, vec, ret, revoked>>

(* iol_add_event of the second thread, in two steps; its tsearch may fail, *)
(* and the registration is then undone.                                    *)
ThreadAdd(f, b, kind) ==
    /\ pc # "exited" /\ adder = None
    /\ f \notin reg.open /\ CanAdd(f, b)
    /\ reg' = epoll_add(f, b, kind)
    /\ state' = StateOnAdd(f)
    /\ adder' = f
    /\ UNCHANGED <<pc, vec, ret, revoked>>

ThreadInsert ==
    /\ pc # "exited" /\ adder # None
    /\ reg' = tsearch(reg, adder)
    /\ adder' = None
    /\ UNCHANGED <<state, pc, vec, ret, revoked>>

ThreadInsertFails ==
    /\ pc # "exited" /\ adder # None
    /\ reg' = [open  |-> reg.open,
               epoll |-> Without(reg.epoll, adder),
               tree  |-> reg.tree,
               heap  |-> [reg.heap EXCEPT ![reg.epoll[adder]] = None]]
    /\ adder' = None
    /\ revoked' = IF vec = <<>> THEN {} ELSE revoked \cup {adder}
    /\ UNCHANGED <<state, pc, vec, ret>>

----------------------------------------------------------------------------
(* iol_main_loop                                                           *)

(* epoll_wait returns everything that is ready, in some order.             *)
ReadyFds == {f \in DOMAIN reg.epoll : state[f] # "quiet"}

epoll_wait ==
    /\ pc = "caller" /\ ReadyFds # {}
    /\ vec' \in SetToSeqs({[fd |-> f, ptr |-> reg.epoll[f]] : f \in ReadyFds})
    /\ pc' = "dispatch"
    /\ UNCHANGED <<reg, state, adder, ret, revoked>>

curr == reg.heap[Head(vec).ptr]

NextEntry(rev) ==
    /\ vec' = Tail(vec)
    /\ revoked' = IF Tail(vec) = <<>> THEN {} ELSE rev
    /\ pc' = IF Tail(vec) = <<>> THEN "caller" ELSE "dispatch"

(* The entry has no callback, or its descriptor is freed memory: nothing   *)
(* can be said of the program after that.                                  *)
SkipEntry ==
    /\ pc = "dispatch"
    /\ \/ /\ curr # None /\ ~ curr.func
          /\ NextEntry(revoked)
       \/ /\ curr = None
          /\ pc' = "undefined" /\ UNCHANGED <<vec, revoked>>
    /\ UNCHANGED <<reg, state, adder, ret>>

(* The callback reads its fd, and may add an event or delete one.          *)
CallBack ==
    /\ pc = "dispatch" /\ curr # None /\ curr.func
    /\ ret' \in IF state[curr.fd] = "eof" THEN {0} ELSE {-1, 1}
    /\ LET rest == [state EXCEPT ![curr.fd] = IF @ = "data" THEN "quiet" ELSE @] IN
       \/ /\ state' = rest /\ UNCHANGED <<reg, revoked>>
       \/ \E f \in DOMAIN reg.tree :
             /\ reg' = iol_del_event(reg, f)
             /\ revoked' = revoked \cup {f}
             /\ state' = rest
       \/ \E f \in Fds, b \in Blocks, kind \in Kinds :
             /\ CanAdd(f, b)
             /\ reg' = tsearch(epoll_add(f, b, kind), f)
             /\ state' = IF f \in reg.open THEN rest ELSE [rest EXCEPT ![f] = "quiet"]
             /\ UNCHANGED revoked
    /\ pc' = "returned"
    /\ UNCHANGED <<adder, vec>>

(* Fault: the end of a file, a read of 0 bytes, is not an end.             *)
Finished_negative(r) == r < 0
Finished(r) == r <= 0

(* The rest of the turn: an event whose callback is finished is deleted,   *)
(* by the fd its descriptor names.  Fault: by that of the next entry.      *)
Returned_next ==
    /\ pc = "returned"
    /\ \/ ~ Finished(ret) /\ NextEntry(revoked) /\ UNCHANGED reg
       \/ /\ Finished(ret)
          /\ reg' = iol_del_event(reg, vec[Len(vec)].fd)
          /\ NextEntry(revoked)
    /\ ret' = 0
    /\ UNCHANGED <<state, adder>>
Returned ==
    /\ pc = "returned"
    /\ \/ ~ Finished(ret) /\ NextEntry(revoked) /\ UNCHANGED reg
       \/ /\ Finished(ret) /\ curr # None
          /\ reg' = iol_del_event(reg, curr.fd)
          /\ NextEntry(IF curr.fd = Head(vec).fd THEN revoked ELSE revoked \cup {curr.fd})
       \/ /\ Finished(ret) /\ curr = None
          /\ pc' = "undefined" /\ UNCHANGED <<reg, vec, revoked>>
    /\ ret' = 0
    /\ UNCHANGED <<state, adder>>

(* iol_exitlib: _iol_free_node for every node; iol_clean is not called.    *)
iol_exitlib ==
    /\ pc = "caller"
    /\ reg' = [open  |-> reg.open \ DOMAIN reg.tree,
               epoll |-> [f \in DOMAIN reg.epoll \ DOMAIN reg.tree |-> reg.epoll[f]],
               tree  |-> [f \in {} |-> None],
               heap  |-> [b \in Blocks |->
                            IF \E f \in DOMAIN reg.tree : reg.tree[f] = b THEN None
                            ELSE reg.heap[b]]]
    /\ pc' = "exited"
    /\ UNCHANGED <<state, adder, vec, ret, revoked>>

----------------------------------------------------------------------------
Thread == ThreadInsert \/ ThreadInsertFails
Loop == epoll_wait \/ SkipEntry \/ CallBack \/ Returned

Next ==
    \/ \E f \in Fds : Ready(f)
    \/ \E f \in Fds, b \in Blocks, kind \in Kinds :
          iol_add_event(f, b, kind) \/ ThreadAdd(f, b, kind)
    \/ \E f \in Fds : Delete(f) \/ Close(f)
    \/ Thread
    \/ Loop
    \/ iol_exitlib

Spec == Init /\ [][Next]_vars

(* test.c calls iol_main_loop for ever, and its threads are scheduled.     *)
FairSpec == Spec /\ WF_vars(Loop) /\ WF_vars(Thread)

----------------------------------------------------------------------------
(* Properties                                                              *)

(* The kernel and the tree hold the same registrations, and both point to  *)
(* the live descriptor of that fd; only what the second thread is adding   *)
(* is known to the kernel alone.  (With the types of all variables.)       *)
RegistrationsAgree ==
    /\ TypeOK
    /\ DOMAIN reg.epoll \ DOMAIN reg.tree \subseteq {adder}
    /\ \A f \in DOMAIN reg.tree : f \in DOMAIN reg.epoll /\ reg.tree[f] = reg.epoll[f]
    /\ \A f \in DOMAIN reg.epoll :
          LET d == reg.heap[reg.epoll[f]] IN d # None /\ d.fd = f

(* An event still to be handled points to the live descriptor of the fd it *)
(* came from, whatever callbacks and the other thread do meanwhile, unless *)
(* a callback deleted that fd, or its concurrent iol_add_event failed, in  *)
(* the same batch: iol_main_loop uses freed memory in no other case.       *)
BatchValid ==
    \A j \in 1 .. Len(vec) :
        LET d == reg.heap[vec[j].ptr] IN
        vec[j].fd \notin revoked =>
            d # None /\ d.fd = vec[j].fd /\ vec[j].fd \in DOMAIN reg.epoll

(* A descriptor that nothing refers to any more was deleted without an     *)
(* iol_clean: on no other path does the library lose one.                  *)
LostOnlyWithoutClean ==
    \A b \in Blocks :
        reg.heap[b] # None /\ reg.heap[b].clean => \E f \in DOMAIN reg.epoll : reg.epoll[f] = b

(* An fd that reached its end is unregistered, even when its first events  *)
(* come before the other thread has put it in the tree and iol_del_event   *)
(* does not find it; unless it has no callback or memory was corrupted.    *)
EndIsRemoved ==
    \A f \in Fds :
        (f \in DOMAIN reg.epoll /\ state[f] = "eof" /\ reg.heap[reg.epoll[f]].func)
            ~> \/ f \notin DOMAIN reg.epoll \/ state[f] # "eof"
               \/ pc \in {"undefined", "exited"}
=============================================================================
