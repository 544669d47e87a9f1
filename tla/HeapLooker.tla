----------------------------- MODULE HeapLooker -----------------------------
(***************************************************************************)
(* heap_looker: malloc, calloc, realloc and free of a program's threads go *)
(* through the libc's functions first and are recorded in a log after      *)
(* that, so that records of two threads may be in another order than what  *)
(* they record.  Of the log the last record of each address is kept.       *)
(***************************************************************************)
EXTENDS Integers

CONSTANTS
    Threads,
    Addrs,   \* bound: the addresses blocks may have
    NoRecord

ASSUME NoRecordAssumption ==
    /\ NoRecord \notin Addrs \cup {"alloc", "free"}
    /\ NoRecord \notin [action : {"alloc", "free"}, start : Addrs]

VARIABLES
    lk_fp,       \* heap_looker_init was called
    lk_live,     \* external: the blocks the allocator has handed out
    lk_call,     \* per thread: the record it is about to write [action, start], NoRecord outside a call
    lk_last,     \* per address: "alloc", "free", NoRecord
    lk_excused   \* history: addresses released by a realloc, or handed out
                 \* while the record of their release was not written

lk_vars == <<lk_fp, lk_live, lk_call, lk_last, lk_excused>>

Record(action, start) == [action |-> action, start |-> start]

LkTypeOK ==
    /\ lk_fp \in BOOLEAN
    /\ lk_live \subseteq Addrs
    /\ lk_call \in [Threads -> [action : {"alloc", "free"}, start : Addrs] \cup {NoRecord}]
    /\ lk_last \in [Addrs -> {"alloc", "free", NoRecord}]

LkInit ==
    /\ lk_fp = FALSE
    /\ lk_live = {}
    /\ lk_call = [t \in Threads |-> NoRecord]
    /\ lk_last = [a \in Addrs |-> NoRecord]
    /\ lk_excused = {}

heap_looker_init ==
    /\ ~ lk_fp /\ lk_fp' = TRUE
    /\ UNCHANGED <<lk_live, lk_call, lk_last, lk_excused>>

Calls(t, r) == lk_call[t] = NoRecord /\ lk_call' = [lk_call EXCEPT ![t] = r]

(* A block is known to its client when the call has returned.              *)
Mine(a) == a \in lk_live /\ \A t \in Threads : lk_call[t] # Record("alloc", a)

(* The excuses once block a is handed out.                                 *)
HandedOut(a) ==
    IF \E t \in Threads : lk_call[t] = Record("free", a) THEN lk_excused \cup {a} ELSE lk_excused \ {a}

(* malloc and calloc up to the return of the libc's; one that fails writes *)
(* no record.                                                              *)
malloc(t, a) ==
    /\ a \notin lk_live
    /\ Calls(t, Record("alloc", a))
    /\ lk_live' = lk_live \cup {a}
    /\ lk_excused' = HandedOut(a)
    /\ UNCHANGED <<lk_fp, lk_last>>

(* realloc of block old: it may stay, move, or be given up (length 0) with *)
(* a null result.  Only the new block is recorded.  Fault: it is not.      *)
realloc_silent(t, old, new) ==
    /\ Mine(old) /\ lk_call[t] = NoRecord
    /\ new # old => new \notin lk_live
    /\ lk_live' = (lk_live \ {old}) \cup ({new} \ {NoRecord})
    /\ lk_excused' = IF new \in Addrs \ {old} THEN HandedOut(new) \cup {old}
                     ELSE lk_excused \cup ({old} \ {new})
    /\ UNCHANGED <<lk_fp, lk_call, lk_last>>
realloc(t, old, new) ==
    /\ Mine(old)
    /\ new # old => new \notin lk_live
    /\ Calls(t, IF new = NoRecord THEN NoRecord ELSE Record("alloc", new))
    /\ lk_live' = (lk_live \ {old}) \cup ({new} \ {NoRecord})
    /\ lk_excused' = IF new \in Addrs \ {old} THEN HandedOut(new) \cup {old}
                     ELSE lk_excused \cup ({old} \ {new})
    /\ UNCHANGED <<lk_fp, lk_last>>

free(t, a) ==
    /\ Mine(a)
    /\ Calls(t, Record("free", a))
    /\ lk_live' = lk_live \ {a}
    /\ UNCHANGED <<lk_fp, lk_last, lk_excused>>

(* HEAP_LOOKER_WRITE_ALLOCBACKTRACE and _FREEBACKTRACE, up to the start of *)
(* a record; there is none before heap_looker_init.                        *)
Write(t) ==
    /\ lk_call[t] # NoRecord
    /\ lk_last' = IF lk_fp THEN [lk_last EXCEPT ![lk_call[t].start] = lk_call[t].action] ELSE lk_last
    /\ lk_call' = [lk_call EXCEPT ![t] = NoRecord]
    /\ UNCHANGED <<lk_fp, lk_live, lk_excused>>

LkNext ==
    \/ heap_looker_init
    \/ \E t \in Threads, a \in Addrs :
          malloc(t, a) \/ free(t, a) \/ \E new \in Addrs \cup {NoRecord} : realloc(t, a, new)
    \/ \E t \in Threads : Write(t)

LkSpec == LkInit /\ [][LkNext]_lk_vars

----------------------------------------------------------------------------
(* Properties                                                              *)

(* Once the calls on an address have returned, its last record says whether*)
(* a block lives there, whatever order the threads write in; but for       *)
(* realloc, which never records the release of the old block, and for an   *)
(* address that free had given back to the allocator, and another thread   *)
(* got from it, before free wrote its record.                              *)
LogTellsLive ==
    \A a \in Addrs \ lk_excused :
        lk_last[a] # NoRecord /\ (\A t \in Threads : lk_call[t] = NoRecord \/ lk_call[t].start # a) =>
            (lk_last[a] = "alloc" <=> a \in lk_live)
=============================================================================
