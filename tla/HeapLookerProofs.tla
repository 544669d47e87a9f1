-------------------------- MODULE HeapLookerProofs --------------------------
(***************************************************************************)
(* Proofs about HeapLooker, for any number of threads and addresses.       *)
(***************************************************************************)
EXTENDS HeapLooker, TLAPS

Actions == {"alloc", "free"}

(* A block whose record is not written yet lives, and one thread writes it.*)
AllocsPending ==
    \A t \in Threads, a \in Addrs :
        lk_call[t] = Record("alloc", a) =>
            a \in lk_live /\ \A u \in Threads : lk_call[u] = Record("alloc", a) => u = t

(* So it is for a block given back, unless its address is excused.         *)
FreesPending ==
    \A t \in Threads, a \in Addrs \ lk_excused :
        lk_call[t] = Record("free", a) =>
            a \notin lk_live /\ \A u \in Threads : lk_call[u] = Record("free", a) => u = t

Pending(a) == \E t \in Threads, x \in Actions : lk_call[t] = Record(x, a)

Told ==
    \A a \in Addrs \ lk_excused :
        lk_last[a] # NoRecord /\ ~ Pending(a) => (lk_last[a] = "alloc" <=> a \in lk_live)

LkInv ==
    /\ LkTypeOK
    /\ ~ lk_fp => \A a \in Addrs : lk_last[a] = NoRecord
    /\ AllocsPending /\ FreesPending /\ Told

LEMMA RecordsDiffer ==
    /\ \A x, y \in Actions, a, b \in Addrs : Record(x, a) = Record(y, b) <=> x = y /\ a = b
    /\ \A x \in Actions, a \in Addrs :
          /\ Record(x, a) \in [action : {"alloc", "free"}, start : Addrs]
          /\ Record(x, a) # NoRecord /\ Record(x, a).start = a /\ Record(x, a).action = x
<1>1. \A x, y \in Actions, a, b \in Addrs : Record(x, a) = Record(y, b) <=> x = y /\ a = b
  <2> TAKE x, y \in Actions, a, b \in Addrs
  <2>1. /\ Record(x, a).action = x /\ Record(x, a).start = a
        /\ Record(y, b).action = y /\ Record(y, b).start = b
    BY DEF Record
  <2> QED
    BY <2>1
<1>2. \A x \in Actions, a \in Addrs :
         /\ Record(x, a) \in [action : {"alloc", "free"}, start : Addrs]
         /\ Record(x, a).start = a /\ Record(x, a).action = x
  BY DEF Record, Actions
<1> QED
  BY <1>1, <1>2, NoRecordAssumption

LEMMA CallIsRecord ==
    ASSUME LkTypeOK, NEW t \in Threads, lk_call[t] # NoRecord
    PROVE  \E x \in Actions, a \in Addrs :
              lk_call[t] = Record(x, a) /\ lk_call[t].start = a /\ lk_call[t].action = x
<1>1. lk_call[t] \in [action : {"alloc", "free"}, start : Addrs]
  BY DEF LkTypeOK
<1>2. lk_call[t] = Record(lk_call[t].action, lk_call[t].start)
  BY <1>1 DEF Record
<1> QED
  BY <1>1, <1>2 DEF Actions

LEMMA LkInvInit == LkInit => LkInv
<1> SUFFICES ASSUME LkInit PROVE LkInv
  OBVIOUS
<1>1. LkTypeOK
  BY DEF LkInit, LkTypeOK
<1>2. AllocsPending /\ FreesPending
  BY RecordsDiffer DEF LkInit, AllocsPending, FreesPending, Actions
<1>3. Told
  BY DEF LkInit, Told
<1> QED
  BY <1>1, <1>2, <1>3 DEF LkInit, LkInv

(* A block that is handed out: what malloc, and a realloc that moves, do.  *)
LEMMA HandOut ==
    ASSUME LkInv, NEW t \in Threads, NEW a \in Addrs, a \notin lk_live,
           lk_call[t] = NoRecord, lk_call' = [lk_call EXCEPT ![t] = Record("alloc", a)],
           NEW gone \in SUBSET Addrs, a \notin gone,
           \A b \in gone : \A u \in Threads : lk_call[u] # Record("alloc", b),
           lk_live' = (lk_live \ gone) \cup {a}, lk_excused' = HandedOut(a) \cup gone,
           UNCHANGED <<lk_fp, lk_last>>
    PROVE  LkInv'
<1>1. \A u \in Threads : lk_call'[u] = IF u = t THEN Record("alloc", a) ELSE lk_call[u]
  BY DEF LkInv, LkTypeOK
<1>2. LkTypeOK'
  <2>1. Record("alloc", a) \in [action : {"alloc", "free"}, start : Addrs]
    BY RecordsDiffer DEF Actions
  <2> QED
    BY <2>1 DEF LkInv, LkTypeOK
<1>3. \A u \in Threads : lk_call[u] # Record("alloc", a)
  BY DEF LkInv, AllocsPending
<1>4. AllocsPending'
  BY <1>1, <1>3, RecordsDiffer DEF LkInv, AllocsPending, Actions
<1>5. \A b \in Addrs \ lk_excused' : b # a => b \notin lk_excused /\ b \notin gone
  BY DEF HandedOut
<1>6. a \notin lk_excused' => \A u \in Threads : lk_call[u] # Record("free", a)
  BY DEF HandedOut
<1>7. FreesPending'
  BY <1>1, <1>5, <1>6, RecordsDiffer DEF LkInv, FreesPending, Actions
<1>8. Told'
  <2> SUFFICES ASSUME NEW b \in Addrs, b \notin lk_excused', lk_last'[b] # NoRecord, ~ Pending(b)'
               PROVE  lk_last'[b] = "alloc" <=> b \in lk_live'
    BY DEF Told
  <2>1. b # a
    BY <1>1 DEF Pending, Actions
  <2>2. ~ Pending(b)
    BY <1>1, <2>1, RecordsDiffer DEF Pending, Actions
  <2> QED
    BY <1>5, <2>1, <2>2 DEF LkInv, Told
<1> QED
  BY <1>2, <1>4, <1>7, <1>8 DEF LkInv

LEMMA LkMallocStep ==
    ASSUME LkInv, NEW t \in Threads, NEW a \in Addrs, malloc(t, a)
    PROVE  LkInv'
<1> DEFINE gone == {}
<1>1. lk_live' = (lk_live \ gone) \cup {a} /\ lk_excused' = HandedOut(a) \cup gone
  BY DEF malloc
<1>4. gone \in SUBSET Addrs /\ a \notin gone /\ \A b \in gone : \A u \in Threads : lk_call[u] # Record("alloc", b)
  OBVIOUS
<1> HIDE DEF gone
<1>2. UNCHANGED <<lk_fp, lk_last>> /\ a \notin lk_live
  BY DEF malloc
<1>3. lk_call[t] = NoRecord /\ lk_call' = [lk_call EXCEPT ![t] = Record("alloc", a)]
  BY DEF malloc, Calls
<1> QED
  BY <1>1, <1>2, <1>3, <1>4, HandOut

LEMMA LkFreeStep ==
    ASSUME LkInv, NEW t \in Threads, NEW a \in Addrs, free(t, a)
    PROVE  LkInv'
<1>1. /\ \A u \in Threads : lk_call'[u] = IF u = t THEN Record("free", a) ELSE lk_call[u]
      /\ lk_call[t] = NoRecord
  BY DEF LkInv, LkTypeOK, free, Calls
<1>2. LkTypeOK'
  BY RecordsDiffer DEF LkInv, LkTypeOK, Actions, free, Calls
<1>3. a \in lk_live /\ \A u \in Threads : lk_call[u] # Record("alloc", a)
  BY DEF free, Mine
<1>4. AllocsPending'
  BY <1>1, <1>3, RecordsDiffer DEF LkInv, AllocsPending, Actions, free
<1>5. a \notin lk_excused => \A u \in Threads : lk_call[u] # Record("free", a)
  BY <1>3 DEF LkInv, FreesPending
<1>6. FreesPending'
  BY <1>1, <1>5, RecordsDiffer DEF LkInv, FreesPending, Actions, free
<1>7. Told'
  <2> SUFFICES ASSUME NEW b \in Addrs, b \notin lk_excused', lk_last'[b] # NoRecord, ~ Pending(b)'
               PROVE  lk_last'[b] = "alloc" <=> b \in lk_live'
    BY DEF Told
  <2>1. b # a
    BY <1>1 DEF Pending, Actions
  <2>2. ~ Pending(b)
    BY <1>1, <2>1, RecordsDiffer DEF Pending, Actions
  <2> QED
    BY <2>1, <2>2 DEF LkInv, Told, free
<1> QED
  BY <1>2, <1>4, <1>6, <1>7 DEF LkInv, free

LEMMA LkReallocStep ==
    ASSUME LkInv, NEW t \in Threads, NEW old \in Addrs, NEW new \in Addrs \cup {NoRecord},
           realloc(t, old, new)
    PROVE  LkInv'
<1>1. old \in lk_live /\ lk_call[t] = NoRecord /\ \A u \in Threads : lk_call[u] # Record("alloc", old)
  BY DEF realloc, Mine, Calls
<1>2. CASE new = NoRecord
  <2>1. lk_call' = lk_call /\ lk_live' = lk_live \ {old} /\ lk_excused' = lk_excused \cup {old}
    BY <1>1, <1>2, NoRecordAssumption DEF realloc, Calls, LkInv, LkTypeOK
  <2>2. LkTypeOK'
    BY <2>1 DEF LkInv, LkTypeOK, realloc
  <2>3. AllocsPending' /\ FreesPending'
    BY <1>1, <2>1 DEF LkInv, AllocsPending, FreesPending
  <2>4. Told'
    BY <2>1 DEF LkInv, Told, Pending, realloc
  <2> QED
    BY <2>2, <2>3, <2>4 DEF LkInv, realloc
<1>3. CASE new = old
  <2>1. lk_live' = lk_live /\ lk_excused' = lk_excused
    BY <1>1, <1>3, NoRecordAssumption DEF realloc
  <2>2. \A u \in Threads : lk_call'[u] = IF u = t THEN Record("alloc", old) ELSE lk_call[u]
    BY <1>3, NoRecordAssumption DEF LkInv, LkTypeOK, realloc, Calls
  <2>3. LkTypeOK'
    BY <1>3, <2>1, RecordsDiffer, NoRecordAssumption DEF LkInv, LkTypeOK, Actions, realloc, Calls
  <2>4. AllocsPending' /\ FreesPending'
    BY <1>1, <2>1, <2>2, RecordsDiffer DEF LkInv, AllocsPending, FreesPending, Actions
  <2>5. Told'
    <3> SUFFICES ASSUME NEW b \in Addrs, b \notin lk_excused', lk_last'[b] # NoRecord, ~ Pending(b)'
                 PROVE  lk_last'[b] = "alloc" <=> b \in lk_live'
      BY DEF Told
    <3>1. b # old
      BY <2>2 DEF Pending, Actions
    <3>2. ~ Pending(b)
      BY <1>1, <2>2, <3>1, RecordsDiffer DEF Pending, Actions
    <3> QED
      BY <2>1, <3>2 DEF LkInv, Told, realloc
  <2> QED
    BY <2>3, <2>4, <2>5 DEF LkInv, realloc
<1>4. CASE new \in Addrs /\ new # old
  <2>1. lk_live' = (lk_live \ {old}) \cup {new} /\ lk_excused' = HandedOut(new) \cup {old}
    BY <1>4, NoRecordAssumption DEF realloc
  <2>2. UNCHANGED <<lk_fp, lk_last>> /\ new \notin lk_live
    BY <1>4 DEF realloc
  <2>3. lk_call' = [lk_call EXCEPT ![t] = Record("alloc", new)]
    BY <1>4, NoRecordAssumption DEF realloc, Calls
  <2> QED
    BY <1>1, <1>4, <2>1, <2>2, <2>3, HandOut
<1> QED
  BY <1>2, <1>3, <1>4

LEMMA LkWriteStep ==
    ASSUME LkInv, NEW t \in Threads, Write(t)
    PROVE  LkInv'
<1>1. PICK x \in Actions, a \in Addrs :
         lk_call[t] = Record(x, a) /\ lk_call[t].start = a /\ lk_call[t].action = x
  BY CallIsRecord DEF LkInv, Write
<1>2. \A u \in Threads : lk_call'[u] = IF u = t THEN NoRecord ELSE lk_call[u]
  BY DEF LkInv, LkTypeOK, Write
<1>3. \A b \in Addrs : lk_last'[b] = IF lk_fp /\ b = a THEN x ELSE lk_last[b]
  BY <1>1 DEF LkInv, LkTypeOK, Write
<1>4. LkTypeOK'
  BY <1>1 DEF LkInv, LkTypeOK, Write, Actions
<1>5. AllocsPending' /\ FreesPending'
  BY <1>2, RecordsDiffer DEF LkInv, AllocsPending, FreesPending, Actions, Write
<1>6. Told'
  <2> SUFFICES ASSUME NEW b \in Addrs, b \notin lk_excused', lk_last'[b] # NoRecord, ~ Pending(b)'
               PROVE  lk_last'[b] = "alloc" <=> b \in lk_live'
    BY DEF Told
  <2>1. CASE b = a
    <3>1. lk_fp /\ lk_last'[b] = x
      BY <1>3, <2>1 DEF LkInv
    <3>2. x = "alloc" <=> a \in lk_live
      BY <1>1, <2>1 DEF LkInv, AllocsPending, FreesPending, Actions, Write
    <3> QED
      BY <2>1, <3>1, <3>2 DEF Write
  <2>2. CASE b # a
    <3>1. ~ Pending(b)
      BY <1>1, <1>2, <2>2, RecordsDiffer DEF Pending
    <3> QED
      BY <1>3, <2>2, <3>1 DEF LkInv, Told, Write
  <2> QED
    BY <2>1, <2>2
<1>7. ~ lk_fp' => \A b \in Addrs : lk_last'[b] = NoRecord
  BY <1>3 DEF LkInv, Write
<1> QED
  BY <1>4, <1>5, <1>6, <1>7 DEF LkInv

LEMMA LkInvNext == LkInv /\ [LkNext]_lk_vars => LkInv'
<1> SUFFICES ASSUME LkInv, [LkNext]_lk_vars PROVE LkInv'
  OBVIOUS
<1>1. CASE UNCHANGED lk_vars
  BY <1>1 DEF lk_vars, LkInv, LkTypeOK, AllocsPending, FreesPending, Told, Pending
<1>2. CASE heap_looker_init
  BY <1>2 DEF heap_looker_init, LkInv, LkTypeOK, AllocsPending, FreesPending, Told, Pending
<1> QED
  BY <1>1, <1>2, LkMallocStep, LkFreeStep, LkReallocStep, LkWriteStep DEF LkNext

(* The inductive invariant: which records are about to be written.         *)
THEOREM LkInvariant == LkSpec => []LkInv
BY LkInvInit, LkInvNext, PTL DEF LkSpec

(* The last record of an address tells whether a block lives there, in     *)
(* whatever order the threads write, but for realloc and for addresses     *)
(* handed out again before the record of their release is written.         *)
THEOREM LkLogTells == LkSpec => []LogTellsLive
<1>1. LkInv => LogTellsLive
  <2> SUFFICES ASSUME LkInv, NEW a \in Addrs \ lk_excused, lk_last[a] # NoRecord,
                      \A t \in Threads : lk_call[t] = NoRecord \/ lk_call[t].start # a
               PROVE  lk_last[a] = "alloc" <=> a \in lk_live
    BY DEF LogTellsLive
  <2>1. ~ Pending(a)
    BY RecordsDiffer DEF Pending
  <2> QED
    BY <2>1 DEF LkInv, Told
<1> QED
  BY <1>1, LkInvariant, PTL
=============================================================================
