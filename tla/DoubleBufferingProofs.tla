----------------------- MODULE DoubleBufferingProofs -----------------------
(***************************************************************************)
(* Proofs about DoubleBuffering, for every number of readers, capacity,    *)
(* file contents, name lists and bounds.                                   *)
(***************************************************************************)
EXTENDS DoubleBuffering, FiniteSetTheorems, SequenceTheorems, TLAPS


(* A read fills at most the bank: File::read is given the whole buffer.    *)
LEMMA ReadLenType ==
    ASSUME NEW f \in Files, NEW k \in Nat \ {0}
    PROVE  ReadLen(f, k) \in 0 .. Capacity
<1>1. FileLen[f] \in Nat /\ Capacity \in Nat
  BY FilesAssumption, CapacityAssumption
<1>2. (k - 1) * Capacity \in Nat
  BY <1>1
<1> DEFINE left == FileLen[f] - (k - 1) * Capacity
<1>3. left \in Int
  BY <1>1, <1>2
<1>4. ReadLen(f, k) = IF left < 0 THEN 0 ELSE IF left > Capacity THEN Capacity ELSE left
  BY DEF ReadLen
<1> HIDE DEF left
<1> QED
  BY <1>1, <1>3, <1>4

(* The closure of a reader leaves a well-formed bank.                      *)
LEMMA FillBankType ==
    ASSUME NEW b \in EceBuffer, NEW f \in Files, NEW k \in Nat \ {0}
    PROVE  FillBank(b, f, k) \in EceBuffer
<1>1. ReadLen(f, k) \in 0 .. Capacity
  BY ReadLenType
<1>2. \A i \in 1 .. Capacity : Byte(f, k, i) \in Bytes
  BY DEF Byte, Bytes
<1>3. \A i \in 1 .. Capacity : b.buffer[i] \in Bytes
  BY DEF EceBuffer
<1> HIDE DEF Bytes
<1> QED
  BY <1>1, <1>2, <1>3 DEF FillBank, EceBuffer

(* A bank that a reader has just filled holds the chunk it read.           *)
LEMMA FillBankHolds ==
    ASSUME NEW b \in EceBuffer, NEW f \in Files, NEW k \in Nat \ {0}
    PROVE  Holds(FillBank(b, f, k), f, k)
<1>1. ReadLen(f, k) \in 0 .. Capacity
  BY ReadLenType
<1> QED
  BY <1>1, CapacityAssumption DEF FillBank, Holds

----------------------------------------------------------------------------
(* TypeOK is inductive with the ranges of the two loop counters.           *)
TypeInv ==
    /\ TypeOK
    /\ pc = "wait" => job_done < Nr
    /\ pc \in {"write", "join"} => iter < Nr

LEMMA JobTypes ==
    /\ \A f \in Files : OpenJob(f) \in EceJob
    /\ \A fin \in BOOLEAN : WorkJob(fin) \in EceJob
BY CapacityAssumption DEF OpenJob, WorkJob, EceJob

LEMMA SendTypes ==
    ASSUME NEW q \in [Readers -> Seq(EceJob)], NEW fs \in Seq(Files), NEW fin \in BOOLEAN
    PROVE  /\ open_files(q, fs) \in [Readers -> Seq(EceJob)]
           /\ send_work(q, fin) \in [Readers -> Seq(EceJob)]
<1>1. \A r \in Readers : r < Len(fs) => fs[r + 1] \in Files
  BY NrAssumption DEF Readers
<1> QED
  BY <1>1, JobTypes DEF open_files, send_work

LEMMA TypeInit == Init => TypeInv
<1> SUFFICES ASSUME Init PROVE TypeInv
  OBVIOUS
<1>1. EceBufferBank_new \in EceBuffer
  BY CapacityAssumption DEF EceBufferBank_new, EceBuffer, Bytes
<1>2. NoHandle \in Handles
  BY DEF Handles
<1> QED
  BY <1>1, <1>2, NrAssumption, BoundAssumption DEF Init, TypeInv, TypeOK, Banks

(* Taking a job keeps the types and gives the reader a job.                *)
LEMMA ReceiveType ==
    ASSUME TypeInv, NEW r \in Readers, Receive(r)
    PROVE  /\ Job(r) \in EceJob
           /\ receiver' \in [Readers -> Seq(EceJob)]
           /\ UNCHANGED <<mainVars, listener>>
BY DEF TypeInv, TypeOK, Receive, Job

LEMMA TypeStep == TypeInv /\ [Next]_vars => TypeInv'
<1> SUFFICES ASSUME TypeInv, [Next]_vars PROVE TypeInv'
  OBVIOUS
<1>1. ASSUME NEW fs \in FileLists, Work(fs) PROVE TypeInv'
  <2>1. fs \in Seq(Files)
    BY ListsAssumption
  <2>2. receiver' \in [Readers -> Seq(EceJob)]
    BY <1>1, <2>1, SendTypes, NrAssumption, BoundAssumption DEF TypeInv, TypeOK, Work
  <2>3. printed' \in [Readers -> Seq(EceBuffer)]
    BY <1>1, NrAssumption, BoundAssumption DEF Work
  <2>4. works' \in 0 .. MaxWorks /\ job_done' \in 0 .. Nr /\ job_done' < Nr
    BY <1>1, NrAssumption, BoundAssumption DEF TypeInv, TypeOK, Work
  <2>5. filenames' = fs /\ offset' = 1 /\ bank_read' = 0 /\ pc' = "wait"
    BY <1>1 DEF Work
  <2>6. UNCHANGED <<iter, listener, thread, file, first_bank, errs, bank>>
    BY <1>1 DEF Work, readerVars
  <2> QED
    BY <2>1, <2>2, <2>3, <2>4, <2>5, <2>6 DEF TypeInv, TypeOK, Banks
<1>2. CASE wait_readers
  <2> PICK r \in Readers : listener[r] > 0 /\ listener' = [listener EXCEPT ![r] = @ - 1]
    BY <1>2, NrAssumption, BoundAssumption DEF wait_readers
  <2>1. listener' \in [Readers -> Nat]
    BY DEF TypeInv, TypeOK
  <2> QED
    BY <1>2, <2>1, NrAssumption, BoundAssumption DEF TypeInv, TypeOK, wait_readers, readerVars, AllAcked
<1>3. CASE SendNext
  <2>1. receiver' \in [Readers -> Seq(EceJob)]
    BY <1>3, SendTypes, NrAssumption, BoundAssumption DEF TypeInv, TypeOK, SendNext, send_work
  <2>2. offset' \in Nat
    BY <1>3 DEF TypeInv, TypeOK, SendNext
  <2>3. iter' \in 0 .. Nr /\ iter' < Nr
    BY <1>3, NrAssumption DEF SendNext
  <2>4. pc' = "write"
    BY <1>3 DEF SendNext
  <2>5. UNCHANGED <<works, filenames, bank_read, job_done, printed, listener, thread, file, first_bank, errs, bank>>
    BY <1>3 DEF SendNext, readerVars
  <2> QED
    BY <2>1, <2>2, <2>3, <2>4, <2>5 DEF TypeInv, TypeOK
<1>4. CASE process_writer
  <2>1. iter \in Readers
    BY <1>4, NrAssumption, BoundAssumption DEF Readers, TypeInv, TypeOK, process_writer
  <2>2. bank[iter][get_bank(bank_read)] \in EceBuffer
    BY <2>1 DEF TypeInv, TypeOK, get_bank, Banks
  <2>3. printed' \in [Readers -> Seq(EceBuffer)]
    BY <1>4, <2>1, <2>2, NrAssumption, BoundAssumption DEF TypeInv, TypeOK, process_writer
  <2> QED
    BY <1>4, <2>1, <2>3, NrAssumption, BoundAssumption DEF TypeInv, TypeOK, process_writer,
       readerVars, NextBank, EndOfWork, LastReader, Banks
<1>5. CASE Drop
  <2>1. receiver' \in [Readers -> Seq(EceJob)]
    BY <1>5, SendTypes, NrAssumption, BoundAssumption DEF TypeInv, TypeOK, Drop, send_work
  <2>2. iter' \in 0 .. Nr /\ iter' < Nr /\ pc' = "join"
    BY <1>5, NrAssumption DEF Drop
  <2>3. UNCHANGED <<works, filenames, offset, bank_read, job_done, printed, listener,
                    thread, file, first_bank, errs, bank>>
    BY <1>5 DEF Drop, readerVars
  <2> QED
    BY <2>1, <2>2, <2>3 DEF TypeInv, TypeOK
<1>6. CASE Join
  BY <1>6, NrAssumption, BoundAssumption DEF TypeInv, TypeOK, Join, readerVars, LastReader
<1>7. ASSUME NEW r \in Readers, ReaderFinish(r) PROVE TypeInv'
  BY <1>7, ReceiveType, NrAssumption, BoundAssumption DEF TypeInv, TypeOK, ReaderFinish, mainVars
<1>8. ASSUME NEW r \in Readers, ReaderOpen(r) PROVE TypeInv'
  <2>1. Job(r) \in EceJob /\ Job(r).filename # NoFile
    BY <1>8, ReceiveType, NrAssumption, BoundAssumption DEF ReaderOpen
  <2>2. [name |-> Job(r).filename, reads |-> 0] \in Handles
    BY <2>1 DEF EceJob, Handles
  <2>3. file' \in [Readers -> Handles] /\ thread' \in [Readers -> {"recv", "ack", "stopped", "panicked"}]
    BY <1>8, <2>2, NrAssumption, BoundAssumption DEF ReaderOpen, TypeInv, TypeOK
  <2> QED
    BY <1>8, <2>3, ReceiveType, NrAssumption, BoundAssumption DEF TypeInv, TypeOK, ReaderOpen, mainVars
<1>9. ASSUME NEW r \in Readers, ReaderIgnore(r) PROVE TypeInv'
  BY <1>9, ReceiveType DEF TypeInv, TypeOK, ReaderIgnore, mainVars, readerVars
<1>10. ASSUME NEW r \in Readers, ReaderRead(r) PROVE TypeInv'
  <2> DEFINE b == get_bank(first_bank[r])
             k == file[r].reads + 1
             filled == [bank[r] EXCEPT ![b] = FillBank(bank[r][b], file[r].name, k)]
             handle == [name |-> file[r].name, reads |-> k]
  <2>1. file[r] \in [name : Files, reads : Nat]
    BY <1>10 DEF ReaderRead, TakeReadJob, TypeInv, TypeOK, Handles
  <2>2. b \in Banks
    BY DEF get_bank, TypeInv, TypeOK, Banks
  <2>3. bank[r] \in [Banks -> EceBuffer]
    BY DEF TypeInv, TypeOK
  <2>4. filled \in [Banks -> EceBuffer]
    BY <2>1, <2>2, <2>3, FillBankType
  <2>5. handle \in Handles
    BY <2>1 DEF Handles
  <2>6. bank' = [bank EXCEPT ![r] = filled] /\ file' = [file EXCEPT ![r] = handle]
    BY <1>10 DEF ReaderRead
  <2> HIDE DEF filled, handle
  <2>7. bank' \in [Readers -> [Banks -> EceBuffer]] /\ file' \in [Readers -> Handles]
    BY <2>4, <2>5, <2>6 DEF TypeInv, TypeOK
  <2>8. /\ thread' \in [Readers -> {"recv", "ack", "stopped", "panicked"}]
        /\ UNCHANGED <<first_bank, errs>>
    BY <1>10 DEF TypeInv, TypeOK, ReaderRead, TakeReadJob
  <2>9. receiver' \in [Readers -> Seq(EceJob)] /\ UNCHANGED <<mainVars, listener>>
    BY <1>10, ReceiveType DEF ReaderRead, TakeReadJob
  <2> QED
    BY <2>7, <2>8, <2>9 DEF TypeInv, TypeOK, mainVars
<1>13. ASSUME NEW r \in Readers, ReaderReadError(r) PROVE TypeInv'
  <2>1. receiver' \in [Readers -> Seq(EceJob)] /\ UNCHANGED <<mainVars, listener>>
    BY <1>13, ReceiveType DEF ReaderReadError, TakeReadJob
  <2>2. errs[r] < MaxErrors /\ errs' = [errs EXCEPT ![r] = @ + 1]
    BY <1>13 DEF ReaderReadError
  <2>3. errs' \in [Readers -> 0 .. MaxErrors]
    BY <2>2, BoundAssumption DEF TypeInv, TypeOK
  <2>4. /\ thread' \in [Readers -> {"recv", "ack", "stopped", "panicked"}]
        /\ UNCHANGED <<first_bank, bank, file>>
    BY <1>13 DEF TypeInv, TypeOK, ReaderReadError, TakeReadJob
  <2> QED
    BY <2>1, <2>3, <2>4 DEF TypeInv, TypeOK, mainVars
<1>11. ASSUME NEW r \in Readers, ReaderAck(r) PROVE TypeInv'
  BY <1>11 DEF TypeInv, TypeOK, ReaderAck, mainVars
<1>12. CASE UNCHANGED vars
  BY <1>12 DEF TypeInv, TypeOK, vars, mainVars, readerVars
<1> QED
  BY <1>1, <1>2, <1>3, <1>4, <1>5, <1>6, <1>7, <1>8, <1>9, <1>10, <1>11, <1>12, <1>13
     DEF Next, Internal, Reader

(* The types of all state, in every run of a worker; in particular neither *)
(* loop counter of the owner leaves the readers, and the bank numbers and  *)
(* lengths stay within the banks.                                          *)
THEOREM TypeCorrect == Spec => []TypeOK
<1>1. TypeInv => TypeOK
  BY DEF TypeInv
<1> QED
  BY <1>1, TypeInit, TypeStep, PTL DEF Spec

----------------------------------------------------------------------------
(* The inductive invariant of a worker's first run.                        *)

W == WorkJob(FALSE)
F == WorkJob(TRUE)

(* Acknowledgements of a reader that wait_readers has counted.             *)
Got(r) == first_bank[r] - listener[r]

(* The banks of a reader hold the last two chunks it read.                 *)
BanksHold(r) ==
    errs[r] = 0 =>
        /\ file[r].reads = Done(r)
        /\ Done(r) >= 1 => Holds(bank[r][(Done(r) - 1) % 2], filenames[r + 1], Done(r))
        /\ Done(r) >= 2 => Holds(bank[r][Done(r) % 2], filenames[r + 1], Done(r) - 1)

(* A reader with its file open has done every job sent, or all but the one *)
(* in its channel.                                                         *)
Active(r) ==
    /\ Capacity > 0
    /\ r < Len(filenames)
    /\ file[r].name = filenames[r + 1]
    /\ listener[r] <= first_bank[r]
    /\ \/ /\ receiver[r] \in {<<W>>, <<W, F>>}
          /\ thread[r] = "recv"
          /\ Done(r) = offset - 1
       \/ /\ receiver[r] \in {<<>>, <<F>>}
          /\ thread[r] \in {"recv", "ack", "stopped"}
          /\ Done(r) = offset
    /\ BanksHold(r)

(* A reader that has not opened its file, or never will: the owner is then *)
(* still in its first wait.                                                *)
Waiting(r) ==
    /\ pc = "wait"
    /\ offset = 1
    /\ first_bank[r] = 0
    /\ listener[r] = 0
    /\ \/ /\ thread[r] = "recv"
          /\ file[r] = NoHandle
          /\ r < Len(filenames)
          /\ receiver[r] = <<OpenJob(filenames[r + 1]), W>>
       \/ /\ thread[r] = "recv"
          /\ Capacity = 0 \/ file[r] = NoHandle
          /\ receiver[r] \in {<<W>>, <<>>}
       \/ thread[r] = "panicked"

(* Only drop() sends the job that ends a reader.                           *)
FinishSent == pc \in {"join", "done", "panicked"}
NoFinish(r) == receiver[r] \in {<<W, F>>, <<F>>} \/ thread[r] = "stopped" => FinishSent

(* Before the first call of work().                                        *)
Fresh ==
    /\ pc = "idle" \/ FinishSent
    /\ filenames = <<>>
    /\ offset = 0
    /\ \A r \in Readers :
          /\ first_bank[r] = 0
          /\ listener[r] = 0
          /\ printed[r] = <<>>
          /\ file[r] = NoHandle
          /\ receiver[r] \in {<<>>, <<F>>}
          /\ thread[r] \in {"recv", "stopped"}
          /\ NoFinish(r)

(* How far the owner is with the batches and with the output.              *)
Phase ==
    /\ pc = "wait" =>
          /\ offset >= 1
          /\ bank_read = (offset - 1) % 2
          /\ job_done = Cardinality({r \in Readers : Got(r) = offset})
          /\ \A r \in Readers : Got(r) \in {offset - 1, offset} /\ Len(printed[r]) = offset - 1
    /\ pc = "send" =>
          /\ offset >= 1
          /\ bank_read = (offset - 1) % 2
          /\ \A r \in Readers : Got(r) = offset /\ Len(printed[r]) = offset - 1
    /\ pc = "write" =>
          /\ offset >= 2
          /\ bank_read = offset % 2
          /\ \A r \in Readers :
                /\ Got(r) = offset - 1
                /\ Len(printed[r]) = IF r < iter THEN offset - 1 ELSE offset - 2
    /\ pc = "idle" \/ FinishSent =>
          /\ offset >= 2
          /\ \A r \in Readers : Got(r) = offset - 1 /\ Len(printed[r]) = offset - 1

FirstRun ==
    /\ Phase
    /\ \A r \in Readers : (Active(r) \/ Waiting(r)) /\ NoFinish(r)
    /\ HandOff

IInv ==
    /\ TypeInv
    /\ works = 0 => Fresh
    /\ works = 1 => FirstRun

----------------------------------------------------------------------------
(* Short channels and the three kinds of jobs.                             *)

LEMMA ShortQueues ==
    ASSUME NEW a, NEW b
    PROVE  /\ Head(<<a>>) = a /\ Tail(<<a>>) = <<>>
           /\ Head(<<a, b>>) = a /\ Tail(<<a, b>>) = <<b>>
           /\ Append(<<>>, a) = <<a>> /\ Append(<<a>>, b) = <<a, b>>
<1>1. Append(<<a>>, b) = <<a, b>>
  <2>1. <<a>> \in Seq({a, b}) /\ <<a, b>> \in Seq({a, b}) /\ Append(<<a>>, b) \in Seq({a, b})
    OBVIOUS
  <2>2. Len(Append(<<a>>, b)) = 2 /\ Len(<<a, b>>) = 2
    BY <2>1
  <2>3. \A i \in 1 .. 2 : Append(<<a>>, b)[i] = <<a, b>>[i]
    BY <2>1
  <2> QED
    BY <2>1, <2>2, <2>3, SeqEqual
<1>2. Head(<<a>>) = a /\ Tail(<<a>>) = <<>>
  OBVIOUS
<1>3. Head(<<a, b>>) = a /\ Tail(<<a, b>>) = <<b>>
  OBVIOUS
<1>4. Append(<<>>, a) = <<a>>
  OBVIOUS
<1> QED
  BY <1>1, <1>2, <1>3, <1>4

LEMMA Jobs ==
    /\ W.finished = FALSE /\ W.filename = NoFile /\ W.len = Capacity
    /\ F.finished = TRUE
    /\ \A f \in Files : /\ OpenJob(f).finished = FALSE
                        /\ OpenJob(f).filename = f
                        /\ OpenJob(f).filename # NoFile
BY FilesAssumption DEF W, F, WorkJob, OpenJob

----------------------------------------------------------------------------
(* A step of one reader                                                    *)

Locals(r) == <<file[r], listener[r], first_bank[r], receiver[r], thread[r], errs[r], bank[r]>>

LEMMA OthersStay ==
    ASSUME NEW q \in Readers, UNCHANGED mainVars, UNCHANGED Locals(q),
           Active(q) \/ Waiting(q), NoFinish(q)
    PROVE  /\ (Active(q) \/ Waiting(q))' /\ NoFinish(q)'
           /\ Got(q)' = Got(q)
BY DEF mainVars, Locals, Active, Waiting, NoFinish, FinishSent, BanksHold, Done, Got

LEMMA PhaseStays ==
    ASSUME Phase, UNCHANGED <<pc, offset, bank_read, job_done, iter, printed>>,
           \A q \in Readers : Got(q)' = Got(q)
    PROVE  Phase'
<1>1. {q \in Readers : Got(q) = offset}' = {q \in Readers : Got(q) = offset}
  OBVIOUS
<1> HIDE DEF Got
<1> QED
  BY <1>1 DEF Phase, FinishSent

LEMMA ReaderStep ==
    ASSUME FirstRun, works = 1, NEW r \in Readers,
           UNCHANGED mainVars,
           \A q \in Readers \ {r} : UNCHANGED Locals(q),
           (Active(r) \/ Waiting(r))', NoFinish(r)', Got(r)' = Got(r),
           errs'[r] = 0 => errs[r] = 0
    PROVE  FirstRun'
<1>1. \A q \in Readers : (Active(q) \/ Waiting(q)) /\ NoFinish(q)
  BY DEF FirstRun
<1>2. \A q \in Readers : (Active(q) \/ Waiting(q))' /\ NoFinish(q)' /\ Got(q)' = Got(q)
  <2> SUFFICES ASSUME NEW q \in Readers
               PROVE (Active(q) \/ Waiting(q))' /\ NoFinish(q)' /\ Got(q)' = Got(q)
    OBVIOUS
  <2>1. CASE q = r
    BY <2>1
  <2>2. CASE q # r
    BY <2>2, <1>1, OthersStay
  <2> QED
    BY <2>1, <2>2
<1>3. Phase'
  BY <1>2, PhaseStays DEF FirstRun, mainVars
<1>4. \A q \in Readers : errs'[q] = 0 => errs[q] = 0
  BY DEF Locals
<1>5. HandOff'
  BY <1>4 DEF FirstRun, HandOff, mainVars, Holds
<1> QED
  BY <1>2, <1>3, <1>5 DEF FirstRun

(* What a reader may find in its channel during the first run.             *)
LEMMA Channel ==
    ASSUME TypeInv, FirstRun, NEW r \in Readers
    PROVE  \/ /\ Active(r)
              /\ file[r] \in [name : Files, reads : Nat] /\ file[r] # NoHandle
              /\ filenames[r + 1] \in Files
              /\ receiver[r] \in {<<>>, <<F>>, <<W>>, <<W, F>>}
           \/ /\ Waiting(r)
              /\ \/ thread[r] = "panicked"
                 \/ Capacity = 0 \/ file[r] = NoHandle
              /\ \/ thread[r] = "panicked"
                 \/ receiver[r] \in {<<W>>, <<>>}
                 \/ /\ receiver[r] = <<OpenJob(filenames[r + 1]), W>>
                    /\ filenames[r + 1] \in Files
<1>1. r < Len(filenames) => filenames[r + 1] \in Files
  BY DEF TypeInv, TypeOK, Readers
<1>2. CASE Active(r)
  <2>1. file[r].name \in Files /\ file[r] \in Handles
    BY <1>1, <1>2 DEF Active, TypeInv, TypeOK
  <2>2. NoHandle.name = NoFile
    BY DEF NoHandle
  <2>3. file[r] # NoHandle
    BY <2>1, <2>2, FilesAssumption
  <2> QED
    BY <1>1, <1>2, <2>1, <2>3 DEF Active, Handles
<1>3. CASE Waiting(r)
  BY <1>1, <1>3 DEF Waiting
<1> QED
  BY <1>2, <1>3 DEF FirstRun

(* What a reader that takes a job has taken, and what is left.             *)
LEMMA Taken ==
    ASSUME TypeInv, FirstRun, NEW r \in Readers, Receive(r)
    PROVE  /\ thread[r] = "recv"
           /\ receiver' = [receiver EXCEPT ![r] = receiver'[r]]
           /\ \/ Active(r) /\ receiver[r] = <<F>> /\ Job(r) = F /\ receiver'[r] = <<>>
              \/ Active(r) /\ receiver[r] = <<W>> /\ Job(r) = W /\ receiver'[r] = <<>>
              \/ Active(r) /\ receiver[r] = <<W, F>> /\ Job(r) = W /\ receiver'[r] = <<F>>
              \/ /\ Waiting(r) /\ (Capacity = 0 \/ file[r] = NoHandle)
                 /\ receiver[r] = <<W>> /\ Job(r) = W /\ receiver'[r] = <<>>
              \/ /\ Waiting(r) /\ (Capacity = 0 \/ file[r] = NoHandle)
                 /\ filenames[r + 1] \in Files
                 /\ Job(r) = OpenJob(filenames[r + 1]) /\ receiver'[r] = <<W>>
<1> DEFINE f == filenames[r + 1]
<1>1. /\ receiver \in [Readers -> Seq(EceJob)] /\ thread[r] = "recv" /\ receiver[r] # <<>>
      /\ receiver' = [receiver EXCEPT ![r] = Tail(receiver[r])]
  BY DEF TypeInv, TypeOK, Receive
<1>2. /\ Job(r) = Head(receiver[r]) /\ receiver'[r] = Tail(receiver[r])
      /\ receiver' = [receiver EXCEPT ![r] = receiver'[r]]
  BY <1>1 DEF Job
<1>3. \/ Active(r) /\ receiver[r] \in {<<>>, <<F>>, <<W>>, <<W, F>>}
      \/ /\ Waiting(r) /\ (Capacity = 0 \/ file[r] = NoHandle)
         /\ \/ receiver[r] \in {<<W>>, <<>>}
            \/ receiver[r] = <<OpenJob(f), W>> /\ f \in Files
  <2>1. thread[r] # "panicked"
    BY <1>1
  <2> QED
    BY <2>1, Channel
<1> HIDE DEF f
<1>4. CASE Active(r) /\ receiver[r] = <<F>>
  BY <1>1, <1>2, <1>4, ShortQueues
<1>5. CASE Active(r) /\ receiver[r] = <<W>>
  BY <1>1, <1>2, <1>5, ShortQueues
<1>6. CASE Active(r) /\ receiver[r] = <<W, F>>
  BY <1>1, <1>2, <1>6, ShortQueues
<1>7. CASE Waiting(r) /\ (Capacity = 0 \/ file[r] = NoHandle) /\ receiver[r] = <<W>>
  BY <1>1, <1>2, <1>7, ShortQueues
<1>8. CASE /\ Waiting(r) /\ (Capacity = 0 \/ file[r] = NoHandle)
           /\ receiver[r] = <<OpenJob(f), W>> /\ f \in Files
  <2>1. Job(r) = OpenJob(f) /\ receiver'[r] = <<W>>
    BY <1>2, <1>8, ShortQueues
  <2> QED
    BY <1>1, <1>2, <1>8, <2>1 DEF f
<1> QED
  BY <1>1, <1>3, <1>4, <1>5, <1>6, <1>7, <1>8

LEMMA FinishStep ==
    ASSUME TypeInv, FirstRun, works = 1, NEW r \in Readers, ReaderFinish(r)
    PROVE  FirstRun'
<1>1. Receive(r) /\ Job(r).finished /\ thread' = [thread EXCEPT ![r] = "stopped"]
      /\ UNCHANGED <<file, first_bank, errs, bank, mainVars, listener>>
  BY DEF ReaderFinish, Receive
<1>2. Active(r) /\ receiver[r] = <<F>> /\ receiver' = [receiver EXCEPT ![r] = <<>>] /\ thread[r] = "recv"
  BY <1>1, Taken, Jobs
<1>3. thread'[r] = "stopped" /\ receiver'[r] = <<>>
  BY <1>1, <1>2 DEF TypeInv, TypeOK
<1>4. \A q \in Readers \ {r} : UNCHANGED Locals(q)
  BY <1>1, <1>2 DEF Locals, TypeInv, TypeOK
<1>5. FinishSent'
  BY <1>1, <1>2 DEF FirstRun, NoFinish, FinishSent, mainVars
<1>6. Done(r)' = Done(r) /\ Got(r)' = Got(r)
  BY <1>1, <1>2, <1>3 DEF Done, Got
<1>7. Active(r)'
  <2>1. receiver[r] \notin {<<W>>, <<W, F>>}
    <3>1. Head(<<F>>) = F /\ Head(<<W>>) = W /\ Head(<<W, F>>) = W
      BY ShortQueues
    <3> QED
      BY <1>2, <3>1, Jobs
  <2>2. BanksHold(r)'
    BY <1>1, <1>2, <1>6 DEF Active, BanksHold, Holds, mainVars
  <2> QED
    BY <1>1, <1>2, <1>3, <1>6, <2>1, <2>2 DEF Active, mainVars
<1> QED
  BY <1>1, <1>3, <1>4, <1>5, <1>6, <1>7, ReaderStep DEF NoFinish

LEMMA OpenStep ==
    ASSUME TypeInv, FirstRun, works = 1, NEW r \in Readers, ReaderOpen(r)
    PROVE  FirstRun'
<1> DEFINE f == filenames[r + 1]
<1>1. Receive(r) /\ ~Job(r).finished /\ Job(r).filename # NoFile
      /\ UNCHANGED <<first_bank, errs, bank, mainVars, listener>>
  BY DEF ReaderOpen, Receive
<1>2. /\ Waiting(r) /\ f \in Files /\ Job(r) = OpenJob(f) /\ thread[r] = "recv"
      /\ receiver' = [receiver EXCEPT ![r] = <<W>>]
  BY <1>1, Taken, Jobs
<1>3. receiver'[r] = <<W>>
  BY <1>2 DEF TypeInv, TypeOK
<1>4. /\ pc = "wait" /\ offset = 1 /\ first_bank[r] = 0 /\ listener[r] = 0 /\ r < Len(filenames)
  <2>1. Head(<<W>>) = W /\ Head(<<OpenJob(f), W>>) = OpenJob(f) /\ Job(r) = Head(receiver[r])
    BY ShortQueues DEF Job
  <2>2. W # OpenJob(f)
    BY <1>2, Jobs
  <2>3. receiver[r] \notin {<<W>>, <<>>}
    BY <1>1, <1>2, <2>1, <2>2 DEF Receive
  <2> QED
    BY <1>2, <2>3 DEF Waiting
<1>5. Job(r).filename = f
  BY <1>2, Jobs
<1>6. CASE file' = [file EXCEPT ![r] = [name |-> f, reads |-> 0]] /\ UNCHANGED thread
  <2>1. file'[r].name = f /\ file'[r].reads = 0 /\ thread'[r] = "recv"
    BY <1>2, <1>6 DEF TypeInv, TypeOK
  <2>2. \A q \in Readers \ {r} : UNCHANGED Locals(q)
    BY <1>1, <1>2, <1>6 DEF Locals, TypeInv, TypeOK
  <2>3. Done(r)' = 0 /\ Got(r)' = Got(r)
    BY <1>1, <1>4, <2>1 DEF Done, Got
  <2>4. CASE Capacity > 0
    <3>1. BanksHold(r)'
      BY <2>1, <2>3 DEF BanksHold
    <3>2. Active(r)'
      BY <1>1, <1>3, <1>4, <2>1, <2>3, <2>4, <3>1 DEF Active, mainVars
    <3> QED
      BY <1>1, <1>3, <2>1, <2>2, <2>3, <3>2, ReaderStep, ShortQueues, Jobs DEF NoFinish
  <2>5. CASE Capacity = 0
    <3>1. Waiting(r)'
      BY <1>1, <1>3, <1>4, <2>1, <2>5 DEF Waiting, mainVars
    <3> QED
      BY <1>1, <1>3, <2>1, <2>2, <2>3, <3>1, ReaderStep, ShortQueues, Jobs DEF NoFinish
  <2> QED
    BY <2>4, <2>5, CapacityAssumption
<1>7. CASE thread' = [thread EXCEPT ![r] = "panicked"] /\ UNCHANGED file
  <2>1. thread'[r] = "panicked"
    BY <1>7 DEF TypeInv, TypeOK
  <2>2. \A q \in Readers \ {r} : UNCHANGED Locals(q)
    BY <1>1, <1>2, <1>7 DEF Locals, TypeInv, TypeOK
  <2>3. Got(r)' = Got(r)
    BY <1>1 DEF Got
  <2>4. Waiting(r)'
    BY <1>1, <1>4, <2>1 DEF Waiting, mainVars
  <2> QED
    BY <1>1, <1>3, <2>1, <2>2, <2>3, <2>4, ReaderStep, ShortQueues, Jobs DEF NoFinish
<1> QED
  BY <1>5, <1>6, <1>7 DEF ReaderOpen

LEMMA IgnoreStep ==
    ASSUME TypeInv, FirstRun, works = 1, NEW r \in Readers, ReaderIgnore(r)
    PROVE  FirstRun'
<1>1. Receive(r) /\ ~Job(r).finished /\ Job(r).filename = NoFile
      /\ (Job(r).len = 0 \/ file[r] = NoHandle)
      /\ UNCHANGED <<thread, file, first_bank, errs, bank, mainVars, listener>>
  BY DEF ReaderIgnore, Receive, readerVars
<1>2. /\ Waiting(r) /\ (Capacity = 0 \/ file[r] = NoHandle) /\ thread[r] = "recv"
      /\ receiver' = [receiver EXCEPT ![r] = <<>>]
  <2>1. ~Active(r)
    <3>1. ASSUME Active(r) PROVE FALSE
      <4>1. file[r] # NoHandle /\ Capacity > 0
        BY <3>1, FilesAssumption DEF Active, TypeInv, TypeOK, Readers, NoHandle
      <4>2. Job(r).len = Capacity
        BY <1>1, Taken, Jobs
      <4> QED
        BY <1>1, <4>1, <4>2
    <3> QED
      BY <3>1
  <2> QED
    BY <1>1, <2>1, Taken, Jobs
<1>3. receiver'[r] = <<>>
  BY <1>2 DEF TypeInv, TypeOK
<1>4. \A q \in Readers \ {r} : UNCHANGED Locals(q)
  BY <1>1, <1>2 DEF Locals, TypeInv, TypeOK
<1>5. Waiting(r)'
  BY <1>1, <1>2, <1>3 DEF Waiting, mainVars
<1>6. Got(r)' = Got(r)
  BY <1>1 DEF Got
<1> QED
  BY <1>1, <1>2, <1>3, <1>4, <1>5, <1>6, ReaderStep DEF NoFinish

LEMMA AckStep ==
    ASSUME TypeInv, FirstRun, works = 1, NEW r \in Readers, ReaderAck(r)
    PROVE  FirstRun'
<1>1. /\ thread[r] = "ack" /\ thread' = [thread EXCEPT ![r] = "recv"]
      /\ listener' = [listener EXCEPT ![r] = @ + 1]
      /\ first_bank' = [first_bank EXCEPT ![r] = @ + 1]
      /\ UNCHANGED <<receiver, file, errs, bank, mainVars>>
  BY DEF ReaderAck
<1>2. Active(r)
  BY <1>1 DEF FirstRun, Waiting
<1>3. /\ thread'[r] = "recv" /\ listener'[r] = listener[r] + 1 /\ first_bank'[r] = first_bank[r] + 1
      /\ first_bank[r] \in Nat /\ listener[r] \in Nat
  BY <1>1 DEF TypeInv, TypeOK
<1>4. \A q \in Readers \ {r} : UNCHANGED Locals(q)
  BY <1>1 DEF Locals, TypeInv, TypeOK
<1>5. Done(r)' = Done(r) /\ Got(r)' = Got(r)
  BY <1>1, <1>3 DEF Done, Got
<1>6. Active(r)'
  <2>1. BanksHold(r)'
    BY <1>1, <1>2, <1>5 DEF Active, BanksHold, Holds, mainVars
  <2>2. receiver[r] \in {<<>>, <<F>>} /\ Done(r) = offset
    BY <1>1, <1>2 DEF Active
  <2> QED
    BY <1>1, <1>2, <1>3, <1>5, <2>1, <2>2 DEF Active, mainVars
<1>7. NoFinish(r)'
  BY <1>1, <1>3 DEF FirstRun, NoFinish, FinishSent, mainVars
<1> QED
  BY <1>1, <1>4, <1>5, <1>6, <1>7, ReaderStep

(* What both outcomes of a read have in common.                            *)
LEMMA ReadJob ==
    ASSUME TypeInv, FirstRun, works = 1, NEW r \in Readers, TakeReadJob(r)
    PROVE  /\ Active(r) /\ thread[r] = "recv" /\ thread'[r] = "ack"
           /\ file[r] \in [name : Files, reads : Nat]
           /\ receiver[r] \in {<<W>>, <<W, F>>} /\ receiver'[r] \in {<<>>, <<F>>}
           /\ Done(r) = offset - 1 /\ Done(r) = first_bank[r]
           /\ Done(r)' = offset /\ Got(r)' = Got(r)
           /\ NoFinish(r)'
           /\ UNCHANGED <<mainVars, first_bank, listener>>
           /\ \A q \in Readers \ {r} : UNCHANGED <<listener[q], first_bank[q], receiver[q], thread[q]>>
<1>1. /\ Receive(r) /\ ~Job(r).finished /\ Job(r).filename = NoFile
      /\ Job(r).len # 0 /\ file[r] # NoHandle
      /\ thread' = [thread EXCEPT ![r] = "ack"]
      /\ UNCHANGED <<first_bank, mainVars, listener>>
  BY DEF TakeReadJob, Receive
<1>2. /\ Active(r) /\ thread[r] = "recv"
      /\ receiver' = [receiver EXCEPT ![r] = receiver'[r]]
      /\ \/ receiver[r] = <<W>> /\ receiver'[r] = <<>>
         \/ receiver[r] = <<W, F>> /\ receiver'[r] = <<F>>
  BY <1>1, Taken, Jobs
<1>3. file[r] \in [name : Files, reads : Nat]
  BY <1>1 DEF TypeInv, TypeOK, Handles
<1>4. thread'[r] = "ack"
  BY <1>1 DEF TypeInv, TypeOK
<1>5. Done(r) = offset - 1 /\ Done(r) = first_bank[r] /\ first_bank[r] \in Nat /\ offset \in Nat
  <2>1. Head(<<W>>) = W /\ Head(<<W, F>>) = W /\ Head(<<F>>) = F
    BY ShortQueues
  <2>2. receiver[r] \notin {<<>>, <<F>>}
    BY <1>2, <2>1, Jobs
  <2> QED
    BY <1>2, <2>2 DEF Active, Done, TypeInv, TypeOK
<1>6. Done(r)' = offset /\ Got(r)' = Got(r)
  BY <1>1, <1>4, <1>5 DEF Done, Got
<1>7. NoFinish(r)'
  <2>1. NoFinish(r) /\ FinishSent' = FinishSent
    BY <1>1 DEF FirstRun, FinishSent, mainVars
  <2>2. CASE receiver'[r] = <<>>
    BY <1>4, <2>2 DEF NoFinish
  <2>3. CASE receiver[r] = <<W, F>>
    BY <2>1, <2>3 DEF NoFinish
  <2> QED
    BY <1>2, <2>2, <2>3
<1>8. \A q \in Readers \ {r} : UNCHANGED <<listener[q], first_bank[q], receiver[q], thread[q]>>
  BY <1>1, <1>2 DEF TypeInv, TypeOK
<1> QED
  BY <1>1, <1>2, <1>3, <1>4, <1>5, <1>6, <1>7, <1>8

LEMMA ReadStep ==
    ASSUME TypeInv, FirstRun, works = 1, NEW r \in Readers, ReaderRead(r)
    PROVE  FirstRun'
<1> DEFINE b == get_bank(first_bank[r])
           k == file[r].reads + 1
           chunk == FillBank(bank[r][b], file[r].name, k)
           filled == [bank[r] EXCEPT ![b] = chunk]
           handle == [name |-> file[r].name, reads |-> k]
<1>1. TakeReadJob(r) /\ bank' = [bank EXCEPT ![r] = filled] /\ file' = [file EXCEPT ![r] = handle]
      /\ UNCHANGED errs
  BY DEF ReaderRead
<1>2. /\ Active(r) /\ Done(r) = offset - 1 /\ Done(r) = first_bank[r] /\ Done(r)' = offset
      /\ Got(r)' = Got(r) /\ NoFinish(r)' /\ file[r] \in [name : Files, reads : Nat]
      /\ thread'[r] = "ack" /\ receiver'[r] \in {<<>>, <<F>>}
      /\ UNCHANGED <<mainVars, first_bank, listener>>
      /\ \A q \in Readers \ {r} : UNCHANGED <<listener[q], first_bank[q], receiver[q], thread[q]>>
  BY <1>1, ReadJob
<1>3. b \in Banks /\ first_bank[r] \in Nat /\ offset \in Nat /\ b = first_bank[r] % 2
  BY DEF get_bank, Banks, TypeInv, TypeOK
<1>4. bank[r] \in [Banks -> EceBuffer] /\ bank[r][b] \in EceBuffer
  BY <1>3 DEF TypeInv, TypeOK
<1>5. Holds(chunk, file[r].name, k)
  BY <1>2, <1>4, FillBankHolds
<1> HIDE DEF chunk
<1>6. filled[b] = chunk /\ \A c \in Banks : c # b => filled[c] = bank[r][c]
  BY <1>3, <1>4
<1> HIDE DEF filled, handle
<1>7. bank'[r] = filled /\ file'[r] = handle /\ errs'[r] = errs[r]
  BY <1>1 DEF TypeInv, TypeOK
<1>8. handle.name = file[r].name /\ handle.reads = file[r].reads + 1
  BY DEF handle
<1>9. \A q \in Readers \ {r} : UNCHANGED Locals(q)
  <2>1. \A q \in Readers \ {r} : UNCHANGED <<bank[q], file[q], errs[q]>>
    BY <1>1 DEF TypeInv, TypeOK
  <2> QED
    BY <1>2, <2>1 DEF Locals
<1>10. filenames' = filenames /\ offset' = offset
  BY <1>2 DEF mainVars
<1>11. BanksHold(r)'
  <2> SUFFICES ASSUME errs'[r] = 0
               PROVE  /\ file'[r].reads = Done(r)'
                      /\ Done(r)' >= 1 => Holds(bank'[r][(Done(r)' - 1) % 2], filenames[r + 1], Done(r)')
                      /\ Done(r)' >= 2 => Holds(bank'[r][Done(r)' % 2], filenames[r + 1], Done(r)' - 1)
    BY <1>10 DEF BanksHold, Holds
  <2>1. file[r].reads = Done(r) /\ file[r].name = filenames[r + 1]
        /\ (Done(r) >= 1 => Holds(bank[r][(Done(r) - 1) % 2], filenames[r + 1], Done(r)))
    BY <1>2, <1>7 DEF Active, BanksHold
  <2>2. file'[r].reads = Done(r)' /\ k = Done(r)'
    BY <1>2, <1>3, <1>7, <1>8, <2>1
  <2>3. b = (Done(r)' - 1) % 2
    BY <1>2, <1>3
  <2>4. Holds(bank'[r][(Done(r)' - 1) % 2], filenames[r + 1], Done(r)')
    BY <1>5, <1>6, <1>7, <2>1, <2>2, <2>3
  <2>5. ASSUME Done(r)' >= 2 PROVE Holds(bank'[r][Done(r)' % 2], filenames[r + 1], Done(r)' - 1)
    <3>1. Done(r) >= 1 /\ Done(r)' - 1 = Done(r) /\ Done(r)' \in Nat
      BY <1>2, <1>3, <2>5
    <3>2. (Done(r) - 1) % 2 = Done(r)' % 2 /\ Done(r)' % 2 # b /\ Done(r)' % 2 \in Banks
      BY <2>3, <3>1, <1>2, <1>3 DEF Banks
    <3> QED
      BY <1>6, <1>7, <2>1, <3>1, <3>2
  <2> QED
    BY <2>2, <2>4, <2>5
<1>12. Active(r)'
  BY <1>2, <1>7, <1>8, <1>10, <1>11 DEF Active
<1> QED
  BY <1>2, <1>7, <1>9, <1>12, ReaderStep

LEMMA ReadErrorStep ==
    ASSUME TypeInv, FirstRun, works = 1, NEW r \in Readers, ReaderReadError(r)
    PROVE  FirstRun'
<1>1. TakeReadJob(r) /\ errs' = [errs EXCEPT ![r] = @ + 1] /\ UNCHANGED <<bank, file>>
  BY DEF ReaderReadError
<1>2. /\ Active(r) /\ Done(r)' = offset
      /\ Got(r)' = Got(r) /\ NoFinish(r)'
      /\ thread'[r] = "ack" /\ receiver'[r] \in {<<>>, <<F>>}
      /\ UNCHANGED <<mainVars, first_bank, listener>>
      /\ \A q \in Readers \ {r} : UNCHANGED <<listener[q], first_bank[q], receiver[q], thread[q]>>
  BY <1>1, ReadJob
<1>3. errs'[r] # 0
  BY <1>1 DEF TypeInv, TypeOK
<1>4. \A q \in Readers \ {r} : UNCHANGED Locals(q)
  <2>1. \A q \in Readers \ {r} : UNCHANGED <<bank[q], file[q], errs[q]>>
    BY <1>1 DEF TypeInv, TypeOK
  <2> QED
    BY <1>2, <2>1 DEF Locals
<1>5. BanksHold(r)'
  BY <1>3 DEF BanksHold
<1>6. Active(r)'
  BY <1>1, <1>2, <1>5 DEF Active, mainVars
<1> QED
  BY <1>2, <1>3, <1>4, <1>6, ReaderStep

----------------------------------------------------------------------------
(* The steps of the owner, and everything before the first run             *)

(* open_files and send_work put at most two jobs into each channel.        *)
LEMMA Sends ==
    ASSUME NEW q, NEW fs, NEW r \in Readers
    PROVE  /\ send_work(q, FALSE)[r] = Append(q[r], W)
           /\ send_work(q, TRUE)[r] = Append(q[r], F)
           /\ open_files(q, fs)[r] = IF r < Len(fs) THEN Append(q[r], OpenJob(fs[r + 1])) ELSE q[r]
BY DEF send_work, open_files, W, F

LEMMA WorkStep ==
    ASSUME TypeInv, Fresh, works = 0, NEW fs \in FileLists, Work(fs)
    PROVE  FirstRun'
<1>1. /\ pc = "idle" /\ pc' = "wait" /\ offset' = 1 /\ bank_read' = 0 /\ job_done' = 0
      /\ filenames' = fs /\ printed' = [r \in Readers |-> <<>>]
      /\ UNCHANGED <<listener, thread, file, first_bank>>
  BY DEF Work, readerVars
<1>2. receiver' = send_work(open_files(receiver, fs), FALSE)
  BY DEF Work
<1>3. \A r \in Readers : /\ first_bank[r] = 0 /\ listener[r] = 0 /\ file[r] = NoHandle
                         /\ receiver[r] = <<>> /\ thread[r] = "recv"
  BY <1>1 DEF Fresh, NoFinish, FinishSent
<1>4. \A r \in Readers : Got(r)' = 0 /\ Len(printed'[r]) = 0
  BY <1>1, <1>3 DEF Got
<1>5. Phase'
  <2>1. {r \in Readers : Got(r) = offset}' = {}
    BY <1>1, <1>4
  <2>2. Cardinality({r \in Readers : Got(r) = offset})' = 0
    BY <2>1, FS_EmptySet
  <2> QED
    BY <1>1, <1>4, <2>2 DEF Phase, FinishSent
<1>6. ASSUME NEW r \in Readers PROVE Waiting(r)' /\ NoFinish(r)'
  <2>0. receiver'[r] = Append(IF r < Len(fs) THEN Append(receiver[r], OpenJob(fs[r + 1]))
                              ELSE receiver[r], W)
    <3> DEFINE q == open_files(receiver, fs)
    <3>1. q[r] = IF r < Len(fs) THEN Append(receiver[r], OpenJob(fs[r + 1])) ELSE receiver[r]
      BY Sends
    <3>2. receiver' = send_work(q, FALSE)
      BY <1>2
    <3> HIDE DEF q
    <3>3. receiver'[r] = Append(q[r], W)
      BY <3>2, Sends
    <3> QED
      BY <3>1, <3>3
  <2>1. CASE r < Len(fs)
    <3>1. receiver'[r] = <<OpenJob(fs[r + 1]), W>>
      <4> DEFINE o == OpenJob(fs[r + 1])
      <4>1. receiver'[r] = Append(Append(<<>>, o), W)
        BY <1>3, <2>0, <2>1
      <4> HIDE DEF o
      <4>2. Append(<<>>, o) = <<o>> /\ Append(<<o>>, W) = <<o, W>>
        BY ShortQueues
      <4>3. receiver'[r] = <<o, W>>
        BY <4>1, <4>2
      <4> QED
        BY <4>3 DEF o
    <3> DEFINE o == OpenJob(fs[r + 1])
    <3>2. receiver'[r] = <<o, W>>
      BY <3>1
    <3>4. fs \in Seq(Files) /\ r \in Nat
      BY ListsAssumption, NrAssumption DEF Readers
    <3>5. fs[r + 1] \in Files
      BY <2>1, <3>4
    <3>3. receiver'[r] \notin {<<W, F>>, <<F>>}
      <4>1. o.finished = FALSE /\ W.finished = FALSE /\ F.finished = TRUE
        BY <3>5, Jobs
      <4> HIDE DEF o
      <4>2. Head(<<o, W>>) = o /\ Head(<<W, F>>) = W /\ Head(<<F>>) = F /\ Tail(<<o, W>>) = <<W>>
            /\ Tail(<<W, F>>) = <<F>> /\ Head(<<W>>) = W
        BY ShortQueues
      <4> QED
        BY <3>2, <4>1, <4>2
    <3> QED
      BY <1>1, <1>3, <2>1, <3>1, <3>3 DEF Waiting, NoFinish
  <2>2. CASE ~(r < Len(fs))
    <3>1. receiver'[r] = <<W>>
      BY <1>3, <2>0, <2>2, ShortQueues
    <3>2. receiver'[r] \notin {<<W, F>>, <<F>>}
      BY <3>1, ShortQueues, Jobs
    <3> QED
      BY <1>1, <1>3, <3>1, <3>2 DEF Waiting, NoFinish
  <2> QED
    BY <2>1, <2>2
<1>7. HandOff'
  BY <1>4 DEF HandOff
<1> QED
  BY <1>5, <1>6, <1>7 DEF FirstRun

LEMMA FreshStep ==
    ASSUME TypeInv, Fresh, works = 0, [Next]_vars, works' = 0
    PROVE  Fresh'
<1>1. ASSUME NEW fs \in FileLists, Work(fs) PROVE FALSE
  BY <1>1 DEF Work
<1>2. CASE wait_readers \/ SendNext \/ process_writer
  BY <1>2 DEF wait_readers, SendNext, process_writer, Fresh, FinishSent
<1>3. CASE Drop
  <2>1. \A r \in Readers : receiver[r] = <<>> /\ thread[r] = "recv"
    BY <1>3 DEF Drop, Fresh, NoFinish, FinishSent
  <2>2. \A r \in Readers : receiver'[r] = <<F>>
    BY <1>3, <2>1, Sends, ShortQueues DEF Drop
  <2>3. /\ pc' = "join"
        /\ UNCHANGED <<filenames, offset, printed, listener, thread, file, first_bank>>
    BY <1>3 DEF Drop, readerVars
  <2> QED
    BY <2>1, <2>2, <2>3 DEF Fresh, NoFinish, FinishSent
<1>4. CASE Join
  <2>1. /\ FinishSent /\ FinishSent'
        /\ UNCHANGED <<filenames, offset, printed, receiver, listener, thread, file, first_bank>>
    BY <1>4 DEF Join, FinishSent, readerVars
  <2> QED
    BY <2>1 DEF Fresh, NoFinish
<1>5. ASSUME NEW r \in Readers, Reader(r) PROVE Fresh'
  <2>1. receiver[r] \in {<<>>, <<F>>} /\ thread[r] # "ack"
    BY DEF Fresh
  <2>2. ~ReaderAck(r)
    BY <2>1 DEF ReaderAck
  <2>3. Receive(r)
    BY <1>5, <2>2 DEF Reader, ReaderFinish, ReaderOpen, ReaderIgnore, ReaderRead, ReaderReadError, TakeReadJob
  <2>4. receiver[r] = <<F>> /\ Job(r) = F
    BY <2>1, <2>3, ShortQueues DEF Receive, Job
  <2>5. ReaderFinish(r)
    BY <1>5, <2>2, <2>4, Jobs DEF Reader, ReaderOpen, ReaderIgnore, ReaderRead, ReaderReadError, TakeReadJob
  <2>6. /\ receiver' = [receiver EXCEPT ![r] = <<>>]
        /\ thread' = [thread EXCEPT ![r] = "stopped"]
        /\ UNCHANGED <<mainVars, listener, file, first_bank>>
    BY <2>4, <2>5, ShortQueues DEF ReaderFinish, Receive
  <2>7. FinishSent /\ FinishSent'
    BY <2>4, <2>6 DEF Fresh, NoFinish, FinishSent, mainVars
  <2>8. \A q \in Readers : receiver'[q] \in {<<>>, <<F>>} /\ thread'[q] \in {"recv", "stopped"}
    BY <2>6 DEF Fresh, TypeInv, TypeOK
  <2> QED
    BY <2>6, <2>7, <2>8 DEF Fresh, NoFinish, mainVars
<1>6. CASE UNCHANGED vars
  BY <1>6 DEF vars, mainVars, readerVars, Fresh, NoFinish, FinishSent
<1> QED
  BY <1>1, <1>2, <1>3, <1>4, <1>5, <1>6 DEF Next, Internal

LEMMA ReadersFinite == IsFiniteSet(Readers) /\ Cardinality(Readers) = Nr
BY NrAssumption, FS_Interval DEF Readers

(* What the counters of a reader say of each other.                        *)
LEMMA ActiveBounds ==
    ASSUME TypeInv, NEW r \in Readers, Active(r)
    PROVE  /\ Got(r) \in Nat /\ Got(r) <= Done(r) /\ Done(r) <= offset /\ Done(r) >= offset - 1
           /\ Done(r) \in Nat
           /\ Got(r) = Done(r) => thread[r] # "ack" /\ listener[r] = 0
BY DEF TypeInv, TypeOK, Active, Got, Done

LEMMA OwnerStay ==
    ASSUME NEW r \in Readers, Active(r), UNCHANGED Locals(r), UNCHANGED <<filenames, offset>>
    PROVE  Active(r)'
BY DEF Locals, Active, BanksHold, Done, Holds

LEMMA WaitStep ==
    ASSUME TypeInv, FirstRun, works = 1, wait_readers
    PROVE  FirstRun'
<1>1. /\ pc = "wait" /\ job_done' = job_done + 1
      /\ pc' = IF job_done' = Nr THEN "send" ELSE "wait"
      /\ UNCHANGED <<works, filenames, offset, bank_read, iter, printed, receiver, thread, file,
                     first_bank, errs, bank>>
  BY DEF wait_readers, readerVars, AllAcked
<1>2. PICK r \in Readers : listener[r] > 0 /\ listener' = [listener EXCEPT ![r] = @ - 1]
  BY DEF wait_readers
<1>3. listener'[r] = listener[r] - 1 /\ listener[r] \in Nat /\ first_bank[r] \in Nat /\ offset \in Nat
  BY <1>2 DEF TypeInv, TypeOK
<1>4. Active(r)
  BY <1>2 DEF FirstRun, Waiting
<1>5. Got(r)' = Got(r) + 1
  BY <1>1, <1>3 DEF Got
<1>6. Got(r) = offset - 1
  <2>1. Got(r) < first_bank[r] /\ first_bank[r] <= Done(r)
    BY <1>2, <1>3 DEF Got, Done
  <2>2. Got(r) \in {offset - 1, offset}
    BY <1>1 DEF FirstRun, Phase
  <2> QED
    BY <1>3, <1>4, <2>1, <2>2, ActiveBounds
<1>7. \A q \in Readers \ {r} : Got(q)' = Got(q) /\ UNCHANGED Locals(q)
  BY <1>1, <1>2 DEF Got, Locals, TypeInv, TypeOK
<1>8. Active(r)'
  <2>1. Done(r)' = Done(r)
    BY <1>1 DEF Done
  <2>2. BanksHold(r)'
    BY <1>1, <1>4, <2>1 DEF Active, BanksHold, Holds
  <2> QED
    BY <1>1, <1>3, <1>4, <2>1, <2>2 DEF Active
<1> DEFINE A == {q \in Readers : Got(q) = offset}
<1>9. A' = A \cup {r} /\ r \notin A
  BY <1>1, <1>3, <1>5, <1>6, <1>7
<1>10. IsFiniteSet(A) /\ job_done = Cardinality(A)
  BY <1>1, ReadersFinite, FS_Subset DEF FirstRun, Phase
<1>11. IsFiniteSet(A') /\ job_done' = Cardinality(A')
  BY <1>1, <1>9, <1>10, FS_AddElement
<1>12. \A q \in Readers : Got(q)' \in {offset - 1, offset}
  <2>1. \A q \in Readers : Got(q) \in {offset - 1, offset}
    BY <1>1 DEF FirstRun, Phase
  <2> QED
    BY <1>3, <1>5, <1>6, <1>7, <2>1
<1>13. job_done' = Nr => \A q \in Readers : Got(q)' = offset
  <2> SUFFICES ASSUME job_done' = Nr PROVE A' = Readers
    BY <1>1
  <2>1. A' \subseteq Readers /\ Cardinality(A') = Cardinality(Readers)
    BY <1>11, ReadersFinite
  <2> HIDE DEF A
  <2> QED
    BY <2>1, ReadersFinite, FS_Subset
<1>14. Phase'
  <2>1. /\ offset >= 1 /\ bank_read = (offset - 1) % 2 /\ \A q \in Readers : Len(printed[q]) = offset - 1
    BY <1>1 DEF FirstRun, Phase
  <2>2. CASE job_done' = Nr
    BY <1>1, <1>13, <2>1, <2>2 DEF Phase, FinishSent
  <2>3. CASE job_done' # Nr
    BY <1>1, <1>11, <1>12, <2>1, <2>3 DEF Phase, FinishSent
  <2> QED
    BY <2>2, <2>3
<1>15. ASSUME NEW q \in Readers PROVE (Active(q) \/ Waiting(q))' /\ NoFinish(q)'
  <2>1. Active(q) \/ Waiting(q)
    BY DEF FirstRun
  <2>2. NoFinish(q)'
    BY <1>1 DEF FirstRun, NoFinish, FinishSent
  <2>3. CASE q = r
    BY <1>8, <2>2, <2>3
  <2>4. CASE q # r /\ Active(q)
    BY <1>1, <1>7, <2>2, <2>4, OwnerStay
  <2>5. CASE q # r /\ Waiting(q)
    <3>1. Got(q)' = 0 /\ offset = 1
      BY <1>7, <2>5 DEF Waiting, Got
    <3>2. job_done' # Nr
      BY <1>13, <3>1
    <3>3. Waiting(q)'
      BY <1>1, <1>7, <2>5, <3>2 DEF Waiting, Locals
    <3> QED
      BY <2>2, <3>3
  <2> QED
    BY <2>1, <2>3, <2>4, <2>5
<1>16. HandOff'
  BY <1>1 DEF FirstRun, HandOff, Holds
<1> QED
  BY <1>14, <1>15, <1>16 DEF FirstRun

LEMMA SendStep ==
    ASSUME TypeInv, FirstRun, works = 1, SendNext
    PROVE  FirstRun'
<1>1. /\ pc = "send" /\ pc' = "write" /\ offset' = offset + 1 /\ iter' = 0
      /\ UNCHANGED <<works, filenames, bank_read, printed, listener, thread, file, first_bank, errs, bank>>
  BY DEF SendNext, readerVars
<1>2. \A r \in Readers : receiver'[r] = Append(receiver[r], W)
  <2>1. receiver' = send_work(receiver, FALSE)
    BY DEF SendNext
  <2> QED
    BY <2>1, Sends
<1>3. offset \in Nat /\ offset >= 1 /\ bank_read = (offset - 1) % 2
      /\ \A r \in Readers : Got(r) = offset /\ Len(printed[r]) = offset - 1
  BY <1>1 DEF FirstRun, Phase, TypeInv, TypeOK
<1>4. \A r \in Readers : Got(r)' = Got(r)
  BY <1>1 DEF Got
<1>5. Phase'
  <2>1. offset' >= 2 /\ bank_read' = offset' % 2
    BY <1>1, <1>3
  <2>2. \A r \in Readers : /\ Got(r)' = offset' - 1
                           /\ Len(printed'[r]) = offset' - 2 /\ ~(r < iter')
    BY <1>1, <1>3, <1>4 DEF Readers
  <2> QED
    BY <1>1, <2>1, <2>2 DEF Phase, FinishSent
<1>6. ASSUME NEW r \in Readers PROVE Active(r)' /\ NoFinish(r)'
  <2>1. Active(r) /\ NoFinish(r) /\ ~FinishSent
    BY <1>1 DEF FirstRun, Waiting, FinishSent
  <2>2. Done(r) = offset /\ thread[r] = "recv"
    BY <1>3, <2>1, ActiveBounds DEF Active, NoFinish
  <2>3. receiver[r] = <<>>
    BY <1>3, <2>1, <2>2 DEF Active, NoFinish
  <2>4. receiver'[r] = <<W>>
    BY <1>2, <2>3, ShortQueues
  <2>5. Done(r)' = offset' - 1 /\ Done(r)' = Done(r)
    BY <1>1, <1>3, <2>2 DEF Done
  <2>6. BanksHold(r)'
    BY <1>1, <2>1, <2>5 DEF Active, BanksHold, Holds
  <2>7. Active(r)'
    BY <1>1, <2>1, <2>2, <2>4, <2>5, <2>6 DEF Active
  <2>8. <<W>> \notin {<<W, F>>, <<F>>}
    BY ShortQueues, Jobs
  <2> QED
    BY <1>1, <2>2, <2>4, <2>7, <2>8 DEF NoFinish
<1>7. HandOff'
  BY <1>1 DEF FirstRun, HandOff, Holds
<1> QED
  BY <1>5, <1>6, <1>7 DEF FirstRun

LEMMA WriteStep ==
    ASSUME TypeInv, FirstRun, works = 1, process_writer
    PROVE  FirstRun'
<1> DEFINE b == bank[iter][get_bank(bank_read)]
<1>1. /\ pc = "write" /\ printed' = [printed EXCEPT ![iter] = Append(@, b)] /\ iter' = iter + 1
      /\ UNCHANGED <<works, filenames, offset, receiver, listener, thread, file, first_bank, errs, bank>>
  BY DEF process_writer, readerVars
<1>2. /\ iter # Nr - 1 => pc' = "write" /\ bank_read' = bank_read
      /\ iter = Nr - 1 => pc' \in {"idle", "wait"} /\ bank_read' = (bank_read + 1) % 2 /\ job_done' = 0
  BY DEF process_writer, LastReader, NextBank
<1>3. iter \in Readers /\ iter \in Nat /\ Nr \in Nat
  BY <1>1, NrAssumption DEF TypeInv, TypeOK, Readers
<1>4. /\ offset \in Nat /\ offset >= 2 /\ bank_read = offset % 2
      /\ \A r \in Readers : /\ Got(r) = offset - 1
                             /\ Len(printed[r]) = IF r < iter THEN offset - 1 ELSE offset - 2
  BY <1>1 DEF FirstRun, Phase, TypeInv, TypeOK
<1>5. \A r \in Readers : Active(r) /\ ~FinishSent
  BY <1>1 DEF FirstRun, Waiting, FinishSent
<1>6. \A r \in Readers : Got(r)' = offset' - 1
  BY <1>1, <1>4 DEF Got
<1> HIDE DEF b
<1>7. /\ printed[iter] \in Seq(EceBuffer)
      /\ b \in EceBuffer
      /\ printed'[iter] = Append(printed[iter], b)
      /\ \A r \in Readers \ {iter} : printed'[r] = printed[r]
  BY <1>1, <1>3 DEF TypeInv, TypeOK, b, get_bank, Banks
<1>8. \A r \in Readers : Len(printed'[r]) = IF r < iter' THEN offset' - 1 ELSE offset' - 2
  <2> SUFFICES ASSUME NEW r \in Readers
               PROVE Len(printed'[r]) = IF r < iter' THEN offset' - 1 ELSE offset' - 2
    OBVIOUS
  <2>1. CASE r = iter
    <3>1. Len(printed'[r]) = Len(printed[r]) + 1
      BY <1>7, <2>1
    <3> QED
      BY <1>1, <1>3, <1>4, <2>1, <3>1
  <2>2. CASE r # iter
    BY <1>1, <1>3, <1>4, <1>7, <2>2 DEF Readers
  <2> QED
    BY <2>1, <2>2
<1>9. Phase'
  <2>1. CASE iter # Nr - 1
    <3>1. pc' = "write" /\ bank_read' = offset' % 2 /\ offset' >= 2
      BY <1>1, <1>2, <1>4, <2>1
    <3> QED
      BY <1>6, <1>8, <3>1 DEF Phase, FinishSent
  <2>2. CASE iter = Nr - 1
    <3>1. bank_read' = (offset' - 1) % 2 /\ offset' >= 2 /\ offset' \in Nat
      BY <1>1, <1>2, <1>4, <2>2
    <3>2. \A r \in Readers : Len(printed'[r]) = offset' - 1
      BY <1>1, <1>3, <1>8, <2>2 DEF Readers
    <3>3. {r \in Readers : Got(r) = offset}' = {}
      BY <1>6, <3>1
    <3>4. job_done' = Cardinality({r \in Readers : Got(r) = offset})'
      BY <1>2, <2>2, <3>3, FS_EmptySet
    <3> QED
      BY <1>2, <1>6, <2>2, <3>1, <3>2, <3>4 DEF Phase, FinishSent
  <2> QED
    BY <2>1, <2>2
<1>10. \A r \in Readers : Active(r)' /\ NoFinish(r)'
  <2> SUFFICES ASSUME NEW r \in Readers PROVE Active(r)' /\ NoFinish(r)'
    OBVIOUS
  <2>1. Active(r) /\ NoFinish(r) /\ ~FinishSent
    BY <1>5 DEF FirstRun
  <2>2. NoFinish(r)'
    BY <1>1, <2>1 DEF NoFinish
  <2>3. UNCHANGED Locals(r)
    BY <1>1 DEF Locals
  <2> QED
    BY <1>1, <2>1, <2>2, <2>3, OwnerStay
<1>11. errs[iter] = 0 => iter < Len(filenames) /\ Holds(b, filenames[iter + 1], offset - 1)
  <2> SUFFICES ASSUME errs[iter] = 0
               PROVE iter < Len(filenames) /\ Holds(b, filenames[iter + 1], offset - 1)
    OBVIOUS
  <2>1. Active(iter) /\ Done(iter) \in {offset - 1, offset} /\ BanksHold(iter)
    BY <1>3, <1>4, <1>5, ActiveBounds DEF Active
  <2>2. get_bank(bank_read) = offset % 2 /\ (offset - 2) % 2 = offset % 2
    BY <1>4 DEF get_bank
  <2>3. CASE Done(iter) = offset - 1
    BY <1>4, <2>1, <2>2, <2>3 DEF BanksHold, Active, b
  <2>4. CASE Done(iter) = offset
    BY <1>4, <2>1, <2>2, <2>4 DEF BanksHold, Active, b
  <2> QED
    BY <2>1, <2>3, <2>4
<1>12. HandOff'
  <2> SUFFICES ASSUME NEW r \in Readers, errs'[r] = 0, NEW j \in 1 .. Len(printed'[r])
               PROVE  r < Len(filenames) /\ Holds(printed'[r][j], filenames[r + 1], j)
    BY <1>1 DEF HandOff, Holds
  <2>1. \A i \in 1 .. Len(printed[r]) : r < Len(filenames) /\ Holds(printed[r][i], filenames[r + 1], i)
    BY <1>1 DEF FirstRun, HandOff
  <2>2. CASE r # iter
    BY <1>7, <2>1, <2>2
  <2>3. CASE r = iter /\ j <= Len(printed[r])
    <3>1. printed'[r][j] = printed[r][j]
      BY <1>7, <2>3
    <3> QED
      BY <2>1, <2>3, <3>1
  <2>4. CASE r = iter /\ j = Len(printed[r]) + 1
    <3>1. printed'[r][j] = b /\ j = offset - 1
      BY <1>3, <1>4, <1>7, <2>4
    <3> QED
      BY <1>1, <1>11, <2>4, <3>1
  <2> QED
    BY <1>7, <2>2, <2>3, <2>4
<1> QED
  BY <1>9, <1>10, <1>12 DEF FirstRun

LEMMA DropStep ==
    ASSUME TypeInv, FirstRun, works = 1, Drop \/ Join
    PROVE  FirstRun'
<1>1. /\ pc = "idle" \/ FinishSent
      /\ FinishSent'
      /\ UNCHANGED <<works, filenames, offset, bank_read, job_done, printed, listener, thread, file,
                     first_bank, errs, bank>>
      /\ \A r \in Readers : receiver'[r] = receiver[r] \/ (~FinishSent /\ receiver'[r] = Append(receiver[r], F))
  <2>1. CASE Drop
    BY <2>1, Sends DEF Drop, FinishSent, readerVars
  <2>2. CASE Join
    BY <2>2 DEF Join, FinishSent, readerVars
  <2> QED
    BY <2>1, <2>2
<1>2. \A r \in Readers : Got(r)' = Got(r) /\ Done(r)' = Done(r)
  BY <1>1 DEF Got, Done
<1>3. Phase'
  BY <1>1, <1>2 DEF FirstRun, Phase, FinishSent
<1>4. ASSUME NEW r \in Readers PROVE Active(r)' /\ NoFinish(r)'
  <2>1. Active(r) /\ NoFinish(r)
    BY <1>1 DEF FirstRun, Waiting, FinishSent
  <2>2. BanksHold(r)'
    BY <1>1, <1>2, <2>1 DEF Active, BanksHold, Holds
  <2>3. CASE receiver'[r] = receiver[r]
    BY <1>1, <1>2, <2>1, <2>2, <2>3 DEF Active, NoFinish
  <2>4. CASE ~FinishSent /\ receiver'[r] = Append(receiver[r], F)
    <3>1. \/ receiver[r] = <<W>> /\ Done(r) = offset - 1 /\ thread[r] = "recv"
          \/ receiver[r] = <<>> /\ Done(r) = offset /\ thread[r] \in {"recv", "ack", "stopped"}
      BY <2>1, <2>4 DEF Active, NoFinish
    <3>2. \/ receiver'[r] = <<W, F>> /\ Done(r) = offset - 1 /\ thread[r] = "recv"
          \/ receiver'[r] = <<F>> /\ Done(r) = offset /\ thread[r] \in {"recv", "ack", "stopped"}
      <4>1. Append(<<W>>, F) = <<W, F>> /\ Append(<<>>, F) = <<F>>
        BY ShortQueues
      <4> QED
        BY <2>4, <3>1, <4>1
    <3>3. Active(r)'
      BY <1>1, <1>2, <2>1, <2>2, <3>2 DEF Active
    <3> QED
      BY <1>1, <3>3 DEF NoFinish
  <2> QED
    BY <1>1, <2>3, <2>4
<1>5. HandOff'
  BY <1>1 DEF FirstRun, HandOff, Holds
<1> QED
  BY <1>3, <1>4, <1>5 DEF FirstRun

----------------------------------------------------------------------------
LEMMA IInvInit == Init => IInv
<1> SUFFICES ASSUME Init PROVE IInv
  OBVIOUS
<1>1. TypeInv /\ works = 0
  BY TypeInit DEF Init
<1>2. Fresh
  BY DEF Init, Fresh, NoFinish
<1> QED
  BY <1>1, <1>2 DEF IInv

LEMMA IInvStep == IInv /\ [Next]_vars => IInv'
<1> SUFFICES ASSUME IInv, [Next]_vars PROVE IInv'
  OBVIOUS
<1>1. TypeInv /\ TypeInv'
  BY TypeStep DEF IInv
<1>2. works' = works \/ (works' = works + 1 /\ \E fs \in FileLists : Work(fs))
  BY DEF Next, Internal, Reader, Work, wait_readers, SendNext, process_writer, Drop, Join, ReaderFinish,
         ReaderOpen, ReaderIgnore, ReaderRead, ReaderReadError, ReaderAck, TakeReadJob, Receive, vars, mainVars
<1>3. works \in Nat
  BY <1>1, BoundAssumption DEF TypeInv, TypeOK
<1>4. CASE works' = 0
  <2>1. works = 0
    BY <1>2, <1>3, <1>4
  <2> QED
    BY <1>1, <1>4, <2>1, FreshStep DEF IInv
<1>5. CASE works' = 1 /\ works = 0
  BY <1>1, <1>2, <1>5, WorkStep DEF IInv
<1>6. CASE works' = 1 /\ works = 1
  <2>1. FirstRun
    BY <1>6 DEF IInv
  <2>2. ASSUME NEW fs \in FileLists, Work(fs) PROVE FALSE
    BY <1>6, <2>2 DEF Work
  <2>3. CASE UNCHANGED vars
    <3>1. \A r \in Readers : Got(r)' = Got(r) /\ UNCHANGED Locals(r)
      BY <2>3 DEF vars, mainVars, readerVars, Got, Locals
    <3>2. Phase'
      BY <2>1, <2>3, <3>1, PhaseStays DEF FirstRun, vars, mainVars
    <3>3. UNCHANGED mainVars
      BY <2>3 DEF vars
    <3>4. \A r \in Readers : (Active(r) \/ Waiting(r))' /\ NoFinish(r)'
      <4> SUFFICES ASSUME NEW r \in Readers
                   PROVE (Active(r) \/ Waiting(r))' /\ NoFinish(r)'
        OBVIOUS
      <4>1. (Active(r) \/ Waiting(r)) /\ NoFinish(r)
        BY <2>1 DEF FirstRun
      <4> QED
        BY <3>1, <3>3, <4>1, OthersStay
    <3>5. HandOff'
      BY <2>1, <2>3 DEF FirstRun, HandOff, Holds, vars, mainVars, readerVars
    <3> QED
      BY <1>1, <1>6, <3>2, <3>4, <3>5 DEF IInv, FirstRun
  <2>4. FirstRun' \/ UNCHANGED vars
    BY <1>1, <1>6, <2>1, <2>2, WaitStep, SendStep, WriteStep, DropStep, FinishStep, OpenStep, IgnoreStep,
       ReadStep, ReadErrorStep, AckStep DEF Next, Internal, Reader
  <2> QED
    BY <1>1, <1>6, <2>3, <2>4 DEF IInv
<1> QED
  BY <1>1, <1>2, <1>3, <1>4, <1>5, <1>6 DEF IInv

LEMMA Invariance == Spec => []IInv
BY IInvInit, IInvStep, PTL DEF Spec

(* In the first run the banks hand over every chunk to the right round,    *)
(* whatever the number of readers, the capacity, the files and the failing *)
(* reads, and however the threads interleave.                              *)
THEOREM HandOffCorrect == Spec => []HandOff
<1>1. IInv => HandOff
  <2> SUFFICES ASSUME IInv PROVE HandOff
    OBVIOUS
  <2>1. CASE works = 0
    BY <2>1 DEF IInv, Fresh, HandOff
  <2>2. CASE works = 1
    BY <2>2 DEF IInv, FirstRun
  <2>3. CASE works > 1
    BY <2>3 DEF HandOff, IInv, TypeInv, TypeOK
  <2> QED
    BY <2>1, <2>2, <2>3, BoundAssumption DEF IInv, TypeInv, TypeOK
<1> QED
  BY <1>1, Invariance, PTL

(* Only a read of the reader itself changes a bank, and it goes to the one *)
(* that the owner is not printing.                                         *)
LEMMA OwnsStep ==
    ASSUME IInv, [Next]_vars, works <= 1, pc = "write", NEW r \in Readers
    PROVE  bank'[r][get_bank(bank_read)] = bank[r][get_bank(bank_read)]
<1>1. TypeInv /\ works = 1 /\ FirstRun
  BY BoundAssumption DEF IInv, Fresh, FinishSent, TypeInv, TypeOK
<1>2. /\ offset \in Nat /\ offset >= 2 /\ bank_read = offset % 2 /\ get_bank(bank_read) = offset % 2
      /\ bank \in [Readers -> [Banks -> EceBuffer]]
  BY <1>1 DEF FirstRun, Phase, TypeInv, TypeOK, get_bank
<1>3. ASSUME NEW q \in Readers, ReaderRead(q)
      PROVE  bank'[r][get_bank(bank_read)] = bank[r][get_bank(bank_read)]
  <2> DEFINE b == get_bank(first_bank[q])
             chunk == FillBank(bank[q][b], file[q].name, file[q].reads + 1)
             filled == [bank[q] EXCEPT ![b] = chunk]
  <2>1. TakeReadJob(q) /\ bank' = [bank EXCEPT ![q] = filled]
    BY <1>3 DEF ReaderRead
  <2>2. first_bank[q] = offset - 1
    BY <1>1, <2>1, ReadJob
  <2>3. b # offset % 2
    BY <1>2, <2>2 DEF get_bank
  <2> HIDE DEF chunk, b
  <2>4. filled[offset % 2] = bank[q][offset % 2]
    BY <1>2, <2>3 DEF Banks
  <2> HIDE DEF filled
  <2> QED
    BY <1>2, <2>1, <2>4
<1>4. (\A q \in Readers : ~ReaderRead(q)) => bank' = bank
  BY DEF Next, Internal, Reader, Work, wait_readers, SendNext, process_writer, Drop, Join, ReaderFinish,
         ReaderOpen, ReaderIgnore, ReaderReadError, ReaderAck, vars, readerVars
<1> QED
  BY <1>3, <1>4

(* The two sides of the double buffer never meet on a bank in the first    *)
(* run of a worker.                                                        *)
THEOREM BanksDisjoint == Spec => WriterOwnsBank
<1>1. IInv /\ [Next]_vars =>
        [(works <= 1 /\ pc = "write") =>
            \A r \in Readers : bank'[r][get_bank(bank_read)] = bank[r][get_bank(bank_read)]]_vars
  BY OwnsStep
<1> QED
  BY <1>1, Invariance, PTL DEF Spec, WriterOwnsBank

----------------------------------------------------------------------------
(* The first run implements the chunk streams.                             *)

LEMMA PayloadIsData ==
    ASSUME NEW b, NEW f, NEW k, Holds(b, f, k)
    PROVE  Payload(b) = Data(f, k)
BY DEF Holds, Payload, Data

LEMMA StreamsInit == Init => Streams!Init
BY DEF Init, Streams!Init, Done, Readers

(* The three variables of the abstraction.                                 *)
Source == [r \in Readers |-> IF r < Len(filenames) THEN filenames[r + 1] ELSE NoFile]
Filled == [r \in Readers |-> Done(r)]
Out == [r \in Readers |-> [j \in 1 .. Len(printed[r]) |-> Payload(printed[r][j])]]

LEMMA StreamsOpen ==
    ASSUME IInv, works = 0, NEW fs \in FileLists, Work(fs)
    PROVE  Streams!Open
<1>1. TypeInv /\ Fresh /\ fs \in Seq(Files)
  BY ListsAssumption DEF IInv
<1>2. Source = [r \in Readers |-> NoFile]
  BY <1>1 DEF Fresh, Source, Readers
<1>3. Source' \in [Readers -> Files \cup {NoFile}]
  <2>1. filenames' = fs
    BY DEF Work
  <2>2. \A r \in Readers : r < Len(fs) => fs[r + 1] \in Files
    BY <1>1 DEF Readers
  <2> QED
    BY <2>1, <2>2 DEF Source
<1>4. Filled' = Filled
  <2>1. UNCHANGED <<first_bank, thread>>
    BY DEF Work, readerVars
  <2> QED
    BY <2>1 DEF Filled, Done
<1>5. Out' = Out
  <2>1. \A r \in Readers : printed[r] = <<>> /\ printed'[r] = <<>>
    BY <1>1 DEF Fresh, Work
  <2> QED
    BY <2>1 DEF Out
<1> QED
  BY <1>2, <1>3, <1>4, <1>5 DEF Streams!Open, Source, Filled, Out

LEMMA StreamsFill ==
    ASSUME IInv, works = 1, NEW r \in Readers, TakeReadJob(r)
    PROVE  Streams!Fill(r)
<1>1. TypeInv /\ FirstRun
  BY DEF IInv
<1>2. /\ Active(r) /\ thread[r] = "recv" /\ Done(r) = offset - 1 /\ Done(r)' = offset
      /\ UNCHANGED <<mainVars, first_bank>>
      /\ \A q \in Readers \ {r} : UNCHANGED <<first_bank[q], thread[q]>>
  BY <1>1, ReadJob
<1>3. offset \in Nat
  BY <1>1 DEF TypeInv, TypeOK
<1>4. Source[r] # NoFile /\ Source' = Source
  BY <1>1, <1>2, FilesAssumption DEF Source, Active, TypeInv, TypeOK, Readers, mainVars
<1>5. Out' = Out
  BY <1>2 DEF Out, mainVars
<1>6. Filled' = [Filled EXCEPT ![r] = @ + 1]
  <2>1. \A q \in Readers \ {r} : Done(q)' = Done(q)
    BY <1>2 DEF Done
  <2>2. Done(r)' = Done(r) + 1
    BY <1>2, <1>3
  <2> HIDE DEF Done
  <2> QED
    BY <2>1, <2>2 DEF Filled
<1>7. Filled[r] < Len(Out[r]) + 2
  <2>1. Len(printed[r]) \in Nat /\ Len(printed[r]) >= offset - 2
    BY <1>1, <1>3 DEF FirstRun, Phase, TypeInv, TypeOK, FinishSent
  <2>2. Len(Out[r]) = Len(printed[r])
    BY <2>1 DEF Out
  <2> QED
    BY <1>2, <1>3, <2>1, <2>2 DEF Filled
<1> QED
  BY <1>4, <1>5, <1>6, <1>7 DEF Streams!Fill, Source, Filled, Out

LEMMA StreamsCopy ==
    ASSUME IInv, works = 1, process_writer, errs[iter] = 0, NEW s \in Readers, s = iter
    PROVE  Streams!Copy(s)
<1>1. TypeInv /\ FirstRun /\ pc = "write" /\ iter \in Readers
  <2>1. TypeInv /\ FirstRun
    BY DEF IInv
  <2>2. pc = "write"
    BY DEF process_writer
  <2>3. iter \in Readers
    BY <2>1, <2>2, NrAssumption DEF TypeInv, TypeOK, Readers
  <2> QED
    BY <2>1, <2>2, <2>3
<1>2. /\ offset \in Nat /\ offset >= 2
      /\ \A r \in Readers : /\ Len(printed[r]) >= offset - 2
                             /\ Len(printed[r]) \in Nat
                             /\ Got(r) = offset - 1
      /\ Len(printed[iter]) = offset - 2
  BY <1>1 DEF FirstRun, Phase, TypeInv, TypeOK, Readers
<1>3. Active(iter) /\ Done(iter) >= offset - 1 /\ Done(iter) \in Nat
  <2>1. Active(iter)
    BY <1>1 DEF FirstRun, Waiting
  <2> QED
    BY <1>1, <2>1, ActiveBounds
<1>4. \A r \in Readers : Len(Out[r]) = Len(printed[r])
  BY <1>2 DEF Out
<1>5. UNCHANGED <<filenames, first_bank, thread>> /\ works' = works /\ errs' = errs
  BY DEF process_writer, readerVars
<1>6. Source' = Source /\ Filled' = Filled
  BY <1>5 DEF Source, Filled, Done
<1> DEFINE b == bank[iter][get_bank(bank_read)]
<1>7. printed' = [printed EXCEPT ![iter] = Append(@, b)]
  BY DEF process_writer
<1> HIDE DEF b
<1>8. /\ printed[iter] \in Seq(EceBuffer) /\ b \in EceBuffer
      /\ printed'[iter] = Append(printed[iter], b)
      /\ \A r \in Readers \ {iter} : printed'[r] = printed[r]
  BY <1>1, <1>7 DEF TypeInv, TypeOK, b, get_bank, Banks
<1> DEFINE n == Len(printed[iter])
<1>9. /\ Len(printed'[iter]) = n + 1 /\ printed'[iter][n + 1] = b
      /\ \A j \in 1 .. n : printed'[iter][j] = printed[iter][j]
  BY <1>8
<1>10. iter < Len(filenames) /\ Payload(b) = Data(filenames[iter + 1], n + 1)
  <2>1. FirstRun'
    BY <1>1, WriteStep
  <2>2. Holds(printed'[iter][n + 1], filenames[iter + 1], n + 1)
    <3>1. n + 1 \in 1 .. Len(printed'[iter])
      BY <1>2, <1>9
    <3> QED
      BY <1>1, <1>5, <2>1, <3>1 DEF FirstRun, HandOff, Holds
  <2> QED
    BY <1>3, <1>9, <2>2, PayloadIsData DEF Active
<1>11. Out'[iter] = Append(Out[iter], Data(Source[iter], n + 1))
  <2>1. Source[iter] = filenames[iter + 1]
    BY <1>1, <1>10 DEF Source
  <2>2. Out'[iter] = [j \in 1 .. n + 1 |-> Payload(printed'[iter][j])]
    BY <1>1, <1>9 DEF Out
  <2>3. Out[iter] = [j \in 1 .. n |-> Payload(printed[iter][j])]
    BY <1>1 DEF Out
  <2> DEFINE p == [j \in 1 .. n |-> Payload(printed[iter][j])]
             t == [j \in 1 .. n + 1 |-> Payload(printed'[iter][j])]
             d == Data(filenames[iter + 1], n + 1)
             S == {d} \cup {Payload(printed[iter][j]) : j \in 1 .. n}
  <2>4. n \in Nat
    BY <1>1, <1>2
  <2>5. t[n + 1] = d /\ \A j \in 1 .. n : t[j] = p[j]
    BY <1>9, <1>10, <2>4
  <2>6. p \in Seq(S) /\ Len(p) = n
    BY <2>4
  <2>7. t \in Seq(S) /\ Len(t) = n + 1
    <3>1. \A j \in 1 .. n : t[j] = Payload(printed[iter][j])
      BY <2>4, <2>5
    <3>2. \A j \in 1 .. n + 1 : t[j] \in S
      <4> SUFFICES ASSUME NEW j \in 1 .. n + 1 PROVE t[j] \in S
        OBVIOUS
      <4>1. CASE j = n + 1
        BY <2>5, <4>1
      <4>2. CASE j \in 1 .. n
        BY <3>1, <4>2
      <4> QED
        BY <2>4, <4>1, <4>2
    <3>3. t = [j \in 1 .. n + 1 |-> t[j]] /\ n + 1 \in Nat
      BY <2>4
    <3> HIDE DEF t, S, n
    <3> QED
      BY <3>2, <3>3
  <2> HIDE DEF p, t, d, S, n
  <2>8. d \in S
    BY DEF S
  <2>9. Append(p, d) \in Seq(S) /\ Len(Append(p, d)) = n + 1
    BY <2>6, <2>8
  <2>10. \A j \in 1 .. n + 1 : t[j] = Append(p, d)[j]
    BY <2>4, <2>5, <2>6, <2>8
  <2>11. t = Append(p, d)
    BY <2>4, <2>7, <2>9, <2>10, SeqEqual
  <2> QED
    BY <2>1, <2>2, <2>3, <2>11 DEF p, t, d
<1>12. Out' = [Out EXCEPT ![iter] = Append(@, Data(Source[iter], Len(@) + 1))]
  <2>1. \A r \in Readers \ {iter} : Out'[r] = Out[r]
    BY <1>8 DEF Out
  <2>2. Len(Out[iter]) = n
    BY <1>1, <1>4
  <2>3. DOMAIN Out = Readers /\ DOMAIN Out' = Readers /\ Out = [r \in Readers |-> Out[r]]
        /\ Out' = [r \in Readers |-> Out'[r]]
    BY DEF Out
  <2> HIDE DEF Out, n
  <2> QED
    BY <1>1, <1>11, <2>1, <2>2, <2>3
<1>13. Len(Out[iter]) < Filled[iter] /\ \A r \in Readers : Len(Out[iter]) <= Len(Out[r])
  BY <1>1, <1>2, <1>3, <1>4 DEF Filled
<1> QED
  BY <1>6, <1>12, <1>13 DEF Streams!Copy, Source, Filled, Out

LEMMA StreamsStep ==
    ASSUME MaxWorks = 1, MaxErrors = 0, IInv, [Next]_vars
    PROVE  [Streams!Next]_(Streams!vars)
<1>1. TypeInv /\ works \in {0, 1} /\ \A r \in Readers : errs[r] = 0
  BY DEF IInv, TypeInv, TypeOK
<1>2. UNCHANGED <<filenames, printed, first_bank, thread>> => UNCHANGED Streams!vars
  BY DEF Streams!vars, Done
<1>3. ASSUME NEW fs \in FileLists, Work(fs) PROVE Streams!Next
  <2>1. works = 0
    BY <1>1, <1>3 DEF Work, readerVars
  <2> QED
    BY <1>3, <2>1, StreamsOpen DEF Streams!Next
<1>4. CASE process_writer
  <2>0. pc = "write"
    BY <1>4 DEF process_writer
  <2>1. works = 1
    BY <1>1, <2>0 DEF IInv, Fresh, FinishSent
  <2>2. iter \in Readers
    BY <1>1, <2>0, NrAssumption DEF TypeInv, TypeOK, Readers
  <2> QED
    <3> PICK s \in Readers : s = iter
      BY <2>2
    <3>1. Streams!Copy(s)
      BY <1>1, <1>4, <2>1, StreamsCopy
    <3> QED
      BY <3>1 DEF Streams!Next
<1>5. CASE wait_readers \/ SendNext \/ Drop \/ Join \/ UNCHANGED vars
  BY <1>2, <1>5 DEF wait_readers, SendNext, Drop, Join, vars, mainVars, readerVars
<1>6. ASSUME NEW r \in Readers, Reader(r) PROVE [Streams!Next]_(Streams!vars)
  <2>1. CASE ReaderRead(r) \/ ReaderReadError(r)
    <3>1. TakeReadJob(r)
      BY <2>1 DEF ReaderRead, ReaderReadError
    <3>2. works = 1
      <4>1. ASSUME Fresh PROVE FALSE
        <5>1. receiver[r] = <<F>>
          BY <3>1, <4>1 DEF Fresh, TakeReadJob, Receive
        <5> QED
          BY <3>1, <5>1, ShortQueues, Jobs DEF TakeReadJob, Job
      <4> QED
        BY <1>1, <4>1 DEF IInv
    <3> QED
      BY <3>1, <3>2, StreamsFill DEF Streams!Next
  <2>2. CASE ReaderIgnore(r)
    BY <1>2, <2>2 DEF ReaderIgnore, Receive, mainVars, readerVars
  <2>3. CASE ReaderAck(r)
    <3>1. \A q \in Readers : Done(q)' = Done(q)
      BY <1>1, <2>3 DEF ReaderAck, Done, TypeInv, TypeOK
    <3>2. UNCHANGED <<filenames, printed>>
      BY <2>3 DEF ReaderAck, mainVars
    <3> HIDE DEF Done
    <3> QED
      BY <3>1, <3>2 DEF Streams!vars
  <2>4. CASE ReaderFinish(r) \/ ReaderOpen(r)
    <3>1. thread[r] = "recv" /\ UNCHANGED <<filenames, printed, first_bank>>
      BY <2>4 DEF ReaderFinish, ReaderOpen, Receive, mainVars
    <3>2. \/ thread' = thread
          \/ thread' = [thread EXCEPT ![r] = "stopped"]
          \/ thread' = [thread EXCEPT ![r] = "panicked"]
      BY <2>4 DEF ReaderFinish, ReaderOpen
    <3>3. \A q \in Readers : Done(q)' = Done(q)
      BY <1>1, <3>1, <3>2 DEF Done, TypeInv, TypeOK
    <3> HIDE DEF Done
    <3> QED
      BY <3>1, <3>3 DEF Streams!vars
  <2> QED
    BY <1>6, <2>1, <2>2, <2>3, <2>4 DEF Reader
<1> QED
  BY <1>3, <1>4, <1>5, <1>6 DEF Next, Internal

(* One run of a worker whose reads succeed implements the chunk streams:   *)
(* the banks, the two kinds of channels and the anonymous acknowledgements *)
(* amount to a two-deep pipeline per file, in order and in lockstep.       *)
THEOREM FirstRunImplements ==
    ASSUME MaxWorks = 1, MaxErrors = 0
    PROVE  Spec => ImplementsStreams
<1>1. IInv /\ [Next]_vars => [Streams!Next]_(Streams!vars)
  BY StreamsStep
<1> QED
  BY <1>1, Invariance, StreamsInit, PTL DEF Spec, ImplementsStreams, Streams!Spec

----------------------------------------------------------------------------
(* What is left behind a short chunk.                                      *)

(* The chunks up to the j-th that went to the same bank and reach byte i,  *)
(* and what the bank therefore holds there.                                *)
Reaching(f, j, i) == {k \in 1 .. j : k % 2 = j % 2 /\ i <= ReadLen(f, k)}
Latest(f, j, i) ==
    IF Reaching(f, j, i) = {} THEN ZeroByte
    ELSE Byte(f, CHOOSE k \in Reaching(f, j, i) : \A m \in Reaching(f, j, i) : m <= k, i)

(* A chunk replaces what it reaches, and leaves the rest of the bank as    *)
(* the chunk before the last left it.                                      *)
LEMMA LatestStep ==
    ASSUME NEW f \in Files, NEW j \in Nat, j >= 1, NEW i \in 1 .. Capacity
    PROVE  Latest(f, j, i) = IF i <= ReadLen(f, j) THEN Byte(f, j, i) ELSE Latest(f, j - 2, i)
<1>1. CASE i <= ReadLen(f, j)
  <2>1. j \in Reaching(f, j, i) /\ \A m \in Reaching(f, j, i) : m \in Int /\ m <= j
    BY <1>1 DEF Reaching
  <2>2. (CHOOSE k \in Reaching(f, j, i) : \A m \in Reaching(f, j, i) : m <= k) = j
    <3> DEFINE c == CHOOSE k \in Reaching(f, j, i) : \A m \in Reaching(f, j, i) : m <= k
    <3>1. c \in Reaching(f, j, i) /\ \A m \in Reaching(f, j, i) : m <= c
      BY <2>1
    <3> HIDE DEF c
    <3>2. j <= c /\ c <= j /\ c \in Int
      BY <2>1, <3>1
    <3>3. c = j
      BY <3>2
    <3> QED
      BY <3>3 DEF c
  <2> QED
    BY <1>1, <2>1, <2>2 DEF Latest
<1>2. CASE ~(i <= ReadLen(f, j))
  <2>1. ASSUME NEW k \in 1 .. j, k % 2 = j % 2, i <= ReadLen(f, k)
        PROVE  k \in 1 .. j - 2 /\ k % 2 = (j - 2) % 2
    BY <1>2, <2>1
  <2>2. ASSUME NEW k \in 1 .. j - 2, k % 2 = (j - 2) % 2
        PROVE  k \in 1 .. j /\ k % 2 = j % 2
    BY <2>2
  <2>3. Reaching(f, j, i) = Reaching(f, j - 2, i)
    BY <2>1, <2>2 DEF Reaching
  <2> QED
    BY <1>2, <2>3 DEF Latest
<1> QED
  BY <1>1, <1>2

LEMMA LatestFirst ==
    ASSUME NEW f, NEW j \in {0, -1}, NEW i
    PROVE  Latest(f, j, i) = ZeroByte
<1>1. 1 .. j = {}
  OBVIOUS
<1> QED
  BY <1>1 DEF Latest, Reaching

(* The whole of a bank is what the chunks up to the j-th left there.       *)
LeftBy(b, f, j) == \A i \in 1 .. Capacity : b.buffer[i] = Latest(f, j, i)

BankTails ==
    \A r \in Readers : errs[r] = 0 =>
        /\ LeftBy(bank[r][(Done(r) + 1) % 2], filenames[r + 1], Done(r))
        /\ LeftBy(bank[r][Done(r) % 2], filenames[r + 1], Done(r) - 1)

PrintTails ==
    \A r \in Readers : errs[r] = 0 =>
        \A j \in 1 .. Len(printed[r]) : LeftBy(printed[r][j], filenames[r + 1], j)

TailInv == IInv /\ (works <= 1 => BankTails /\ PrintTails)

LEMMA FillLeaves ==
    ASSUME NEW b \in EceBuffer, NEW f \in Files, NEW k \in Nat \ {0}, LeftBy(b, f, k - 2)
    PROVE  LeftBy(FillBank(b, f, k), f, k)
<1>1. k \in Nat /\ k >= 1
  OBVIOUS
<1> SUFFICES ASSUME NEW i \in 1 .. Capacity
             PROVE  FillBank(b, f, k).buffer[i] = Latest(f, k, i)
  BY DEF LeftBy
<1>2. FillBank(b, f, k).buffer[i] = IF i <= ReadLen(f, k) THEN Byte(f, k, i) ELSE b.buffer[i]
  BY DEF FillBank
<1>3. b.buffer[i] = Latest(f, k - 2, i)
  BY DEF LeftBy
<1> QED
  BY <1>1, <1>2, <1>3, LatestStep

LEMMA TailInit == Init => TailInv
<1> SUFFICES ASSUME Init PROVE TailInv
  OBVIOUS
<1>1. ASSUME NEW r \in Readers
      PROVE  /\ bank[r] = [c \in Banks |-> EceBufferBank_new]
             /\ Done(r) = 0
             /\ printed[r] = <<>>
  BY DEF Init, Done
<1>2. ASSUME NEW f, NEW j \in {0, -1} PROVE LeftBy(EceBufferBank_new, f, j)
  BY LatestFirst DEF LeftBy, EceBufferBank_new
<1>3. BankTails
  BY <1>1, <1>2 DEF BankTails, Banks
<1>4. PrintTails
  BY <1>1 DEF PrintTails
<1> QED
  BY <1>3, <1>4, IInvInit DEF TailInv

(* The steps that neither read nor print.                                  *)
LEMMA TailStay ==
    ASSUME BankTails, PrintTails, UNCHANGED <<filenames, printed, bank>>,
           \A r \in Readers : errs'[r] = 0 => errs[r] = 0,
           \A r \in Readers : errs'[r] = 0 => Done(r)' = Done(r)
    PROVE  (BankTails /\ PrintTails)'
<1>1. ASSUME NEW r \in Readers, errs'[r] = 0
      PROVE  /\ LeftBy(bank'[r][(Done(r)' + 1) % 2], filenames'[r + 1], Done(r)')
             /\ LeftBy(bank'[r][Done(r)' % 2], filenames'[r + 1], Done(r)' - 1)
  BY <1>1 DEF BankTails
<1>2. BankTails'
  BY <1>1 DEF BankTails, LeftBy
<1>3. PrintTails'
  BY DEF PrintTails, LeftBy
<1> QED
  BY <1>2, <1>3

LEMMA TailRead ==
    ASSUME TypeInv, FirstRun, works = 1, BankTails, PrintTails, NEW r \in Readers, ReaderRead(r)
    PROVE  (BankTails /\ PrintTails)'
<1> DEFINE b == get_bank(first_bank[r])
           k == file[r].reads + 1
           chunk == FillBank(bank[r][b], file[r].name, k)
           filled == [bank[r] EXCEPT ![b] = chunk]
<1>1. TakeReadJob(r) /\ bank' = [bank EXCEPT ![r] = filled] /\ UNCHANGED errs
  BY DEF ReaderRead
<1>2. /\ Active(r) /\ Done(r) = offset - 1 /\ Done(r) = first_bank[r] /\ Done(r)' = offset
      /\ file[r] \in [name : Files, reads : Nat]
      /\ UNCHANGED <<mainVars, first_bank, listener>>
      /\ \A q \in Readers \ {r} : UNCHANGED <<listener[q], first_bank[q], receiver[q], thread[q]>>
  BY <1>1, ReadJob
<1>3. b \in Banks /\ first_bank[r] \in Nat /\ offset \in Nat /\ b = first_bank[r] % 2
  BY DEF get_bank, Banks, TypeInv, TypeOK
<1>4. bank \in [Readers -> [Banks -> EceBuffer]] /\ bank[r] \in [Banks -> EceBuffer] /\ bank[r][b] \in EceBuffer
  BY <1>3 DEF TypeInv, TypeOK
<1>5. UNCHANGED <<filenames, printed>> /\ \A q \in Readers \ {r} : Done(q)' = Done(q)
  BY <1>2 DEF mainVars, Done
<1>6. ASSUME errs[r] = 0
      PROVE  /\ LeftBy(chunk, filenames[r + 1], Done(r)')
             /\ k = Done(r)'
  <2>1. file[r].reads = Done(r) /\ file[r].name = filenames[r + 1]
    BY <1>2, <1>6 DEF Active, BanksHold
  <2>2. k = Done(r)' /\ k \in Nat \ {0} /\ k - 2 = Done(r) - 1
    BY <1>2, <1>3, <2>1
  <2>3. LeftBy(bank[r][b], filenames[r + 1], k - 2)
    BY <1>2, <1>3, <1>6, <2>2 DEF BankTails
  <2>4. filenames[r + 1] \in Files
    BY <1>2, <2>1
  <2> HIDE DEF b, k
  <2>5. LeftBy(FillBank(bank[r][b], filenames[r + 1], k), filenames[r + 1], k)
    BY <1>4, <2>2, <2>3, <2>4, FillLeaves
  <2>6. chunk = FillBank(bank[r][b], filenames[r + 1], k)
    BY <2>1
  <2> QED
    BY <2>2, <2>5, <2>6
<1> HIDE DEF chunk
<1>7. filled[b] = chunk /\ \A c \in Banks : c # b => filled[c] = bank[r][c]
  BY <1>3, <1>4
<1> HIDE DEF filled
<1>8. bank'[r] = filled /\ \A q \in Readers \ {r} : bank'[q] = bank[q]
  BY <1>1, <1>4
<1>9. ASSUME NEW q \in Readers, errs'[q] = 0
      PROVE  /\ LeftBy(bank'[q][(Done(q)' + 1) % 2], filenames'[q + 1], Done(q)')
             /\ LeftBy(bank'[q][Done(q)' % 2], filenames'[q + 1], Done(q)' - 1)
  <2>1. errs[q] = 0
    BY <1>1, <1>9
  <2>2. CASE q # r
    BY <1>5, <1>8, <2>1, <2>2 DEF BankTails
  <2>3. CASE q = r
    <3>1. LeftBy(bank[r][(Done(r) + 1) % 2], filenames[r + 1], Done(r))
      BY <2>1, <2>3 DEF BankTails
    <3>2. /\ (Done(r)' + 1) % 2 = b /\ Done(r)' % 2 = (Done(r) + 1) % 2
          /\ Done(r)' % 2 # b /\ Done(r)' % 2 \in Banks /\ Done(r)' - 1 = Done(r)
      BY <1>2, <1>3 DEF Banks
    <3>3. bank'[r][(Done(r)' + 1) % 2] = chunk /\ bank'[r][Done(r)' % 2] = bank[r][(Done(r) + 1) % 2]
      BY <1>7, <1>8, <3>2
    <3> QED
      BY <1>5, <1>6, <2>1, <2>3, <3>1, <3>2, <3>3
  <2> QED
    BY <2>2, <2>3
<1>10. BankTails'
  BY <1>9 DEF BankTails, LeftBy
<1>11. PrintTails'
  BY <1>1, <1>5 DEF PrintTails, LeftBy
<1> QED
  BY <1>10, <1>11

(* The bank that is printed holds chunk offset - 1, though the reader may  *)
(* have filled the other one by now.                                       *)
LEMMA TailWrite ==
    ASSUME TypeInv, FirstRun, works = 1, BankTails, PrintTails, process_writer
    PROVE  (BankTails /\ PrintTails)'
<1> DEFINE b == bank[iter][get_bank(bank_read)]
<1>1. /\ pc = "write" /\ printed' = [printed EXCEPT ![iter] = Append(@, b)]
      /\ UNCHANGED <<works, filenames, offset, receiver, listener, thread, file, first_bank, errs, bank>>
  BY DEF process_writer, readerVars
<1>2. iter \in Readers /\ offset \in Nat /\ offset >= 2 /\ bank_read = offset % 2
      /\ get_bank(bank_read) = offset % 2 /\ Len(printed[iter]) = offset - 2
  BY <1>1, NrAssumption DEF TypeInv, TypeOK, Readers, FirstRun, Phase, get_bank
<1>3. Done(iter) \in {offset - 1, offset}
  BY <1>1, <1>2 DEF FirstRun, Active, Waiting
<1>4. errs[iter] = 0 => LeftBy(b, filenames[iter + 1], offset - 1)
  <2> SUFFICES ASSUME errs[iter] = 0 PROVE LeftBy(b, filenames[iter + 1], offset - 1)
    OBVIOUS
  <2>1. CASE Done(iter) = offset - 1
    <3>1. LeftBy(bank[iter][(Done(iter) + 1) % 2], filenames[iter + 1], Done(iter))
      BY <1>2 DEF BankTails
    <3>2. (Done(iter) + 1) % 2 = offset % 2
      BY <1>2, <2>1
    <3> QED
      BY <1>2, <2>1, <3>1, <3>2
  <2>2. CASE Done(iter) = offset
    <3>1. LeftBy(bank[iter][Done(iter) % 2], filenames[iter + 1], Done(iter) - 1)
      BY <1>2 DEF BankTails
    <3> QED
      BY <1>2, <2>2, <3>1
  <2> QED
    BY <1>3, <2>1, <2>2
<1>5. b \in EceBuffer /\ printed \in [Readers -> Seq(EceBuffer)]
  BY <1>2 DEF TypeInv, TypeOK, get_bank, Banks
<1> HIDE DEF b
<1>6. /\ printed'[iter] = Append(printed[iter], b) /\ \A q \in Readers \ {iter} : printed'[q] = printed[q]
      /\ printed[iter] \in Seq(EceBuffer)
  BY <1>1, <1>2, <1>5
<1>7. ASSUME NEW q \in Readers, errs[q] = 0, NEW j \in 1 .. Len(printed'[q])
      PROVE  LeftBy(printed'[q][j], filenames[q + 1], j)
  <2>1. CASE q # iter
    BY <1>6, <1>7, <2>1 DEF PrintTails
  <2>2. CASE q = iter /\ j \in 1 .. Len(printed[iter])
    <3>1. printed'[q][j] = printed[q][j]
      BY <1>6, <2>2
    <3> QED
      BY <1>7, <2>2, <3>1 DEF PrintTails
  <2>3. CASE q = iter /\ j = offset - 1
    <3>1. printed'[q][j] = b
      BY <1>2, <1>6, <2>3
    <3> QED
      BY <1>4, <1>7, <2>3, <3>1
  <2>4. CASE q = iter /\ j \notin 1 .. Len(printed[iter])
    <3>1. j = offset - 1
      BY <1>2, <1>6, <1>7, <2>4
    <3> QED
      BY <2>3, <2>4, <3>1
  <2> QED
    BY <2>1, <2>2, <2>3, <2>4
<1>8. PrintTails'
  BY <1>1, <1>7 DEF PrintTails, LeftBy
<1>9. \A q \in Readers : Done(q)' = Done(q)
  BY <1>1 DEF Done
<1>10. BankTails'
  BY <1>1, <1>9 DEF BankTails, LeftBy
<1> QED
  BY <1>8, <1>10

LEMMA TailWork ==
    ASSUME TypeInv, Fresh, BankTails, NEW fs \in FileLists, Work(fs)
    PROVE  (BankTails /\ PrintTails)'
<1>1. /\ filenames' = fs /\ printed' = [r \in Readers |-> <<>>]
      /\ UNCHANGED <<thread, first_bank, errs, bank>>
  BY DEF Work, readerVars
<1>2. \A r \in Readers : Done(r) = 0 /\ Done(r)' = 0
  BY <1>1 DEF Fresh, Done
<1>3. ASSUME NEW c, NEW f, NEW g, NEW j \in {0, -1}, LeftBy(c, f, j) PROVE LeftBy(c, g, j)
  BY <1>3, LatestFirst DEF LeftBy
<1>4. ASSUME NEW r \in Readers, errs'[r] = 0
      PROVE  /\ LeftBy(bank'[r][(Done(r)' + 1) % 2], filenames'[r + 1], Done(r)')
             /\ LeftBy(bank'[r][Done(r)' % 2], filenames'[r + 1], Done(r)' - 1)
  <2>1. /\ LeftBy(bank[r][1], filenames[r + 1], 0)
        /\ LeftBy(bank[r][0], filenames[r + 1], -1)
    BY <1>1, <1>2, <1>4 DEF BankTails
  <2>2. LeftBy(bank[r][1], fs[r + 1], 0) /\ LeftBy(bank[r][0], fs[r + 1], -1)
    BY <1>3, <2>1
  <2> QED
    BY <1>1, <1>2, <2>2
<1>5. BankTails'
  BY <1>4 DEF BankTails, LeftBy
<1>6. PrintTails'
  BY <1>1 DEF PrintTails
<1> QED
  BY <1>5, <1>6

LEMMA TailStep == TailInv /\ [Next]_vars => TailInv'
<1> SUFFICES ASSUME TailInv, [Next]_vars, works' <= 1 PROVE (BankTails /\ PrintTails)'
  BY IInvStep DEF TailInv
<1>1. IInv /\ TypeInv /\ works \in Nat
  BY BoundAssumption DEF TailInv, IInv, TypeInv, TypeOK
<1>2. works' = works \/ (works' = works + 1 /\ \E fs \in FileLists : Work(fs))
  BY DEF Next, Internal, Reader, Work, wait_readers, SendNext, process_writer, Drop, Join, ReaderFinish,
         ReaderOpen, ReaderIgnore, ReaderRead, ReaderReadError, ReaderAck, TakeReadJob, Receive, vars, mainVars
<1>3. works \in {0, 1} /\ BankTails /\ PrintTails
  BY <1>1, <1>2 DEF TailInv
<1>4. works = 0 => Fresh
  BY <1>1 DEF IInv
<1>5. works = 1 => FirstRun
  BY <1>1 DEF IInv
<1>6. ASSUME NEW fs \in FileLists, Work(fs) PROVE (BankTails /\ PrintTails)'
  <2>1. works = 0
    BY <1>1, <1>3, <1>6 DEF Work
  <2> QED
    BY <1>1, <1>3, <1>4, <1>6, <2>1, TailWork
<1>7. ASSUME NEW r \in Readers, TakeReadJob(r) PROVE works = 1
  BY <1>3, <1>4, <1>7 DEF Fresh, TakeReadJob
<1>8. ASSUME NEW r \in Readers, ReaderRead(r) PROVE (BankTails /\ PrintTails)'
  BY <1>1, <1>3, <1>5, <1>7, <1>8, TailRead DEF ReaderRead
<1>9. CASE process_writer
  <2>1. works = 1
    BY <1>3, <1>4, <1>9 DEF Fresh, process_writer, FinishSent
  <2> QED
    BY <1>1, <1>3, <1>5, <1>9, <2>1, TailWrite
<1>10. ASSUME NEW r \in Readers, ReaderReadError(r) PROVE (BankTails /\ PrintTails)'
  <2>1. /\ TakeReadJob(r) /\ errs' = [errs EXCEPT ![r] = @ + 1] /\ UNCHANGED <<bank, file>>
        /\ thread' = [thread EXCEPT ![r] = "ack"]
        /\ UNCHANGED <<filenames, printed, first_bank>>
    BY <1>10 DEF ReaderReadError, TakeReadJob, Receive, mainVars
  <2>2. errs'[r] # 0 /\ \A q \in Readers \ {r} : errs'[q] = errs[q] /\ thread'[q] = thread[q]
    BY <1>1, <2>1 DEF TypeInv, TypeOK
  <2>3. \A q \in Readers : errs'[q] = 0 => errs[q] = 0 /\ Done(q)' = Done(q)
    BY <2>1, <2>2 DEF Done
  <2> QED
    BY <1>3, <2>1, <2>3, TailStay
<1>11. ASSUME NEW r \in Readers, ReaderAck(r) PROVE (BankTails /\ PrintTails)'
  <2>1. /\ thread[r] = "ack" /\ thread' = [thread EXCEPT ![r] = "recv"]
        /\ first_bank' = [first_bank EXCEPT ![r] = @ + 1]
        /\ UNCHANGED <<filenames, printed, bank, errs>>
    BY <1>11 DEF ReaderAck, mainVars
  <2>2. /\ thread'[r] = "recv" /\ first_bank'[r] = first_bank[r] + 1 /\ first_bank[r] \in Nat
        /\ \A q \in Readers \ {r} : thread'[q] = thread[q] /\ first_bank'[q] = first_bank[q]
    BY <1>1, <2>1 DEF TypeInv, TypeOK
  <2>3. \A q \in Readers : Done(q)' = Done(q)
    BY <2>1, <2>2 DEF Done
  <2> QED
    BY <1>3, <2>1, <2>3, TailStay
<1>12. ASSUME NEW r \in Readers, ReaderFinish(r) \/ ReaderOpen(r) \/ ReaderIgnore(r)
       PROVE  (BankTails /\ PrintTails)'
  <2>1. UNCHANGED <<filenames, printed, bank, errs, first_bank>> /\ thread[r] = "recv"
    BY <1>12 DEF ReaderFinish, ReaderOpen, ReaderIgnore, Receive, mainVars, readerVars
  <2>2. thread'[r] # "ack" /\ \A q \in Readers \ {r} : thread'[q] = thread[q]
    BY <1>1, <1>12, <2>1 DEF ReaderFinish, ReaderOpen, ReaderIgnore, readerVars, TypeInv, TypeOK
  <2>3. \A q \in Readers : Done(q)' = Done(q)
    BY <2>1, <2>2 DEF Done
  <2> QED
    BY <1>3, <2>1, <2>3, TailStay
<1>13. CASE wait_readers \/ SendNext \/ Drop \/ Join \/ UNCHANGED vars
  <2>1. UNCHANGED <<filenames, printed, bank, errs, first_bank, thread>>
    BY <1>13 DEF wait_readers, SendNext, Drop, Join, vars, mainVars, readerVars
  <2>2. \A q \in Readers : Done(q)' = Done(q)
    BY <2>1 DEF Done
  <2> QED
    BY <1>3, <2>1, <2>2, TailStay
<1> QED
  BY <1>6, <1>8, <1>9, <1>10, <1>11, <1>12, <1>13 DEF Next, Internal, Reader

(* Behind a short chunk process_writer prints what the latest long enough  *)
(* chunk of the same parity left in the bank, or the zeros it began with.  *)
THEOREM TailsStale == Spec => []StaleTail
<1>1. TailInv => StaleTail
  <2> SUFFICES ASSUME TailInv, works <= 1, NEW r \in Readers, errs[r] = 0, NEW j \in 1 .. Len(printed[r]),
                      NEW i \in printed[r][j].len + 1 .. Capacity
               PROVE  printed[r][j].buffer[i] = Latest(filenames[r + 1], j, i)
    BY DEF StaleTail, Latest, Reaching
  <2>1. printed[r] \in Seq(EceBuffer)
    BY DEF TailInv, IInv, TypeInv, TypeOK
  <2>2. printed[r][j] \in EceBuffer
    BY <2>1
  <2>3. printed[r][j].len \in Nat
    BY <2>2, CapacityAssumption DEF EceBuffer
  <2>4. i \in 1 .. Capacity
    BY <2>3, CapacityAssumption
  <2> QED
    BY <2>4 DEF TailInv, PrintTails, LeftBy
<1> QED
  BY <1>1, TailInit, TailStep, PTL DEF Spec

----------------------------------------------------------------------------
(* The number of rounds.                                                   *)

(* All chunks printed for the last reader were full, but for the one that  *)
(* ended work().                                                           *)
Rounds ==
    works = 1 =>
        /\ \A j \in 1 .. Len(printed[LastReader]) :
              \/ printed[LastReader][j].len = Capacity
              \/ /\ j = Len(printed[LastReader])
                 /\ pc \notin {"wait", "send", "write"}
        /\ pc = "idle" => printed[LastReader][Len(printed[LastReader])].len < Capacity

LEMMA RoundsStep == IInv /\ Rounds /\ [Next]_vars => Rounds'
<1> SUFFICES ASSUME IInv, Rounds, [Next]_vars, works' = 1 PROVE Rounds'
  BY DEF Rounds
<1>1. TypeInv /\ works \in Nat /\ LastReader \in Readers /\ Nr \in Nat
  <2>1. TypeInv /\ works \in Nat
    BY BoundAssumption DEF IInv, TypeInv, TypeOK
  <2>2. LastReader \in Readers /\ Nr \in Nat
    BY NrAssumption DEF LastReader, Readers
  <2> QED
    BY <2>1, <2>2
<1>2. ASSUME NEW fs \in FileLists, Work(fs) PROVE Rounds'
  <2>1. printed'[LastReader] = <<>> /\ pc' = "wait"
    BY <1>1, <1>2 DEF Work
  <2> QED
    BY <2>1 DEF Rounds
<1>3. CASE process_writer
  <2> DEFINE b == bank[iter][get_bank(bank_read)]
  <2>1. /\ pc = "write" /\ printed' = [printed EXCEPT ![iter] = Append(@, b)] /\ works' = works
        /\ pc' = IF iter = LastReader THEN (IF b.len < Capacity THEN "idle" ELSE "wait") ELSE "write"
    BY <1>3 DEF process_writer, EndOfWork
  <2>2. iter \in Readers /\ b \in EceBuffer /\ printed \in [Readers -> Seq(EceBuffer)]
    <3>1. iter \in Readers
      BY <1>1, <2>1 DEF TypeInv, TypeOK, Readers
    <3>2. get_bank(bank_read) \in Banks
      BY <1>1 DEF TypeInv, TypeOK, get_bank, Banks
    <3> QED
      BY <1>1, <3>1, <3>2 DEF TypeInv, TypeOK
  <2>3. b.len \in 0 .. Capacity
    BY <2>2 DEF EceBuffer
  <2> HIDE DEF b
  <2>4. \A j \in 1 .. Len(printed[LastReader]) : printed[LastReader][j].len = Capacity
    BY <2>1 DEF Rounds
  <2>5. CASE iter # LastReader
    <3>1. printed'[LastReader] = printed[LastReader] /\ pc' = "write"
      BY <1>1, <2>1, <2>2, <2>5
    <3> QED
      BY <2>4, <3>1 DEF Rounds
  <2>6. CASE iter = LastReader
    <3>1. printed'[LastReader] = Append(printed[LastReader], b) /\ printed[LastReader] \in Seq(EceBuffer)
      BY <1>1, <2>1, <2>2, <2>6
    <3>2. /\ Len(printed'[LastReader]) = Len(printed[LastReader]) + 1
          /\ printed'[LastReader][Len(printed'[LastReader])] = b
          /\ \A j \in 1 .. Len(printed[LastReader]) : printed'[LastReader][j] = printed[LastReader][j]
          /\ Len(printed[LastReader]) \in Nat
      BY <3>1
    <3>3. \A j \in 1 .. Len(printed'[LastReader]) :
              j \in 1 .. Len(printed[LastReader]) \/ j = Len(printed'[LastReader])
      BY <3>2
    <3>4. IF b.len < Capacity THEN pc' = "idle" ELSE b.len = Capacity /\ pc' = "wait"
      BY <2>1, <2>3, <2>6, CapacityAssumption
    <3> QED
      BY <2>4, <3>2, <3>3, <3>4 DEF Rounds
  <2> QED
    BY <2>5, <2>6
<1>4. CASE ~process_writer /\ \A fs \in FileLists : ~Work(fs)
  <2>1. UNCHANGED <<works, printed>>
    BY <1>4 DEF Next, Internal, Reader, wait_readers, SendNext, Drop, Join, ReaderFinish, ReaderOpen,
           ReaderIgnore, ReaderRead, ReaderReadError, ReaderAck, TakeReadJob, Receive, vars, mainVars
  <2>2. /\ pc \in {"wait", "send", "write"} => pc' \in {"wait", "send", "write"}
        /\ pc' = "idle" => pc = "idle"
        /\ pc' \in {"wait", "send", "write"} => pc \in {"wait", "send", "write"}
    BY <1>4 DEF Next, Internal, Reader, wait_readers, SendNext, Drop, Join, ReaderFinish, ReaderOpen,
           ReaderIgnore, ReaderRead, ReaderReadError, ReaderAck, TakeReadJob, Receive, vars, mainVars
  <2> QED
    BY <2>1, <2>2 DEF Rounds
<1> QED
  BY <1>2, <1>3, <1>4

(* A file of whole chunks takes one more, empty one.                       *)
LEMMA ChunksOfFile ==
    ASSUME NEW f \in Files, NEW n \in Nat \ {0}, Capacity > 0,
           \A j \in 1 .. n - 1 : ReadLen(f, j) = Capacity,
           ReadLen(f, n) < Capacity
    PROVE  n = FileLen[f] \div Capacity + 1
<1>1. PICK len \in Nat, c \in Nat \ {0} : len = FileLen[f] /\ c = Capacity
  BY FilesAssumption, CapacityAssumption
<1>2. len - (n - 1) * c < c
  BY <1>1 DEF ReadLen
<1>3. (n - 1) * c <= len
  <2>1. CASE n = 1
    BY <1>1, <2>1
  <2>2. CASE n > 1
    <3>1. ReadLen(f, n - 1) = Capacity /\ n - 2 \in Nat
      BY <2>2
    <3>2. (n - 1 - 1) * c + c = (n - 1) * c
      BY <1>1
    <3>3. ~(len - (n - 1 - 1) * c < c)
      BY <1>1, <3>1 DEF ReadLen
    <3> QED
      BY <1>1, <3>2, <3>3
  <2> QED
    BY <2>1, <2>2
<1>4. len \div c = n - 1
  <2> DEFINE m == len - (n - 1) * c
  <2>1. m \in 0 .. c - 1 /\ len = (n - 1) * c + m
    BY <1>1, <1>2, <1>3
  <2> HIDE DEF m
  <2> QED
    BY <1>1, <2>1
<1> QED
  BY <1>1, <1>4

(* A first run prints as many rounds of every file as the last reader's    *)
(* file needs, whatever the lengths of the others.                         *)
THEOREM RoundsCorrect == Spec => []RoundsFollowLastFile
<1>1. Init => Rounds
  BY DEF Init, Rounds
<1>2. IInv /\ Rounds => RoundsFollowLastFile
  <2> SUFFICES ASSUME IInv, Rounds, works = 1, pc = "idle", errs[LastReader] = 0, NEW r \in Readers
               PROVE  Len(printed[r]) = FileLen[filenames[Nr]] \div Capacity + 1
    BY DEF RoundsFollowLastFile
  <2> DEFINE n == offset - 1
             f == filenames[Nr]
  <2>1. TypeInv /\ FirstRun /\ LastReader \in Readers /\ LastReader + 1 = Nr
    BY NrAssumption DEF IInv, LastReader, Readers
  <2>2. offset \in Nat /\ offset >= 2 /\ \A q \in Readers : Len(printed[q]) = offset - 1
    BY <2>1 DEF FirstRun, Phase, TypeInv, TypeOK
  <2>3. Capacity > 0 /\ LastReader < Len(filenames)
    BY <2>1 DEF FirstRun, Active, Waiting
  <2>4. f \in Files
    BY <2>1, <2>3, NrAssumption DEF TypeInv, TypeOK, LastReader
  <2>5. \A j \in 1 .. n : printed[LastReader][j].len = ReadLen(f, j)
    BY <2>1, <2>2 DEF FirstRun, HandOff, Holds
  <2>6. n \in Nat \ {0} /\ Len(printed[LastReader]) = n /\ n \in 1 .. n
    BY <2>1, <2>2
  <2>7. (\A j \in 1 .. n - 1 : printed[LastReader][j].len = Capacity) /\ printed[LastReader][n].len < Capacity
    BY <2>6 DEF Rounds
  <2>8. (\A j \in 1 .. n - 1 : ReadLen(f, j) = Capacity) /\ ReadLen(f, n) < Capacity
    BY <2>5, <2>6, <2>7
  <2>9. Len(printed[r]) = n
    BY <2>2
  <2> HIDE DEF n, f
  <2>10. n = FileLen[f] \div Capacity + 1
    BY <2>3, <2>4, <2>6, <2>8, ChunksOfFile
  <2> QED
    BY <2>9, <2>10 DEF f
<1>3. IInv /\ Rounds /\ [Next]_vars => (IInv /\ Rounds)'
  BY IInvStep, RoundsStep
<1> QED
  BY <1>1, <1>2, <1>3, IInvInit, PTL DEF Spec
=============================================================================
