-------------------------- MODULE DoubleBuffering --------------------------
(***************************************************************************)
(* The double-buffered file copier EceWorker of                            *)
(* double_buffering/dblbuffering/src/lib.rs.                               *)
(*                                                                         *)
(* A caller's thread runs work(): it sends every reader thread a job, waits*)
(* until as many acknowledgements as there are readers have arrived, sends *)
(* the next batch of jobs, and prints one of the two banks of every reader *)
(* while the readers fill the other one.  Every reader owns a job channel  *)
(* and two banks; all readers share one acknowledgement channel.           *)
(*                                                                         *)
(* One action is one step of one thread between two synchronisation points.*)
(* The channels are unbounded and both ends of a job channel live in the   *)
(* worker, so a send neither blocks nor fails: the sends of one batch go to*)
(* different channels and are one step.  An acknowledgement's content is   *)
(* never looked at, so the shared channel is a number of pending           *)
(* acknowledgements per sender.                                            *)
(***************************************************************************)
EXTENDS Integers, Sequences, FiniteSets

CONSTANTS
    Nr,         \* nrs_readers: the number of reader threads
    Capacity,   \* bytes in a bank, and asked for by every job
    Files,      \* file names
    FileLen,    \* bytes in each file
    Missing,    \* the names File::open refuses
    FileLists,  \* the name vectors the caller may pass to work()
    NoFile,     \* Option::None for a file name, and the byte 0's origin
    MaxWorks,   \* bound: calls of work() on one worker
    MaxErrors   \* bound: failing reads of each reader

ASSUME NrAssumption       == Nr \in Nat \ {0}
ASSUME CapacityAssumption == Capacity \in Nat
ASSUME FilesAssumption    == FileLen \in [Files -> Nat] /\ NoFile \notin Files
ASSUME ListsAssumption    == FileLists \subseteq Seq(Files)
ASSUME BoundAssumption    == MaxWorks \in Nat /\ MaxErrors \in Nat

Readers == 0 .. Nr - 1
LastReader == Nr - 1
Banks == 0 .. 1

----------------------------------------------------------------------------
(* Bytes, banks and jobs                                                   *)

(* A byte is its origin: the i-th byte of the k-th chunk of a file, or the *)
(* 0 that vec![0; capacity] starts with.                                   *)
Byte(f, k, i) == <<f, k, i>>
ZeroByte == <<NoFile, 0, 0>>
Bytes == {ZeroByte} \cup (Files \X Nat \X (1 .. Capacity))

EceBuffer == [buffer : [1 .. Capacity -> Bytes], len : 0 .. Capacity]
EceBufferBank_new == [buffer |-> [i \in 1 .. Capacity |-> ZeroByte], len |-> 0]

(* Fault: a single bank.                                                   *)
get_bank_single(bank_id) == 0
get_bank(bank_id) == bank_id % 2

(* Jobs; the field offset is left out, no reader looks at it.              *)
EceJob == [len : 0 .. Capacity, finished : BOOLEAN, filename : Files \cup {NoFile}]
OpenJob(f) == [len |-> 0, finished |-> FALSE, filename |-> f]
WorkJob(fin) == [len |-> Capacity, finished |-> fin, filename |-> NoFile]

(* External: what the k-th File::read of a regular file returns when every *)
(* read asks for Capacity bytes.                                           *)
ReadLen(f, k) ==
    LET left == FileLen[f] - (k - 1) * Capacity
    IN  IF left < 0 THEN 0 ELSE IF left > Capacity THEN Capacity ELSE left

(* The file a reader has open and the number of reads done on it.          *)
NoHandle == [name |-> NoFile, reads |-> 0]
Handles == {NoHandle} \cup [name : Files, reads : Nat]

----------------------------------------------------------------------------
VARIABLES
    \* the thread that owns the worker
    pc,          \* where it is: see TypeOK
    works,       \* calls of work() so far
    filenames,   \* argument of the last work()
    offset,      \* work()'s offset, in units of Capacity: batches sent
    bank_read,   \* work()'s bank_read
    job_done,    \* wait_readers()'s job_done
    iter,        \* loop position of process_writer() and of drop()
    printed,     \* per reader, the banks the last work() has printed
    \* channels
    receiver,    \* per reader, the jobs in its channel
    listener,    \* per reader, its acknowledgements in the shared channel
    \* the reader threads
    thread,      \* "recv", "ack", "stopped" or "panicked"
    file,        \* f
    first_bank,  \* first_bank
    errs,        \* failed reads so far
    bank         \* the two banks

mainVars == <<pc, works, filenames, offset, bank_read, job_done, iter, printed>>
readerVars == <<thread, file, first_bank, errs, bank>>
vars == <<mainVars, receiver, listener, readerVars>>

TypeOK ==
    /\ pc \in {"idle", "wait", "send", "write", "join", "done", "panicked"}
    /\ works \in 0 .. MaxWorks
    /\ filenames \in Seq(Files)
    /\ offset \in Nat
    /\ bank_read \in Banks
    /\ job_done \in 0 .. Nr
    /\ iter \in 0 .. Nr
    /\ printed \in [Readers -> Seq(EceBuffer)]
    /\ receiver \in [Readers -> Seq(EceJob)]
    /\ listener \in [Readers -> Nat]
    /\ thread \in [Readers -> {"recv", "ack", "stopped", "panicked"}]
    /\ file \in [Readers -> Handles]
    /\ first_bank \in [Readers -> Nat]
    /\ errs \in [Readers -> 0 .. MaxErrors]
    /\ bank \in [Readers -> [Banks -> EceBuffer]]

(* EceWorker::new: the channels, the banks and the spawned threads.        *)
Init ==
    /\ pc = "idle"
    /\ works = 0
    /\ filenames = <<>>
    /\ offset = 0
    /\ bank_read = 0
    /\ job_done = 0
    /\ iter = 0
    /\ printed = [r \in Readers |-> <<>>]
    /\ receiver = [r \in Readers |-> <<>>]
    /\ listener = [r \in Readers |-> 0]
    /\ thread = [r \in Readers |-> "recv"]
    /\ file = [r \in Readers |-> NoHandle]
    /\ first_bank = [r \in Readers |-> 0]
    /\ errs = [r \in Readers |-> 0]
    /\ bank = [r \in Readers |-> [b \in Banks |-> EceBufferBank_new]]

----------------------------------------------------------------------------
(* The owner's thread                                                      *)

(* The job channels after the sends of open_files(): the names are zipped  *)
(* with the readers, so surplus names and surplus readers get nothing.     *)
open_files(q, fs) ==
    [r \in Readers |-> IF r < Len(fs) THEN Append(q[r], OpenJob(fs[r + 1])) ELSE q[r]]

(* The job channels after the sends of send_work().                        *)
send_work(q, fin) == [r \in Readers |-> Append(q[r], WorkJob(fin))]

(* work() up to its loop.                                                  *)
Work(fs) ==
    /\ pc = "idle"
    /\ works < MaxWorks
    /\ works' = works + 1
    /\ filenames' = fs
    /\ bank_read' = 0
    /\ receiver' = send_work(open_files(receiver, fs), FALSE)
    /\ offset' = 1
    /\ printed' = [r \in Readers |-> <<>>]
    /\ job_done' = 0
    /\ pc' = "wait"
    /\ UNCHANGED <<iter, listener, readerVars>>

(* The loop of wait_readers() is left at the Nr-th acknowledgement.        *)
(* Fault: it leaves one too early.                                         *)
AllAcked_early(n) == n >= Nr - 1
AllAcked(n) == n = Nr

(* One turn of wait_readers()'s loop.                                      *)
wait_readers ==
    /\ pc = "wait"
    /\ \E r \in Readers :
          /\ listener[r] > 0
          /\ listener' = [listener EXCEPT ![r] = @ - 1]
    /\ job_done' = job_done + 1
    /\ pc' = IF AllAcked(job_done') THEN "send" ELSE "wait"
    /\ UNCHANGED <<works, filenames, offset, bank_read, iter, printed, receiver, readerVars>>

(* The send_work() of work()'s loop.                                       *)
SendNext ==
    /\ pc = "send"
    /\ receiver' = send_work(receiver, FALSE)
    /\ offset' = offset + 1
    /\ iter' = 0
    /\ pc' = "write"
    /\ UNCHANGED <<works, filenames, bank_read, job_done, printed, listener, readerVars>>

(* Fault: the bank number is not kept in 0 .. 1.                           *)
NextBank_unmasked(b) == b + 1
NextBank(b) == (b + 1) % 2

(* work() ends after a short chunk.  Fault: after a full one too.          *)
EndOfWork_full(len) == len <= Capacity
EndOfWork(len) == len < Capacity

(* One turn of process_writer()'s loop, under the bank's lock; the last one *)
(* flips the bank and decides on the length of the last reader's bank      *)
(* whether work() goes on.                                                 *)
process_writer ==
    LET b == bank[iter][get_bank(bank_read)]
        last == iter = LastReader
    IN  /\ pc = "write"
        /\ printed' = [printed EXCEPT ![iter] = Append(@, b)]
        /\ iter' = iter + 1
        /\ bank_read' = IF last THEN NextBank(bank_read) ELSE bank_read
        /\ job_done' = IF last THEN 0 ELSE job_done
        /\ pc' = IF last THEN (IF EndOfWork(b.len) THEN "idle" ELSE "wait") ELSE "write"
        /\ UNCHANGED <<works, filenames, offset, receiver, listener, readerVars>>

(* drop() up to its loop.  Fault: the readers are not told to finish.      *)
Drop_silent ==
    /\ pc = "idle"
    /\ receiver' = send_work(receiver, FALSE)
    /\ iter' = 0
    /\ pc' = "join"
    /\ UNCHANGED <<works, filenames, offset, bank_read, job_done, printed, listener, readerVars>>
Drop ==
    /\ pc = "idle"
    /\ receiver' = send_work(receiver, TRUE)
    /\ iter' = 0
    /\ pc' = "join"
    /\ UNCHANGED <<works, filenames, offset, bank_read, job_done, printed, listener, readerVars>>

(* One turn of drop()'s loop: join() hands over a reader's panic, which    *)
(* expect() turns into a panic of the owner.                               *)
Join ==
    /\ pc = "join"
    /\ \/ /\ thread[iter] = "stopped"
          /\ iter' = iter + 1
          /\ pc' = IF iter = LastReader THEN "done" ELSE "join"
       \/ /\ thread[iter] = "panicked"
          /\ pc' = "panicked"
          /\ UNCHANGED iter
    /\ UNCHANGED <<works, filenames, offset, bank_read, job_done, printed,
                   receiver, listener, readerVars>>

----------------------------------------------------------------------------
(* A reader thread: one turn of its loop, in two steps when it reads.      *)

Job(r) == Head(receiver[r])

Receive(r) ==
    /\ thread[r] = "recv"
    /\ receiver[r] # <<>>
    /\ receiver' = [receiver EXCEPT ![r] = Tail(@)]
    /\ UNCHANGED <<mainVars, listener>>

ReaderFinish(r) ==
    /\ Receive(r)
    /\ Job(r).finished
    /\ thread' = [thread EXCEPT ![r] = "stopped"]
    /\ UNCHANGED <<file, first_bank, errs, bank>>

(* A job with a name has length 0: the reader opens and waits again, or    *)
(* panics.                                                                 *)
ReaderOpen(r) ==
    /\ Receive(r)
    /\ ~Job(r).finished
    /\ Job(r).filename # NoFile
    /\ \/ /\ Job(r).filename \notin Missing
          /\ file' = [file EXCEPT ![r] = [name |-> Job(r).filename, reads |-> 0]]
          /\ UNCHANGED thread
       \/ /\ Job(r).filename \in Missing
          /\ thread' = [thread EXCEPT ![r] = "panicked"]
          /\ UNCHANGED file
    /\ UNCHANGED <<first_bank, errs, bank>>

(* A job of length 0, or no file was ever opened: no acknowledgement.      *)
ReaderIgnore(r) ==
    /\ Receive(r)
    /\ ~Job(r).finished
    /\ Job(r).filename = NoFile
    /\ Job(r).len = 0 \/ file[r] = NoHandle
    /\ UNCHANGED readerVars

(* The closure under the bank's lock: read() fills the front of the bank   *)
(* and leaves the rest of it as it was; a failed read leaves all of it.    *)
FillBank(b, f, k) ==
    [buffer |-> [i \in 1 .. Capacity |-> IF i <= ReadLen(f, k) THEN Byte(f, k, i)
                                     ELSE b.buffer[i]],
     len    |-> ReadLen(f, k)]

TakeReadJob(r) ==
    /\ Receive(r)
    /\ ~Job(r).finished
    /\ Job(r).filename = NoFile
    /\ Job(r).len # 0 /\ file[r] # NoHandle
    /\ thread' = [thread EXCEPT ![r] = "ack"]
    /\ UNCHANGED first_bank

ReaderRead(r) ==
    /\ TakeReadJob(r)
    /\ LET b == get_bank(first_bank[r])
           k == file[r].reads + 1
           filled == [bank[r] EXCEPT ![b] = FillBank(bank[r][b], file[r].name, k)]
       IN  /\ bank' = [bank EXCEPT ![r] = filled]
           /\ file' = [file EXCEPT ![r] = [name |-> file[r].name, reads |-> k]]
    /\ UNCHANGED errs

ReaderReadError(r) ==
    /\ TakeReadJob(r)
    /\ errs[r] < MaxErrors
    /\ errs' = [errs EXCEPT ![r] = @ + 1]
    /\ UNCHANGED <<bank, file>>

(* The acknowledgement is sent once the bank is unlocked.  Faults: the     *)
(* reader stays on its bank; the end of the file is not acknowledged.      *)
ReaderAck_sameBank(r) ==
    /\ thread[r] = "ack"
    /\ listener' = [listener EXCEPT ![r] = @ + 1]
    /\ thread' = [thread EXCEPT ![r] = "recv"]
    /\ UNCHANGED <<mainVars, receiver, file, first_bank, errs, bank>>
ReaderAck_notAtEnd(r) ==
    /\ thread[r] = "ack"
    /\ listener' = [listener EXCEPT ![r] =
                       IF bank[r][get_bank(first_bank[r])].len > 0 THEN @ + 1 ELSE @]
    /\ first_bank' = [first_bank EXCEPT ![r] = @ + 1]
    /\ thread' = [thread EXCEPT ![r] = "recv"]
    /\ UNCHANGED <<mainVars, receiver, file, errs, bank>>
ReaderAck(r) ==
    /\ thread[r] = "ack"
    /\ listener' = [listener EXCEPT ![r] = @ + 1]
    /\ first_bank' = [first_bank EXCEPT ![r] = @ + 1]
    /\ thread' = [thread EXCEPT ![r] = "recv"]
    /\ UNCHANGED <<mainVars, receiver, file, errs, bank>>

----------------------------------------------------------------------------
Reader(r) ==
    \/ ReaderFinish(r)
    \/ ReaderOpen(r)
    \/ ReaderIgnore(r)
    \/ ReaderRead(r)
    \/ ReaderReadError(r)
    \/ ReaderAck(r)

(* What the owner's thread does once the caller has called work() or       *)
(* dropped the worker.                                                     *)
Internal == wait_readers \/ SendNext \/ process_writer \/ Join

Next ==
    \/ \E fs \in FileLists : Work(fs)
    \/ Drop
    \/ Internal
    \/ \E r \in Readers : Reader(r)

Spec == Init /\ [][Next]_vars

(* The scheduler runs every thread that can run; nothing makes the caller  *)
(* call.                                                                   *)
FairSpec == Spec /\ WF_vars(Internal) /\ \A r \in Readers : WF_vars(Reader(r))

----------------------------------------------------------------------------
(* Properties                                                              *)

(* The front of a bank is the k-th chunk of file f.                        *)
Holds(b, f, k) ==
    /\ b.len = ReadLen(f, k)
    /\ \A i \in 1 .. b.len : b.buffer[i] = Byte(f, k, i)

(* Reads a reader has done, its acknowledgement on its way included.       *)
Done(r) == first_bank[r] + (IF thread[r] = "ack" THEN 1 ELSE 0)

(* The hand-off through the banks is right in a worker's first run: what   *)
(* process_writer prints in round j for a reader is chunk j of that        *)
(* reader's file, although the acknowledgements it was released by carry   *)
(* neither a reader nor a round.  A reader whose reads failed is excepted; *)
(* the failures of another reader do not matter.                           *)
HandOff ==
    works <= 1 =>
        \A r \in Readers : errs[r] = 0 =>
            \A j \in 1 .. Len(printed[r]) :
                /\ r < Len(filenames)
                /\ Holds(printed[r][j], filenames[r + 1], j)

(* The same demand on every run of a worker.                               *)
EveryRunHandsOff ==
    \A r \in Readers : errs[r] = 0 =>
        \A j \in 1 .. Len(printed[r]) :
            /\ r < Len(filenames)
            /\ Holds(printed[r][j], filenames[r + 1], j)

(* process_writer prints the whole bank, not its first len bytes: behind a *)
(* short chunk it prints what the latest long enough chunk of the same     *)
(* parity left there, or the initial zeros, and nothing else.              *)
StaleTail ==
    works <= 1 =>
        \A r \in Readers : errs[r] = 0 =>
            \A j \in 1 .. Len(printed[r]) :
                \A i \in printed[r][j].len + 1 .. Capacity :
                    LET f    == filenames[r + 1]
                        left == {k \in 1 .. j : k % 2 = j % 2 /\ i <= ReadLen(f, k)}
                    IN  printed[r][j].buffer[i] =
                          IF left = {} THEN ZeroByte
                          ELSE Byte(f, CHOOSE k \in left : \A m \in left : m <= k, i)

(* process_writer returns the length of the last reader's bank only: the   *)
(* first run prints as many rounds of every file as the last file needs,   *)
(* whatever the lengths of the others and however the readers interleave.  *)
RoundsFollowLastFile ==
    (works = 1 /\ pc = "idle" /\ errs[LastReader] = 0) =>
        \A r \in Readers :
            Len(printed[r]) = FileLen[filenames[Nr]] \div Capacity + 1

(* While the owner prints, no reader touches the bank being printed: the   *)
(* two sides of the double buffer are never on the same bank.              *)
WriterOwnsBank ==
    [][(works <= 1 /\ pc = "write") =>
          \A r \in Readers : bank'[r][get_bank(bank_read)] = bank[r][get_bank(bank_read)]]_vars

(* No reader can run and no acknowledgement is pending.                    *)
NothingInFlight ==
    \A r \in Readers :
        /\ listener[r] = 0
        /\ thread[r] # "ack"
        /\ thread[r] = "recv" => receiver[r] = <<>>

(* The owner waits for an acknowledgement that cannot come: a reader was   *)
(* never given a file or has panicked, or jobs have length 0.              *)
StuckWithoutFile ==
    /\ pc = "wait"
    /\ NothingInFlight
    /\ \/ Capacity = 0
       \/ \E r \in Readers : file[r] = NoHandle \/ thread[r] = "panicked"

(* Every call of work() returns, or ends stuck for one of these reasons    *)
(* and no other: failing reads, short files, names too many and a second   *)
(* run never make wait_readers miss an acknowledgement.                    *)
WorkReturns == pc = "wait" ~> (pc = "idle" \/ StuckWithoutFile)

(* The test's demand: every call of work() returns.                        *)
EveryWorkReturns == pc = "wait" ~> pc = "idle"

(* drop() ends: every reader leaves its loop, whatever is still queued.    *)
DropReturns == pc = "join" ~> pc \in {"done", "panicked"}

----------------------------------------------------------------------------
(* The promise: one stream of chunks per reader, handed over in order.     *)

Data(f, k) == [i \in 1 .. ReadLen(f, k) |-> Byte(f, k, i)]
Payload(b) == [i \in 1 .. b.len |-> b.buffer[i]]

Streams == INSTANCE ChunkStreams WITH
    Streams <- Readers, Sources <- Files, None <- NoFile, Depth <- 2, Chunk <- Data,
    source <- [r \in Readers |-> IF r < Len(filenames) THEN filenames[r + 1] ELSE NoFile],
    filled <- [r \in Readers |-> Done(r)],
    out    <- [r \in Readers |-> [j \in 1 .. Len(printed[r]) |-> Payload(printed[r][j])]]

(* The first run of a worker implements the chunk streams: banks, channels *)
(* and acknowledgements are a two-deep pipeline that loses, duplicates and *)
(* reorders nothing and keeps the files in lockstep.                       *)
ImplementsStreams == Streams!Spec
=============================================================================
