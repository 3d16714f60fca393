------------------------------ MODULE Conduct ------------------------------
(***************************************************************************)
(* conduct.c: a byte queue in shared memory.  One process-shared mutex     *)
(* protects a circular buffer, readers that find it empty sleep on         *)
(* conditionRead, writers that find no room sleep on conditionWrite.       *)
(*                                                                         *)
(* A call is a sequence of rounds.  A round is one critical section and    *)
(* moves at most sizeAtom bytes; only the first round may block, the later *)
(* ones take the mutex with trylock and end the call with a short count    *)
(* when they find it taken or nothing to do.                               *)
(*                                                                         *)
(* A critical section is one action: everything it touches is protected by *)
(* the mutex, except isEOF, which a write call also reads before it locks  *)
(* (Enter) and which a critical section assigns at most once.              *)
(***************************************************************************)
EXTENDS CircularBuffer, Sequences, FiniteSets

CONSTANTS
  Proc,     \* threads (of any process that maps the conduit)
  Calls,    \* Calls[p]: the calls thread p may make
  Stamps,   \* bytes of a thread are numbered modulo Stamps
  Garbage,  \* a byte nobody handed to write: zero fill, or memory past an iovec
  Free,     \* the mutex is not held
  NoCall,   \* the thread is not inside the library
  Looping   \* threads that call again and again (only FairSpec looks at it)

Ops == {"read", "write", "write_eof"}

\* The public functions are the choices of op and nb: conduct_read,
\* conduct_read_nb, conduct_readv, and so on.  count is the sum of the iovec.
CallRecord == [op : Ops, nb : BOOLEAN, count : Nat]

ASSUME ConductAssumption ==
  /\ Calls \in [Proc -> SUBSET CallRecord]
  /\ \A p \in Proc : \A c \in Calls[p] : c.op = "write_eof" => c.count = 1
  /\ Stamps \in Nat \ {0}
  /\ Free   \notin Proc
  /\ NoCall \notin CallRecord
  /\ Looping \subseteq Proc

\* A byte carries the thread that wrote it and its place in the stream of
\* the bytes of that thread.
Byte == (Proc \X (0 .. Stamps - 1)) \cup {Garbage}

VARIABLES
  (* struct content, in the shared mapping *)
  mutex,    \* the thread that holds content.mutex, or Free
  start,    \* where readers read
  end,      \* where writers write
  isEOF,
  isEmpty,
  buf,      \* the cells of the buffer
  (* the stack of each thread *)
  pc,       \* where it is; waitRead and waitWrite are the condition queues
  call,     \* the call it is in, or NoCall
  data,     \* its struct dataCirularBuffer
  (* what the environment of a thread sees *)
  stamp,    \* number of its bytes that went into the conduit, modulo Stamps
  ret       \* value and errno of its last call

shared == <<start, end, isEOF, isEmpty, buf>>
vars   == <<mutex, shared, pc, call, data, stamp, ret>>

-----------------------------------------------------------------------------
PCs == {"idle",       \* outside the library
        "lock",       \* about to lock (or, in non-blocking mode, trylock)
        "section",    \* holds the mutex
        "waitRead",   \* in pthread_cond_wait(conditionRead)
        "waitWrite",  \* in pthread_cond_wait(conditionWrite)
        "relock",     \* woken, must have the mutex back before it goes on
        "unlocked",   \* after a round, mutex released
        "crashed"}    \* killed by a wild access, whatever it held stays held

\* struct dataCirularBuffer data = { 0 }, with the bytes of the caller's
\* iovec: what is to be written, or what was read so far.  The fields that
\* every round computes anew are values of that round, not kept here.
NewData(bytes) ==
  [passByMiddle |-> FALSE, secondLimitLoop |-> 0,
   sizeReallyManipulate |-> 0, bytes |-> bytes]

NoData == NewData(<<>>)
NoRet  == [val |-> 0, errno |-> "none"]

Result(v, e) == [val |-> v, errno |-> e]
Error(e)     == Result(-1, e)
Success(v)   == Result(v, "ok")

Init ==
  /\ mutex   = Free
  /\ start   = 0
  /\ end     = 0
  /\ isEOF   = FALSE
  /\ isEmpty = TRUE
  /\ buf     = [c \in Index |-> Garbage]
  /\ pc      = [p \in Proc |-> "idle"]
  /\ call    = [p \in Proc |-> NoCall]
  /\ data    = [p \in Proc |-> NoData]
  /\ stamp   = [p \in Proc |-> 0]
  /\ ret     = [p \in Proc |-> NoRet]

-----------------------------------------------------------------------------
(* Helpers: leaving the library, and pthread_cond_signal.                  *)

sizeDone(p) == data[p].sizeReallyManipulate
rest(p)     == call[p].count - sizeDone(p)
retry(p)    == sizeDone(p) > 0   \* `retry' is set after a round, which moves at least a byte

\* The frame of the call is gone; what remains are the bytes that went in.
LeaveWith(p, result) ==
  /\ ret'   = [ret EXCEPT ![p] = result]
  /\ call'  = [call EXCEPT ![p] = NoCall]
  /\ data'  = [data EXCEPT ![p] = NoData]
  /\ stamp' = IF call[p].op = "write"
              THEN [stamp EXCEPT ![p] = (@ + sizeDone(p)) % Stamps]
              ELSE stamp

Return(p, result) ==
  /\ pc' = [pc EXCEPT ![p] = "idle"]
  /\ LeaveWith(p, result)

\* Mutant of Unlock: a path that returns without pthread_mutex_unlock.
UnlockForgotten == mutex' = mutex

\* pthread_mutex_unlock, or the release inside pthread_cond_wait.
Unlock == mutex' = Free

Waiters(queue) == {q \in Proc : pc[q] = queue}

\* Mutant of Signalled: the call of pthread_cond_signal is missing.
SignalForgotten(queue) == {{}}

\* pthread_cond_signal wakes one waiter, whichever, and does nothing when
\* there is none.
Signalled(queue) ==
  IF Waiters(queue) = {} THEN {{}} ELSE {{q} : q \in Waiters(queue)}

\* p goes to `to', the woken threads go and compete for the mutex.
Advance(p, to, woken) ==
  pc' = [q \in Proc |-> IF q = p THEN to
                        ELSE IF q \in woken THEN "relock" ELSE pc[q]]

-----------------------------------------------------------------------------
(* Entry of a call and the mutex.                                          *)

\* The bytes that thread p hands to a write of n bytes.
Payload(p, n) == [i \in 1 .. n |-> <<p, (stamp[p] + i - 1) % Stamps>>]

\* Refused before the mutex is touched: a write finds isEOF (return 0), or
\* init_dataCirularBuffer finds nothing to transfer (EINVAL).
Refuse(p, c) ==
  /\ pc[p] = "idle"
  /\ c \in Calls[p]
  /\ \/ /\ c.op # "read" /\ isEOF
        /\ ret' = [ret EXCEPT ![p] = Success(0)]
     \/ /\ ~(c.op # "read" /\ isEOF)
        /\ c.count = 0
        /\ ret' = [ret EXCEPT ![p] = Error("EINVAL")]
  /\ UNCHANGED <<mutex, shared, pc, call, data, stamp>>

Enter(p, c) ==
  /\ pc[p] = "idle"
  /\ c \in Calls[p]
  /\ ~(c.op # "read" /\ isEOF)
  /\ c.count > 0
  /\ pc'   = [pc EXCEPT ![p] = "lock"]
  /\ call' = [call EXCEPT ![p] = c]
  /\ data' = [data EXCEPT ![p] =
                NewData(IF c.op = "write" THEN Payload(p, c.count) ELSE <<>>)]
  /\ ret'  = [ret EXCEPT ![p] = NoRet]
  /\ UNCHANGED <<mutex, shared, stamp>>

\* pthread_mutex_lock, a trylock that succeeds, or the return of
\* pthread_cond_wait.
Acquire(p) ==
  /\ \/ pc[p] \in {"lock", "relock"}
     \/ pc[p] = "unlocked" /\ rest(p) > 0
  /\ mutex = Free
  /\ mutex' = p
  /\ pc'    = [pc EXCEPT ![p] = "section"]
  /\ UNCHANGED <<shared, call, data, stamp, ret>>

\* The trylock of a non-blocking call fails.
TryLockBusy(p) ==
  /\ pc[p] = "lock"
  /\ call[p].nb
  /\ mutex # Free
  /\ Return(p, Error("EWOULDBLOCK"))
  /\ UNCHANGED <<mutex, shared>>

\* The trylock before a further round fails: short count.
RetryBusy(p) ==
  /\ pc[p] = "unlocked"
  /\ rest(p) > 0
  /\ mutex # Free
  /\ Return(p, Success(sizeDone(p)))
  /\ UNCHANGED <<mutex, shared>>

\* Everything was transferred.
Finish(p) ==
  /\ pc[p] = "unlocked"
  /\ rest(p) <= 0
  /\ Return(p, Success(sizeDone(p)))
  /\ UNCHANGED <<mutex, shared>>

\* POSIX lets pthread_cond_wait return without a signal.
SpuriousWakeup(p) ==
  /\ pc[p] \in {"waitRead", "waitWrite"}
  /\ pc' = [pc EXCEPT ![p] = "relock"]
  /\ UNCHANGED <<mutex, shared, call, data, stamp, ret>>

\* Mutant of PassForNextRound: the reset before the retry is missing.
PassKept(pass) == pass

\* The flag is reset before `goto retry_it'.
PassForNextRound(pass) == FALSE

-----------------------------------------------------------------------------
(* Critical section of conduct_write_v_flag.                               *)

Inside(p, op) == pc[p] = "section" /\ call[p].op = op

writeSize(p) == SizeOfRound(rest(p))
writePass(p) ==
  WritePasses(start, end, isEmpty, writeSize(p), data[p].passByMiddle)
\* Mutant of noRoom: a writer goes on as soon as the buffer is not full.
noRoomWhenFull(p) == end = start /\ ~isEmpty

noRoom(p) ==
  \/ end = start /\ ~isEmpty
  \/ writeSize(p) > WriteAvailable(start, end, isEmpty)

WriteEof(p) ==
  /\ Inside(p, "write_eof")
  /\ isEOF' = TRUE
  /\ \E woken \in Signalled("waitRead") : Advance(p, "idle", woken)
  /\ LeaveWith(p, Success(1))
  /\ Unlock
  /\ UNCHANGED <<start, end, isEmpty, buf>>

\* EOF came in between the test on entry and the section, between two rounds,
\* or while the writer slept.
WriteAtEof(p) ==
  /\ Inside(p, "write")
  /\ isEOF
  /\ Return(p, IF retry(p) THEN Success(sizeDone(p)) ELSE Error("EPIPE"))
  /\ Unlock
  /\ UNCHANGED shared

WriteNoRoom(p) ==
  /\ Inside(p, "write")
  /\ ~isEOF
  /\ noRoom(p)
  /\ retry(p) \/ call[p].nb
  /\ Return(p, IF retry(p) THEN Success(sizeDone(p)) ELSE Error("EWOULDBLOCK"))
  /\ Unlock
  /\ UNCHANGED shared

\* The flag computed for this attempt stays in `data' while the writer sleeps.
\* After the wait the loop always evaluates again: the sizes that made the
\* writer wait still satisfy the loop's condition.
WriteWait(p) ==
  /\ Inside(p, "write")
  /\ ~isEOF
  /\ noRoom(p)
  /\ ~retry(p) /\ ~call[p].nb
  /\ data' = [data EXCEPT ![p].passByMiddle = writePass(p)]
  /\ pc'   = [pc EXCEPT ![p] = "waitWrite"]
  /\ Unlock
  /\ UNCHANGED <<shared, call, stamp, ret>>

\* eval_limit_loops and apply_loops.
writeSecond(p) ==
  SecondLimit(end, writeSize(p), writePass(p), data[p].secondLimitLoop)
writeMoved(p) == Moved(end, writeSize(p), writePass(p), writeSecond(p))

\* Byte k of the round comes out of the iovec, or from past its end.
Outgoing(p, k) ==
  IF sizeDone(p) + k <= call[p].count THEN data[p].bytes[sizeDone(p) + k]
                                      ELSE Garbage

\* Copy the first n bytes of the round into the cells and move `end'.
CopyIn(p, n) ==
  /\ buf' = [c \in Index |->
               LET k == ByteOfCell(end, writePass(p), n, c)
               IN  IF k = 0 THEN buf[c] ELSE Outgoing(p, k)]
  /\ end' = IndexAfter(end, writePass(p), n)

\* Mutant of EmptyAfterWrite: the flag is not cleared.
EmptyFlagKept(total) == isEmpty

\* `total' is what the call has moved, this round included.
EmptyAfterWrite(total) == IF total > 0 THEN FALSE ELSE isEmpty

WriteRound(p) ==
  /\ Inside(p, "write")
  /\ ~isEOF
  /\ ~noRoom(p)
  /\ CopyIn(p, writeMoved(p))
  /\ isEmpty' = EmptyAfterWrite(sizeDone(p) + writeMoved(p))
  /\ data' = [data EXCEPT ![p].sizeReallyManipulate = @ + writeMoved(p),
                          ![p].secondLimitLoop = writeSecond(p),
                          ![p].passByMiddle = PassForNextRound(writePass(p))]
  /\ \E woken \in Signalled("waitRead") : Advance(p, "unlocked", woken)
  /\ Unlock
  /\ UNCHANGED <<start, isEOF, call, stamp, ret>>

\* apply_loops goes on to iov[iovcnt] when the round moves more than the call
\* has left: the access may kill the process, with the mutex held.
WriteCrash(p) ==
  /\ Inside(p, "write")
  /\ ~isEOF
  /\ ~noRoom(p)
  /\ writeMoved(p) > rest(p)
  /\ CopyIn(p, rest(p))
  /\ pc' = [pc EXCEPT ![p] = "crashed"]
  /\ UNCHANGED <<mutex, start, isEOF, isEmpty, call, data, stamp, ret>>

-----------------------------------------------------------------------------
(* Critical section of conduct_read_v_flag.  The position is evaluated a   *)
(* second time when the request is cut to what is available.               *)

readAvailable == ReadAvailable(start, end, isEmpty)
readWanted(p) == SizeOfRound(rest(p))
readSize(p)   == IF readWanted(p) > readAvailable THEN readAvailable
                                                  ELSE readWanted(p)
readPass(p) ==
  LET pass == ReadPasses(start, end, isEmpty, readWanted(p), data[p].passByMiddle)
  IN  IF readWanted(p) > readAvailable
      THEN ReadPasses(start, end, isEmpty, readSize(p), pass)
      ELSE pass
readSecond(p) ==
  SecondLimit(start, readSize(p), readPass(p), data[p].secondLimitLoop)
readMoved(p) == Moved(start, readSize(p), readPass(p), readSecond(p))

\* Mutant of endOfFile: the mark hides what is still in the buffer.
endOfFileAtOnce == isEOF

endOfFile == isEOF /\ isEmpty

ReadAtEof(p) ==
  /\ Inside(p, "read")
  /\ endOfFile
  /\ Return(p, Success(sizeDone(p)))
  /\ Unlock
  /\ UNCHANGED shared

ReadNothing(p) ==
  /\ Inside(p, "read")
  /\ ~endOfFile /\ isEmpty
  /\ retry(p) \/ call[p].nb
  /\ Return(p, IF retry(p) THEN Success(sizeDone(p)) ELSE Error("EWOULDBLOCK"))
  /\ Unlock
  /\ UNCHANGED shared

ReadWait(p) ==
  /\ Inside(p, "read")
  /\ ~endOfFile /\ isEmpty
  /\ ~retry(p) /\ ~call[p].nb
  /\ pc' = [pc EXCEPT ![p] = "waitRead"]
  /\ Unlock
  /\ UNCHANGED <<shared, call, data, stamp, ret>>

CopyOut(p, n) ==
  /\ start' = IndexAfter(start, readPass(p), n)
  /\ data'  = [data EXCEPT
                 ![p].bytes = @ \o [k \in 1 .. n |-> buf[CellOf(start, readPass(p), k)]],
                 ![p].sizeReallyManipulate = @ + n,
                 ![p].secondLimitLoop = readSecond(p),
                 ![p].passByMiddle = PassForNextRound(readPass(p))]

\* `next' is where the next read starts.
EmptyAfterRead(next) == next = end \/ isEmpty

ReadRound(p) ==
  /\ Inside(p, "read")
  /\ ~endOfFile /\ ~isEmpty
  /\ CopyOut(p, readMoved(p))
  /\ isEmpty' = EmptyAfterRead(IndexAfter(start, readPass(p), readMoved(p)))
  /\ \E woken \in Signalled("waitWrite") : Advance(p, "unlocked", woken)
  /\ Unlock
  /\ UNCHANGED <<end, isEOF, buf, call, stamp, ret>>

ReadCrash(p) ==
  /\ Inside(p, "read")
  /\ ~endOfFile /\ ~isEmpty
  /\ readMoved(p) > rest(p)
  /\ CopyOut(p, rest(p))
  /\ pc' = [pc EXCEPT ![p] = "crashed"]
  /\ UNCHANGED <<mutex, end, isEOF, isEmpty, buf, call, stamp, ret>>

-----------------------------------------------------------------------------
\* What the thread that holds the mutex does up to the unlock or the wait.
Section(p) ==
  \/ WriteEof(p)
  \/ WriteAtEof(p) \/ WriteNoRoom(p) \/ WriteWait(p)
  \/ WriteRound(p) \/ WriteCrash(p)
  \/ ReadAtEof(p) \/ ReadNothing(p) \/ ReadWait(p)
  \/ ReadRound(p) \/ ReadCrash(p)

\* Steps of a thread that is inside the library and not blocked.
Step(p) == TryLockBusy(p) \/ RetryBusy(p) \/ Finish(p) \/ Section(p)

Invoke(p) == \E c \in Calls[p] : Refuse(p, c) \/ Enter(p, c)

Next == \E p \in Proc :
          Invoke(p) \/ Acquire(p) \/ Step(p) \/ SpuriousWakeup(p)

Spec == Init /\ [][Next]_vars

(***************************************************************************)
(* Fairness.  A thread that can run runs (the kernel schedules every       *)
(* runnable thread); a thread that waits for the mutex does not lose every *)
(* race for it, since each holder releases it after a bounded section      *)
(* (strong fairness of Acquire).  Nothing makes a thread call in, except   *)
(* those of Looping: the worker loops of the example programs.  Nothing    *)
(* makes a spurious wakeup happen.                                         *)
(***************************************************************************)
Fairness ==
  /\ \A p \in Proc : WF_vars(Step(p)) /\ SF_vars(Acquire(p))
  /\ \A p \in Looping : WF_vars(Invoke(p))

FairSpec == Spec /\ Fairness

-----------------------------------------------------------------------------
(* Properties.                                                             *)

DataType ==
  [passByMiddle : BOOLEAN, secondLimitLoop : Index,
   sizeReallyManipulate : Nat, bytes : Seq(Byte)]

RetType == [val : Int, errno : {"none", "ok", "EINVAL", "EPIPE", "EWOULDBLOCK"}]

\* Types and ranges; in particular no round, not even one with stale limits,
\* leaves start or end outside the buffer.
TypeOK ==
  /\ mutex   \in Proc \cup {Free}
  /\ start   \in Index
  /\ end     \in Index
  /\ isEOF   \in BOOLEAN
  /\ isEmpty \in BOOLEAN
  /\ buf     \in [Index -> Byte]
  /\ pc      \in [Proc -> PCs]
  /\ call    \in [Proc -> CallRecord \cup {NoCall}]
  /\ data    \in [Proc -> DataType]
  /\ stamp   \in [Proc -> 0 .. Stamps - 1]
  /\ ret     \in [Proc -> RetType]

\* The comment of struct content (conduct.c:62): isEmpty TRUE means that the
\* buffer is empty and so start = end.
EmptyMeansSameIndex == isEmpty /\ mutex = Free => start = end

\* Only the thread inside its critical section holds the mutex, and a thread
\* in a critical section holds it (or died there).
MutexDiscipline ==
  \A p \in Proc : pc[p] \in {"section", "crashed"} <=> mutex = p

Reading(p) == call[p] # NoCall /\ call[p].op = "read"
Writing(p) == call[p] # NoCall /\ call[p].op = "write"

\* What the proofs need besides: the frame of a call exists between entry and
\* return, holds the bytes to write, and nothing but `unlocked' comes after
\* the last byte.
CallsOpen ==
  \A p \in Proc :
    /\ pc[p] = "idle" <=> call[p] = NoCall
    /\ Writing(p) => Len(data[p].bytes) = call[p].count
    /\ pc[p] \in {"lock", "relock", "section", "waitRead", "waitWrite"}
         => sizeDone(p) < call[p].count

EmptyUnlessCrashed ==
  isEmpty /\ (\A p \in Proc : pc[p] # "crashed") => start = end

\* The inductive invariant.
IInv == TypeOK /\ MutexDiscipline /\ CallsOpen /\ EmptyUnlessCrashed

Awake(p)   == pc[p] \in {"relock", "section"}

\* No lost wakeup: a reader sleeps while there is something for it (bytes, or
\* end of file) only while another reader that was woken is on its way; same
\* for writers that would find room.  The code signals one waiter per round.
NoLostWakeup ==
  /\ (\E p \in Waiters("waitRead") : ~isEmpty \/ isEOF)
       => \E q \in Proc : Reading(q) /\ Awake(q)
  /\ (\E p \in Waiters("waitWrite") : isEOF \/ ~noRoom(p))
       => \E q \in Proc : Writing(q) /\ Awake(q)

\* Records: when every call moves exactly the atomic limit and the limit divides
\* the size of the buffer (as julia.c sizes its conduits), what a reader gets
\* is one whole record of one writer, not yet torn by the other threads.
RecordsComeWhole ==
  \A p \in Proc : Reading(p) /\ retry(p) =>
    /\ Len(data[p].bytes) = SizeAtom
    /\ \E w \in Proc, s \in 0 .. Stamps - 1 :
         data[p].bytes = [i \in 1 .. SizeAtom |-> <<w, (s + i - 1) % Stamps>>]

\* A call transfers at most what its caller asked for: `read or write as far
\* as ask by user' (README.md:16).
NeverMoreThanAsked ==
  \A p \in Proc : call[p] # NoCall => sizeDone(p) <= call[p].count

\* A blocking write returns when somebody keeps reading: the reader that makes
\* room wakes the writer, and no sleeping writer is forgotten.
WriteReturns == \A p \in Proc : Writing(p) ~> ~Writing(p)

\* End of file releases every reader, also those that already sleep: what the
\* worker threads of test_3thread_depedency.c (280-283) and the pthread_join of
\* each of them (534-536) need, when an order thread gives up with
\* conduct_write_eof (213).
EofReleasesReaders == \A p \in Proc : isEOF /\ Reading(p) ~> ~Reading(p)

\* What was written before the end of file is read.
EofDrains == isEOF ~> isEmpty

\* The conduit is a queue of bytes that keeps the promises of ConductFifo:
\* nothing lost, duplicated, reordered or invented, pieces of the atomic limit
\* whole, nothing after end of file, 0 only at its end.
Fifo == INSTANCE ConductFifo WITH
          Drains <- TRUE,
          queue <- Contents(buf, start, end, isEmpty),
          eof   <- isEOF,
          moved <- [p \in Proc |-> data[p].sizeReallyManipulate],
          bytes <- [p \in Proc |-> data[p].bytes]

ImplementsFifo == Fifo!Spec
=============================================================================
