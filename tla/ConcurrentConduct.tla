------------------------- MODULE ConcurrentConduct -------------------------
(***************************************************************************)
(* concurrentconduct.c: readers and writers copy at the same time.  A      *)
(* round has three parts:                                                  *)
(*                                                                         *)
(*   - under the mutex, reserve cells by moving tmpStart or tmpEnd;        *)
(*   - without the mutex, copy byte after byte;                            *)
(*   - under the mutex again, wait until start (or end) has come to the    *)
(*     first reserved cell, validate by moving it behind the last one.     *)
(*                                                                         *)
(* The wait is that of the MPMC build, the one the Makefile makes.  The    *)
(* SPSC build (mode_Single_Reader_And_Writer) does not wait: a call takes  *)
(* mutexRead or mutexWrite before the mutex, and keeps it through its      *)
(* round, asleep or not, so one thread at a time reads and one writes.     *)
(*                                                                         *)
(* Calls, rounds and retries are those of Conduct; end of file is not:     *)
(* it fails reads and writes at once, and wakes nobody.                    *)
(***************************************************************************)
EXTENDS CircularBuffer, Sequences, FiniteSets

CONSTANTS
  Proc,     \* threads
  Calls,    \* Calls[p]: the calls thread p may make
  Stamps,   \* bytes of a thread are numbered modulo Stamps
  Garbage,  \* a byte nobody handed to write
  Free,     \* the mutex is not held
  Lost,     \* a side mutex is locked, and who locked it has returned
  NoCall,   \* the thread is not inside the library
  SingleReaderAndWriter,  \* mode_Single_Reader_And_Writer: the SPSC build
  Looping   \* threads that call again and again (only FairSpec looks at it)

Ops == {"read", "write", "write_eof"}
CallRecord == [op : Ops, nb : BOOLEAN, count : Nat]

ASSUME ConcurrentAssumption ==
  /\ Calls \in [Proc -> SUBSET CallRecord]
  /\ Stamps \in Nat \ {0}
  /\ SingleReaderAndWriter \in BOOLEAN
  /\ {Free, Lost} \cap Proc = {} /\ Free # Lost
  /\ NoCall \notin CallRecord
  /\ Looping \subseteq Proc

Byte == (Proc \X (0 .. Stamps - 1)) \cup {Garbage}

VARIABLES
  (* struct content *)
  mutex, start, end, isEOF, isEmpty, buf,
  side,      \* mutexRead and mutexWrite
  tmpStart,  \* behind the last cell reserved by a reader
  tmpEnd,    \* behind the last cell reserved by a writer
  (* the stack of each thread *)
  pc, call, data,
  (* what the environment of a thread sees *)
  stamp, ret

shared == <<start, end, isEOF, isEmpty, tmpStart, tmpEnd>>
vars   == <<mutex, side, shared, buf, pc, call, data, stamp, ret>>

PCs == {"idle",
        "lockSide",      \* about to lock or trylock mutexRead or mutexWrite
        "lock",          \* about to lock (or, in non-blocking mode, trylock)
        "reserve",       \* holds the mutex, to reserve
        "waitRead", "waitWrite",          \* on conditionRead, conditionWrite
        "relock",        \* woken from these
        "copy",          \* copies its cells, without the mutex
        "lockAgain",     \* about to lock to validate, or woken from these:
        "waitTurnRead", "waitTurnWrite",  \* on conditionRead_ToValide,
                                          \* conditionWrite_ToValidate
        "validate",      \* holds the mutex, to validate
        "broadcast",     \* validated and unlocked, to wake the other side
        "unlocked",      \* round over
        "retry",         \* has its side mutex, to trylock the other
        "crashed"}       \* killed by an access past its iovec

Sides == {"read", "write"}

\* struct dataCirularBuffer and the locals localStart or localEnd (`from').
\* `copied' counts the bytes of the round, sizeReallyManipulate all of them.
NewData(bytes) ==
  [from |-> 0, sizeToManipulate |-> 0, passByMiddle |-> FALSE,
   secondLimitLoop |-> 0, copied |-> 0, sizeReallyManipulate |-> 0,
   bytes |-> bytes]

NoData       == NewData(<<>>)
Result(v, e) == [val |-> v, errno |-> e]
Error(e)     == Result(-1, e)
Success(v)   == Result(v, "ok")
NoRet        == Result(0, "none")

Init ==
  /\ mutex = Free
  /\ side = [s \in Sides |-> Free]
  /\ start = 0 /\ end = 0 /\ tmpStart = 0 /\ tmpEnd = 0
  /\ isEOF = FALSE
  /\ isEmpty = TRUE
  /\ buf   = [c \in Index |-> Garbage]
  /\ pc    = [p \in Proc |-> "idle"]
  /\ call  = [p \in Proc |-> NoCall]
  /\ data  = [p \in Proc |-> NoData]
  /\ stamp = [p \in Proc |-> 0]
  /\ ret   = [p \in Proc |-> NoRet]

-----------------------------------------------------------------------------
sizeDone(p) == data[p].sizeReallyManipulate
rest(p)     == call[p].count - sizeDone(p)
retry(p)    == sizeDone(p) > 0

Return(p, result) ==
  /\ pc'    = [pc EXCEPT ![p] = "idle"]
  /\ ret'   = [ret EXCEPT ![p] = result]
  /\ call'  = [call EXCEPT ![p] = NoCall]
  /\ data'  = [data EXCEPT ![p] = NoData]
  /\ stamp' = IF call[p].op = "write"
              THEN [stamp EXCEPT ![p] = (@ + sizeDone(p)) % Stamps]
              ELSE stamp

Goto(p, to) == pc' = [pc EXCEPT ![p] = to]

sideOf(p) == IF call[p].op = "read" THEN "read" ELSE "write"

\* unlockMutexAll: no caller hands INTERNAL_FLAG_WRITE on, so it is always
\* mutexRead that is unlocked, whoever holds it, and mutexWrite stays locked.
UnlockAll(p) ==
  /\ mutex' = Free
  /\ side' = IF SingleReaderAndWriter
             THEN [s \in Sides |-> IF s = "read" THEN Free
                                   ELSE IF sideOf(p) = s THEN Lost ELSE side[s]]
             ELSE side

\* unlockMutexFlag at the end of a round, and where lockMutexAll gives up.
UnlockSide(p) ==
  IF SingleReaderAndWriter THEN [side EXCEPT ![sideOf(p)] = Free] ELSE side

\* Mutant of BroadcastTo: the broadcast is missing.
BroadcastForgotten(p, to, queue, woken) == pc' = [pc EXCEPT ![p] = to]

\* pthread_cond_broadcast by p, who goes to `to': all of `queue' go to `woken'.
BroadcastTo(p, to, queue, woken) ==
  pc' = [q \in Proc |-> IF q = p THEN to
                        ELSE IF pc[q] = queue THEN woken ELSE pc[q]]

-----------------------------------------------------------------------------
(* Entry of a call and the mutex.                                          *)

Payload(p, n) == [i \in 1 .. n |-> <<p, (stamp[p] + i - 1) % Stamps>>]

\* End of file refuses a call before it locks, and write_eof makes a success
\* of it (conduct_write_eof_FLAG); then init_dataCirularBuffer refuses an
\* empty request.
EofResult(op) == IF op = "write_eof" THEN Success(0) ELSE Error("EPIPE")

Refuse(p, c) ==
  /\ pc[p] = "idle"
  /\ c \in Calls[p]
  /\ \/ isEOF /\ ret' = [ret EXCEPT ![p] = EofResult(c.op)]
     \/ ~isEOF /\ c.count = 0 /\ ret' = [ret EXCEPT ![p] = Error("EINVAL")]
  /\ UNCHANGED <<mutex, side, shared, buf, pc, call, data, stamp>>

Enter(p, c) ==
  /\ pc[p] = "idle"
  /\ c \in Calls[p]
  /\ ~isEOF
  /\ c.count > 0
  /\ Goto(p, IF SingleReaderAndWriter THEN "lockSide" ELSE "lock")
  /\ call' = [call EXCEPT ![p] = c]
  /\ data' = [data EXCEPT ![p] =
                NewData(IF c.op = "write" THEN Payload(p, c.count) ELSE <<>>)]
  /\ ret'  = [ret EXCEPT ![p] = NoRet]
  /\ UNCHANGED <<mutex, side, shared, buf, stamp>>

Retrying(p) == pc[p] = "unlocked" /\ rest(p) > 0

\* Mutant of SideFree: mutexRead and mutexWrite do not exclude.
SideIgnored(p) == TRUE

SideFree(p) == side[sideOf(p)] = Free

LockSide(p) ==
  /\ SingleReaderAndWriter
  /\ \/ pc[p] = "lockSide" /\ Goto(p, "lock")
     \/ Retrying(p)         /\ Goto(p, "retry")
  /\ SideFree(p)
  /\ side' = [side EXCEPT ![sideOf(p)] = p]
  /\ UNCHANGED <<mutex, shared, buf, call, data, stamp, ret>>

Acquire(p) ==
  /\ mutex = Free
  /\ mutex' = p
  /\ \/ pc[p] \in {"lock", "relock", "retry"}          /\ Goto(p, "reserve")
     \/ Retrying(p) /\ ~SingleReaderAndWriter         /\ Goto(p, "reserve")
     \/ pc[p] = "lockAgain"                           /\ Goto(p, "validate")
  /\ UNCHANGED <<side, shared, buf, call, data, stamp, ret>>

\* A trylock of the call fails: of mutex, after which lockMutexAll gives the
\* side mutex back, or of the side mutex.
TryLockBusy(p) ==
  /\ call[p] # NoCall /\ call[p].nb
  /\ \/ pc[p] = "lock"     /\ mutex # Free  /\ side' = UnlockSide(p)
     \/ pc[p] = "lockSide" /\ ~SideFree(p) /\ UNCHANGED side
  /\ Return(p, Error("EWOULDBLOCK"))
  /\ UNCHANGED <<mutex, shared, buf>>

\* The same for the trylocks of a retry, which make the count short.
RetryBusy(p) ==
  /\ \/ Retrying(p) /\ ~SingleReaderAndWriter /\ mutex # Free /\ UNCHANGED side
     \/ Retrying(p) /\ SingleReaderAndWriter /\ ~SideFree(p) /\ UNCHANGED side
     \/ pc[p] = "retry" /\ mutex # Free /\ side' = UnlockSide(p)
  /\ Return(p, Success(sizeDone(p)))
  /\ UNCHANGED <<mutex, shared, buf>>

Finish(p) ==
  /\ pc[p] = "unlocked"
  /\ rest(p) <= 0
  /\ Return(p, Success(sizeDone(p)))
  /\ UNCHANGED <<mutex, side, shared, buf>>

SpuriousWakeup(p) ==
  /\ \/ pc[p] \in {"waitRead", "waitWrite"}         /\ Goto(p, "relock")
     \/ pc[p] \in {"waitTurnRead", "waitTurnWrite"} /\ Goto(p, "lockAgain")
  /\ UNCHANGED <<mutex, side, shared, buf, call, data, stamp, ret>>

-----------------------------------------------------------------------------
(* Reserve.                                                                *)

Reserving(p, op) == pc[p] = "reserve" /\ call[p].op = op

WriteEof(p) ==
  /\ Reserving(p, "write_eof")
  /\ isEOF' = TRUE
  /\ Return(p, Success(0))
  /\ UnlockAll(p)
  /\ UNCHANGED <<start, end, isEmpty, tmpStart, tmpEnd, buf>>

AtEof(p) ==
  /\ pc[p] = "reserve"
  /\ call[p].op \in {"read", "write"}
  /\ isEOF
  /\ Return(p, IF retry(p) THEN Success(sizeDone(p)) ELSE Error("EPIPE"))
  /\ UnlockAll(p)
  /\ UNCHANGED <<shared, buf>>

\* The round of p will move `size' bytes from cell `from' on; the limits of
\* its loops are fixed before the mutex is released.
StartCopy(p, from, size, pass) ==
  /\ data' = [data EXCEPT
       ![p].from = from, ![p].sizeToManipulate = size,
       ![p].passByMiddle = pass,
       ![p].secondLimitLoop = SecondLimit(from, size, pass, @)]
  /\ Goto(p, "copy")
  /\ mutex' = Free

\* A call that can do nothing: it returns, unless it has to block.
GiveUp(p) ==
  /\ retry(p) \/ call[p].nb
  /\ Return(p, IF retry(p) THEN Success(sizeDone(p)) ELSE Error("EWOULDBLOCK"))
  /\ UnlockAll(p)
  /\ UNCHANGED <<shared, buf>>

\* Mutant of firstFree: writers reserve from the validated end.
firstFreeValidated == end

\* data.end: where the next writer reserves.
firstFree == tmpEnd

writeSize(p) == SizeOfRound(rest(p))
writePass(p) ==
  WritePasses(start, firstFree, isEmpty, writeSize(p), data[p].passByMiddle)

\* Mutant of noRoom: a writer goes on as soon as the buffer is not full.
noRoomWhenFull(p) == firstFree = start /\ ~isEmpty

noRoom(p) ==
  \/ firstFree = start /\ ~isEmpty
  \/ writeSize(p) > WriteAvailable(start, firstFree, isEmpty)

WriteNoRoom(p) == Reserving(p, "write") /\ ~isEOF /\ noRoom(p) /\ GiveUp(p)

WriteWait(p) ==
  /\ Reserving(p, "write")
  /\ ~isEOF
  /\ noRoom(p)
  /\ ~retry(p) /\ ~call[p].nb
  /\ data' = [data EXCEPT ![p].passByMiddle = writePass(p)]
  /\ Goto(p, "waitWrite")
  /\ mutex' = Free
  /\ UNCHANGED <<side, shared, buf, call, stamp, ret>>

WriteReserve(p) ==
  /\ Reserving(p, "write")
  /\ ~isEOF
  /\ ~noRoom(p)
  /\ StartCopy(p, firstFree, writeSize(p), writePass(p))
  /\ tmpEnd' = (firstFree + writeSize(p)) % SizeMax
  /\ UNCHANGED <<side, start, end, isEOF, isEmpty, tmpStart, buf, call, stamp, ret>>

readAvailable == ReadAvailable(tmpStart, end, isEmpty)
readWanted(p) == SizeOfRound(rest(p))

readSize(p)   == IF readWanted(p) > readAvailable THEN readAvailable
                                                  ELSE readWanted(p)
readPass(p) ==
  LET pass == ReadPasses(tmpStart, end, isEmpty, readWanted(p), data[p].passByMiddle)
  IN  IF readWanted(p) > readAvailable
      THEN ReadPasses(tmpStart, end, isEmpty, readSize(p), pass)
      ELSE pass

ReadNothing(p) == Reserving(p, "read") /\ ~isEOF /\ isEmpty /\ GiveUp(p)

ReadWait(p) ==
  /\ Reserving(p, "read")
  /\ ~isEOF /\ isEmpty
  /\ ~retry(p) /\ ~call[p].nb
  /\ Goto(p, "waitRead")
  /\ mutex' = Free
  /\ UNCHANGED <<side, shared, buf, call, data, stamp, ret>>

ReadReserve(p) ==
  /\ Reserving(p, "read")
  /\ ~isEOF /\ ~isEmpty
  /\ StartCopy(p, tmpStart, readSize(p), readPass(p))
  /\ tmpStart' = (tmpStart + readSize(p)) % SizeMax
  /\ UNCHANGED <<side, start, end, isEOF, isEmpty, tmpEnd, buf, call, stamp, ret>>

-----------------------------------------------------------------------------
(* Copy: one iteration of the loops of apply_loops, an atomic_load or an   *)
(* atomic_store of one cell.                                               *)

toMove(p) == Moved(data[p].from, data[p].sizeToManipulate,
                   data[p].passByMiddle, data[p].secondLimitLoop)
nextCell(p) == CellOf(data[p].from, data[p].passByMiddle, data[p].copied + 1)
Outgoing(p) == IF rest(p) > 0 THEN data[p].bytes[sizeDone(p) + 1] ELSE Garbage

CopyByte(p) ==
  /\ pc[p] = "copy"
  /\ \/ /\ call[p].op = "write"
        /\ buf'  = [buf EXCEPT ![nextCell(p)] = Outgoing(p)]
        /\ data' = [data EXCEPT ![p].copied = @ + 1, ![p].sizeReallyManipulate = @ + 1]
     \/ /\ call[p].op = "read"
        /\ data' = [data EXCEPT ![p].bytes = Append(@, buf[nextCell(p)]),
                      ![p].copied = @ + 1, ![p].sizeReallyManipulate = @ + 1]
        /\ UNCHANGED buf
  /\ Goto(p, IF data[p].copied + 1 = toMove(p) THEN "lockAgain" ELSE "copy")
  /\ UNCHANGED <<mutex, side, shared, call, stamp, ret>>

\* More cells than the call has bytes: the next one is past the iovec.
CopyCrash(p) ==
  /\ pc[p] = "copy"
  /\ rest(p) <= 0
  /\ Goto(p, "crashed")
  /\ UNCHANGED <<mutex, side, shared, buf, call, data, stamp, ret>>

-----------------------------------------------------------------------------
(* Validate.                                                               *)

Validating(p, op) == pc[p] = "validate" /\ call[p].op = op

\* Mutant of localTmp: the index does not come back to the first cell.
localTmpUnwrapped(p) == data[p].from + data[p].sizeToManipulate

\* localTmpStart or localTmpEnd: behind the last reserved cell.
localTmp(p) == (data[p].from + data[p].sizeToManipulate) % SizeMax

\* Only the MPMC build waits.
WaitTurn(p) ==
  /\ ~SingleReaderAndWriter
  /\ \/ Validating(p, "read")  /\ start # data[p].from /\ Goto(p, "waitTurnRead")
     \/ Validating(p, "write") /\ end # data[p].from   /\ Goto(p, "waitTurnWrite")
  /\ mutex' = Free
  /\ UNCHANGED <<side, shared, buf, call, data, stamp, ret>>

\* Mutant of EmptyAfterRead: the buffer is never marked empty again.
EmptyFlagForgotten(next) == isEmpty

\* `next' is where the next read starts.
EmptyAfterRead(next) == next = end \/ isEmpty

ReadValidate(p) ==
  /\ Validating(p, "read")
  /\ start = data[p].from \/ SingleReaderAndWriter
  /\ start' = localTmp(p)
  /\ isEmpty' = EmptyAfterRead(localTmp(p))
  /\ BroadcastTo(p, "broadcast", "waitTurnRead", "lockAgain")
  /\ data' = [data EXCEPT ![p].copied = 0]
  /\ mutex' = Free
  /\ UNCHANGED <<side, end, isEOF, tmpStart, tmpEnd, buf, call, stamp, ret>>

\* sizeToManipulate is never 0 here, so isEmpty is always cleared.
WriteValidate(p) ==
  /\ Validating(p, "write")
  /\ end = data[p].from \/ SingleReaderAndWriter
  /\ end' = localTmp(p)
  /\ isEmpty' = FALSE
  /\ BroadcastTo(p, "broadcast", "waitTurnWrite", "lockAgain")
  /\ data' = [data EXCEPT ![p].copied = 0]
  /\ mutex' = Free
  /\ UNCHANGED <<side, start, isEOF, tmpStart, tmpEnd, buf, call, stamp, ret>>

\* Mutant of PassForNextRound: the reset before the retry is missing.
PassKept(pass) == pass

\* The flag is reset before `goto retry_it'.
PassForNextRound(pass) == FALSE

\* The broadcast to the other side comes after the unlock; then the side mutex
\* is unlocked and passByMiddle reset for the next round.
WakeOtherSide(p) ==
  /\ pc[p] = "broadcast"
  /\ BroadcastTo(p, "unlocked",
       IF call[p].op = "read" THEN "waitWrite" ELSE "waitRead", "relock")
  /\ data' = [data EXCEPT ![p].passByMiddle = PassForNextRound(@)]
  /\ side' = UnlockSide(p)
  /\ UNCHANGED <<mutex, shared, buf, call, stamp, ret>>

-----------------------------------------------------------------------------
Step(p) ==
  \/ TryLockBusy(p) \/ RetryBusy(p) \/ Finish(p)
  \/ WriteEof(p) \/ AtEof(p)
  \/ WriteNoRoom(p) \/ WriteWait(p) \/ WriteReserve(p)
  \/ ReadNothing(p) \/ ReadWait(p) \/ ReadReserve(p)
  \/ CopyByte(p) \/ CopyCrash(p)
  \/ WaitTurn(p) \/ ReadValidate(p) \/ WriteValidate(p) \/ WakeOtherSide(p)

Invoke(p) == \E c \in Calls[p] : Refuse(p, c) \/ Enter(p, c)

Next == \E p \in Proc :
          Invoke(p) \/ LockSide(p) \/ Acquire(p) \/ Step(p) \/ SpuriousWakeup(p)

Spec == Init /\ [][Next]_vars

\* The fairness of Conduct: runnable threads run, no mutex starves anybody,
\* only the threads of Looping are bound to call.
Fairness ==
  /\ \A p \in Proc : WF_vars(Step(p)) /\ SF_vars(LockSide(p)) /\ SF_vars(Acquire(p))
  /\ \A p \in Looping : WF_vars(Invoke(p))

FairSpec == Spec /\ Fairness

-----------------------------------------------------------------------------
(* Properties.                                                             *)

DataType ==
  [from : Index, sizeToManipulate : 0 .. SizeMax, passByMiddle : BOOLEAN,
   secondLimitLoop : Index, copied : 0 .. 2 * SizeMax,
   sizeReallyManipulate : Nat, bytes : Seq(Byte)]

\* Types and ranges of struct content and of the data of each call.
TypeOK ==
  /\ mutex \in Proc \cup {Free}
  /\ side \in [Sides -> Proc \cup {Free, Lost}]
  /\ {start, end, tmpStart, tmpEnd} \subseteq Index
  /\ isEOF \in BOOLEAN /\ isEmpty \in BOOLEAN
  /\ buf   \in [Index -> Byte]
  /\ pc    \in [Proc -> PCs]
  /\ call  \in [Proc -> CallRecord \cup {NoCall}]
  /\ data  \in [Proc -> DataType]
  /\ stamp \in [Proc -> 0 .. Stamps - 1]
  /\ ret   \in [Proc -> [val : Int, errno : {"none", "ok", "EINVAL", "EPIPE", "EWOULDBLOCK"}]]

Reading(p) == call[p] # NoCall /\ call[p].op = "read"
Writing(p) == call[p] # NoCall /\ call[p].op = "write"

\* From the reservation to the validation a thread owns the cells it reserved.
InRound(p) == pc[p] \in {"copy", "lockAgain", "waitTurnRead", "waitTurnWrite", "validate"}
Reserved(p) ==
  {(data[p].from + k - 1) % SizeMax : k \in 1 .. data[p].sizeToManipulate}

\* Copies that run at the same time never touch the same cell, whether two
\* readers, two writers, or one of each: the reservations are disjoint
\* (`multiple producer multiple consumer', README.md:33).
ReservationsDisjoint ==
  \A p, q \in Proc : p # q /\ InRound(p) /\ InRound(q)
                       => Reserved(p) \cap Reserved(q) = {}

\* A copy never leaves the cells its thread reserved, whatever has happened to
\* the buffer since the fields of struct dataCirularBuffer were set: before a
\* wait, or in an earlier round.
CopiesWhatItReserved ==
  \A p \in Proc : pc[p] = "copy" => nextCell(p) \in Reserved(p)

\* The SPSC build validates without waiting for its turn: while a thread is in
\* a round, nobody else of its side may have reserved or validated, so start
\* (or end) is still at the first cell the round reserved.
AloneOnItsSide ==
  SingleReaderAndWriter =>
    \A p \in Proc : InRound(p) =>
      /\ (IF Reading(p) THEN start ELSE end) = data[p].from
      /\ \A q \in Proc : InRound(q) /\ sideOf(q) = sideOf(p) => q = p

HoldsSide(p) ==
  /\ InRound(p) \/ pc[p] \in {"lock", "reserve", "waitRead", "waitWrite", "relock",
                             "broadcast", "retry"}
  /\ SingleReaderAndWriter

\* mutexRead and mutexWrite are held by the one thread that is between its
\* lock and its unlock, or by nobody, as calls need that can be non-blocking and
\* go on as far as asked (README.md:13, 16).  Only after end of file, when
\* nobody locks them any more, may one be lost.
SideMutexesReturned ==
  \A s \in Sides :
    /\ side[s] = Lost => s = "write" /\ isEOF
    /\ side[s] \in Proc => HoldsSide(side[s]) /\ sideOf(side[s]) = s

\* No lost wakeup although the broadcast comes after the unlock: a reader
\* sleeps beside unread bytes, or a writer beside enough room, only until
\* a thread of the other side has made its broadcast.
NoLostWakeup ==
  /\ (\E p \in Proc : pc[p] = "waitRead" /\ ~isEmpty)
       => \E q \in Proc : pc[q] = "broadcast" /\ Writing(q)
  /\ (\E p \in Proc : pc[p] = "waitWrite" /\ ~noRoom(p))
       => \E q \in Proc : pc[q] = "broadcast" /\ Reading(q)

\* What the worker loop of test_3thread_depedency.c:280-283 needs, when the
\* order thread gives up with conduct_write_eof (213): end of file ends a read.
EofReleasesReaders == \A p \in Proc : isEOF /\ Reading(p) ~> ~Reading(p)

\* When somebody keeps reading and there are always writers inside, writes keep
\* returning: no round of broadcasts leaves every writer asleep beside room.  A
\* single writer so always returns; one of two may starve, because the room it
\* waits for may go to the other one each time.
WritesGoOn ==
  <>[](\E p \in Proc : Writing(p))
    => []<><<\E p \in Proc : Writing(p) /\ ~Writing(p)'>>_vars

\* In the regimes of the runs a conduit is a queue of bytes: what a round moves
\* enters or leaves the queue when it is validated.  `Drains' is FALSE:
\* end of file fails reads at once.
Fifo == INSTANCE ConductFifo WITH
          Drains <- FALSE,
          queue  <- Contents(buf, start, end, isEmpty),
          eof    <- isEOF,
          moved  <- [p \in Proc |-> sizeDone(p) - data[p].copied],
          bytes  <- [p \in Proc |->
                       IF Reading(p)
                       THEN SubSeq(data[p].bytes, 1, sizeDone(p) - data[p].copied)
                       ELSE data[p].bytes]

ImplementsFifo == Fifo!Spec
=============================================================================
