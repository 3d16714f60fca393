--------------------------- MODULE ConductProofs ---------------------------
(***************************************************************************)
(* Proofs about Conduct: types and index ranges, mutual exclusion, and     *)
(* what isEmpty says of the indices, for any number of threads making any  *)
(* calls, for every size and atomic limit.                                 *)
(***************************************************************************)
EXTENDS Conduct, CircularBufferProofs, SequenceTheorems

USE SizeAssumption, ConductAssumption

-----------------------------------------------------------------------------
(* Data.                                                                   *)

\* The bytes handed to a write, and that there are as many as it says.
LEMMA PayloadType ==
  ASSUME NEW p \in Proc, NEW n \in Nat, stamp[p] \in 0 .. Stamps - 1
  PROVE  Payload(p, n) \in Seq(Byte) /\ Len(Payload(p, n)) = n
<1>1. \A i \in 1 .. n : (stamp[p] + i - 1) % Stamps \in 0 .. Stamps - 1
  OBVIOUS
<1>2. Payload(p, n) \in [1 .. n -> Byte]
  BY <1>1 DEF Payload, Byte
<1> QED
  BY <1>2, FunctionIsSeq

\* A call starts with a well-typed struct dataCirularBuffer.
LEMMA NewDataType ==
  ASSUME NEW b \in Seq(Byte)
  PROVE  NewData(b) \in DataType
  BY DEF NewData, DataType, Index

\* So does a thread that is outside the library.
LEMMA NoDataType == NoData \in DataType
<1>1. <<>> \in Seq(Byte)
  BY EmptySeq
<1> QED
  BY <1>1, NewDataType DEF NoData

\* A writer that goes to sleep keeps the flag it computed.
LEMMA PassType ==
  ASSUME NEW d \in DataType, NEW b \in BOOLEAN
  PROVE  [d EXCEPT !.passByMiddle = b] \in DataType
  BY DEF DataType

\* A round counts its bytes, keeps its second limit and clears passByMiddle.
LEMMA RoundType ==
  ASSUME NEW d \in DataType, NEW b \in Seq(Byte), NEW done \in Nat,
         NEW limit \in Index, NEW e
  PROVE  e = [d EXCEPT !.bytes = b, !.sizeReallyManipulate = done,
                       !.secondLimitLoop = limit, !.passByMiddle = FALSE]
           => e \in DataType
  BY DEF DataType

-----------------------------------------------------------------------------
(* One round: the cells, the indices and the bytes stay in range.          *)

\* In the section something is left to do, and the round has at least a byte
\* and no more than what is left.
LEMMA RestType ==
  ASSUME IInv, NEW p \in Proc, pc[p] = "section"
  PROVE  /\ call[p] \in CallRecord /\ sizeDone(p) \in Nat
         /\ rest(p) \in Nat \ {0}
         /\ SizeOfRound(rest(p)) \in Nat \ {0}
         /\ SizeOfRound(rest(p)) <= rest(p)
<1>1. call[p] \in CallRecord
  BY DEF IInv, TypeOK, CallsOpen
<1>2. sizeDone(p) \in Nat
  BY DEF IInv, TypeOK, DataType, sizeDone
<1>3. call[p].count \in Nat /\ sizeDone(p) < call[p].count
  BY <1>1 DEF IInv, CallsOpen, CallRecord
<1>4. rest(p) \in Nat \ {0}
  BY <1>2, <1>3 DEF rest
<1> QED
  BY <1>1, <1>2, <1>4 DEF SizeOfRound

\* A writer that found room: its limits may be stale, but every cell it visits
\* and every value end takes on the way is an index of the buffer.
LEMMA WriterRound ==
  ASSUME IInv, NEW p \in Proc, Inside(p, "write"), ~noRoom(p)
  PROVE  /\ writePass(p) \in BOOLEAN
         /\ writeSecond(p) \in Index
         /\ writeMoved(p) \in Nat \ {0}
         /\ \A n \in 0 .. writeMoved(p) :
              /\ IndexAfter(end, writePass(p), n) \in Index
              /\ \A c \in Index : ByteOfCell(end, writePass(p), n, c) \in 0 .. n
<1>1. pc[p] = "section"
  BY DEF Inside
<1>2. writeSize(p) \in Nat \ {0}
  BY <1>1, RestType DEF writeSize
<1>3. /\ start \in Index /\ end \in Index /\ isEmpty \in BOOLEAN
      /\ data[p].passByMiddle \in BOOLEAN /\ data[p].secondLimitLoop \in Index
  BY DEF IInv, TypeOK, DataType
<1>4. /\ ~(end = start /\ ~isEmpty)
      /\ writeSize(p) <= WriteAvailable(start, end, isEmpty)
  <2>1. WriteAvailable(start, end, isEmpty) \in 0 .. SizeMax
    BY <1>3, AvailableType
  <2> QED
    BY <1>2, <2>1 DEF noRoom
<1>5. /\ writePass(p) \in BOOLEAN
      /\ writeSize(p) \in 1 .. SizeMax
      /\ ~writePass(p) => end + writeSize(p) < SizeMax
  BY <1>2, <1>3, <1>4, WriteWithoutPassing DEF writePass
<1> QED
  BY <1>3, <1>5, RoundStaysInside DEF writeSecond, writeMoved

\* The same for a reader that found something, and start.
LEMMA ReaderRound ==
  ASSUME IInv, NEW p \in Proc, Inside(p, "read"), ~isEmpty
  PROVE  /\ readPass(p) \in BOOLEAN
         /\ readSecond(p) \in Index
         /\ readMoved(p) \in Nat \ {0}
         /\ \A n \in 0 .. readMoved(p) :
              /\ IndexAfter(start, readPass(p), n) \in Index
              /\ \A k \in 1 .. n : CellOf(start, readPass(p), k) \in Index
<1>1. pc[p] = "section"
  BY DEF Inside
<1>2. readWanted(p) \in Nat \ {0}
  BY <1>1, RestType DEF readWanted
<1>3. /\ start \in Index /\ end \in Index /\ isEmpty \in BOOLEAN /\ ~isEmpty
      /\ data[p].passByMiddle \in BOOLEAN /\ data[p].secondLimitLoop \in Index
  BY DEF IInv, TypeOK, DataType
<1>4. /\ readAvailable \in 0 .. SizeMax /\ readAvailable > 0
      /\ readAvailable = ReadAvailable(start, end, isEmpty)
  BY <1>3, AvailableType DEF readAvailable
<1>5. /\ readSize(p) \in 1 .. SizeMax
      /\ readSize(p) <= ReadAvailable(start, end, isEmpty)
  BY <1>2, <1>4 DEF readSize
<1>6. \A old \in BOOLEAN, size \in Nat :
        ReadPasses(start, end, isEmpty, size, old) \in BOOLEAN
  BY DEF ReadPasses
<1>7. \E old \in BOOLEAN :
        readPass(p) = ReadPasses(start, end, isEmpty, readSize(p), old)
  BY <1>2, <1>3, <1>6 DEF readPass, readSize
<1>8. /\ readPass(p) \in BOOLEAN
      /\ ~readPass(p) => start + readSize(p) < SizeMax
  BY <1>3, <1>5, <1>7, ReadWithoutPassing
<1> QED
  BY <1>3, <1>5, <1>8, RoundStaysInside DEF readSecond, readMoved

-----------------------------------------------------------------------------
(* The frame of a call.                                                    *)

\* Whatever a call returns has the type of ret.
LEMMA Results ==
  /\ NoRet \in RetType
  /\ \A e \in {"EINVAL", "EPIPE", "EWOULDBLOCK"} : Error(e) \in RetType
  /\ \A v \in Int : Success(v) \in RetType
  BY DEF NoRet, Error, Success, Result, RetType

\* A call of p returns with r: from the section, releasing the mutex, or
\* without it.  isEOF may be set on the way (WriteEof), and a sleeper woken.
Left(p, r) ==
  /\ call[p] # NoCall
  /\ LeaveWith(p, r)
  /\ pc' \in [Proc -> PCs] /\ pc'[p] = "idle"
  /\ \A q \in Proc \ {p} :
       \/ pc'[q] = pc[q]
       \/ pc[q] \in {"waitRead", "waitWrite"} /\ pc'[q] = "relock"
  /\ \/ pc[p] = "section" /\ mutex' = Free
     \/ pc[p] \in {"lock", "unlocked"} /\ mutex' = mutex
  /\ isEOF' \in BOOLEAN
  /\ UNCHANGED <<start, end, isEmpty, buf>>

(***************************************************************************)
(* What a thread leaves behind when its call returns, and what that does   *)
(* to the other threads: nothing.                                          *)
(***************************************************************************)
LEMMA Leaving ==
  ASSUME TypeOK, CallsOpen, NEW p \in Proc, NEW r \in RetType, Left(p, r)
  PROVE  /\ call' \in [Proc -> CallRecord \cup {NoCall}]
         /\ data' \in [Proc -> DataType]
         /\ stamp' \in [Proc -> 0 .. Stamps - 1]
         /\ ret' \in [Proc -> RetType]
         /\ CallsOpen'
<1>1. /\ call' = [call EXCEPT ![p] = NoCall]
      /\ data' = [data EXCEPT ![p] = NoData]
      /\ ret' = [ret EXCEPT ![p] = r]
      /\ stamp' = IF call[p].op = "write"
                  THEN [stamp EXCEPT ![p] = (@ + sizeDone(p)) % Stamps]
                  ELSE stamp
  BY DEF Left, LeaveWith
<1>2. call' \in [Proc -> CallRecord \cup {NoCall}] /\ ret' \in [Proc -> RetType]
  BY <1>1 DEF TypeOK
<1>3. data' \in [Proc -> DataType]
  BY <1>1, NoDataType DEF TypeOK
<1>4. stamp' \in [Proc -> 0 .. Stamps - 1]
  <2>1. stamp[p] \in Nat /\ sizeDone(p) \in Nat
    BY DEF TypeOK, DataType, sizeDone
  <2>2. (stamp[p] + sizeDone(p)) % Stamps \in 0 .. Stamps - 1
    BY <2>1
  <2> QED
    BY <1>1, <2>2 DEF TypeOK
<1>5. call'[p] = NoCall /\ data'[p] = NoData
  BY <1>1 DEF TypeOK
<1>6. ASSUME NEW q \in Proc, q # p
      PROVE  call'[q] = call[q] /\ data'[q] = data[q]
  BY <1>1, <1>6 DEF TypeOK
<1>7. CallsOpen'
  BY <1>5, <1>6 DEF CallsOpen, Writing, sizeDone, Left
<1> QED
  BY <1>2, <1>3, <1>4, <1>7

(***************************************************************************)
(* A step that moves threads without opening or closing a call, and leaves *)
(* their data alone.                                                       *)
(***************************************************************************)
LEMMA Moving ==
  ASSUME CallsOpen, UNCHANGED <<call, data>>,
         \A q \in Proc :
           \/ pc'[q] = pc[q]
           \/ /\ pc[q] # "idle" /\ pc'[q] # "idle"
              /\ sizeDone(q) < call[q].count
  PROVE  CallsOpen'
  BY DEF CallsOpen, Writing, sizeDone

(***************************************************************************)
(* Init.                                                                   *)
(***************************************************************************)
LEMMA InitInv == Init => IInv
<1> SUFFICES ASSUME Init PROVE IInv
  OBVIOUS
<1>1. TypeOK
  <2>1. start \in Index /\ end \in Index
    BY DEF Init, Index
  <2>2. buf \in [Index -> Byte]
    BY DEF Init, Byte
  <2>3. /\ mutex \in Proc \cup {Free}
        /\ isEOF \in BOOLEAN /\ isEmpty \in BOOLEAN
        /\ pc \in [Proc -> PCs]
        /\ call \in [Proc -> CallRecord \cup {NoCall}]
    BY DEF Init, PCs
  <2>4. data \in [Proc -> DataType] /\ ret \in [Proc -> RetType]
    BY NoDataType, Results DEF Init
  <2>5. stamp \in [Proc -> 0 .. Stamps - 1]
    BY DEF Init
  <2> QED
    BY <2>1, <2>2, <2>3, <2>4, <2>5 DEF TypeOK
<1>2. MutexDiscipline
  BY DEF Init, MutexDiscipline
<1>3. CallsOpen
  BY DEF Init, CallsOpen, Writing
<1>4. EmptyUnlessCrashed
  BY DEF Init, EmptyUnlessCrashed
<1> QED
  BY <1>1, <1>2, <1>3, <1>4 DEF IInv

-----------------------------------------------------------------------------
(* Steps outside the critical section.                                     *)

\* A call that is refused before it locks keeps the invariant.
LEMMA RefuseInv ==
  ASSUME IInv, NEW p \in Proc, NEW c \in Calls[p], Refuse(p, c)
  PROVE  IInv'
<1>1. ret' \in [Proc -> RetType]
  BY Results DEF IInv, TypeOK, Refuse
<1>2. UNCHANGED <<mutex, start, end, isEOF, isEmpty, buf, pc, call, data, stamp>>
  BY DEF Refuse, shared
<1>3. TypeOK'
  BY <1>1, <1>2 DEF IInv, TypeOK
<1>4. MutexDiscipline' /\ EmptyUnlessCrashed'
  BY <1>2 DEF IInv, MutexDiscipline, EmptyUnlessCrashed
<1>5. CallsOpen'
  BY <1>2 DEF IInv, CallsOpen, Writing, sizeDone
<1> QED
  BY <1>3, <1>4, <1>5 DEF IInv

\* A call that starts keeps the invariant.
LEMMA EnterInv ==
  ASSUME IInv, NEW p \in Proc, NEW c \in Calls[p], Enter(p, c)
  PROVE  IInv'
<1> DEFINE b == IF c.op = "write" THEN Payload(p, c.count) ELSE <<>>
<1>1. c \in CallRecord /\ c # NoCall /\ c.count \in Nat \ {0}
  BY DEF Enter, CallRecord
<1>2. b \in Seq(Byte) /\ (c.op = "write" => Len(b) = c.count)
  BY <1>1, PayloadType, EmptySeq DEF IInv, TypeOK
<1>3. NewData(b) \in DataType
  BY <1>2, NewDataType
<1>4. /\ pc' = [pc EXCEPT ![p] = "lock"]
      /\ call' = [call EXCEPT ![p] = c]
      /\ data' = [data EXCEPT ![p] = NewData(b)]
      /\ ret' = [ret EXCEPT ![p] = NoRet]
      /\ UNCHANGED <<mutex, start, end, isEOF, isEmpty, buf, stamp>>
  BY DEF Enter, shared
<1>5. pc[p] = "idle"
  BY DEF Enter
<1>6. NewData(b).bytes = b /\ NewData(b).sizeReallyManipulate = 0
  BY DEF NewData
<1> HIDE DEF b
<1>7. TypeOK'
  BY <1>1, <1>3, <1>4, Results DEF IInv, TypeOK, PCs
<1>8. MutexDiscipline' /\ EmptyUnlessCrashed'
  BY <1>4, <1>5 DEF IInv, TypeOK, MutexDiscipline, EmptyUnlessCrashed
<1>9. CallsOpen'
  BY <1>1, <1>2, <1>4, <1>6 DEF IInv, TypeOK, CallsOpen, Writing, sizeDone
<1> QED
  BY <1>7, <1>8, <1>9 DEF IInv

\* Getting the mutex, on entry, for a retry or after a wait, keeps it.
LEMMA AcquireInv ==
  ASSUME IInv, NEW p \in Proc, Acquire(p)
  PROVE  IInv'
<1>1. /\ mutex = Free /\ mutex' = p
      /\ pc' = [pc EXCEPT ![p] = "section"]
      /\ pc[p] \in {"lock", "relock", "unlocked"}
      /\ UNCHANGED <<start, end, isEOF, isEmpty, buf, call, data, stamp, ret>>
  BY DEF Acquire, shared
<1>2. sizeDone(p) < call[p].count
  <2>1. CASE pc[p] \in {"lock", "relock"}
    BY <2>1 DEF IInv, CallsOpen
  <2>2. CASE pc[p] = "unlocked" /\ rest(p) > 0
    <3>1. call[p] \in CallRecord
      BY <2>2 DEF IInv, TypeOK, CallsOpen
    <3>2. call[p].count \in Nat /\ sizeDone(p) \in Nat
      BY <3>1 DEF IInv, TypeOK, CallRecord, DataType, sizeDone
    <3> QED
      BY <2>2, <3>2 DEF rest
  <2> QED
    BY <2>1, <2>2 DEF Acquire
<1>3. TypeOK'
  BY <1>1 DEF IInv, TypeOK, PCs
<1>4. MutexDiscipline'
  BY <1>1 DEF IInv, TypeOK, MutexDiscipline
<1>5. EmptyUnlessCrashed'
  BY <1>1 DEF IInv, TypeOK, EmptyUnlessCrashed
<1>6. CallsOpen'
  BY <1>1, <1>2, Moving DEF IInv, TypeOK
<1> QED
  BY <1>3, <1>4, <1>5, <1>6 DEF IInv

\* A wakeup without a signal keeps it.
LEMMA SpuriousWakeupInv ==
  ASSUME IInv, NEW p \in Proc, SpuriousWakeup(p)
  PROVE  IInv'
<1>1. /\ pc' = [pc EXCEPT ![p] = "relock"]
      /\ pc[p] \in {"waitRead", "waitWrite"}
      /\ UNCHANGED <<mutex, start, end, isEOF, isEmpty, buf, call, data, stamp, ret>>
  BY DEF SpuriousWakeup, shared
<1>2. TypeOK'
  BY <1>1 DEF IInv, TypeOK, PCs
<1>3. MutexDiscipline' /\ EmptyUnlessCrashed'
  BY <1>1 DEF IInv, TypeOK, MutexDiscipline, EmptyUnlessCrashed
<1>4. sizeDone(p) < call[p].count
  BY <1>1 DEF IInv, CallsOpen
<1>5. CallsOpen'
  BY <1>1, <1>4, Moving DEF IInv, TypeOK
<1> QED
  BY <1>2, <1>3, <1>5 DEF IInv

(***************************************************************************)
(* A return keeps the invariant.                                           *)
(***************************************************************************)
LEMMA ReturnInv ==
  ASSUME IInv, NEW p \in Proc, NEW r \in RetType, Left(p, r)
  PROVE  IInv'
<1>1. TypeOK /\ CallsOpen
  BY DEF IInv
<1>2. /\ pc' \in [Proc -> PCs] /\ pc'[p] = "idle"
      /\ start' = start /\ end' = end /\ isEmpty' = isEmpty /\ buf' = buf
  BY DEF Left
<1>3. /\ call' \in [Proc -> CallRecord \cup {NoCall}]
      /\ data' \in [Proc -> DataType]
      /\ stamp' \in [Proc -> 0 .. Stamps - 1]
      /\ ret' \in [Proc -> RetType]
      /\ CallsOpen'
  BY <1>1, Leaving
<1>4. mutex' \in Proc \cup {Free} /\ isEOF' \in BOOLEAN
  BY DEF IInv, TypeOK, Left
<1>5. TypeOK'
  BY <1>2, <1>3, <1>4 DEF IInv, TypeOK
<1>6. MutexDiscipline'
  BY <1>2 DEF IInv, TypeOK, MutexDiscipline, Left
<1>7. EmptyUnlessCrashed'
  <2>1. \A q \in Proc : pc[q] = "crashed" => pc'[q] = "crashed"
    BY <1>2 DEF Left
  <2> QED
    BY <1>2, <2>1 DEF IInv, EmptyUnlessCrashed
<1> QED
  BY <1>3, <1>5, <1>6, <1>7 DEF IInv

-----------------------------------------------------------------------------
(* The critical section.                                                   *)

\* pthread_cond_signal wakes only threads that sleep on that condition.
LEMMA SignalledType ==
  ASSUME NEW queue, NEW woken \in Signalled(queue)
  PROVE  woken \subseteq Waiters(queue)
<1>1. CASE Waiters(queue) = {}
  BY <1>1 DEF Signalled
<1>2. CASE Waiters(queue) # {}
  BY <1>2 DEF Signalled
<1> QED
  BY <1>1, <1>2

\* One thread goes on, those it signalled wake up, the others stay.
LEMMA AdvanceType ==
  ASSUME TypeOK, NEW p \in Proc, NEW to \in PCs,
         NEW queue \in {"waitRead", "waitWrite"},
         NEW woken \in Signalled(queue), Advance(p, to, woken)
  PROVE  /\ pc' \in [Proc -> PCs] /\ pc'[p] = to
         /\ \A q \in Proc \ {p} :
              \/ pc'[q] = pc[q]
              \/ pc[q] \in {"waitRead", "waitWrite"} /\ pc'[q] = "relock"
<1>1. \A q \in woken : q \in Proc /\ pc[q] = queue
  BY SignalledType DEF Waiters
<1>2. pc' = [q \in Proc |-> IF q = p THEN to
                           ELSE IF q \in woken THEN "relock" ELSE pc[q]]
  BY DEF Advance
<1> QED
  BY <1>1, <1>2 DEF TypeOK, PCs

(***************************************************************************)
(* A thread in the section is inside a call, holds the mutex, and nobody   *)
(* has died there.                                                         *)
(***************************************************************************)
LEMMA InSection ==
  ASSUME IInv, NEW p \in Proc, pc[p] = "section"
  PROVE  /\ call[p] # NoCall /\ mutex = p
         /\ \A q \in Proc : pc[q] # "crashed"
         /\ \A q \in Proc \ {p} : pc[q] # "section"
         /\ isEmpty => start = end
  BY DEF IInv, MutexDiscipline, CallsOpen, EmptyUnlessCrashed

(***************************************************************************)
(* The actions that end a call.                                            *)
(***************************************************************************)
LEMMA EndOfCallInv ==
  ASSUME IInv, NEW p \in Proc,
         \/ TryLockBusy(p) \/ RetryBusy(p) \/ Finish(p)
         \/ WriteEof(p) \/ WriteAtEof(p) \/ WriteNoRoom(p)
         \/ ReadAtEof(p) \/ ReadNothing(p)
  PROVE  IInv'
<1>1. sizeDone(p) \in Nat
  BY DEF IInv, TypeOK, DataType, sizeDone
<1>2. ASSUME NEW r \in RetType, Return(p, r), call[p] # NoCall,
             \/ pc[p] = "section" /\ Unlock
             \/ pc[p] \in {"lock", "unlocked"} /\ mutex' = mutex,
             UNCHANGED shared
      PROVE  IInv'
  <2>1. /\ pc' \in [Proc -> PCs] /\ pc'[p] = "idle"
        /\ \A q \in Proc \ {p} : pc'[q] = pc[q]
    BY <1>2 DEF Return, IInv, TypeOK, PCs
  <2> QED
    <3>1. Left(p, r)
      BY <1>2, <2>1 DEF Left, Return, Unlock, shared, IInv, TypeOK
    <3> QED
      BY <3>1, ReturnInv
<1>3. CASE TryLockBusy(p)
  <2>1. call[p] # NoCall
    BY <1>3 DEF TryLockBusy, IInv, CallsOpen
  <2> QED
    BY <1>2, <1>3, <2>1, Results DEF TryLockBusy
<1>4. CASE RetryBusy(p) \/ Finish(p)
  <2>1. call[p] # NoCall
    BY <1>4 DEF RetryBusy, Finish, IInv, CallsOpen
  <2> QED
    BY <1>1, <1>2, <1>4, <2>1, Results DEF RetryBusy, Finish
<1>5. CASE WriteEof(p)
  <2>1. pc[p] = "section" /\ mutex' = Free /\ isEOF' = TRUE
    BY <1>5 DEF WriteEof, Inside, Unlock
  <2>2. call[p] # NoCall
    BY <2>1, InSection
  <2>3. PICK woken \in Signalled("waitRead") : Advance(p, "idle", woken)
    BY <1>5 DEF WriteEof
  <2>4. /\ pc' \in [Proc -> PCs] /\ pc'[p] = "idle"
        /\ \A q \in Proc \ {p} :
              \/ pc'[q] = pc[q]
              \/ pc[q] \in {"waitRead", "waitWrite"} /\ pc'[q] = "relock"
    BY <2>3, AdvanceType DEF IInv, PCs
  <2>5. /\ LeaveWith(p, Success(1)) /\ Success(1) \in RetType
        /\ UNCHANGED <<start, end, isEmpty, buf>>
    BY <1>5, Results DEF WriteEof
  <2>6. isEOF' \in BOOLEAN
    BY <2>1
  <2> QED
    <3>1. Left(p, Success(1))
      BY <2>1, <2>2, <2>4, <2>5, <2>6 DEF Left
    <3> QED
      BY <3>1, <2>5, ReturnInv
<1>6. CASE WriteAtEof(p) \/ WriteNoRoom(p) \/ ReadAtEof(p) \/ ReadNothing(p)
  <2>1. pc[p] = "section" /\ Unlock /\ UNCHANGED shared
    BY <1>6 DEF WriteAtEof, WriteNoRoom, ReadAtEof, ReadNothing, Inside
  <2>2. call[p] # NoCall
    BY <2>1, InSection
  <2>3. \E r \in RetType : Return(p, r)
    BY <1>1, <1>6, Results DEF WriteAtEof, WriteNoRoom, ReadAtEof, ReadNothing
  <2> QED
    BY <1>2, <2>1, <2>2, <2>3
<1> QED
  BY <1>3, <1>4, <1>5, <1>6

(***************************************************************************)
(* A writer that goes to sleep keeps the invariant.                        *)
(***************************************************************************)
LEMMA WriteWaitInv ==
  ASSUME IInv, NEW p \in Proc, WriteWait(p)
  PROVE  IInv'
<1>1. /\ pc[p] = "section" /\ mutex' = Free
      /\ pc' = [pc EXCEPT ![p] = "waitWrite"]
      /\ data' = [data EXCEPT ![p].passByMiddle = writePass(p)]
      /\ UNCHANGED <<start, end, isEOF, isEmpty, buf, call, stamp, ret>>
  BY DEF WriteWait, Inside, Unlock, shared
<1>2. /\ TypeOK /\ MutexDiscipline /\ CallsOpen
      /\ sizeDone(p) < call[p].count
      /\ isEmpty => start = end
  BY <1>1, InSection DEF IInv, CallsOpen
<1>3. writePass(p) \in BOOLEAN
  BY <1>2 DEF writePass, WritePasses, TypeOK, DataType
<1>4. data' \in [Proc -> DataType]
  <2> DEFINE d == [data[p] EXCEPT !.passByMiddle = writePass(p)]
  <2>1. data' = [data EXCEPT ![p] = d]
    BY <1>1
  <2>2. d \in DataType
    BY <1>2, <1>3, PassType DEF TypeOK
  <2> HIDE DEF d
  <2> QED
    BY <1>2, <2>1, <2>2 DEF TypeOK
<1>5. \A q \in Proc : /\ data'[q].bytes = data[q].bytes
                      /\ data'[q].sizeReallyManipulate = data[q].sizeReallyManipulate
  BY <1>1, <1>2 DEF TypeOK, DataType
<1>6. TypeOK'
  BY <1>1, <1>2, <1>4 DEF TypeOK, PCs
<1>7. MutexDiscipline'
  BY <1>1, <1>2 DEF TypeOK, MutexDiscipline
<1>8. EmptyUnlessCrashed'
  BY <1>1, <1>2 DEF EmptyUnlessCrashed
<1>9. CallsOpen'
  BY <1>1, <1>2, <1>5 DEF TypeOK, CallsOpen, Writing, sizeDone
<1> QED
  BY <1>6, <1>7, <1>8, <1>9 DEF IInv

\* A reader that goes to sleep keeps the invariant.
LEMMA ReadWaitInv ==
  ASSUME IInv, NEW p \in Proc, ReadWait(p)
  PROVE  IInv'
<1>1. /\ pc[p] = "section" /\ mutex' = Free
      /\ pc' = [pc EXCEPT ![p] = "waitRead"]
      /\ UNCHANGED <<start, end, isEOF, isEmpty, buf, call, data, stamp, ret>>
  BY DEF ReadWait, Inside, Unlock, shared
<1>2. /\ TypeOK /\ MutexDiscipline /\ CallsOpen
      /\ sizeDone(p) < call[p].count
      /\ isEmpty => start = end
  BY <1>1, InSection DEF IInv, CallsOpen
<1>3. TypeOK'
  BY <1>1, <1>2 DEF TypeOK, PCs
<1>4. MutexDiscipline'
  BY <1>1, <1>2 DEF TypeOK, MutexDiscipline
<1>5. EmptyUnlessCrashed'
  BY <1>1, <1>2 DEF EmptyUnlessCrashed
<1>6. CallsOpen'
  BY <1>1, <1>2, Moving DEF TypeOK
<1> QED
  BY <1>3, <1>4, <1>5, <1>6 DEF IInv

(***************************************************************************)
(* The bytes a round writes and the cells they go to.                      *)
(***************************************************************************)
LEMMA CopyInType ==
  ASSUME IInv, NEW p \in Proc, Inside(p, "write"), ~noRoom(p),
         NEW n \in 0 .. writeMoved(p), CopyIn(p, n)
  PROVE  buf' \in [Index -> Byte] /\ end' \in Index
<1>1. /\ TypeOK /\ CallsOpen /\ pc[p] = "section"
      /\ writeMoved(p) \in Nat \ {0}
      /\ IndexAfter(end, writePass(p), n) \in Index
      /\ \A c \in Index : ByteOfCell(end, writePass(p), n, c) \in 0 .. n
  BY WriterRound DEF IInv, Inside
<1>2. /\ Writing(p) /\ call[p] \in CallRecord /\ sizeDone(p) \in Nat
      /\ data[p].bytes \in Seq(Byte)
      /\ Len(data[p].bytes) = call[p].count
  <2>1. Writing(p)
    BY <1>1, InSection DEF Inside, Writing
  <2>2. call[p] \in CallRecord /\ sizeDone(p) \in Nat
    BY <1>1, RestType
  <2> QED
    BY <1>1, <2>1, <2>2 DEF TypeOK, DataType, CallsOpen
<1>3. ASSUME NEW k \in 1 .. n PROVE Outgoing(p, k) \in Byte
  <2>1. n \in Nat
    BY <1>1
  <2>2. CASE sizeDone(p) + k <= call[p].count
    <3>1. sizeDone(p) + k \in 1 .. Len(data[p].bytes)
      BY <1>2, <2>1, <2>2 DEF CallRecord
    <3>2. data[p].bytes[sizeDone(p) + k] \in Byte
      BY <1>2, <3>1, ElementOfSeq
    <3> QED
      BY <2>2, <3>2 DEF Outgoing
  <2>3. CASE ~(sizeDone(p) + k <= call[p].count)
    BY <2>3 DEF Outgoing, Byte
  <2> QED
    BY <2>2, <2>3
<1>4. buf' \in [Index -> Byte]
  <2>1. n \in Nat
    BY <1>1
  <2>2. ASSUME NEW c \in Index,
               NEW k, k = ByteOfCell(end, writePass(p), n, c)
        PROVE  (IF k = 0 THEN buf[c] ELSE Outgoing(p, k)) \in Byte
    <3>1. k \in 0 .. n
      BY <1>1, <2>2
    <3>2. CASE k = 0
      BY <1>1, <3>2 DEF TypeOK
    <3>3. CASE k # 0
      <4>1. k \in 1 .. n
        BY <2>1, <3>1, <3>3
      <4> QED
        BY <1>3, <4>1, <3>3
    <3> QED
      BY <3>2, <3>3
  <2> QED
    BY <2>2 DEF CopyIn
<1>5. end' \in Index
  BY <1>1 DEF CopyIn
<1> QED
  BY <1>4, <1>5

\* The bytes a round reads, and where start goes; the data of other threads
\* stay as they are.
LEMMA CopyOutType ==
  ASSUME IInv, NEW p \in Proc, Inside(p, "read"), ~isEmpty,
         NEW n \in 0 .. readMoved(p), CopyOut(p, n)
  PROVE  /\ start' \in Index
         /\ data' \in [Proc -> DataType]
         /\ \A q \in Proc \ {p} : data'[q] = data[q]
<1>1. /\ TypeOK
      /\ readPass(p) \in BOOLEAN /\ readSecond(p) \in Index
      /\ readMoved(p) \in Nat \ {0}
      /\ IndexAfter(start, readPass(p), n) \in Index
      /\ \A k \in 1 .. n : CellOf(start, readPass(p), k) \in Index
  BY ReaderRound DEF IInv
<1> DEFINE got == [k \in 1 .. n |-> buf[CellOf(start, readPass(p), k)]]
<1>2. n \in Nat
  BY <1>1
<1>3. got \in Seq(Byte)
  <2>1. got \in [1 .. n -> Byte]
    BY <1>1 DEF TypeOK
  <2> QED
    BY <1>2, <2>1, FunctionIsSeq
<1>4. data[p] \in DataType /\ data[p].bytes \in Seq(Byte)
      /\ data[p].sizeReallyManipulate \in Nat
  BY <1>1 DEF TypeOK, DataType
<1>5. data[p].bytes \o got \in Seq(Byte)
  BY <1>3, <1>4, ConcatProperties
<1>6. data' = [data EXCEPT ![p].bytes = @ \o got,
                           ![p].sizeReallyManipulate = @ + n,
                           ![p].secondLimitLoop = readSecond(p),
                           ![p].passByMiddle = PassForNextRound(readPass(p))]
  BY DEF CopyOut
<1> HIDE DEF got
<1>7. data' = [data EXCEPT ![p] =
                 [data[p] EXCEPT !.bytes = data[p].bytes \o got,
                                 !.sizeReallyManipulate = data[p].sizeReallyManipulate + n,
                                 !.secondLimitLoop = readSecond(p),
                                 !.passByMiddle = FALSE]]
  BY <1>1, <1>6 DEF TypeOK, DataType, PassForNextRound
<1>8. data' \in [Proc -> DataType]
  <2> DEFINE d == [data[p] EXCEPT
                     !.bytes = data[p].bytes \o got,
                     !.sizeReallyManipulate = data[p].sizeReallyManipulate + n,
                     !.secondLimitLoop = readSecond(p),
                     !.passByMiddle = FALSE]
  <2>1. data[p].sizeReallyManipulate + n \in Nat
    BY <1>2, <1>4
  <2>2. d \in DataType
    BY <1>1, <1>4, <1>5, <2>1, RoundType
  <2>3. data' = [data EXCEPT ![p] = d]
    BY <1>7
  <2> HIDE DEF d
  <2> QED
    BY <1>1, <2>2, <2>3 DEF TypeOK
<1>9. \A q \in Proc \ {p} : data'[q] = data[q]
  BY <1>1, <1>7 DEF TypeOK
<1>10. start' \in Index
  BY <1>1 DEF CopyOut
<1> QED
  BY <1>8, <1>9, <1>10

(***************************************************************************)
(* A round that completes.                                                 *)
(***************************************************************************)
LEMMA WriteRoundInv ==
  ASSUME IInv, NEW p \in Proc, WriteRound(p)
  PROVE  IInv'
<1>1. /\ Inside(p, "write") /\ ~noRoom(p) /\ CopyIn(p, writeMoved(p))
      /\ mutex' = Free /\ UNCHANGED <<start, isEOF, call, stamp, ret>>
      /\ isEmpty' = EmptyAfterWrite(sizeDone(p) + writeMoved(p))
  BY DEF WriteRound, Unlock
<1>2. /\ TypeOK /\ MutexDiscipline /\ CallsOpen
      /\ pc[p] = "section" /\ sizeDone(p) \in Nat
      /\ call[p] # NoCall
      /\ \A q \in Proc : pc[q] # "crashed"
      /\ \A q \in Proc \ {p} : pc[q] # "section"
  BY <1>1, InSection, RestType DEF IInv, Inside
<1>3. writeSecond(p) \in Index /\ writeMoved(p) \in Nat \ {0}
  BY <1>1, WriterRound
<1>4. buf' \in [Index -> Byte] /\ end' \in Index
  BY <1>1, <1>3, CopyInType
<1>5. isEmpty' = FALSE
  BY <1>1, <1>2, <1>3 DEF EmptyAfterWrite
<1>6. PICK woken \in Signalled("waitRead") : Advance(p, "unlocked", woken)
  BY DEF WriteRound
<1>7. /\ pc' \in [Proc -> PCs] /\ pc'[p] = "unlocked"
      /\ \A q \in Proc \ {p} :
           \/ pc'[q] = pc[q]
           \/ pc[q] \in {"waitRead", "waitWrite"} /\ pc'[q] = "relock"
  BY <1>2, <1>6, AdvanceType DEF PCs
<1>8. /\ data' \in [Proc -> DataType]
      /\ \A q \in Proc \ {p} : data'[q] = data[q]
      /\ data'[p].bytes = data[p].bytes
  <2> DEFINE done == sizeDone(p) + writeMoved(p)
  <2> DEFINE d == [data[p] EXCEPT !.bytes = data[p].bytes,
                                  !.sizeReallyManipulate = done,
                                  !.secondLimitLoop = writeSecond(p),
                                  !.passByMiddle = FALSE]
  <2>1. data[p] \in DataType /\ data[p].bytes \in Seq(Byte)
    BY <1>2 DEF TypeOK, DataType
  <2>2. done \in Nat
    BY <1>2, <1>3
  <2>3. d \in DataType
    BY <1>3, <2>1, <2>2, RoundType
  <2>4. data' = [data EXCEPT ![p] = d]
    <3>1. data' = [data EXCEPT ![p].sizeReallyManipulate = @ + writeMoved(p),
                               ![p].secondLimitLoop = writeSecond(p),
                               ![p].passByMiddle = FALSE]
      BY DEF WriteRound, PassForNextRound
    <3> QED
      BY <1>2, <2>1, <3>1 DEF TypeOK, DataType, sizeDone
  <2>5. d.bytes = data[p].bytes
    BY <2>1 DEF DataType
  <2> HIDE DEF d
  <2> QED
    BY <1>2, <2>3, <2>4, <2>5 DEF TypeOK
<1>9. TypeOK'
  BY <1>1, <1>2, <1>4, <1>5, <1>7, <1>8 DEF TypeOK
<1>10. MutexDiscipline'
  BY <1>1, <1>2, <1>7 DEF TypeOK, MutexDiscipline
<1>11. EmptyUnlessCrashed'
  BY <1>5 DEF EmptyUnlessCrashed
<1>12. CallsOpen'
  BY <1>1, <1>2, <1>7, <1>8 DEF CallsOpen, Writing, sizeDone
<1> QED
  BY <1>9, <1>10, <1>11, <1>12 DEF IInv

\* A round of a reader keeps the invariant.
LEMMA ReadRoundInv ==
  ASSUME IInv, NEW p \in Proc, ReadRound(p)
  PROVE  IInv'
<1>1. /\ Inside(p, "read") /\ ~isEmpty /\ CopyOut(p, readMoved(p))
      /\ mutex' = Free /\ UNCHANGED <<end, isEOF, buf, call, stamp, ret>>
      /\ isEmpty' = EmptyAfterRead(IndexAfter(start, readPass(p), readMoved(p)))
  BY DEF ReadRound, Unlock
<1>2. /\ TypeOK /\ MutexDiscipline /\ CallsOpen
      /\ pc[p] = "section" /\ call[p] # NoCall /\ ~Writing(p)
      /\ \A q \in Proc : pc[q] # "crashed"
      /\ \A q \in Proc \ {p} : pc[q] # "section"
  BY <1>1, InSection DEF IInv, Inside, Writing
<1>3. readMoved(p) \in Nat \ {0}
  BY <1>1, ReaderRound
<1>4. /\ start' \in Index
      /\ data' \in [Proc -> DataType]
      /\ \A q \in Proc \ {p} : data'[q] = data[q]
  BY <1>1, <1>3, CopyOutType
<1>5. isEmpty' \in BOOLEAN /\ (isEmpty' => start' = end')
  BY <1>1 DEF EmptyAfterRead, CopyOut
<1>6. PICK woken \in Signalled("waitWrite") : Advance(p, "unlocked", woken)
  BY DEF ReadRound
<1>7. /\ pc' \in [Proc -> PCs] /\ pc'[p] = "unlocked"
      /\ \A q \in Proc \ {p} :
           \/ pc'[q] = pc[q]
           \/ pc[q] \in {"waitRead", "waitWrite"} /\ pc'[q] = "relock"
  BY <1>2, <1>6, AdvanceType DEF PCs
<1>8. TypeOK'
  BY <1>1, <1>2, <1>4, <1>5, <1>7 DEF TypeOK
<1>9. MutexDiscipline'
  BY <1>1, <1>2, <1>7 DEF TypeOK, MutexDiscipline
<1>10. EmptyUnlessCrashed'
  BY <1>5 DEF EmptyUnlessCrashed
<1>11. CallsOpen'
  BY <1>1, <1>2, <1>4, <1>7 DEF CallsOpen, Writing, sizeDone
<1> QED
  BY <1>8, <1>9, <1>10, <1>11 DEF IInv

(***************************************************************************)
(* A round that dies past the caller's iovec: the mutex stays taken, and   *)
(* the indices may no longer agree with isEmpty.                           *)
(***************************************************************************)
LEMMA WriteCrashInv ==
  ASSUME IInv, NEW p \in Proc, WriteCrash(p)
  PROVE  IInv'
<1>1. /\ Inside(p, "write") /\ ~noRoom(p) /\ CopyIn(p, rest(p))
      /\ writeMoved(p) > rest(p)
      /\ pc' = [pc EXCEPT ![p] = "crashed"]
      /\ UNCHANGED <<mutex, start, isEOF, isEmpty, call, data, stamp, ret>>
  BY DEF WriteCrash
<1>2. /\ TypeOK /\ MutexDiscipline /\ CallsOpen
      /\ pc[p] = "section" /\ sizeDone(p) < call[p].count
  BY <1>1, InSection DEF IInv, Inside, CallsOpen
<1>3. rest(p) \in 0 .. writeMoved(p)
  BY <1>1, <1>2, WriterRound, RestType
<1>4. buf' \in [Index -> Byte] /\ end' \in Index
  BY <1>1, <1>3, CopyInType
<1>5. TypeOK'
  BY <1>1, <1>2, <1>4 DEF TypeOK, PCs
<1>6. MutexDiscipline'
  BY <1>1, <1>2 DEF TypeOK, MutexDiscipline
<1>7. EmptyUnlessCrashed'
  BY <1>1, <1>2 DEF TypeOK, EmptyUnlessCrashed
<1>8. CallsOpen'
  BY <1>1, <1>2, Moving DEF TypeOK
<1> QED
  BY <1>5, <1>6, <1>7, <1>8 DEF IInv

\* The same for a reader.
LEMMA ReadCrashInv ==
  ASSUME IInv, NEW p \in Proc, ReadCrash(p)
  PROVE  IInv'
<1>1. /\ Inside(p, "read") /\ ~isEmpty /\ CopyOut(p, rest(p))
      /\ readMoved(p) > rest(p)
      /\ pc' = [pc EXCEPT ![p] = "crashed"]
      /\ UNCHANGED <<mutex, end, isEOF, isEmpty, buf, call, stamp, ret>>
  BY DEF ReadCrash
<1>2. /\ TypeOK /\ MutexDiscipline /\ CallsOpen
      /\ pc[p] = "section" /\ call[p] # NoCall /\ ~Writing(p)
  BY <1>1, InSection DEF IInv, Inside, Writing
<1>3. rest(p) \in 0 .. readMoved(p)
  BY <1>1, <1>2, ReaderRound, RestType
<1>4. /\ start' \in Index
      /\ data' \in [Proc -> DataType]
      /\ \A q \in Proc \ {p} : data'[q] = data[q]
  BY <1>1, <1>3, CopyOutType
<1>5. TypeOK'
  BY <1>1, <1>2, <1>4 DEF TypeOK, PCs
<1>6. MutexDiscipline'
  BY <1>1, <1>2 DEF TypeOK, MutexDiscipline
<1>7. EmptyUnlessCrashed'
  BY <1>1, <1>2 DEF TypeOK, EmptyUnlessCrashed
<1>8. CallsOpen'
  BY <1>1, <1>2, <1>4 DEF TypeOK, CallsOpen, Writing, sizeDone
<1> QED
  BY <1>5, <1>6, <1>7, <1>8 DEF IInv

-----------------------------------------------------------------------------
(* The inductive invariant and its consequences.                           *)

\* Every step of the library keeps the inductive invariant.
LEMMA NextInv == IInv /\ [Next]_vars => IInv'
<1> SUFFICES ASSUME IInv, [Next]_vars PROVE IInv'
  OBVIOUS
<1>1. CASE UNCHANGED vars
  BY <1>1 DEF vars, shared, IInv, TypeOK, MutexDiscipline, CallsOpen,
              EmptyUnlessCrashed, Writing, sizeDone
<1>2. ASSUME NEW p \in Proc, Invoke(p) PROVE IInv'
  <2>1. PICK c \in Calls[p] : Refuse(p, c) \/ Enter(p, c)
    BY <1>2 DEF Invoke
  <2> QED
    BY <2>1, RefuseInv, EnterInv
<1>3. ASSUME NEW p \in Proc, Acquire(p) PROVE IInv'
  BY <1>3, AcquireInv
<1>4. ASSUME NEW p \in Proc, SpuriousWakeup(p) PROVE IInv'
  BY <1>4, SpuriousWakeupInv
<1>5. ASSUME NEW p \in Proc, Step(p) PROVE IInv'
  <2>1. CASE \/ TryLockBusy(p) \/ RetryBusy(p) \/ Finish(p)
             \/ WriteEof(p) \/ WriteAtEof(p) \/ WriteNoRoom(p)
             \/ ReadAtEof(p) \/ ReadNothing(p)
    BY <2>1, EndOfCallInv
  <2>2. CASE WriteWait(p)
    BY <2>2, WriteWaitInv
  <2>3. CASE WriteRound(p)
    BY <2>3, WriteRoundInv
  <2>4. CASE WriteCrash(p)
    BY <2>4, WriteCrashInv
  <2>5. CASE ReadWait(p)
    BY <2>5, ReadWaitInv
  <2>6. CASE ReadRound(p)
    BY <2>6, ReadRoundInv
  <2>7. CASE ReadCrash(p)
    BY <2>7, ReadCrashInv
  <2> QED
    BY <1>5, <2>1, <2>2, <2>3, <2>4, <2>5, <2>6, <2>7 DEF Step, Section
<1> QED
  BY <1>1, <1>2, <1>3, <1>4, <1>5 DEF Next

\* The inductive invariant holds in every state any threads can reach.
THEOREM Invariant == Spec => []IInv
<1>1. Init => IInv
  BY InitInv
<1>2. IInv /\ [Next]_vars => IInv'
  BY NextInv
<1> QED
  BY <1>1, <1>2, PTL DEF Spec

\* Types and ranges, whatever the callers ask for: stale limits of an earlier
\* round may move the wrong number of bytes, but start and end stay inside the
\* buffer and no copy touches a cell outside of it.
THEOREM TypeCorrect == Spec => []TypeOK
<1>1. IInv => TypeOK
  BY DEF IInv
<1> QED
  BY <1>1, Invariant, PTL

\* Every path through the two big functions that returns or sleeps has
\* released the mutex exactly once, and only its holder is in the section.
THEOREM MutualExclusion == Spec => []MutexDiscipline
<1>1. IInv => MutexDiscipline
  BY DEF IInv
<1> QED
  BY <1>1, Invariant, PTL

\* What conduct.c:62 says of isEmpty is true whenever the mutex is free.
THEOREM EmptyIndices == Spec => []EmptyMeansSameIndex
<1>1. IInv => EmptyMeansSameIndex
  <2> SUFFICES ASSUME IInv, isEmpty, mutex = Free PROVE start = end
    BY DEF EmptyMeansSameIndex
  <2>1. \A p \in Proc : pc[p] # "crashed"
    BY DEF IInv, MutexDiscipline
  <2> QED
    BY <2>1 DEF IInv, EmptyUnlessCrashed
<1> QED
  BY <1>1, Invariant, PTL
=============================================================================
