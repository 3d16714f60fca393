------------------------- MODULE ConductFifoProofs -------------------------
(***************************************************************************)
(* conduct.c is the queue of ConductFifo, loses no wakeup and keeps        *)
(* records whole, for any size of the buffer, in the two ways of using it  *)
(* that keep the limits of a call fresh from one round to the next:        *)
(*                                                                         *)
(*   OneEachSide  one thread writes and one thread reads, calls of several *)
(*                rounds, none of them longer than the buffer;             *)
(*   Records      any number of threads exchange records of exactly the    *)
(*                atomic limit, which divides the size of the buffer.      *)
(*                                                                         *)
(* Used in another way it is not: the run conduct_stale_pass is the        *)
(* counterexample.                                                         *)
(***************************************************************************)
EXTENDS ConductProofs, FiniteSetTheorems

USE SizeAssumption

OneEachSide ==
  \A p, q \in Proc : \A c \in Calls[p], d \in Calls[q] :
    /\ c.count <= SizeMax
    /\ (c.op = "read" <=> d.op = "read") => p = q

\* `At the start of a record'.
Multiple(x) == \E k \in Nat : x = k * SizeAtom

Records ==
  /\ Multiple(SizeMax)
  /\ \A p \in Proc : \A c \in Calls[p] :
       c.op \in {"read", "write"} => c.count \in {0, SizeAtom}

NoEofCalls == \A p \in Proc : \A c \in Calls[p] : c.op # "write_eof"

-----------------------------------------------------------------------------
(* What the proofs need besides IInv, in every use of the conduit: how far *)
(* a call is says where its thread can be.                                 *)
TidyAt(p) ==
  /\ call[p] # NoCall => call[p] \in Calls[p]
  /\ pc[p] \in {"idle", "lock"} => sizeDone(p) = 0
  /\ pc[p] = "unlocked" => retry(p)
  /\ pc[p] = "waitRead" => Reading(p)
  /\ pc[p] = "waitWrite" => Writing(p)
  /\ Reading(p) => Len(data[p].bytes) = sizeDone(p)

Tidy == \A p \in Proc : TidyAt(p)

Base == IInv /\ Tidy

\* The next round of p, if it comes to one, is exact.
WriterExact(p) ==
  Inside(p, "write") /\ ~noRoom(p) =>
    ExactRound(end, writeSize(p), writePass(p), writeSecond(p))

ReaderExact(p) ==
  Inside(p, "read") /\ ~isEmpty =>
    ExactRound(start, readSize(p), readPass(p), readSecond(p))

Exact == \A p \in Proc : WriterExact(p) /\ ReaderExact(p)

-----------------------------------------------------------------------------
(* One thread on each side.  Once a call has passed the last cell, the     *)
(* index of its side stays behind what the call has moved, so a call that  *)
(* is no longer than the buffer passes at most once.                       *)
Alone(p) ==
  /\ Writing(p) =>
       /\ data[p].secondLimitLoop > 0 => end < sizeDone(p)
       /\ data[p].passByMiddle => end + writeSize(p) >= SizeMax
  /\ Reading(p) =>
       /\ data[p].secondLimitLoop > 0 => start < sizeDone(p)
       /\ ~data[p].passByMiddle
  /\ call[p] # NoCall => sizeDone(p) <= call[p].count
  /\ pc[p] = "waitRead" => isEmpty /\ ~isEOF
  /\ pc[p] = "waitWrite" => ~isEOF /\ noRoom(p)

AloneInv == \A p \in Proc : Alone(p)

-----------------------------------------------------------------------------
(* Records.                                                                *)
WholeRecord(b) ==
  /\ Len(b) = SizeAtom
  /\ \E w \in Proc, s \in 0 .. Stamps - 1 :
       b = [i \in 1 .. SizeAtom |-> <<w, (s + i - 1) % Stamps>>]

\* A call is one round, before which it has moved nothing; the indices stay at
\* starts of records, so no flag and no second limit is ever set.
RecordCall(p) ==
  /\ data[p].secondLimitLoop = 0 /\ ~data[p].passByMiddle
  /\ call[p] # NoCall =>
       IF call[p].op = "write_eof" THEN sizeDone(p) = 0
       ELSE call[p].count = SizeAtom /\ sizeDone(p) \in {0, SizeAtom}
  /\ pc[p] = "unlocked" => sizeDone(p) = SizeAtom
  /\ Writing(p) => WholeRecord(data[p].bytes)
  /\ Reading(p) /\ retry(p) => WholeRecord(data[p].bytes)

\* The queue is made of whole records.
MadeOfRecords(queue) ==
  \A m \in Nat : Multiple(m) /\ m < Len(queue) =>
    /\ m + SizeAtom <= Len(queue)
    /\ \E w \in Proc, s \in 0 .. Stamps - 1 :
         \A i \in 1 .. SizeAtom : queue[m + i] = <<w, (s + i - 1) % Stamps>>

RecordInv ==
  /\ Multiple(start) /\ Multiple(end)
  /\ \A p \in Proc : RecordCall(p)
  /\ MadeOfRecords(Contents(buf, start, end, isEmpty))

\* Threads that were woken, or have come in, and will look at the buffer.
AwakeReaders == {p \in Proc : Reading(p) /\ Awake(p)}
AwakeWriters == {p \in Proc : Writing(p) /\ Awake(p)}

\* While anybody sleeps, there is somebody awake for each record, or each place
\* for one, in the buffer.
EnoughReaders ==
  Waiters("waitRead") # {} =>
    Used(start, end, isEmpty) <= SizeAtom * Cardinality(AwakeReaders)
EnoughWriters ==
  Waiters("waitWrite") # {} =>
    SizeMax - Used(start, end, isEmpty) <= SizeAtom * Cardinality(AwakeWriters)

EnoughAwake == EnoughReaders /\ EnoughWriters

-----------------------------------------------------------------------------
(* What a step does to the thread that takes it, and to the others.        *)

\* The other threads keep their call and their data, and stay where they are
\* unless they are woken.
Others(p) ==
  \A q \in Proc \ {p} :
    /\ call'[q] = call[q] /\ data'[q] = data[q]
    /\ \/ pc'[q] = pc[q]
       \/ pc[q] \in {"waitRead", "waitWrite"} /\ pc'[q] = "relock"

\* The actions of p that end its call without touching the buffer or isEOF.
Gives(p) ==
  \/ TryLockBusy(p) \/ RetryBusy(p) \/ Finish(p)
  \/ WriteAtEof(p) \/ WriteNoRoom(p) \/ ReadAtEof(p) \/ ReadNothing(p)

\* p is outside of the library.
Gone(p) ==
  /\ call' = [call EXCEPT ![p] = NoCall]
  /\ data' = [data EXCEPT ![p] = NoData]

LEMMA GivesUp ==
  ASSUME NEW p \in Proc, Gives(p)
  PROVE  /\ pc' = [pc EXCEPT ![p] = "idle"] /\ Gone(p)
         /\ UNCHANGED <<start, end, isEOF, isEmpty, buf>>
  BY DEF Gives, TryLockBusy, RetryBusy, Finish, WriteAtEof, WriteNoRoom, ReadAtEof,
         ReadNothing, Return, LeaveWith, Gone, shared

\* After the mark is written, its writer is gone and maybe a reader awake.
LEMMA MarksEof ==
  ASSUME IInv, NEW p \in Proc, WriteEof(p)
  PROVE  /\ Gone(p) /\ isEOF' = TRUE /\ Others(p)
         /\ pc'[p] = "idle"
         /\ UNCHANGED <<start, end, isEmpty, buf>>
<1>1. PICK woken \in Signalled("waitRead") : Advance(p, "idle", woken)
  BY DEF WriteEof
<1>2. /\ pc'[p] = "idle"
      /\ \A q \in Proc \ {p} :
           \/ pc'[q] = pc[q]
           \/ pc[q] \in {"waitRead", "waitWrite"} /\ pc'[q] = "relock"
  BY <1>1, AdvanceType DEF IInv, PCs
<1>. QED  BY <1>2 DEF WriteEof, LeaveWith, Gone, Others, IInv, TypeOK

\* The fields of struct dataCirularBuffer after a round of a writer.
LEMMA WriterData ==
  ASSUME IInv, NEW p \in Proc, WriteRound(p)
  PROVE  /\ Others(p) /\ pc'[p] = "unlocked" /\ UNCHANGED call
         /\ data'[p].bytes = data[p].bytes
         /\ sizeDone(p)' = sizeDone(p) + writeMoved(p)
         /\ data'[p].secondLimitLoop = writeSecond(p)
         /\ data'[p].passByMiddle = FALSE
<1>1. PICK woken \in Signalled("waitRead") : Advance(p, "unlocked", woken)
  BY DEF WriteRound
<1>2. /\ pc'[p] = "unlocked"
      /\ \A q \in Proc \ {p} :
           \/ pc'[q] = pc[q]
           \/ pc[q] \in {"waitRead", "waitWrite"} /\ pc'[q] = "relock"
  BY <1>1, AdvanceType DEF IInv, PCs
<1>3. /\ data' = [data EXCEPT ![p].sizeReallyManipulate = @ + writeMoved(p),
                              ![p].secondLimitLoop = writeSecond(p),
                              ![p].passByMiddle = FALSE]
      /\ data \in [Proc -> DataType]
  BY DEF WriteRound, PassForNextRound, IInv, TypeOK
<1>. QED  BY <1>2, <1>3 DEF WriteRound, Others, DataType, sizeDone

\* And those CopyOut leaves behind when it has moved n bytes, got.
CopiesOut(p, n, got) ==
  /\ data'[p].bytes = data[p].bytes \o got
  /\ data'[p].sizeReallyManipulate = data[p].sizeReallyManipulate + n
  /\ data'[p].secondLimitLoop = readSecond(p)
  /\ data'[p].passByMiddle = FALSE
  /\ \A q \in Proc \ {p} : data'[q] = data[q]

LEMMA CopyingOut ==
  ASSUME IInv, NEW p \in Proc, NEW n, CopyOut(p, n)
  PROVE  CopiesOut(p, n, [k \in 1 .. n |-> buf[CellOf(start, readPass(p), k)]])
<1>. DEFINE got == [k \in 1 .. n |-> buf[CellOf(start, readPass(p), k)]]
<1>1. /\ data' = [data EXCEPT ![p].bytes = @ \o got,
                              ![p].sizeReallyManipulate = @ + n,
                              ![p].secondLimitLoop = readSecond(p),
                              ![p].passByMiddle = FALSE]
      /\ data \in [Proc -> DataType]
  BY DEF CopyOut, PassForNextRound, IInv, TypeOK
<1>. HIDE DEF got
<1>2. CopiesOut(p, n, got)  BY <1>1 DEF DataType, CopiesOut
<1>. QED  BY <1>2 DEF got

\* After a round of a reader.
LEMMA ReaderData ==
  ASSUME IInv, NEW p \in Proc, ReadRound(p)
  PROVE  /\ Others(p) /\ pc'[p] = "unlocked" /\ UNCHANGED call
         /\ sizeDone(p)' = sizeDone(p) + readMoved(p)
         /\ data'[p].secondLimitLoop = readSecond(p)
         /\ data'[p].passByMiddle = FALSE
<1>1. PICK woken \in Signalled("waitWrite") : Advance(p, "unlocked", woken)
  BY DEF ReadRound
<1>2. /\ pc'[p] = "unlocked"
      /\ \A q \in Proc \ {p} :
           \/ pc'[q] = pc[q]
           \/ pc[q] \in {"waitRead", "waitWrite"} /\ pc'[q] = "relock"
  BY <1>1, AdvanceType DEF IInv, PCs
<1>3. PICK got : CopiesOut(p, readMoved(p), got)  BY CopyingOut DEF ReadRound
<1>. QED  BY <1>2, <1>3 DEF ReadRound, Others, sizeDone, CopiesOut

\* The bytes of the round follow those the reader has.
LEMMA ReaderBytes ==
  ASSUME IInv, NEW p \in Proc, ReadRound(p)
  PROVE  data'[p].bytes = data[p].bytes \o
           [k \in 1 .. readMoved(p) |-> buf[CellOf(start, readPass(p), k)]]
  BY CopyingOut DEF ReadRound, CopiesOut

\* Steps of p that move no byte and leave the call open.
Waits(p) ==
  \/ Acquire(p) \/ SpuriousWakeup(p) \/ ReadWait(p)

LEMMA Stays ==
  ASSUME IInv, NEW p \in Proc, Waits(p)
  PROVE  /\ Others(p)
         /\ UNCHANGED <<start, end, isEOF, isEmpty, buf, call, data>>
         /\ \/ pc[p] \in {"lock", "relock"} /\ pc'[p] = "section"
            \/ pc[p] = "unlocked" /\ rest(p) > 0 /\ pc'[p] = "section"
            \/ pc[p] \in {"waitRead", "waitWrite"} /\ pc'[p] = "relock"
            \/ ReadWait(p) /\ pc[p] = "section" /\ pc'[p] = "waitRead"
<1>1. pc \in [Proc -> PCs]  BY DEF IInv, TypeOK
<1>2. CASE Acquire(p)  BY <1>1, <1>2 DEF Acquire, shared, Others
<1>3. CASE SpuriousWakeup(p)  BY <1>1, <1>3 DEF SpuriousWakeup, shared, Others
<1>4. CASE ReadWait(p)  BY <1>1, <1>4 DEF ReadWait, Inside, shared, Others
<1>. QED  BY <1>2, <1>3, <1>4 DEF Waits

\* A writer that goes to sleep keeps the flag.
LEMMA Sleeps ==
  ASSUME IInv, NEW p \in Proc, WriteWait(p)
  PROVE  /\ Others(p) /\ pc'[p] = "waitWrite"
         /\ UNCHANGED <<start, end, isEOF, isEmpty, buf, call>>
         /\ data'[p].bytes = data[p].bytes
         /\ sizeDone(p)' = sizeDone(p)
         /\ data'[p].secondLimitLoop = data[p].secondLimitLoop
         /\ data'[p].passByMiddle = writePass(p)
  BY DEF WriteWait, shared, Others, sizeDone, IInv, TypeOK, DataType

\* What a call starts with.
LEMMA Enters ==
  ASSUME IInv, NEW p \in Proc, NEW c \in Calls[p], Enter(p, c)
  PROVE  /\ Others(p) /\ pc'[p] = "lock" /\ call'[p] = c
         /\ UNCHANGED <<start, end, isEOF, isEmpty, buf>>
         /\ c.count > 0 /\ ~(c.op # "read" /\ isEOF)
         /\ data'[p].bytes = IF c.op = "write" THEN Payload(p, c.count) ELSE <<>>
         /\ sizeDone(p)' = 0
         /\ data'[p].secondLimitLoop = 0
         /\ data'[p].passByMiddle = FALSE
  BY DEF Enter, shared, Others, sizeDone, IInv, TypeOK, NewData

\* The others of a thread that returns.
LEMMA GoneOthers ==
  ASSUME IInv, NEW p \in Proc, Gone(p)
  PROVE  /\ call'[p] = NoCall /\ data'[p] = NoData /\ sizeDone(p)' = 0
         /\ pc' = [pc EXCEPT ![p] = "idle"] => Others(p) /\ pc'[p] = "idle"
  BY DEF Gone, Others, sizeDone, IInv, TypeOK, NoData, NewData

\* A thread is tidy as long as others step.
LEMMA OthersTidy ==
  ASSUME Tidy, NEW p \in Proc, Others(p), TidyAt(p)'
  PROVE  Tidy'
<1>1. ASSUME NEW q \in Proc, q # p PROVE TidyAt(q)'
  <2>1. TidyAt(q)  BY DEF Tidy
  <2>2. /\ call'[q] = call[q] /\ data'[q] = data[q]
        /\ pc'[q] = pc[q] \/ pc'[q] = "relock"
    BY <1>1 DEF Others
  <2>. QED  BY <2>1, <2>2 DEF TidyAt, sizeDone, retry, Reading, Writing
<1>. QED  BY <1>1 DEF Tidy

\* The bytes read so far are as many as were counted.
LEMMA ReaderCounts ==
  ASSUME IInv, NEW p \in Proc, Inside(p, "read"), ~isEmpty,
         NEW n \in 0 .. readMoved(p),
         Len(data[p].bytes) = sizeDone(p),
         data'[p].bytes = data[p].bytes \o
           [k \in 1 .. n |-> buf[CellOf(start, readPass(p), k)]]
  PROVE  Len(data'[p].bytes) = sizeDone(p) + n
<1>. DEFINE got == [k \in 1 .. n |-> buf[CellOf(start, readPass(p), k)]]
<1>1. /\ readMoved(p) \in Nat
      /\ \A k \in 1 .. n : CellOf(start, readPass(p), k) \in Index
  BY ReaderRound
<1>2. got \in [1 .. n -> Byte] /\ n \in Nat
  BY <1>1 DEF IInv, TypeOK
<1>3. got \in Seq(Byte) /\ Len(got) = n
  BY <1>2, FunctionIsSeq
<1>4. data[p].bytes \in Seq(Byte)
  BY DEF IInv, TypeOK, DataType
<1>. HIDE DEF got
<1>5. Len(data[p].bytes \o got) = Len(data[p].bytes) + Len(got)
  BY <1>3, <1>4, ConcatProperties
<1>. QED  BY <1>3, <1>5 DEF got

LEMMA TidyNext ==
  ASSUME Base, NEW p \in Proc, Invoke(p) \/ Acquire(p) \/ Step(p) \/ SpuriousWakeup(p)
  PROVE  Tidy'
<1>1. IInv /\ Tidy /\ TidyAt(p) /\ sizeDone(p) \in Nat
  BY DEF Base, Tidy, IInv, TypeOK, DataType, sizeDone
<1>. USE DEF TidyAt, retry, Reading, Writing
<1>2. CASE \E c \in Calls[p] : Refuse(p, c)
  BY <1>1, <1>2 DEF Refuse, shared, Tidy, sizeDone
<1>3. ASSUME NEW c \in Calls[p], Enter(p, c) PROVE Tidy'
  <2>1. c.op = "read" => Len(data'[p].bytes) = 0
    BY <1>1, <1>3, Enters, EmptySeq
  <2>2. TidyAt(p)'
    BY <1>1, <1>3, <2>1, Enters
  <2>. QED  BY <1>1, <1>3, <2>2, Enters, OthersTidy
<1>4. CASE Gives(p)
  <2>1. TidyAt(p)'  BY <1>1, <1>4, GivesUp, GoneOthers
  <2>. QED  BY <1>1, <1>4, <2>1, GivesUp, GoneOthers, OthersTidy
<1>5. CASE WriteEof(p)
  <2>1. TidyAt(p)'  BY <1>1, <1>5, MarksEof, GoneOthers
  <2>. QED  BY <1>1, <1>5, <2>1, MarksEof, OthersTidy
<1>6. CASE Waits(p)
  <2>1. ReadWait(p) => Reading(p)
    BY <1>1, InSection DEF ReadWait, Inside
  <2>2. TidyAt(p)'  BY <1>1, <1>6, <2>1, Stays DEF sizeDone
  <2>. QED  BY <1>1, <1>6, <2>2, Stays, OthersTidy
<1>7. CASE WriteWait(p)
  <2>1. Writing(p) /\ ~Reading(p)
    BY <1>1, <1>7, InSection DEF WriteWait, Inside
  <2>2. TidyAt(p)'  BY <1>1, <1>7, <2>1, Sleeps
  <2>. QED  BY <1>1, <1>7, <2>2, Sleeps, OthersTidy
<1>8. CASE WriteRound(p)
  <2>1. ~Reading(p) /\ writeMoved(p) \in Nat \ {0}
    BY <1>1, <1>8, WriterRound DEF WriteRound, Inside
  <2>2. /\ call'[p] = call[p] /\ pc'[p] = "unlocked"
        /\ sizeDone(p)' = sizeDone(p) + writeMoved(p)
    BY <1>1, <1>8, WriterData
  <2>3. sizeDone(p)' > 0  BY <1>1, <2>1, <2>2
  <2>4. TidyAt(p)'  BY <1>1, <2>1, <2>2, <2>3
  <2>. QED  BY <1>1, <1>8, <2>4, WriterData, OthersTidy
<1>9. CASE ReadRound(p)
  <2>1. Inside(p, "read") /\ ~isEmpty  BY <1>9 DEF ReadRound
  <2>2. readMoved(p) \in Nat \ {0}  BY <1>1, <2>1, ReaderRound
  <2>3. Len(data'[p].bytes) = sizeDone(p) + readMoved(p)
    <3>1. Len(data[p].bytes) = sizeDone(p)
      BY <1>1, <2>1, InSection DEF Inside
    <3>2. readMoved(p) \in 0 .. readMoved(p)  BY <2>2
    <3>. HIDE DEF TidyAt
    <3>. QED  BY ONLY <1>1, <1>9, <2>1, <3>1, <3>2, ReaderBytes, ReaderCounts
  <2>4. /\ call'[p] = call[p] /\ pc'[p] = "unlocked"
        /\ sizeDone(p)' = sizeDone(p) + readMoved(p)
    BY <1>1, <1>9, ReaderData
  <2>5. sizeDone(p)' > 0  BY <1>1, <2>2, <2>4
  <2>6. Len(data[p].bytes)' = sizeDone(p)'  BY <2>3, <2>4
  <2>7. TidyAt(p)'  BY <1>1, <2>4, <2>5, <2>6
  <2>. QED  BY <1>1, <1>9, <2>7, ReaderData, OthersTidy
<1>10. CASE WriteCrash(p)
  BY <1>1, <1>10 DEF WriteCrash, Inside, Tidy, sizeDone, IInv, TypeOK
<1>11. CASE ReadCrash(p)
  <2>1. Inside(p, "read") /\ ~isEmpty /\ rest(p) < readMoved(p)
    BY <1>1, <1>11, ReaderRound, RestType DEF ReadCrash, Inside
  <2>2. rest(p) \in 0 .. readMoved(p)
    BY <1>1, <2>1, ReaderRound, RestType DEF Inside
  <2>. DEFINE got == [k \in 1 .. rest(p) |-> buf[CellOf(start, readPass(p), k)]]
  <2>4. CopiesOut(p, rest(p), got)
    BY <1>1, <1>11, CopyingOut DEF ReadCrash
  <2>. HIDE DEF got
  <2>5. Others(p) /\ call'[p] = call[p] /\ pc'[p] = "crashed"
    BY <1>1, <1>11, <2>4 DEF ReadCrash, Others, CopiesOut, IInv, TypeOK
  <2>6. Len(data'[p].bytes) = sizeDone(p) + rest(p)
    <3>1. Len(data[p].bytes) = sizeDone(p)
      BY <1>1, <2>1, InSection DEF Inside
    <3>. QED  BY <1>1, <2>1, <2>2, <2>4, <3>1, ReaderCounts DEF got, CopiesOut
  <2>7. TidyAt(p)'  BY <1>1, <2>4, <2>5, <2>6 DEF sizeDone, CopiesOut
  <2>. QED  BY <1>1, <2>5, <2>7, OthersTidy
<1>. QED
  BY <1>2, <1>3, <1>4, <1>5, <1>6, <1>7, <1>8, <1>9, <1>10, <1>11
  DEF Invoke, Step, Section, Gives, Waits

\* In every use of the conduit.
LEMMA BaseInvariant == Spec => []Base
<1>1. Init => Base
  <2>. SUFFICES ASSUME Init PROVE IInv /\ Tidy  BY DEF Base
  <2>. QED  BY InitInv DEF Init, Tidy, TidyAt, sizeDone, NoData, NewData, Reading, Writing
<1>2. Base /\ [Next]_vars => Base'
  <2>. SUFFICES ASSUME Base, [Next]_vars PROVE Base'  OBVIOUS
  <2>1. IInv'  BY NextInv DEF Base
  <2>2. CASE UNCHANGED vars
    BY <2>1, <2>2 DEF vars, shared, Base, Tidy, TidyAt, sizeDone, retry, Reading, Writing
  <2>3. CASE Next
    BY <2>1, <2>3, TidyNext DEF Next, Base
  <2>. QED  BY <2>2, <2>3
<1>. QED  BY <1>1, <1>2, PTL DEF Spec

-----------------------------------------------------------------------------
(* Exact rounds.                                                           *)

\* The size of a round in the section, and that there is room for it.
LEMMA WriterSize ==
  ASSUME IInv, NEW p \in Proc, Inside(p, "write"), ~noRoom(p)
  PROVE  /\ writeSize(p) \in Nat \ {0}
         /\ writeSize(p) <= rest(p) /\ writeSize(p) <= SizeAtom
         /\ writeSize(p) = SizeOfRound(rest(p))
         /\ writeSize(p) <= WriteAvailable(start, end, isEmpty)
         /\ start \in Index /\ end \in Index /\ isEmpty \in BOOLEAN
         /\ isEmpty => start = end
<1>1. /\ writeSize(p) \in Nat \ {0} /\ writeSize(p) <= rest(p)
      /\ rest(p) \in Nat
  BY RestType DEF Inside, writeSize
<1>2. start \in Index /\ end \in Index /\ isEmpty \in BOOLEAN
  BY DEF IInv, TypeOK
<1>3. WriteAvailable(start, end, isEmpty) \in 0 .. SizeMax
  BY <1>2, AvailableType
<1>4. isEmpty => start = end  BY InSection DEF Inside
<1>5. writeSize(p) <= SizeAtom  BY <1>1 DEF writeSize, SizeOfRound
<1>. QED  BY <1>1, <1>2, <1>3, <1>4, <1>5 DEF noRoom, writeSize

LEMMA ReaderSize ==
  ASSUME IInv, NEW p \in Proc, Inside(p, "read"), ~isEmpty
  PROVE  /\ readSize(p) \in Nat \ {0}
         /\ readSize(p) <= rest(p) /\ readSize(p) <= SizeAtom
         /\ readSize(p) <= ReadAvailable(start, end, isEmpty)
         /\ start \in Index /\ end \in Index
         /\ readWanted(p) \in Nat \ {0}
<1>1. /\ readWanted(p) \in Nat \ {0} /\ readWanted(p) <= rest(p)
      /\ rest(p) \in Nat
  BY RestType DEF Inside, readWanted
<1>2. start \in Index /\ end \in Index /\ isEmpty \in BOOLEAN
  BY DEF IInv, TypeOK
<1>3. readAvailable \in 1 .. SizeMax /\ readAvailable = ReadAvailable(start, end, isEmpty)
  BY <1>2, AvailableType DEF readAvailable
<1>4. readWanted(p) <= SizeAtom  BY <1>1 DEF readWanted, SizeOfRound
<1>. QED  BY <1>1, <1>2, <1>3, <1>4 DEF readSize

\* What an exact round of a writer does: its bytes go behind the others.
LEMMA WriterMoves ==
  ASSUME IInv, NEW p \in Proc, WriterExact(p), WriteRound(p)
  PROVE  /\ writeMoved(p) = writeSize(p)
         /\ end' = Wrap(end + writeSize(p)) /\ end' \in Index
         /\ isEmpty' = FALSE /\ UNCHANGED <<start, isEOF>>
         /\ Used(start, end, isEmpty)' = Used(start, end, isEmpty) + writeSize(p)
         /\ \A i \in 1 .. Used(start, end, isEmpty) :
              buf'[Wrap(start + i - 1)] = buf[Wrap(start + i - 1)]
         /\ \A j \in 1 .. writeSize(p) :
              buf'[Wrap(start + Used(start, end, isEmpty) + j - 1)] =
                data[p].bytes[sizeDone(p) + j]
<1>1. Inside(p, "write") /\ ~noRoom(p) /\ CopyIn(p, writeMoved(p))  BY DEF WriteRound
<1>2. ExactRound(end, writeSize(p), writePass(p), writeSecond(p))
  BY <1>1 DEF WriterExact
<1>3. /\ writeSize(p) \in Nat \ {0} /\ writeSize(p) <= rest(p)
      /\ writeSize(p) <= WriteAvailable(start, end, isEmpty)
      /\ start \in Index /\ end \in Index /\ isEmpty \in BOOLEAN
      /\ isEmpty => start = end
  BY <1>1, WriterSize
<1>4. /\ writePass(p) \in BOOLEAN /\ writeSecond(p) \in Index
      /\ writeMoved(p) \in Nat \ {0}
  BY <1>1, WriterRound
<1>5. writeMoved(p) = writeSize(p)  BY <1>2 DEF ExactRound, writeMoved
<1>6. end' = Wrap(end + writeSize(p))
  BY <1>1, <1>2, <1>5 DEF CopyIn, ExactRound
<1>7. end' \in Index
  BY <1>1, <1>4, CopyInType
<1>8. sizeDone(p) \in Nat /\ call[p].count \in Nat
  BY <1>1, RestType DEF Inside, CallRecord
<1>9. isEmpty' = FALSE /\ UNCHANGED <<start, isEOF>>
  BY <1>4, <1>8 DEF WriteRound, EmptyAfterWrite
<1>. DEFINE used == Used(start, end, isEmpty)
<1>10. Used(start, end, isEmpty)' = used + writeSize(p)
  <2>1. Used(start, end', FALSE) = used + writeSize(p)
    BY <1>3, <1>6, <1>7 DEF Index, WriteAvailable, ReadAvailable, Used, Wrap
  <2>. QED  BY <1>9, <2>1 DEF Used
<1>11. used \in Nat /\ used + writeSize(p) <= SizeMax
  BY <1>3 DEF Index, WriteAvailable, ReadAvailable, Used
<1>. DEFINE byte(c) == ByteOfCell(end, writePass(p), writeSize(p), c)
<1>12. /\ \A i \in 1 .. used : byte(Wrap(start + i - 1)) = 0
       /\ \A j \in 1 .. writeSize(p) : byte(Wrap(start + used + j - 1)) = j
  BY <1>2, <1>3, <1>4, WrittenCells
<1>13. \A c \in Index : buf'[c] = IF byte(c) = 0 THEN buf[c] ELSE Outgoing(p, byte(c))
  BY <1>1, <1>5 DEF CopyIn
<1>. HIDE DEF byte, used
<1>14. \A i \in 1 .. used : Wrap(start + i - 1) \in Index
  BY <1>3, <1>11 DEF Index, Wrap
<1>15. \A j \in 1 .. writeSize(p) : Wrap(start + used + j - 1) \in Index
  BY <1>3, <1>11 DEF Index, Wrap
<1>16. \A j \in 1 .. writeSize(p) : Outgoing(p, j) = data[p].bytes[sizeDone(p) + j]
  BY <1>3, <1>8 DEF Outgoing, rest
<1>17. \A i \in 1 .. used : buf'[Wrap(start + i - 1)] = buf[Wrap(start + i - 1)]
  BY <1>12, <1>13, <1>14
<1>18. \A j \in 1 .. writeSize(p) :
         buf'[Wrap(start + used + j - 1)] = data[p].bytes[sizeDone(p) + j]
  <2>. SUFFICES ASSUME NEW j \in 1 .. writeSize(p)
                PROVE  buf'[Wrap(start + used + j - 1)] = data[p].bytes[sizeDone(p) + j]
    OBVIOUS
  <2>1. byte(Wrap(start + used + j - 1)) = j /\ j # 0  BY <1>3, <1>12
  <2>. QED  BY <2>1, <1>13, <1>15, <1>16
<1>. QED  BY <1>5, <1>6, <1>7, <1>9, <1>10, <1>17, <1>18 DEF used

\* Of a reader: it takes its bytes from the head.
LEMMA ReaderMoves ==
  ASSUME IInv, NEW p \in Proc, ReaderExact(p), ReadRound(p)
  PROVE  /\ readMoved(p) = readSize(p)
         /\ start' = Wrap(start + readSize(p)) /\ start' \in Index
         /\ UNCHANGED <<end, isEOF, buf>>
         /\ isEmpty' = (start' = end)
         /\ Used(start, end, isEmpty)' = Used(start, end, isEmpty) - readSize(p)
         /\ \A k \in 1 .. readSize(p) :
              CellOf(start, readPass(p), k) = Wrap(start + k - 1)
<1>1. /\ Inside(p, "read") /\ ~isEmpty /\ CopyOut(p, readMoved(p))
      /\ UNCHANGED <<end, isEOF, buf>>
      /\ isEmpty' = EmptyAfterRead(IndexAfter(start, readPass(p), readMoved(p)))
  BY DEF ReadRound
<1>2. ExactRound(start, readSize(p), readPass(p), readSecond(p))
  BY <1>1 DEF ReaderExact
<1>3. /\ readSize(p) \in Nat \ {0}
      /\ readSize(p) <= ReadAvailable(start, end, isEmpty)
      /\ start \in Index /\ end \in Index /\ isEmpty \in BOOLEAN
  BY <1>1, ReaderSize DEF IInv, TypeOK
<1>4. readMoved(p) = readSize(p)  BY <1>2 DEF ExactRound, readMoved
<1>5. start' = Wrap(start + readSize(p))
  BY <1>1, <1>2, <1>4 DEF CopyOut, ExactRound
<1>6. start' \in Index
  BY <1>1, <1>3, <1>4, CopyOutType
<1>7. isEmpty' = (start' = end)
  BY <1>1 DEF EmptyAfterRead, CopyOut, IInv, TypeOK
<1>8. Used(start, end, isEmpty)' = Used(start, end, isEmpty) - readSize(p)
  <2>1. /\ start' \in Index /\ isEmpty' \in BOOLEAN /\ end' = end
        /\ (isEmpty' <=> start' = end) /\ (isEmpty => start = end)
    BY <1>1, <1>6, <1>7
  <2>2. Used(start', end, isEmpty') = Used(start, end, isEmpty) - readSize(p)
    BY <1>1, <1>3, <1>5, <2>1, RoundsKeepCount
  <2>. QED  BY <2>1, <2>2 DEF Used
<1>. QED  BY <1>1, <1>2, <1>4, <1>5, <1>6, <1>7, <1>8 DEF ExactRound

\* An exact round moves no more than the call has left, so it cannot overrun
\* the iovec of the caller.
LEMMA NobodyCrashes ==
  ASSUME IInv, NEW p \in Proc, WriterExact(p), ReaderExact(p)
  PROVE  ~WriteCrash(p) /\ ~ReadCrash(p)
<1>1. ASSUME WriteCrash(p) PROVE FALSE
  <2>1. Inside(p, "write") /\ ~noRoom(p) /\ writeMoved(p) > rest(p)
    BY <1>1 DEF WriteCrash
  <2>2. writeMoved(p) = writeSize(p)
    BY <2>1 DEF WriterExact, ExactRound, writeMoved
  <2>3. writeSize(p) <= rest(p) /\ writeSize(p) \in Nat /\ rest(p) \in Nat
    BY <2>1, WriterSize, RestType DEF Inside
  <2>. QED  BY <2>1, <2>2, <2>3
<1>2. ASSUME ReadCrash(p) PROVE FALSE
  <2>1. Inside(p, "read") /\ ~isEmpty /\ readMoved(p) > rest(p)
    BY <1>2 DEF ReadCrash
  <2>2. readMoved(p) = readSize(p)
    BY <2>1 DEF ReaderExact, ExactRound, readMoved
  <2>3. readSize(p) <= rest(p) /\ readSize(p) \in Nat /\ rest(p) \in Nat
    BY <2>1, ReaderSize, RestType DEF Inside
  <2>. QED  BY <2>1, <2>2, <2>3
<1>. QED  BY <1>1, <1>2

-----------------------------------------------------------------------------
(* The queue of ConductFifo.                                               *)

Queue == Contents(buf, start, end, isEmpty)

LEMMA QueueCells ==
  ASSUME NEW b \in [Index -> Byte], NEW s \in Index, NEW e \in Index, NEW m \in BOOLEAN
  PROVE  /\ Contents(b, s, e, m) \in Seq(Byte)
         /\ Len(Contents(b, s, e, m)) = Used(s, e, m)
         /\ Used(s, e, m) \in 0 .. SizeMax
         /\ \A i \in 1 .. Used(s, e, m) :
              Contents(b, s, e, m)[i] = b[Wrap(s + i - 1)] /\ Wrap(s + i - 1) \in Index
  BY ContentsCells

\* In the state of the invariant.
LEMMA QueueType ==
  ASSUME IInv
  PROVE  /\ Queue \in Seq(Byte) /\ Len(Queue) = Used(start, end, isEmpty)
         /\ Used(start, end, isEmpty) \in 0 .. SizeMax
         /\ \A i \in 1 .. Used(start, end, isEmpty) :
              Queue[i] = buf[Wrap(start + i - 1)] /\ Wrap(start + i - 1) \in Index
  BY QueueCells DEF IInv, TypeOK, Queue

LEMMA QueueTypeNext ==
  ASSUME IInv'
  PROVE  /\ Queue' \in Seq(Byte) /\ Len(Queue') = Used(start', end', isEmpty')
         /\ Used(start', end', isEmpty') \in 0 .. SizeMax
         /\ \A i \in 1 .. Used(start', end', isEmpty') :
              Queue'[i] = buf'[Wrap(start' + i - 1)]
<1>1. /\ buf' \in [Index -> Byte] /\ start' \in Index /\ end' \in Index
      /\ isEmpty' \in BOOLEAN
  BY DEF IInv, TypeOK
<1>2. Queue' = Contents(buf', start', end', isEmpty')  BY DEF Queue, Contents, Used
<1>. QED  BY <1>1, <1>2, QueueCells

\* A writer's round appends.
LEMMA QueueAfterWrite ==
  ASSUME IInv, IInv', NEW p \in Proc, WriterExact(p), WriteRound(p)
  PROVE  /\ Queue' = Queue \o
              SubSeq(data[p].bytes, sizeDone(p) + 1, sizeDone(p) + writeSize(p))
         /\ Len(Queue) + writeSize(p) <= SizeMax
<1>. DEFINE n == writeSize(p)
            used == Used(start, end, isEmpty)
            b == data[p].bytes
            piece == SubSeq(b, sizeDone(p) + 1, sizeDone(p) + n)
<1>1. Inside(p, "write") /\ ~noRoom(p)  BY DEF WriteRound
<1>2. /\ n \in Nat \ {0} /\ n <= rest(p)
      /\ sizeDone(p) \in Nat /\ call[p].count \in Nat
  BY <1>1, WriterSize, RestType DEF Inside, CallRecord
<1>3. b \in Seq(Byte) /\ Len(b) = call[p].count
  BY <1>1, InSection DEF IInv, TypeOK, DataType, CallsOpen, Inside, Writing
<1>4. /\ Queue \in Seq(Byte) /\ Len(Queue) = used /\ used \in 0 .. SizeMax
      /\ \A i \in 1 .. used : Queue[i] = buf[Wrap(start + i - 1)]
  BY QueueType
<1>5. /\ Queue' \in Seq(Byte) /\ Len(Queue') = used'
      /\ used' \in 0 .. SizeMax
      /\ \A i \in 1 .. used' : Queue'[i] = buf'[Wrap(start' + i - 1)]
  BY QueueTypeNext DEF Used
<1>6. /\ used' = used + n /\ start' = start
      /\ \A i \in 1 .. used : buf'[Wrap(start + i - 1)] = buf[Wrap(start + i - 1)]
      /\ \A j \in 1 .. n : buf'[Wrap(start + used + j - 1)] = b[sizeDone(p) + j]
  BY WriterMoves
<1>. HIDE DEF used, n, b
<1>7. /\ piece \in Seq(Byte) /\ Len(piece) = n
      /\ \A j \in 1 .. n : piece[j] = b[sizeDone(p) + j]
  <2>1. \A i \in sizeDone(p) + 1 .. sizeDone(p) + n : b[i] \in Byte
    BY <1>2, <1>3, ElementOfSeq DEF rest
  <2>. DEFINE lo == sizeDone(p) + 1
              hi == sizeDone(p) + n
  <2>2. lo \in Int /\ hi \in Int  BY <1>2
  <2>3. /\ SubSeq(b, lo, hi) \in Seq(Byte)
        /\ Len(SubSeq(b, lo, hi)) = IF lo <= hi THEN hi - lo + 1 ELSE 0
        /\ \A i \in 1 .. hi - lo + 1 : SubSeq(b, lo, hi)[i] = b[lo + i - 1]
    <3>. HIDE DEF lo, hi
    <3>1. \A i \in lo .. hi : b[i] \in Byte  BY <2>1 DEF lo, hi
    <3>. QED  BY ONLY <2>2, <3>1, SubSeqProperties
  <2>. QED  BY <1>2, <2>3
<1>. HIDE DEF piece
<1>8. /\ Queue \o piece \in Seq(Byte) /\ Len(Queue \o piece) = used + n
      /\ \A i \in 1 .. used + n :
           (Queue \o piece)[i] = IF i <= used THEN Queue[i] ELSE piece[i - used]
  BY <1>4, <1>7, ConcatProperties
<1>9. ASSUME NEW i \in 1 .. used + n PROVE Queue'[i] = (Queue \o piece)[i]
  <2>1. Queue'[i] = buf'[Wrap(start + i - 1)]  BY <1>5, <1>6
  <2>2. CASE i <= used
    BY <1>4, <1>6, <1>8, <2>1, <2>2
  <2>3. CASE i > used
    <3>1. i - used \in 1 .. n /\ start + used + (i - used) - 1 = start + i - 1
      BY <1>2, <1>4, <2>3 DEF IInv, TypeOK, Index
    <3>2. buf'[Wrap(start + used + (i - used) - 1)] = b[sizeDone(p) + (i - used)]
      BY <1>6, <3>1
    <3>3. (Queue \o piece)[i] = piece[i - used]  BY <1>4, <1>8, <2>3
    <3>. QED  BY <1>7, <2>1, <3>1, <3>2, <3>3
  <2>4. i <= used \/ i > used
    <3>1. n \in Nat /\ used \in Nat  BY <1>2, <1>4
    <3>. QED  BY <3>1
  <2>. QED  BY <2>2, <2>3, <2>4
<1>10. Queue' = Queue \o piece
  BY <1>5, <1>6, <1>8, <1>9, SeqEqual
<1>11. Len(Queue) + n <= SizeMax
  BY <1>2, <1>4, <1>5, <1>6
<1>. QED  BY <1>10, <1>11 DEF piece, n, b

\* A reader's round takes from the head what it appends to its bytes.
LEMMA QueueAfterRead ==
  ASSUME IInv, IInv', NEW p \in Proc, ReaderExact(p), ReadRound(p)
  PROVE  /\ Queue' = SubSeq(Queue, readSize(p) + 1, Len(Queue))
         /\ data'[p].bytes = data[p].bytes \o SubSeq(Queue, 1, readSize(p))
         /\ readSize(p) \in 1 .. Len(Queue)
<1>. DEFINE n == readSize(p)
            used == Used(start, end, isEmpty)
            tail == SubSeq(Queue, n + 1, used)
            head == SubSeq(Queue, 1, n)
            got == [k \in 1 .. readMoved(p) |-> buf[CellOf(start, readPass(p), k)]]
<1>1. Inside(p, "read") /\ ~isEmpty  BY DEF ReadRound
<1>2. n \in Nat \ {0} /\ n <= used /\ start \in Index
  BY <1>1, ReaderSize DEF Used
<1>3. /\ Queue \in Seq(Byte) /\ Len(Queue) = used /\ used \in 0 .. SizeMax
      /\ \A i \in 1 .. used : Queue[i] = buf[Wrap(start + i - 1)]
  BY QueueType
<1>4. /\ Queue' \in Seq(Byte) /\ Len(Queue') = used'
      /\ \A i \in 1 .. used' : Queue'[i] = buf'[Wrap(start' + i - 1)]
  BY QueueTypeNext DEF Used
<1>5. /\ readMoved(p) = n /\ start' = Wrap(start + n) /\ buf' = buf
      /\ used' = used - n
      /\ \A k \in 1 .. n : CellOf(start, readPass(p), k) = Wrap(start + k - 1)
  BY ReaderMoves
<1>. HIDE DEF used, n
<1>6. \A i \in 1 .. used : Queue[i] \in Byte  BY <1>3, ElementOfSeq
<1>7. /\ tail \in Seq(Byte) /\ Len(tail) = used - n
      /\ \A i \in 1 .. used - n : tail[i] = Queue[n + i]
  <2>. DEFINE lo == n + 1
  <2>1. lo \in Int /\ used \in Int /\ \A i \in lo .. used : Queue[i] \in Byte
    BY <1>2, <1>3, <1>6
  <2>2. /\ SubSeq(Queue, lo, used) \in Seq(Byte)
        /\ Len(SubSeq(Queue, lo, used)) = IF lo <= used THEN used - lo + 1 ELSE 0
        /\ \A i \in 1 .. used - lo + 1 : SubSeq(Queue, lo, used)[i] = Queue[lo + i - 1]
    <3>. HIDE DEF lo
    <3>. QED  BY ONLY <2>1, SubSeqProperties
  <2>3. Len(tail) = used - n  BY <1>2, <1>3, <2>2
  <2>4. \A i \in 1 .. used - n : i \in 1 .. used - lo + 1 /\ lo + i - 1 = n + i
    BY <1>2, <1>3
  <2>. QED  BY <2>2, <2>3, <2>4
<1>8. /\ head \in Seq(Byte) /\ Len(head) = n
      /\ \A i \in 1 .. n : head[i] = Queue[i]
  <2>1. 1 \in Int /\ n \in Int /\ \A i \in 1 .. n : Queue[i] \in Byte
    BY <1>2, <1>3, <1>6
  <2>2. /\ SubSeq(Queue, 1, n) \in Seq(Byte)
        /\ Len(SubSeq(Queue, 1, n)) = IF 1 <= n THEN n - 1 + 1 ELSE 0
        /\ \A i \in 1 .. n - 1 + 1 : SubSeq(Queue, 1, n)[i] = Queue[1 + i - 1]
    BY ONLY <2>1, SubSeqProperties
  <2>. QED  BY <1>2, <2>2
<1>. HIDE DEF tail, head
<1>9. ASSUME NEW i \in 1 .. used - n PROVE Queue'[i] = tail[i]
  <2>1. Wrap(start' + i - 1) = Wrap(start + (n + i) - 1)
    <3>1. n \in 0 .. SizeMax /\ i \in Nat \ {0} /\ n + i <= SizeMax
      BY <1>2, <1>3
    <3>. QED  BY <1>2, <1>5, <3>1, WrapTwice
  <2>2. n + i \in 1 .. used  BY <1>2, <1>3
  <2>. QED  BY <1>3, <1>4, <1>5, <1>7, <2>1, <2>2
<1>10. Queue' = tail
  BY <1>4, <1>5, <1>7, <1>9, SeqEqual
<1>11. got = head
  <2>1. got \in [1 .. n -> Byte] /\ \A k \in 1 .. n : got[k] = Queue[k]
    BY <1>2, <1>3, <1>5, <1>6
  <2>2. got \in Seq(Byte) /\ Len(got) = n
    BY <1>2, <2>1, FunctionIsSeq
  <2>. HIDE DEF got
  <2>. QED  BY <1>8, <2>1, <2>2, SeqEqual
<1>12. data'[p].bytes = data[p].bytes \o got  BY ReaderBytes
<1>13. Queue' = SubSeq(Queue, readSize(p) + 1, Len(Queue))
  BY <1>3, <1>10 DEF tail, n
<1>14. data'[p].bytes = data[p].bytes \o SubSeq(Queue, 1, readSize(p))
  <2>. HIDE DEF got
  <2>. QED  BY <1>11, <1>12 DEF head, n
<1>15. readSize(p) \in 1 .. Len(Queue)
  <2>1. n \in 1 .. Len(Queue)  BY <1>2, <1>3
  <2>. QED  BY <2>1 DEF n
<1>. QED  BY <1>13, <1>14, <1>15

-----------------------------------------------------------------------------
(* Every step of conduct.c is a step of the queue, or changes nothing in   *)
(* its eyes.                                                               *)

\* How many bytes each call moved, and which, in the eyes of ConductFifo.
MovedBy == [p \in Proc |-> data[p].sizeReallyManipulate]
BytesOf == [p \in Proc |-> data[p].bytes]

LEMMA OneMoves ==
  ASSUME NEW p \in Proc, Others(p), NEW n, NEW b,
         sizeDone(p)' = n, data'[p].bytes = b
  PROVE  /\ MovedBy' = [MovedBy EXCEPT ![p] = n]
         /\ BytesOf' = [BytesOf EXCEPT ![p] = b]
<1>1. /\ data'[p].sizeReallyManipulate = n /\ data'[p].bytes = b
      /\ \A q \in Proc \ {p} : data'[q] = data[q]
  BY DEF Others, sizeDone
<1>. QED  BY <1>1 DEF MovedBy, BytesOf

LEMMA NoneMoves ==
  ASSUME NEW p \in Proc, Others(p),
         sizeDone(p)' = sizeDone(p), data'[p].bytes = data[p].bytes
  PROVE  MovedBy' = MovedBy /\ BytesOf' = BytesOf
<1>1. /\ data'[p].sizeReallyManipulate = data[p].sizeReallyManipulate
      /\ data'[p].bytes = data[p].bytes
      /\ \A q \in Proc \ {p} : data'[q] = data[q]
  BY DEF Others, sizeDone
<1>. QED  BY <1>1 DEF MovedBy, BytesOf

\* A call that returns r.
LEMMA FifoLeave ==
  ASSUME IInv, NEW p \in Proc, NEW r, Gone(p), ret' = [ret EXCEPT ![p] = r],
         UNCHANGED <<start, end, isEmpty, buf>>
  PROVE  Fifo!Leave(p, r) /\ Queue' = Queue
<1>1. data' = [data EXCEPT ![p] = NoData] /\ data \in [Proc -> DataType]
  BY DEF Gone, IInv, TypeOK
<1>2. MovedBy' = [MovedBy EXCEPT ![p] = 0] /\ BytesOf' = [BytesOf EXCEPT ![p] = <<>>]
  BY <1>1 DEF MovedBy, BytesOf, NoData, NewData
<1>. QED  BY <1>2 DEF Gone, Fifo!Leave, MovedBy, BytesOf, Queue

\* Why a call of p may return r before it has moved all its bytes.
Reason(p, r) ==
  \/ sizeDone(p) > 0 /\ r = Success(sizeDone(p))
  \/ sizeDone(p) = 0 /\ call[p].nb /\ r = Error("EWOULDBLOCK")
  \/ sizeDone(p) = 0 /\ Writing(p) /\ isEOF /\ r = Error("EPIPE")
  \/ sizeDone(p) = 0 /\ Reading(p) /\ isEOF /\ isEmpty /\ r = Success(0)

LEMMA GivesReason ==
  ASSUME Base, NEW p \in Proc, Gives(p)
  PROVE  /\ call[p] # NoCall
         /\ \E r : ret' = [ret EXCEPT ![p] = r] /\ Reason(p, r)
<1>1. IInv /\ TidyAt(p) /\ sizeDone(p) \in Nat
  BY DEF Base, Tidy, IInv, TypeOK, DataType, sizeDone
<1>2. pc[p] # "idle" => call[p] # NoCall
  BY <1>1 DEF IInv, CallsOpen
<1>3. retry(p) \/ sizeDone(p) = 0  BY <1>1 DEF retry
<1>4. ASSUME NEW r, Return(p, r) PROVE ret' = [ret EXCEPT ![p] = r]
  BY <1>4 DEF Return, LeaveWith
<1>5. CASE TryLockBusy(p)
  <2>1. Reason(p, Error("EWOULDBLOCK")) /\ pc[p] # "idle"
    BY <1>1, <1>5 DEF TryLockBusy, Reason, TidyAt
  <2>. QED  BY <1>2, <1>4, <1>5, <2>1 DEF TryLockBusy
<1>6. CASE RetryBusy(p) \/ Finish(p)
  <2>1. Reason(p, Success(sizeDone(p))) /\ pc[p] # "idle"
    BY <1>1, <1>6 DEF RetryBusy, Finish, Reason, TidyAt, retry
  <2>. QED  BY <1>2, <1>4, <1>6, <2>1 DEF RetryBusy, Finish
<1>7. CASE WriteAtEof(p) \/ WriteNoRoom(p) \/ ReadNothing(p)
  <2>1. pc[p] # "idle"
    BY <1>7 DEF WriteAtEof, WriteNoRoom, ReadNothing, Inside
  <2>2. CASE retry(p)
    <3>1. Reason(p, Success(sizeDone(p)))  BY <2>2 DEF Reason, retry
    <3>2. Return(p, Success(sizeDone(p)))
      BY <1>7, <2>2 DEF WriteAtEof, WriteNoRoom, ReadNothing
    <3>. QED  BY <1>2, <1>4, <2>1, <3>1, <3>2
  <2>3. CASE ~retry(p) /\ WriteAtEof(p)
    <3>1. Reason(p, Error("EPIPE"))
      BY <1>2, <1>3, <2>1, <2>3 DEF Reason, WriteAtEof, Inside, Writing
    <3>. QED  BY <1>2, <1>4, <2>1, <2>3, <3>1 DEF WriteAtEof
  <2>4. CASE ~retry(p) /\ (WriteNoRoom(p) \/ ReadNothing(p))
    <3>1. Reason(p, Error("EWOULDBLOCK"))
      BY <1>3, <2>4 DEF Reason, WriteNoRoom, ReadNothing
    <3>. QED  BY <1>2, <1>4, <2>1, <2>4, <3>1 DEF WriteNoRoom, ReadNothing
  <2>. QED  BY <1>7, <2>2, <2>3, <2>4
<1>8. CASE ReadAtEof(p)
  <2>1. Reading(p) /\ isEOF /\ isEmpty /\ pc[p] # "idle"
    BY <1>2, <1>8 DEF ReadAtEof, Inside, Reading, endOfFile
  <2>2. Reason(p, Success(sizeDone(p)))  BY <1>3, <2>1 DEF Reason, retry
  <2>. QED  BY <1>2, <1>4, <1>8, <2>1, <2>2 DEF ReadAtEof
<1>. QED  BY <1>5, <1>6, <1>7, <1>8 DEF Gives

LEMMA FifoReturn ==
  ASSUME Base, NEW p \in Proc, Gives(p)
  PROVE  Fifo!Return(p)
<1>1. IInv /\ Gone(p) /\ UNCHANGED <<start, end, isEOF, isEmpty, buf>>
  BY GivesUp DEF Base
<1>2. PICK r : ret' = [ret EXCEPT ![p] = r] /\ Reason(p, r)
  BY GivesReason
<1>3. call[p] # NoCall  BY GivesReason
<1>4. Fifo!Leave(p, r) /\ Queue' = Queue  BY <1>1, <1>2, FifoLeave
<1>5. isEmpty => Queue = <<>>
  BY DEF Queue, Contents, Used, ReadAvailable
<1>6. MovedBy[p] = sizeDone(p)  BY DEF MovedBy, sizeDone
<1>. HIDE DEF Queue, MovedBy
<1>7. \/ MovedBy[p] > 0 /\ Fifo!Leave(p, Fifo!Success(MovedBy[p]))
      \/ MovedBy[p] = 0 /\ call[p].nb /\ Fifo!Leave(p, Fifo!Error("EWOULDBLOCK"))
      \/ MovedBy[p] = 0 /\ Fifo!In(p, "write") /\ isEOF /\ Fifo!Leave(p, Fifo!Error("EPIPE"))
      \/ MovedBy[p] = 0 /\ Fifo!In(p, "read") /\ isEOF /\ Queue = <<>>
           /\ Fifo!Leave(p, Fifo!Success(0))
  <2>1. CASE sizeDone(p) > 0 /\ r = Success(sizeDone(p))
    <3>1. r = Fifo!Success(MovedBy[p])
      BY <1>6, <2>1 DEF Success, Result, Fifo!Success
    <3>2. MovedBy[p] > 0  BY <1>6, <2>1
    <3>3. Fifo!Leave(p, Fifo!Success(MovedBy[p]))  BY <1>4, <3>1 DEF Fifo!Leave
    <3>. QED  BY <3>2, <3>3
  <2>2. CASE sizeDone(p) = 0 /\ call[p].nb /\ r = Error("EWOULDBLOCK")
    <3>1. r = Fifo!Error("EWOULDBLOCK")  BY <2>2 DEF Error, Result, Fifo!Error
    <3>2. MovedBy[p] = 0 /\ Fifo!Leave(p, Fifo!Error("EWOULDBLOCK"))
      BY <1>4, <1>6, <2>2, <3>1
    <3>3. call[p].nb  BY <2>2
    <3>. QED  BY <3>2, <3>3
  <2>3. CASE sizeDone(p) = 0 /\ Writing(p) /\ isEOF /\ r = Error("EPIPE")
    <3>1. r = Fifo!Error("EPIPE")  BY <2>3 DEF Error, Result, Fifo!Error
    <3>. QED  BY <1>4, <1>6, <2>3, <3>1 DEF Writing, Fifo!In
  <2>4. CASE sizeDone(p) = 0 /\ Reading(p) /\ isEOF /\ isEmpty /\ r = Success(0)
    <3>1. r = Fifo!Success(0)  BY <2>4 DEF Success, Result, Fifo!Success
    <3>. QED  BY <1>4, <1>5, <1>6, <2>4, <3>1 DEF Reading, Fifo!In
  <2>. QED  BY <1>2, <2>1, <2>2, <2>3, <2>4 DEF Reason
<1>. QED  BY <1>1, <1>3, <1>4, <1>7 DEF Fifo!Return, MovedBy, Queue

\* The steps that are neither a return nor a round.
LEMMA FifoEnter ==
  ASSUME Base, IInv', NEW p \in Proc, NEW c \in Calls[p], Refuse(p, c) \/ Enter(p, c)
  PROVE  Fifo!Refuse(p, c) \/ Fifo!Enter(p, c)
<1>1. IInv /\ TidyAt(p) /\ call[p] = NoCall
  BY DEF Base, Tidy, IInv, CallsOpen, Refuse, Enter
<1>2. CASE Refuse(p, c)
  <2>1. UNCHANGED <<start, end, isEOF, isEmpty, buf, call, data>>
    BY <1>2 DEF Refuse, shared
  <2>2. Queue' = Queue /\ MovedBy' = MovedBy /\ BytesOf' = BytesOf
    BY <2>1 DEF Queue, MovedBy, BytesOf
  <2>3. \/ isEOF /\ c.op # "read" /\ ret' = [ret EXCEPT ![p] = Fifo!Success(0)]
        \/ c.count = 0 /\ ret' = [ret EXCEPT ![p] = Fifo!Error("EINVAL")]
    BY <1>2 DEF Refuse, Success, Error, Result, Fifo!Success, Fifo!Error
  <2>. QED
    BY <1>1, <2>1, <2>2, <2>3 DEF Fifo!Refuse, Queue, MovedBy, BytesOf
<1>3. CASE Enter(p, c)
  <2>1. /\ Others(p)
        /\ UNCHANGED <<start, end, isEOF, isEmpty, buf>>
        /\ sizeDone(p)' = 0 /\ sizeDone(p) = 0
    BY <1>1, <1>3, Enters DEF TidyAt, Enter
  <2>2. /\ call' = [call EXCEPT ![p] = c] /\ ret' = [ret EXCEPT ![p] = Fifo!NoRet]
        /\ c.op = "write" => Writing(p)'
    <3>1. call' = [call EXCEPT ![p] = c] /\ ret' = [ret EXCEPT ![p] = NoRet]
      BY <1>3 DEF Enter
    <3>2. call'[p] = c /\ c # NoCall
      BY <1>1, <3>1, ConductAssumption DEF IInv, TypeOK
    <3>. QED  BY <3>1, <3>2 DEF NoRet, Fifo!NoRet, Writing
  <2>3. MovedBy' = MovedBy
    <3>1. MovedBy' = [MovedBy EXCEPT ![p] = 0]  BY <2>1, OneMoves
    <3>2. MovedBy[p] = 0  BY <2>1 DEF MovedBy, sizeDone
    <3>. QED  BY <3>1, <3>2 DEF MovedBy
  <2>4. /\ BytesOf' = [BytesOf EXCEPT ![p] = data'[p].bytes]
        /\ BytesOf'[p] = data'[p].bytes
    <3>1. BytesOf' = [BytesOf EXCEPT ![p] = data'[p].bytes]  BY <2>1, OneMoves
    <3>. QED  BY <3>1 DEF BytesOf
  <2>5. /\ data'[p].bytes \in Seq(Byte)
        /\ Len(data'[p].bytes) = IF c.op = "write" THEN c.count ELSE 0
    <3>1. call'[p] = c /\ data'[p].bytes \in Seq(Byte)
      BY <1>1, <1>3, Enters DEF IInv, TypeOK, DataType
    <3>2. CASE c.op = "write"
      <4>1. CallsOpen'  BY DEF IInv
      <4>2. Writing(p)'  BY <2>2, <3>2
      <4>3. Len(data'[p].bytes) = call'[p].count
        BY <4>1, <4>2 DEF CallsOpen, Writing
      <4>. QED  BY <3>1, <3>2, <4>3
    <3>3. CASE c.op # "write"
      <4>1. data'[p].bytes = <<>>  BY <1>1, <1>3, <3>3, Enters
      <4>2. Len(<<>>) = 0  BY EmptySeq
      <4>. QED  BY <3>1, <3>3, <4>1, <4>2
    <3>. QED  BY <3>1, <3>2, <3>3
  <2>6. Queue' = Queue  BY <2>1 DEF Queue
  <2>. QED
    BY <1>1, <2>1, <2>2, <2>3, <2>4, <2>5, <2>6
    DEF Fifo!Enter, Queue, MovedBy, BytesOf
<1>. QED  BY <1>2, <1>3

LEMMA FifoPutEof ==
  ASSUME Base, NEW p \in Proc, WriteEof(p)
  PROVE  Fifo!PutEof(p)
<1>1. IInv /\ Gone(p) /\ isEOF' = TRUE /\ UNCHANGED <<start, end, isEmpty, buf>>
  BY MarksEof DEF Base
<1>2. call[p] # NoCall /\ call[p].op = "write_eof"
  BY <1>1, InSection DEF WriteEof, Inside
<1>3. ret' = [ret EXCEPT ![p] = Fifo!Success(1)]
  BY DEF WriteEof, LeaveWith, Success, Result, Fifo!Success
<1>4. Fifo!Leave(p, Fifo!Success(1)) /\ Queue' = Queue
  BY <1>1, <1>3, FifoLeave
<1>. QED  BY <1>1, <1>2, <1>4 DEF Fifo!PutEof, Fifo!In, Queue

\* Waiting and locking is nothing to the queue.
LEMMA FifoStutter ==
  ASSUME Base, NEW p \in Proc, Waits(p) \/ WriteWait(p)
  PROVE  UNCHANGED Fifo!vars
<1>1. /\ Others(p) /\ UNCHANGED <<start, end, isEOF, isEmpty, buf, call>>
      /\ sizeDone(p)' = sizeDone(p) /\ data'[p].bytes = data[p].bytes
  BY Stays, Sleeps DEF Base, sizeDone
<1>2. ret' = ret
  BY DEF Waits, Acquire, SpuriousWakeup, ReadWait, WriteWait
<1>3. MovedBy' = MovedBy /\ BytesOf' = BytesOf  BY <1>1, NoneMoves
<1>4. Queue' = Queue  BY <1>1 DEF Queue
<1>. QED  BY <1>1, <1>2, <1>3, <1>4 DEF Fifo!vars, MovedBy, BytesOf, Queue

\* An exact round of a writer puts a piece, whole.
LEMMA FifoPut ==
  ASSUME Base, IInv', NEW p \in Proc, WriterExact(p), WriteRound(p)
  PROVE  Fifo!Put(p)
<1>. DEFINE n == writeSize(p)
<1>1. IInv /\ Inside(p, "write") /\ ~noRoom(p) /\ ~isEOF
  BY DEF Base, WriteRound
<1>2. /\ call[p] # NoCall /\ call[p].op = "write"
      /\ UNCHANGED <<isEOF, call, ret>>
  BY <1>1, InSection DEF Inside, WriteRound
<1>3. /\ n \in Nat \ {0} /\ n = SizeOfRound(rest(p))  BY <1>1, WriterSize
<1>4. /\ Queue' = Queue \o SubSeq(data[p].bytes, sizeDone(p) + 1, sizeDone(p) + n)
      /\ Len(Queue) + n <= SizeMax
  BY <1>1, QueueAfterWrite
<1>5. /\ Others(p) /\ data'[p].bytes = data[p].bytes
      /\ sizeDone(p)' = sizeDone(p) + n
  BY <1>1, WriterData, WriterMoves
<1>6. /\ MovedBy' = [MovedBy EXCEPT ![p] = sizeDone(p) + n]
      /\ BytesOf' = [BytesOf EXCEPT ![p] = data[p].bytes]
  BY <1>5, OneMoves
<1>7. MovedBy[p] = sizeDone(p) /\ BytesOf[p] = data[p].bytes /\ BytesOf' = BytesOf
  BY <1>6 DEF MovedBy, BytesOf, sizeDone
<1>8. n = IF Fifo!left(p) > SizeAtom THEN SizeAtom ELSE Fifo!left(p)
  BY <1>3, <1>7 DEF Fifo!left, MovedBy, rest, SizeOfRound
<1>. HIDE DEF n
<1>9. Fifo!In(p, "write")  BY <1>2 DEF Fifo!In
<1>10. n > 0  BY <1>3
<1>. QED
  BY <1>1, <1>2, <1>4, <1>6, <1>7, <1>8, <1>9, <1>10
  DEF Fifo!Put, Queue, MovedBy, BytesOf

\* One of a reader takes a piece of at most SizeAtom bytes.
LEMMA FifoGet ==
  ASSUME Base, IInv', NEW p \in Proc, ReaderExact(p), ReadRound(p)
  PROVE  Fifo!Get(p)
<1>. DEFINE n == readSize(p)
<1>1. IInv /\ Inside(p, "read") /\ ~isEmpty
  BY DEF Base, ReadRound
<1>2. /\ call[p] # NoCall /\ call[p].op = "read"
      /\ UNCHANGED <<isEOF, call, ret>>
  BY <1>1, InSection DEF Inside, ReadRound
<1>3. n <= rest(p) /\ n <= SizeAtom  BY <1>1, ReaderSize
<1>4. /\ Queue' = SubSeq(Queue, n + 1, Len(Queue))
      /\ data'[p].bytes = data[p].bytes \o SubSeq(Queue, 1, n)
      /\ n \in 1 .. Len(Queue)
  BY <1>1, QueueAfterRead
<1>5. Others(p) /\ sizeDone(p)' = sizeDone(p) + n
  BY <1>1, ReaderData, ReaderMoves
<1>6. /\ MovedBy' = [MovedBy EXCEPT ![p] = sizeDone(p) + n]
      /\ BytesOf' = [BytesOf EXCEPT ![p] = data[p].bytes \o SubSeq(Queue, 1, n)]
  BY <1>4, <1>5, OneMoves
<1>7. MovedBy[p] = sizeDone(p) /\ BytesOf[p] = data[p].bytes
  BY DEF MovedBy, BytesOf, sizeDone
<1>8. n <= Fifo!left(p)  BY <1>3, <1>7 DEF Fifo!left, MovedBy, rest
<1>. HIDE DEF n
<1>9. Fifo!In(p, "read")  BY <1>2 DEF Fifo!In
<1>10. /\ MovedBy' = [MovedBy EXCEPT ![p] = @ + n]
       /\ BytesOf' = [BytesOf EXCEPT ![p] = @ \o SubSeq(Queue, 1, n)]
  BY <1>6, <1>7
<1>. QED
  BY <1>2, <1>3, <1>4, <1>8, <1>9, <1>10
  DEF Fifo!Get, Queue, MovedBy, BytesOf

\* As long as rounds are exact, conduct.c does what ConductFifo does.
LEMMA FifoNext ==
  ASSUME Base, IInv', Exact, [Next]_vars
  PROVE  [Fifo!Next]_Fifo!vars
<1>1. CASE UNCHANGED vars
  BY <1>1 DEF vars, shared, Fifo!vars
<1>2. ASSUME NEW p \in Proc, Invoke(p) \/ Acquire(p) \/ Step(p) \/ SpuriousWakeup(p)
      PROVE  Fifo!Next \/ UNCHANGED Fifo!vars
  <2>1. WriterExact(p) /\ ReaderExact(p)  BY DEF Exact
  <2>2. ~WriteCrash(p) /\ ~ReadCrash(p)  BY <2>1, NobodyCrashes DEF Base
  <2>3. CASE Invoke(p)
    <3>1. PICK c \in Calls[p] : Refuse(p, c) \/ Enter(p, c)  BY <2>3 DEF Invoke
    <3>2. Fifo!Refuse(p, c) \/ Fifo!Enter(p, c)  BY <3>1, FifoEnter
    <3>. QED  BY <3>2 DEF Fifo!Next
  <2>4. CASE Gives(p)  BY <2>4, FifoReturn DEF Fifo!Next
  <2>5. CASE WriteEof(p)  BY <2>5, FifoPutEof DEF Fifo!Next
  <2>6. CASE Waits(p) \/ WriteWait(p)  BY <2>6, FifoStutter
  <2>7. CASE WriteRound(p)  BY <2>1, <2>7, FifoPut DEF Fifo!Next
  <2>8. CASE ReadRound(p)  BY <2>1, <2>8, FifoGet DEF Fifo!Next
  <2>. QED
    BY <1>2, <2>2, <2>3, <2>4, <2>5, <2>6, <2>7, <2>8
    DEF Step, Section, Gives, Waits
<1>. QED  BY <1>1, <1>2 DEF Next

LEMMA FifoInit == Init => Fifo!Init
<1>. SUFFICES ASSUME Init PROVE Fifo!Init  OBVIOUS
<1>1. Contents(buf, start, end, isEmpty) = <<>>
  BY DEF Init, Contents, Used, ReadAvailable
<1>. QED  BY <1>1 DEF Init, Fifo!Init, NoData, NewData, NoRet, Fifo!NoRet

-----------------------------------------------------------------------------
(* One thread on each side.                                                *)

\* Two threads in calls of the same side are one, and the call is not longer
\* than the buffer.
LEMMA SameSide ==
  ASSUME OneEachSide, Tidy, NEW p \in Proc, NEW q \in Proc,
         call[p] # NoCall, call[q] # NoCall
  PROVE  /\ (call[p].op = "read" <=> call[q].op = "read") => p = q
         /\ call[p].count <= SizeMax
<1>1. call[p] \in Calls[p] /\ call[q] \in Calls[q]  BY DEF Tidy, TidyAt
<1>. QED  BY <1>1 DEF OneEachSide

\* A round is exact: a call that passed the last cell does not reach it again.
LEMMA AloneExact ==
  ASSUME OneEachSide, Base, AloneInv
  PROVE  Exact
<1>1. ASSUME NEW p \in Proc PROVE WriterExact(p)
  <2>. SUFFICES ASSUME Inside(p, "write"), ~noRoom(p)
                PROVE  ExactRound(end, writeSize(p), writePass(p), writeSecond(p))
    BY DEF WriterExact
  <2>1. /\ IInv /\ Tidy /\ Alone(p) /\ Writing(p)
        /\ data[p].secondLimitLoop \in Index /\ data[p].passByMiddle \in BOOLEAN
    BY InSection DEF Base, AloneInv, Inside, Writing, IInv, TypeOK, DataType
  <2>2. /\ writeSize(p) \in Nat \ {0} /\ writeSize(p) <= rest(p)
        /\ writeSize(p) <= WriteAvailable(start, end, isEmpty)
        /\ start \in Index /\ end \in Index /\ isEmpty \in BOOLEAN
        /\ isEmpty => start = end
    BY <2>1, WriterSize
  <2>3. call[p].count <= SizeMax /\ sizeDone(p) \in Nat /\ call[p].count \in Nat
    BY <2>1, SameSide, RestType DEF Writing, Inside, CallRecord
  <2>4. data[p].passByMiddle => end + writeSize(p) >= SizeMax
    BY <2>1 DEF Alone
  <2>5. data[p].secondLimitLoop # 0 => end + writeSize(p) # SizeMax
    <3>1. data[p].secondLimitLoop # 0 => end < sizeDone(p)
      BY <2>1 DEF Alone, Index
    <3>. QED  BY <2>2, <2>3, <3>1 DEF rest, Index
  <2>. QED
    BY <2>1, <2>2, <2>4, <2>5, WriteExactWhenFresh DEF writePass, writeSecond
<1>2. ASSUME NEW p \in Proc PROVE ReaderExact(p)
  <2>. SUFFICES ASSUME Inside(p, "read"), ~isEmpty
                PROVE  ExactRound(start, readSize(p), readPass(p), readSecond(p))
    BY DEF ReaderExact
  <2>1. /\ IInv /\ Tidy /\ Alone(p) /\ Reading(p) /\ isEmpty \in BOOLEAN
        /\ data[p].secondLimitLoop \in Index /\ data[p].passByMiddle \in BOOLEAN
    BY InSection DEF Base, AloneInv, Inside, Reading, IInv, TypeOK, DataType
  <2>2. /\ readSize(p) \in Nat \ {0} /\ readSize(p) <= rest(p)
        /\ start \in Index /\ end \in Index
        /\ readWanted(p) \in Nat \ {0}
    BY <2>1, ReaderSize
  <2>3. call[p].count <= SizeMax /\ sizeDone(p) \in Nat /\ call[p].count \in Nat
    BY <2>1, SameSide, RestType DEF Reading, Inside, CallRecord
  <2>4. data[p].passByMiddle = FALSE
    BY <2>1 DEF Alone
  <2>5. data[p].secondLimitLoop # 0 => start + readSize(p) # SizeMax
    <3>1. data[p].secondLimitLoop # 0 => start < sizeDone(p)
      BY <2>1 DEF Alone, Index
    <3>. QED  BY <2>2, <2>3, <3>1 DEF rest, Index
  <2>6. /\ readSize(p) = IF readWanted(p) > readAvailable THEN readAvailable ELSE readWanted(p)
        /\ readAvailable = ReadAvailable(start, end, isEmpty)
        /\ readPass(p) =
             LET first == ReadPasses(start, end, isEmpty, readWanted(p), FALSE)
             IN  IF readWanted(p) > readAvailable
                 THEN ReadPasses(start, end, isEmpty, readSize(p), first)
                 ELSE first
    BY <2>4 DEF readSize, readAvailable, readPass
  <2>. QED
    BY <2>1, <2>2, <2>5, <2>6, ReadExactWhenFresh DEF readSecond
<1>. QED  BY <1>1, <1>2 DEF Exact

\* A signal to the only thread that sleeps there leaves nobody asleep.
LEMMA WakesAll ==
  ASSUME NEW p \in Proc, NEW to, NEW queue \in {"waitRead", "waitWrite"},
         NEW woken \in Signalled(queue), Advance(p, to, woken),
         \A x, y \in Waiters(queue) : x = y
  PROVE  \A q \in Proc \ {p} : pc'[q] # queue
<1>1. woken = Waiters(queue)
  <2>1. CASE Waiters(queue) = {}  BY <2>1 DEF Signalled
  <2>2. CASE Waiters(queue) # {}
    <3>1. PICK x \in Waiters(queue) : woken = {x}  BY <2>2 DEF Signalled
    <3>. QED  BY <3>1
  <2>. QED  BY <2>1, <2>2
<1>2. \A q \in Proc \ {p} : pc'[q] = IF q \in woken THEN "relock" ELSE pc[q]
  BY DEF Advance
<1>. QED  BY <1>1, <1>2 DEF Waiters

\* There is only one.
LEMMA OneSleeper ==
  ASSUME OneEachSide, Tidy
  PROVE  /\ \A x, y \in Waiters("waitRead") : x = y
         /\ \A x, y \in Waiters("waitWrite") : x = y
<1>1. ASSUME NEW x \in Waiters("waitRead"), NEW y \in Waiters("waitRead") PROVE x = y
  BY SameSide DEF Waiters, Tidy, TidyAt, Reading
<1>2. ASSUME NEW x \in Waiters("waitWrite"), NEW y \in Waiters("waitWrite") PROVE x = y
  BY SameSide DEF Waiters, Tidy, TidyAt, Writing
<1>. QED  BY <1>1, <1>2

\* Nothing changes for a thread when another one touches neither the indices
\* nor the flags.
LEMMA AloneStays ==
  ASSUME NEW p \in Proc, NEW q \in Proc, Alone(q), call'[q] = call[q],
         data'[q] = data[q], pc'[q] = pc[q] \/ pc'[q] = "relock",
         UNCHANGED <<start, end, isEOF, isEmpty>>
  PROVE  Alone(q)'
  BY DEF Alone, Reading, Writing, sizeDone, writeSize, rest, noRoom

\* So it is enough to look at the thread that steps.
LEMMA OthersAlone ==
  ASSUME AloneInv, NEW p \in Proc, Others(p), Alone(p)',
         UNCHANGED <<start, end, isEOF, isEmpty>>
  PROVE  AloneInv'
<1>1. ASSUME NEW q \in Proc, q # p PROVE Alone(q)'
  BY <1>1, AloneStays DEF AloneInv, Others
<1>. QED  BY <1>1 DEF AloneInv

\* Steps that move no byte.
LEMMA AloneKept ==
  ASSUME OneEachSide, Base, AloneInv, NEW p \in Proc,
         \/ \E c \in Calls[p] : Enter(p, c)
         \/ Gives(p) \/ Waits(p) \/ WriteWait(p)
  PROVE  AloneInv'
<1>1. IInv /\ Tidy /\ Alone(p)  BY DEF Base, AloneInv
<1>2. ASSUME NEW c \in Calls[p], Enter(p, c) PROVE AloneInv'
  <2>1. /\ data'[p].secondLimitLoop = 0 /\ data'[p].passByMiddle = FALSE
        /\ pc'[p] = "lock" /\ sizeDone(p)' = 0 /\ call'[p] = c /\ c.count > 0
        /\ Others(p) /\ UNCHANGED <<start, end, isEOF, isEmpty>>
    BY <1>1, <1>2, Enters
  <2>2. Alone(p)'
    BY <2>1, ConductAssumption DEF Alone, CallRecord
  <2>. QED  BY <2>1, <2>2, OthersAlone
<1>3. CASE Gives(p)
  <2>1. /\ pc'[p] = "idle" /\ call'[p] = NoCall /\ Others(p)
        /\ UNCHANGED <<start, end, isEOF, isEmpty>>
    BY <1>1, <1>3, GivesUp, GoneOthers
  <2>2. Alone(p)'  BY <2>1 DEF Alone, Reading, Writing
  <2>. QED  BY <2>1, <2>2, OthersAlone
<1>4. CASE Waits(p)
  <2>1. /\ Others(p) /\ UNCHANGED <<start, end, isEOF, isEmpty, call, data>>
        /\ pc'[p] # "waitWrite" /\ (pc'[p] = "waitRead" => ReadWait(p))
    BY <1>1, <1>4, Stays
  <2>2. ReadWait(p) => isEmpty /\ ~isEOF  BY DEF ReadWait, endOfFile
  <2>3. Alone(p)'
    BY <1>1, <2>1, <2>2 DEF Alone, Reading, Writing, sizeDone, writeSize, rest
  <2>. QED  BY <2>1, <2>3, OthersAlone
<1>5. CASE WriteWait(p)
  <2>1. /\ Others(p) /\ pc'[p] = "waitWrite"
        /\ UNCHANGED <<start, end, isEOF, isEmpty, call>>
        /\ sizeDone(p)' = sizeDone(p)
        /\ data'[p].secondLimitLoop = data[p].secondLimitLoop
        /\ data'[p].passByMiddle = writePass(p)
    BY <1>1, <1>5, Sleeps
  <2>2. Writing(p) /\ noRoom(p) /\ ~isEOF
    BY <1>1, <1>5, InSection DEF WriteWait, Inside, Writing
  <2>3. writeSize(p)' = writeSize(p)  BY <2>1 DEF writeSize, rest
  <2>4. writePass(p) => end + writeSize(p) >= SizeMax
    BY <1>1, <2>2 DEF Alone, writePass, WritePasses
  <2>5. noRoom(p)'  BY <2>1, <2>2, <2>3 DEF noRoom
  <2>6. Writing(p)' /\ ~Reading(p)'  BY <2>1, <2>2 DEF Reading, Writing
  <2>7. Alone(p)'
    BY <1>1, <2>1, <2>2, <2>3, <2>4, <2>5, <2>6 DEF Alone
  <2>. QED  BY <2>1, <2>7, OthersAlone
<1>. QED  BY <1>2, <1>3, <1>4, <1>5

\* The signal of a round, or of the end of file, goes to the other side: after
\* it no other thread sleeps.
LEMMA NobodySleeps ==
  ASSUME OneEachSide, Base, NEW p \in Proc, call[p] # NoCall,
         NEW to \in PCs, NEW queue \in {"waitRead", "waitWrite"},
         queue = "waitRead" <=> call[p].op # "read",
         NEW woken \in Signalled(queue), Advance(p, to, woken)
  PROVE  \A q \in Proc \ {p} : pc'[q] \notin {"waitRead", "waitWrite"}
<1>1. TypeOK /\ Tidy  BY DEF Base, IInv
<1>2. ASSUME NEW q \in Proc, q # p, pc'[q] \in {"waitRead", "waitWrite"} PROVE FALSE
  <2>1. pc[q] \in {"waitRead", "waitWrite"} /\ pc'[q] = pc[q]
    BY <1>1, <1>2, AdvanceType
  <2>2. pc[q] # queue  BY <1>1, <1>2, <2>1, OneSleeper, WakesAll
  <2>3. /\ call[q] # NoCall
        /\ pc[q] = "waitRead" => call[q].op = "read"
        /\ pc[q] = "waitWrite" => call[q].op = "write"
    BY <1>1, <2>1 DEF Tidy, TidyAt, Reading, Writing
  <2>4. call[p].op = "read" <=> call[q].op = "read"  BY <2>1, <2>2, <2>3
  <2>. QED  BY <1>1, <1>2, <2>3, <2>4, SameSide
<1>. QED  BY <1>2

\* And the index of the other side has not moved.
LEMMA AloneElsewhere ==
  ASSUME OneEachSide, Base, AloneInv, NEW p \in Proc, call[p] # NoCall,
         Others(p), NEW q \in Proc, q # p,
         pc'[q] \notin {"waitRead", "waitWrite"},
         call[p].op = "read" => end' = end,
         call[p].op # "read" => start' = start
  PROVE  Alone(q)'
<1>1. /\ Tidy /\ Alone(q) /\ call'[q] = call[q] /\ data'[q] = data[q]
  BY DEF Base, AloneInv, Others
<1>2. /\ Reading(q) => call[p].op # "read"
      /\ Writing(q) => call[p].op = "read"
  BY <1>1, SameSide DEF Reading, Writing
<1>3. /\ Reading(q)' = Reading(q) /\ Writing(q)' = Writing(q)
      /\ sizeDone(q)' = sizeDone(q) /\ writeSize(q)' = writeSize(q)
  BY <1>1 DEF Reading, Writing, sizeDone, writeSize, rest
<1>. QED  BY <1>1, <1>2, <1>3 DEF Alone

\* A writer that has passed the last cell is behind what it has written.
LEMMA AloneWrites ==
  ASSUME OneEachSide, Base, AloneInv, NEW p \in Proc, WriteRound(p)
  PROVE  AloneInv'
<1>1. /\ IInv /\ Tidy /\ Alone(p) /\ Inside(p, "write") /\ ~noRoom(p)
      /\ WriterExact(p) /\ call[p] # NoCall /\ call[p].op = "write"
      /\ data[p].secondLimitLoop \in Index /\ data[p].passByMiddle \in BOOLEAN
  BY AloneExact, InSection DEF Base, AloneInv, Exact, WriteRound, Inside, IInv, TypeOK, DataType
<1>2. PICK woken \in Signalled("waitRead") : Advance(p, "unlocked", woken)
  BY DEF WriteRound
<1>3. /\ Others(p) /\ pc'[p] = "unlocked" /\ call'[p] = call[p] /\ start' = start
      /\ sizeDone(p)' = sizeDone(p) + writeSize(p)
      /\ data'[p].secondLimitLoop = writeSecond(p)
      /\ data'[p].passByMiddle = FALSE
      /\ end' = Wrap(end + writeSize(p))
  BY <1>1, WriterData, WriterMoves
<1>4. /\ writeSize(p) \in Nat \ {0} /\ writeSize(p) <= rest(p) /\ end \in Index
      /\ rest(p) \in Nat /\ sizeDone(p) \in Nat /\ call[p].count \in Nat
      /\ call[p].count <= SizeMax
  BY <1>1, WriterSize, RestType, SameSide DEF Inside, CallRecord
<1>5. sizeDone(p)' <= call[p].count  BY <1>3, <1>4 DEF rest
<1>6. writeSecond(p) > 0 => end' < sizeDone(p)'
  <2>1. writePass(p) => end + writeSize(p) >= SizeMax
    BY <1>1 DEF Alone, Writing, writePass, WritePasses
  <2>2. CASE end + writeSize(p) >= SizeMax
    BY <1>3, <1>4, <2>2 DEF Wrap, Index
  <2>3. CASE ~(end + writeSize(p) >= SizeMax)
    <3>1. writeSecond(p) = data[p].secondLimitLoop
      BY <2>1, <2>3 DEF writeSecond, SecondLimit
    <3>2. data[p].secondLimitLoop > 0 => end < sizeDone(p)
      BY <1>1 DEF Alone, Writing
    <3>. QED  BY <1>3, <1>4, <2>3, <3>1, <3>2 DEF Wrap, Index
  <2>. QED  BY <2>2, <2>3
<1>7. Alone(p)'  BY <1>1, <1>3, <1>5, <1>6 DEF Alone, Reading, Writing
<1>8. ASSUME NEW q \in Proc, q # p PROVE Alone(q)'
  BY <1>1, <1>2, <1>3, <1>8, NobodySleeps, AloneElsewhere DEF PCs
<1>. QED  BY <1>7, <1>8 DEF AloneInv

\* So is a reader.
LEMMA AloneReads ==
  ASSUME OneEachSide, Base, AloneInv, NEW p \in Proc, ReadRound(p)
  PROVE  AloneInv'
<1>1. /\ IInv /\ Tidy /\ Alone(p) /\ Inside(p, "read") /\ ~isEmpty
      /\ ReaderExact(p) /\ call[p] # NoCall /\ call[p].op = "read"
      /\ data[p].secondLimitLoop \in Index /\ data[p].passByMiddle = FALSE
  BY AloneExact, InSection
  DEF Base, AloneInv, Exact, Alone, Reading, ReadRound, Inside, IInv, TypeOK, DataType
<1>2. PICK woken \in Signalled("waitWrite") : Advance(p, "unlocked", woken)
  BY DEF ReadRound
<1>3. /\ Others(p) /\ pc'[p] = "unlocked" /\ call'[p] = call[p] /\ end' = end
      /\ sizeDone(p)' = sizeDone(p) + readSize(p)
      /\ data'[p].secondLimitLoop = readSecond(p)
      /\ data'[p].passByMiddle = FALSE
      /\ start' = Wrap(start + readSize(p))
  BY <1>1, ReaderData, ReaderMoves
<1>4. /\ readSize(p) \in Nat \ {0} /\ readSize(p) <= rest(p) /\ start \in Index
      /\ rest(p) \in Nat /\ sizeDone(p) \in Nat /\ call[p].count \in Nat
      /\ call[p].count <= SizeMax
  BY <1>1, ReaderSize, RestType, SameSide DEF Inside, CallRecord
<1>5. sizeDone(p)' <= call[p].count  BY <1>3, <1>4 DEF rest
<1>6. readSecond(p) > 0 => start' < sizeDone(p)'
  <2>1. CASE start + readSize(p) >= SizeMax
    BY <1>3, <1>4, <2>1 DEF Wrap, Index
  <2>2. CASE ~(start + readSize(p) >= SizeMax)
    <3>1. readSecond(p) = data[p].secondLimitLoop
      BY <1>4, <2>2 DEF readSecond, SecondLimit, Index
    <3>2. data[p].secondLimitLoop > 0 => start < sizeDone(p)
      BY <1>1 DEF Alone, Reading
    <3>. QED  BY <1>3, <1>4, <2>2, <3>1, <3>2 DEF Wrap, Index
  <2>. QED  BY <2>1, <2>2
<1>7. Alone(p)'  BY <1>1, <1>3, <1>5, <1>6 DEF Alone, Reading, Writing
<1>8. ASSUME NEW q \in Proc, q # p PROVE Alone(q)'
  BY <1>1, <1>2, <1>3, <1>8, NobodySleeps, AloneElsewhere DEF PCs
<1>. QED  BY <1>7, <1>8 DEF AloneInv

LEMMA AloneMarks ==
  ASSUME OneEachSide, Base, AloneInv, NEW p \in Proc, WriteEof(p)
  PROVE  AloneInv'
<1>1. IInv /\ call[p] # NoCall /\ call[p].op = "write_eof"
  BY InSection DEF Base, WriteEof, Inside
<1>2. PICK woken \in Signalled("waitRead") : Advance(p, "idle", woken)
  BY DEF WriteEof
<1>3. /\ Others(p) /\ pc'[p] = "idle" /\ call'[p] = NoCall
      /\ UNCHANGED <<start, end, isEmpty>>
  BY <1>1, MarksEof, GoneOthers
<1>4. Alone(p)'  BY <1>3 DEF Alone, Reading, Writing
<1>5. ASSUME NEW q \in Proc, q # p PROVE Alone(q)'
  BY <1>1, <1>2, <1>3, <1>5, NobodySleeps, AloneElsewhere DEF PCs
<1>. QED  BY <1>4, <1>5 DEF AloneInv

LEMMA AloneNext ==
  ASSUME OneEachSide, Base, AloneInv, [Next]_vars
  PROVE  AloneInv'
<1>1. CASE UNCHANGED vars
  BY <1>1 DEF vars, shared, AloneInv, Alone, Reading, Writing, sizeDone, writeSize, rest, noRoom
<1>2. ASSUME NEW p \in Proc, NEW c \in Calls[p], Refuse(p, c) PROVE AloneInv'
  BY <1>2 DEF Refuse, shared, AloneInv, Alone, Reading, Writing, sizeDone, writeSize, rest, noRoom
<1>3. ASSUME NEW p \in Proc PROVE ~WriteCrash(p) /\ ~ReadCrash(p)
  BY <1>3, AloneExact, NobodyCrashes DEF Exact, Base
<1>. QED
  BY <1>1, <1>2, <1>3, AloneKept, AloneWrites, AloneReads, AloneMarks
  DEF Next, Invoke, Step, Section, Gives, Waits

LEMMA AloneInvariant ==
  ASSUME OneEachSide
  PROVE  Spec => [](Base /\ AloneInv)
<1>1. Init => AloneInv
  BY DEF Init, AloneInv, Alone, Reading, Writing
<1>2. Base /\ AloneInv /\ [Next]_vars => AloneInv'
  BY AloneNext
<1>. QED  BY <1>1, <1>2, BaseInvariant, PTL DEF Spec

LEMMA OneEachSideIsFifo ==
  ASSUME OneEachSide
  PROVE  Spec => ImplementsFifo
<1>1. Base /\ AloneInv /\ Base' /\ [Next]_vars => [Fifo!Next]_Fifo!vars
  BY AloneExact, FifoNext DEF Base
<1>. QED  BY <1>1, FifoInit, AloneInvariant, PTL DEF Spec, ImplementsFifo, Fifo!Spec

\* With one thread on each side neither of the two sleeps while there is
\* something for it: one signal is enough when one thread can sleep.
THEOREM OneEachSideLosesNoWakeup ==
  ASSUME OneEachSide
  PROVE  Spec => []NoLostWakeup
<1>1. AloneInv => NoLostWakeup  BY DEF AloneInv, Alone, NoLostWakeup, Waiters
<1>. QED  BY <1>1, AloneInvariant, PTL

-----------------------------------------------------------------------------
(* Records.                                                                *)

LEMMA MultipleType == \A a : Multiple(a) => a \in Nat
  BY DEF Multiple

\* Between a multiple and the next one there is room for a record.
LEMMA MultipleGap ==
  ASSUME NEW a, NEW b, Multiple(a), Multiple(b), a < b
  PROVE  a + SizeAtom <= b
<1>1. PICK j \in Nat : a = j * SizeAtom  BY DEF Multiple
<1>2. PICK k \in Nat : b = k * SizeAtom  BY DEF Multiple
<1>3. j * SizeAtom < k * SizeAtom => j * SizeAtom + SizeAtom <= k * SizeAtom
  <2>1. SizeAtom \in Nat \ {0}  OBVIOUS
  <2>. QED  BY <2>1
<1>. QED  BY <1>1, <1>2, <1>3

LEMMA MultipleSum ==
  ASSUME NEW a, NEW b, Multiple(a), Multiple(b)
  PROVE  Multiple(a + b) /\ (b <= a => Multiple(a - b))
<1>1. PICK j \in Nat : a = j * SizeAtom  BY DEF Multiple
<1>2. PICK k \in Nat : b = k * SizeAtom  BY DEF Multiple
<1>3. SizeAtom \in Nat \ {0}  OBVIOUS
<1>4. j + k \in Nat /\ a + b = (j + k) * SizeAtom  BY <1>1, <1>2, <1>3
<1>5. ASSUME b <= a PROVE j - k \in Nat /\ a - b = (j - k) * SizeAtom
  <2>1. ~(j < k)
    <3>1. j < k => j * SizeAtom < k * SizeAtom  BY <1>3
    <3>2. j * SizeAtom \in Nat /\ k * SizeAtom \in Nat  BY <1>3
    <3>. QED  BY <1>1, <1>2, <1>5, <3>1, <3>2
  <2>2. (j - k) * SizeAtom = j * SizeAtom - k * SizeAtom  BY <1>3
  <2>. QED  BY <1>1, <1>2, <2>1, <2>2
<1>. QED  BY <1>4, <1>5 DEF Multiple

LEMMA MultipleUnit == Multiple(0) /\ Multiple(SizeAtom)
<1>1. 0 = 0 * SizeAtom /\ SizeAtom = 1 * SizeAtom  OBVIOUS
<1>. QED  BY <1>1 DEF Multiple

\* What is in the buffer, and what is free, are whole records.
LEMMA MultipleUsed ==
  ASSUME Multiple(SizeMax), NEW s \in Index, NEW e \in Index, NEW m \in BOOLEAN,
         Multiple(s), Multiple(e), m => s = e
  PROVE  /\ Multiple(Used(s, e, m))
         /\ Multiple(WriteAvailable(s, e, m))
         /\ WriteAvailable(s, e, m) = SizeMax - Used(s, e, m)
         /\ e + SizeAtom <= SizeMax /\ s + SizeAtom <= SizeMax
         /\ Multiple(Wrap(e + SizeAtom)) /\ Multiple(Wrap(s + SizeAtom))
<1>1. e + SizeAtom <= SizeMax /\ s + SizeAtom <= SizeMax
  BY MultipleGap DEF Index
<1>2. ASSUME NEW i \in Index, i + SizeAtom <= SizeMax, Multiple(i)
      PROVE  Multiple(Wrap(i + SizeAtom))
  <2>1. Multiple(i + SizeAtom)  BY <1>2, MultipleSum, MultipleUnit
  <2>2. Wrap(i + SizeAtom) \in {0, i + SizeAtom}  BY <1>2 DEF Wrap, Index
  <2>. QED  BY <2>1, <2>2, MultipleUnit
<1>3. WriteAvailable(s, e, m) = SizeMax - Used(s, e, m)
  BY DEF Index, WriteAvailable, ReadAvailable, Used
<1>4. Used(s, e, m) <= SizeMax  BY AvailableType DEF Used
<1>5. Multiple(Used(s, e, m))
  <2>1. CASE m
    <3>1. Used(s, e, m) = 0  BY <2>1 DEF Used, ReadAvailable
    <3>. QED  BY <3>1, MultipleUnit
  <2>2. CASE ~m /\ s = e
    <3>1. Used(s, e, m) = SizeMax  BY <2>2 DEF Used, ReadAvailable, Index
    <3>. QED  BY <3>1
  <2>3. CASE ~m /\ s < e
    <3>1. Used(s, e, m) = e - s  BY <2>3 DEF Used, ReadAvailable, Index
    <3>2. s <= e  BY <2>3 DEF Index
    <3>. QED  BY <3>1, <3>2, MultipleSum
  <2>4. CASE ~m /\ s > e
    <3>1. Used(s, e, m) = (SizeMax - s) + e  BY <2>4 DEF Used, ReadAvailable, Index
    <3>2. s <= SizeMax  BY DEF Index
    <3>3. Multiple(SizeMax - s)  BY <3>2, MultipleSum
    <3>. QED  BY <3>1, <3>3, MultipleSum
  <2>. QED  BY <2>1, <2>2, <2>3, <2>4 DEF Index
<1>. QED  BY <1>1, <1>2, <1>3, <1>4, <1>5, MultipleSum

\* A writer in the section has its whole record to write, sees no room only
\* when the buffer is full, and writes it without passing the last cell twice.
LEMMA RecordWriter ==
  ASSUME Records, Base, RecordInv, NEW p \in Proc, Inside(p, "write")
  PROVE  /\ sizeDone(p) = 0 /\ call[p].count = SizeAtom /\ writeSize(p) = SizeAtom
         /\ noRoom(p) => start = end /\ ~isEmpty /\ ~writePass(p)
         /\ WriterExact(p)
         /\ ~noRoom(p) => writeSecond(p) = 0
<1>1. /\ IInv /\ Multiple(SizeMax) /\ Multiple(start) /\ Multiple(end)
      /\ start \in Index /\ end \in Index /\ isEmpty \in BOOLEAN
      /\ isEmpty => start = end
  BY InSection DEF Base, Records, RecordInv, Inside, IInv, TypeOK
<1>2. /\ call[p] # NoCall /\ call[p].op = "write"
      /\ data[p].secondLimitLoop = 0 /\ data[p].passByMiddle = FALSE
      /\ call[p].count = SizeAtom /\ sizeDone(p) \in {0, SizeAtom}
      /\ sizeDone(p) < call[p].count
  BY <1>1, InSection DEF RecordInv, RecordCall, Inside, IInv, TypeOK, DataType, CallsOpen
<1>3. sizeDone(p) = 0  BY <1>2
<1>4. writeSize(p) = SizeAtom  BY <1>2, <1>3 DEF writeSize, rest, SizeOfRound
<1>5. /\ Multiple(WriteAvailable(start, end, isEmpty))
      /\ end + SizeAtom <= SizeMax
      /\ WriteAvailable(start, end, isEmpty) \in 0 .. SizeMax
  BY <1>1, MultipleUsed, AvailableType
<1>6. noRoom(p) => start = end /\ ~isEmpty
  <2>. SUFFICES ASSUME ~(start = end /\ ~isEmpty) PROVE ~noRoom(p)  OBVIOUS
  <2>1. WriteAvailable(start, end, isEmpty) > 0
    BY <1>1 DEF WriteAvailable, Index
  <2>2. 0 + SizeAtom <= WriteAvailable(start, end, isEmpty)
    BY <1>5, <2>1, MultipleGap, MultipleUnit
  <2>. QED  BY <1>4, <1>5, <2>2 DEF noRoom
<1>7. noRoom(p) => ~writePass(p)
  BY <1>1, <1>2, <1>6 DEF writePass, WritePasses, Index
<1>8. ~noRoom(p) => writeSecond(p) = 0
  BY <1>1, <1>2, <1>4, <1>5 DEF writeSecond, SecondLimit, Index
<1>9. WriterExact(p)
  <2>. SUFFICES ASSUME ~noRoom(p)
                PROVE  ExactRound(end, writeSize(p), writePass(p), writeSecond(p))
    BY DEF WriterExact
  <2>1. writeSize(p) <= WriteAvailable(start, end, isEmpty) /\ writeSize(p) \in Nat \ {0}
    BY <1>1, WriterSize
  <2>2. /\ writePass(p) = WritePasses(start, end, isEmpty, writeSize(p), FALSE)
        /\ writeSecond(p) = SecondLimit(end, writeSize(p), writePass(p), 0)
    BY <1>2 DEF writePass, writeSecond
  <2>. QED  BY <1>1, <2>1, <2>2, WriteRoundExact
<1>. QED  BY <1>2, <1>3, <1>4, <1>6, <1>7, <1>8, <1>9

\* A reader has nothing yet, and takes a whole record.
LEMMA RecordReader ==
  ASSUME Records, Base, RecordInv, NEW p \in Proc, Inside(p, "read")
  PROVE  /\ sizeDone(p) = 0 /\ call[p].count = SizeAtom
         /\ ReaderExact(p)
         /\ ~isEmpty => readSize(p) = SizeAtom /\ readSecond(p) = 0
<1>1. /\ IInv /\ Multiple(SizeMax) /\ Multiple(start) /\ Multiple(end)
      /\ start \in Index /\ end \in Index /\ isEmpty \in BOOLEAN
      /\ isEmpty => start = end
  BY InSection DEF Base, Records, RecordInv, Inside, IInv, TypeOK
<1>2. /\ call[p] # NoCall /\ call[p].op = "read"
      /\ data[p].secondLimitLoop = 0 /\ data[p].passByMiddle = FALSE
      /\ call[p].count = SizeAtom /\ sizeDone(p) \in {0, SizeAtom}
      /\ sizeDone(p) < call[p].count
  BY <1>1, InSection DEF RecordInv, RecordCall, Inside, IInv, TypeOK, DataType, CallsOpen
<1>3. sizeDone(p) = 0  BY <1>2
<1>4. readWanted(p) = SizeAtom  BY <1>2, <1>3 DEF readWanted, rest, SizeOfRound
<1>5. ASSUME ~isEmpty
      PROVE  /\ readSize(p) = SizeAtom /\ ~(readWanted(p) > readAvailable)
             /\ SizeAtom <= ReadAvailable(start, end, isEmpty)
             /\ readSecond(p) = 0
  <2>1. /\ Multiple(readAvailable) /\ readAvailable \in 0 .. SizeMax
        /\ readAvailable > 0 /\ start + SizeAtom <= SizeMax
    BY <1>1, <1>5, MultipleUsed, AvailableType DEF readAvailable, Used
  <2>2. 0 + SizeAtom <= readAvailable
    BY <2>1, MultipleGap, MultipleUnit
  <2>3. readSize(p) = SizeAtom  BY <1>4, <2>1, <2>2 DEF readSize
  <2>4. readSecond(p) = 0
    BY <1>1, <1>2, <2>1, <2>3 DEF readSecond, SecondLimit, Index
  <2>. QED  BY <1>4, <2>1, <2>2, <2>3, <2>4 DEF readAvailable
<1>6. ReaderExact(p)
  <2>. SUFFICES ASSUME ~isEmpty
                PROVE  ExactRound(start, readSize(p), readPass(p), readSecond(p))
    BY DEF ReaderExact
  <2>1. /\ readPass(p) = ReadPasses(start, end, isEmpty, SizeAtom, FALSE)
        /\ readSecond(p) = SecondLimit(start, SizeAtom, readPass(p), 0)
        /\ readSize(p) = SizeAtom
    BY <1>2, <1>4, <1>5 DEF readPass, readSecond
  <2>. QED  BY <1>1, <1>5, <2>1, ReadRoundExact
<1>. QED  BY <1>2, <1>3, <1>5, <1>6

LEMMA RecordExact ==
  ASSUME Records, Base, RecordInv
  PROVE  Exact
  BY RecordWriter, RecordReader DEF Exact, WriterExact, ReaderExact

\* A record behind whole records.
LEMMA RecordsAppend ==
  ASSUME NEW Q \in Seq(Byte), NEW b \in Seq(Byte),
         MadeOfRecords(Q), Multiple(Len(Q)), WholeRecord(b)
  PROVE  MadeOfRecords(Q \o b)
<1>1. PICK w \in Proc, s \in 0 .. Stamps - 1 :
        b = [i \in 1 .. SizeAtom |-> <<w, (s + i - 1) % Stamps>>]
  BY DEF WholeRecord
<1>2. /\ Len(b) = SizeAtom /\ Len(Q) \in Nat
      /\ Len(Q \o b) = Len(Q) + SizeAtom
      /\ \A i \in 1 .. Len(Q) + SizeAtom :
           (Q \o b)[i] = IF i <= Len(Q) THEN Q[i] ELSE b[i - Len(Q)]
  BY ConcatProperties, LenProperties DEF WholeRecord
<1>3. ASSUME NEW m \in Nat, Multiple(m), m < Len(Q \o b)
      PROVE  /\ m + SizeAtom <= Len(Q \o b)
             /\ \E v \in Proc, t \in 0 .. Stamps - 1 :
                  \A i \in 1 .. SizeAtom : (Q \o b)[m + i] = <<v, (t + i - 1) % Stamps>>
  <2>1. CASE m < Len(Q)
    <3>1. PICK v \in Proc, t \in 0 .. Stamps - 1 :
            \A i \in 1 .. SizeAtom : Q[m + i] = <<v, (t + i - 1) % Stamps>>
      BY <1>3, <2>1 DEF MadeOfRecords
    <3>2. m + SizeAtom <= Len(Q)  BY <1>3, <2>1 DEF MadeOfRecords
    <3>3. \A i \in 1 .. SizeAtom : (Q \o b)[m + i] = Q[m + i]
      BY <1>2, <3>2
    <3>4. \A i \in 1 .. SizeAtom : (Q \o b)[m + i] = <<v, (t + i - 1) % Stamps>>
      BY <3>1, <3>3
    <3>5. m + SizeAtom <= Len(Q \o b)  BY <1>2, <3>2
    <3>. QED  BY <3>4, <3>5
  <2>2. CASE ~(m < Len(Q))
    <3>1. m = Len(Q)
      <4>1. Len(Q) < m => Len(Q) + SizeAtom <= m  BY <1>3, MultipleGap
      <4>. QED  BY <1>2, <1>3, <2>2, <4>1
    <3>2. \A i \in 1 .. SizeAtom : (Q \o b)[m + i] = b[i]
      BY <1>2, <3>1
    <3>3. \A i \in 1 .. SizeAtom : (Q \o b)[m + i] = <<w, (s + i - 1) % Stamps>>
      BY <1>1, <3>2
    <3>4. m + SizeAtom <= Len(Q \o b)  BY <1>2, <3>1
    <3>. QED  BY <3>3, <3>4
  <2>. QED  BY <2>1, <2>2
<1>. QED  BY <1>3 DEF MadeOfRecords

\* The first record, and those behind it.
LEMMA RecordsSplit ==
  ASSUME NEW Q \in Seq(Byte), MadeOfRecords(Q), Len(Q) > 0
  PROVE  /\ WholeRecord(SubSeq(Q, 1, SizeAtom))
         /\ MadeOfRecords(SubSeq(Q, SizeAtom + 1, Len(Q)))
<1>. DEFINE used == Len(Q)
            head == SubSeq(Q, 1, SizeAtom)
            first == SizeAtom + 1
            tail == SubSeq(Q, first, used)
<1>1. used \in Nat /\ \A i \in 1 .. used : Q[i] \in Byte
  BY LenProperties, ElementOfSeq
<1>2. Multiple(0) /\ 0 \in Nat /\ 0 < used  BY MultipleUnit
<1>3. 0 + SizeAtom <= used /\ SizeAtom <= used
  BY <1>1, <1>2 DEF MadeOfRecords
<1>4. /\ head \in Seq(Byte) /\ Len(head) = SizeAtom
      /\ \A i \in 1 .. SizeAtom : head[i] = Q[i]
  <2>1. \A i \in 1 .. SizeAtom : Q[i] \in Byte  BY <1>1, <1>3
  <2>. HIDE DEF used
  <2>2. /\ SubSeq(Q, 1, SizeAtom) \in Seq(Byte)
        /\ Len(SubSeq(Q, 1, SizeAtom)) = IF 1 <= SizeAtom THEN SizeAtom - 1 + 1 ELSE 0
        /\ \A i \in 1 .. SizeAtom - 1 + 1 : SubSeq(Q, 1, SizeAtom)[i] = Q[1 + i - 1]
    BY ONLY SizeAssumption, <2>1, SubSeqProperties
  <2>. QED  BY <2>2
<1>5. /\ tail \in Seq(Byte) /\ Len(tail) = used - SizeAtom
      /\ \A i \in 1 .. used - SizeAtom : tail[i] = Q[SizeAtom + i]
  <2>1. first \in Int /\ used \in Int /\ \A i \in first .. used : Q[i] \in Byte
    BY <1>1, <1>3
  <2>2. /\ SubSeq(Q, first, used) \in Seq(Byte)
        /\ Len(SubSeq(Q, first, used)) = IF first <= used THEN used - first + 1 ELSE 0
        /\ \A i \in 1 .. used - first + 1 : SubSeq(Q, first, used)[i] = Q[first + i - 1]
    <3>. HIDE DEF used, first
    <3>. QED  BY ONLY <2>1, SubSeqProperties
  <2>3. Len(tail) = used - SizeAtom  BY <1>1, <1>3, <2>2
  <2>4. \A i \in 1 .. used - SizeAtom :
          i \in 1 .. used - first + 1 /\ first + i - 1 = SizeAtom + i
    BY <1>1, <1>3
  <2>. QED  BY <2>2, <2>3, <2>4
<1>. HIDE DEF used, head, tail
<1>6. WholeRecord(head)
  <2>1. PICK w \in Proc, s \in 0 .. Stamps - 1 :
          \A i \in 1 .. SizeAtom : Q[0 + i] = <<w, (s + i - 1) % Stamps>>
    BY <1>2 DEF MadeOfRecords, used
  <2>2. DOMAIN head = 1 .. SizeAtom /\ head \in [1 .. SizeAtom -> Byte]
    BY <1>4, LenProperties
  <2>3. \A i \in 1 .. SizeAtom : head[i] = <<w, (s + i - 1) % Stamps>>
    <3>1. \A i \in 1 .. SizeAtom : 0 + i = i  OBVIOUS
    <3>. QED  BY <1>4, <2>1, <3>1, Zenon
  <2>4. head = [i \in 1 .. SizeAtom |-> <<w, (s + i - 1) % Stamps>>]
    BY <2>2, <2>3
  <2>. QED  BY <1>4, <2>4 DEF WholeRecord
<1>7. MadeOfRecords(tail)
  <2>. SUFFICES ASSUME NEW m \in Nat, Multiple(m), m < Len(tail)
                PROVE  /\ m + SizeAtom <= Len(tail)
                       /\ \E w \in Proc, s \in 0 .. Stamps - 1 :
                            \A i \in 1 .. SizeAtom :
                              tail[m + i] = <<w, (s + i - 1) % Stamps>>
    BY DEF MadeOfRecords
  <2>1. Multiple(m + SizeAtom) /\ m + SizeAtom \in Nat /\ m + SizeAtom < used
    BY <1>1, <1>5, MultipleSum, MultipleUnit
  <2>2. PICK w \in Proc, s \in 0 .. Stamps - 1 :
          \A i \in 1 .. SizeAtom : Q[m + SizeAtom + i] = <<w, (s + i - 1) % Stamps>>
    BY <2>1 DEF MadeOfRecords, used
  <2>3. m + SizeAtom + SizeAtom <= used
    BY <2>1 DEF MadeOfRecords, used
  <2>4. \A i \in 1 .. SizeAtom : tail[m + i] = Q[m + SizeAtom + i]
    <3>1. \A i \in 1 .. SizeAtom :
            m + i \in 1 .. used - SizeAtom /\ SizeAtom + (m + i) = m + SizeAtom + i
      BY <1>1, <2>3
    <3>. QED  BY <1>5, <3>1
  <2>5. m + SizeAtom <= Len(tail)  BY <1>1, <1>5, <2>3
  <2>. QED  BY <2>2, <2>4, <2>5
<1>. QED  BY <1>6, <1>7 DEF head, tail, used

\* A call stays as it is while others step.
LEMMA OthersRecord ==
  ASSUME NEW p \in Proc, \A q \in Proc : RecordCall(q), Others(p), RecordCall(p)'
  PROVE  \A q \in Proc : RecordCall(q)'
<1>1. ASSUME NEW q \in Proc, q # p PROVE RecordCall(q)'
  <2>1. /\ RecordCall(q) /\ call'[q] = call[q] /\ data'[q] = data[q]
        /\ pc'[q] = pc[q] \/ pc'[q] = "relock"
    BY <1>1 DEF Others
  <2>. QED  BY <2>1 DEF RecordCall, sizeDone, Reading, Writing, retry
<1>. QED  BY <1>1

\* What a writer brings is a record.
LEMMA PayloadIsRecord ==
  ASSUME IInv, NEW p \in Proc
  PROVE  WholeRecord(Payload(p, SizeAtom))
<1>1. stamp[p] \in 0 .. Stamps - 1  BY DEF IInv, TypeOK
<1>2. Len(Payload(p, SizeAtom)) = SizeAtom  BY <1>1, PayloadType
<1>3. Payload(p, SizeAtom) =
        [i \in 1 .. SizeAtom |-> <<p, (stamp[p] + i - 1) % Stamps>>]
  BY DEF Payload
<1>. QED  BY <1>1, <1>2, <1>3 DEF WholeRecord

\* Steps that leave the buffer as it is.
LEMMA RecordKept ==
  ASSUME Records, Base, RecordInv, NEW p \in Proc,
         \/ \E c \in Calls[p] : Enter(p, c)
         \/ Gives(p) \/ WriteEof(p) \/ Waits(p) \/ WriteWait(p)
  PROVE  RecordInv'
<1>1. IInv /\ RecordCall(p) /\ \A q \in Proc : RecordCall(q)  BY DEF Base, RecordInv
<1>2. ASSUME UNCHANGED <<start, end, isEmpty, buf>>, Others(p), RecordCall(p)'
      PROVE  RecordInv'
  <2>1. \A q \in Proc : RecordCall(q)'  BY <1>1, <1>2, OthersRecord
  <2>2. Queue' = Queue  BY <1>2 DEF Queue
  <2>3. MadeOfRecords(Queue')  BY <2>2 DEF RecordInv, Queue
  <2>4. Multiple(start)' /\ Multiple(end)'  BY <1>2 DEF RecordInv, Multiple
  <2>5. RecordInv' = (Multiple(start)' /\ Multiple(end)'
                       /\ (\A q \in Proc : RecordCall(q)') /\ MadeOfRecords(Queue'))
    BY DEF RecordInv, Queue, MadeOfRecords
  <2>. QED  BY <2>1, <2>3, <2>4, <2>5
<1>3. ASSUME NEW c \in Calls[p], Enter(p, c) PROVE RecordInv'
  <2>1. /\ Others(p) /\ pc'[p] = "lock" /\ call'[p] = c /\ c.count > 0
        /\ UNCHANGED <<start, end, isEmpty, buf>>
        /\ data'[p].bytes = IF c.op = "write" THEN Payload(p, c.count) ELSE <<>>
        /\ sizeDone(p)' = 0
        /\ data'[p].secondLimitLoop = 0
        /\ data'[p].passByMiddle = FALSE
    BY <1>1, <1>3, Enters
  <2>2. c.op \in Ops  BY ConductAssumption DEF CallRecord
  <2>3. c.op # "write_eof" => c.count = SizeAtom  BY <2>1, <2>2 DEF Records, Ops
  <2>4. Writing(p)' => WholeRecord(data'[p].bytes)
    BY <1>1, <2>1, <2>3, PayloadIsRecord DEF Writing
  <2>5. RecordCall(p)'  BY <2>1, <2>3, <2>4 DEF RecordCall, retry
  <2>. QED  BY <1>2, <2>1, <2>5
<1>4. CASE Gives(p) \/ WriteEof(p)
  <2>1. /\ Gone(p) /\ Others(p) /\ pc'[p] = "idle"
        /\ UNCHANGED <<start, end, isEmpty, buf>>
    BY <1>1, <1>4, GivesUp, MarksEof, GoneOthers
  <2>2. RecordCall(p)'
    BY <1>1, <2>1, GoneOthers DEF RecordCall, Reading, Writing, NoData, NewData
  <2>. QED  BY <1>2, <2>1, <2>2
<1>5. CASE Waits(p)
  <2>1. /\ Others(p) /\ UNCHANGED <<start, end, isEmpty, buf, call, data>>
        /\ pc'[p] # "unlocked"
    BY <1>1, <1>5, Stays
  <2>2. RecordCall(p)'
    BY <1>1, <2>1 DEF RecordCall, sizeDone, Reading, Writing, retry
  <2>. QED  BY <1>2, <2>1, <2>2
<1>6. CASE WriteWait(p)
  <2>1. Inside(p, "write") /\ noRoom(p)  BY <1>6 DEF WriteWait
  <2>2. ~writePass(p)  BY <2>1, RecordWriter
  <2>3. /\ Others(p) /\ pc'[p] = "waitWrite"
        /\ UNCHANGED <<start, end, isEmpty, buf, call>>
        /\ data'[p].bytes = data[p].bytes
        /\ sizeDone(p)' = sizeDone(p)
        /\ data'[p].secondLimitLoop = data[p].secondLimitLoop
        /\ data'[p].passByMiddle = writePass(p)
    BY <1>1, <1>6, Sleeps
  <2>4. RecordCall(p)'
    BY <1>1, <2>2, <2>3 DEF RecordCall, Reading, Writing, retry
  <2>. QED  BY <1>2, <2>3, <2>4
<1>. QED  BY <1>3, <1>4, <1>5, <1>6

\* A record goes in.
LEMMA RecordWrites ==
  ASSUME Records, Base, IInv', RecordInv, NEW p \in Proc, WriteRound(p)
  PROVE  RecordInv'
<1>1. /\ IInv /\ RecordCall(p) /\ Inside(p, "write") /\ ~noRoom(p)
      /\ call[p] # NoCall /\ call[p].op = "write" /\ Writing(p)
      /\ \A q \in Proc : RecordCall(q)
  BY InSection DEF Base, RecordInv, WriteRound, Inside, Writing
<1>2. /\ sizeDone(p) = 0 /\ call[p].count = SizeAtom /\ writeSize(p) = SizeAtom
      /\ WriterExact(p) /\ writeSecond(p) = 0
  BY <1>1, RecordWriter
<1>3. /\ Others(p) /\ pc'[p] = "unlocked" /\ call'[p] = call[p]
      /\ data'[p].bytes = data[p].bytes
      /\ sizeDone(p)' = SizeAtom /\ data'[p].secondLimitLoop = 0
      /\ data'[p].passByMiddle = FALSE
      /\ start' = start /\ end' = Wrap(end + SizeAtom)
  <2>1. writeMoved(p) = SizeAtom  BY <1>1, <1>2, WriterMoves
  <2>2. /\ Others(p) /\ pc'[p] = "unlocked" /\ call'[p] = call[p]
        /\ data'[p].bytes = data[p].bytes
        /\ sizeDone(p)' = 0 + SizeAtom /\ data'[p].secondLimitLoop = 0
        /\ data'[p].passByMiddle = FALSE
    BY <1>1, <1>2, <2>1, WriterData
  <2>3. 0 + SizeAtom = SizeAtom  OBVIOUS
  <2>4. start' = start /\ end' = Wrap(end + SizeAtom)
    BY <1>1, <1>2, WriterMoves
  <2>. QED  BY <2>2, <2>3, <2>4
<1>4. RecordCall(p)'
  BY <1>1, <1>2, <1>3 DEF RecordCall, Reading, Writing
<1>5. /\ Multiple(SizeMax) /\ Multiple(start) /\ Multiple(end)
      /\ start \in Index /\ end \in Index /\ isEmpty \in BOOLEAN
      /\ isEmpty => start = end
  BY <1>1, InSection DEF Records, RecordInv, Inside, IInv, TypeOK
<1>6. Multiple(start)' /\ Multiple(end)'
  <2>1. Multiple(end')  BY <1>3, <1>5, MultipleUsed
  <2>2. Multiple(start')  BY <1>3, <1>5
  <2>. QED  BY <2>1, <2>2 DEF Multiple
<1>7. MadeOfRecords(Queue')
  <2>. DEFINE b == data[p].bytes
  <2>1. b \in Seq(Byte) /\ WholeRecord(b) /\ Len(b) = SizeAtom
    BY <1>1 DEF RecordCall, WholeRecord, IInv, TypeOK, DataType
  <2>2. SubSeq(b, 0 + 1, 0 + SizeAtom) = b
    <3>1. \A i \in 1 .. SizeAtom : b[i] \in Byte  BY <2>1, ElementOfSeq
    <3>2. 0 + 1 = 1 /\ 0 + SizeAtom = SizeAtom  OBVIOUS
    <3>. HIDE DEF b
    <3>3. /\ SubSeq(b, 1, SizeAtom) \in Seq(Byte)
          /\ Len(SubSeq(b, 1, SizeAtom)) = IF 1 <= SizeAtom THEN SizeAtom - 1 + 1 ELSE 0
          /\ \A i \in 1 .. SizeAtom - 1 + 1 : SubSeq(b, 1, SizeAtom)[i] = b[1 + i - 1]
      BY ONLY SizeAssumption, <3>1, SubSeqProperties
    <3>4. SubSeq(b, 1, SizeAtom) = b  BY <2>1, <3>3, SeqEqual
    <3>. QED  BY <3>2, <3>4
  <2>3. Queue' = Queue \o SubSeq(b, 0 + 1, 0 + SizeAtom)
    BY <1>1, <1>2, QueueAfterWrite
  <2>4. Queue \in Seq(Byte) /\ Multiple(Len(Queue)) /\ MadeOfRecords(Queue)
    BY <1>1, <1>5, QueueType, MultipleUsed DEF RecordInv, Queue
  <2>. HIDE DEF b
  <2>. QED  BY <2>1, <2>2, <2>3, <2>4, RecordsAppend
<1>8. \A q \in Proc : RecordCall(q)'  BY <1>1, <1>3, <1>4, OthersRecord
<1>9. RecordInv' = (Multiple(start)' /\ Multiple(end)'
                     /\ (\A q \in Proc : RecordCall(q)') /\ MadeOfRecords(Queue'))
  BY DEF RecordInv, Queue, MadeOfRecords
<1>. QED  BY <1>6, <1>7, <1>8, <1>9

\* A record comes out.
LEMMA RecordReads ==
  ASSUME Records, Base, IInv', RecordInv, NEW p \in Proc, ReadRound(p)
  PROVE  RecordInv'
<1>1. /\ IInv /\ RecordCall(p) /\ Inside(p, "read") /\ ~isEmpty
      /\ call[p] # NoCall /\ call[p].op = "read" /\ Reading(p)
      /\ \A q \in Proc : RecordCall(q)
  BY InSection DEF Base, RecordInv, ReadRound, Inside, Reading
<1>2. /\ sizeDone(p) = 0 /\ call[p].count = SizeAtom /\ readSize(p) = SizeAtom
      /\ ReaderExact(p) /\ readSecond(p) = 0
  BY <1>1, RecordReader
<1>3. /\ Others(p) /\ pc'[p] = "unlocked" /\ call'[p] = call[p]
      /\ sizeDone(p)' = SizeAtom /\ data'[p].secondLimitLoop = 0
      /\ data'[p].passByMiddle = FALSE
      /\ end' = end /\ start' = Wrap(start + SizeAtom)
  <2>1. readMoved(p) = SizeAtom /\ 0 + SizeAtom = SizeAtom
    BY <1>1, <1>2, ReaderMoves
  <2>2. /\ Others(p) /\ pc'[p] = "unlocked" /\ call'[p] = call[p]
        /\ sizeDone(p)' = 0 + SizeAtom /\ data'[p].secondLimitLoop = 0
        /\ data'[p].passByMiddle = FALSE
    BY <1>1, <1>2, <2>1, ReaderData
  <2>. QED  BY <1>1, <1>2, <2>1, <2>2, ReaderMoves
<1>4. /\ Queue \in Seq(Byte) /\ MadeOfRecords(Queue)
      /\ Queue' = SubSeq(Queue, SizeAtom + 1, Len(Queue))
      /\ data'[p].bytes = data[p].bytes \o SubSeq(Queue, 1, SizeAtom)
      /\ Len(Queue) > 0 /\ SizeAtom \in 1 .. Len(Queue)
  <2>1. Queue \in Seq(Byte)  BY <1>1, QueueType
  <2>2. MadeOfRecords(Queue)  BY DEF RecordInv, Queue
  <2>3. /\ Queue' = SubSeq(Queue, readSize(p) + 1, Len(Queue))
        /\ data'[p].bytes = data[p].bytes \o SubSeq(Queue, 1, readSize(p))
        /\ readSize(p) \in 1 .. Len(Queue)
    BY <1>1, <1>2, QueueAfterRead
  <2>4. Len(Queue) > 0
    <3>1. Len(Queue) \in Nat  BY <2>1, LenProperties
    <3>. QED  BY <2>3, <3>1
  <2>. QED  BY <1>2, <2>1, <2>2, <2>3, <2>4
<1>5. data'[p].bytes = SubSeq(Queue, 1, SizeAtom)
  <2>1. data[p].bytes = <<>>
    BY <1>1, <1>2, EmptySeq DEF Base, Tidy, TidyAt, IInv, TypeOK, DataType
  <2>2. SubSeq(Queue, 1, SizeAtom) \in Seq(Byte)
    <3>1. \A i \in 1 .. SizeAtom : Queue[i] \in Byte  BY <1>4, ElementOfSeq
    <3>. QED  BY ONLY SizeAssumption, <3>1, SubSeqProperties
  <2>. QED  BY <1>4, <2>1, <2>2, ConcatEmptySeq
<1>6. WholeRecord(data'[p].bytes) /\ MadeOfRecords(Queue')
  BY <1>4, <1>5, RecordsSplit
<1>7. RecordCall(p)'
  BY <1>1, <1>2, <1>3, <1>6 DEF RecordCall, Reading, Writing
<1>8. /\ Multiple(SizeMax) /\ Multiple(start) /\ Multiple(end)
      /\ start \in Index /\ end \in Index /\ isEmpty \in BOOLEAN
      /\ isEmpty => start = end
  BY <1>1, InSection DEF Records, RecordInv, Inside, IInv, TypeOK
<1>9. Multiple(start)' /\ Multiple(end)'
  <2>1. Multiple(start')  BY <1>3, <1>8, MultipleUsed
  <2>2. Multiple(end')  BY <1>3, <1>8
  <2>. QED  BY <2>1, <2>2 DEF Multiple
<1>10. \A q \in Proc : RecordCall(q)'  BY <1>1, <1>3, <1>7, OthersRecord
<1>11. RecordInv' = (Multiple(start)' /\ Multiple(end)'
                     /\ (\A q \in Proc : RecordCall(q)') /\ MadeOfRecords(Queue'))
  BY DEF RecordInv, Queue, MadeOfRecords
<1>. QED  BY <1>6, <1>9, <1>10, <1>11

LEMMA RecordNext ==
  ASSUME Records, Base, IInv', RecordInv, [Next]_vars
  PROVE  RecordInv'
<1>1. ASSUME UNCHANGED <<start, end, isEmpty, buf, pc, call, data>> PROVE RecordInv'
  <2>1. Queue' = Queue  BY <1>1 DEF Queue
  <2>2. MadeOfRecords(Queue')  BY <2>1 DEF RecordInv, Queue
  <2>3. Multiple(start)' /\ Multiple(end)'  BY <1>1 DEF RecordInv, Multiple
  <2>4. \A q \in Proc : RecordCall(q)'
    BY <1>1 DEF RecordInv, RecordCall, sizeDone, Reading, Writing, retry
  <2>5. RecordInv' = (Multiple(start)' /\ Multiple(end)'
                       /\ (\A q \in Proc : RecordCall(q)') /\ MadeOfRecords(Queue'))
    BY DEF RecordInv, Queue, MadeOfRecords
  <2>. QED  BY <2>2, <2>3, <2>4, <2>5
<1>2. CASE UNCHANGED vars  BY <1>1, <1>2 DEF vars, shared
<1>3. ASSUME NEW p \in Proc, NEW c \in Calls[p], Refuse(p, c) PROVE RecordInv'
  BY <1>1, <1>3 DEF Refuse, shared
<1>4. ASSUME NEW p \in Proc PROVE ~WriteCrash(p) /\ ~ReadCrash(p)
  BY <1>4, RecordExact, NobodyCrashes DEF Exact, Base
<1>. QED
  BY <1>2, <1>3, <1>4, RecordKept, RecordWrites, RecordReads
  DEF Next, Invoke, Step, Section, Gives, Waits

LEMMA RecordInvariant ==
  ASSUME Records
  PROVE  Spec => [](Base /\ RecordInv)
<1>1. Init => RecordInv
  <2>. SUFFICES ASSUME Init PROVE RecordInv  OBVIOUS
  <2>1. Multiple(start) /\ Multiple(end)  BY MultipleUnit DEF Init
  <2>2. ASSUME NEW p \in Proc PROVE RecordCall(p)
    BY DEF Init, RecordCall, Reading, Writing, NoData, NewData
  <2>3. Contents(buf, start, end, isEmpty) = <<>>
    BY DEF Init, Contents, Used, ReadAvailable
  <2>4. MadeOfRecords(<<>>)  BY EmptySeq DEF MadeOfRecords
  <2>. QED  BY <2>1, <2>2, <2>3, <2>4 DEF RecordInv
<1>2. Base /\ Base' /\ RecordInv /\ [Next]_vars => RecordInv'
  BY RecordNext DEF Base
<1>. QED  BY <1>1, <1>2, BaseInvariant, PTL DEF Spec

LEMMA RecordsAreFifo ==
  ASSUME Records
  PROVE  Spec => ImplementsFifo
<1>1. Base /\ RecordInv /\ Base' /\ [Next]_vars => [Fifo!Next]_Fifo!vars
  BY RecordExact, FifoNext DEF Base
<1>. QED  BY <1>1, FifoInit, RecordInvariant, PTL DEF Spec, ImplementsFifo, Fifo!Spec

\* The conduit is a queue of bytes that keeps the promises of ConductFifo
\* (nothing lost, duplicated, reordered or invented, pieces of the atomic limit
\* whole, nothing after end of file, 0 only at its end), in both uses: the rounds
\* of conduct_read and conduct_write are exact there.
THEOREM ConductIsFifo ==
  ASSUME OneEachSide \/ Records
  PROVE  Spec => ImplementsFifo
  BY OneEachSideIsFifo, RecordsAreFifo

\* In both, no call transfers more than it was asked for (`read or write as far
\* as ask by user', README.md:16).
THEOREM MovesWhatIsAsked ==
  ASSUME OneEachSide \/ Records
  PROVE  Spec => []NeverMoreThanAsked
<1>1. CASE OneEachSide
  <2>1. AloneInv => NeverMoreThanAsked  BY DEF AloneInv, Alone, NeverMoreThanAsked
  <2>. QED  BY <1>1, <2>1, AloneInvariant, PTL
<1>2. CASE Records
  <2>1. Base /\ RecordInv => NeverMoreThanAsked
    <3>. SUFFICES ASSUME Base, RecordInv, NEW p \in Proc, call[p] # NoCall
                  PROVE  sizeDone(p) <= call[p].count
      BY DEF NeverMoreThanAsked
    <3>1. /\ call[p].op = "write_eof" => sizeDone(p) = 0
          /\ call[p].op # "write_eof" =>
               call[p].count = SizeAtom /\ sizeDone(p) \in {0, SizeAtom}
          /\ call[p].count \in Nat
      BY DEF RecordInv, RecordCall, Base, IInv, TypeOK, CallRecord
    <3>. QED  BY <3>1
  <2>. QED  BY <1>2, <2>1, RecordInvariant, PTL
<1>. QED  BY <1>1, <1>2

\* What a reader of records gets is one record of one writer, whole, however
\* many threads write and read.
THEOREM RecordsStayWhole ==
  ASSUME Records
  PROVE  Spec => []RecordsComeWhole
<1>1. RecordInv => RecordsComeWhole
  BY DEF RecordInv, RecordCall, WholeRecord, RecordsComeWhole
<1>. QED  BY <1>1, RecordInvariant, PTL

-----------------------------------------------------------------------------
(* One signal for each record wakes enough threads.                        *)

\* SizeAtom bytes for each thread of a set.
LEMMA Counting ==
  ASSUME IsFiniteSet(Proc), NEW S \in SUBSET Proc, NEW T \in SUBSET Proc, NEW x \in Proc
  PROVE  /\ SizeAtom * Cardinality(S) \in Nat /\ SizeAtom * Cardinality(T) \in Nat
         /\ S \subseteq T => SizeAtom * Cardinality(S) <= SizeAtom * Cardinality(T)
         /\ S \cup {x} \subseteq T /\ x \notin S
              => SizeAtom * Cardinality(S) + SizeAtom <= SizeAtom * Cardinality(T)
         /\ S \ {x} \subseteq T
              => SizeAtom * Cardinality(S) <= SizeAtom * Cardinality(T) + SizeAtom
<1>1. IsFiniteSet(S) /\ IsFiniteSet(T)  BY FS_Subset
<1>2. Cardinality(S) \in Nat /\ Cardinality(T) \in Nat  BY <1>1, FS_CardinalityType
<1>3. S \subseteq T => Cardinality(S) <= Cardinality(T)  BY <1>1, FS_Subset
<1>4. S \cup {x} \subseteq T /\ x \notin S => Cardinality(S) + 1 <= Cardinality(T)
  <2>1. /\ IsFiniteSet(S \cup {x})
        /\ x \notin S => Cardinality(S \cup {x}) = Cardinality(S) + 1
    BY <1>1, FS_AddElement
  <2>2. S \cup {x} \subseteq T => Cardinality(S \cup {x}) <= Cardinality(T)
    BY <1>1, FS_Subset
  <2>. QED  BY <2>1, <2>2
<1>5. S \ {x} \subseteq T => Cardinality(S) <= Cardinality(T) + 1
  <2>1. Cardinality(S \ {x}) \in {Cardinality(S), Cardinality(S) - 1}
    BY <1>1, FS_RemoveElement
  <2>2. S \ {x} \subseteq T => Cardinality(S \ {x}) <= Cardinality(T)
    BY <1>1, FS_Subset
  <2>. QED  BY <1>2, <2>1, <2>2
<1>6. SizeAtom \in Nat  OBVIOUS
<1>7. \A i, j \in Nat : i <= j => SizeAtom * i <= SizeAtom * j  BY <1>6
<1>8. \A i \in Nat : SizeAtom * i \in Nat /\ SizeAtom * (i + 1) = SizeAtom * i + SizeAtom
  BY <1>6
<1>. HIDE SizeAssumption
<1>. QED  BY <1>2, <1>3, <1>4, <1>5, <1>7, <1>8

\* The sets of awake threads, as far as the others of p are concerned.
LEMMA OthersAwake ==
  ASSUME NEW p \in Proc, Others(p)
  PROVE  /\ AwakeReaders \ {p} \subseteq AwakeReaders'
         /\ AwakeWriters \ {p} \subseteq AwakeWriters'
         /\ Waiters("waitRead")' \ {p} \subseteq Waiters("waitRead")
         /\ Waiters("waitWrite")' \ {p} \subseteq Waiters("waitWrite")
<1>1. ASSUME NEW q \in Proc, q # p
      PROVE  /\ Reading(q)' = Reading(q) /\ Writing(q)' = Writing(q)
             /\ Awake(q) => Awake(q)'
             /\ pc'[q] \in {"waitRead", "waitWrite"} => pc'[q] = pc[q]
  BY <1>1 DEF Others, Reading, Writing, Awake
<1>. QED  BY <1>1 DEF AwakeReaders, AwakeWriters, Waiters

\* Whom a signal wakes.
LEMMA SignalWakes ==
  ASSUME NEW p \in Proc, pc[p] = "section",
         NEW to, NEW queue \in {"waitRead", "waitWrite"},
         NEW woken \in Signalled(queue), Advance(p, to, woken),
         Waiters(queue) # {}
  PROVE  \E x \in Waiters(queue) : x # p /\ pc'[x] = "relock"
<1>1. PICK x \in Waiters(queue) : woken = {x}  BY DEF Signalled
<1>2. x \in Proc /\ x # p  BY DEF Waiters
<1>3. pc'[x] = "relock"  BY <1>1, <1>2 DEF Advance
<1>. QED  BY <1>2, <1>3

\* A step that leaves the indices alone keeps enough readers awake, unless it
\* takes one away; it does that only when there is nothing to read.
LEMMA ReadersKept ==
  ASSUME IsFiniteSet(Proc), Base, EnoughReaders, NEW p \in Proc, Others(p),
         UNCHANGED <<start, end, isEmpty>>,
         \/ isEmpty
         \/ /\ p \in AwakeReaders => p \in AwakeReaders'
            /\ pc'[p] = "waitRead" => pc[p] = "waitRead"
  PROVE  EnoughReaders'
<1>1. AwakeReaders \in SUBSET Proc /\ AwakeReaders' \in SUBSET Proc
  BY DEF AwakeReaders
<1>. DEFINE used == Used(start, end, isEmpty)
            S == AwakeReaders
            T == AwakeReaders'
<1>2. used \in Nat /\ (isEmpty => used = 0)
  <2>1. used \in Nat  BY QueueType DEF Base
  <2>. QED  BY <2>1 DEF Used, ReadAvailable
<1>3. SizeAtom * Cardinality(S) \in Nat /\ SizeAtom * Cardinality(T) \in Nat
  BY <1>1, Counting
<1>4. CASE isEmpty
  <2>1. used <= SizeAtom * Cardinality(T)
    <3>. HIDE DEF used, T
    <3>. QED  BY <1>2, <1>3, <1>4
  <2>. QED  BY <2>1 DEF EnoughReaders, Used
<1>5. CASE ~isEmpty
  <2>1. S \subseteq T /\ Waiters("waitRead")' \subseteq Waiters("waitRead")
    BY <1>5, OthersAwake DEF Waiters
  <2>2. SizeAtom * Cardinality(S) <= SizeAtom * Cardinality(T)
    BY <1>1, <2>1, Counting
  <2>3. Waiters("waitRead")' # {} => used <= SizeAtom * Cardinality(S)
    BY <2>1 DEF EnoughReaders
  <2>4. Waiters("waitRead")' # {} => used <= SizeAtom * Cardinality(T)
    <3>. HIDE DEF used, S, T
    <3>. QED  BY <1>2, <1>3, <2>2, <2>3
  <2>. QED  BY <2>4 DEF EnoughReaders, Used
<1>6. isEmpty \in BOOLEAN  BY DEF Base, IInv, TypeOK
<1>. QED  BY <1>4, <1>5, <1>6

\* Same for writers, when there is no room.
LEMMA WritersKept ==
  ASSUME IsFiniteSet(Proc), Base, EnoughWriters, NEW p \in Proc, Others(p),
         UNCHANGED <<start, end, isEmpty>>,
         \/ Used(start, end, isEmpty) = SizeMax
         \/ /\ p \in AwakeWriters => p \in AwakeWriters'
            /\ pc'[p] = "waitWrite" => pc[p] = "waitWrite"
  PROVE  EnoughWriters'
<1>1. AwakeWriters \in SUBSET Proc /\ AwakeWriters' \in SUBSET Proc
  BY DEF AwakeWriters
<1>. DEFINE used == Used(start, end, isEmpty)
            S == AwakeWriters
            T == AwakeWriters'
<1>2. used \in Nat  BY QueueType DEF Base
<1>3. SizeAtom * Cardinality(S) \in Nat /\ SizeAtom * Cardinality(T) \in Nat
  BY <1>1, Counting
<1>4. CASE used = SizeMax
  <2>1. SizeMax - used <= SizeAtom * Cardinality(T)
    <3>. HIDE DEF used, T
    <3>. QED  BY <1>2, <1>3, <1>4
  <2>. QED  BY <2>1 DEF EnoughWriters, Used
<1>5. CASE used # SizeMax
  <2>1. S \subseteq T /\ Waiters("waitWrite")' \subseteq Waiters("waitWrite")
    BY <1>5, OthersAwake DEF Waiters
  <2>2. SizeAtom * Cardinality(S) <= SizeAtom * Cardinality(T)
    BY <1>1, <2>1, Counting
  <2>3. Waiters("waitWrite")' # {} => SizeMax - used <= SizeAtom * Cardinality(S)
    BY <2>1 DEF EnoughWriters
  <2>4. Waiters("waitWrite")' # {} => SizeMax - used <= SizeAtom * Cardinality(T)
    <3>. HIDE DEF used, S, T
    <3>. QED  BY <1>2, <1>3, <2>2, <2>3
  <2>. QED  BY <2>4 DEF EnoughWriters, Used
<1>. QED  BY <1>4, <1>5

\* A record that comes wakes a reader for it, and a writer goes.
LEMMA EnoughWrites ==
  ASSUME IsFiniteSet(Proc), Records, Base, RecordInv, EnoughAwake,
         NEW p \in Proc, WriteRound(p)
  PROVE  EnoughAwake'
<1>1. /\ IInv /\ Tidy /\ Inside(p, "write") /\ ~noRoom(p) /\ pc[p] = "section"
      /\ Writing(p) /\ ~Reading(p)
  <2>1. IInv /\ Tidy /\ Inside(p, "write") /\ ~noRoom(p) /\ pc[p] = "section"
    BY DEF Base, WriteRound, Inside
  <2>2. call[p] # NoCall /\ call[p].op = "write"  BY <2>1, InSection DEF Inside
  <2>. QED  BY <2>1, <2>2 DEF Writing, Reading
<1>. DEFINE used == Used(start, end, isEmpty)
<1>2. writeSize(p) = SizeAtom /\ WriterExact(p)  BY <1>1, RecordWriter
<1>3. used' = used + SizeAtom /\ used \in Nat
  <2>1. Used(start, end, isEmpty)' = Used(start, end, isEmpty) + writeSize(p)
    BY <1>1, <1>2, WriterMoves
  <2>. QED  BY <1>1, <1>2, <2>1, QueueType DEF Used
<1>4. Others(p) /\ pc'[p] = "unlocked" /\ call'[p] = call[p]
  BY <1>1, WriterData
<1>5. PICK woken \in Signalled("waitRead") : Advance(p, "unlocked", woken)
  BY DEF WriteRound
<1>6. /\ AwakeReaders \in SUBSET Proc /\ AwakeReaders' \in SUBSET Proc
      /\ AwakeWriters \in SUBSET Proc /\ AwakeWriters' \in SUBSET Proc
  BY DEF AwakeReaders, AwakeWriters
<1>7. Waiters("waitRead")' # {} =>
        used' <= SizeAtom * Cardinality(AwakeReaders')
  <2>. SUFFICES ASSUME Waiters("waitRead")' # {}
                PROVE  used' <= SizeAtom * Cardinality(AwakeReaders')
    OBVIOUS
  <2>1. Waiters("waitRead") # {}
    BY <1>4, OthersAwake DEF Waiters
  <2>2. PICK x \in Waiters("waitRead") : x # p /\ pc'[x] = "relock"
    BY <1>1, <1>5, <2>1, SignalWakes
  <2>3. x \in Proc /\ pc[x] = "waitRead" /\ Reading(x) /\ Reading(x)'
    BY <1>1, <1>4, <2>2 DEF Waiters, Tidy, TidyAt, Others, Reading
  <2>4. x \notin AwakeReaders /\ x \in AwakeReaders' /\ p \notin AwakeReaders
    BY <1>1, <2>2, <2>3 DEF AwakeReaders, Awake
  <2>5. AwakeReaders \cup {x} \subseteq AwakeReaders'
    BY <1>4, <2>4, OthersAwake
  <2>6. SizeAtom * Cardinality(AwakeReaders) + SizeAtom
          <= SizeAtom * Cardinality(AwakeReaders')
    BY <1>6, <2>3, <2>4, <2>5, Counting
  <2>7. used <= SizeAtom * Cardinality(AwakeReaders)
    BY <2>1 DEF EnoughAwake, EnoughReaders
  <2>8. /\ SizeAtom * Cardinality(AwakeReaders) \in Nat
        /\ SizeAtom * Cardinality(AwakeReaders') \in Nat
    BY <1>6, <2>3, Counting
  <2>. HIDE DEF used
  <2>. QED  BY <1>3, <2>6, <2>7, <2>8
<1>8. Waiters("waitWrite")' # {} =>
        SizeMax - used' <= SizeAtom * Cardinality(AwakeWriters')
  <2>. SUFFICES ASSUME Waiters("waitWrite")' # {}
                PROVE  SizeMax - used' <= SizeAtom * Cardinality(AwakeWriters')
    OBVIOUS
  <2>1. Waiters("waitWrite") # {}
    BY <1>4, OthersAwake DEF Waiters
  <2>2. AwakeWriters \ {p} \subseteq AwakeWriters'  BY <1>4, OthersAwake
  <2>3. /\ SizeAtom * Cardinality(AwakeWriters)
             <= SizeAtom * Cardinality(AwakeWriters') + SizeAtom
        /\ SizeAtom * Cardinality(AwakeWriters) \in Nat
        /\ SizeAtom * Cardinality(AwakeWriters') \in Nat
    BY <1>6, <2>2, Counting
  <2>4. SizeMax - used <= SizeAtom * Cardinality(AwakeWriters)
    BY <2>1 DEF EnoughAwake, EnoughWriters
  <2>. HIDE DEF used
  <2>. QED  BY <1>3, <2>3, <2>4
<1>. QED  BY <1>7, <1>8 DEF EnoughAwake, EnoughReaders, EnoughWriters, Used

\* A record that goes makes room, wakes a writer for it, and a reader goes.
LEMMA EnoughReads ==
  ASSUME IsFiniteSet(Proc), Records, Base, RecordInv, EnoughAwake,
         NEW p \in Proc, ReadRound(p)
  PROVE  EnoughAwake'
<1>1. /\ IInv /\ Tidy /\ Inside(p, "read") /\ ~isEmpty /\ pc[p] = "section"
      /\ Reading(p) /\ ~Writing(p)
  <2>1. IInv /\ Tidy /\ Inside(p, "read") /\ ~isEmpty /\ pc[p] = "section"
    BY DEF Base, ReadRound, Inside
  <2>2. call[p] # NoCall /\ call[p].op = "read"  BY <2>1, InSection DEF Inside
  <2>. QED  BY <2>1, <2>2 DEF Writing, Reading
<1>. DEFINE used == Used(start, end, isEmpty)
<1>2. readSize(p) = SizeAtom /\ ReaderExact(p)  BY <1>1, RecordReader
<1>3. used' = used - SizeAtom /\ used \in Nat
  BY <1>1, <1>2, ReaderMoves, QueueType
<1>4. Others(p) /\ pc'[p] = "unlocked" /\ call'[p] = call[p]
  BY <1>1, ReaderData
<1>5. PICK woken \in Signalled("waitWrite") : Advance(p, "unlocked", woken)
  BY DEF ReadRound
<1>6. /\ AwakeReaders \in SUBSET Proc /\ AwakeReaders' \in SUBSET Proc
      /\ AwakeWriters \in SUBSET Proc /\ AwakeWriters' \in SUBSET Proc
  BY DEF AwakeReaders, AwakeWriters
<1>7. Waiters("waitWrite")' # {} =>
        SizeMax - used' <= SizeAtom * Cardinality(AwakeWriters')
  <2>. SUFFICES ASSUME Waiters("waitWrite")' # {}
                PROVE  SizeMax - used' <= SizeAtom * Cardinality(AwakeWriters')
    OBVIOUS
  <2>1. Waiters("waitWrite") # {}
    BY <1>4, OthersAwake DEF Waiters
  <2>2. PICK x \in Waiters("waitWrite") : x # p /\ pc'[x] = "relock"
    BY <1>1, <1>5, <2>1, SignalWakes
  <2>3. x \in Proc /\ pc[x] = "waitWrite" /\ Writing(x) /\ Writing(x)'
    BY <1>1, <1>4, <2>2 DEF Waiters, Tidy, TidyAt, Others, Writing
  <2>4. x \notin AwakeWriters /\ x \in AwakeWriters' /\ p \notin AwakeWriters
    BY <1>1, <2>2, <2>3 DEF AwakeWriters, Awake
  <2>5. AwakeWriters \cup {x} \subseteq AwakeWriters'
    BY <1>4, <2>4, OthersAwake
  <2>6. SizeAtom * Cardinality(AwakeWriters) + SizeAtom
          <= SizeAtom * Cardinality(AwakeWriters')
    BY <1>6, <2>3, <2>4, <2>5, Counting
  <2>7. SizeMax - used <= SizeAtom * Cardinality(AwakeWriters)
    BY <2>1 DEF EnoughAwake, EnoughWriters
  <2>8. /\ SizeAtom * Cardinality(AwakeWriters) \in Nat
        /\ SizeAtom * Cardinality(AwakeWriters') \in Nat
    BY <1>6, <2>3, Counting
  <2>. HIDE DEF used
  <2>. QED  BY <1>3, <2>6, <2>7, <2>8
<1>8. Waiters("waitRead")' # {} =>
        used' <= SizeAtom * Cardinality(AwakeReaders')
  <2>. SUFFICES ASSUME Waiters("waitRead")' # {}
                PROVE  used' <= SizeAtom * Cardinality(AwakeReaders')
    OBVIOUS
  <2>1. Waiters("waitRead") # {}
    BY <1>4, OthersAwake DEF Waiters
  <2>2. AwakeReaders \ {p} \subseteq AwakeReaders'  BY <1>4, OthersAwake
  <2>3. /\ SizeAtom * Cardinality(AwakeReaders)
             <= SizeAtom * Cardinality(AwakeReaders') + SizeAtom
        /\ SizeAtom * Cardinality(AwakeReaders) \in Nat
        /\ SizeAtom * Cardinality(AwakeReaders') \in Nat
    BY <1>6, <2>2, Counting
  <2>4. used <= SizeAtom * Cardinality(AwakeReaders)
    BY <2>1 DEF EnoughAwake, EnoughReaders
  <2>. HIDE DEF used
  <2>. QED  BY <1>3, <2>3, <2>4
<1>. QED  BY <1>7, <1>8 DEF EnoughAwake, EnoughReaders, EnoughWriters, Used

\* Nobody writes the end of file.
LEMMA NoEof ==
  ASSUME NoEofCalls, Base, ~isEOF, [Next]_vars
  PROVE  ~isEOF'
<1>1. CASE UNCHANGED vars  BY <1>1 DEF vars, shared
<1>2. ASSUME NEW p \in Proc, Invoke(p) \/ Acquire(p) \/ Step(p) \/ SpuriousWakeup(p)
      PROVE  ~isEOF'
  <2>1. ~WriteEof(p)
    <3>. SUFFICES ASSUME WriteEof(p) PROVE FALSE  OBVIOUS
    <3>1. call[p] # NoCall /\ call[p].op = "write_eof"
      BY InSection DEF Base, WriteEof, Inside
    <3>2. call[p] \in Calls[p]  BY <3>1 DEF Base, Tidy, TidyAt
    <3>. QED  BY <3>1, <3>2 DEF NoEofCalls
  <2>. QED
    BY <1>2, <2>1
    DEF Invoke, Refuse, Enter, Acquire, SpuriousWakeup, Step, Section, TryLockBusy,
        RetryBusy, Finish, WriteAtEof, WriteNoRoom, WriteWait, WriteRound, WriteCrash,
        ReadAtEof, ReadNothing, ReadWait, ReadRound, ReadCrash, shared
<1>. QED  BY <1>1, <1>2 DEF Next

LEMMA FullWhenNoRoom ==
  ASSUME Records, Base, RecordInv, NEW p \in Proc, Inside(p, "write"), noRoom(p)
  PROVE  Used(start, end, isEmpty) = SizeMax
<1>1. start = end /\ ~isEmpty  BY RecordWriter
<1>2. start \in Index /\ end \in Index  BY DEF Base, IInv, TypeOK
<1>. QED  BY <1>1, <1>2 DEF Used, ReadAvailable, Index

LEMMA EnoughNext ==
  ASSUME IsFiniteSet(Proc), NoEofCalls, Records,
         Base, RecordInv, ~isEOF, EnoughAwake, ~isEOF', [Next]_vars
  PROVE  EnoughAwake'
<1>. USE DEF EnoughAwake
<1>1. IInv /\ Tidy /\ isEmpty \in BOOLEAN  BY DEF Base, IInv, TypeOK
<1>2. ASSUME UNCHANGED <<start, end, isEmpty, pc, call>> PROVE EnoughAwake'
  BY <1>2 DEF EnoughReaders, EnoughWriters, Used, Waiters, AwakeReaders,
              AwakeWriters, Awake, Reading, Writing
<1>3. ASSUME NEW p \in Proc, Others(p), UNCHANGED <<start, end, isEmpty>>,
             p \notin AwakeReaders \/ p \in AwakeReaders' \/ isEmpty,
             p \notin AwakeWriters \/ p \in AwakeWriters'
               \/ Used(start, end, isEmpty) = SizeMax,
             pc'[p] \notin {"waitRead", "waitWrite"}
      PROVE  EnoughAwake'
  <2>1. EnoughReaders'  BY <1>1, <1>3, ReadersKept
  <2>2. EnoughWriters'  BY <1>1, <1>3, WritersKept
  <2>. QED  BY <2>1, <2>2
<1>4. CASE UNCHANGED vars  BY <1>2, <1>4 DEF vars, shared
<1>5. ASSUME NEW p \in Proc, NEW c \in Calls[p], Refuse(p, c) PROVE EnoughAwake'
  BY <1>2, <1>5 DEF Refuse, shared
<1>6. ASSUME NEW p \in Proc, NEW c \in Calls[p], Enter(p, c) PROVE EnoughAwake'
  <2>1. /\ Others(p) /\ pc'[p] = "lock" /\ pc[p] = "idle"
        /\ UNCHANGED <<start, end, isEmpty>>
    BY <1>1, <1>6, Enters DEF Enter
  <2>2. p \notin AwakeReaders /\ p \notin AwakeWriters
    BY <2>1 DEF AwakeReaders, AwakeWriters, Awake
  <2>. QED  BY <1>3, <2>1, <2>2
<1>7. ASSUME NEW p \in Proc, Gives(p) PROVE EnoughAwake'
  <2>1. /\ Others(p) /\ pc'[p] = "idle" /\ UNCHANGED <<start, end, isEmpty>>
    BY <1>1, <1>7, GivesUp, GoneOthers
  <2>2. CASE TryLockBusy(p) \/ RetryBusy(p) \/ Finish(p)
    <3>1. p \notin AwakeReaders /\ p \notin AwakeWriters
      BY <2>2 DEF TryLockBusy, RetryBusy, Finish, AwakeReaders, AwakeWriters, Awake
    <3>. QED  BY <1>3, <2>1, <3>1
  <2>3. CASE WriteNoRoom(p)
    <3>1. Inside(p, "write") /\ noRoom(p)  BY <2>3 DEF WriteNoRoom
    <3>2. p \notin AwakeReaders
      BY <3>1 DEF AwakeReaders, Reading, Inside
    <3>3. Used(start, end, isEmpty) = SizeMax  BY <3>1, FullWhenNoRoom
    <3>. QED  BY <1>3, <2>1, <3>2, <3>3
  <2>4. CASE ReadNothing(p)
    <3>1. Inside(p, "read") /\ isEmpty  BY <2>4 DEF ReadNothing
    <3>2. p \notin AwakeWriters
      BY <3>1 DEF AwakeWriters, Writing, Inside
    <3>. QED  BY <1>3, <2>1, <3>1, <3>2
  <2>5. ~WriteAtEof(p) /\ ~ReadAtEof(p)
    BY DEF WriteAtEof, ReadAtEof, endOfFile
  <2>. QED  BY <1>7, <2>2, <2>3, <2>4, <2>5 DEF Gives
<1>8. ASSUME NEW p \in Proc, Acquire(p) \/ SpuriousWakeup(p) PROVE EnoughAwake'
  <2>1. /\ Others(p) /\ UNCHANGED <<start, end, isEmpty, call>>
        /\ pc'[p] \in {"section", "relock"}
    BY <1>1, <1>8, Stays DEF Waits, Acquire, SpuriousWakeup
  <2>2. /\ p \in AwakeReaders => p \in AwakeReaders'
        /\ p \in AwakeWriters => p \in AwakeWriters'
    BY <2>1 DEF AwakeReaders, AwakeWriters, Awake, Reading, Writing
  <2>. QED  BY <1>3, <2>1, <2>2
<1>9. ASSUME NEW p \in Proc, ReadWait(p) PROVE EnoughAwake'
  <2>1. /\ Others(p) /\ UNCHANGED <<start, end, isEmpty>>
        /\ pc'[p] = "waitRead"
    BY <1>1, <1>9, Stays DEF Waits, ReadWait, Inside
  <2>2. isEmpty /\ p \notin AwakeWriters
    BY <1>9 DEF ReadWait, Inside, AwakeWriters, Writing
  <2>3. EnoughReaders'  BY <1>1, <2>1, <2>2, ReadersKept
  <2>4. EnoughWriters'  BY <1>1, <2>1, <2>2, WritersKept
  <2>. QED  BY <2>3, <2>4
<1>10. ASSUME NEW p \in Proc, WriteWait(p) PROVE EnoughAwake'
  <2>1. Others(p) /\ UNCHANGED <<start, end, isEmpty>> /\ pc'[p] = "waitWrite"
    BY <1>1, <1>10, Sleeps
  <2>2. Inside(p, "write") /\ noRoom(p) /\ p \notin AwakeReaders
    BY <1>10 DEF WriteWait, Inside, AwakeReaders, Reading
  <2>3. Used(start, end, isEmpty) = SizeMax  BY <2>2, FullWhenNoRoom
  <2>4. EnoughReaders'  BY <1>1, <2>1, <2>2, ReadersKept
  <2>5. EnoughWriters'  BY <1>1, <2>1, <2>3, WritersKept
  <2>. QED  BY <2>4, <2>5
<1>11. ASSUME NEW p \in Proc
       PROVE  ~WriteCrash(p) /\ ~ReadCrash(p) /\ ~WriteEof(p)
  BY <1>1, <1>11, RecordExact, NobodyCrashes DEF Exact, WriteEof
<1>. QED
  BY <1>4, <1>5, <1>6, <1>7, <1>8, <1>9, <1>10, <1>11, EnoughWrites, EnoughReads
  DEF Next, Invoke, Step, Section, Gives

\* No wakeup is lost, however many threads exchange records, although a round
\* wakes only one thread: the invariant is that while readers sleep, at least as
\* many are awake as there are records, and the same for writers and places.
\* (The end of file is another matter: write_eof wakes one reader, too.)
THEOREM RecordsLoseNoWakeup ==
  ASSUME IsFiniteSet(Proc), Records, NoEofCalls
  PROVE  Spec => []NoLostWakeup
<1>1. Init => ~isEOF /\ EnoughAwake
  BY DEF Init, EnoughAwake, EnoughReaders, EnoughWriters, Waiters
<1>2. Base /\ RecordInv /\ ~isEOF /\ EnoughAwake /\ [Next]_vars => ~isEOF' /\ EnoughAwake'
  BY NoEof, EnoughNext
<1>3. Base /\ RecordInv /\ ~isEOF /\ EnoughAwake => NoLostWakeup
  <2>. SUFFICES ASSUME Base, RecordInv, ~isEOF, EnoughAwake PROVE NoLostWakeup
    OBVIOUS
  <2>1. Used(start, end, isEmpty) \in Nat /\ isEmpty \in BOOLEAN
        /\ start \in Index /\ end \in Index
    BY QueueType DEF Base, IInv, TypeOK
  <2>2. AwakeReaders = {} => SizeAtom * Cardinality(AwakeReaders) = 0
    BY FS_EmptySet
  <2>3. AwakeWriters = {} => SizeAtom * Cardinality(AwakeWriters) = 0
    BY FS_EmptySet
  <2>4. ASSUME NEW p \in Waiters("waitRead"), ~isEmpty PROVE AwakeReaders # {}
    <3>1. Used(start, end, isEmpty) > 0
      BY <2>1, <2>4, AvailableType DEF Used
    <3>. QED  BY <2>1, <2>2, <2>4, <3>1 DEF EnoughAwake, EnoughReaders
  <2>5. ASSUME NEW p \in Waiters("waitWrite"), ~noRoom(p) PROVE AwakeWriters # {}
    <3>1. SizeMax - Used(start, end, isEmpty) > 0
      BY <2>1, <2>5 DEF noRoom, Used, ReadAvailable, Index
    <3>. QED  BY <2>1, <2>3, <2>5, <3>1 DEF EnoughAwake, EnoughWriters
  <2>. QED  BY <2>4, <2>5 DEF NoLostWakeup, AwakeReaders, AwakeWriters
<1>. QED  BY <1>1, <1>2, <1>3, RecordInvariant, PTL DEF Spec
=============================================================================
