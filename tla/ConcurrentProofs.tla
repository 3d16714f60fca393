-------------------------- MODULE ConcurrentProofs --------------------------
(***************************************************************************)
(* Types and index ranges of ConcurrentConduct, in both builds, for any    *)
(* threads making any calls: also when reservations overlap, limits are    *)
(* stale and threads die in their copies.                                  *)
(***************************************************************************)
EXTENDS ConcurrentConduct, CircularBufferProofs, SequenceTheorems

USE SizeAssumption, ConcurrentAssumption

\* Where a call has a round before it.
Begins == {"lockSide", "lock", "reserve", "waitRead", "waitWrite", "relock", "retry"}

\* What holds of the frame of p's call: it is one of p's calls, a writer has as
\* many bytes as it wants to write; before a round there is something left to
\* do; and a copy still has cells to visit, all of them in the buffer.
CallOpen(p) ==
  /\ pc[p] # "idle" =>
       /\ call[p] \in Calls[p] /\ call[p] # NoCall
       /\ call[p].op = "write" => Len(data[p].bytes) = call[p].count
       /\ call[p].op = "write_eof" => pc[p] \in {"lockSide", "lock", "reserve"}
  /\ pc[p] \in Begins => sizeDone(p) < call[p].count
  /\ pc[p] \in Begins \cup {"idle", "broadcast", "unlocked"} => data[p].copied = 0
  /\ pc[p] = "copy" =>
       /\ data[p].sizeToManipulate > 0
       /\ data[p].copied < toMove(p)
       /\ toMove(p) <= 2 * SizeMax
       /\ \A k \in 1 .. toMove(p) :
            CellOf(data[p].from, data[p].passByMiddle, k) \in Index

IInv == TypeOK /\ \A p \in Proc : CallOpen(p)

RetType == [val : Int, errno : {"none", "ok", "EINVAL", "EPIPE", "EWOULDBLOCK"}]

-----------------------------------------------------------------------------
(* Data.                                                                   *)

\* The bytes handed to a write, and that there are as many as it says.
LEMMA PayloadType ==
  ASSUME NEW p \in Proc, NEW n \in Nat, stamp[p] \in 0 .. Stamps - 1
  PROVE  Payload(p, n) \in Seq(Byte) /\ Len(Payload(p, n)) = n
<1>1. \A i \in 1 .. n : (stamp[p] + i - 1) % Stamps \in 0 .. Stamps - 1
  OBVIOUS
<1>2. Payload(p, n) \in [1 .. n -> Byte]
  BY <1>1 DEF Payload, Byte
<1>3. Payload(p, n) \in Seq(Byte)
  BY <1>2, SeqDef
<1>4. DOMAIN Payload(p, n) = 1 .. n
  BY DEF Payload
<1> QED
  BY <1>3, <1>4, LenProperties

\* A call starts with a well-typed struct dataCirularBuffer; so does a thread
\* outside the library.
LEMMA NewDataType ==
  /\ \A b \in Seq(Byte) : NewData(b) \in DataType
  /\ NoData \in DataType /\ NoData.copied = 0
<1>1. \A b \in Seq(Byte) : NewData(b) \in DataType
  BY DEF NewData, DataType, Index
<1>2. <<>> \in Seq(Byte)
  BY EmptySeq
<1> QED
  BY <1>1, <1>2 DEF NoData, NewData

\* Whatever a call returns has the type of ret.
LEMMA Results ==
  /\ NoRet \in RetType
  /\ \A e \in {"EINVAL", "EPIPE", "EWOULDBLOCK"} : Error(e) \in RetType
  /\ \A v \in Int : Success(v) \in RetType
  /\ \A op \in Ops : EofResult(op) \in RetType
  BY DEF NoRet, Error, Success, Result, EofResult, RetType

-----------------------------------------------------------------------------
(* The frame of a call.                                                    *)

\* What a step of another thread may do to q: a broadcast wakes it.
Woken(q) ==
  /\ call'[q] = call[q] /\ data'[q] = data[q]
  /\ \/ pc'[q] = pc[q]
     \/ pc[q] \in {"waitRead", "waitWrite"} /\ pc'[q] = "relock"
     \/ pc[q] \in {"waitTurnRead", "waitTurnWrite"} /\ pc'[q] = "lockAgain"

\* Its call stays as open as it was.
LEMMA WokenOpen ==
  ASSUME NEW q \in Proc, CallOpen(q), Woken(q)
  PROVE  CallOpen(q)'
<1>1. sizeDone(q)' = sizeDone(q) /\ toMove(q)' = toMove(q)
  BY DEF Woken, sizeDone, toMove
<1> QED
  BY <1>1 DEF Woken, CallOpen, Begins

\* So it is enough to look at the thread that makes the step.
LEMMA OneActs ==
  ASSUME IInv, NEW p \in Proc, CallOpen(p)', TypeOK',
         \A q \in Proc \ {p} : Woken(q)
  PROVE  IInv'
  BY WokenOpen DEF IInv

\* Woken, for a step that moves p only.
LEMMA OnlyOne ==
  ASSUME TypeOK, NEW p \in Proc, NEW x, NEW c, NEW d,
         pc' = [pc EXCEPT ![p] = x],
         call' = call \/ call' = [call EXCEPT ![p] = c],
         data' = data \/ data' = [data EXCEPT ![p] = d]
  PROVE  \A q \in Proc \ {p} : Woken(q)
  BY DEF TypeOK, Woken

LEMMA InitInv == Init => IInv
<1> SUFFICES ASSUME Init PROVE IInv
  OBVIOUS
<1>0. 0 \in Index
  BY DEF Index
<1>1. /\ {start, end, tmpStart, tmpEnd} \subseteq Index
      /\ mutex \in Proc \cup {Free} /\ side \in [Sides -> Proc \cup {Free, Lost}]
      /\ isEOF \in BOOLEAN /\ isEmpty \in BOOLEAN
  BY <1>0 DEF Init
<1>5. buf \in [Index -> Byte]
  BY DEF Init, Byte
<1>2. /\ pc \in [Proc -> PCs] /\ call \in [Proc -> CallRecord \cup {NoCall}]
      /\ data \in [Proc -> DataType] /\ stamp \in [Proc -> 0 .. Stamps - 1]
      /\ ret \in [Proc -> RetType]
  BY NewDataType, Results DEF Init, PCs
<1>3. TypeOK
  BY <1>1, <1>2, <1>5 DEF TypeOK, RetType
<1>4. ASSUME NEW p \in Proc PROVE CallOpen(p)
  BY NewDataType DEF Init, CallOpen, Begins
<1> QED
  BY <1>3, <1>4 DEF IInv

(***************************************************************************)
(* A return, from wherever the call was.                                   *)
(***************************************************************************)
LEMMA ReturnInv ==
  ASSUME IInv, NEW p \in Proc, NEW r \in RetType, pc[p] # "idle", Return(p, r),
         mutex' \in Proc \cup {Free},
         side' \in [Sides -> Proc \cup {Free, Lost}],
         isEOF' \in BOOLEAN,
         UNCHANGED <<start, end, tmpStart, tmpEnd, isEmpty, buf>>
  PROVE  IInv'
<1>1. /\ pc' = [pc EXCEPT ![p] = "idle"]
      /\ call' = [call EXCEPT ![p] = NoCall]
      /\ data' = [data EXCEPT ![p] = NoData]
      /\ ret' = [ret EXCEPT ![p] = r]
      /\ stamp' = IF call[p].op = "write"
                  THEN [stamp EXCEPT ![p] = (@ + sizeDone(p)) % Stamps]
                  ELSE stamp
  BY DEF Return
<1>2. TypeOK  BY DEF IInv
<1>3. /\ pc' \in [Proc -> PCs] /\ call' \in [Proc -> CallRecord \cup {NoCall}]
      /\ ret' \in [Proc -> RetType]
  BY <1>1, <1>2 DEF TypeOK, PCs, RetType
<1>4. data' \in [Proc -> DataType]
  BY <1>1, <1>2, NewDataType DEF TypeOK
<1>5. stamp' \in [Proc -> 0 .. Stamps - 1]
  <2>1. stamp[p] \in Nat /\ sizeDone(p) \in Nat
    BY <1>2 DEF TypeOK, DataType, sizeDone
  <2>2. (stamp[p] + sizeDone(p)) % Stamps \in 0 .. Stamps - 1
    BY <2>1
  <2> QED
    BY <1>1, <1>2, <2>2 DEF TypeOK
<1>6. TypeOK'
  BY <1>2, <1>3, <1>4, <1>5 DEF TypeOK, RetType
<1>7. CallOpen(p)'
  BY <1>1, <1>2, NewDataType DEF TypeOK, CallOpen, Begins
<1> QED
  BY <1>1, <1>2, <1>6, <1>7, OnlyOne, OneActs

\* The sides after an unlock of either kind.
LEMMA SideType ==
  ASSUME TypeOK, NEW p \in Proc
  PROVE  /\ UnlockSide(p) \in [Sides -> Proc \cup {Free, Lost}]
         /\ UnlockAll(p) => /\ mutex' \in Proc \cup {Free}
                            /\ side' \in [Sides -> Proc \cup {Free, Lost}]
<1>1. UnlockSide(p) \in [Sides -> Proc \cup {Free, Lost}]
  BY DEF TypeOK, UnlockSide
<1>2. [s \in Sides |-> IF s = "read" THEN Free
                       ELSE IF sideOf(p) = s THEN Lost ELSE side[s]]
        \in [Sides -> Proc \cup {Free, Lost}]
  BY DEF TypeOK
<1> QED
  BY <1>1, <1>2 DEF TypeOK, UnlockAll

-----------------------------------------------------------------------------
(* Entry, locks and returns.                                               *)

LEMMA RefuseInv ==
  ASSUME IInv, NEW p \in Proc, NEW c \in Calls[p], Refuse(p, c)
  PROVE  IInv'
<1>1. c \in CallRecord /\ c.op \in Ops
  BY DEF CallRecord
<1>2. EofResult(c.op) \in RetType /\ Error("EINVAL") \in RetType
  BY <1>1, Results
<1>3. ret' \in [Proc -> RetType]
  BY <1>2 DEF IInv, TypeOK, RetType, Refuse
<1>4. TypeOK'
  BY <1>3 DEF IInv, TypeOK, RetType, Refuse, shared
<1>5. \A q \in Proc : Woken(q)
  BY DEF Refuse, Woken
<1> QED
  BY <1>4, <1>5, WokenOpen DEF IInv

LEMMA EnterInv ==
  ASSUME IInv, NEW p \in Proc, NEW c \in Calls[p], Enter(p, c)
  PROVE  IInv'
<1> DEFINE b == IF c.op = "write" THEN Payload(p, c.count) ELSE <<>>
<1> DEFINE x == IF SingleReaderAndWriter THEN "lockSide" ELSE "lock"
<1>1. c \in CallRecord /\ c # NoCall /\ c.count \in Nat \ {0}
  BY DEF Enter, CallRecord
<1>2. b \in Seq(Byte) /\ (c.op = "write" => Len(b) = c.count)
  BY <1>1, PayloadType, EmptySeq DEF IInv, TypeOK
<1>3. NewData(b) \in DataType
  BY <1>2, NewDataType
<1>4. NewData(b).bytes = b /\ NewData(b).sizeReallyManipulate = 0 /\ NewData(b).copied = 0
  BY DEF NewData
<1>5. /\ pc' = [pc EXCEPT ![p] = x]
      /\ call' = [call EXCEPT ![p] = c]
      /\ data' = [data EXCEPT ![p] = NewData(b)]
      /\ ret' = [ret EXCEPT ![p] = NoRet]
      /\ UNCHANGED <<mutex, side, start, end, isEOF, isEmpty, tmpStart, tmpEnd, buf, stamp>>
  BY DEF Enter, shared, Goto
<1>6. x \in {"lockSide", "lock"}  OBVIOUS
<1> HIDE DEF b, x
<1>7. TypeOK  BY DEF IInv
<1>8. TypeOK'
  BY <1>1, <1>3, <1>5, <1>6, <1>7, Results DEF TypeOK, PCs, RetType
<1>9. CallOpen(p)'
  BY <1>1, <1>2, <1>4, <1>5, <1>6, <1>7 DEF TypeOK, CallOpen, Begins, sizeDone
<1> QED
  BY <1>5, <1>7, <1>8, <1>9, OnlyOne, OneActs

\* A step of p to x that leaves its call and its data alone.
LEMMA MoveInv ==
  ASSUME IInv, NEW p \in Proc, NEW x \in PCs, pc' = [pc EXCEPT ![p] = x],
         UNCHANGED <<call, data, stamp, ret, start, end, tmpStart, tmpEnd, isEOF, isEmpty, buf>>,
         mutex' \in Proc \cup {Free},
         side' \in [Sides -> Proc \cup {Free, Lost}],
         CallOpen(p)'
  PROVE  IInv'
<1>1. TypeOK  BY DEF IInv
<1>2. TypeOK'
  BY <1>1 DEF TypeOK
<1> QED
  BY <1>1, <1>2, OnlyOne, OneActs

LEMMA RestLeft ==
  ASSUME IInv, NEW p \in Proc, pc[p] # "idle", rest(p) > 0
  PROVE  sizeDone(p) < call[p].count
<1>1. sizeDone(p) \in Nat /\ call[p].count \in Nat
  BY DEF IInv, TypeOK, DataType, CallOpen, CallRecord, sizeDone
<1> QED
  BY <1>1 DEF rest

LEMMA LockSideInv ==
  ASSUME IInv, NEW p \in Proc, LockSide(p)
  PROVE  IInv'
<1>1. TypeOK  BY DEF IInv
<1>2. /\ side' = [side EXCEPT ![sideOf(p)] = p] /\ sideOf(p) \in Sides
      /\ UNCHANGED <<mutex, start, end, isEOF, isEmpty, tmpStart, tmpEnd,
                     buf, call, data, stamp, ret>>
  BY DEF LockSide, shared, sideOf, Sides
<1>3. side' \in [Sides -> Proc \cup {Free, Lost}]
  BY <1>1, <1>2 DEF TypeOK
<1>4. \E x \in {"lock", "retry"} :
        /\ pc' = [pc EXCEPT ![p] = x]
        /\ (pc[p] = "lockSide" /\ x = "lock") \/ Retrying(p)
  BY DEF LockSide, Goto
<1>5. PICK x \in {"lock", "retry"} :
        /\ pc' = [pc EXCEPT ![p] = x]
        /\ (pc[p] = "lockSide" /\ x = "lock") \/ Retrying(p)
  BY <1>4
<1>6. pc[p] \in {"lockSide", "unlocked"} /\ sizeDone(p) < call[p].count
  BY <1>5, RestLeft DEF IInv, CallOpen, Begins, Retrying
<1>7. CallOpen(p)'
  <2>1. /\ pc'[p] = x /\ x \in {"lock", "retry"}
        /\ call'[p] = call[p] /\ data'[p] = data[p] /\ sizeDone(p)' = sizeDone(p)
    BY <1>1, <1>2, <1>5 DEF TypeOK, sizeDone
  <2>2. x = "lock" \/ call[p].op # "write_eof"
    BY <1>5 DEF IInv, CallOpen, Retrying
  <2>3. CallOpen(p)
    BY DEF IInv
  <2> QED
    BY <1>6, <2>1, <2>2, <2>3 DEF CallOpen, Begins
<1> QED
  BY <1>1, <1>2, <1>3, <1>5, <1>7, MoveInv DEF TypeOK, PCs

LEMMA AcquireInv ==
  ASSUME IInv, NEW p \in Proc, Acquire(p)
  PROVE  IInv'
<1>1. TypeOK  BY DEF IInv
<1>2. UNCHANGED <<side, start, end, isEOF, isEmpty, tmpStart, tmpEnd,
                  buf, call, data, stamp, ret>>
  BY DEF Acquire, shared
<1>3. CASE \/ pc[p] \in {"lock", "relock", "retry"} /\ Goto(p, "reserve")
           \/ Retrying(p) /\ ~SingleReaderAndWriter /\ Goto(p, "reserve")
  <2>1. pc[p] \in {"lock", "relock", "retry", "unlocked"} /\ pc' = [pc EXCEPT ![p] = "reserve"]
    BY <1>3 DEF Retrying, Goto
  <2>2. sizeDone(p) < call[p].count
    BY <1>3, RestLeft DEF IInv, CallOpen, Begins, Retrying
  <2>3. CallOpen(p)'
    BY <1>1, <1>2, <2>1, <2>2 DEF IInv, TypeOK, CallOpen, Begins, sizeDone
  <2> QED
    BY <1>1, <1>2, <2>1, <2>3, MoveInv DEF Acquire, TypeOK, PCs
<1>4. CASE pc[p] = "lockAgain" /\ Goto(p, "validate")
  <2>1. pc' = [pc EXCEPT ![p] = "validate"]
    BY <1>4 DEF Goto
  <2>2. CallOpen(p)'
    BY <1>1, <1>2, <1>4, <2>1 DEF IInv, TypeOK, CallOpen, Begins
  <2> QED
    BY <1>1, <1>2, <2>1, <2>2, MoveInv DEF Acquire, TypeOK, PCs
<1> QED
  BY <1>3, <1>4 DEF Acquire

LEMMA SpuriousWakeupInv ==
  ASSUME IInv, NEW p \in Proc, SpuriousWakeup(p)
  PROVE  IInv'
<1>1. TypeOK  BY DEF IInv
<1>2. /\ UNCHANGED <<mutex, side, start, end, isEOF, isEmpty, tmpStart, tmpEnd,
                     buf, call, data, stamp, ret>>
      /\ \/ pc[p] \in {"waitRead", "waitWrite"} /\ pc' = [pc EXCEPT ![p] = "relock"]
         \/ pc[p] \in {"waitTurnRead", "waitTurnWrite"}
            /\ pc' = [pc EXCEPT ![p] = "lockAgain"]
  BY DEF SpuriousWakeup, shared, Goto
<1>3. TypeOK'
  BY <1>1, <1>2 DEF TypeOK, PCs
<1>4. \A q \in Proc : Woken(q)
  BY <1>1, <1>2 DEF TypeOK, Woken
<1> QED
  BY <1>3, <1>4, WokenOpen DEF IInv

\* Every call that ends, with whatever result.
LEMMA EndOfCallInv ==
  ASSUME IInv, NEW p \in Proc,
         \/ TryLockBusy(p) \/ RetryBusy(p) \/ Finish(p)
         \/ WriteEof(p) \/ AtEof(p) \/ WriteNoRoom(p) \/ ReadNothing(p)
  PROVE  IInv'
<1>a. TypeOK
  BY DEF IInv
<1>b. sizeDone(p) \in Int
  BY <1>a DEF TypeOK, DataType, sizeDone
<1>1. TypeOK /\ sizeDone(p) \in Int
  BY <1>a, <1>b
<1>2. /\ mutex \in Proc \cup {Free} /\ isEOF \in BOOLEAN
      /\ side \in [Sides -> Proc \cup {Free, Lost}]
  BY <1>1 DEF TypeOK
<1>3. /\ UnlockSide(p) \in [Sides -> Proc \cup {Free, Lost}]
      /\ UnlockAll(p) => /\ mutex' \in Proc \cup {Free}
                         /\ side' \in [Sides -> Proc \cup {Free, Lost}]
  BY <1>1, SideType
<1>4. /\ Success(sizeDone(p)) \in RetType /\ Success(0) \in RetType
      /\ Error("EPIPE") \in RetType /\ Error("EWOULDBLOCK") \in RetType
  BY <1>1, Results
<1>5. CASE TryLockBusy(p)
  <2>1. /\ pc[p] # "idle" /\ Return(p, Error("EWOULDBLOCK"))
        /\ side' \in [Sides -> Proc \cup {Free, Lost}]
        /\ UNCHANGED <<mutex, start, end, isEOF, isEmpty, tmpStart, tmpEnd, buf>>
    BY <1>2, <1>3, <1>5 DEF TryLockBusy, shared
  <2> QED
    BY <1>2, <1>4, <2>1, ReturnInv
<1>6. CASE RetryBusy(p)
  <2>1. /\ pc[p] # "idle" /\ Return(p, Success(sizeDone(p)))
        /\ side' \in [Sides -> Proc \cup {Free, Lost}]
        /\ UNCHANGED <<mutex, start, end, isEOF, isEmpty, tmpStart, tmpEnd, buf>>
    BY <1>2, <1>3, <1>6 DEF RetryBusy, Retrying, shared
  <2> QED
    BY <1>2, <1>4, <2>1, ReturnInv
<1>7. CASE Finish(p)
  <2>1. /\ pc[p] # "idle" /\ Return(p, Success(sizeDone(p)))
        /\ UNCHANGED <<mutex, side, start, end, isEOF, isEmpty, tmpStart, tmpEnd, buf>>
    BY <1>7 DEF Finish, shared
  <2> QED
    BY <1>2, <1>4, <2>1, ReturnInv
<1>8. CASE WriteEof(p)
  <2>1. /\ pc[p] # "idle" /\ Return(p, Success(0)) /\ UnlockAll(p) /\ isEOF' = TRUE
        /\ UNCHANGED <<start, end, isEmpty, tmpStart, tmpEnd, buf>>
    BY <1>8 DEF WriteEof, Reserving
  <2> QED
    BY <1>3, <1>4, <2>1, ReturnInv
<1>9. CASE AtEof(p)
  <2> DEFINE r == IF retry(p) THEN Success(sizeDone(p)) ELSE Error("EPIPE")
  <2>1. /\ pc[p] # "idle" /\ Return(p, r) /\ UnlockAll(p)
        /\ UNCHANGED <<start, end, isEOF, isEmpty, tmpStart, tmpEnd, buf>>
    BY <1>9 DEF AtEof, shared
  <2>2. r \in RetType
    BY <1>4
  <2> HIDE DEF r
  <2> QED
    BY <1>2, <1>3, <2>1, <2>2, ReturnInv
<1>10. CASE WriteNoRoom(p) \/ ReadNothing(p)
  <2> DEFINE r == IF retry(p) THEN Success(sizeDone(p)) ELSE Error("EWOULDBLOCK")
  <2>1. /\ pc[p] # "idle" /\ Return(p, r) /\ UnlockAll(p)
        /\ UNCHANGED <<start, end, isEOF, isEmpty, tmpStart, tmpEnd, buf>>
    BY <1>10 DEF WriteNoRoom, ReadNothing, Reserving, GiveUp, shared
  <2>2. r \in RetType
    BY <1>4
  <2> HIDE DEF r
  <2> QED
    BY <1>2, <1>3, <2>1, <2>2, ReturnInv
<1> QED
  BY <1>5, <1>6, <1>7, <1>8, <1>9, <1>10

-----------------------------------------------------------------------------
(* Rounds.                                                                 *)

\* A step of p that changes its data and wakes some of the others.
LEMMA RoundInv ==
  ASSUME IInv, NEW p \in Proc, NEW d \in DataType,
         data' = [data EXCEPT ![p] = d], UNCHANGED <<call, stamp, ret, isEOF>>,
         pc' \in [Proc -> PCs],
         \A q \in Proc \ {p} :
           \/ pc'[q] = pc[q]
           \/ pc[q] \in {"waitRead", "waitWrite"} /\ pc'[q] = "relock"
           \/ pc[q] \in {"waitTurnRead", "waitTurnWrite"} /\ pc'[q] = "lockAgain",
         start' \in Index, end' \in Index, tmpStart' \in Index, tmpEnd' \in Index,
         isEmpty' \in BOOLEAN, buf' \in [Index -> Byte],
         mutex' \in Proc \cup {Free},
         side' \in [Sides -> Proc \cup {Free, Lost}],
         CallOpen(p)'
  PROVE  IInv'
<1>1. TypeOK  BY DEF IInv
<1>2. data' \in [Proc -> DataType]
  BY <1>1 DEF TypeOK
<1>3. TypeOK'
  BY <1>1, <1>2 DEF TypeOK
<1>4. \A q \in Proc \ {p} : Woken(q)
  BY <1>1 DEF TypeOK, Woken
<1> QED
  BY <1>3, <1>4, OneActs

\* A thread before a round has something left to do, and a round for it.
LEMMA RoundSize ==
  ASSUME IInv, NEW p \in Proc, pc[p] \in Begins
  PROVE  /\ call[p] \in CallRecord
         /\ rest(p) \in Nat \ {0}
         /\ SizeOfRound(rest(p)) \in Nat \ {0}
<1>1. call[p] \in CallRecord /\ sizeDone(p) < call[p].count
  BY DEF IInv, CallOpen, Begins
<1>2. sizeDone(p) \in Nat
  BY DEF IInv, TypeOK, DataType, sizeDone
<1>3. rest(p) \in Nat \ {0}
  BY <1>1, <1>2 DEF CallRecord, rest
<1> QED
  BY <1>1, <1>3 DEF SizeOfRound

\* However stale its limits are, a round that may go without passing only when
\* it stays before the last cell visits cells of the buffer only.
LEMMA StartCopyInv ==
  ASSUME IInv, NEW p \in Proc, pc[p] = "reserve", call[p].op # "write_eof",
         NEW from \in Index, NEW size \in 1 .. SizeMax, NEW pass \in BOOLEAN,
         ~pass => from + size < SizeMax,
         StartCopy(p, from, size, pass),
         UNCHANGED <<side, start, end, isEOF, isEmpty, buf, call, stamp, ret>>,
         tmpStart' \in Index, tmpEnd' \in Index
  PROVE  IInv'
<1> DEFINE second == SecondLimit(from, size, pass, data[p].secondLimitLoop)
<1> DEFINE moved == Moved(from, size, pass, second)
<1> DEFINE d == [data[p] EXCEPT !.from = from, !.sizeToManipulate = size,
                                !.passByMiddle = pass, !.secondLimitLoop = second]
<1>1. TypeOK /\ CallOpen(p)  BY DEF IInv
<1>2. data[p] \in DataType /\ data[p].secondLimitLoop \in Index
  BY <1>1 DEF TypeOK, DataType
<1>3. /\ second \in Index
      /\ moved \in Nat \ {0}
      /\ ~pass => moved = size
      /\ \A n \in 0 .. moved : \A k \in 1 .. n : CellOf(from, pass, k) \in Index
  BY <1>2, RoundStaysInside
<1>4. \A k \in 1 .. moved : CellOf(from, pass, k) \in Index
  BY <1>3
<1>5. moved <= 2 * SizeMax
  BY <1>3 DEF Moved, FirstLimit, Index
<1>6. data' = [data EXCEPT ![p] = d] /\ pc' = [pc EXCEPT ![p] = "copy"] /\ mutex' = Free
  <2>1. data \in [Proc -> DataType]
    BY <1>1 DEF TypeOK
  <2>2. data' = [data EXCEPT ![p] = d]
    BY <2>1 DEF StartCopy, DataType
  <2> QED
    BY <2>2 DEF StartCopy, Goto
<1> HIDE DEF second
<1>7. d \in DataType
  <2>1. second \in Index /\ size \in 0 .. SizeMax
    BY <1>3
  <2> QED
    BY <1>2, <2>1 DEF DataType
<1>8. /\ data'[p] = d /\ pc'[p] = "copy" /\ call'[p] = call[p]
      /\ d.from = from /\ d.sizeToManipulate = size /\ d.passByMiddle = pass
      /\ d.secondLimitLoop = second /\ d.copied = data[p].copied
      /\ d.sizeReallyManipulate = data[p].sizeReallyManipulate
      /\ d.bytes = data[p].bytes
  BY <1>1, <1>2, <1>6 DEF TypeOK, DataType
<1> HIDE DEF d
<1>9. toMove(p)' = moved
  BY <1>8 DEF toMove
<1> HIDE DEF moved
<1>10. data[p].copied = 0
  BY <1>1 DEF CallOpen, Begins
<1>11. /\ data'[p].sizeToManipulate > 0
       /\ data'[p].copied < toMove(p)'
       /\ toMove(p)' <= 2 * SizeMax
       /\ \A k \in 1 .. toMove(p)' :
            CellOf(data'[p].from, data'[p].passByMiddle, k) \in Index
  BY <1>3, <1>4, <1>5, <1>8, <1>9, <1>10
<1>12. CallOpen(p)'
  BY <1>1, <1>8, <1>11 DEF CallOpen, Begins
<1> QED
  BY <1>1, <1>6, <1>7, <1>12, RoundInv DEF TypeOK, PCs

LEMMA WriteReserveInv ==
  ASSUME IInv, NEW p \in Proc, WriteReserve(p)
  PROVE  IInv'
<1>1. TypeOK  BY DEF IInv
<1>2. /\ start \in Index /\ tmpEnd \in Index /\ isEmpty \in BOOLEAN /\ tmpStart \in Index
      /\ data[p].passByMiddle \in BOOLEAN
  BY <1>1 DEF TypeOK, DataType
<1>3. pc[p] = "reserve" /\ call[p].op = "write" /\ ~noRoom(p)
  BY DEF WriteReserve, Reserving
<1>4. writeSize(p) \in Nat \ {0}
  BY <1>3, RoundSize DEF Begins, writeSize
<1>5. WriteAvailable(start, tmpEnd, isEmpty) \in 0 .. SizeMax
  BY <1>2, AvailableType
<1>6. /\ writeSize(p) <= WriteAvailable(start, tmpEnd, isEmpty)
      /\ ~(tmpEnd = start /\ ~isEmpty)
  BY <1>3, <1>4, <1>5 DEF noRoom, firstFree
<1>7. /\ writePass(p) \in BOOLEAN
      /\ writeSize(p) <= SizeMax
      /\ ~writePass(p) => tmpEnd + writeSize(p) < SizeMax
  BY <1>2, <1>4, <1>6, WriteWithoutPassing DEF writePass, firstFree
<1>8. writeSize(p) \in 1 .. SizeMax
  BY <1>4, <1>7
<1>9. (tmpEnd + writeSize(p)) % SizeMax \in Index
  BY <1>2, <1>4 DEF Index
<1>10. /\ StartCopy(p, tmpEnd, writeSize(p), writePass(p))
       /\ tmpEnd' \in Index /\ tmpStart' \in Index
       /\ UNCHANGED <<side, start, end, isEOF, isEmpty, buf, call, stamp, ret>>
  BY <1>2, <1>9 DEF WriteReserve, firstFree
<1> QED
  BY <1>2, <1>3, <1>7, <1>8, <1>10, StartCopyInv

LEMMA ReadReserveInv ==
  ASSUME IInv, NEW p \in Proc, ReadReserve(p)
  PROVE  IInv'
<1> DEFINE available == ReadAvailable(tmpStart, end, isEmpty)
<1> DEFINE wanted == SizeOfRound(rest(p))
<1>1. TypeOK  BY DEF IInv
<1>2. /\ tmpStart \in Index /\ end \in Index /\ isEmpty \in BOOLEAN /\ tmpEnd \in Index
      /\ data[p].passByMiddle \in BOOLEAN
  BY <1>1 DEF TypeOK, DataType
<1>3. pc[p] = "reserve" /\ call[p].op = "read" /\ ~isEmpty
  BY DEF ReadReserve, Reserving
<1>4. wanted \in Nat \ {0}
  BY <1>3, RoundSize DEF Begins
<1>5. available \in 0 .. SizeMax /\ available > 0
  BY <1>2, <1>3, AvailableType
<1>6. /\ readSize(p) = (IF wanted > available THEN available ELSE wanted)
      /\ \E old \in BOOLEAN :
           readPass(p) = ReadPasses(tmpStart, end, isEmpty, readSize(p), old)
  <2>1. /\ readWanted(p) = wanted /\ readAvailable = available
        /\ ReadPasses(tmpStart, end, isEmpty, wanted, data[p].passByMiddle) \in BOOLEAN
    BY <1>2 DEF readWanted, readAvailable, ReadPasses
  <2> HIDE DEF wanted, available
  <2> QED
    BY <1>2, <2>1 DEF readSize, readPass
<1> HIDE DEF wanted
<1>7. readSize(p) \in Nat \ {0} /\ readSize(p) <= available
  BY <1>4, <1>5, <1>6
<1>8. /\ readPass(p) \in BOOLEAN
      /\ readSize(p) <= SizeMax
      /\ ~readPass(p) => tmpStart + readSize(p) < SizeMax
  BY <1>2, <1>3, <1>6, <1>7, ReadWithoutPassing
<1>9. readSize(p) \in 1 .. SizeMax
  BY <1>7, <1>8
<1>10. (tmpStart + readSize(p)) % SizeMax \in Index
  BY <1>2, <1>7 DEF Index
<1>11. /\ StartCopy(p, tmpStart, readSize(p), readPass(p))
       /\ tmpEnd' \in Index /\ tmpStart' \in Index
       /\ UNCHANGED <<side, start, end, isEOF, isEmpty, buf, call, stamp, ret>>
  BY <1>2, <1>10 DEF ReadReserve
<1> QED
  BY <1>2, <1>3, <1>8, <1>9, <1>11, StartCopyInv

\* To wait for the other side.
LEMMA WaitInv ==
  ASSUME IInv, NEW p \in Proc, WriteWait(p) \/ ReadWait(p)
  PROVE  IInv'
<1>1. TypeOK /\ CallOpen(p)  BY DEF IInv
<1>2. /\ mutex' = Free /\ pc[p] = "reserve" /\ call[p].op # "write_eof"
      /\ UNCHANGED <<side, start, end, isEOF, isEmpty, tmpStart, tmpEnd, buf, call, stamp, ret>>
      /\ \E x \in {"waitRead", "waitWrite"} : pc' = [pc EXCEPT ![p] = x]
  BY DEF WriteWait, ReadWait, Reserving, Goto, shared
<1>3. \E d \in DataType :
        /\ data' = [data EXCEPT ![p] = d]
        /\ d.copied = data[p].copied /\ d.bytes = data[p].bytes
        /\ d.sizeReallyManipulate = data[p].sizeReallyManipulate
  <2>1. data[p] \in DataType /\ writePass(p) \in BOOLEAN
    BY <1>1 DEF TypeOK, writePass, WritePasses
  <2>2. CASE WriteWait(p)
    <3> DEFINE d == [data[p] EXCEPT !.passByMiddle = writePass(p)]
    <3>1. data' = [data EXCEPT ![p] = d]
      BY <1>1, <2>2 DEF WriteWait, TypeOK
    <3>2. d \in DataType
      BY <2>1 DEF DataType
    <3>3. /\ d.copied = data[p].copied /\ d.bytes = data[p].bytes
          /\ d.sizeReallyManipulate = data[p].sizeReallyManipulate
      BY <2>1 DEF DataType
    <3> QED
      BY <3>1, <3>2, <3>3
  <2>3. CASE ReadWait(p)
    <3>1. data' = [data EXCEPT ![p] = data[p]]
      BY <1>1, <2>3 DEF ReadWait, TypeOK
    <3> QED
      BY <2>1, <3>1
  <2> QED
    BY <2>2, <2>3
<1>4. PICK d \in DataType :
        /\ data' = [data EXCEPT ![p] = d]
        /\ d.copied = data[p].copied /\ d.bytes = data[p].bytes
        /\ d.sizeReallyManipulate = data[p].sizeReallyManipulate
  BY <1>3
<1>5. CallOpen(p)'
  <2>1. /\ data'[p] = d /\ call'[p] = call[p] /\ sizeDone(p)' = sizeDone(p)
        /\ pc'[p] \in {"waitRead", "waitWrite"}
    BY <1>1, <1>2, <1>4 DEF TypeOK, sizeDone
  <2> QED
    BY <1>1, <1>2, <1>4, <2>1 DEF CallOpen, Begins
<1>6. pc' \in [Proc -> PCs] /\ \A q \in Proc \ {p} : pc'[q] = pc[q]
  BY <1>1, <1>2 DEF TypeOK, PCs
<1> QED
  BY <1>1, <1>2, <1>4, <1>5, <1>6, RoundInv DEF TypeOK
\* A byte is copied to or from a cell of the buffer.
LEMMA CopyByteInv ==
  ASSUME IInv, NEW p \in Proc, CopyByte(p)
  PROVE  IInv'
<1>1. TypeOK /\ CallOpen(p) /\ pc[p] = "copy"
  BY DEF IInv, CopyByte
<1>2. /\ data[p] \in DataType /\ data[p].copied \in Nat /\ data[p].bytes \in Seq(Byte)
      /\ sizeDone(p) \in Nat
  BY <1>1 DEF TypeOK, DataType, sizeDone
<1>3. /\ data[p].copied < toMove(p) /\ toMove(p) <= 2 * SizeMax
      /\ \A k \in 1 .. toMove(p) : CellOf(data[p].from, data[p].passByMiddle, k) \in Index
      /\ call[p] \in CallRecord /\ call[p] # NoCall /\ call[p].op # "write_eof"
      /\ call[p].op = "write" => Len(data[p].bytes) = call[p].count
  BY <1>1 DEF CallOpen
<1>4. toMove(p) \in Int
  BY <1>2 DEF toMove, Moved, FirstLimit, DataType, Index
<1>5. data[p].copied + 1 \in 1 .. toMove(p) /\ data[p].copied + 1 \in 0 .. 2 * SizeMax
  BY <1>2, <1>3, <1>4
<1>6. nextCell(p) \in Index
  BY <1>3, <1>5 DEF nextCell
<1>7. call[p].op = "write" => Outgoing(p) \in Byte
  <2>1. ASSUME call[p].op = "write", rest(p) > 0
        PROVE  data[p].bytes[sizeDone(p) + 1] \in Byte
    <3>1. sizeDone(p) + 1 \in 1 .. Len(data[p].bytes)
      BY <1>2, <1>3, <2>1 DEF CallRecord, rest
    <3> QED
      BY <1>2, <3>1, ElementOfSeq
  <2> QED
    BY <2>1 DEF Outgoing, Byte
<1>8. buf' \in [Index -> Byte]
  <2>1. buf \in [Index -> Byte]
    BY <1>1 DEF TypeOK
  <2>2. \/ call[p].op = "write" /\ buf' = [buf EXCEPT ![nextCell(p)] = Outgoing(p)]
        \/ buf' = buf
    BY DEF CopyByte
  <2> QED
    BY <1>7, <2>1, <2>2
<1>9. PICK bytes \in Seq(Byte) :
        /\ data' = [data EXCEPT ![p].bytes = bytes, ![p].copied = @ + 1,
                                ![p].sizeReallyManipulate = @ + 1]
        /\ call[p].op = "write" => bytes = data[p].bytes
  <2>1. CASE call[p].op = "write"
    <3>1. data' = [data EXCEPT ![p].bytes = data[p].bytes, ![p].copied = @ + 1,
                               ![p].sizeReallyManipulate = @ + 1]
      <4>1. data' = [data EXCEPT ![p].copied = @ + 1, ![p].sizeReallyManipulate = @ + 1]
        BY <2>1 DEF CopyByte
      <4>2. data \in [Proc -> DataType]
        BY <1>1 DEF TypeOK
      <4> QED
        BY <4>1, <4>2 DEF DataType
    <3> QED
      BY <1>2, <3>1
  <2>2. CASE call[p].op = "read"
    <3>1. Append(data[p].bytes, buf[nextCell(p)]) \in Seq(Byte)
      BY <1>1, <1>2, <1>6, AppendProperties DEF TypeOK
    <3>2. data' = [data EXCEPT ![p].bytes = Append(data[p].bytes, buf[nextCell(p)]),
                               ![p].copied = @ + 1, ![p].sizeReallyManipulate = @ + 1]
      BY <2>2 DEF CopyByte
    <3> QED
      BY <2>2, <3>1, <3>2
  <2> QED
    BY <2>1, <2>2 DEF CopyByte
<1> DEFINE d == [data[p] EXCEPT !.bytes = bytes, !.copied = @ + 1,
                                !.sizeReallyManipulate = @ + 1]
<1>10. data' = [data EXCEPT ![p] = d]
  <2>1. data \in [Proc -> DataType]
    BY <1>1 DEF TypeOK
  <2> QED
    BY <1>9, <2>1 DEF DataType
<1>11. d \in DataType
  <2>1. data[p].copied + 1 \in 0 .. 2 * SizeMax
    BY <1>5
  <2>2. data[p].sizeReallyManipulate + 1 \in Nat
    BY <1>2 DEF DataType
  <2> QED
    BY <1>2, <2>1, <2>2 DEF DataType
<1>12. /\ d.from = data[p].from /\ d.sizeToManipulate = data[p].sizeToManipulate
       /\ d.passByMiddle = data[p].passByMiddle
       /\ d.secondLimitLoop = data[p].secondLimitLoop
       /\ d.copied = data[p].copied + 1 /\ d.bytes = bytes
  BY <1>2 DEF DataType
<1> HIDE DEF d
<1>13. /\ data'[p] = d /\ call'[p] = call[p]
       /\ pc' = [pc EXCEPT ![p] = IF data[p].copied + 1 = toMove(p)
                                  THEN "lockAgain" ELSE "copy"]
       /\ UNCHANGED <<mutex, side, start, end, isEOF, isEmpty, tmpStart, tmpEnd,
                      call, stamp, ret>>
  BY <1>1, <1>10 DEF CopyByte, Goto, shared, TypeOK
<1>14. /\ pc'[p] = IF data[p].copied + 1 = toMove(p) THEN "lockAgain" ELSE "copy"
       /\ pc' \in [Proc -> PCs]
       /\ \A q \in Proc \ {p} : pc'[q] = pc[q]
  BY <1>1, <1>13 DEF TypeOK, PCs
<1>15. toMove(p)' = toMove(p)
  BY <1>12, <1>13 DEF toMove
<1>16. pc'[p] = "copy" =>
         /\ data'[p].sizeToManipulate > 0
         /\ data'[p].copied < toMove(p)'
         /\ toMove(p)' <= 2 * SizeMax
         /\ \A k \in 1 .. toMove(p)' :
              CellOf(data'[p].from, data'[p].passByMiddle, k) \in Index
  <2>1. data[p].sizeToManipulate > 0
    BY <1>1 DEF CallOpen
  <2>2. pc'[p] = "copy" => data[p].copied + 1 < toMove(p)
    BY <1>2, <1>4, <1>5, <1>14
  <2> QED
    BY <1>3, <1>12, <1>13, <1>15, <2>1, <2>2
<1>17. CallOpen(p)'
  BY <1>3, <1>9, <1>12, <1>13, <1>14, <1>16, <1>1 DEF CallOpen, Begins
<1> QED
  BY <1>1, <1>8, <1>10, <1>11, <1>13, <1>14, <1>17, RoundInv DEF TypeOK

\* A thread that runs past its iovec is gone, and changes nothing.
LEMMA CopyCrashInv ==
  ASSUME IInv, NEW p \in Proc, CopyCrash(p)
  PROVE  IInv'
<1>1. TypeOK /\ CallOpen(p)  BY DEF IInv
<1>2. /\ pc[p] = "copy" /\ pc' = [pc EXCEPT ![p] = "crashed"]
      /\ UNCHANGED <<mutex, side, start, end, isEOF, isEmpty, tmpStart, tmpEnd,
                     buf, call, data, stamp, ret>>
  BY DEF CopyCrash, Goto, shared
<1>3. CallOpen(p)'
  BY <1>1, <1>2 DEF TypeOK, CallOpen, Begins
<1> QED
  BY <1>1, <1>2, <1>3, MoveInv DEF TypeOK, PCs

LEMMA WaitTurnInv ==
  ASSUME IInv, NEW p \in Proc, WaitTurn(p)
  PROVE  IInv'
<1>1. TypeOK /\ CallOpen(p)  BY DEF IInv
<1>2. PICK x \in {"waitTurnRead", "waitTurnWrite"} : pc' = [pc EXCEPT ![p] = x]
  BY DEF WaitTurn, Goto
<1>3. /\ pc[p] = "validate" /\ mutex' = Free
      /\ UNCHANGED <<side, start, end, isEOF, isEmpty, tmpStart, tmpEnd,
                     buf, call, data, stamp, ret>>
  BY DEF WaitTurn, Validating, shared
<1>4. CallOpen(p)'
  BY <1>1, <1>2, <1>3 DEF TypeOK, CallOpen, Begins
<1> QED
  BY <1>1, <1>2, <1>3, <1>4, MoveInv DEF TypeOK, PCs

\* What a broadcast does to the others, and to p.
LEMMA BroadcastType ==
  ASSUME TypeOK, NEW p \in Proc, NEW to \in PCs, NEW queue, NEW woken,
         \/ queue \in {"waitRead", "waitWrite"} /\ woken = "relock"
         \/ queue \in {"waitTurnRead", "waitTurnWrite"} /\ woken = "lockAgain",
         BroadcastTo(p, to, queue, woken)
  PROVE  /\ pc' \in [Proc -> PCs] /\ pc'[p] = to
         /\ \A q \in Proc \ {p} :
              \/ pc'[q] = pc[q]
              \/ pc[q] \in {"waitRead", "waitWrite"} /\ pc'[q] = "relock"
              \/ pc[q] \in {"waitTurnRead", "waitTurnWrite"} /\ pc'[q] = "lockAgain"
<1>1. pc \in [Proc -> PCs] /\ woken \in PCs
  BY DEF TypeOK, PCs
<1>2. pc' = [q \in Proc |-> IF q = p THEN to
                            ELSE IF pc[q] = queue THEN woken ELSE pc[q]]
  BY DEF BroadcastTo
<1>3. pc' \in [Proc -> PCs] /\ pc'[p] = to
  BY <1>1, <1>2
<1>4. ASSUME NEW q \in Proc \ {p}
      PROVE  pc'[q] = IF pc[q] = queue THEN woken ELSE pc[q]
  BY <1>2
<1> QED
  BY <1>3, <1>4

LEMMA ValidateInv ==
  ASSUME IInv, NEW p \in Proc, ReadValidate(p) \/ WriteValidate(p)
  PROVE  IInv'
<1>1. TypeOK /\ CallOpen(p)  BY DEF IInv
<1>2. data[p] \in DataType
  BY <1>1 DEF TypeOK
<1>3. localTmp(p) \in Index
  <2>1. data[p].from + data[p].sizeToManipulate \in Nat
    BY <1>2 DEF DataType, Index
  <2> QED
    BY <2>1 DEF localTmp, Index
<1> DEFINE d == [data[p] EXCEPT !.copied = 0]
<1>4. /\ d \in DataType /\ d.copied = 0 /\ d.bytes = data[p].bytes
      /\ d.sizeReallyManipulate = data[p].sizeReallyManipulate
  BY <1>2 DEF DataType
<1>5. data' = [data EXCEPT ![p] = d]
  BY <1>1 DEF TypeOK, ReadValidate, WriteValidate
<1> HIDE DEF d
<1>6. \E queue \in {"waitTurnRead", "waitTurnWrite"} :
        BroadcastTo(p, "broadcast", queue, "lockAgain")
  BY DEF ReadValidate, WriteValidate
<1>7. /\ pc' \in [Proc -> PCs] /\ pc'[p] = "broadcast"
      /\ \A q \in Proc \ {p} :
           \/ pc'[q] = pc[q]
           \/ pc[q] \in {"waitRead", "waitWrite"} /\ pc'[q] = "relock"
           \/ pc[q] \in {"waitTurnRead", "waitTurnWrite"} /\ pc'[q] = "lockAgain"
  BY <1>1, <1>6, BroadcastType DEF PCs
<1>8. /\ start' \in Index /\ end' \in Index /\ tmpStart' \in Index /\ tmpEnd' \in Index
      /\ isEmpty' \in BOOLEAN /\ mutex' = Free
      /\ UNCHANGED <<side, isEOF, buf, call, stamp, ret>>
  BY <1>1, <1>3 DEF TypeOK, ReadValidate, WriteValidate, EmptyAfterRead
<1>9. CallOpen(p)'
  <2>1. /\ pc[p] = "validate" /\ call'[p] = call[p]
        /\ data'[p] = d
    BY <1>1, <1>5, <1>8 DEF TypeOK, ReadValidate, WriteValidate, Validating
  <2> QED
    BY <1>1, <1>4, <1>7, <2>1 DEF CallOpen, Begins
<1> QED
  BY <1>1, <1>4, <1>5, <1>7, <1>8, <1>9, RoundInv DEF TypeOK

LEMMA WakeOtherSideInv ==
  ASSUME IInv, NEW p \in Proc, WakeOtherSide(p)
  PROVE  IInv'
<1>1. TypeOK /\ CallOpen(p)  BY DEF IInv
<1> DEFINE d == [data[p] EXCEPT !.passByMiddle = FALSE]
<1>2. data[p] \in DataType
  BY <1>1 DEF TypeOK
<1>3. /\ d \in DataType /\ d.copied = data[p].copied /\ d.bytes = data[p].bytes
      /\ d.sizeReallyManipulate = data[p].sizeReallyManipulate
  BY <1>2 DEF DataType
<1>4. data' = [data EXCEPT ![p] = d]
  BY <1>1 DEF TypeOK, WakeOtherSide, PassForNextRound
<1> HIDE DEF d
<1>5. \E queue \in {"waitRead", "waitWrite"} :
        BroadcastTo(p, "unlocked", queue, "relock")
  BY DEF WakeOtherSide
<1>6. /\ pc' \in [Proc -> PCs] /\ pc'[p] = "unlocked"
      /\ \A q \in Proc \ {p} :
           \/ pc'[q] = pc[q]
           \/ pc[q] \in {"waitRead", "waitWrite"} /\ pc'[q] = "relock"
           \/ pc[q] \in {"waitTurnRead", "waitTurnWrite"} /\ pc'[q] = "lockAgain"
  BY <1>1, <1>5, BroadcastType DEF PCs
<1>7. /\ side' \in [Sides -> Proc \cup {Free, Lost}]
      /\ UNCHANGED <<mutex, start, end, isEOF, isEmpty, tmpStart, tmpEnd, buf,
                     call, stamp, ret>>
  BY <1>1, SideType DEF WakeOtherSide, shared
<1>8. CallOpen(p)'
  <2>1. pc[p] = "broadcast" /\ call'[p] = call[p] /\ data'[p] = d
    BY <1>1, <1>4, <1>7 DEF TypeOK, WakeOtherSide
  <2> QED
    BY <1>1, <1>3, <1>6, <2>1 DEF CallOpen, Begins
<1> QED
  BY <1>1, <1>3, <1>4, <1>6, <1>7, <1>8, RoundInv DEF TypeOK

-----------------------------------------------------------------------------
LEMMA StutterInv ==
  ASSUME IInv, UNCHANGED vars
  PROVE  IInv'
<1>1. TypeOK'
  BY DEF IInv, TypeOK, vars, shared
<1>2. \A p \in Proc : Woken(p)
  BY DEF Woken, vars
<1> QED
  BY <1>1, <1>2, WokenOpen DEF IInv

LEMMA NextInv == IInv /\ [Next]_vars => IInv'
<1> SUFFICES ASSUME IInv, [Next]_vars PROVE IInv'
  OBVIOUS
<1>1. ASSUME NEW p \in Proc, Step(p) PROVE IInv'
  BY <1>1, EndOfCallInv, WriteReserveInv, ReadReserveInv, WaitInv, CopyByteInv,
     CopyCrashInv, WaitTurnInv, ValidateInv, WakeOtherSideInv DEF Step
<1>2. ASSUME NEW p \in Proc,
             Invoke(p) \/ LockSide(p) \/ Acquire(p) \/ SpuriousWakeup(p)
      PROVE  IInv'
  BY <1>2, RefuseInv, EnterInv, LockSideInv, AcquireInv, SpuriousWakeupInv DEF Invoke
<1> QED
  BY <1>1, <1>2, StutterInv DEF Next

(***************************************************************************)
(* Whatever the calls, the atomic limit and the build, and also when       *)
(* copies overlap or stale limits lead them astray (concurrentconduct.c:   *)
(* 569-693, 829-1063): the four indices stay inside the buffer, and so     *)
(* does every cell a copy visits.                                          *)
(***************************************************************************)
THEOREM TypeCorrect == Spec => []TypeOK
<1>1. IInv => TypeOK
  BY DEF IInv
<1> QED
  BY InitInv, NextInv, <1>1, PTL DEF Spec

(***************************************************************************)
(* A copy that is still running has a next cell, and it is one of the      *)
(* buffer's: what the loops of apply_loops access is never outside it      *)
(* (concurrentconduct.c:647-693).                                          *)
(***************************************************************************)
THEOREM CopiesInsideBuffer ==
  Spec => [](\A p \in Proc : pc[p] = "copy" => nextCell(p) \in Index)
<1>1. IInv => \A p \in Proc : pc[p] = "copy" => nextCell(p) \in Index
  <2> SUFFICES ASSUME IInv, NEW p \in Proc, pc[p] = "copy" PROVE nextCell(p) \in Index
    OBVIOUS
  <2>1. TypeOK /\ CallOpen(p)  BY DEF IInv
  <2>2. data[p] \in DataType
    BY <2>1 DEF TypeOK
  <2>3. data[p].copied \in Nat /\ toMove(p) \in Int
    BY <2>2 DEF DataType, toMove, Moved, FirstLimit, Index
  <2>4. data[p].copied + 1 \in 1 .. toMove(p)
    BY <2>1, <2>3 DEF CallOpen
  <2> QED
    BY <2>1, <2>4 DEF CallOpen, nextCell
<1> QED
  BY InitInv, NextInv, <1>1, PTL DEF Spec

-----------------------------------------------------------------------------
(* Who does what in a step.                                                *)

\* The other threads keep their calls; at most they are woken.
LEMMA OthersWoken ==
  ASSUME IInv, NEW p \in Proc,
         Invoke(p) \/ LockSide(p) \/ Acquire(p) \/ Step(p) \/ SpuriousWakeup(p)
  PROVE  \A q \in Proc \ {p} : Woken(q)
<1>1. TypeOK  BY DEF IInv
<1>2. ASSUME NEW c \in Calls[p], Refuse(p, c) \/ Enter(p, c)
      PROVE  \A q \in Proc \ {p} : Woken(q)
  BY <1>1, <1>2 DEF Refuse, Enter, Goto, TypeOK, Woken
<1>3. CASE LockSide(p) \/ Acquire(p) \/ SpuriousWakeup(p)
  BY <1>1, <1>3 DEF LockSide, Acquire, SpuriousWakeup, Goto, TypeOK, Woken
<1>4. ASSUME NEW r, Return(p, r) PROVE \A q \in Proc \ {p} : Woken(q)
  BY <1>1, <1>4 DEF Return, TypeOK, Woken
<1>5. CASE \/ TryLockBusy(p) \/ RetryBusy(p) \/ Finish(p) \/ WriteEof(p) \/ AtEof(p)
           \/ WriteNoRoom(p) \/ ReadNothing(p)
  BY <1>4, <1>5
  DEF TryLockBusy, RetryBusy, Finish, WriteEof, AtEof, WriteNoRoom, ReadNothing, GiveUp
<1>6. CASE WriteWait(p) \/ ReadWait(p) \/ WaitTurn(p) \/ CopyCrash(p)
  BY <1>1, <1>6 DEF WriteWait, ReadWait, WaitTurn, CopyCrash, Goto, TypeOK, Woken
<1>7. CASE WriteReserve(p) \/ ReadReserve(p)
  BY <1>1, <1>7 DEF WriteReserve, ReadReserve, StartCopy, Goto, TypeOK, Woken
<1>8. CASE CopyByte(p)
  BY <1>1, <1>8 DEF CopyByte, Goto, TypeOK, Woken
<1>9. CASE ReadValidate(p) \/ WriteValidate(p) \/ WakeOtherSide(p)
  <2>1. /\ call' = call
        /\ \A q \in Proc \ {p} : data'[q] = data[q]
    BY <1>1, <1>9 DEF ReadValidate, WriteValidate, WakeOtherSide, TypeOK
  <2>2. \E to \in PCs : \E queue, woken :
          /\ \/ queue \in {"waitRead", "waitWrite"} /\ woken = "relock"
             \/ queue \in {"waitTurnRead", "waitTurnWrite"} /\ woken = "lockAgain"
          /\ BroadcastTo(p, to, queue, woken)
    BY <1>9 DEF ReadValidate, WriteValidate, WakeOtherSide, PCs
  <2>. QED  BY <1>1, <2>1, <2>2, BroadcastType DEF Woken
<1>. QED
  BY <1>2, <1>3, <1>5, <1>6, <1>7, <1>8, <1>9 DEF Invoke, Step

-----------------------------------------------------------------------------
(* No lost wakeup.                                                         *)

\* A step that neither changes what the sleepers wait for, nor is a broadcast,
\* nor puts its thread to sleep.
LEMMA WakeupKept ==
  ASSUME NoLostWakeup, NEW p \in Proc, \A q \in Proc \ {p} : Woken(q),
         pc[p] # "broadcast", pc'[p] \notin {"waitRead", "waitWrite"},
         UNCHANGED <<start, tmpEnd, isEmpty>>
  PROVE  NoLostWakeup'
<1>1. ASSUME NEW q \in Proc \ {p}
      PROVE  /\ pc'[q] \in {"waitRead", "waitWrite"} => pc'[q] = pc[q]
             /\ pc[q] = "broadcast" => pc'[q] = "broadcast"
             /\ Reading(q)' = Reading(q) /\ Writing(q)' = Writing(q)
             /\ noRoom(q)' = noRoom(q)
  BY DEF Woken, Reading, Writing, noRoom, firstFree, writeSize, rest, sizeDone
<1>. QED  BY <1>1 DEF NoLostWakeup

\* A reservation takes room away from those that wait for it.
LEMMA RoomShrinks ==
  ASSUME NEW s \in Index, NEW e \in Index, NEW m \in BOOLEAN,
         NEW n \in Nat, ~(e = s /\ ~m), n <= WriteAvailable(s, e, m),
         NEW w \in Nat,
         \/ e = s /\ ~m
         \/ w > WriteAvailable(s, e, m)
  PROVE  \/ (e + n) % SizeMax = s /\ ~m
         \/ w > WriteAvailable(s, (e + n) % SizeMax, m)
<1>1. n <= SizeMax  BY AvailableType
<1>2. (e + n) % SizeMax = Wrap(e + n)
  <2>1. CASE n < SizeMax  BY <2>1, WrapIsModulo
  <2>2. CASE n = SizeMax
    <3>1. \A a \in SizeMax .. 2 * SizeMax - 1 : a % SizeMax = a - SizeMax  OBVIOUS
    <3>. QED  BY <2>2, <3>1 DEF Wrap, Index
  <2>. QED  BY <1>1, <2>1, <2>2
<1>3. CASE m  BY <1>3 DEF WriteAvailable
<1>4. CASE ~m
  BY <1>2, <1>4 DEF WriteAvailable, Wrap, Index
<1>. QED  BY <1>3, <1>4

LEMMA WakeupNext ==
  ASSUME IInv, NoLostWakeup, [Next]_vars
  PROVE  NoLostWakeup'
<1>1. TypeOK  BY DEF IInv
<1>2. CASE UNCHANGED vars
  BY <1>2 DEF vars, shared, NoLostWakeup, Reading, Writing, noRoom, firstFree,
              writeSize, rest, sizeDone
<1>3. ASSUME NEW p \in Proc,
             Invoke(p) \/ LockSide(p) \/ Acquire(p) \/ Step(p) \/ SpuriousWakeup(p)
      PROVE  NoLostWakeup'
  <2>1. \A q \in Proc \ {p} : Woken(q)  BY <1>3, OthersWoken
  <2>2. ASSUME NEW q \in Proc \ {p}
        PROVE  /\ pc'[q] \in {"waitRead", "waitWrite"} => pc'[q] = pc[q]
               /\ pc[q] = "broadcast" => pc'[q] = "broadcast"
               /\ Reading(q)' = Reading(q) /\ Writing(q)' = Writing(q)
               /\ writeSize(q)' = writeSize(q)
    BY <2>1 DEF Woken, Reading, Writing, writeSize, rest, sizeDone
  <2>3. CASE \/ Invoke(p) \/ LockSide(p) \/ Acquire(p) \/ SpuriousWakeup(p)
             \/ TryLockBusy(p) \/ RetryBusy(p) \/ Finish(p)
             \/ WriteEof(p) \/ AtEof(p) \/ WriteNoRoom(p) \/ ReadNothing(p)
             \/ ReadReserve(p) \/ CopyByte(p) \/ CopyCrash(p) \/ WaitTurn(p)
    <3>1. pc[p] # "broadcast" /\ pc'[p] \notin {"waitRead", "waitWrite"}
      BY <1>1, <2>3
      DEF Invoke, Refuse, Enter, LockSide, Retrying, Acquire, SpuriousWakeup, TryLockBusy,
          RetryBusy, Finish, WriteEof, AtEof, WriteNoRoom, ReadNothing, GiveUp, Reserving,
          ReadReserve, StartCopy, CopyByte, CopyCrash, WaitTurn, Validating, Return, Goto,
          TypeOK
    <3>2. UNCHANGED <<start, tmpEnd, isEmpty>>
      BY <2>3
      DEF Invoke, Refuse, Enter, LockSide, Acquire, SpuriousWakeup, TryLockBusy,
          RetryBusy, Finish, WriteEof, AtEof, WriteNoRoom, ReadNothing, GiveUp,
          ReadReserve, CopyByte, CopyCrash, WaitTurn, shared
    <3>. QED  BY <2>1, <3>1, <3>2, WakeupKept
  <2>4. CASE ReadWait(p)
    <3>1. /\ isEmpty /\ isEmpty' = isEmpty /\ pc'[p] = "waitRead" /\ pc[p] = "reserve"
          /\ \A q \in Proc \ {p} : noRoom(q)' = noRoom(q)
      BY <1>1, <2>1, <2>4 DEF ReadWait, Reserving, Goto, shared, TypeOK, Woken, noRoom,
                              firstFree, writeSize, rest, sizeDone
    <3>. QED  BY <2>2, <3>1 DEF NoLostWakeup
  <2>5. CASE WriteWait(p)
    <3>1. /\ UNCHANGED <<start, tmpEnd, isEmpty, call>>
          /\ pc'[p] = "waitWrite" /\ pc[p] = "reserve" /\ noRoom(p)
          /\ sizeDone(p)' = sizeDone(p)
      BY <1>1, <2>5 DEF WriteWait, Reserving, Goto, shared, TypeOK, DataType, sizeDone
    <3>2. \A q \in Proc : noRoom(q)' = noRoom(q)
      BY <2>2, <3>1 DEF noRoom, firstFree, writeSize, rest
    <3>. QED  BY <2>2, <3>1, <3>2 DEF NoLostWakeup
  <2>6. CASE WriteReserve(p)
    <3>1. /\ pc[p] = "reserve" /\ pc'[p] = "copy" /\ ~noRoom(p)
          /\ UNCHANGED <<start, isEmpty>>
          /\ tmpEnd' = (tmpEnd + writeSize(p)) % SizeMax
      BY <1>1, <2>6 DEF WriteReserve, Reserving, StartCopy, Goto, TypeOK, firstFree
    <3>2. ASSUME NEW q \in Proc, pc[q] = "waitWrite", noRoom(q), q # p
          PROVE  noRoom(q)'
      <4>1. /\ writeSize(p) \in Nat /\ writeSize(q) \in Nat
            /\ start \in Index /\ tmpEnd \in Index /\ isEmpty \in BOOLEAN
        BY <1>1, <3>1, <3>2, RoundSize DEF TypeOK, Begins, writeSize
      <4>2. WriteAvailable(start, tmpEnd, isEmpty) \in 0 .. SizeMax
        BY <4>1, AvailableType
      <4>3. writeSize(p) <= WriteAvailable(start, tmpEnd, isEmpty)
        BY <3>1, <4>1, <4>2 DEF noRoom, firstFree
      <4>4. \/ (tmpEnd + writeSize(p)) % SizeMax = start /\ ~isEmpty
            \/ writeSize(q) > WriteAvailable(start, (tmpEnd + writeSize(p)) % SizeMax, isEmpty)
        BY <3>1, <3>2, <4>1, <4>3, RoomShrinks DEF noRoom, firstFree
      <4>5. noRoom(q)' = \/ tmpEnd' = start' /\ ~isEmpty'
                         \/ writeSize(q)' > WriteAvailable(start', tmpEnd', isEmpty')
        BY ONLY DEF noRoom, firstFree
      <4>6. writeSize(q)' = writeSize(q)  BY <2>2, <3>2
      <4>. QED  BY ONLY <3>1, <4>4, <4>5, <4>6
    <3>. QED  BY <2>2, <3>1, <3>2 DEF NoLostWakeup
  <2>7. CASE ReadValidate(p)
    <3>1. /\ call'[p] = call[p] /\ call[p].op = "read" /\ pc[p] = "validate"
          /\ pc'[p] = "broadcast" /\ (isEmpty => isEmpty') /\ isEmpty' \in BOOLEAN
      <4>1. pc'[p] = "broadcast"  BY <1>1, <2>7 DEF ReadValidate, BroadcastTo
      <4>. QED
        BY <1>1, <2>7, <4>1 DEF ReadValidate, Validating, TypeOK, EmptyAfterRead
    <3>2. Reading(p)'  BY <3>1 DEF IInv, CallOpen, Reading
    <3>. QED  BY <2>2, <3>1, <3>2 DEF NoLostWakeup
  <2>8. CASE WriteValidate(p)
    <3>1. /\ call'[p] = call[p] /\ call[p].op = "write" /\ pc[p] = "validate"
          /\ pc'[p] = "broadcast" /\ isEmpty' = FALSE /\ UNCHANGED <<start, tmpEnd>>
      <4>1. pc'[p] = "broadcast"  BY <1>1, <2>8 DEF WriteValidate, BroadcastTo
      <4>. QED  BY <2>8, <4>1 DEF WriteValidate, Validating
    <3>2. Writing(p)'  BY <3>1 DEF IInv, CallOpen, Writing
    <3>3. ASSUME NEW q \in Proc, pc[q] = "waitWrite", noRoom(q), q # p
          PROVE  noRoom(q)'
      <4>1. /\ start \in Index /\ tmpEnd \in Index /\ isEmpty \in BOOLEAN
            /\ writeSize(q) \in Nat
        BY <1>1, <3>3, RoundSize DEF TypeOK, Begins, writeSize
      <4>2. \/ tmpEnd = start
            \/ writeSize(q) > WriteAvailable(start, tmpEnd, FALSE)
        BY <3>3, <4>1 DEF noRoom, firstFree, WriteAvailable, Index
      <4>3. noRoom(q)' = \/ tmpEnd' = start' /\ ~isEmpty'
                         \/ writeSize(q)' > WriteAvailable(start', tmpEnd', isEmpty')
        BY ONLY DEF noRoom, firstFree
      <4>4. writeSize(q)' = writeSize(q)  BY <2>2, <3>3
      <4>. QED  BY ONLY <3>1, <4>2, <4>3, <4>4
    <3>. QED  BY <2>2, <3>1, <3>2, <3>3 DEF NoLostWakeup
  <2>9. CASE WakeOtherSide(p)
    <3>1. /\ pc[p] = "broadcast" /\ UNCHANGED <<start, tmpEnd, isEmpty>>
          /\ call[p] # NoCall /\ call[p].op \in {"read", "write"}
      BY <2>9 DEF WakeOtherSide, shared, IInv, CallOpen, TypeOK, CallRecord, Ops
    <3>2. ASSUME NEW q \in Proc, pc'[q] = IF call[p].op = "read" THEN "waitWrite" ELSE "waitRead"
          PROVE  FALSE
      BY <2>9, <3>2 DEF WakeOtherSide, BroadcastTo
    <3>3. \A q \in Proc \ {p} : noRoom(q)' = noRoom(q)
      BY <2>2, <3>1 DEF noRoom, firstFree
    <3>4. pc'[p] = "unlocked"  BY <1>1, <2>9 DEF WakeOtherSide, BroadcastTo
    <3>5. CASE call[p].op = "read"
      <4>1. ~Writing(p) /\ \A q \in Proc : pc'[q] # "waitWrite"
        BY <3>2, <3>5 DEF Writing
      <4>. QED  BY <2>2, <3>1, <3>4, <4>1 DEF NoLostWakeup
    <3>6. CASE call[p].op = "write"
      <4>1. ~Reading(p) /\ \A q \in Proc : pc'[q] # "waitRead"
        BY <3>2, <3>6 DEF Reading
      <4>. QED  BY <2>2, <3>1, <3>3, <3>4, <4>1 DEF NoLostWakeup
    <3>. QED  BY <3>1, <3>5, <3>6
  <2>. QED
    BY <1>3, <2>3, <2>4, <2>5, <2>6, <2>7, <2>8, <2>9 DEF Step
<1>. QED  BY <1>2, <1>3 DEF Next

(***************************************************************************)
(* In both builds, for any threads and calls: although the broadcast comes *)
(* after the unlock (concurrentconduct.c:987, 1183), nobody sleeps beside   *)
(* what it waits for unless a thread of the other side is about to wake    *)
(* everybody that sleeps there.                                            *)
(***************************************************************************)
THEOREM LosesNoWakeup == Spec => []NoLostWakeup
<1>1. Init => NoLostWakeup  BY DEF Init, NoLostWakeup
<1>2. IInv /\ NoLostWakeup /\ [Next]_vars => NoLostWakeup'  BY WakeupNext
<1>. QED  BY InitInv, NextInv, <1>1, <1>2, PTL DEF Spec
=============================================================================
