---------------------------- MODULE SidesProofs ----------------------------
(***************************************************************************)
(* The SPSC build of ConcurrentConduct, whose rounds validate without      *)
(* waiting for their turn: what mutexRead and mutexWrite make of it, and   *)
(* that it is a queue of bytes (SidesAreFifo).                             *)
(*                                                                         *)
(* Any number of threads, readers with any calls, writers with blocking    *)
(* calls of one round.  A write that gives up unlocks mutexRead, whoever   *)
(* holds it, and keeps mutexWrite (UnlockAll), so that nothing here holds  *)
(* of the others.                                                          *)
(***************************************************************************)
EXTENDS ConcurrentProofs

USE SizeAssumption, ConcurrentAssumption

\* The SPSC build, and writes that never give up and have no second round.
BlockingOneRoundWrites ==
  /\ SingleReaderAndWriter
  /\ \A p \in Proc : \A c \in Calls[p] :
       c.op = "write" => ~c.nb /\ c.count <= SizeAtom

\* secondLimitLoop is not reset between the rounds of a call.  It does no harm
\* to a reader whose rounds never stop right behind the last cell after one
\* that went past it: one of single bytes, or the only reader, of no more
\* bytes than the buffer has.
ReadsStayFresh ==
  \/ SizeAtom = 1
  \/ \A p, q \in Proc : \A c \in Calls[p], d \in Calls[q] :
       c.op = "read" /\ d.op = "read" => p = q /\ c.count <= SizeMax

-----------------------------------------------------------------------------
(* The invariant.                                                          *)

\* Where a thread has its side mutex; where it has cells reserved.
Holding  == {"lock", "reserve", "waitRead", "waitWrite", "relock", "copy",
             "lockAgain", "validate", "broadcast", "retry", "crashed"}
Claiming == {"copy", "lockAgain", "validate", "crashed"}

Holds(p)  == pc[p] \in Holding
Claims(p) == pc[p] \in Claiming

\* Until end of file a side mutex belongs to the thread that is past its lock;
\* conduct_write_eof frees mutexRead under the feet of a reader, and then
\* nobody reserves any more: a side never has two claims.
Excluded ==
  /\ \A p \in Proc : pc[p] \notin {"waitTurnRead", "waitTurnWrite"}
  /\ \A p \in Proc : ~isEOF /\ Holds(p) => side[sideOf(p)] = p
  /\ \A p, q \in Proc : Claims(p) /\ Claims(q) /\ sideOf(p) = sideOf(q) => p = q

\* A claim starts where the side has validated, and fits.
used == Used(start, end, isEmpty)
ReadClaim(p) ==
  /\ data[p].from = start /\ tmpStart = localTmp(p)
  /\ data[p].sizeToManipulate \in 1 .. used
WriteClaim(p) ==
  /\ data[p].from = end /\ tmpEnd = localTmp(p)
  /\ data[p].sizeToManipulate \in 1 .. SizeMax - used

Indices ==
  /\ isEmpty => start = end
  /\ \A p \in Proc : Claims(p) /\ Reading(p) => ReadClaim(p)
  /\ \A p \in Proc : Claims(p) /\ Writing(p) => WriteClaim(p)
  /\ (\A p \in Proc : ~(Claims(p) /\ Reading(p))) => tmpStart = start
  /\ (\A p \in Proc : ~(Claims(p) /\ Writing(p))) => tmpEnd = end

\* The copy of p is exact, and within its call.
ExactCopy(p) ==
  /\ ExactRound(data[p].from, data[p].sizeToManipulate,
                data[p].passByMiddle, data[p].secondLimitLoop)
  /\ sizeDone(p) + (data[p].sizeToManipulate - data[p].copied) <= call[p].count

\* A write does all it has to do in its only round; the flag it set before it
\* fell asleep is still right when it wakes up.
WritesOnce(p) ==
  /\ pc[p] \in Begins =>
       /\ sizeDone(p) = 0 /\ data[p].secondLimitLoop = 0
       /\ data[p].passByMiddle => Holds(p) /\ tmpEnd + writeSize(p) >= SizeMax
  /\ pc[p] = "copy" =>
       /\ ExactCopy(p)
       /\ sizeDone(p) + (data[p].sizeToManipulate - data[p].copied) = call[p].count
  /\ pc[p] \in {"lockAgain", "validate", "broadcast", "unlocked"} =>
       sizeDone(p) = call[p].count
  /\ pc[p] # "crashed"

\* How far a reader will be when its round is over, and what that says of a
\* second limit that is left over.
willBeDone(p) ==
  sizeDone(p) + (IF pc[p] = "copy" THEN data[p].sizeToManipulate - data[p].copied ELSE 0)

ReadsFresh(p) ==
  /\ pc[p] \in Begins \cup {"unlocked"} => ~data[p].passByMiddle
  /\ pc[p] # "idle" /\ data[p].secondLimitLoop # 0 =>
       SizeAtom # 1 /\ tmpStart < willBeDone(p)
  /\ pc[p] = "copy" => ExactCopy(p)
  /\ pc[p] # "crashed"

SInv == /\ IInv /\ Excluded /\ Indices
        /\ \A p \in Proc : Writing(p) => WritesOnce(p)

FInv == SInv /\ \A p \in Proc : Reading(p) => ReadsFresh(p)

-----------------------------------------------------------------------------
(* Who does what to the side mutexes.                                      *)

Acts(p) == Invoke(p) \/ LockSide(p) \/ Acquire(p) \/ Step(p) \/ SpuriousWakeup(p)

\* A step of another thread at most wakes q from its wait for the other side.
Kept(q) ==
  /\ call'[q] = call[q] /\ data'[q] = data[q]
  /\ \/ pc'[q] = pc[q]
     \/ pc[q] \in {"waitRead", "waitWrite"} /\ pc'[q] = "relock"

LEMMA OthersKept ==
  ASSUME SInv, NEW p \in Proc, Acts(p), NEW q \in Proc \ {p}
  PROVE  /\ Kept(q)
         /\ Holds(q)' = Holds(q) /\ Claims(q)' = Claims(q)
         /\ sideOf(q)' = sideOf(q) /\ localTmp(q)' = localTmp(q)
         /\ Reading(q)' = Reading(q) /\ Writing(q)' = Writing(q)
<1>1. Woken(q)
  <2>1. \A o \in Proc \ {p} : Woken(o)  BY OthersWoken DEF SInv, Acts
  <2>. QED  BY <2>1
<1>2. Kept(q)  BY <1>1 DEF Woken, Kept, SInv, Excluded
<1>. QED
  BY <1>2 DEF Kept, Holds, Claims, Holding, Claiming, sideOf, localTmp, Reading, Writing

\* A reservation is made with the side mutex held and before end of file; no
\* other step makes a claim.
LEMMA WhoClaims ==
  ASSUME BlockingOneRoundWrites, SInv, NEW p \in Proc, Acts(p)
  PROVE  /\ pc'[p] \notin {"waitTurnRead", "waitTurnWrite"}
         /\ Claims(p)' => sideOf(p)' = sideOf(p)
         /\ Claims(p)' => Claims(p) \/ (~isEOF /\ Holds(p))
         /\ isEOF => isEOF'
<1>1. /\ pc \in [Proc -> PCs] /\ call \in [Proc -> CallRecord \cup {NoCall}]
      /\ pc[p] \notin {"waitTurnRead", "waitTurnWrite"} /\ SingleReaderAndWriter
  BY DEF SInv, IInv, TypeOK, Excluded, BlockingOneRoundWrites
<1>2. CASE Invoke(p)
  BY <1>1, <1>2
  DEF Invoke, Refuse, Enter, Goto, shared, Claims, Claiming
<1>3. CASE LockSide(p) \/ Acquire(p) \/ SpuriousWakeup(p)
  BY <1>1, <1>3
  DEF LockSide, Acquire, SpuriousWakeup, Retrying, Goto, shared, Claims, Claiming, sideOf
<1>4. CASE \/ TryLockBusy(p) \/ RetryBusy(p) \/ Finish(p) \/ WriteEof(p) \/ AtEof(p)
           \/ WriteNoRoom(p) \/ ReadNothing(p)
  BY <1>1, <1>4
  DEF TryLockBusy, RetryBusy, Finish, WriteEof, AtEof, WriteNoRoom, ReadNothing, GiveUp,
      Return, shared, Claims, Claiming
<1>5. CASE WriteWait(p) \/ ReadWait(p) \/ WriteReserve(p) \/ ReadReserve(p)
  BY <1>1, <1>5
  DEF WriteWait, ReadWait, WriteReserve, ReadReserve, Reserving, StartCopy, Goto, shared,
      Claims, Claiming, Holds, Holding, sideOf
<1>6. CASE CopyByte(p) \/ CopyCrash(p) \/ WaitTurn(p)
  BY <1>1, <1>6
  DEF CopyByte, CopyCrash, WaitTurn, Goto, shared, Claims, Claiming, sideOf
<1>7. CASE ReadValidate(p) \/ WriteValidate(p) \/ WakeOtherSide(p)
  BY <1>1, <1>7
  DEF ReadValidate, WriteValidate, WakeOtherSide, BroadcastTo, shared, Claims, Claiming
<1>. QED  BY <1>2, <1>3, <1>4, <1>5, <1>6, <1>7 DEF Acts, Step

\* A step leaves the side mutexes alone, gives its own back, takes it, or is
\* the end of a call that finds or makes end of file.
LEMMA WhoHolds ==
  ASSUME BlockingOneRoundWrites, SInv, NEW p \in Proc, Acts(p)
  PROVE  \/ /\ side' = side
            /\ Holds(p)' = Holds(p)
            /\ Holds(p) => sideOf(p)' = sideOf(p)
         \/ /\ side' = [side EXCEPT ![sideOf(p)] = Free]
            /\ Holds(p) /\ ~Holds(p)'
         \/ /\ side[sideOf(p)] = Free
            /\ side' = [side EXCEPT ![sideOf(p)] = p]
            /\ ~Holds(p) /\ pc'[p] \in {"lock", "retry"} /\ sideOf(p)' = sideOf(p)
         \/ /\ isEOF' /\ UnlockAll(p)
            /\ Holds(p) /\ ~Holds(p)'
<1>1. /\ pc \in [Proc -> PCs] /\ call \in [Proc -> CallRecord \cup {NoCall}]
      /\ side \in [Sides -> Proc \cup {Free, Lost}]
      /\ pc[p] \notin {"waitTurnRead", "waitTurnWrite"} /\ SingleReaderAndWriter
  BY DEF SInv, IInv, TypeOK, Excluded, BlockingOneRoundWrites
<1>2. CASE Invoke(p)
  BY <1>1, <1>2
  DEF Invoke, Refuse, Enter, Goto, shared, Holds, Holding
<1>3. CASE LockSide(p) \/ Acquire(p) \/ SpuriousWakeup(p)
  BY <1>1, <1>3
  DEF LockSide, SideFree, Acquire, SpuriousWakeup, Retrying, Goto, shared, Holds, Holding,
      sideOf
<1>4. CASE TryLockBusy(p) \/ RetryBusy(p) \/ Finish(p)
  BY <1>1, <1>4
  DEF TryLockBusy, RetryBusy, Retrying, Finish, UnlockSide, Return, shared, Holds, Holding
<1>5. CASE WriteEof(p) \/ AtEof(p)
  BY <1>1, <1>5 DEF WriteEof, AtEof, Reserving, Return, shared, Holds, Holding
<1>6. CASE WriteNoRoom(p)
  <2>1. pc[p] = "reserve" /\ call[p].op = "write"
    BY <1>6 DEF WriteNoRoom, Reserving
  <2>2. call[p] \in Calls[p] /\ Writing(p)
    BY <2>1 DEF SInv, IInv, CallOpen, Writing
  <2>3. ~call[p].nb /\ ~retry(p)
    BY <2>1, <2>2 DEF BlockingOneRoundWrites, SInv, WritesOnce, Begins, retry
  <2>. QED  BY <1>6, <2>3 DEF WriteNoRoom, GiveUp
<1>7. CASE ReadNothing(p)
  <2>1. /\ sideOf(p) = "read" /\ UnlockAll(p)
        /\ pc[p] = "reserve" /\ pc'[p] = "idle"
    BY <1>1, <1>7 DEF ReadNothing, Reserving, GiveUp, Return, sideOf
  <2>2. side' = [side EXCEPT !["read"] = Free]
    BY <1>1, <2>1 DEF UnlockAll, Sides
  <2>. QED  BY <2>1, <2>2 DEF Holds, Holding
<1>8. CASE WriteWait(p) \/ ReadWait(p) \/ WriteReserve(p) \/ ReadReserve(p)
  BY <1>1, <1>8
  DEF WriteWait, ReadWait, WriteReserve, ReadReserve, Reserving, StartCopy, Goto, shared,
      Holds, Holding, sideOf
<1>9. CASE CopyByte(p) \/ CopyCrash(p) \/ WaitTurn(p)
  BY <1>1, <1>9 DEF CopyByte, CopyCrash, WaitTurn, Goto, shared, Holds, Holding, sideOf
<1>10. CASE ReadValidate(p) \/ WriteValidate(p)
  BY <1>1, <1>10
  DEF ReadValidate, WriteValidate, Validating, BroadcastTo, Holds, Holding, sideOf
<1>11. CASE WakeOtherSide(p)
  BY <1>1, <1>11 DEF WakeOtherSide, BroadcastTo, UnlockSide, shared, Holds, Holding
<1>. QED
  BY <1>2, <1>3, <1>4, <1>5, <1>6, <1>7, <1>8, <1>9, <1>10, <1>11 DEF Acts, Step

\* So the exclusion lasts.
LEMMA ExcludedKept ==
  ASSUME BlockingOneRoundWrites, SInv, NEW p \in Proc, Acts(p)
  PROVE  Excluded'
<1>1. Excluded /\ side \in [Sides -> Proc \cup {Free, Lost}]
  BY DEF SInv, IInv, TypeOK
<1>2. \A q \in Proc : sideOf(q) \in Sides /\ q # Free
  BY DEF sideOf, Sides
<1>3. \A q \in Proc : pc'[q] \notin {"waitTurnRead", "waitTurnWrite"}
  BY <1>1, OthersKept, WhoClaims DEF Kept, Excluded
<1>4. ASSUME NEW q \in Proc, ~isEOF', Holds(q)'
      PROVE  (side[sideOf(q)] = q)'
  <2>1. ~isEOF  BY <1>4, WhoClaims
  <2>2. CASE q = p
    BY <1>1, <1>2, <1>4, <2>1, <2>2, WhoHolds DEF Excluded
  <2>3. CASE q # p
    <3>1. Holds(q) /\ sideOf(q)' = sideOf(q)  BY <1>4, <2>3, OthersKept
    <3>2. side[sideOf(q)] = q  BY <1>1, <2>1, <3>1 DEF Excluded
    <3>3. side'[sideOf(q)] = q
      <4>1. CASE side' = side  BY <3>2, <4>1
      <4>2. CASE side' = [side EXCEPT ![sideOf(p)] = Free] /\ Holds(p)
        <5>1. side[sideOf(p)] = p  BY <1>1, <2>1, <4>2 DEF Excluded
        <5>. QED  BY <1>1, <1>2, <2>3, <3>2, <4>2, <5>1
      <4>3. CASE side[sideOf(p)] = Free /\ side' = [side EXCEPT ![sideOf(p)] = p]
        BY <1>1, <1>2, <3>2, <4>3
      <4>. QED  BY <1>4, <4>1, <4>2, <4>3, WhoHolds
    <3>. QED  BY <3>1, <3>3
  <2>. QED  BY <2>2, <2>3
<1>5. ASSUME NEW q \in Proc, NEW o \in Proc, Claims(q)', Claims(o)',
             sideOf(q)' = sideOf(o)', q # o
      PROVE  FALSE
  <2>1. ASSUME NEW a \in Proc, NEW b \in Proc, a = p, b # p, Claims(a)', Claims(b)',
               sideOf(a)' = sideOf(b)'
        PROVE  FALSE
    <3>1. Claims(b) /\ Holds(b) /\ sideOf(b) = sideOf(a)
      BY <2>1, OthersKept, WhoClaims DEF Claims, Holds, Claiming, Holding
    <3>2. CASE Claims(a)  BY <1>1, <2>1, <3>1, <3>2 DEF Excluded
    <3>3. CASE ~isEOF /\ Holds(a)  BY <1>1, <2>1, <3>1, <3>3 DEF Excluded
    <3>. QED  BY <2>1, <3>2, <3>3, WhoClaims
  <2>2. CASE q # p /\ o # p
    BY <1>1, <1>5, <2>2, OthersKept DEF Excluded
  <2>. QED  BY <1>5, <2>1, <2>2
<1>. QED  BY <1>3, <1>4, <1>5 DEF Excluded

-----------------------------------------------------------------------------
(* Claims fit between the indices.                                         *)

LEMMA RoundWraps ==
  ASSUME NEW from \in Index, NEW size \in 0 .. SizeMax
  PROVE  (from + size) % SizeMax = Wrap(from + size) /\ Wrap(from + size) \in Index
<1>1. CASE size < SizeMax  BY <1>1, WrapIsModulo
<1>2. CASE size = SizeMax
  <2>1. \A a \in SizeMax .. 2 * SizeMax - 1 : a % SizeMax = a - SizeMax  OBVIOUS
  <2>. QED  BY <1>2, <2>1 DEF Wrap, Index
<1>. QED  BY <1>1, <1>2

\* What SInv says of the types of what follows.
LEMMA SidesTypes ==
  ASSUME SInv
  PROVE  /\ start \in Index /\ end \in Index /\ isEmpty \in BOOLEAN
         /\ tmpStart \in Index /\ tmpEnd \in Index /\ isEOF \in BOOLEAN
         /\ used \in 0 .. SizeMax
         /\ pc \in [Proc -> PCs] /\ call \in [Proc -> CallRecord \cup {NoCall}]
         /\ data \in [Proc -> DataType]
         /\ \A p \in Proc : /\ data[p].from \in Index
                            /\ data[p].sizeToManipulate \in 0 .. SizeMax
                            /\ data[p].copied \in Nat
                            /\ data[p].secondLimitLoop \in Index
                            /\ data[p].passByMiddle \in BOOLEAN
                            /\ sizeDone(p) \in Nat
<1>1. TypeOK  BY DEF SInv, IInv
<1>2. /\ start \in Index /\ end \in Index /\ isEmpty \in BOOLEAN
      /\ tmpStart \in Index /\ tmpEnd \in Index /\ isEOF \in BOOLEAN
  BY <1>1 DEF TypeOK
<1>3. used \in 0 .. SizeMax  BY <1>2, AvailableType DEF used, Used
<1>4. data \in [Proc -> DataType]  BY <1>1 DEF TypeOK
<1>5. \A p \in Proc : data[p] \in DataType  BY <1>4
<1>. QED  BY <1>1, <1>2, <1>3, <1>5 DEF TypeOK, DataType, sizeDone

\* A thread in a round is inside a read or a write, and not inside both.
LEMMA ClaimsAreRounds ==
  ASSUME SInv, NEW p \in Proc, Claims(p) \/ pc[p] = "broadcast"
  PROVE  /\ Reading(p) <=> call[p].op = "read"
         /\ Writing(p) <=> call[p].op = "write"
         /\ Reading(p) <=> sideOf(p) = "read"
         /\ Reading(p) <=> ~Writing(p)
         /\ call[p] \in Calls[p] /\ call[p] \in CallRecord /\ call[p] # NoCall
<1>1. call[p] \in Calls[p] /\ call[p] # NoCall /\ call[p].op # "write_eof"
  BY DEF SInv, IInv, CallOpen, Claims, Claiming
<1>2. call[p] \in CallRecord  BY <1>1
<1>3. call[p].op \in {"read", "write"}  BY <1>1, <1>2 DEF CallRecord, Ops
<1>. QED  BY <1>1, <1>2, <1>3 DEF Reading, Writing, sideOf

\* A step that moves no index and changes no claim.
LEMMA QuietIndices ==
  ASSUME SInv, NEW p \in Proc, Acts(p),
         UNCHANGED <<start, end, isEmpty, tmpStart, tmpEnd>>,
         Claims(p)' = Claims(p),
         Claims(p) => /\ call'[p] = call[p] /\ data'[p].from = data[p].from
                      /\ data'[p].sizeToManipulate = data[p].sizeToManipulate
  PROVE  Indices'
<1>1. used' = used  BY DEF used
<1>2. ASSUME NEW q \in Proc, Claims(q)'
      PROVE  /\ Claims(q)
             /\ Reading(q)' = Reading(q) /\ Writing(q)' = Writing(q)
             /\ localTmp(q)' = localTmp(q) /\ data'[q].from = data[q].from
             /\ data'[q].sizeToManipulate = data[q].sizeToManipulate
  BY <1>2, OthersKept DEF Reading, Writing, localTmp, Kept
<1>3. ASSUME NEW q \in Proc, Claims(q)
      PROVE  /\ Claims(q)'
             /\ Reading(q)' = Reading(q) /\ Writing(q)' = Writing(q)
  BY <1>3, OthersKept DEF Reading, Writing
<1>. QED  BY <1>1, <1>2, <1>3 DEF SInv, Indices, ReadClaim, WriteClaim

\* A writer claims what is free; nobody else of its side has a claim.
LEMMA WriteReserveIndices ==
  ASSUME BlockingOneRoundWrites, SInv, NEW p \in Proc, WriteReserve(p)
  PROVE  /\ Indices'
         /\ tmpEnd = end /\ writeSize(p) \in 1 .. SizeMax - used
         /\ writeSize(p) <= WriteAvailable(start, end, isEmpty)
<1>0. Acts(p)  BY DEF Acts, Step
<1>1. /\ pc[p] = "reserve" /\ call[p].op = "write" /\ ~isEOF /\ ~noRoom(p)
      /\ UNCHANGED <<start, end, isEmpty, tmpStart, call>>
      /\ tmpEnd' = (tmpEnd + writeSize(p)) % SizeMax
  BY DEF WriteReserve, Reserving, firstFree
<1>2. \A q \in Proc : ~(Claims(q) /\ Writing(q))
  BY <1>1 DEF SInv, Excluded, Holds, Holding, Claims, Claiming, Writing, sideOf
<1>3. tmpEnd = end  BY <1>2 DEF SInv, Indices
<1>4. writeSize(p) \in Nat \ {0}  BY <1>1, RoundSize DEF SInv, Begins, writeSize
<1>5. WriteAvailable(start, end, isEmpty) \in 0 .. SizeMax
  BY SidesTypes, AvailableType
<1>6. writeSize(p) <= WriteAvailable(start, end, isEmpty) /\ ~(end = start /\ ~isEmpty)
  BY <1>1, <1>3, <1>4, <1>5 DEF noRoom, firstFree
<1>7. WriteAvailable(start, end, isEmpty) = SizeMax - used
  <2>2. start \in Index /\ end \in Index /\ isEmpty \in BOOLEAN  BY SidesTypes
  <2>3. used = ReadAvailable(start, end, isEmpty)  BY DEF used, Used
  <2>4. CASE isEmpty  BY <2>3, <2>4 DEF ReadAvailable, WriteAvailable
  <2>5. CASE ~isEmpty /\ start < end
    BY <2>2, <2>3, <2>5 DEF ReadAvailable, WriteAvailable, Index
  <2>6. CASE ~isEmpty /\ start > end
    BY <2>2, <2>3, <2>6 DEF ReadAvailable, WriteAvailable, Index
  <2>. QED  BY <1>6, <2>2, <2>4, <2>5, <2>6 DEF Index
<1>8. writeSize(p) \in 1 .. SizeMax - used  BY <1>4, <1>5, <1>6, <1>7
<1>9. /\ data'[p].from = end /\ data'[p].sizeToManipulate = writeSize(p)
      /\ Claims(p)' /\ Writing(p)' /\ ~Reading(p)'
  <2>1. data[p] \in DataType /\ pc'[p] = "copy" /\ call'[p] = call[p]
    BY <1>1, SidesTypes DEF WriteReserve, StartCopy, Goto
  <2>2. data'[p].from = end /\ data'[p].sizeToManipulate = writeSize(p)
    BY <1>3, <2>1, SidesTypes DEF WriteReserve, StartCopy, firstFree, DataType
  <2>3. call[p] # NoCall  BY <1>1 DEF SInv, IInv, CallOpen
  <2>. QED  BY <1>1, <2>1, <2>2, <2>3 DEF Claims, Claiming, Writing, Reading
<1>10. used' = used  BY <1>1 DEF used
<1>11. WriteClaim(p)'
  BY <1>1, <1>3, <1>8, <1>9, <1>10 DEF WriteClaim, localTmp
<1>12. ASSUME NEW q \in Proc, Claims(q)', q # p
       PROVE  /\ Claims(q) /\ ~Writing(q)' /\ Reading(q)' = Reading(q)
              /\ localTmp(q)' = localTmp(q) /\ data'[q] = data[q]
  BY <1>0, <1>2, <1>12, OthersKept DEF Kept
<1>13. ASSUME NEW q \in Proc, Claims(q), Reading(q)
       PROVE  Claims(q)' /\ Reading(q)'
  <2>1. q # p  BY <1>1, <1>13 DEF Reading
  <2>. QED  BY <1>0, <1>13, <2>1, OthersKept
<1>14. \A q \in Proc : Claims(q)' /\ Reading(q)' => ReadClaim(q)'
  BY <1>1, <1>9, <1>10, <1>12 DEF SInv, Indices, ReadClaim
<1>15. \A q \in Proc : Claims(q)' /\ Writing(q)' => WriteClaim(q)'
  BY <1>11, <1>12
<1>16. (\A q \in Proc : ~(Claims(q)' /\ Reading(q)')) => tmpStart' = start'
  BY <1>1, <1>13 DEF SInv, Indices
<1>17. isEmpty' => start' = end'
  BY <1>1 DEF SInv, Indices
<1>18. Indices'  BY <1>9, <1>14, <1>15, <1>16, <1>17 DEF Indices
<1>. QED  BY <1>3, <1>6, <1>8, <1>18

\* A reader claims what there is.
LEMMA ReadReserveIndices ==
  ASSUME BlockingOneRoundWrites, SInv, NEW p \in Proc, ReadReserve(p)
  PROVE  /\ Indices'
         /\ tmpStart = start /\ readSize(p) \in 1 .. used /\ readSize(p) <= rest(p)
<1>0. Acts(p)  BY DEF Acts, Step
<1>1. /\ pc[p] = "reserve" /\ call[p].op = "read" /\ ~isEOF /\ ~isEmpty
      /\ UNCHANGED <<start, end, isEmpty, tmpEnd, call>>
      /\ tmpStart' = (tmpStart + readSize(p)) % SizeMax
  BY DEF ReadReserve, Reserving
<1>2. \A q \in Proc : ~(Claims(q) /\ Reading(q))
  BY <1>1 DEF SInv, Excluded, Holds, Holding, Claims, Claiming, Reading, sideOf
<1>3. tmpStart = start  BY <1>2 DEF SInv, Indices
<1>4. rest(p) \in Nat \ {0} /\ readWanted(p) \in Nat \ {0} /\ readWanted(p) <= rest(p)
  BY <1>1, RoundSize DEF SInv, Begins, readWanted, SizeOfRound
<1>5. readAvailable = used /\ used \in 1 .. SizeMax
  BY <1>1, <1>3, SidesTypes, AvailableType DEF readAvailable, used, Used
<1>6. readSize(p) \in 1 .. used /\ readSize(p) <= rest(p)
  BY <1>4, <1>5 DEF readSize
<1>7. /\ data'[p].from = start /\ data'[p].sizeToManipulate = readSize(p)
      /\ Claims(p)' /\ Reading(p)' /\ ~Writing(p)'
  <2>1. data[p] \in DataType /\ pc'[p] = "copy" /\ call'[p] = call[p]
    BY <1>1, SidesTypes DEF ReadReserve, StartCopy, Goto
  <2>2. data'[p].from = start /\ data'[p].sizeToManipulate = readSize(p)
    BY <1>3, <2>1, SidesTypes DEF ReadReserve, StartCopy, DataType
  <2>3. call[p] # NoCall  BY <1>1 DEF SInv, IInv, CallOpen
  <2>. QED  BY <1>1, <2>1, <2>2, <2>3 DEF Claims, Claiming, Writing, Reading
<1>8. used' = used  BY <1>1 DEF used
<1>9. ReadClaim(p)'
  BY <1>1, <1>3, <1>6, <1>7, <1>8 DEF ReadClaim, localTmp
<1>10. ASSUME NEW q \in Proc, Claims(q)', q # p
       PROVE  /\ Claims(q) /\ ~Reading(q)' /\ Writing(q)' = Writing(q)
              /\ localTmp(q)' = localTmp(q) /\ data'[q] = data[q]
  BY <1>0, <1>2, <1>10, OthersKept DEF Kept
<1>11. ASSUME NEW q \in Proc, Claims(q), Writing(q)
       PROVE  Claims(q)' /\ Writing(q)'
  <2>1. q # p  BY <1>1, <1>11 DEF Writing
  <2>. QED  BY <1>0, <1>11, <2>1, OthersKept
<1>12. \A q \in Proc : Claims(q)' /\ Writing(q)' => WriteClaim(q)'
  BY <1>1, <1>7, <1>8, <1>10 DEF SInv, Indices, WriteClaim
<1>13. \A q \in Proc : Claims(q)' /\ Reading(q)' => ReadClaim(q)'
  BY <1>9, <1>10
<1>14. (\A q \in Proc : ~(Claims(q)' /\ Writing(q)')) => tmpEnd' = end'
  BY <1>1, <1>11 DEF SInv, Indices
<1>15. isEmpty' => start' = end'
  BY <1>1 DEF SInv, Indices
<1>16. Indices'  BY <1>7, <1>12, <1>13, <1>14, <1>15 DEF Indices
<1>. QED  BY <1>3, <1>6, <1>16

\* Validation moves start over the claim of the only reader that has one.
LEMMA ReadValidateIndices ==
  ASSUME BlockingOneRoundWrites, SInv, NEW p \in Proc, ReadValidate(p)
  PROVE  Indices'
<1> DEFINE size == data[p].sizeToManipulate
<1>0. Acts(p)  BY DEF Acts, Step
<1>1. /\ pc[p] = "validate" /\ call[p].op = "read"
      /\ UNCHANGED <<end, tmpStart, tmpEnd, call>>
      /\ start' = localTmp(p) /\ isEmpty' = (localTmp(p) = end \/ isEmpty)
  BY DEF ReadValidate, Validating, EmptyAfterRead
<1>2. Claims(p) /\ Reading(p) /\ sideOf(p) = "read" /\ ~Claims(p)'
  <2>1. Claims(p)  BY <1>1 DEF Claims, Claiming
  <2>2. pc'[p] = "broadcast"  BY SidesTypes DEF ReadValidate, BroadcastTo
  <2>. QED  BY <1>1, <2>1, <2>2, ClaimsAreRounds DEF Claims, Claiming
<1>3. /\ data[p].from = start /\ tmpStart = localTmp(p) /\ size \in 1 .. used
      /\ isEmpty => start = end
  BY <1>2 DEF SInv, Indices, ReadClaim
<1>4. /\ start \in Index /\ end \in Index /\ isEmpty \in BOOLEAN /\ used \in 0 .. SizeMax
  BY SidesTypes
<1>5. ~isEmpty  BY <1>3, <1>4 DEF used, Used, ReadAvailable
<1>6. localTmp(p) = Wrap(start + size) /\ localTmp(p) \in Index
  BY <1>3, <1>4, RoundWraps DEF localTmp
<1>7. used' \in 0 .. used
  <2>1. used = ReadAvailable(start, end, isEmpty) /\ size <= ReadAvailable(start, end, isEmpty)
    BY <1>3, <1>4 DEF used, Used
  <2>2. isEmpty' \in BOOLEAN /\ (isEmpty' <=> start' = end)  BY <1>1, <1>5
  <2>3. Used(start', end, isEmpty') = Used(start, end, isEmpty) - size
    <3>1. size \in Nat \ {0}  BY <1>3, <1>4
    <3>2. \A next \in Index, empty \in BOOLEAN :
            next = Wrap(start + size) /\ (empty <=> next = end)
              => Used(next, end, empty) = Used(start, end, isEmpty) - size
      BY <1>3, <1>4, <1>5, <2>1, <3>1, RoundsKeepCount
    <3>3. start' \in Index /\ start' = Wrap(start + size)  BY <1>1, <1>6
    <3>. QED  BY <2>2, <3>2, <3>3
  <2>4. used' = used - size  BY <1>1, <2>3 DEF used
  <2>. QED  BY <1>3, <1>4, <2>4
<1>8. ASSUME NEW q \in Proc, Claims(q)'
      PROVE  /\ Claims(q) /\ q # p /\ ~Reading(q)' /\ Writing(q)' = Writing(q)
             /\ localTmp(q)' = localTmp(q) /\ data'[q] = data[q]
  <2>1. q # p  BY <1>2, <1>8
  <2>2. Claims(q) /\ Kept(q) /\ Reading(q)' = Reading(q)
        /\ Writing(q)' = Writing(q) /\ localTmp(q)' = localTmp(q)
    BY <1>0, <1>8, <2>1, OthersKept
  <2>3. ~Reading(q)
    BY <1>2, <2>1, <2>2, ClaimsAreRounds DEF SInv, Excluded
  <2>. QED  BY <2>1, <2>2, <2>3 DEF Kept
<1>9. ASSUME NEW q \in Proc, Claims(q), Writing(q)
      PROVE  Claims(q)' /\ Writing(q)'
  <2>1. q # p  BY <1>1, <1>9 DEF Writing
  <2>. QED  BY <1>0, <1>9, <2>1, OthersKept
<1>10. ASSUME NEW q \in Proc, Claims(q)', Writing(q)'
       PROVE  WriteClaim(q)'
  <2>1. WriteClaim(q)  BY <1>8, <1>10 DEF SInv, Indices
  <2>2. data[q].sizeToManipulate \in 1 .. SizeMax - used'
    BY <1>4, <1>7, <2>1 DEF WriteClaim
  <2>. QED  BY <1>1, <1>8, <1>10, <2>1, <2>2 DEF WriteClaim
<1>11. (\A q \in Proc : ~(Claims(q)' /\ Writing(q)')) => tmpEnd' = end'
  BY <1>1, <1>9 DEF SInv, Indices
<1>12. tmpStart' = start' /\ (isEmpty' => start' = end')
  BY <1>1, <1>3, <1>5
<1>. QED  BY <1>8, <1>10, <1>11, <1>12 DEF Indices

\* The same for end.
LEMMA WriteValidateIndices ==
  ASSUME BlockingOneRoundWrites, SInv, NEW p \in Proc, WriteValidate(p)
  PROVE  Indices'
<1> DEFINE size == data[p].sizeToManipulate
<1>0. Acts(p)  BY DEF Acts, Step
<1>1. /\ pc[p] = "validate" /\ call[p].op = "write"
      /\ UNCHANGED <<start, tmpStart, tmpEnd, call>>
      /\ end' = localTmp(p) /\ isEmpty' = FALSE
  BY DEF WriteValidate, Validating
<1>2. Claims(p) /\ Writing(p) /\ sideOf(p) = "write" /\ ~Claims(p)'
  <2>1. Claims(p)  BY <1>1 DEF Claims, Claiming
  <2>2. pc'[p] = "broadcast"  BY SidesTypes DEF WriteValidate, BroadcastTo
  <2>3. sideOf(p) = "write"  BY <1>1 DEF sideOf
  <2>. QED  BY <1>1, <2>1, <2>2, <2>3, ClaimsAreRounds DEF Claims, Claiming
<1>3. /\ data[p].from = end /\ tmpEnd = localTmp(p) /\ size \in 1 .. SizeMax - used
      /\ isEmpty => start = end
  BY <1>2 DEF SInv, Indices, WriteClaim
<1>4. /\ start \in Index /\ end \in Index /\ isEmpty \in BOOLEAN /\ used \in 0 .. SizeMax
  BY SidesTypes
<1>5. localTmp(p) = Wrap(end + size) /\ localTmp(p) \in Index
  BY <1>3, <1>4, RoundWraps DEF localTmp
<1>6. used' \in used .. SizeMax
  <2>1. size <= WriteAvailable(start, end, isEmpty)
    <3>1. used = ReadAvailable(start, end, isEmpty)  BY DEF used, Used
    <3>. QED  BY <1>3, <1>4, <3>1 DEF ReadAvailable, WriteAvailable, Index
  <2>2. Used(start, end', isEmpty') = Used(start, end, isEmpty) + size
    <3>1. size \in Nat \ {0}  BY <1>3, <1>4
    <3>2. \A next \in Index, empty \in BOOLEAN :
            next = Wrap(end + size) /\ ~empty
              => Used(start, next, empty) = Used(start, end, isEmpty) + size
      BY <1>3, <1>4, <2>1, <3>1, RoundsKeepCount
    <3>3. end' \in Index /\ end' = Wrap(end + size) /\ isEmpty' = FALSE  BY <1>1, <1>5
    <3>. QED  BY <3>2, <3>3
  <2>3. used' = used + size  BY <1>1, <2>2 DEF used
  <2>. QED  BY <1>3, <1>4, <2>3
<1>7. ASSUME NEW q \in Proc, Claims(q)'
      PROVE  /\ Claims(q) /\ q # p /\ ~Writing(q)' /\ Reading(q)' = Reading(q)
             /\ localTmp(q)' = localTmp(q) /\ data'[q] = data[q]
  <2>1. q # p  BY <1>2, <1>7
  <2>2. Claims(q) /\ Kept(q) /\ Reading(q)' = Reading(q)
        /\ Writing(q)' = Writing(q) /\ localTmp(q)' = localTmp(q)
    BY <1>0, <1>7, <2>1, OthersKept
  <2>3. ~Writing(q)
    <3>1. sideOf(q) # "write"  BY <1>2, <2>1, <2>2 DEF SInv, Excluded
    <3>. QED  BY <2>2, <3>1, ClaimsAreRounds DEF sideOf
  <2>. QED  BY <2>1, <2>2, <2>3 DEF Kept
<1>8. ASSUME NEW q \in Proc, Claims(q), Reading(q)
      PROVE  Claims(q)' /\ Reading(q)'
  <2>1. q # p  BY <1>1, <1>8 DEF Reading
  <2>. QED  BY <1>0, <1>8, <2>1, OthersKept
<1>9. ASSUME NEW q \in Proc, Claims(q)', Reading(q)'
      PROVE  ReadClaim(q)'
  <2>1. ReadClaim(q)  BY <1>7, <1>9 DEF SInv, Indices
  <2>2. data[q].sizeToManipulate \in 1 .. used'
    BY <1>4, <1>6, <2>1 DEF ReadClaim
  <2>. QED  BY <1>1, <1>7, <1>9, <2>1, <2>2 DEF ReadClaim
<1>10. (\A q \in Proc : ~(Claims(q)' /\ Reading(q)')) => tmpStart' = start'
  BY <1>1, <1>8 DEF SInv, Indices
<1>11. tmpEnd' = end' /\ ~isEmpty'
  BY <1>1, <1>3
<1>. QED  BY <1>7, <1>9, <1>10, <1>11 DEF Indices

LEMMA IndicesKept ==
  ASSUME BlockingOneRoundWrites, SInv, NEW p \in Proc, Acts(p)
  PROVE  Indices'
<1>1. CASE ReadReserve(p) \/ WriteReserve(p) \/ ReadValidate(p) \/ WriteValidate(p)
  BY <1>1, ReadReserveIndices, WriteReserveIndices, ReadValidateIndices, WriteValidateIndices
<1>2. CASE CopyByte(p)
  <2>1. data[p] \in DataType  BY SidesTypes
  <2>2. /\ data'[p].from = data[p].from
        /\ data'[p].sizeToManipulate = data[p].sizeToManipulate
    BY <1>2, <2>1, SidesTypes DEF CopyByte, DataType
  <2>3. Claims(p) /\ Claims(p)'
    BY <1>2, SidesTypes DEF CopyByte, Goto, Claims, Claiming
  <2>. QED  BY <1>2, <2>2, <2>3, QuietIndices DEF CopyByte, Acts, Step, shared
<1>3. CASE \/ Invoke(p) \/ LockSide(p) \/ Acquire(p) \/ SpuriousWakeup(p)
           \/ TryLockBusy(p) \/ RetryBusy(p) \/ Finish(p)
           \/ WriteEof(p) \/ AtEof(p) \/ WriteNoRoom(p) \/ ReadNothing(p)
           \/ WriteWait(p) \/ ReadWait(p) \/ CopyCrash(p) \/ WakeOtherSide(p)
  <2>1. UNCHANGED <<start, end, isEmpty, tmpStart, tmpEnd>>
    BY <1>3
    DEF Invoke, Refuse, Enter, LockSide, Acquire, SpuriousWakeup, TryLockBusy, RetryBusy,
        Finish, WriteEof, AtEof, WriteNoRoom, ReadNothing, GiveUp, WriteWait, ReadWait,
        CopyCrash, WakeOtherSide, shared
  <2>2. /\ Claims(p)' = Claims(p)
        /\ Claims(p) => call'[p] = call[p] /\ data'[p] = data[p]
    <3>1. pc[p] \notin {"waitTurnRead", "waitTurnWrite"}  BY DEF SInv, Excluded
    <3>2. CASE \/ Invoke(p) \/ LockSide(p) \/ Acquire(p) \/ SpuriousWakeup(p)
               \/ TryLockBusy(p) \/ RetryBusy(p) \/ Finish(p)
      BY <3>1, <3>2, SidesTypes
      DEF Invoke, Refuse, Enter, LockSide, Acquire, SpuriousWakeup, TryLockBusy, RetryBusy,
          Retrying, Finish, Return, Goto, Claims, Claiming
    <3>3. CASE \/ WriteEof(p) \/ AtEof(p) \/ WriteNoRoom(p) \/ ReadNothing(p)
               \/ WriteWait(p) \/ ReadWait(p) \/ CopyCrash(p) \/ WakeOtherSide(p)
      BY <3>3, SidesTypes
      DEF WriteEof, AtEof, WriteNoRoom, ReadNothing, GiveUp, WriteWait, ReadWait, Reserving,
          CopyCrash, WakeOtherSide, BroadcastTo, Return, Goto, Claims, Claiming
    <3>. QED  BY <1>3, <3>2, <3>3
  <2>. QED  BY <2>1, <2>2, QuietIndices
<1>. QED
  <2>1. SingleReaderAndWriter  BY DEF BlockingOneRoundWrites
  <2>. QED  BY <1>1, <1>2, <1>3, <2>1 DEF Acts, Step, WaitTurn

-----------------------------------------------------------------------------
(* A write does everything in one round.                                   *)

\* An exact copy has bytes left for each of its cells.
LEMMA ExactCopyGoesOn ==
  ASSUME SInv, NEW p \in Proc, pc[p] = "copy", ExactCopy(p)
  PROVE  /\ toMove(p) = data[p].sizeToManipulate
         /\ data[p].copied < data[p].sizeToManipulate
         /\ rest(p) > 0 /\ call[p].count \in Nat
<1>1. toMove(p) = data[p].sizeToManipulate
  BY DEF ExactCopy, ExactRound, toMove
<1>2. data[p].copied < toMove(p)  BY DEF SInv, IInv, CallOpen
<1>3. call[p] \in CallRecord  BY ClaimsAreRounds DEF Claims, Claiming
<1>4. call[p].count \in Nat  BY <1>3 DEF CallRecord
<1>. QED  BY <1>1, <1>2, <1>4, SidesTypes DEF ExactCopy, rest

LEMMA CopyStep ==
  ASSUME SInv, NEW p \in Proc, CopyByte(p), ExactCopy(p)
  PROVE  /\ call'[p] = call[p]
         /\ data'[p].sizeToManipulate = data[p].sizeToManipulate
         /\ data'[p].secondLimitLoop = data[p].secondLimitLoop
         /\ data'[p].copied = data[p].copied + 1
         /\ sizeDone(p)' = sizeDone(p) + 1
         /\ pc'[p] = IF data[p].copied + 1 = data[p].sizeToManipulate
                     THEN "lockAgain" ELSE "copy"
         /\ ExactCopy(p)'
<1>1. pc[p] = "copy" /\ call' = call  BY DEF CopyByte
<1>2. data[p] \in DataType  BY SidesTypes
<1>3. /\ data'[p].from = data[p].from
      /\ data'[p].passByMiddle = data[p].passByMiddle
      /\ data'[p].sizeToManipulate = data[p].sizeToManipulate
      /\ data'[p].secondLimitLoop = data[p].secondLimitLoop
      /\ data'[p].copied = data[p].copied + 1
      /\ data'[p].sizeReallyManipulate = data[p].sizeReallyManipulate + 1
  BY <1>2, SidesTypes DEF CopyByte, DataType
<1>4. sizeDone(p)' = sizeDone(p) + 1  BY <1>3 DEF sizeDone
<1>5. pc'[p] = IF data[p].copied + 1 = data[p].sizeToManipulate
               THEN "lockAgain" ELSE "copy"
  BY <1>1, SidesTypes, ExactCopyGoesOn DEF CopyByte, Goto
<1>6. call[p].count \in Nat  BY <1>1, ExactCopyGoesOn
<1>7. ExactCopy(p)'
  BY <1>1, <1>3, <1>4, <1>6, SidesTypes DEF ExactCopy
<1>. QED  BY <1>1, <1>3, <1>4, <1>5, <1>7

LEMMA OthersWriteOnce ==
  ASSUME BlockingOneRoundWrites, SInv, NEW p \in Proc, Acts(p),
         NEW q \in Proc \ {p}, Writing(q)'
  PROVE  WritesOnce(q)'
<1>1. Kept(q) /\ Writing(q) /\ Holds(q)' = Holds(q)  BY OthersKept
<1>2. WritesOnce(q)  BY <1>1 DEF SInv
<1>3. sizeDone(q)' = sizeDone(q) /\ writeSize(q)' = writeSize(q)
  BY <1>1 DEF Kept, sizeDone, writeSize, rest
<1>4. ExactCopy(q)' = ExactCopy(q)  BY <1>1, <1>3 DEF Kept, ExactCopy
<1>5. ASSUME Holds(q) PROVE tmpEnd' = tmpEnd \/ pc[q] \notin Begins
  <2>1. CASE WriteReserve(p)
    <3>1. ~isEOF /\ Holds(p) /\ sideOf(p) = "write" /\ sideOf(q) = "write"
      BY <1>1, <2>1 DEF WriteReserve, Reserving, Holds, Holding, sideOf, Writing
    <3>. QED  BY <1>5, <3>1 DEF SInv, Excluded
  <2>2. CASE ~WriteReserve(p)
    BY <2>2
    DEF Acts, Step, Invoke, Refuse, Enter, LockSide, Acquire, SpuriousWakeup, TryLockBusy,
        RetryBusy, Finish, WriteEof, AtEof, WriteNoRoom, ReadNothing, GiveUp, WriteWait,
        ReadWait, ReadReserve, CopyByte, CopyCrash, WaitTurn, ReadValidate, WriteValidate,
        WakeOtherSide, shared
  <2>. QED  BY <2>1, <2>2
<1>6. pc'[q] \in Begins => pc[q] \in Begins  BY <1>1 DEF Kept, Begins
<1>7. pc'[q] \in Begins =>
        /\ sizeDone(q)' = 0 /\ data'[q].secondLimitLoop = 0
        /\ data'[q].passByMiddle => Holds(q)' /\ tmpEnd' + writeSize(q)' >= SizeMax
  BY <1>1, <1>2, <1>3, <1>5, <1>6 DEF Kept, WritesOnce
<1>. QED  BY <1>1, <1>2, <1>3, <1>4, <1>7 DEF Kept, WritesOnce

\* The only round of a write is exact, and moves all of it.
LEMMA WriteReserveOnce ==
  ASSUME BlockingOneRoundWrites, SInv, NEW p \in Proc, WriteReserve(p)
  PROVE  WritesOnce(p)'
<1> DEFINE size == writeSize(p)
<1> DEFINE second == SecondLimit(tmpEnd, size, writePass(p), data[p].secondLimitLoop)
<1>1. /\ pc[p] = "reserve" /\ call[p].op = "write" /\ call' = call
      /\ StartCopy(p, tmpEnd, size, writePass(p))
  BY DEF WriteReserve, Reserving, firstFree
<1>2. call[p] \in Calls[p] /\ Writing(p)
  BY <1>1 DEF SInv, IInv, CallOpen, Writing
<1>3. /\ sizeDone(p) = 0 /\ data[p].secondLimitLoop = 0
      /\ data[p].passByMiddle => tmpEnd + size >= SizeMax
  BY <1>1, <1>2 DEF SInv, WritesOnce, Begins
<1>4. size = call[p].count /\ size \in Nat
  <2>1. call[p].count <= SizeAtom  BY <1>1, <1>2 DEF BlockingOneRoundWrites
  <2>2. call[p].count \in Nat  BY <1>2 DEF CallRecord
  <2>3. rest(p) = call[p].count  BY <1>3, <2>2 DEF rest
  <2>. QED  BY <2>1, <2>2, <2>3 DEF writeSize, SizeOfRound
<1>5. /\ tmpEnd = end /\ size \in 1 .. SizeMax - used
      /\ size <= WriteAvailable(start, end, isEmpty)
  BY WriteReserveIndices
<1>6. ExactRound(tmpEnd, size, writePass(p), second)
  <2>1. /\ start \in Index /\ end \in Index /\ isEmpty \in BOOLEAN
        /\ data[p].passByMiddle \in BOOLEAN /\ 0 \in Index
    BY SidesTypes DEF Index
  <2>2. size \in Nat \ {0} /\ (isEmpty => start = end)
    BY <1>4, <1>5 DEF SInv, Indices
  <2>3. writePass(p) = WritePasses(start, end, isEmpty, size, data[p].passByMiddle)
    BY <1>5 DEF writePass, firstFree
  <2>4. LET pass == WritePasses(start, end, isEmpty, size, data[p].passByMiddle)
        IN  ExactRound(end, size, pass, SecondLimit(end, size, pass, 0))
    BY <1>3, <1>5, <2>1, <2>2, WriteExactWhenFresh
  <2>. QED  BY <1>3, <1>5, <2>3, <2>4
<1>7. /\ data'[p].from = tmpEnd /\ data'[p].sizeToManipulate = size
      /\ data'[p].passByMiddle = writePass(p) /\ data'[p].secondLimitLoop = second
      /\ data'[p].copied = 0 /\ sizeDone(p)' = 0 /\ pc'[p] = "copy"
  <2>1. data[p] \in DataType /\ data[p].copied = 0
    BY <1>1, SidesTypes DEF SInv, IInv, CallOpen, Begins
  <2>. QED  BY <1>1, <1>3, <2>1, SidesTypes DEF StartCopy, Goto, DataType, sizeDone
<1> HIDE DEF size, second
<1>8. ExactCopy(p)'
  BY <1>1, <1>4, <1>6, <1>7 DEF ExactCopy
<1>. QED  BY <1>1, <1>4, <1>7, <1>8 DEF WritesOnce, Begins

LEMMA OwnWriteOnce ==
  ASSUME BlockingOneRoundWrites, SInv, NEW p \in Proc, Acts(p), Writing(p)'
  PROVE  WritesOnce(p)'
<1>1. /\ SingleReaderAndWriter /\ data[p] \in DataType
      /\ pc[p] \notin {"waitTurnRead", "waitTurnWrite"}
  BY SidesTypes DEF BlockingOneRoundWrites, SInv, Excluded
<1>2. Writing(p) => WritesOnce(p)  BY DEF SInv
<1>3. CASE Invoke(p)
  <2>1. ASSUME NEW c \in Calls[p], Refuse(p, c) PROVE WritesOnce(p)'
    BY <1>2, <2>1 DEF Refuse, shared, Writing, WritesOnce, Begins
  <2>2. ASSUME NEW c \in Calls[p], Enter(p, c) PROVE WritesOnce(p)'
    <3>1. pc'[p] = "lockSide"  BY <1>1, <2>2, SidesTypes DEF Enter, Goto
    <3>2. \E b : data'[p] = NewData(b)  BY <2>2, SidesTypes DEF Enter
    <3>3. sizeDone(p)' = 0 /\ data'[p].secondLimitLoop = 0 /\ ~data'[p].passByMiddle
      BY <3>2 DEF NewData, sizeDone
    <3>. QED  BY <3>1, <3>3 DEF WritesOnce, Begins
  <2>. QED  BY <1>3, <2>1, <2>2 DEF Invoke
<1>4. CASE LockSide(p) \/ Acquire(p) \/ SpuriousWakeup(p)
  <2>1. /\ UNCHANGED <<call, data, tmpEnd>> /\ Writing(p)
        /\ sizeDone(p)' = sizeDone(p) /\ writeSize(p)' = writeSize(p)
    BY <1>4 DEF LockSide, Acquire, SpuriousWakeup, shared, Writing, sizeDone, writeSize, rest
  <2>2. ~Retrying(p)
    <3>1. pc[p] = "unlocked" => call[p] \in CallRecord
      BY DEF SInv, IInv, CallOpen
    <3>. QED  BY <1>2, <2>1, <3>1, SidesTypes DEF Retrying, WritesOnce, rest, CallRecord
  <2>3. \/ pc[p] \in Begins /\ pc'[p] \in Begins /\ Holds(p)'
        \/ pc[p] = "lockAgain" /\ pc'[p] = "validate"
    BY <1>1, <1>4, <2>2, SidesTypes
    DEF LockSide, Acquire, SpuriousWakeup, Goto, Begins, Holds, Holding
  <2>. QED  BY <1>2, <2>1, <2>3 DEF WritesOnce, Begins
<1>5. CASE \/ TryLockBusy(p) \/ RetryBusy(p) \/ Finish(p)
           \/ WriteEof(p) \/ AtEof(p) \/ WriteNoRoom(p) \/ ReadNothing(p)
  <2>1. call'[p] = NoCall
    BY <1>5, SidesTypes
    DEF TryLockBusy, RetryBusy, Finish, WriteEof, AtEof, WriteNoRoom, ReadNothing, GiveUp,
        Return
  <2>. QED  BY <2>1 DEF Writing
<1>6. CASE ReadWait(p) \/ ReadReserve(p) \/ ReadValidate(p)
  BY <1>6 DEF ReadWait, ReadReserve, ReadValidate, Reserving, Validating, Writing
<1>7. CASE WriteWait(p)
  <2>1. /\ pc[p] = "reserve" /\ pc'[p] = "waitWrite" /\ UNCHANGED <<call, tmpEnd>>
        /\ Writing(p)
    BY <1>7, SidesTypes DEF WriteWait, Reserving, Goto, shared, Writing
  <2>2. /\ data'[p].passByMiddle = writePass(p)
        /\ data'[p].secondLimitLoop = data[p].secondLimitLoop
        /\ data'[p].sizeReallyManipulate = data[p].sizeReallyManipulate
    BY <1>1, <1>7, SidesTypes DEF WriteWait, DataType
  <2>3. sizeDone(p)' = sizeDone(p) /\ writeSize(p)' = writeSize(p)
    BY <2>1, <2>2 DEF sizeDone, writeSize, rest
  <2>4. /\ sizeDone(p) = 0 /\ data[p].secondLimitLoop = 0
        /\ data[p].passByMiddle => tmpEnd + writeSize(p) >= SizeMax
    BY <1>2, <2>1 DEF WritesOnce, Begins
  <2>5. writePass(p) => tmpEnd + writeSize(p) >= SizeMax
    BY <2>4 DEF writePass, WritePasses, firstFree
  <2>. QED  BY <2>1, <2>2, <2>3, <2>4, <2>5 DEF WritesOnce, Begins, Holds, Holding
<1>8. CASE WriteReserve(p)  BY <1>8, WriteReserveOnce
<1>9. CASE CopyByte(p) \/ CopyCrash(p)
  <2>1. pc[p] = "copy" /\ Writing(p)
    BY <1>9 DEF CopyByte, CopyCrash, Writing
  <2>2. /\ ExactCopy(p) /\ call[p].count \in Nat /\ rest(p) > 0
        /\ sizeDone(p) + (data[p].sizeToManipulate - data[p].copied) = call[p].count
    BY <1>2, <2>1, ExactCopyGoesOn DEF WritesOnce
  <2>3. CopyByte(p)
    <3>1. rest(p) \in Int  BY <2>2, SidesTypes DEF rest
    <3>. QED  BY <1>9, <2>2, <3>1 DEF CopyCrash
  <2>4. /\ call'[p].count = call[p].count /\ ExactCopy(p)'
        /\ data'[p].sizeToManipulate = data[p].sizeToManipulate
        /\ data'[p].copied = data[p].copied + 1 /\ sizeDone(p)' = sizeDone(p) + 1
        /\ pc'[p] = IF data[p].copied + 1 = data[p].sizeToManipulate
                    THEN "lockAgain" ELSE "copy"
    BY <2>2, <2>3, CopyStep
  <2>5. sizeDone(p)' + (data'[p].sizeToManipulate - data'[p].copied) = call'[p].count
    BY <2>2, <2>4, SidesTypes
  <2>6. pc'[p] = "lockAgain" => sizeDone(p)' = call'[p].count
    BY <2>4, <2>5, SidesTypes
  <2>. QED  BY <2>4, <2>5, <2>6 DEF WritesOnce, Begins
<1>10. CASE WriteValidate(p)
  <2>1. pc[p] = "validate" /\ pc'[p] = "broadcast" /\ call' = call /\ Writing(p)
    BY <1>10, SidesTypes DEF WriteValidate, Validating, BroadcastTo, Writing
  <2>2. sizeDone(p)' = sizeDone(p)
    BY <1>1, <1>10, SidesTypes DEF WriteValidate, DataType, sizeDone
  <2>. QED  BY <1>2, <2>1, <2>2 DEF WritesOnce, Begins
<1>11. CASE WakeOtherSide(p)
  <2>1. pc[p] = "broadcast" /\ pc'[p] = "unlocked" /\ call' = call /\ Writing(p)
    BY <1>11, SidesTypes DEF WakeOtherSide, BroadcastTo, Writing
  <2>2. sizeDone(p)' = sizeDone(p)
    BY <1>1, <1>11, SidesTypes DEF WakeOtherSide, DataType, sizeDone
  <2>. QED  BY <1>2, <2>1, <2>2 DEF WritesOnce, Begins
<1>. QED
  BY <1>1, <1>3, <1>4, <1>5, <1>6, <1>7, <1>8, <1>9, <1>10, <1>11 DEF Acts, Step, WaitTurn

-----------------------------------------------------------------------------
(* What the exclusion is for.                                              *)

LEMMA SInvInit == Init => SInv
<1> SUFFICES ASSUME Init PROVE SInv  OBVIOUS
<1>1. Excluded  BY DEF Init, Excluded, Holds, Holding, Claims, Claiming
<1>2. Indices  BY DEF Init, Indices, Claims, Claiming
<1>3. \A p \in Proc : ~Writing(p)  BY DEF Init, Writing
<1>. QED  BY <1>1, <1>2, <1>3, InitInv DEF SInv

LEMMA SInvNext ==
  ASSUME BlockingOneRoundWrites, SInv, [Next]_vars
  PROVE  SInv'
<1>1. IInv'  BY NextInv DEF SInv
<1>2. CASE UNCHANGED vars
  <2>1. Excluded'
    BY <1>2 DEF vars, shared, SInv, Excluded, Holds, Claims, sideOf
  <2>2. Indices'
    BY <1>2 DEF vars, shared, SInv, Indices, Claims, Reading, Writing, ReadClaim, WriteClaim,
                localTmp, used
  <2>3. \A p \in Proc : Writing(p)' => WritesOnce(p)'
    BY <1>2 DEF vars, shared, SInv, Writing, WritesOnce, Holds, ExactCopy, sizeDone,
                writeSize, rest
  <2>. QED  BY <1>1, <2>1, <2>2, <2>3 DEF SInv
<1>3. ASSUME NEW p \in Proc, Acts(p) PROVE SInv'
  <2>1. Excluded' /\ Indices'  BY <1>3, ExcludedKept, IndicesKept
  <2>2. \A q \in Proc : Writing(q)' => WritesOnce(q)'
    BY <1>3, OthersWriteOnce, OwnWriteOnce
  <2>. QED  BY <1>1, <2>1, <2>2 DEF SInv
<1>. QED  BY <1>2, <1>3 DEF Next, Acts

LEMMA RoundsClaim ==
  ASSUME SInv, NEW p \in Proc, InRound(p)
  PROVE  Claims(p) /\ (Reading(p) => ReadClaim(p)) /\ (Writing(p) => WriteClaim(p))
<1>1. Claims(p)  BY DEF SInv, Excluded, InRound, Claims, Claiming
<1>. QED  BY <1>1 DEF SInv, Indices

(***************************************************************************)
(* The SPSC build leaves out the wait for its turn before it validates     *)
(* (concurrentconduct.c:948-960, 1143-1156) and does not need it: nobody   *)
(* else of the side reserves or validates while a thread is in its round,  *)
(* not even after conduct_write_eof has unlocked mutexRead for it.         *)
(***************************************************************************)
THEOREM SidesValidateInTurn ==
  ASSUME BlockingOneRoundWrites
  PROVE  Spec => []AloneOnItsSide
<1>1. SInv => AloneOnItsSide
  <2> SUFFICES ASSUME SInv, NEW p \in Proc, InRound(p)
               PROVE  /\ (IF Reading(p) THEN start ELSE end) = data[p].from
                      /\ \A q \in Proc : InRound(q) /\ sideOf(q) = sideOf(p) => q = p
    BY DEF AloneOnItsSide
  <2>1. Claims(p) /\ (Reading(p) => ReadClaim(p)) /\ (~Reading(p) => WriteClaim(p))
    BY RoundsClaim, ClaimsAreRounds
  <2>2. \A q \in Proc : InRound(q) => Claims(q)  BY RoundsClaim
  <2>. QED  BY <2>1, <2>2 DEF ReadClaim, WriteClaim, SInv, Excluded
<1>2. SInv /\ [Next]_vars => SInv'  BY SInvNext
<1>. QED  BY SInvInit, <1>1, <1>2, PTL DEF Spec

\* The cells of two claims, one of what is in the buffer, one of what is free.
LEMMA ClaimsApart ==
  ASSUME NEW s \in Index, NEW e \in Index, NEW m \in BOOLEAN, m => s = e,
         NEW n \in 1 .. Used(s, e, m), NEW k \in 1 .. SizeMax - Used(s, e, m),
         NEW i \in 1 .. n, NEW j \in 1 .. k
  PROVE  (s + i - 1) % SizeMax # (e + j - 1) % SizeMax
<1>1. Used(s, e, m) \in 0 .. SizeMax  BY AvailableType DEF Used
<1>2. /\ (s + (i - 1)) % SizeMax = Wrap(s + (i - 1))
      /\ (e + (j - 1)) % SizeMax = Wrap(e + (j - 1))
  BY <1>1, RoundWraps
<1>3. Wrap(s + (i - 1)) # Wrap(e + (j - 1))
  BY <1>1 DEF Used, ReadAvailable, Wrap, Index
<1>4. s + (i - 1) = s + i - 1 /\ e + (j - 1) = e + j - 1  BY <1>1 DEF Index
<1>. QED  BY <1>2, <1>3, <1>4

(***************************************************************************)
(* So copies outside the mutex never meet in a cell: not two of a side,    *)
(* which take turns, and not a reader and a writer, whose claims lie on    *)
(* the two sides of the validated indices.                                 *)
(***************************************************************************)
THEOREM SidesCopyApart ==
  ASSUME BlockingOneRoundWrites
  PROVE  Spec => []ReservationsDisjoint
<1>1. SInv => ReservationsDisjoint
  <2> SUFFICES ASSUME SInv, NEW p \in Proc, NEW q \in Proc, p # q, InRound(p), InRound(q)
               PROVE  Reserved(p) \cap Reserved(q) = {}
    BY DEF ReservationsDisjoint
  <2>1. ASSUME NEW r \in Proc, NEW w \in Proc, InRound(r), InRound(w), Reading(r), Writing(w)
        PROVE  Reserved(r) \cap Reserved(w) = {}
    <3>1. ReadClaim(r) /\ WriteClaim(w)  BY <2>1, RoundsClaim
    <3>2. isEmpty => start = end  BY DEF SInv, Indices
    <3>3. /\ data[r].from = start /\ data[r].sizeToManipulate \in 1 .. Used(start, end, isEmpty)
          /\ data[w].from = end
          /\ data[w].sizeToManipulate \in 1 .. SizeMax - Used(start, end, isEmpty)
      BY <3>1 DEF ReadClaim, WriteClaim, used
    <3>4. start \in Index /\ end \in Index /\ isEmpty \in BOOLEAN  BY SidesTypes
    <3>5. \A i \in 1 .. data[r].sizeToManipulate, j \in 1 .. data[w].sizeToManipulate :
            (start + i - 1) % SizeMax # (end + j - 1) % SizeMax
      BY <3>2, <3>3, <3>4, ClaimsApart
    <3>. QED  BY <3>3, <3>5 DEF Reserved
  <2>2. sideOf(p) # sideOf(q)  BY RoundsClaim DEF SInv, Excluded
  <2>3. \/ Reading(p) /\ Writing(q)
        \/ Writing(p) /\ Reading(q)
    BY <2>2, RoundsClaim, ClaimsAreRounds DEF sideOf
  <2>. QED  BY <2>1, <2>3
<1>2. SInv /\ [Next]_vars => SInv'  BY SInvNext
<1>. QED  BY SInvInit, <1>1, <1>2, PTL DEF Spec

-----------------------------------------------------------------------------
(* Readers with fresh limits.                                              *)

LEMMA OthersReadFresh ==
  ASSUME ReadsStayFresh, FInv, NEW p \in Proc, Acts(p),
         NEW q \in Proc \ {p}, Reading(q)'
  PROVE  ReadsFresh(q)'
<1>1. SInv  BY DEF FInv
<1>2. Kept(q) /\ Reading(q)  BY <1>1, OthersKept
<1>3. ReadsFresh(q)  BY <1>2 DEF FInv
<1>4. /\ sizeDone(q)' = sizeDone(q) /\ ExactCopy(q)' = ExactCopy(q)
      /\ willBeDone(q)' = willBeDone(q)
  BY <1>2 DEF Kept, sizeDone, ExactCopy, willBeDone
<1>5. tmpStart' = tmpStart \/ SizeAtom = 1 \/ pc[q] = "idle"
  <2>1. CASE ReadReserve(p)
    <3>1. pc[p] = "reserve" /\ call[p].op = "read" /\ call[q].op = "read"
      BY <1>2, <2>1 DEF ReadReserve, Reserving, Reading
    <3>2. call[p] \in Calls[p] /\ (pc[q] # "idle" => call[q] \in Calls[q])
      BY <1>1, <3>1 DEF SInv, IInv, CallOpen
    <3>. QED  BY <3>1, <3>2 DEF ReadsStayFresh
  <2>2. CASE ~ReadReserve(p)
    BY <2>2
    DEF Acts, Step, Invoke, Refuse, Enter, LockSide, Acquire, SpuriousWakeup, TryLockBusy,
        RetryBusy, Finish, WriteEof, AtEof, WriteNoRoom, ReadNothing, GiveUp, WriteWait,
        ReadWait, WriteReserve, CopyByte, CopyCrash, WaitTurn, ReadValidate, WriteValidate,
        WakeOtherSide, shared
  <2>. QED  BY <2>1, <2>2
<1>. QED  BY <1>2, <1>3, <1>4, <1>5 DEF Kept, ReadsFresh, Begins

\* A round of a fresh reader is exact; when it leaves a second limit behind, it
\* has gone past the last cell and the call has moved more than that.
LEMMA ReadReserveFresh ==
  ASSUME BlockingOneRoundWrites, ReadsStayFresh, FInv, NEW p \in Proc, ReadReserve(p)
  PROVE  ReadsFresh(p)'
<1> DEFINE size == readSize(p)
<1> DEFINE old == data[p].secondLimitLoop
<1> DEFINE second == SecondLimit(start, size, readPass(p), old)
<1>1. SInv  BY DEF FInv
<1>2. /\ pc[p] = "reserve" /\ call[p].op = "read" /\ call' = call /\ ~isEmpty
      /\ StartCopy(p, tmpStart, size, readPass(p))
      /\ tmpStart' = (tmpStart + size) % SizeMax
  BY DEF ReadReserve, Reserving
<1>3. call[p] \in Calls[p] /\ Reading(p)
  BY <1>1, <1>2 DEF SInv, IInv, CallOpen, Reading
<1>4. /\ ~data[p].passByMiddle
      /\ old # 0 => SizeAtom # 1 /\ tmpStart < sizeDone(p)
  <2>1. willBeDone(p) = sizeDone(p)  BY <1>1, <1>2, SidesTypes DEF willBeDone
  <2>. QED  BY <1>2, <1>3, <2>1 DEF FInv, ReadsFresh, Begins
<1>5. tmpStart = start /\ size \in 1 .. used /\ size <= rest(p)
  BY <1>1, ReadReserveIndices
<1>6. call[p].count \in Nat /\ sizeDone(p) \in Nat /\ sizeDone(p) + size <= call[p].count
  BY <1>1, <1>3, <1>5, SidesTypes DEF CallRecord, rest
<1>7. /\ start \in Index /\ end \in Index /\ isEmpty \in BOOLEAN
      /\ old \in Index /\ size \in 1 .. SizeMax
  BY <1>1, <1>5, SidesTypes
<1>8. old # 0 => start + size < SizeMax
  <2>1. SizeAtom # 1 => call[p].count <= SizeMax
    BY <1>2, <1>3 DEF ReadsStayFresh
  <2>. QED  BY <1>4, <1>5, <1>6, <1>7, <2>1 DEF Index
<1>9. size <= SizeAtom
  <2>1. readWanted(p) <= SizeAtom /\ readWanted(p) \in Nat \ {0}
    BY <1>1, <1>2, RoundSize DEF SInv, Begins, readWanted, SizeOfRound
  <2>2. readAvailable \in 0 .. SizeMax
    BY <1>1, SidesTypes, AvailableType DEF readAvailable
  <2>. QED  BY <2>1, <2>2 DEF readSize
<1>10. ExactRound(start, size, readPass(p), second)
  <2>1. readAvailable = ReadAvailable(start, end, isEmpty)  BY <1>5 DEF readAvailable
  <2>2. readWanted(p) \in Nat \ {0}
    BY <1>1, <1>2, RoundSize DEF SInv, Begins, readWanted
  <2>3. readPass(p) = LET first == ReadPasses(start, end, isEmpty, readWanted(p), FALSE)
                      IN  IF readWanted(p) > readAvailable
                          THEN ReadPasses(start, end, isEmpty, size, first)
                          ELSE first
    BY <1>4, <1>5, SidesTypes, <1>1 DEF readPass
  <2>4. old # 0 => start + size # SizeMax  BY <1>7, <1>8 DEF Index
  <2>. QED
    BY <1>2, <1>7, <2>1, <2>2, <2>3, <2>4, ReadExactWhenFresh DEF readSize
<1>11. tmpStart' = Wrap(start + size) /\ tmpStart' \in Index
  BY <1>2, <1>5, <1>7, RoundWraps
<1>12. second # 0 => SizeAtom # 1 /\ tmpStart' < sizeDone(p) + size
  <2>1. CASE old # 0
    BY <1>4, <1>5, <1>6, <1>7, <1>8, <1>11, <2>1 DEF Wrap, Index
  <2>2. CASE old = 0
    <3>1. second # 0 => size - (SizeMax - start) > 0  BY <2>2 DEF SecondLimit
    <3>. QED  BY <1>6, <1>7, <1>9, <1>11, <3>1 DEF Wrap, Index
  <2>. QED  BY <2>1, <2>2
<1>13. /\ data'[p].from = start /\ data'[p].sizeToManipulate = size
       /\ data'[p].passByMiddle = readPass(p) /\ data'[p].secondLimitLoop = second
       /\ data'[p].copied = 0 /\ sizeDone(p)' = sizeDone(p) /\ pc'[p] = "copy"
  <2>1. data[p] \in DataType /\ data[p].copied = 0
    BY <1>1, <1>2, SidesTypes DEF SInv, IInv, CallOpen, Begins
  <2>. QED
    BY <1>1, <1>2, <1>5, <2>1, SidesTypes DEF StartCopy, Goto, DataType, sizeDone
<1> HIDE DEF size, second, old
<1>14. ExactCopy(p)'
  BY <1>2, <1>6, <1>7, <1>10, <1>13 DEF ExactCopy
<1>15. willBeDone(p)' = sizeDone(p) + size
  BY <1>6, <1>7, <1>13 DEF willBeDone
<1>. QED  BY <1>12, <1>13, <1>14, <1>15 DEF ReadsFresh, Begins

LEMMA OwnReadFresh ==
  ASSUME BlockingOneRoundWrites, ReadsStayFresh, FInv, NEW p \in Proc, Acts(p), Reading(p)'
  PROVE  ReadsFresh(p)'
<1>0. SInv  BY DEF FInv
<1>1. /\ SingleReaderAndWriter /\ data[p] \in DataType
      /\ pc[p] \notin {"waitTurnRead", "waitTurnWrite"}
  BY <1>0, SidesTypes DEF BlockingOneRoundWrites, SInv, Excluded
<1>2. Reading(p) => ReadsFresh(p)  BY DEF FInv
<1>3. CASE Invoke(p)
  <2>1. ASSUME NEW c \in Calls[p], Refuse(p, c) PROVE ReadsFresh(p)'
    BY <1>2, <2>1 DEF Refuse, shared, Reading, ReadsFresh, Begins
  <2>2. ASSUME NEW c \in Calls[p], Enter(p, c) PROVE ReadsFresh(p)'
    <3>1. pc'[p] = "lockSide"  BY <1>0, <1>1, <2>2, SidesTypes DEF Enter, Goto
    <3>2. \E b : data'[p] = NewData(b)  BY <1>0, <2>2, SidesTypes DEF Enter
    <3>3. data'[p].secondLimitLoop = 0 /\ ~data'[p].passByMiddle
      BY <3>2 DEF NewData
    <3>. QED  BY <3>1, <3>3 DEF ReadsFresh, Begins
  <2>. QED  BY <1>3, <2>1, <2>2 DEF Invoke
<1>4. CASE LockSide(p) \/ Acquire(p) \/ SpuriousWakeup(p) \/ ReadWait(p)
  <2>1. /\ UNCHANGED <<call, data, tmpStart>> /\ Reading(p)
        /\ sizeDone(p)' = sizeDone(p)
    BY <1>4 DEF LockSide, Acquire, SpuriousWakeup, ReadWait, shared, Reading, sizeDone
  <2>2. \/ pc[p] \in Begins \cup {"unlocked"} /\ pc'[p] \in Begins
        \/ pc[p] = "lockAgain" /\ pc'[p] = "validate"
    BY <1>0, <1>1, <1>4, SidesTypes
    DEF LockSide, Acquire, Retrying, SpuriousWakeup, ReadWait, Reserving, Goto, Begins
  <2>3. pc[p] # "idle" /\ pc[p] # "copy" /\ pc'[p] # "copy" /\ willBeDone(p)' = willBeDone(p)
    BY <2>1, <2>2 DEF Begins, willBeDone
  <2>. QED  BY <1>2, <2>1, <2>2, <2>3 DEF ReadsFresh, Begins
<1>5. CASE \/ TryLockBusy(p) \/ RetryBusy(p) \/ Finish(p)
           \/ WriteEof(p) \/ AtEof(p) \/ WriteNoRoom(p) \/ ReadNothing(p)
  <2>1. call'[p] = NoCall
    BY <1>0, <1>5, SidesTypes
    DEF TryLockBusy, RetryBusy, Finish, WriteEof, AtEof, WriteNoRoom, ReadNothing, GiveUp,
        Return
  <2>. QED  BY <2>1 DEF Reading
<1>6. CASE WriteWait(p) \/ WriteReserve(p) \/ WriteValidate(p)
  BY <1>6 DEF WriteWait, WriteReserve, WriteValidate, Reserving, Validating, Reading
<1>7. CASE ReadReserve(p)  BY <1>7, ReadReserveFresh
<1>8. CASE CopyByte(p) \/ CopyCrash(p)
  <2>1. pc[p] = "copy" /\ Reading(p)
    BY <1>8 DEF CopyByte, CopyCrash, Reading
  <2>2. /\ ExactCopy(p) /\ call[p].count \in Nat /\ rest(p) > 0
        /\ data[p].secondLimitLoop # 0 => SizeAtom # 1 /\ tmpStart < willBeDone(p)
    BY <1>0, <1>2, <2>1, ExactCopyGoesOn DEF ReadsFresh
  <2>3. CopyByte(p)
    <3>1. rest(p) \in Int  BY <1>0, <2>2, SidesTypes DEF rest
    <3>. QED  BY <1>8, <2>2, <3>1 DEF CopyCrash
  <2>4. /\ ExactCopy(p)'
        /\ data'[p].sizeToManipulate = data[p].sizeToManipulate
        /\ data'[p].secondLimitLoop = data[p].secondLimitLoop
        /\ data'[p].copied = data[p].copied + 1 /\ sizeDone(p)' = sizeDone(p) + 1
        /\ pc'[p] = IF data[p].copied + 1 = data[p].sizeToManipulate
                    THEN "lockAgain" ELSE "copy"
    BY <1>0, <2>2, <2>3, CopyStep
  <2>5. willBeDone(p)' = willBeDone(p)
    BY <1>0, <2>1, <2>4, SidesTypes DEF willBeDone
  <2>6. tmpStart' = tmpStart  BY <2>3 DEF CopyByte, shared
  <2>. QED  BY <2>2, <2>4, <2>5, <2>6 DEF ReadsFresh, Begins
<1>9. CASE ReadValidate(p)
  <2>1. /\ pc[p] = "validate" /\ pc'[p] = "broadcast" /\ call' = call /\ tmpStart' = tmpStart
        /\ Reading(p)
    BY <1>0, <1>9, SidesTypes DEF ReadValidate, Validating, BroadcastTo, Reading
  <2>2. sizeDone(p)' = sizeDone(p) /\ data'[p].secondLimitLoop = data[p].secondLimitLoop
    BY <1>0, <1>1, <1>9, SidesTypes DEF ReadValidate, DataType, sizeDone
  <2>. QED  BY <1>2, <2>1, <2>2 DEF ReadsFresh, Begins, willBeDone
<1>10. CASE WakeOtherSide(p)
  <2>1. /\ pc[p] = "broadcast" /\ pc'[p] = "unlocked" /\ call' = call /\ tmpStart' = tmpStart
        /\ Reading(p)
    BY <1>0, <1>10, SidesTypes DEF WakeOtherSide, BroadcastTo, Reading, shared
  <2>2. /\ sizeDone(p)' = sizeDone(p) /\ ~data'[p].passByMiddle
        /\ data'[p].secondLimitLoop = data[p].secondLimitLoop
    BY <1>0, <1>1, <1>10, SidesTypes DEF WakeOtherSide, PassForNextRound, DataType, sizeDone
  <2>. QED  BY <1>2, <2>1, <2>2 DEF ReadsFresh, Begins, willBeDone
<1>. QED
  BY <1>1, <1>3, <1>4, <1>5, <1>6, <1>7, <1>8, <1>9, <1>10 DEF Acts, Step, WaitTurn

LEMMA FInvInit == Init => FInv
<1>1. Init => \A p \in Proc : ~Reading(p)  BY DEF Init, Reading
<1>. QED  BY <1>1, SInvInit DEF FInv

LEMMA FInvNext ==
  ASSUME BlockingOneRoundWrites, ReadsStayFresh, FInv, [Next]_vars
  PROVE  FInv'
<1>1. SInv'  BY SInvNext DEF FInv
<1>2. CASE UNCHANGED vars
  <2>1. \A p \in Proc : Reading(p)' => ReadsFresh(p)'
    BY <1>2 DEF vars, shared, FInv, Reading, ReadsFresh, ExactCopy, sizeDone, willBeDone
  <2>. QED  BY <1>1, <2>1 DEF FInv
<1>3. ASSUME NEW p \in Proc, Acts(p) PROVE FInv'
  <2>1. \A q \in Proc : Reading(q)' => ReadsFresh(q)'
    BY <1>3, OthersReadFresh, OwnReadFresh
  <2>. QED  BY <1>1, <2>1 DEF FInv
<1>. QED  BY <1>2, <1>3 DEF Next, Acts

(***************************************************************************)
(* A copy visits the cells its thread reserved and no other, in spite of   *)
(* the fields of struct dataCirularBuffer that outlive a round: the flag a *)
(* writer set before it fell asleep, the second limit of an earlier round  *)
(* of a reader (concurrentconduct.c:532-693).                              *)
(***************************************************************************)
THEOREM SidesCopyTheirCells ==
  ASSUME BlockingOneRoundWrites, ReadsStayFresh
  PROVE  Spec => []CopiesWhatItReserved
<1>1. FInv => CopiesWhatItReserved
  <2> SUFFICES ASSUME FInv, NEW p \in Proc, pc[p] = "copy"
               PROVE  nextCell(p) \in Reserved(p)
    BY DEF CopiesWhatItReserved
  <2> DEFINE k == data[p].copied + 1
  <2>1. SInv  BY DEF FInv
  <2>2. ExactCopy(p)
    BY <2>1, ClaimsAreRounds DEF FInv, SInv, Claims, Claiming, ReadsFresh, WritesOnce
  <2>3. /\ data[p].from \in Index /\ data[p].sizeToManipulate \in 0 .. SizeMax
        /\ k \in 1 .. data[p].sizeToManipulate
    BY <2>1, <2>2, SidesTypes, ExactCopyGoesOn
  <2>4. nextCell(p) = Wrap(data[p].from + k - 1)
    BY <2>2, <2>3 DEF ExactCopy, ExactRound, nextCell
  <2>5. Wrap(data[p].from + k - 1) = (data[p].from + k - 1) % SizeMax
    <3>1. k - 1 \in 0 .. SizeMax /\ data[p].from + (k - 1) = data[p].from + k - 1
      BY <2>3 DEF Index
    <3>. QED  BY <2>3, <3>1, RoundWraps
  <2>. QED  BY <2>3, <2>4, <2>5 DEF Reserved
<1>2. FInv /\ [Next]_vars => FInv'  BY FInvNext
<1>. QED  BY FInvInit, <1>1, <1>2, PTL DEF Spec

-----------------------------------------------------------------------------
(* The queue of bytes: where each byte of a round is.                      *)

\* sizeReallyManipulate counts a byte when it is copied, the queue when its
\* round is validated.
validated(p) == sizeDone(p) - data[p].copied

\* What the round of p has copied is in its cells and in its bytes.
Copied(p) ==
  \A k \in 1 .. data[p].copied :
    buf[Wrap(data[p].from + k - 1)] = data[p].bytes[validated(p) + k]

\* A round of a writer is a whole piece, and no end of file goes before it.
PieceOf(p) ==
  /\ data[p].copied <= sizeDone(p)
  /\ data[p].copied <= data[p].sizeToManipulate
  /\ data[p].sizeToManipulate <= SizeAtom
  /\ validated(p) + data[p].sizeToManipulate <= call[p].count
  /\ Writing(p) => ~isEOF /\ validated(p) = 0
                   /\ data[p].sizeToManipulate = call[p].count

\* Counts go with bytes, and with where the thread is.
Counts(p) ==
  /\ pc[p] = "idle" => call[p] = NoCall /\ data[p] = NoData
  /\ pc[p] \in {"lockSide", "lock"} => sizeDone(p) = 0
  /\ pc[p] \in {"lockAgain", "validate"} => data[p].copied = data[p].sizeToManipulate
  /\ pc[p] \in {"lockAgain", "validate", "broadcast", "unlocked", "retry"} => sizeDone(p) > 0
  /\ Reading(p) => Len(data[p].bytes) = sizeDone(p)

QInv == FInv /\ \A p \in Proc : Counts(p) /\ (Claims(p) => PieceOf(p) /\ Copied(p))

\* Different bytes of a round are in different cells.
LEMMA CellsOfRound ==
  ASSUME NEW from \in Index, NEW i \in 1 .. SizeMax, NEW j \in 1 .. SizeMax
  PROVE  /\ Wrap(from + i - 1) \in Index
         /\ Wrap(from + i - 1) = Wrap(from + j - 1) => i = j
  BY DEF Wrap, Index

LEMMA QInvTypes ==
  ASSUME QInv
  PROVE  /\ FInv /\ SInv /\ IInv
         /\ buf \in [Index -> Byte]
         /\ \A p \in Proc : /\ data[p].bytes \in Seq(Byte) /\ data[p] \in DataType
                            /\ sizeDone(p) \in Nat /\ data[p].copied \in Nat
                            /\ data[p].sizeToManipulate \in Nat
<1>1. FInv /\ SInv /\ IInv  BY DEF QInv, FInv, SInv
<1>2. data \in [Proc -> DataType]  BY <1>1, SidesTypes
<1>3. \A p \in Proc : data[p] \in DataType  BY <1>2
<1>4. buf \in [Index -> Byte]  BY <1>1 DEF IInv, TypeOK
<1>. QED  BY <1>1, <1>3, <1>4 DEF DataType, sizeDone

\* In a round, the copy is exact and there is a call.
LEMMA RoundOf ==
  ASSUME QInv, NEW p \in Proc, Claims(p)
  PROVE  /\ call[p] \in Calls[p] /\ call[p] \in CallRecord /\ call[p].count \in Nat
         /\ (Reading(p) <=> ~Writing(p))
         /\ (Reading(p) => call[p].op = "read" /\ ReadClaim(p))
         /\ (Writing(p) => call[p].op = "write" /\ WriteClaim(p))
         /\ data[p].from \in Index /\ data[p].sizeToManipulate \in 1 .. SizeMax
         /\ PieceOf(p) /\ Copied(p)
         /\ pc[p] # "crashed"
<1>1. SInv  BY QInvTypes
<1>2. /\ call[p] \in Calls[p] /\ call[p] \in CallRecord
      /\ (Reading(p) <=> ~Writing(p))
      /\ (Reading(p) <=> call[p].op = "read") /\ (Writing(p) <=> call[p].op = "write")
  BY <1>1, ClaimsAreRounds
<1>3. (Reading(p) => ReadClaim(p)) /\ (Writing(p) => WriteClaim(p))
  BY <1>1 DEF SInv, Indices
<1>4. used \in 0 .. SizeMax /\ data[p].from \in Index  BY <1>1, SidesTypes
<1>5. data[p].sizeToManipulate \in 1 .. SizeMax
  BY <1>2, <1>3, <1>4 DEF ReadClaim, WriteClaim
<1>6. PieceOf(p) /\ Copied(p)  BY DEF QInv
<1>7. pc[p] # "crashed"
  BY <1>2 DEF QInv, FInv, SInv, ReadsFresh, WritesOnce
<1>8. call[p].count \in Nat  BY <1>2 DEF CallRecord
<1>. QED  BY <1>2, <1>3, <1>4, <1>5, <1>6, <1>7, <1>8

\* The step of a copy, exactly.
LEMMA CopyMoves ==
  ASSUME QInv, NEW p \in Proc, CopyByte(p)
  PROVE  /\ Claims(p) /\ Claims(p)' /\ call' = call /\ UNCHANGED <<start, end, isEOF, isEmpty, ret>>
         /\ data'[p].from = data[p].from
         /\ data'[p].sizeToManipulate = data[p].sizeToManipulate
         /\ data[p].copied < data[p].sizeToManipulate
         /\ data'[p].copied = data[p].copied + 1
         /\ sizeDone(p)' = sizeDone(p) + 1
         /\ pc'[p] = IF data[p].copied + 1 = data[p].sizeToManipulate
                     THEN "lockAgain" ELSE "copy"
         /\ nextCell(p) = Wrap(data[p].from + data[p].copied) /\ nextCell(p) \in Index
         /\ rest(p) > 0
         /\ \/ /\ Writing(p) /\ data'[p].bytes = data[p].bytes
               /\ buf' = [buf EXCEPT ![nextCell(p)] = data[p].bytes[sizeDone(p) + 1]]
            \/ /\ Reading(p) /\ data'[p].bytes = Append(data[p].bytes, buf[nextCell(p)])
               /\ UNCHANGED buf
<1>1. SInv /\ data[p] \in DataType  BY QInvTypes
<1>2. pc[p] = "copy" /\ Claims(p)  BY DEF CopyByte, Claims, Claiming
<1>3. ExactCopy(p)
  BY <1>1, <1>2, ClaimsAreRounds DEF QInv, FInv, SInv, ReadsFresh, WritesOnce
<1>4. /\ data'[p].sizeToManipulate = data[p].sizeToManipulate
      /\ data'[p].copied = data[p].copied + 1
      /\ sizeDone(p)' = sizeDone(p) + 1
      /\ pc'[p] = IF data[p].copied + 1 = data[p].sizeToManipulate
                  THEN "lockAgain" ELSE "copy"
  BY <1>1, <1>3, CopyStep
<1>5. data[p].copied < data[p].sizeToManipulate /\ rest(p) > 0
  BY <1>1, <1>2, <1>3, ExactCopyGoesOn
<1>6. /\ data[p].from \in Index /\ data[p].sizeToManipulate \in 1 .. SizeMax
      /\ data[p].copied \in Nat
  BY <1>2, RoundOf, QInvTypes
<1>7. nextCell(p) = Wrap(data[p].from + data[p].copied) /\ nextCell(p) \in Index
  <2>1. data[p].copied + 1 \in 1 .. data[p].sizeToManipulate  BY <1>5, <1>6
  <2>2. nextCell(p) = Wrap(data[p].from + (data[p].copied + 1) - 1)
    BY <1>3, <2>1 DEF ExactCopy, ExactRound, nextCell
  <2>3. data[p].from + (data[p].copied + 1) - 1 = data[p].from + data[p].copied
    BY <1>6 DEF Index
  <2>4. Wrap(data[p].from + data[p].copied) \in Index
    BY <1>5, <1>6 DEF Wrap, Index
  <2>. QED  BY <2>2, <2>3, <2>4
<1>8. /\ data'[p].from = data[p].from
      /\ call[p].op = "write" => data'[p].bytes = data[p].bytes
      /\ call[p].op = "read" => data'[p].bytes = Append(data[p].bytes, buf[nextCell(p)])
  BY <1>1, <1>2, SidesTypes DEF CopyByte, DataType
<1>9. /\ call' = call /\ UNCHANGED <<start, end, isEOF, isEmpty, ret>>
  BY DEF CopyByte, shared
<1>10. Claims(p)'  BY <1>4 DEF Claims, Claiming
<1>11. \/ call[p].op = "write" /\ buf' = [buf EXCEPT ![nextCell(p)] = data[p].bytes[sizeDone(p) + 1]]
       \/ call[p].op = "read" /\ UNCHANGED buf
  BY <1>5 DEF CopyByte, Outgoing
<1>12. (Writing(p) <=> call[p].op = "write") /\ (Reading(p) <=> call[p].op = "read")
  BY <1>1, <1>2, ClaimsAreRounds
<1>13. \/ /\ Writing(p) /\ data'[p].bytes = data[p].bytes
          /\ buf' = [buf EXCEPT ![nextCell(p)] = data[p].bytes[sizeDone(p) + 1]]
       \/ /\ Reading(p) /\ data'[p].bytes = Append(data[p].bytes, buf[nextCell(p)])
          /\ UNCHANGED buf
  BY <1>8, <1>11, <1>12
<1>. QED  BY <1>2, <1>4, <1>5, <1>7, <1>8, <1>9, <1>10, <1>13

\* What another thread has copied stays: p writes into cells of its own.
LEMMA OthersQueue ==
  ASSUME BlockingOneRoundWrites, QInv, NEW p \in Proc, Acts(p), NEW q \in Proc \ {p}
  PROVE  Counts(q)' /\ (Claims(q)' => PieceOf(q)' /\ Copied(q)')
<1>1. FInv /\ SInv /\ IInv  BY QInvTypes
<1>2. /\ Kept(q) /\ Claims(q)' = Claims(q) /\ sideOf(q)' = sideOf(q)
      /\ Reading(q)' = Reading(q) /\ Writing(q)' = Writing(q)
  BY <1>1, OthersKept
<1>3. sizeDone(q)' = sizeDone(q) /\ validated(q)' = validated(q)
  BY <1>2 DEF Kept, sizeDone, validated
<1>4. Counts(q)'
  BY <1>2, <1>3 DEF QInv, Counts, Kept
<1>5. ASSUME Claims(q), Writing(q) PROVE ~isEOF'
  <2>1. ~isEOF /\ sideOf(q) = "write" /\ Holds(q)
    BY <1>1, <1>5, RoundOf, ClaimsAreRounds
    DEF PieceOf, sideOf, Claims, Claiming, Holds, Holding
  <2>2. CASE WriteEof(p)
    <3>1. Holds(p) /\ sideOf(p) = "write"
      BY <2>2 DEF WriteEof, Reserving, Holds, Holding, sideOf
    <3>. QED  BY <1>1, <2>1, <3>1 DEF SInv, Excluded
  <2>3. CASE ~WriteEof(p)
    BY <2>1, <2>3
    DEF Acts, Invoke, Refuse, Enter, LockSide, Acquire, SpuriousWakeup, Step, TryLockBusy,
        RetryBusy, Finish, AtEof, WriteNoRoom, ReadNothing, GiveUp, WriteWait, ReadWait,
        WriteReserve, ReadReserve, CopyByte, CopyCrash, WaitTurn, ReadValidate, WriteValidate,
        WakeOtherSide, shared
  <2>. QED  BY <2>2, <2>3
<1>6. ASSUME Claims(q) PROVE Copied(q)'
  <2>1. Copied(q)  BY <1>6, RoundOf
  <2>2. \A k \in 1 .. data[q].copied :
          buf'[Wrap(data[q].from + k - 1)] = buf[Wrap(data[q].from + k - 1)]
    <3>1. CASE UNCHANGED buf  BY <3>1
    <3>2. CASE CopyByte(p) /\ ~UNCHANGED buf
      <4>1. /\ Claims(p) /\ Writing(p) /\ data[p].copied < data[p].sizeToManipulate
            /\ nextCell(p) = Wrap(data[p].from + data[p].copied)
            /\ buf' = [buf EXCEPT ![nextCell(p)] = data[p].bytes[sizeDone(p) + 1]]
        BY <3>2, CopyMoves
      <4>2. WriteClaim(p) /\ data[p].copied \in Nat /\ data[p].sizeToManipulate \in Nat
        BY <4>1, RoundOf, QInvTypes
      <4>3. Reading(q) /\ ReadClaim(q) /\ PieceOf(q)
        <5>1. sideOf(p) # sideOf(q)  BY <1>1, <1>6, <4>1 DEF SInv, Excluded
        <5>2. sideOf(p) = "write"  BY <4>1 DEF Writing, sideOf
        <5>. QED  BY <1>1, <1>6, <5>1, <5>2, RoundOf, ClaimsAreRounds DEF sideOf
      <4>4. /\ start \in Index /\ end \in Index /\ isEmpty \in BOOLEAN /\ (isEmpty => start = end)
            /\ used \in 0 .. SizeMax /\ used = Used(start, end, isEmpty)
        BY <1>1, SidesTypes DEF SInv, Indices, used
      <4>. DEFINE j == data[p].copied + 1
      <4>5. j \in 1 .. SizeMax - used /\ nextCell(p) = Wrap(end + j - 1)
        <5>1. data[p].from = end /\ data[p].sizeToManipulate \in 1 .. SizeMax - used
          BY <4>2 DEF WriteClaim
        <5>2. end + j - 1 = end + data[p].copied  BY <4>2, <4>4 DEF Index
        <5>. QED  BY <4>1, <4>2, <4>4, <5>1, <5>2
      <4>6. /\ data[q].from = start /\ data[q].copied \in Nat
            /\ data[q].copied <= used
        BY <4>3, <4>4, QInvTypes DEF ReadClaim, PieceOf
      <4>. HIDE DEF j
      <4>7. ASSUME NEW k \in 1 .. data[q].copied
            PROVE  Wrap(data[q].from + k - 1) # nextCell(p)
        <5>1. k \in 1 .. used  BY <4>4, <4>6
        <5>. QED  BY <4>4, <4>5, <4>6, <5>1, FreeCells
      <4>. QED  BY <1>1, <4>1, <4>7 DEF IInv, TypeOK
    <3>3. UNCHANGED buf \/ CopyByte(p)
      BY DEF Acts, Invoke, Refuse, Enter, LockSide, Acquire, SpuriousWakeup, Step, TryLockBusy,
          RetryBusy, Finish, WriteEof, AtEof, WriteNoRoom, ReadNothing, GiveUp, WriteWait,
          ReadWait, WriteReserve, ReadReserve, CopyCrash, WaitTurn, ReadValidate,
          WriteValidate, WakeOtherSide, shared
    <3>. QED  BY <3>1, <3>2, <3>3
  <2>3. data'[q] = data[q]  BY <1>2 DEF Kept
  <2>. QED  BY <1>3, <2>1, <2>2, <2>3 DEF Copied
<1>7. ASSUME Claims(q) PROVE PieceOf(q)'
  <2>1. PieceOf(q) /\ data'[q] = data[q] /\ call'[q] = call[q]
    BY <1>2, <1>7, RoundOf DEF Kept
  <2>. QED  BY <1>2, <1>3, <1>5, <1>7, <2>1 DEF PieceOf
<1>. QED  BY <1>2, <1>4, <1>6, <1>7

\* A reservation is a piece of which nothing is copied yet.
LEMMA ReserveQueue ==
  ASSUME BlockingOneRoundWrites, QInv, NEW p \in Proc, WriteReserve(p) \/ ReadReserve(p)
  PROVE  Counts(p)' /\ PieceOf(p)' /\ Copied(p)'
<1> DEFINE size == IF WriteReserve(p) THEN writeSize(p) ELSE readSize(p)
<1>1. FInv /\ SInv /\ IInv /\ Counts(p) /\ data[p] \in DataType  BY QInvTypes DEF QInv
<1>2. /\ pc[p] = "reserve" /\ pc'[p] = "copy" /\ call' = call /\ ~isEOF /\ ~isEOF'
      /\ call[p].op = IF WriteReserve(p) THEN "write" ELSE "read"
  BY <1>1, SidesTypes DEF WriteReserve, ReadReserve, Reserving, StartCopy, Goto
<1>3. /\ call[p] \in Calls[p] /\ call[p] # NoCall /\ data[p].copied = 0
      /\ call[p].count \in Nat /\ call[p].op \in {"read", "write"}
  BY <1>1, <1>2 DEF IInv, CallOpen, Begins, CallRecord
<1>4. /\ data'[p].sizeToManipulate = size /\ data'[p].copied = 0
      /\ sizeDone(p)' = sizeDone(p) /\ data'[p].bytes = data[p].bytes
  BY <1>1, <1>3, SidesTypes DEF WriteReserve, ReadReserve, StartCopy, DataType, sizeDone
<1>5. size \in Nat /\ size <= SizeAtom /\ size <= rest(p)
  <2>1. CASE WriteReserve(p)
    <3>1. rest(p) \in Nat \ {0} /\ size = SizeOfRound(rest(p))
      BY <1>1, <1>2, <2>1, RoundSize DEF Begins, writeSize
    <3>. QED  BY <3>1 DEF SizeOfRound
  <2>2. CASE ~WriteReserve(p)
    <3>1. ReadReserve(p) /\ size = readSize(p)  BY <2>2
    <3>2. readSize(p) \in 1 .. used /\ readSize(p) <= rest(p)
      BY <1>1, <3>1, ReadReserveIndices
    <3>3. readWanted(p) <= SizeAtom /\ readWanted(p) \in Nat \ {0} /\ readWanted(p) <= rest(p)
      BY <1>1, <1>2, RoundSize DEF Begins, readWanted, SizeOfRound
    <3>4. readSize(p) <= readWanted(p)
      <4>1. readAvailable \in 0 .. SizeMax
        BY <1>1, SidesTypes, AvailableType DEF readAvailable
      <4>. QED  BY <3>3, <4>1 DEF readSize
    <3>5. readSize(p) \in Nat /\ rest(p) \in Int
      <4>1. used \in 0 .. SizeMax  BY <1>1, SidesTypes
      <4>2. rest(p) \in Int  BY <1>1, <1>3, SidesTypes DEF rest
      <4>. QED  BY <3>2, <4>1, <4>2
    <3>. QED  BY <3>1, <3>2, <3>3, <3>4, <3>5
  <2>. QED  BY <2>1, <2>2
<1>6. Writing(p) => sizeDone(p) = 0 /\ size = call[p].count
  <2>. SUFFICES ASSUME Writing(p) PROVE sizeDone(p) = 0 /\ size = call[p].count  OBVIOUS
  <2>1. sizeDone(p) = 0  BY <1>1, <1>2 DEF SInv, WritesOnce, Begins
  <2>2. WriteReserve(p) /\ call[p].count <= SizeAtom
    BY <1>2, <1>3 DEF Writing, BlockingOneRoundWrites
  <2>. QED  BY <1>3, <2>1, <2>2 DEF writeSize, rest, SizeOfRound
<1>7. sizeDone(p) \in Nat /\ Writing(p)' = Writing(p) /\ Reading(p)' = Reading(p)
  BY <1>1, <1>2, SidesTypes DEF Writing, Reading
<1> HIDE DEF size
<1>8. validated(p)' = sizeDone(p)  BY <1>4, <1>7 DEF validated
<1>9. PieceOf(p)'
  BY <1>2, <1>3, <1>4, <1>5, <1>6, <1>7, <1>8 DEF PieceOf, rest
<1>10. Copied(p)'  BY <1>4 DEF Copied
<1>11. Counts(p)'  BY <1>1, <1>2, <1>4, <1>7 DEF Counts
<1>. QED  BY <1>9, <1>10, <1>11

\* One more byte is copied.
LEMMA CopyQueue ==
  ASSUME BlockingOneRoundWrites, QInv, NEW p \in Proc, CopyByte(p)
  PROVE  Counts(p)' /\ PieceOf(p)' /\ Copied(p)'
<1>. DEFINE n == data[p].copied
<1>1. /\ Claims(p) /\ Claims(p)' /\ call' = call /\ isEOF' = isEOF
      /\ data'[p].from = data[p].from
      /\ data'[p].sizeToManipulate = data[p].sizeToManipulate
      /\ n < data[p].sizeToManipulate /\ data'[p].copied = n + 1
      /\ sizeDone(p)' = sizeDone(p) + 1
      /\ pc'[p] = IF n + 1 = data[p].sizeToManipulate THEN "lockAgain" ELSE "copy"
      /\ nextCell(p) = Wrap(data[p].from + n) /\ nextCell(p) \in Index
  BY CopyMoves
<1>2. \/ /\ Writing(p) /\ data'[p].bytes = data[p].bytes
         /\ buf' = [buf EXCEPT ![nextCell(p)] = data[p].bytes[sizeDone(p) + 1]]
      \/ /\ Reading(p) /\ data'[p].bytes = Append(data[p].bytes, buf[nextCell(p)])
         /\ UNCHANGED buf
  BY CopyMoves
<1>3. /\ PieceOf(p) /\ Copied(p) /\ Counts(p)
      /\ data[p].from \in Index /\ data[p].sizeToManipulate \in 1 .. SizeMax
      /\ call[p].count \in Nat /\ (Reading(p) <=> ~Writing(p))
  BY <1>1, RoundOf DEF QInv
<1>4. /\ n \in Nat /\ sizeDone(p) \in Nat /\ data[p].bytes \in Seq(Byte)
      /\ buf \in [Index -> Byte] /\ n <= sizeDone(p)
  BY <1>3, QInvTypes DEF PieceOf
<1>5. /\ validated(p)' = validated(p) /\ validated(p) \in Nat
      /\ validated(p) + n = sizeDone(p)
  <2>1. validated(p) = sizeDone(p) - n  BY DEF validated
  <2>2. validated(p)' = (sizeDone(p) + 1) - (n + 1)  BY <1>1 DEF validated
  <2>. HIDE DEF n
  <2>. QED  BY <1>4, <2>1, <2>2
<1>6. Writing(p)' = Writing(p) /\ Reading(p)' = Reading(p)
  BY <1>1 DEF Writing, Reading
<1>7. PieceOf(p)'
  <2>1. n + 1 <= sizeDone(p) + 1 /\ n + 1 <= data[p].sizeToManipulate
    BY <1>1, <1>3, <1>4
  <2>. QED  BY <1>1, <1>3, <1>5, <1>6, <2>1 DEF PieceOf
<1>8. Len(data[p].bytes) \in Nat
  BY <1>4, LenProperties
<1>9. ASSUME Reading(p)
      PROVE  /\ Len(data'[p].bytes) = sizeDone(p) + 1
             /\ data'[p].bytes[sizeDone(p) + 1] = buf[nextCell(p)]
             /\ \A i \in 1 .. sizeDone(p) : data'[p].bytes[i] = data[p].bytes[i]
  <2>1. Len(data[p].bytes) = sizeDone(p)  BY <1>3, <1>9 DEF Counts
  <2>2. data'[p].bytes = Append(data[p].bytes, buf[nextCell(p)])  BY <1>2, <1>3, <1>9
  <2>3. buf[nextCell(p)] \in Byte  BY <1>1, <1>4
  <2>4. /\ Len(Append(data[p].bytes, buf[nextCell(p)])) = Len(data[p].bytes) + 1
        /\ \A i \in 1 .. Len(data[p].bytes) :
             Append(data[p].bytes, buf[nextCell(p)])[i] = data[p].bytes[i]
        /\ Append(data[p].bytes, buf[nextCell(p)])[Len(data[p].bytes) + 1] = buf[nextCell(p)]
    BY <1>4, <2>3, AppendProperties
  <2>. QED  BY <2>1, <2>2, <2>4
<1>10. Counts(p)'
  <2>1. pc'[p] \in {"lockAgain", "copy"}  BY <1>1
  <2>2. pc'[p] = "lockAgain" => data'[p].copied = data'[p].sizeToManipulate  BY <1>1
  <2>3. sizeDone(p)' > 0  BY <1>1, <1>4
  <2>4. Reading(p)' => Len(data'[p].bytes) = sizeDone(p)'  BY <1>1, <1>6, <1>9
  <2>. QED  BY <2>1, <2>2, <2>3, <2>4 DEF Counts
<1>. HIDE DEF n
<1>11. ASSUME NEW k \in 1 .. n + 1
       PROVE  buf'[Wrap(data[p].from + k - 1)] = data'[p].bytes[validated(p) + k]
  <2>1. /\ Wrap(data[p].from + k - 1) \in Index
        /\ nextCell(p) = Wrap(data[p].from + (n + 1) - 1)
        /\ Wrap(data[p].from + k - 1) = nextCell(p) => k = n + 1
    <3>1. k \in 1 .. SizeMax /\ n + 1 \in 1 .. SizeMax  BY <1>1, <1>3, <1>4
    <3>2. data[p].from + (n + 1) - 1 = data[p].from + n  BY <1>3, <1>4 DEF Index
    <3>. QED  BY <1>1, <1>3, <3>1, <3>2, CellsOfRound
  <2>2. CASE k = n + 1
    <3>1. validated(p) + k = sizeDone(p) + 1  BY <1>4, <1>5, <2>2
    <3>2. CASE Writing(p)
      <4>1. buf'[nextCell(p)] = data[p].bytes[sizeDone(p) + 1]
        BY <1>1, <1>2, <1>3, <1>4, <3>2
      <4>. QED  BY <1>2, <1>3, <2>1, <2>2, <3>1, <3>2, <4>1
    <3>3. CASE Reading(p)
      BY <1>2, <1>3, <1>9, <2>1, <2>2, <3>1, <3>3
    <3>. QED  BY <1>2, <3>2, <3>3
  <2>3. CASE k # n + 1
    <3>1. k \in 1 .. n /\ validated(p) + k \in 1 .. sizeDone(p)
      BY <1>4, <1>5, <2>3
    <3>2. buf[Wrap(data[p].from + k - 1)] = data[p].bytes[validated(p) + k]
      BY <1>3, <3>1 DEF Copied, n
    <3>3. buf'[Wrap(data[p].from + k - 1)] = buf[Wrap(data[p].from + k - 1)]
      BY <1>2, <1>4, <2>1, <2>3
    <3>4. data'[p].bytes[validated(p) + k] = data[p].bytes[validated(p) + k]
      BY <1>2, <1>9, <3>1
    <3>. QED  BY <3>2, <3>3, <3>4
  <2>. QED  BY <2>2, <2>3
<1>12. Copied(p)'  BY <1>1, <1>5, <1>11 DEF Copied
<1>. QED  BY <1>7, <1>10, <1>12

\* The other steps of p: its data changes little.
LEMMA OwnQueue ==
  ASSUME BlockingOneRoundWrites, QInv, NEW p \in Proc, Acts(p)
  PROVE  Counts(p)' /\ (Claims(p)' => PieceOf(p)' /\ Copied(p)')
<1>1. /\ FInv /\ SInv /\ IInv /\ Counts(p) /\ data[p] \in DataType
      /\ SingleReaderAndWriter /\ sizeDone(p) \in Nat
      /\ pc[p] \notin {"waitTurnRead", "waitTurnWrite"}
  BY QInvTypes DEF QInv, SInv, Excluded, BlockingOneRoundWrites
<1>2. CASE Invoke(p)
  <2>1. ASSUME NEW c \in Calls[p], Refuse(p, c)
        PROVE  Counts(p)' /\ (Claims(p)' => PieceOf(p)' /\ Copied(p)')
    <3>1. pc'[p] = "idle" /\ UNCHANGED <<pc, call, data>>  BY <2>1 DEF Refuse
    <3>. QED  BY <1>1, <3>1 DEF Counts, Claims, Claiming, Reading, sizeDone
  <2>2. ASSUME NEW c \in Calls[p], Enter(p, c)
        PROVE  Counts(p)' /\ (Claims(p)' => PieceOf(p)' /\ Copied(p)')
    <3>1. pc'[p] = "lockSide" /\ call'[p] = c
      BY <1>1, <2>2, SidesTypes DEF Enter, Goto
    <3>2. data'[p] = NewData(IF c.op = "write" THEN Payload(p, c.count) ELSE <<>>)
      BY <1>1, <2>2, SidesTypes DEF Enter
    <3>3. /\ sizeDone(p)' = 0
          /\ data'[p].bytes = IF c.op = "write" THEN Payload(p, c.count) ELSE <<>>
      BY <3>2 DEF NewData, sizeDone
    <3>4. Reading(p)' => Len(data'[p].bytes) = sizeDone(p)'
      <4>1. Len(<<>>) = 0  BY EmptySeq
      <4>. QED  BY <3>1, <3>3, <4>1 DEF Reading
    <3>. QED  BY <3>1, <3>3, <3>4 DEF Counts, Claims, Claiming
  <2>. QED  BY <1>2, <2>1, <2>2 DEF Invoke
<1>3. CASE LockSide(p) \/ Acquire(p) \/ SpuriousWakeup(p) \/ ReadWait(p)
  <2>1. UNCHANGED <<call, data, buf, isEOF>>
    BY <1>3 DEF LockSide, Acquire, SpuriousWakeup, ReadWait, shared
  <2>2. \/ pc[p] = "lockSide" /\ pc'[p] = "lock"
        \/ pc[p] = "unlocked" /\ pc'[p] = "retry"
        \/ pc'[p] \in {"reserve", "relock", "waitRead"}
        \/ pc[p] = "lockAgain" /\ pc'[p] = "validate"
    BY <1>1, <1>3, SidesTypes
    DEF LockSide, Acquire, Retrying, SpuriousWakeup, ReadWait, Goto
  <2>3. /\ sizeDone(p)' = sizeDone(p) /\ validated(p)' = validated(p)
        /\ Reading(p)' = Reading(p) /\ Writing(p)' = Writing(p)
    BY <2>1 DEF sizeDone, validated, Reading, Writing
  <2>4. Counts(p)'  BY <1>1, <2>1, <2>2, <2>3 DEF Counts
  <2>5. Claims(p)' => Claims(p)  BY <2>2 DEF Claims, Claiming
  <2>6. Claims(p) => PieceOf(p) /\ Copied(p)  BY DEF QInv
  <2>. QED  BY <2>1, <2>3, <2>4, <2>5, <2>6 DEF PieceOf, Copied
<1>4. CASE \/ TryLockBusy(p) \/ RetryBusy(p) \/ Finish(p)
           \/ WriteEof(p) \/ AtEof(p) \/ WriteNoRoom(p) \/ ReadNothing(p)
  <2>1. call'[p] = NoCall /\ data'[p] = NoData /\ pc'[p] = "idle"
    BY <1>1, <1>4, SidesTypes
    DEF TryLockBusy, RetryBusy, Finish, WriteEof, AtEof, WriteNoRoom, ReadNothing, GiveUp,
        Return
  <2>. QED  BY <2>1 DEF Counts, Reading, Claims, Claiming
<1>5. CASE WriteWait(p)
  <2>1. pc'[p] = "waitWrite" /\ call' = call /\ call[p].op = "write"
    BY <1>1, <1>5, SidesTypes DEF WriteWait, Reserving, Goto
  <2>. QED  BY <2>1 DEF Counts, Reading, Claims, Claiming
<1>6. CASE WriteReserve(p) \/ ReadReserve(p)  BY <1>6, ReserveQueue
<1>7. CASE CopyByte(p)  BY <1>7, CopyQueue
<1>8. CASE CopyCrash(p)
  <2>1. pc'[p] = "crashed" /\ Claims(p)'
    BY <1>1, <1>8, SidesTypes DEF CopyCrash, Goto, Claims, Claiming
  <2>2. pc[p] = "copy" /\ rest(p) <= 0 /\ Claims(p)
    BY <1>8 DEF CopyCrash, Claims, Claiming
  <2>3. ExactCopy(p)
    BY <1>1, <2>2, ClaimsAreRounds DEF FInv, SInv, ReadsFresh, WritesOnce
  <2>4. rest(p) > 0 /\ rest(p) \in Int
    BY <1>1, <2>2, <2>3, ExactCopyGoesOn, SidesTypes DEF rest
  <2>. QED  BY <2>2, <2>4
<1>9. CASE ReadValidate(p) \/ WriteValidate(p)
  <2>1. pc[p] = "validate" /\ pc'[p] = "broadcast" /\ call' = call
    BY <1>1, <1>9, SidesTypes DEF ReadValidate, WriteValidate, Validating, BroadcastTo
  <2>2. sizeDone(p)' = sizeDone(p) /\ data'[p].bytes = data[p].bytes
    BY <1>1, <1>9, SidesTypes DEF ReadValidate, WriteValidate, DataType, sizeDone
  <2>. QED  BY <1>1, <2>1, <2>2 DEF Counts, Reading, Claims, Claiming
<1>10. CASE WakeOtherSide(p)
  <2>1. pc[p] = "broadcast" /\ pc'[p] = "unlocked" /\ call' = call
    BY <1>1, <1>10, SidesTypes DEF WakeOtherSide, BroadcastTo
  <2>2. sizeDone(p)' = sizeDone(p) /\ data'[p].bytes = data[p].bytes
    BY <1>1, <1>10, SidesTypes DEF WakeOtherSide, DataType, sizeDone
  <2>. QED  BY <1>1, <2>1, <2>2 DEF Counts, Reading, Claims, Claiming
<1>. QED
  BY <1>1, <1>2, <1>3, <1>4, <1>5, <1>6, <1>7, <1>8, <1>9, <1>10 DEF Acts, Step, WaitTurn

LEMMA QInvInit == Init => QInv
<1>1. Init => \A p \in Proc : Counts(p)  BY DEF Init, Counts, Reading
<1>2. Init => \A p \in Proc : ~Claims(p)  BY DEF Init, Claims, Claiming
<1>. QED  BY <1>1, <1>2, FInvInit DEF QInv

LEMMA QInvNext ==
  ASSUME BlockingOneRoundWrites, ReadsStayFresh, QInv, [Next]_vars
  PROVE  QInv'
<1>1. FInv'  BY FInvNext DEF QInv
<1>2. CASE UNCHANGED vars
  <2>1. \A p \in Proc : Counts(p)' /\ (Claims(p)' => PieceOf(p)' /\ Copied(p)')
    BY <1>2 DEF vars, shared, QInv, Counts, Claims, PieceOf, Copied, sizeDone, validated,
                Reading, Writing
  <2>. QED  BY <1>1, <2>1 DEF QInv
<1>3. ASSUME NEW p \in Proc, Acts(p) PROVE QInv'
  <2>1. \A q \in Proc : Counts(q)' /\ (Claims(q)' => PieceOf(q)' /\ Copied(q)')
    BY <1>3, OthersQueue, OwnQueue
  <2>. QED  BY <1>1, <2>1 DEF QInv
<1>. QED  BY <1>2, <1>3 DEF Next, Acts

-----------------------------------------------------------------------------
(* Every step is one of the queue, or changes nothing in its eyes.         *)

LEMMA HeadOf ==
  ASSUME NEW B, NEW s \in Seq(B), NEW n \in 0 .. Len(s)
  PROVE  /\ SubSeq(s, 1, n) \in Seq(B) /\ Len(SubSeq(s, 1, n)) = n
         /\ \A i \in 1 .. n : SubSeq(s, 1, n)[i] = s[i]
<1>1. Len(s) \in Nat  BY LenProperties
<1>2. 1 \in Int /\ n \in Int /\ \A i \in 1 .. n : s[i] \in B
  BY <1>1, ElementOfSeq
<1>3. /\ SubSeq(s, 1, n) \in Seq(B)
      /\ Len(SubSeq(s, 1, n)) = IF 1 <= n THEN n - 1 + 1 ELSE 0
      /\ \A i \in 1 .. n - 1 + 1 : SubSeq(s, 1, n)[i] = s[1 + i - 1]
  BY ONLY <1>2, SubSeqProperties
<1>. QED  BY <1>1, <1>3

\* Appending to s leaves its head alone.
LEMMA HeadKept ==
  ASSUME NEW B, NEW s \in Seq(B), NEW x \in B, NEW n \in Nat, n <= Len(s)
  PROVE  SubSeq(Append(s, x), 1, n) = SubSeq(s, 1, n)
<1>. DEFINE t == Append(s, x)
<1>1. /\ t \in Seq(B) /\ Len(t) = Len(s) + 1 /\ Len(s) \in Nat
      /\ \A i \in 1 .. Len(s) : t[i] = s[i]
  BY AppendProperties, LenProperties
<1>. HIDE DEF t
<1>3. n \in 0 .. Len(s) /\ n \in 0 .. Len(t)  BY <1>1
<1>2. /\ SubSeq(s, 1, n) \in Seq(B) /\ Len(SubSeq(s, 1, n)) = n
      /\ \A i \in 1 .. n : SubSeq(s, 1, n)[i] = s[i]
  BY <1>3, HeadOf
<1>4. /\ SubSeq(t, 1, n) \in Seq(B) /\ Len(SubSeq(t, 1, n)) = n
      /\ \A i \in 1 .. n : SubSeq(t, 1, n)[i] = t[i]
  BY <1>1, <1>3, HeadOf
<1>5. \A i \in 1 .. n : SubSeq(t, 1, n)[i] = SubSeq(s, 1, n)[i]
  BY <1>1, <1>2, <1>4
<1>6. SubSeq(t, 1, n) = SubSeq(s, 1, n)  BY <1>2, <1>4, <1>5, SeqEqual
<1>. QED  BY <1>6 DEF t

\* A head of s goes on as q does.
LEMMA HeadGrows ==
  ASSUME NEW B, NEW s \in Seq(B), NEW q \in Seq(B), NEW v \in Nat, NEW n \in Nat,
         v + n <= Len(s), n <= Len(q), \A k \in 1 .. n : q[k] = s[v + k]
  PROVE  SubSeq(s, 1, v + n) = SubSeq(s, 1, v) \o SubSeq(q, 1, n)
<1>. DEFINE a == SubSeq(s, 1, v)
            b == SubSeq(q, 1, n)
            c == SubSeq(s, 1, v + n)
<1>1. Len(s) \in Nat /\ Len(q) \in Nat  BY LenProperties
<1>2. v \in 0 .. Len(s) /\ v + n \in 0 .. Len(s) /\ n \in 0 .. Len(q)  BY <1>1
<1>3. a \in Seq(B) /\ Len(a) = v /\ \A i \in 1 .. v : a[i] = s[i]  BY <1>2, HeadOf
<1>4. b \in Seq(B) /\ Len(b) = n /\ \A i \in 1 .. n : b[i] = q[i]  BY <1>2, HeadOf
<1>5. c \in Seq(B) /\ Len(c) = v + n /\ \A i \in 1 .. v + n : c[i] = s[i]
  BY <1>2, HeadOf
<1>. HIDE DEF a, b, c
<1>6. /\ a \o b \in Seq(B) /\ Len(a \o b) = v + n
      /\ \A i \in 1 .. v + n : (a \o b)[i] = IF i <= v THEN a[i] ELSE b[i - v]
  BY <1>3, <1>4, ConcatProperties
<1>7. ASSUME NEW i \in 1 .. v + n PROVE c[i] = (a \o b)[i]
  <2>1. CASE i <= v
    <3>1. i \in 1 .. v  BY <2>1
    <3>2. a[i] = s[i]  BY <1>3, <3>1
    <3>. QED  BY <1>5, <1>6, <2>1, <3>2
  <2>2. CASE i > v
    <3>1. i - v \in 1 .. n /\ v + (i - v) = i /\ ~(i <= v)  BY <2>2
    <3>2. b[i - v] = s[i]  BY <1>4, <3>1
    <3>. QED  BY <1>5, <1>6, <3>1, <3>2
  <2>3. i <= v \/ i > v  OBVIOUS
  <2>. QED  BY <2>1, <2>2, <2>3
<1>8. c = a \o b  BY <1>5, <1>6, <1>7, SeqEqual
<1>. QED  BY <1>8 DEF a, b, c

\* The state of the queue, as Fifo maps it.
Queue    == Contents(buf, start, end, isEmpty)
taken(p) == IF Reading(p) THEN SubSeq(data[p].bytes, 1, validated(p)) ELSE data[p].bytes
MovedBy  == [p \in Proc |-> sizeDone(p) - data[p].copied]
BytesOf  == [p \in Proc |-> IF Reading(p)
                            THEN SubSeq(data[p].bytes, 1, sizeDone(p) - data[p].copied)
                            ELSE data[p].bytes]

\* A step of p changes neither for the others.
LEMMA OneMoves ==
  ASSUME QInv, NEW p \in Proc, Acts(p), NEW n, NEW b, validated(p)' = n, taken(p)' = b
  PROVE  /\ MovedBy' = [MovedBy EXCEPT ![p] = n]
         /\ BytesOf' = [BytesOf EXCEPT ![p] = b]
<1>1. ASSUME NEW q \in Proc \ {p}
      PROVE  validated(q)' = validated(q) /\ taken(q)' = taken(q)
  <2>1. data'[q] = data[q] /\ Reading(q)' = Reading(q)
    BY QInvTypes, OthersKept DEF Kept
  <2>2. sizeDone(q)' = sizeDone(q) /\ validated(q)' = validated(q)
    BY <2>1 DEF sizeDone, validated
  <2>. QED  BY <2>1, <2>2 DEF taken
<1>2. MovedBy = [q \in Proc |-> validated(q)] /\ BytesOf = [q \in Proc |-> taken(q)]
  BY DEF MovedBy, BytesOf, validated, taken
<1>3. MovedBy' = [q \in Proc |-> validated(q)'] /\ BytesOf' = [q \in Proc |-> taken(q)']
  BY DEF MovedBy, BytesOf, validated, taken
<1>. QED  BY <1>1, <1>2, <1>3

LEMMA NoneMoves ==
  ASSUME QInv, NEW p \in Proc, Acts(p), validated(p)' = validated(p), taken(p)' = taken(p)
  PROVE  MovedBy' = MovedBy /\ BytesOf' = BytesOf
<1>1. MovedBy[p] = validated(p) /\ BytesOf[p] = taken(p)
  BY DEF MovedBy, BytesOf, validated, taken
<1>2. /\ MovedBy' = [MovedBy EXCEPT ![p] = validated(p)]
      /\ BytesOf' = [BytesOf EXCEPT ![p] = taken(p)]
  BY OneMoves
<1>3. MovedBy = [MovedBy EXCEPT ![p] = MovedBy[p]] /\ BytesOf = [BytesOf EXCEPT ![p] = BytesOf[p]]
  BY DEF MovedBy, BytesOf
<1>. QED  BY <1>1, <1>2, <1>3

\* A call that returns r.
LEMMA FifoLeave ==
  ASSUME QInv, NEW p \in Proc, Acts(p), NEW r, Return(p, r),
         UNCHANGED <<start, end, isEmpty, buf>>
  PROVE  Fifo!Leave(p, r) /\ Queue' = Queue
<1>1. /\ call' = [call EXCEPT ![p] = NoCall] /\ ret' = [ret EXCEPT ![p] = r]
      /\ call'[p] = NoCall /\ data'[p] = NoData
  BY QInvTypes, SidesTypes DEF Return
<1>2. validated(p)' = 0 /\ taken(p)' = <<>>
  <2>1. validated(p)' = 0 - 0
    BY <1>1 DEF validated, sizeDone, NoData, NewData
  <2>2. ~Reading(p)'  BY <1>1 DEF Reading
  <2>3. data'[p].bytes = <<>>  BY <1>1 DEF NoData, NewData
  <2>. QED  BY <2>1, <2>2, <2>3 DEF taken
<1>3. MovedBy' = [MovedBy EXCEPT ![p] = 0] /\ BytesOf' = [BytesOf EXCEPT ![p] = <<>>]
  BY <1>2, OneMoves
<1>4. Queue' = Queue  BY DEF Queue
<1>. QED  BY <1>1, <1>3, <1>4 DEF Fifo!Leave, MovedBy, BytesOf

\* The returns, and why a call may return r before it has moved all its bytes.
Gives(p) ==
  \/ TryLockBusy(p) \/ RetryBusy(p) \/ Finish(p)
  \/ AtEof(p) \/ WriteNoRoom(p) \/ ReadNothing(p)

Reason(p, r) ==
  \/ sizeDone(p) > 0 /\ r = Success(sizeDone(p))
  \/ sizeDone(p) = 0 /\ call[p].nb /\ r = Error("EWOULDBLOCK")
  \/ sizeDone(p) = 0 /\ (Reading(p) \/ Writing(p)) /\ isEOF /\ r = Error("EPIPE")

LEMMA GivesReason ==
  ASSUME QInv, NEW p \in Proc, Gives(p)
  PROVE  /\ call[p] # NoCall /\ validated(p) = sizeDone(p)
         /\ UNCHANGED <<start, end, isEOF, isEmpty, buf>>
         /\ \E r : Return(p, r) /\ Reason(p, r)
<1>1. /\ Counts(p) /\ CallOpen(p) /\ sizeDone(p) \in Nat
      /\ pc[p] \in {"lockSide", "lock", "retry", "reserve", "unlocked"}
  BY QInvTypes
  DEF QInv, IInv, Gives, TryLockBusy, RetryBusy, Retrying, Finish, AtEof, WriteNoRoom,
      ReadNothing, Reserving
<1>2. call[p] # NoCall /\ data[p].copied = 0  BY <1>1 DEF CallOpen, Begins
<1>3. validated(p) = sizeDone(p)  BY <1>1, <1>2 DEF validated
<1>4. retry(p) \/ sizeDone(p) = 0  BY <1>1 DEF retry
<1>5. UNCHANGED <<start, end, isEOF, isEmpty, buf>>
  BY DEF Gives, TryLockBusy, RetryBusy, Finish, AtEof, WriteNoRoom, ReadNothing, GiveUp, shared
<1>6. CASE TryLockBusy(p)
  <2>1. Reason(p, Error("EWOULDBLOCK"))  BY <1>1, <1>6 DEF TryLockBusy, Counts, Reason
  <2>. QED  BY <1>2, <1>3, <1>5, <1>6, <2>1 DEF TryLockBusy
<1>7. CASE RetryBusy(p) \/ Finish(p)
  <2>1. Reason(p, Success(sizeDone(p)))
    BY <1>1, <1>7 DEF RetryBusy, Retrying, Finish, Counts, Reason
  <2>. QED  BY <1>2, <1>3, <1>5, <1>7, <2>1 DEF RetryBusy, Finish
<1>8. CASE AtEof(p) \/ WriteNoRoom(p) \/ ReadNothing(p)
  <2>1. CASE retry(p)
    <3>1. Reason(p, Success(sizeDone(p)))  BY <2>1 DEF Reason, retry
    <3>2. Return(p, Success(sizeDone(p)))
      BY <1>8, <2>1 DEF AtEof, WriteNoRoom, ReadNothing, GiveUp
    <3>. QED  BY <1>2, <1>3, <1>5, <3>1, <3>2
  <2>2. CASE ~retry(p) /\ AtEof(p)
    <3>1. Reason(p, Error("EPIPE"))
      BY <1>2, <1>4, <2>2 DEF Reason, AtEof, Reading, Writing
    <3>. QED  BY <1>2, <1>3, <1>5, <2>2, <3>1 DEF AtEof
  <2>3. CASE ~retry(p) /\ (WriteNoRoom(p) \/ ReadNothing(p))
    <3>1. Reason(p, Error("EWOULDBLOCK"))
      BY <1>4, <2>3 DEF Reason, WriteNoRoom, ReadNothing, GiveUp
    <3>. QED
      BY <1>2, <1>3, <1>5, <2>3, <3>1 DEF WriteNoRoom, ReadNothing, GiveUp
  <2>. QED  BY <1>8, <2>1, <2>2, <2>3
<1>. QED  BY <1>6, <1>7, <1>8 DEF Gives

LEMMA FifoReturn ==
  ASSUME QInv, NEW p \in Proc, Gives(p)
  PROVE  Fifo!Return(p)
<1>1. /\ call[p] # NoCall /\ validated(p) = sizeDone(p)
      /\ UNCHANGED <<start, end, isEOF, isEmpty, buf>>
  BY GivesReason
<1>2. PICK r : Return(p, r) /\ Reason(p, r)  BY GivesReason
<1>3. Acts(p)  BY DEF Gives, Acts, Step
<1>4. Fifo!Leave(p, r) /\ Queue' = Queue  BY <1>1, <1>2, <1>3, FifoLeave
<1>5. MovedBy[p] = sizeDone(p)  BY <1>1 DEF MovedBy, validated
<1>. HIDE DEF Queue, MovedBy
<1>6. \/ MovedBy[p] > 0 /\ Fifo!Leave(p, Fifo!Success(MovedBy[p]))
      \/ MovedBy[p] = 0 /\ call[p].nb /\ Fifo!Leave(p, Fifo!Error("EWOULDBLOCK"))
      \/ MovedBy[p] = 0 /\ Fifo!In(p, "write") /\ isEOF /\ Fifo!Leave(p, Fifo!Error("EPIPE"))
      \/ MovedBy[p] = 0 /\ Fifo!In(p, "read") /\ isEOF /\ Fifo!Leave(p, Fifo!Error("EPIPE"))
  <2>1. CASE sizeDone(p) > 0 /\ r = Success(sizeDone(p))
    <3>1. r = Fifo!Success(MovedBy[p])
      BY <1>5, <2>1 DEF Success, Result, Fifo!Success
    <3>2. MovedBy[p] > 0  BY <1>5, <2>1
    <3>3. Fifo!Leave(p, Fifo!Success(MovedBy[p]))  BY <1>4, <3>1 DEF Fifo!Leave
    <3>. QED  BY <3>2, <3>3
  <2>2. CASE sizeDone(p) = 0 /\ call[p].nb /\ r = Error("EWOULDBLOCK")
    <3>1. r = Fifo!Error("EWOULDBLOCK")  BY <2>2 DEF Error, Result, Fifo!Error
    <3>2. MovedBy[p] = 0 /\ Fifo!Leave(p, Fifo!Error("EWOULDBLOCK"))
      BY <1>4, <1>5, <2>2, <3>1
    <3>3. call[p].nb  BY <2>2
    <3>. QED  BY <3>2, <3>3
  <2>3. CASE sizeDone(p) = 0 /\ (Reading(p) \/ Writing(p)) /\ isEOF /\ r = Error("EPIPE")
    <3>1. r = Fifo!Error("EPIPE")  BY <2>3 DEF Error, Result, Fifo!Error
    <3>2. Fifo!In(p, "write") \/ Fifo!In(p, "read")
      BY <2>3 DEF Reading, Writing, Fifo!In
    <3>. QED  BY <1>4, <1>5, <2>3, <3>1, <3>2
  <2>. QED  BY <1>2, <2>1, <2>2, <2>3 DEF Reason
<1>. QED  BY <1>1, <1>4, <1>6 DEF Fifo!Return, MovedBy, Queue

LEMMA FifoPutEof ==
  ASSUME QInv, NEW p \in Proc, WriteEof(p)
  PROVE  Fifo!PutEof(p)
<1>1. Acts(p)  BY DEF Acts, Step
<1>2. /\ pc[p] = "reserve" /\ call[p].op = "write_eof" /\ Return(p, Success(0))
      /\ isEOF' = TRUE /\ UNCHANGED <<start, end, isEmpty, buf>>
  BY DEF WriteEof, Reserving
<1>3. call[p] # NoCall  BY <1>2, QInvTypes DEF IInv, CallOpen
<1>4. Fifo!Leave(p, Success(0)) /\ Queue' = Queue  BY <1>1, <1>2, FifoLeave
<1>5. Success(0) = Fifo!Success(0)  BY DEF Success, Result, Fifo!Success
<1>6. Fifo!Leave(p, Fifo!Success(0))  BY <1>4, <1>5
<1>. QED  BY <1>2, <1>3, <1>4, <1>6 DEF Fifo!PutEof, Fifo!In, Queue

\* The steps that are neither a return nor the end of a round.
LEMMA FifoEnter ==
  ASSUME QInv, NEW p \in Proc, NEW c \in Calls[p], Refuse(p, c) \/ Enter(p, c)
  PROVE  Fifo!Refuse(p, c) \/ Fifo!Enter(p, c)
<1>1. /\ SInv /\ pc[p] = "idle" /\ Acts(p)
      /\ call[p] = NoCall /\ data[p] = NoData
  BY QInvTypes DEF Refuse, Enter, QInv, Counts, Acts, Invoke
<1>2. CASE Refuse(p, c)
  <2>1. UNCHANGED <<start, end, isEOF, isEmpty, buf, call, data>>
    BY <1>2 DEF Refuse, shared
  <2>2. Queue' = Queue  BY <2>1 DEF Queue
  <2>3. MovedBy' = MovedBy /\ BytesOf' = BytesOf
    BY <2>1 DEF MovedBy, BytesOf, sizeDone, Reading
  <2>4. \/ isEOF /\ c.op = "write_eof" /\ ret' = [ret EXCEPT ![p] = Fifo!Success(0)]
        \/ isEOF /\ c.op # "write_eof" /\ ret' = [ret EXCEPT ![p] = Fifo!Error("EPIPE")]
        \/ c.count = 0 /\ ret' = [ret EXCEPT ![p] = Fifo!Error("EINVAL")]
    BY <1>2 DEF Refuse, EofResult, Success, Error, Result, Fifo!Success, Fifo!Error
  <2>. QED
    BY <1>1, <2>1, <2>2, <2>3, <2>4 DEF Fifo!Refuse, Queue, MovedBy, BytesOf
<1>3. CASE Enter(p, c)
  <2>. DEFINE b == IF c.op = "write" THEN Payload(p, c.count) ELSE <<>>
  <2>1. /\ UNCHANGED <<start, end, isEOF, isEmpty, buf>>
        /\ call' = [call EXCEPT ![p] = c] /\ call'[p] = c
        /\ ret' = [ret EXCEPT ![p] = Fifo!NoRet]
        /\ data'[p] = NewData(b)
    BY <1>1, <1>3, SidesTypes DEF Enter, shared, NoRet, Result, Fifo!NoRet
  <2>2. b \in Seq(Byte) /\ Len(b) = IF c.op = "write" THEN c.count ELSE 0
    <3>1. c.count \in Nat /\ stamp[p] \in 0 .. Stamps - 1
      BY QInvTypes DEF IInv, TypeOK, CallRecord
    <3>2. <<>> \in Seq(Byte) /\ Len(<<>>) = 0  BY EmptySeq
    <3>. QED  BY <3>1, <3>2, PayloadType
  <2>3. validated(p)' = 0
    <3>1. validated(p)' = 0 - 0  BY <2>1 DEF validated, sizeDone, NewData
    <3>. QED  BY <3>1
  <2>4. taken(p)' = b
    <3>1. data'[p].bytes = b  BY <2>1 DEF NewData
    <3>2. CASE c.op = "read"
      <4>1. b = <<>> /\ SubSeq(b, 1, 0) = <<>>  BY <3>2, SubSeqEmpty
      <4>. QED  BY <2>3, <3>1, <4>1 DEF taken
    <3>3. CASE c.op # "read"
      <4>1. ~Reading(p)'  BY <2>1, <3>3 DEF Reading
      <4>. QED  BY <3>1, <4>1 DEF taken
    <3>. QED  BY <3>2, <3>3
  <2>. HIDE DEF b
  <2>5. /\ MovedBy' = [MovedBy EXCEPT ![p] = 0]
        /\ BytesOf' = [BytesOf EXCEPT ![p] = b]
    BY <1>1, <2>3, <2>4, OneMoves
  <2>6. MovedBy' = MovedBy
    <3>1. MovedBy[p] = 0 - 0  BY <1>1 DEF MovedBy, sizeDone, NoData, NewData
    <3>2. MovedBy[p] = 0  BY <3>1
    <3>. QED  BY <2>5, <3>2 DEF MovedBy
  <2>7. BytesOf'[p] = b  BY <2>5 DEF BytesOf
  <2>8. Queue' = Queue  BY <2>1 DEF Queue
  <2>. QED
    BY <1>1, <2>1, <2>2, <2>5, <2>6, <2>7, <2>8
    DEF Fifo!Enter, Queue, MovedBy, BytesOf
<1>. QED  BY <1>2, <1>3

\* Locking, waiting, reserving and waking up is nothing to the queue.
LEMMA FifoStutter ==
  ASSUME QInv, NEW p \in Proc,
         \/ LockSide(p) \/ Acquire(p) \/ SpuriousWakeup(p)
         \/ WriteWait(p) \/ ReadWait(p) \/ WriteReserve(p) \/ ReadReserve(p)
         \/ WakeOtherSide(p)
  PROVE  UNCHANGED Fifo!vars
<1>1. SInv /\ Acts(p) /\ data[p] \in DataType  BY QInvTypes DEF Acts, Step
<1>2. /\ UNCHANGED <<start, end, isEOF, isEmpty, buf, call, ret>>
  BY DEF LockSide, Acquire, SpuriousWakeup, WriteWait, ReadWait, WriteReserve, ReadReserve,
         WakeOtherSide, shared
<1>3. /\ data'[p].sizeReallyManipulate = data[p].sizeReallyManipulate
      /\ data'[p].copied = data[p].copied /\ data'[p].bytes = data[p].bytes
  BY <1>1, SidesTypes
  DEF LockSide, Acquire, SpuriousWakeup, WriteWait, ReadWait, WriteReserve, ReadReserve,
      StartCopy, WakeOtherSide, DataType
<1>4. validated(p)' = validated(p) /\ Reading(p)' = Reading(p)
  BY <1>2, <1>3 DEF validated, sizeDone, Reading
<1>5. taken(p)' = taken(p)  BY <1>3, <1>4 DEF taken
<1>6. MovedBy' = MovedBy /\ BytesOf' = BytesOf  BY <1>1, <1>4, <1>5, NoneMoves
<1>7. Queue' = Queue  BY <1>2 DEF Queue
<1>. QED  BY <1>2, <1>6, <1>7 DEF Fifo!vars, MovedBy, BytesOf, Queue

\* A byte that is copied is in no cell of the queue yet.
LEMMA QueueUncopied ==
  ASSUME QInv, NEW p \in Proc, CopyByte(p)
  PROVE  Queue' = Queue
<1>1. /\ Claims(p) /\ UNCHANGED <<start, end, isEmpty>>
      /\ data[p].copied < data[p].sizeToManipulate
      /\ nextCell(p) = Wrap(data[p].from + data[p].copied) /\ nextCell(p) \in Index
      /\ \/ /\ Writing(p)
            /\ buf' = [buf EXCEPT ![nextCell(p)] = data[p].bytes[sizeDone(p) + 1]]
         \/ UNCHANGED buf
  BY CopyMoves
<1>2. CASE UNCHANGED buf  BY <1>1, <1>2 DEF Queue
<1>3. CASE Writing(p) /\ buf' = [buf EXCEPT ![nextCell(p)] = data[p].bytes[sizeDone(p) + 1]]
  <2>. DEFINE j == data[p].copied + 1
  <2>1. WriteClaim(p) /\ data[p].copied \in Nat /\ data[p].sizeToManipulate \in Nat
    BY <1>1, <1>3, RoundOf, QInvTypes
  <2>2. /\ start \in Index /\ end \in Index /\ isEmpty \in BOOLEAN /\ (isEmpty => start = end)
        /\ used \in 0 .. SizeMax /\ used = Used(start, end, isEmpty)
        /\ buf \in [Index -> Byte] /\ buf' \in [Index -> Byte]
    <3>1. IInv'  BY QInvTypes, CopyByteInv
    <3>. QED  BY <3>1, QInvTypes, SidesTypes DEF SInv, Indices, used, IInv, TypeOK
  <2>3. j \in 1 .. SizeMax - used /\ nextCell(p) = Wrap(end + j - 1)
    <3>1. data[p].from = end /\ data[p].sizeToManipulate \in 1 .. SizeMax - used
      BY <2>1 DEF WriteClaim
    <3>2. end + j - 1 = end + data[p].copied  BY <2>1, <2>2 DEF Index
    <3>. QED  BY <1>1, <2>1, <2>2, <3>1, <3>2
  <2>. HIDE DEF j
  <2>4. \A i \in 1 .. used : Wrap(start + i - 1) \in Index  BY ONLY <2>2, ContentsCells
  <2>5. ASSUME NEW i \in 1 .. used
        PROVE  buf'[Wrap(start + i - 1)] = buf[Wrap(start + i - 1)]
    <3>1. Wrap(start + i - 1) # nextCell(p)  BY <2>2, <2>3, FreeCells
    <3>. QED  BY <1>3, <2>2, <2>4, <3>1
  <2>6. \A i \in 1 .. Used(start, end, isEmpty) :
          buf'[Wrap(start + i - 1)] = buf[Wrap(start + i - 1)]
    BY <2>2, <2>5
  <2>7. Contents(buf', start, end, isEmpty) = Contents(buf, start, end, isEmpty)
    <3>1. start \in Index /\ end \in Index  BY <2>2
    <3>2. isEmpty \in BOOLEAN  BY <2>2
    <3>. QED  BY ONLY <2>6, <3>1, <3>2, ContentsUntouched
  <2>. QED  BY <1>1, <2>7 DEF Queue
<1>. QED  BY <1>1, <1>2, <1>3

LEMMA BytesKept ==
  \A s \in Seq(Byte), x \in Byte, n \in Nat :
    n <= Len(s) => SubSeq(Append(s, x), 1, n) = SubSeq(s, 1, n)
BY HeadKept

LEMMA FifoCopy ==
  ASSUME QInv, NEW p \in Proc, CopyByte(p)
  PROVE  UNCHANGED Fifo!vars
<1>1. /\ Acts(p) /\ Claims(p) /\ UNCHANGED <<isEOF, call, ret>>
      /\ data'[p].copied = data[p].copied + 1 /\ sizeDone(p)' = sizeDone(p) + 1
      /\ \/ Writing(p) /\ data'[p].bytes = data[p].bytes
         \/ Reading(p) /\ data'[p].bytes = Append(data[p].bytes, buf[nextCell(p)])
  BY CopyMoves DEF Acts, Step
<1>2. /\ data[p].copied \in Nat /\ sizeDone(p) \in Nat /\ data[p].copied <= sizeDone(p)
      /\ data[p].bytes \in Seq(Byte) /\ buf[nextCell(p)] \in Byte
      /\ (Reading(p) <=> ~Writing(p)) /\ (Reading(p) => Len(data[p].bytes) = sizeDone(p))
  BY <1>1, QInvTypes, RoundOf, CopyMoves DEF PieceOf, QInv, Counts
<1>3. validated(p)' = validated(p) /\ validated(p) \in 0 .. sizeDone(p)
  <2>1. /\ validated(p) = sizeDone(p) - data[p].copied
        /\ validated(p)' = (sizeDone(p) + 1) - (data[p].copied + 1)
    BY <1>1 DEF validated
  <2>. QED  BY <1>2, <2>1
<1>4. Reading(p)' = Reading(p)  BY <1>1 DEF Reading
<1>5. taken(p)' = taken(p)
  <2>1. CASE Writing(p)  BY <1>1, <1>2, <1>3, <1>4, <2>1 DEF taken
  <2>2. CASE Reading(p)
    <3>1. data'[p].bytes = Append(data[p].bytes, buf[nextCell(p)])
      BY <1>1, <1>2, <2>2
    <3>2. validated(p) \in 0 .. Len(data[p].bytes)  BY <1>2, <1>3, <2>2
    <3>. DEFINE s == data[p].bytes
                x == buf[nextCell(p)]
                n == validated(p)
    <3>3. s \in Seq(Byte) /\ x \in Byte /\ n \in Nat /\ n <= Len(s)  BY <1>2, <1>3, <3>2
    <3>. HIDE DEF s, x, n
    <3>4. SubSeq(Append(s, x), 1, n) = SubSeq(s, 1, n)  BY ONLY <3>3, BytesKept
    <3>5. SubSeq(data'[p].bytes, 1, validated(p)) = SubSeq(data[p].bytes, 1, validated(p))
      BY <3>1, <3>4 DEF s, x, n
    <3>6. taken(p) = SubSeq(data[p].bytes, 1, validated(p))  BY <2>2 DEF taken
    <3>7. Reading(p)'  BY <1>4, <2>2
    <3>8. taken(p)' = SubSeq(data'[p].bytes, 1, validated(p)')  BY <3>7 DEF taken
    <3>9. validated(p)' = validated(p)  BY <1>3
    <3>. QED  BY ONLY <3>5, <3>6, <3>8, <3>9
  <2>. QED  BY <1>2, <2>1, <2>2
<1>6. MovedBy' = MovedBy /\ BytesOf' = BytesOf  BY <1>1, <1>3, <1>5, NoneMoves
<1>7. Queue' = Queue  BY QueueUncopied
<1>. QED  BY <1>1, <1>6, <1>7 DEF Fifo!vars, MovedBy, BytesOf, Queue

\* A round is over when it is validated; its data stays.
LEMMA ValidateMoves ==
  ASSUME QInv, NEW p \in Proc, ReadValidate(p) \/ WriteValidate(p)
  PROVE  /\ Acts(p) /\ Claims(p) /\ UNCHANGED <<isEOF, buf, call, ret>>
         /\ data[p].copied = data[p].sizeToManipulate
         /\ data'[p].bytes = data[p].bytes
         /\ validated(p)' = sizeDone(p)
         /\ sizeDone(p) = validated(p) + data[p].sizeToManipulate
         /\ validated(p) \in Nat
<1>1. /\ SInv /\ data[p] \in DataType /\ sizeDone(p) \in Nat /\ data[p].copied \in Nat
      /\ pc[p] = "validate" /\ Claims(p) /\ Acts(p)
  BY QInvTypes DEF ReadValidate, WriteValidate, Validating, Claims, Claiming, Acts, Step
<1>2. data[p].copied = data[p].sizeToManipulate /\ data[p].copied <= sizeDone(p)
  BY <1>1, RoundOf DEF QInv, Counts, PieceOf
<1>3. /\ data'[p].sizeReallyManipulate = data[p].sizeReallyManipulate
      /\ data'[p].copied = 0 /\ data'[p].bytes = data[p].bytes
  BY <1>1, SidesTypes DEF ReadValidate, WriteValidate, DataType
<1>4. UNCHANGED <<isEOF, buf, call, ret>>
  BY DEF ReadValidate, WriteValidate
<1>5. validated(p)' = sizeDone(p)
  <2>1. validated(p)' = data[p].sizeReallyManipulate - 0
    BY <1>3 DEF validated, sizeDone
  <2>. QED  BY <1>1, <2>1 DEF sizeDone
<1>6. sizeDone(p) = validated(p) + data[p].sizeToManipulate /\ validated(p) \in Nat
  <2>1. validated(p) = sizeDone(p) - data[p].copied  BY DEF validated
  <2>. QED  BY <1>1, <1>2, <2>1
<1>. QED  BY <1>1, <1>2, <1>3, <1>4, <1>5, <1>6

\* Validating a write puts its piece, whole.
LEMMA FifoPut ==
  ASSUME QInv, NEW p \in Proc, WriteValidate(p)
  PROVE  Fifo!Put(p)
<1>. DEFINE n == data[p].sizeToManipulate
            piece == SubSeq(data[p].bytes, 1, n)
<1>1. /\ Acts(p) /\ Claims(p) /\ UNCHANGED <<isEOF, buf, call, ret>>
      /\ data[p].copied = n /\ data'[p].bytes = data[p].bytes
      /\ validated(p)' = sizeDone(p) /\ sizeDone(p) = validated(p) + n
  BY ValidateMoves
<1>2. SInv /\ buf \in [Index -> Byte] /\ data[p].bytes \in Seq(Byte)  BY QInvTypes
<1>3. Writing(p) /\ ~Reading(p)
  BY <1>1, <1>2, RoundOf, ClaimsAreRounds DEF WriteValidate, Validating
<1>4. /\ WriteClaim(p) /\ PieceOf(p) /\ Copied(p) /\ call[p].count \in Nat
      /\ data[p].from \in Index /\ n \in 1 .. SizeMax
  BY <1>1, <1>3, RoundOf
<1>5. /\ ~isEOF /\ validated(p) = 0 /\ n = call[p].count /\ n <= SizeAtom
      /\ data[p].from = end /\ n \in 1 .. SizeMax - used
  BY <1>3, <1>4 DEF PieceOf, WriteClaim
<1>6. /\ start \in Index /\ end \in Index /\ isEmpty \in BOOLEAN /\ (isEmpty => start = end)
      /\ used \in 0 .. SizeMax /\ used = Used(start, end, isEmpty)
  BY <1>2, SidesTypes DEF SInv, Indices, used
<1>7. start' = start /\ end' = Wrap(end + n) /\ end' \in Index /\ isEmpty' = FALSE
  <2>1. end' = (end + n) % SizeMax  BY <1>5 DEF WriteValidate, localTmp
  <2>2. n \in 0 .. SizeMax  BY <1>4
  <2>. QED  BY <1>6, <2>1, <2>2, RoundWraps DEF WriteValidate
<1>8. Len(data[p].bytes) = n
  <2>1. pc[p] # "idle" /\ call[p].op = "write"
    BY <1>1, <1>3 DEF Claims, Claiming, Writing
  <2>2. Len(data[p].bytes) = call[p].count
    BY <1>2, <2>1 DEF SInv, IInv, CallOpen
  <2>. QED  BY <1>5, <2>2
<1>. HIDE DEF n
<1>9. /\ piece \in Seq(Byte) /\ Len(piece) = n
      /\ \A j \in 1 .. n : piece[j] = data[p].bytes[j]
  <2>1. n \in 0 .. Len(data[p].bytes)  BY <1>4, <1>8
  <2>. QED  BY <1>2, <2>1, HeadOf
<1>. HIDE DEF piece
<1>10. \A j \in 1 .. n : buf[Wrap(end + j - 1)] = piece[j]
  BY <1>1, <1>4, <1>5, <1>9 DEF Copied
<1>11. Contents(buf, start, end', isEmpty') = Contents(buf, start, end, isEmpty) \o piece
  <2>1. n \in 1 .. SizeMax - Used(start, end, isEmpty)  BY <1>5, <1>6
  <2>2. isEmpty' \in BOOLEAN /\ ~isEmpty'  BY <1>7
  <2>3. Fills(Byte, buf, start, end, isEmpty, n, piece, end', isEmpty')
    BY <1>2, <1>6, <1>7, <1>9, <1>10, <2>1, <2>2 DEF Fills
  <2>. QED  BY ONLY <2>3, ContentsAppended
<1>12. Queue' = Queue \o piece  BY <1>1, <1>7, <1>11 DEF Queue
<1>13. Len(Queue) + n <= SizeMax
  <2>1. Len(Queue) = used  BY <1>2, <1>6, ContentsCells DEF Queue
  <2>. QED  BY <1>5, <1>6, <2>1
<1>14. validated(p)' = n /\ taken(p)' = data[p].bytes /\ taken(p) = data[p].bytes
  <2>1. validated(p)' = 0 + n  BY <1>1, <1>5
  <2>2. ~Reading(p)'  BY <1>1, <1>3 DEF Reading
  <2>. QED  BY <1>1, <1>3, <1>4, <2>1, <2>2 DEF taken
<1>15. /\ MovedBy' = [MovedBy EXCEPT ![p] = n]
       /\ BytesOf' = [BytesOf EXCEPT ![p] = data[p].bytes]
  BY <1>1, <1>14, OneMoves
<1>16. MovedBy[p] = 0 /\ BytesOf[p] = data[p].bytes
  BY <1>5, <1>14 DEF MovedBy, BytesOf, validated, taken
<1>17. BytesOf' = BytesOf  BY <1>15, <1>16 DEF BytesOf
<1>18. Fifo!left(p) = n  BY <1>4, <1>5, <1>16 DEF Fifo!left, MovedBy
<1>19. Fifo!In(p, "write")  BY <1>3 DEF Writing, Fifo!In
<1>20. n > 0 /\ ~(n > SizeAtom) /\ 0 + n = n  BY <1>4, <1>5
<1>21. Queue' = Queue \o SubSeq(BytesOf[p], MovedBy[p] + 1, MovedBy[p] + n)
  <2>1. MovedBy[p] + 1 = 1 /\ MovedBy[p] + n = n  BY <1>4, <1>16
  <2>2. SubSeq(BytesOf[p], MovedBy[p] + 1, MovedBy[p] + n) = piece
    BY ONLY <1>16, <2>1 DEF piece
  <2>. QED  BY ONLY <1>12, <2>2
<1>22. MovedBy' = [MovedBy EXCEPT ![p] = @ + n]  BY <1>15, <1>16, <1>20
<1>. QED
  BY <1>1, <1>5, <1>13, <1>17, <1>18, <1>19, <1>20, <1>21, <1>22
  DEF Fifo!Put, Queue, MovedBy, BytesOf

\* Validating a read takes its bytes from the head.
LEMMA FifoGet ==
  ASSUME QInv, NEW p \in Proc, ReadValidate(p)
  PROVE  Fifo!Get(p)
<1>. DEFINE n == data[p].sizeToManipulate
            v == validated(p)
            bytes == data[p].bytes
<1>1. /\ Acts(p) /\ Claims(p) /\ UNCHANGED <<isEOF, buf, call, ret>>
      /\ data[p].copied = n /\ data'[p].bytes = bytes
      /\ validated(p)' = sizeDone(p) /\ sizeDone(p) = v + n /\ v \in Nat
  BY ValidateMoves
<1>2. SInv /\ buf \in [Index -> Byte] /\ bytes \in Seq(Byte)  BY QInvTypes
<1>3. Reading(p)
  BY <1>1, <1>2, ClaimsAreRounds DEF ReadValidate, Validating
<1>4. /\ ReadClaim(p) /\ PieceOf(p) /\ Copied(p) /\ call[p].count \in Nat
      /\ n \in 1 .. SizeMax
  BY <1>1, <1>3, RoundOf
<1>5. /\ v + n <= call[p].count /\ n <= SizeAtom
      /\ data[p].from = start /\ n \in 1 .. used
  BY <1>4 DEF PieceOf, ReadClaim
<1>6. /\ start \in Index /\ end \in Index /\ isEmpty \in BOOLEAN
      /\ used \in 0 .. SizeMax /\ used = Used(start, end, isEmpty)
  BY <1>2, SidesTypes DEF used
<1>7. isEmpty = FALSE
  BY <1>5, <1>6 DEF Used, ReadAvailable
<1>8. /\ end' = end /\ start' = Wrap(start + n) /\ start' \in Index
      /\ isEmpty' \in BOOLEAN /\ (isEmpty' <=> start' = end)
  <2>1. start' = (start + n) % SizeMax  BY <1>5 DEF ReadValidate, localTmp
  <2>2. n \in 0 .. SizeMax  BY <1>4
  <2>3. isEmpty' = EmptyAfterRead(start')  BY DEF ReadValidate
  <2>4. isEmpty' = (start' = end)  BY <1>7, <2>3 DEF EmptyAfterRead
  <2>. QED  BY <1>6, <2>1, <2>2, <2>4, RoundWraps DEF ReadValidate
<1>. HIDE DEF n, v, bytes
<1>9. Len(bytes) = v + n
  BY <1>1, <1>3 DEF QInv, Counts, bytes
<1>10. /\ Queue \in Seq(Byte) /\ Len(Queue) = used
       /\ \A i \in 1 .. used : Queue[i] = buf[Wrap(start + i - 1)]
  <2>1. start \in Index /\ end \in Index /\ isEmpty \in BOOLEAN  BY <1>6
  <2>2. buf \in [Index -> Byte]  BY <1>2
  <2>3. /\ Queue \in Seq(Byte) /\ Len(Queue) = Used(start, end, isEmpty)
        /\ \A i \in 1 .. Used(start, end, isEmpty) : Queue[i] = buf[Wrap(start + i - 1)]
    BY <2>1, <2>2, ContentsCells DEF Queue
  <2>. QED  BY <1>6, <2>3
<1>11. Queue' = SubSeq(Queue, n + 1, Len(Queue))
  <2>1. n \in 1 .. Used(start, end, isEmpty)  BY <1>5, <1>6
  <2>2. isEmpty \in BOOLEAN /\ ~isEmpty  BY <1>7
  <2>3. Frees(Byte, buf, start, end, isEmpty, n, start', isEmpty')
    BY <1>2, <1>6, <1>8, <2>1, <2>2 DEF Frees
  <2>4. Contents(buf, start', end, isEmpty')
          = SubSeq(Contents(buf, start, end, isEmpty), n + 1,
                   Len(Contents(buf, start, end, isEmpty)))
    BY ONLY <2>3, ContentsTaken
  <2>. QED  BY <1>1, <1>8, <2>4 DEF Queue
<1>12. \A k \in 1 .. n : Queue[k] = bytes[v + k]
  <2>1. \A k \in 1 .. n : buf[Wrap(start + k - 1)] = bytes[v + k]
    BY <1>1, <1>4, <1>5 DEF Copied, v, bytes
  <2>. QED  BY <1>5, <1>6, <1>10, <2>1
<1>13. SubSeq(bytes, 1, v + n) = SubSeq(bytes, 1, v) \o SubSeq(Queue, 1, n)
  <2>1. n \in Nat /\ v + n <= Len(bytes) /\ n <= Len(Queue)
    BY <1>1, <1>4, <1>5, <1>6, <1>9, <1>10
  <2>2. bytes \in Seq(Byte) /\ Queue \in Seq(Byte) /\ v \in Nat
    BY <1>1, <1>2, <1>10
  <2>. QED  BY ONLY <1>12, <2>1, <2>2, HeadGrows
<1>14. /\ validated(p)' = v + n
       /\ taken(p)' = SubSeq(bytes, 1, v) \o SubSeq(Queue, 1, n)
  <2>1. Reading(p)'  BY <1>1, <1>3 DEF Reading
  <2>. QED  BY <1>1, <1>13, <2>1 DEF taken
<1>15. /\ MovedBy' = [MovedBy EXCEPT ![p] = v + n]
       /\ BytesOf' = [BytesOf EXCEPT ![p] = SubSeq(bytes, 1, v) \o SubSeq(Queue, 1, n)]
  <2>. DEFINE m == v + n
              b == SubSeq(bytes, 1, v) \o SubSeq(Queue, 1, n)
  <2>1. validated(p)' = m /\ taken(p)' = b  BY <1>14
  <2>. HIDE DEF m, b
  <2>2. /\ MovedBy' = [MovedBy EXCEPT ![p] = m]
        /\ BytesOf' = [BytesOf EXCEPT ![p] = b]
    BY <1>1, <2>1, OneMoves
  <2>. QED  BY <2>2 DEF m, b
<1>16. MovedBy[p] = v /\ BytesOf[p] = SubSeq(bytes, 1, v)
  BY <1>3 DEF MovedBy, BytesOf, validated, v, bytes
<1>17. /\ MovedBy' = [MovedBy EXCEPT ![p] = @ + n]
       /\ BytesOf' = [BytesOf EXCEPT ![p] = @ \o SubSeq(Queue, 1, n)]
  BY <1>15, <1>16
<1>18. n <= Fifo!left(p)
  <2>1. Fifo!left(p) = call[p].count - v  BY <1>16 DEF Fifo!left, MovedBy
  <2>. QED  BY <1>1, <1>4, <1>5, <2>1
<1>19. Fifo!In(p, "read")  BY <1>3 DEF Reading, Fifo!In
<1>20. n \in 1 .. Len(Queue)  BY <1>5, <1>10
<1>. QED
  BY <1>1, <1>5, <1>11, <1>17, <1>18, <1>19, <1>20
  DEF Fifo!Get, Queue, MovedBy, BytesOf

LEMMA FifoNext ==
  ASSUME BlockingOneRoundWrites, QInv, [Next]_vars
  PROVE  [Fifo!Next]_Fifo!vars
<1>1. CASE UNCHANGED vars
  <2>1. UNCHANGED <<start, end, isEOF, isEmpty, buf, call, data, ret>>
    BY <1>1 DEF vars, shared
  <2>2. Queue' = Queue  BY <2>1 DEF Queue
  <2>3. MovedBy' = MovedBy /\ BytesOf' = BytesOf
    BY <2>1 DEF MovedBy, BytesOf, sizeDone, Reading
  <2>. QED  BY <2>1, <2>2, <2>3 DEF Fifo!vars, Queue, MovedBy, BytesOf
<1>2. ASSUME NEW p \in Proc, Acts(p)
      PROVE  Fifo!Next \/ UNCHANGED Fifo!vars
  <2>1. ~WaitTurn(p)  BY DEF WaitTurn, BlockingOneRoundWrites
  <2>2. ~CopyCrash(p)
    <3>1. SUFFICES ASSUME CopyCrash(p) PROVE FALSE  OBVIOUS
    <3>2. SInv /\ pc[p] = "copy" /\ Claims(p)
      BY <3>1, QInvTypes DEF CopyCrash, Claims, Claiming
    <3>3. ExactCopy(p)
      BY <3>2, ClaimsAreRounds DEF QInv, FInv, SInv, ReadsFresh, WritesOnce
    <3>4. rest(p) > 0 /\ rest(p) \in Int
      BY <3>2, <3>3, ExactCopyGoesOn, SidesTypes, RoundOf DEF rest
    <3>. QED  BY <3>1, <3>4 DEF CopyCrash
  <2>3. CASE Invoke(p)
    <3>1. PICK c \in Calls[p] : Refuse(p, c) \/ Enter(p, c)  BY <2>3 DEF Invoke
    <3>2. Fifo!Refuse(p, c) \/ Fifo!Enter(p, c)  BY <3>1, FifoEnter
    <3>. QED  BY <3>2 DEF Fifo!Next
  <2>4. CASE Gives(p)  BY <2>4, FifoReturn DEF Fifo!Next
  <2>5. CASE WriteEof(p)  BY <2>5, FifoPutEof DEF Fifo!Next
  <2>6. CASE \/ LockSide(p) \/ Acquire(p) \/ SpuriousWakeup(p)
             \/ WriteWait(p) \/ ReadWait(p) \/ WriteReserve(p) \/ ReadReserve(p)
             \/ WakeOtherSide(p)
    BY <2>6, FifoStutter
  <2>7. CASE CopyByte(p)  BY <2>7, FifoCopy
  <2>8. CASE WriteValidate(p)  BY <2>8, FifoPut DEF Fifo!Next
  <2>9. CASE ReadValidate(p)  BY <2>9, FifoGet DEF Fifo!Next
  <2>. QED
    BY <1>2, <2>1, <2>2, <2>3, <2>4, <2>5, <2>6, <2>7, <2>8, <2>9 DEF Acts, Step, Gives
<1>. QED  BY <1>1, <1>2 DEF Next, Acts

LEMMA FifoInit == Init => Fifo!Init
<1>. SUFFICES ASSUME Init PROVE Fifo!Init  OBVIOUS
<1>1. Queue = <<>>
  BY DEF Init, Queue, Contents, Used, ReadAvailable
<1>2. MovedBy = [p \in Proc |-> 0]
  <2>1. \A p \in Proc : sizeDone(p) - data[p].copied = 0 - 0
    BY DEF Init, NoData, NewData, sizeDone
  <2>. QED  BY <2>1 DEF MovedBy
<1>3. BytesOf = [p \in Proc |-> <<>>]
  BY DEF Init, BytesOf, Reading, NoData, NewData
<1>. QED
  BY <1>1, <1>2, <1>3
  DEF Init, Fifo!Init, Queue, MovedBy, BytesOf, NoRet, Result, Fifo!NoRet

(***************************************************************************)
(* Although bytes are copied without the mutex, readers and writers at the *)
(* same time, a conduit of the SPSC build is a queue of bytes for those    *)
(* who call it: a write enters it whole and at once when it moves end, a   *)
(* read leaves it when it moves start (concurrentconduct.c:859-1071), and  *)
(* a byte is read once, in the order written.                              *)
(***************************************************************************)
THEOREM SidesAreFifo ==
  ASSUME BlockingOneRoundWrites, ReadsStayFresh
  PROVE  Spec => ImplementsFifo
<1>1. QInv /\ [Next]_vars => QInv'  BY QInvNext
<1>2. QInv /\ [Next]_vars => [Fifo!Next]_Fifo!vars  BY FifoNext
<1>. QED  BY QInvInit, FifoInit, <1>1, <1>2, PTL DEF Spec, ImplementsFifo, Fifo!Spec
=============================================================================
