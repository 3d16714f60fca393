----------------------- MODULE CircularBufferProofs -----------------------
(***************************************************************************)
(* What the index arithmetic of CircularBuffer guarantees, for every size  *)
(* of the buffer.                                                          *)
(***************************************************************************)
EXTENDS CircularBuffer, SequenceTheorems, TLAPS

(***************************************************************************)
(* Whatever the two sticky fields hold, a round that may go without        *)
(* passing only when it stays before the last cell keeps the indices       *)
(* inside the buffer, also when it stops halfway (n bytes of Moved).       *)
(***************************************************************************)
LEMMA RoundStaysInside ==
  ASSUME NEW from \in Index, NEW size \in 1 .. SizeMax,
         NEW pass \in BOOLEAN, NEW old \in Index,
         ~pass => from + size < SizeMax
  PROVE  LET second == SecondLimit(from, size, pass, old)
         IN  /\ second \in Index
             /\ Moved(from, size, pass, second) \in Nat \ {0}
             /\ ~pass => Moved(from, size, pass, second) = size
             /\ \A n \in 0 .. Moved(from, size, pass, second) :
                  /\ IndexAfter(from, pass, n) \in Index
                  /\ \A k \in 1 .. n : CellOf(from, pass, k) \in Index
                  /\ \A c \in Index : ByteOfCell(from, pass, n, c) \in 0 .. n
<1> DEFINE second == SecondLimit(from, size, pass, old)
<1>1. second \in Index
  BY SizeAssumption DEF SecondLimit, Index
<1>2. CASE pass
  <2>1. Moved(from, size, pass, second) = SizeMax - from + second
    BY <1>1, <1>2, SizeAssumption DEF Moved, FirstLimit, Index
  <2> HIDE DEF second
  <2>2. Moved(from, size, pass, second) \in Nat \ {0}
    BY <1>1, <2>1, SizeAssumption DEF Index
  <2>3. ASSUME NEW n \in 0 .. (SizeMax - from + second)
        PROVE  /\ IndexAfter(from, pass, n) \in Index
               /\ \A k \in 1 .. n : CellOf(from, pass, k) \in Index
               /\ \A c \in Index : ByteOfCell(from, pass, n, c) \in 0 .. n
    BY <1>1, <1>2, SizeAssumption DEF Index, IndexAfter, CellOf, ByteOfCell
  <2> QED
    BY <1>1, <1>2, <2>1, <2>2, <2>3 DEF second
<1>3. CASE ~pass
  <2>1. Moved(from, size, pass, second) = size
    BY <1>1, <1>3, SizeAssumption DEF Moved, FirstLimit, Index
  <2> HIDE DEF second
  <2>2. ASSUME NEW n \in 0 .. size
        PROVE  /\ IndexAfter(from, pass, n) \in Index
               /\ \A k \in 1 .. n : CellOf(from, pass, k) \in Index
               /\ \A c \in Index : ByteOfCell(from, pass, n, c) \in 0 .. n
    BY <1>3, SizeAssumption DEF Index, IndexAfter, CellOf, ByteOfCell
  <2> QED
    BY <1>1, <1>3, <2>1, <2>2 DEF second
<1> QED
  BY <1>2, <1>3

(***************************************************************************)
(* A writer that has room for its round may go without passing only when   *)
(* it stays before the last cell.                                          *)
(***************************************************************************)
LEMMA WriteWithoutPassing ==
  ASSUME NEW start \in Index, NEW end \in Index, NEW isEmpty \in BOOLEAN,
         NEW size \in Nat, NEW old \in BOOLEAN,
         size <= WriteAvailable(start, end, isEmpty),
         ~(end = start /\ ~isEmpty)
  PROVE  /\ WritePasses(start, end, isEmpty, size, old) \in BOOLEAN
         /\ size <= SizeMax
         /\ ~WritePasses(start, end, isEmpty, size, old) => end + size < SizeMax
  BY SizeAssumption DEF Index, WriteAvailable, WritePasses

(***************************************************************************)
(* Same for a reader of a buffer that is not empty.                        *)
(***************************************************************************)
LEMMA ReadWithoutPassing ==
  ASSUME NEW start \in Index, NEW end \in Index, NEW old \in BOOLEAN,
         NEW isEmpty \in BOOLEAN, ~isEmpty,
         NEW size \in Nat, size <= ReadAvailable(start, end, isEmpty)
  PROVE  /\ ReadPasses(start, end, isEmpty, size, old) \in BOOLEAN
         /\ size <= SizeMax
         /\ ~ReadPasses(start, end, isEmpty, size, old) => start + size < SizeMax
  BY SizeAssumption DEF Index, ReadAvailable, ReadPasses

\* What can be read or written is between nothing and the whole buffer.
LEMMA AvailableType ==
  ASSUME NEW start \in Index, NEW end \in Index, NEW isEmpty \in BOOLEAN
  PROVE  /\ ReadAvailable(start, end, isEmpty) \in 0 .. SizeMax
         /\ WriteAvailable(start, end, isEmpty) \in 0 .. SizeMax
         /\ ~isEmpty => ReadAvailable(start, end, isEmpty) > 0
  BY SizeAssumption DEF Index, ReadAvailable, WriteAvailable

(***************************************************************************)
(* What a round is for: every byte of it in its cell.  The flag must be    *)
(* fresh; the second limit may be one of an earlier round as long as this  *)
(* one does not stop right behind the last cell, where eval_limit_loops    *)
(* assigns none.                                                           *)
(***************************************************************************)
LEMMA FreshRoundIsExact ==
  ASSUME NEW from \in Index, NEW size \in 1 .. SizeMax,
         NEW pass \in BOOLEAN, pass <=> from + size >= SizeMax,
         NEW old \in Index, old # 0 => from + size # SizeMax
  PROVE  ExactRound(from, size, pass, SecondLimit(from, size, pass, old))
<1> DEFINE second == SecondLimit(from, size, pass, old)
<1>1. pass => second = size - (SizeMax - from)
  BY SizeAssumption DEF SecondLimit, Index
<1>2. Moved(from, size, pass, second) = size
  BY <1>1, SizeAssumption DEF Moved, FirstLimit, Index
<1>3. IndexAfter(from, pass, size) = Wrap(from + size)
  BY SizeAssumption DEF IndexAfter, Wrap, Index
<1>4. ASSUME NEW k \in 1 .. size
      PROVE  /\ CellOf(from, pass, k) = Wrap(from + k - 1)
             /\ ByteOfCell(from, pass, size, CellOf(from, pass, k)) = k
  <2>1. CASE pass /\ k > SizeMax - from
    BY <2>1, SizeAssumption DEF CellOf, ByteOfCell, Wrap, Index
  <2>2. CASE ~(pass /\ k > SizeMax - from)
    BY <2>2, SizeAssumption DEF CellOf, ByteOfCell, Wrap, Index
  <2> QED
    BY <2>1, <2>2
<1> QED
  BY <1>2, <1>3, <1>4 DEF ExactRound

\* A writer that slept kept its flag: the round is exact all the same when the
\* place it wants to write to has not moved.
LEMMA WriteExactWhenFresh ==
  ASSUME NEW start \in Index, NEW end \in Index, NEW isEmpty \in BOOLEAN,
         isEmpty => start = end,
         NEW size \in Nat \ {0},
         size <= WriteAvailable(start, end, isEmpty),
         NEW flag \in BOOLEAN, flag => end + size >= SizeMax,
         NEW old \in Index, old # 0 => end + size # SizeMax
  PROVE  LET pass == WritePasses(start, end, isEmpty, size, flag)
         IN  ExactRound(end, size, pass, SecondLimit(end, size, pass, old))
<1> DEFINE pass == WritePasses(start, end, isEmpty, size, flag)
<1>1. size \in 1 .. SizeMax
  BY AvailableType, SizeAssumption
<1>2. pass \in BOOLEAN /\ (pass <=> end + size >= SizeMax)
  BY SizeAssumption DEF Index, WriteAvailable, WritePasses
<1> QED
  BY <1>1, <1>2, FreshRoundIsExact

\* A reader evaluates the position a second time when it wants more than there
\* is; the flag of the first evaluation does no harm to the second.
LEMMA ReadExactWhenFresh ==
  ASSUME NEW start \in Index, NEW end \in Index, NEW isEmpty \in BOOLEAN, ~isEmpty,
         NEW wanted \in Nat \ {0}, NEW size, NEW pass,
         NEW available, available = ReadAvailable(start, end, isEmpty),
         size = IF wanted > available THEN available ELSE wanted,
         pass = LET first == ReadPasses(start, end, isEmpty, wanted, FALSE)
                IN  IF wanted > available
                    THEN ReadPasses(start, end, isEmpty, size, first)
                    ELSE first,
         NEW old \in Index, old # 0 => start + size # SizeMax
  PROVE  ExactRound(start, size, pass, SecondLimit(start, size, pass, old))
<1>1. available \in 1 .. SizeMax
  BY AvailableType, SizeAssumption
<1>2. size \in 1 .. SizeMax
  BY <1>1, SizeAssumption
<1>3. pass \in BOOLEAN /\ (pass <=> start + size >= SizeMax)
  <2>1. CASE wanted > available
    BY <1>1, <2>1, SizeAssumption DEF Index, ReadAvailable, ReadPasses
  <2>2. CASE ~(wanted > available)
    BY <1>1, <2>2, SizeAssumption DEF Index, ReadAvailable, ReadPasses
  <2> QED  BY <2>1, <2>2
<1> QED
  BY <1>2, <1>3, FreshRoundIsExact

(***************************************************************************)
(* A round of a writer that has room and whose limits are fresh is exact   *)
(* (eval_position_and_size_of_data, eval_limit_loops and apply_loops in    *)
(* conduct.c:462-698), for buffers of every size.                          *)
(***************************************************************************)
THEOREM WriteRoundExact ==
  ASSUME NEW start \in Index, NEW end \in Index, NEW isEmpty \in BOOLEAN,
         isEmpty => start = end,
         NEW size \in Nat \ {0},
         size <= WriteAvailable(start, end, isEmpty)
  PROVE  LET pass == WritePasses(start, end, isEmpty, size, FALSE)
         IN  ExactRound(end, size, pass, SecondLimit(end, size, pass, 0))
<1>. 0 \in Index
  BY SizeAssumption DEF Index
<1>. QED
  BY WriteExactWhenFresh

(***************************************************************************)
(* The same for a reader, whose request was cut to what is available.      *)
(***************************************************************************)
THEOREM ReadRoundExact ==
  ASSUME NEW start \in Index, NEW end \in Index,
         NEW isEmpty \in BOOLEAN, ~isEmpty, NEW size \in Nat \ {0},
         size <= ReadAvailable(start, end, isEmpty)
  PROVE  LET pass == ReadPasses(start, end, isEmpty, size, FALSE)
         IN  ExactRound(start, size, pass, SecondLimit(start, size, pass, 0))
<1> DEFINE pass == ReadPasses(start, end, isEmpty, size, FALSE)
<1>1. size \in 1 .. SizeMax
  BY SizeAssumption DEF Index, ReadAvailable
<1>2. pass \in BOOLEAN /\ (pass <=> start + size >= SizeMax)
  BY SizeAssumption DEF Index, ReadAvailable, ReadPasses
<1>3. 0 \in Index
  BY SizeAssumption DEF Index
<1> QED
  BY <1>1, <1>2, <1>3, FreshRoundIsExact

(***************************************************************************)
(* What the indices mean follows the rounds: after a writer's round there  *)
(* are `size' more bytes between start and end, after a reader's `size'    *)
(* fewer, although start = end stands for empty and for full and each side *)
(* decides at another place which (conduct.c:815-817 and 950-953).         *)
(***************************************************************************)
THEOREM RoundsKeepCount ==
  ASSUME NEW start \in Index, NEW end \in Index, NEW isEmpty \in BOOLEAN,
         isEmpty => start = end,
         NEW size \in Nat \ {0}, NEW next \in Index, NEW empty \in BOOLEAN
  PROVE  /\ /\ size <= WriteAvailable(start, end, isEmpty)
            /\ next = Wrap(end + size)
            /\ ~empty
            => Used(start, next, empty) = Used(start, end, isEmpty) + size
         /\ /\ ~isEmpty
            /\ size <= ReadAvailable(start, end, isEmpty)
            /\ next = Wrap(start + size)
            /\ empty <=> next = end
            => Used(next, end, empty) = Used(start, end, isEmpty) - size
<1>1. ASSUME size <= WriteAvailable(start, end, isEmpty),
             next = Wrap(end + size), ~empty
      PROVE  Used(start, next, empty) = Used(start, end, isEmpty) + size
  BY <1>1, SizeAssumption DEF Index, WriteAvailable, ReadAvailable, Used, Wrap
<1>2. ASSUME ~isEmpty, size <= ReadAvailable(start, end, isEmpty),
             next = Wrap(start + size), empty <=> next = end
      PROVE  Used(next, end, empty) = Used(start, end, isEmpty) - size
  BY <1>2, SizeAssumption DEF Index, ReadAvailable, Used, Wrap
<1> QED
  BY <1>1, <1>2

(***************************************************************************)
(* An exact round of a writer puts its bytes behind those that are in the  *)
(* buffer and touches no cell of them.                                     *)
(***************************************************************************)
LEMMA WrittenCells ==
  ASSUME NEW start \in Index, NEW end \in Index, NEW isEmpty \in BOOLEAN,
         isEmpty => start = end,
         NEW size \in Nat \ {0}, size <= WriteAvailable(start, end, isEmpty),
         NEW pass \in BOOLEAN, NEW second \in Index,
         ExactRound(end, size, pass, second)
  PROVE  LET used == Used(start, end, isEmpty)
         IN  /\ \A i \in 1 .. used : ByteOfCell(end, pass, size, Wrap(start + i - 1)) = 0
             /\ \A j \in 1 .. size :
                  ByteOfCell(end, pass, size, Wrap(start + used + j - 1)) = j
<1> DEFINE used == Used(start, end, isEmpty)
<1>1. used \in Nat /\ used + size <= SizeMax
  BY SizeAssumption DEF Index, WriteAvailable, ReadAvailable, Used
<1>2. ASSUME NEW i \in 1 .. used
      PROVE  ByteOfCell(end, pass, size, Wrap(start + i - 1)) = 0
  BY SizeAssumption DEF ByteOfCell, Wrap, Index, WriteAvailable, ReadAvailable, Used
<1>3. ASSUME NEW j \in 1 .. size
      PROVE  ByteOfCell(end, pass, size, Wrap(start + used + j - 1)) = j
  <2>1. Wrap(start + used + j - 1) = Wrap(end + j - 1)
    BY SizeAssumption DEF Wrap, Index, WriteAvailable, ReadAvailable, Used
  <2>2. CellOf(end, pass, j) = Wrap(end + j - 1)
        /\ ByteOfCell(end, pass, size, CellOf(end, pass, j)) = j
    BY DEF ExactRound
  <2> QED  BY <2>1, <2>2
<1> QED
  BY <1>2, <1>3

\* The modulo of an index that runs around the buffer once.
LEMMA WrapIsModulo ==
  ASSUME NEW start \in Index, NEW i \in 0 .. SizeMax - 1
  PROVE  (start + i) % SizeMax = Wrap(start + i) /\ Wrap(start + i) \in Index
<1>1. ASSUME NEW a \in 0 .. SizeMax - 1 PROVE a % SizeMax = a
  BY SizeAssumption
<1>2. ASSUME NEW a \in SizeMax .. 2 * SizeMax - 1 PROVE a % SizeMax = a - SizeMax
  BY SizeAssumption
<1> QED
  BY <1>1, <1>2, SizeAssumption DEF Wrap, Index

\* A walk of n cells and then one to the i-th cell behind them.
LEMMA WrapTwice ==
  ASSUME NEW start \in Index, NEW n \in 0 .. SizeMax, NEW i \in Nat \ {0},
         n + i <= SizeMax
  PROVE  Wrap(Wrap(start + n) + i - 1) = Wrap(start + (n + i) - 1)
<1>1. CASE start + n < SizeMax
  <2>1. Wrap(start + n) = start + n  BY <1>1, SizeAssumption DEF Wrap, Index
  <2>. QED  BY <2>1 DEF Index
<1>2. CASE start + n >= SizeMax
  <2>1. Wrap(start + n) = start + n - SizeMax  BY <1>2, SizeAssumption DEF Wrap, Index
  <2>2. /\ start + n - SizeMax + i - 1 < SizeMax
        /\ start + (n + i) - 1 >= SizeMax
    BY <1>2, SizeAssumption DEF Index
  <2>3. /\ Wrap(start + n - SizeMax + i - 1) = start + n - SizeMax + i - 1
        /\ Wrap(start + (n + i) - 1) = start + (n + i) - 1 - SizeMax
    BY <2>2, SizeAssumption DEF Wrap, Index
  <2>. QED  BY <2>1, <2>3, SizeAssumption DEF Index
<1>. QED  BY <1>1, <1>2, SizeAssumption DEF Index

-----------------------------------------------------------------------------
(* The bytes in the buffer, as a sequence.                                 *)

\* A function on 1 .. n is a sequence of length n.
LEMMA FunctionIsSeq ==
  ASSUME NEW B, NEW n \in Nat, NEW f \in [1 .. n -> B]
  PROVE  f \in Seq(B) /\ Len(f) = n
<1>1. f \in Seq(B)  BY SeqDef
<1>2. DOMAIN f = 1 .. n  OBVIOUS
<1>. QED  BY <1>1, <1>2, LenProperties

\* Cell by cell, from start on.
LEMMA ContentsCells ==
  ASSUME NEW B, NEW b \in [Index -> B]
  PROVE  \A s, e \in Index, m \in BOOLEAN :
           /\ Contents(b, s, e, m) \in Seq(B)
           /\ Len(Contents(b, s, e, m)) = Used(s, e, m)
           /\ Used(s, e, m) \in 0 .. SizeMax
           /\ \A i \in 1 .. Used(s, e, m) :
                Contents(b, s, e, m)[i] = b[Wrap(s + i - 1)] /\ Wrap(s + i - 1) \in Index
<1>. SUFFICES ASSUME NEW s \in Index, NEW e \in Index, NEW m \in BOOLEAN
     PROVE  /\ Contents(b, s, e, m) \in Seq(B)
            /\ Len(Contents(b, s, e, m)) = Used(s, e, m)
            /\ Used(s, e, m) \in 0 .. SizeMax
            /\ \A i \in 1 .. Used(s, e, m) :
                 Contents(b, s, e, m)[i] = b[Wrap(s + i - 1)] /\ Wrap(s + i - 1) \in Index
  OBVIOUS
<1>1. Used(s, e, m) \in 0 .. SizeMax  BY AvailableType DEF Used
<1>2. ASSUME NEW i \in 1 .. Used(s, e, m)
      PROVE  (s + i - 1) % SizeMax = Wrap(s + i - 1) /\ Wrap(s + i - 1) \in Index
  <2>1. i - 1 \in 0 .. SizeMax - 1 /\ s + (i - 1) = s + i - 1
    BY <1>1, SizeAssumption DEF Index
  <2>. QED  BY <2>1, WrapIsModulo
<1>3. Contents(b, s, e, m) \in [1 .. Used(s, e, m) -> B]  BY <1>2 DEF Contents
<1>4. Contents(b, s, e, m) \in Seq(B) /\ Len(Contents(b, s, e, m)) = Used(s, e, m)
  <2>1. Used(s, e, m) \in Nat  BY <1>1
  <2>. QED  BY <1>3, <2>1, FunctionIsSeq
<1>5. \A i \in 1 .. Used(s, e, m) : Contents(b, s, e, m)[i] = b[Wrap(s + i - 1)]
  BY <1>2 DEF Contents
<1>. QED  BY <1>1, <1>2, <1>4, <1>5

\* The i-th cell in use is not the j-th free one.
LEMMA FreeCells ==
  ASSUME NEW s \in Index, NEW e \in Index, NEW m \in BOOLEAN, m => s = e,
         NEW i \in 1 .. Used(s, e, m), NEW j \in 1 .. SizeMax - Used(s, e, m)
  PROVE  Wrap(s + i - 1) # Wrap(e + j - 1)
<1>1. Used(s, e, m) \in 0 .. SizeMax  BY AvailableType DEF Used
<1>. QED  BY <1>1, SizeAssumption DEF Used, ReadAvailable, Wrap, Index

\* Behind the cells in use come the free ones.
LEMMA BehindContents ==
  ASSUME NEW s \in Index, NEW e \in Index, NEW m \in BOOLEAN, m => s = e,
         NEW j \in 1 .. SizeMax - Used(s, e, m)
  PROVE  Wrap(e + j - 1) = Wrap(s + Used(s, e, m) + j - 1)
<1>1. Used(s, e, m) \in 0 .. SizeMax  BY AvailableType DEF Used
<1>. QED  BY <1>1, SizeAssumption DEF Used, ReadAvailable, Wrap, Index

\* A store that changes none of the cells in use leaves the bytes alone.
LEMMA ContentsUntouched ==
  \A s, e \in Index, m \in BOOLEAN : \A b, c :
    (\A i \in 1 .. Used(s, e, m) : c[Wrap(s + i - 1)] = b[Wrap(s + i - 1)])
      => Contents(c, s, e, m) = Contents(b, s, e, m)
<1>. SUFFICES ASSUME NEW s \in Index, NEW e \in Index, NEW m \in BOOLEAN, NEW b, NEW c,
                     \A i \in 1 .. Used(s, e, m) : c[Wrap(s + i - 1)] = b[Wrap(s + i - 1)]
     PROVE  Contents(c, s, e, m) = Contents(b, s, e, m)
  OBVIOUS
<1>1. Used(s, e, m) \in 0 .. SizeMax  BY AvailableType DEF Used
<1>2. ASSUME NEW i \in 1 .. Used(s, e, m)
      PROVE  (s + i - 1) % SizeMax = Wrap(s + i - 1)
  <2>1. i - 1 \in 0 .. SizeMax - 1 /\ s + (i - 1) = s + i - 1
    BY <1>1, SizeAssumption DEF Index
  <2>. QED  BY <2>1, WrapIsModulo
<1>. QED  BY <1>2 DEF Contents

\* A piece of n bytes of B fills free cells of b, whose indices are s and e and
\* whose flag is m; the next end is behind it.
Fills(B, b, s, e, m, n, piece, next, empty) ==
  /\ b \in [Index -> B] /\ s \in Index /\ e \in Index /\ m \in BOOLEAN /\ (m => s = e)
  /\ n \in 1 .. SizeMax - Used(s, e, m)
  /\ piece \in Seq(B) /\ Len(piece) = n
  /\ \A j \in 1 .. n : b[Wrap(e + j - 1)] = piece[j]
  /\ next \in Index /\ next = Wrap(e + n) /\ empty \in BOOLEAN /\ ~empty

\* To move end over it is to append it.
LEMMA ContentsAppended ==
  \A B, b, s, e, m, n, piece, next, empty :
    Fills(B, b, s, e, m, n, piece, next, empty) =>
      Contents(b, s, next, empty) = Contents(b, s, e, m) \o piece
<1>. SUFFICES ASSUME NEW B, NEW b, NEW s, NEW e, NEW m, NEW n, NEW piece, NEW next, NEW empty,
                     Fills(B, b, s, e, m, n, piece, next, empty)
              PROVE  Contents(b, s, next, empty) = Contents(b, s, e, m) \o piece
  OBVIOUS
<1>. b \in [Index -> B] /\ s \in Index /\ e \in Index /\ m \in BOOLEAN /\ (m => s = e)
  BY DEF Fills
<1>. n \in 1 .. SizeMax - Used(s, e, m) /\ piece \in Seq(B) /\ Len(piece) = n
  BY DEF Fills
<1>. \A j \in 1 .. n : b[Wrap(e + j - 1)] = piece[j]
  BY DEF Fills
<1>. next \in Index /\ next = Wrap(e + n) /\ empty \in BOOLEAN /\ ~empty
  BY DEF Fills
<1>. DEFINE used == Used(s, e, m)
            old  == Contents(b, s, e, m)
            new  == Contents(b, s, next, empty)
<1>0. \A f, t \in Index, x \in BOOLEAN :
        /\ Contents(b, f, t, x) \in Seq(B)
        /\ Len(Contents(b, f, t, x)) = Used(f, t, x)
        /\ Used(f, t, x) \in 0 .. SizeMax
        /\ \A i \in 1 .. Used(f, t, x) :
             Contents(b, f, t, x)[i] = b[Wrap(f + i - 1)] /\ Wrap(f + i - 1) \in Index
  BY ContentsCells
<1>1. /\ old \in Seq(B) /\ Len(old) = used /\ used \in 0 .. SizeMax
      /\ \A i \in 1 .. used : old[i] = b[Wrap(s + i - 1)]
  BY <1>0
<1>2. /\ new \in Seq(B) /\ Len(new) = Used(s, next, empty)
      /\ \A i \in 1 .. Used(s, next, empty) : new[i] = b[Wrap(s + i - 1)]
  <2>1. s \in Index /\ next \in Index /\ empty \in BOOLEAN  OBVIOUS
  <2>. QED  BY ONLY <1>0, <2>1
<1>3. Used(s, next, empty) = used + n
  <2>1. n \in Nat \ {0}  BY <1>1, SizeAssumption
  <2>2. n <= WriteAvailable(s, e, m)
    BY <1>1, SizeAssumption DEF Used, ReadAvailable, WriteAvailable, Index
  <2>3. \A t \in Index, x \in BOOLEAN :
          t = Wrap(e + n) /\ ~x => Used(s, t, x) = Used(s, e, m) + n
    BY <2>1, <2>2, RoundsKeepCount
  <2>. QED  BY <2>3
<1>4. \A j \in 1 .. n : Wrap(e + j - 1) = Wrap(s + used + j - 1)
  <2>1. \A j \in 1 .. n : j \in 1 .. SizeMax - used  BY <1>1, SizeAssumption
  <2>. QED  BY <2>1, BehindContents
<1>5. n \in Nat  BY <1>1, SizeAssumption
<1>. HIDE DEF used, old, new
<1>6. /\ old \o piece \in Seq(B) /\ Len(old \o piece) = used + n
      /\ \A i \in 1 .. used + n :
           (old \o piece)[i] = IF i <= used THEN old[i] ELSE piece[i - used]
  BY <1>1, ConcatProperties
<1>7. ASSUME NEW i \in 1 .. used + n PROVE new[i] = (old \o piece)[i]
  <2>1. new[i] = b[Wrap(s + i - 1)]  BY <1>2, <1>3
  <2>2. CASE i <= used
    <3>1. i \in 1 .. used  BY <1>1, <2>2
    <3>. QED  BY <1>1, <1>6, <2>1, <2>2, <3>1
  <2>3. CASE i > used
    <3>1. i - used \in 1 .. n /\ s + used + (i - used) - 1 = s + i - 1 /\ ~(i <= used)
      BY <1>1, <1>5, <2>3 DEF Index
    <3>2. b[Wrap(s + i - 1)] = piece[i - used]  BY <1>4, <3>1
    <3>. QED  BY <1>6, <2>1, <3>1, <3>2
  <2>. QED  BY <1>1, <1>5, <2>2, <2>3
<1>8. new = old \o piece
  BY <1>2, <1>3, <1>6, <1>7, SeqEqual
<1>. QED  BY <1>8 DEF new, old

\* n bytes of b leave it; the next start is behind them.
Frees(B, b, s, e, m, n, next, empty) ==
  /\ b \in [Index -> B] /\ s \in Index /\ e \in Index /\ m \in BOOLEAN /\ ~m
  /\ n \in 1 .. Used(s, e, m)
  /\ next \in Index /\ next = Wrap(s + n) /\ empty \in BOOLEAN /\ (empty <=> next = e)

\* To move start over them is to take them from the head.
LEMMA ContentsTaken ==
  \A B, b, s, e, m, n, next, empty :
    Frees(B, b, s, e, m, n, next, empty) =>
      LET old == Contents(b, s, e, m)
      IN  Contents(b, next, e, empty) = SubSeq(old, n + 1, Len(old))
<1>. SUFFICES ASSUME NEW B, NEW b, NEW s, NEW e, NEW m, NEW n, NEW next, NEW empty,
                     Frees(B, b, s, e, m, n, next, empty)
              PROVE  LET old == Contents(b, s, e, m)
                     IN  Contents(b, next, e, empty) = SubSeq(old, n + 1, Len(old))
  OBVIOUS
<1>. b \in [Index -> B] /\ s \in Index /\ e \in Index /\ m \in BOOLEAN /\ ~m
  BY DEF Frees
<1>. n \in 1 .. Used(s, e, m)
  BY DEF Frees
<1>. next \in Index /\ next = Wrap(s + n) /\ empty \in BOOLEAN /\ (empty <=> next = e)
  BY DEF Frees
<1>. DEFINE used == Used(s, e, m)
            old  == Contents(b, s, e, m)
            new  == Contents(b, next, e, empty)
            tail == SubSeq(old, n + 1, used)
<1>0. \A f, t \in Index, x \in BOOLEAN :
        /\ Contents(b, f, t, x) \in Seq(B)
        /\ Len(Contents(b, f, t, x)) = Used(f, t, x)
        /\ Used(f, t, x) \in 0 .. SizeMax
        /\ \A i \in 1 .. Used(f, t, x) :
             Contents(b, f, t, x)[i] = b[Wrap(f + i - 1)] /\ Wrap(f + i - 1) \in Index
  BY ContentsCells
<1>1. /\ old \in Seq(B) /\ Len(old) = used /\ used \in 0 .. SizeMax
      /\ \A i \in 1 .. used : old[i] = b[Wrap(s + i - 1)]
  <2>1. s \in Index /\ e \in Index /\ m \in BOOLEAN  OBVIOUS
  <2>. QED  BY ONLY <1>0, <2>1
<1>2. /\ new \in Seq(B) /\ Len(new) = Used(next, e, empty)
      /\ \A i \in 1 .. Used(next, e, empty) : new[i] = b[Wrap(next + i - 1)]
  <2>1. next \in Index /\ e \in Index /\ empty \in BOOLEAN  OBVIOUS
  <2>. QED  BY ONLY <1>0, <2>1
<1>3. n \in Nat \ {0} /\ n <= used
  <2>1. n \in 1 .. used  OBVIOUS
  <2>. HIDE DEF used
  <2>. QED  BY <1>1, <2>1, SizeAssumption
<1>4. Used(next, e, empty) = used - n
  <2>1. used = ReadAvailable(s, e, m)  BY DEF Used
  <2>2. n <= ReadAvailable(s, e, m) /\ (m => s = e)  BY <1>3, <2>1
  <2>. QED  BY <1>3, <2>2, RoundsKeepCount
<1>. HIDE DEF used, old, new
<1>5. \A i \in 1 .. used : old[i] \in B  BY <1>1, ElementOfSeq
<1>6. /\ tail \in Seq(B) /\ Len(tail) = used - n
      /\ \A i \in 1 .. used - n : tail[i] = old[n + i]
  <2>. DEFINE lo == n + 1
  <2>1. lo \in Int /\ used \in Int /\ \A i \in lo .. used : old[i] \in B
    BY <1>1, <1>3, <1>5
  <2>2. /\ SubSeq(old, lo, used) \in Seq(B)
        /\ Len(SubSeq(old, lo, used)) = IF lo <= used THEN used - lo + 1 ELSE 0
        /\ \A i \in 1 .. used - lo + 1 : SubSeq(old, lo, used)[i] = old[lo + i - 1]
    <3>. HIDE DEF lo
    <3>. QED  BY ONLY <2>1, SubSeqProperties
  <2>3. Len(tail) = used - n
    <3>1. (IF lo <= used THEN used - lo + 1 ELSE 0) = used - n  BY ONLY <1>1, <1>3
    <3>. QED  BY ONLY <2>2, <3>1
  <2>4. \A i \in 1 .. used - n : i \in 1 .. used - lo + 1 /\ lo + i - 1 = n + i
    BY <1>1, <1>3
  <2>. QED  BY <2>2, <2>3, <2>4
<1>. HIDE DEF tail
<1>7. ASSUME NEW i \in 1 .. used - n PROVE new[i] = tail[i]
  <2>1. n \in 0 .. SizeMax /\ i \in Nat \ {0} /\ n + i <= SizeMax /\ n + i \in 1 .. used
    BY <1>1, <1>3, SizeAssumption
  <2>2. Wrap(next + i - 1) = Wrap(s + (n + i) - 1)  BY <2>1, WrapTwice
  <2>. QED  BY <1>1, <1>2, <1>4, <1>6, <2>1, <2>2
<1>8. new = tail  BY <1>2, <1>4, <1>6, <1>7, SeqEqual
<1>. QED  BY <1>1, <1>8 DEF new, tail, old

=============================================================================
