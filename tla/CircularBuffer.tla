--------------------------- MODULE CircularBuffer ---------------------------
(***************************************************************************)
(* The index arithmetic of the circular buffer, common to conduct.c and    *)
(* concurrentconduct.c: how many bytes a round of a read or a write may    *)
(* move, whether it passes from the last cell to the first one, and which  *)
(* cells apply_loops visits.                                               *)
(*                                                                         *)
(* Readers move from `start', writers from `end'; start = end is an empty  *)
(* buffer when isEmpty holds and a full one when it does not.  The two     *)
(* fields passByMiddle and secondLimitLoop of struct dataCirularBuffer     *)
(* live as long as the call, not as long as the round, so each operator    *)
(* that assigns one of them takes its old value.                           *)
(***************************************************************************)
EXTENDS Integers

CONSTANTS
  SizeMax,    \* content.sizeMax: number of cells of the circular buffer
  SizeAtom    \* content.sizeAtom: guaranteed atomic limit

\* conduct_create refuses a size below 1 (and nothing else: an atomic limit
\* above the size of the buffer is accepted).
ASSUME SizeAssumption ==
  /\ SizeMax  \in Nat \ {0}
  /\ SizeAtom \in Nat \ {0}

Index == 0 .. SizeMax - 1

-----------------------------------------------------------------------------
\* Mutant of SizeOfRound: off by one at the limit.
SizeOfRoundOffByOne(rest) == IF rest >= SizeAtom THEN SizeAtom - 1 ELSE rest

\* eval_size_to_manipulate: at most the atomic limit in one round.
SizeOfRound(rest) == IF rest > SizeAtom THEN SizeAtom ELSE rest

(***************************************************************************)
(* eval_position_and_size_of_data.  The tests are in the code's order:     *)
(* isEmpty before start = end before start < end.                          *)
(***************************************************************************)

WriteAvailable(start, end, isEmpty) ==
  CASE isEmpty                      -> SizeMax
    [] ~isEmpty /\ start = end      -> 0
    [] ~isEmpty /\ start < end      -> (SizeMax - end) + start
    [] ~isEmpty /\ start > end      -> start - end

\* Mutant of WritePasses: a write that ends exactly at the last cell stays there.
WritePassesLate(start, end, isEmpty, size, passByMiddle) ==
  \/ passByMiddle
  \/ (isEmpty \/ start < end) /\ end + size > SizeMax

\* A writer only ever sets the flag; no branch of the code clears it.
WritePasses(start, end, isEmpty, size, passByMiddle) ==
  \/ passByMiddle
  \/ (isEmpty \/ start < end) /\ end + size >= SizeMax

ReadAvailable(start, end, isEmpty) ==
  CASE isEmpty                      -> 0
    [] ~isEmpty /\ start = end      -> SizeMax
    [] ~isEmpty /\ start < end      -> end - start
    [] ~isEmpty /\ start > end      -> (SizeMax - start) + end

\* A reader clears the flag when all it can read lies before the last cell.
ReadPasses(start, end, isEmpty, size, passByMiddle) ==
  \/ isEmpty /\ passByMiddle
  \/ ~isEmpty /\ start >= end /\ (passByMiddle \/ start + size >= SizeMax)

-----------------------------------------------------------------------------
(***************************************************************************)
(* eval_limit_loops, for a round that starts at cell `from'.               *)
(* secondLimitLoop is assigned only when something is left to do after the *)
(* last cell, and keeps its old value otherwise.                           *)
(***************************************************************************)
FirstLimit(from, size, passByMiddle) ==
  IF passByMiddle THEN SizeMax ELSE from + size

SecondLimit(from, size, passByMiddle, secondLimitLoop) ==
  LET restToPerform == size - (SizeMax - from)
  IN  IF passByMiddle /\ restToPerform > 0 THEN restToPerform
                                           ELSE secondLimitLoop

(***************************************************************************)
(* apply_loops: a first pass from `from' to firstLimitLoop and, when       *)
(* passByMiddle is set, a second one from 0 to secondLimitLoop.            *)
(***************************************************************************)

\* Number of bytes the two passes move.
Moved(from, size, passByMiddle, second) ==
  FirstLimit(from, size, passByMiddle) - from
    + (IF passByMiddle THEN second ELSE 0)

\* The index of the side that moves (start or end), k bytes into the round.
IndexAfter(from, passByMiddle, k) ==
  IF passByMiddle /\ k >= SizeMax - from THEN k - (SizeMax - from)
                                         ELSE from + k

\* The cell of the k-th byte of the round, k counted from 1.
CellOf(from, passByMiddle, k) ==
  IF passByMiddle /\ k > SizeMax - from THEN k - (SizeMax - from) - 1
                                        ELSE from + k - 1

\* Which byte of the round cell c ends up with when n bytes were moved, 0 if
\* it is not visited.  The second pass overwrites what the first one left.
ByteOfCell(from, passByMiddle, n, c) ==
  LET first == c - from + 1
      later == (SizeMax - from) + c + 1
  IN  IF passByMiddle /\ later <= n      THEN later
      ELSE IF first \in 1 .. n           THEN first
      ELSE 0

-----------------------------------------------------------------------------
(* What the indices mean: the number of bytes between start and end.       *)
Used(start, end, isEmpty) == ReadAvailable(start, end, isEmpty)

\* Cell number i of a walk around the buffer, i below 2 * SizeMax.
Wrap(i) == IF i >= SizeMax THEN i - SizeMax ELSE i

\* A round of `size' bytes from cell `from' that is exact: it moves that many
\* bytes, to or from consecutive cells, each once, and ends behind the last.
ExactRound(from, size, pass, second) ==
  /\ Moved(from, size, pass, second) = size
  /\ IndexAfter(from, pass, size) = Wrap(from + size)
  /\ \A k \in 1 .. size :
       /\ CellOf(from, pass, k) = Wrap(from + k - 1)
       /\ ByteOfCell(from, pass, size, CellOf(from, pass, k)) = k

\* The bytes in the buffer, oldest first.
Contents(buf, start, end, isEmpty) ==
  [i \in 1 .. Used(start, end, isEmpty) |-> buf[(start + i - 1) % SizeMax]]
=============================================================================
