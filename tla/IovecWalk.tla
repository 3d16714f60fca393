----------------------------- MODULE IovecWalk -----------------------------
(***************************************************************************)
(* The walk of one call over the segments of its iovec: apply_loops of     *)
(* both files, from the side of the caller's memory.  A round moves its    *)
(* bytes in one loop, or in two when it passes the last cell of the        *)
(* buffer; an iteration moves one byte (concurrentconduct.c) or, with      *)
(* memcpy (MODE_MEMCPY of conduct.c), as many as fit the segment, the      *)
(* request and the loop.  Segment, place in it and progress outlive the    *)
(* round.                                                                  *)
(*                                                                         *)
(* An iovec is the sequence of the lengths of its segments.  Rounds move   *)
(* at most what the call has left (Conduct has those that do not).         *)
(***************************************************************************)
EXTENDS Integers, Sequences

CONSTANTS
  Iovecs,    \* the iovecs callers pass
  Before,    \* Before[v][k]: bytes of v before segment k
  SizeAtom

ASSUME IovecAssumption ==
  /\ Iovecs \subseteq Seq(Nat)
  /\ Before \in [Iovecs -> Seq(Nat)]
  /\ \A v \in Iovecs :
       /\ Len(v) > 0
       /\ Len(Before[v]) = Len(v) + 1
       /\ Before[v][1] = 0
       /\ \A k \in 1 .. Len(v) : Before[v][k + 1] = Before[v][k] + v[k]
  /\ SizeAtom \in Nat \ {0}

VARIABLES
  iov,     \* the caller's iovec
  memcpy,  \* which version of the loop
  idx, iter,            \* currentIndexIOV, currentIterIOV
  sizeReallyManipulate,
  allcurrent_iov_len,   \* bytes of the segments entered so far
  sizeToManipulate,     \* bytes of the round
  left,                 \* limit - i: bytes the loop still has to move
  later,                \* bytes of the second loop, while in the first
  fault                 \* killed by an access outside of a segment

walk == <<idx, iter, sizeReallyManipulate, allcurrent_iov_len>>
loop == <<sizeToManipulate, left, later>>
vars == <<iov, memcpy, walk, loop, fault>>

count == Before[iov][Len(iov) + 1]

\* init_dataCirularBuffer refuses an iovec whose first segment is empty.
Accepted(v) == v[1] > 0

Init ==
  /\ iov \in {v \in Iovecs : Accepted(v)}
  /\ memcpy \in BOOLEAN
  /\ idx = 1 /\ iter = 0
  /\ sizeReallyManipulate = 0
  /\ allcurrent_iov_len = iov[1]
  /\ sizeToManipulate = 0 /\ left = 0 /\ later = 0
  /\ fault = FALSE

-----------------------------------------------------------------------------
\* A round of n bytes begins, `first' of them before the last cell.
Round(n, first) ==
  /\ ~fault
  /\ left = 0 /\ later = 0
  /\ n <= count - sizeReallyManipulate
  /\ sizeToManipulate' = n
  /\ left'  = first
  /\ later' = n - first
  /\ UNCHANGED <<iov, memcpy, walk, fault>>

SecondLoop ==
  /\ ~fault
  /\ left = 0 /\ later > 0
  /\ left'  = later
  /\ later' = 0
  /\ UNCHANGED <<iov, memcpy, walk, sizeToManipulate, fault>>

\* Mutant of Switches: one byte early.
SwitchesEarly == sizeReallyManipulate + 1 = allcurrent_iov_len

\* The segment is used up.
Switches == sizeReallyManipulate = allcurrent_iov_len

segment == IF Switches THEN idx + 1 ELSE idx
place   == IF Switches THEN 0 ELSE iter

\* Mutant of Entered: the length of the new segment is not added.
NotEntered(len) == 0

\* What allcurrent_iov_len grows by on entering a segment.
Entered(len) == len

Least(S) == CHOOSE x \in S : \A y \in S : x <= y

\* Mutant of pieceSize: the memcpy is not limited to the loop.
pieceSizePastLoop ==
  IF memcpy THEN Least({iov[segment] - place, sizeToManipulate}) ELSE 1

pieceSize ==
  IF memcpy THEN Least({iov[segment] - place, sizeToManipulate, left}) ELSE 1

Iteration ==
  /\ ~fault
  /\ left > 0
  /\ segment \in DOMAIN iov
  /\ idx'  = segment
  /\ iter' = place + pieceSize
  /\ allcurrent_iov_len' =
       allcurrent_iov_len + (IF Switches THEN Entered(iov[segment]) ELSE 0)
  /\ sizeReallyManipulate' = sizeReallyManipulate + pieceSize
  /\ left' = left - pieceSize
  /\ UNCHANGED <<iov, memcpy, sizeToManipulate, later, fault>>

\* The byte is behind the segment, and not the process's to touch.
Fault ==
  /\ ~fault
  /\ left > 0
  /\ segment \in DOMAIN iov
  /\ place + pieceSize > iov[segment]
  /\ fault' = TRUE
  /\ UNCHANGED <<iov, memcpy, walk, loop>>

Work == SecondLoop \/ Iteration \/ Fault
Next == Work \/ \E n \in 1 .. SizeAtom : \E first \in 1 .. n : Round(n, first)

Spec     == Init /\ [][Next]_vars
FairSpec == Spec /\ WF_vars(Work)

-----------------------------------------------------------------------------
(* Properties.                                                             *)

InRound == left > 0 \/ later > 0

TypeOK ==
  /\ iov \in Iovecs /\ memcpy \in BOOLEAN /\ fault \in BOOLEAN
  /\ idx \in 1 .. Len(iov)
  /\ iter \in Nat
  /\ sizeReallyManipulate \in 0 .. count
  /\ allcurrent_iov_len \in Nat
  /\ left \in Nat /\ later \in Nat /\ sizeToManipulate \in Nat
  /\ left + later <= sizeToManipulate
  /\ left + later <= count - sizeReallyManipulate

\* The place in the iovec is the one that follows the bytes moved so far: a
\* vectored call moves what a call with the concatenated segments would, over
\* any division into rounds, loops and pieces (`Vectored read,write',
\* README.md:14).
OnePlace ==
  /\ iter <= iov[idx]
  /\ sizeReallyManipulate = Before[iov][idx] + iter
  /\ allcurrent_iov_len   = Before[iov][idx] + iov[idx]

\* That holds of every iovec with memcpy.  The byte version loses the place in
\* an empty segment, and nowhere else: it copies behind it before it compares
\* again (concurrentconduct.c:700).
OnTheStream ==
  \/ OnePlace
  \/ /\ ~memcpy /\ iov[idx] = 0
     /\ iter > 0
     /\ sizeReallyManipulate > allcurrent_iov_len

\* An iteration does not take a segment behind the caller's array: as long as
\* bytes are left to move there is another segment.
SegmentLeft == InRound /\ Switches => idx < Len(iov)

\* A round comes to its end: with memcpy, empty segments and pieces of length 0
\* do not keep the loop going.
RoundEnds == InRound ~> ~InRound \/ fault
=============================================================================
