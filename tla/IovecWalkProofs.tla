-------------------------- MODULE IovecWalkProofs --------------------------
(***************************************************************************)
(* The walk over an iovec stays where the bytes moved so far put it, for   *)
(* any iovecs, any atomic limit and any division into rounds and loops.    *)
(***************************************************************************)
EXTENDS IovecWalk, TLAPS

IInv == TypeOK /\ OnTheStream

\* The least of three integers is one of them, and below each.
LEMMA LeastOfThree ==
  ASSUME NEW a \in Int, NEW b \in Int, NEW c \in Int
  PROVE  /\ Least({a, b, c}) \in {a, b, c}
         /\ Least({a, b, c}) <= a /\ Least({a, b, c}) <= b /\ Least({a, b, c}) <= c
<1>1. \E x \in {a, b, c} : \A y \in {a, b, c} : x <= y
  <2>1. CASE a <= b /\ a <= c  BY <2>1
  <2>2. CASE b <= a /\ b <= c  BY <2>2
  <2>3. CASE c <= a /\ c <= b  BY <2>3
  <2>. QED  BY <2>1, <2>2, <2>3
<1>. QED  BY <1>1 DEF Least

\* The assumption, for one iovec.
LEMMA BeforeFacts ==
  ASSUME NEW v \in Iovecs
  PROVE  /\ v \in Seq(Nat) /\ Len(v) \in Nat \ {0}
         /\ \A k \in 1 .. Len(v) : v[k] \in Nat /\ Before[v][k] \in Nat
         /\ Before[v][Len(v) + 1] \in Nat
         /\ Before[v][1] = 0
         /\ \A k \in 1 .. Len(v) : Before[v][k + 1] = Before[v][k] + v[k]
<1>1. v \in Seq(Nat) /\ Len(v) > 0  BY IovecAssumption
<1>2. Before[v] \in Seq(Nat) /\ Len(Before[v]) = Len(v) + 1  BY IovecAssumption
<1>3. \A k \in 1 .. Len(v) + 1 : Before[v][k] \in Nat  BY <1>1, <1>2
<1>. QED  BY <1>1, <1>3, IovecAssumption

LEMMA InitInv == Init => IInv
<1>. SUFFICES ASSUME Init PROVE IInv  OBVIOUS
<1>1. iov \in Iovecs /\ iov[1] > 0  BY DEF Init, Accepted
<1>2. /\ Len(iov) \in Nat \ {0} /\ iov[1] \in Nat /\ count \in Nat /\ Before[iov][1] = 0
  BY <1>1, BeforeFacts DEF count
<1>3. TypeOK
  <2>1. memcpy \in BOOLEAN /\ fault \in BOOLEAN  BY DEF Init
  <2>2. /\ idx = 1 /\ iter = 0 /\ sizeReallyManipulate = 0 /\ allcurrent_iov_len = iov[1]
        /\ sizeToManipulate = 0 /\ left = 0 /\ later = 0
    BY DEF Init
  <2>. QED  BY <1>1, <1>2, <2>1, <2>2 DEF TypeOK
<1>4. OnTheStream  BY <1>1, <1>2 DEF Init, OnTheStream, OnePlace
<1>. QED  BY <1>3, <1>4 DEF IInv

\* While bytes are left, a used-up segment is not the last one.
LEMMA SegmentLeftInv == IInv => SegmentLeft
<1>. SUFFICES ASSUME IInv, InRound, Switches PROVE idx < Len(iov)
  BY DEF SegmentLeft
<1>1. /\ Len(iov) \in Nat /\ Before[iov][idx] \in Nat /\ iov[idx] \in Nat /\ count \in Nat
      /\ Before[iov][idx + 1] = Before[iov][idx] + iov[idx]
  BY BeforeFacts DEF IInv, TypeOK, count
<1>2. sizeReallyManipulate = Before[iov][idx + 1]
  BY <1>1 DEF IInv, TypeOK, OnTheStream, OnePlace, Switches
<1>3. sizeReallyManipulate < count  BY <1>1 DEF IInv, TypeOK, InRound
<1>4. sizeReallyManipulate # count  BY <1>1, <1>3 DEF IInv, TypeOK
<1>5. idx # Len(iov)  BY <1>2, <1>4 DEF count
<1>. QED  BY <1>1, <1>5 DEF IInv, TypeOK

\* An iteration starts at most at the end of its segment, unless the byte
\* version is in an empty one; and its piece fits the loop.
LEMMA PieceFits ==
  ASSUME IInv, ~fault, left > 0, segment \in DOMAIN iov
  PROVE  /\ segment \in 1 .. Len(iov) /\ iov[segment] \in Nat
         /\ place \in Nat
         /\ pieceSize \in 0 .. left
         /\ memcpy => place + pieceSize <= iov[segment]
         /\ ~memcpy => pieceSize = 1
<1>1. /\ iov \in Seq(Nat) /\ Len(iov) \in Nat
      /\ \A k \in 1 .. Len(iov) : iov[k] \in Nat
  BY BeforeFacts DEF IInv, TypeOK
<1>2. segment \in 1 .. Len(iov) /\ iov[segment] \in Nat
  BY <1>1
<1>3. place \in Nat  BY DEF place, IInv, TypeOK
<1>4. memcpy => place <= iov[segment]
  BY <1>2 DEF IInv, TypeOK, OnTheStream, OnePlace, place, segment
<1>5. left \in Nat /\ sizeToManipulate \in Nat /\ left <= sizeToManipulate /\ memcpy \in BOOLEAN
  BY DEF IInv, TypeOK
<1>6. CASE memcpy
  <2>1. pieceSize = Least({iov[segment] - place, sizeToManipulate, left})
    BY <1>6 DEF pieceSize
  <2>2. iov[segment] - place \in Int /\ sizeToManipulate \in Int /\ left \in Int
    BY <1>2, <1>3, <1>5
  <2>3. /\ pieceSize \in {iov[segment] - place, sizeToManipulate, left}
        /\ pieceSize <= iov[segment] - place /\ pieceSize <= left
    BY <2>1, <2>2, LeastOfThree, Zenon
  <2>. QED  BY <2>3, <1>2, <1>3, <1>4, <1>5, <1>6
<1>7. CASE ~memcpy
  BY <1>7, <1>2, <1>3, <1>5 DEF pieceSize
<1>. QED  BY <1>5, <1>6, <1>7

\* One iteration, with or without a change of segment.
LEMMA IterationInv ==
  ASSUME IInv, Iteration
  PROVE  IInv'
<1>1. /\ segment \in 1 .. Len(iov) /\ iov[segment] \in Nat /\ place \in Nat
      /\ pieceSize \in 0 .. left
      /\ memcpy => place + pieceSize <= iov[segment]
      /\ ~memcpy => pieceSize = 1
  BY PieceFits DEF Iteration
<1>2. /\ Len(iov) \in Nat /\ count \in Nat
      /\ \A k \in 1 .. Len(iov) :
           /\ iov[k] \in Nat /\ Before[iov][k] \in Nat
           /\ Before[iov][k + 1] = Before[iov][k] + iov[k]
  BY BeforeFacts DEF IInv, TypeOK, count
<1>3. UNCHANGED <<iov, memcpy, sizeToManipulate, later, fault>> /\ count' = count
  BY DEF Iteration, count
<1>4. /\ idx' = segment /\ iter' = place + pieceSize /\ left' = left - pieceSize
      /\ sizeReallyManipulate' = sizeReallyManipulate + pieceSize
  BY DEF Iteration
<1>5. TypeOK'
  <2>1. left \in Nat /\ later \in Nat /\ left + later <= count - sizeReallyManipulate
    BY DEF IInv, TypeOK
  <2>2. allcurrent_iov_len' \in Nat
    BY <1>1 DEF IInv, TypeOK, Iteration, Entered
  <2>. QED  BY <1>1, <1>2, <1>3, <1>4, <2>1, <2>2 DEF IInv, TypeOK
<1>6. OnTheStream'
  <2>1. CASE Switches
    <3>1. /\ sizeReallyManipulate = Before[iov][idx] + iter
          /\ allcurrent_iov_len = Before[iov][idx] + iov[idx]
          /\ sizeReallyManipulate = allcurrent_iov_len
          /\ idx \in 1 .. Len(iov)
      BY <2>1 DEF IInv, TypeOK, OnTheStream, OnePlace, Switches
    <3>2. segment = idx + 1 /\ place = 0  BY <2>1 DEF segment, place
    <3>3. sizeReallyManipulate = Before[iov][segment]
      BY <1>2, <3>1, <3>2
    <3>4. allcurrent_iov_len' = Before[iov][segment] + iov[segment]
      BY <2>1, <3>1, <3>3 DEF Iteration, Entered
    <3>5. sizeReallyManipulate' = Before[iov][segment] + iter' /\ iter' = pieceSize
      BY <1>1, <1>4, <3>2, <3>3
    <3>6. CASE pieceSize <= iov[segment]
      BY <3>4, <3>5, <3>6, <1>3, <1>4 DEF OnTheStream, OnePlace
    <3>7. CASE ~(pieceSize <= iov[segment])
      <4>1. ~memcpy /\ pieceSize = 1 /\ iov[segment] = 0
        BY <3>7, <3>2, <1>1 DEF IInv, TypeOK
      <4>2. Before[iov][segment] \in Nat  BY <1>1, <1>2
      <4>. QED  BY <4>1, <4>2, <3>4, <3>5, <1>3, <1>4 DEF OnTheStream, OnePlace
    <3>. QED  BY <3>6, <3>7
  <2>2. CASE ~Switches
    <3>1. segment = idx /\ place = iter /\ allcurrent_iov_len' = allcurrent_iov_len
      BY <2>2 DEF segment, place, Iteration, IInv, TypeOK
    <3>2. CASE /\ iter <= iov[idx]
               /\ sizeReallyManipulate = Before[iov][idx] + iter
               /\ allcurrent_iov_len   = Before[iov][idx] + iov[idx]
      <4>1. idx \in 1 .. Len(iov) /\ iter \in Nat /\ iov[idx] \in Nat /\ Before[iov][idx] \in Nat
        BY <1>2 DEF IInv, TypeOK
      <4>2. iter < iov[idx]
        BY <2>2, <3>2, <4>1 DEF Switches
      <4>3. iter + pieceSize <= iov[idx]
        BY <4>1, <4>2, <3>1, <1>1 DEF IInv, TypeOK
      <4>. QED  BY <4>1, <4>3, <3>1, <3>2, <1>1, <1>3, <1>4 DEF OnTheStream, OnePlace
    <3>3. CASE /\ ~memcpy /\ iov[idx] = 0
               /\ iter > 0
               /\ sizeReallyManipulate > allcurrent_iov_len
      <4>1. iter \in Nat /\ sizeReallyManipulate \in Nat /\ allcurrent_iov_len \in Nat
        BY <1>2 DEF IInv, TypeOK
      <4>. QED  BY <4>1, <3>1, <3>3, <1>1, <1>3, <1>4 DEF OnTheStream, OnePlace
    <3>. QED  BY <3>2, <3>3 DEF IInv, OnTheStream, OnePlace
  <2>. QED  BY <2>1, <2>2
<1>. QED  BY <1>5, <1>6 DEF IInv

\* The other steps leave the walk alone.
LEMMA LoopInv ==
  ASSUME IInv, [SecondLoop \/ Fault
                  \/ \E n \in 1 .. SizeAtom : \E first \in 1 .. n : Round(n, first)]_vars
  PROVE  IInv'
<1>1. UNCHANGED <<iov, memcpy, walk>> /\ count' = count
  BY DEF SecondLoop, Fault, Round, vars, count
<1>2. OnTheStream'
  BY <1>1 DEF IInv, OnTheStream, OnePlace, walk
<1>3. TypeOK'
  <2>1. CASE SecondLoop
    BY <2>1, <1>1 DEF IInv, TypeOK, SecondLoop, walk
  <2>2. CASE Fault
    BY <2>2, <1>1 DEF IInv, TypeOK, Fault, walk, loop
  <2>3. ASSUME NEW n \in 1 .. SizeAtom, NEW first \in 1 .. n, Round(n, first)
        PROVE  TypeOK'
    BY <2>3, <1>1, IovecAssumption DEF IInv, TypeOK, Round, walk
  <2>4. CASE UNCHANGED vars
    BY <2>4, <1>1 DEF IInv, TypeOK, vars, walk, loop
  <2>. QED  BY <2>1, <2>2, <2>3, <2>4
<1>. QED  BY <1>2, <1>3 DEF IInv

\* Types, and the walk on the stream of bytes, in every reachable state.
THEOREM WalkInvariant == Spec => []IInv
<1>1. IInv /\ [Next]_vars => IInv'
  BY IterationInv, LoopInv DEF Next, Work
<1>. QED  BY InitInv, <1>1, PTL DEF Spec

\* A vectored call moves what a call with the concatenated segments would; the
\* byte version does until it enters an empty segment.
THEOREM VectoredMovesTheStream == Spec => []OnTheStream
<1>1. IInv => OnTheStream  BY DEF IInv
<1>. QED  BY WalkInvariant, <1>1, PTL

\* With memcpy, or without empty segments, the place is never lost.
THEOREM PlaceNeverLost ==
  Spec => [](memcpy \/ (\A k \in 1 .. Len(iov) : iov[k] > 0) => OnePlace)
<1>1. IInv => (memcpy \/ (\A k \in 1 .. Len(iov) : iov[k] > 0) => OnePlace)
  BY DEF IInv, TypeOK, OnTheStream
<1>. QED  BY WalkInvariant, <1>1, PTL

\* No iteration takes a segment behind the caller's array.
THEOREM NeverBehindTheArray == Spec => []SegmentLeft
BY WalkInvariant, SegmentLeftInv, PTL

\* The place in the segments, the loop and the count of the round keep their
\* ranges, also when an empty segment led the walk astray.
THEOREM TypeCorrect == Spec => []TypeOK
<1>1. IInv => TypeOK  BY DEF IInv
<1>. QED  BY WalkInvariant, <1>1, PTL
=============================================================================
