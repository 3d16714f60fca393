---------------------------- MODULE JuliaProofs ----------------------------
(***************************************************************************)
(* The pipeline of julia.c does not run into the deadlock its authors warn *)
(* of, and paints each draw right, for any number of workers, any QSIZE    *)
(* and any number of tiles.                                                *)
(***************************************************************************)
EXTENDS Julia, FiniteSetTheorems, SequenceTheorems, TLAPS

ReplyType == [tile : Tile, c : SUBSET Params]

\* Requests and replies on their way are those repcount counts.
Counted == Len(one) + Cardinality(Busy) + Len(two) = repcount

\* Where the main thread is, and what repcount may then be.
Drained ==
  /\ pc \in {"idle", "quit"} => repcount = 0
  /\ pc = "request" => repcount < QSIZE

IInv == TypeOK /\ Counted /\ Drained

-----------------------------------------------------------------------------
(* The workers that are busy.                                              *)

LEMMA BusyFinite == IsFiniteSet(Busy) /\ Cardinality(Busy) \in Nat
<1>1. IsFiniteSet(Worker) /\ Busy \subseteq Worker  BY JuliaAssumption DEF Busy
<1>2. IsFiniteSet(Busy)  BY <1>1, FS_Subset
<1>. QED  BY <1>2, FS_CardinalityType

\* A worker that takes a request is one more.
LEMMA TakeBusy ==
  ASSUME TypeOK, NEW w \in Worker, Take(w)
  PROVE  Cardinality(Busy') = Cardinality(Busy) + 1
<1>1. work[w] = NoTile /\ one # <<>> /\ one \in Seq(Tile)  BY DEF Take, TypeOK
<1>2. Head(one) # NoTile  BY <1>1, HeadTailProperties, JuliaAssumption
<1>3. work \in [Worker -> Tile \cup {NoTile}]  BY DEF TypeOK
<1>4. work' = [work EXCEPT ![w] = Head(one)]  BY DEF Take
<1>5. Busy' = Busy \cup {w}  BY <1>1, <1>2, <1>3, <1>4 DEF Busy
<1>6. w \notin Busy  BY <1>1 DEF Busy
<1>. QED  BY <1>5, <1>6, BusyFinite, FS_AddElement

\* One that replies is one less.
LEMMA ReplyBusy ==
  ASSUME TypeOK, NEW w \in Worker, Reply(w)
  PROVE  Cardinality(Busy') = Cardinality(Busy) - 1
<1>1. work[w] # NoTile  BY DEF Reply
<1>2. work \in [Worker -> Tile \cup {NoTile}]  BY DEF TypeOK
<1>3. work' = [work EXCEPT ![w] = NoTile]  BY DEF Reply
<1>4. Busy' = Busy \ {w}  BY <1>1, <1>2, <1>3 DEF Busy
<1>5. w \in Busy  BY <1>1 DEF Busy
<1>. QED  BY <1>4, <1>5, BusyFinite, FS_RemoveElement

-----------------------------------------------------------------------------
LEMMA InitInv == Init => IInv
<1>. SUFFICES ASSUME Init PROVE IInv  OBVIOUS
<1>1. TypeOK
  BY JuliaAssumption DEF Init, TypeOK
<1>2. Busy = {}  BY DEF Init, Busy
<1>3. Counted  BY <1>2, FS_EmptySet DEF Init, Counted
<1>. QED  BY <1>1, <1>3, JuliaAssumption DEF IInv, Drained, Init

\* The steps of the main thread leave the workers alone.
LEMMA MainInv ==
  ASSUME IInv, UNCHANGED work,
         MouseMoves \/ Quit \/ Callback \/ \E n \in 0 .. MaxTiles : Draw(n)
  PROVE  IInv'
<1>. USE JuliaAssumption
<1>1. Cardinality(Busy') = Cardinality(Busy) /\ Cardinality(Busy) \in Nat
  BY BusyFinite DEF Busy
<1>2. /\ one \in Seq(Tile) /\ two \in Seq(ReplyType)
      /\ Len(one) \in Nat /\ Len(two) \in Nat /\ repcount \in 0 .. QSIZE
      /\ sent \in 0 .. tiles /\ tiles \in 0 .. MaxTiles
      /\ painted \in Seq(ReplyType)
      /\ Len(one) + Cardinality(Busy) + Len(two) = repcount
  BY LenProperties DEF IInv, TypeOK, Counted, ReplyType
<1>3. CASE MouseMoves
  BY <1>1, <1>3 DEF MouseMoves, main, IInv, TypeOK, Counted, Drained
<1>4. CASE Quit
  BY <1>1, <1>4 DEF Quit, IInv, TypeOK, Counted, Drained
<1>5. ASSUME NEW n \in 0 .. MaxTiles, Draw(n) PROVE IInv'
  <2>1. repcount = 0  BY <1>5 DEF Draw, IInv, Drained
  <2>2. TypeOK'  BY <1>5, <1>2 DEF Draw, IInv, TypeOK
  <2>3. Counted'  BY <1>1, <1>2, <1>5, <2>1 DEF Draw, Counted
  <2>. QED  BY <1>5, <2>2, <2>3 DEF Draw, IInv, Drained
<1>6. CASE Request
  <2>1. /\ pc = "request" /\ sent < tiles /\ repcount < QSIZE
        /\ one' = Append(one, sent + 1) /\ sent' = sent + 1 /\ repcount' = repcount + 1
    BY <1>6 DEF Request, IInv, Drained
  <2>2. sent + 1 \in Tile  BY <1>2, <2>1 DEF Tile
  <2>3. one' \in Seq(Tile) /\ Len(one') = Len(one) + 1
    BY <1>2, <2>1, <2>2, AppendProperties
  <2>4. pc' \in {"request", "paint"} /\ (pc' = "request" => repcount + 1 < QSIZE)
    BY <1>2, <1>6 DEF Request, DrainDue
  <2>5. TypeOK'  BY <1>2, <1>6, <2>1, <2>3, <2>4 DEF Request, IInv, TypeOK
  <2>6. Counted'
    <3>1. Len(two') = Len(two)  BY <1>6 DEF Request
    <3>2. /\ Len(one) \in Nat /\ Len(two) \in Nat
          /\ Len(one') = Len(one) + 1 /\ repcount' = repcount + 1
      BY <1>2, <2>1, <2>3
    <3>3. Len(one) + Cardinality(Busy) + Len(two) = repcount  BY <1>2
    <3>4. Len(one') + Cardinality(Busy') + Len(two') = repcount'
      BY <1>1, <3>1, <3>2, <3>3
    <3>. QED  BY <3>4 DEF Counted
  <2>. QED  BY <2>1, <2>4, <2>5, <2>6 DEF IInv, Drained
<1>7. CASE Requested
  BY <1>1, <1>2, <1>7 DEF Requested, AfterRequests, IInv, TypeOK, Counted, Drained
<1>8. CASE Paint
  <2>1. /\ repcount > 0 /\ two # <<>> /\ repcount' = repcount - 1
        /\ two' = Tail(two) /\ painted' = Append(painted, Head(two))
        /\ pc \in {"paint", "rest"} /\ pc' = pc
    BY <1>8 DEF Paint
  <2>2. Head(two) \in ReplyType /\ two' \in Seq(ReplyType) /\ Len(two') = Len(two) - 1
    BY <1>2, <2>1, HeadTailProperties
  <2>3. painted' \in Seq(ReplyType)  BY <1>2, <2>1, <2>2, AppendProperties
  <2>4. TypeOK'  BY <1>2, <1>8, <2>1, <2>2, <2>3 DEF Paint, IInv, TypeOK, ReplyType
  <2>5. Counted'
    <3>1. Len(one') = Len(one)  BY <1>8 DEF Paint
    <3>2. /\ Len(one) \in Nat /\ Len(two) \in Nat /\ repcount \in Nat
          /\ Len(two') = Len(two) - 1 /\ repcount' = repcount - 1
      BY <1>2, <2>1, <2>2
    <3>3. Len(one') + Cardinality(Busy') + Len(two') = repcount'
      BY <1>1, <1>2, <3>1, <3>2
    <3>. QED  BY <3>3 DEF Counted
  <2>. QED  BY <2>1, <2>4, <2>5 DEF IInv, Drained
<1>9. CASE Painted
  BY <1>1, <1>2, <1>9 DEF Painted, IInv, TypeOK, Counted, Drained
<1>. QED  BY <1>3, <1>4, <1>5, <1>6, <1>7, <1>8, <1>9 DEF Callback

LEMMA WorkerInv ==
  ASSUME IInv, NEW w \in Worker, Take(w) \/ Reply(w)
  PROVE  IInv'
<1>1. TypeOK /\ Cardinality(Busy) \in Nat  BY BusyFinite DEF IInv
<1>2. /\ one \in Seq(Tile) /\ two \in Seq(ReplyType)
      /\ Len(one) \in Nat /\ Len(two) \in Nat /\ repcount \in Nat
      /\ Len(one) + Cardinality(Busy) + Len(two) = repcount
  BY LenProperties, JuliaAssumption DEF IInv, TypeOK, Counted, ReplyType
<1>3. CASE Take(w)
  <2>1. one # <<>> /\ one' = Tail(one) /\ two' = two /\ repcount' = repcount
    BY <1>3 DEF Take, main
  <2>2. Head(one) \in Tile /\ one' \in Seq(Tile) /\ Len(one') = Len(one) - 1
    BY <1>2, <2>1, HeadTailProperties
  <2>3. TypeOK'  BY <1>1, <1>3, <2>2 DEF Take, main, TypeOK
  <2>4. Counted'
    BY <1>1, <1>2, <1>3, <2>1, <2>2, TakeBusy DEF Counted
  <2>. QED  BY <1>3, <2>3, <2>4 DEF Take, main, IInv, Drained
<1>4. CASE Reply(w)
  <2>1. /\ one' = one /\ repcount' = repcount
        /\ two' = Append(two, [tile |-> work[w], c |-> {begun[w], julia_c}])
    BY <1>4 DEF Reply, main
  <2>2. [tile |-> work[w], c |-> {begun[w], julia_c}] \in ReplyType
    BY <1>1, <1>4 DEF Reply, TypeOK, ReplyType
  <2>3. two' \in Seq(ReplyType) /\ Len(two') = Len(two) + 1
    BY <1>2, <2>1, <2>2, AppendProperties
  <2>4. TypeOK'  BY <1>1, <1>4, <2>3 DEF Reply, main, TypeOK, ReplyType
  <2>5. Counted'
    <3>1. Cardinality(Busy') = Cardinality(Busy) - 1  BY <1>1, <1>4, ReplyBusy
    <3>2. Len(one') = Len(one) /\ repcount' = repcount /\ Len(two') = Len(two) + 1
      BY <2>1, <2>3
    <3>3. /\ Len(one) \in Nat /\ Len(two) \in Nat /\ Cardinality(Busy) \in Nat
          /\ Len(one) + Cardinality(Busy) + Len(two) = repcount
      BY <1>1, <1>2
    <3>4. Len(one') + Cardinality(Busy') + Len(two') = repcount'
      BY <3>1, <3>2, <3>3
    <3>. QED  BY <3>4 DEF Counted
  <2>. QED  BY <1>4, <2>4, <2>5 DEF Reply, main, IInv, Drained
<1>. QED  BY <1>3, <1>4

LEMMA NextInv == IInv /\ [Next]_vars => IInv'
<1>. SUFFICES ASSUME IInv, [Next]_vars PROVE IInv'  OBVIOUS
<1>1. CASE MouseMoves \/ Quit \/ Callback \/ \E n \in 0 .. MaxTiles : Draw(n)
  <2>1. UNCHANGED work
    BY <1>1 DEF MouseMoves, Quit, Callback, Request, Requested, Paint, Painted, Draw
  <2>. QED  BY <1>1, <2>1, MainInv
<1>2. CASE \E w \in Worker : Take(w) \/ Reply(w)  BY <1>2, WorkerInv
<1>3. CASE UNCHANGED vars
  BY <1>3 DEF vars, main, IInv, TypeOK, Counted, Drained, Busy
<1>. QED  BY <1>1, <1>2, <1>3 DEF Next

\* The inductive invariant: types, the count of what is on its way, and the
\* drain before repcount exceeds QSIZE.
THEOREM PipelineInvariant == Spec => []IInv
<1>. QED  BY InitInv, NextInv, PTL DEF Spec

\* Types and ranges; repcount never passes the size of the queue of requests.
THEOREM TypeCorrect == Spec => []TypeOK
<1>1. IInv => TypeOK  BY DEF IInv
<1>. QED  BY <1>1, PipelineInvariant, PTL

-----------------------------------------------------------------------------
\* Nobody waits for room (julia.c:262-264): whatever the number of workers and
\* tiles, neither conduit is full when its writer comes.
THEOREM NobodyWaitsForRoom == Spec => []RoomForAll
<1>1. IInv => RoomForAll
  <2>. SUFFICES ASSUME IInv PROVE RoomForAll  OBVIOUS
  <2>1. /\ Len(one) \in Nat /\ Len(two) \in Nat /\ Cardinality(Busy) \in Nat
        /\ repcount \in 0 .. QSIZE /\ QSIZE \in Nat
        /\ Len(one) + Cardinality(Busy) + Len(two) = repcount
        /\ pc = "request" => repcount < QSIZE
    BY BusyFinite, LenProperties, JuliaAssumption DEF IInv, TypeOK, Counted, Drained
  <2>. QED  BY <2>1 DEF RoomForAll
<1>. QED  BY <1>1, PipelineInvariant, PTL

\* What follows from IInv when the main thread expects no reply.
LEMMA NothingOnItsWay ==
  ASSUME IInv, repcount = 0
  PROVE  one = <<>> /\ two = <<>> /\ Busy = {}
<1>1. /\ one \in Seq(Tile) /\ two \in Seq(ReplyType)
      /\ Len(one) \in Nat /\ Len(two) \in Nat /\ Cardinality(Busy) \in Nat
      /\ Len(one) + Cardinality(Busy) + Len(two) = 0
  BY BusyFinite, LenProperties DEF IInv, TypeOK, Counted, ReplyType
<1>2. Len(one) = 0 /\ Len(two) = 0 /\ Cardinality(Busy) = 0  BY <1>1
<1>3. one = <<>> /\ two = <<>>  BY <1>1, <1>2
<1>4. Busy = {}  BY <1>2, BusyFinite, FS_EmptySet
<1>. QED  BY <1>3, <1>4

\* No worker is at work between draws, so julia_c needs no lock (julia.c:319).
THEOREM QuietWhenIdle == Spec => []QuietBetweenDraws
<1>1. IInv => QuietBetweenDraws
  BY NothingOnItsWay DEF IInv, Drained, QuietBetweenDraws
<1>. QED  BY <1>1, PipelineInvariant, PTL

-----------------------------------------------------------------------------
(* Each tile is painted once, with one julia_c.                            *)

\* Request t of the draw was written: it is a request, in work, a reply, or
\* painted.
Somewhere(t) ==
  \/ \E k \in DOMAIN one : one[k] = t
  \/ \E w \in Worker : work[w] = t
  \/ \E k \in DOMAIN two : two[k].tile = t
  \/ \E k \in DOMAIN painted : painted[k].tile = t

\* Workers and replies know no other julia_c than the one there is now.
OneParam ==
  /\ \A w \in Worker : work[w] # NoTile => begun[w] = julia_c
  /\ \A k \in DOMAIN two : two[k].c = {julia_c}
  /\ pc \notin {"idle", "quit"} => \A k \in DOMAIN painted : painted[k].c = {julia_c}
  /\ \E c \in Params : \A k \in DOMAIN painted : painted[k].c = {c}

DrawInv ==
  /\ pc \in {"rest", "idle"} => sent = tiles
  /\ Len(painted) + repcount = sent
  /\ \A t \in 1 .. sent : Somewhere(t)
  /\ OneParam

\* What is in a queue stays in it when its head is taken, except the head.
LEMMA TailKeeps ==
  ASSUME NEW S, NEW s \in Seq(S), s # <<>>, NEW t, t = Tail(s)
  PROVE  /\ \A k \in DOMAIN s : s[k] = Head(s) \/ \E j \in DOMAIN t : t[j] = s[k]
         /\ \A j \in DOMAIN t : \E k \in DOMAIN s : t[j] = s[k]
         /\ \E k \in DOMAIN s : s[k] = Head(s)
<1>1. /\ Len(s) \in Nat /\ DOMAIN s = 1 .. Len(s) /\ Len(s) # 0  BY LenProperties, EmptySeq
<1>2. /\ t \in Seq(S) /\ Len(t) = Len(s) - 1
      /\ \A i \in 1 .. Len(t) : t[i] = s[i + 1]
  BY HeadTailProperties
<1>3. DOMAIN t = 1 .. Len(s) - 1  BY <1>2, LenProperties
<1>4. Head(s) = s[1] /\ 1 \in DOMAIN s  BY <1>1
<1>5. ASSUME NEW k \in DOMAIN s PROVE s[k] = Head(s) \/ \E j \in DOMAIN t : t[j] = s[k]
  <2>1. CASE k = 1  BY <1>4, <2>1
  <2>2. CASE k # 1
    <3>1. k - 1 \in DOMAIN t /\ t[k - 1] = s[k]  BY <1>1, <1>2, <1>3, <2>2
    <3>. QED  BY <3>1
  <2>. QED  BY <2>1, <2>2
<1>6. ASSUME NEW j \in DOMAIN t PROVE \E k \in DOMAIN s : t[j] = s[k]
  <2>1. j + 1 \in DOMAIN s /\ t[j] = s[j + 1]  BY <1>1, <1>2, <1>3
  <2>. QED  BY <2>1
<1>7. \E k \in DOMAIN s : s[k] = Head(s)  BY <1>4
<1>. QED  BY <1>5, <1>6, <1>7

\* And all of it when something is appended.
LEMMA AppendKeeps ==
  ASSUME NEW S, NEW s \in Seq(S), NEW e \in S, NEW t, t = Append(s, e)
  PROVE  /\ \A k \in DOMAIN s : k \in DOMAIN t /\ t[k] = s[k]
         /\ \A k \in DOMAIN t : t[k] = e \/ \E j \in DOMAIN s : t[k] = s[j]
         /\ \E k \in DOMAIN t : t[k] = e
<1>1. /\ t \in Seq(S) /\ Len(t) = Len(s) + 1
      /\ \A i \in 1 .. Len(s) : t[i] = s[i]
      /\ t[Len(s) + 1] = e
  BY AppendProperties
<1>2. /\ Len(s) \in Nat /\ DOMAIN s = 1 .. Len(s) /\ DOMAIN t = 1 .. Len(s) + 1
  BY <1>1, LenProperties
<1>3. \A k \in DOMAIN t : k \in DOMAIN s \/ k = Len(s) + 1  BY <1>2
<1>4. Len(s) + 1 \in DOMAIN t /\ \A k \in DOMAIN s : k \in DOMAIN t  BY <1>2
<1>5. \A k \in DOMAIN s : t[k] = s[k]  BY <1>1, <1>2
<1>6. \E k \in DOMAIN t : t[k] = e  BY <1>1, <1>4
<1>7. ASSUME NEW k \in DOMAIN t PROVE t[k] = e \/ \E j \in DOMAIN s : t[k] = s[j]
  <2>1. CASE k \in DOMAIN s  BY <1>5, <2>1
  <2>2. CASE k = Len(s) + 1  BY <1>1, <2>2
  <2>. QED  BY <1>3, <2>1, <2>2
<1>. QED  BY <1>4, <1>5, <1>6, <1>7

LEMMA DrawInit == Init => DrawInv
<1>. SUFFICES ASSUME Init PROVE DrawInv  OBVIOUS
<1>1. /\ pc = "idle" /\ sent = 0 /\ tiles = 0 /\ repcount = 0
      /\ painted = <<>> /\ two = <<>> /\ julia_c \in Params
      /\ \A w \in Worker : work[w] = NoTile
  BY DEF Init
<1>2. OneParam  BY <1>1 DEF OneParam
<1>. QED  BY <1>1, <1>2 DEF DrawInv

\* Requests, replies and painted tiles are sequences.
LEMMA Sequences ==
  ASSUME IInv
  PROVE  /\ one \in Seq(Tile) /\ two \in Seq(ReplyType) /\ painted \in Seq(ReplyType)
         /\ sent \in Nat /\ tiles \in Nat /\ repcount \in Nat /\ Len(painted) \in Nat
<1>. QED  BY LenProperties, JuliaAssumption DEF IInv, TypeOK, ReplyType

LEMMA DrawNext == IInv /\ DrawInv /\ [Next]_vars => DrawInv'
<1>. SUFFICES ASSUME IInv, DrawInv, [Next]_vars PROVE DrawInv'  OBVIOUS
<1>. USE Sequences
<1>1. CASE MouseMoves
  <2>1. repcount = 0  BY <1>1 DEF MouseMoves, IInv, Drained
  <2>2. two = <<>> /\ \A w \in Worker : work[w] = NoTile
    BY <2>1, NothingOnItsWay DEF Busy
  <2>3. OneParam'  BY <1>1, <2>2 DEF MouseMoves, main, OneParam, DrawInv
  <2>. QED  BY <1>1, <2>3 DEF MouseMoves, main, DrawInv, Somewhere
<1>2. CASE Quit
  BY <1>2 DEF Quit, DrawInv, Somewhere, OneParam
<1>3. ASSUME NEW n \in 0 .. MaxTiles, Draw(n) PROVE DrawInv'
  <2>1. /\ pc' = "request" /\ sent' = 0 /\ repcount' = 0 /\ painted' = <<>>
        /\ UNCHANGED <<julia_c, one, two, work, begun>>
    BY <1>3 DEF Draw
  <2>2. julia_c \in Params  BY DEF IInv, TypeOK
  <2>3. OneParam'  BY <2>1, <2>2 DEF OneParam, DrawInv
  <2>. QED  BY <2>1, <2>3 DEF DrawInv
<1>4. CASE Request
  <2>1. /\ sent' = sent + 1 /\ repcount' = repcount + 1 /\ one' = Append(one, sent + 1)
        /\ pc = "request" /\ pc' \in {"request", "paint"} /\ sent < tiles
        /\ UNCHANGED <<julia_c, two, work, begun, tiles, painted>>
    BY <1>4 DEF Request
  <2>2. sent + 1 \in Tile  BY <2>1, JuliaAssumption DEF IInv, TypeOK, Tile
  <2>0. /\ \A k \in DOMAIN one : k \in DOMAIN one' /\ one'[k] = one[k]
        /\ \E k \in DOMAIN one' : one'[k] = sent + 1
    <3>. DEFINE n == sent + 1
    <3>1. one \in Seq(Tile) /\ n \in Tile /\ one' = Append(one, n)  BY <2>1, <2>2
    <3>. HIDE DEF n
    <3>2. /\ \A k \in DOMAIN one : k \in DOMAIN one' /\ one'[k] = one[k]
          /\ \E k \in DOMAIN one' : one'[k] = n
      BY <3>1, AppendKeeps
    <3>. QED  BY <3>2 DEF n
  <2>3. \A t \in 1 .. sent : Somewhere(t)'
    <3>. SUFFICES ASSUME NEW t \in 1 .. sent PROVE Somewhere(t)'  OBVIOUS
    <3>1. Somewhere(t)  BY DEF DrawInv
    <3>. QED  BY <2>1, <2>0, <3>1 DEF Somewhere
  <2>4. \A t : t = sent + 1 => Somewhere(t)'  BY <2>0 DEF Somewhere
  <2>5. \A t \in 1 .. sent' : Somewhere(t)'
    <3>1. \A t \in 1 .. sent' : t \in 1 .. sent \/ t = sent + 1  BY <2>1
    <3>2. \A t \in 1 .. sent' : t = sent + 1 => Somewhere(t)'  BY <2>4
    <3>. QED  BY <2>3, <3>1, <3>2
  <2>6. OneParam'  BY <2>1 DEF OneParam, DrawInv
  <2>7. Len(painted') + repcount' = sent'  BY <2>1 DEF DrawInv
  <2>. QED  BY <2>1, <2>5, <2>6, <2>7 DEF DrawInv
<1>5. CASE Requested
  BY <1>5 DEF Requested, AfterRequests, DrawInv, Somewhere, OneParam
<1>6. CASE Paint
  <2>1. /\ two # <<>> /\ two' = Tail(two) /\ painted' = Append(painted, Head(two))
        /\ pc \in {"paint", "rest"} /\ pc' = pc /\ repcount' = repcount - 1
        /\ UNCHANGED <<julia_c, one, work, begun, tiles, sent>>
    BY <1>6 DEF Paint
  <2>2. Head(two) \in ReplyType  BY <2>1, HeadTailProperties
  <2>0. /\ \A k \in DOMAIN painted : k \in DOMAIN painted' /\ painted'[k] = painted[k]
        /\ \A k \in DOMAIN painted' : \/ painted'[k] = Head(two)
                                      \/ \E j \in DOMAIN painted : painted'[k] = painted[j]
        /\ \E k \in DOMAIN painted' : painted'[k] = Head(two)
    <3>. DEFINE r == Head(two)
    <3>1. painted \in Seq(ReplyType) /\ r \in ReplyType /\ painted' = Append(painted, r)
      BY <2>1, <2>2
    <3>. HIDE DEF r
    <3>2. /\ \A k \in DOMAIN painted : k \in DOMAIN painted' /\ painted'[k] = painted[k]
          /\ \A k \in DOMAIN painted' : \/ painted'[k] = r
                                        \/ \E j \in DOMAIN painted : painted'[k] = painted[j]
          /\ \E k \in DOMAIN painted' : painted'[k] = r
      BY <3>1, AppendKeeps
    <3>. QED  BY <3>2 DEF r
  <2>6. \A i \in DOMAIN two : two[i] = Head(two) \/ \E j \in DOMAIN two' : two'[j] = two[i]
    <3>1. two \in Seq(ReplyType) /\ two # <<>> /\ two' = Tail(two)  BY <2>1
    <3>. QED  BY ONLY <3>1, TailKeeps, SMTT(60)
  <2>3. \A t \in 1 .. sent' : Somewhere(t)'
    <3>. SUFFICES ASSUME NEW t \in 1 .. sent PROVE Somewhere(t)'  BY <2>1
    <3>1. CASE \E k \in DOMAIN two : two[k].tile = t
      <4>1. PICK k \in DOMAIN two : two[k].tile = t  BY <3>1
      <4>2. two[k] = Head(two) \/ \E j \in DOMAIN two' : two'[j] = two[k]
        BY <2>6
      <4>. QED  BY <2>0, <4>1, <4>2 DEF Somewhere
    <3>2. CASE \E k \in DOMAIN painted : painted[k].tile = t
      BY <2>0, <3>2 DEF Somewhere
    <3>3. CASE (\E k \in DOMAIN one : one[k] = t) \/ \E w \in Worker : work[w] = t
      BY <2>1, <3>3 DEF Somewhere
    <3>. QED  BY <3>1, <3>2, <3>3 DEF DrawInv, Somewhere
  <2>4. OneParam'
    <3>1. Head(two).c = {julia_c}  BY <2>1, TailKeeps DEF DrawInv, OneParam
    <3>2. \A k \in DOMAIN two' : two'[k].c = {julia_c}
      BY <2>1, TailKeeps DEF DrawInv, OneParam
    <3>3. \A k \in DOMAIN painted' : painted'[k].c = {julia_c}
      BY <2>1, <2>0, <3>1 DEF DrawInv, OneParam
    <3>4. julia_c \in Params  BY DEF IInv, TypeOK
    <3>. QED  BY <2>1, <3>2, <3>3, <3>4 DEF DrawInv, OneParam
  <2>5. Len(painted') + repcount' = sent'
    <3>1. Len(painted') = Len(painted) + 1  BY <2>1, <2>2, AppendProperties
    <3>. QED  BY <2>1, <3>1 DEF DrawInv
  <2>. QED  BY <2>1, <2>3, <2>4, <2>5 DEF DrawInv
<1>7. CASE Painted
  BY <1>7 DEF Painted, DrawInv, Somewhere, OneParam
<1>8. ASSUME NEW w \in Worker, Take(w) PROVE DrawInv'
  <2>1. /\ one # <<>> /\ one' = Tail(one) /\ work[w] = NoTile
        /\ work' = [work EXCEPT ![w] = Head(one)]
        /\ begun' = [begun EXCEPT ![w] = julia_c]
        /\ UNCHANGED <<julia_c, two, main>>
        /\ work \in [Worker -> Tile \cup {NoTile}] /\ begun \in [Worker -> Params]
    BY <1>8 DEF Take, IInv, TypeOK
  <2>2. \A t \in 1 .. sent' : Somewhere(t)'
    <3>. SUFFICES ASSUME NEW t \in 1 .. sent PROVE Somewhere(t)'  BY <2>1 DEF main
    <3>0. t # NoTile
      BY JuliaAssumption DEF IInv, TypeOK, Tile
    <3>1. CASE \E k \in DOMAIN one : one[k] = t
      <4>1. t = Head(one) \/ \E j \in DOMAIN one' : one'[j] = t
        <5>1. /\ one \in Seq(Tile) /\ one # <<>> /\ one' = Tail(one)  BY <2>1
        <5>2. \A i \in DOMAIN one : \/ one[i] = Head(one)
                                    \/ \E j \in DOMAIN one' : one'[j] = one[i]
          BY ONLY <5>1, TailKeeps, SMTT(60)
        <5>. QED  BY <3>1, <5>2
      <4>. QED  BY <2>1, <4>1 DEF Somewhere
    <3>2. CASE \E v \in Worker : work[v] = t
      BY <2>1, <3>0, <3>2 DEF Somewhere
    <3>3. CASE (\E k \in DOMAIN two : two[k].tile = t) \/ \E k \in DOMAIN painted : painted[k].tile = t
      BY <2>1, <3>3 DEF Somewhere, main
    <3>. QED  BY <3>1, <3>2, <3>3 DEF DrawInv, Somewhere
  <2>3. OneParam'  BY <2>1 DEF DrawInv, OneParam, main
  <2>. QED  BY <2>1, <2>2, <2>3 DEF DrawInv, main
<1>9. ASSUME NEW w \in Worker, Reply(w) PROVE DrawInv'
  <2>. DEFINE r == [tile |-> work[w], c |-> {begun[w], julia_c}]
  <2>1. /\ two' = Append(two, r) /\ work[w] # NoTile
        /\ work' = [work EXCEPT ![w] = NoTile]
        /\ UNCHANGED <<julia_c, one, begun, main>>
        /\ work \in [Worker -> Tile \cup {NoTile}]
    BY <1>9 DEF Reply, IInv, TypeOK
  <2>2. r \in ReplyType  BY <2>1 DEF IInv, TypeOK, ReplyType
  <2>3. r.tile = work[w] /\ r.c = {julia_c}  BY <2>1 DEF DrawInv, OneParam
  <2>. HIDE DEF r
  <2>0. /\ \A k \in DOMAIN two : k \in DOMAIN two' /\ two'[k] = two[k]
        /\ \A k \in DOMAIN two' : \/ two'[k] = r
                                  \/ \E j \in DOMAIN two : two'[k] = two[j]
        /\ \E k \in DOMAIN two' : two'[k] = r
    BY <2>1, <2>2, AppendKeeps
  <2>4. \A t \in 1 .. sent' : Somewhere(t)'
    <3>. SUFFICES ASSUME NEW t \in 1 .. sent PROVE Somewhere(t)'  BY <2>1 DEF main
    <3>1. CASE \E v \in Worker : work[v] = t
      <4>1. PICK v \in Worker : work[v] = t  BY <3>1
      <4>2. CASE v = w  BY <2>0, <2>3, <4>1, <4>2 DEF Somewhere
      <4>3. CASE v # w  BY <2>1, <4>1, <4>3 DEF Somewhere
      <4>. QED  BY <4>2, <4>3
    <3>2. CASE \E k \in DOMAIN two : two[k].tile = t
      BY <2>0, <3>2 DEF Somewhere
    <3>3. CASE (\E k \in DOMAIN one : one[k] = t) \/ \E k \in DOMAIN painted : painted[k].tile = t
      BY <2>1, <3>3 DEF Somewhere, main
    <3>. QED  BY <3>1, <3>2, <3>3 DEF DrawInv, Somewhere
  <2>5. OneParam'
    <3>1. \A k \in DOMAIN two' : two'[k].c = {julia_c}
      BY <2>0, <2>3 DEF DrawInv, OneParam
    <3>2. \A v \in Worker : work'[v] # NoTile => begun[v] = julia_c
      BY <2>1 DEF DrawInv, OneParam
    <3>. QED  BY <2>1, <3>1, <3>2 DEF DrawInv, OneParam, main
  <2>. QED  BY <2>1, <2>4, <2>5 DEF DrawInv, main
<1>10. CASE UNCHANGED vars
  BY <1>10 DEF vars, main, DrawInv, Somewhere, OneParam
<1>. QED
  BY <1>1, <1>2, <1>3, <1>4, <1>5, <1>6, <1>7, <1>8, <1>9, <1>10 DEF Next, Callback

\* A finished draw shows each tile exactly once, computed with one value of
\* julia_c, whatever the workers' order.
THEOREM DrawsAreRight == Spec => []EachTileOnce
<1>1. IInv /\ DrawInv => EachTileOnce
  <2>. SUFFICES ASSUME IInv, DrawInv, pc \in {"rest", "idle"}, repcount = 0
                PROVE  /\ Len(painted) = tiles
                       /\ \A t \in 1 .. tiles : \E k \in 1 .. tiles : painted[k].tile = t
                       /\ \A j, k \in 1 .. tiles : /\ painted[j].c = painted[k].c
                                                   /\ Cardinality(painted[k].c) = 1
    BY DEF EachTileOnce
  <2>1. Len(painted) = tiles /\ sent = tiles  BY Sequences DEF DrawInv
  <2>2. DOMAIN painted = 1 .. tiles  BY <2>1, Sequences, LenProperties
  <2>3. one = <<>> /\ two = <<>> /\ Busy = {}  BY NothingOnItsWay
  <2>4. \A t \in 1 .. tiles : \E k \in 1 .. tiles : painted[k].tile = t
    <3>. SUFFICES ASSUME NEW t \in 1 .. tiles PROVE \E k \in 1 .. tiles : painted[k].tile = t
      OBVIOUS
    <3>1. t # NoTile  BY JuliaAssumption DEF IInv, TypeOK, Tile
    <3>2. \A w \in Worker : work[w] # t  BY <2>3, <3>1 DEF Busy
    <3>3. Somewhere(t)  BY <2>1 DEF DrawInv
    <3>. QED  BY <2>2, <2>3, <3>2, <3>3 DEF Somewhere
  <2>5. PICK c \in Params : \A k \in 1 .. tiles : painted[k].c = {c}
    BY <2>2 DEF DrawInv, OneParam
  <2>6. Cardinality({c}) = 1  BY FS_Singleton
  <2>. QED  BY <2>1, <2>4, <2>5, <2>6
<1>2. Init /\ [][Next]_vars => [](IInv /\ DrawInv)
  <2>1. Init => IInv /\ DrawInv  BY InitInv, DrawInit
  <2>2. (IInv /\ DrawInv) /\ [Next]_vars => (IInv /\ DrawInv)'  BY NextInv, DrawNext
  <2>. QED  BY <2>1, <2>2, PTL
<1>. QED  BY <1>1, <1>2, PTL DEF Spec
=============================================================================
