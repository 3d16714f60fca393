------------------------------- MODULE Julia -------------------------------
(***************************************************************************)
(* julia.c: the main thread cuts a draw into tiles, writes a request for   *)
(* each to the conduit `one' and reads the replies of the workers from     *)
(* `two'.  Both conduits hold QSIZE records of exactly their atomic limit, *)
(* so a record goes through whole (RecordsComeWhole of Conduct) and a      *)
(* conduit is a queue of records here.                                     *)
(*                                                                         *)
(* Callbacks of GTK run one at a time in the main thread: the mouse moves  *)
(* between two draws.  Nobody writes end of file, so no call fails.        *)
(***************************************************************************)
EXTENDS Integers, Sequences, FiniteSets

CONSTANTS
  Worker,    \* the threads of julia_thread
  QSIZE,
  MaxTiles,  \* a draw has at most so many tiles
  Params,    \* values of julia_c
  NoTile     \* the worker has no request

Tile == 1 .. MaxTiles

ASSUME JuliaAssumption ==
  /\ IsFiniteSet(Worker)
  /\ QSIZE \in Nat \ {0}
  /\ MaxTiles \in Nat
  /\ NoTile \notin Tile

VARIABLES
  julia_c,
  one, two,  \* requests and replies on their way
  work,      \* the tile each worker computes
  begun,     \* julia_c when it began
  pc,        \* of the main thread
  tiles,     \* number of tiles of the draw
  sent,      \* requests written for it
  repcount,  \* replies to read before the next drain
  painted    \* replies painted in this draw

main == <<pc, tiles, sent, repcount, painted>>
vars == <<julia_c, one, two, work, begun, main>>

Init ==
  /\ julia_c \in Params
  /\ one = <<>> /\ two = <<>>
  /\ work  = [w \in Worker |-> NoTile]
  /\ begun = [w \in Worker |-> julia_c]
  /\ pc = "idle"
  /\ tiles = 0 /\ sent = 0 /\ repcount = 0
  /\ painted = <<>>

-----------------------------------------------------------------------------
(* The main thread.                                                        *)

\* mousse_callback
MouseMoves ==
  /\ pc = "idle"
  /\ julia_c' \in Params
  /\ UNCHANGED <<one, two, work, begun, main>>

\* The window is closed, and main returns.
Quit ==
  /\ pc = "idle"
  /\ pc' = "quit"
  /\ UNCHANGED <<julia_c, one, two, work, begun, tiles, sent, repcount, painted>>

\* draw_callback, for a clip of n tiles.
Draw(n) ==
  /\ pc = "idle"
  /\ pc' = "request"
  /\ tiles' = n /\ sent' = 0 /\ repcount' = 0
  /\ painted' = <<>>
  /\ UNCHANGED <<julia_c, one, two, work, begun>>

\* Mutants of DrainDue: the drain is forgotten, or comes one request late.
DrainForgotten(count) == FALSE
DrainLate(count) == count > QSIZE

\* `Un conduit bloque lorsqu'il est plein.  Il faut donc vider les conduits a
\* temps pour eviter un deadlock.'
DrainDue(count) == count >= QSIZE

Request ==
  /\ pc = "request"
  /\ sent < tiles
  /\ Len(one) < QSIZE
  /\ one'  = Append(one, sent + 1)
  /\ sent' = sent + 1
  /\ repcount' = repcount + 1
  /\ pc' = IF DrainDue(repcount + 1) THEN "paint" ELSE "request"
  /\ UNCHANGED <<julia_c, two, work, begun, tiles, painted>>

\* Mutant of AfterRequests: what is left in the conduits is not painted.
RestForgotten == "idle"

\* What follows the last request.
AfterRequests == "rest"

Requested ==
  /\ pc = "request"
  /\ sent = tiles
  /\ pc' = AfterRequests
  /\ UNCHANGED <<julia_c, one, two, work, begun, tiles, sent, repcount, painted>>

\* paintit: `repcount' is what it has still to read.
Paint ==
  /\ pc \in {"paint", "rest"}
  /\ repcount > 0
  /\ two # <<>>
  /\ painted' = Append(painted, Head(two))
  /\ two' = Tail(two)
  /\ repcount' = repcount - 1
  /\ UNCHANGED <<julia_c, one, work, begun, pc, tiles, sent>>

Painted ==
  /\ pc \in {"paint", "rest"}
  /\ repcount = 0
  /\ pc' = IF pc = "paint" THEN "request" ELSE "idle"
  /\ UNCHANGED <<julia_c, one, two, work, begun, tiles, sent, repcount, painted>>

-----------------------------------------------------------------------------
(* The workers.                                                            *)

Take(w) ==
  /\ work[w] = NoTile
  /\ one # <<>>
  /\ work'  = [work EXCEPT ![w] = Head(one)]
  /\ begun' = [begun EXCEPT ![w] = julia_c]
  /\ one'   = Tail(one)
  /\ UNCHANGED <<julia_c, two, main>>

\* The worker reads julia_c for each pixel, up to here.
Reply(w) ==
  /\ work[w] # NoTile
  /\ Len(two) < QSIZE
  /\ two'  = Append(two, [tile |-> work[w], c |-> {begun[w], julia_c}])
  /\ work' = [work EXCEPT ![w] = NoTile]
  /\ UNCHANGED <<julia_c, one, begun, main>>

-----------------------------------------------------------------------------
Callback == Request \/ Requested \/ Paint \/ Painted

Next ==
  \/ MouseMoves \/ Quit \/ Callback
  \/ \E n \in 0 .. MaxTiles : Draw(n)
  \/ \E w \in Worker : Take(w) \/ Reply(w)

Spec == Init /\ [][Next]_vars

\* A callback runs on while its conduits let it; a request goes to some worker,
\* and each worker answers.
Fairness ==
  /\ WF_vars(Callback)
  /\ WF_vars(\E w \in Worker : Take(w))
  /\ \A w \in Worker : WF_vars(Reply(w))

FairSpec == Spec /\ Fairness

-----------------------------------------------------------------------------
(* Properties.                                                             *)

Busy == {w \in Worker : work[w] # NoTile}

TypeOK ==
  /\ julia_c \in Params
  /\ one \in Seq(Tile)
  /\ two \in Seq([tile : Tile, c : SUBSET Params])
  /\ work \in [Worker -> Tile \cup {NoTile}]
  /\ begun \in [Worker -> Params]
  /\ pc \in {"idle", "request", "paint", "rest", "quit"}
  /\ tiles \in 0 .. MaxTiles
  /\ sent \in 0 .. tiles
  /\ repcount \in 0 .. QSIZE
  /\ painted \in Seq([tile : Tile, c : SUBSET Params])

\* Nobody ever waits for room, so the main thread and the workers cannot wait
\* for each other: there is room in `one' for the next request, and in `two' for
\* every reply.
RoomForAll ==
  /\ pc = "request" => Len(one) < QSIZE
  /\ Len(two) + Cardinality(Busy) <= QSIZE

\* Between draws nothing is on its way, so no worker reads julia_c while
\* mousse_callback changes it (julia_c has no lock), and no reply of one draw
\* is painted in the next.
QuietBetweenDraws ==
  pc \in {"idle", "quit"} => one = <<>> /\ two = <<>> /\ Busy = {}

\* A finished draw has painted each of its tiles once, all with one julia_c.
EachTileOnce ==
  pc \in {"rest", "idle"} /\ repcount = 0 =>
    /\ Len(painted) = tiles
    /\ \A t \in 1 .. tiles : \E k \in 1 .. tiles : painted[k].tile = t
    /\ \A j, k \in 1 .. tiles : painted[j].c = painted[k].c /\ Cardinality(painted[k].c) = 1

\* A draw ends: the callback returns to GTK.
DrawEnds == pc = "request" ~> pc = "idle"
=============================================================================
