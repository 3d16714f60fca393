------------------------------ MODULE MCConduct ------------------------------
(* Small instances of Conduct.                                             *)
EXTENDS Conduct, TLC
CONSTANTS w1, w2, r1, r2

Blocking(op, counts)    == {[op |-> op, nb |-> FALSE, count |-> n] : n \in counts}
NonBlocking(op, counts) == {[op |-> op, nb |-> TRUE,  count |-> n] : n \in counts}
Eof == Blocking("write_eof", {1}) \cup NonBlocking("write_eof", {1})

OneEach    == {w1, r1}
TwoWriters == {w1, w2, r1}
TwoReaders == {w1, r1, r2}
TwoEach    == {w1, w2, r1, r2}
r1Only     == {r1}

\* Two writers and two readers exchanging records of exactly the atomic limit,
\* which divides the size of the buffer (julia.c, test_3thread_depedency.c).
RecordCalls ==
  [p \in {w1, w2} |-> Blocking("write", {SizeAtom}) \cup NonBlocking("write", {0})] @@
  [p \in {r1, r2} |-> Blocking("read", {SizeAtom}) \cup NonBlocking("read", {SizeAtom})]
RecordsSymmetry == Permutations({w1, w2}) \cup Permutations({r1, r2})

\* Calls of several rounds, up to the buffer's size.
RoundCalls == (w1 :> Blocking("write", {1, SizeMax}) \cup Eof)
           @@ (r1 :> Blocking("read", {1, SizeMax - 1, SizeMax}))

\* The same writer, without end of file, and reads of more than the buffer.
LongReads == (w1 :> Blocking("write", {1, SizeMax}))
          @@ (r1 :> Blocking("read", {2 * SizeMax}))

\* Writers that wait for room with different sizes, one reader.
UnequalWrites == (w1 :> Blocking("write", {SizeAtom}))
              @@ (w2 :> Blocking("write", {SizeAtom - 1}))
              @@ (r1 :> Blocking("read", {SizeAtom - 1, SizeAtom}))

\* Two workers that wait for a record, and end of file in its place.
EofForTwo == (w1 :> Blocking("write", {SizeAtom}) \cup Blocking("write_eof", {1}))
          @@ [p \in {r1, r2} |-> Blocking("read", {SizeAtom})]

\* Everything at once: the regimes in which rounds overrun their call, too.
AnyCalls == (w1 :> Blocking("write", {SizeAtom, 2 * SizeMax}) \cup Blocking("write_eof", {1}))
         @@ (w2 :> Blocking("write", {1}) \cup NonBlocking("write", {2}))
         @@ (r1 :> Blocking("read", {1, 2 * SizeMax}))
=============================================================================
