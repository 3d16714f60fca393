---------------------------- MODULE MCConcurrent ----------------------------
(* Small instances of ConcurrentConduct.                                   *)
EXTENDS ConcurrentConduct, TLC
CONSTANTS w1, w2, r1, r2

Blocking(op, counts)    == {[op |-> op, nb |-> FALSE, count |-> n] : n \in counts}
NonBlocking(op, counts) == {[op |-> op, nb |-> TRUE,  count |-> n] : n \in counts}
Eof == Blocking("write_eof", {1}) \cup NonBlocking("write_eof", {1})

OneEach    == {w1, r1}
TwoWriters == {w1, w2, r1}
TwoReaders == {w1, r1, r2}
TwoEach    == {w1, w2, r1, r2}
r1Only     == {r1}

\* The SPSC build with two threads on each side, where writers only make
\* blocking calls of one round: the side mutexes admit one at a time.  A read
\* of more than the buffer may overrun its call.
SidesCalls == (w1 :> Blocking("write", {SizeAtom}) \cup Blocking("write_eof", {1}))
           @@ (w2 :> Blocking("write", {SizeAtom - 1}))
           @@ (r1 :> Blocking("read", {SizeMax + 1}))
           @@ (r2 :> NonBlocking("read", {SizeAtom - 1}))

\* The same writers, and one reader with calls of several rounds up to the size
\* of the buffer, which wait, retry and go on at any place.
SideRounds == (w1 :> Blocking("write", {SizeAtom}) \cup Blocking("write_eof", {1}))
           @@ (w2 :> Blocking("write", {SizeAtom - 1}))
           @@ (r1 :> Blocking("read", {1, SizeMax - 1, SizeMax})
                       \cup NonBlocking("read", {1}))

\* The SPSC build with a single producer and a single consumer; the producer
\* may find no room without waiting, or after its first round.
SideLostCalls == (w1 :> NonBlocking("write", {1}) \cup Blocking("write", {SizeMax}))
              @@ (r1 :> Blocking("read", {1}))

\* Two writers, one with calls of several rounds, of the atomic limit like all
\* rounds, and one reader that only makes blocking calls: a non-blocking one
\* may find the mutex taken every time.
LimitWrites == (w1 :> Blocking("write", {SizeMax}))
            @@ (w2 :> Blocking("write", {SizeAtom}))
            @@ (r1 :> Blocking("read", {1, SizeAtom}))

\* Two writers that wait for room with different sizes, one reader.
UnequalWrites == (w1 :> Blocking("write", {SizeAtom}))
              @@ (w2 :> Blocking("write", {SizeAtom - 1}))
              @@ (r1 :> Blocking("read", {SizeAtom - 1, SizeAtom}))

\* Two readers of one record each; one reader and end of file.
TwoReads == (w1 :> Blocking("write", {SizeAtom}))
         @@ [p \in {r1, r2} |-> Blocking("read", {SizeAtom})]
EofCalls == (w1 :> Blocking("write", {1, SizeMax}) \cup Eof)
         @@ (r1 :> Blocking("read", {1, SizeMax}))
=============================================================================
