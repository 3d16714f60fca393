---------------------------- MODULE MCIovecWalk ----------------------------
(* A small instance of IovecWalk.                                          *)
EXTENDS IovecWalk, SequencesExt

\* Up to four segments of at most three bytes; empty ones at every place.
MCIovecs == UNION {[1 .. n -> 0 .. 3] : n \in 1 .. 4}
MCBefore ==
  [v \in MCIovecs |-> [k \in 1 .. Len(v) + 1 |->
                         FoldSeq(LAMBDA x, sum : x + sum, 0, SubSeq(v, 1, k - 1))]]
=============================================================================
