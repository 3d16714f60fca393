---------------------------- MODULE ConductFifo ----------------------------
(***************************************************************************)
(* What a conduit promises to the threads that call it: a bounded queue of *)
(* bytes with an end-of-file mark.  A write puts its bytes in pieces of    *)
(* SizeAtom (the last one may be shorter) and a piece goes in whole or not *)
(* at all, so a write of at most SizeAtom bytes is never mixed with        *)
(* another.  A read takes pieces of at most SizeAtom from the head of the  *)
(* queue.  After the end-of-file mark nothing goes in.                     *)
(*                                                                         *)
(* The two implementations differ in what the mark means to a reader: with *)
(* Drains (conduct.c) a read returns 0 when, and only when, everything     *)
(* that went in was read; without (concurrentconduct.c) the mark fails     *)
(* every read at once with EPIPE, whatever is left.                        *)
(*                                                                         *)
(* A call that has moved something may return a short count at any time:   *)
(* the code gives up when it finds the mutex taken.  A blocking call that  *)
(* has moved nothing returns only for end of file.                         *)
(***************************************************************************)
EXTENDS Integers, Sequences

CONSTANTS
  Proc, Calls, NoCall,
  SizeMax,   \* the queue holds at most this many bytes
  SizeAtom,  \* size of the pieces
  Byte,
  Drains

VARIABLES
  queue,  \* the bytes in the conduit, oldest first
  eof,    \* the end-of-file mark was written
  call,   \* the call each thread is in, or NoCall
  moved,  \* number of bytes its call has moved so far
  bytes,  \* the bytes to write, or the bytes read so far
  ret     \* value and errno of the last call

vars == <<queue, eof, call, moved, bytes, ret>>

NoRet        == [val |-> 0, errno |-> "none"]
Error(e)     == [val |-> -1, errno |-> e]
Success(v)   == [val |-> v, errno |-> "ok"]

Init ==
  /\ queue = <<>>
  /\ eof   = FALSE
  /\ call  = [p \in Proc |-> NoCall]
  /\ moved = [p \in Proc |-> 0]
  /\ bytes = [p \in Proc |-> <<>>]
  /\ ret   = [p \in Proc |-> NoRet]

-----------------------------------------------------------------------------
In(p, op) == call[p] # NoCall /\ call[p].op = op

Refuse(p, c) ==
  /\ call[p] = NoCall
  /\ \/ eof /\ Drains /\ c.op # "read" /\ ret' = [ret EXCEPT ![p] = Success(0)]
     \/ eof /\ ~Drains /\ c.op = "write_eof" /\ ret' = [ret EXCEPT ![p] = Success(0)]
     \/ eof /\ ~Drains /\ c.op # "write_eof" /\ ret' = [ret EXCEPT ![p] = Error("EPIPE")]
     \/ c.count = 0 /\ ret' = [ret EXCEPT ![p] = Error("EINVAL")]
  /\ UNCHANGED <<queue, eof, call, moved, bytes>>

Enter(p, c) ==
  /\ call[p] = NoCall
  /\ call' = [call EXCEPT ![p] = c]
  /\ bytes'[p] \in Seq(Byte)
  /\ Len(bytes'[p]) = IF c.op = "write" THEN c.count ELSE 0
  /\ bytes' = [bytes EXCEPT ![p] = bytes'[p]]
  /\ ret'  = [ret EXCEPT ![p] = NoRet]
  /\ UNCHANGED <<queue, eof, moved>>

left(p) == call[p].count - moved[p]

Put(p) ==
  /\ In(p, "write")
  /\ ~eof
  /\ LET n == IF left(p) > SizeAtom THEN SizeAtom ELSE left(p)
     IN  /\ n > 0
         /\ Len(queue) + n <= SizeMax
         /\ queue' = queue \o SubSeq(bytes[p], moved[p] + 1, moved[p] + n)
         /\ moved' = [moved EXCEPT ![p] = @ + n]
  /\ UNCHANGED <<eof, call, bytes, ret>>

Get(p) ==
  /\ In(p, "read")
  /\ \E n \in 1 .. Len(queue) :
         /\ n <= left(p) /\ n <= SizeAtom
         /\ queue' = SubSeq(queue, n + 1, Len(queue))
         /\ bytes' = [bytes EXCEPT ![p] = @ \o SubSeq(queue, 1, n)]
         /\ moved' = [moved EXCEPT ![p] = @ + n]
  /\ UNCHANGED <<eof, call, ret>>

Leave(p, result) ==
  /\ call'  = [call EXCEPT ![p] = NoCall]
  /\ moved' = [moved EXCEPT ![p] = 0]
  /\ bytes' = [bytes EXCEPT ![p] = <<>>]
  /\ ret'   = [ret EXCEPT ![p] = result]

PutEof(p) ==
  /\ In(p, "write_eof")
  /\ eof' = TRUE
  /\ Leave(p, Success(IF Drains THEN 1 ELSE 0))
  /\ UNCHANGED queue

Return(p) ==
  /\ call[p] # NoCall
  /\ \/ moved[p] > 0 /\ Leave(p, Success(moved[p]))
     \/ moved[p] = 0 /\ call[p].nb /\ Leave(p, Error("EWOULDBLOCK"))
     \/ moved[p] = 0 /\ In(p, "write") /\ eof /\ Leave(p, Error("EPIPE"))
     \/ moved[p] = 0 /\ In(p, "read") /\ eof /\ Drains /\ queue = <<>>
          /\ Leave(p, Success(0))
     \/ moved[p] = 0 /\ In(p, "read") /\ eof /\ ~Drains /\ Leave(p, Error("EPIPE"))
  /\ UNCHANGED <<queue, eof>>

Next == \E p \in Proc :
  \/ \E c \in Calls[p] : Refuse(p, c) \/ Enter(p, c)
  \/ Put(p) \/ Get(p) \/ PutEof(p) \/ Return(p)

Spec == Init /\ [][Next]_vars
=============================================================================
