CONSTANTS
  w1 = w1  w2 = w2  r1 = r1  r2 = r2
  Proc <- TwoReaders
  Calls <- TwoReads
  Looping = {}
  SingleReaderAndWriter = FALSE
  SizeMax = 3
  SizeAtom = 1
  Stamps = 1
  Garbage = Garbage
  Free = Free
  Lost = Lost
  NoCall = NoCall
SPECIFICATION Spec
INVARIANTS ReservationsDisjoint
