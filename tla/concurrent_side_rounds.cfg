CONSTANTS
  w1 = w1  w2 = w2  r1 = r1  r2 = r2
  Proc <- TwoWriters
  Calls <- SideRounds
  Looping = {}
  SingleReaderAndWriter = TRUE
  SizeMax = 4
  SizeAtom = 3
  Stamps = 2
  Garbage = Garbage
  Free = Free
  Lost = Lost
  NoCall = NoCall
SPECIFICATION Spec
INVARIANTS CopiesWhatItReserved
PROPERTY ImplementsFifo
