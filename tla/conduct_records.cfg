CONSTANTS
  w1 = w1  w2 = w2  r1 = r1  r2 = r2
  Proc <- TwoEach
  Calls <- RecordCalls
  Looping = {}
  SizeMax = 4
  SizeAtom = 2
  Stamps = 3
  Garbage = Garbage
  Free = Free
  NoCall = NoCall
SPECIFICATION Spec
SYMMETRY RecordsSymmetry
INVARIANTS NoLostWakeup RecordsComeWhole
PROPERTY ImplementsFifo
