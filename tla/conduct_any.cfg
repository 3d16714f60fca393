CONSTANTS
  w1 = w1  w2 = w2  r1 = r1  r2 = r2
  Proc <- TwoWriters
  Calls <- AnyCalls
  Looping = {}
  SizeMax = 2
  SizeAtom = 2
  Stamps = 1
  Garbage = Garbage
  Free = Free
  NoCall = NoCall
SPECIFICATION Spec
INVARIANTS TypeOK MutexDiscipline EmptyMeansSameIndex
CHECK_DEADLOCK FALSE
