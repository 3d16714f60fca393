CONSTANTS
  w1 = w1  w2 = w2  r1 = r1  r2 = r2
  Proc <- OneEach
  Calls <- RoundCalls
  Looping <- r1Only
  SizeMax = 4
  SizeAtom = 3
  Stamps = 5
  Garbage = Garbage
  Free = Free
  NoCall = NoCall
SPECIFICATION FairSpec
INVARIANTS NoLostWakeup NeverMoreThanAsked
PROPERTY ImplementsFifo
PROPERTY WriteReturns
PROPERTY EofDrains
