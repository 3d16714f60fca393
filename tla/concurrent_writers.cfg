CONSTANTS
  w1 = w1  w2 = w2  r1 = r1  r2 = r2
  Proc <- TwoWriters
  Calls <- LimitWrites
  Looping <- r1Only
  SingleReaderAndWriter = FALSE
  SizeMax = 4
  SizeAtom = 2
  Stamps = 2
  Garbage = Garbage
  Free = Free
  Lost = Lost
  NoCall = NoCall
SPECIFICATION FairSpec
INVARIANTS ReservationsDisjoint NoLostWakeup
PROPERTY ImplementsFifo
PROPERTY WritesGoOn
