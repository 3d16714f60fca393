CONSTANTS
  w1 = w1  w2 = w2  r1 = r1  r2 = r2
  Proc <- TwoEach
  Calls <- SidesCalls
  Looping = {}
  SingleReaderAndWriter = TRUE
  SizeMax = 2
  SizeAtom = 2
  Stamps = 1
  Garbage = Garbage
  Free = Free
  Lost = Lost
  NoCall = NoCall
SPECIFICATION Spec
INVARIANTS TypeOK ReservationsDisjoint AloneOnItsSide NoLostWakeup
CHECK_DEADLOCK FALSE
