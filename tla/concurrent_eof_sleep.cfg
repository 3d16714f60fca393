CONSTANTS
  w1 = w1  w2 = w2  r1 = r1  r2 = r2
  Proc <- OneEach
  Calls <- EofCalls
  Looping = {}
  SingleReaderAndWriter = FALSE
  SizeMax = 2
  SizeAtom = 1
  Stamps = 1
  Garbage = Garbage
  Free = Free
  Lost = Lost
  NoCall = NoCall
SPECIFICATION FairSpec
PROPERTY EofReleasesReaders
