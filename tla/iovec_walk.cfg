CONSTANTS
  Iovecs <- MCIovecs
  Before <- MCBefore
  SizeAtom = 4
SPECIFICATION FairSpec
INVARIANTS TypeOK OnTheStream SegmentLeft
PROPERTY RoundEnds
CHECK_DEADLOCK FALSE
