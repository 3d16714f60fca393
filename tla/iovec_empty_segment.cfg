CONSTANTS
  Iovecs <- MCIovecs
  Before <- MCBefore
  SizeAtom = 4
SPECIFICATION Spec
INVARIANTS OnePlace
CHECK_DEADLOCK FALSE
