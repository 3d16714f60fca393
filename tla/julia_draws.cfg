CONSTANTS
  k1 = k1  k2 = k2  c1 = c1  c2 = c2
  Worker = {k1, k2}
  QSIZE = 3
  MaxTiles = 9
  Params = {c1, c2}
  NoTile = NoTile
SPECIFICATION FairSpec
INVARIANTS TypeOK RoomForAll QuietBetweenDraws EachTileOnce
PROPERTY DrawEnds
CHECK_DEADLOCK FALSE
