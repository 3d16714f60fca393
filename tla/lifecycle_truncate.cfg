CONSTANTS
  server = server  c1 = c1  c2 = c2
  n = n
  i1 = i1  i2 = i2  i3 = i3
  Proc = {server, c1, c2}
  Name = {n}
  Inode = {i1, i2, i3}
  NoFile = NoFile
  Sizes = {2, 3}
  MayCreate <- ServerCreates
  MayDestroy = {}
  UnlinkFirst = FALSE
SPECIFICATION Spec
INVARIANTS MappingsInsideFiles
