SPECIFICATION FairSpec
CONSTANTS
  t1 = t1
  t2 = t2
  Toy = {t1, t2}
  NoToy = NoToy
  NoSlot = NoSlot
  Name = {"batman", "gandalf", "unknown"}
  Catalog <- MCCatalog
  Capacity <- MCCapacity
  Ordered = FALSE
  Hints = {0, 1}
  UserZones <- Center
  UpCap = 1
  DownCap = 2
  SocketCap = 2
  MaxNoise = 1
  MaxLog = 3
INVARIANTS
  TagsAreTrue
PROPERTIES
  OldRepliesRunOut
  IsAToyPad
  RemovedToyIsForgotten
