SPECIFICATION FairSpec
CONSTANTS
  t1 = t1
  t2 = t2
  Toy = {t1, t2}
  NoToy = NoToy
  NoSlot = NoSlot
  Name = {"batman", "gandalf", "unknown"}
  Catalog <- MCCatalog
  Capacity <- MCCapacity
  Ordered = TRUE
  Hints = {0, 1}
  UserZones <- CenterLeft
  UpCap = 1
  DownCap = 1
  SocketCap = 2
  MaxNoise = 1
  MaxLog = 3
INVARIANTS
  IInv
PROPERTIES
  IsAToyPad
  PlacedToyIsReported
  RemovedToyIsForgotten
