SPECIFICATION FairSpec
CONSTANTS
  old = old
  new = new
  Image <- MCImages
  NoImage = NoImage
  d1 = d1
  d2 = d2
  Device <- MCDevice
  NoDevice = NoDevice
CHECK_DEADLOCK FALSE
PROPERTIES
  OpdReportsAreForwarded
