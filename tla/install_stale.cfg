SPECIFICATION Spec
CHECK_DEADLOCK FALSE
CONSTANTS
  NHooks = 2
  NPreambles = 2
  Words = 3
  Target <- MCTarget
  Unresolved = Unresolved
  Libusbd = Libusbd
  NoFile = NoFile
  Garbage = Garbage
  Digits = {1, 8}
  MaxTries = 2
  MaxAttempts = 2
  MaxWaits = 2
  MaxPage = 2
  MaxGames = 2
INVARIANTS
  PreamblesAreFresh
