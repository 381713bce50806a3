SPECIFICATION TalkativeSpec
CONSTANTS
  other = other
  Console = ps3
  OldFile <- MCOldFile
  Deck = Deck
  Zero = Zero
  NoFile = NoFile
  MacLen = 2
  Requests <- MCRequests
CHECK_DEADLOCK FALSE
INVARIANTS
  IInv
  SavedIsWhole
  FileIsUnmixed
  SuccessIsReported
  Ep0IsServed
  NothingLeft
PROPERTIES
  Ends
