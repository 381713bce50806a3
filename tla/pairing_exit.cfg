SPECIFICATION FairSpec
CONSTANTS
  other = other
  Console = ps3
  OldFile <- MCOldFile
  Deck = Deck
  Zero = Zero
  NoFile = NoFile
  MacLen = 2
  Requests <- MCRequests
CHECK_DEADLOCK FALSE
PROPERTIES
  ExitsOnceSaved
