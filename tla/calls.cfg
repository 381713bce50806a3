SPECIFICATION Spec
CONSTANTS
  NHooks = 8
  Params <- MCParams
  TocReg <- MCTocReg
  Passes = {1, 2, 3, 6, 7, 8}
  CallsBack = {2}
  HookAt <- MCHookAt
  GameAt = 70001
  Sprx = 140003
  GameToc = 5
  LibToc = 6
  MaxDepth = 12
INVARIANTS
  IInv
  OwnToc
  ReturnsToItsFrame
  PassesEntryToc
PROPERTIES
  CallsAreTransparent
