SPECIFICATION FairSpec
CONSTANTS
  Game = Game
  Worker = Worker
  MaxPipes = 2
  IdMod = 4
  FirstId = 0
  Endpoints <- MCEndpoints
INVARIANTS
  IInv
  HeldIsTracked
  NoSlotLeaks
PROPERTIES
  IsAPipeTable
  InterruptsComplete
