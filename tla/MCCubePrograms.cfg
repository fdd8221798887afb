\* The three matmul schedules.
SPECIFICATION FairSpec
CONSTANTS
  Programs <- MCCube
  MaxPosted = 2
INVARIANTS NoRace FlagDepth NoFlagLeak ProgramsSynchronized
PROPERTIES ImplementsProduce Completes
