\* The transposes of Phase A and the two kinds of product on a lane.
SPECIFICATION FairSpec
CONSTANTS
  Programs <- MCVec
  MaxPosted = 1
INVARIANTS NoRace FlagDepth NoFlagLeak VecStoresDrained ProgramsSynchronized
PROPERTIES ImplementsProduce Completes
