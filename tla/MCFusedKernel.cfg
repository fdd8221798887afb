SPECIFICATION Spec
CONSTANTS
  NBlocks = 2
  MaxLaunches = 2
  Units = 2
  Configs <- MCConfigs
INVARIANTS NoRace OutputRight FlagsHandedOver
PROPERTIES ImplementsStream
