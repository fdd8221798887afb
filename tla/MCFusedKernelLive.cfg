\* Progress of the device, on two blocks and two launches.
SPECIFICATION FairSpec
CONSTANTS
  NBlocks = 2
  MaxLaunches = 2
  Units = 1
  Configs <- MCLiveConfigs
PROPERTIES EveryLaunchEnds
