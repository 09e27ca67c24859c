SPECIFICATION Spec
CONSTANTS
  Cards = {1, 2, 3}
  GroupOf <- MCGroupOf
  HAS_DMA = {1, 2}
  PW_VFIO_MAX_GROUPS = 2
  Lifs = {1, 2}
  LifCard <- MCLifCard
  MaxLoads = 1
  MaxFaults = 2
INVARIANTS  DmaIntoLivePool NoSelfConflict  ServesWhole
PROPERTY ShutdownCompletes
CHECK_DEADLOCK FALSE
