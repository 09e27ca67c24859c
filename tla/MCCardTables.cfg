CONSTANTS
  NUM_CMP = 2
  NUM_RULE = 3
  MAP_DEPTH = 2
  HASH_DEPTH = 2
  NUM_ROWS = 2
  MaxFaults = 1
  Programs <- MCPrograms
SPECIFICATION Spec
INVARIANTS ConfiguredEntriesLive EntriesWhole BucketsMatchMask
