CONSTANTS
  LatMax = 1
  NUM_FLOWS = 2
  NUM_BUCKETS = 2
  MaxFrames = 3
  Frames <- MCFrames
  PowerUpRecs <- MCPowerUpRecs
SPECIFICATION Spec
INVARIANT NoFrameLost
PROPERTY Refinement
