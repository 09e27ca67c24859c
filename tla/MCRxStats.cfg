CONSTANTS
  LatMax = 3
  NUM_FLOWS = 2
  NUM_BUCKETS = 2
  MaxFrames = 2
  Spacing = 4
  FarAddrs = {1}
  MaxFar = 2
  Frames <- MCFrames
  PowerUpRecs <- MCPowerUpRecs
SPECIFICATION SSpec
INVARIANT LossIsLit
PROPERTY HistogramKeepsStep
