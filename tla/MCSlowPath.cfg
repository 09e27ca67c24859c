CONSTANTS
  RING = 4
  COUNT = 8
  MaxFrames = 5
  Overtake = 0
  MaxLag = 5
  LeftCounts = {7}
  LifOf <- MCLifOf
  Bound <- MCBound
  Egress <- MCEgress
  PORT_COUNT = 2
  MAX_PER_DIR = 2
  FIFO_FRAMES = 1
  MixedPunts = 1
SPECIFICATION SlowSpec
INVARIANTS EachFrameOnce  InjectedAsRead OkMeansFetched
PROPERTIES EveryFrameReaped EveryTapServed
