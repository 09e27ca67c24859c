CONSTANTS
  LatMax = 2
  NUM_FLOWS = 2
  MaxFrames = 5
  Frames <- MCFrames
SPECIFICATION Spec
INVARIANTS SequenceAccounting LossEstimateBounds LatencyEnvelope
