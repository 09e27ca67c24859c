CONSTANTS
  W = 3
  Epoch <- MCEpoch
  Period = 1
  Cal = 1
  FlowMeta <- MCFlowMeta
  Calls = {"config.load", "flow.stats"}
  MaxEdges = 2
  MaxBetween = 3
SPECIFICATION Spec
INVARIANTS AcceptedOffsetIsTrue 
