CONSTANTS
  NumCards = 2
  FlowsOf <- MCFlowsOf
  TxCard <- MCTxCard
  RxCard <- MCRxCard
  NUM_ROWS = 1
  MaxSeq = 2
SPECIFICATION Spec
INVARIANTS ViewMatches RunningIsReported TruthfulBaseline
