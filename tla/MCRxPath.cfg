CONSTANTS
  DEPTH = 4
  DESC_DEPTH = 2
  SAF_DLY = 7
  RST_CYCLES = 8
  MaxLen = 3
  MaxFrame = 3
  MinGap = 1
  Beats <- FrameBeats
  Routes <- MCRoutes
SPECIFICATION FairSpec
 
PROPERTIES CommittedBeatsKept HeadDrains
