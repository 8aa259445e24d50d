SPECIFICATION Spec
CONSTANTS
  MCMaxFrames = 7
  MCMaxDuration = 2
  Documents <- MCDocuments
  Pronunciations <- MCPronunciations
  TokenCap = 7
  HopLength = 2
  Rows <- MCRows
  SILENCE_SAMPLES = 3
  Precision = 1
INVARIANTS
  OffsetIsLength
  WordsWhereSpoken
  MarkedInTextOrder
  PrintedInOrder
PROPERTIES
  TimelineSpec
  Finishes
CHECK_DEADLOCK FALSE
