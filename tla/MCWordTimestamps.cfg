SPECIFICATION Spec
CONSTANTS
  MCMaxBody = 5
  MCMaxWords = 3
  MCMaxFrames = 7
  MCLengths = {0, 1, 2}
  HopLength = 2
  Calls <- MCCalls
INVARIANTS
  TypeOK
  InOrder
  LabelsMatchGroups
  LastWordEndsWithAudio
CHECK_DEADLOCK FALSE
