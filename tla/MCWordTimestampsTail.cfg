SPECIFICATION Spec
CONSTANTS
  MCMaxBody = 3
  MCMaxWords = 2
  MCMaxFrames = 5
  MCLengths = {1}
  HopLength = 2
  Calls <- MCCalls
INVARIANT NoWordOutlivesAudio
CHECK_DEADLOCK FALSE
