SPECIFICATION Spec
CONSTANTS
  Voices = {v1, v2}
  Objects = {o1, o2}
  Rows = 2
  MaxTokens = 3
  MaxKills = 1
INVARIANTS
  PackIsNamed
  StyleInPack
  AloneKeepsEngine
  EngineReleased
  TraceIsOpen
  NoFileLeft
