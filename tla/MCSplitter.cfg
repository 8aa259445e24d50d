SPECIFICATION Spec
CONSTANTS
  MCAlphabet = {"stop", "abbrev", "closer", "upper", "space", "newline", "other"}
  MCMaxText = 5
  Texts <- MCTexts
INVARIANTS
  NothingLost
  CutsBeforeCapitals
PROPERTY Terminates
CHECK_DEADLOCK FALSE
