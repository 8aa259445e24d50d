SPECIFICATION Spec
CONSTANTS
  MCAlphabet = {"stop", "abbrev", "closer", "upper", "space", "newline", "other"}
  MCMaxText = 3
  Texts <- MCTexts
INVARIANT NoCutAfterAbbreviation
CHECK_DEADLOCK FALSE
