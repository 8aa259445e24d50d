SPECIFICATION Spec
CONSTANTS
  MCAlphabet = {"letter", "space", "ellipsis"}
  MCMaxText = 3
  Texts <- MCTexts
  Pronunciations <- MCKnownWords
  TokenCap = 512
INVARIANT EveryMarkIsAToken
CHECK_DEADLOCK FALSE
