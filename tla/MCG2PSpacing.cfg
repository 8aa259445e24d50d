SPECIFICATION Spec
CONSTANTS
  MCAlphabet = {"letter", "space", "quote"}
  MCMaxText = 6
  Texts <- MCQuotations
  Pronunciations <- MCKnownWords
  TokenCap = 512
INVARIANT OneEntryPerGroup
CHECK_DEADLOCK FALSE
