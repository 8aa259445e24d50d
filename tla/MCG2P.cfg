SPECIFICATION Spec
CONSTANTS
  MCAlphabet = {"letter", "symbol", "space", "comma", "ellipsis", "wide", "cut"}
  MCMaxText = 5
  Texts <- MCTexts
  Pronunciations <- MCPronunciations
  TokenCap = 6
INVARIANTS
  TypeOK
  Framed
  SpacesSeparate
  AlignedWhenWellSpaced
  ListedWordsAreSpoken
PROPERTY Terminates
CHECK_DEADLOCK FALSE
