SPECIFICATION Spec
CONSTANTS
  MCAlphabet = {"0", "2", ",", ".", "$", "-", " ", "x", "th", "abbrev"}
  MCNumeric = {"2", ",", ".", "$", "-", " "}
  MCMaxText = 4
  MCLong = {1, 2, 3, 4, 5, 6, 7, 9, 10}
  Texts <- MCTexts
  MaxValue = 1999999998
  Dictionaries <- MCDictionaries
  Answers <- MCAnswers
  Inputs <- MCInputs
INVARIANTS
  NumbersAreRead
  AmountsAreRead
  DigitsLeftInWords
  Spaced
  FailsOnlyOnLong
  OnlyCutEntryDiffers
  OneGroup
  NumbersAreSpoken
CHECK_DEADLOCK FALSE
