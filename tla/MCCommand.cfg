SPECIFICATION CommandSpec
CONSTANTS
  MCArgs = {"--help", "--list-voices", "--gpu", "--output", "--speed", "word", "-word", "", "1.5"}
  MCMaxArgs = 3
  Commands <- MCCommands
  MaxRuns = 3
  Lengths = {0, 2, 20}
  WordSize = 64
INVARIANTS
  TypeOK
  SuccessReplacesBoth
  JsonFollowsWav
  MismatchOnlyAfterFailure
  HeaderReadable
PROPERTIES
  FilesOnlyWhenAsked
  ExitTellsOutcome
CHECK_DEADLOCK FALSE
