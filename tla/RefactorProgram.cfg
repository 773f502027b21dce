CONSTANTS
  Word = {"a", "b"}
  MaxLength = 5
  OptionValues <- MCOptionValues
  Modules <- MCModules
  File = {f1, f2}
SPECIFICATION FairProgramSpec
INVARIANTS
  TypeOK
  AcceptsExactlyTwoFields
  RenamesWhatWasAsked
  ZeroMeansSaved
  NoNullRefactoring
  FilesFollowRequest
  ExitTellsFiles
PROPERTY ProgramEnds
CHECK_DEADLOCK FALSE
