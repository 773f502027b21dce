CONSTANTS
  Word = {"a", "b"}
  MaxLength = 4
  OptionValues <- MCOptionValues
  Modules <- MCModules
SPECIFICATION Spec
INVARIANTS
  SyntaxIsChecked
CHECK_DEADLOCK FALSE
