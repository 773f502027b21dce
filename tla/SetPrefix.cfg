SPECIFICATION Spec
CONSTANTS
  Part = {0, 1, 9, 10}
  Prefix = {built, own}
  LLVM_PREFIX = built
  Flag = {c}
  MaxArguments = 2
  MaxTasks = 2
INVARIANT
  SetPrefixIsUsed
