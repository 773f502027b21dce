SPECIFICATION Spec
CONSTANTS
  MaxLength = 3
  Kinds <- PlainKinds
INVARIANT
  EveryIdentifierParses
