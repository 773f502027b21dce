SPECIFICATION Spec
CONSTANTS
  MaxLength = 5
  Kinds <- PlainKinds
INVARIANTS
  TypeOK
  PartsCover
  WordBoundaries
  ConversionKeepsLetters
PROPERTIES
  SnakeIsStable
  CamelIsReadBack
