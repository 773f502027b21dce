SPECIFICATION Spec
CONSTANTS
  MaxLength = 3
  Kinds <- AffixKinds
INVARIANT
  GuessDropsAffix
