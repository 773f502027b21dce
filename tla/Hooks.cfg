SPECIFICATION Spec
CONSTANTS
  Hook = {h1, h2, h3, h4}
  MaxMoves = 3
SYMMETRY HookSymmetry
INVARIANTS TypeOK AudienceHears OrderInvertedByNesting
CHECK_DEADLOCK FALSE
