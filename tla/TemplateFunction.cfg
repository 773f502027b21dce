CONSTANTS
  F = F
  G = G
  H = H
  Path = {1}
  Offset = {1, 2, 3, 4}
  Text = {1}
  Name = {F, G, H}
  NSources = 1
  Programs <- TemplateFunction
  Refactorings <- RenameF
  Temporaries = 0
SPECIFICATION Spec
INVARIANT TemplateFunctionAsExpected
CHECK_DEADLOCK FALSE
