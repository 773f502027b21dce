CONSTANTS
  F = F
  G = G
  H = H
  Path = {1, 2, 3}
  Offset = {1, 2}
  Text = {1, 2}
  Name = {F, G, H}
  NSources = 2
  Programs <- MCPrograms
  Refactorings <- RenameBoth
  Temporaries = 2
SPECIFICATION FairSpec
INVARIANTS
  TypeOK
  WholeFilesOnDisk
  ExitTellsTruth
  FailureLeavesFilesAlone
  RenameIsConsistent
  
PROPERTIES
  ImplementsRename
  Termination
CHECK_DEADLOCK FALSE
