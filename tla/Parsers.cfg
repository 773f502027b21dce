SPECIFICATION Spec
CONSTANT MaxLength = 7
INVARIANTS DefinitionsAccepted IdentifiersAccepted PrefixMakesDefinition
CHECK_DEADLOCK FALSE
