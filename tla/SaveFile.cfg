SPECIFICATION Spec
CONSTANT
  MaxVersion = 4
INVARIANTS
  NeverRestoresTorn
  LossHasThreeCauses
PROPERTIES
  ImplementsDurable
