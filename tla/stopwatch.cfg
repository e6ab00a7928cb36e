SPECIFICATION Spec
CONSTANTS
  Width = 6
INVARIANTS
  TypeOK
  MeasuresSinceReset
