CONSTANTS
  Encodings <- EveryWord
  B = 1
  Width = 3
  I = 2
  Operands <- EveryOperand
  MemBytes = 8
  MaxOps = 3
SPECIFICATION Spec
INVARIANTS
  SameOperation
  TranslatorStops
  EndsTheBlock
  FilterExact
  UnalignedCopies
PROPERTIES
  OnlyDivergentDiffer
  MaddAccumulates
  GuestSteps
CHECK_DEADLOCK FALSE
