SPECIFICATION Spec
CONSTANTS
  DEFAULT_ENABLED = 0
  FirstEeprom <- SomeEeprom
  Requests <- SomeRequests
  Inputs <- SomeInputs
INVARIANTS
  TypeOK
  SizeInLimits
  RestartRestores
  WriteInSegment
