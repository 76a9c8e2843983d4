SPECIFICATION Spec
CONSTANTS
  DEFAULT_ENABLED = 0
  FirstEeprom <- SomeEeprom
  Requests <- SomeRequests
  Inputs <- SomeInputs
PROPERTY EnableIsReset
