SPECIFICATION Spec
CONSTANTS
  Dests = {"SOCKET"}
  MAXQ = 2
  MAXCRASHES = 1
  Events = {"crash"}
CHECK_DEADLOCK FALSE
INVARIANT ReportPrinted
