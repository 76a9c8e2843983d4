SPECIFICATION FairSpec
CONSTANTS
  Dests = {"SOCKET"}
  MAXQ = 2
  MAXCRASHES = 0
  Events = {"switch"}
PROPERTY SwitchedOnWorks
