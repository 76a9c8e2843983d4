SPECIFICATION Spec
CONSTANTS
  Tasks = {mgr}
  Manager = mgr
  NoTask = NoTask
  SIZE = 5
  MAXRX = 3
  MAXTX = 2
  MAXLEN = 2
  Dests = {"SOCKET"}
PROPERTY ResetFindsBacklog
