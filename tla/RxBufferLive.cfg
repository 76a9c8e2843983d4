SPECIFICATION FairSpec
VIEW View
CONSTANTS
  Tasks = {mgr}
  Manager = mgr
  NoTask = NoTask
  SIZE = 4
  MAXRX = 3
  MAXTX = 2
  MAXLEN = 2
  Dests = {"SOCKET"}
PROPERTY BacklogDrains
