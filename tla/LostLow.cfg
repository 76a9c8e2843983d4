SPECIFICATION Spec
CONSTRAINT NoOtherHazard
CONSTANTS
  Tasks = {mgr, t1}
  Manager = mgr
  NoTask = NoTask
  SIZE = 4
  MAXRX = 3
  MAXTX = 2
  MAXLEN = 2
  Dests = {"SOCKET"}
INVARIANT EveryOverrunMarked
