SPECIFICATION Spec
VIEW View
CONSTANTS
  Tasks = {mgr, t1}
  Manager = mgr
  NoTask = NoTask
  SIZE = 4
  MAXRX = 3
  MAXTX = 2
  MAXLEN = 2
  Dests = {"SOCKET", "FLASH"}
INVARIANTS
  TypeOK
  MessageIntact
  RoomForMessage
  SendInBounds
  BacklogIsExact
  OverrunIsMarked
  RunsWhileEnabled
