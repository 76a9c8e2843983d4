SPECIFICATION Spec
CONSTANTS
  PAGE = 2
  KB = 2
  SECTORKB = 3
  THRESHKB = 2
  FLASHKB = 9
  MAXPKT = 2
  MAXRESTARTS = 2
  Faults = {"urgent", "partial", "erase", "nvr", "restart", "config", "switch"}
\* A log whose initialisation failed stays unused until the next restart.
CHECK_DEADLOCK FALSE
VIEW LogView
CONSTRAINT LessAfterHazard
INVARIANTS
  TypeOK
  WriteInSegment
  LogIntact
  EraseAhead
  SectorBookkeeping
  ReaderLeavesErased
PROPERTY
  RestartKeepsLog
