SPECIFICATION Spec
CONSTANTS
  Dumpers = {logger, ftp}
  Manager = logger
  Watched = ftp
  logger = logger
  ftp = ftp
  KB = 2
  SECTORKB = 1
  FLASHKB = 2
  CHUNK = 3
  Faults = {}
INVARIANT StoppedWhileSending
