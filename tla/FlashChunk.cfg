SPECIFICATION Spec
CONSTANTS
  PAGE = 2
  KB = 2
  SECTORKB = 3
  THRESHKB = 2
  FLASHKB = 9
  MAXPKT = 2
  MAXRESTARTS = 2
  Faults = {"urgent"}
INVARIANT LogStored
