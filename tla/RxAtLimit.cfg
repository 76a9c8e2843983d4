SPECIFICATION Spec
CONSTANTS
  SIZE = 12
  MAXRX = 10
  MAXMSG = 10
  DATELEN = 4
  Numbers <- SomeNumbers
INVARIANT LargestFits
