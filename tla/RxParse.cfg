SPECIFICATION Spec
CONSTANTS
  SIZE = 12
  MAXRX = 10
  MAXMSG = 9
  DATELEN = 4
  Numbers <- SomeNumbers
INVARIANTS
  TypeOK
  InOrder
  Complete
  NoExtraCells
  NumbersReadBack
