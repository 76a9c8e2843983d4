SPECIFICATION FairSpec
CONSTANTS
  Dests = {"FLASH", "SOCKET"}
  MAXQ = 2
  MAXCRASHES = 1
  Events = {"switch", "dest", "config", "loss", "upload", "nomem", "flash", "crash"}
INVARIANTS
  TypeOK
  NeverStranded
  OpenedIsOwned
  DrainsWhileEnabled
PROPERTY SocketOpens
