CONSTANTS
  c1 = c1
  c2 = c2
  NULL = NULL
  FIN = FIN
  Conn <- MCConn
  Packets = 1
  MayFail = {}
SPECIFICATION FairSpec
PROPERTY Completes
