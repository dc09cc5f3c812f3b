CONSTANTS
  c1 = c1
  c2 = c2
  NULL = NULL
  FIN = FIN
  Conn <- MCConn
  Packets = 2
  MayFail = {"skb_linearize", "xmit_congested", "xmit_error", "ens37",
             "kmalloc"}
SPECIFICATION FairSpec
INVARIANTS WTypeOK Intact DoneComplete
PROPERTY ServedCompletes
