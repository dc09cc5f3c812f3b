CONSTANTS
  c1 = c1
  FIN = FIN
  app_data = app_data
  Conn <- MCConn
  Packets = 3
  MayFail = {"alloc_skb", "ens37", "skb_linearize", "xmit_congested",
             "xmit_error", "nf_register"}
SPECIFICATION FairSpec
INVARIANTS MTypeOK InPlace DoneComplete

PROPERTIES FirstAnswered ServedCompletes
\* A client that has read app_data waits for ever, and nothing else is to do.
CHECK_DEADLOCK FALSE
