CONSTANTS
  Conn = {"c1", "c2"}
  HalfClose = {"c1", "c2"}
  Isn <- MCIsn
  MayFail = {"xmit_congested", "xmit_error", "skb_linearize", "alloc_skb",
             "ens37"}
SPECIFICATION FairSpec
PROPERTY Answered
INVARIANTS STypeOK OwnPage
CHECK_DEADLOCK FALSE
