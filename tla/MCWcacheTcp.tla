----------------------------- MODULE MCWcacheTcp -----------------------------
(* WcacheTcp for TLC. *)
EXTENDS WcacheTcp, TLC

CONSTANTS c1, c2

MCConn == {c1, c2}
=============================================================================
