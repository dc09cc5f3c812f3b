----------------------------- MODULE MCFinalHook -----------------------------
(* FinalHook for TLC. *)
EXTENDS FinalHook, TLC

MCIsn == ("c1" :> 1 @@ "c2" :> 4)
=============================================================================
