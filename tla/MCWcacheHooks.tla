---------------------------- MODULE MCWcacheHooks ----------------------------
(* WcacheHooks for TLC. *)
EXTENDS WcacheHooks, TLC

CONSTANTS o1, o2, s1, s2, s3

MCObj  == {o1, o2}
MCStr  == {s1, s2, s3}
MCPath == 1..2

\* Every call the module makes that can fail.
MCCalls == {"kmalloc", "alloc_skb", "xmit_error", "xmit_congested",
            "skb_linearize", "ens37", "kobject", "sysfs_group", "nf_register"}

\* Addresses are compared for equality only.
Addresses == Permutations(MCObj) \cup Permutations(MCStr)
=============================================================================
