------------------------------ MODULE WebService ------------------------------
(***************************************************************************)
(* What the clients of a server see when nothing is between: a request is  *)
(* answered in one step, with what the server has at its path.  No packet, *)
(* no cache.                                                               *)
(***************************************************************************)
CONSTANTS Client, Request, Content, NULL

VARIABLES
  waiting,  \* the request of each client that has no answer yet, or NULL
  got       \* the last answer of each client, or NULL

vars == <<waiting, got>>

Init ==
  /\ waiting = [c \in Client |-> NULL]
  /\ got = [c \in Client |-> NULL]

Ask(r) ==
  /\ waiting[r.from] = NULL
  /\ waiting' = [waiting EXCEPT ![r.from] = r]
  /\ UNCHANGED got

Reply(c) ==
  /\ waiting[c] # NULL
  /\ LET p == waiting[c].path
     IN  got' = [got EXCEPT ![c] = [to |-> c, path |-> p, body |-> Content[p]]]
  /\ waiting' = [waiting EXCEPT ![c] = NULL]

Next ==
  \/ \E r \in Request : Ask(r)
  \/ \E c \in Client : Reply(c)

Spec == Init /\ [][Next]_vars
=============================================================================
