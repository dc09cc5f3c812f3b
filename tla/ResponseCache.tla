---------------------------- MODULE ResponseCache ----------------------------
(***************************************************************************)
(* What wcache promises, without its tree, strings and counters: a cache   *)
(* of responses keyed by path.  A request for an uncached path makes the   *)
(* path pending, the next response fills it, a request for a cached path   *)
(* is answered with the body filled in for that path.  While the cache is  *)
(* open nothing leaves it and nothing in it changes.                       *)
(***************************************************************************)
CONSTANTS Path, Body, NULL

VARIABLES
  store,    \* the cached responses, as pairs <<path, body>>
  pending,  \* the path the next response belongs to, or NULL
  answer,   \* the pair the cache itself answered the last packet with
  open      \* FALSE once the cache is being emptied

vars == <<store, pending, answer, open>>

Paths == {e[1] : e \in store}

Init == store = {} /\ pending = NULL /\ answer = NULL /\ open = TRUE

Miss(p) ==
  /\ p \notin Paths
  /\ pending' = p /\ answer' = NULL
  /\ UNCHANGED <<store, open>>

Hit(p) ==
  /\ \E b \in Body : <<p, b>> \in store /\ answer' = <<p, b>>
  /\ pending' = NULL
  /\ UNCHANGED <<store, open>>

\* The answer to a cached request is lost.
HitLost(p) ==
  /\ p \in Paths
  /\ pending' = NULL /\ answer' = NULL
  /\ UNCHANGED <<store, open>>

Fill(b) ==
  /\ pending # NULL
  /\ pending \notin Paths
  /\ store' = store \cup {<<pending, b>>}
  /\ pending' = NULL /\ answer' = NULL
  /\ UNCHANGED open

\* A packet that changes nothing.
Pass == answer' = NULL /\ UNCHANGED <<store, pending, open>>

\* The pending path is given up.
GiveUp ==
  /\ pending' = NULL /\ answer' \in {NULL, answer}
  /\ UNCHANGED <<store, open>>

Close == open /\ open' = FALSE /\ UNCHANGED <<store, pending, answer>>

Discard(e) ==
  /\ ~open
  /\ e \in store
  /\ store' = store \ {e}
  /\ UNCHANGED <<pending, answer, open>>

Next ==
  \/ \E p \in Path : Miss(p) \/ Hit(p) \/ HitLost(p)
  \/ \E b \in Body : Fill(b)
  \/ Pass \/ GiveUp \/ Close
  \/ \E e \in store : Discard(e)

Spec == Init /\ [][Next]_vars
=============================================================================
