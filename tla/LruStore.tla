------------------------------- MODULE LruStore -------------------------------
(***************************************************************************)
(* The replacement functions of wcache/rb_tree.c on top of CacheStore.     *)
(* Their only calls, in obj_create, are commented out; here the thread     *)
(* that uses the store calls node_least_recently_used_delete as it calls   *)
(* the other operations.                                                   *)
(***************************************************************************)
EXTENDS CacheStore

\* What the replacement should go by, whatever the code keeps in time.
VARIABLE last_use  \* when each path was last created or searched for

lVars == <<vars, last_use>>

\* Mutant: the comparison is the wrong way round.
Older_reversed(o, best) == obj_heap[o].time >= obj_heap[best].time

Older(o, best) == obj_heap[o].time <= obj_heap[best].time

\* The loop from node o on, for each oldest object so far.
oldest[o \in obj_tree \cup {NULL}] ==
  [best \in obj_tree |->
     IF o = NULL THEN best
     ELSE oldest[rb_next(o)][IF Older(o, best) THEN o ELSE best]]

node_least_recently_used_search == oldest[rb_first][rb_first]

\* On an empty tree the search returns the NULL of rb_first, moved by the
\* offset of the field node.
node_least_recently_used_delete ==
  /\ Ready
  /\ IF obj_tree = {}
     THEN /\ fault' = FirstFault("null_deref")
          /\ UNCHANGED <<heapVars, obj_tree, counterVars>>
     ELSE node_delete(node_least_recently_used_search)
  /\ UNCHANGED <<temp_object, jiffies, node, pc, last_use>>

Use(p) == last_use' = [last_use EXCEPT ![p] = jiffies]

\* Mutant: a search does not refresh the access time.
obj_search_stale(p) ==
  /\ Ready
  /\ node_search(p) # NULL
  /\ Use(p)
  /\ UNCHANGED vars

Search(p) == obj_search(p) /\ Use(p)

\* A new object is used; one whose path is taken stays out of the tree.
New(p, data, size) ==
  /\ Create(p, data, size)
  /\ IF Match(p) = {} THEN Use(p) ELSE UNCHANGED last_use

Other ==
  /\ \/ \E p \in Path : node_path_delete(p)
     \/ \E size \in Size : CreateFails(size)
     \/ tree_delete_begin("idle") \/ tree_delete_release
     \/ tree_delete_erase \/ tree_delete_end("idle")
     \/ Tick
  /\ UNCHANGED last_use

LInit == Init /\ last_use = [p \in Path |-> 0]

LNext ==
  \/ \E p \in Path, data \in Body, size \in Size : New(p, data, size)
  \/ \E p \in Path : Search(p)
  \/ node_least_recently_used_delete
  \/ Other

LSpec == LInit /\ [][LNext]_lVars

-----------------------------------------------------------------------------
\* Properties.

\* Every variable of the module has its type.
LTypeOK == TypeOK /\ last_use \in [Path -> 0..MaxJiffies]

\* README.md:2 promises LRU replacement: when the clock tells the uses of two
\* paths apart, the path that goes is not the one used later, however creates,
\* searches and deletions came before, and exactly one path goes.
EvictsLeastRecent ==
  [][node_least_recently_used_delete /\ obj_tree # {} =>
       \E o \in obj_tree :
         /\ obj_tree' = obj_tree \ {o}
         /\ \A q \in obj_tree : last_use[Text(o)] <= last_use[Text(q)]]_lVars
=============================================================================
