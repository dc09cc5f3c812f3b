------------------------------ MODULE HooksSmp ------------------------------
(***************************************************************************)
(* watch_in and watch_out of wcache/hook.c on several processors at once,  *)
(* with the node_search, node_insert and cache_update of wcache/rb_tree.c  *)
(* they call: one step per access to what they share.  No lock is taken    *)
(* anywhere; on an SMP kernel softirqs for different packets run in        *)
(* parallel.  WcacheHooks has the same hooks as atomic steps, and all of   *)
(* their exits; here are the GET and the 200 that get through.             *)
(*                                                                         *)
(* Abstractions.                                                           *)
(*  - A path's text is an integer, its rank in strcmp order.  The URL is   *)
(*    copied in one step.  Memory that was not written yet holds any text. *)
(*  - A descent takes one step.  The link it ends at is the gap between    *)
(*    the keys it has seen; one that links there later unlinks whoever     *)
(*    linked there in between.  Rotations are left out.                    *)
(*  - One that links below a node that was unlinked meanwhile is taken to  *)
(*    be in the tree.                                                      *)
(*  - Every response has one byte.  The module stays loaded.               *)
(***************************************************************************)
EXTENDS Integers, FiniteSets

CONSTANTS
  Cpu,   \* processors
  Path,  \* texts of paths, as ranks in strcmp order
  Str,   \* addresses kmalloc may return for a string
  Obj,   \* addresses kmalloc may return for a struct object
  NULL

VARIABLES
  cpu,         \* where each processor is, and its registers
  text,        \* allocated strings, with what they hold
  obj_heap,    \* allocated objects, with their string and key
  obj_tree,    \* the linked objects
  used_space, obj_count,
  temp_path,
  answer,      \* what the last hook answered, the path asked for and the key
               \* of the object, or NULL
  oops         \* TRUE after the use of a NULL pointer

smpVars == <<cpu, text, obj_heap, obj_tree, used_space, obj_count, temp_path, answer, oops>>

Idle == [at |-> "idle"]

Put(f, x, v) == [y \in DOMAIN f \cup {x} |-> IF y = x THEN v ELSE f[y]]

At(c, place) == ~oops /\ cpu[c].at = place

Goto(c, r) == cpu' = [cpu EXCEPT ![c] = r]

Match(t) == {o \in obj_tree : obj_heap[o].key = t}

-----------------------------------------------------------------------------
\* watch_in, for a GET of p.

watch_in(c, p) ==
  /\ At(c, "idle")
  /\ \E s \in Str \ DOMAIN text, t \in Path :
       text' = Put(text, s, t) /\ temp_path' = s
  /\ answer' = NULL
  /\ Goto(c, [at |-> "copy", url |-> p])
  /\ UNCHANGED <<obj_heap, obj_tree, used_space, obj_count, oops>>

\* The URL goes where temp_path points to now.
watch_in_copy(c) ==
  /\ At(c, "copy")
  /\ IF temp_path = NULL
     THEN oops' = TRUE /\ UNCHANGED text
     ELSE text' = [text EXCEPT ![temp_path] = cpu[c].url] /\ UNCHANGED oops
  /\ Goto(c, [at |-> "search", url |-> cpu[c].url])
  /\ UNCHANGED <<obj_heap, obj_tree, used_space, obj_count, temp_path, answer>>

\* node_search looks at its argument only if there is a node.
watch_in_search(c) ==
  /\ At(c, "search")
  /\ \/ /\ temp_path = NULL /\ obj_tree # {}
        /\ oops' = TRUE
        /\ UNCHANGED cpu
     \/ /\ IF temp_path = NULL THEN obj_tree = {} ELSE Match(text[temp_path]) = {}
        /\ Goto(c, Idle)
        /\ UNCHANGED oops
     \/ /\ temp_path # NULL
        /\ \E o \in Match(text[temp_path]) :
             Goto(c, [at |-> "hit", url |-> cpu[c].url, object |-> o])
        /\ UNCHANGED oops
  /\ UNCHANGED <<text, obj_heap, obj_tree, used_space, obj_count, temp_path, answer>>

watch_in_hit(c) ==
  /\ At(c, "hit")
  /\ temp_path' = NULL
  /\ answer' = <<cpu[c].url, obj_heap[cpu[c].object].key>>
  /\ Goto(c, Idle)
  /\ UNCHANGED <<text, obj_heap, obj_tree, used_space, obj_count, oops>>

-----------------------------------------------------------------------------
\* watch_out, for a 200.  obj_create gets what the test of temp_path has read;
\* without a path there is nothing to create, but temp_path is cleared too.

watch_out(c) ==
  /\ At(c, "idle")
  /\ answer' = NULL
  /\ Goto(c, IF temp_path = NULL THEN [at |-> "clear"]
             ELSE [at |-> "create", path |-> temp_path])
  /\ UNCHANGED <<text, obj_heap, obj_tree, used_space, obj_count, temp_path, oops>>

\* obj_create up to the end of the descent of node_insert.
obj_create(c) ==
  /\ At(c, "create")
  /\ \E o \in Obj \ DOMAIN obj_heap :
       LET t == text[cpu[c].path] IN
       /\ obj_heap' = Put(obj_heap, o, [path |-> cpu[c].path, key |-> t])
       /\ Goto(c, IF Match(t) # {} THEN [at |-> "clear"]
                  ELSE [at |-> "link", object |-> o, seen |-> obj_tree])
  /\ UNCHANGED <<text, obj_tree, used_space, obj_count, temp_path, answer, oops>>

\* The nodes that were linked, since the descent, where o is to be linked.
InTheWay(o, seen) ==
  {q \in obj_tree \ seen :
     \A r \in seen : obj_heap[r].key < obj_heap[q].key <=> obj_heap[r].key < obj_heap[o].key}

rb_link_node(c) ==
  /\ At(c, "link")
  /\ obj_tree' = (obj_tree \ InTheWay(cpu[c].object, cpu[c].seen)) \cup {cpu[c].object}
  /\ Goto(c, [at |-> "used"])
  /\ UNCHANGED <<text, obj_heap, used_space, obj_count, temp_path, answer, oops>>

\* cache_update: used_space is read, obj_count is read and written, used_space
\* is written.
cache_update(c) ==
  \/ /\ At(c, "used")
     /\ Goto(c, [at |-> "count", used |-> used_space])
     /\ UNCHANGED <<used_space, obj_count>>
  \/ /\ At(c, "count")
     /\ Goto(c, [at |-> "counted", used |-> cpu[c].used, count |-> obj_count])
     /\ UNCHANGED <<used_space, obj_count>>
  \/ /\ At(c, "counted")
     /\ obj_count' = cpu[c].count + 1
     /\ Goto(c, [at |-> "space", used |-> cpu[c].used])
     /\ UNCHANGED used_space
  \/ /\ At(c, "space")
     /\ used_space' = cpu[c].used + 1
     /\ Goto(c, [at |-> "clear"])
     /\ UNCHANGED obj_count

watch_out_clear(c) ==
  /\ At(c, "clear")
  /\ temp_path' = NULL
  /\ Goto(c, Idle)
  /\ UNCHANGED <<text, obj_heap, obj_tree, used_space, obj_count, answer, oops>>

-----------------------------------------------------------------------------
SmpInit ==
  /\ cpu = [c \in Cpu |-> Idle]
  /\ text = [s \in {} |-> NULL] /\ obj_heap = [o \in {} |-> NULL]
  /\ obj_tree = {} /\ used_space = 0 /\ obj_count = 0
  /\ temp_path = NULL /\ answer = NULL
  /\ oops = FALSE

SmpNext ==
  \E c \in Cpu :
    \/ \E p \in Path : watch_in(c, p)
    \/ watch_in_copy(c) \/ watch_in_search(c) \/ watch_in_hit(c)
    \/ watch_out(c) \/ obj_create(c) \/ rb_link_node(c)
    \/ cache_update(c) /\ UNCHANGED <<text, obj_heap, obj_tree, temp_path, answer, oops>>
    \/ watch_out_clear(c)

SmpSpec == SmpInit /\ [][SmpNext]_smpVars

-----------------------------------------------------------------------------
\* Properties.  All hold for one processor, and none for two.

AtRest == ~oops /\ \A c \in Cpu : cpu[c].at = "idle"

\* sysfs.c:28 says that the attribute is the number of content objects.  Two
\* responses at once may link at the same place, of which one is lost, or both
\* add one to the same count.
CountAtRest == AtRest => obj_count = Cardinality(obj_tree)

\* README.md:2 says that a repeated request is answered with the content asked
\* for: watch_in looks up what temp_path points to, not what it has copied.
AnswersOwnPath == answer # NULL => answer[1] = answer[2]

\* hook.c:101 says that the path is saved: temp_path may be gone before the URL
\* is copied to it.
NeverOops == ~oops

\* The cache as ResponseCache sees it.  A hook has its effect when node_search
\* has missed, when it answers, or when it links; on the way there, and after
\* it, what it has left in temp_path is not yet, or no longer, pending.  A
\* response is named by the path it is stored under.
Saved ==
  IF temp_path # NULL /\ \A c \in Cpu : cpu[c].at \in {"idle", "create", "link"}
  THEN text[temp_path] ELSE NULL

Atomic == INSTANCE ResponseCache WITH
  Body <- Path,
  store <- {<<obj_heap[o].key, obj_heap[o].key>> : o \in obj_tree},
  pending <- Saved,
  open <- TRUE

\* WcacheHooks has each hook as one step, without a lock in the code that would
\* make it one: the steps here add up to the same abstract ones.
HooksAtomic == Atomic!Spec
=============================================================================
