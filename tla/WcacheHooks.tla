----------------------------- MODULE WcacheHooks -----------------------------
(***************************************************************************)
(* The kernel module wcache: its netfilter hooks watch_in and watch_out    *)
(* (wcache/hook.c) and its life from insmod to rmmod (wcache/wcache.c,     *)
(* wcache/sysfs.c), on top of the store of CacheStore.                     *)
(*                                                                         *)
(* Processes.  pc is the thread of insmod and then rmmod, one step per     *)
(* call it makes.  A hook runs in softirq context between any two of its   *)
(* steps while it is registered; it is one atomic step, as on one CPU,     *)
(* where a softirq is neither preempted nor nested.  No hook runs after a  *)
(* memory error (in softirq context most of them end the kernel), while    *)
(* the thread of rmmod, the source of the others, goes on.                 *)
(*                                                                         *)
(* Abstractions.                                                           *)
(*  - A packet is what the hook learns from it: a GET for a path, a 200    *)
(*    with its payload, another response, or one the hook lets pass.       *)
(*  - A string that nothing refers to any more leaves str_heap and sets    *)
(*    lost: its address can be given to another, as it makes no difference *)
(*    which address a leaked string keeps.                                 *)
(***************************************************************************)
EXTENDS CacheStore

CONSTANT MaxDevRefs  \* bound on dev_refs

ASSUME HooksAssumption == MaxDevRefs \in Nat

VARIABLES
  temp_path,  \* the path of the last GET that missed
  hooks,      \* the registered hooks
  kobj,       \* my_cache_kobj and its attribute group
  dev_refs,   \* references taken on ens37
  lost,       \* TRUE once a string was leaked
  verdict,    \* what the last hook returned
  reply       \* the path and body of the packet it sent itself, or NULL

hookVars  == <<temp_path, hooks, kobj, dev_refs, lost, verdict, reply>>
hVars     == <<vars, hookVars>>

-----------------------------------------------------------------------------
\* Strings.

Owned == UNION {StringsOf(o) : o \in DOMAIN obj_heap}

Pending == {temp_path} \ {NULL}

\* The strings only temp_path refers to, which are lost when it changes.
Orphans == Pending \ Owned

Strings == kfree(str_heap, Orphans)

Return(v, packet) == verdict' = v /\ reply' = packet

-----------------------------------------------------------------------------
\* watch_in, the hook on PRE_ROUTING.

Hook(h) == h \in hooks /\ fault = "none"

\* dev_get_by_name takes a reference that nothing gives back.
GetDevice ==
  dev_refs' = IF dev_refs < MaxDevRefs THEN dev_refs + 1 ELSE dev_refs

\* kfree_skb of the uninitialised new_skb.
watch_in_no_device ==
  /\ Hook("pre")
  /\ "ens37" \in MayFail
  /\ fault' \in {fault, "wild_free"}
  /\ Return("NF_ACCEPT", NULL)
  /\ UNCHANGED <<heapVars, obj_tree, counterVars, temp_object, jiffies, node,
                 pc, temp_path, hooks, kobj, dev_refs, lost>>

\* Not from the client to the server, no payload, no GET or no URL.
watch_in_pass ==
  /\ Hook("pre")
  /\ GetDevice
  /\ Return("NF_ACCEPT", NULL)
  /\ UNCHANGED <<vars, temp_path, hooks, kobj, lost>>

watch_in_not_linear ==
  /\ Hook("pre")
  /\ "skb_linearize" \in MayFail
  /\ GetDevice
  /\ Return("NF_DROP", NULL)
  /\ UNCHANGED <<vars, temp_path, hooks, kobj, lost>>

\* The URL is copied to what kmalloc returned without looking at it.
watch_in_no_memory ==
  /\ Hook("pre")
  /\ "kmalloc" \in MayFail
  /\ GetDevice
  /\ temp_path' = NULL
  /\ str_heap' = Strings
  /\ lost' = (lost \/ Orphans # {})
  /\ fault' = FirstFault("null_deref")
  /\ UNCHANGED <<obj_heap, obj_tree, counterVars, temp_object, jiffies, node,
                 pc, hooks, kobj, verdict, reply>>

\* Mutant: a path that is pending stays pending.
watch_in_miss_keeps(p) ==
  /\ Hook("pre")
  /\ GetDevice
  /\ node_search(p) = NULL
  /\ \E s \in Str \ DOMAIN str_heap :
       IF temp_path = NULL
       THEN temp_path' = s /\ str_heap' = kmalloc(Strings, s, p)
       ELSE UNCHANGED <<temp_path, str_heap>>
  /\ lost' = (lost \/ Orphans # {})
  /\ Return("NF_ACCEPT", NULL)
  /\ UNCHANGED <<obj_heap, obj_tree, counterVars, temp_object, jiffies, node,
                 fault, pc, hooks, kobj>>

watch_in_miss(p) ==
  /\ Hook("pre")
  /\ GetDevice
  /\ node_search(p) = NULL
  /\ \E s \in Str \ DOMAIN str_heap :
       /\ temp_path' = s
       /\ str_heap' = kmalloc(Strings, s, p)
  /\ lost' = (lost \/ Orphans # {})
  /\ Return("NF_ACCEPT", NULL)
  /\ UNCHANGED <<obj_heap, obj_tree, counterVars, temp_object, jiffies, node,
                 fault, pc, hooks, kobj>>

\* Mutant: no reply is ever transmitted.
Transmit_nothing(packet) == Return("NF_DROP", NULL)

\* dev_queue_xmit: an error lets the request pass, a congested queue drops
\* the reply and counts as success.
Transmit(packet) ==
  \/ Return("NF_DROP", packet)
  \/ "xmit_error" \in MayFail /\ Return("NF_ACCEPT", NULL)
  \/ "xmit_congested" \in MayFail /\ Return("NF_DROP", NULL)

\* Mutant: the path of a hit stays in temp_path.
watch_in_hit_pending(p) ==
  /\ Hook("pre")
  /\ GetDevice
  /\ node_search(p) # NULL
  /\ \E s \in Str \ DOMAIN str_heap :
       temp_path' = s /\ str_heap' = kmalloc(Strings, s, p)
  /\ lost' = (lost \/ Orphans # {})
  /\ Transmit(<<p, obj_heap[node_search(p)].body>>)
  /\ UNCHANGED <<obj_heap, obj_tree, counterVars, temp_object, jiffies, node,
                 pc, hooks, kobj, fault>>

\* The copy of the URL is forgotten, and so is the path that was pending.
watch_in_hit(p) ==
  /\ Hook("pre")
  /\ GetDevice
  /\ node_search(p) # NULL
  /\ temp_path' = NULL
  /\ str_heap' = Strings
  /\ lost' = TRUE
  /\ \/ /\ Transmit(<<p, obj_heap[node_search(p)].body>>)
        /\ UNCHANGED fault
     \/ /\ "alloc_skb" \in MayFail
        /\ fault' = FirstFault("null_deref")
        /\ UNCHANGED <<verdict, reply>>
  /\ UNCHANGED <<obj_heap, obj_tree, counterVars, temp_object, jiffies, node,
                 pc, hooks, kobj>>

-----------------------------------------------------------------------------
\* watch_out, the hook on POST_ROUTING.

watch_out_pass ==
  /\ Hook("post")
  /\ Return("NF_ACCEPT", NULL)
  /\ UNCHANGED <<vars, temp_path, hooks, kobj, dev_refs, lost>>

watch_out_not_linear ==
  /\ Hook("post")
  /\ "skb_linearize" \in MayFail
  /\ Return("NF_DROP", NULL)
  /\ UNCHANGED <<vars, temp_path, hooks, kobj, dev_refs, lost>>

\* A payload that does not begin with HTTP/1.1 200 OK.
watch_out_other ==
  /\ Hook("post")
  /\ IF temp_object # NULL
     THEN node_delete(temp_object)
     ELSE UNCHANGED <<heapVars, obj_tree, counterVars, fault>>
  /\ Return("NF_ACCEPT", NULL)
  /\ UNCHANGED <<temp_object, jiffies, node, pc, temp_path, hooks, kobj,
                 dev_refs, lost>>

\* A 200 while no path is pending is not stored.
watch_out_unasked ==
  /\ Hook("post")
  /\ temp_path = NULL
  /\ Return("NF_ACCEPT", NULL)
  /\ UNCHANGED <<vars, temp_path, hooks, kobj, dev_refs, lost>>

\* Mutant: the path stays pending after its response is stored.
watch_out_store_again(data, size) ==
  /\ Hook("post")
  /\ temp_path # NULL
  /\ obj_create(temp_path, data, size, temp_path, str_heap[temp_path])
  /\ UNCHANGED temp_path
  /\ Return("NF_ACCEPT", NULL)
  /\ UNCHANGED <<str_heap, temp_object, jiffies, node, pc, hooks, kobj,
                 dev_refs, lost>>

\* Mutant: the string is freed although the object keeps it.
watch_out_store_frees(data, size) ==
  /\ Hook("post")
  /\ temp_path # NULL
  /\ obj_create(temp_path, data, size, temp_path, str_heap[temp_path])
  /\ temp_path' = NULL
  /\ Return("NF_ACCEPT", NULL)
  /\ str_heap' = kfree(str_heap, {temp_path})
  /\ UNCHANGED <<temp_object, jiffies, node, pc, hooks, kobj, dev_refs, lost>>

\* The object takes the string at temp_path for its path and for its name.
watch_out_store(data, size) ==
  /\ Hook("post")
  /\ temp_path # NULL
  /\ obj_create(temp_path, data, size, temp_path, str_heap[temp_path])
  /\ temp_path' = NULL
  /\ Return("NF_ACCEPT", NULL)
  /\ UNCHANGED <<str_heap, temp_object, jiffies, node, pc, hooks, kobj,
                 dev_refs, lost>>

watch_out_no_memory(size) ==
  /\ Hook("post")
  /\ temp_path # NULL
  /\ obj_create_no_memory \/ obj_create_no_buffer(size)
  /\ temp_path' = NULL
  /\ str_heap' = Strings
  /\ lost' = (lost \/ Orphans # {})
  /\ Return("NF_ACCEPT", NULL)
  /\ UNCHANGED <<temp_object, jiffies, node, pc, hooks, kobj, dev_refs>>

-----------------------------------------------------------------------------
\* wcache_init and wcache_exit.

Step(from, to) == pc = from /\ pc' = to

\* create_sysfs tells its caller nothing: without a kobject the group is
\* refused, without the group the kobject is put but my_cache_kobj kept.
create_sysfs ==
  /\ Step("start", "sysfs_ready")
  /\ \/ kobj' = "up"
     \/ "kobject" \in MayFail /\ kobj' = "missing"
     \/ "sysfs_group" \in MayFail /\ kobj' = "freed"
  /\ UNCHANGED <<storeVars, temp_path, hooks, dev_refs, lost, verdict, reply>>

Register(h, from, to) ==
  /\ Step(from, to)
  /\ \/ hooks' = hooks \cup {h}
     \/ "nf_register" \in MayFail /\ UNCHANGED hooks
  /\ UNCHANGED <<storeVars, temp_path, kobj, dev_refs, lost, verdict, reply>>

wcache_init ==
  \/ create_sysfs
  \/ Register("pre", "sysfs_ready", "pre_ready")
  \/ Register("post", "pre_ready", "loaded")

free_sysfs ==
  /\ Step("tree_deleted", "sysfs_freed")
  /\ kobj' = "none"
  /\ fault' = CASE kobj = "missing" -> FirstFault("null_deref")
                [] kobj = "freed"   -> FirstFault("use_after_free")
                [] OTHER            -> fault
  /\ UNCHANGED <<heapVars, obj_tree, counterVars, temp_object, jiffies, node,
                 temp_path, hooks, dev_refs, lost, verdict, reply>>

Unregister(h, from, to) ==
  /\ Step(from, to)
  /\ hooks' = hooks \ {h}
  /\ UNCHANGED <<storeVars, temp_path, kobj, dev_refs, lost, verdict, reply>>

wcache_exit ==
  \/ /\ \/ tree_delete_begin("loaded") \/ tree_delete_release
        \/ tree_delete_erase \/ tree_delete_end("tree_deleted")
     /\ UNCHANGED hookVars
  \/ free_sysfs
  \/ Unregister("pre", "sysfs_freed", "pre_gone")
  \/ Unregister("post", "pre_gone", "unloaded")

-----------------------------------------------------------------------------
HInit ==
  /\ obj_heap = [x \in {} |-> NULL]
  /\ str_heap = [x \in {} |-> NULL]
  /\ obj_tree = {}
  /\ used_space = 0 /\ free_space = CACHE_SIZE /\ obj_count = 0
  /\ temp_object = NULL
  /\ jiffies = 0
  /\ node = NULL
  /\ pc = "start"
  /\ fault = "none"
  /\ temp_path = NULL
  /\ hooks = {}
  /\ kobj = "none"
  /\ dev_refs = 0
  /\ lost = FALSE
  /\ verdict = "NF_ACCEPT" /\ reply = NULL

watch_in ==
  \/ watch_in_no_device \/ watch_in_pass \/ watch_in_not_linear
  \/ watch_in_no_memory
  \/ \E p \in Path : watch_in_miss(p) \/ watch_in_hit(p)

watch_out ==
  \/ watch_out_pass \/ watch_out_not_linear \/ watch_out_other
  \/ watch_out_unasked
  \/ \E size \in Size :
       \/ \E data \in Body : watch_out_store(data, size)
       \/ watch_out_no_memory(size)

Clock ==
  /\ fault = "none" /\ jiffies < MaxJiffies
  /\ jiffies' = jiffies + 1
  /\ UNCHANGED <<heapVars, obj_tree, counterVars, temp_object, node, pc, fault,
                 hookVars>>

HNext == watch_in \/ watch_out \/ wcache_init \/ wcache_exit \/ Clock

HSpec == HInit /\ [][HNext]_hVars

-----------------------------------------------------------------------------
\* Properties.

\* Every variable of the module has its type.
HTypeOK ==
  /\ StoreTypeOK
  /\ pc \in {"start", "sysfs_ready", "pre_ready", "loaded", "tree_delete",
             "erase", "oops", "tree_deleted", "sysfs_freed", "pre_gone",
             "unloaded"}
  /\ temp_path \in Str \cup {NULL}
  /\ hooks \subseteq {"pre", "post"}
  /\ kobj \in {"none", "up", "missing", "freed"}
  /\ dev_refs \in 0..MaxDevRefs
  /\ lost \in BOOLEAN
  /\ verdict \in {"NF_ACCEPT", "NF_DROP"}
  /\ reply \in (Path \X Body) \cup {NULL}

\* watch_in looks the path up before it leaves it in temp_path, and any
\* number of packets may pass before watch_out links an object under it.  In
\* between the string is alive, nobody else's, and its path is still not
\* cached, so that node_insert never meets it in the tree.
PendingPathUncached ==
  temp_path # NULL =>
    /\ temp_path \in DOMAIN str_heap
    /\ temp_path \notin Owned
    /\ Match(str_heap[temp_path]) = {}

\* wcache answers from its cache as ResponseCache says.
open == pc \in {"start", "sysfs_ready", "pre_ready", "loaded"}

CachedPairs == {<<Text(o), obj_heap[o].body>> : o \in Counted}

PendingPath ==
  IF temp_path \in DOMAIN str_heap THEN str_heap[temp_path] ELSE NULL

Cache == INSTANCE ResponseCache WITH
  store <- CachedPairs, pending <- PendingPath, answer <- reply

\* Requests and responses in any order, with any call failing, change the
\* cache as the abstract one: what is answered is what was stored for that
\* path, and nothing cached is lost or replaced until rmmod.
CacheRefined == Cache!Spec

\* README.md:2 says that LRU replacement is implemented: the cached bytes stay
\* within CACHE_SIZE.  obj_create stores without looking at free_space.
WithinCapacity == Cardinality(CachedBytes) <= CACHE_SIZE

\* rb_tree.c:123 says that tree_delete deletes the whole tree.  The hooks
\* still run after it, and store what nobody frees.
UnloadEmptiesTree == pc = "unloaded" => obj_tree = {}

\* rb_tree.c:87 says that node_delete frees the memory of an object; that of
\* an object stored by watch_out it frees twice.
NoDoubleFree == fault # "double_free"

\* hook.c:101 says that the path is saved temporarily.  Nothing frees it when
\* the next GET comes first.
NoPathLost == ~lost

\* README.md:2 says that a request for cached content is intercepted and
\* answered: watch_in drops no packet it did not answer.
DropsOnlyAnswered == verdict = "NF_DROP" => reply # NULL
=============================================================================
