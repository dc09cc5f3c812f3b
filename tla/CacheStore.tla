----------------------------- MODULE CacheStore -----------------------------
(***************************************************************************)
(* The object store of wcache/rb_tree.c: content objects linked into the   *)
(* red-black tree obj_tree under their path, with the space counters that  *)
(* wcache/sysfs.c publishes.                                               *)
(*                                                                         *)
(* Abstractions.                                                           *)
(*  - A path's text is an integer: its rank in strcmp order.               *)
(*  - The kernel heap is two partial functions, from the addresses kmalloc *)
(*    has handed out to what they hold: obj_heap for struct object,        *)
(*    str_heap for path and name strings.  A kfree removes an address.     *)
(*  - The data buffer is allocated and freed with its object and shared by *)
(*    nobody, so its content is the field body of the object.              *)
(*  - The rb_node of a linked object is the place its key gives it in the  *)
(*    order of the tree; the shape of the tree is left out.                *)
(*  - A memory error is recorded in fault.  No operation starts after one, *)
(*    but tree_delete, once begun, goes on with what it reads from freed   *)
(*    memory.  Freed says what that can be: the old content (in Linux 5.9, *)
(*    the kernel of the Makefile, SLUB writes its free pointer in the      *)
(*    middle of the freed chunk, over the field time, and leaves the       *)
(*    rb_node alone), or whatever somebody put there (who has got the      *)
(*    chunk meanwhile, or a kernel that clears or poisons what is freed).  *)
(***************************************************************************)
EXTENDS Integers, FiniteSets

CONSTANTS
  Obj,         \* addresses kmalloc may return for a struct object
  Str,         \* addresses kmalloc may return for a string
  Path,        \* texts of paths, as ranks in strcmp order
  Body,        \* contents of a data buffer
  Size,        \* lengths of a data buffer
  CACHE_SIZE,  \* the capacity of the cache in bytes
  SizeT,       \* 2^w for the w-bit size_t of the counters
  MaxJiffies,  \* bound on the clock
  MayFail,     \* the kernel calls that may fail
  Freed,       \* what freed memory may hold
  NULL

ASSUME StoreAssumption ==
  /\ Path \subseteq Nat
  /\ Size \subseteq Nat
  /\ SizeT \in Nat \ {0}
  /\ CACHE_SIZE \in 0..(SizeT - 1)
  /\ MaxJiffies \in Nat
  /\ Freed \subseteq {"intact", "overwritten"}
  /\ NULL \notin Obj /\ NULL \notin Str /\ NULL \notin Path

VARIABLES
  obj_heap,    \* allocated objects
  str_heap,    \* allocated strings
  obj_tree,    \* the objects linked into the tree
  used_space, free_space, obj_count,   \* what sysfs publishes
  temp_object, \* what obj_start_create leaves: NULL, for nothing calls it
  jiffies,     \* the kernel clock
  node,        \* the cursor of tree_delete
  pc,          \* where the thread that uses the store is
  fault        \* the first memory error, if any

heapVars    == <<obj_heap, str_heap>>
counterVars == <<used_space, free_space, obj_count>>
storeVars   == <<heapVars, obj_tree, counterVars, temp_object, jiffies, node, fault>>
vars        == <<storeVars, pc>>

Fault  == {"none", "null_deref", "double_free", "use_after_free", "wild_free"}

Object == [name : Str, path : Str, key : Path, size : Size,
           time : 0..MaxJiffies, body : Body]

-----------------------------------------------------------------------------
\* The heap.

kmalloc(heap, x, v) == [y \in DOMAIN heap \cup {x} |-> IF y = x THEN v ELSE heap[y]]

kfree(heap, S) == [y \in DOMAIN heap \ S |-> heap[y]]

FirstFault(f) == IF fault = "none" THEN f ELSE fault

\* A linked object is readable until node_delete has freed its path.
Readable(o) == obj_heap[o].path \in DOMAIN str_heap

Text(o) == str_heap[obj_heap[o].path]

StringsOf(o) == {obj_heap[o].name, obj_heap[o].path}

\* The linked objects that the counters stand for.
Counted == {o \in obj_tree : Readable(o)}

-----------------------------------------------------------------------------
\* The operations of rb_tree.c, as fragments that the actions below and the
\* modules that extend this one put together.

\* Mutant: the difference is kept in a signed int.
cache_update_signed(argc, size) ==
  /\ used_space' = (IF argc = "ADD" THEN used_space + size
                                    ELSE used_space - size) % SizeT
  /\ free_space' = CACHE_SIZE - used_space'
  /\ obj_count'  = IF argc = "ADD" THEN obj_count + 1 ELSE obj_count - 1

\* Mutant: an erased object is still counted.
cache_update_count_kept(argc, size) ==
  /\ used_space' = (IF argc = "ADD" THEN used_space + size
                                    ELSE used_space - size) % SizeT
  /\ free_space' = (CACHE_SIZE - used_space') % SizeT
  /\ obj_count'  = IF argc = "ADD" THEN obj_count + 1 ELSE obj_count

cache_update(argc, size) ==
  /\ used_space' = (IF argc = "ADD" THEN used_space + size
                                    ELSE used_space - size) % SizeT
  /\ free_space' = (CACHE_SIZE - used_space') % SizeT
  /\ obj_count'  = IF argc = "ADD" THEN obj_count + 1 ELSE obj_count - 1

\* The objects the descent for text p can end at.
Match(p) == {o \in Counted : Text(o) = p}

\* Mutant: the descent returns the node it ends at whatever its path.
node_search_last(p) ==
  IF Counted = {} THEN NULL ELSE CHOOSE o \in Counted : TRUE

node_search(p) == IF Match(p) = {} THEN NULL ELSE CHOOSE o \in Match(p) : TRUE

\* Mutant: equal keys are linked to the right instead of rejected.
node_insert_multi(o, p, size) ==
  /\ obj_tree' = obj_tree \cup {o}
  /\ cache_update("ADD", size)

\* An object whose path is there already is neither linked nor counted.
node_insert(o, p, size) ==
  IF Match(p) # {}
  THEN UNCHANGED <<obj_tree, counterVars>>
  ELSE /\ obj_tree' = obj_tree \cup {o}
       /\ cache_update("ADD", size)

\* node_delete up to its kfrees.  An object whose name and path are one
\* string has that string freed twice.
Release(o) ==
  /\ cache_update("REDUCE", obj_heap[o].size)
  /\ str_heap' = kfree(str_heap, StringsOf(o))
  /\ fault' = IF obj_heap[o].name = obj_heap[o].path
              THEN FirstFault("double_free") ELSE fault

\* node_delete from rb_erase on.
Erase(o) ==
  /\ obj_tree' = obj_tree \ {o}
  /\ obj_heap' = kfree(obj_heap, {o})

node_delete(o) == Release(o) /\ Erase(o)

\* obj_create when kmalloc has no memory for the object.
obj_create_no_memory ==
  /\ "kmalloc" \in MayFail
  /\ UNCHANGED <<obj_heap, obj_tree, counterVars, fault>>

\* obj_create when kmalloc has no memory for the buffer, which is not checked.
obj_create_no_buffer(size) ==
  /\ "kmalloc" \in MayFail
  /\ size > 0
  /\ fault' = FirstFault("null_deref")
  /\ UNCHANGED <<obj_heap, obj_tree, counterVars>>

\* text is what the string at path holds.
obj_create(name, data, size, path, text) ==
  /\ \E o \in Obj \ DOMAIN obj_heap :
       /\ obj_heap' = kmalloc(obj_heap, o,
            [name |-> name, path |-> path, key |-> text, size |-> size,
             time |-> jiffies, body |-> data])
       /\ node_insert(o, text, size)
  /\ UNCHANGED fault

\* The first node of S in the order of the tree.
First(S) ==
  IF S = {} THEN NULL
  ELSE CHOOSE o \in S : \A q \in S : obj_heap[o].key <= obj_heap[q].key

rb_first == First(obj_tree)

\* Mutant: the walk skips the next node.
rb_next_skips(o) ==
  LET after == {q \in obj_tree : obj_heap[q].key > obj_heap[o].key}
  IN  First(after \ {First(after)})

\* rb_next of the first node.  It is asked after the node was erased and
\* freed; while the freed memory is intact, the links in it still lead to the
\* node after it, for erasing the first node of a tree never moves that one.
rb_next(o) == First({q \in obj_tree : obj_heap[q].key > obj_heap[o].key})

\* tree_delete, one turn of its loop in two steps.  from and to are the places
\* of the calling thread before and after it.
tree_delete_begin(from) ==
  /\ pc = from /\ fault = "none"
  /\ pc' = "tree_delete"
  /\ node' = rb_first
  /\ UNCHANGED <<heapVars, obj_tree, counterVars, temp_object, jiffies, fault>>

tree_delete_release ==
  /\ pc = "tree_delete" /\ node # NULL
  /\ Release(node_search(Text(node)))
  /\ pc' = "erase"
  /\ UNCHANGED <<obj_heap, obj_tree, temp_object, jiffies, node>>

tree_delete_erase ==
  /\ pc = "erase"
  /\ Erase(node)
  /\ fault' = FirstFault("use_after_free")
  /\ \/ /\ "intact" \in Freed
        /\ node' = rb_next(node)
        /\ pc' = "tree_delete"
     \/ /\ "overwritten" \in Freed
        /\ node' \in {NULL} \cup (obj_tree \ {node})
        /\ pc' \in {"tree_delete", "oops"}
  /\ UNCHANGED <<str_heap, counterVars, temp_object, jiffies>>

tree_delete_end(to) ==
  /\ pc = "tree_delete" /\ node = NULL
  /\ pc' = to
  /\ UNCHANGED storeVars

-----------------------------------------------------------------------------
\* The store on its own, used by one thread the way wcache/test.c uses it:
\* every object gets two strings of its own.

Init ==
  /\ obj_heap = [x \in {} |-> NULL]
  /\ str_heap = [x \in {} |-> NULL]
  /\ obj_tree = {}
  /\ used_space = 0
  /\ free_space = CACHE_SIZE
  /\ obj_count = 0
  /\ temp_object = NULL
  /\ jiffies = 0
  /\ node = NULL
  /\ pc = "idle"
  /\ fault = "none"

Ready == pc = "idle" /\ fault = "none"

Create(p, data, size) ==
  /\ Ready
  /\ \E n, s \in Str \ DOMAIN str_heap :
       /\ n # s
       /\ obj_create(n, data, size, s, p)
       /\ str_heap' = kmalloc(kmalloc(str_heap, n, p), s, p)
  /\ UNCHANGED <<temp_object, jiffies, node, pc>>

\* random_string writes to what kmalloc returned without looking at it.
random_string_no_memory ==
  /\ "kmalloc" \in MayFail
  /\ fault' = FirstFault("null_deref")
  /\ UNCHANGED <<obj_heap, obj_tree, counterVars>>

\* The strings of a caller whose object was not created are lost: nothing
\* refers to them any more.
CreateFails(size) ==
  /\ Ready
  /\ \/ random_string_no_memory
     \/ obj_create_no_memory
     \/ obj_create_no_buffer(size)
  /\ UNCHANGED <<str_heap, temp_object, jiffies, node, pc>>

obj_search(p) ==
  /\ Ready
  /\ node_search(p) # NULL
  /\ obj_heap' = [obj_heap EXCEPT ![node_search(p)].time = jiffies]
  /\ UNCHANGED <<str_heap, obj_tree, counterVars, temp_object, jiffies, node, pc, fault>>

node_path_delete(p) ==
  /\ Ready
  /\ node_search(p) # NULL
  /\ node_delete(node_search(p))
  /\ UNCHANGED <<temp_object, jiffies, node, pc>>

Tick ==
  /\ Ready
  /\ jiffies < MaxJiffies
  /\ jiffies' = jiffies + 1
  /\ UNCHANGED <<heapVars, obj_tree, counterVars, temp_object, node, pc, fault>>

Next ==
  \/ \E p \in Path, data \in Body, size \in Size : Create(p, data, size)
  \/ \E size \in Size : CreateFails(size)
  \/ \E p \in Path : obj_search(p) \/ node_path_delete(p)
  \/ tree_delete_begin("idle") \/ tree_delete_release
  \/ tree_delete_erase \/ tree_delete_end("idle")
  \/ Tick

Spec == Init /\ [][Next]_vars

-----------------------------------------------------------------------------
\* Properties.

\* Every variable of the store but pc has its type.
StoreTypeOK ==
  /\ DOMAIN obj_heap \subseteq Obj
  /\ obj_heap \in [DOMAIN obj_heap -> Object]
  /\ DOMAIN str_heap \subseteq Str
  /\ str_heap \in [DOMAIN str_heap -> Path]
  /\ obj_tree \subseteq DOMAIN obj_heap
  /\ IsFiniteSet(obj_tree)
  /\ used_space \in 0..(SizeT - 1)
  /\ free_space \in 0..(SizeT - 1)
  /\ obj_count \in Int
  /\ temp_object \in Obj \cup {NULL}
  /\ jiffies \in 0..MaxJiffies
  /\ node \in Obj \cup {NULL}
  /\ fault \in Fault

\* Every variable of the store has its type.
TypeOK == StoreTypeOK /\ pc \in {"idle", "tree_delete", "erase", "oops"}

\* The bytes of an object, and those the cached objects hold together.
BytesOf(o) == {o} \X (1..obj_heap[o].size)

CachedBytes == UNION {BytesOf(o) : o \in Counted}

\* What sysfs publishes agrees with the tree after every operation, rejected
\* inserts and deletions included: obj_count is the number of cached objects,
\* used_space the bytes they hold and free_space the rest, modulo the width of
\* size_t (cache_update is called once for each link and once for each unlink).
AccountingExact ==
  /\ obj_count = Cardinality(Counted)
  /\ used_space = Cardinality(CachedBytes) % SizeT
  /\ free_space = (CACHE_SIZE - used_space) % SizeT

\* No two cached objects have the same path, and each sits in the tree at the
\* place of the path it holds now: the descent of node_search by the strings
\* finds the object that node_insert linked, and only that one.
TreeConsistent ==
  \A o \in Counted :
    /\ Text(o) = obj_heap[o].key
    /\ \A q \in Counted : Text(o) = Text(q) => o = q

\* tree_delete frees each node and then asks for the node after it.  As long
\* as the freed memory is intact the walk misses nothing: the loop only ends
\* when the tree is empty.
TreeDeleteEmpties == [][tree_delete_end("idle") => obj_tree = {}]_vars

\* rb_tree.c:247 says that obj_create adds the new object to the tree.  An
\* object whose path is taken is kept out of it and is not freed either.
CreatedIsLinked == DOMAIN obj_heap = obj_tree
=============================================================================
