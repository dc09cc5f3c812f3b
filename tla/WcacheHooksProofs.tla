-------------------------- MODULE WcacheHooksProofs --------------------------
(***************************************************************************)
(* Theorems about the kernel module of WcacheHooks, for every value of its *)
(* constants: whatever packets come, whichever calls fail, and whenever    *)
(* rmmod begins, its invariants hold and it implements ResponseCache.      *)
(* Then about HttpFlow, the module between its clients and their server:   *)
(* what holds for any clients, and that a single one sees only the server. *)
(***************************************************************************)
EXTENDS HttpFlow, CacheStoreProofs

\* Linked objects share no string, though each is handed over through the one
\* temp_path: freeing the strings of one leaves the others readable.
SoleOwner ==
  \A o, q \in obj_tree :
    o # q => StringsOf(o) \cap StringsOf(q) = {}

\* Every object is linked, its two strings are one, and no hook runs between
\* the two halves of a deletion, for the first half is a double free.
HInv ==
  /\ HTypeOK
  /\ SInv
  /\ temp_object = NULL
  /\ CreatedIsLinked
  /\ SoleOwner
  /\ PendingPathUncached
  /\ \A o \in obj_tree : obj_heap[o].name = obj_heap[o].path
  /\ pc = "erase" => fault # "none"

LEMMA HInitEstablishes ==
  ASSUME StoreAssumption, HooksAssumption, HInit
  PROVE  HInv
<1>1. Counted = {} /\ CachedBytes = {}
  BY DEF HInit, Counted, CachedBytes
<1>2. /\ IsFiniteSet({}) /\ Cardinality({}) = 0
      /\ 0 \in 0..(SizeT - 1) /\ 0 % SizeT = 0
      /\ CACHE_SIZE \in 0..(SizeT - 1) /\ (CACHE_SIZE - 0) % SizeT = CACHE_SIZE
  <2>1. IsFiniteSet({}) /\ Cardinality({}) = 0
    BY FS_EmptySet
  <2>2. SizeT \in Nat \ {0} /\ CACHE_SIZE \in 0..(SizeT - 1) /\ CACHE_SIZE - 0 = CACHE_SIZE
    BY DEF StoreAssumption
  <2>3. 0 \in 0..(SizeT - 1)
    BY <2>2
  <2>4. QED BY <2>1, <2>2, <2>3, ModSmall
<1>3. StoreTypeOK
  BY <1>2 DEF HInit, StoreTypeOK, Fault, StoreAssumption
<1>4. AccountingExact
  BY <1>1, <1>2 DEF HInit, AccountingExact
<1>5. SInv
  BY <1>1, <1>2, <1>3, <1>4
     DEF HInit, SInv, StoreInv, TreeConsistent, Private, Walk
<1>6. HTypeOK
  <2>1. dev_refs \in 0..MaxDevRefs
    BY DEF HInit, HooksAssumption
  <2>2. lost \in BOOLEAN
    BY Zenon DEF HInit
  <2>3. QED BY <1>3, <2>1, <2>2 DEF HInit, HTypeOK
<1>7. QED
  BY <1>5, <1>6 DEF HInit, HInv, CreatedIsLinked, SoleOwner, PendingPathUncached

-----------------------------------------------------------------------------
\* Types.

\* The parts of HTypeOK that are not the store's.
HookTypes ==
  /\ temp_path \in Str \cup {NULL}
  /\ hooks \subseteq {"pre", "post"}
  /\ kobj \in {"none", "up", "missing", "freed"}
  /\ dev_refs \in 0..MaxDevRefs
  /\ verdict \in {"NF_ACCEPT", "NF_DROP"}
  /\ reply \in (Path \X Body) \cup {NULL}
  /\ pc \in {"start", "sysfs_ready", "pre_ready", "loaded", "tree_delete",
             "erase", "oops", "tree_deleted", "sysfs_freed", "pre_gone",
             "unloaded"}

\* The body of the object that answers a GET is a body.
LEMMA HitBody ==
  ASSUME HInv, NEW p \in Path, node_search(p) # NULL
  PROVE  /\ node_search(p) \in Counted
         /\ Text(node_search(p)) = p
         /\ obj_heap[node_search(p)].body \in Body
<1>1. node_search(p) \in Match(p)
  BY SearchReturns
<1>2. QED BY <1>1 DEF Match, Counted, HInv, SInv, StoreInv, StoreTypeOK, Object

LEMMA HookTypesKept ==
  ASSUME HooksAssumption, HInv, [HNext]_hVars
  PROVE  HookTypes'
<1> USE DEF HookTypes, HInv, HTypeOK
<1>0. HookTypes
  OBVIOUS
<1>1. GetDevice => dev_refs' \in 0..MaxDevRefs
  BY DEF GetDevice, HooksAssumption
<1>2. CASE watch_in
  <2>1. ASSUME NEW p \in Path, watch_in_hit(p) PROVE HookTypes'
    <3>1. obj_heap[node_search(p)].body \in Body
      BY <2>1, HitBody DEF watch_in_hit
    <3>2. reply' \in (Path \X Body) \cup {NULL} /\ verdict' \in {"NF_ACCEPT", "NF_DROP"}
      BY <2>1, <3>1 DEF watch_in_hit, Transmit, Return
    <3>3. QED BY <2>1, <1>1, <3>2 DEF watch_in_hit
  <2>2. ASSUME NEW p \in Path, watch_in_miss(p) PROVE HookTypes'
    BY <2>2, <1>1 DEF watch_in_miss, Return
  <2>3. QED
    BY <1>1, <1>2, <2>1, <2>2
       DEF watch_in, watch_in_no_device, watch_in_pass, watch_in_not_linear,
           watch_in_no_memory, Return, vars, storeVars
<1>3. CASE watch_out
  BY <1>3 DEF watch_out, watch_out_pass, watch_out_not_linear, watch_out_other,
              watch_out_unasked, watch_out_store, watch_out_no_memory, Return,
              vars, storeVars
<1>4. CASE wcache_init
  BY <1>4 DEF wcache_init, create_sysfs, Register, Step
<1>5. CASE wcache_exit
  BY <1>5 DEF wcache_exit, tree_delete_begin, tree_delete_release,
              tree_delete_erase, tree_delete_end, hookVars, free_sysfs,
              Unregister, Step
<1>6. CASE Clock
  BY <1>6 DEF Clock, hookVars
<1>7. CASE UNCHANGED hVars
  BY <1>7 DEF hVars, vars, hookVars
<1>8. QED BY <1>2, <1>3, <1>4, <1>5, <1>6, <1>7 DEF HNext
LEMMA LostType ==
  ASSUME HInv, [HNext]_hVars
  PROVE  lost' \in BOOLEAN
<1>1. lost \in BOOLEAN
  BY DEF HInv, HTypeOK
<1>2. lost' = lost \/ lost' = TRUE \/ lost' = (lost \/ Orphans # {})
  BY DEF HNext, hVars, hookVars, watch_in, watch_in_no_device, watch_in_pass,
         watch_in_not_linear, watch_in_no_memory, watch_in_miss, watch_in_hit,
         watch_out, watch_out_pass, watch_out_not_linear, watch_out_other,
         watch_out_unasked, watch_out_store, watch_out_no_memory, wcache_init,
         create_sysfs, Register, wcache_exit, free_sysfs, Unregister, Clock
<1>3. QED BY Zenon, <1>1, <1>2

LEMMA TypesCombine ==
  ASSUME StoreTypeOK', HookTypes', lost' \in BOOLEAN
  PROVE  HTypeOK'
  BY DEF HTypeOK, HookTypes

-----------------------------------------------------------------------------
\* One lemma for each way a step changes the store.

\* Steps that touch neither an object nor a string.
LEMMA CalmKept ==
  ASSUME HInv, HookTypes', lost' \in BOOLEAN, pc # "erase", pc' # "erase",
         pc' = "tree_delete" => pc = "tree_delete",
         fault' \in Fault, jiffies' \in 0..MaxJiffies,
         UNCHANGED <<heapVars, obj_tree, counterVars, temp_object, node, temp_path>>
  PROVE  HInv'
<1>1. SInv'
  BY IdleKept DEF HInv
<1>2. UNCHANGED <<obj_heap, str_heap, obj_tree, temp_object, temp_path>>
  BY DEF heapVars
<1>3. Owned' = Owned /\ Counted' = Counted
  BY <1>2 DEF Owned, StringsOf, Counted, Readable
<1>4. CreatedIsLinked' /\ SoleOwner' /\ PendingPathUncached'
  BY <1>2, <1>3 DEF HInv, CreatedIsLinked, SoleOwner, StringsOf,
                    PendingPathUncached, Match, Text
<1>5. HTypeOK'
  BY <1>1, TypesCombine DEF SInv, StoreInv
<1>6. QED BY <1>1, <1>2, <1>4, <1>5 DEF HInv

\* While no half of a deletion is pending, every object's strings are alive.
LEMMA StringsAlive ==
  ASSUME HInv, pc # "erase"
  PROVE  /\ Counted = obj_tree
         /\ Owned \subseteq DOMAIN str_heap
         /\ \A o \in obj_tree : StringsOf(o) \subseteq Owned
  BY DEF HInv, SInv, StoreInv, Walk, Private, Owned, CreatedIsLinked

\* Steps that give the pending path up.
LEMMA ForgetKept ==
  ASSUME HInv, HookTypes', lost' \in BOOLEAN, pc # "erase", pc' = pc,
         str_heap' = Strings, temp_path' = NULL, fault' \in Fault,
         UNCHANGED <<obj_heap, obj_tree, counterVars, temp_object, jiffies, node>>
  PROVE  HInv'
<1>1. Counted = obj_tree /\ \A o \in obj_tree : StringsOf(o) \subseteq Owned
  BY StringsAlive
<1>2. StringsKept
  BY <1>1, StringsAlive DEF StringsKept, Strings, Orphans, kfree
<1>3. \A q \in obj_tree : ObjectKept(q)
  BY DEF ObjectKept, HInv, SInv, StoreInv, StoreTypeOK
<1>4. StoreTypeOK'
  <2>1. DOMAIN str_heap' \subseteq Str /\ str_heap' \in [DOMAIN str_heap' -> Path]
    BY DEF Strings, kfree, HInv, HTypeOK, StoreTypeOK
  <2>2. QED BY <2>1 DEF HInv, HTypeOK, StoreTypeOK, counterVars
<1>5. SInv'
  BY <1>2, <1>3, <1>4, QuietKept DEF HInv
<1>6. HTypeOK'
  BY <1>4, TypesCombine
<1>7. QED
  BY <1>5, <1>6 DEF HInv, CreatedIsLinked, SoleOwner, StringsOf, PendingPathUncached

\* A GET that misses makes its path pending.
LEMMA MissKept ==
  ASSUME StoreAssumption, HInv, HookTypes', lost' \in BOOLEAN, NEW p \in Path, watch_in_miss(p)
  PROVE  HInv'
<1>1. pc # "erase" /\ pc' = pc
  BY DEF watch_in_miss, Hook, HInv
<1>2. PICK s \in Str \ DOMAIN str_heap :
        temp_path' = s /\ str_heap' = kmalloc(Strings, s, p)
  BY DEF watch_in_miss
<1>3. UNCHANGED <<obj_heap, obj_tree, counterVars, temp_object, jiffies, node>>
  BY DEF watch_in_miss
<1>4. /\ Counted = obj_tree /\ Owned \subseteq DOMAIN str_heap
      /\ \A o \in obj_tree : StringsOf(o) \subseteq Owned
  BY <1>1, StringsAlive
<1>5. s \in DOMAIN str_heap' /\ str_heap'[s] = p
      /\ \A x \in Owned : x \in DOMAIN str_heap' /\ str_heap'[x] = str_heap[x]
  BY <1>2, <1>4 DEF kmalloc, Strings, kfree, Orphans
<1>6. StringsKept
  BY <1>4, <1>5 DEF StringsKept
<1>7. \A q \in obj_tree : ObjectKept(q)
  BY <1>3 DEF ObjectKept, HInv, SInv, StoreInv, StoreTypeOK
<1>8. StoreTypeOK'
  <2>1. DOMAIN str_heap' \subseteq Str /\ str_heap' \in [DOMAIN str_heap' -> Path]
    BY <1>2 DEF Strings, kfree, kmalloc, HInv, HTypeOK, StoreTypeOK
  <2>2. QED BY <1>3, <2>1 DEF watch_in_miss, HInv, HTypeOK, StoreTypeOK, counterVars
<1>9. SInv' /\ HTypeOK'
  BY <1>1, <1>3, <1>6, <1>7, <1>8, QuietKept, TypesCombine DEF HInv
<1>10. Match(p) = {}
  BY DEF watch_in_miss, node_search, Match, Counted, StoreAssumption, HInv,
         SInv, StoreInv, StoreTypeOK
<1>11. Counted' = obj_tree /\ \A o \in obj_tree : Text(o)' = Text(o)
  BY <1>3, <1>4, <1>5 DEF Counted, Readable, Text, StringsOf
<1>12. Match(p)' = {}
  BY <1>4, <1>10, <1>11 DEF Match
<1>13. Owned' = Owned
  BY <1>3 DEF Owned, StringsOf
<1>14. PendingPathUncached'
  BY <1>2, <1>4, <1>5, <1>12, <1>13 DEF PendingPathUncached
<1>15. QED
  BY <1>1, <1>3, <1>14, <1>9 DEF HInv, CreatedIsLinked, SoleOwner, StringsOf

\* A response is stored under the pending path.
LEMMA StoreKept ==
  ASSUME StoreAssumption, HInv, HookTypes', lost' \in BOOLEAN, NEW data \in Body, NEW size \in Size,
         watch_out_store(data, size)
  PROVE  /\ HInv'
         /\ \E o \in Obj \ DOMAIN obj_heap :
              /\ obj_tree' = obj_tree \cup {o}
              /\ obj_heap'[o].body = data
              /\ obj_heap'[o].path = temp_path
              /\ \A q \in obj_tree : obj_heap'[q] = obj_heap[q]
<1> DEFINE s == temp_path  p == str_heap[temp_path]
<1>1. pc # "erase" /\ pc' = pc
  BY DEF watch_out_store, Hook, HInv
<1>2. s # NULL /\ s \in Str /\ s \in DOMAIN str_heap /\ s \notin Owned
      /\ p \in Path /\ Match(p) = {}
  BY DEF watch_out_store, HInv, HTypeOK, PendingPathUncached, SInv, StoreInv,
         StoreTypeOK
<1>3. /\ Counted = obj_tree
      /\ \A o \in obj_tree : StringsOf(o) \subseteq Owned
  BY <1>1, StringsAlive
<1>4. StringsKept
  BY <1>3 DEF StringsKept, watch_out_store, HInv, SInv, StoreInv, Private
<1>5. obj_create(s, data, size, s, p) /\ str_heap' = str_heap
      /\ UNCHANGED <<temp_object, jiffies, node>>
  BY DEF watch_out_store
<1>6. /\ DOMAIN str_heap' \subseteq Str
      /\ str_heap' \in [DOMAIN str_heap' -> Path]
  BY <1>5 DEF HInv, SInv, StoreInv, StoreTypeOK
<1> HIDE DEF p, s
<1>7. {s, s} \subseteq DOMAIN str_heap' /\ str_heap'[s] = p
  BY <1>2, <1>5 DEF p, s
<1>8. \A q \in obj_tree : {s, s} \cap StringsOf(q) = {}
  BY <1>2, <1>3
<1>9. StoreInv' /\ Counted' = obj_tree'
  BY <1>2, <1>3, <1>4, <1>5, <1>6, <1>7, <1>8, CreatedStore DEF HInv, SInv
<1>10. PICK o \in Obj \ DOMAIN obj_heap :
         /\ obj_heap' = kmalloc(obj_heap, o,
              [name |-> s, path |-> s, key |-> p, size |-> size,
               time |-> jiffies, body |-> data])
         /\ obj_tree' = obj_tree \cup {o}
  BY <1>2, <1>5 DEF obj_create, node_insert
<1>11. /\ DOMAIN obj_heap' = DOMAIN obj_heap \cup {o}
       /\ \A q \in obj_tree : obj_heap'[q] = obj_heap[q]
       /\ obj_heap'[o].name = s /\ obj_heap'[o].path = s
       /\ obj_heap'[o].body = data
  BY <1>10 DEF kmalloc, HInv, SInv, StoreInv, StoreTypeOK
<1>12. CreatedIsLinked' /\ \A q \in obj_tree' : obj_heap'[q].name = obj_heap'[q].path
  BY <1>10, <1>11 DEF HInv, CreatedIsLinked
<1>13. SoleOwner'
  BY <1>8, <1>10, <1>11 DEF HInv, SoleOwner, StringsOf
<1>14. PendingPathUncached'
  BY DEF PendingPathUncached, watch_out_store
<1>15. SInv'
  BY <1>1, <1>5, <1>9, <1>10 DEF HInv, SInv, Walk
<1>16. HInv'
  <2>1. HTypeOK'
    BY <1>9, TypesCombine DEF StoreInv
  <2>2. QED BY <1>1, <1>5, <1>12, <1>13, <1>14, <1>15, <2>1 DEF HInv
<1>17. QED BY <1>10, <1>11, <1>16 DEF s

\* The steps of tree_delete.
LEMMA DeletionKept ==
  ASSUME StoreAssumption, HInv, HookTypes', lost' \in BOOLEAN, UNCHANGED temp_path,
         \/ tree_delete_begin("loaded") \/ tree_delete_release
         \/ tree_delete_erase \/ tree_delete_end("tree_deleted")
  PROVE  HInv'
<1>0. SInv' => HTypeOK'
  BY TypesCombine DEF SInv, StoreInv
<1>1. CASE tree_delete_begin("loaded")
  <2>1. SInv'
    BY <1>1, BeginKept DEF HInv
  <2>2. UNCHANGED <<obj_heap, str_heap, obj_tree, temp_object, temp_path>>
        /\ pc' # "erase"
    BY <1>1 DEF tree_delete_begin, heapVars
  <2>3. Owned' = Owned /\ Counted' = Counted
    BY <2>2 DEF Owned, StringsOf, Counted, Readable
  <2>4. QED
    BY <1>0, <2>1, <2>2, <2>3 DEF HInv, CreatedIsLinked, SoleOwner, StringsOf,
                            PendingPathUncached, Match, Text
<1>2. CASE tree_delete_release
  <2>1. SInv'
    BY <1>2, ReleaseKept DEF HInv
  <2>2. node \in obj_tree /\ Counted = obj_tree
    BY <1>2 DEF tree_delete_release, HInv, SInv, Walk
  <2>3. Release(node)
    BY <1>2, <2>2, SearchFinds DEF tree_delete_release, HInv, SInv, StoreInv
  <2>4. UNCHANGED <<obj_heap, obj_tree, temp_object, temp_path>>
    BY <1>2 DEF tree_delete_release
  <2>5. fault' # "none"
    BY <2>2, <2>3 DEF Release, FirstFault, HInv
  <2>6. Owned' = Owned
    BY <2>4 DEF Owned, StringsOf
  <2>7. PendingPathUncached'
    <3>1. \A x \in DOMAIN str_heap \ Owned :
            x \in DOMAIN str_heap' /\ str_heap'[x] = str_heap[x]
      BY <2>2, <2>3 DEF Release, kfree, Owned, HInv, CreatedIsLinked
    <3>2. /\ Counted' \subseteq Counted
          /\ \A o \in Counted' : Text(o)' = Text(o)
      BY <2>3, <2>4 DEF Counted, Readable, Text, Release, kfree
    <3>3. \A p : Match(p) = {} => Match(p)' = {}
      BY <3>2 DEF Match
    <3>4. QED BY <2>4, <2>6, <3>1, <3>3 DEF PendingPathUncached, HInv
  <2>8. QED
    BY <1>0, <2>1, <2>4, <2>5, <2>7 DEF HInv, CreatedIsLinked, SoleOwner, StringsOf
<1>3. CASE tree_delete_erase
  <2>1. SInv'
    BY <1>3, EraseKept DEF HInv
  <2>2. /\ UNCHANGED <<str_heap, temp_object, temp_path>>
        /\ Erase(node) /\ pc' # "erase"
    BY <1>3 DEF tree_delete_erase
  <2>3. /\ obj_tree' = obj_tree \ {node}
        /\ DOMAIN obj_heap' = DOMAIN obj_heap \ {node}
        /\ \A q \in obj_tree' : obj_heap'[q] = obj_heap[q]
    BY <2>2 DEF Erase, kfree, HInv, CreatedIsLinked
  <2>4. CreatedIsLinked' /\ SoleOwner'
    BY <2>3 DEF HInv, CreatedIsLinked, SoleOwner, StringsOf
  <2>5. PendingPathUncached'
    <3>1. Owned' \subseteq Owned
      BY <2>3 DEF Owned, StringsOf, HInv, CreatedIsLinked
    <3>2. /\ Counted' \subseteq Counted
          /\ \A o \in Counted' : Text(o)' = Text(o)
      BY <2>2, <2>3 DEF Counted, Readable, Text
    <3>3. \A p : Match(p) = {} => Match(p)' = {}
      BY <3>2 DEF Match
    <3>4. QED BY <2>2, <3>1, <3>3 DEF PendingPathUncached, HInv
  <2>6. QED BY <1>0, <2>1, <2>2, <2>3, <2>4, <2>5 DEF HInv
<1>4. CASE tree_delete_end("tree_deleted")
  BY <1>4, CalmKept DEF tree_delete_end, storeVars, HInv, HTypeOK, StoreTypeOK
<1>5. QED BY <1>1, <1>2, <1>3, <1>4

-----------------------------------------------------------------------------
LEMMA HNextKeeps ==
  ASSUME StoreAssumption, HooksAssumption, HInv, [HNext]_hVars
  PROVE  HInv'
<1>1. HookTypes' /\ lost' \in BOOLEAN
  BY HookTypesKept, LostType
<1>2. fault \in Fault /\ jiffies \in 0..MaxJiffies /\ FirstFault("null_deref") \in Fault
      /\ FirstFault("use_after_free") \in Fault
  BY DEF HInv, HTypeOK, StoreTypeOK, FirstFault, Fault
<1>3. CASE watch_in
  <2>1. pc # "erase" /\ pc' = pc
    BY <1>3 DEF watch_in, watch_in_no_device, watch_in_pass, watch_in_not_linear,
                watch_in_no_memory, watch_in_miss, watch_in_hit, Hook, HInv,
                vars, storeVars
  <2>2. CASE watch_in_no_device \/ watch_in_pass \/ watch_in_not_linear
    <3>1. /\ UNCHANGED <<heapVars, obj_tree, counterVars, temp_object, jiffies,
                         node, temp_path>>
          /\ fault' \in {fault, "wild_free"}
      BY <2>2 DEF watch_in_no_device, watch_in_pass, watch_in_not_linear, vars, storeVars
    <3>2. fault' \in Fault /\ jiffies' \in 0..MaxJiffies
      BY <1>2, <3>1 DEF Fault
    <3>3. QED BY <1>1, <2>1, <3>1, <3>2, CalmKept
  <2>3. CASE watch_in_no_memory
    BY <1>1, <1>2, <2>1, <2>3, ForgetKept DEF watch_in_no_memory
  <2>4. ASSUME NEW p \in Path, watch_in_miss(p) PROVE HInv'
    BY <1>1, <2>4, MissKept
  <2>5. ASSUME NEW p \in Path, watch_in_hit(p) PROVE HInv'
    BY <1>1, <1>2, <2>1, <2>5, ForgetKept DEF watch_in_hit
  <2>6. QED BY <1>3, <2>2, <2>3, <2>4, <2>5 DEF watch_in
<1>4. CASE watch_out
  <2>1. pc # "erase" /\ pc' = pc
    BY <1>4 DEF watch_out, watch_out_pass, watch_out_not_linear, watch_out_other,
                watch_out_unasked, watch_out_store, watch_out_no_memory, Hook,
                HInv, vars, storeVars
  <2>2. CASE watch_out_pass \/ watch_out_not_linear \/ watch_out_unasked \/ watch_out_other
    <3>1. UNCHANGED <<heapVars, obj_tree, counterVars, temp_object, jiffies,
                      node, temp_path, fault>>
      BY <2>2 DEF watch_out_pass, watch_out_not_linear, watch_out_unasked,
                  watch_out_other, vars, storeVars, HInv
    <3>2. QED BY <1>1, <1>2, <2>1, <3>1, CalmKept
  <2>3. ASSUME NEW data \in Body, NEW size \in Size, watch_out_store(data, size)
        PROVE  HInv'
    BY <1>1, <2>3, StoreKept
  <2>4. ASSUME NEW size \in Size, watch_out_no_memory(size) PROVE HInv'
    <3>1. UNCHANGED <<obj_heap, obj_tree, counterVars, temp_object, jiffies, node>>
          /\ fault' \in Fault
      BY <1>2, <2>4 DEF watch_out_no_memory, obj_create_no_memory, obj_create_no_buffer
    <3>2. str_heap' = Strings /\ temp_path' = NULL
      BY <2>4 DEF watch_out_no_memory
    <3>3. QED BY <1>1, <2>1, <3>1, <3>2, ForgetKept
  <2>5. QED BY <1>4, <2>2, <2>3, <2>4 DEF watch_out
<1>5. CASE wcache_init
  BY <1>1, <1>2, <1>5, CalmKept
     DEF wcache_init, create_sysfs, Register, Step, storeVars
<1>6. CASE wcache_exit
  <2>1. CASE free_sysfs
    <3>1. fault' \in Fault
      BY <1>2, <2>1 DEF free_sysfs
    <3>2. QED BY <1>1, <1>2, <2>1, <3>1, CalmKept DEF free_sysfs, Step
  <2>2. CASE Unregister("pre", "sysfs_freed", "pre_gone")
             \/ Unregister("post", "pre_gone", "unloaded")
    BY <1>1, <1>2, <2>2, CalmKept DEF Unregister, Step, storeVars
  <2>3. CASE /\ \/ tree_delete_begin("loaded") \/ tree_delete_release
                \/ tree_delete_erase \/ tree_delete_end("tree_deleted")
             /\ UNCHANGED hookVars
    <3>1. UNCHANGED temp_path
      BY <2>3 DEF hookVars
    <3>2. QED BY <1>1, <2>3, <3>1, DeletionKept
  <2>4. QED BY <1>6, <2>1, <2>2, <2>3 DEF wcache_exit
<1>7. CASE Clock
  <2>1. jiffies' \in 0..MaxJiffies
    BY <1>2, <1>7 DEF Clock, StoreAssumption
  <2>2. UNCHANGED <<heapVars, obj_tree, counterVars, temp_object, node, pc, fault, temp_path>>
    BY <1>7 DEF Clock, hookVars
  <2>3. pc # "erase"
    BY <1>7 DEF Clock, HInv
  <2>4. QED BY <1>1, <1>2, <2>1, <2>2, <2>3, CalmKept
<1>8. CASE UNCHANGED hVars
  <2>1. UNCHANGED <<obj_heap, str_heap, obj_tree, counterVars, temp_object, jiffies,
                    node, pc, fault, temp_path>>
    BY <1>8 DEF hVars, vars, storeVars, heapVars, hookVars
  <2>2. SInv' /\ HTypeOK'
    <3>1. SInv'
      BY <1>8, StutterKept DEF HInv, hVars
    <3>2. QED BY <1>1, <3>1, TypesCombine DEF SInv, StoreInv
  <2>3. Owned' = Owned /\ Counted' = Counted
    BY <2>1 DEF Owned, StringsOf, Counted, Readable
  <2>4. QED
    BY <2>1, <2>2, <2>3 DEF HInv, CreatedIsLinked, SoleOwner, StringsOf,
                            PendingPathUncached, Match, Text
<1>9. QED BY <1>3, <1>4, <1>5, <1>6, <1>7, <1>8 DEF HNext

\* The inductive invariant of the kernel module.
THEOREM HooksInvariant == HSpec => []HInv
<1>1. HInit => HInv
  BY HInitEstablishes, StoreAssumption, HooksAssumption
<1>2. HInv /\ [HNext]_hVars => HInv'
  BY HNextKeeps, StoreAssumption, HooksAssumption
<1>3. QED BY <1>1, <1>2, PTL DEF HSpec

\* Every variable keeps its type, whatever packets come, whichever calls fail
\* and whenever rmmod begins.
THEOREM HooksTypeCorrect == HSpec => []HTypeOK
<1>1. HInv => HTypeOK BY DEF HInv
<1>2. QED BY <1>1, HooksInvariant, PTL

\* What sysfs publishes is what the tree holds, with the hooks running too.
THEOREM HooksCountersExact == HSpec => []AccountingExact
<1>1. HInv => AccountingExact BY DEF HInv, SInv, StoreInv
<1>2. QED BY <1>1, HooksInvariant, PTL

\* The hooks never cache a path twice.
THEOREM HooksKeysUnique == HSpec => []TreeConsistent
<1>1. HInv => TreeConsistent BY DEF HInv, SInv, StoreInv
<1>2. QED BY <1>1, HooksInvariant, PTL

\* The path that waits for its response stays alive, unowned and uncached.
THEOREM PendingSafe == HSpec => []PendingPathUncached
<1>1. HInv => PendingPathUncached BY DEF HInv
<1>2. QED BY <1>1, HooksInvariant, PTL

\* Every object the hooks create is in the tree: none is lost.
THEOREM NoObjectLost == HSpec => []CreatedIsLinked
<1>1. HInv => CreatedIsLinked BY DEF HInv
<1>2. QED BY <1>1, HooksInvariant, PTL

-----------------------------------------------------------------------------
\* The refinement.

LEMMA PairsKept ==
  ASSUME Counted' = Counted,
         \A o \in Counted : /\ Text(o)' = Text(o)
                            /\ obj_heap'[o].body = obj_heap[o].body
  PROVE  CachedPairs' = CachedPairs
  BY DEF CachedPairs

\* Steps that leave the objects alone and free no string of theirs.
LEMMA PairsQuiet ==
  ASSUME HInv, pc # "erase", UNCHANGED <<obj_heap, obj_tree>>,
         \A x \in Owned : x \in DOMAIN str_heap' /\ str_heap'[x] = str_heap[x]
  PROVE  CachedPairs' = CachedPairs
<1>1. /\ Counted = obj_tree
      /\ \A o \in obj_tree : obj_heap[o].path \in Owned
  BY StringsAlive DEF StringsOf
<1>2. Counted' = Counted /\ \A o \in Counted : Text(o)' = Text(o)
  BY <1>1 DEF Counted, Readable, Text
<1>3. QED BY <1>1, <1>2, PairsKept

LEMMA UncachedPath ==
  ASSUME NEW p
  PROVE  Match(p) = {} => p \notin Cache!Paths
<1>1. \A e \in CachedPairs : \E o \in Counted : e = <<Text(o), obj_heap[o].body>>
  BY DEF CachedPairs
<1>2. \A e \in CachedPairs : \E o \in Counted : e[1] = Text(o)
  BY <1>1
<1>3. p \in Cache!Paths => \E o \in Counted : Text(o) = p
  BY <1>2 DEF Cache!Paths
<1>4. QED BY <1>3 DEF Match

LEMMA MissRefines ==
  ASSUME StoreAssumption, HInv, NEW p \in Path, watch_in_miss(p)
  PROVE  Cache!Miss(p)
<1>1. Match(p) = {}
  BY DEF watch_in_miss, node_search, Match, Counted, StoreAssumption, HInv,
         SInv, StoreInv, StoreTypeOK
<1>2. p \notin Cache!Paths
  BY <1>1, UncachedPath
<1>3. PICK s \in Str \ DOMAIN str_heap :
        temp_path' = s /\ str_heap' = kmalloc(Strings, s, p)
  BY DEF watch_in_miss
<1>4. s \in DOMAIN str_heap' /\ str_heap'[s] = p
  BY <1>3 DEF kmalloc
<1>5. PendingPath' = p
  BY <1>3, <1>4 DEF PendingPath
<1>6. pc # "erase"
  BY DEF watch_in_miss, Hook, HInv
<1>7. \A x \in Owned : x \in DOMAIN str_heap' /\ str_heap'[x] = str_heap[x]
  BY <1>3, <1>6, StringsAlive DEF kmalloc, Strings, kfree, Orphans
<1>8. CachedPairs' = CachedPairs
  BY <1>6, <1>7, PairsQuiet DEF watch_in_miss
<1>9. reply' = NULL /\ open' = open
  BY DEF watch_in_miss, Return, open
<1>10. QED BY <1>2, <1>5, <1>8, <1>9 DEF Cache!Miss

\* Giving the pending path up.
LEMMA ForgetRefines ==
  ASSUME StoreAssumption, HInv, pc # "erase", pc' = pc, str_heap' = Strings,
         temp_path' = NULL, UNCHANGED <<obj_heap, obj_tree>>
  PROVE  CachedPairs' = CachedPairs /\ PendingPath' = NULL /\ open' = open
<1>1. \A x \in Owned : x \in DOMAIN str_heap' /\ str_heap'[x] = str_heap[x]
  BY StringsAlive DEF Strings, kfree, Orphans
<1>2. PendingPath' = NULL
  <2>1. DOMAIN str_heap' \subseteq Str
    BY DEF Strings, kfree, HInv, HTypeOK, StoreTypeOK
  <2>2. QED BY <2>1 DEF PendingPath, StoreAssumption
<1>3. QED BY <1>1, <1>2, PairsQuiet DEF open

LEMMA HitRefines ==
  ASSUME StoreAssumption, HInv, NEW p \in Path, watch_in_hit(p)
  PROVE  Cache!Hit(p) \/ Cache!HitLost(p) \/ Cache!GiveUp
<1> DEFINE o == node_search(p)
<1>1. o \in Counted /\ Text(o) = p /\ obj_heap[o].body \in Body
  BY HitBody DEF watch_in_hit
<1>2. <<p, obj_heap[o].body>> \in CachedPairs
  BY <1>1 DEF CachedPairs
<1>3. p \in Cache!Paths
  BY <1>2 DEF Cache!Paths
<1>4. CachedPairs' = CachedPairs /\ PendingPath' = NULL /\ open' = open
  BY ForgetRefines DEF watch_in_hit, Hook, HInv
<1>5. reply' = <<p, obj_heap[o].body>> \/ reply' = NULL \/ reply' = reply
  BY DEF watch_in_hit, Transmit, Return
<1> HIDE DEF o
<1>6. QED
  BY <1>1, <1>2, <1>3, <1>4, <1>5 DEF Cache!Hit, Cache!HitLost, Cache!GiveUp

LEMMA StoreRefines ==
  ASSUME StoreAssumption, HooksAssumption, HInv, HInv', HookTypes', lost' \in BOOLEAN,
         NEW data \in Body, NEW size \in Size, watch_out_store(data, size)
  PROVE  Cache!Fill(data)
<1> DEFINE p == str_heap[temp_path]
<1>1. /\ temp_path # NULL /\ temp_path \in DOMAIN str_heap
      /\ p \in Path /\ Match(p) = {}
  BY DEF watch_out_store, HInv, PendingPathUncached, SInv, StoreInv, StoreTypeOK
<1>2. PendingPath = p /\ p # NULL
  BY <1>1 DEF PendingPath, StoreAssumption
<1>3. PICK o \in Obj \ DOMAIN obj_heap :
        /\ obj_tree' = obj_tree \cup {o}
        /\ obj_heap'[o].body = data
        /\ obj_heap'[o].path = temp_path
        /\ \A q \in obj_tree : obj_heap'[q] = obj_heap[q]
  BY StoreKept
<1>4. pc # "erase" /\ pc' = pc
  BY DEF watch_out_store, Hook, HInv
<1>5. Counted = obj_tree /\ Counted' = obj_tree'
  BY <1>4 DEF HInv, SInv, Walk
<1>6. str_heap' = str_heap /\ temp_path' = NULL /\ reply' = NULL
  BY DEF watch_out_store, Return
<1>7. /\ \A q \in obj_tree : Text(q)' = Text(q)
      /\ Text(o)' = p
  BY <1>3, <1>6 DEF Text
<1>8. CachedPairs' = CachedPairs \cup {<<p, data>>}
  BY <1>3, <1>5, <1>7 DEF CachedPairs
<1>9. PendingPath' = NULL
  BY <1>6 DEF PendingPath, HInv, HTypeOK, StoreTypeOK, StoreAssumption
<1>10. p \notin Cache!Paths
  BY <1>1, UncachedPath
<1> HIDE DEF p
<1>11. QED
  BY <1>2, <1>4, <1>6, <1>8, <1>9, <1>10 DEF Cache!Fill, open

LEMMA ReleaseRefines ==
  ASSUME StoreAssumption, HInv, tree_delete_release, UNCHANGED hookVars
  PROVE  \E e \in CachedPairs : Cache!Discard(e)
<1>1. node \in obj_tree /\ Counted = obj_tree
  BY DEF tree_delete_release, HInv, SInv, Walk
<1>2. Release(node)
  BY <1>1, SearchFinds DEF tree_delete_release, HInv, SInv, StoreInv
<1>3. UNCHANGED <<obj_heap, obj_tree, temp_path, reply>>
  BY DEF tree_delete_release, hookVars
<1>4. str_heap' = kfree(str_heap, StringsOf(node))
  BY <1>2 DEF Release
<1>5. /\ Counted' = Counted \ {node}
      /\ \A q \in Counted' : Text(q)' = Text(q)
  <2>1. \A q \in Counted : q # node =>
          obj_heap[q].path \in DOMAIN str_heap \ StringsOf(node)
    BY <1>1 DEF HInv, SoleOwner, StringsOf, Counted, Readable
  <2>2. obj_heap[node].path \notin DOMAIN str_heap'
    BY <1>4 DEF kfree, StringsOf
  <2>3. \A q \in Counted : q # node =>
          obj_heap[q].path \in DOMAIN str_heap'
          /\ str_heap'[obj_heap[q].path] = str_heap[obj_heap[q].path]
    BY <1>4, <2>1 DEF kfree
  <2>4. Counted' = Counted \ {node}
    BY <1>1, <1>3, <2>2, <2>3 DEF Counted, Readable
  <2>5. QED BY <1>3, <2>3, <2>4 DEF Text
<1> DEFINE e == <<Text(node), obj_heap[node].body>>
<1>6. e \in CachedPairs
  BY <1>1 DEF CachedPairs
<1>7. \A q \in Counted : q # node => <<Text(q), obj_heap[q].body>> # e
  BY <1>1 DEF HInv, SInv, StoreInv, TreeConsistent
<1>8. CachedPairs' = CachedPairs \ {e}
  BY <1>1, <1>3, <1>5, <1>7 DEF CachedPairs
<1>9. PendingPath' = PendingPath
  <2>1. temp_path \notin StringsOf(node)
    BY <1>1 DEF HInv, PendingPathUncached, Owned, CreatedIsLinked, StringsOf,
                SInv, StoreInv, StoreTypeOK, Object, StoreAssumption
  <2>2. QED BY <1>3, <1>4, <2>1 DEF PendingPath, kfree
<1>10. ~open /\ open' = open
  BY DEF tree_delete_release, open
<1> HIDE DEF e
<1>11. Cache!Discard(e)
  BY <1>3, <1>6, <1>8, <1>9, <1>10 DEF Cache!Discard
<1>12. QED BY <1>6, <1>11

LEMMA EraseRefines ==
  ASSUME StoreAssumption, HInv, tree_delete_erase, UNCHANGED hookVars
  PROVE  UNCHANGED Cache!vars
<1>1. node \in obj_tree /\ Counted = obj_tree \ {node}
  BY DEF tree_delete_erase, HInv, SInv, Walk
<1>2. /\ Erase(node) /\ UNCHANGED <<str_heap, temp_path, reply>>
  BY DEF tree_delete_erase, hookVars
<1>3. /\ obj_tree' = obj_tree \ {node}
      /\ \A q \in obj_tree' : obj_heap'[q] = obj_heap[q]
  BY <1>2 DEF Erase, kfree, HInv, CreatedIsLinked
<1>4. Counted' = Counted /\ \A q \in Counted : Text(q)' = Text(q)
  BY <1>1, <1>2, <1>3 DEF Counted, Readable, Text
<1>5. CachedPairs' = CachedPairs
  BY <1>1, <1>3, <1>4, PairsKept
<1>6. PendingPath' = PendingPath /\ open' = open
  BY <1>2 DEF PendingPath, open, tree_delete_erase
<1>7. QED BY <1>2, <1>5, <1>6 DEF Cache!vars

\* Steps that change neither strings nor objects.
LEMMA CalmRefines ==
  ASSUME UNCHANGED <<obj_heap, str_heap, obj_tree, temp_path>>
  PROVE  CachedPairs' = CachedPairs /\ PendingPath' = PendingPath
  BY DEF CachedPairs, Counted, Readable, Text, PendingPath

LEMMA StepRefines ==
  ASSUME StoreAssumption, HooksAssumption, HInv, [HNext]_hVars
  PROVE  [Cache!Next]_(Cache!vars)
<1>1. CASE watch_in
  <2>1. CASE watch_in_no_device \/ watch_in_pass \/ watch_in_not_linear
    <3>1. UNCHANGED <<obj_heap, str_heap, obj_tree, temp_path, pc>> /\ reply' = NULL
      BY <2>1 DEF watch_in_no_device, watch_in_pass, watch_in_not_linear,
                  vars, storeVars, heapVars, Return
    <3>2. Cache!Pass
      BY <3>1, CalmRefines DEF Cache!Pass, open
    <3>3. QED BY <3>2 DEF Cache!Next
  <2>2. CASE watch_in_no_memory
    <3>1. CachedPairs' = CachedPairs /\ PendingPath' = NULL /\ open' = open
      BY <2>2, ForgetRefines DEF watch_in_no_memory, Hook, HInv
    <3>2. Cache!GiveUp
      BY <2>2, <3>1 DEF watch_in_no_memory, Cache!GiveUp
    <3>3. QED BY <3>2 DEF Cache!Next
  <2>3. ASSUME NEW p \in Path, watch_in_miss(p) PROVE Cache!Next
    BY <2>3, MissRefines DEF Cache!Next
  <2>4. ASSUME NEW p \in Path, watch_in_hit(p) PROVE Cache!Next
    BY <2>4, HitRefines DEF Cache!Next
  <2>5. QED BY <1>1, <2>1, <2>2, <2>3, <2>4 DEF watch_in
<1>2. CASE watch_out
  <2>1. CASE watch_out_pass \/ watch_out_not_linear \/ watch_out_unasked \/ watch_out_other
    <3>1. UNCHANGED <<obj_heap, str_heap, obj_tree, temp_path, pc>> /\ reply' = NULL
      BY <2>1 DEF watch_out_pass, watch_out_not_linear, watch_out_unasked,
                  watch_out_other, HInv, vars, storeVars, heapVars, Return
    <3>2. Cache!Pass
      BY <3>1, CalmRefines DEF Cache!Pass, open
    <3>3. QED BY <3>2 DEF Cache!Next
  <2>2. ASSUME NEW data \in Body, NEW size \in Size, watch_out_store(data, size)
        PROVE  Cache!Next
    <3>1. HInv' /\ HookTypes' /\ lost' \in BOOLEAN
      BY HNextKeeps, HookTypesKept, LostType
    <3>2. Cache!Fill(data)
      BY <2>2, <3>1, StoreRefines
    <3>3. QED BY <3>2 DEF Cache!Next
  <2>3. ASSUME NEW size \in Size, watch_out_no_memory(size) PROVE Cache!Next
    <3>1. pc # "erase" /\ pc' = pc /\ str_heap' = Strings /\ temp_path' = NULL
          /\ UNCHANGED <<obj_heap, obj_tree>> /\ reply' = NULL
      BY <2>3 DEF watch_out_no_memory, obj_create_no_memory, obj_create_no_buffer,
                  Hook, HInv, Return
    <3>2. Cache!GiveUp
      BY <3>1, ForgetRefines DEF Cache!GiveUp
    <3>3. QED BY <3>2 DEF Cache!Next
  <2>4. QED BY <1>2, <2>1, <2>2, <2>3 DEF watch_out
<1>3. CASE wcache_init
  <2>1. UNCHANGED <<obj_heap, str_heap, obj_tree, temp_path, reply>> /\ open' = open
    BY <1>3 DEF wcache_init, create_sysfs, Register, Step, storeVars, heapVars, open
  <2>2. QED BY <2>1, CalmRefines DEF Cache!vars
<1>4. CASE wcache_exit
  <2>1. CASE tree_delete_begin("loaded") /\ UNCHANGED hookVars
    <3>1. UNCHANGED <<obj_heap, str_heap, obj_tree, temp_path, reply>>
          /\ open /\ open' = FALSE
      BY <2>1 DEF tree_delete_begin, heapVars, hookVars, open
    <3>2. Cache!Close
      BY <3>1, CalmRefines DEF Cache!Close
    <3>3. QED BY <3>2 DEF Cache!Next
  <2>2. CASE tree_delete_release /\ UNCHANGED hookVars
    BY <2>2, ReleaseRefines DEF Cache!Next
  <2>3. CASE tree_delete_erase /\ UNCHANGED hookVars
    BY <2>3, EraseRefines
  <2>4. CASE \/ tree_delete_end("tree_deleted") /\ UNCHANGED hookVars
             \/ free_sysfs
             \/ Unregister("pre", "sysfs_freed", "pre_gone")
             \/ Unregister("post", "pre_gone", "unloaded")
    <3>1. UNCHANGED <<obj_heap, str_heap, obj_tree, temp_path, reply>> /\ open' = open
      BY <2>4 DEF tree_delete_end, free_sysfs, Unregister, Step, storeVars, heapVars,
                  hookVars, open
    <3>2. QED BY <3>1, CalmRefines DEF Cache!vars
  <2>5. QED BY <1>4, <2>1, <2>2, <2>3, <2>4 DEF wcache_exit
<1>5. CASE Clock \/ UNCHANGED hVars
  <2>1. UNCHANGED <<obj_heap, str_heap, obj_tree, temp_path, reply>> /\ open' = open
    BY <1>5 DEF Clock, hVars, vars, storeVars, heapVars, hookVars, open
  <2>2. QED BY <2>1, CalmRefines DEF Cache!vars
<1>6. QED BY <1>1, <1>2, <1>3, <1>4, <1>5 DEF HNext

\* Whatever packets come, whichever kernel calls fail and whenever rmmod
\* begins, wcache implements ResponseCache: a packet it answers itself carries
\* what was stored for the path it asks for.
THEOREM HooksRefineCache == HSpec => CacheRefined
<1>1. HInit => Cache!Init
  <2>1. ASSUME HInit PROVE Cache!Init
    <3>1. CachedPairs = {} /\ PendingPath = NULL /\ reply = NULL /\ open = TRUE
      BY <2>1 DEF HInit, CachedPairs, Counted, PendingPath, open
    <3>2. QED BY <3>1 DEF Cache!Init
  <2>2. QED BY <2>1
<1>2. HInv /\ [HNext]_hVars => [Cache!Next]_(Cache!vars)
  BY StepRefines, StoreAssumption, HooksAssumption
<1>3. QED BY <1>1, <1>2, HooksInvariant, PTL DEF HSpec, CacheRefined, Cache!Spec

-----------------------------------------------------------------------------
\* HttpFlow: the module between its clients and their server.

Response == [to : Client, path : Path, body : Body \cup {NULL}]

\* The packets of the network and what the clients have.
FlowTypes ==
  /\ waiting \in [Client -> Request \cup {NULL}]
  /\ got \in [Client -> Response \cup {NULL}]
  /\ up \subseteq Request /\ at_server \subseteq Request
  /\ down \subseteq Response /\ arrived \subseteq Response
  /\ \A c \in Client : got[c] # NULL => got[c].to = c

FInv == HInv /\ FlowTypes

\* What the network hands to the hooks are packets the hooks know.
LEMMA FlowStep ==
  ASSUME HInv, FlowTypes, [FNext]_fVars
  PROVE  [HNext]_hVars
<1>1. ASSUME NEW r \in Request, Forward(r) PROVE [HNext]_hVars
  <2>1. r.path \in Path
    BY DEF Request
  <2>2. CASE PreRouting(r)
    BY <2>1, <2>2 DEF PreRouting, HNext, watch_in
  <2>3. QED BY <1>1, <2>2 DEF Forward
<1>2. ASSUME NEW a \in down, Deliver(a) PROVE [HNext]_hVars
  <2>1. a.body # NULL => a.body \in Body
    BY DEF FlowTypes, Response
  <2>2. CASE PostRouting(a)
    BY <2>1, <2>2 DEF PostRouting, HNext, watch_out
  <2>3. QED BY <1>2, <2>2 DEF Deliver
<1>3. CASE wcache_init
  BY <1>3 DEF HNext
<1>4. CASE UNCHANGED hVars
  BY <1>4
<1>5. QED
  BY <1>1, <1>2, <1>3, <1>4 DEF FNext, fVars, Send, Serve, Resend, Receive

LEMMA FlowTypesKept ==
  ASSUME FlowAssumption, HookTypes', FlowTypes, [FNext]_fVars
  PROVE  FlowTypes'
<1> USE DEF FlowTypes
<1>1. ASSUME NEW r \in Request, Send(r) PROVE FlowTypes'
  BY <1>1 DEF Send, Request
<1>2. ASSUME NEW r \in Request, Forward(r) PROVE FlowTypes'
  <2>1. Transmitted =>
          [to |-> r.from, path |-> r.path, body |-> reply'[2]] \in Response
    BY DEF Transmitted, HookTypes, Request, Response
  <2>2. at_server' \subseteq Request /\ arrived' \subseteq Response
    BY <1>2, <2>1 DEF Forward
  <2>3. QED BY <1>2, <2>2 DEF Forward
<1>3. ASSUME NEW r \in Request, Serve(r) PROVE FlowTypes'
  <2>1. Answer(r) \in Response
    BY DEF Answer, Request, Response, FlowAssumption
  <2>2. QED BY <1>3, <2>1 DEF Serve
<1>4. ASSUME NEW c \in Client, Resend(c) PROVE FlowTypes'
  BY <1>4 DEF Resend
<1>5. ASSUME NEW a \in down, Deliver(a) PROVE FlowTypes'
  BY <1>5 DEF Deliver
<1>6. ASSUME NEW a \in arrived, Receive(a) PROVE FlowTypes'
  <2>1. a.to \in Client /\ a \in Response
    BY DEF Response
  <2>2. QED BY <1>6, <2>1 DEF Receive
<1>7. CASE UNCHANGED flowVars
  BY <1>7 DEF flowVars, netVars
<1>8. QED BY <1>1, <1>2, <1>3, <1>4, <1>5, <1>6, <1>7 DEF FNext, fVars

LEMMA FlowInit ==
  ASSUME StoreAssumption, HooksAssumption, FInit
  PROVE  FInv
<1>1. HInv
  BY HInitEstablishes DEF FInit
<1>2. FlowTypes
  BY DEF FInit, FlowTypes
<1>3. QED BY <1>1, <1>2 DEF FInv

LEMMA FlowKeeps ==
  ASSUME StoreAssumption, HooksAssumption, FlowAssumption, FInv, [FNext]_fVars
  PROVE  FInv' /\ HookTypes' /\ [HNext]_hVars
<1>1. HInv /\ FlowTypes
  BY DEF FInv
<1>2. [HNext]_hVars
  BY <1>1, FlowStep
<1>3. HInv' /\ HookTypes'
  BY <1>1, <1>2, HNextKeeps, HookTypesKept
<1>4. FlowTypes'
  BY <1>1, <1>3, FlowTypesKept
<1>5. QED BY <1>2, <1>3, <1>4 DEF FInv

\* The inductive invariant of the module and of the network around it.
THEOREM FlowInvariant == FSpec => []FInv
<1>1. FInit => FInv
  BY FlowInit, StoreAssumption, HooksAssumption
<1>2. FInv /\ [FNext]_fVars => FInv'
  BY FlowKeeps, StoreAssumption, HooksAssumption, FlowAssumption
<1>3. QED BY <1>1, <1>2, PTL DEF FSpec

\* Every variable keeps its type, and an answer goes to the client that asked,
\* for any number of clients, whatever they send.
THEOREM FlowTypeCorrect == FSpec => []FTypeOK
<1>1. FInv => FTypeOK
  BY DEF FInv, HInv, FlowTypes, FTypeOK, Response
<1>2. QED BY <1>1, FlowInvariant, PTL

\* Between clients and server the module only ever takes its own steps, so
\* that what is proved of it holds there.
THEOREM FlowIsModule == FSpec => HSpec
<1>1. FInit => HInit
  BY DEF FInit
<1>2. FInv /\ [FNext]_fVars => [HNext]_hVars
  BY FlowKeeps, StoreAssumption, HooksAssumption, FlowAssumption
<1>3. QED BY <1>1, <1>2, FlowInvariant, PTL DEF FSpec, HSpec

\* Whoever uses it, the cache answers a path with what was stored for it.
THEOREM FlowRefinesCache == FSpec => CacheRefined
BY FlowIsModule, HooksRefineCache, PTL

-----------------------------------------------------------------------------
\* One client, which sends only GETs over a network that repeats nothing.

SingleUser(c) ==
  /\ Client = {c}
  /\ Method \subseteq {"GET"}
  /\ ~Duplicates
  /\ "ens37" \notin MayFail

\* There is at most one packet on the way, and it belongs to the request the
\* client waits with; an answer is the server's, whoever gave it.
OneExchange ==
  /\ \A r \in up \cup at_server : r = waiting[r.from]
  /\ \A a \in down \cup arrived :
       waiting[a.to] # NULL /\ a = Answer(waiting[a.to])
  /\ up \cap at_server = {} /\ down \cap arrived = {}
  /\ up \cup at_server = {} \/ down \cup arrived = {}

\* What is beyond watch_in was asked for with the path that is pending.  The
\* path of an earlier request may be pending while the client sends the next.
PendingIsAsked ==
  /\ "pre" \notin hooks => temp_path = NULL
  /\ temp_path # NULL =>
       /\ \A r \in at_server : r.path = str_heap[temp_path]
       /\ \A a \in down : a.path = str_heap[temp_path]

\* Coherent, of the pairs of the refinement.
PairsTrue == \A e \in CachedPairs : e[2] = Content[e[1]]

UserInv == OneExchange /\ PendingIsAsked /\ PairsTrue /\ AnswersOwnRequest

LEMMA PairsCoherent == PairsTrue <=> Coherent
<1>1. \A o \in Counted : LET e == <<Text(o), obj_heap[o].body>>
                         IN  e[1] = Text(o) /\ e[2] = obj_heap[o].body
  OBVIOUS
<1>2. QED BY <1>1 DEF PairsTrue, Coherent, CachedPairs

\* watch_in on the request the client waits with.
LEMMA PreOutcome ==
  ASSUME StoreAssumption, HInv, PairsTrue, "ens37" \notin MayFail,
         NEW r \in Request, r.method = "GET", PreRouting(r)
  PROVE  /\ CachedPairs' = CachedPairs
         /\ UNCHANGED hooks /\ "pre" \in hooks
         /\ Accepted => temp_path' = NULL \/ str_heap'[temp_path'] = r.path
         /\ Transmitted => ~Accepted /\ reply'[2] = Content[r.path]
<1> DEFINE p == r.path
<1>0. p \in Path
  BY DEF Request
<1>1. fault = "none" /\ pc # "erase" /\ UNCHANGED hooks /\ "pre" \in hooks
  BY DEF PreRouting, watch_in_no_device, watch_in_not_linear, watch_in_pass,
         watch_in_miss, watch_in_hit, watch_in_no_memory, Hook, HInv
<1>2. CASE watch_in_not_linear
  BY <1>1, <1>2, CalmRefines
     DEF watch_in_not_linear, Return, vars, storeVars, heapVars, Accepted, Transmitted
<1>3. CASE watch_in_miss(p)
  <2>1. Cache!Miss(p)
    BY <1>0, <1>3, MissRefines
  <2>2. CachedPairs' = CachedPairs
    BY <2>1 DEF Cache!Miss
  <2>3. str_heap'[temp_path'] = p /\ reply' = NULL
    BY <1>3 DEF watch_in_miss, kmalloc, Return
  <2>4. QED BY <1>1, <2>2, <2>3 DEF Transmitted
<1>4. CASE watch_in_hit(p)
  <2>1. CachedPairs' = CachedPairs /\ temp_path' = NULL
    BY <1>1, <1>4, ForgetRefines DEF watch_in_hit, Hook, HInv
  <2>2. CASE Transmit(<<p, obj_heap[node_search(p)].body>>)
    <3>1. /\ node_search(p) \in Counted
          /\ Text(node_search(p)) = p
      BY <1>0, <1>4, HitBody DEF watch_in_hit
    <3>2. <<p, obj_heap[node_search(p)].body>> \in CachedPairs
      BY <3>1 DEF CachedPairs
    <3>3. obj_heap[node_search(p)].body = Content[p]
      BY <3>2 DEF PairsTrue
    <3>4. Transmitted => ~Accepted /\ reply'[2] = Content[p]
      BY <2>2, <3>3 DEF Transmit, Return, Transmitted, Accepted
    <3>5. QED BY <1>1, <2>1, <3>4
  <2>3. CASE fault' = FirstFault("null_deref")
    BY <1>1, <2>1, <2>3 DEF FirstFault, Transmitted, Accepted
  <2>4. QED BY <1>4, <2>2, <2>3 DEF watch_in_hit
<1>5. CASE watch_in_no_memory
  <2>1. CachedPairs' = CachedPairs
    BY <1>1, <1>5, ForgetRefines DEF watch_in_no_memory, Hook, HInv
  <2>2. fault' # "none"
    BY <1>1, <1>5 DEF watch_in_no_memory, FirstFault
  <2>3. QED BY <1>1, <2>1, <2>2 DEF Transmitted, Accepted
<1>6. QED
  BY <1>2, <1>3, <1>4, <1>5 DEF PreRouting, watch_in_no_device

\* watch_out on the answer to the request whose path is pending.
LEMMA PostOutcome ==
  ASSUME StoreAssumption, HooksAssumption, HInv, [HNext]_hVars, PairsTrue,
         NEW a \in Response, a.body = Content[a.path],
         temp_path # NULL => a.path = str_heap[temp_path],
         PostRouting(a)
  PROVE  /\ PairsTrue'
         /\ UNCHANGED hooks
         /\ temp_path' \in {NULL, temp_path}
<1>1. fault = "none" /\ pc # "erase" /\ UNCHANGED hooks
      /\ temp_path' \in {NULL, temp_path}
  BY DEF PostRouting, watch_out_not_linear, watch_out_other, watch_out_unasked,
         watch_out_store, watch_out_no_memory, Hook, HInv
<1>2. CASE watch_out_not_linear \/ watch_out_other \/ watch_out_unasked
  <2>1. UNCHANGED <<obj_heap, str_heap, obj_tree, temp_path>>
    BY <1>2 DEF watch_out_not_linear, watch_out_other, watch_out_unasked, HInv,
                vars, storeVars, heapVars
  <2>2. QED BY <1>1, <2>1, CalmRefines DEF PairsTrue
<1>3. ASSUME NEW size \in Size, a.body # NULL, watch_out_store(a.body, size)
      PROVE  PairsTrue'
  <2>1. a.body \in Body
    BY <1>3 DEF Response
  <2>2. HInv' /\ HookTypes' /\ lost' \in BOOLEAN
    BY HNextKeeps, HookTypesKept, LostType
  <2>3. Cache!Fill(a.body)
    BY <1>3, <2>1, <2>2, StoreRefines
  <2>4. temp_path # NULL /\ temp_path \in DOMAIN str_heap
    BY <1>3 DEF watch_out_store, HInv, PendingPathUncached
  <2>5. PendingPath = a.path
    BY <2>4 DEF PendingPath
  <2>6. CachedPairs' = CachedPairs \cup {<<a.path, a.body>>}
    BY <2>3, <2>5 DEF Cache!Fill
  <2>7. QED BY <2>6 DEF PairsTrue
<1>4. ASSUME NEW size \in Size, watch_out_no_memory(size) PROVE PairsTrue'
  <2>1. pc' = pc /\ str_heap' = Strings /\ temp_path' = NULL
        /\ UNCHANGED <<obj_heap, obj_tree>>
    BY <1>4 DEF watch_out_no_memory, obj_create_no_memory, obj_create_no_buffer
  <2>2. QED BY <1>1, <2>1, ForgetRefines DEF PairsTrue
<1>5. QED BY <1>1, <1>2, <1>3, <1>4 DEF PostRouting

\* One request that is anywhere leaves no room for another packet.
LEMMA OnlyPacket ==
  ASSUME FlowAssumption, NEW c, Client = {c}, FlowTypes, OneExchange
  PROVE  /\ waiting[c] = NULL =>
              up = {} /\ at_server = {} /\ down = {} /\ arrived = {}
         /\ \A r \in up : /\ up = {r} /\ r = waiting[c] /\ at_server = {}
                          /\ down = {} /\ arrived = {}
         /\ \A r \in at_server : /\ at_server = {r} /\ r = waiting[c] /\ up = {}
                                 /\ down = {} /\ arrived = {}
         /\ \A a \in down : /\ down = {a} /\ a = Answer(waiting[c]) /\ up = {}
                            /\ at_server = {} /\ arrived = {}
         /\ \A a \in arrived : /\ arrived = {a} /\ a = Answer(waiting[c]) /\ up = {}
                               /\ at_server = {} /\ down = {}
<1>1. \A r \in up \cup at_server : r.from = c /\ r \in Request
  BY DEF FlowTypes, Request
<1>2. \A a \in down \cup arrived : a.to = c
  BY DEF FlowTypes, Response
<1>3. \A r \in up \cup at_server : r = waiting[c]
  BY <1>1 DEF OneExchange
<1>4. \A a \in down \cup arrived : waiting[c] # NULL /\ a = Answer(waiting[c])
  BY <1>2 DEF OneExchange
<1>5. QED BY <1>1, <1>3, <1>4 DEF OneExchange, FlowAssumption

LEMMA UserStep ==
  ASSUME StoreAssumption, HooksAssumption, FlowAssumption,
         NEW c, SingleUser(c), FInv, UserInv, [FNext]_fVars
  PROVE  UserInv'
<1> DEFINE w == waiting[c]
<1>0. /\ HInv /\ FlowTypes /\ OneExchange /\ PendingIsAsked /\ PairsTrue
      /\ [HNext]_hVars /\ FlowTypes'
      /\ Client = {c} /\ ~Duplicates /\ "ens37" \notin MayFail
  BY FlowKeeps DEF FInv, UserInv, SingleUser
<1>1. /\ \A r \in Request : r.from = c /\ r.method = "GET" /\ r # NULL
      /\ \A a \in Response : a.to = c
  BY <1>0 DEF SingleUser, Request, Response, FlowAssumption
<1>2. /\ w = NULL => up = {} /\ at_server = {} /\ down = {} /\ arrived = {}
      /\ \A r \in up : /\ up = {r} /\ r = w /\ at_server = {}
                       /\ down = {} /\ arrived = {}
      /\ \A r \in at_server : /\ at_server = {r} /\ r = w /\ up = {}
                              /\ down = {} /\ arrived = {}
      /\ \A a \in down : /\ down = {a} /\ a = Answer(w) /\ up = {}
                         /\ at_server = {} /\ arrived = {}
      /\ \A a \in arrived : /\ arrived = {a} /\ a = Answer(w) /\ up = {}
                            /\ at_server = {} /\ down = {}
  BY <1>0, OnlyPacket
<1>3. /\ w \in Request \cup {NULL} /\ DOMAIN waiting = {c}
      /\ DOMAIN got = {c}
      /\ up \subseteq Request /\ at_server \subseteq Request
      /\ down \subseteq Response /\ arrived \subseteq Response
  BY <1>0 DEF FlowTypes
<1>4. UNCHANGED <<hVars>> =>
        PairsTrue' /\ UNCHANGED <<hooks, temp_path, str_heap>>
  <2>1. UNCHANGED <<hVars>> =>
          UNCHANGED <<obj_heap, str_heap, obj_tree, temp_path, hooks>>
    BY DEF hVars, vars, storeVars, heapVars, hookVars
  <2>2. QED BY <1>0, <2>1, CalmRefines DEF PairsTrue
<1>5. UNCHANGED got => AnswersOwnRequest'
  BY DEF UserInv, AnswersOwnRequest
<1>6. \A r : Answer(r)' = Answer(r)
  BY DEF Answer
\* The client.
<1>7. ASSUME NEW r \in Request, Send(r) PROVE UserInv'
  <2>1. /\ up' = {r} /\ at_server' = {} /\ down' = {} /\ arrived' = {}
        /\ waiting'[c] = r
    BY <1>1, <1>2, <1>3, <1>7 DEF Send
  <2>2. OneExchange'
    BY <1>1, <2>1 DEF OneExchange
  <2>3. PendingIsAsked' /\ PairsTrue' /\ AnswersOwnRequest'
    BY <1>0, <1>4, <1>5, <1>7, <2>1 DEF Send, PendingIsAsked
  <2>4. QED BY <2>2, <2>3 DEF UserInv
<1>8. ASSUME NEW d \in Client, Resend(d) PROVE UserInv'
  <2>1. d = c /\ w \in Request
    BY <1>0, <1>3, <1>8 DEF Resend
  <2>2. ~InFlight(w)
    BY <1>0, <1>8, <2>1 DEF Resend
  <2>3. /\ up = {} /\ at_server = {}
        /\ \A a \in down \cup arrived : a # Answer(w)
    BY <1>2, <2>2 DEF InFlight, Answer
  <2>4. down = {} /\ arrived = {}
    BY <1>2, <2>3
  <2>5. /\ up' = {w} /\ at_server' = {} /\ down' = {} /\ arrived' = {}
        /\ waiting' = waiting
    BY <1>8, <2>1, <2>3, <2>4 DEF Resend
  <2>6. OneExchange'
    BY <1>1, <2>1, <2>5 DEF OneExchange
  <2>7. PendingIsAsked' /\ PairsTrue' /\ AnswersOwnRequest'
    BY <1>0, <1>4, <1>5, <1>8, <2>5 DEF Resend, PendingIsAsked
  <2>8. QED BY <2>6, <2>7 DEF UserInv
<1>9. ASSUME NEW a \in arrived, Receive(a) PROVE UserInv'
  <2>1. /\ arrived' = {} /\ up' = {} /\ at_server' = {} /\ down' = {}
        /\ a = Answer(w) /\ a.to = c
    BY <1>1, <1>2, <1>3, <1>9 DEF Receive
  <2>2. OneExchange'
    BY <2>1 DEF OneExchange
  <2>3. PendingIsAsked' /\ PairsTrue'
    BY <1>0, <1>4, <1>9, <2>1 DEF Receive, PendingIsAsked
  <2>4. AnswersOwnRequest'
    <3>1. a.body = Content[a.path]
      BY <2>1 DEF Answer
    <3>2. got' = got \/ got' = [got EXCEPT ![c] = a]
      BY <1>9, <2>1 DEF Receive
    <3>3. \A d \in Client : got'[d] = got[d] \/ got'[d] = a
      BY <1>0, <3>2 DEF FlowTypes
    <3>4. QED BY <3>1, <3>3 DEF UserInv, AnswersOwnRequest
  <2>5. QED BY <2>2, <2>3, <2>4 DEF UserInv
\* The server.
<1>10. ASSUME NEW r \in Request, Serve(r) PROVE UserInv'
  <2>1. /\ at_server' = {} /\ up' = {} /\ arrived' = {}
        /\ down' = {Answer(r)} /\ r = w /\ waiting' = waiting
    BY <1>2, <1>10 DEF Serve
  <2>2. OneExchange'
    <3>1. Answer(r).to = c
      BY <1>1 DEF Answer
    <3>2. QED BY <1>1, <1>6, <2>1, <3>1 DEF OneExchange
  <2>3. PendingIsAsked'
    <3>1. r \in at_server /\ Answer(r).path = r.path
      BY <1>10 DEF Serve, Answer
    <3>2. QED BY <1>0, <1>4, <1>10, <2>1, <3>1 DEF Serve, PendingIsAsked
  <2>4. PairsTrue' /\ AnswersOwnRequest'
    BY <1>4, <1>5, <1>10 DEF Serve
  <2>5. QED BY <2>2, <2>3, <2>4 DEF UserInv
\* The module.
<1>11. ASSUME NEW r \in Request, Forward(r) PROVE UserInv'
  <2>1. /\ up = {r} /\ r = w /\ at_server = {} /\ down = {} /\ arrived = {}
        /\ r.from = c /\ r.method = "GET" /\ r # NULL
    BY <1>1, <1>2, <1>11 DEF Forward
  <2>2. up' = {} /\ down' = {} /\ waiting' = waiting /\ got' = got
    BY <1>11, <2>1 DEF Forward
  <2>3. CASE /\ PreRouting(r)
             /\ at_server' = IF Accepted THEN at_server \cup {r} ELSE at_server
             /\ arrived' = IF Transmitted
                           THEN arrived \cup {[to |-> r.from, path |-> r.path,
                                               body |-> reply'[2]]}
                           ELSE arrived
    <3>1. /\ CachedPairs' = CachedPairs
          /\ UNCHANGED hooks /\ "pre" \in hooks
          /\ Accepted => temp_path' = NULL \/ str_heap'[temp_path'] = r.path
          /\ Transmitted => ~Accepted /\ reply'[2] = Content[r.path]
      BY <1>0, <2>1, <2>3, PreOutcome
    <3>2. \/ Accepted /\ at_server' = {r} /\ arrived' = {}
          \/ at_server' = {} /\ arrived' = {}
          \/ at_server' = {} /\ arrived' = {Answer(r)}
      BY <2>1, <2>3, <3>1 DEF Answer
    <3>3. OneExchange'
      BY <1>6, <2>1, <2>2, <3>2 DEF OneExchange, Answer
    <3>4. PendingIsAsked'
      BY <2>2, <3>1, <3>2 DEF PendingIsAsked
    <3>5. PairsTrue'
      BY <1>0, <3>1 DEF PairsTrue
    <3>6. QED BY <1>5, <2>2, <3>3, <3>4, <3>5 DEF UserInv
  <2>4. CASE /\ "pre" \notin hooks
             /\ at_server' = at_server \cup {r}
             /\ UNCHANGED <<hVars, arrived>>
    <3>1. at_server' = {r} /\ arrived' = {}
      BY <2>1, <2>4
    <3>2. OneExchange'
      BY <2>1, <2>2, <3>1 DEF OneExchange
    <3>3. PendingIsAsked' /\ PairsTrue'
      BY <1>0, <1>4, <2>4 DEF PendingIsAsked
    <3>4. QED BY <1>5, <2>2, <3>2, <3>3 DEF UserInv
  <2>5. QED BY <1>11, <2>3, <2>4 DEF Forward
<1>12. ASSUME NEW a \in down, Deliver(a) PROVE UserInv'
  <2>1. /\ down = {a} /\ a = Answer(w) /\ a \in Response
        /\ up = {} /\ at_server = {} /\ arrived = {} /\ a.to = c
    BY <1>1, <1>2, <1>3
  <2>2. /\ down' = {} /\ up' = {} /\ at_server' = {} /\ arrived' \subseteq {a}
        /\ waiting' = waiting /\ got' = got
    BY <1>0, <1>12, <2>1 DEF Deliver
  <2>3. w # NULL
    BY <1>2, <2>1
  <2>4. OneExchange'
    BY <1>6, <2>1, <2>2, <2>3 DEF OneExchange
  <2>5. /\ a.body = Content[a.path]
        /\ temp_path # NULL => a.path = str_heap[temp_path]
    BY <1>0, <2>1 DEF Answer, PendingIsAsked
  <2>6. PairsTrue' /\ UNCHANGED hooks /\ temp_path' \in {NULL, temp_path}
    BY <1>0, <1>4, <1>12, <2>1, <2>5, PostOutcome DEF Deliver
  <2>7. PendingIsAsked'
    BY <1>0, <2>2, <2>6 DEF PendingIsAsked
  <2>8. QED BY <1>5, <2>2, <2>4, <2>6, <2>7 DEF UserInv
<1>13. ASSUME UNCHANGED flowVars, wcache_init \/ UNCHANGED hVars PROVE UserInv'
  <2>1. UNCHANGED <<waiting, got, up, at_server, down, arrived>>
    BY <1>13 DEF flowVars, netVars
  <2>2. /\ UNCHANGED <<obj_heap, str_heap, obj_tree, temp_path>>
        /\ hooks \subseteq hooks'
    BY <1>4, <1>13 DEF wcache_init, create_sysfs, Register, storeVars, heapVars,
                       hVars, vars, hookVars
  <2>3. OneExchange' /\ PendingIsAsked'
    BY <1>0, <1>6, <2>1, <2>2 DEF OneExchange, PendingIsAsked
  <2>4. PairsTrue'
    BY <1>0, <2>2, CalmRefines DEF PairsTrue
  <2>5. QED BY <1>5, <2>1, <2>3, <2>4 DEF UserInv
<1>14. QED
  BY <1>7, <1>8, <1>9, <1>10, <1>11, <1>12, <1>13 DEF FNext, fVars

LEMMA UserInvariant ==
  ASSUME NEW c, SingleUser(c)
  PROVE  FSpec => []UserInv
<1>1. FInit => UserInv
  <2>1. ASSUME FInit PROVE UserInv
    <3>1. CachedPairs = {} /\ temp_path = NULL
      BY <2>1 DEF FInit, HInit, CachedPairs, Counted
    <3>2. \A d \in Client : got[d] = NULL
      BY <2>1 DEF FInit
    <3>3. QED
      BY <2>1, <3>1, <3>2 DEF FInit, UserInv, OneExchange, PendingIsAsked, PairsTrue,
                              AnswersOwnRequest
  <2>2. QED BY <2>1
<1>2. FInv /\ UserInv /\ [FNext]_fVars => UserInv'
  BY UserStep, StoreAssumption, HooksAssumption, FlowAssumption
<1>3. QED BY <1>1, <1>2, FlowInvariant, PTL DEF FSpec

\* With one client that sends only GETs, no packet sent twice without need and
\* the device in place, what is cached is what the server has, whichever other
\* calls fail and whatever the network loses.  Without any of the four
\* conditions it is not.
THEOREM FlowCoherent ==
  ASSUME NEW c, SingleUser(c)
  PROVE  FSpec => []Coherent
<1>1. UserInv => Coherent
  BY PairsCoherent DEF UserInv
<1>2. FSpec => []UserInv
  BY UserInvariant
<1>3. QED BY <1>1, <1>2, PTL

\* Under the same conditions the client gets what the server has at the path
\* it asked for, whoever answers.
THEOREM FlowAnswersOwn ==
  ASSUME NEW c, SingleUser(c)
  PROVE  FSpec => []AnswersOwnRequest
<1>1. UserInv => AnswersOwnRequest
  BY DEF UserInv
<1>2. FSpec => []UserInv
  BY UserInvariant
<1>3. QED BY <1>1, <1>2, PTL

\* Under the same conditions a client cannot tell the module from the server:
\* its sends and receives are those of WebService, and all other steps of the
\* module and of the network are invisible to it.
THEOREM FlowTransparent ==
  ASSUME NEW c, SingleUser(c)
  PROVE  FSpec => Transparent
<1>1. FInit => Service!Init
  BY DEF FInit, Service!Init
<1>2. ASSUME FInv, UserInv, [FNext]_fVars
      PROVE  [Service!Next]_(Service!vars)
  <2>1. ASSUME NEW r \in Request, Send(r) PROVE Service!Next
    BY <2>1 DEF Send, Service!Next, Service!Ask
  <2>2. ASSUME NEW a \in arrived, Receive(a) PROVE Service!Next
    <3>1. a.to \in Client
      BY <1>2 DEF FInv, FlowTypes, Response
    <3>2. /\ waiting[a.to] # NULL /\ a = Answer(waiting[a.to])
      BY <1>2 DEF UserInv, OneExchange
    <3>3. a = [to |-> a.to, path |-> waiting[a.to].path,
               body |-> Content[waiting[a.to].path]]
      BY <3>2 DEF Answer
    <3>4. /\ got' = [got EXCEPT ![a.to] = a]
          /\ waiting' = [waiting EXCEPT ![a.to] = NULL]
      BY <2>2, <3>2 DEF Receive, Answer
    <3>5. Service!Reply(a.to)
      BY <3>2, <3>3, <3>4 DEF Service!Reply
    <3>6. QED BY <3>1, <3>5 DEF Service!Next
  <2>3. QED
    BY <1>2, <2>1, <2>2 DEF FNext, fVars, flowVars, Service!vars, Forward, Serve,
                            Resend, Deliver
<1>3. FSpec => []UserInv
  BY UserInvariant
<1>4. QED
  BY <1>1, <1>2, <1>3, FlowInvariant, PTL DEF FSpec, Transparent, Service!Spec
=============================================================================
