--------------------------- MODULE HooksSmpProofs ---------------------------
(***************************************************************************)
(* On one processor the steps of HooksSmp go wrong nowhere: none of its    *)
(* properties needs a lock there, so that it is the second processor that  *)
(* breaks them.  For any paths, strings and objects.                       *)
(***************************************************************************)
EXTENDS HooksSmp, FiniteSetTheorems, TLAPS

\* NULL is neither a string nor a path.
NullApart == NULL \notin Str /\ NULL \notin Path

Types ==
  /\ cpu = [c \in Cpu |-> cpu[c]]
  /\ obj_tree \subseteq DOMAIN obj_heap
  /\ IsFiniteSet(obj_tree)
  /\ obj_count \in Nat
  /\ temp_path \in DOMAIN text \cup {NULL}
  /\ DOMAIN text \subseteq Str

\* What a processor has read still holds; while cache_update is under way the
\* count is one behind.
Held(c) ==
  /\ cpu[c].at \in {"idle", "copy", "search", "hit", "create", "link", "used",
                    "count", "counted", "space", "clear"}
  /\ cpu[c].at \in {"copy", "search"} => temp_path # NULL
  /\ cpu[c].at = "search" => text[temp_path] = cpu[c].url
  /\ cpu[c].at = "hit" => obj_heap[cpu[c].object].key = cpu[c].url
  /\ cpu[c].at = "link" => /\ cpu[c].object \in DOMAIN obj_heap \ obj_tree
                           /\ cpu[c].seen = obj_tree
  /\ cpu[c].at = "counted" => cpu[c].count = obj_count
  /\ IF cpu[c].at \in {"used", "count", "counted"}
     THEN Cardinality(obj_tree) = obj_count + 1
     ELSE Cardinality(obj_tree) = obj_count

SmpInv ==
  /\ Types
  /\ ~oops
  /\ AnswersOwnPath
  /\ Cardinality(obj_tree) \in Nat
  /\ Cpu # {} => \E c \in Cpu : Held(c)
  /\ Cpu = {} => obj_count = Cardinality(obj_tree)

LEMMA SmpInitEstablishes ==
  ASSUME SmpInit
  PROVE  SmpInv
<1>1. Cardinality({}) = 0 /\ IsFiniteSet({})
  BY FS_EmptySet
<1>2. Types
  BY <1>1 DEF SmpInit, Types
<1>3. \A c \in Cpu : Held(c)
  BY <1>1 DEF SmpInit, Held, Idle
<1>4. ~oops /\ AnswersOwnPath
  BY DEF SmpInit, AnswersOwnPath
<1>5. Cardinality(obj_tree) = 0 /\ obj_count = 0
  BY <1>1 DEF SmpInit
<1>6. QED
  BY <1>2, <1>3, <1>4, <1>5 DEF SmpInv

\* The only processor c takes its step.
LEMMA SmpStep ==
  ASSUME NullApart, NEW c \in Cpu, \A d \in Cpu : d = c,
         Types, Types', Held(c), ~oops, AnswersOwnPath,
         \/ \E p \in Path : watch_in(c, p)
         \/ watch_in_copy(c) \/ watch_in_search(c) \/ watch_in_hit(c)
         \/ watch_out(c) \/ obj_create(c) \/ rb_link_node(c)
         \/ cache_update(c) /\ UNCHANGED <<text, obj_heap, obj_tree, temp_path, answer, oops>>
         \/ watch_out_clear(c)
  PROVE  Held(c)' /\ ~oops' /\ AnswersOwnPath'
<1> USE DEF At, Goto, Idle
<1>0. \A r : cpu' = [cpu EXCEPT ![c] = r] => cpu'[c] = r
  BY DEF Types
<1>1. ASSUME NEW p \in Path, watch_in(c, p)
      PROVE  Held(c)' /\ ~oops' /\ AnswersOwnPath'
  <2>1. temp_path' # NULL
    BY <1>1 DEF watch_in, NullApart
  <2>2. cpu'[c] = [at |-> "copy", url |-> p]
    BY <1>0, <1>1 DEF watch_in
  <2>3. QED BY <1>1, <2>1, <2>2 DEF watch_in, Held, AnswersOwnPath
<1>2. ASSUME watch_in_copy(c) PROVE Held(c)' /\ ~oops' /\ AnswersOwnPath'
  <2>1. temp_path # NULL /\ temp_path' = temp_path /\ temp_path \in DOMAIN text
    BY <1>2 DEF watch_in_copy, Held, Types
  <2>2. text'[temp_path'] = cpu[c].url
    BY <1>2, <2>1 DEF watch_in_copy
  <2>3. cpu'[c] = [at |-> "search", url |-> cpu[c].url]
    BY <1>0, <1>2 DEF watch_in_copy
  <2>4. QED BY <1>2, <2>1, <2>2, <2>3 DEF watch_in_copy, Held, AnswersOwnPath
<1>3. ASSUME watch_in_search(c) PROVE Held(c)' /\ ~oops' /\ AnswersOwnPath'
  <2>1. temp_path # NULL /\ text[temp_path] = cpu[c].url
    BY <1>3 DEF watch_in_search, Held
  <2>2. CASE Goto(c, Idle) /\ UNCHANGED oops
    BY <1>0, <1>3, <2>2 DEF watch_in_search, Held, AnswersOwnPath
  <2>3. CASE /\ UNCHANGED oops
             /\ \E o \in Match(text[temp_path]) :
                  Goto(c, [at |-> "hit", url |-> cpu[c].url, object |-> o])
    <3>1. PICK o \in Match(text[temp_path]) :
            cpu'[c] = [at |-> "hit", url |-> cpu[c].url, object |-> o]
      BY <1>0, <2>3
    <3>2. obj_heap'[o].key = cpu[c].url
      BY <1>3, <2>1 DEF Match, watch_in_search
    <3>3. QED BY <1>3, <2>3, <3>1, <3>2 DEF watch_in_search, Held, AnswersOwnPath
  <2>4. QED BY <1>3, <2>1, <2>2, <2>3 DEF watch_in_search
<1>4. ASSUME watch_in_hit(c) PROVE Held(c)' /\ ~oops' /\ AnswersOwnPath'
  BY <1>0, <1>4 DEF watch_in_hit, Held, AnswersOwnPath
<1>5. ASSUME watch_out(c) PROVE Held(c)' /\ ~oops' /\ AnswersOwnPath'
  <2>1. \/ cpu'[c] = [at |-> "clear"]
        \/ cpu'[c] = [at |-> "create", path |-> temp_path]
    BY <1>0, <1>5 DEF watch_out
  <2>2. QED BY <1>5, <2>1 DEF watch_out, Held, AnswersOwnPath
<1>6. ASSUME obj_create(c) PROVE Held(c)' /\ ~oops' /\ AnswersOwnPath'
  <2>1. PICK o \in Obj \ DOMAIN obj_heap :
          /\ obj_heap' = Put(obj_heap, o, [path |-> cpu[c].path, key |-> text[cpu[c].path]])
          /\ cpu'[c] = IF Match(text[cpu[c].path]) # {} THEN [at |-> "clear"]
                       ELSE [at |-> "link", object |-> o, seen |-> obj_tree]
    BY <1>0, <1>6 DEF obj_create
  <2>2. o \in DOMAIN obj_heap' /\ o \notin obj_tree /\ obj_tree' = obj_tree
    BY <1>6, <2>1 DEF Put, Types, obj_create
  <2>3. obj_count' = obj_count /\ oops' = oops /\ answer' = answer
    BY <1>6 DEF obj_create
  <2>4. Cardinality(obj_tree) = obj_count
    BY <1>6 DEF obj_create, Held
  <2>5. CASE cpu'[c] = [at |-> "clear"]
    BY <2>2, <2>3, <2>4, <2>5 DEF Held, AnswersOwnPath
  <2>6. CASE cpu'[c] = [at |-> "link", object |-> o, seen |-> obj_tree]
    BY <2>2, <2>3, <2>4, <2>6 DEF Held, AnswersOwnPath
  <2>7. QED BY <2>1, <2>5, <2>6
<1>7. ASSUME rb_link_node(c) PROVE Held(c)' /\ ~oops' /\ AnswersOwnPath'
  <2>1. InTheWay(cpu[c].object, cpu[c].seen) = {}
    BY <1>7 DEF InTheWay, rb_link_node, Held
  <2>2. obj_tree' = obj_tree \cup {cpu[c].object} /\ cpu[c].object \notin obj_tree
    BY <1>7, <2>1 DEF rb_link_node, Held
  <2>3. Cardinality(obj_tree') = Cardinality(obj_tree) + 1
    BY <2>2, FS_AddElement DEF Types
  <2>4. cpu'[c] = [at |-> "used"]
    BY <1>0, <1>7 DEF rb_link_node
  <2>5. QED BY <1>7, <2>3, <2>4 DEF rb_link_node, Held, AnswersOwnPath
<1>8. ASSUME cache_update(c), UNCHANGED <<text, obj_heap, obj_tree, temp_path, answer, oops>>
      PROVE  Held(c)' /\ ~oops' /\ AnswersOwnPath'
  <2>1. CASE cpu[c].at = "used"
    BY <1>0, <1>8, <2>1 DEF cache_update, Held, AnswersOwnPath
  <2>2. CASE cpu[c].at = "count"
    BY <1>0, <1>8, <2>2 DEF cache_update, Held, AnswersOwnPath
  <2>3. CASE cpu[c].at = "counted"
    BY <1>0, <1>8, <2>3 DEF cache_update, Held, AnswersOwnPath
  <2>4. CASE cpu[c].at = "space"
    BY <1>0, <1>8, <2>4 DEF cache_update, Held, AnswersOwnPath
  <2>5. QED BY <1>8, <2>1, <2>2, <2>3, <2>4 DEF cache_update
<1>9. ASSUME watch_out_clear(c) PROVE Held(c)' /\ ~oops' /\ AnswersOwnPath'
  BY <1>0, <1>9 DEF watch_out_clear, Held, AnswersOwnPath
<1>10. QED
  BY <1>1, <1>2, <1>3, <1>4, <1>5, <1>6, <1>7, <1>8, <1>9

LEMMA SmpTypes ==
  ASSUME NullApart, Types, [SmpNext]_smpVars, \A c \in Cpu : Held(c)
  PROVE  Types'
<1>1. CASE UNCHANGED smpVars
  BY <1>1 DEF Types, smpVars
<1>2. ASSUME NEW c \in Cpu, NEW r, cpu' = [cpu EXCEPT ![c] = r]
      PROVE  cpu' = [d \in Cpu |-> cpu'[d]]
  BY <1>2 DEF Types
<1>3. ASSUME NEW c \in Cpu, NEW p \in Path, watch_in(c, p) PROVE Types'
  BY <1>2, <1>3 DEF watch_in, Types, Put, Goto
<1>4. ASSUME NEW c \in Cpu, watch_in_copy(c) PROVE Types'
  BY <1>2, <1>4 DEF watch_in_copy, Types, Goto
<1>5. ASSUME NEW c \in Cpu, watch_in_search(c) PROVE Types'
  <2>1. cpu' = [d \in Cpu |-> cpu'[d]]
    BY <1>2, <1>5 DEF watch_in_search, Goto, Types
  <2>2. QED BY <1>5, <2>1 DEF watch_in_search, Types
<1>6. ASSUME NEW c \in Cpu, watch_in_hit(c) \/ watch_out(c) \/ watch_out_clear(c) PROVE Types'
  BY <1>2, <1>6 DEF watch_in_hit, watch_out, watch_out_clear, Types, Goto
<1>7. ASSUME NEW c \in Cpu, obj_create(c) PROVE Types'
  <2>1. cpu' = [d \in Cpu |-> cpu'[d]]
    BY <1>2, <1>7 DEF obj_create, Goto
  <2>2. DOMAIN obj_heap \subseteq DOMAIN obj_heap'
    BY <1>7 DEF obj_create, Put
  <2>3. QED BY <1>7, <2>1, <2>2 DEF obj_create, Types
<1>8. ASSUME NEW c \in Cpu, rb_link_node(c) PROVE Types'
  <2>1. cpu' = [d \in Cpu |-> cpu'[d]]
    BY <1>2, <1>8 DEF rb_link_node, Goto
  <2>2. cpu[c].object \in DOMAIN obj_heap
    BY <1>8 DEF rb_link_node, At, Held
  <2>3. IsFiniteSet(obj_tree')
    <3>1. IsFiniteSet(obj_tree \ InTheWay(cpu[c].object, cpu[c].seen))
      BY FS_Subset DEF Types
    <3>2. QED BY <1>8, <3>1, FS_AddElement DEF rb_link_node
  <2>4. QED BY <1>8, <2>1, <2>2, <2>3 DEF rb_link_node, Types
<1>9. ASSUME NEW c \in Cpu, cache_update(c),
             UNCHANGED <<text, obj_heap, obj_tree, temp_path, answer, oops>>
      PROVE  Types'
  <2>1. cpu' = [d \in Cpu |-> cpu'[d]]
    BY <1>2, <1>9 DEF cache_update, Goto
  <2>2. obj_count' \in Nat
    BY <1>9 DEF cache_update, Types, Held, At
  <2>3. QED BY <1>9, <2>1, <2>2 DEF Types
<1>10. QED
  BY <1>1, <1>3, <1>4, <1>5, <1>6, <1>7, <1>8, <1>9 DEF SmpNext

\* On one processor the inductive invariant holds.
THEOREM OneProcessorInvariant ==
  ASSUME NullApart, \A c, d \in Cpu : c = d
  PROVE  SmpSpec => []SmpInv
<1>1. ASSUME SmpInv, [SmpNext]_smpVars PROVE SmpInv'
  <2>1. \A c \in Cpu : Held(c)
    BY <1>1 DEF SmpInv
  <2>2. Types'
    BY <1>1, <2>1, SmpTypes DEF SmpInv
  <2>3. Cardinality(obj_tree)' \in Nat
    BY <2>2, FS_CardinalityType DEF Types
  <2>4. CASE UNCHANGED smpVars
    BY <1>1, <2>1, <2>2, <2>3, <2>4 DEF SmpInv, smpVars, Held, AnswersOwnPath
  <2>5. CASE SmpNext
    <3>1. PICK c \in Cpu :
            \/ \E p \in Path : watch_in(c, p)
            \/ watch_in_copy(c) \/ watch_in_search(c) \/ watch_in_hit(c)
            \/ watch_out(c) \/ obj_create(c) \/ rb_link_node(c)
            \/ cache_update(c) /\ UNCHANGED <<text, obj_heap, obj_tree, temp_path, answer, oops>>
            \/ watch_out_clear(c)
      BY <2>5 DEF SmpNext
    <3>2. Held(c)' /\ ~oops' /\ AnswersOwnPath'
      BY <1>1, <2>1, <2>2, <3>1, SmpStep DEF SmpInv
    <3>3. QED BY <2>2, <2>3, <3>2 DEF SmpInv
  <2>6. QED BY <1>1, <2>4, <2>5
<1>2. QED
  BY <1>1, SmpInitEstablishes, PTL DEF SmpSpec

\* On one processor sysfs publishes the number of objects whenever no hook
\* runs.
THEOREM OneProcessorCounts ==
  ASSUME NullApart, \A c, d \in Cpu : c = d
  PROVE  SmpSpec => []CountAtRest
<1>1. SmpInv => CountAtRest
  BY DEF SmpInv, Held, AtRest, CountAtRest
<1>2. QED BY <1>1, OneProcessorInvariant, PTL

\* On one processor a request is answered for its own path: what temp_path
\* points to when node_search reads it is what was copied there.
THEOREM OneProcessorAnswers ==
  ASSUME NullApart, \A c, d \in Cpu : c = d
  PROVE  SmpSpec => []AnswersOwnPath
<1>1. SmpInv => AnswersOwnPath
  BY DEF SmpInv
<1>2. QED BY <1>1, OneProcessorInvariant, PTL

\* On one processor no hook uses the NULL that another has left in temp_path.
THEOREM OneProcessorNoOops ==
  ASSUME NullApart, \A c, d \in Cpu : c = d
  PROVE  SmpSpec => []NeverOops
<1>1. SmpInv => NeverOops
  BY DEF SmpInv, NeverOops
<1>2. QED BY <1>1, OneProcessorInvariant, PTL

-----------------------------------------------------------------------------
\* The hooks as atomic steps.

\* What the running hook is about is what temp_path points to, and is not
\* cached until the hook links it.
Follows(c) ==
  /\ cpu[c].at \in {"copy", "search", "hit"} => cpu[c].url \in Path
  /\ cpu[c].at # "idle" => answer = NULL
  /\ cpu[c].at = "hit" => cpu[c].object \in obj_tree
  /\ cpu[c].at \in {"create", "link"} => temp_path # NULL
  /\ cpu[c].at = "create" => cpu[c].path = temp_path
  /\ cpu[c].at = "link" => obj_heap[cpu[c].object].key = text[temp_path]
  /\ cpu[c].at \in {"idle", "create", "link"} /\ temp_path # NULL =>
       Match(text[temp_path]) = {}

TextsArePaths == \A s \in DOMAIN text : text[s] \in Path

\* The only processor c takes its step, and it is one of ResponseCache.
LEMMA AtomicStep ==
  ASSUME NullApart, NEW c \in Cpu, \A d \in Cpu : d = c,
         Types, Types', Held(c), Held(c)', ~oops, Follows(c), TextsArePaths,
         \/ \E p \in Path : watch_in(c, p)
         \/ watch_in_copy(c) \/ watch_in_search(c) \/ watch_in_hit(c)
         \/ watch_out(c) \/ obj_create(c) \/ rb_link_node(c)
         \/ cache_update(c) /\ UNCHANGED <<text, obj_heap, obj_tree, temp_path, answer, oops>>
         \/ watch_out_clear(c)
  PROVE  Follows(c)' /\ TextsArePaths' /\ [Atomic!Next]_(Atomic!vars)
<1> DEFINE Store == {<<obj_heap[o].key, obj_heap[o].key>> : o \in obj_tree}
           Goal == Follows(c)' /\ TextsArePaths' /\ [Atomic!Next]_(Atomic!vars)
<1> USE DEF At, Goto, Idle
<1>0. \A r : cpu' = [cpu EXCEPT ![c] = r] => cpu'[c] = r
  BY DEF Types
<1>1. /\ Saved = IF temp_path # NULL /\ cpu[c].at \in {"idle", "create", "link"}
                 THEN text[temp_path] ELSE NULL
      /\ Saved' = IF temp_path' # NULL /\ cpu'[c].at \in {"idle", "create", "link"}
                  THEN text'[temp_path'] ELSE NULL
  BY DEF Saved
<1>2. \A p : p \in Atomic!Paths <=> Match(p) # {}
  <2>1. \A e \in Store : \E o \in obj_tree : e = <<obj_heap[o].key, obj_heap[o].key>>
    OBVIOUS
  <2>2. \A o \in obj_tree : <<obj_heap[o].key, obj_heap[o].key>> \in Store
    OBVIOUS
  <2>3. \A p : p \in Atomic!Paths <=> \E o \in obj_tree : obj_heap[o].key = p
    <3>1. Atomic!Paths = {e[1] : e \in Store}
      BY DEF Atomic!Paths
    <3> HIDE DEF Store
    <3>2. ASSUME NEW p, p \in Atomic!Paths PROVE \E o \in obj_tree : obj_heap[o].key = p
      BY <2>1, <3>1, <3>2
    <3>3. ASSUME NEW o \in obj_tree PROVE obj_heap[o].key \in Atomic!Paths
      <4>1. PICK e \in Store : e = <<obj_heap[o].key, obj_heap[o].key>>
        BY <2>2
      <4>2. e[1] \in Atomic!Paths
        BY <3>1
      <4>3. QED BY <4>1, <4>2
    <3>4. QED BY <3>2, <3>3
  <2>4. QED BY <2>3 DEF Match
<1>3. UNCHANGED <<obj_heap, obj_tree>> =>
        Store' = Store /\ \A p : Match(p)' = Match(p)
  BY DEF Match
<1> HIDE DEF Store
<1>4. ASSUME NEW p \in Path, watch_in(c, p) PROVE Goal
  <2>1. PICK s \in Str \ DOMAIN text, t \in Path :
          text' = Put(text, s, t) /\ temp_path' = s
    BY <1>4 DEF watch_in
  <2>2. cpu'[c] = [at |-> "copy", url |-> p]
    BY <1>0, <1>4 DEF watch_in
  <2>3. Follows(c)' /\ TextsArePaths'
    BY <1>4, <2>1, <2>2 DEF watch_in, Follows, TextsArePaths, Put
  <2>4. Atomic!GiveUp
    BY <1>1, <1>3, <1>4, <2>2 DEF watch_in, Atomic!GiveUp, Store
  <2>5. QED BY <2>3, <2>4 DEF Atomic!Next
<1>5. ASSUME watch_in_copy(c) PROVE Goal
  <2>1. temp_path # NULL /\ temp_path' = temp_path
        /\ text' = [text EXCEPT ![temp_path] = cpu[c].url]
    BY <1>5 DEF watch_in_copy, Held
  <2>2. cpu'[c] = [at |-> "search", url |-> cpu[c].url]
    BY <1>0, <1>5 DEF watch_in_copy
  <2>3. Follows(c)' /\ TextsArePaths'
    BY <1>5, <2>1, <2>2 DEF watch_in_copy, Follows, TextsArePaths
  <2>4. UNCHANGED Atomic!vars
    BY <1>1, <1>3, <1>5, <2>2 DEF watch_in_copy, Atomic!vars, Store
  <2>5. QED BY <2>3, <2>4
<1>6. ASSUME watch_in_search(c) PROVE Goal
  <2>1. /\ temp_path # NULL /\ text[temp_path] = cpu[c].url /\ cpu[c].url \in Path
        /\ answer = NULL
        /\ UNCHANGED <<text, obj_heap, obj_tree, temp_path, answer>>
    BY <1>6 DEF watch_in_search, Held, Follows
  <2>2. CASE Match(text[temp_path]) = {} /\ cpu'[c] = Idle
    <3>1. Follows(c)' /\ TextsArePaths'
      BY <1>3, <2>1, <2>2 DEF Follows, TextsArePaths
    <3>2. Atomic!Miss(cpu[c].url)
      BY <1>1, <1>2, <1>3, <2>1, <2>2 DEF Atomic!Miss, Store
    <3>3. QED BY <2>1, <3>1, <3>2 DEF Atomic!Next
  <2>3. ASSUME NEW o \in Match(text[temp_path]),
               cpu'[c] = [at |-> "hit", url |-> cpu[c].url, object |-> o]
        PROVE  Goal
    <3>1. Follows(c)' /\ TextsArePaths'
      BY <2>1, <2>3 DEF Follows, TextsArePaths, Match
    <3>2. UNCHANGED Atomic!vars
      BY <1>1, <1>3, <1>6, <2>1, <2>3 DEF watch_in_search, Atomic!vars, Store
    <3>3. QED BY <3>1, <3>2
  <2>4. \/ Match(text[temp_path]) = {} /\ cpu'[c] = Idle
        \/ \E o \in Match(text[temp_path]) :
             cpu'[c] = [at |-> "hit", url |-> cpu[c].url, object |-> o]
    BY <1>0, <1>6, <2>1 DEF watch_in_search, Held
  <2>5. QED BY <2>2, <2>3, <2>4
<1>7. ASSUME watch_in_hit(c) PROVE Goal
  <2>1. /\ answer' = <<cpu[c].url, cpu[c].url>> /\ cpu[c].url \in Path
        /\ cpu[c].object \in obj_tree /\ obj_heap[cpu[c].object].key = cpu[c].url
        /\ temp_path' = NULL /\ cpu'[c] = Idle
        /\ UNCHANGED <<text, obj_heap, obj_tree>>
    BY <1>0, <1>7 DEF watch_in_hit, Held, Follows
  <2>2. Follows(c)' /\ TextsArePaths'
    BY <2>1 DEF Follows, TextsArePaths
  <2>3. <<cpu[c].url, cpu[c].url>> \in Store
    BY <2>1 DEF Store
  <2>4. Saved' = NULL
    BY <1>1, <2>1
  <2>5. Atomic!Hit(cpu[c].url)
    BY <1>3, <2>1, <2>3, <2>4 DEF Atomic!Hit, Store
  <2>6. QED BY <2>1, <2>2, <2>5 DEF Atomic!Next
<1>8. ASSUME watch_out(c) PROVE Goal
  <2>1. /\ answer' = NULL /\ cpu[c].at = "idle"
        /\ cpu'[c] = IF temp_path = NULL THEN [at |-> "clear"]
                     ELSE [at |-> "create", path |-> temp_path]
        /\ UNCHANGED <<text, obj_heap, obj_tree, temp_path>>
    BY <1>0, <1>8 DEF watch_out
  <2>2. CASE temp_path = NULL
    <3>1. cpu'[c] = [at |-> "clear"]
      BY <2>1, <2>2
    <3>2. Follows(c)' /\ TextsArePaths'
      BY <1>3, <2>1, <3>1 DEF Follows, TextsArePaths
    <3>3. Saved' = Saved
      BY <1>1, <2>1, <2>2, <3>1
    <3>4. Atomic!Pass
      BY <1>3, <2>1, <3>3 DEF Atomic!Pass, Store
    <3>5. QED BY <3>2, <3>4 DEF Atomic!Next
  <2>3. CASE temp_path # NULL
    <3>1. cpu'[c] = [at |-> "create", path |-> temp_path]
      BY <2>1, <2>3
    <3>2. Follows(c)' /\ TextsArePaths'
      BY <1>3, <2>1, <2>3, <3>1 DEF Follows, TextsArePaths
    <3>3. Saved' = Saved
      BY <1>1, <2>1, <3>1
    <3>4. Atomic!Pass
      BY <1>3, <2>1, <3>3 DEF Atomic!Pass, Store
    <3>5. QED BY <3>2, <3>4 DEF Atomic!Next
  <2>4. QED BY <2>2, <2>3
<1>9. ASSUME obj_create(c) PROVE Goal
  <2>1. /\ temp_path # NULL /\ cpu[c].path = temp_path /\ answer = NULL
        /\ Match(text[temp_path]) = {} /\ cpu[c].at = "create"
        /\ UNCHANGED <<text, obj_tree, temp_path, answer>>
    BY <1>9 DEF obj_create, Follows
  <2>2. PICK o \in Obj \ DOMAIN obj_heap :
          /\ obj_heap' = Put(obj_heap, o, [path |-> temp_path, key |-> text[temp_path]])
          /\ cpu'[c] = [at |-> "link", object |-> o, seen |-> obj_tree]
    BY <1>0, <1>9, <2>1 DEF obj_create
  <2>3. /\ \A q \in obj_tree : obj_heap'[q] = obj_heap[q]
        /\ obj_heap'[o].key = text[temp_path]
    BY <2>2 DEF Put, Types
  <2>4. Match(text[temp_path])' = {}
    BY <2>1, <2>3 DEF Match
  <2>5. Follows(c)' /\ TextsArePaths'
    BY <2>1, <2>2, <2>3, <2>4 DEF Follows, TextsArePaths
  <2>6. Store' = Store
    BY <2>1, <2>3 DEF Store
  <2>7. Saved' = Saved
    BY <1>1, <2>1, <2>2
  <2>8. UNCHANGED Atomic!vars
    BY <2>1, <2>6, <2>7 DEF Atomic!vars, Store
  <2>9. QED BY <2>5, <2>8
<1>10. ASSUME rb_link_node(c) PROVE Goal
  <2>1. /\ cpu[c].seen = obj_tree /\ temp_path # NULL /\ answer = NULL
        /\ obj_heap[cpu[c].object].key = text[temp_path]
        /\ Match(text[temp_path]) = {} /\ cpu[c].at = "link"
        /\ UNCHANGED <<text, obj_heap, temp_path, answer>>
        /\ cpu'[c] = [at |-> "used"]
    BY <1>0, <1>10 DEF rb_link_node, Follows, Held
  <2>2. obj_tree' = obj_tree \cup {cpu[c].object}
    BY <1>10, <2>1 DEF rb_link_node, InTheWay
  <2>3. Follows(c)' /\ TextsArePaths'
    BY <2>1 DEF Follows, TextsArePaths
  <2>4. temp_path \in DOMAIN text /\ text[temp_path] \in Path
    BY <2>1 DEF Types, TextsArePaths
  <2>5. Store' = Store \cup {<<text[temp_path], text[temp_path]>>}
    BY <2>1, <2>2 DEF Store
  <2>6. Saved = text[temp_path] /\ Saved' = NULL /\ Saved # NULL
    BY <1>1, <2>1, <2>4 DEF NullApart
  <2>7. Saved \notin Atomic!Paths
    BY <1>2, <2>1, <2>6
  <2>8. PICK t \in Path : t = text[temp_path]
    BY <2>4
  <2>9. Atomic!Fill(t)
    BY <2>1, <2>5, <2>6, <2>7, <2>8 DEF Atomic!Fill, Store
  <2>10. QED BY <2>3, <2>9 DEF Atomic!Next
<1>11. ASSUME cache_update(c), UNCHANGED <<text, obj_heap, obj_tree, temp_path, answer, oops>>
       PROVE  Goal
  <2>1. /\ cpu[c].at \in {"used", "count", "counted", "space"}
        /\ cpu'[c].at \in {"count", "counted", "space", "clear"}
    BY <1>0, <1>11 DEF cache_update
  <2>2. Follows(c)' /\ TextsArePaths'
    BY <1>11, <2>1 DEF Follows, TextsArePaths
  <2>3. Saved' = Saved
    BY <1>1, <2>1
  <2>4. UNCHANGED Atomic!vars
    BY <1>3, <1>11, <2>3 DEF Atomic!vars, Store
  <2>5. QED BY <2>2, <2>4
<1>12. ASSUME watch_out_clear(c) PROVE Goal
  <2>1. /\ cpu[c].at = "clear" /\ cpu'[c] = Idle /\ temp_path' = NULL
        /\ answer' = answer /\ UNCHANGED <<text, obj_heap, obj_tree>>
    BY <1>0, <1>12 DEF watch_out_clear
  <2>2. Follows(c)' /\ TextsArePaths'
    BY <2>1 DEF Follows, TextsArePaths
  <2>3. Saved = NULL /\ Saved' = NULL
    BY <1>1, <2>1
  <2>4. UNCHANGED Atomic!vars
    BY <1>3, <2>1, <2>3 DEF Atomic!vars, Store
  <2>5. QED BY <2>2, <2>4
<1>13. QED
  BY <1>4, <1>5, <1>6, <1>7, <1>8, <1>9, <1>10, <1>11, <1>12

AtomicInv == TextsArePaths /\ \A c \in Cpu : Follows(c)

\* On one processor a hook is as good as one step: the hooks implement
\* ResponseCache without a lock, as WcacheHooks has them.
THEOREM OneProcessorAtomic ==
  ASSUME NullApart, \A c, d \in Cpu : c = d
  PROVE  SmpSpec => HooksAtomic
<1>1. SmpInit => AtomicInv /\ Atomic!Init
  <2>1. ASSUME SmpInit PROVE AtomicInv
    BY <2>1 DEF SmpInit, AtomicInv, TextsArePaths, Follows, Idle
  <2>2. ASSUME SmpInit PROVE Atomic!Init
    BY <2>2 DEF SmpInit, Atomic!Init, Saved
  <2>3. QED BY <2>1, <2>2
<1>2. ASSUME SmpInv, SmpInv', AtomicInv, [SmpNext]_smpVars
      PROVE  AtomicInv' /\ [Atomic!Next]_(Atomic!vars)
  <2>1. CASE UNCHANGED smpVars
    <3>1. AtomicInv'
      BY <1>2, <2>1 DEF AtomicInv, smpVars, TextsArePaths, Follows, Match
    <3>2. UNCHANGED Atomic!vars
      BY <2>1 DEF smpVars, Atomic!vars, Saved
    <3>3. QED BY <3>1, <3>2
  <2>2. CASE SmpNext
    <3>1. PICK c \in Cpu :
            \/ \E p \in Path : watch_in(c, p)
            \/ watch_in_copy(c) \/ watch_in_search(c) \/ watch_in_hit(c)
            \/ watch_out(c) \/ obj_create(c) \/ rb_link_node(c)
            \/ cache_update(c) /\ UNCHANGED <<text, obj_heap, obj_tree, temp_path, answer, oops>>
            \/ watch_out_clear(c)
      BY <2>2 DEF SmpNext
    <3>2. Held(c) /\ Held(c)' /\ Types /\ Types' /\ ~oops
      BY <1>2 DEF SmpInv
    <3>3. Follows(c) /\ TextsArePaths
      BY <1>2 DEF AtomicInv
    <3>4. Follows(c)' /\ TextsArePaths' /\ [Atomic!Next]_(Atomic!vars)
      BY <3>1, <3>2, <3>3, AtomicStep
    <3>5. QED BY <3>4 DEF AtomicInv
  <2>3. QED BY <1>2, <2>1, <2>2
<1>3. SmpSpec => []SmpInv
  BY OneProcessorInvariant
<1>4. QED
  BY <1>1, <1>2, <1>3, PTL DEF SmpSpec, HooksAtomic, Atomic!Spec
=============================================================================
