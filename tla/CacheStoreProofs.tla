-------------------------- MODULE CacheStoreProofs --------------------------
(***************************************************************************)
(* Theorems about the store of CacheStore, and about the same store with   *)
(* the replacement of LruStore, for every value of their constants: types, *)
(* the exactness of the counters and the uniqueness of the keys, whatever  *)
(* sequence of operations the store goes through; that tree_delete empties *)
(* the tree; and that the replacement evicts the least recently used.      *)
(***************************************************************************)
EXTENDS LruStore, FiniteSetTheorems, WellFoundedInduction, TLAPS

-----------------------------------------------------------------------------
\* Arithmetic modulo the width of size_t.

\* The division theorem, as the provers know it.
LEMMA DivMod ==
  ASSUME NEW a \in Int, NEW m \in Nat \ {0}
  PROVE  /\ a = m * (a \div m) + (a % m)
         /\ a \div m \in Int
         /\ a % m \in 0..(m - 1)
  OBVIOUS

\* Zero is the only multiple of m nearer to zero than m.
LEMMA SmallMultiple ==
  ASSUME NEW m \in Nat \ {0}, NEW d \in Int, m * d < m, -m < m * d
  PROVE  d = 0
<1>1. CASE d >= 1
  <2>1. PICK e \in Nat : d = 1 + e BY <1>1
  <2>2. m * d = m + m * e /\ m * e \in Nat BY <2>1
  <2>3. QED BY <2>2
<1>2. CASE d <= -1
  <2>1. PICK e \in Nat : d = -1 - e BY <1>2
  <2>2. m * d = -m - m * e /\ m * e \in Nat BY <2>1
  <2>3. QED BY <2>2
<1>3. QED BY <1>1, <1>2

\* A multiple of m added to a number does not change its remainder.
LEMMA ModShift ==
  ASSUME NEW m \in Nat \ {0}, NEW k \in Int, NEW x \in Int
  PROVE  (m * k + x) % m = x % m
<1> DEFINE y == m * k + x
           d == k + (x \div m) - (y \div m)
<1>1. y \in Int OBVIOUS
<1>2. x = m * (x \div m) + (x % m) /\ x \div m \in Int /\ x % m \in 0..(m - 1)
  BY DivMod
<1>3. y = m * (y \div m) + (y % m) /\ y \div m \in Int /\ y % m \in 0..(m - 1)
  BY DivMod, <1>1
<1>4. d \in Int BY <1>2, <1>3
<1>5. m * d = m * k + m * (x \div m) - m * (y \div m)
  BY <1>2, <1>3
<1>6. m * d = (y % m) - (x % m)
  <2>1. m * k \in Int /\ m * (x \div m) \in Int /\ m * (y \div m) \in Int
    BY <1>2, <1>3
  <2>2. m * k + x = m * (y \div m) + (y % m)
    BY <1>3
  <2>3. m * k + m * (x \div m) - m * (y \div m) = (y % m) - (x % m)
    <3> DEFINE A == m * k  B == m * (x \div m)  C == m * (y \div m)
               rx == x % m  ry == y % m
    <3>1. A \in Int /\ B \in Int /\ C \in Int /\ rx \in Int /\ ry \in Int
      BY <2>1, <1>2, <1>3
    <3>2. x = B + rx /\ A + x = C + ry
      BY <2>2, <1>2
    <3> HIDE DEF A, B, C, rx, ry
    <3>3. A + B - C = ry - rx
      BY <3>1, <3>2
    <3> QED BY <3>3 DEF A, B, C, rx, ry
  <2>4. QED BY <2>3, <1>5
<1>7. m * d < m /\ -m < m * d
  BY <1>2, <1>3, <1>6
<1>8. d = 0
  BY <1>4, <1>7, SmallMultiple
<1>9. QED BY <1>2, <1>3, <1>6, <1>8

\* A sum may be reduced before it is complete: what lets used_space wrap and
\* still come out right.
LEMMA ModAdd ==
  ASSUME NEW a \in Int, NEW s \in Int, NEW m \in Nat \ {0}
  PROVE  ((a % m) + s) % m = (a + s) % m
<1> DEFINE r == a % m  b == r + s  k == a \div m
<1>1. a = m * k + r /\ r \in Int /\ k \in Int BY DivMod
<1>2. b \in Int BY <1>1
<1>3. a + s = m * k + b
  <2> DEFINE mk == m * k
  <2>1. mk \in Int BY <1>1
  <2>2. a = mk + r /\ r \in Int BY <1>1
  <2> HIDE DEF mk, r
  <2>3. a + s = mk + b BY <2>1, <2>2
  <2>4. QED BY <2>3 DEF mk
<1> HIDE DEF b, k
<1>4. (m * k + b) % m = b % m BY <1>1, <1>2, ModShift, ZenonT(30)
<1>5. QED BY <1>3, <1>4 DEF b

\* A number below m is its own remainder.
LEMMA ModSmall ==
  ASSUME NEW m \in Nat \ {0}, NEW x \in 0..(m - 1)
  PROVE  x % m = x
<1>1. x = m * (x \div m) + (x % m) /\ x \div m \in Int /\ x % m \in 0..(m - 1)
  BY DivMod
<1>2. m * (x \div m) < m /\ -m < m * (x \div m)
  <2> DEFINE r == x % m  k == m * (x \div m)
  <2>1. k \in Int /\ r \in 0..(m - 1) /\ x = k + r
    BY <1>1
  <2> HIDE DEF r, k
  <2>2. k < m /\ -m < k BY <2>1
  <2>3. QED BY <2>2 DEF k
<1>3. x \div m = 0 BY <1>1, <1>2, SmallMultiple
<1>4. QED BY <1>1, <1>3

-----------------------------------------------------------------------------
\* Finite sets of bytes.

\* The bytes of one object are as many as its size says.
LEMMA OneObject ==
  ASSUME NEW o, NEW n \in Nat
  PROVE  /\ IsFiniteSet({o} \X (1..n))
         /\ Cardinality({o} \X (1..n)) = n
<1>1. IsFiniteSet({o}) /\ Cardinality({o}) = 1 BY FS_Singleton
<1>2. IsFiniteSet(1..n) /\ Cardinality(1..n) = n BY FS_Interval
<1>3. /\ IsFiniteSet({o} \X (1..n))
      /\ Cardinality({o} \X (1..n)) = Cardinality({o}) * Cardinality(1..n)
  BY <1>1, <1>2, FS_Product
<1>4. QED BY <1>1, <1>2, <1>3

LEMMA AddBytes ==
  ASSUME NEW B, IsFiniteSet(B), NEW D, IsFiniteSet(D), B \cap D = {}
  PROVE  /\ IsFiniteSet(B \cup D)
         /\ Cardinality(B \cup D) = Cardinality(B) + Cardinality(D)
<1>1. Cardinality(B \cap D) = 0 BY FS_EmptySet
<1>2. Cardinality(B) \in Nat /\ Cardinality(D) \in Nat BY FS_CardinalityType
<1>3. /\ IsFiniteSet(B \cup D)
      /\ Cardinality(B \cup D)
           = Cardinality(B) + Cardinality(D) - Cardinality(B \cap D)
  BY FS_Union
<1>4. QED BY <1>1, <1>2, <1>3

LEMMA RemoveBytes ==
  ASSUME NEW B, IsFiniteSet(B), NEW D, D \subseteq B
  PROVE  /\ IsFiniteSet(B \ D)
         /\ Cardinality(B \ D) = Cardinality(B) - Cardinality(D)
<1>1. B \cap D = D OBVIOUS
<1>2. QED BY <1>1, FS_Difference

-----------------------------------------------------------------------------
\* The part of the inductive invariant that every operation of the store
\* keeps, whoever calls it.

\* Each cached object has strings of its own.
Private ==
  \A o \in Counted :
    /\ StringsOf(o) \subseteq DOMAIN str_heap
    /\ \A q \in Counted : o # q => StringsOf(o) \cap StringsOf(q) = {}

StoreInv ==
  /\ StoreTypeOK
  /\ IsFiniteSet(CachedBytes)
  /\ AccountingExact
  /\ TreeConsistent
  /\ Private

\* A step that leaves the linked objects and their strings alone.
StringsKept ==
  \A q \in Counted : \A x \in StringsOf(q) :
    x \in DOMAIN str_heap' /\ str_heap'[x] = str_heap[x]

ObjectKept(q) ==
  /\ q \in DOMAIN obj_heap'
  /\ obj_heap'[q].name = obj_heap[q].name
  /\ obj_heap'[q].path = obj_heap[q].path
  /\ obj_heap'[q].key  = obj_heap[q].key
  /\ obj_heap'[q].size = obj_heap[q].size

LEMMA StableStore ==
  ASSUME StoreInv, Counted = obj_tree, StoreTypeOK', StringsKept,
         \A q \in obj_tree : ObjectKept(q),
         obj_tree' = obj_tree, UNCHANGED counterVars
  PROVE  StoreInv' /\ Counted' = obj_tree'
<1>1. Counted' = obj_tree
  BY DEF Counted, Readable, StringsKept, ObjectKept, StringsOf
<1>2. \A q \in obj_tree : Text(q)' = Text(q) /\ StringsOf(q)' = StringsOf(q)
                          /\ BytesOf(q)' = BytesOf(q)
  BY DEF Text, StringsOf, BytesOf, StringsKept, ObjectKept
<1>3. CachedBytes' = CachedBytes
  BY <1>1, <1>2 DEF CachedBytes
<1>4. AccountingExact' /\ IsFiniteSet(CachedBytes)'
  BY <1>1, <1>3 DEF StoreInv, AccountingExact, counterVars
<1>5. TreeConsistent'
  BY <1>1, <1>2 DEF StoreInv, TreeConsistent, ObjectKept
<1>6. Private'
  BY <1>1, <1>2 DEF StoreInv, Private, StringsKept
<1>7. QED BY <1>1, <1>4, <1>5, <1>6 DEF StoreInv

\* node_insert of a new object with strings of its own under a new key.
LEMMA LinkedStore ==
  ASSUME StoreAssumption, StoreInv, Counted = obj_tree, StoreTypeOK',
         StringsKept, \A q \in obj_tree : ObjectKept(q),
         NEW o, o \notin DOMAIN obj_heap, obj_tree' = obj_tree \cup {o},
         StringsOf(o)' \subseteq DOMAIN str_heap',
         Text(o)' = obj_heap'[o].key, Match(obj_heap'[o].key) = {},
         \A q \in obj_tree : StringsOf(o)' \cap StringsOf(q) = {},
         cache_update("ADD", obj_heap'[o].size)
  PROVE  StoreInv' /\ Counted' = obj_tree'
<1> DEFINE n == obj_heap'[o].size
<1>1. Counted' = obj_tree \cup {o}
  BY DEF Counted, Readable, StringsKept, ObjectKept, StringsOf
<1>2. \A q \in obj_tree : Text(q)' = Text(q) /\ StringsOf(q)' = StringsOf(q)
                          /\ BytesOf(q)' = BytesOf(q)
  BY DEF Text, StringsOf, BytesOf, StringsKept, ObjectKept
<1>3. o \notin obj_tree
  BY DEF StoreInv, StoreTypeOK
<1>4. n \in Nat
  BY DEF StoreTypeOK, Object, StoreAssumption
<1>5. CachedBytes' = CachedBytes \cup BytesOf(o)'
  BY <1>1, <1>2 DEF CachedBytes
<1>6. CachedBytes \cap BytesOf(o)' = {}
  BY <1>3 DEF CachedBytes, BytesOf
<1>7. IsFiniteSet(BytesOf(o)') /\ Cardinality(BytesOf(o)') = n
  BY <1>4, OneObject DEF BytesOf
<1>8. /\ IsFiniteSet(CachedBytes')
      /\ Cardinality(CachedBytes') = Cardinality(CachedBytes) + n
  BY <1>5, <1>6, <1>7, AddBytes DEF StoreInv
<1>9. AccountingExact'
  <2>1. Cardinality(Counted') = Cardinality(Counted) + 1
    BY <1>1, <1>3, FS_AddElement DEF StoreInv, StoreTypeOK
  <2>2. used_space' = Cardinality(CachedBytes') % SizeT
    <3> DEFINE c == Cardinality(CachedBytes)
    <3>1. used_space' = ((c % SizeT) + n) % SizeT
      BY DEF cache_update, StoreInv, AccountingExact
    <3>2. c \in Int /\ n \in Int /\ SizeT \in Nat \ {0}
      BY <1>4, FS_CardinalityType DEF StoreInv, StoreAssumption
    <3> HIDE DEF c, n
    <3>3. ((c % SizeT) + n) % SizeT = (c + n) % SizeT
      BY <3>2, ModAdd, ZenonT(30)
    <3>4. QED BY <1>8, <3>1, <3>3 DEF c, n
  <2>3. QED BY <2>1, <2>2 DEF cache_update, StoreInv, AccountingExact
<1>10. TreeConsistent'
  BY <1>1, <1>2 DEF StoreInv, TreeConsistent, ObjectKept, Match
<1>11. Private'
  BY <1>1, <1>2 DEF StoreInv, Private, StringsKept
<1>12. QED BY <1>1, <1>8, <1>9, <1>10, <1>11 DEF StoreInv

\* node_delete up to its kfrees.
LEMMA ReleasedStore ==
  ASSUME StoreAssumption, StoreInv, Counted = obj_tree, StoreTypeOK',
         NEW o \in Counted, Release(o),
         obj_tree' \in {obj_tree, obj_tree \ {o}},
         \A q \in obj_tree' : ObjectKept(q)
  PROVE  StoreInv' /\ Counted' = obj_tree \ {o}
<1> DEFINE n == obj_heap[o].size
<1>1. DOMAIN str_heap' = DOMAIN str_heap \ StringsOf(o)
  BY DEF Release, kfree
<1>2. \A q \in obj_tree' : StringsOf(q)' = StringsOf(q) /\ BytesOf(q)' = BytesOf(q)
  BY DEF StringsOf, BytesOf, ObjectKept
<1>3. Counted' = obj_tree \ {o}
  <2>1. obj_heap[o].path \notin DOMAIN str_heap'
    BY <1>1 DEF StringsOf
  <2>2. \A q \in obj_tree \ {o} : obj_heap[q].path \in DOMAIN str_heap'
    BY <1>1 DEF StoreInv, Private, StringsOf
  <2>3. \A q \in obj_tree' : Readable(q)' <=> obj_heap[q].path \in DOMAIN str_heap'
    BY DEF Readable, ObjectKept
  <2>4. QED BY <2>1, <2>2, <2>3 DEF Counted
<1>4. \A q \in obj_tree \ {o} : \A x \in StringsOf(q) :
        x \in DOMAIN str_heap' /\ str_heap'[x] = str_heap[x]
  BY DEF Release, kfree, StoreInv, Private
<1>5. \A q \in obj_tree \ {o} : Text(q)' = Text(q)
  BY <1>4 DEF Text, StringsOf, ObjectKept
<1>6. n \in Nat
  BY DEF StoreInv, StoreTypeOK, Object, StoreAssumption
<1>7. CachedBytes' = CachedBytes \ BytesOf(o)
  BY <1>2, <1>3 DEF CachedBytes, BytesOf
<1>8. BytesOf(o) \subseteq CachedBytes
  BY DEF CachedBytes
<1>9. IsFiniteSet(BytesOf(o)) /\ Cardinality(BytesOf(o)) = n
  BY <1>6, OneObject DEF BytesOf
<1>10. /\ IsFiniteSet(CachedBytes')
       /\ Cardinality(CachedBytes') = Cardinality(CachedBytes) - n
  BY <1>7, <1>8, <1>9, RemoveBytes DEF StoreInv
<1>11. AccountingExact'
  <2>1. Cardinality(Counted') = Cardinality(Counted) - 1
    BY <1>3, FS_RemoveElement DEF StoreInv, StoreTypeOK
  <2>2. used_space' = Cardinality(CachedBytes') % SizeT
    <3> DEFINE c == Cardinality(CachedBytes)  d == 0 - n
    <3>1. used_space' = ((c % SizeT) - n) % SizeT
      BY DEF Release, cache_update, StoreInv, AccountingExact
    <3>2. c \in Int /\ n \in Int /\ d \in Int /\ SizeT \in Nat \ {0}
      BY <1>6, FS_CardinalityType DEF StoreInv, StoreAssumption
    <3>3. c % SizeT \in Int
      BY <3>2, DivMod
    <3>4. (c % SizeT) - n = (c % SizeT) + d /\ c - n = c + d
      BY <3>2, <3>3
    <3> HIDE DEF c, n, d
    <3>5. ((c % SizeT) + d) % SizeT = (c + d) % SizeT
      BY <3>2, ModAdd, ZenonT(30)
    <3>6. Cardinality(CachedBytes') = c - n
      BY <1>10 DEF c
    <3>7. QED BY <3>1, <3>4, <3>5, <3>6
  <2>3. QED BY <2>1, <2>2 DEF Release, cache_update, StoreInv, AccountingExact
<1>12. TreeConsistent'
  BY <1>3, <1>5 DEF StoreInv, TreeConsistent, ObjectKept
<1>13. Private'
  BY <1>2, <1>3, <1>4 DEF StoreInv, Private
<1>14. QED BY <1>3, <1>10, <1>11, <1>12, <1>13 DEF StoreInv

\* The rest of node_delete.
LEMMA ErasedStore ==
  ASSUME StoreInv, NEW o \in obj_tree, Counted = obj_tree \ {o}, StoreTypeOK',
         Erase(o), UNCHANGED <<str_heap, counterVars>>
  PROVE  StoreInv' /\ Counted' = obj_tree'
<1>1. \A q \in Counted : /\ ObjectKept(q) /\ Text(q)' = Text(q)
                         /\ StringsOf(q)' = StringsOf(q)
                         /\ BytesOf(q)' = BytesOf(q)
  BY DEF Erase, kfree, ObjectKept, Text, StringsOf, BytesOf, StoreInv, StoreTypeOK
<1>2. Counted' = Counted
  BY <1>1 DEF Counted, Readable, Erase, ObjectKept
<1>3. CachedBytes' = CachedBytes
  BY <1>1, <1>2 DEF CachedBytes
<1>4. AccountingExact' /\ IsFiniteSet(CachedBytes)'
  BY <1>2, <1>3 DEF StoreInv, AccountingExact, counterVars
<1>5. TreeConsistent'
  BY <1>1, <1>2 DEF StoreInv, TreeConsistent, ObjectKept
<1>6. Private'
  BY <1>1, <1>2 DEF StoreInv, Private
<1>7. QED BY <1>2, <1>4, <1>5, <1>6 DEF StoreInv, Erase

-----------------------------------------------------------------------------
\* What the fragments do to the types.

LEMMA cache_updateType ==
  ASSUME StoreAssumption, used_space \in Int, obj_count \in Int,
         NEW argc, NEW size \in Nat, cache_update(argc, size)
  PROVE  /\ used_space' \in 0..(SizeT - 1)
         /\ free_space' \in 0..(SizeT - 1)
         /\ obj_count' \in Int
<1> DEFINE sum == IF argc = "ADD" THEN used_space + size ELSE used_space - size
<1>1. sum \in Int /\ SizeT \in Nat \ {0}
  BY DEF StoreAssumption
<1>2. used_space' = sum % SizeT
  BY DEF cache_update
<1> HIDE DEF sum
<1>3. used_space' \in 0..(SizeT - 1)
  BY <1>1, <1>2, DivMod
<1>4. CACHE_SIZE - used_space' \in Int
  BY <1>1, <1>3 DEF StoreAssumption
<1>5. free_space' \in 0..(SizeT - 1)
  BY <1>1, <1>4, DivMod DEF cache_update
<1>6. QED BY <1>3, <1>5 DEF cache_update

\* obj_create keeps the invariant, be its path taken or not, for a caller that
\* hands over strings no cached object has.
LEMMA CreatedStore ==
  ASSUME StoreAssumption, StoreInv, Counted = obj_tree,
         NEW n \in Str, NEW s \in Str, NEW p \in Path,
         NEW data \in Body, NEW size \in Size,
         obj_create(n, data, size, s, p), StringsKept,
         DOMAIN str_heap' \subseteq Str,
         str_heap' \in [DOMAIN str_heap' -> Path],
         {n, s} \subseteq DOMAIN str_heap', str_heap'[s] = p,
         \A q \in obj_tree : {n, s} \cap StringsOf(q) = {},
         UNCHANGED <<temp_object, jiffies, node>>
  PROVE  StoreInv' /\ Counted' = obj_tree'
<1> DEFINE rec == [name |-> n, path |-> s, key |-> p, size |-> size,
                   time |-> jiffies, body |-> data]
<1>1. rec \in Object
  BY DEF Object, StoreInv, StoreTypeOK
<1>2. PICK o \in Obj \ DOMAIN obj_heap :
        obj_heap' = kmalloc(obj_heap, o, rec) /\ node_insert(o, p, size)
  BY DEF obj_create
<1> HIDE DEF rec
<1>3. /\ DOMAIN obj_heap' = DOMAIN obj_heap \cup {o}
      /\ obj_heap' \in [DOMAIN obj_heap' -> Object]
      /\ obj_heap'[o] = rec
      /\ \A y \in DOMAIN obj_heap : obj_heap'[y] = obj_heap[y]
  <2>1. obj_heap \in [DOMAIN obj_heap -> Object]
    BY DEF StoreInv, StoreTypeOK
  <2>2. o \notin DOMAIN obj_heap /\ obj_heap' = kmalloc(obj_heap, o, rec)
    BY <1>2
  <2>3. QED BY <1>1, <2>1, <2>2 DEF kmalloc
<1>4. \A q \in obj_tree : ObjectKept(q)
  BY <1>3 DEF ObjectKept, StoreInv, StoreTypeOK
<1>5. fault' \in Fault
  BY DEF obj_create, StoreInv, StoreTypeOK
<1>6. CASE Match(p) # {}
  <2>1. UNCHANGED <<obj_tree, counterVars>>
    BY <1>2, <1>6 DEF node_insert
  <2>2. StoreTypeOK'
    BY <1>3, <1>5, <2>1 DEF StoreInv, StoreTypeOK, counterVars
  <2>3. QED BY <1>4, <2>1, <2>2, StableStore
<1>7. CASE Match(p) = {}
  <2>1. obj_tree' = obj_tree \cup {o} /\ cache_update("ADD", size)
    BY <1>2, <1>7 DEF node_insert
  <2>2. IsFiniteSet(obj_tree')
    BY <2>1, FS_AddElement DEF StoreInv, StoreTypeOK
  <2>3. /\ used_space' \in 0..(SizeT - 1)
        /\ free_space' \in 0..(SizeT - 1)
        /\ obj_count' \in Int
    BY <2>1, cache_updateType DEF StoreInv, StoreTypeOK, StoreAssumption
  <2>4. StoreTypeOK'
    BY <1>3, <1>5, <2>1, <2>2, <2>3 DEF StoreInv, StoreTypeOK
  <2>5. /\ rec.size = size /\ rec.key = p /\ rec.path = s /\ rec.name = n
    BY DEF rec
  <2>6. /\ StringsOf(o)' = {n, s}
        /\ Text(o)' = p
    BY <1>3, <2>5 DEF StringsOf, Text
  <2>7. QED
    BY <1>3, <1>4, <1>7, <2>1, <2>4, <2>5, <2>6, LinkedStore
<1>8. QED BY <1>6, <1>7

\* The types that Release and Erase keep.
LEMMA ReleaseType ==
  ASSUME StoreAssumption, StoreTypeOK, NEW o \in DOMAIN obj_heap, Release(o)
  PROVE  /\ used_space' \in 0..(SizeT - 1)
         /\ free_space' \in 0..(SizeT - 1)
         /\ obj_count' \in Int
         /\ DOMAIN str_heap' \subseteq Str
         /\ str_heap' \in [DOMAIN str_heap' -> Path]
         /\ fault' \in Fault
<1>1. obj_heap[o].size \in Nat
  BY DEF StoreTypeOK, Object, StoreAssumption
<1>2. /\ used_space' \in 0..(SizeT - 1)
      /\ free_space' \in 0..(SizeT - 1)
      /\ obj_count' \in Int
  BY <1>1, cache_updateType DEF Release, StoreTypeOK, StoreAssumption
<1>3. DOMAIN str_heap' \subseteq Str /\ str_heap' \in [DOMAIN str_heap' -> Path]
  BY DEF Release, kfree, StoreTypeOK
<1>4. fault' \in Fault
  BY DEF Release, FirstFault, Fault, StoreTypeOK
<1>5. QED BY <1>2, <1>3, <1>4

LEMMA EraseType ==
  ASSUME StoreTypeOK, NEW o, Erase(o)
  PROVE  /\ DOMAIN obj_heap' \subseteq Obj
         /\ obj_heap' \in [DOMAIN obj_heap' -> Object]
         /\ obj_tree' \subseteq DOMAIN obj_heap'
         /\ IsFiniteSet(obj_tree')
         /\ \A q \in obj_tree' : ObjectKept(q)
<1>1. /\ DOMAIN obj_heap' = DOMAIN obj_heap \ {o}
      /\ obj_heap' \in [DOMAIN obj_heap' -> Object]
      /\ \A q \in DOMAIN obj_heap' : obj_heap'[q] = obj_heap[q]
  BY DEF Erase, kfree, StoreTypeOK
<1>2. IsFiniteSet(obj_tree')
  BY FS_RemoveElement DEF Erase, StoreTypeOK
<1>3. QED BY <1>1, <1>2 DEF Erase, StoreTypeOK, ObjectKept

-----------------------------------------------------------------------------
\* The invariant of the walk of tree_delete: between the two steps of its
\* loop, and only then, one linked object has lost its strings.

Walk ==
  /\ pc # "erase" => Counted = obj_tree
  /\ pc = "tree_delete" => node \in obj_tree \cup {NULL}
  /\ pc = "erase" => node \in obj_tree /\ Counted = obj_tree \ {node}

SInv == StoreInv /\ Walk

\* Every set of naturals has a least element.
LEMMA LeastNat ==
  ASSUME NEW T \in SUBSET Nat, T # {}
  PROVE  \E x \in T : \A y \in T : x <= y
<1> DEFINE R == {p \in Nat \X Nat : p[1] < p[2]}
<1>1. R = OpToRel(<, Nat)
  BY DEF OpToRel
<1>2. IsWellFoundedOn(R, Nat)
  BY <1>1, NatLessThanWellFounded
<1>3. PICK x \in T : \A y \in T : ~(<<y, x>> \in R)
  BY <1>2, WFMin
<1>4. ASSUME NEW y \in T, ~(x <= y) PROVE FALSE
  <2>1. x \in Nat /\ y \in Nat /\ y < x BY <1>4
  <2>2. <<y, x>> \in R BY <2>1
  <2>3. QED BY <1>3, <2>2
<1>5. QED BY <1>4

\* The tree has a first node wherever one looks.
LEMMA FirstIsLeast ==
  ASSUME StoreAssumption, StoreTypeOK, NEW S \in SUBSET obj_tree
  PROVE  /\ S = {} => First(S) = NULL
         /\ S # {} => /\ First(S) \in S
                     /\ \A q \in S : obj_heap[First(S)].key <= obj_heap[q].key
<1>1. CASE S = {} BY <1>1 DEF First
<1>2. CASE S # {}
  <2> DEFINE K == {obj_heap[q].key : q \in S}
  <2>1. K \in SUBSET Nat /\ K # {}
    BY <1>2 DEF StoreTypeOK, Object, StoreAssumption
  <2>2. PICK k \in K : \A j \in K : k <= j
    BY <2>1, LeastNat
  <2>3. PICK o \in S : obj_heap[o].key = k
    OBVIOUS
  <2>4. \A q \in S : obj_heap[o].key <= obj_heap[q].key
    BY <2>2, <2>3
  <2>5. QED BY <1>2, <2>4 DEF First
<1>3. QED BY <1>1, <1>2

\* node_search finds every cached object by its own path.
LEMMA SearchFinds ==
  ASSUME TreeConsistent, NEW o \in Counted
  PROVE  node_search(Text(o)) = o
<1>1. Match(Text(o)) = {o}
  BY DEF Match, TreeConsistent
<1>2. QED BY <1>1 DEF node_search

LEMMA SearchReturns ==
  ASSUME NEW p, node_search(p) # NULL
  PROVE  node_search(p) \in Match(p)
  BY DEF node_search

\* The steps of tree_delete keep the invariant, wherever the loop is called.
LEMMA BeginKept ==
  ASSUME StoreAssumption, SInv, NEW from, from # "erase", tree_delete_begin(from)
  PROVE  SInv'
<1>1. node' \in obj_tree \cup {NULL}
  BY FirstIsLeast DEF tree_delete_begin, rb_first, SInv, StoreInv
<1>2. Counted = obj_tree
  BY DEF tree_delete_begin, SInv, Walk
<1>3. StoreTypeOK'
  BY <1>1 DEF tree_delete_begin, heapVars, counterVars, SInv, StoreInv, StoreTypeOK
<1>4. StringsKept /\ \A q \in obj_tree : ObjectKept(q)
  BY <1>2 DEF StringsKept, ObjectKept, tree_delete_begin, heapVars, SInv,
              StoreInv, StoreTypeOK, Private
<1>5. StoreInv' /\ Counted' = obj_tree'
  BY <1>2, <1>3, <1>4, StableStore DEF tree_delete_begin, SInv
<1>6. QED BY <1>1, <1>5 DEF SInv, Walk, tree_delete_begin

LEMMA ReleaseKept ==
  ASSUME StoreAssumption, SInv, tree_delete_release
  PROVE  SInv'
<1>1. node \in Counted /\ Counted = obj_tree
  BY DEF tree_delete_release, SInv, Walk
<1>2. Release(node)
  BY <1>1, SearchFinds DEF tree_delete_release, SInv, StoreInv
<1>3. StoreTypeOK'
  BY <1>1, <1>2, ReleaseType DEF tree_delete_release, SInv, StoreInv, StoreTypeOK
<1>4. \A q \in obj_tree' : ObjectKept(q)
  BY DEF tree_delete_release, ObjectKept, SInv, StoreInv, StoreTypeOK
<1>5. StoreInv' /\ Counted' = obj_tree \ {node}
  BY <1>1, <1>2, <1>3, <1>4, ReleasedStore DEF tree_delete_release, SInv
<1>6. QED BY <1>1, <1>5 DEF SInv, Walk, tree_delete_release

LEMMA EraseKept ==
  ASSUME StoreAssumption, SInv, tree_delete_erase
  PROVE  SInv'
<1>1. node \in obj_tree /\ Counted = obj_tree \ {node} /\ Erase(node)
  BY DEF tree_delete_erase, SInv, Walk
<1>2. node' \in (obj_tree \ {node}) \cup {NULL}
  <2>1. rb_next(node) \in (obj_tree \ {node}) \cup {NULL}
    <3> DEFINE S == {q \in obj_tree : obj_heap[q].key > obj_heap[node].key}
    <3>1. obj_heap[node].key \in Nat
      BY <1>1 DEF SInv, StoreInv, StoreTypeOK, Object, StoreAssumption
    <3>2. node \notin S BY <3>1
    <3>3. First(S) \in S \cup {NULL}
      BY FirstIsLeast DEF SInv, StoreInv
    <3>4. QED BY <3>2, <3>3 DEF rb_next
  <2>2. QED BY <2>1 DEF tree_delete_erase
<1>3. fault' \in Fault
  BY DEF tree_delete_erase, FirstFault, Fault, SInv, StoreInv, StoreTypeOK
<1>4. StoreTypeOK'
  BY <1>1, <1>2, <1>3, EraseType
     DEF tree_delete_erase, counterVars, SInv, StoreInv, StoreTypeOK
<1>5. StoreInv' /\ Counted' = obj_tree'
  BY <1>1, <1>4, ErasedStore DEF tree_delete_erase, SInv
<1>6. QED BY <1>1, <1>2, <1>5 DEF SInv, Walk, Erase, tree_delete_erase

\* Steps that touch no object but the times of access.
LEMMA QuietKept ==
  ASSUME SInv, pc # "erase", pc' # "erase", StoreTypeOK',
         pc' = "tree_delete" => pc = "tree_delete" /\ node' = node,
         \A q \in obj_tree : ObjectKept(q), StringsKept,
         UNCHANGED <<obj_tree, counterVars>>
  PROVE  SInv'
<1>1. Counted = obj_tree
  BY DEF SInv, Walk
<1>2. StoreInv' /\ Counted' = obj_tree'
  BY <1>1, StableStore DEF SInv
<1>3. QED BY <1>2 DEF SInv, Walk

\* Steps that change nothing of the store.
LEMMA IdleKept ==
  ASSUME SInv, pc # "erase", pc' # "erase",
         pc' = "tree_delete" => pc = "tree_delete",
         fault' \in Fault, jiffies' \in 0..MaxJiffies,
         UNCHANGED <<heapVars, obj_tree, counterVars, temp_object, node>>
  PROVE  SInv'
<1>1. StringsKept /\ \A q \in obj_tree : ObjectKept(q)
  BY DEF StringsKept, ObjectKept, heapVars, SInv, StoreInv, StoreTypeOK, Private
<1>2. StoreTypeOK'
  BY DEF heapVars, counterVars, SInv, StoreInv, StoreTypeOK
<1>3. QED BY <1>1, <1>2, QuietKept

LEMMA EndKept ==
  ASSUME SInv, NEW to, to \notin {"erase", "tree_delete"}, tree_delete_end(to)
  PROVE  SInv'
<1>1. fault' \in Fault /\ jiffies' \in 0..MaxJiffies
  BY DEF tree_delete_end, storeVars, SInv, StoreInv, StoreTypeOK
<1>2. QED BY <1>1, IdleKept DEF tree_delete_end, storeVars

-----------------------------------------------------------------------------
\* The store used by one thread.

IInv == TypeOK /\ SInv

LEMMA InitEstablishes ==
  ASSUME StoreAssumption, Init
  PROVE  IInv
<1>1. Counted = {} /\ CachedBytes = {}
  BY DEF Init, Counted, CachedBytes
<1>2. /\ IsFiniteSet({}) /\ Cardinality({}) = 0
      /\ 0 \in 0..(SizeT - 1) /\ 0 % SizeT = 0
      /\ CACHE_SIZE \in 0..(SizeT - 1) /\ (CACHE_SIZE - 0) % SizeT = CACHE_SIZE
  <2>1. IsFiniteSet({}) /\ Cardinality({}) = 0
    BY FS_EmptySet
  <2>2. SizeT \in Nat \ {0} /\ CACHE_SIZE \in 0..(SizeT - 1) /\ CACHE_SIZE - 0 = CACHE_SIZE
    BY DEF StoreAssumption
  <2>3. 0 \in 0..(SizeT - 1)
    BY <2>2
  <2>4. QED BY <2>1, <2>2, <2>3, ModSmall
<1>3. StoreTypeOK
  BY <1>2 DEF Init, StoreTypeOK, Fault, StoreAssumption
<1>4. AccountingExact
  BY <1>1, <1>2 DEF Init, AccountingExact
<1>5. TreeConsistent /\ Private
  BY <1>1 DEF TreeConsistent, Private
<1>6. Walk
  BY <1>1 DEF Init, Walk
<1>7. QED
  BY <1>1, <1>2, <1>3, <1>4, <1>5, <1>6 DEF IInv, SInv, StoreInv, TypeOK, Init

LEMMA CreateKept ==
  ASSUME StoreAssumption, SInv, NEW p \in Path, NEW data \in Body,
         NEW size \in Size, Create(p, data, size)
  PROVE  SInv'
<1>1. PICK n \in Str \ DOMAIN str_heap, s \in Str \ DOMAIN str_heap :
        /\ n # s
        /\ obj_create(n, data, size, s, p)
        /\ str_heap' = kmalloc(kmalloc(str_heap, n, p), s, p)
  BY DEF Create
<1>2. Counted = obj_tree
  BY DEF Create, Ready, SInv, Walk
<1>3. /\ DOMAIN str_heap' = DOMAIN str_heap \cup {n, s}
      /\ str_heap'[s] = p /\ str_heap'[n] = p
      /\ \A x \in DOMAIN str_heap : str_heap'[x] = str_heap[x]
      /\ str_heap' \in [DOMAIN str_heap' -> Path]
  BY <1>1 DEF kmalloc, SInv, StoreInv, StoreTypeOK
<1>4. \A q \in obj_tree : StringsOf(q) \subseteq DOMAIN str_heap
  BY <1>2 DEF SInv, StoreInv, Private
<1>5. StringsKept
  BY <1>2, <1>3, <1>4 DEF StringsKept
<1>6. DOMAIN str_heap' \subseteq Str
  BY <1>1, <1>3 DEF SInv, StoreInv, StoreTypeOK
<1>7. StoreInv' /\ Counted' = obj_tree'
  BY <1>1, <1>2, <1>3, <1>4, <1>5, <1>6, CreatedStore DEF SInv, Create
<1>8. QED BY <1>7 DEF SInv, Walk, Create, Ready

LEMMA SearchKept ==
  ASSUME SInv, NEW p \in Path, obj_search(p)
  PROVE  SInv'
<1> DEFINE o == node_search(p)
<1>1. o \in DOMAIN obj_heap
  BY SearchReturns DEF obj_search, Match, Counted, SInv, StoreInv, StoreTypeOK
<1> HIDE DEF o
<1>2. obj_heap' = [obj_heap EXCEPT ![o].time = jiffies]
  BY DEF obj_search, o
<1>3. /\ DOMAIN obj_heap' = DOMAIN obj_heap
      /\ obj_heap' \in [DOMAIN obj_heap' -> Object]
  BY <1>1, <1>2 DEF SInv, StoreInv, StoreTypeOK, Object
<1>4. \A q \in obj_tree : ObjectKept(q)
  <2>1. \A q \in DOMAIN obj_heap : obj_heap[q] \in Object
    BY DEF SInv, StoreInv, StoreTypeOK
  <2>2. QED BY <1>1, <1>2, <2>1 DEF ObjectKept, SInv, StoreInv, StoreTypeOK, Object
<1>5. StoreTypeOK'
  BY <1>3 DEF obj_search, counterVars, SInv, StoreInv, StoreTypeOK
<1>6. StringsKept
  BY DEF obj_search, Ready, StringsKept, SInv, StoreInv, Private
<1>7. QED BY <1>4, <1>5, <1>6, QuietKept DEF obj_search, Ready

\* node_delete of a linked object, whoever has found it.
LEMMA NodeDeleteKept ==
  ASSUME StoreAssumption, SInv, Ready, NEW o \in obj_tree, node_delete(o),
         UNCHANGED <<temp_object, jiffies, node, pc>>
  PROVE  SInv'
<1>1. o \in Counted /\ Counted = obj_tree
  BY DEF SInv, Walk, Ready
<1>2. Release(o) /\ Erase(o)
  BY DEF node_delete
<1>3. o \in DOMAIN obj_heap
  BY DEF SInv, StoreInv, StoreTypeOK
<1>4. \A q \in obj_tree' : ObjectKept(q)
  BY <1>2, EraseType DEF SInv, StoreInv
<1>5. StoreTypeOK'
  BY <1>2, <1>3, ReleaseType, EraseType DEF SInv, StoreInv, StoreTypeOK
<1>6. obj_tree' = obj_tree \ {o}
  BY <1>2 DEF Erase
<1>7. StoreInv' /\ Counted' = obj_tree'
  BY <1>1, <1>2, <1>4, <1>5, <1>6, ReleasedStore DEF SInv
<1>8. QED BY <1>7 DEF SInv, Walk, Ready

LEMMA DeleteKept ==
  ASSUME StoreAssumption, SInv, NEW p \in Path, node_path_delete(p)
  PROVE  SInv'
<1>1. node_search(p) \in obj_tree
  BY SearchReturns DEF node_path_delete, Match, Counted
<1>2. QED BY <1>1, NodeDeleteKept DEF node_path_delete

LEMMA CreateFailsKept ==
  ASSUME SInv, NEW size \in Size, CreateFails(size)
  PROVE  SInv'
<1>1. /\ UNCHANGED <<obj_heap, str_heap, obj_tree, counterVars, temp_object,
                    jiffies, node, pc>>
      /\ fault' \in Fault
  BY DEF CreateFails, random_string_no_memory, obj_create_no_memory,
         obj_create_no_buffer, FirstFault, Fault, SInv, StoreInv, StoreTypeOK
<1>2. jiffies' \in 0..MaxJiffies
  BY <1>1 DEF SInv, StoreInv, StoreTypeOK
<1>3. QED BY <1>1, <1>2, IdleKept DEF CreateFails, Ready, heapVars

LEMMA TickKept ==
  ASSUME StoreAssumption, SInv, Tick
  PROVE  SInv'
<1>1. fault' \in Fault /\ jiffies' \in 0..MaxJiffies
  BY DEF Tick, SInv, StoreInv, StoreTypeOK, StoreAssumption
<1>2. QED BY <1>1, IdleKept DEF Tick, Ready

LEMMA StutterKept ==
  ASSUME SInv, UNCHANGED vars
  PROVE  SInv'
<1>1. UNCHANGED <<obj_heap, str_heap, obj_tree, used_space, free_space,
                  obj_count, temp_object, jiffies, node, fault, pc>>
  BY DEF vars, storeVars, heapVars, counterVars
<1>2. Counted' = Counted /\ CachedBytes' = CachedBytes
  BY <1>1 DEF Counted, CachedBytes, BytesOf, Readable
<1>3. StoreTypeOK' /\ AccountingExact' /\ Walk'
  BY <1>1, <1>2 DEF SInv, StoreInv, StoreTypeOK, AccountingExact, Walk
<1>4. TreeConsistent' /\ Private'
  BY <1>1, <1>2 DEF SInv, StoreInv, TreeConsistent, Text, Private, StringsOf
<1>5. QED BY <1>2, <1>3, <1>4 DEF SInv, StoreInv

\* Every operation keeps the invariant.
LEMMA NextKept ==
  ASSUME StoreAssumption, IInv, [Next]_vars
  PROVE  IInv'
<1>1. SInv'
  <2>1. ASSUME NEW p \in Path, NEW data \in Body, NEW size \in Size,
               Create(p, data, size)
        PROVE  SInv'
    BY <2>1, CreateKept DEF IInv
  <2>2. ASSUME NEW size \in Size, CreateFails(size) PROVE SInv'
    BY <2>2, CreateFailsKept DEF IInv
  <2>3. ASSUME NEW p \in Path, obj_search(p) PROVE SInv'
    BY <2>3, SearchKept DEF IInv
  <2>4. ASSUME NEW p \in Path, node_path_delete(p) PROVE SInv'
    BY <2>4, DeleteKept DEF IInv
  <2>5. CASE tree_delete_begin("idle")
    BY <2>5, BeginKept DEF IInv
  <2>6. CASE tree_delete_release
    BY <2>6, ReleaseKept DEF IInv
  <2>7. CASE tree_delete_erase
    BY <2>7, EraseKept DEF IInv
  <2>8. CASE tree_delete_end("idle")
    BY <2>8, EndKept DEF IInv
  <2>9. CASE Tick
    BY <2>9, TickKept DEF IInv
  <2>10. CASE UNCHANGED vars
    BY <2>10, StutterKept DEF IInv
  <2>11. QED
    BY <2>1, <2>2, <2>3, <2>4, <2>5, <2>6, <2>7, <2>8, <2>9, <2>10 DEF Next
<1>2. pc' \in {"idle", "tree_delete", "erase", "oops"}
  BY DEF IInv, TypeOK, Next, vars, Create, CreateFails, obj_search,
         node_path_delete, tree_delete_begin, tree_delete_release,
         tree_delete_erase, tree_delete_end, Tick
<1>3. QED BY <1>1, <1>2 DEF IInv, SInv, StoreInv, TypeOK

\* The invariant holds in every state of the store.
THEOREM StoreInvariant == Spec => []IInv
<1>1. Init => IInv
  BY InitEstablishes, StoreAssumption
<1>2. IInv /\ [Next]_vars => IInv'
  BY NextKept, StoreAssumption
<1>3. QED BY <1>1, <1>2, PTL DEF Spec

\* Every variable keeps its type.
THEOREM TypeCorrect == Spec => []TypeOK
<1>1. IInv => TypeOK BY DEF IInv
<1>2. QED BY <1>1, StoreInvariant, PTL

\* For every number of objects, every size and every width of size_t, what
\* sysfs publishes is what the tree holds.
THEOREM CountersExact == Spec => []AccountingExact
<1>1. IInv => AccountingExact BY DEF IInv, SInv, StoreInv
<1>2. QED BY <1>1, StoreInvariant, PTL

\* No path is ever cached twice and every cached path is found.
THEOREM KeysUnique == Spec => []TreeConsistent
<1>1. IInv => TreeConsistent BY DEF IInv, SInv, StoreInv
<1>2. QED BY <1>1, StoreInvariant, PTL

-----------------------------------------------------------------------------
\* The walk of tree_delete, as long as freed memory is intact.

\* The cursor is at the first node, and no two nodes have the same key.
WalkInv ==
  /\ pc = "erase" =>
       \A o, q \in obj_tree : obj_heap[o].key = obj_heap[q].key => o = q
  /\ pc \in {"tree_delete", "erase"} =>
       IF obj_tree = {} THEN node = NULL
       ELSE /\ node \in obj_tree
            /\ \A q \in obj_tree : obj_heap[node].key <= obj_heap[q].key

LEMMA WalkStep ==
  ASSUME StoreAssumption, Freed \subseteq {"intact"}, IInv, WalkInv, [Next]_vars
  PROVE  WalkInv'
<1>1. CASE tree_delete_begin("idle")
  <2>1. node' = First(obj_tree) /\ UNCHANGED <<obj_heap, obj_tree>>
    BY <1>1 DEF tree_delete_begin, rb_first, heapVars
  <2>2. QED
    BY <1>1, <2>1, FirstIsLeast
       DEF WalkInv, tree_delete_begin, IInv, SInv, StoreInv
<1>2. CASE tree_delete_release
  <2>1. /\ pc = "tree_delete" /\ pc' = "erase"
        /\ UNCHANGED <<obj_heap, obj_tree, node>>
    BY <1>2 DEF tree_delete_release
  <2>2. \A o, q \in obj_tree : obj_heap[o].key = obj_heap[q].key => o = q
    BY <2>1 DEF IInv, SInv, StoreInv, Walk, TreeConsistent
  <2>3. QED BY <2>1, <2>2 DEF WalkInv
<1>3. CASE tree_delete_erase
  <2> DEFINE S == {q \in obj_tree : obj_heap[q].key > obj_heap[node].key}
  <2>1. node' = First(S) /\ pc = "erase" /\ pc' = "tree_delete" /\ Erase(node)
    BY <1>3 DEF tree_delete_erase, rb_next
  <2>2. node \in obj_tree /\ \A q \in obj_tree : obj_heap[q].key \in Nat
    BY <2>1 DEF IInv, SInv, StoreInv, Walk, StoreTypeOK, Object, StoreAssumption
  <2>3. S = obj_tree \ {node}
    BY <2>1, <2>2 DEF WalkInv
  <2>4. obj_tree' = S
    BY <2>1, <2>3 DEF Erase
  <2>5. \A q \in S : obj_heap'[q].key = obj_heap[q].key
    BY <2>1, <2>4, EraseType DEF IInv, SInv, StoreInv, ObjectKept
  <2>6. /\ S = {} => First(S) = NULL
        /\ S # {} => /\ First(S) \in S
                    /\ \A q \in S : obj_heap[First(S)].key <= obj_heap[q].key
    BY FirstIsLeast DEF IInv, SInv, StoreInv
  <2> HIDE DEF S
  <2>7. QED BY <2>1, <2>4, <2>5, <2>6 DEF WalkInv
<1>4. CASE UNCHANGED vars
  BY <1>4 DEF vars, storeVars, heapVars, WalkInv
<1>5. CASE tree_delete_end("idle")
  BY <1>5 DEF tree_delete_end, WalkInv
<1>6. ASSUME pc = "idle", pc' = pc PROVE WalkInv'
  BY <1>6 DEF WalkInv
<1>7. QED
  BY <1>1, <1>2, <1>3, <1>4, <1>5, <1>6
     DEF Next, Create, CreateFails, obj_search, node_path_delete, Tick, Ready

LEMMA WalkEnds ==
  ASSUME StoreAssumption, IInv, WalkInv, tree_delete_end("idle")
  PROVE  obj_tree = {}
<1>1. obj_tree \subseteq Obj
  BY DEF IInv, SInv, StoreInv, StoreTypeOK
<1>2. QED BY <1>1 DEF WalkInv, tree_delete_end, StoreAssumption

\* tree_delete ends with an empty tree, though it asks a freed node for the
\* one after it: the first node is the one erasing never moves the next of.
THEOREM WalkComplete ==
  ASSUME Freed \subseteq {"intact"}
  PROVE  Spec => TreeDeleteEmpties
<1> USE StoreAssumption
<1>1. Init => WalkInv
  BY DEF Init, WalkInv
<1>2. IInv /\ WalkInv /\ [Next]_vars => WalkInv'
  BY WalkStep
<1>3. IInv /\ WalkInv => [tree_delete_end("idle") => obj_tree = {}]_vars
  BY WalkEnds
<1>4. QED
  BY <1>1, <1>2, <1>3, StoreInvariant, PTL DEF Spec, TreeDeleteEmpties
-----------------------------------------------------------------------------
\* The search for the least recently used object.

\* The nodes from o to the end of the tree.
From(o) ==
  IF o = NULL THEN {}
  ELSE {o} \cup {q \in obj_tree : obj_heap[q].key > obj_heap[o].key}

\* The last, in the order of the tree, of the oldest objects of S.
LastOldest(m, S) ==
  /\ m \in S
  /\ \A q \in S : /\ obj_heap[m].time <= obj_heap[q].time
                  /\ obj_heap[q].time <= obj_heap[m].time
                       => obj_heap[q].key <= obj_heap[m].key

OneKeyEach ==
  \A o, q \in obj_tree : obj_heap[o].key = obj_heap[q].key => o = q

LEMMA Fields ==
  ASSUME StoreAssumption, StoreTypeOK, NEW o \in obj_tree
  PROVE  obj_heap[o].key \in Nat /\ obj_heap[o].time \in Nat /\ o # NULL
  BY DEF StoreTypeOK, Object, StoreAssumption

\* A tree has a last node wherever one looks: the one with the fewest nodes
\* from it on.
LEMMA LastNode ==
  ASSUME StoreAssumption, StoreTypeOK, NEW S \in SUBSET obj_tree, S # {}
  PROVE  \E o \in S : \A q \in S : obj_heap[q].key <= obj_heap[o].key
<1> DEFINE upper(o) == {q \in S : obj_heap[o].key <= obj_heap[q].key}
           N == {Cardinality(upper(o)) : o \in S}
<1>1. \A o \in S : IsFiniteSet(upper(o)) /\ Cardinality(upper(o)) \in Nat
  <2> TAKE o \in S
  <2>1. IsFiniteSet(obj_tree) /\ upper(o) \in SUBSET obj_tree
    BY DEF StoreTypeOK
  <2>2. IsFiniteSet(upper(o))
    BY <2>1, FS_Subset
  <2>3. QED BY <2>2, FS_CardinalityType
<1>2. N \in SUBSET Nat /\ N # {}
  BY <1>1
<1>3. PICK n \in N : \A k \in N : n <= k
  BY <1>2, LeastNat
<1>4. PICK o \in S : Cardinality(upper(o)) = n
  OBVIOUS
<1>5. ASSUME NEW q \in S, ~(obj_heap[q].key <= obj_heap[o].key) PROVE FALSE
  <2>1. obj_heap[o].key \in Nat /\ \A x \in S : obj_heap[x].key \in Nat
    BY Fields
  <2>2. upper(q) \in SUBSET upper(o) /\ o \in upper(o) /\ o \notin upper(q)
    BY <1>5, <2>1
  <2>3. /\ Cardinality(upper(q)) <= Cardinality(upper(o))
        /\ Cardinality(upper(o)) = Cardinality(upper(q)) => upper(o) = upper(q)
    <3>1. IsFiniteSet(upper(o))
      BY <1>1
    <3> HIDE DEF upper
    <3>2. QED BY <2>2, <3>1, FS_Subset
  <2>4. upper(o) # upper(q)
    BY <2>2
  <2>5. Cardinality(upper(o)) <= Cardinality(upper(q))
    <3>1. Cardinality(upper(q)) \in N
      OBVIOUS
    <3> HIDE DEF N, upper
    <3>2. QED BY <1>3, <1>4, <3>1
  <2>6. Cardinality(upper(o)) \in Nat /\ Cardinality(upper(q)) \in Nat
    BY <1>1
  <2> HIDE DEF upper
  <2>7. QED BY <2>3, <2>4, <2>5, <2>6
<1>6. QED BY <1>5

\* Every set of nodes has an oldest one, and only one that comes last.
LEMMA LastOldestExists ==
  ASSUME StoreAssumption, StoreTypeOK, NEW S \in SUBSET obj_tree, S # {}
  PROVE  \E m : LastOldest(m, S)
<1> DEFINE T == {obj_heap[o].time : o \in S}
<1>1. T \in SUBSET Nat /\ T # {}
  BY Fields
<1>2. PICK t \in T : \A k \in T : t <= k
  BY <1>1, LeastNat
<1> DEFINE R == {o \in S : obj_heap[o].time = t}
<1>3. R \in SUBSET obj_tree /\ R # {}
  OBVIOUS
<1>4. PICK m \in R : \A q \in R : obj_heap[q].key <= obj_heap[m].key
  BY <1>3, LastNode
<1>5. m \in S /\ obj_heap[m].time = t /\ t \in Nat
  BY <1>1
<1>6. \A q \in S : obj_heap[q].time \in Nat /\ t <= obj_heap[q].time
  BY <1>2, Fields
<1>7. \A q \in S : obj_heap[q].time <= t => q \in R
  BY <1>5, <1>6
<1>8. QED BY <1>4, <1>5, <1>6, <1>7 DEF LastOldest

LEMMA LastOldestUnique ==
  ASSUME StoreAssumption, StoreTypeOK, OneKeyEach, NEW S \in SUBSET obj_tree,
         NEW m, NEW n, LastOldest(m, S), LastOldest(n, S)
  PROVE  m = n
<1>1. m \in obj_tree /\ n \in obj_tree
  BY DEF LastOldest
<1>2. obj_heap[m].key = obj_heap[n].key
  BY <1>1, Fields DEF LastOldest
<1>3. QED BY <1>1, <1>2 DEF OneKeyEach

\* Where rb_next leads to.
LEMMA NextNode ==
  ASSUME StoreAssumption, StoreTypeOK, OneKeyEach, NEW o \in obj_tree
  PROVE  /\ rb_next(o) \in obj_tree \cup {NULL}
         /\ From(o) = {o} \cup From(rb_next(o))
         /\ o \notin From(rb_next(o))
         /\ \A q \in From(rb_next(o)) : /\ q \in obj_tree
                                        /\ obj_heap[o].key < obj_heap[q].key
<1> DEFINE A == {q \in obj_tree : obj_heap[q].key > obj_heap[o].key}
           n == rb_next(o)
<1>1. /\ A = {} => n = NULL
      /\ A # {} => n \in A /\ \A q \in A : obj_heap[n].key <= obj_heap[q].key
  BY FirstIsLeast DEF rb_next
<1>2. o # NULL /\ \A q \in obj_tree : obj_heap[q].key \in Nat /\ q # NULL
  BY Fields
<1>3. From(o) = {o} \cup A
  BY <1>2 DEF From
<1> HIDE DEF n
<1>4. From(n) = A
  <2>1. CASE A = {} BY <1>1, <2>1 DEF From
  <2>2. CASE A # {}
    <3>1. n \in A /\ n \in obj_tree /\ n # NULL
      BY <1>1, <1>2, <2>2
    <3>2. \A q \in A : obj_heap[n].key = obj_heap[q].key => n = q
      BY <3>1 DEF OneKeyEach
    <3>3. \A q \in A : q = n \/ obj_heap[q].key > obj_heap[n].key
      BY <1>1, <1>2, <2>2, <3>1, <3>2
    <3>4. \A q \in obj_tree : obj_heap[q].key > obj_heap[n].key => q \in A
      BY <1>2, <3>1
    <3>5. QED BY <3>1, <3>3, <3>4 DEF From
  <2>3. QED BY <2>1, <2>2
<1>5. n \in obj_tree \cup {NULL}
  BY <1>1
<1>6. o \notin A
  BY <1>2
<1>7. QED BY <1>2, <1>3, <1>4, <1>5, <1>6 DEF n

-----------------------------------------------------------------------------
\* The loop, as an equation for the function it computes.
Loop(f) ==
  [o \in obj_tree \cup {NULL} |->
     [best \in obj_tree |->
        IF o = NULL THEN best
        ELSE f[rb_next(o)][IF Older(o, best) THEN o ELSE best]]]

\* The loop ends: there is a function that satisfies its equation, the one that
\* gives the last of the oldest nodes.
LEMMA LoopEnds ==
  ASSUME StoreAssumption, StoreTypeOK, OneKeyEach
  PROVE  \E f : f = Loop(f)
<1> DEFINE pick(o) == CHOOSE m : LastOldest(m, From(o))
           F(o, best) == IF o = NULL THEN best
                         ELSE IF Older(pick(o), best) THEN pick(o) ELSE best
           f == [o \in obj_tree \cup {NULL} |-> [best \in obj_tree |-> F(o, best)]]
           next(o, best) == IF Older(o, best) THEN o ELSE best
<1>1. \A o \in obj_tree : From(o) \in SUBSET obj_tree /\ LastOldest(pick(o), From(o))
  <2> TAKE o \in obj_tree
  <2>1. From(o) \in SUBSET obj_tree /\ From(o) # {}
    BY Fields DEF From
  <2>2. \E m : LastOldest(m, From(o))
    BY <2>1, LastOldestExists
  <2>3. QED BY <2>1, <2>2
<1> HIDE DEF pick
<1>2. \A o \in obj_tree \cup {NULL}, best \in obj_tree : f[o][best] = F(o, best)
  OBVIOUS
<1>3. ASSUME NEW o \in obj_tree, NEW best \in obj_tree
      PROVE  F(o, best) = F(rb_next(o), next(o, best))
  <2> DEFINE n == rb_next(o)
  <2>1. /\ n \in obj_tree \cup {NULL} /\ From(o) = {o} \cup From(n)
        /\ \A q \in From(n) : q \in obj_tree /\ obj_heap[o].key < obj_heap[q].key
    BY NextNode
  <2>2. \A q \in obj_tree : /\ obj_heap[q].time \in Nat /\ obj_heap[q].key \in Nat
                            /\ q # NULL
    BY Fields
  <2> HIDE DEF n
  <2>3. CASE n = NULL
    <3>1. pick(o) = o
      BY <1>1, <2>1, <2>3 DEF LastOldest, From
    <3>2. QED BY <2>2, <2>3, <3>1 DEF n
  <2>4. CASE n # NULL
    <3>1. n \in obj_tree /\ LastOldest(pick(n), From(n)) /\ pick(n) \in obj_tree
      BY <1>1, <2>1, <2>4 DEF LastOldest
    <3>2. CASE Older(pick(n), o)
      <4>1. LastOldest(pick(n), From(o))
        BY <2>1, <2>2, <3>1, <3>2 DEF LastOldest, Older
      <4>2. pick(o) = pick(n)
        BY <1>1, <4>1, LastOldestUnique
      <4>3. QED BY <2>2, <2>4, <3>1, <3>2, <4>2 DEF Older, n
    <3>3. CASE ~Older(pick(n), o)
      <4>1. LastOldest(o, From(o))
        BY <2>1, <2>2, <3>1, <3>3 DEF LastOldest, Older
      <4>2. pick(o) = o
        BY <1>1, <4>1, LastOldestUnique
      <4>3. QED BY <2>2, <2>4, <3>1, <3>3, <4>2 DEF Older, n
    <3>4. QED BY <3>2, <3>3
  <2>5. QED BY <2>3, <2>4
<1>4. \A o \in obj_tree, best \in obj_tree :
        /\ rb_next(o) \in obj_tree \cup {NULL}
        /\ next(o, best) \in obj_tree
  BY NextNode
<1>5. \A o \in obj_tree, best \in obj_tree :
        F(o, best) = f[rb_next(o)][next(o, best)]
  <2> TAKE o \in obj_tree, best \in obj_tree
  <2>1. f[rb_next(o)][next(o, best)] = F(rb_next(o), next(o, best))
    BY <1>2, <1>4
  <2>2. F(o, best) = F(rb_next(o), next(o, best))
    BY <1>3
  <2> HIDE DEF F, f, next
  <2>3. QED BY <2>1, <2>2
<1>6. \A best \in obj_tree : F(NULL, best) = best
  OBVIOUS
<1> DEFINE G(o, best) == IF o = NULL THEN best ELSE f[rb_next(o)][next(o, best)]
<1>7. \A o \in obj_tree \cup {NULL}, best \in obj_tree : F(o, best) = G(o, best)
  BY <1>5, <1>6
<1>8. Loop(f) = [o \in obj_tree \cup {NULL} |-> [best \in obj_tree |-> G(o, best)]]
  BY DEF Loop
<1> HIDE DEF F, G
<1>9. f = Loop(f)
  BY <1>7, <1>8
<1>10. QED BY <1>9

LEMMA OldestIsLoop ==
  ASSUME StoreAssumption, StoreTypeOK, OneKeyEach
  PROVE  oldest = Loop(oldest)
<1>1. oldest = CHOOSE f : f = Loop(f)
  BY DEF oldest, Loop
<1>2. \E f : f = Loop(f)
  BY LoopEnds
<1>3. QED BY <1>1, <1>2, Zenon

\* From every node on the loop finds an object as old as any.  If it did not,
\* there would be a last node from where it does not.
LEMMA OldestFromNode ==
  ASSUME StoreAssumption, StoreTypeOK, OneKeyEach, NEW o \in obj_tree,
         NEW best \in obj_tree
  PROVE  /\ oldest[o][best] \in obj_tree
         /\ \A q \in {best} \cup From(o) : Older(oldest[o][best], q)
<1> DEFINE Finds(x, b) == /\ oldest[x][b] \in obj_tree
                          /\ \A q \in {b} \cup From(x) : Older(oldest[x][b], q)
           B == {x \in obj_tree : \E b \in obj_tree : ~Finds(x, b)}
<1>1. oldest = Loop(oldest)
  BY OldestIsLoop
<1>2. \A x \in obj_tree : x # NULL /\ obj_heap[x].time \in Nat /\ obj_heap[x].key \in Nat
  BY Fields
<1>3. \A b \in obj_tree : Finds(NULL, b)
  <2>1. \A b \in obj_tree : oldest[NULL][b] = b
    BY <1>1 DEF Loop
  <2>2. QED BY <1>2, <2>1 DEF From, Older
<1>4. ASSUME NEW x \in obj_tree, NEW b \in obj_tree,
             \A c \in obj_tree : Finds(rb_next(x), c)
      PROVE  Finds(x, b)
  <2> DEFINE c == IF Older(x, b) THEN x ELSE b
  <2>1. oldest[x][b] = oldest[rb_next(x)][c]
    BY <1>1, <1>2 DEF Loop
  <2>2. c \in obj_tree /\ Finds(rb_next(x), c)
    BY <1>4
  <2>3. Older(c, x) /\ Older(c, b)
    BY <1>2 DEF Older
  <2>4. From(x) = {x} \cup From(rb_next(x)) /\ From(x) \subseteq obj_tree
    BY NextNode
  <2> HIDE DEF c
  <2>5. QED BY <1>2, <2>1, <2>2, <2>3, <2>4 DEF Older
<1>5. B = {}
  <2> SUFFICES ASSUME B # {} PROVE FALSE
    OBVIOUS
  <2>1. PICK x \in B : \A q \in B : obj_heap[q].key <= obj_heap[x].key
    BY LastNode
  <2>2. rb_next(x) \in obj_tree => obj_heap[x].key < obj_heap[rb_next(x)].key
    BY <1>2, NextNode DEF From
  <2>3. rb_next(x) \notin B /\ rb_next(x) \in obj_tree \cup {NULL}
    BY <1>2, <2>1, <2>2, NextNode
  <2>4. \A c \in obj_tree : Finds(rb_next(x), c)
    BY <1>3, <2>3
  <2>5. \A b \in obj_tree : Finds(x, b)
    BY <1>4, <2>4
  <2>6. QED BY <2>5
<1>6. QED BY <1>5

\* The search returns an object that no other is older than.
LEMMA SearchFindsOldest ==
  ASSUME StoreAssumption, StoreTypeOK, OneKeyEach, obj_tree # {}
  PROVE  /\ node_least_recently_used_search \in obj_tree
         /\ \A q \in obj_tree : Older(node_least_recently_used_search, q)
<1>1. /\ rb_first \in obj_tree
      /\ \A q \in obj_tree : obj_heap[rb_first].key <= obj_heap[q].key
  BY FirstIsLeast DEF rb_first
<1>2. From(rb_first) = obj_tree
  BY <1>1, Fields DEF From, OneKeyEach
<1>3. QED
  BY <1>1, <1>2, OldestFromNode DEF node_least_recently_used_search

-----------------------------------------------------------------------------
\* The store with replacement.

\* The access time of a cached object is the time its path was last used.
Recorded == \A o \in Counted : obj_heap[o].time = last_use[Text(o)]

LInv ==
  /\ IInv
  /\ last_use \in [Path -> 0..MaxJiffies]
  /\ Recorded

\* Between two operations the nodes have the keys of their paths.
LEMMA ReadyKeys ==
  ASSUME SInv, Ready
  PROVE  Counted = obj_tree /\ OneKeyEach
  BY DEF SInv, StoreInv, Walk, Ready, TreeConsistent, OneKeyEach

LEMMA LruDeleteKept ==
  ASSUME StoreAssumption, IInv, node_least_recently_used_delete
  PROVE  IInv'
<1>1. Ready /\ pc' = pc
  BY DEF node_least_recently_used_delete
<1>2. SInv'
  <2>1. CASE obj_tree = {}
    <3>1. /\ UNCHANGED <<heapVars, obj_tree, counterVars, temp_object, node, jiffies>>
          /\ fault' \in Fault
      BY <2>1 DEF node_least_recently_used_delete, FirstFault, Fault, IInv, TypeOK,
                  StoreTypeOK
    <3>2. jiffies' \in 0..MaxJiffies
      BY <3>1 DEF IInv, TypeOK, StoreTypeOK
    <3>3. QED BY <1>1, <3>1, <3>2, IdleKept DEF IInv, Ready
  <2>2. CASE obj_tree # {}
    <3>1. node_least_recently_used_search \in obj_tree
      BY <1>1, <2>2, ReadyKeys, SearchFindsOldest DEF IInv, TypeOK
    <3>2. QED
      BY <1>1, <2>2, <3>1, NodeDeleteKept DEF node_least_recently_used_delete, IInv
  <2>3. QED BY <2>1, <2>2
<1>3. QED BY <1>1, <1>2 DEF IInv, TypeOK, SInv, StoreInv

\* Every step is one of the store, or a replacement.
LEMMA LruSteps ==
  ASSUME [LNext]_lVars
  PROVE  [Next]_vars \/ node_least_recently_used_delete
  BY DEF LNext, lVars, New, Search, Other, Next

\* Steps that at most delete objects keep the record.
LEMMA RecordShrinks ==
  ASSUME Recorded, last_use' = last_use, Counted' \subseteq Counted,
         \A o \in Counted' : /\ obj_heap'[o].time = obj_heap[o].time
                             /\ Text(o)' = Text(o)
  PROVE  Recorded'
  BY DEF Recorded

LEMMA DeleteRecord ==
  ASSUME LInv, last_use' = last_use,
         \/ str_heap' = str_heap
         \/ \E S : str_heap' = kfree(str_heap, S),
         \/ UNCHANGED <<obj_heap, obj_tree>>
         \/ \E o : Erase(o)
  PROVE  Recorded'
<1>1. /\ obj_tree' \subseteq obj_tree /\ obj_tree' \subseteq DOMAIN obj_heap'
      /\ \A o \in DOMAIN obj_heap' : obj_heap'[o] = obj_heap[o]
  BY DEF Erase, kfree, LInv, IInv, TypeOK, StoreTypeOK
<1>2. /\ DOMAIN str_heap' \subseteq DOMAIN str_heap
      /\ \A x \in DOMAIN str_heap' : str_heap'[x] = str_heap[x]
  BY DEF kfree
<1>3. Counted' \subseteq Counted /\ \A o \in Counted' : Text(o)' = Text(o)
  BY <1>1, <1>2 DEF Counted, Readable, Text
<1>4. \A o \in Counted' : obj_heap'[o].time = obj_heap[o].time
  BY <1>1 DEF Counted
<1>5. QED BY <1>3, <1>4, RecordShrinks DEF LInv

LEMMA NewRecord ==
  ASSUME StoreAssumption, LInv, IInv', NEW p \in Path, NEW data \in Body,
         NEW size \in Size, New(p, data, size)
  PROVE  Recorded'
<1>1. PICK n \in Str \ DOMAIN str_heap, s \in Str \ DOMAIN str_heap :
        /\ obj_create(n, data, size, s, p)
        /\ str_heap' = kmalloc(kmalloc(str_heap, n, p), s, p)
  BY DEF New, Create
<1>2. /\ str_heap'[s] = p
      /\ \A x \in DOMAIN str_heap : str_heap'[x] = str_heap[x]
  BY <1>1 DEF kmalloc
<1>3. PICK o \in Obj \ DOMAIN obj_heap :
        /\ obj_heap' = kmalloc(obj_heap, o,
             [name |-> n, path |-> s, key |-> p, size |-> size,
              time |-> jiffies, body |-> data])
        /\ node_insert(o, p, size)
  BY <1>1 DEF obj_create
<1>4. /\ obj_heap'[o].time = jiffies /\ obj_heap'[o].path = s
      /\ \A q \in obj_tree : obj_heap'[q] = obj_heap[q]
  BY <1>3 DEF kmalloc, LInv, IInv, TypeOK, StoreTypeOK
<1>5. /\ Counted = obj_tree /\ Counted' = obj_tree'
      /\ \A q \in obj_tree : obj_heap[q].path \in DOMAIN str_heap /\ Text(q) \in Path
  <2>1. pc = "idle" /\ pc' = "idle"
    BY DEF New, Create, Ready
  <2>2. Counted = obj_tree /\ Counted' = obj_tree'
    BY <2>1 DEF LInv, IInv, SInv, Walk
  <2>3. QED
    BY <2>2 DEF Counted, Readable, Text, LInv, IInv, TypeOK, StoreTypeOK
<1>6. \A q \in obj_tree : Text(q)' = Text(q) /\ obj_heap'[q].time = last_use[Text(q)]
  BY <1>2, <1>4, <1>5 DEF Text, LInv, Recorded
<1>7. CASE Match(p) # {}
  <2>1. obj_tree' = obj_tree /\ last_use' = last_use
    BY <1>3, <1>7 DEF node_insert, New
  <2>2. QED BY <1>5, <1>6, <2>1 DEF Recorded
<1>8. CASE Match(p) = {}
  <2>1. /\ obj_tree' = obj_tree \cup {o}
        /\ last_use' = [last_use EXCEPT ![p] = jiffies]
    BY <1>3, <1>8 DEF node_insert, New, Use
  <2>2. Text(o)' = p
    BY <1>2, <1>4 DEF Text
  <2>3. \A q \in obj_tree : Text(q) # p
    BY <1>5, <1>8 DEF Match
  <2>4. QED BY <1>4, <1>5, <1>6, <2>1, <2>2, <2>3 DEF Recorded, LInv
<1>9. QED BY <1>7, <1>8

LEMMA SearchRecord ==
  ASSUME LInv, NEW p \in Path, Search(p)
  PROVE  Recorded'
<1> DEFINE o == node_search(p)
<1>1. o \in Counted /\ Text(o) = p
  BY SearchReturns DEF Search, obj_search, Match
<1>2. \A q \in Counted : q # o => Text(q) # p
  BY <1>1 DEF LInv, IInv, SInv, StoreInv, TreeConsistent
<1> HIDE DEF o
<1>3. /\ obj_heap' = [obj_heap EXCEPT ![o].time = jiffies]
      /\ UNCHANGED <<str_heap, obj_tree>>
      /\ last_use' = [last_use EXCEPT ![p] = jiffies]
  BY DEF Search, obj_search, Use, o
<1>4. \A q \in obj_tree : /\ q \in DOMAIN obj_heap /\ obj_heap[q] \in Object
  BY DEF LInv, IInv, TypeOK, StoreTypeOK
<1>5. \A q \in obj_tree : obj_heap'[q].path = obj_heap[q].path
  BY <1>3, <1>4 DEF Object
<1>6. Counted' = Counted /\ \A q \in Counted : Text(q)' = Text(q)
  BY <1>3, <1>5 DEF Counted, Readable, Text
<1>7. obj_heap'[o].time = jiffies /\ \A q \in obj_tree : q # o => obj_heap'[q] = obj_heap[q]
  BY <1>1, <1>3, <1>4 DEF Object, Counted
<1>8. \A q \in Counted : Text(q) \in Path
  BY DEF Counted, Readable, Text, LInv, IInv, TypeOK, StoreTypeOK
<1>9. QED
  BY <1>1, <1>2, <1>3, <1>6, <1>7, <1>8 DEF Recorded, LInv, Counted

LEMMA LruStep ==
  ASSUME StoreAssumption, LInv, [LNext]_lVars
  PROVE  LInv'
<1>1. IInv'
  BY LruSteps, NextKept, LruDeleteKept DEF LInv
<1>2. last_use' \in [Path -> 0..MaxJiffies]
  <2>1. jiffies \in 0..MaxJiffies
    BY DEF LInv, IInv, TypeOK, StoreTypeOK
  <2>2. QED
    BY <2>1 DEF LInv, LNext, lVars, New, Search, Use, Other,
                node_least_recently_used_delete
<1>3. Recorded'
  <2>1. ASSUME NEW p \in Path, NEW data \in Body, NEW size \in Size,
               New(p, data, size)
        PROVE  Recorded'
    BY <1>1, <2>1, NewRecord
  <2>2. ASSUME NEW p \in Path, Search(p) PROVE Recorded'
    BY <2>2, SearchRecord
  <2>3. CASE node_least_recently_used_delete
    BY <2>3, DeleteRecord
       DEF node_least_recently_used_delete, node_delete, Release, heapVars
  <2>4. ASSUME NEW p \in Path, node_path_delete(p), last_use' = last_use
        PROVE  Recorded'
    BY <2>4, DeleteRecord DEF node_path_delete, node_delete, Release
  <2>5. ASSUME NEW size \in Size, CreateFails(size), last_use' = last_use
        PROVE  Recorded'
    BY <2>5, DeleteRecord DEF CreateFails, random_string_no_memory,
         obj_create_no_memory, obj_create_no_buffer
  <2>6. CASE /\ \/ tree_delete_begin("idle") \/ tree_delete_release
                \/ tree_delete_erase \/ tree_delete_end("idle") \/ Tick
             /\ last_use' = last_use
    BY <2>6, DeleteRecord
       DEF tree_delete_begin, tree_delete_release, Release, tree_delete_erase,
           tree_delete_end, Tick, storeVars, heapVars
  <2>7. CASE UNCHANGED lVars
    BY <2>7, DeleteRecord DEF lVars, vars, storeVars, heapVars
  <2>8. QED
    BY <2>1, <2>2, <2>3, <2>4, <2>5, <2>6, <2>7 DEF LNext, Other
<1>4. QED BY <1>1, <1>2, <1>3 DEF LInv

THEOREM LruInvariant == LSpec => []LInv
<1>1. LInit => LInv
  <2>1. ASSUME LInit PROVE LInv
    <3>1. IInv
      BY <2>1, InitEstablishes, StoreAssumption DEF LInit
    <3>2. last_use \in [Path -> 0..MaxJiffies]
      BY <2>1, StoreAssumption DEF LInit
    <3>3. Recorded
      BY <2>1 DEF LInit, Init, Recorded, Counted
    <3>4. QED BY <3>1, <3>2, <3>3 DEF LInv
  <2>2. QED BY <2>1
<1>2. LInv /\ [LNext]_lVars => LInv'
  BY LruStep, StoreAssumption
<1>3. QED BY <1>1, <1>2, PTL DEF LSpec

\* Every variable keeps its type, whatever is replaced.
THEOREM LruTypes == LSpec => []LTypeOK
<1>1. LInv => LTypeOK BY DEF LInv, IInv, LTypeOK
<1>2. QED BY <1>1, LruInvariant, PTL

\* Replacement keeps the counters exact, the failing one of an empty tree too.
THEOREM LruCountersExact == LSpec => []AccountingExact
<1>1. LInv => AccountingExact BY DEF LInv, IInv, SInv, StoreInv
<1>2. QED BY <1>1, LruInvariant, PTL

\* No path is cached twice, and what stays is found under its path.
THEOREM LruKeysUnique == LSpec => []TreeConsistent
<1>1. LInv => TreeConsistent BY DEF LInv, IInv, SInv, StoreInv
<1>2. QED BY <1>1, LruInvariant, PTL

\* tree_delete empties the tree, whatever was replaced before.
THEOREM LruWalkComplete ==
  ASSUME Freed \subseteq {"intact"}
  PROVE  LSpec => TreeDeleteEmpties
<1>1. LInit => WalkInv
  BY DEF LInit, Init, WalkInv
<1>2. LInv /\ WalkInv /\ [LNext]_lVars => WalkInv'
  <2> SUFFICES ASSUME LInv, WalkInv, [LNext]_lVars PROVE WalkInv'
    OBVIOUS
  <2>1. CASE [Next]_vars
    BY <2>1, WalkStep, StoreAssumption DEF LInv
  <2>2. CASE node_least_recently_used_delete
    BY <2>2 DEF node_least_recently_used_delete, Ready, WalkInv
  <2>3. QED BY <2>1, <2>2, LruSteps
<1>3. LInv /\ WalkInv => [tree_delete_end("idle") => obj_tree = {}]_vars
  BY WalkEnds, StoreAssumption DEF LInv
<1>4. QED
  BY <1>1, <1>2, <1>3, LruInvariant, PTL DEF LSpec, TreeDeleteEmpties

\* For every tree and every history of creates, searches and deletions, what
\* the replacement evicts is one object, and none that stays was last used
\* earlier.
THEOREM LruEvictsOldest == LSpec => EvictsLeastRecent
<1> DEFINE Evicts ==
      \E o \in obj_tree :
        /\ obj_tree' = obj_tree \ {o}
        /\ \A q \in obj_tree : last_use[Text(o)] <= last_use[Text(q)]
<1>1. LInv => [node_least_recently_used_delete /\ obj_tree # {} => Evicts]_lVars
  <2> SUFFICES ASSUME LInv, node_least_recently_used_delete, obj_tree # {}
               PROVE  Evicts
    OBVIOUS
  <2> DEFINE o == node_least_recently_used_search
  <2>1. Counted = obj_tree /\ OneKeyEach
    BY ReadyKeys DEF LInv, IInv, node_least_recently_used_delete
  <2>2. o \in obj_tree /\ \A q \in obj_tree : Older(o, q)
    BY <2>1, SearchFindsOldest, StoreAssumption DEF LInv, IInv, TypeOK
  <2>3. obj_tree' = obj_tree \ {o}
    BY DEF node_least_recently_used_delete, node_delete, Erase
  <2> HIDE DEF o
  <2>4. \A q \in obj_tree : last_use[Text(o)] <= last_use[Text(q)]
    BY <2>1, <2>2 DEF LInv, Recorded, Older
  <2>5. QED BY <2>2, <2>3, <2>4
<1>2. QED BY <1>1, LruInvariant, PTL DEF EvictsLeastRecent
=============================================================================
