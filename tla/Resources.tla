----------------------------- MODULE Resources -----------------------------
(***************************************************************************)
(* Four small kernel modules as what insmod takes from the kernel and what *)
(* rmmod gives back: buffer/buffer.c, list/list.c, sysfs/kobject/kobject.c *)
(* and sysfs/test_kobject/test_kobject.c.  One step is one kernel call.    *)
(***************************************************************************)
EXTENDS Kthread, FiniteSets

VARIABLE held  \* what the module has and has not given back

rVars == <<kVars, held>>

RInit == KInit /\ held = {}

\* A step of insmod or rmmod that leaves the module with S.
Step(from, to, S) ==
  /\ Goto("main", from, to)
  /\ held' = S
  /\ UNCHANGED <<asleep, queue, stop, condition>>

\* A call that gives the module x, or fails.
Take(from, x, to, failed) ==
  \/ Step(from, to, held \cup {x})
  \/ x \in MayFail /\ Step(from, failed, held)

-----------------------------------------------------------------------------
buffer_init == Take("start", "vmalloc", "loaded", "loaded")

\* vfree, unless vmalloc had no memory.
buffer_exit == Step("loaded", "unloaded", held \ {"vmalloc"})

-----------------------------------------------------------------------------
\* car_create uses what kmalloc returned whether it is NULL or not.
car_create == Take("create", "kmalloc", "print", "oops")

\* Mutant: the loop only prints.
list_for_each_entry_keeps == Step("print", "loaded", held)

\* The loop frees the node it is at and reads the link to the next one from
\* there: the list ends, or the allocator has written there.
list_for_each_entry ==
  \/ Step("print", "loaded", held \ {"kmalloc"})
  \/ Step("print", "oops", held \ {"kmalloc"})

list_init ==
  \/ Take("start", "vmalloc", "create", "create")
  \/ car_create
  \/ list_for_each_entry

list_exit == Step("loaded", "unloaded", held \ {"vmalloc"})

-----------------------------------------------------------------------------
\* Mutant: the kobject is kept when the group cannot be created.
my_buffer_init_keeps ==
  \/ Take("start", "kobject", "group", "failed")
  \/ Take("group", "group", "loaded", "failed")

my_buffer_init ==
  \/ Take("start", "kobject", "group", "failed")
  \/ Step("group", "loaded", held \cup {"group"})
  \/ "group" \in MayFail /\ Step("group", "failed", held \ {"kobject"})

my_buffer_exit ==
  \/ Step("loaded", "put", held \ {"group"})
  \/ Step("put", "unloaded", held \ {"kobject"})

-----------------------------------------------------------------------------
\* The kobject is in sysfs until kobject_del; the reference stays.
test_kobject_init == Take("start", "kobject", "loaded", "loaded")

test_kobject_exit == Step("loaded", "unloaded", held)

-----------------------------------------------------------------------------
\* Properties.

\* Types, and the places of insmod and rmmod.
RTypeOK ==
  /\ KTypeOK
  /\ held \subseteq {"vmalloc", "kmalloc", "kobject", "group"}
  /\ at["main"] \in {"start", "create", "print", "group", "loaded", "put",
                     "failed", "oops", "unloaded"}

\* Whichever call failed, nothing is left of a module that is not loaded: after
\* an insmod that gave up half way (kobject.c:55-63) no rmmod comes, and after
\* rmmod all is given back (buffer.c:39, list.c:75, kobject.c:68).
NothingHeld == at["main"] \in {"failed", "unloaded"} => held = {}
=============================================================================
