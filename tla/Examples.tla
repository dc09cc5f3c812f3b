------------------------------ MODULE Examples ------------------------------
(***************************************************************************)
(* The small kernel modules of the repository, one of them loaded and      *)
(* unloaded.  They share nothing with one another.                         *)
(***************************************************************************)
EXTENDS Kthread

VARIABLES
  module,    \* the module that is loaded
  cnt,       \* of list/ink.c
  callback,  \* of jiffies/jiffies.c and tasklet/tasklet.c
  held       \* of the modules in Resources

own   == <<cnt, callback, held>>
eVars == <<kVars, own, module>>

Wait   == INSTANCE WaitThreads
People == INSTANCE PeopleThread
Ink    == INSTANCE InkThread
Defer  == INSTANCE Deferred
Res    == INSTANCE Resources

Module == {"wait", "people", "ink", "jiffies", "tasklet",
           "buffer", "list", "my_buffer", "test_kobject"}

EInit ==
  /\ module \in Module
  /\ Ink!IInit /\ Defer!DInit /\ Res!RInit

wait    == module = "wait"    /\ Wait!TNext   /\ UNCHANGED <<module, own>>
people  == module = "people"  /\ People!PNext /\ UNCHANGED <<module, own>>
ink     == module = "ink"     /\ Ink!INext    /\ UNCHANGED <<module, callback, held>>
jiffies == module = "jiffies" /\ Defer!DNext(Defer!my_exit) /\ UNCHANGED <<module, cnt, held>>
tasklet == module = "tasklet" /\ Defer!DNext(Defer!let_exit) /\ UNCHANGED <<module, cnt, held>>

resources ==
  /\ \/ module = "buffer" /\ (Res!buffer_init \/ Res!buffer_exit)
     \/ module = "list" /\ (Res!list_init \/ Res!list_exit)
     \/ module = "my_buffer" /\ (Res!my_buffer_init \/ Res!my_buffer_exit)
     \/ module = "test_kobject" /\ (Res!test_kobject_init \/ Res!test_kobject_exit)
  /\ UNCHANGED <<module, cnt, callback>>

ENext == wait \/ people \/ ink \/ jiffies \/ tasklet \/ resources

\* Of the module that is loaded.
Fairness ==
  /\ module = "wait"   => Wait!Fairness
  /\ module = "people" => People!Fairness
  /\ module = "ink"    => Ink!Fairness

ESpec == EInit /\ [][ENext]_eVars /\ Fairness

-----------------------------------------------------------------------------
\* Properties.  Each module states its own; here they are of the module that is
\* loaded.

\* Types, and the places of the threads (of TTypeOK, PTypeOK and so on).
ETypeOK ==
  /\ module = "wait"   => Wait!TTypeOK
  /\ module = "people" => People!PTypeOK
  /\ module = "ink"    => Ink!ITypeOK
  /\ module \in {"jiffies", "tasklet"} => Defer!DTypeOK
  /\ module \in {"buffer", "list", "my_buffer", "test_kobject"} => Res!RTypeOK

\* wait.c:108, wait.c:111: rmmod reports the end of both threads, unless
\* task_3 alone could not be created.
WaitUnloadEnds == module = "wait" => Wait!UnloadEnds

\* wait.c:38: the one wake-up of task_2 is not lost.
WaitEnds == module = "wait" => Wait!WaitEnds

\* people.c:27: a wake-up of insmod does not leave task_2 asleep with condition
\* set.
WakeSeen == module = "people" => People!WakeSeen

\* people.c:63: an rmmod that finds a wake-up not used up ends.
PeopleUnloadEnds == module = "people" => People!UnloadEnds

\* ink.c:55: the thread never begins a second turn.
AtMostOnce == module = "ink" => Ink!AtMostOnce

\* ink.c:107: rmmod ends if kthread_stop does not come between ink.c:46 and
\* ink.c:49.
InkUnloadEnds == module = "ink" => Ink!UnloadEnds

\* jiffies.c:28: the callback of the timer does not begin after rmmod.
NoneStarts == [][module = "jiffies" => Defer!NoneStarts]_eVars

\* kobject.c:55: nothing is left of a module that failed to load or is gone.
NothingHeld == module \in {"buffer", "list", "my_buffer"} => Res!NothingHeld
=============================================================================
