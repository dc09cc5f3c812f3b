----------------------------- MODULE InkThread -----------------------------
(***************************************************************************)
(* The kernel module list/ink.c: test_task puts itself to sleep again and  *)
(* again, and only the kthread_stop of rmmod wakes it.  The list insmod    *)
(* makes first is left out: it is on the stack of mylist_init, and its     *)
(* nodes are never freed.                                                  *)
(***************************************************************************)
EXTENDS Kthread

VARIABLE cnt  \* the turns of the loop so far

iVars == <<kVars, cnt>>

IInit == KInit /\ cnt = 0

-----------------------------------------------------------------------------
\* Mutant: the loop does not look at kthread_should_stop.
task_thread_forever ==
  \/ Begin("test_task", "set") /\ UNCHANGED cnt
  \/ /\ cnt < 3
     /\ set_current_state("test_task", "set", "schedule")
     /\ cnt' = cnt + 1
  \/ /\ IF cnt = 2 THEN schedule_timeout("test_task", "set")
                   ELSE schedule("test_task", "set")
     /\ UNCHANGED cnt

\* Mutant: the thread schedules without having set its state.
task_thread_awake ==
  \/ Begin("test_task", "test") /\ UNCHANGED cnt
  \/ kthread_should_stop("test_task", "test", "set") /\ UNCHANGED cnt
  \/ /\ Goto("test_task", "set", "schedule")
     /\ cnt' = IF cnt < 3 THEN cnt + 1 ELSE cnt
     /\ UNCHANGED <<asleep, queue, stop, condition>>
  \/ /\ IF cnt = 2 THEN schedule_timeout("test_task", "test")
                   ELSE schedule("test_task", "test")
     /\ UNCHANGED cnt

task_thread ==
  \/ Begin("test_task", "test") /\ UNCHANGED cnt
  \/ kthread_should_stop("test_task", "test", "set") /\ UNCHANGED cnt
  \/ /\ set_current_state("test_task", "set", "schedule")
     /\ cnt' = cnt + 1
  \/ /\ IF cnt = 2 THEN schedule_timeout("test_task", "test")
                   ELSE schedule("test_task", "test")
     /\ UNCHANGED cnt

\* What kmalloc returned is used whether it is NULL or not.
mylist_init ==
  /\ \/ /\ "kmalloc" \in MayFail
        /\ Goto("main", "start", "oops")
        /\ UNCHANGED <<asleep, queue, stop, condition>>
     \/ kthread_run("test_task", "start", "loaded")
  /\ UNCHANGED cnt

\* kthread_stop gets what kthread_run returned, an error included.
mylist_exit ==
  /\ \/ /\ IS_ERR("test_task")
        /\ Goto("main", "loaded", "oops")
        /\ UNCHANGED <<asleep, queue, stop, condition>>
     \/ ~IS_ERR("test_task") /\ kthread_stop("test_task", "loaded", "join")
     \/ kthread_stopped("test_task", "join", "unloaded")
  /\ UNCHANGED cnt

INext == mylist_init \/ task_thread \/ mylist_exit

\* Every thread gets the processor in the end.  Nobody has to call rmmod.
Fairness ==
  /\ WF_iVars(mylist_init) /\ WF_iVars(task_thread)
  /\ WF_iVars(at["main"] # "loaded" /\ mylist_exit)

-----------------------------------------------------------------------------
\* Properties.

\* Types, and the places of the threads.
ITypeOK ==
  /\ KTypeOK
  /\ queue = {}
  /\ cnt \in 0..3
  /\ at["main"] \in {"start", "oops", "loaded", "join", "unloaded"}
  /\ at["test_task"] \in {"none", "error", "begin", "test", "set", "schedule", "exited"}

\* The thread sleeps for ever in its first turn, or until rmmod, and after its
\* wake-up it looks at kthread_should_stop: a second turn, and the timeout of
\* ink.c:55 that would wake it after 20 s, are never reached.
AtMostOnce == cnt <= 1

\* rmmod ends if its kthread_stop finds the thread not between its look at
\* kthread_should_stop and set_current_state (ink.c:46 and ink.c:49): there it
\* would go to sleep after the one wake-up there is.
UnloadEnds ==
  at["main"] = "join" /\ at["test_task"] # "set" /\ "test_task" \notin asleep
    ~> at["main"] = "unloaded"
=============================================================================
