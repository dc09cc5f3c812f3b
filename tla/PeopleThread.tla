---------------------------- MODULE PeopleThread ----------------------------
(***************************************************************************)
(* The kernel module people/people.c: task_2 waits for condition again and *)
(* again, insmod sets it and wakes task_2 twice, rmmod stops task_2.       *)
(***************************************************************************)
EXTENDS Kthread

-----------------------------------------------------------------------------
\* Mutant: condition is cleared after the look at kthread_should_stop.
thread_func_2_clears_last ==
  \/ Begin("task_2", "wait")
  \/ wait_event_interruptible("task_2", "wait", "test")
  \/ kthread_should_stop("task_2", "test", "clear")
  \/ SetCondition("task_2", "clear", "wait", 0)

thread_func_2 ==
  \/ Begin("task_2", "wait")
  \/ wait_event_interruptible("task_2", "wait", "clear")
  \/ SetCondition("task_2", "clear", "test", 0)
  \/ kthread_should_stop("task_2", "test", "wait")

\* Mutant: the second wake-up comes before condition is set.
mod_init_wakes_first ==
  \/ kthread_run("task_2", "start", "set")
  \/ SetCondition("main", "set", "wake", 1)
  \/ wake_up_interruptible("main", "wake", "wake_again")
  \/ wake_up_interruptible("main", "wake_again", "set_again")
  \/ SetCondition("main", "set_again", "loaded", 1)

mod_init ==
  \/ kthread_run("task_2", "start", "set")
  \/ SetCondition("main", "set", "wake", 1)
  \/ wake_up_interruptible("main", "wake", "set_again")
  \/ SetCondition("main", "set_again", "wake_again", 1)
  \/ wake_up_interruptible("main", "wake_again", "loaded")

mod_exit ==
  \/ /\ IS_ERR("task_2")
     /\ Goto("main", "loaded", "unloaded")
     /\ UNCHANGED <<asleep, queue, stop, condition>>
  \/ ~IS_ERR("task_2") /\ kthread_stop("task_2", "loaded", "join_2")
  \/ kthread_stopped("task_2", "join_2", "unloaded")

PNext == mod_init \/ thread_func_2 \/ mod_exit

\* Every thread gets the processor in the end.  Nobody has to call rmmod.
Fairness ==
  /\ WF_kVars(mod_init) /\ WF_kVars(thread_func_2)
  /\ WF_kVars(at["main"] # "loaded" /\ mod_exit)

PSpec == KInit /\ [][PNext]_kVars /\ Fairness

-----------------------------------------------------------------------------
\* Properties.

\* Types, places of the threads, and that who has left the wait is awake.
PTypeOK ==
  /\ KTypeOK
  /\ at["main"] \in {"start", "set", "wake", "set_again", "wake_again",
                     "loaded", "join_2", "unloaded"}
  /\ at["task_2"] \in {"none", "error", "begin", "wait", "prepare", "recheck",
                       "schedule", "finish", "dequeue", "clear", "test",
                       "exited"}

\* Both times that insmod sets condition, task_2 may be at any place of its
\* wait: about to queue, queued, about to schedule, or just woken by the other
\* time or by rmmod.  It is never left asleep there with condition set.
WakeSeen ==
  condition = 1 /\ at["task_2"] \in {"prepare", "recheck", "schedule", "finish", "dequeue"}
    ~> condition = 0

\* people.c:64 reports the exit of task 2 once kthread_stop has returned.  A stop
\* that finds task_2 waiting with condition clear does not get it out of there
\* (task_2 looks at kthread_should_stop only after its wait), but one that comes
\* while a wake-up has not been used up ends, wherever task_2 is.
UnloadEnds == at["main"] = "join_2" /\ condition = 1 ~> at["main"] = "unloaded"
=============================================================================
