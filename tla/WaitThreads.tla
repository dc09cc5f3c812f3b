---------------------------- MODULE WaitThreads ----------------------------
(***************************************************************************)
(* The kernel module wait/wait.c: task_2 waits until task_3 has set        *)
(* condition and woken it, then both run until rmmod stops them, first     *)
(* task_2 and then task_3.                                                 *)
(***************************************************************************)
EXTENDS Kthread

-----------------------------------------------------------------------------
thread_func_2 ==
  \/ Begin("task_2", "wait")
  \/ wait_event_interruptible("task_2", "wait", "clear")
  \/ SetCondition("task_2", "clear", "run", 0)
  \/ kthread_should_stop("task_2", "run", "run")

\* Mutant: the waiters are woken before condition is set.
thread_func_3_wakes_first ==
  \/ Begin("task_3", "wake")
  \/ wake_up_interruptible("task_3", "wake", "set")
  \/ SetCondition("task_3", "set", "run", 1)
  \/ kthread_should_stop("task_3", "run", "run")

thread_func_3 ==
  \/ Begin("task_3", "set")
  \/ SetCondition("task_3", "set", "wake", 1)
  \/ wake_up_interruptible("task_3", "wake", "run")
  \/ kthread_should_stop("task_3", "run", "run")

mod_init ==
  \/ kthread_run("task_2", "start", "run_3")
  \/ kthread_run("task_3", "run_3", "loaded")

Skip(t, from, to) ==
  /\ IS_ERR(t)
  /\ Goto("main", from, to)
  /\ UNCHANGED <<asleep, queue, stop, condition>>

\* Mutant: the exit, too, looks at task_2 for task_3.
mod_exit_2_for_3 ==
  \/ Skip("task_2", "loaded", "exit_3")
  \/ ~IS_ERR("task_2") /\ kthread_stop("task_2", "loaded", "join_2")
  \/ kthread_stopped("task_2", "join_2", "exit_3")
  \/ /\ IS_ERR("task_2")
     /\ Goto("main", "exit_3", "unloaded")
     /\ UNCHANGED <<asleep, queue, stop, condition>>
  \/ ~IS_ERR("task_2") /\ kthread_stop("task_3", "exit_3", "join_3")
  \/ kthread_stopped("task_3", "join_3", "unloaded")

mod_exit ==
  \/ Skip("task_2", "loaded", "exit_3")
  \/ ~IS_ERR("task_2") /\ kthread_stop("task_2", "loaded", "join_2")
  \/ kthread_stopped("task_2", "join_2", "exit_3")
  \/ Skip("task_3", "exit_3", "unloaded")
  \/ ~IS_ERR("task_3") /\ kthread_stop("task_3", "exit_3", "join_3")
  \/ kthread_stopped("task_3", "join_3", "unloaded")

TNext == mod_init \/ thread_func_2 \/ thread_func_3 \/ mod_exit

\* Every thread gets the processor in the end.  Nobody has to call rmmod.
Fairness ==
  /\ WF_kVars(mod_init) /\ WF_kVars(thread_func_2) /\ WF_kVars(thread_func_3)
  /\ WF_kVars(at["main"] # "loaded" /\ mod_exit)

TSpec == KInit /\ [][TNext]_kVars /\ Fairness

-----------------------------------------------------------------------------
\* Properties.

\* Types, places of the threads, and that who has left the wait is awake.
TTypeOK ==
  /\ KTypeOK
  /\ at["main"] \in {"start", "run_3", "loaded", "join_2", "exit_3", "join_3",
                     "unloaded"}
  /\ \A t \in Task :
       at[t] \in {"none", "error", "begin", "wait", "prepare", "recheck",
                  "schedule", "finish", "dequeue", "clear", "set", "wake",
                  "run", "exited"}

\* rmmod may come before task_3 has woken task_2, and wakes it itself for a
\* condition that does not hold yet.  Even so both end, and so does rmmod
\* (wait.c:108 reports it), unless task_3 alone could not be created: then
\* nobody sets condition for task_2.
UnloadEnds ==
  /\ at["main"] \in {"join_2", "exit_3", "join_3"}
  /\ IS_ERR("task_3") => IS_ERR("task_2")
  ~> at["main"] = "unloaded"

\* However the steps of the two threads and of rmmod fall between the looks
\* of task_2 at condition, the one wake-up is not lost.
WaitEnds ==
  at["task_2"] = "prepare" ~> at["task_2"] = "clear" \/ IS_ERR("task_3")
=============================================================================
