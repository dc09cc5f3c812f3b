------------------------------- MODULE Kthread -------------------------------
(***************************************************************************)
(* Kernel threads and one wait queue, as the example modules wait/wait.c,  *)
(* people/people.c and list/ink.c use them: kthread_run, kthread_stop,     *)
(* wait_event_interruptible, wake_up_interruptible and schedule of Linux.  *)
(*                                                                         *)
(* at[t] is where thread t is, one step per access to what threads share.  *)
(* "main" is the thread of insmod and then of rmmod.  A thread may stay at *)
(* any place for any time, so that msleep is no more than the next step;   *)
(* a thread in asleep does not go on from a place where it calls schedule. *)
(***************************************************************************)
EXTENDS Integers

CONSTANT
  MayFail  \* the tasks kthread_run may fail to create, and other calls that may fail

\* The kernel threads of the three modules, under the names in the source.
Task == {"task_2", "task_3", "test_task"}

ASSUME KthreadAssumption ==
  MayFail \subseteq Task \cup {"kmalloc", "vmalloc", "kobject", "group"}

VARIABLES
  at,        \* where each thread is
  asleep,    \* the threads whose state is not TASK_RUNNING
  queue,     \* the threads in the wait queue wq
  stop,      \* the threads that were told to stop
  condition  \* what wq waits for

kVars == <<at, asleep, queue, stop, condition>>

KInit ==
  /\ at = [t \in Task \cup {"main"} |-> IF t = "main" THEN "start" ELSE "none"]
  /\ asleep = {} /\ queue = {} /\ stop = {}
  /\ condition = 0

Goto(t, from, to) == at[t] = from /\ at' = [at EXCEPT ![t] = to]

IS_ERR(t) == at[t] = "error"

-----------------------------------------------------------------------------
kthread_run(t, from, to) ==
  /\ at["main"] = from
  /\ \E result \in {"begin"} \cup {"error" : x \in MayFail \cap {t}} :
       at' = [at EXCEPT !["main"] = to, ![t] = result]
  /\ UNCHANGED <<asleep, queue, stop, condition>>

\* A thread that is told to stop before it has begun never calls its function.
Begin(t, first) ==
  /\ Goto(t, "begin", IF t \in stop THEN "exited" ELSE first)
  /\ UNCHANGED <<asleep, queue, stop, condition>>

\* kthread_should_stop, and the end of the function if it is true.
kthread_should_stop(t, from, again) ==
  /\ Goto(t, from, IF t \in stop THEN "exited" ELSE again)
  /\ UNCHANGED <<asleep, queue, stop, condition>>

\* kthread_stop wakes the thread, whatever it sleeps for, and waits for its end.
kthread_stop(t, from, waiting) ==
  /\ Goto("main", from, waiting)
  /\ stop' = stop \cup {t}
  /\ asleep' = asleep \ {t}
  /\ UNCHANGED <<queue, condition>>

kthread_stopped(t, waiting, to) ==
  /\ at[t] = "exited"
  /\ Goto("main", waiting, to)
  /\ UNCHANGED <<asleep, queue, stop, condition>>

\* set_current_state to a state that is not TASK_RUNNING.
set_current_state(t, from, to) ==
  /\ Goto(t, from, to)
  /\ asleep' = asleep \cup {t}
  /\ UNCHANGED <<queue, stop, condition>>

\* schedule returns once somebody has woken the thread.
schedule(t, to) ==
  /\ t \notin asleep
  /\ Goto(t, "schedule", to)
  /\ UNCHANGED <<asleep, queue, stop, condition>>

\* schedule_timeout returns then, or when its time has passed.
schedule_timeout(t, to) ==
  /\ Goto(t, "schedule", to)
  /\ asleep' = asleep \ {t}
  /\ UNCHANGED <<queue, stop, condition>>

-----------------------------------------------------------------------------
\* wait_event_interruptible(wq, condition) is: look, and return if condition
\* holds; else join the queue and go to sleep, look again, schedule, and so on
\* until it holds.  It does not look at kthread_should_stop.
look(t, from, to) ==
  /\ Goto(t, from, IF condition = 1 THEN to ELSE "prepare")
  /\ UNCHANGED <<asleep, queue, stop, condition>>

prepare_to_wait_event(t) ==
  /\ Goto(t, "prepare", "recheck")
  /\ queue' = queue \cup {t}
  /\ asleep' = asleep \cup {t}
  /\ UNCHANGED <<stop, condition>>

look_again(t) ==
  /\ Goto(t, "recheck", IF condition = 1 THEN "finish" ELSE "schedule")
  /\ UNCHANGED <<asleep, queue, stop, condition>>

\* Mutant: the thread stays in the queue.
finish_wait_stays(t, to) ==
  \/ /\ Goto(t, "finish", "dequeue")
     /\ asleep' = asleep \ {t}
     /\ UNCHANGED <<queue, stop, condition>>
  \/ /\ Goto(t, "dequeue", to)
     /\ UNCHANGED <<asleep, queue, stop, condition>>

\* The state is set without the lock of the queue.
finish_wait(t, to) ==
  \/ /\ Goto(t, "finish", "dequeue")
     /\ asleep' = asleep \ {t}
     /\ UNCHANGED <<queue, stop, condition>>
  \/ /\ Goto(t, "dequeue", to)
     /\ queue' = queue \ {t}
     /\ UNCHANGED <<asleep, stop, condition>>

wait_event_interruptible(t, from, to) ==
  \/ look(t, from, to) \/ prepare_to_wait_event(t)
  \/ look_again(t) \/ schedule(t, "prepare") \/ finish_wait(t, to)

\* A thread that is woken leaves the queue.
wake_up_interruptible(t, from, to) ==
  /\ Goto(t, from, to)
  /\ asleep' = asleep \ queue
  /\ queue' = queue \ asleep
  /\ UNCHANGED <<stop, condition>>

SetCondition(t, from, to, v) ==
  /\ Goto(t, from, to)
  /\ condition' = v
  /\ UNCHANGED <<asleep, queue, stop>>

-----------------------------------------------------------------------------
\* Types, and that whoever has left the wait has left the queue and is awake.
KTypeOK ==
  /\ asleep \subseteq Task /\ queue \subseteq Task /\ stop \subseteq Task
  /\ \A t \in asleep : at[t] \in {"recheck", "schedule", "finish"}
  /\ \A t \in queue : at[t] \in {"prepare", "recheck", "schedule", "finish",
                                  "dequeue"}
  /\ condition \in {0, 1}

\* A thread whose code may still run.
Alive(t) == at[t] \notin {"none", "error", "exited"}

\* When rmmod is over, no thread is left to run the code that is gone, however
\* kthread_run went: every thread that was created is stopped, and its end
\* awaited (wait.c:104-117, people.c:61-66, ink.c:107).
NoneLeft == at["main"] = "unloaded" => \A t \in Task : ~Alive(t)
=============================================================================
