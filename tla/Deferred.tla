------------------------------ MODULE Deferred ------------------------------
(***************************************************************************)
(* The kernel modules jiffies/jiffies.c and tasklet/tasklet.c: insmod      *)
(* leaves a function to be called later, by a timer or as a tasklet, in an *)
(* interrupt on any processor.  rmmod deletes the timer, without waiting   *)
(* for a call that has begun, and does nothing about the tasklet.          *)
(***************************************************************************)
EXTENDS Kthread

VARIABLE callback  \* "none", "pending" (it will be called), "running", "done"

dVars == <<kVars, callback>>

DInit == KInit /\ callback = "none"

-----------------------------------------------------------------------------
\* The kernel calls my_timer_callback or irq_tasklet_action, which returns.
Call(from, to) ==
  /\ callback = from
  /\ callback' = to
  /\ UNCHANGED kVars

\* my_init and let_init: mod_timer of a new timer, tasklet_schedule of a new
\* tasklet.
init ==
  /\ Goto("main", "start", "loaded")
  /\ callback' = "pending"
  /\ UNCHANGED <<asleep, queue, stop, condition>>

let_exit ==
  /\ Goto("main", "loaded", "unloaded")
  /\ UNCHANGED <<asleep, queue, stop, condition, callback>>

\* del_timer finds the timer only while it is pending.
my_exit ==
  /\ Goto("main", "loaded", "unloaded")
  /\ callback' = IF callback = "pending" THEN "none" ELSE callback
  /\ UNCHANGED <<asleep, queue, stop, condition>>

DNext(exit) == init \/ Call("pending", "running") \/ Call("running", "done") \/ exit

-----------------------------------------------------------------------------
\* Properties.

\* Types; a module that is not loaded yet has left nothing to be called.
DTypeOK ==
  /\ KTypeOK
  /\ at["main"] \in {"start", "loaded", "unloaded"}
  /\ callback \in {"none", "pending", "running", "done"}
  /\ at["main"] = "start" => callback = "none"

\* No call begins after rmmod, whose code would be gone (jiffies.c:28).  A
\* call that has begun may still run then: del_timer does not wait for it.
NoneStarts ==
  at["main"] = "unloaded" /\ callback # "running" => callback' # "running"
=============================================================================
