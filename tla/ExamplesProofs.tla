--------------------------- MODULE ExamplesProofs ---------------------------
(***************************************************************************)
(* The safety properties of Examples, whatever calls may fail.             *)
(***************************************************************************)
EXTENDS Examples, TLAPS

Place == {"start", "none", "error", "begin", "wait", "prepare", "recheck",
          "schedule", "finish", "dequeue", "clear", "set", "wake", "run",
          "exited", "run_3", "loaded", "join_2", "exit_3", "join_3", "unloaded",
          "test", "set_again", "wake_again", "oops", "create", "print", "group",
          "put", "failed", "join"}

Gone == {"error", "exited"}

\* rmmod goes past a thread only when it is gone, and insmod creates each once.
WaitInv ==
  /\ Wait!TTypeOK
  /\ at \in [Task \cup {"main"} -> Place]
  /\ at["test_task"] = "none"
  /\ at["main"] = "start" => at["task_2"] = "none"
  /\ at["main"] \in {"start", "run_3"} => at["task_3"] = "none"
  /\ at["main"] \in {"exit_3", "join_3", "unloaded"} => at["task_2"] \in Gone
  /\ at["main"] = "unloaded" => at["task_3"] \in Gone

LEMMA WaitStep ==
  ASSUME WaitInv, Wait!TNext
  PROVE  WaitInv'
<1> USE DEF WaitInv, Place, Gone, Task, Wait!Task, Wait!TTypeOK, Wait!KTypeOK, Wait!Goto
<1>1. CASE Wait!mod_init
  <2>1. CASE Wait!kthread_run("task_2", "start", "run_3")
    <3>1. PICK r \in {"begin", "error"} :
            at' = [at EXCEPT !["main"] = "run_3", !["task_2"] = r]
      BY <2>1 DEF Wait!kthread_run
    <3>2. QED BY <2>1, <3>1 DEF Wait!kthread_run
  <2>2. CASE Wait!kthread_run("task_3", "run_3", "loaded")
    <3>1. PICK r \in {"begin", "error"} :
            at' = [at EXCEPT !["main"] = "loaded", !["task_3"] = r]
      BY <2>2 DEF Wait!kthread_run
    <3>2. QED BY <2>2, <3>1 DEF Wait!kthread_run
  <2>3. QED BY <1>1, <2>1, <2>2 DEF Wait!mod_init
<1>2. CASE Wait!thread_func_2
  <2>1. CASE Wait!Begin("task_2", "wait")
    BY <2>1 DEF Wait!Begin
  <2>2. CASE Wait!wait_event_interruptible("task_2", "wait", "clear")
    <3>1. CASE Wait!look("task_2", "wait", "clear")
      BY <3>1 DEF Wait!look
    <3>2. CASE Wait!prepare_to_wait_event("task_2")
      BY <3>2 DEF Wait!prepare_to_wait_event
    <3>3. CASE Wait!look_again("task_2")
      BY <3>3 DEF Wait!look_again
    <3>4. CASE Wait!schedule("task_2", "prepare")
      BY <3>4 DEF Wait!schedule
    <3>5. CASE Wait!finish_wait("task_2", "clear")
      <4>1. CASE at["task_2"] = "finish"
        BY <3>5, <4>1 DEF Wait!finish_wait
      <4>2. CASE at["task_2"] = "dequeue"
        BY <3>5, <4>2 DEF Wait!finish_wait
      <4>3. QED BY <3>5, <4>1, <4>2 DEF Wait!finish_wait
    <3>6. QED BY <2>2, <3>1, <3>2, <3>3, <3>4, <3>5 DEF Wait!wait_event_interruptible
  <2>3. CASE Wait!SetCondition("task_2", "clear", "run", 0)
    BY <2>3 DEF Wait!SetCondition
  <2>4. CASE Wait!kthread_should_stop("task_2", "run", "run")
    BY <2>4 DEF Wait!kthread_should_stop
  <2>5. QED BY <1>2, <2>1, <2>2, <2>3, <2>4 DEF Wait!thread_func_2
<1>3. CASE Wait!thread_func_3
  <2>1. CASE Wait!Begin("task_3", "set")
    BY <2>1 DEF Wait!Begin
  <2>2. CASE Wait!SetCondition("task_3", "set", "wake", 1)
    BY <2>2 DEF Wait!SetCondition
  <2>3. CASE Wait!wake_up_interruptible("task_3", "wake", "run")
    BY <2>3 DEF Wait!wake_up_interruptible
  <2>4. CASE Wait!kthread_should_stop("task_3", "run", "run")
    BY <2>4 DEF Wait!kthread_should_stop
  <2>5. QED BY <1>3, <2>1, <2>2, <2>3, <2>4 DEF Wait!thread_func_3
<1>4. CASE Wait!mod_exit
  <2>1. CASE Wait!Skip("task_2", "loaded", "exit_3")
    BY <2>1 DEF Wait!Skip, Wait!IS_ERR
  <2>2. CASE Wait!kthread_stop("task_2", "loaded", "join_2")
    BY <2>2 DEF Wait!kthread_stop
  <2>3. CASE Wait!kthread_stopped("task_2", "join_2", "exit_3")
    BY <2>3 DEF Wait!kthread_stopped
  <2>4. CASE Wait!Skip("task_3", "exit_3", "unloaded")
    BY <2>4 DEF Wait!Skip, Wait!IS_ERR
  <2>5. CASE Wait!kthread_stop("task_3", "exit_3", "join_3")
    BY <2>5 DEF Wait!kthread_stop
  <2>6. CASE Wait!kthread_stopped("task_3", "join_3", "unloaded")
    BY <2>6 DEF Wait!kthread_stopped
  <2>7. QED BY <1>4, <2>1, <2>2, <2>3, <2>4, <2>5, <2>6 DEF Wait!mod_exit
<1>5. QED
  BY <1>1, <1>2, <1>3, <1>4 DEF Wait!TNext

-----------------------------------------------------------------------------
PeopleInv ==
  /\ People!PTypeOK
  /\ at \in [Task \cup {"main"} -> Place]
  /\ at["task_3"] = "none" /\ at["test_task"] = "none"
  /\ at["main"] = "start" => at["task_2"] = "none"
  /\ at["main"] = "unloaded" => at["task_2"] \in Gone

LEMMA PeopleStep ==
  ASSUME PeopleInv, People!PNext
  PROVE  PeopleInv'
<1> USE DEF PeopleInv, Place, Gone, Task, People!Task, People!PTypeOK, People!KTypeOK, People!Goto
<1>1. CASE People!mod_init
  <2>1. CASE People!kthread_run("task_2", "start", "set")
    <3>1. PICK r \in {"begin", "error"} :
            at' = [at EXCEPT !["main"] = "set", !["task_2"] = r]
      BY <2>1 DEF People!kthread_run
    <3>2. QED BY <2>1, <3>1 DEF People!kthread_run
  <2>2. CASE People!SetCondition("main", "set", "wake", 1)
    BY <2>2 DEF People!SetCondition
  <2>3. CASE People!wake_up_interruptible("main", "wake", "set_again")
    BY <2>3 DEF People!wake_up_interruptible
  <2>4. CASE People!SetCondition("main", "set_again", "wake_again", 1)
    BY <2>4 DEF People!SetCondition
  <2>5. CASE People!wake_up_interruptible("main", "wake_again", "loaded")
    BY <2>5 DEF People!wake_up_interruptible
  <2>6. QED BY <1>1, <2>1, <2>2, <2>3, <2>4, <2>5 DEF People!mod_init
<1>2. CASE People!thread_func_2
  <2>1. CASE People!Begin("task_2", "wait")
    BY <2>1 DEF People!Begin
  <2>2. CASE People!wait_event_interruptible("task_2", "wait", "clear")
    <3>1. CASE People!look("task_2", "wait", "clear")
      BY <3>1 DEF People!look
    <3>2. CASE People!prepare_to_wait_event("task_2")
      BY <3>2 DEF People!prepare_to_wait_event
    <3>3. CASE People!look_again("task_2")
      BY <3>3 DEF People!look_again
    <3>4. CASE People!schedule("task_2", "prepare")
      BY <3>4 DEF People!schedule
    <3>5. CASE People!finish_wait("task_2", "clear")
      BY <3>5 DEF People!finish_wait
    <3>6. QED BY <2>2, <3>1, <3>2, <3>3, <3>4, <3>5 DEF People!wait_event_interruptible
  <2>3. CASE People!SetCondition("task_2", "clear", "test", 0)
    BY <2>3 DEF People!SetCondition
  <2>4. CASE People!kthread_should_stop("task_2", "test", "wait")
    BY <2>4 DEF People!kthread_should_stop
  <2>5. QED BY <1>2, <2>1, <2>2, <2>3, <2>4 DEF People!thread_func_2
<1>3. CASE People!mod_exit
  <2>1. CASE /\ People!IS_ERR("task_2")
             /\ People!Goto("main", "loaded", "unloaded")
             /\ UNCHANGED <<asleep, queue, stop, condition>>
    BY <2>1 DEF People!IS_ERR
  <2>2. CASE People!kthread_stop("task_2", "loaded", "join_2")
    BY <2>2 DEF People!kthread_stop
  <2>3. CASE People!kthread_stopped("task_2", "join_2", "unloaded")
    BY <2>3 DEF People!kthread_stopped
  <2>4. QED BY <1>3, <2>1, <2>2, <2>3 DEF People!mod_exit
<1>4. QED
  BY <1>1, <1>2, <1>3 DEF People!PNext

-----------------------------------------------------------------------------
\* The thread goes through its loop once more only after kthread_stop, and then
\* ends there.
InkInv ==
  /\ Ink!ITypeOK
  /\ at \in [Task \cup {"main"} -> Place]
  /\ at["task_2"] = "none" /\ at["task_3"] = "none"
  /\ cnt <= 1
  /\ at["main"] = "start" => at["test_task"] = "none"
  /\ at["main"] = "unloaded" => at["test_task"] \in Gone
  /\ at["test_task"] \in {"none", "error", "begin", "set"} => cnt = 0
  /\ at["test_task"] = "test" => cnt = 0 \/ "test_task" \in stop
  /\ at["test_task"] = "schedule" =>
       cnt = 1 /\ ("test_task" \in asleep \/ "test_task" \in stop)

LEMMA InkStep ==
  ASSUME InkInv, Ink!INext
  PROVE  InkInv'
<1> USE DEF InkInv, Place, Gone, Task, Ink!Task, Ink!ITypeOK, Ink!KTypeOK, Ink!Goto, Ink!IS_ERR
<1>1. CASE Ink!mylist_init
  <2>1. CASE Ink!kthread_run("test_task", "start", "loaded")
    <3>1. PICK r \in {"begin", "error"} :
            at' = [at EXCEPT !["main"] = "loaded", !["test_task"] = r]
      BY <2>1 DEF Ink!kthread_run
    <3>2. QED BY <1>1, <2>1, <3>1 DEF Ink!kthread_run, Ink!mylist_init
  <2>2. CASE /\ Ink!Goto("main", "start", "oops")
             /\ UNCHANGED <<asleep, queue, stop, condition>>
    BY <1>1, <2>2 DEF Ink!mylist_init
  <2>3. QED BY <1>1, <2>1, <2>2 DEF Ink!mylist_init
<1>2. CASE Ink!task_thread
  <2>1. CASE Ink!Begin("test_task", "test") /\ UNCHANGED cnt
    BY <2>1 DEF Ink!Begin
  <2>2. CASE Ink!kthread_should_stop("test_task", "test", "set") /\ UNCHANGED cnt
    BY <2>2 DEF Ink!kthread_should_stop
  <2>3. CASE Ink!set_current_state("test_task", "set", "schedule") /\ cnt' = cnt + 1
    BY <2>3 DEF Ink!set_current_state
  <2>4. CASE (IF cnt = 2 THEN Ink!schedule_timeout("test_task", "test")
                         ELSE Ink!schedule("test_task", "test")) /\ UNCHANGED cnt
    <3>1. UNCHANGED cnt /\ Ink!schedule("test_task", "test")
      BY <2>4
    <3>2. at["test_task"] = "schedule" /\ cnt = 1 /\ "test_task" \in stop
      BY <3>1 DEF Ink!schedule
    <3>3. QED BY <3>1, <3>2 DEF Ink!schedule
  <2>5. QED BY <1>2, <2>1, <2>2, <2>3, <2>4 DEF Ink!task_thread
<1>3. CASE Ink!mylist_exit
  <2>1. CASE /\ Ink!Goto("main", "loaded", "oops")
             /\ UNCHANGED <<asleep, queue, stop, condition>>
    BY <1>3, <2>1 DEF Ink!mylist_exit
  <2>2. CASE Ink!kthread_stop("test_task", "loaded", "join")
    <3>1. UNCHANGED cnt
      BY <1>3 DEF Ink!mylist_exit
    <3>2. Ink!KTypeOK' /\ "test_task" \in stop'
      BY <2>2 DEF Ink!kthread_stop
    <3>3. /\ at' = [at EXCEPT !["main"] = "join"]
          /\ UNCHANGED queue
      BY <2>2 DEF Ink!kthread_stop
    <3>4. QED BY <3>1, <3>2, <3>3
  <2>3. CASE Ink!kthread_stopped("test_task", "join", "unloaded")
    <3>1. UNCHANGED cnt
      BY <1>3 DEF Ink!mylist_exit
    <3>2. QED BY <2>3, <3>1 DEF Ink!kthread_stopped
  <2>4. QED BY <1>3, <2>1, <2>2, <2>3 DEF Ink!mylist_exit
<1>4. QED
  BY <1>1, <1>2, <1>3 DEF Ink!INext

-----------------------------------------------------------------------------
\* Only insmod and rmmod run.
NoThread ==
  /\ at \in [Task \cup {"main"} -> Place]
  /\ asleep = {} /\ queue = {} /\ stop = {} /\ condition \in {0, 1}
  /\ \A t \in Task : at[t] = "none"

LEMMA MainSteps ==
  ASSUME NoThread, NEW to \in Place, at' = [at EXCEPT !["main"] = to],
         UNCHANGED <<asleep, queue, stop, condition>>
  PROVE  NoThread' /\ at'["main"] = to
BY DEF NoThread, Task

DeferInv ==
  /\ NoThread
  /\ at["main"] \in {"start", "loaded", "unloaded"}
  /\ callback \in {"none", "pending", "running", "done"}
  /\ at["main"] = "start" => callback = "none"
  /\ module = "jiffies" /\ at["main"] = "unloaded" => callback # "pending"

LEMMA DeferStep ==
  ASSUME DeferInv, jiffies \/ tasklet
  PROVE  DeferInv'
<1>0. NoThread /\ UNCHANGED module
  BY DEF DeferInv, jiffies, tasklet
<1>1. CASE Defer!init
  <2>1. NoThread' /\ at'["main"] = "loaded" /\ callback' = "pending"
    BY <1>0, <1>1, MainSteps DEF Place, Defer!init, Defer!Goto
  <2>2. QED BY <2>1 DEF DeferInv
<1>2. CASE Defer!Call("pending", "running") \/ Defer!Call("running", "done")
  BY <1>0, <1>2 DEF Defer!Call, Defer!kVars, DeferInv, NoThread
<1>3. CASE module = "jiffies" /\ Defer!my_exit
  <2>1. NoThread' /\ at'["main"] = "unloaded"
    BY <1>0, <1>3, MainSteps DEF Place, Defer!my_exit, Defer!Goto
  <2>2. QED BY <1>3, <2>1 DEF DeferInv, Defer!my_exit
<1>4. CASE module = "tasklet" /\ Defer!let_exit
  <2>1. NoThread' /\ at'["main"] = "unloaded"
    BY <1>0, <1>4, MainSteps DEF Place, Defer!let_exit, Defer!Goto
  <2>2. QED BY <1>0, <1>4, <2>1 DEF DeferInv, Defer!let_exit
<1>5. QED
  BY <1>1, <1>2, <1>3, <1>4 DEF jiffies, tasklet, Defer!DNext

-----------------------------------------------------------------------------
\* What the module may hold at each place.
Holds(place) ==
  CASE module = "buffer" ->
         CASE place = "loaded" -> SUBSET {"vmalloc"}
           [] place \in {"start", "unloaded"} -> {{}}
           [] OTHER -> {}
    [] module = "list" ->
         CASE place \in {"create", "loaded", "oops"} -> SUBSET {"vmalloc"}
           [] place = "print" -> SUBSET {"vmalloc", "kmalloc"}
           [] place \in {"start", "unloaded"} -> {{}}
           [] OTHER -> {}
    [] module = "my_buffer" ->
         CASE place \in {"group", "put"} -> {{"kobject"}}
           [] place = "loaded" -> {{"kobject", "group"}}
           [] place \in {"start", "failed", "unloaded"} -> {{}}
           [] OTHER -> {}
    [] module = "test_kobject" ->
         CASE place \in {"loaded", "unloaded"} -> SUBSET {"kobject"}
           [] place = "start" -> {{}}
           [] OTHER -> {}

ResInv ==
  /\ NoThread
  /\ module \in {"buffer", "list", "my_buffer", "test_kobject"}
  /\ held \in Holds(at["main"])

LEMMA ResStep ==
  ASSUME ResInv, resources
  PROVE  ResInv'
<1>0. NoThread /\ UNCHANGED module /\ held \in Holds(at["main"])
  BY DEF resources, ResInv
<1>1. ASSUME NEW from \in Place, NEW to \in Place, NEW S, Res!Step(from, to, S),
             held \in Holds(from) => S \in Holds(to)
      PROVE  ResInv'
  <2>1. NoThread' /\ at["main"] = from /\ at'["main"] = to /\ held' = S
    BY <1>0, <1>1, MainSteps DEF Res!Step, Res!Goto
  <2>2. Holds(at["main"])' = Holds(to)
    BY <1>0, <2>1 DEF Holds
  <2>3. QED BY <1>0, <1>1, <2>1, <2>2 DEF ResInv
<1>2. CASE module = "buffer" /\ Res!buffer_init
  <2>1. held \in Holds("start") =>
          held \in Holds("loaded") /\ held \cup {"vmalloc"} \in Holds("loaded")
    BY <1>2 DEF Holds
  <2>2. QED BY <1>1, <1>2, <2>1 DEF Place, Res!buffer_init, Res!Take
<1>3. CASE module = "buffer" /\ Res!buffer_exit
  <2>1. held \in Holds("loaded") => held \ {"vmalloc"} \in Holds("unloaded")
    BY <1>3 DEF Holds
  <2>2. QED BY <1>1, <1>3, <2>1 DEF Place, Res!buffer_exit
<1>4. CASE module = "list" /\ Res!list_init
  <2>1. held \in Holds("start") =>
          held \in Holds("create") /\ held \cup {"vmalloc"} \in Holds("create")
    BY <1>4 DEF Holds
  <2>2. held \in Holds("create") =>
          held \in Holds("oops") /\ held \cup {"kmalloc"} \in Holds("print")
    BY <1>4 DEF Holds
  <2>3. held \in Holds("print") =>
          /\ held \ {"kmalloc"} \in Holds("loaded")
          /\ held \ {"kmalloc"} \in Holds("oops")
    BY <1>4 DEF Holds
  <2>4. QED
    BY <1>1, <1>4, <2>1, <2>2, <2>3
    DEF Place, Res!list_init, Res!car_create, Res!list_for_each_entry, Res!Take
<1>5. CASE module = "list" /\ Res!list_exit
  <2>1. held \in Holds("loaded") => held \ {"vmalloc"} \in Holds("unloaded")
    BY <1>5 DEF Holds
  <2>2. QED BY <1>1, <1>5, <2>1 DEF Place, Res!list_exit
<1>6. CASE module = "my_buffer" /\ Res!my_buffer_init
  <2>1. held \in Holds("start") =>
          held \in Holds("failed") /\ held \cup {"kobject"} \in Holds("group")
    BY <1>6 DEF Holds
  <2>2. held \in Holds("group") =>
          held \cup {"group"} \in Holds("loaded") /\ held \ {"kobject"} \in Holds("failed")
    BY <1>6 DEF Holds
  <2>3. QED BY <1>1, <1>6, <2>1, <2>2 DEF Place, Res!my_buffer_init, Res!Take
<1>7. CASE module = "my_buffer" /\ Res!my_buffer_exit
  <2>1. held \in Holds("loaded") => held \ {"group"} \in Holds("put")
    BY <1>7 DEF Holds
  <2>2. held \in Holds("put") => held \ {"kobject"} \in Holds("unloaded")
    BY <1>7 DEF Holds
  <2>3. QED BY <1>1, <1>7, <2>1, <2>2 DEF Place, Res!my_buffer_exit
<1>8. CASE module = "test_kobject" /\ Res!test_kobject_init
  <2>1. held \in Holds("start") =>
          held \in Holds("loaded") /\ held \cup {"kobject"} \in Holds("loaded")
    BY <1>8 DEF Holds
  <2>2. QED BY <1>1, <1>8, <2>1 DEF Place, Res!test_kobject_init, Res!Take
<1>9. CASE module = "test_kobject" /\ Res!test_kobject_exit
  <2>1. held \in Holds("loaded") => held \in Holds("unloaded")
    BY <1>9 DEF Holds
  <2>2. QED BY <1>1, <1>9, <2>1 DEF Place, Res!test_kobject_exit
<1>10. QED
  BY <1>2, <1>3, <1>4, <1>5, <1>6, <1>7, <1>8, <1>9 DEF resources

LEMMA ResNothingHeld ==
  ASSUME ResInv
  PROVE  /\ Res!RTypeOK
         /\ module \in {"buffer", "list", "my_buffer"} => Res!NothingHeld
<1>1. Res!KTypeOK
  BY DEF ResInv, NoThread, Res!KTypeOK
<1>2. QED
  BY <1>1 DEF ResInv, Holds, Res!RTypeOK, Res!NothingHeld

-----------------------------------------------------------------------------
\* The inductive invariant: of the module that is loaded.
EInv ==
  /\ module \in Module
  /\ module = "wait"   => WaitInv
  /\ module = "people" => PeopleInv
  /\ module = "ink"    => InkInv
  /\ module \in {"jiffies", "tasklet"} => DeferInv
  /\ module \in {"buffer", "list", "my_buffer", "test_kobject"} => ResInv

LEMMA EInitEstablishes == EInit => EInv
<1>1. SUFFICES ASSUME EInit PROVE EInv
  OBVIOUS
<1>2. /\ module \in Module /\ cnt = 0 /\ callback = "none" /\ held = {}
      /\ at = [t \in Task \cup {"main"} |-> IF t = "main" THEN "start" ELSE "none"]
      /\ asleep = {} /\ queue = {} /\ stop = {} /\ condition = 0
  BY <1>1 DEF EInit, Ink!IInit, Ink!KInit, Ink!Task, Defer!DInit, Res!RInit, Task
<1>3. NoThread /\ at["main"] = "start"
  BY <1>2 DEF NoThread, Task, Place
<1>4. WaitInv
  BY <1>2, <1>3 DEF WaitInv, NoThread, Task, Wait!TTypeOK, Wait!KTypeOK, Wait!Task
<1>5. PeopleInv
  BY <1>2, <1>3 DEF PeopleInv, NoThread, Task, People!PTypeOK, People!KTypeOK
<1>6. InkInv
  BY <1>2, <1>3 DEF InkInv, NoThread, Task, Ink!ITypeOK, Ink!KTypeOK
<1>7. DeferInv
  BY <1>2, <1>3 DEF DeferInv
<1>8. module \in {"buffer", "list", "my_buffer", "test_kobject"} => ResInv
  BY <1>2, <1>3 DEF ResInv, Holds
<1>9. QED
  BY <1>2, <1>4, <1>5, <1>6, <1>7, <1>8 DEF EInv

LEMMA EStep ==
  ASSUME EInv, [ENext]_eVars
  PROVE  EInv'
<1>1. CASE wait
  <2>1. module = "wait" /\ UNCHANGED module /\ Wait!TNext
    BY <1>1 DEF wait
  <2>2. WaitInv'
    BY <2>1, WaitStep DEF EInv
  <2>3. QED BY <2>1, <2>2 DEF EInv, Module
<1>2. CASE people
  <2>1. module = "people" /\ UNCHANGED module /\ People!PNext
    BY <1>2 DEF people
  <2>2. PeopleInv'
    BY <2>1, PeopleStep DEF EInv
  <2>3. QED BY <2>1, <2>2 DEF EInv, Module
<1>3. CASE ink
  <2>1. module = "ink" /\ UNCHANGED module /\ Ink!INext
    BY <1>3 DEF ink
  <2>2. InkInv'
    BY <2>1, InkStep DEF EInv
  <2>3. QED BY <2>1, <2>2 DEF EInv, Module
<1>4. CASE jiffies \/ tasklet
  <2>1. module \in {"jiffies", "tasklet"} /\ UNCHANGED module
    BY <1>4 DEF jiffies, tasklet
  <2>2. DeferInv'
    BY <1>4, <2>1, DeferStep DEF EInv
  <2>3. QED BY <2>1, <2>2 DEF EInv, Module
<1>5. CASE resources
  <2>1. module \in {"buffer", "list", "my_buffer", "test_kobject"} /\ UNCHANGED module
    BY <1>5 DEF resources
  <2>2. ResInv'
    BY <1>5, <2>1, ResStep DEF EInv
  <2>3. QED BY <2>1, <2>2 DEF EInv, Module
<1>6. CASE UNCHANGED eVars
  BY <1>6 DEF EInv, eVars, own, kVars, WaitInv, PeopleInv, InkInv, DeferInv, ResInv,
     NoThread, Holds, Wait!TTypeOK, Wait!KTypeOK, People!PTypeOK, People!KTypeOK,
     Ink!ITypeOK, Ink!KTypeOK
<1>7. QED
  BY <1>1, <1>2, <1>3, <1>4, <1>5, <1>6 DEF ENext

\* The inductive invariant holds of every module, whatever calls may fail.
THEOREM ExamplesInvariant == ESpec => []EInv
  BY EInitEstablishes, EStep, PTL DEF ESpec

\* The types and places of every module (kthread_run, list.c:40 and the others).
THEOREM ExamplesTypes == ESpec => []ETypeOK
<1>1. EInv => ETypeOK
  <2>1. SUFFICES ASSUME EInv PROVE ETypeOK
    OBVIOUS
  <2>2. NoThread => Defer!KTypeOK
    BY DEF NoThread, Defer!KTypeOK
  <2>3. DeferInv => Defer!DTypeOK
    BY <2>2 DEF DeferInv, Defer!DTypeOK
  <2>4. QED BY <2>1, <2>3, ResNothingHeld DEF EInv, ETypeOK, WaitInv, PeopleInv, InkInv
<1>2. QED
  BY <1>1, ExamplesInvariant, PTL

\* After rmmod no thread runs the code that is gone (wait.c:104-117,
\* people.c:61-66, ink.c:107), whichever kthread_run failed.
THEOREM ExamplesNoneLeft == ESpec => []NoneLeft
<1>1. EInv => NoneLeft
  BY DEF EInv, Module, WaitInv, PeopleInv, InkInv, DeferInv, ResInv, NoThread, NoneLeft,
     Alive, Gone, Task
<1>2. QED
  BY <1>1, ExamplesInvariant, PTL

\* The loop of ink.c:46 is gone through once at most: the timeout of ink.c:55 is
\* never reached.
THEOREM ExamplesAtMostOnce == ESpec => []AtMostOnce
<1>1. EInv => AtMostOnce
  BY DEF EInv, InkInv, AtMostOnce, Ink!AtMostOnce
<1>2. QED
  BY <1>1, ExamplesInvariant, PTL

\* Whichever call fails, nothing is left of a module that is not loaded
\* (kobject.c:60, buffer.c:39, list.c:75).
THEOREM ExamplesNothingHeld == ESpec => []NothingHeld
<1>1. EInv => NothingHeld
  BY ResNothingHeld DEF EInv, NothingHeld
<1>2. QED
  BY <1>1, ExamplesInvariant, PTL

\* The timer's callback does not begin after rmmod (jiffies.c:28).
THEOREM ExamplesNoneStarts == ESpec => NoneStarts
<1>1. ASSUME EInv, [ENext]_eVars
      PROVE  [module = "jiffies" => Defer!NoneStarts]_eVars
  <2>1. CASE module = "jiffies" /\ jiffies
    BY <1>1, <2>1 DEF EInv, DeferInv, jiffies, Defer!NoneStarts, Defer!DNext, Defer!init,
       Defer!Call, Defer!my_exit, Defer!Goto, Module
  <2>2. QED BY <1>1, <2>1 DEF ENext, wait, people, ink, tasklet, resources
<1>2. QED
  BY <1>1, ExamplesInvariant, PTL DEF ESpec, NoneStarts
=============================================================================
