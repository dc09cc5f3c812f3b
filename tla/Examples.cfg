CONSTANTS
  MayFail = {"task_2", "task_3", "test_task", "kmalloc", "vmalloc", "kobject",
             "group"}
SPECIFICATION ESpec
INVARIANTS ETypeOK NoneLeft AtMostOnce NothingHeld
PROPERTIES WaitUnloadEnds WaitEnds WakeSeen PeopleUnloadEnds InkUnloadEnds NoneStarts
\* The module may be gone, and its threads with it.
CHECK_DEADLOCK FALSE
