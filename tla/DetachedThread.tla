--------------------------- MODULE DetachedThread ---------------------------
(***************************************************************************)
(* DetachableThreadDemo: start_thread allocates an argument, creates a     *)
(* detached thread that is to read it, and deletes it at once.  Reading a  *)
(* deleted argument gives any value.                                       *)
(***************************************************************************)

CONSTANTS Argument, Garbage

VARIABLES
  main,      \* where the main thread is
  l_ptr,     \* the argument: "none", "live", "deleted"
  worker,    \* where the detached thread is
  read       \* what the thread has read

detachedVars == <<main, l_ptr, worker, read>>

TypeOK ==
  /\ main \in {"new", "create", "delete", "sleep", "returned", "crashed"}
  /\ l_ptr \in {"none", "live", "deleted"}
  /\ worker \in {"none", "read", "run", "ended"}
  /\ read \in {Argument, Garbage, ""}

Init == main = "new" /\ l_ptr = "none" /\ worker = "none" /\ read = ""

New ==
  /\ main = "new" /\ main' = "create"
  /\ l_ptr' = "live"
  /\ UNCHANGED <<worker, read>>

\* pthread_create may fail; the argument is deleted all the same
createThreadforNotifReg ==
  /\ main = "create" /\ main' = "delete"
  /\ worker' \in {"none", "read"}
  /\ UNCHANGED <<l_ptr, read>>

MainReturns == "returned"  \* mutated: main ends after start_thread
AfterStart == "sleep"

Delete ==
  /\ main = "delete" /\ main' = AfterStart
  /\ l_ptr' = "deleted"
  /\ UNCHANGED <<worker, read>>

\* a main that returned would end the process and the thread with it
Alive == main \notin {"returned", "crashed"}

ReadArgument ==
  /\ worker = "read" /\ Alive /\ worker' = "run"
  /\ read' \in IF l_ptr = "live" THEN {Argument} ELSE {Argument, Garbage}
  /\ UNCHANGED <<main, l_ptr>>

\* start_notif_registration_thread has no return after RunCmd, which is
\* undefined: the thread ends, or what it runs into crashes the process
RunCmd ==
  /\ worker = "run" /\ Alive /\ worker' = "ended"
  /\ main' \in {main, "crashed"}
  /\ UNCHANGED <<l_ptr, read>>

MainStep == New \/ createThreadforNotifReg \/ Delete
WorkerStep == ReadArgument \/ RunCmd

Next == MainStep \/ WorkerStep

Spec ==
  /\ Init /\ [][Next]_detachedVars
  /\ WF_detachedVars(MainStep) /\ WF_detachedVars(WorkerStep)

-----------------------------------------------------------------------------
(***************************************************************************)
(* A thread that was created runs its command to the end: nobody joins it, *)
(* and it is main's endless loop that keeps the process alive              *)
(* (DetachableThreadDemo.cpp:62-67).                                       *)
(***************************************************************************)
Settled == main \in {AfterStart, "crashed"} /\ worker \in {"none", "ended"}

WorkerEnds == <>Settled
=============================================================================
