------------------------------ MODULE TaskPool ------------------------------
(***************************************************************************)
(* What a pool of threads promises to the code that owns it: requests are  *)
(* accepted in order, started in that order, at most one at a time on each *)
(* thread, finished once each, and the pool closes only when every request *)
(* has finished.  There is no lock, no queue and no sleeping thread here.  *)
(***************************************************************************)
EXTENDS Naturals

CONSTANTS
  Slot,        \* what can run one request at a time
  NumTasks     \* requests are 1, 2, ..., NumTasks

VARIABLES
  accepted,    \* requests 1 .. accepted have been handed to the pool
  started,     \* requests 1 .. started have been started
  slot,        \* the request each slot is running, 0 when it is free
  finished,    \* the requests that have finished
  closed       \* the pool is gone

vars == <<accepted, started, slot, finished, closed>>

Init ==
  /\ accepted = 0
  /\ started = 0
  /\ slot = [s \in Slot |-> 0]
  /\ finished = {}
  /\ closed = FALSE

Accept ==
  /\ ~closed
  /\ accepted < NumTasks
  /\ accepted' = accepted + 1
  /\ UNCHANGED <<started, slot, finished, closed>>

Start(s) ==
  /\ slot[s] = 0
  /\ started < accepted
  /\ started' = started + 1
  /\ slot' = [slot EXCEPT ![s] = started + 1]
  /\ UNCHANGED <<accepted, finished, closed>>

Finish(s) ==
  /\ slot[s] \in (1 .. started) \ finished
  /\ finished' = finished \cup {slot[s]}
  /\ slot' = [slot EXCEPT ![s] = 0]
  /\ UNCHANGED <<accepted, started, closed>>

Close ==
  /\ ~closed
  /\ finished = 1 .. NumTasks
  /\ closed' = TRUE
  /\ UNCHANGED <<accepted, started, slot, finished>>

Next ==
  \/ Accept
  \/ \E s \in Slot : Start(s) \/ Finish(s)
  \/ Close

Spec == Init /\ [][Next]_vars

=============================================================================
