------------------------------ MODULE MCLogger ------------------------------
(***************************************************************************)
(* Logger for TLC.                                                         *)
(***************************************************************************)
EXTENDS Logger, TLC

CONSTANTS p1, p2, t1, t2, t3

\* Two processes on the same log file, one of them with two threads as in
\* simple_client.cxx.
TwoProcesses == [t \in {t1, t2, t3} |-> IF t = t3 THEN p2 ELSE p1]

\* The two threads of the first process run the same code.
Symmetry == Permutations({t1, t2})

=============================================================================
