--------------------------- MODULE MCPooledSender ---------------------------
(***************************************************************************)
(* PooledSender for TLC.                                                   *)
(***************************************************************************)
EXTENDS PooledSender

\* The server may answer everything, or leave any requests without an answer:
\* fewer than there are threads, or so many that every thread is stuck.
AllSilences == SUBSET Task

=============================================================================
