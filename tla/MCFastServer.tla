---------------------------- MODULE MCFastServer ----------------------------
(***************************************************************************)
(* FastServer for TLC.                                                     *)
(***************************************************************************)
EXTENDS FastServer

CONSTANTS c1, c2, c3

\* No silent client, fewer than the two pool threads, and as many.
SilentUpToAll == {{}, {c1}, {c1, c2}}

=============================================================================
