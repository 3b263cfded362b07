----------------------------- MODULE MCPrograms -----------------------------
(***************************************************************************)
(* Programs for TLC, with the fairness of each program.                    *)
(***************************************************************************)
EXTENDS Programs, TLC

CONSTANTS k1, k2

\* A process with two threads and one with a single thread, as the programs
\* SHM_Reader and SHM_Writer are; a message and a shorter one.
Threads == {"a1", "a2", "b"}
TwoAndOne == [t \in Threads |-> IF t = "b" THEN "B" ELSE "A"]
Lengths == [msg \in {"long", "short"} |-> IF msg = "long" THEN 2 ELSE 1]

\* Both watched paths change, one of them is missing at times, and the parent
\* of nested.key2 may hold something else than an object.
Paths == {"key1", "nested.key2"}
Configurations == {("key1" :> "v" @@ "nested.key2" :> x) : x \in {None, NotADict}}
                    \cup {"key1" :> "w" @@ "nested.key2" :> "v"}

\* All numbers of at most four digits, and some of five, which never end.
Numbers == 0 .. 9999 \cup {12345, 53955, 98765}

\* The processes that each module's fairness is about, numbered: as one program
\* runs at a time, one condition per number states the fairness of all of them.
Run(n) ==
  \/ program = "shm" /\ Shm!Step(<<"a1", "a2", "b">>[n])
  \/ program = "stream" /\ \E c \in Client :
       CASE n = 1 -> Stream!ReaderStep(c)
         [] n = 2 -> Stream!WriterStep(c)
         [] n = 3 -> Stream!ServerStep(c)
  \/ program = "sctp" /\ CASE n = 1 -> Sctp!ClientStep
                            [] n = 2 -> Sctp!ServerSetup
                            [] n = 3 -> Sctp!Receive
  \/ program = "person" /\ CASE n = 1 -> Person!ServerStep
                              [] n > 1 -> Person!CallerStep(<<k1, k2>>[n - 1])
  \/ program = "detached" /\ CASE n = 1 -> Detached!MainStep
                                [] n = 2 -> Detached!WorkerStep
                                [] n > 2 -> FALSE
  \/ n = 1 /\ program = "watcher" /\ Watcher!Watch
  \/ n = 1 /\ program = "kaprekar" /\ Kap!Next

Fair(n) == Run(n) /\ Idle(program)

FairSpec == Spec /\ \A n \in 1 .. 3 : WF_vars(Fair(n))

=============================================================================
