----------------------------- MODULE ValueList ------------------------------
(***************************************************************************)
(* What the list of ListDemo.c promises: a sequence of values to which     *)
(* insert appends, from which deleteNode takes the latest occurrence of a  *)
(* value, and which printList shows from the latest value to the first.    *)
(* The value -1 marks the head of the list: it can be put in, but it is    *)
(* neither found nor shown.                                                *)
(***************************************************************************)
EXTENDS Integers, Sequences, SequencesExt, FiniteSetsExt

CONSTANT Value

VARIABLES
  list,      \* the values in the order of their insertion
  printed    \* what printList showed, if nothing changed since

Visible(v) == v # -1

Init == list = <<>> /\ printed = <<>>

Insert(v) == list' = Append(list, v) /\ printed' = <<>>

Delete(v) ==
  LET places == {k \in DOMAIN list : list[k] = v} IN
  /\ Visible(v)
  /\ places # {}
  /\ list' = RemoveAt(list, Max(places))
  /\ printed' = <<>>

\* The visible values of a sequence, the latest first.
Shown(s) ==
  LET from[k \in 0 .. Len(s)] ==
        IF k = 0 THEN <<>>
        ELSE IF Visible(s[k]) THEN <<s[k]>> \o from[k - 1]
        ELSE from[k - 1]
  IN  from[Len(s)]

Show == printed' = Shown(list) /\ UNCHANGED list

Next == (\E v \in Value : Insert(v) \/ Delete(v)) \/ Show

Spec == Init /\ [][Next]_<<list, printed>>

=============================================================================
