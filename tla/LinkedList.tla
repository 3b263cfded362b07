----------------------------- MODULE LinkedList -----------------------------
(***************************************************************************)
(* The doubly linked list of ListDemo.c, node by node.  The heap is part   *)
(* of the state: malloc takes any address that is not in use, so that an   *)
(* address freed by deleteNode comes back, and returns NULL when there is  *)
(* none.  The loops of search and printList take a step per node.  Calls   *)
(* come in any order and with any values.                                  *)
(***************************************************************************)
EXTENDS Integers, Sequences, FiniteSets

CONSTANTS
  Addr,    \* the addresses malloc can return
  Null,    \* NULL
  Value    \* the values callers pass

ASSUME ListAssumption ==
  /\ Addr # {} /\ IsFiniteSet(Addr) /\ Null \notin Addr
  /\ Value \subseteq Int

VARIABLES
  mem,          \* the allocated addresses
  data, prev, next,  \* the fields of the node at each address
  head,
  currentNode,
  call,         \* the call that is being executed
  value,        \* the argument of deleteNode and of its search
  latest,       \* the node that search or printList looks at
  out,          \* what printList has shown so far
  printed       \* what printList showed if nothing changed since (history)

heap == <<mem, data, prev, next, head, currentNode>>
vars == <<heap, call, value, latest, out, printed>>

HEAD == -1     \* head->data

Pointer == Addr \cup {Null}

TypeOK ==
  /\ mem \subseteq Addr
  /\ data \in [Addr -> Value \cup {HEAD}]
  /\ prev \in [Addr -> Pointer]
  /\ next \in [Addr -> Pointer]
  /\ head \in Pointer
  /\ currentNode \in Pointer
  /\ call \in {"start", "none", "delete", "print", "crashed"}
  /\ value \in Value \cup {HEAD}
  /\ latest \in Pointer
  /\ out \in Seq(Value)
  /\ printed \in Seq(Value)

Init ==
  /\ mem = {}
  /\ data = [a \in Addr |-> HEAD]
  /\ prev = [a \in Addr |-> Null]
  /\ next = [a \in Addr |-> Null]
  /\ head = Null
  /\ currentNode = Null
  /\ call = "start"
  /\ value = HEAD
  /\ latest = Null
  /\ out = <<>>
  /\ printed = <<>>

initilizeList ==
  /\ call = "start"
  /\ \E a \in Addr :
       /\ mem' = {a}
       /\ data' = [data EXCEPT ![a] = HEAD]
       /\ prev' = [prev EXCEPT ![a] = Null]
       /\ next' = [next EXCEPT ![a] = Null]
       /\ head' = a
       /\ currentNode' = a
  /\ call' = "none"
  /\ UNCHANGED <<value, latest, out, printed>>

-----------------------------------------------------------------------------
(***************************************************************************)
(* insert.                                                                 *)
(***************************************************************************)

insert(v) ==
  /\ call = "none"
  /\ \E a \in Addr \ mem :
       /\ mem' = mem \cup {a}
       /\ data' = [data EXCEPT ![a] = v]
       /\ prev' = [prev EXCEPT ![a] = currentNode]
       /\ next' = [next EXCEPT ![currentNode] = a, ![a] = Null]
       /\ currentNode' = a
  /\ printed' = <<>>
  /\ UNCHANGED <<head, call, value, latest, out>>

\* Mutant of insertCrashes: the NULL node is linked in like any other.
insertCrashes_GoesOn ==
  /\ call = "none"
  /\ mem = Addr
  /\ mem' = mem \cup {Null}
  /\ currentNode' = Null
  /\ UNCHANGED <<data, prev, next, head, call, value, latest, out, printed>>

\* malloc returns NULL, which insert writes through.
insertCrashes ==
  /\ call = "none"
  /\ mem = Addr
  /\ next' = [next EXCEPT ![currentNode] = Null]
  /\ call' = "crashed"
  /\ UNCHANGED <<mem, data, prev, head, currentNode, value, latest, out, printed>>

-----------------------------------------------------------------------------
(***************************************************************************)
(* deleteNode, which begins with search.                                   *)
(***************************************************************************)

deleteNode(v) ==
  /\ call = "none"
  /\ call' = "delete"
  /\ value' = v
  /\ latest' = currentNode
  /\ UNCHANGED <<heap, out, printed>>

\* Mutant of Found: the mark of the head is not excluded.
Found_HeadToo == data[latest] = value

\* The test inside the loop of search.
Found == data[latest] # HEAD /\ data[latest] = value

SearchOn ==
  /\ call = "delete"
  /\ latest # Null
  /\ ~Found
  /\ latest' = prev[latest]
  /\ UNCHANGED <<heap, call, value, out, printed>>

\* deleteNode is over.
Return == call' = "none" /\ latest' = Null /\ value' = HEAD

SearchFails ==
  /\ call = "delete"
  /\ latest = Null
  /\ Return
  /\ UNCHANGED <<heap, out, printed>>

\* Mutant of Unlink: the last node goes and currentNode stays on it.
Unlink_KeepsCurrent ==
  /\ call = "delete"
  /\ latest # Null
  /\ Found
  /\ LET nodeAfter == next[latest]
         nodeBefore == prev[latest]
     IN  /\ next' = [next EXCEPT ![nodeBefore] = nodeAfter]
         /\ prev' = IF nodeAfter # Null THEN [prev EXCEPT ![nodeAfter] = nodeBefore]
                    ELSE prev
  /\ mem' = mem \ {latest}
  /\ printed' = <<>>
  /\ Return
  /\ UNCHANGED <<data, head, currentNode, out>>

\* Mutant of Unlink: no free.
Unlink_NoFree ==
  /\ call = "delete"
  /\ latest # Null
  /\ Found
  /\ LET nodeAfter == next[latest]
         nodeBefore == prev[latest]
     IN  /\ next' = [next EXCEPT ![nodeBefore] = nodeAfter]
         /\ IF nodeAfter # Null
            THEN /\ prev' = [prev EXCEPT ![nodeAfter] = nodeBefore]
                 /\ UNCHANGED currentNode
            ELSE currentNode' = nodeBefore /\ UNCHANGED prev
  /\ printed' = <<>>
  /\ Return
  /\ UNCHANGED <<mem, data, head, out>>

\* search has returned a node: it is taken out of the chain and freed.  The
\* branch for a node without `prev' is left out: it is never taken (HasPrev).
Unlink ==
  /\ call = "delete"
  /\ latest # Null
  /\ Found
  /\ LET nodeAfter == next[latest]
         nodeBefore == prev[latest]
     IN  /\ next' = [next EXCEPT ![nodeBefore] = nodeAfter]
         /\ IF nodeAfter # Null
            THEN /\ prev' = [prev EXCEPT ![nodeAfter] = nodeBefore]
                 /\ UNCHANGED currentNode
            ELSE currentNode' = nodeBefore /\ UNCHANGED prev
  /\ mem' = mem \ {latest}
  /\ printed' = <<>>
  /\ Return
  /\ UNCHANGED <<data, head, out>>

-----------------------------------------------------------------------------
(***************************************************************************)
(* printList.                                                              *)
(***************************************************************************)

printList ==
  /\ call = "none"
  /\ call' = "print"
  /\ latest' = currentNode
  /\ UNCHANGED <<heap, value, out, printed>>

\* Mutant of PrintOn: stops in front of the oldest value.
PrintOn_Short ==
  /\ call = "print"
  /\ latest # Null
  /\ out' = IF data[latest] # HEAD /\ prev[latest] # head
            THEN Append(out, data[latest]) ELSE out
  /\ latest' = prev[latest]
  /\ UNCHANGED <<heap, call, value, printed>>

PrintOn ==
  /\ call = "print"
  /\ latest # Null
  /\ out' = IF data[latest] # HEAD THEN Append(out, data[latest]) ELSE out
  /\ latest' = prev[latest]
  /\ UNCHANGED <<heap, call, value, printed>>

PrintEnds ==
  /\ call = "print"
  /\ latest = Null
  /\ printed' = out
  /\ out' = <<>>
  /\ call' = "none"
  /\ UNCHANGED <<heap, value, latest>>

Crashed == call = "crashed" /\ UNCHANGED vars

Next ==
  \/ initilizeList
  \/ \E v \in Value : insert(v) \/ deleteNode(v)
  \/ insertCrashes
  \/ SearchOn \/ SearchFails \/ Unlink
  \/ printList \/ PrintOn \/ PrintEnds
  \/ Crashed

Spec == Init /\ [][Next]_vars

-----------------------------------------------------------------------------
(***************************************************************************)
(* Properties.                                                             *)
(***************************************************************************)

Built == call # "start"

\* The chain is sound in both directions: the head is its only node without
\* `prev' and currentNode its only one without `next', the two links of
\* neighbours mirror each other, and no link leads to memory that has been
\* freed or was never allocated (ListDemo.c:34-41,65-79).
Linked ==
  Built =>
    /\ head \in mem /\ currentNode \in mem
    /\ prev[head] = Null /\ next[currentNode] = Null
    /\ \A n \in mem \ {head} : prev[n] \in mem /\ next[prev[n]] = n
    /\ \A n \in mem \ {currentNode} : next[n] \in mem /\ prev[next[n]] = n

\* search never hands the head to deleteNode, not even for the value -1, so
\* the branch that would write through NULL is dead and the node it does
\* hand over is allocated (ListDemo.c:49,61-64,80-86).
HasPrev ==
  (call = "delete" /\ latest # Null) =>
     latest \in mem /\ (Found => prev[latest] # Null)

\* The nodes from currentNode back to the head, at most as many as there are
\* addresses.
Nodes ==
  LET walk[k \in 0 .. Cardinality(Addr)] ==
        IF k = 0 THEN <<>>
        ELSE LET seen == walk[k - 1]
                 n == IF seen = <<>> THEN currentNode ELSE prev[seen[Len(seen)]]
             IN  IF n = Null THEN seen ELSE Append(seen, n)
  IN  walk[Cardinality(Addr)]

\* Nothing leaks and nothing is reached twice: the chain from currentNode
\* passes every allocated node once and ends at the head
\* (ListDemo.c:35-41,67-76,88).
NothingLeaks ==
  Built => /\ {Nodes[k] : k \in DOMAIN Nodes} = mem
           /\ Len(Nodes) = Cardinality(mem)
           /\ Nodes[Len(Nodes)] = head

\* The values in the chain, oldest first, without the head's.
Contents ==
  [k \in 1 .. (Len(Nodes) - 1) |-> data[Nodes[Len(Nodes) - k]]]

Abstract == INSTANCE ValueList WITH
  list <- IF Built THEN Contents ELSE <<>>

\* The chain of nodes behaves as the sequence of ValueList: insert appends,
\* deleteNode takes out the latest occurrence and nothing else, printList
\* shows what is there from the latest to the oldest (ListDemo.c:33-136).
ImplementsValueList == Abstract!Spec

=============================================================================
