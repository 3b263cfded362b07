-------------------------- MODULE LinkedListProofs --------------------------
(***************************************************************************)
(* The chain of ListDemo.c is sound for every set of addresses and values  *)
(* and after every sequence of calls.  Linked is not inductive by itself:  *)
(* to unlink a node deleteNode relies on search returning an allocated     *)
(* node that is not the head, hence on the head keeping its mark.          *)
(*                                                                         *)
(* From there to the contents of the list: the nodes form one sequence     *)
(* from currentNode back to the head (IsChain), which insert lengthens and *)
(* deleteNode shortens by one.  What is defined by walking that sequence   *)
(* (Nodes, Contents, what printList has shown) is found by taking the      *)
(* first place where it would go wrong (LeastNumber).                      *)
(***************************************************************************)
EXTENDS LinkedList, SequenceTheorems, FiniteSetTheorems, WellFoundedInduction,
        TLAPS

\* The node search or printList looks at is allocated, and the head has its
\* mark.
Walking ==
  /\ Built => data[head] = HEAD /\ latest \in mem \cup {Null}
  /\ ~Built => latest = Null

IndInv == TypeOK /\ Linked /\ Walking

\* Before initilizeList there is no chain (ListDemo.c:23-30).
LEMMA InitIndInv == Init => IndInv
  BY ListAssumption DEF Init, IndInv, TypeOK, Linked, Walking, Built, Pointer, HEAD

\* The node that search has found lies between two nodes, or behind one when
\* it is the last (ListDemo.c:62-69).
LEMMA FoundNode ==
  ASSUME IndInv, call = "delete", latest # Null, Found
  PROVE  /\ latest \in mem /\ latest # head
         /\ prev[latest] \in mem /\ next[prev[latest]] = latest
         /\ latest = currentNode <=> next[latest] = Null
         /\ next[latest] # Null =>
              /\ next[latest] \in mem /\ prev[next[latest]] = latest
              /\ next[latest] # head
              /\ prev[latest] # currentNode
  <1> USE DEF IndInv, Linked, Walking, Built
  <1>1. latest \in mem /\ latest # head
    BY DEF Found
  <1>2. prev[latest] \in mem /\ next[prev[latest]] = latest
    BY <1>1
  <1>3. mem \subseteq Addr /\ Null \notin mem
    BY ListAssumption DEF TypeOK
  <1>4. latest = currentNode <=> next[latest] = Null
    BY <1>1, <1>3
  <1>5. next[latest] # Null => next[latest] \in mem /\ prev[next[latest]] = latest
    BY <1>1, <1>4
  <1>6. prev[latest] # currentNode
    BY <1>1, <1>2, <1>3
  <1> QED BY <1>1, <1>2, <1>3, <1>4, <1>5, <1>6

\* Every call, and every step of its loops, keeps the chain sound
\* (ListDemo.c:23-136).
LEMMA NextIndInv == IndInv /\ [Next]_vars => IndInv'
  <1> SUFFICES ASSUME IndInv, [Next]_vars PROVE IndInv'
    OBVIOUS
  <1> USE ListAssumption
  <1>1. CASE initilizeList
    <2>1. PICK a \in Addr :
            /\ mem' = {a}
            /\ data' = [data EXCEPT ![a] = HEAD]
            /\ prev' = [prev EXCEPT ![a] = Null]
            /\ next' = [next EXCEPT ![a] = Null]
            /\ head' = a /\ currentNode' = a
      BY <1>1 DEF initilizeList
    <2>2. TypeOK'
      BY <1>1, <2>1 DEF initilizeList, IndInv, TypeOK, Pointer
    <2>3. Linked'
      BY <2>1 DEF IndInv, TypeOK, Linked
    <2>4. Walking'
      BY <1>1, <2>1 DEF initilizeList, Walking, Built, IndInv, TypeOK
    <2> QED BY <2>2, <2>3, <2>4 DEF IndInv
  <1>2. ASSUME NEW v \in Value, insert(v) PROVE IndInv'
    <2>0. Built /\ Built'
      BY <1>2 DEF insert, Built
    <2>1. PICK a \in Addr \ mem :
            /\ mem' = mem \cup {a}
            /\ data' = [data EXCEPT ![a] = v]
            /\ prev' = [prev EXCEPT ![a] = currentNode]
            /\ next' = [next EXCEPT ![currentNode] = a, ![a] = Null]
            /\ currentNode' = a
      BY <1>2 DEF insert
    <2>3. /\ printed' = <<>> /\ head' = head /\ call' = call /\ value' = value
          /\ latest' = latest /\ out' = out
      BY <1>2 DEF insert
    <2>2. TypeOK'
      <3>1. data' \in [Addr -> Value \cup {HEAD}]
        BY <2>1 DEF IndInv, TypeOK
      <3>2. prev' \in [Addr -> Pointer] /\ next' \in [Addr -> Pointer]
        <4>1. prev \in [Addr -> Pointer] /\ next \in [Addr -> Pointer]
          BY DEF IndInv, TypeOK
        <4>2. a \in Pointer /\ Null \in Pointer /\ currentNode \in Pointer
          BY DEF IndInv, TypeOK, Pointer
        <4> QED BY <2>1, <4>1, <4>2
      <3>3. mem' \subseteq Addr /\ currentNode' \in Pointer
        BY <2>1 DEF IndInv, TypeOK, Pointer
      <3>4. printed' \in Seq(Value)
        BY <2>3
      <3> QED
        BY <2>3, <3>1, <3>2, <3>3, <3>4 DEF IndInv, TypeOK
    <2>4. Linked'
      BY <2>0, <2>1, <2>3 DEF IndInv, TypeOK, Linked
    <2>5. Walking'
      BY <2>0, <2>1, <2>3 DEF IndInv, TypeOK, Linked, Walking
    <2> QED BY <2>2, <2>4, <2>5 DEF IndInv
  <1>3. CASE insertCrashes
    <2>1. Built /\ Built'
      BY <1>3 DEF insertCrashes, Built
    <2>2. next' = next
      BY <1>3, <2>1 DEF insertCrashes, IndInv, TypeOK, Linked
    <2> QED
      BY <1>3, <2>1, <2>2 DEF insertCrashes, IndInv, TypeOK, Linked, Walking
  <1>4. ASSUME NEW v \in Value, deleteNode(v) PROVE IndInv'
    BY <1>4 DEF deleteNode, heap, IndInv, TypeOK, Pointer, Linked, Walking, Built
  <1>5. CASE SearchOn
    <2>1. Built /\ Built' /\ latest \in mem
      BY <1>5 DEF SearchOn, Built, IndInv, Walking
    <2>2. prev[latest] \in mem \cup {Null}
      BY <2>1 DEF IndInv, Linked
    <2> QED
      BY <1>5, <2>1, <2>2 DEF SearchOn, heap, IndInv, TypeOK, Pointer, Linked, Walking
  <1>6. CASE SearchFails
    BY <1>6 DEF SearchFails, Return, heap, IndInv, TypeOK, Pointer, Linked, Walking, Built
  <1>7. CASE Unlink
    <2> DEFINE after == next[latest]
               before == prev[latest]
    <2>0. /\ call = "delete" /\ latest # Null /\ Found
          /\ Built /\ Built'
      BY <1>7 DEF Unlink, Return, Built
    <2>1. /\ latest \in mem /\ latest # head
          /\ before \in mem /\ next[before] = latest
          /\ latest = currentNode <=> after = Null
          /\ after # Null => /\ after \in mem /\ prev[after] = latest
                             /\ after # head /\ before # currentNode
      BY <2>0, FoundNode
    <2>2. /\ next' = [next EXCEPT ![before] = after]
          /\ after # Null => /\ prev' = [prev EXCEPT ![after] = before]
                             /\ currentNode' = currentNode
          /\ after = Null => currentNode' = before /\ prev' = prev
          /\ mem' = mem \ {latest}
          /\ head' = head /\ data' = data /\ latest' = Null
      BY <1>7 DEF Unlink, Return
    <2> HIDE DEF after, before
    <2>3. TypeOK'
      BY <1>7, <2>1, <2>2 DEF Unlink, Return, IndInv, TypeOK, Pointer, HEAD
    <2>4. Linked'
      <3>1. CASE after = Null
        BY <2>0, <2>1, <2>2, <3>1 DEF IndInv, TypeOK, Linked, before, after
      <3>2. CASE after # Null
        BY <2>0, <2>1, <2>2, <3>2 DEF IndInv, TypeOK, Linked, before, after
      <3> QED BY <3>1, <3>2
    <2>5. Walking'
      BY <2>0, <2>2 DEF IndInv, Walking
    <2> QED BY <2>3, <2>4, <2>5 DEF IndInv
  <1>8. CASE printList
    BY <1>8 DEF printList, heap, IndInv, TypeOK, Pointer, Linked, Walking, Built
  <1>9. CASE PrintOn
    <2>1. Built /\ Built' /\ latest \in mem
      BY <1>9 DEF PrintOn, Built, IndInv, Walking
    <2>2. prev[latest] \in mem \cup {Null}
      BY <2>1 DEF IndInv, Linked
    <2>3. out' \in Seq(Value)
      BY <1>9, <2>1 DEF PrintOn, IndInv, TypeOK
    <2> QED
      BY <1>9, <2>1, <2>2, <2>3 DEF PrintOn, heap, IndInv, TypeOK, Pointer, Linked, Walking
  <1>10. CASE PrintEnds
    BY <1>10 DEF PrintEnds, heap, IndInv, TypeOK, Pointer, Linked, Walking, Built
  <1>11. CASE UNCHANGED vars
    BY <1>11 DEF vars, heap, IndInv, TypeOK, Linked, Walking, Built
  <1> QED
    BY <1>1, <1>2, <1>3, <1>4, <1>5, <1>6, <1>7, <1>8, <1>9, <1>10, <1>11
    DEF Next, Crashed

\* The inductive invariant holds always.
THEOREM Invariance == Spec => []IndInv
  BY InitIndInv, NextIndInv, PTL DEF Spec

\* Every value of the state has its type, whatever the calls.
THEOREM TypeCorrect == Spec => []TypeOK
  BY Invariance, PTL DEF IndInv

\* Whatever is inserted, deleted and printed, the two directions of the chain
\* mirror each other and no link dangles (ListDemo.c:34-41,65-79).
THEOREM ChainSound == Spec => []Linked
  BY Invariance, PTL DEF IndInv

\* deleteNode never works on the head nor on freed memory: its second branch,
\* which would write through NULL, is dead code (ListDemo.c:61-64,80-86).
THEOREM HeadNeverDeleted == Spec => []HasPrev
  <1>1. IndInv => HasPrev
    <2> SUFFICES ASSUME IndInv, call = "delete", latest # Null
                 PROVE latest \in mem /\ (Found => prev[latest] # Null)
      BY DEF HasPrev
    <2>1. latest \in mem
      BY DEF IndInv, Walking, Built
    <2>2. Found => prev[latest] \in mem
      BY FoundNode
    <2> QED
      BY <2>1, <2>2, ListAssumption DEF IndInv, TypeOK
  <1> QED BY <1>1, Invariance, PTL

-----------------------------------------------------------------------------
(***************************************************************************)
(* One chain through all nodes.                                            *)
(***************************************************************************)

\* A non-empty set of natural numbers has a least element: the first node of
\* a walk (ListDemo.c:47-54,124-132) at which a claim about it would fail.
LEMMA LeastNumber ==
  ASSUME NEW S, S \subseteq Nat, S # {}
  PROVE  \E n \in S : \A k \in S : n <= k
<1> DEFINE R == OpToRel(<, Nat)
<1>1. IsWellFoundedOn(R, Nat)
  BY NatLessThanWellFounded
<1>2. \A x, y \in Nat : x < y => <<x, y>> \in R
  BY DEF OpToRel
<1> HIDE DEF R
<1>3. PICK n \in S : \A k \in S : ~(<<k, n>> \in R)
  BY <1>1, WFMin
<1>4. \A k \in S : ~(k < n)
  BY <1>2, <1>3, Zenon
<1> QED BY <1>3, <1>4

\* s is the way from currentNode back to the head, past every allocated node
\* and past none of them twice.
IsChain(s) ==
  /\ s \in Seq(mem) /\ Len(s) > 0
  /\ s[1] = currentNode /\ s[Len(s)] = head
  /\ \A k \in 1 .. Len(s) - 1 : s[k + 1] = prev[s[k]]
  /\ \A j, k \in 1 .. Len(s) : s[j] = s[k] => j = k
  /\ \A a \in mem : \E k \in 1 .. Len(s) : s[k] = a

\* The chain is as long as there are nodes: malloc and free
\* (ListDemo.c:35,88) are matched by the links.
LEMMA ChainLength ==
  ASSUME TypeOK, NEW s, IsChain(s)
  PROVE  /\ Len(s) \in Nat /\ \A k \in 1 .. Len(s) : s[k] \in mem
         /\ IsFiniteSet(mem) /\ Cardinality(mem) = Len(s)
         /\ Cardinality(Addr) \in Nat /\ Len(s) <= Cardinality(Addr)
<1>1. Len(s) \in Nat /\ s \in [1 .. Len(s) -> mem]
  BY LenProperties DEF IsChain
<1>2. IsFiniteSet(1 .. Len(s)) /\ Cardinality(1 .. Len(s)) = Len(s)
  BY <1>1, FS_Interval
<1>3. s \in Bijection(1 .. Len(s), mem)
  BY <1>1 DEF IsChain, Bijection, Injection, Surjection, IsInjective
<1>4. IsFiniteSet(mem) /\ Cardinality(mem) = Len(s)
  <2>1. ExistsBijection(1 .. Len(s), mem)
    BY <1>3 DEF ExistsBijection
  <2> QED BY <1>2, <2>1, FS_Bijection
<1>5. Cardinality(mem) <= Cardinality(Addr) /\ Cardinality(Addr) \in Nat
  BY ListAssumption, FS_Subset, FS_CardinalityType DEF TypeOK
<1> QED BY <1>1, <1>4, <1>5

\* A beginning of a sequence grows by the next element, as a walk over
\* `prev' does (ListDemo.c:53,130).
LEMMA Grown ==
  ASSUME NEW S, NEW s \in Seq(S), NEW k \in 1 .. Len(s)
  PROVE  SubSeq(s, 1, k) = Append(SubSeq(s, 1, k - 1), s[k])
<1>1. Len(s) \in Nat /\ \A j \in 1 .. Len(s) : s[j] \in S
  BY LenProperties, ElementOfSeq
<1>2. SubSeq(s, 1, k) = SubSeq(s, 1, k - 1) \o <<s[k]>>
  BY <1>1, SubSeqRecursiveSecond
<1>3. SubSeq(s, 1, k - 1) \in Seq(S)
  BY <1>1, SubSeqProperties
<1> QED BY <1>1, <1>2, <1>3, AppendIsConcat

\* Following `prev' from currentNode until NULL (ListDemo.c:46-54,122-132)
\* yields the chain: the walk has neither stopped early nor gone in circles.
LEMMA NodesAreTheChain ==
  ASSUME IndInv, Built, NEW s, IsChain(s)
  PROVE  Nodes = s
<1> DEFINE N == Cardinality(Addr)
           After(seen) == IF seen = <<>> THEN currentNode ELSE prev[seen[Len(seen)]]
           On(seen) == IF After(seen) = Null THEN seen ELSE Append(seen, After(seen))
           Part(k) == IF k <= Len(s) THEN SubSeq(s, 1, k) ELSE s
           W == [k \in 0 .. N |-> Part(k)]
<1>1. /\ Len(s) \in Nat /\ N \in Nat /\ Len(s) <= N /\ s \in Seq(mem) /\ Len(s) > 0
      /\ \A k \in 1 .. Len(s) : s[k] \in mem
  BY ChainLength DEF IndInv, IsChain
<1>2. Null \notin mem /\ prev[head] = Null
  BY ListAssumption DEF IndInv, TypeOK, Linked
<1>3. Part(0) = <<>>
  BY <1>1, SubSeqEmpty
<1>4. ASSUME NEW k \in 1 .. N PROVE Part(k) = On(Part(k - 1))
  <2>1. CASE k = 1
    <3>1. SubSeq(s, 1, 1) = Append(SubSeq(s, 1, 0), s[1])
      BY <1>1, Grown
    <3>2. Part(1) = Append(Part(0), s[1]) /\ s[1] = currentNode /\ s[1] # Null
      BY <1>1, <1>2, <3>1 DEF IsChain
    <3> HIDE DEF Part
    <3> QED BY <1>3, <2>1, <3>2
  <2>2. CASE k > 1 /\ k <= Len(s)
    <3> DEFINE t == SubSeq(s, 1, k - 1)
    <3>1. t \in Seq(mem) /\ Len(t) = k - 1 /\ t[k - 1] = s[k - 1] /\ t # <<>>
      BY <1>1, <2>2, SubSeqProperties
    <3>2. prev[s[k - 1]] = s[k]
      <4>1. k - 1 \in 1 .. Len(s) - 1 /\ (k - 1) + 1 = k
        BY <1>1, <2>2
      <4>2. s[(k - 1) + 1] = prev[s[k - 1]]
        BY <4>1 DEF IsChain
      <4> QED BY <4>1, <4>2
    <3>3. SubSeq(s, 1, k) = Append(t, s[k])
      BY <1>1, <2>2, Grown
    <3>4. Part(k) = SubSeq(s, 1, k) /\ Part(k - 1) = t /\ s[k] # Null
      BY <1>1, <1>2, <2>2
    <3> HIDE DEF t, Part
    <3> QED BY <3>1, <3>2, <3>3, <3>4
  <2>3. CASE k > Len(s)
    <3>1. SubSeq(s, 1, Len(s)) = s
      BY <1>1, SubSeqFull
    <3>2. Part(k) = s /\ Part(k - 1) = s
      <4>1. CASE k - 1 = Len(s)
        <5>1. SubSeq(s, 1, k - 1) = s
          BY <3>1, <4>1, Zenon
        <5>2. k - 1 <= Len(s) /\ ~(k <= Len(s))
          BY <1>1, <4>1
        <5> QED BY <5>1, <5>2
      <4>2. CASE k - 1 > Len(s)
        BY <1>1, <2>3, <4>2
      <4> QED BY <1>1, <2>3, <4>1, <4>2
    <3>3. s # <<>> /\ prev[s[Len(s)]] = Null
      BY <1>1, <1>2 DEF IsChain
    <3> HIDE DEF Part
    <3> QED BY <3>2, <3>3
  <2>4. k = 1 \/ (k > 1 /\ k <= Len(s)) \/ k > Len(s)
    BY <1>1
  <2> HIDE DEF On, Part
  <2> QED BY <2>1, <2>2, <2>3, <2>4
<1> HIDE DEF On, Part
<1> DEFINE Walk(f) == [k \in 0 .. N |-> IF k = 0 THEN <<>> ELSE On(f[k - 1])]
<1>5. W = Walk(W)
  BY <1>1, <1>3, <1>4
<1>6. ASSUME NEW f, f = Walk(f) PROVE f = W
  <2> DEFINE S == {k \in 0 .. N : f[k] # W[k]}
  <2>1. S = {}
    <3> SUFFICES ASSUME S # {} PROVE FALSE
      OBVIOUS
    <3>1. PICK k \in S : \A j \in S : k <= j
      <4>1. S \subseteq Nat
        BY <1>1
      <4> HIDE DEF S
      <4> QED BY <4>1, LeastNumber
    <3>2. k # 0
      BY <1>1, <1>3, <1>6
    <3>3. k \in 1 .. N /\ k - 1 \in 0 .. N /\ k - 1 \notin S
      BY <1>1, <3>1, <3>2
    <3>4. f[k] = On(f[k - 1]) /\ f[k - 1] = W[k - 1]
      BY <1>1, <1>6, <3>2, <3>3
    <3>5. W[k] = On(W[k - 1])
      BY <1>1, <1>4, <3>3
    <3> QED BY <3>1, <3>4, <3>5
  <2>2. f = [k \in 0 .. N |-> f[k]]
    BY <1>6
  <2> HIDE DEF W
  <2>3. W = [k \in 0 .. N |-> W[k]]
    BY DEF W
  <2> QED BY <2>1, <2>2, <2>3
<1>7. W[N] = s
  BY <1>1 DEF Part
<1> DEFINE F == CHOOSE f : f = Walk(f)
<1>8. F = W
  <2> HIDE DEF Walk, W
  <2>1. F = Walk(F)
    BY <1>5
  <2> QED BY <1>6, <2>1
<1>9. Nodes = F[N]
  BY DEF Nodes, On
<1> QED BY <1>7, <1>8, <1>9

\* There is only one such chain, the one search and printList follow
\* (ListDemo.c:46-54,122-132).
LEMMA OneChain == IndInv /\ Built => \A s : IsChain(s) => Nodes = s
  BY NodesAreTheChain

\* insert puts the new node in front of the others (ListDemo.c:35-41).
LEMMA InsertGrows ==
  ASSUME IndInv, NEW s, IsChain(s), NEW a \in Addr \ mem,
         mem' = mem \cup {a}, currentNode' = a, head' = head,
         prev' = [prev EXCEPT ![a] = currentNode]
  PROVE  \E t : /\ IsChain(t)' /\ Len(t) = Len(s) + 1 /\ t[1] = a
                /\ \A k \in 1 .. Len(s) : t[k + 1] = s[k]
<1>0. PICK t : t = <<a>> \o s
  OBVIOUS
<1>1. s \in Seq(mem) /\ Len(s) \in Nat /\ Len(s) > 0 /\ \A k \in 1 .. Len(s) : s[k] \in mem
  BY LenProperties, ElementOfSeq DEF IsChain
<1>2. s \in Seq(mem') /\ <<a>> \in Seq(mem') /\ Len(<<a>>) = 1 /\ <<a>>[1] = a
  BY <1>1, SeqMonotonic
<1>3. /\ t \in Seq(mem') /\ Len(t) = Len(s) + 1 /\ t[1] = a
      /\ \A k \in 2 .. Len(s) + 1 : t[k] = s[k - 1]
  <2>1. /\ t \in Seq(mem') /\ Len(t) = 1 + Len(s)
        /\ \A k \in 1 .. 1 + Len(s) : t[k] = IF k <= 1 THEN <<a>>[k] ELSE s[k - 1]
    BY <1>0, <1>2, ConcatProperties
  <2> QED BY <1>1, <1>2, <2>1
<1>4. \A k \in 1 .. Len(s) : t[k + 1] = s[k]
  BY <1>1, <1>3
<1>5. t[Len(t)] = head'
  <2>1. Len(s) \in 1 .. Len(s) /\ Len(t) = Len(s) + 1
    BY <1>1, <1>3
  <2>2. t[Len(s) + 1] = s[Len(s)]
    BY <1>4, <2>1
  <2> QED BY <2>1, <2>2 DEF IsChain
<1>6. ASSUME NEW k \in 1 .. Len(t) - 1 PROVE t[k + 1] = prev'[t[k]]
  <2>1. CASE k = 1
    <3>1. prev'[a] = currentNode
      BY DEF IndInv, TypeOK
    <3>2. t[1 + 1] = s[1]
      BY <1>1, <1>4
    <3> QED BY <1>3, <2>1, <3>1, <3>2 DEF IsChain
  <2>2. CASE k > 1
    <3>1. k - 1 \in 1 .. Len(s) - 1 /\ (k - 1) + 1 = k
      BY <1>1, <1>3, <2>2
    <3>2. s[(k - 1) + 1] = prev[s[k - 1]]
      BY <3>1 DEF IsChain
    <3>3. t[k] = s[k - 1] /\ t[k + 1] = s[k]
      BY <1>1, <1>3, <1>4, <2>2
    <3>4. s[k - 1] # a /\ s[k - 1] \in Addr
      BY <1>1, <3>1 DEF IndInv, TypeOK
    <3>5. prev'[s[k - 1]] = prev[s[k - 1]]
      BY <3>4 DEF IndInv, TypeOK
    <3> QED BY <3>1, <3>2, <3>3, <3>5
  <2> QED BY <1>1, <1>3, <2>1, <2>2
<1>7. ASSUME NEW j \in 1 .. Len(t), NEW k \in 1 .. Len(t), t[j] = t[k] PROVE j = k
  <2>1. \A i \in 1 .. Len(t) : i = 1 \/ (i - 1 \in 1 .. Len(s) /\ t[i] = s[i - 1] /\ s[i - 1] # a)
    BY <1>1, <1>3
  <2>2. j - 1 \in 1 .. Len(s) /\ k - 1 \in 1 .. Len(s) /\ s[j - 1] = s[k - 1] => j - 1 = k - 1
    BY DEF IsChain
  <2> QED BY <1>1, <1>3, <1>7, <2>1, <2>2
<1>8. ASSUME NEW b \in mem' PROVE \E k \in 1 .. Len(t) : t[k] = b
  <2>1. CASE b = a
    BY <1>1, <1>3, <2>1
  <2>2. CASE b \in mem
    <3>1. PICK k \in 1 .. Len(s) : s[k] = b
      BY <2>2 DEF IsChain
    <3> QED BY <1>1, <1>3, <1>4, <3>1
  <2> QED BY <2>1, <2>2
<1>9. IsChain(t)'
  <2>1. t \in Seq(mem') /\ Len(t) > 0 /\ t[1] = currentNode'
    BY <1>1, <1>3
  <2>2. \A k \in 1 .. Len(t) - 1 : t[k + 1] = prev'[t[k]]
    BY <1>6
  <2>3. \A j, k \in 1 .. Len(t) : t[j] = t[k] => j = k
    BY <1>7
  <2>4. \A b \in mem' : \E k \in 1 .. Len(t) : t[k] = b
    BY <1>8
  <2> QED BY <1>5, <2>1, <2>2, <2>3, <2>4 DEF IsChain
<1> QED BY <1>3, <1>4, <1>9

\* What is left of a sequence without its p-th element, as deleteNode leaves
\* the chain (ListDemo.c:67-77).
LEMMA Without ==
  ASSUME NEW S, NEW s \in Seq(S), NEW p \in 1 .. Len(s)
  PROVE  \E t \in Seq(S) :
           /\ t = SubSeq(s, 1, p - 1) \o SubSeq(s, p + 1, Len(s))
           /\ Len(s) \in Nat /\ Len(t) = Len(s) - 1
           /\ \A k \in 1 .. Len(s) - 1 : t[k] = IF k < p THEN s[k] ELSE s[k + 1]
           /\ \A k \in 1 .. Len(s) : s[k] \in S
<1>0. PICK t : t = SubSeq(s, 1, p - 1) \o SubSeq(s, p + 1, Len(s))
  OBVIOUS
<1>1. Len(s) \in Nat /\ \A k \in 1 .. Len(s) : s[k] \in S
  BY LenProperties, ElementOfSeq
<1>2. /\ SubSeq(s, 1, p - 1) \in Seq(S) /\ Len(SubSeq(s, 1, p - 1)) = p - 1
      /\ \A k \in 1 .. p - 1 : SubSeq(s, 1, p - 1)[k] = s[k]
  BY <1>1, SubSeqProperties
<1>3. /\ SubSeq(s, p + 1, Len(s)) \in Seq(S) /\ Len(SubSeq(s, p + 1, Len(s))) = Len(s) - p
      /\ \A k \in 1 .. Len(s) - p : SubSeq(s, p + 1, Len(s))[k] = s[p + k]
  BY <1>1, SubSeqProperties
<1>4. /\ t \in Seq(S) /\ Len(t) = (p - 1) + (Len(s) - p)
      /\ \A k \in 1 .. (p - 1) + (Len(s) - p) :
           t[k] = IF k <= p - 1 THEN SubSeq(s, 1, p - 1)[k]
                                ELSE SubSeq(s, p + 1, Len(s))[k - (p - 1)]
  <2> DEFINE u == SubSeq(s, 1, p - 1)
             v == SubSeq(s, p + 1, Len(s))
  <2> HIDE DEF u, v
  <2>1. u \in Seq(S) /\ v \in Seq(S) /\ Len(u) = p - 1 /\ Len(v) = Len(s) - p
    BY <1>2, <1>3 DEF u, v
  <2>2. /\ u \o v \in Seq(S) /\ Len(u \o v) = Len(u) + Len(v)
        /\ \A k \in 1 .. Len(u) + Len(v) :
             (u \o v)[k] = IF k <= Len(u) THEN u[k] ELSE v[k - Len(u)]
    BY <2>1, ConcatProperties
  <2>3. t = u \o v
    BY <1>0 DEF u, v
  <2>4. /\ t \in Seq(S) /\ Len(t) = (p - 1) + (Len(s) - p)
        /\ \A k \in 1 .. (p - 1) + (Len(s) - p) :
             t[k] = IF k <= p - 1 THEN u[k] ELSE v[k - (p - 1)]
    BY <2>1, <2>2, <2>3
  <2> QED BY <2>4 DEF u, v
<1>5. ASSUME NEW k \in 1 .. Len(s) - 1
      PROVE  t[k] = IF k < p THEN s[k] ELSE s[k + 1]
  <2>1. CASE k < p
    BY <1>1, <1>2, <1>4, <2>1
  <2>2. CASE k >= p
    <3>1. k - (p - 1) \in 1 .. Len(s) - p /\ p + (k - (p - 1)) = k + 1
      BY <1>1, <2>2
    <3>2. t[k] = SubSeq(s, p + 1, Len(s))[k - (p - 1)]
      BY <1>1, <1>4, <2>2
    <3>3. t[k] = s[p + (k - (p - 1))]
      BY <1>3, <3>1, <3>2
    <3> QED BY <1>1, <2>2, <3>1, <3>3
  <2> QED BY <1>1, <2>1, <2>2
<1>6. Len(t) = Len(s) - 1
  BY <1>1, <1>4
<1> QED BY <1>0, <1>1, <1>4, <1>5, <1>6

\* deleteNode takes the node it has found out of the chain, and the others
\* stay as they were (ListDemo.c:65-88).
LEMMA UnlinkShrinks ==
  ASSUME IndInv, Unlink, NEW s, IsChain(s), NEW p \in 1 .. Len(s), s[p] = latest
  PROVE  \E t : /\ IsChain(t)'
                /\ p < Len(s) /\ Len(s) \in Nat /\ Len(t) = Len(s) - 1
                /\ \A k \in 1 .. Len(s) - 1 : t[k] = IF k < p THEN s[k] ELSE s[k + 1]
<1> DEFINE after == next[latest]
           before == prev[latest]
<1>1. /\ call = "delete" /\ latest # Null /\ Found
      /\ mem' = mem \ {latest} /\ head' = head
      /\ after # Null => prev' = [prev EXCEPT ![after] = before] /\ currentNode' = currentNode
      /\ after = Null => prev' = prev /\ currentNode' = before
  BY DEF Unlink
<1>2. /\ latest \in mem /\ latest # head
      /\ latest = currentNode <=> after = Null
      /\ after # Null => after \in mem /\ prev[after] = latest
  BY <1>1, FoundNode
<1>3. PICK t \in Seq(mem) :
        /\ Len(s) \in Nat /\ Len(t) = Len(s) - 1
        /\ \A k \in 1 .. Len(s) - 1 : t[k] = IF k < p THEN s[k] ELSE s[k + 1]
        /\ \A k \in 1 .. Len(s) : s[k] \in mem
  <2>1. s \in Seq(mem)
    BY DEF IsChain
  <2> QED BY <2>1, Without
<1>4. /\ s[1] = currentNode /\ s[Len(s)] = head
      /\ \A j, k \in 1 .. Len(s) : s[j] = s[k] => j = k
      /\ \A a \in mem : \E k \in 1 .. Len(s) : s[k] = a
      /\ \A k \in 1 .. Len(s) - 1 : s[k + 1] = prev[s[k]]
  BY DEF IsChain
<1>5. p < Len(s) /\ s[p + 1] = before
  <2>1. p # Len(s)
    BY <1>2, <1>4
  <2>2. p < Len(s) /\ p \in 1 .. Len(s) - 1
    BY <1>3, <2>1
  <2>3. s[p + 1] = prev[s[p]]
    BY <1>4, <2>2
  <2> QED BY <2>2, <2>3
<1>6. mem \subseteq Addr /\ prev \in [Addr -> Pointer] /\ prev[head] = Null /\ Null \notin mem
  BY <1>1, ListAssumption DEF IndInv, TypeOK, Linked, Built
<1> HIDE DEF after, before
<1>7. IF after = Null THEN p = 1 ELSE p > 1 /\ s[p - 1] = after
  <2>1. CASE after = Null
    BY <1>2, <1>3, <1>4, <2>1
  <2>2. CASE after # Null
    <3>1. PICK q \in 1 .. Len(s) : s[q] = after
      BY <1>2, <1>4, <2>2
    <3>2. q # Len(s)
      BY <1>1, <1>2, <1>4, <1>6, <2>2, <3>1
    <3>3. q + 1 \in 1 .. Len(s) /\ s[q + 1] = s[p]
      BY <1>2, <1>3, <1>4, <2>2, <3>1, <3>2
    <3>4. q + 1 = p
      BY <1>4, <3>3
    <3> QED BY <1>3, <2>2, <3>1, <3>4
  <2> QED BY <2>1, <2>2
<1>8. \A k \in 1 .. Len(s) : k # p /\ k # p - 1 => prev'[s[k]] = prev[s[k]]
  <2>1. CASE after = Null
    BY <1>1, <2>1
  <2>2. CASE after # Null
    <3>1. p - 1 \in 1 .. Len(s) /\ s[p - 1] = after
      BY <1>3, <1>7, <2>2
    <3>2. \A k \in 1 .. Len(s) : k # p - 1 => s[k] # after
      BY <1>4, <3>1
    <3>3. \A a \in Addr : a # after => prev'[a] = prev[a]
      BY <1>1, <1>6, <2>2
    <3> QED BY <1>3, <1>6, <3>2, <3>3
  <2> QED BY <2>1, <2>2
<1>9. after # Null => prev'[after] = before
  BY <1>1, <1>2, <1>6
<1>10. ASSUME NEW k \in 1 .. Len(t) - 1 PROVE t[k + 1] = prev'[t[k]]
  <2>1. /\ k \in 1 .. Len(s) - 1 /\ k + 1 \in 1 .. Len(s) - 1 /\ k + 2 \in 1 .. Len(s)
        /\ (k + 1) + 1 = k + 2
    BY <1>3
  <2>2. CASE k + 1 < p
    <3>1. t[k + 1] = s[k + 1] /\ t[k] = s[k] /\ k \in 1 .. Len(s) /\ k # p /\ k # p - 1
      BY <1>3, <2>1, <2>2
    <3> QED BY <1>4, <1>8, <2>1, <3>1
  <2>3. CASE k + 1 = p
    <3>1. t[k] = s[p - 1] /\ t[k + 1] = s[p + 1] /\ p > 1
      BY <1>3, <2>1, <2>3
    <3> QED BY <1>5, <1>7, <1>9, <3>1
  <2>4. CASE k + 1 > p
    <3>1. /\ t[k] = s[k + 1] /\ t[k + 1] = s[(k + 1) + 1]
          /\ k + 1 \in 1 .. Len(s) /\ k + 1 # p /\ k + 1 # p - 1
      BY <1>3, <2>1, <2>4
    <3>2. s[(k + 1) + 1] = prev[s[k + 1]]
      BY <1>4, <2>1
    <3> QED BY <1>8, <3>1, <3>2
  <2> QED BY <1>3, <2>1, <2>2, <2>3, <2>4
<1>11. ASSUME NEW k \in 1 .. Len(t) PROVE t[k] \in mem'
  <2>1. k \in 1 .. Len(s) - 1 /\ k \in 1 .. Len(s) /\ k + 1 \in 1 .. Len(s)
    BY <1>3
  <2>2. CASE k < p
    BY <1>1, <1>3, <1>4, <2>1, <2>2
  <2>3. CASE k >= p
    <3>1. t[k] = s[k + 1] /\ k + 1 # p
      BY <1>3, <2>1, <2>3
    <3> QED BY <1>1, <1>3, <1>4, <2>1, <3>1
  <2> QED BY <2>1, <2>2, <2>3
<1>12. t \in Seq(mem') /\ Len(t) > 0
  <2>1. t \in [1 .. Len(t) -> mem] /\ Len(t) \in Nat
    BY LenProperties
  <2>2. t \in [1 .. Len(t) -> mem']
    BY <1>11, <2>1
  <2>3. t \in Seq(mem')
    BY <2>1, <2>2, SeqDef
  <2> QED BY <1>3, <1>5, <2>3
<1>13. t[1] = currentNode' /\ t[Len(t)] = head'
  <2>1. t[Len(t)] = s[Len(s)]
    <3>1. Len(s) - 1 \in 1 .. Len(s) - 1 /\ ~(Len(s) - 1 < p) /\ (Len(s) - 1) + 1 = Len(s)
      BY <1>3, <1>5
    <3> QED BY <1>3, <3>1
  <2>2. 1 \in 1 .. Len(s) - 1
    BY <1>3, <1>5
  <2>3. CASE after = Null
    <3>1. t[1] = s[1 + 1] /\ s[1 + 1] = before
      BY <1>3, <1>5, <1>7, <2>2, <2>3
    <3> QED BY <1>1, <1>4, <2>1, <2>3, <3>1
  <2>4. CASE after # Null
    <3>1. t[1] = s[1]
      BY <1>3, <1>7, <2>2, <2>4
    <3> QED BY <1>1, <1>4, <2>1, <2>4, <3>1
  <2> QED BY <2>3, <2>4
<1>14. ASSUME NEW j \in 1 .. Len(t), NEW k \in 1 .. Len(t), t[j] = t[k] PROVE j = k
  <2>1. \A i \in 1 .. Len(t) :
          \/ i < p /\ i \in 1 .. Len(s) /\ t[i] = s[i]
          \/ i >= p /\ i + 1 \in 1 .. Len(s) /\ t[i] = s[i + 1]
    BY <1>3
  <2>2. j \in Int /\ k \in Int /\ p \in Int
    BY <1>3
  <2>3. CASE j < p /\ k < p
    <3>1. j \in 1 .. Len(s) /\ k \in 1 .. Len(s) /\ s[j] = s[k]
      BY <1>14, <2>1, <2>2, <2>3
    <3> QED BY <1>4, <3>1
  <2>4. CASE j >= p /\ k >= p
    <3>1. j + 1 = k + 1
      <4>1. j + 1 \in 1 .. Len(s) /\ k + 1 \in 1 .. Len(s) /\ s[j + 1] = s[k + 1]
        BY <1>14, <2>1, <2>2, <2>4
      <4> QED BY <1>4, <4>1
    <3> QED BY <2>2, <3>1
  <2>5. CASE j < p /\ k >= p
    <3>1. j = k + 1
      <4>1. j \in 1 .. Len(s) /\ k + 1 \in 1 .. Len(s) /\ s[j] = s[k + 1]
        BY <1>14, <2>1, <2>2, <2>5
      <4> QED BY <1>4, <4>1
    <3> QED BY <2>2, <2>5, <3>1
  <2>6. CASE j >= p /\ k < p
    <3>1. j + 1 = k
      <4>1. j + 1 \in 1 .. Len(s) /\ k \in 1 .. Len(s) /\ s[j + 1] = s[k]
        BY <1>14, <2>1, <2>2, <2>6
      <4> QED BY <1>4, <4>1
    <3> QED BY <2>2, <2>6, <3>1
  <2> QED BY <2>2, <2>3, <2>4, <2>5, <2>6
<1>15. ASSUME NEW b \in mem' PROVE \E k \in 1 .. Len(t) : t[k] = b
  <2>1. PICK q \in 1 .. Len(s) : s[q] = b /\ q # p
    BY <1>1, <1>4
  <2>2. CASE q < p
    <3>1. q \in 1 .. Len(t) /\ t[q] = b
      BY <1>3, <2>1, <2>2
    <3> QED BY <3>1
  <2>3. CASE q > p
    <3>1. q - 1 \in 1 .. Len(t) /\ q - 1 \in 1 .. Len(s) - 1 /\ ~(q - 1 < p) /\ (q - 1) + 1 = q
      BY <1>3, <2>1, <2>3
    <3>2. t[q - 1] = b
      BY <1>3, <2>1, <3>1
    <3> QED BY <3>1, <3>2
  <2>4. q < p \/ q > p
    BY <1>3, <2>1
  <2> QED BY <2>2, <2>3, <2>4
<1>16. IsChain(t)'
  <2>1. \A k \in 1 .. Len(t) - 1 : t[k + 1] = prev'[t[k]]
    BY <1>10
  <2>2. \A j, k \in 1 .. Len(t) : t[j] = t[k] => j = k
    BY <1>14
  <2>3. \A b \in mem' : \E k \in 1 .. Len(t) : t[k] = b
    BY <1>15
  <2> QED BY <1>12, <1>13, <2>1, <2>2, <2>3 DEF IsChain
<1> QED BY <1>3, <1>5, <1>16

-----------------------------------------------------------------------------
(***************************************************************************)
(* The values in the chain.                                                *)
(***************************************************************************)

\* The values in the chain, by position: the k-th oldest is k places before
\* the head (ListDemo.c:35-41).
LEMMA Values ==
  IndInv /\ Built => \A s : IsChain(s) =>
    /\ Len(s) \in Nat \ {0}
    /\ Contents \in Seq(Value \cup {HEAD}) /\ Len(Contents) = Len(s) - 1
    /\ \A k \in 1 .. Len(s) - 1 : Contents[k] = data[s[Len(s) - k]]
<1> SUFFICES ASSUME IndInv, Built, NEW s, IsChain(s)
             PROVE  /\ Len(s) \in Nat \ {0}
                    /\ Contents \in Seq(Value \cup {HEAD}) /\ Len(Contents) = Len(s) - 1
                    /\ \A k \in 1 .. Len(s) - 1 : Contents[k] = data[s[Len(s) - k]]
  OBVIOUS
<1>1. Nodes = s
  BY OneChain
<1>2. Len(s) \in Nat \ {0} /\ \A k \in 1 .. Len(s) : s[k] \in mem
  BY ChainLength DEF IndInv, IsChain
<1>3. Contents = [k \in 1 .. Len(s) - 1 |-> data[s[Len(s) - k]]]
  BY <1>1 DEF Contents
<1>4. \A k \in 1 .. Len(s) - 1 : data[s[Len(s) - k]] \in Value \cup {HEAD}
  <2>1. \A k \in 1 .. Len(s) - 1 : Len(s) - k \in 1 .. Len(s)
    BY <1>2
  <2> QED BY <1>2, <2>1 DEF IndInv, TypeOK
<1>5. Contents \in [1 .. Len(s) - 1 -> Value \cup {HEAD}] /\ Len(s) - 1 \in Nat
  BY <1>2, <1>3, <1>4
<1>6. Contents \in Seq(Value \cup {HEAD})
  BY <1>5, SeqDef
<1>7. Len(Contents) = Len(s) - 1
  <2>1. Len(Contents) \in Nat /\ DOMAIN Contents = 1 .. Len(Contents)
    BY <1>6, LenProperties
  <2>2. DOMAIN Contents = 1 .. Len(s) - 1
    BY <1>3
  <2> QED BY <1>2, <2>1, <2>2
<1> QED BY <1>2, <1>3, <1>6, <1>7

\* The same after a call (ListDemo.c:33-90).
LEMMA NextValues ==
  (IndInv /\ Built => \A s : IsChain(s) =>
    /\ Len(s) \in Nat \ {0}
    /\ Contents \in Seq(Value \cup {HEAD}) /\ Len(Contents) = Len(s) - 1
    /\ \A k \in 1 .. Len(s) - 1 : Contents[k] = data[s[Len(s) - k]])'
BY Values, PTL

\* The visible ones of the first k elements of c, the latest first.
From(c) ==
  CHOOSE f : f = [k \in 0 .. Len(c) |->
                    IF k = 0 THEN <<>>
                    ELSE IF Abstract!Visible(c[k]) THEN <<c[k]>> \o f[k - 1]
                    ELSE f[k - 1]]

\* What printList has to show for the first k values (ListDemo.c:124-132):
\* one more than for the first k - 1, or the same if the k-th is the mark.
LEMMA FromIs ==
  ASSUME NEW S, NEW c \in Seq(S)
  PROVE  /\ From(c)[0] = <<>>
         /\ \A k \in 1 .. Len(c) :
              From(c)[k] = IF Abstract!Visible(c[k]) THEN <<c[k]>> \o From(c)[k - 1]
                           ELSE From(c)[k - 1]
         /\ \A k \in 0 .. Len(c) : From(c)[k] \in Seq(S)
         /\ Abstract!Shown(c) = From(c)[Len(c)]
<1> DEFINE L == Len(c)
           On(k, t) == IF Abstract!Visible(c[k]) THEN <<c[k]>> \o t ELSE t
           Fun(f, m) == [k \in 0 .. m |-> IF k = 0 THEN <<>> ELSE On(k, f[k - 1])]
           S0 == {m \in 0 .. L : ~ \E f : f = Fun(f, m)}
<1>1. L \in Nat /\ \A k \in 1 .. L : c[k] \in S
  BY LenProperties, ElementOfSeq
<1>2. S0 = {}
  <2> SUFFICES ASSUME S0 # {} PROVE FALSE
    OBVIOUS
  <2>1. PICK m \in S0 : \A j \in S0 : m <= j
    <3>1. S0 \subseteq Nat
      BY <1>1
    <3> HIDE DEF S0
    <3> QED BY <3>1, LeastNumber
  <2>2. CASE m = 0
    <3> DEFINE g == [k \in 0 .. 0 |-> <<>>]
    <3>1. g = Fun(g, 0)
      <4>1. \A k \in 0 .. 0 : k = 0
        OBVIOUS
      <4> HIDE DEF On
      <4> QED BY <4>1
    <3> HIDE DEF Fun, g
    <3> QED BY <2>1, <2>2, <3>1
  <2>3. CASE m # 0
    <3>1. m \in 1 .. L /\ m - 1 \in 0 .. L /\ m - 1 \notin S0
      <4>1. m \in 0 .. L
        BY <2>1
      <4> HIDE DEF S0
      <4> QED BY <1>1, <2>1, <2>3, <4>1
    <3>2. PICK f : f = Fun(f, m - 1)
      BY <3>1
    <3> DEFINE g == [k \in 0 .. m |-> IF k = m THEN On(m, f[m - 1]) ELSE f[k]]
    <3> HIDE DEF On
    <3>3. ASSUME NEW k \in 0 .. m PROVE g[k] = IF k = 0 THEN <<>> ELSE On(k, g[k - 1])
      <4>1. CASE k = m
        BY <3>1, <4>1
      <4>2. CASE k # m
        <5>1. k \in 0 .. m - 1 /\ g[k] = f[k]
          BY <3>1, <4>2
        <5>2. f[k] = IF k = 0 THEN <<>> ELSE On(k, f[k - 1])
          BY <3>2, <5>1
        <5>3. k # 0 => g[k - 1] = f[k - 1]
          BY <3>1, <4>2
        <5> QED BY <5>1, <5>2, <5>3
      <4> QED BY <4>1, <4>2
    <3>4. g = [k \in 0 .. m |-> g[k]]
      OBVIOUS
    <3> HIDE DEF g
    <3>5. g = Fun(g, m)
      BY <3>3, <3>4
    <3> HIDE DEF Fun
    <3> QED BY <2>1, <3>5
  <2> QED BY <2>2, <2>3
<1>3. From(c) = Fun(From(c), L)
  <2>1. \E f : f = Fun(f, L)
    <3>1. L \in 0 .. L
      BY <1>1
    <3> HIDE DEF Fun, L
    <3> QED BY <1>2, <3>1
  <2>2. From(c) = CHOOSE f : f = Fun(f, L)
    BY DEF From
  <2> HIDE DEF Fun
  <2> QED BY <2>1, <2>2
<1>4. From(c)[0] = <<>>
  <2>1. 0 \in 0 .. L
    BY <1>1
  <2> HIDE DEF On, L
  <2> QED BY <1>3, <2>1
<1>5. \A k \in 1 .. L : From(c)[k] = On(k, From(c)[k - 1])
  <2>1. \A k \in 1 .. L : k \in 0 .. L /\ k # 0
    BY <1>1
  <2> HIDE DEF On, L
  <2> QED BY <1>3, <2>1
<1>6. \A k \in 0 .. L : From(c)[k] \in Seq(S)
  <2> DEFINE Bad == {k \in 0 .. L : From(c)[k] \notin Seq(S)}
  <2> SUFFICES ASSUME Bad # {} PROVE FALSE
    OBVIOUS
  <2>1. PICK k \in Bad : \A j \in Bad : k <= j
    <3>1. Bad \subseteq Nat
      BY <1>1
    <3> HIDE DEF Bad
    <3> QED BY <3>1, LeastNumber
  <2>2. k # 0
    BY <1>4, <2>1, EmptySeq
  <2>3. k \in 1 .. L /\ k - 1 \in 0 .. L /\ k - 1 \notin Bad
    BY <1>1, <2>1, <2>2
  <2>4. From(c)[k - 1] \in Seq(S) /\ <<c[k]>> \in Seq(S)
    BY <1>1, <2>3
  <2>5. <<c[k]>> \o From(c)[k - 1] \in Seq(S)
    BY <2>4, ConcatProperties
  <2>6. From(c)[k] \in Seq(S)
    BY <1>5, <2>3, <2>4, <2>5
  <2> QED BY <2>1, <2>6
<1>7. Abstract!Shown(c) = From(c)[Len(c)]
  BY DEF Abstract!Shown, From
<1> QED BY <1>4, <1>5, <1>6, <1>7

\* There is a chain through all nodes, once the list has been built.
AllChained == Built => \E s : IsChain(s)

\* While search walks back, no node it has passed holds the value.
Scanned ==
  call = "delete" /\ value # HEAD =>
    \A s : IsChain(s) =>
      \A p \in 1 .. Len(s) :
        latest = s[p] => \A k \in 1 .. p - 1 : data[s[k]] # value

\* printList has shown the visible values of the nodes it has passed.
Printed ==
  /\ call # "print" => out = <<>>
  /\ call = "print" =>
       \A s : IsChain(s) =>
         /\ latest = Null => out = From(Contents)[Len(s) - 1]
         /\ \A p \in 1 .. Len(s) :
              latest = s[p] =>
                out \o From(Contents)[Len(s) - p] = From(Contents)[Len(s) - 1]

\* The inductive invariant for the contents of the list.
ListInv == IndInv /\ AllChained /\ Scanned /\ Printed

\* A step that writes to no node changes neither the chain nor its values
\* (the loops of search and printList, ListDemo.c:47-54,124-132).
LEMMA SameHeap ==
  ASSUME mem' = mem, data' = data, prev' = prev, head' = head, currentNode' = currentNode
  PROVE  /\ \A s : IsChain(s)' <=> IsChain(s)
         /\ Nodes' = Nodes /\ Contents' = Contents
         /\ From(Contents)' = From(Contents)
<1>1. \A s : IsChain(s)' <=> IsChain(s)
  BY DEF IsChain
<1>2. Nodes' = Nodes
  BY DEF Nodes
<1>3. Contents' = Contents
  BY <1>2 DEF Contents
<1>4. From(Contents)' = From(Contents)
  BY <1>3 DEF From, Abstract!Visible
<1> QED BY <1>1, <1>2, <1>3, <1>4

\* Before initilizeList there is nothing to chain (ListDemo.c:23-30).
LEMMA InitListInv == Init => ListInv
<1> SUFFICES ASSUME Init PROVE ListInv
  OBVIOUS
<1>1. call = "start" /\ out = <<>>
  BY DEF Init
<1> QED BY <1>1, InitIndInv DEF ListInv, AllChained, Scanned, Printed, Built

\* Where the loop of search or printList stands in the chain, and where its
\* next step leads (ListDemo.c:53,130).
LEMMA StepBack ==
  ASSUME IndInv, Built, latest # Null, NEW s, IsChain(s)
  PROVE  \E p \in 1 .. Len(s) :
           /\ Len(s) \in Nat /\ latest \in mem /\ s[p] = latest
           /\ \A q \in 1 .. Len(s) : s[q] = latest => q = p
           /\ IF p = Len(s) THEN latest = head /\ prev[latest] = Null
              ELSE prev[latest] # Null /\ s[p + 1] = prev[latest]
           /\ \A q \in 1 .. Len(s) : s[q] = prev[latest] => p < Len(s) /\ q = p + 1
<1>1. latest \in mem /\ Null \notin mem /\ prev[head] = Null
  BY ListAssumption DEF IndInv, TypeOK, Walking, Linked
<1>2. /\ Len(s) \in Nat /\ s[Len(s)] = head
      /\ \A k \in 1 .. Len(s) : s[k] \in mem
      /\ \A k \in 1 .. Len(s) - 1 : s[k + 1] = prev[s[k]]
      /\ \A j, k \in 1 .. Len(s) : s[j] = s[k] => j = k
  BY ChainLength DEF IndInv, IsChain
<1>3. PICK p \in 1 .. Len(s) : s[p] = latest
  BY <1>1 DEF IsChain
<1>4. p = Len(s) => latest = head /\ prev[latest] = Null
  BY <1>1, <1>2, <1>3
<1>5. p # Len(s) => p + 1 \in 1 .. Len(s) /\ s[p + 1] = prev[latest] /\ prev[latest] # Null
  <2> SUFFICES ASSUME p # Len(s)
               PROVE  p + 1 \in 1 .. Len(s) /\ s[p + 1] = prev[latest] /\ prev[latest] # Null
    OBVIOUS
  <2>1. p \in 1 .. Len(s) - 1 /\ p + 1 \in 1 .. Len(s)
    BY <1>2
  <2>2. s[p + 1] = prev[latest]
    BY <1>2, <1>3, <2>1
  <2> QED BY <1>1, <1>2, <2>1, <2>2
<1>6. \A q \in 1 .. Len(s) : s[q] = latest => q = p
  BY <1>2, <1>3
<1>7. ASSUME NEW q \in 1 .. Len(s), s[q] = prev[latest]
      PROVE  p < Len(s) /\ q = p + 1
  <2>1. p # Len(s)
    BY <1>1, <1>2, <1>4, <1>7
  <2>2. p < Len(s)
    BY <1>2, <2>1
  <2>3. q = p + 1
    BY <1>2, <1>5, <1>7, <2>1
  <2> QED BY <2>2, <2>3
<1> QED BY <1>1, <1>2, <1>3, <1>4, <1>5, <1>6, <1>7

\* A step of search leaves one more node behind that does not hold the value
\* (ListDemo.c:49-53).
LEMMA SearchOnScanned == ListInv /\ SearchOn => Scanned'
<1> SUFFICES ASSUME ListInv, SearchOn, value' # HEAD, NEW s, IsChain(s)',
                    NEW q \in 1 .. Len(s), latest' = s[q], NEW k \in 1 .. q - 1
             PROVE  data'[s[k]] # value'
  BY DEF Scanned
<1>1. /\ call = "delete" /\ latest # Null /\ ~Found /\ latest' = prev[latest]
      /\ mem' = mem /\ data' = data /\ prev' = prev /\ head' = head
      /\ currentNode' = currentNode /\ value' = value
  BY DEF SearchOn, heap
<1>2. IndInv /\ Built /\ Scanned
  BY <1>1 DEF ListInv, Built
<1>3. IsChain(s)
  BY <1>1, SameHeap
<1>4. PICK p \in 1 .. Len(s) :
        /\ Len(s) \in Nat /\ s[p] = latest /\ p < Len(s) /\ q = p + 1
  <2>1. s[q] = prev[latest]
    BY <1>1
  <2> QED BY <1>1, <1>2, <1>3, <2>1, StepBack
<1>5. \A j \in 1 .. p - 1 : data[s[j]] # value
  BY <1>1, <1>2, <1>3, <1>4 DEF Scanned
<1>6. data[s[p]] # value
  BY <1>1, <1>4 DEF Found
<1>7. k = p \/ k \in 1 .. p - 1
  BY <1>4
<1> QED BY <1>1, <1>5, <1>6, <1>7

\* Showing one more value and then the rest is showing all of them
\* (ListDemo.c:126-130).
LEMMA Regroup ==
  \A u, v, w \in Seq(Value \cup {HEAD}) : (u \o v) \o w = u \o (v \o w)
<1> SUFFICES ASSUME NEW S
             PROVE  \A u, v, w \in Seq(S) : (u \o v) \o w = u \o (v \o w)
  OBVIOUS
<1> QED BY ConcatAssociative

\* A step of printList shows the value of the node it leaves, unless that is
\* the mark of the head (ListDemo.c:126-130).
LEMMA PrintOnPrinted == ListInv /\ PrintOn => Printed'
<1> SUFFICES ASSUME ListInv, PrintOn PROVE Printed'
  OBVIOUS
<1>1. /\ call = "print" /\ call' = "print" /\ latest # Null /\ latest' = prev[latest]
      /\ out' = IF data[latest] # HEAD THEN Append(out, data[latest]) ELSE out
      /\ mem' = mem /\ data' = data /\ prev' = prev /\ head' = head
      /\ currentNode' = currentNode
  BY DEF PrintOn, heap
<1>2. IndInv /\ Built /\ Printed
  BY <1>1 DEF ListInv, Built
<1> SUFFICES ASSUME NEW s, IsChain(s)
             PROVE  /\ latest' = Null => out' = From(Contents)[Len(s) - 1]
                    /\ \A q \in 1 .. Len(s) :
                         latest' = s[q] =>
                           out' \o From(Contents)[Len(s) - q] = From(Contents)[Len(s) - 1]
  BY <1>1, SameHeap DEF Printed
<1>3. PICK p \in 1 .. Len(s) :
           /\ Len(s) \in Nat /\ latest \in mem /\ s[p] = latest
           /\ IF p = Len(s) THEN latest = head /\ prev[latest] = Null
              ELSE prev[latest] # Null /\ s[p + 1] = prev[latest]
           /\ \A q \in 1 .. Len(s) : s[q] = prev[latest] => p < Len(s) /\ q = p + 1
  BY <1>1, <1>2, StepBack
<1> DEFINE S == Value \cup {HEAD}
           F == From(Contents)
           d == data[latest]
<1>4. out \o F[Len(s) - p] = F[Len(s) - 1]
  BY <1>1, <1>2, <1>3 DEF Printed
<1>5. /\ Contents \in Seq(S) /\ Len(Contents) = Len(s) - 1
      /\ \A k \in 1 .. Len(s) - 1 : Contents[k] = data[s[Len(s) - k]]
  BY <1>2, Values
<1>6. /\ F[0] = <<>>
      /\ \A k \in 1 .. Len(s) - 1 :
           F[k] = IF Contents[k] # HEAD THEN <<Contents[k]>> \o F[k - 1] ELSE F[k - 1]
      /\ \A k \in 0 .. Len(s) - 1 : F[k] \in Seq(S)
  BY <1>5, FromIs DEF Abstract!Visible, HEAD
<1>7. out \in Seq(S) /\ d \in S /\ data[head] = HEAD
  <2>1. out \in Seq(Value)
    BY <1>2 DEF IndInv, TypeOK
  <2>2. out \in Seq(S)
    BY <2>1, SeqMonotonic
  <2> QED BY <1>2, <1>3, <2>2 DEF IndInv, TypeOK, Walking
<1> HIDE DEF S, F
<1>8. CASE p = Len(s)
  <2>1. latest' = Null /\ out' = out /\ Len(s) - p = 0
    BY <1>1, <1>3, <1>7, <1>8
  <2>2. out \o <<>> = out
    BY <1>7, ConcatEmptySeq
  <2>3. out' = F[Len(s) - 1]
    BY <1>4, <1>6, <2>1, <2>2
  <2>4. \A q \in 1 .. Len(s) : latest' # s[q]
    BY <1>1, <1>3, <1>8
  <2> QED BY <2>3, <2>4 DEF F
<1>9. CASE p # Len(s)
  <2>1. /\ Len(s) - p \in 1 .. Len(s) - 1 /\ Len(s) - p - 1 \in 0 .. Len(s) - 1
        /\ Len(s) - (p + 1) = Len(s) - p - 1 /\ Len(s) - (Len(s) - p) = p
    BY <1>3, <1>9
  <2>2. Contents[Len(s) - p] = d
    BY <1>3, <1>5, <2>1
  <2>3. F[Len(s) - p] = IF d # HEAD THEN <<d>> \o F[Len(s) - p - 1] ELSE F[Len(s) - p - 1]
    BY <1>6, <2>1, <2>2
  <2>4. F[Len(s) - p - 1] \in Seq(S)
    BY <1>6, <2>1
  <2>5. out' \o F[Len(s) - p - 1] = F[Len(s) - 1]
    <3>1. CASE d = HEAD
      BY <1>1, <1>4, <2>3, <3>1
    <3>2. CASE d # HEAD
      <4>1. out' = out \o <<d>> /\ <<d>> \in Seq(S)
        BY <1>1, <1>7, <3>2, AppendIsConcat
      <4>2. (out \o <<d>>) \o F[Len(s) - p - 1] = out \o (<<d>> \o F[Len(s) - p - 1])
        <5>1. \A u, v, w \in Seq(S) : (u \o v) \o w = u \o (v \o w)
          BY Regroup DEF S
        <5> HIDE DEF d
        <5> QED BY <1>7, <2>4, <4>1, <5>1, Zenon
      <4> QED BY <1>4, <2>3, <3>2, <4>1, <4>2
    <3> QED BY <3>1, <3>2
  <2>6. latest' # Null
    BY <1>1, <1>3, <1>9
  <2>7. ASSUME NEW q \in 1 .. Len(s), latest' = s[q]
        PROVE  out' \o F[Len(s) - q] = F[Len(s) - 1]
    <3>1. q = p + 1
      BY <1>1, <1>3, <2>7
    <3> QED BY <2>1, <2>5, <3>1
  <2> QED BY <2>6, <2>7 DEF F
<1> QED BY <1>8, <1>9

\* A call that writes to no node leaves the chain as it was
\* (ListDemo.c:44-58,119-136).
LEMMA HeapKept ==
  ASSUME ListInv, Built, UNCHANGED heap
  PROVE  AllChained'
<1>1. PICK s : IsChain(s)
  BY DEF ListInv, AllChained
<1>2. IsChain(s)'
  BY <1>1, SameHeap DEF heap
<1> QED BY <1>2 DEF AllChained

\* Every call, and every step of its loops, keeps one chain through all nodes
\* and the account of what search and printList have passed
\* (ListDemo.c:23-136).
LEMMA NextListInv == ListInv /\ [Next]_vars => ListInv'
<1> SUFFICES ASSUME ListInv, [Next]_vars PROVE ListInv'
  OBVIOUS
<1>0. IndInv /\ IndInv'
  BY NextIndInv DEF ListInv
<1>1. CASE initilizeList
  <2>1. PICK a \in Addr :
          /\ mem' = {a} /\ head' = a /\ currentNode' = a
    BY <1>1 DEF initilizeList
  <2>2. PICK s : s = <<a>>
    OBVIOUS
  <2>3. s \in Seq({a}) /\ Len(s) = 1 /\ s[1] = a
    BY <2>2
  <2>4. IsChain(s)'
    BY <2>1, <2>3 DEF IsChain
  <2>5. call = "start" /\ call' = "none" /\ out' = out
    BY <1>1 DEF initilizeList
  <2> QED BY <1>0, <2>4, <2>5 DEF ListInv, AllChained, Scanned, Printed
<1>2. ASSUME NEW v \in Value, insert(v) PROVE ListInv'
  <2>1. PICK a \in Addr \ mem :
          /\ mem' = mem \cup {a}
          /\ prev' = [prev EXCEPT ![a] = currentNode]
          /\ currentNode' = a
    BY <1>2 DEF insert
  <2>2. call = "none" /\ call' = "none" /\ out' = out /\ head' = head
    BY <1>2 DEF insert
  <2>3. PICK s : IsChain(s)
    BY <2>2 DEF ListInv, AllChained, Built
  <2>5. PICK t : IsChain(t)'
    BY <1>0, <2>1, <2>2, <2>3, InsertGrows
  <2> QED BY <1>0, <2>2, <2>5 DEF ListInv, AllChained, Scanned, Printed
<1>3. CASE insertCrashes
  <2>1. /\ call = "none" /\ call' = "crashed" /\ out' = out
        /\ mem' = mem /\ data' = data /\ prev' = prev /\ head' = head
        /\ currentNode' = currentNode
    BY <1>3 DEF insertCrashes
  <2>2. PICK s : IsChain(s)
    BY <2>1 DEF ListInv, AllChained, Built
  <2>3. IsChain(s)'
    BY <2>1, <2>2, SameHeap
  <2> QED BY <1>0, <2>1, <2>3 DEF ListInv, AllChained, Scanned, Printed
<1>4. ASSUME NEW v \in Value, deleteNode(v) PROVE ListInv'
  <2>1. /\ call = "none" /\ call' = "delete" /\ out' = out /\ latest' = currentNode
        /\ UNCHANGED heap
    BY <1>4 DEF deleteNode
  <2>2. AllChained'
    BY <2>1, HeapKept DEF Built
  <2>3. Scanned'
    <3> SUFFICES ASSUME NEW s, IsChain(s)', NEW p \in 1 .. Len(s), latest' = s[p]
                 PROVE  \A k \in 1 .. p - 1 : data'[s[k]] # value'
      BY DEF Scanned
    <3>1. IsChain(s)
      BY <2>1, SameHeap DEF heap
    <3>2. Len(s) \in Nat /\ Len(s) > 0
      BY <1>0, <3>1, ChainLength DEF IsChain, IndInv
    <3>3. s[1] = s[p] /\ \A j, k \in 1 .. Len(s) : s[j] = s[k] => j = k
      BY <2>1, <3>1 DEF IsChain
    <3>4. p = 1
      BY <3>2, <3>3
    <3> QED BY <3>4
  <2>4. Printed'
    BY <2>1 DEF ListInv, Printed
  <2> QED BY <1>0, <2>2, <2>3, <2>4 DEF ListInv
<1>5. CASE SearchOn
  <2>1. call = "delete" /\ call' = "delete" /\ out' = out /\ UNCHANGED heap
    BY <1>5 DEF SearchOn
  <2>2. AllChained' /\ Printed'
    BY <2>1, HeapKept DEF Built, ListInv, Printed
  <2> QED BY <1>0, <1>5, <2>2, SearchOnScanned DEF ListInv
<1>6. CASE SearchFails
  <2>1. call = "delete" /\ call' = "none" /\ out' = out /\ UNCHANGED heap
    BY <1>6 DEF SearchFails, Return
  <2>2. AllChained'
    BY <2>1, HeapKept DEF Built
  <2> QED BY <1>0, <2>1, <2>2 DEF ListInv, Scanned, Printed
<1>7. CASE Unlink
  <2>1. call = "delete" /\ call' = "none" /\ out' = out /\ latest # Null
    BY <1>7 DEF Unlink, Return
  <2>2. PICK s : IsChain(s)
    BY <2>1 DEF ListInv, AllChained, Built
  <2>3. PICK p \in 1 .. Len(s) : s[p] = latest
    BY <1>0, <2>1, <2>2, StepBack DEF Built
  <2>4. PICK t : IsChain(t)'
    BY <1>0, <1>7, <2>2, <2>3, UnlinkShrinks
  <2> QED BY <1>0, <2>1, <2>4 DEF ListInv, AllChained, Scanned, Printed
<1>8. CASE printList
  <2>1. /\ call = "none" /\ call' = "print" /\ out' = out /\ latest' = currentNode
        /\ UNCHANGED heap
    BY <1>8 DEF printList
  <2>2. AllChained'
    BY <2>1, HeapKept DEF Built
  <2>3. Printed'
    <3> SUFFICES ASSUME NEW s, IsChain(s)
                 PROVE  /\ latest' # Null
                        /\ \A p \in 1 .. Len(s) :
                             latest' = s[p] =>
                               out' \o From(Contents)[Len(s) - p] = From(Contents)[Len(s) - 1]
      BY <2>1, SameHeap DEF Printed, heap
    <3>1. /\ Contents \in Seq(Value \cup {HEAD}) /\ Len(Contents) = Len(s) - 1
          /\ Len(s) \in Nat \ {0}
      BY <1>0, <2>1, Values DEF Built
    <3>2. From(Contents)[Len(s) - 1] \in Seq(Value \cup {HEAD})
      BY <3>1, FromIs
    <3>3. out' = <<>>
      BY <2>1 DEF ListInv, Printed
    <3>4. <<>> \o From(Contents)[Len(s) - 1] = From(Contents)[Len(s) - 1]
      BY <3>2, ConcatEmptySeq
    <3>5. s[1] = currentNode /\ \A j, k \in 1 .. Len(s) : s[j] = s[k] => j = k
      BY DEF IsChain
    <3>6. \A p \in 1 .. Len(s) : latest' = s[p] => p = 1
      BY <2>1, <3>1, <3>5
    <3>7. latest' # Null
      BY <1>0, <2>1, ListAssumption DEF IndInv, Linked, Built, TypeOK
    <3> QED BY <3>3, <3>4, <3>6, <3>7
  <2>4. Scanned'
    BY <2>1 DEF Scanned
  <2> QED BY <1>0, <2>2, <2>3, <2>4 DEF ListInv
<1>9. CASE PrintOn
  <2>1. call = "print" /\ call' = "print" /\ UNCHANGED heap
    BY <1>9 DEF PrintOn
  <2>2. AllChained' /\ Scanned'
    BY <2>1, HeapKept DEF Built, Scanned
  <2> QED BY <1>0, <1>9, <2>2, PrintOnPrinted DEF ListInv
<1>10. CASE PrintEnds
  <2>1. call = "print" /\ call' = "none" /\ out' = <<>> /\ UNCHANGED heap
    BY <1>10 DEF PrintEnds
  <2>2. AllChained'
    BY <2>1, HeapKept DEF Built
  <2> QED BY <1>0, <2>1, <2>2 DEF ListInv, Scanned, Printed
<1>11. CASE UNCHANGED vars
  <2>1. /\ UNCHANGED <<mem, data, prev, head, currentNode>>
        /\ UNCHANGED <<call, value, latest, out>>
    BY <1>11 DEF vars, heap
  <2>2. AllChained'
    BY <2>1, SameHeap DEF ListInv, AllChained, Built
  <2>3. Scanned'
    BY <2>1, SameHeap DEF ListInv, Scanned
  <2>4. Printed'
    BY <2>1, SameHeap DEF ListInv, Printed
  <2> QED BY <1>0, <2>2, <2>3, <2>4 DEF ListInv
<1> QED
  BY <1>1, <1>2, <1>3, <1>4, <1>5, <1>6, <1>7, <1>8, <1>9, <1>10, <1>11 DEF Next, Crashed

\* The inductive invariant for the contents holds always.
THEOREM ChainInvariance == Spec => []ListInv
BY InitListInv, NextListInv, PTL DEF Spec

\* Whatever is inserted and deleted, the walk from currentNode passes every
\* allocated node once and ends at the head: deleteNode leaves no node behind
\* that nobody can reach (ListDemo.c:35-41,67-76,88).
THEOREM NoLeak == Spec => []NothingLeaks
<1>1. ListInv => NothingLeaks
  <2> SUFFICES ASSUME ListInv, Built
               PROVE  /\ {Nodes[k] : k \in DOMAIN Nodes} = mem
                      /\ Len(Nodes) = Cardinality(mem)
                      /\ Nodes[Len(Nodes)] = head
    BY DEF NothingLeaks
  <2>1. PICK s : IsChain(s)
    BY DEF ListInv, AllChained
  <2>2. Nodes = s
    BY <2>1, OneChain DEF ListInv
  <2>3. /\ Cardinality(mem) = Len(s) /\ s[Len(s)] = head
        /\ \A k \in 1 .. Len(s) : s[k] \in mem
        /\ \A a \in mem : \E k \in 1 .. Len(s) : s[k] = a
    BY <2>1, ChainLength DEF ListInv, IndInv, IsChain
  <2>4. DOMAIN s = 1 .. Len(s)
    BY <2>1, LenProperties DEF IsChain
  <2>5. {s[k] : k \in DOMAIN s} = mem
    BY <2>3, <2>4
  <2> QED BY <2>2, <2>3, <2>5
<1> QED BY <1>1, ChainInvariance, PTL

-----------------------------------------------------------------------------
(***************************************************************************)
(* The chain implements the sequence of ValueList.                         *)
(***************************************************************************)

\* The sequence of values the chain stands for.
View == IF Built THEN Contents ELSE <<>>

\* insert(v) appends v and moves nothing else (ListDemo.c:33-42).
LEMMA InsertAppends ==
  ASSUME ListInv, IndInv', NEW v \in Value, insert(v)
  PROVE  Abstract!Insert(v)
<1>1. PICK a \in Addr \ mem :
        /\ mem' = mem \cup {a}
        /\ data' = [data EXCEPT ![a] = v]
        /\ prev' = [prev EXCEPT ![a] = currentNode]
        /\ currentNode' = a
  BY DEF insert
<1>2. Built /\ Built' /\ head' = head /\ printed' = <<>> /\ IndInv
  BY DEF insert, Built, ListInv
<1>3. PICK s : IsChain(s)
  BY <1>2 DEF ListInv, AllChained
<1>4. PICK t : /\ IsChain(t)' /\ Len(t) = Len(s) + 1 /\ t[1] = a
               /\ \A k \in 1 .. Len(s) : t[k + 1] = s[k]
  BY <1>1, <1>2, <1>3, InsertGrows
<1> DEFINE S == Value \cup {HEAD}
           n == Len(s)
<1>5. /\ n \in Nat \ {0} /\ Contents \in Seq(S) /\ Len(Contents) = n - 1
      /\ \A k \in 1 .. n - 1 : Contents[k] = data[s[n - k]]
  BY <1>2, <1>3, Values
<1>6. /\ Contents' \in Seq(S) /\ Len(Contents') = n
      /\ \A k \in 1 .. n : Contents'[k] = data'[t[(n + 1) - k]]
  <2>1. /\ Contents' \in Seq(S) /\ Len(Contents') = Len(t) - 1
        /\ \A k \in 1 .. Len(t) - 1 : Contents'[k] = data'[t[Len(t) - k]]
    BY <1>2, <1>4, NextValues
  <2>2. Len(t) = n + 1 /\ Len(t) - 1 = n
    BY <1>4, <1>5
  <2> QED BY <2>1, <2>2
<1>7. PICK c : c = Append(Contents, v)
  OBVIOUS
<1>8. /\ c \in Seq(S) /\ Len(c) = n
      /\ \A k \in 1 .. n - 1 : c[k] = Contents[k]
      /\ c[n] = v
  <2>1. v \in S
    OBVIOUS
  <2> HIDE DEF S
  <2>2. /\ c \in Seq(S) /\ Len(c) = Len(Contents) + 1
        /\ \A k \in 1 .. Len(Contents) : c[k] = Contents[k]
        /\ c[Len(Contents) + 1] = v
    BY <1>5, <1>7, <2>1, AppendProperties
  <2> QED BY <1>5, <2>2
<1>9. ASSUME NEW k \in 1 .. n PROVE Contents'[k] = c[k]
  <2>1. CASE k = n
    <3>1. (n + 1) - k = 1
      BY <1>5, <2>1
    <3>2. data'[a] = v
      BY <1>1, <1>2 DEF IndInv, TypeOK
    <3> QED BY <1>4, <1>6, <1>8, <2>1, <3>1, <3>2
  <2>2. CASE k # n
    <3>1. k \in 1 .. n - 1 /\ n - k \in 1 .. n /\ (n + 1) - k = (n - k) + 1
      BY <1>5, <2>2
    <3>2. t[(n + 1) - k] = s[n - k]
      BY <1>4, <3>1
    <3>3. s[n - k] \in mem /\ s[n - k] \in Addr /\ s[n - k] # a
      BY <1>2, <1>3, <3>1, ChainLength DEF IndInv, TypeOK
    <3>4. data'[s[n - k]] = data[s[n - k]]
      BY <1>1, <1>2, <3>3 DEF IndInv, TypeOK
    <3> QED BY <1>5, <1>6, <1>8, <3>1, <3>2, <3>4
  <2> QED BY <2>1, <2>2
<1> HIDE DEF S
<1>10. Contents' = c
  BY <1>6, <1>8, <1>9, SeqEqual
<1> QED BY <1>2, <1>7, <1>10 DEF Abstract!Insert

\* deleteNode(v) takes out the latest v: search has passed every later node
\* without meeting it (ListDemo.c:44-90).
LEMMA UnlinkDeletes ==
  ASSUME ListInv, IndInv', Unlink
  PROVE  \E v \in Value : Abstract!Delete(v)
<1>1. /\ call = "delete" /\ latest # Null /\ data[latest] # HEAD /\ data[latest] = value
      /\ Built /\ Built' /\ data' = data /\ printed' = <<>> /\ IndInv
  BY DEF Unlink, Found, Return, Built, ListInv
<1>2. PICK s : IsChain(s)
  BY <1>1 DEF ListInv, AllChained
<1>3. PICK p \in 1 .. Len(s) : s[p] = latest
  BY <1>1, <1>2, StepBack
<1> DEFINE S == Value \cup {HEAD}
           n == Len(s)
<1>4. PICK t : /\ IsChain(t)'
               /\ p < n /\ n \in Nat /\ Len(t) = n - 1
               /\ \A k \in 1 .. n - 1 : t[k] = IF k < p THEN s[k] ELSE s[k + 1]
  BY <1>1, <1>2, <1>3, UnlinkShrinks
<1>5. /\ Contents \in Seq(S) /\ Len(Contents) = n - 1
      /\ \A k \in 1 .. n - 1 : Contents[k] = data[s[n - k]]
  BY <1>1, <1>2, Values
<1>6. /\ Contents' \in Seq(S) /\ Len(Contents') = n - 2
      /\ \A k \in 1 .. n - 2 : Contents'[k] = data[t[(n - 1) - k]]
  <2>1. /\ Contents' \in Seq(S) /\ Len(Contents') = Len(t) - 1
        /\ \A k \in 1 .. Len(t) - 1 : Contents'[k] = data'[t[Len(t) - k]]
    BY <1>1, <1>4, NextValues
  <2>2. Len(t) = n - 1 /\ Len(t) - 1 = n - 2
    BY <1>4
  <2> QED BY <1>1, <2>1, <2>2
<1>7. PICK i : i = n - p
  OBVIOUS
<1>8. i \in 1 .. n - 1 /\ n - i = p /\ Contents[i] = value
  <2>1. i \in 1 .. n - 1 /\ n - i = p
    BY <1>4, <1>7
  <2> QED BY <1>1, <1>3, <1>5, <2>1
<1>9. ASSUME NEW k \in 1 .. n - 1, Contents[k] = value PROVE k <= i
  <2> SUFFICES ASSUME k > i PROVE FALSE
    BY <1>4, <1>8
  <2>1. n - k \in 1 .. p - 1
    BY <1>4, <1>7
  <2>2. data[s[n - k]] # value
    BY <1>1, <1>2, <1>3, <2>1 DEF ListInv, Scanned
  <2> QED BY <1>5, <1>9, <2>2
<1> DEFINE places == {k \in DOMAIN View : View[k] = value}
<1>10. View = Contents /\ DOMAIN View = 1 .. n - 1
  <2>1. DOMAIN Contents = 1 .. Len(Contents)
    BY <1>5, LenProperties
  <2> QED BY <1>1, <1>5, <2>1 DEF View
<1>11. i \in places /\ \A k \in places : k <= i
  BY <1>8, <1>9, <1>10
<1>12. Abstract!Max(places) = i
  <2>1. places \subseteq Int
    BY <1>4, <1>10
  <2> HIDE DEF places
  <2>2. \A x \in places : (\A y \in places : x >= y) => x = i
    BY <1>11, <2>1
  <2>3. i \in places /\ \A y \in places : i >= y
    BY <1>11, <2>1
  <2>4. Abstract!Max(places) = CHOOSE x \in places : \A y \in places : x >= y
    BY DEF Abstract!Max
  <2> QED BY <2>2, <2>3, <2>4
<1>13. PICK c \in Seq(S) :
         /\ c = SubSeq(Contents, 1, i - 1) \o SubSeq(Contents, i + 1, Len(Contents))
         /\ Len(c) = Len(Contents) - 1
         /\ \A k \in 1 .. Len(Contents) - 1 : c[k] = IF k < i THEN Contents[k] ELSE Contents[k + 1]
  <2> HIDE DEF S
  <2>1. PICK b : b = Contents
    OBVIOUS
  <2>2. b \in Seq(S) /\ i \in 1 .. Len(b)
    BY <1>5, <1>8, <2>1
  <2>3. \E c \in Seq(S) :
          /\ c = SubSeq(b, 1, i - 1) \o SubSeq(b, i + 1, Len(b))
          /\ Len(b) \in Nat /\ Len(c) = Len(b) - 1
          /\ \A k \in 1 .. Len(b) - 1 : c[k] = IF k < i THEN b[k] ELSE b[k + 1]
          /\ \A k \in 1 .. Len(b) : b[k] \in S
    BY <2>2, Without, Zenon
  <2> QED BY <2>1, <2>3
<1>14. ASSUME NEW k \in 1 .. n - 2 PROVE Contents'[k] = c[k]
  <2>1. k \in 1 .. Len(Contents) - 1 /\ (n - 1) - k \in 1 .. n - 1
    BY <1>4, <1>5
  <2>2. CASE k < i
    <3>1. ~((n - 1) - k < p) /\ ((n - 1) - k) + 1 = n - k /\ k \in 1 .. n - 1
      BY <1>4, <1>7, <2>2
    <3>2. t[(n - 1) - k] = s[((n - 1) - k) + 1]
      BY <1>4, <2>1, <3>1
    <3>3. Contents'[k] = data[s[n - k]]
      BY <1>6, <3>1, <3>2
    <3>4. Contents'[k] = Contents[k]
      BY <1>5, <3>1, <3>3
    <3> QED BY <1>13, <2>1, <2>2, <3>4
  <2>3. CASE k >= i
    <3>1. (n - 1) - k < p /\ n - (k + 1) = (n - 1) - k /\ k + 1 \in 1 .. n - 1 /\ ~(k < i)
      BY <1>4, <1>7, <2>3
    <3>2. t[(n - 1) - k] = s[(n - 1) - k]
      BY <1>4, <2>1, <3>1
    <3>3. Contents'[k] = data[s[n - (k + 1)]]
      BY <1>6, <3>1, <3>2
    <3>4. Contents'[k] = Contents[k + 1]
      BY <1>5, <3>1, <3>3
    <3> QED BY <1>13, <2>1, <3>1, <3>4
  <2> QED BY <1>4, <1>8, <2>2, <2>3
<1>15. Contents' = c
  <2>1. Len(c) = n - 2
    BY <1>4, <1>5, <1>13
  <2> HIDE DEF S
  <2> QED BY <1>6, <1>13, <1>14, <2>1, SeqEqual
<1>16. View' = Abstract!RemoveAt(View, Abstract!Max(places))
  <2>1. View' = Contents'
    BY <1>1 DEF View
  <2>2. Abstract!RemoveAt(Contents, i) = c
    BY <1>13 DEF Abstract!RemoveAt
  <2> HIDE DEF places
  <2> QED BY <1>10, <1>12, <1>15, <2>1, <2>2
<1>17. value \in Value
  BY <1>1 DEF IndInv, TypeOK
<1>18. Abstract!Delete(value)
  <2>1. Abstract!Visible(value) /\ places # {}
    BY <1>1, <1>11 DEF Abstract!Visible, HEAD
  <2> QED BY <1>1, <1>16, <2>1 DEF Abstract!Delete, View
<1> QED BY <1>17, <1>18

\* At its end printList has shown every visible value, the latest first
\* (ListDemo.c:119-136).
LEMMA PrintEndsShows ==
  ASSUME ListInv, PrintEnds
  PROVE  Abstract!Show
<1>1. /\ call = "print" /\ latest = Null /\ printed' = out /\ Built /\ Built' /\ IndInv
      /\ UNCHANGED heap
  BY DEF PrintEnds, Built, ListInv
<1>2. PICK s : IsChain(s)
  BY <1>1 DEF ListInv, AllChained
<1>3. Contents \in Seq(Value \cup {HEAD}) /\ Len(Contents) = Len(s) - 1
  BY <1>1, <1>2, Values
<1>4. out = From(Contents)[Len(s) - 1]
  BY <1>1, <1>2 DEF ListInv, Printed
<1>5. Abstract!Shown(Contents) = out
  BY <1>3, <1>4, FromIs
<1>6. Contents' = Contents
  BY <1>1, SameHeap DEF heap
<1> QED BY <1>1, <1>5, <1>6 DEF Abstract!Show

\* Every step of the chain is a step of the sequence or leaves it alone
\* (ListDemo.c:23-136).
LEMMA StepRefines ==
  ListInv /\ IndInv' /\ [Next]_vars => [Abstract!Next]_<<View, printed>>
<1> SUFFICES ASSUME ListInv, IndInv', [Next]_vars
             PROVE  [Abstract!Next]_<<View, printed>>
  OBVIOUS
<1>1. CASE initilizeList
  <2>1. PICK a \in Addr :
          /\ mem' = {a} /\ head' = a /\ currentNode' = a
    BY <1>1 DEF initilizeList
  <2>2. PICK s : s = <<a>>
    OBVIOUS
  <2>3. s \in Seq({a}) /\ Len(s) = 1 /\ s[1] = a
    BY <2>2
  <2>4. IsChain(s)'
    BY <2>1, <2>3 DEF IsChain
  <2>5. ~Built /\ Built' /\ printed' = printed
    BY <1>1 DEF initilizeList, Built
  <2>6. Contents' \in Seq(Value \cup {HEAD}) /\ Len(Contents') = 0
    BY <2>3, <2>4, <2>5, NextValues
  <2>7. Contents' = <<>>
    BY <2>6, EmptySeq
  <2> QED BY <2>5, <2>7 DEF View
<1>2. ASSUME NEW v \in Value, insert(v) PROVE Abstract!Next
  BY <1>2, InsertAppends DEF Abstract!Next
<1>3. CASE Unlink
  BY <1>3, UnlinkDeletes DEF Abstract!Next
<1>4. CASE PrintEnds
  BY <1>4, PrintEndsShows DEF Abstract!Next
<1>5. ASSUME \/ insertCrashes \/ \E v \in Value : deleteNode(v)
             \/ SearchOn \/ SearchFails \/ printList \/ PrintOn \/ UNCHANGED vars
      PROVE  UNCHANGED <<View, printed>>
  <2>1. /\ UNCHANGED <<mem, data, prev, head, currentNode, printed>>
        /\ Built' = Built
    BY <1>5 DEF insertCrashes, deleteNode, SearchOn, SearchFails, Return, printList,
                PrintOn, vars, heap, Built
  <2>2. Contents' = Contents
    BY <2>1, SameHeap
  <2> QED BY <2>1, <2>2 DEF View
<1> QED BY <1>1, <1>2, <1>3, <1>4, <1>5 DEF Next, Crashed

\* For every set of addresses and values, and after every sequence of calls,
\* the chain of nodes behaves as the sequence of ValueList
\* (ListDemo.c:33-136).
THEOREM Refinement == Spec => ImplementsValueList
<1>1. Init => Abstract!Init
  BY DEF Init, Abstract!Init, Built
<1>2. ListInv /\ IndInv' /\ [Next]_vars => [Abstract!Next]_<<IF Built THEN Contents ELSE <<>>, printed>>
  BY StepRefines DEF View
<1> QED BY <1>1, <1>2, ChainInvariance, Invariance, PTL DEF Spec, ImplementsValueList, Abstract!Spec

=============================================================================
