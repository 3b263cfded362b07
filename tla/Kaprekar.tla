------------------------------ MODULE Kaprekar ------------------------------
(***************************************************************************)
(* kaprekar.cxx: the number made of the digits in descending order minus   *)
(* the one in ascending order, until 6174.  Arguments have at most nine    *)
(* digits here: ten can make makeNum wrap.  That no number grows longer    *)
(* than that is part of the types.                                         *)
(***************************************************************************)
EXTENDS Naturals, Sequences

CONSTANTS
  Inputs,    \* the arguments of the program
  MaxIter    \* a bound: num_iter is not counted further

VARIABLES
  l_num, ascNum, dscNum, num_iter,
  outcome,   \* "start", "running", "rejected" (exit(1)) or "reached"
  width      \* history: the number of digits of the argument

kaprekarVars == <<l_num, ascNum, dscNum, num_iter, outcome, width>>

DECIMAL == 10

\* the digits, the last one first
breakNum[num \in Nat] ==
  IF num = 0 THEN << >> ELSE <<num % 10>> \o breakNum[num \div 10]

\* the factor of a digit that has k digits before it in the vector
placeVal[k \in Nat] == IF k = 0 THEN 1 ELSE placeVal[k - 1] * DECIMAL

\* what nine digits make: 10^9, the next place value, is less than 2^32
Number == {num \in Nat : num < placeVal[9]}

KaprekarAssumption == Inputs \subseteq Number /\ MaxIter \in Nat

makeNum(v) ==
  LET num[k \in 0 .. Len(v)] == IF k = 0 THEN 0 ELSE num[k - 1] + v[k] * placeVal[k - 1]
  IN  num[Len(v)]

NoPadding(num) == breakNum[num]  \* mutated: three digits stay three

\* three digits count as four
Digits(num) ==
  LET v == breakNum[num] IN IF Len(v) = 3 THEN Append(v, 0) ELSE v

\* adjacent_find with not_equal_to finds nothing: also of no digit, or of one
AllEqual(v) == \A k \in 1 .. Len(v) - 1 : v[k] = v[k + 1]

\* the ways to put n digits one after the other
Orders(n) == {p \in [1 .. n -> 1 .. n] : \A i, j \in 1 .. n : i < j => p[i] # p[j]}

Arrangements(v) == {[k \in 1 .. Len(v) |-> v[p[k]]] : p \in Orders(Len(v))}

Descending(v) == \A i, j \in 1 .. Len(v) : i < j => v[i] >= v[j]

\* sort with greater<int>()
Sort(v) == CHOOSE s \in Arrangements(v) : Descending(s)

TypeOK ==
  /\ {l_num, ascNum, dscNum} \subseteq Number
  /\ num_iter \in 0 .. MaxIter /\ width \in 0 .. 9
  /\ outcome \in {"start", "running", "rejected", "reached"}

Init ==
  /\ l_num \in Inputs
  /\ width = Len(breakNum[l_num])
  /\ ascNum = 0 /\ dscNum = 0 /\ num_iter = 0 /\ outcome = "start"

getAscDscNum(num) ==
  \E v \in {Digits(num)} :
    IF AllEqual(v)
    THEN outcome' = "rejected" /\ UNCHANGED <<ascNum, dscNum>>
    ELSE \E s \in {Sort(v)} :
           /\ outcome' = "running"
           /\ ascNum' = makeNum(s)
           /\ dscNum' = makeNum([k \in 1 .. Len(v) |-> s[Len(v) + 1 - k]])

Start ==
  /\ outcome = "start"
  /\ getAscDscNum(l_num)
  /\ UNCHANGED <<l_num, num_iter, width>>

Iterate ==
  /\ outcome = "running" /\ l_num # 6174
  /\ l_num' = dscNum - ascNum
  /\ num_iter' = IF num_iter < MaxIter THEN num_iter + 1 ELSE num_iter
  /\ getAscDscNum(dscNum - ascNum)
  /\ UNCHANGED width

Return ==
  /\ outcome = "running" /\ l_num = 6174
  /\ outcome' = "reached"
  /\ UNCHANGED <<l_num, ascNum, dscNum, num_iter, width>>

Next == Start \/ Iterate \/ Return

Spec == Init /\ [][Next]_kaprekarVars /\ WF_kaprekarVars(Next)

-----------------------------------------------------------------------------
(***************************************************************************)
(* The two numbers are the smallest and the largest that the digits make,  *)
(* whatever their order, and the unsigned difference does not wrap         *)
(* (getAscDscNum, kaprekar.cxx:40-57, against its definition).             *)
(***************************************************************************)
SmallestAndLargest ==
  outcome = "running" =>
    LET v == Digits(l_num)
        made == {makeNum(s) : s \in Arrangements(v)}
    IN  {ascNum, dscNum} \subseteq made /\ \A n \in made : ascNum <= n /\ n <= dscNum

(***************************************************************************)
(* Every argument of three or four digits that is not rejected at once     *)
(* reaches 6174 in at most seven iterations and never runs into the exit   *)
(* of getAscDscNum on the way (kaprekar.cxx:60-77).                        *)
(***************************************************************************)
SevenAreEnough ==
  width \in {3, 4} => num_iter <= 7 /\ (outcome = "rejected" => num_iter = 0)

(***************************************************************************)
(* The program ends for every argument of at most four digits: it reaches  *)
(* 6174 or exits, a number of two digits through the exit for equal ones.  *)
(* A longer argument can keep the loop of kaprekar.cxx:67 for ever.        *)
(***************************************************************************)
Ended == width > 4 \/ (outcome = "reached" /\ width > 2) \/ outcome = "rejected"

EndsUpToFour == <>Ended
=============================================================================
