--------------------------- MODULE KaprekarProofs ---------------------------
(***************************************************************************)
(* kaprekar.cxx for every argument of at most nine digits, and from it the *)
(* types of all the small programs.                                        *)
(*                                                                         *)
(* That no order of the digits makes a smaller number than the falling one *)
(* or a larger one than the rising one is an exchange argument: a larger   *)
(* digit that moves to a higher place makes the number larger, and every   *)
(* order becomes the rising one by such moves, from the last place down.   *)
(* What is missing to nines carries the result over to the smallest number.*)
(* Seven iterations are enough because what is left of four digits depends *)
(* on two differences of digits only, and on those a turn is a step down a *)
(* table of seven rows.                                                    *)
(***************************************************************************)
EXTENDS ServicesProofs, MailboxProofs, FiniteSetTheorems, WellFoundedInduction

-----------------------------------------------------------------------------
(***************************************************************************)
(* Induction and recursion over the natural numbers, for a set and for a   *)
(* function instead of an operator.                                        *)
(***************************************************************************)

\* What holds of a number if it holds of all smaller ones holds of all: for
\* the loops of kaprekar.cxx:19-24,32-36, turn after turn.
LEMMA Upward ==
  ASSUME NEW B, \A n \in Nat : (\A k \in Nat : k < n => k \in B) => n \in B
  PROVE  \A n \in Nat : n \in B
<1> DEFINE D == Nat \ B
           R == OpToRel(<, Nat)
<1>1. ASSUME D # {} PROVE FALSE
  <2>1. D \subseteq Nat
    OBVIOUS
  <2>2. IsWellFoundedOn(R, Nat)
    BY NatLessThanWellFounded
  <2>3. \A x, y \in Nat : x < y => <<x, y>> \in R
    BY DEF OpToRel
  <2>4. PICK n \in D : \A k \in D : ~(<<k, n>> \in R)
    <3> HIDE DEF D, R
    <3> QED BY <1>1, <2>1, <2>2, WFMin
  <2>5. ASSUME NEW k \in Nat, k < n PROVE k \in B
    <3>1. n \in Nat /\ (k \notin B => k \in D)
      OBVIOUS
    <3> HIDE DEF D, R
    <3> QED BY <2>3, <2>4, <2>5, <3>1
  <2> QED BY <2>5
<1> QED BY <1>1

\* back leads from every number but zero to a smaller one.
Back(back) == back \in [Nat -> Nat] /\ \A n \in Nat : n # 0 => back[n] < n

\* F has the value base at zero, and go makes its value at n from the one at
\* back[n].
Recursive(F, T, base, back, go) ==
  /\ F \in [Nat -> T] /\ F[0] = base
  /\ \A n \in Nat : n # 0 => F[n] = go[n][F[back[n]]]

\* A function may be defined by its value at zero and by what a number has to
\* do with a smaller one: breakNum, placeVal and makeNum
\* (kaprekar.cxx:15-38) are such functions.
LEMMA Recursion ==
  ASSUME NEW T, NEW base \in T, NEW back, Back(back), NEW go \in [Nat -> [T -> T]]
  PROVE  \E F : Recursive(F, T, base, back, go)
<1> USE DEF Back
<1> DEFINE Sat(f, n) ==
             /\ f \in [0 .. n -> T] /\ f[0] = base
             /\ \A k \in 0 .. n : k # 0 => f[k] = go[k][f[back[k]]]
           U == {k \in Nat : \A j, n \in Nat : \A f, g :
                   k <= j /\ k <= n /\ Sat(f, j) /\ Sat(g, n) => f[k] = g[k]}
           E == {n \in Nat : \E f : Sat(f, n)}
<1>1. \A k \in Nat : k \in U
  <2>1. ASSUME NEW k \in Nat, \A j \in Nat : j < k => j \in U PROVE k \in U
    <3>a. \A y : y \in U => \A j, n \in Nat : \A f, g :
            y <= j /\ y <= n /\ Sat(f, j) /\ Sat(g, n) => f[y] = g[y]
      <4> HIDE DEF Sat
      <4> QED OBVIOUS
    <3> SUFFICES ASSUME NEW j \in Nat, NEW n \in Nat, NEW f, NEW g,
                        k <= j, k <= n, Sat(f, j), Sat(g, n)
                 PROVE  f[k] = g[k]
      <4> HIDE DEF Sat
      <4> QED BY Zenon
    <3>1. CASE k = 0
      BY <3>1
    <3>2. CASE k # 0
      <4>1. back[k] \in Nat /\ back[k] < k /\ k \in 0 .. j /\ k \in 0 .. n
        BY <3>2
      <4>2. back[k] \in U /\ back[k] <= j /\ back[k] <= n
        <5> HIDE DEF U, Sat
        <5>1. back[k] <= j /\ back[k] <= n
          <6>1. PICK z \in Nat : z = back[k] /\ z < k
            BY <4>1
          <6>2. z <= j /\ z <= n
            BY <6>1
          <6> QED BY <6>1, <6>2
        <5> QED BY <2>1, <4>1, <5>1
      <4>3. f[back[k]] = g[back[k]]
        <5> HIDE DEF Sat, U
        <5> QED BY <3>a, <4>2
      <4> QED BY <3>2, <4>1, <4>3
    <3> QED BY <3>1, <3>2
  <2> HIDE DEF U
  <2> QED BY <2>1, Upward
<1>2. \A n \in Nat : n \in E
  <2>1. ASSUME NEW n \in Nat, \A j \in Nat : j < n => j \in E PROVE n \in E
    <3>1. CASE n = 0
      <4> DEFINE f == [k \in 0 .. 0 |-> base]
      <4>1. Sat(f, 0)
        OBVIOUS
      <4> HIDE DEF Sat, f
      <4> QED BY <3>1, <4>1
    <3>2. CASE n # 0
      <4>1. n - 1 \in Nat /\ n - 1 < n
        BY <3>2
      <4>2. PICK f : Sat(f, n - 1)
        <5> HIDE DEF Sat
        <5> QED BY <2>1, <4>1
      <4> DEFINE g == [k \in 0 .. n |-> IF k = n THEN go[n][f[back[n]]] ELSE f[k]]
      <4>3. /\ \A k \in 0 .. n : k # n => k \in 0 .. n - 1
            /\ back[n] \in 0 .. n - 1
            /\ \A k \in 0 .. n : k # 0 => back[k] \in 0 .. n - 1 /\ back[k] \in 0 .. n
                                          /\ back[k] # n
        BY <3>2
      <4>4. g \in [0 .. n -> T]
        BY <4>2, <4>3
      <4>5. g[0] = base
        BY <3>2, <4>2
      <4>6. ASSUME NEW k \in 0 .. n, k # 0 PROVE g[k] = go[k][g[back[k]]]
        <5>1. g[back[k]] = f[back[k]]
          BY <4>3, <4>6
        <5> QED BY <4>2, <4>3, <4>6, <5>1
      <4>7. Sat(g, n)
        BY <4>4, <4>5, <4>6
      <4> HIDE DEF Sat, g
      <4> QED BY <4>7
    <3> QED BY <3>1, <3>2
  <2> HIDE DEF E
  <2> QED BY <2>1, Upward
<1> DEFINE H(n) == CHOOSE f : Sat(f, n)
           F == [n \in Nat |-> H(n)[n]]
<1>3. \A n \in Nat : Sat(H(n), n)
  <2> HIDE DEF Sat
  <2> QED BY <1>2
<1> HIDE DEF H
<1>4. \A n \in Nat : F[n] \in T
  BY <1>3
<1>5. F[0] = base
  BY <1>3
<1>6. ASSUME NEW n \in Nat, n # 0 PROVE F[n] = go[n][F[back[n]]]
  <2>1. back[n] \in Nat /\ back[n] <= n /\ back[n] <= back[n]
    BY <1>6
  <2>2. Sat(H(n), n) /\ Sat(H(back[n]), back[n])
    BY <1>3, <2>1
  <2>3. H(n)[back[n]] = H(back[n])[back[n]]
    <3>1. back[n] \in U
      <4> HIDE DEF U
      <4> QED BY <1>1, <2>1
    <3> HIDE DEF Sat
    <3> QED BY <2>1, <2>2, <3>1
  <2>4. H(n)[n] = go[n][H(n)[back[n]]]
    BY <1>6, <2>2
  <2> QED BY <2>1, <2>3, <2>4
<1> HIDE DEF H, Sat
<1>7. F \in [Nat -> T]
  BY <1>4
<1> HIDE DEF F
<1> QED BY <1>5, <1>6, <1>7 DEF Recursive

-----------------------------------------------------------------------------
(***************************************************************************)
(* Digits and numbers.                                                     *)
(***************************************************************************)

Digit == 0 .. 9

\* placeVal begins with one and is multiplied by ten (kaprekar.cxx:30,35).
LEMMA PlaceValues ==
  /\ \A k \in Nat : Kap!placeVal[k] \in Nat /\ Kap!placeVal[k] >= 1
  /\ Kap!placeVal[0] = 1
  /\ \A k \in Nat : Kap!placeVal[k + 1] = Kap!placeVal[k] * 10
<1> DEFINE back == [n \in Nat |-> IF n = 0 THEN 0 ELSE n - 1]
           go == [n \in Nat |-> [t \in Nat |-> t * 10]]
           Fun(f) == [k \in Nat |-> IF k = 0 THEN 1 ELSE f[k - 1] * Kap!DECIMAL]
<1>1. Back(back)
  BY DEF Back
<1>2. go \in [Nat -> [Nat -> Nat]] /\ 1 \in Nat
  OBVIOUS
<1>a. PICK F : Recursive(F, Nat, 1, back, go)
  <2> HIDE DEF go, back
  <2> QED BY <1>1, <1>2, Recursion
<1>3. F \in [Nat -> Nat] /\ F[0] = 1 /\ \A n \in Nat : n # 0 => F[n] = go[n][F[back[n]]]
  BY <1>a DEF Recursive
<1>4. ASSUME NEW n \in Nat PROVE F[n] = IF n = 0 THEN 1 ELSE F[n - 1] * Kap!DECIMAL
  <2>1. CASE n = 0
    BY <1>3, <2>1
  <2>2. CASE n # 0
    <3>1. n - 1 \in Nat /\ back[n] = n - 1
      BY <2>2
    <3>2. F[n - 1] \in Nat /\ F[n] = go[n][F[n - 1]]
      BY <1>3, <2>2, <3>1
    <3> QED BY <2>2, <3>2 DEF Kap!DECIMAL
  <2> QED BY <2>1, <2>2
<1>5. F = Fun(F)
  <2>1. F = [n \in Nat |-> F[n]]
    BY <1>3
  <2> QED BY <1>4, <2>1
<1>6. Kap!placeVal = Fun(Kap!placeVal)
  <2>1. Kap!placeVal = CHOOSE f : f = Fun(f)
    BY DEF Kap!placeVal
  <2> HIDE DEF Fun
  <2> QED BY <1>5, <2>1
<1>7. \A n \in Nat : Kap!placeVal[n] = IF n = 0 THEN 1 ELSE Kap!placeVal[n - 1] * 10
  BY <1>6 DEF Kap!DECIMAL
<1>8. ASSUME NEW k \in Nat PROVE Kap!placeVal[k + 1] = Kap!placeVal[k] * 10
  <2>1. k + 1 \in Nat /\ k + 1 # 0 /\ (k + 1) - 1 = k
    OBVIOUS
  <2> QED BY <1>7, <2>1
<1> DEFINE B == {k \in Nat : Kap!placeVal[k] \in Nat /\ Kap!placeVal[k] >= 1}
<1>9. \A n \in Nat : n \in B
  <2>1. ASSUME NEW n \in Nat, \A k \in Nat : k < n => k \in B PROVE n \in B
    <3>1. CASE n = 0
      BY <1>7, <3>1
    <3>2. CASE n # 0
      <4>1. n - 1 \in Nat /\ n - 1 < n
        BY <3>2
      <4>2. Kap!placeVal[n - 1] \in Nat /\ Kap!placeVal[n - 1] >= 1
        BY <2>1, <4>1
      <4> QED BY <1>7, <3>2, <4>2
    <3> QED BY <3>1, <3>2
  <2> HIDE DEF B
  <2> QED BY <2>1, Upward
<1> QED BY <1>7, <1>8, <1>9

\* A place is worth at least as much as one before it (kaprekar.cxx:35).
LEMMA PlacesGrow ==
  ASSUME NEW j \in Nat, NEW k \in Nat, j <= k
  PROVE  Kap!placeVal[j] <= Kap!placeVal[k]
<1> DEFINE B == {n \in Nat : j <= n => Kap!placeVal[j] <= Kap!placeVal[n]}
<1>1. ASSUME NEW n \in Nat, \A x \in Nat : x < n => x \in B PROVE n \in B
  <2>1. CASE j < n
    <3>1. n - 1 \in Nat /\ n - 1 < n /\ j <= n - 1 /\ (n - 1) + 1 = n
      BY <2>1
    <3>2. Kap!placeVal[j] <= Kap!placeVal[n - 1]
      BY <1>1, <3>1
    <3>3. Kap!placeVal[n] = Kap!placeVal[n - 1] * 10
      BY <3>1, PlaceValues
    <3>4. Kap!placeVal[j] \in Nat /\ Kap!placeVal[n - 1] \in Nat
      BY <3>1, PlaceValues
    <3> QED BY <3>2, <3>3, <3>4
  <2>2. CASE ~(j < n)
    <3>1. j <= n => j = n
      BY <2>2
    <3>2. Kap!placeVal[j] \in Nat
      BY PlaceValues
    <3> QED BY <3>1, <3>2
  <2> QED BY <2>1, <2>2
<1>2. k \in B
  <2> HIDE DEF B
  <2> QED BY <1>1, Upward
<1> QED BY <1>2

\* breakNum takes the last digit and goes on with the rest
\* (kaprekar.cxx:19-24).
LEMMA BreakNum ==
  /\ \A num \in Nat : Kap!breakNum[num] \in Seq(Digit)
  /\ Kap!breakNum[0] = << >>
  /\ \A num \in Nat : num # 0 =>
       Kap!breakNum[num] = <<num % 10>> \o Kap!breakNum[num \div 10]
<1> DEFINE back == [n \in Nat |-> n \div 10]
           go == [n \in Nat |-> [t \in Seq(Digit) |-> <<n % 10>> \o t]]
           Fun(f) == [num \in Nat |-> IF num = 0 THEN << >>
                                      ELSE <<num % 10>> \o f[num \div 10]]
<1>0. ASSUME NEW n \in Nat
      PROVE  n % 10 \in Digit /\ n \div 10 \in Nat /\ (n # 0 => n \div 10 < n)
  BY DEF Digit
<1>1. Back(back)
  BY <1>0 DEF Back
<1>2. ASSUME NEW n \in Nat, NEW t \in Seq(Digit) PROVE <<n % 10>> \o t \in Seq(Digit)
  <2>1. <<n % 10>> \in Seq(Digit)
    BY <1>0
  <2> QED BY <2>1, ConcatProperties
<1>3. go \in [Nat -> [Seq(Digit) -> Seq(Digit)]] /\ << >> \in Seq(Digit)
  BY <1>2, EmptySeq
<1>a. PICK F : Recursive(F, Seq(Digit), << >>, back, go)
  <2> HIDE DEF go, back
  <2> QED BY <1>1, <1>3, Recursion
<1>4. /\ F \in [Nat -> Seq(Digit)] /\ F[0] = << >>
      /\ \A n \in Nat : n # 0 => F[n] = go[n][F[back[n]]]
  BY <1>a DEF Recursive
<1>5. ASSUME NEW n \in Nat
      PROVE  F[n] = IF n = 0 THEN << >> ELSE <<n % 10>> \o F[n \div 10]
  <2>1. F[back[n]] \in Seq(Digit) /\ back[n] = n \div 10
    BY <1>0, <1>4
  <2> QED BY <1>4, <2>1
<1>6. F = Fun(F)
  <2>1. F = [n \in Nat |-> F[n]]
    BY <1>4
  <2> QED BY <1>5, <2>1
<1>7. Kap!breakNum = Fun(Kap!breakNum)
  <2>1. Kap!breakNum = CHOOSE f : f = Fun(f)
    BY DEF Kap!breakNum
  <2> HIDE DEF Fun
  <2> QED BY <1>6, <2>1
<1>8. \A n \in Nat : Kap!breakNum[n] = IF n = 0 THEN << >>
                                       ELSE <<n % 10>> \o Kap!breakNum[n \div 10]
  BY <1>7
<1> DEFINE B == {n \in Nat : Kap!breakNum[n] \in Seq(Digit)}
<1>9. \A n \in Nat : n \in B
  <2>1. ASSUME NEW n \in Nat, \A k \in Nat : k < n => k \in B PROVE n \in B
    <3>1. CASE n = 0
      BY <1>3, <1>8, <3>1
    <3>2. CASE n # 0
      <4>1. Kap!breakNum[n \div 10] \in Seq(Digit)
        BY <1>0, <2>1, <3>2
      <4> QED BY <1>2, <1>8, <3>2, <4>1
    <3> QED BY <3>1, <3>2
  <2> HIDE DEF B
  <2> QED BY <2>1, Upward
<1> QED BY <1>8, <1>9

\* f holds the sums of makeNum, turn after turn (kaprekar.cxx:29-36).
Sums(f, v, n) ==
  /\ f \in [0 .. n -> Nat] /\ f[0] = 0
  /\ \A k \in 1 .. n : f[k] = f[k - 1] + v[k] * Kap!placeVal[k - 1]

\* What the provers know of a product they do not find under functions.
LEMMA Products ==
  /\ \A x, y \in Nat : x * y \in Nat
  /\ \A x, y, z \in Nat : x <= y => x * z <= y * z
OBVIOUS

\* A vector is a sequence of its length.
LEMMA Vector ==
  ASSUME NEW n \in Nat, NEW v \in [1 .. n -> Digit]
  PROVE  v \in Seq(Digit) /\ Len(v) = n
BY SeqDef

\* makeNum returns the last of the sums (kaprekar.cxx:27-38).
LEMMA MakeNum ==
  ASSUME NEW n \in Nat, NEW v \in [1 .. n -> Digit]
  PROVE  \E f : Sums(f, v, n) /\ Kap!makeNum(v) = f[n]
<1> DEFINE back == [k \in Nat |-> IF k = 0 THEN 0 ELSE k - 1]
           go == [k \in Nat |-> [t \in Nat |-> IF k \in 1 .. n
                                               THEN t + v[k] * Kap!placeVal[k - 1] ELSE t]]
           Fun(f) == [k \in 0 .. n |-> IF k = 0 THEN 0
                                       ELSE f[k - 1] + v[k] * Kap!placeVal[k - 1]]
<1>0. Len(v) = n
  BY Vector
<1>1. Back(back)
  BY DEF Back
<1>2. ASSUME NEW k \in 1 .. n
      PROVE  v[k] \in Nat /\ Kap!placeVal[k - 1] \in Nat /\ v[k] * Kap!placeVal[k - 1] \in Nat
  <2>1. k - 1 \in Nat
    OBVIOUS
  <2>2. v[k] \in Nat
    BY DEF Digit
  <2>3. Kap!placeVal[k - 1] \in Nat
    BY <2>1, PlaceValues, Zenon
  <2> QED BY <2>2, <2>3, Products, Zenon
<1>3. go \in [Nat -> [Nat -> Nat]] /\ 0 \in Nat
  <2>1. ASSUME NEW k \in Nat, NEW t \in Nat
        PROVE  (IF k \in 1 .. n THEN t + v[k] * Kap!placeVal[k - 1] ELSE t) \in Nat
    <3>1. CASE k \in 1 .. n
      <4>1. PICK x \in Nat : x = v[k] * Kap!placeVal[k - 1]
        BY <1>2, <3>1
      <4>2. t + x \in Nat
        OBVIOUS
      <4> QED BY <3>1, <4>1, <4>2, Zenon
    <3> QED BY <3>1
  <2> QED BY <2>1
<1>4. PICK F : Recursive(F, Nat, 0, back, go)
  <2> HIDE DEF go, back
  <2> QED BY <1>1, <1>3, Recursion
<1> DEFINE h == [k \in 0 .. n |-> F[k]]
<1>5. ASSUME NEW k \in 1 .. n
      PROVE  h[k] = h[k - 1] + v[k] * Kap!placeVal[k - 1]
  <2>1. k \in Nat /\ k # 0 /\ k - 1 \in Nat /\ k \in 0 .. n /\ k - 1 \in 0 .. n
    OBVIOUS
  <2>2. F[k - 1] \in Nat /\ back[k] = k - 1
    BY <1>4, <2>1 DEF Recursive
  <2>3. F[k] = go[k][F[k - 1]]
    BY <1>4, <2>1, <2>2 DEF Recursive
  <2>4. F[k] = F[k - 1] + v[k] * Kap!placeVal[k - 1]
    BY <2>1, <2>2, <2>3
  <2> QED BY <2>1, <2>4
<1>6. h[0] = 0
  BY <1>4 DEF Recursive
<1>7. h = Fun(h)
  <2>1. h = [k \in 0 .. n |-> h[k]]
    OBVIOUS
  <2>2. ASSUME NEW k \in 0 .. n
        PROVE  h[k] = IF k = 0 THEN 0 ELSE h[k - 1] + v[k] * Kap!placeVal[k - 1]
    <3>1. k # 0 => k \in 1 .. n
      OBVIOUS
    <3> HIDE DEF h
    <3> QED BY <1>5, <1>6, <3>1
  <2> HIDE DEF h
  <2> QED BY <2>1, <2>2
<1> HIDE DEF h
<1>8. PICK f : f = CHOOSE x : x = Fun(x)
  OBVIOUS
<1>9. f = Fun(f)
  <2> HIDE DEF Fun
  <2> QED BY <1>7, <1>8
<1>10. Kap!makeNum(v) = f[n]
  BY <1>0, <1>8 DEF Kap!makeNum
<1>11. /\ DOMAIN f = 0 .. n /\ f = [k \in 0 .. n |-> f[k]] /\ f[0] = 0
       /\ \A k \in 1 .. n : f[k] = f[k - 1] + v[k] * Kap!placeVal[k - 1]
  <2>1. \A k \in 1 .. n : k \in 0 .. n /\ k # 0
    OBVIOUS
  <2> QED BY <1>9, <2>1
<1> HIDE DEF Fun
<1> DEFINE B == {k \in Nat : k <= n => f[k] \in Nat}
<1>12. ASSUME NEW k \in Nat, \A j \in Nat : j < k => j \in B PROVE k \in B
  <2>1. CASE k = 0
    BY <1>11, <2>1
  <2>2. CASE k # 0 /\ k <= n
    <3>1. k - 1 \in Nat /\ k - 1 < k /\ k - 1 <= n /\ k \in 1 .. n
      BY <2>2
    <3>2. f[k - 1] \in Nat
      BY <1>12, <3>1
    <3>3. PICK x \in Nat : x = v[k] * Kap!placeVal[k - 1]
      BY <1>2, <3>1
    <3>4. f[k] = f[k - 1] + v[k] * Kap!placeVal[k - 1]
      BY <1>11, <3>1
    <3>5. f[k - 1] + x \in Nat
      BY <3>2
    <3>6. f[k] \in Nat
      BY <3>3, <3>4, <3>5, Zenon
    <3> QED BY <3>6
  <2> QED BY <2>1, <2>2
<1>13. \A k \in Nat : k \in B
  <2> HIDE DEF B
  <2> QED BY <1>12, Upward
<1>14. f \in [0 .. n -> Nat]
  BY <1>11, <1>13
<1> QED BY <1>10, <1>11, <1>14 DEF Sums

\* n digits make less than the value of the next place (kaprekar.cxx:34-35).
LEMMA Bounded ==
  ASSUME NEW n \in Nat, NEW v \in [1 .. n -> Digit]
  PROVE  Kap!makeNum(v) \in Nat /\ Kap!makeNum(v) < Kap!placeVal[n]
<1>1. PICK f : Sums(f, v, n) /\ Kap!makeNum(v) = f[n]
  BY MakeNum
<1>2. f \in [0 .. n -> Nat] /\ f[0] = 0
  BY <1>1 DEF Sums
<1> DEFINE B == {k \in Nat : k <= n => f[k] < Kap!placeVal[k]}
<1>3. ASSUME NEW k \in Nat, \A j \in Nat : j < k => j \in B PROVE k \in B
  <2>1. CASE k = 0
    <3>1. f[k] < Kap!placeVal[k]
      BY <1>2, <2>1, PlaceValues
    <3> QED BY <3>1
  <2>2. CASE k # 0 /\ k <= n
    <3>1. k - 1 \in Nat /\ k - 1 < k /\ k - 1 <= n /\ k \in 1 .. n /\ k - 1 \in 0 .. n
          /\ (k - 1) + 1 = k
      BY <2>2
    <3>2. PICK a \in Nat, b \in Nat, x \in Digit :
            a = f[k - 1] /\ b = Kap!placeVal[k - 1] /\ x = v[k]
      BY <1>2, <3>1, PlaceValues
    <3>3. a < b
      BY <1>3, <3>1, <3>2
    <3>4. f[k] = a + x * b
      BY <1>1, <3>1, <3>2 DEF Sums
    <3>5. Kap!placeVal[k] = b * 10
      BY <3>1, <3>2, PlaceValues
    <3>6. a + x * b < b * 10
      <4>1. x * b <= 9 * b
        BY Products DEF Digit
      <4>2. PICK c \in Nat : c = x * b
        BY Products DEF Digit
      <4> QED BY <3>3, <4>1, <4>2
    <3>7. f[k] < Kap!placeVal[k]
      BY <3>4, <3>5, <3>6, Zenon
    <3> QED BY <3>7
  <2> QED BY <2>1, <2>2
<1>4. n \in B
  <2> HIDE DEF B
  <2> QED BY <1>3, Upward
<1> QED BY <1>1, <1>2, <1>4

\* The digits that are missing to nines make what is missing to the number of
\* nines: what is said of large numbers holds of small ones, the other way
\* round (kaprekar.cxx:53-56).
LEMMA Complement ==
  ASSUME NEW n \in Nat, NEW v \in [1 .. n -> Digit], NEW w \in [1 .. n -> Digit],
         \A k \in 1 .. n : w[k] = 9 - v[k]
  PROVE  Kap!makeNum(v) + Kap!makeNum(w) = Kap!placeVal[n] - 1
<1>1. PICK f : Sums(f, v, n) /\ Kap!makeNum(v) = f[n]
  BY MakeNum
<1>2. PICK g : Sums(g, w, n) /\ Kap!makeNum(w) = g[n]
  BY MakeNum
<1>3. f \in [0 .. n -> Nat] /\ f[0] = 0 /\ g \in [0 .. n -> Nat] /\ g[0] = 0
  BY <1>1, <1>2 DEF Sums
<1> DEFINE B == {k \in Nat : k <= n => f[k] + g[k] = Kap!placeVal[k] - 1}
<1>4. ASSUME NEW k \in Nat, \A j \in Nat : j < k => j \in B PROVE k \in B
  <2>1. CASE k = 0
    <3>1. f[k] + g[k] = Kap!placeVal[k] - 1
      BY <1>3, <2>1, PlaceValues
    <3> QED BY <3>1
  <2>2. CASE k # 0 /\ k <= n
    <3>1. k - 1 \in Nat /\ k - 1 < k /\ k - 1 <= n /\ k \in 1 .. n /\ k - 1 \in 0 .. n
          /\ (k - 1) + 1 = k
      BY <2>2
    <3>2. PICK a \in Nat, b \in Nat, c \in Nat, x \in Digit :
            a = f[k - 1] /\ b = Kap!placeVal[k - 1] /\ c = g[k - 1] /\ x = v[k]
      BY <1>3, <3>1, PlaceValues
    <3>3. a + c = b - 1
      BY <1>4, <3>1, <3>2
    <3>4. f[k] = a + x * b /\ g[k] = c + (9 - x) * b
      BY <1>1, <1>2, <3>1, <3>2 DEF Sums
    <3>5. Kap!placeVal[k] = b * 10
      BY <3>1, <3>2, PlaceValues
    <3>6. (a + x * b) + (c + (9 - x) * b) = b * 10 - 1
      <4>1. (9 - x) * b = 9 * b - x * b
        BY DEF Digit
      <4>2. PICK d \in Nat : d = x * b
        BY Products DEF Digit
      <4>3. (a + d) + (c + (9 * b - d)) = b * 10 - 1
        BY <3>3
      <4> QED BY <4>1, <4>2, <4>3, Zenon
    <3>7. f[k] + g[k] = Kap!placeVal[k] - 1
      BY <3>4, <3>5, <3>6, Zenon
    <3> QED BY <3>7
  <2> QED BY <2>1, <2>2
<1>5. n \in B
  <2> HIDE DEF B
  <2> QED BY <1>4, Upward
<1> QED BY <1>1, <1>2, <1>5

\* A larger digit at a higher place makes a larger number
\* (kaprekar.cxx:32-36).
LEMMA ExchangeDigits ==
  ASSUME NEW n \in Nat, NEW v \in [1 .. n -> Digit], NEW w \in [1 .. n -> Digit],
         NEW j \in 1 .. n, NEW l \in 1 .. n, j < l, v[j] >= v[l],
         w[j] = v[l], w[l] = v[j], \A k \in 1 .. n : k # j /\ k # l => w[k] = v[k]
  PROVE  Kap!makeNum(v) <= Kap!makeNum(w)
<1>1. PICK f : Sums(f, v, n) /\ Kap!makeNum(v) = f[n]
  BY MakeNum
<1>2. PICK g : Sums(g, w, n) /\ Kap!makeNum(w) = g[n]
  BY MakeNum
<1>3. f \in [0 .. n -> Nat] /\ f[0] = 0 /\ g \in [0 .. n -> Nat] /\ g[0] = 0
  BY <1>1, <1>2 DEF Sums
<1>4. PICK x \in Nat, y \in Nat, b \in Nat, c \in Nat :
        /\ x = v[j] /\ y = v[l] /\ x >= y
        /\ b = Kap!placeVal[j - 1] /\ c = Kap!placeVal[l - 1] /\ b <= c
  <2>1. v[j] \in Nat /\ v[l] \in Nat
    BY DEF Digit
  <2>2. j - 1 \in Nat /\ l - 1 \in Nat /\ j - 1 <= l - 1
    OBVIOUS
  <2> QED BY <2>1, <2>2, PlaceValues, PlacesGrow
<1>5. PICK xb \in Nat, yb \in Nat, xc \in Nat, yc \in Nat :
        xb = x * b /\ yb = y * b /\ xc = x * c /\ yc = y * c
  BY Products
<1>6. xb + yc <= yb + xc
  <2>1. (x - y) * (c - b) >= 0
    <3>0. x >= y /\ b <= c
      BY <1>4
    <3>1. x - y \in Nat /\ c - b \in Nat
      BY <3>0
    <3>2. (x - y) * (c - b) \in Nat
      BY <3>1, Products, Zenon
    <3> QED BY <3>2
  <2>2. (x - y) * (c - b) = (x * c + y * b) - (x * b + y * c)
    OBVIOUS
  <2> QED BY <1>5, <2>1, <2>2
<1> DEFINE Ok(k) == /\ k < j => g[k] = f[k]
                    /\ j <= k /\ k < l => g[k] + xb = f[k] + yb
                    /\ l <= k => g[k] + xb + yc = f[k] + yb + xc
           B == {k \in Nat : k <= n => Ok(k)}
<1>7. ASSUME NEW k \in Nat, \A z \in Nat : z < k => z \in B PROVE k \in B
  <2>1. CASE k = 0
    <3>1. Ok(k)
      BY <1>3, <2>1
    <3> QED BY <3>1
  <2>2. CASE k # 0 /\ k <= n
    <3>1. k - 1 \in Nat /\ k - 1 < k /\ k - 1 <= n /\ k \in 1 .. n /\ k - 1 \in 0 .. n
      BY <2>2
    <3>2. Ok(k - 1)
      <4>1. k - 1 \in B
        BY <1>7, <3>1
      <4> HIDE DEF Ok
      <4> QED BY <3>1, <4>1
    <3>3. PICK p \in Nat, q \in Nat, a \in Nat, d \in Nat :
            p = f[k - 1] /\ q = g[k - 1] /\ a = v[k] * Kap!placeVal[k - 1]
            /\ d = w[k] * Kap!placeVal[k - 1]
      <4>1. f[k - 1] \in Nat /\ g[k - 1] \in Nat
        BY <1>3, <3>1
      <4>2. v[k] \in Nat /\ w[k] \in Nat
        BY <3>1 DEF Digit
      <4>3. Kap!placeVal[k - 1] \in Nat
        BY <3>1, PlaceValues
      <4>4. v[k] * Kap!placeVal[k - 1] \in Nat /\ w[k] * Kap!placeVal[k - 1] \in Nat
        BY <4>2, <4>3, Products, Zenon
      <4> QED BY <4>1, <4>4, Zenon
    <3>4. f[k] = p + a /\ g[k] = q + d
      BY <1>1, <1>2, <3>1, <3>3 DEF Sums
    <3>5. /\ k = j => a = xb /\ d = yb
          /\ k = l => a = yc /\ d = xc
          /\ k # j /\ k # l => a = d
      <4>1. ASSUME k = j PROVE a = xb /\ d = yb
        BY <1>4, <1>5, <3>3, <4>1, Zenon
      <4>2. ASSUME k = l PROVE a = yc /\ d = xc
        BY <1>4, <1>5, <3>3, <4>2, Zenon
      <4>3. ASSUME k # j, k # l PROVE a = d
        BY <3>1, <3>3, <4>3, Zenon
      <4> QED BY <4>1, <4>2, <4>3
    <3>a. /\ k - 1 < j => q = p
          /\ j <= k - 1 /\ k - 1 < l => q + xb = p + yb
          /\ l <= k - 1 => q + xb + yc = p + yb + xc
      BY <3>2, <3>3
    <3>6. Ok(k)
      <4>1. PICK r \in Nat, s \in Nat : r = p + a /\ s = q + d /\ f[k] = r /\ g[k] = s
        BY <3>4
      <4>2. k < j => s = r
        BY <3>a, <3>5, <4>1
      <4>3. j <= k /\ k < l => s + xb = r + yb
        BY <3>a, <3>5, <4>1
      <4>4. l <= k => s + xb + yc = r + yb + xc
        BY <3>a, <3>5, <4>1
      <4> QED BY <4>1, <4>2, <4>3, <4>4
    <3> HIDE DEF Ok
    <3> QED BY <3>6
  <2> QED BY <2>1, <2>2
<1>8. n \in B
  <2> HIDE DEF B
  <2> QED BY <1>7, Upward
<1>9. g[n] + xb + yc = f[n] + yb + xc
  BY <1>8
<1>10. PICK p \in Nat, q \in Nat : p = f[n] /\ q = g[n]
  BY <1>3
<1>11. q + xb + yc = p + yb + xc
  BY <1>9, <1>10
<1>12. p <= q
  BY <1>6, <1>11
<1> QED BY <1>1, <1>2, <1>10, <1>12

-----------------------------------------------------------------------------
(***************************************************************************)
(* The order of the digits.                                                *)
(***************************************************************************)

\* Orders(n) are the injections (kaprekar.cxx:53).
LEMMA OrdersDef ==
  ASSUME NEW n \in Nat, NEW p
  PROVE  p \in Kap!Orders(n) <=>
           /\ p \in [1 .. n -> 1 .. n]
           /\ \A x, y \in 1 .. n : x # y => p[x] # p[y]
<1>1. ASSUME p \in [1 .. n -> 1 .. n], \A x, y \in 1 .. n : x < y => p[x] # p[y],
             NEW x \in 1 .. n, NEW y \in 1 .. n, x # y
      PROVE  p[x] # p[y]
  <2>1. x < y \/ y < x
    BY <1>1
  <2> QED BY <1>1, <2>1
<1>2. ASSUME \A x, y \in 1 .. n : x # y => p[x] # p[y]
      PROVE  \A x, y \in 1 .. n : x < y => p[x] # p[y]
  BY <1>2
<1> QED BY <1>1, <1>2 DEF Kap!Orders

\* Every digit is put somewhere (kaprekar.cxx:53).
LEMMA Onto ==
  ASSUME NEW n \in Nat, NEW p \in Kap!Orders(n), NEW y \in 1 .. n
  PROVE  \E k \in 1 .. n : p[k] = y
<1>1. p \in [1 .. n -> 1 .. n] /\ \A a, b \in 1 .. n : a # b => p[a] # p[b]
  BY OrdersDef
<1>2. IsInjective(p)
  BY <1>1 DEF IsInjective
<1>3. p \in Injection(1 .. n, 1 .. n)
  BY <1>1, <1>2 DEF Injection
<1>4. IsFiniteSet(1 .. n)
  BY FS_Interval
<1>5. p \in Surjection(1 .. n, 1 .. n)
  BY <1>3, <1>4, FS_Injection
<1> QED BY <1>5 DEF Surjection

\* q is p with the places a and b exchanged.
Swapped(p, q, n, a, b) ==
  /\ q \in [1 .. n -> 1 .. n] /\ q[a] = p[b] /\ q[b] = p[a]
  /\ \A x \in 1 .. n : x # a /\ x # b => q[x] = p[x]

\* Two digits can change places (kaprekar.cxx:53).
LEMMA Swapping ==
  ASSUME NEW n \in Nat, NEW p \in Kap!Orders(n), NEW a \in 1 .. n, NEW b \in 1 .. n
  PROVE  \E q \in Kap!Orders(n) : Swapped(p, q, n, a, b)
<1> DEFINE q == [x \in 1 .. n |-> IF x = a THEN p[b] ELSE IF x = b THEN p[a] ELSE p[x]]
<1>1. p \in [1 .. n -> 1 .. n] /\ \A x, y \in 1 .. n : x # y => p[x] # p[y]
  BY OrdersDef
<1>2. Swapped(p, q, n, a, b)
  BY <1>1 DEF Swapped
<1>3. \A x, y \in 1 .. n : x # y => q[x] # q[y]
  BY <1>1
<1>4. q \in [1 .. n -> 1 .. n]
  BY <1>1
<1> HIDE DEF q
<1> QED BY <1>2, <1>3, <1>4, OrdersDef

\* q is p from the end to the beginning.
Reversed(p, q, n) ==
  q \in [1 .. n -> 1 .. n] /\ \A x \in 1 .. n : q[x] = p[n + 1 - x]

\* The digits can be read from the end (kaprekar.cxx:55).
LEMMA Reversing ==
  ASSUME NEW n \in Nat, NEW p \in Kap!Orders(n)
  PROVE  \E q \in Kap!Orders(n) : Reversed(p, q, n)
<1> DEFINE q == [x \in 1 .. n |-> p[n + 1 - x]]
<1>1. p \in [1 .. n -> 1 .. n] /\ \A x, y \in 1 .. n : x # y => p[x] # p[y]
  BY OrdersDef
<1>2. \A x \in 1 .. n : n + 1 - x \in 1 .. n
  OBVIOUS
<1>3. q \in [1 .. n -> 1 .. n]
  BY <1>1, <1>2
<1>4. \A x, y \in 1 .. n : x # y => n + 1 - x # n + 1 - y
  OBVIOUS
<1>5. \A x, y \in 1 .. n : x # y => q[x] # q[y]
  BY <1>1, <1>2, <1>4
<1>6. Reversed(p, q, n)
  BY <1>3 DEF Reversed
<1> HIDE DEF q
<1> QED BY <1>3, <1>5, <1>6, OrdersDef

\* The digits of v in the order p.
Put(v, p, n) == [k \in 1 .. n |-> v[p[k]]]

\* Digits in any order are as many digits (kaprekar.cxx:53).
LEMMA PutType ==
  ASSUME NEW n \in Nat, NEW v \in [1 .. n -> Digit], NEW p \in Kap!Orders(n)
  PROVE  /\ Put(v, p, n) \in [1 .. n -> Digit] /\ Len(Put(v, p, n)) = n
         /\ p \in [1 .. n -> 1 .. n]
         /\ \A k \in 1 .. n : Put(v, p, n)[k] = v[p[k]] /\ v[p[k]] \in Digit
<1>1. p \in [1 .. n -> 1 .. n]
  BY OrdersDef
<1>2. Put(v, p, n) \in [1 .. n -> Digit]
  BY <1>1 DEF Put
<1> QED BY <1>1, <1>2, Vector DEF Put

\* The arrangements of n digits are v in every order (kaprekar.cxx:53).
LEMMA ArrangementsDef ==
  ASSUME NEW n \in Nat, NEW v \in [1 .. n -> Digit]
  PROVE  Kap!Arrangements(v) = {Put(v, p, n) : p \in Kap!Orders(n)}
<1>1. Len(v) = n
  BY Vector
<1> QED BY <1>1 DEF Kap!Arrangements, Put

\* A set of numbers has a least one.
LEMMA Least ==
  ASSUME NEW D, D \subseteq Nat, D # {}
  PROVE  \E x \in D : \A y \in D : x <= y
<1> DEFINE R == OpToRel(<, Nat)
<1>1. IsWellFoundedOn(R, Nat)
  BY NatLessThanWellFounded
<1>2. \A x, y \in Nat : x < y => <<x, y>> \in R
  BY DEF OpToRel
<1>3. PICK x \in D : \A y \in D : ~(<<y, x>> \in R)
  <2> HIDE DEF R
  <2> QED BY <1>1, WFMin
<1>4. ASSUME NEW y \in D PROVE x <= y
  <2>1. x \in Nat /\ y \in Nat /\ ~(y < x)
    BY <1>2, <1>3
  <2> QED BY <2>1
<1> QED BY <1>4

\* One of the digits from place k on is largest (kaprekar.cxx:53).
LEMMA LargestDigit ==
  ASSUME NEW n \in Nat, NEW s \in [1 .. n -> Digit], NEW k \in 1 .. n
  PROVE  \E z \in k .. n : \A y \in k .. n : s[z] >= s[y]
<1> DEFINE D == {9 - s[z] : z \in k .. n}
<1>1. \A z \in k .. n : s[z] \in Digit /\ 9 - s[z] \in Nat
  BY DEF Digit
<1>2. D \subseteq Nat
  BY <1>1
<1>3. k \in k .. n /\ D # {}
  OBVIOUS
<1>4. PICK x \in D : \A y \in D : x <= y
  <2> HIDE DEF D
  <2> QED BY <1>2, <1>3, Least
<1>5. PICK z \in k .. n : x = 9 - s[z]
  OBVIOUS
<1>6. ASSUME NEW y \in k .. n PROVE s[z] >= s[y]
  <2>1. 9 - s[z] <= 9 - s[y]
    BY <1>4, <1>5
  <2>2. s[z] \in 0 .. 9 /\ s[y] \in 0 .. 9
    BY <1>1 DEF Digit
  <2> QED BY <2>1, <2>2
<1> QED BY <1>6

\* The order p puts the digits of v down, from the first place to the last.
Falls(v, p, n) == \A x, y \in 1 .. n : x < y => v[p[x]] >= v[p[y]]

\* Digits can be put in descending order: the largest to the first place, and
\* so on (kaprekar.cxx:53).
LEMMA CanSort ==
  ASSUME NEW n \in Nat, NEW v \in [1 .. n -> Digit]
  PROVE  \E p \in Kap!Orders(n) : Falls(v, p, n)
<1> DEFINE Upto(p, k) == \A x, y \in 1 .. n : x < y /\ x <= k => v[p[x]] >= v[p[y]]
           B == {k \in Nat : k <= n => \E p \in Kap!Orders(n) : Upto(p, k)}
<1>1. ASSUME NEW k \in Nat, \A z \in Nat : z < k => z \in B PROVE k \in B
  <2>1. CASE k = 0
    <3> DEFINE p == [x \in 1 .. n |-> x]
    <3>1. p \in [1 .. n -> 1 .. n] /\ \A x, y \in 1 .. n : x # y => p[x] # p[y]
      OBVIOUS
    <3>2. p \in Kap!Orders(n)
      <4> HIDE DEF p
      <4> QED BY <3>1, OrdersDef
    <3>3. Upto(p, k)
      BY <2>1
    <3> HIDE DEF p, Upto
    <3> QED BY <3>2, <3>3
  <2>2. CASE k # 0 /\ k <= n
    <3>1. k \in 1 .. n /\ k - 1 \in Nat /\ k - 1 < k /\ k - 1 <= n
      BY <2>2
    <3>2. PICK p \in Kap!Orders(n) : Upto(p, k - 1)
      <4>1. k - 1 \in B
        BY <1>1, <3>1
      <4> HIDE DEF Upto
      <4> QED BY <3>1, <4>1
    <3> DEFINE s == Put(v, p, n)
    <3>3. s \in [1 .. n -> Digit] /\ \A x \in 1 .. n : s[x] = v[p[x]]
      BY PutType
    <3>4. PICK z \in k .. n : \A y \in k .. n : s[z] >= s[y]
      <4> HIDE DEF s
      <4> QED BY <3>1, <3>3, LargestDigit
    <3>5. z \in 1 .. n
      BY <3>1
    <3>6. PICK q \in Kap!Orders(n) : Swapped(p, q, n, k, z)
      BY <3>1, <3>5, Swapping
    <3>7. ASSUME NEW x \in 1 .. n, NEW y \in 1 .. n, x < y, x <= k
          PROVE  v[q[x]] >= v[q[y]]
      <4>1. PICK u \in 1 .. n : q[y] = p[u] /\ (y # k /\ y # z => u = y)
                                /\ (y = k => u = z) /\ (y = z => u = k)
        BY <3>1, <3>5, <3>6 DEF Swapped
      <4>2. CASE x < k
        <5>1. q[x] = p[x]
          BY <3>1, <3>6, <4>2 DEF Swapped
        <5>2. x < u /\ x <= k - 1
          BY <3>1, <3>7, <4>1, <4>2
        <5> QED BY <3>2, <4>1, <5>1, <5>2
      <4>3. CASE x = k
        <5>1. q[x] = p[z]
          BY <3>6, <4>3 DEF Swapped
        <5>2. u \in k .. n
          BY <3>1, <3>7, <4>1, <4>3
        <5>3. s[z] >= s[u]
          <6> HIDE DEF s
          <6> QED BY <3>4, <5>2
        <5> HIDE DEF s
        <5> QED BY <3>3, <3>5, <4>1, <5>1, <5>3
      <4> QED BY <3>1, <3>7, <4>2, <4>3
    <3>8. Upto(q, k)
      BY <3>7
    <3> HIDE DEF Upto
    <3> QED BY <3>8
  <2> QED BY <2>1, <2>2
<1>2. n \in B
  <2> HIDE DEF B
  <2> QED BY <1>1, Upward
<1>3. PICK p \in Kap!Orders(n) : Upto(p, n)
  <2> HIDE DEF Upto
  <2> QED BY <1>2
<1> QED BY <1>3 DEF Falls

\* sort with greater<int>() puts the digits in descending order
\* (kaprekar.cxx:53).
LEMMA Sorting ==
  ASSUME NEW n \in Nat, NEW v \in [1 .. n -> Digit]
  PROVE  \E p \in Kap!Orders(n) : Kap!Sort(v) = Put(v, p, n) /\ Falls(v, p, n)
<1>1. PICK q \in Kap!Orders(n) : Falls(v, q, n)
  BY CanSort
<1>2. ASSUME NEW p \in Kap!Orders(n)
      PROVE  Kap!Descending(Put(v, p, n)) <=> Falls(v, p, n)
  <2>1. Len(Put(v, p, n)) = n /\ \A k \in 1 .. n : Put(v, p, n)[k] = v[p[k]]
    BY PutType
  <2> QED BY <2>1 DEF Kap!Descending, Falls
<1>3. Put(v, q, n) \in Kap!Arrangements(v) /\ Kap!Descending(Put(v, q, n))
  BY <1>1, <1>2, ArrangementsDef
<1>4. Kap!Sort(v) \in Kap!Arrangements(v) /\ Kap!Descending(Kap!Sort(v))
  BY <1>3 DEF Kap!Sort
<1>5. PICK p \in Kap!Orders(n) : Kap!Sort(v) = Put(v, p, n)
  BY <1>4, ArrangementsDef
<1> QED BY <1>2, <1>4, <1>5

\* The order p puts the digits of v up, from the first place to the last.
Rises(v, p, n) == \A x, y \in 1 .. n : x < y => v[p[x]] <= v[p[y]]

\* No order makes a larger number than the one in which the digits rise: put
\* the digits to the right place one by one, from the last place down
\* (kaprekar.cxx:55).
LEMMA Largest ==
  ASSUME NEW n \in Nat, NEW v \in [1 .. n -> Digit], NEW p \in Kap!Orders(n),
         Rises(v, p, n), NEW r \in Kap!Orders(n)
  PROVE  Kap!makeNum(Put(v, r, n)) <= Kap!makeNum(Put(v, p, n))
<1> DEFINE Above(q, k) == \A x \in 1 .. n : x > k => q[x] = p[x]
           Less(q) == Kap!makeNum(Put(v, q, n)) <= Kap!makeNum(Put(v, p, n))
           B == {k \in Nat : k <= n => \A q \in Kap!Orders(n) : Above(q, k) => Less(q)}
<1>0. \A q \in Kap!Orders(n) : Kap!makeNum(Put(v, q, n)) \in Nat
  BY PutType, Bounded
<1>1. ASSUME NEW k \in Nat, \A z \in Nat : z < k => z \in B PROVE k \in B
  <2>1. CASE k = 0
    <3>1. ASSUME NEW q \in Kap!Orders(n), Above(q, k) PROVE Less(q)
      <4>1. \A x \in 1 .. n : q[x] = p[x]
        BY <2>1, <3>1
      <4>2. Put(v, q, n) = Put(v, p, n)
        BY <4>1 DEF Put
      <4> QED BY <1>0, <4>2
    <3> HIDE DEF Above, Less
    <3> QED BY <3>1
  <2>2. CASE k # 0 /\ k <= n
    <3>1. k \in 1 .. n /\ k - 1 \in Nat /\ k - 1 < k /\ k - 1 <= n
      BY <2>2
    <3>2. ASSUME NEW q \in Kap!Orders(n), Above(q, k - 1) PROVE Less(q)
      <4>1. k - 1 \in B
        BY <1>1, <3>1
      <4> HIDE DEF Above, Less
      <4> QED BY <3>1, <3>2, <4>1
    <3>3. ASSUME NEW q \in Kap!Orders(n), Above(q, k) PROVE Less(q)
      <4>1. CASE q[k] = p[k]
        <5>1. Above(q, k - 1)
          BY <3>1, <3>3, <4>1
        <5> HIDE DEF Above, Less
        <5> QED BY <3>2, <5>1
      <4>2. CASE q[k] # p[k]
        <5>0. /\ p \in [1 .. n -> 1 .. n] /\ \A x, y \in 1 .. n : x # y => p[x] # p[y]
              /\ q \in [1 .. n -> 1 .. n] /\ \A x, y \in 1 .. n : x # y => q[x] # q[y]
          BY OrdersDef
        <5>a. p[k] \in 1 .. n /\ q[k] \in 1 .. n
          BY <3>1, <5>0
        <5>b. \A x \in 1 .. n : k < x => q[x] = p[x]
          BY <3>3
        <5>c. \A x \in 1 .. n : x < k \/ x = k \/ k < x
          BY <3>1
        <5> HIDE DEF Above, Less
        <5>1. PICK z \in 1 .. n : q[z] = p[k]
          BY <5>a, Onto
        <5>2. z < k
          <6>1. k < z => q[z] # p[k]
            BY <3>1, <5>0, <5>b
          <6> QED BY <4>2, <5>1, <5>c, <6>1
        <5>3. PICK y \in 1 .. n : p[y] = q[k]
          BY <5>a, Onto
        <5>4. y < k
          <6>1. k < y => p[y] # q[k]
            BY <3>1, <5>0, <5>b
          <6> QED BY <4>2, <5>3, <5>c, <6>1
        <5>5. v[q[k]] <= v[q[z]]
          BY <3>1, <5>1, <5>3, <5>4 DEF Rises
        <5>6. PICK t \in Kap!Orders(n) : Swapped(q, t, n, z, k)
          BY <3>1, Swapping
        <5>7. Above(t, k - 1)
          <6> SUFFICES ASSUME NEW x \in 1 .. n, x > k - 1 PROVE t[x] = p[x]
            BY DEF Above
          <6>1. CASE x = k
            BY <5>1, <5>6, <6>1 DEF Swapped
          <6>2. CASE k < x
            <7>1. x # z /\ x # k
              BY <3>1, <5>2, <6>2
            <7>2. t[x] = q[x]
              BY <5>6, <7>1 DEF Swapped
            <7> QED BY <5>b, <6>2, <7>2
          <6> QED BY <5>c, <6>1, <6>2, <3>1
        <5>8. Less(t)
          <6> HIDE DEF Above, Less
          <6> QED BY <3>2, <5>7
        <5>9. Kap!makeNum(Put(v, q, n)) <= Kap!makeNum(Put(v, t, n))
          <6>1. PICK a \in [1 .. n -> Digit] : a = Put(v, q, n) /\
                  \A x \in 1 .. n : a[x] = v[q[x]] /\ v[q[x]] \in Digit
            BY PutType, Zenon
          <6>2. PICK b \in [1 .. n -> Digit] : b = Put(v, t, n) /\
                  \A x \in 1 .. n : b[x] = v[t[x]] /\ v[t[x]] \in Digit
            <7>1. Put(v, t, n) \in [1 .. n -> Digit]
              BY PutType
            <7>2. \A x \in 1 .. n : Put(v, t, n)[x] = v[t[x]] /\ v[t[x]] \in Digit
              BY PutType
            <7> QED BY <7>1, <7>2, Zenon
          <6>3. a[z] >= a[k]
            <7>1. a[z] = v[q[z]] /\ a[k] = v[q[k]] /\ a[z] \in Digit /\ a[k] \in Digit
              BY <3>1, <6>1
            <7>2. a[k] <= a[z]
              BY <5>5, <7>1, Zenon
            <7> QED BY <7>1, <7>2 DEF Digit
          <6>4. b[z] = a[k] /\ b[k] = a[z]
            <7>1. t[z] = q[k] /\ t[k] = q[z]
              BY <5>6 DEF Swapped
            <7>2. a[k] = v[q[k]] /\ a[z] = v[q[z]]
              BY <3>1, <6>1
            <7>3. b[k] = v[t[k]] /\ b[z] = v[t[z]]
              BY <3>1, <6>2
            <7> QED BY <7>1, <7>2, <7>3, Zenon
          <6>5. ASSUME NEW x \in 1 .. n, x # z, x # k PROVE b[x] = a[x]
            <7>1. t[x] = q[x]
              BY <5>6, <6>5 DEF Swapped
            <7>2. a[x] = v[q[x]] /\ b[x] = v[t[x]]
              BY <6>1, <6>2
            <7> QED BY <7>1, <7>2, Zenon
          <6>6. Kap!makeNum(a) <= Kap!makeNum(b)
            BY <3>1, <5>2, <6>3, <6>4, <6>5, ExchangeDigits
          <6> QED BY <6>1, <6>2, <6>6
        <5>10. PICK a \in Nat, b \in Nat, c \in Nat :
                 /\ a = Kap!makeNum(Put(v, q, n)) /\ b = Kap!makeNum(Put(v, t, n))
                 /\ c = Kap!makeNum(Put(v, p, n))
          BY <1>0
        <5>11. a <= b /\ b <= c
          BY <5>8, <5>9, <5>10 DEF Less
        <5>12. a <= c
          BY <5>11
        <5> QED BY <5>10, <5>12 DEF Less
      <4> QED BY <4>1, <4>2
    <3> HIDE DEF Above, Less
    <3> QED BY <3>3
  <2> QED BY <2>1, <2>2
<1>2. n \in B
  <2> HIDE DEF B
  <2> QED BY <1>1, Upward
<1>3. Above(r, n)
  OBVIOUS
<1>4. Less(r)
  <2> HIDE DEF Above, Less
  <2> QED BY <1>2, <1>3
<1> QED BY <1>4

\* No order makes a smaller number than the one in which the digits fall:
\* what is missing to nines rises (kaprekar.cxx:54).
LEMMA Smallest ==
  ASSUME NEW n \in Nat, NEW v \in [1 .. n -> Digit], NEW p \in Kap!Orders(n),
         Falls(v, p, n), NEW r \in Kap!Orders(n)
  PROVE  Kap!makeNum(Put(v, p, n)) <= Kap!makeNum(Put(v, r, n))
<1> DEFINE w == [k \in 1 .. n |-> 9 - v[k]]
<1>1. w \in [1 .. n -> Digit] /\ \A k \in 1 .. n : w[k] = 9 - v[k]
  BY DEF Digit
<1> HIDE DEF w
<1>2. Rises(w, p, n)
  <2> SUFFICES ASSUME NEW x \in 1 .. n, NEW y \in 1 .. n, x < y
               PROVE  w[p[x]] <= w[p[y]]
    BY DEF Rises
  <2>0. p \in [1 .. n -> 1 .. n]
    BY OrdersDef
  <2>1. p[x] \in 1 .. n /\ p[y] \in 1 .. n /\ v[p[x]] \in 0 .. 9 /\ v[p[y]] \in 0 .. 9
    BY <2>0 DEF Digit
  <2>2. v[p[x]] >= v[p[y]]
    BY DEF Falls
  <2>3. w[p[x]] = 9 - v[p[x]] /\ w[p[y]] = 9 - v[p[y]]
    BY <1>1, <2>1
  <2>4. PICK a \in 0 .. 9, b \in 0 .. 9 : a = v[p[x]] /\ b = v[p[y]]
    BY <2>1
  <2>5. a >= b
    BY <2>2, <2>4
  <2>6. 9 - a <= 9 - b
    BY <2>5
  <2> QED BY <2>3, <2>4, <2>6
<1>3. Kap!makeNum(Put(w, r, n)) <= Kap!makeNum(Put(w, p, n))
  BY <1>1, <1>2, Largest
<1>4. ASSUME NEW q \in Kap!Orders(n)
      PROVE  /\ Kap!makeNum(Put(v, q, n)) \in Nat /\ Kap!makeNum(Put(w, q, n)) \in Nat
             /\ Kap!makeNum(Put(v, q, n)) + Kap!makeNum(Put(w, q, n))
                  = Kap!placeVal[n] - 1
  <2>1. PICK a \in [1 .. n -> Digit] : a = Put(v, q, n) /\
          \A x \in 1 .. n : a[x] = v[q[x]]
    BY PutType, Zenon
  <2>2. PICK b \in [1 .. n -> Digit] : b = Put(w, q, n) /\
          \A x \in 1 .. n : b[x] = w[q[x]] /\ w[q[x]] \in Digit
    <3>1. w \in [1 .. n -> Digit]
      BY <1>1
    <3>2. Put(w, q, n) \in [1 .. n -> Digit]
      BY <3>1, PutType
    <3>3. \A x \in 1 .. n : Put(w, q, n)[x] = w[q[x]] /\ w[q[x]] \in Digit
      BY <3>1, PutType
    <3> QED BY <3>2, <3>3, Zenon
  <2>3. \A x \in 1 .. n : b[x] = 9 - a[x]
    <3>1. \A x \in 1 .. n : q[x] \in 1 .. n
      BY PutType
    <3> QED BY <1>1, <2>1, <2>2, <3>1
  <2>4. Kap!makeNum(a) + Kap!makeNum(b) = Kap!placeVal[n] - 1
    BY <2>3, Complement
  <2>5. Kap!makeNum(a) \in Nat /\ Kap!makeNum(b) \in Nat
    BY Bounded
  <2> QED BY <2>1, <2>2, <2>4, <2>5
<1>5. PICK a \in Nat, b \in Nat, c \in Nat, d \in Nat, e \in Nat :
        /\ a = Kap!makeNum(Put(v, p, n)) /\ b = Kap!makeNum(Put(w, p, n))
        /\ c = Kap!makeNum(Put(v, r, n)) /\ d = Kap!makeNum(Put(w, r, n))
        /\ e = Kap!placeVal[n]
  BY <1>4, PlaceValues
<1>6. a + b = e - 1 /\ c + d = e - 1 /\ d <= b
  BY <1>3, <1>4, <1>5
<1>7. a <= c
  BY <1>6
<1> QED BY <1>5, <1>7

-----------------------------------------------------------------------------
(***************************************************************************)
(* One turn: the digits of a number, and the smallest and the largest      *)
(* number that they make.                                                  *)
(***************************************************************************)

\* The places that four digits use (kaprekar.cxx:35).
LEMMA Places ==
  /\ Kap!placeVal[0] = 1 /\ Kap!placeVal[1] = 10 /\ Kap!placeVal[2] = 100
  /\ Kap!placeVal[3] = 1000
<1>1. /\ Kap!placeVal[0] = 1 /\ Kap!placeVal[0 + 1] = 10
      /\ Kap!placeVal[1 + 1] = Kap!placeVal[1] * 10
      /\ Kap!placeVal[2 + 1] = Kap!placeVal[2] * 10
  BY PlaceValues
<1> QED BY <1>1

\* A number below a place value has no more digits than come before the place
\* (kaprekar.cxx:19-24).
LEMMA DigitCount ==
  ASSUME NEW k \in Nat, NEW num \in Nat, num < Kap!placeVal[k]
  PROVE  Len(Kap!breakNum[num]) <= k
<1> DEFINE Short(j, x) == x < Kap!placeVal[j] => Len(Kap!breakNum[x]) <= j
           B == {j \in Nat : \A x \in Nat : Short(j, x)}
<1>1. ASSUME NEW j \in Nat, \A z \in Nat : z < j => z \in B PROVE j \in B
  <2>1. ASSUME NEW x \in Nat, x < Kap!placeVal[j] PROVE Len(Kap!breakNum[x]) <= j
    <3>1. CASE x = 0
      <4>1. Len(Kap!breakNum[x]) = 0
        BY <3>1, BreakNum, EmptySeq
      <4> QED BY <4>1
    <3>2. CASE x # 0
      <4>1. j # 0
        BY <2>1, <3>2, PlaceValues
      <4>2. j - 1 \in Nat /\ j - 1 < j /\ (j - 1) + 1 = j
        BY <4>1
      <4>3. PICK b \in Nat : b = Kap!placeVal[j - 1] /\ Kap!placeVal[j] = b * 10
        BY <4>2, PlaceValues
      <4>4. x \div 10 \in Nat /\ x \div 10 < b
        BY <2>1, <4>3
      <4>5. Len(Kap!breakNum[x \div 10]) <= j - 1
        <5>1. j - 1 \in B
          BY <1>1, <4>2
        <5>2. Short(j - 1, x \div 10)
          <6> HIDE DEF Short
          <6> QED BY <4>4, <5>1
        <5> QED BY <4>3, <4>4, <5>2
      <4>6. Kap!breakNum[x] = <<x % 10>> \o Kap!breakNum[x \div 10]
        BY <3>2, BreakNum
      <4>7. Kap!breakNum[x \div 10] \in Seq(Digit) /\ <<x % 10>> \in Seq(Nat)
            /\ Len(<<x % 10>>) = 1
        BY <4>4, BreakNum
      <4>8. Len(Kap!breakNum[x]) = 1 + Len(Kap!breakNum[x \div 10])
        BY <4>6, <4>7
      <4>9. Len(Kap!breakNum[x \div 10]) \in Nat
        BY <4>7, LenProperties
      <4> QED BY <4>5, <4>8, <4>9
    <3> QED BY <3>1, <3>2
  <2>2. \A x \in Nat : Short(j, x)
    BY <2>1
  <2> HIDE DEF Short
  <2> QED BY <2>2
<1>2. k \in B
  <2> HIDE DEF B
  <2> QED BY <1>1, Upward
<1>3. Short(k, num)
  <2> HIDE DEF Short
  <2> QED BY <1>2
<1> QED BY <1>3

\* The digits of a number, padded if they are three, are a vector
\* (kaprekar.cxx:42-46).
LEMMA DigitsType ==
  ASSUME NEW num \in Nat
  PROVE  /\ Len(Kap!Digits(num)) \in Nat
         /\ Kap!Digits(num) \in [1 .. Len(Kap!Digits(num)) -> Digit]
<1>1. Kap!breakNum[num] \in Seq(Digit)
  BY BreakNum
<1>2. Append(Kap!breakNum[num], 0) \in Seq(Digit)
  BY <1>1 DEF Digit
<1>3. Kap!Digits(num) \in Seq(Digit)
  BY <1>1, <1>2 DEF Kap!Digits
<1> QED BY <1>3, LenProperties

\* Nine digits stay nine (kaprekar.cxx:42-46).
LEMMA NineDigits ==
  ASSUME NEW num \in Kap!Number
  PROVE  Len(Kap!breakNum[num]) \in 0 .. 9 /\ Len(Kap!Digits(num)) \in 0 .. 9
<1>1. num \in Nat /\ num < Kap!placeVal[9]
  BY DEF Kap!Number
<1>2. Len(Kap!breakNum[num]) <= 9
  BY <1>1, DigitCount
<1>3. Kap!breakNum[num] \in Seq(Digit)
  BY <1>1, BreakNum
<1>4. Len(Kap!breakNum[num]) \in Nat
  BY <1>3, LenProperties
<1>5. Len(Append(Kap!breakNum[num], 0)) = Len(Kap!breakNum[num]) + 1
  BY <1>3
<1>a. PICK k \in Nat : k = Len(Kap!breakNum[num]) /\ k <= 9
  BY <1>2, <1>4
<1>6. k \in 0 .. 9 /\ Len(Kap!breakNum[num]) = k
  <2>0. k <= 9
    BY <1>a
  <2>1. k \in 0 .. 9
    BY <2>0
  <2> QED BY <1>a, <2>1, Zenon
<1>7. CASE k = 3
  <2>1. Kap!Digits(num) = Append(Kap!breakNum[num], 0)
    BY <1>6, <1>7, Zenon DEF Kap!Digits
  <2>2. Len(Kap!Digits(num)) = 4
    BY <1>5, <1>6, <1>7, <2>1
  <2>3. 4 \in 0 .. 9
    OBVIOUS
  <2> QED BY <1>6, <2>2, <2>3, Zenon
<1>8. CASE k # 3
  <2>1. Kap!Digits(num) = Kap!breakNum[num]
    BY <1>6, <1>8, Zenon DEF Kap!Digits
  <2> QED BY <1>6, <2>1, Zenon
<1> QED BY <1>7, <1>8

\* What getAscDscNum leaves in l_num's two variables (kaprekar.cxx:53-56).
Asc(num) == Kap!makeNum(Kap!Sort(Kap!Digits(num)))

Turned(s, n) == [k \in 1 .. n |-> s[n + 1 - k]]

Dsc(num) == Kap!makeNum(Turned(Kap!Sort(Kap!Digits(num)), Len(Kap!Digits(num))))

\* asc is the smallest and dsc the largest number that the digits of num make.
Extremes(num, asc, dsc) ==
  LET made == {Kap!makeNum(s) : s \in Kap!Arrangements(Kap!Digits(num))}
  IN  {asc, dsc} \subseteq made /\ \A x \in made : asc <= x /\ x <= dsc

\* getAscDscNum finds the extremes, and they have as few digits
\* (kaprekar.cxx:53-56).
LEMMA AscDsc ==
  ASSUME NEW num \in Nat
  PROVE  /\ Asc(num) \in Nat /\ Dsc(num) \in Nat /\ Asc(num) <= Dsc(num)
         /\ Dsc(num) < Kap!placeVal[Len(Kap!Digits(num))]
         /\ Extremes(num, Asc(num), Dsc(num))
<1>0. PICK n \in Nat : n = Len(Kap!Digits(num)) /\ Kap!Digits(num) \in [1 .. n -> Digit]
  BY DigitsType
<1>1. PICK v \in [1 .. n -> Digit] : v = Kap!Digits(num) /\ n = Len(v)
  BY <1>0
<1>2. PICK p \in Kap!Orders(n) : Kap!Sort(v) = Put(v, p, n) /\ Falls(v, p, n)
  BY <1>1, Sorting
<1>3. PICK q \in Kap!Orders(n) : Reversed(p, q, n)
  BY Reversing
<1>4. Rises(v, q, n)
  <2> SUFFICES ASSUME NEW x \in 1 .. n, NEW y \in 1 .. n, x < y
               PROVE  v[q[x]] <= v[q[y]]
    BY DEF Rises
  <2>0. p \in [1 .. n -> 1 .. n]
    BY OrdersDef
  <2>1. n + 1 - x \in 1 .. n /\ n + 1 - y \in 1 .. n /\ n + 1 - y < n + 1 - x
    OBVIOUS
  <2>2. v[p[n + 1 - y]] >= v[p[n + 1 - x]]
    BY <1>2, <2>1 DEF Falls
  <2>3. v[p[n + 1 - y]] \in Digit /\ v[p[n + 1 - x]] \in Digit
    BY <2>0, <2>1
  <2>4. v[p[n + 1 - x]] <= v[p[n + 1 - y]]
    BY <2>2, <2>3 DEF Digit
  <2> QED BY <1>3, <2>4 DEF Reversed
<1>5. Turned(Put(v, p, n), n) = Put(v, q, n)
  <2>1. \A k \in 1 .. n : n + 1 - k \in 1 .. n
    OBVIOUS
  <2> QED BY <1>3, <2>1 DEF Turned, Put, Reversed
<1>6. Asc(num) = Kap!makeNum(Put(v, p, n)) /\ Dsc(num) = Kap!makeNum(Put(v, q, n))
  BY <1>1, <1>2, <1>5 DEF Asc, Dsc
<1>7. /\ Kap!makeNum(Put(v, p, n)) \in Nat
      /\ Kap!makeNum(Put(v, q, n)) \in Nat
      /\ Kap!makeNum(Put(v, q, n)) < Kap!placeVal[n]
  BY <1>1, PutType, Bounded
<1>8. \A r \in Kap!Orders(n) : Kap!makeNum(Put(v, p, n)) <= Kap!makeNum(Put(v, r, n))
  BY <1>1, <1>2, Smallest
<1>9. \A r \in Kap!Orders(n) : Kap!makeNum(Put(v, r, n)) <= Kap!makeNum(Put(v, q, n))
  BY <1>1, <1>4, Largest
<1>10. Kap!Arrangements(v) = {Put(v, r, n) : r \in Kap!Orders(n)}
  BY <1>1, ArrangementsDef
<1>11. Extremes(num, Asc(num), Dsc(num))
  BY <1>1, <1>6, <1>8, <1>9, <1>10 DEF Extremes
<1> QED BY <1>1, <1>6, <1>7, <1>8, <1>11

-----------------------------------------------------------------------------
(***************************************************************************)
(* Four digits.                                                            *)
(***************************************************************************)

\* s is r with the digit a in front of it.
Longer(s, a, r) ==
  /\ r \in Seq(Digit) /\ s \in Seq(Digit) /\ Len(r) \in Nat /\ Len(s) = Len(r) + 1
  /\ s[1] = a /\ \A k \in 1 .. Len(r) : s[k + 1] = r[k]

\* A digit is split off a number (kaprekar.cxx:21-22).
LEMMA SplitOff ==
  ASSUME NEW a \in Digit, NEW z \in Nat, NEW x \in Nat, x = a + 10 * z, x # 0
  PROVE  Longer(Kap!breakNum[x], a, Kap!breakNum[z])
<1>1. x % 10 = a /\ x \div 10 = z
  BY DEF Digit
<1>2. Kap!breakNum[x] = <<a>> \o Kap!breakNum[z]
  BY <1>1, BreakNum
<1>3. PICK r \in Seq(Digit) : r = Kap!breakNum[z]
  BY BreakNum
<1>4. <<a>> \in Seq(Digit) /\ Len(<<a>>) = 1 /\ <<a>>[1] = a /\ Len(r) \in Nat
  BY LenProperties
<1>5. /\ <<a>> \o r \in Seq(Digit) /\ Len(<<a>> \o r) = 1 + Len(r)
      /\ \A k \in 1 .. 1 + Len(r) : (<<a>> \o r)[k] = IF k <= 1 THEN <<a>>[k] ELSE r[k - 1]
  BY <1>4, ConcatProperties
<1>6. PICK n \in Nat : n = Len(r)
  BY <1>4
<1>7. (<<a>> \o r)[1] = a
  <2>1. 1 \in 1 .. 1 + n /\ 1 <= 1
    OBVIOUS
  <2> QED BY <1>4, <1>5, <1>6, <2>1
<1>8. ASSUME NEW k \in 1 .. n PROVE (<<a>> \o r)[k + 1] = r[k]
  <2>1. k + 1 \in 1 .. 1 + n /\ ~(k + 1 <= 1) /\ (k + 1) - 1 = k
    OBVIOUS
  <2> QED BY <1>5, <1>6, <2>1
<1>9. 1 + n = n + 1
  OBVIOUS
<1> QED BY <1>2, <1>3, <1>5, <1>6, <1>7, <1>8, <1>9 DEF Longer

\* The vector d reads a, b, c, e.
Reads(d, a, b, c, e) == Len(d) = 4 /\ d[1] = a /\ d[2] = b /\ d[3] = c /\ d[4] = e

\* A number whose digits are a, b, c and e from the last to the first, the
\* first two of which are not both zeros: three digits count as four
\* (kaprekar.cxx:42-46).
LEMMA Written ==
  ASSUME NEW a \in Digit, NEW b \in Digit, NEW c \in Digit, NEW e \in Digit,
         c > 0 \/ e > 0
  PROVE  Reads(Kap!Digits(a + 10 * b + 100 * c + 1000 * e), a, b, c, e)
<1>1. PICK w \in Nat, u \in Nat, x \in Nat :
        /\ w = c + 10 * e /\ u = b + 10 * w /\ x = a + 10 * u
        /\ w # 0 /\ u # 0 /\ x # 0 /\ x = a + 10 * b + 100 * c + 1000 * e
  <2>1. PICK w \in Nat : w = c + 10 * e /\ w # 0
    BY DEF Digit
  <2>2. PICK u \in Nat : u = b + 10 * w /\ u # 0
    BY <2>1 DEF Digit
  <2>3. PICK x \in Nat : x = a + 10 * u /\ x # 0
    BY <2>2 DEF Digit
  <2>4. x = a + 10 * b + 100 * c + 1000 * e
    BY <2>1, <2>2, <2>3 DEF Digit
  <2> QED BY <2>1, <2>2, <2>3, <2>4
<1>2. PICK X, U, W : X = Kap!breakNum[x] /\ U = Kap!breakNum[u] /\ W = Kap!breakNum[w]
  OBVIOUS
<1>3. Longer(X, a, U) /\ Longer(U, b, W)
  BY <1>1, <1>2, SplitOff
<1>4. 1 + 1 = 2 /\ 2 + 1 = 3 /\ 3 + 1 = 4 /\ 0 + 1 = 1 /\ 3 # 4
  OBVIOUS
<1>5. CASE e = 0
  <2>1. w = c + 10 * 0 /\ 0 \in Nat
    BY <1>1, <1>5 DEF Digit
  <2>2. Longer(W, c, << >>)
    <3>1. Kap!breakNum[0] = << >>
      BY BreakNum
    <3>2. Longer(Kap!breakNum[w], c, Kap!breakNum[0])
      BY <1>1, <2>1, SplitOff
    <3> QED BY <1>2, <3>1, <3>2, Zenon
  <2>3. Len(W) = 1 /\ W[1] = c
    BY <2>2 DEF Longer
  <2>4. Len(U) = 2 /\ U[1] = b /\ U[2] = c
    BY <1>3, <2>3 DEF Longer
  <2>5. Len(X) = 3 /\ X[1] = a /\ X[2] = b /\ X[3] = c /\ X \in Seq(Digit)
    BY <1>3, <2>4 DEF Longer
  <2>6. Kap!Digits(x) = Append(X, 0)
    BY <1>2, <2>5, Zenon DEF Kap!Digits
  <2>7. 0 \in Digit
    BY DEF Digit
  <2>8. Reads(Append(X, 0), a, b, c, 0)
    <3>1. PICK Y : Y = Append(X, 0)
      OBVIOUS
    <3>2. Len(Y) = Len(X) + 1 /\ Y[Len(X) + 1] = 0 /\ \A k \in 1 .. Len(X) : Y[k] = X[k]
      <4>1. X \in Seq(Digit)
        BY <2>5
      <4>2. Len(Append(X, 0)) = Len(X) + 1
        BY <2>7, <4>1, AppendProperties
      <4>3. Append(X, 0)[Len(X) + 1] = 0
        BY <2>7, <4>1, AppendProperties
      <4>4. \A k \in 1 .. Len(X) : Append(X, 0)[k] = X[k]
        BY <2>7, <4>1, AppendProperties
      <4> QED BY <3>1, <4>2, <4>3, <4>4
    <3>3. Len(Y) = 4 /\ Y[4] = 0 /\ \A k \in 1 .. 3 : Y[k] = X[k]
      BY <2>5, <3>2
    <3>4. Y[1] = X[1] /\ Y[2] = X[2] /\ Y[3] = X[3]
      BY <3>3
    <3> QED BY <2>5, <3>1, <3>3, <3>4, Zenon DEF Reads
  <2>9. Reads(Kap!Digits(x), a, b, c, e)
    BY <1>5, <2>6, <2>8, Zenon
  <2> QED BY <1>1, <2>9
<1>6. CASE e # 0
  <2>1. e = e + 10 * 0 /\ e \in Nat /\ 0 \in Nat
    BY <1>6 DEF Digit
  <2>2. PICK E : E = Kap!breakNum[e] /\ Longer(E, e, << >>)
    BY <1>6, <2>1, SplitOff, BreakNum
  <2>3. Longer(W, c, E)
    BY <1>1, <1>2, <2>1, <2>2, SplitOff
  <2>4. Len(E) = 1 /\ E[1] = e
    BY <2>2 DEF Longer
  <2>5. Len(W) = 2 /\ W[1] = c /\ W[2] = e
    BY <2>3, <2>4 DEF Longer
  <2>6. Len(U) = 3 /\ U[1] = b /\ U[2] = c /\ U[3] = e
    BY <1>3, <2>5 DEF Longer
  <2>7. Reads(X, a, b, c, e)
    BY <1>3, <2>6 DEF Longer, Reads
  <2>8. Kap!Digits(x) = X
    BY <1>2, <1>4, <2>7, Zenon DEF Kap!Digits, Reads
  <2> QED BY <1>1, <2>7, <2>8
<1> QED BY <1>5, <1>6

\* What four digits make (kaprekar.cxx:29-36).
LEMMA MakeFour ==
  ASSUME NEW v \in [1 .. 4 -> Digit]
  PROVE  Kap!makeNum(v) = v[1] + 10 * v[2] + 100 * v[3] + 1000 * v[4]
<1>1. PICK f : Sums(f, v, 4) /\ Kap!makeNum(v) = f[4]
  BY MakeNum
<1>2. PICK a \in Nat, b \in Nat, c \in Nat, e \in Nat :
        a = v[1] /\ b = v[2] /\ c = v[3] /\ e = v[4]
  <2>1. 1 \in 1 .. 4 /\ 2 \in 1 .. 4 /\ 3 \in 1 .. 4 /\ 4 \in 1 .. 4
    OBVIOUS
  <2>2. v[1] \in Digit /\ v[2] \in Digit /\ v[3] \in Digit /\ v[4] \in Digit
    BY <2>1
  <2>3. Digit \subseteq Nat
    BY DEF Digit
  <2> QED BY <2>2, <2>3, Zenon
<1>3. /\ f[0] = 0 /\ 1 \in 1 .. 4 /\ 2 \in 1 .. 4 /\ 3 \in 1 .. 4 /\ 4 \in 1 .. 4
      /\ 1 - 1 = 0 /\ 2 - 1 = 1 /\ 3 - 1 = 2 /\ 4 - 1 = 3
  BY <1>1 DEF Sums
<1>4. f[1] = f[0] + v[1] * Kap!placeVal[0]
  BY <1>1, <1>3 DEF Sums
<1>5. f[2] = f[1] + v[2] * Kap!placeVal[1]
  BY <1>1, <1>3 DEF Sums
<1>6. f[3] = f[2] + v[3] * Kap!placeVal[2]
  BY <1>1, <1>3 DEF Sums
<1>7. f[4] = f[3] + v[4] * Kap!placeVal[3]
  BY <1>1, <1>3 DEF Sums
<1>8. f[1] = a
  BY <1>2, <1>3, <1>4, Places
<1>9. f[2] = a + b * 10
  BY <1>2, <1>5, <1>8, Places
<1>10. f[3] = a + b * 10 + c * 100
  BY <1>2, <1>6, <1>9, Places
<1>11. f[4] = a + b * 10 + c * 100 + e * 1000
  BY <1>2, <1>7, <1>10, Places
<1> QED BY <1>1, <1>2, <1>11

\* a is the k-th of the digits t, u, v and w.
Nth(k, a, t, u, v, w) ==
  (k = 1 => a = t) /\ (k = 2 => a = u) /\ (k = 3 => a = v) /\ (k = 4 => a = w)

\* a, b, c and e are t, u, v and w in another order.
Mixed(a, b, c, e, t, u, v, w) ==
  \E k, l, x, y \in 1 .. 4 :
    /\ k # l /\ k # x /\ k # y /\ l # x /\ l # y /\ x # y
    /\ Nth(k, a, t, u, v, w) /\ Nth(l, b, t, u, v, w)
    /\ Nth(x, c, t, u, v, w) /\ Nth(y, e, t, u, v, w)

\* a, b, c and e are the digits of num, sorted.
Sorted(num, a, b, c, e) ==
  LET v == Kap!Digits(num)
  IN  a >= b /\ b >= c /\ c >= e /\ Mixed(a, b, c, e, v[1], v[2], v[3], v[4])

\* One turn on four digits that are not all equal: the outer two and the inner
\* two say what is left (kaprekar.cxx:53-56).
LEMMA FourDigits ==
  ASSUME NEW num \in Nat, Len(Kap!Digits(num)) = 4, ~Kap!AllEqual(Kap!Digits(num))
  PROVE  \E a, b, c, e \in Digit :
           /\ Sorted(num, a, b, c, e) /\ a # e
           /\ Dsc(num) - Asc(num) = 999 * (a - e) + 90 * (b - c)
<1>1. PICK v \in [1 .. 4 -> Digit] : v = Kap!Digits(num)
  BY DigitsType
<1>2. PICK p \in Kap!Orders(4) : Kap!Sort(v) = Put(v, p, 4) /\ Falls(v, p, 4)
  BY Sorting
<1>3. PICK s \in [1 .. 4 -> Digit] : s = Put(v, p, 4) /\ \A k \in 1 .. 4 : s[k] = v[p[k]]
  <2>1. 4 \in Nat
    OBVIOUS
  <2>2. Put(v, p, 4) \in [1 .. 4 -> Digit] /\ \A k \in 1 .. 4 : Put(v, p, 4)[k] = v[p[k]]
    BY <2>1, PutType, Zenon
  <2> QED BY <2>2, Zenon
<1>a. 1 \in 1 .. 4 /\ 2 \in 1 .. 4 /\ 3 \in 1 .. 4 /\ 4 \in 1 .. 4
  OBVIOUS
<1>4. PICK a \in Digit, b \in Digit, c \in Digit, e \in Digit :
        a = s[1] /\ b = s[2] /\ c = s[3] /\ e = s[4]
  BY <1>a
<1>5. a >= b /\ b >= c /\ c >= e
  BY <1>2, <1>3, <1>4, <1>a DEF Falls
<1>6. PICK t \in [1 .. 4 -> Digit] : t = Turned(s, 4) /\
        t[1] = e /\ t[2] = c /\ t[3] = b /\ t[4] = a
  <2>1. Turned(s, 4) \in [1 .. 4 -> Digit]
    BY DEF Turned
  <2>2. Turned(s, 4)[1] = s[4] /\ Turned(s, 4)[2] = s[3] /\ Turned(s, 4)[3] = s[2]
        /\ Turned(s, 4)[4] = s[1]
    BY DEF Turned
  <2> QED BY <1>4, <2>1, <2>2
<1>7. Asc(num) = a + 10 * b + 100 * c + 1000 * e
  <2>1. Kap!makeNum(s) = a + 10 * b + 100 * c + 1000 * e
    BY <1>4, MakeFour
  <2> QED BY <1>1, <1>2, <1>3, <2>1 DEF Asc
<1>8. Dsc(num) = e + 10 * c + 100 * b + 1000 * a
  <2>1. Kap!makeNum(t) = e + 10 * c + 100 * b + 1000 * a
    BY <1>6, MakeFour
  <2> QED BY <1>1, <1>2, <1>3, <1>6, <2>1 DEF Dsc
<1>9. Dsc(num) - Asc(num) = 999 * (a - e) + 90 * (b - c)
  BY <1>7, <1>8 DEF Digit
<1>10. p \in [1 .. 4 -> 1 .. 4] /\ \A x, y \in 1 .. 4 : x # y => p[x] # p[y]
  BY OrdersDef
<1>11. PICK k \in 1 .. 4, l \in 1 .. 4, x \in 1 .. 4, y \in 1 .. 4 :
         k = p[1] /\ l = p[2] /\ x = p[3] /\ y = p[4]
  BY <1>10, <1>a
<1>12. k # l /\ k # x /\ k # y /\ l # x /\ l # y /\ x # y
  BY <1>10, <1>11, <1>a
<1>13. a = v[k] /\ b = v[l] /\ c = v[x] /\ e = v[y]
  BY <1>3, <1>4, <1>11, <1>a
<1>14. Mixed(a, b, c, e, v[1], v[2], v[3], v[4])
  <2>1. \A z \in 1 .. 4 : Nth(z, v[z], v[1], v[2], v[3], v[4])
    BY DEF Nth
  <2> QED BY <1>12, <1>13, <2>1 DEF Mixed
<1>15. a # e
  <2> SUFFICES ASSUME a = e PROVE FALSE
    OBVIOUS
  <2>1. a = b /\ a = c
    BY <1>5 DEF Digit
  <2>2. v[1] = a /\ v[2] = a /\ v[3] = a /\ v[4] = a
    <3>1. \A z \in 1 .. 4 : z = k \/ z = l \/ z = x \/ z = y
      BY <1>12
    <3>2. \A z \in 1 .. 4 : v[z] = a
      BY <1>13, <2>1, <3>1
    <3> QED BY <1>a, <3>2
  <2>3. \A z \in 1 .. 4 - 1 : v[z] = v[z + 1]
    BY <2>2
  <2>4. Len(v) = 4
    BY <1>1
  <2> QED BY <1>1, <2>3, <2>4 DEF Kap!AllEqual
<1> QED BY <1>1, <1>5, <1>9, <1>14, <1>15 DEF Sorted

\* The turns that are left after a difference d of four digits, at most six.
TurnsLeft(d) ==
  CASE d = 6174 -> 0
    [] d \in {4176, 8352, 8532} -> 1
    [] d \in {2088, 3087, 4266, 6264, 7083, 7353, 7533, 8082, 9171, 9261, 9621, 9711} -> 2
    [] d \in {1089, 1998, 3996, 4356, 6354, 6534, 6993, 8991, 9081, 9801} -> 3
    [] d \in {999, 3177, 5265, 5355, 5445, 6444, 7173, 7443, 8262, 8622} -> 4
    [] d \in {2178, 2997, 3267, 4995, 5994, 7263, 7623, 7992, 8172, 8712} -> 5
    [] OTHER -> 6

\* d is what is left of four digits: the outer ones differ by x, the inner
\* ones by y.
Difference(d, x, y) == y <= x /\ d = 999 * x + 90 * y

IsDifference(d) == \E x \in 1 .. 9, y \in 0 .. 9 : Difference(d, x, y)

\* The table is a number of turns.
LEMMA TurnsLeftType ==
  ASSUME NEW d PROVE TurnsLeft(d) \in 0 .. 6
BY SMT DEF TurnsLeft

\* A turn on the digits of a difference, which are 10 - x, 9 - y, y - 1 and x
\* or, if the inner ones were equal, 10 - x, 9, 9 and x - 1, is a step down
\* the table (kaprekar.cxx:67-72).
LEMMA StepDown ==
  ASSUME NEW x \in 1 .. 9, NEW y \in 0 .. 9, y <= x, 999 * x + 90 * y # 6174,
         NEW a \in Digit, NEW b \in Digit, NEW c \in Digit, NEW e \in Digit,
         a >= b, b >= c, c >= e,
         y > 0 => Mixed(a, b, c, e, 10 - x, 9 - y, y - 1, x),
         y = 0 => Mixed(a, b, c, e, 10 - x, 9, 9, x - 1)
  PROVE  TurnsLeft(999 * (a - e) + 90 * (b - c)) < TurnsLeft(999 * x + 90 * y)
<1> USE SMT DEF Digit, Nth, Mixed, TurnsLeft
<1>1. CASE x = 1
  BY <1>1
<1>2. CASE x = 2
  BY <1>2
<1>3. CASE x = 3
  BY <1>3
<1>4. CASE x = 4
  BY <1>4
<1>5. CASE x = 5
  BY <1>5
<1>6. CASE x = 6
  BY <1>6
<1>7. CASE x = 7
  BY <1>7
<1>8. CASE x = 8
  BY <1>8
<1>9. CASE x = 9
  BY <1>9
<1> HIDE DEF Digit, Nth, Mixed, TurnsLeft
<1> QED BY <1>1, <1>2, <1>3, <1>4, <1>5, <1>6, <1>7, <1>8, <1>9

\* The digits of a difference.
LEMMA DifferenceDigits ==
  ASSUME NEW d, NEW x \in 1 .. 9, NEW y \in 0 .. 9, Difference(d, x, y)
  PROVE  /\ d \in Nat
         /\ y > 0 => Reads(Kap!Digits(d), 10 - x, 9 - y, y - 1, x)
         /\ y = 0 => Reads(Kap!Digits(d), 10 - x, 9, 9, x - 1)
<1>1. d \in Nat
  BY DEF Difference
<1>2. ASSUME y > 0 PROVE Reads(Kap!Digits(d), 10 - x, 9 - y, y - 1, x)
  <2>1. 10 - x \in Digit /\ 9 - y \in Digit /\ y - 1 \in Digit /\ x \in Digit /\ x > 0
    BY <1>2 DEF Digit
  <2>2. d = (10 - x) + 10 * (9 - y) + 100 * (y - 1) + 1000 * x
    BY DEF Difference
  <2> QED BY <2>1, <2>2, Written
<1>3. ASSUME y = 0 PROVE Reads(Kap!Digits(d), 10 - x, 9, 9, x - 1)
  <2>1. 10 - x \in Digit /\ 9 \in Digit /\ x - 1 \in Digit /\ 9 > 0
    BY DEF Digit
  <2>2. d = (10 - x) + 10 * 9 + 100 * 9 + 1000 * (x - 1)
    BY <1>3 DEF Difference
  <2> QED BY <2>1, <2>2, Written
<1> QED BY <1>1, <1>2, <1>3

\* A difference has four digits that are not all equal: the exit of
\* getAscDscNum is not met again (kaprekar.cxx:48-51).
LEMMA NeverRejected ==
  ASSUME NEW d, IsDifference(d)
  PROVE  d \in Nat /\ Len(Kap!Digits(d)) = 4 /\ ~Kap!AllEqual(Kap!Digits(d))
<1>1. PICK x \in 1 .. 9, y \in 0 .. 9 : Difference(d, x, y)
  BY DEF IsDifference
<1>2. PICK v : v = Kap!Digits(d)
  OBVIOUS
<1>3. /\ d \in Nat /\ (y > 0 => Reads(v, 10 - x, 9 - y, y - 1, x))
      /\ (y = 0 => Reads(v, 10 - x, 9, 9, x - 1))
  BY <1>1, <1>2, DifferenceDigits
<1>4. Len(v) = 4
  BY <1>3 DEF Reads
<1>5. v[1] # v[2] \/ v[2] # v[3] \/ v[3] # v[4]
  BY <1>3 DEF Reads
<1>6. Kap!AllEqual(v) => v[1] = v[1 + 1] /\ v[2] = v[2 + 1] /\ v[3] = v[3 + 1]
  BY <1>4 DEF Kap!AllEqual
<1>7. ~Kap!AllEqual(v)
  BY <1>5, <1>6
<1> QED BY <1>2, <1>3, <1>4, <1>7

\* One turn on four digits gives a difference, and after a difference one
\* that is nearer to 6174 (kaprekar.cxx:67-72).
LEMMA OneTurn ==
  ASSUME NEW num \in Nat, Len(Kap!Digits(num)) = 4, ~Kap!AllEqual(Kap!Digits(num))
  PROVE  /\ IsDifference(Dsc(num) - Asc(num))
         /\ IsDifference(num) /\ num # 6174 =>
              TurnsLeft(Dsc(num) - Asc(num)) < TurnsLeft(num)
<1>1. PICK a \in Digit, b \in Digit, c \in Digit, e \in Digit :
        /\ Sorted(num, a, b, c, e) /\ a # e
        /\ Dsc(num) - Asc(num) = 999 * (a - e) + 90 * (b - c)
  BY FourDigits
<1>2. a >= b /\ b >= c /\ c >= e
  BY <1>1 DEF Sorted
<1>3. IsDifference(999 * (a - e) + 90 * (b - c))
  <2>1. a - e \in 1 .. 9 /\ b - c \in 0 .. 9 /\ b - c <= a - e
    BY <1>1, <1>2 DEF Digit
  <2> QED BY <2>1 DEF IsDifference, Difference
<1>4. ASSUME IsDifference(num), num # 6174
      PROVE  TurnsLeft(999 * (a - e) + 90 * (b - c)) < TurnsLeft(num)
  <2>1. PICK x \in 1 .. 9, y \in 0 .. 9 : Difference(num, x, y)
    BY <1>4 DEF IsDifference
  <2>2. y <= x /\ num = 999 * x + 90 * y
    BY <2>1 DEF Difference
  <2>3. y > 0 => Mixed(a, b, c, e, 10 - x, 9 - y, y - 1, x)
    <3>1. y > 0 => Reads(Kap!Digits(num), 10 - x, 9 - y, y - 1, x)
      BY <2>1, DifferenceDigits
    <3> QED BY <1>1, <3>1, Zenon DEF Sorted, Reads
  <2>4. y = 0 => Mixed(a, b, c, e, 10 - x, 9, 9, x - 1)
    <3>1. y = 0 => Reads(Kap!Digits(num), 10 - x, 9, 9, x - 1)
      BY <2>1, DifferenceDigits
    <3> QED BY <1>1, <3>1, Zenon DEF Sorted, Reads
  <2>5. 999 * x + 90 * y # 6174
    BY <1>4, <2>2
  <2>6. TurnsLeft(999 * (a - e) + 90 * (b - c)) < TurnsLeft(999 * x + 90 * y)
    BY <1>2, <2>2, <2>3, <2>4, <2>5, StepDown
  <2> QED BY <2>2, <2>6
<1> QED BY <1>1, <1>3, <1>4

-----------------------------------------------------------------------------
(***************************************************************************)
(* The program.                                                            *)
(***************************************************************************)

\* What getAscDscNum left belongs to l_num (kaprekar.cxx:47-57).
UpToDate ==
  outcome = "running" =>
    /\ ~Kap!AllEqual(Kap!Digits(l_num))
    /\ ascNum = Asc(l_num) /\ dscNum = Dsc(l_num)

\* An argument of three or four digits: the iterations that were made and the
\* ones that are left are at most seven (kaprekar.cxx:60-77).
OnTheWay ==
  /\ num_iter <= 7
  /\ outcome \in {"start", "rejected"} => num_iter = 0
  /\ outcome \in {"start", "running"} => Len(Kap!Digits(l_num)) = 4
  /\ outcome = "running" /\ l_num # 6174 =>
       num_iter + 1 + TurnsLeft(dscNum - ascNum) <= 7

KapInv == Kap!TypeOK /\ UpToDate /\ (width \in {3, 4} => OnTheWay)

\* getAscDscNum exits, or it finds the two numbers, and they are no longer
\* than nine digits (kaprekar.cxx:40-57).
LEMMA GetAscDscNum ==
  ASSUME NEW num \in Kap!Number, Kap!getAscDscNum(num)
  PROVE  \/ /\ Kap!AllEqual(Kap!Digits(num)) /\ outcome' = "rejected"
            /\ ascNum' = ascNum /\ dscNum' = dscNum
         \/ /\ ~Kap!AllEqual(Kap!Digits(num)) /\ outcome' = "running"
            /\ ascNum' = Asc(num) /\ dscNum' = Dsc(num)
            /\ ascNum' \in Kap!Number /\ dscNum' \in Kap!Number
<1>1. CASE Kap!AllEqual(Kap!Digits(num))
  BY <1>1 DEF Kap!getAscDscNum
<1>2. CASE ~Kap!AllEqual(Kap!Digits(num))
  <2>1. outcome' = "running" /\ ascNum' = Asc(num) /\ dscNum' = Dsc(num)
    BY <1>2 DEF Kap!getAscDscNum, Asc, Dsc, Turned
  <2>2. num \in Nat
    BY DEF Kap!Number
  <2>3. PICK n \in Nat : n = Len(Kap!Digits(num)) /\ n <= 9
    <3>1. PICK k \in 0 .. 9 : k = Len(Kap!Digits(num))
      BY NineDigits, Zenon
    <3>2. k \in Nat /\ k <= 9
      OBVIOUS
    <3> QED BY <3>1, <3>2
  <2>4. PICK x \in Nat, y \in Nat : x = Asc(num) /\ y = Dsc(num) /\ x <= y
                                    /\ y < Kap!placeVal[n]
    BY <2>2, <2>3, AscDsc
  <2>5. PICK b \in Nat, c \in Nat : b = Kap!placeVal[n] /\ c = Kap!placeVal[9] /\ b <= c
    BY <2>3, PlaceValues, PlacesGrow
  <2>6. x < c /\ y < c
    BY <2>4, <2>5
  <2>7. x \in Kap!Number /\ y \in Kap!Number
    BY <2>5, <2>6 DEF Kap!Number
  <2> QED BY <1>2, <2>1, <2>4, <2>7
<1> QED BY <1>1, <1>2

\* The program starts with an argument of at most nine digits
\* (kaprekar.cxx:60-64,86).
LEMMA KapInit == Init => KapInv
<1> SUFFICES ASSUME Init PROVE KapInv
  OBVIOUS
<1>1. Kap!Init
  BY DEF Init
<1>2. Kap!KaprekarAssumption
  BY ProgramsAssumption
<1>3. l_num \in Kap!Number /\ MaxIter \in Nat
  BY <1>1, <1>2 DEF Kap!Init, Kap!KaprekarAssumption
<1>4. 0 \in Kap!Number
  BY PlaceValues DEF Kap!Number
<1>5. width \in 0 .. 9
  BY <1>1, <1>3, NineDigits DEF Kap!Init
<1>6. Kap!TypeOK
  BY <1>1, <1>3, <1>4, <1>5 DEF Kap!Init, Kap!TypeOK
<1>7. UpToDate
  BY <1>1 DEF Kap!Init, UpToDate
<1>8. ASSUME width \in {3, 4} PROVE OnTheWay
  <2>1. PICK v \in Seq(Digit) : v = Kap!breakNum[l_num]
    BY <1>3, BreakNum DEF Kap!Number
  <2>2. Len(v) = 3 \/ Len(v) = 4
    BY <1>1, <1>8, <2>1 DEF Kap!Init
  <2>3. Len(Kap!Digits(l_num)) = 4
    <3>1. Len(v) = 3 => Kap!Digits(l_num) = Append(v, 0)
      BY <2>1, Zenon DEF Kap!Digits
    <3>2. Len(v) # 3 => Kap!Digits(l_num) = v
      BY <2>1, Zenon DEF Kap!Digits
    <3>3. Len(Append(v, 0)) = Len(v) + 1
      OBVIOUS
    <3>4. CASE Len(v) = 3
      BY <3>1, <3>3, <3>4
    <3>5. CASE Len(v) = 4
      BY <3>2, <3>5
    <3> QED BY <2>2, <3>4, <3>5
  <2> QED BY <1>1, <2>3 DEF Kap!Init, OnTheWay
<1> QED BY <1>6, <1>7, <1>8 DEF KapInv

\* The first call of getAscDscNum (kaprekar.cxx:65).
LEMMA StartKeeps == KapInv /\ Kap!Start => KapInv'
<1> SUFFICES ASSUME KapInv, Kap!Start PROVE KapInv'
  OBVIOUS
<1>1. /\ Kap!TypeOK /\ Kap!getAscDscNum(l_num) /\ outcome = "start"
      /\ l_num' = l_num /\ num_iter' = num_iter /\ width' = width
  BY DEF KapInv, Kap!Start
<1>2. l_num \in Kap!Number /\ l_num \in Nat
  BY <1>1 DEF Kap!TypeOK, Kap!Number
<1>3. \/ /\ Kap!AllEqual(Kap!Digits(l_num)) /\ outcome' = "rejected"
         /\ ascNum' = ascNum /\ dscNum' = dscNum
      \/ /\ ~Kap!AllEqual(Kap!Digits(l_num)) /\ outcome' = "running"
         /\ ascNum' = Asc(l_num) /\ dscNum' = Dsc(l_num)
         /\ ascNum' \in Kap!Number /\ dscNum' \in Kap!Number
  BY <1>1, <1>2, GetAscDscNum
<1>4. Kap!TypeOK'
  BY <1>1, <1>3 DEF Kap!TypeOK
<1>5. UpToDate'
  BY <1>1, <1>3 DEF UpToDate
<1>6. ASSUME width' \in {3, 4} PROVE OnTheWay'
  <2>1. num_iter = 0 /\ Len(Kap!Digits(l_num)) = 4
    BY <1>1, <1>6 DEF KapInv, OnTheWay
  <2>2. 0 + 1 + TurnsLeft(dscNum' - ascNum') <= 7
    <3>1. PICK t \in 0 .. 6 : t = TurnsLeft(dscNum' - ascNum')
      BY TurnsLeftType
    <3>2. 0 + 1 + t <= 7
      OBVIOUS
    <3> QED BY <3>1, <3>2
  <2> QED BY <1>1, <1>3, <2>1, <2>2 DEF OnTheWay
<1> QED BY <1>4, <1>5, <1>6 DEF KapInv

\* A turn of the loop (kaprekar.cxx:67-72).
LEMMA IterateKeeps == KapInv /\ Kap!Iterate => KapInv'
<1> SUFFICES ASSUME KapInv, Kap!Iterate PROVE KapInv'
  OBVIOUS
<1>1. /\ Kap!TypeOK /\ outcome = "running" /\ l_num # 6174
      /\ l_num' = dscNum - ascNum /\ Kap!getAscDscNum(dscNum - ascNum)
      /\ num_iter' = (IF num_iter < MaxIter THEN num_iter + 1 ELSE num_iter)
      /\ width' = width
  BY DEF KapInv, Kap!Iterate
<1>2. /\ l_num \in Nat /\ ~Kap!AllEqual(Kap!Digits(l_num))
      /\ ascNum = Asc(l_num) /\ dscNum = Dsc(l_num)
  BY <1>1 DEF KapInv, UpToDate, Kap!TypeOK, Kap!Number
<1>3. PICK d \in Kap!Number : d = dscNum - ascNum
  <2>1. ascNum \in Nat /\ dscNum \in Nat /\ dscNum < Kap!placeVal[9]
        /\ Kap!placeVal[9] \in Nat
    BY <1>1, PlaceValues DEF Kap!TypeOK, Kap!Number
  <2>2. ascNum <= dscNum
    BY <1>2, AscDsc
  <2>3. dscNum - ascNum \in Nat /\ dscNum - ascNum < Kap!placeVal[9]
    BY <2>1, <2>2
  <2> QED BY <2>3 DEF Kap!Number
<1>4. \/ /\ Kap!AllEqual(Kap!Digits(d)) /\ outcome' = "rejected"
         /\ ascNum' = ascNum /\ dscNum' = dscNum
      \/ /\ ~Kap!AllEqual(Kap!Digits(d)) /\ outcome' = "running"
         /\ ascNum' = Asc(d) /\ dscNum' = Dsc(d)
         /\ ascNum' \in Kap!Number /\ dscNum' \in Kap!Number
  BY <1>1, <1>3, GetAscDscNum
<1>5. num_iter \in 0 .. MaxIter /\ num_iter' \in 0 .. MaxIter /\ num_iter' <= num_iter + 1
  <2>1. num_iter \in 0 .. MaxIter /\ MaxIter \in Nat
    BY <1>1, ProgramsAssumption DEF Kap!TypeOK, Kap!KaprekarAssumption
  <2> QED BY <1>1, <2>1
<1>6. Kap!TypeOK'
  BY <1>1, <1>3, <1>4, <1>5 DEF Kap!TypeOK
<1>7. UpToDate'
  BY <1>1, <1>3, <1>4 DEF UpToDate
<1>8. ASSUME width' \in {3, 4} PROVE OnTheWay'
  <2>1. Len(Kap!Digits(l_num)) = 4 /\ num_iter + 1 + TurnsLeft(d) <= 7
    BY <1>1, <1>3, <1>8 DEF KapInv, OnTheWay
  <2>2. IsDifference(d)
    BY <1>2, <1>3, <2>1, OneTurn
  <2>3. d \in Nat /\ Len(Kap!Digits(d)) = 4 /\ ~Kap!AllEqual(Kap!Digits(d))
    BY <2>2, NeverRejected
  <2>4. d # 6174 => TurnsLeft(Dsc(d) - Asc(d)) < TurnsLeft(d)
    BY <2>2, <2>3, OneTurn
  <2>5. PICK t \in 0 .. 6, u \in 0 .. 6, x \in Nat, y \in Nat :
          /\ t = TurnsLeft(d) /\ u = TurnsLeft(Dsc(d) - Asc(d))
          /\ x = num_iter /\ y = num_iter'
    <3>1. num_iter \in Nat /\ num_iter' \in Nat
      BY <1>5
    <3> QED BY <3>1, TurnsLeftType
  <2>6. x + 1 + t <= 7 /\ y <= x + 1 /\ (d # 6174 => u < t)
    BY <1>5, <2>1, <2>4, <2>5
  <2>7. y <= 7 /\ (d # 6174 => y + 1 + u <= 7)
    BY <2>6
  <2> QED BY <1>1, <1>3, <1>4, <2>3, <2>5, <2>7 DEF OnTheWay
<1> QED BY <1>6, <1>7, <1>8 DEF KapInv

\* Every step keeps the invariant (kaprekar.cxx:60-77).
LEMMA KapNext == KapInv /\ [Kap!Next]_kaprekarVars => KapInv'
<1>1. ASSUME KapInv, Kap!Return PROVE KapInv'
  BY <1>1 DEF KapInv, Kap!Return, Kap!TypeOK, UpToDate, OnTheWay
<1>2. ASSUME KapInv, UNCHANGED kaprekarVars PROVE KapInv'
  BY <1>2 DEF KapInv, kaprekarVars, Kap!TypeOK, UpToDate, OnTheWay
<1> QED BY <1>1, <1>2, StartKeeps, IterateKeeps DEF Kap!Next

\* A step of any program is a step of this one or leaves it alone.
LEMMA KapStep == [Next]_vars => [Kap!Next]_kaprekarVars
BY Zenon DEF Next, Idle, vars

\* The invariant says what the routine is to do (kaprekar.cxx:40-77).
LEMMA KapSafe == KapInv => KaprekarRoutine
<1> SUFFICES ASSUME KapInv PROVE KaprekarRoutine
  OBVIOUS
<1>1. Kap!SmallestAndLargest
  <2> SUFFICES ASSUME outcome = "running" PROVE Extremes(l_num, ascNum, dscNum)
    BY DEF Kap!SmallestAndLargest, Extremes
  <2>1. l_num \in Nat /\ ascNum = Asc(l_num) /\ dscNum = Dsc(l_num)
    BY DEF KapInv, UpToDate, Kap!TypeOK, Kap!Number
  <2> QED BY <2>1, AscDsc
<1>2. Kap!SevenAreEnough
  BY DEF KapInv, OnTheWay, Kap!SevenAreEnough
<1> QED BY <1>1, <1>2 DEF KaprekarRoutine

\* The invariant holds always.
THEOREM KapInvariance == Spec => []KapInv
<1>1. KapInv /\ [Next]_vars => KapInv'
  BY KapStep, KapNext
<1> QED BY <1>1, KapInit, PTL DEF Spec

(***************************************************************************)
(* For every argument of at most nine digits, the two numbers are the      *)
(* smallest and the largest that the digits make, and three or four digits *)
(* need at most seven iterations and are rejected at once or never         *)
(* (kaprekar.cxx:40-77).                                                   *)
(***************************************************************************)
THEOREM KaprekarWorks == Spec => []KaprekarRoutine
BY KapInvariance, KapSafe, PTL

-----------------------------------------------------------------------------
(***************************************************************************)
(* All the programs.                                                       *)
(***************************************************************************)

\* The detached thread and its creator keep their types
\* (DetachableThreadDemo.cpp:33-67).
LEMMA DetachedNext == Detached!TypeOK /\ [Next]_vars => Detached!TypeOK'
<1>1. [Next]_vars => [Detached!Next]_detachedVars
  BY Zenon DEF Next, Idle, vars
<1>2. Detached!TypeOK /\ [Detached!Next]_detachedVars => Detached!TypeOK'
  BY DEF Detached!TypeOK, Detached!Next, Detached!MainStep, Detached!WorkerStep,
         Detached!New, Detached!createThreadforNotifReg, Detached!Delete,
         Detached!AfterStart, Detached!ReadArgument, Detached!RunCmd, detachedVars
<1> QED BY <1>1, <1>2

(***************************************************************************)
(* The variables of all programs keep their types; for kaprekar.cxx that   *)
(* means that no number grows past nine digits, and so past unsigned.      *)
(***************************************************************************)
THEOREM ProgramsTypes == Spec => []TypeOK
<1>1. Spec => []Detached!TypeOK
  <2>1. Init => Detached!TypeOK
    BY DEF Init, Detached!Init, Detached!TypeOK
  <2> QED BY <2>1, DetachedNext, PTL DEF Spec
<1>2. ServicesInv /\ MailboxInv /\ KapInv /\ Detached!TypeOK => TypeOK
  BY DEF ServicesInv, StreamInv, DownloadInv, PersonInv, SctpInv, MailboxInv, ShmInv,
         WatcherInv, KapInv, TypeOK
<1> QED BY <1>1, <1>2, ServicesInvariance, MailboxInvariance, KapInvariance, PTL

=============================================================================
