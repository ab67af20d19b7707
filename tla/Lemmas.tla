------------------------------ MODULE Lemmas -------------------------------
(***************************************************************************)
(* Facts about numbers, sequences and loops that the proofs of several     *)
(* modules cite.                                                           *)
(*                                                                         *)
(* The loops of the models are recursive functions over 0 .. n: the lemmas *)
(* at the end say that one exists and what type its values have. Induction *)
(* is by the least element of a set, since the provers cannot instantiate  *)
(* the induction theorems of the library.                                  *)
(***************************************************************************)
EXTENDS Integers, Sequences, WellFoundedInduction, TLAPS

\* Remainders index a ring.
LEMMA ModType ==
  ASSUME NEW a \in Int, NEW b \in Nat \ {0}
  PROVE  a % b \in 0 .. b - 1
OBVIOUS

LEMMA DivBound ==
  ASSUME NEW a \in Nat, NEW b \in Nat \ {0}, NEW c \in Nat, a < c * b
  PROVE  a \div b \in 0 .. c - 1
OBVIOUS

LEMMA MulMonotone ==
  ASSUME NEW a \in Nat, NEW b \in Nat, NEW c \in Nat, a <= b
  PROVE  a * c <= b * c /\ a * c \in Nat
OBVIOUS

\* Of two numbers in the same ring slot, one that lies less than a ring
\* ahead does not lie ahead at all.
LEMMA SameSlot ==
  ASSUME NEW a \in Nat, NEW b \in Nat, NEW n \in Nat \ {0},
         a % n = b % n, a < b + n
  PROVE  a <= b
<1>1. a \div n \in Int /\ b \div n \in Int /\ a % n \in Int
  OBVIOUS
<1>2. PICK p \in Int : p = a \div n
  BY <1>1
<1>3. PICK q \in Int : q = b \div n
  BY <1>1
<1>4. a = (n * p) + (a % n)
  BY <1>2
<1>5. b = (n * q) + (b % n)
  BY <1>3
<1>6. n * p < n * q + n
  BY <1>1, <1>4, <1>5
<1>7. p < q + 1
  <2>1. ASSUME p >= q + 1 PROVE FALSE
    <3>1. n * p >= n * (q + 1)
      BY <2>1
    <3>2. n * (q + 1) = n * q + n
      OBVIOUS
    <3> QED BY <1>6, <3>1, <3>2
  <2> QED BY <2>1
<1>8. n * p <= n * q
  BY <1>7
<1> QED BY <1>1, <1>4, <1>5, <1>8

\* The slot before last time round is the same slot.
LEMMA ModShift ==
  ASSUME NEW a \in Nat, NEW n \in Nat \ {0}, a >= n
  PROVE  (a - n) % n = a % n
<1>0. a - n \in Nat
  OBVIOUS
<1>1. a % n \in 0 .. n - 1 /\ (a - n) % n \in 0 .. n - 1 /\ (a - n) \div n \in Int
  BY <1>0, ModType
<1>2. PICK p \in Int : p = a \div n
  OBVIOUS
<1>3. PICK q \in Int : q = (a - n) \div n
  BY <1>1
<1>4. PICK r \in 0 .. n - 1 : r = a % n
  BY <1>1
<1>5. PICK s \in 0 .. n - 1 : s = (a - n) % n
  BY <1>1
<1>6. a = n * p + r
  BY <1>2, <1>4
<1>7. a - n = n * q + s
  BY <1>0, <1>1, <1>3, <1>5
<1>8. PICK d \in Int : d = p - 1 - q
  OBVIOUS
<1>9. s - r = n * d
  <2>1. n * d = n * p - n - n * q
    BY <1>8
  <2> QED BY <1>6, <1>7, <2>1
<1>10. d = 0
  <2>1. ASSUME d >= 1 PROVE FALSE
    <3>1. n * d >= n
      BY <2>1
    <3> QED BY <1>9, <3>1
  <2>2. ASSUME d <= -1 PROVE FALSE
    <3>1. n * d <= -n
      BY <2>2
    <3> QED BY <1>9, <3>1
  <2> QED BY <2>1, <2>2
<1> QED BY <1>4, <1>5, <1>9, <1>10

-----------------------------------------------------------------------------
\* G takes the value before iteration i and i to the value after it.
LoopBody(n, X, G) == \A x \in X, i \in 1 .. n : G[<<x, i>>] \in X

\* f lists the values a loop goes through, from a on.
LoopValues(f, n, X, a, G) ==
  /\ f \in [0 .. n -> X]
  /\ f[0] = a
  /\ \A i \in 1 .. n : f[i] = G[<<f[i - 1], i>>]

\* A set with 0 that is closed under successor, up to n, holds all of 0..n.
LEMMA SetInduction ==
  ASSUME NEW n \in Nat, NEW T, 0 \in T,
         \A i \in 0 .. n - 1 : i \in T => i + 1 \in T
  PROVE  \A i \in 0 .. n : i \in T
<1> DEFINE Bad == {i \in 0 .. n : i \notin T}
<1>1. SUFFICES ASSUME Bad # {} PROVE FALSE
  OBVIOUS
<1>2. IsWellFoundedOn(OpToRel(<, Nat), Nat)
  BY NatLessThanWellFounded
<1>3. Bad \subseteq Nat
  OBVIOUS
<1>4. PICK m \in Bad : \A y \in Bad : ~(<<y, m>> \in OpToRel(<, Nat))
  <2> HIDE DEF Bad
  <2> QED BY <1>1, <1>2, <1>3, WFMin
<1>5. \A y \in Bad : ~(y < m)
  BY <1>3, <1>4 DEF OpToRel
<1>6. m \in Nat /\ m # 0 /\ m <= n
  OBVIOUS
<1>7. m - 1 \in 0 .. n - 1 /\ m - 1 \notin Bad
  BY <1>5, <1>6
<1>8. m \in T
  BY <1>6, <1>7
<1> QED BY <1>8

\* What holds of the first value and is preserved by each iteration holds of
\* every value of a loop.
LEMMA LoopInvariant ==
  ASSUME NEW n \in Nat, NEW X, NEW f, f[0] \in X,
         \A i \in 1 .. n : f[i - 1] \in X => f[i] \in X
  PROVE  \A i \in 0 .. n : f[i] \in X
<1> DEFINE T == {i \in 0 .. n : f[i] \in X}
<1>1. 0 \in T
  OBVIOUS
<1>2. ASSUME NEW i \in 0 .. n - 1, i \in T
      PROVE  i + 1 \in T
  <2>1. i + 1 \in 1 .. n /\ (i + 1) - 1 = i /\ i + 1 \in 0 .. n
    OBVIOUS
  <2> QED BY <1>2, <2>1
<1>3. \A i \in 0 .. n : i \in T
  <2> HIDE DEF T
  <2> QED BY <1>1, <1>2, SetInduction
<1> QED BY <1>3

\* A loop whose body stays in X has values, and they are in X.
LEMMA LoopExists ==
  ASSUME NEW n \in Nat, NEW X, NEW a \in X, NEW G, LoopBody(n, X, G)
  PROVE  \E f : LoopValues(f, n, X, a, G)
<1> DEFINE T == {k \in 0 .. n : \E f : LoopValues(f, k, X, a, G)}
<1>1. 0 \in T
  <2>1. LoopValues([i \in 0 .. 0 |-> a], 0, X, a, G)
    BY DEF LoopValues
  <2>2. 0 \in 0 .. n
    OBVIOUS
  <2> QED BY <2>1, <2>2
<1>2. ASSUME NEW k \in 0 .. n - 1, k \in T
      PROVE  k + 1 \in T
  <2>1. PICK f : LoopValues(f, k, X, a, G)
    BY <1>2
  <2> DEFINE g == [i \in 0 .. k + 1 |-> IF i = k + 1 THEN G[<<f[k], k + 1>>] ELSE f[i]]
  <2>2. k + 1 \in 1 .. n /\ k + 1 \in 0 .. n /\ k \in 0 .. k
    OBVIOUS
  <2>3. \A i \in 0 .. k : f[i] \in X
    BY <2>1 DEF LoopValues
  <2>4. G[<<f[k], k + 1>>] \in X
    BY <2>2, <2>3 DEF LoopBody
  <2>5. \A i \in 0 .. k : g[i] = f[i]
    OBVIOUS
  <2>6. g[k + 1] = G[<<g[k], k + 1>>]
    BY <2>5
  <2>7. \A i \in 0 .. k + 1 : g[i] \in X
    BY <2>3, <2>4
  <2>8. g \in [0 .. k + 1 -> X]
    BY <2>7
  <2>9. g[0] = a
    BY <2>1, <2>5 DEF LoopValues
  <2>10. ASSUME NEW i \in 1 .. k PROVE g[i] = G[<<g[i - 1], i>>]
    <3>1. i - 1 \in 0 .. k /\ i \in 0 .. k
      OBVIOUS
    <3>2. f[i] = G[<<f[i - 1], i>>]
      BY <2>1 DEF LoopValues
    <3> HIDE DEF g
    <3> QED BY <2>5, <3>1, <3>2
  <2> HIDE DEF g
  <2>11. \A i \in 1 .. k + 1 : i = k + 1 \/ i \in 1 .. k
    OBVIOUS
  <2>12. (k + 1) - 1 = k
    OBVIOUS
  <2>13. LoopValues(g, k + 1, X, a, G)
    BY <2>6, <2>8, <2>9, <2>10, <2>11, <2>12 DEF LoopValues
  <2> QED BY <2>2, <2>13
<1>3. n \in T
  <2> HIDE DEF T
  <2> QED BY <1>1, <1>2, SetInduction
<1> QED BY <1>3
=============================================================================
