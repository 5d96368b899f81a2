------------------------------ MODULE Residues ------------------------------
(***************************************************************************)
(* Facts about numbers that several proofs cite: about % for counters and  *)
(* ring positions that wrap, about \div for numbers of pages, and the      *)
(* least-element principle and induction, stated for sets of numbers; and  *)
(* that the loops written as recursive functions have values.              *)
(***************************************************************************)
EXTENDS Integers, WellFoundedInduction, TLAPS

\* Residues of numbers at most one period away.
LEMMA ModLow ==
  ASSUME NEW m \in Nat \ {0}, NEW x \in Int, 0 <= x, x < m
  PROVE  x % m = x
OBVIOUS

\* The residue of a number just below zero.
LEMMA ModNeg ==
  ASSUME NEW m \in Nat \ {0}, NEW x \in Int, -m <= x, x < 0
  PROVE  x % m = x + m
OBVIOUS

\* The residue of a number just above the range.
LEMMA ModHigh ==
  ASSUME NEW m \in Nat \ {0}, NEW x \in Int, m <= x, x < 2 * m
  PROVE  x % m = x - m
OBVIOUS

\* A whole period does not change a residue.
LEMMA ModPeriod ==
  ASSUME NEW m \in Nat \ {0}, NEW x \in Int
  PROVE  (x + m) % m = x % m
<1> DEFINE q == (x \div m) + 1
<1> DEFINE r == x % m
<1>1. x = m * (x \div m) + (x % m) /\ x % m \in 0 .. m - 1
  BY SMTT(30)
<1>2. q \in Int /\ r \in 0 .. m - 1 /\ x + m = m * q + r
  BY <1>1
<1>3. (m * q + r) % m = r
  <2> HIDE DEF q, r
  <2> QED
    BY <1>2
<1> QED
  BY <1>2, <1>3

\* Quotient and remainder of a natural number.
LEMMA DivMod ==
  ASSUME NEW m \in Nat \ {0}, NEW x \in Nat
  PROVE  /\ x \div m \in Nat /\ x % m \in 0 .. m - 1
         /\ x = m * (x \div m) + (x % m)
<1>1. x = m * (x \div m) + (x % m) /\ x % m \in 0 .. m - 1 /\ x \div m \in Int
  BY SMTT(30)
<1>2. ASSUME NEW q \in Int, NEW r \in 0 .. m - 1, x = m * q + r PROVE q >= 0
  BY <1>2, SMTT(30)
<1> QED
  BY <1>1, <1>2

\* They are determined by that equation.
LEMMA DivModUnique ==
  ASSUME NEW m \in Nat \ {0}, NEW q \in Nat, NEW r \in 0 .. m - 1
  PROVE  (m * q + r) \div m = q /\ (m * q + r) % m = r
BY SMTT(30)

----------------------------------------------------------------------------
\* A set of natural numbers that is not empty has a least element.
LEMMA LeastNat ==
  ASSUME NEW S \in SUBSET Nat, S # {}
  PROVE  \E x \in S : \A y \in S : x <= y
<1>1. PICK x \in S : \A y \in S : ~ (<<y, x>> \in OpToRel(<, Nat))
  BY NatLessThanWellFounded, WFMin
<1>2. \A y \in S : ~(y < x)
  BY <1>1 DEF OpToRel
<1>3. x \in Nat /\ \A y \in S : y \in Nat
  OBVIOUS
<1>4. \A y \in S : x <= y
  BY <1>2, <1>3
<1> QED
  BY <1>1, <1>4

\* A bounded one has a greatest element.
LEMMA GreatestNat ==
  ASSUME NEW n \in Nat, NEW S \in SUBSET (0 .. n), S # {}
  PROVE  \E x \in S : \A y \in S : x >= y
<1> DEFINE T == {n - y : y \in S}
<1>0. \A y \in S : y \in 0 .. n
  OBVIOUS
<1>1. T \in SUBSET Nat /\ T # {}
  <2>1. \A y \in S : n - y \in Nat
    BY <1>0
  <2> QED
    BY <2>1
<1>2. PICK t \in T : \A u \in T : t <= u
  BY <1>1, LeastNat
<1>3. PICK x \in S : t = n - x
  OBVIOUS
<1>4. \A y \in S : n - x <= n - y
  BY <1>2, <1>3
<1>5. \A y \in S : x >= y
  BY <1>0, <1>4
<1> QED
  BY <1>5

\* Induction: a set of natural numbers that holds 0 and with each number the
\* next holds them all.
LEMMA InductionNat ==
  ASSUME NEW S \in SUBSET Nat, 0 \in S, \A n \in S : n + 1 \in S
  PROVE  S = Nat
<1> SUFFICES ASSUME NEW k \in Nat \ S PROVE FALSE
  OBVIOUS
<1>1. PICK x \in Nat \ S : \A y \in Nat \ S : x <= y
  BY LeastNat
<1>2. x # 0 /\ x - 1 \in Nat /\ x - 1 \in S
  BY <1>1
<1> QED
  BY <1>1, <1>2

\* A step can be repeated any number of times: the loops that are written as
\* recursive functions have values.
LEMMA IterationExists ==
  ASSUME NEW D, NEW d \in D, NEW step \in [D -> D]
  PROVE  \E f \in [Nat -> D] : f[0] = d /\ \A k \in Nat : f[k + 1] = step[f[k]]
<1> DEFINE Part(n) == {g \in [0 .. n -> D] :
                         g[0] = d /\ \A k \in 0 .. n - 1 : g[k + 1] = step[g[k]]}
<1>1. \A n \in Nat : Part(n) # {}
  <2> DEFINE S == {n \in Nat : Part(n) # {}}
  <2>1. 0 \in S
    <3>1. [i \in 0 .. 0 |-> d] \in Part(0)
      OBVIOUS
    <3> QED
      BY <3>1
  <2>2. ASSUME NEW n \in S PROVE n + 1 \in S
    <3>1. n \in Nat /\ Part(n) # {}
      OBVIOUS
    <3>2. PICK g \in Part(n) : TRUE
      BY <3>1
    <3> DEFINE h == [i \in 0 .. n + 1 |-> IF i = n + 1 THEN step[g[n]] ELSE g[i]]
    <3>3. g \in [0 .. n -> D] /\ g[0] = d /\ \A k \in 0 .. n - 1 : g[k + 1] = step[g[k]]
      BY <3>2
    <3>4. h \in [0 .. n + 1 -> D] /\ h[0] = d
      BY <3>1, <3>3
    <3>5. ASSUME NEW k \in 0 .. (n + 1) - 1 PROVE h[k + 1] = step[h[k]]
      <4>1. CASE k = n
        BY <3>1, <3>3, <4>1
      <4>2. CASE k # n
        BY <3>1, <3>3, <4>2
      <4> QED
        BY <4>1, <4>2
    <3>6. h \in Part(n + 1)
      <4> HIDE DEF h
      <4> QED
        BY <3>4, <3>5
    <3> QED
      BY <3>1, <3>6
  <2>3. S \in SUBSET Nat
    OBVIOUS
  <2> HIDE DEF S
  <2>4. S = Nat
    BY <2>1, <2>2, <2>3, InductionNat
  <2> QED
    BY <2>4 DEF S
<1>2. \A k \in Nat : \A m, n \in Nat : \A g \in Part(m), h \in Part(n) :
         k <= m /\ k <= n => g[k] = h[k]
  <2> DEFINE S == {k \in Nat : \A m, n \in Nat : \A g \in Part(m), h \in Part(n) :
                                 k <= m /\ k <= n => g[k] = h[k]}
  <2>1. 0 \in S
    OBVIOUS
  <2>2. ASSUME NEW k \in S PROVE k + 1 \in S
    <3>1. /\ k \in Nat
          /\ \A m, n \in Nat : \A g \in Part(m), h \in Part(n) : k <= m /\ k <= n => g[k] = h[k]
      OBVIOUS
    <3>2. ASSUME NEW m \in Nat, NEW n \in Nat, NEW g \in Part(m), NEW h \in Part(n),
                 k + 1 <= m, k + 1 <= n
          PROVE  g[k + 1] = h[k + 1]
      <4>0. k <= m /\ k <= n
        BY <3>1, <3>2
      <4>1. g[k] = h[k]
        BY <3>1, <4>0, Zenon
      <4>2. k \in 0 .. m - 1 /\ k \in 0 .. n - 1
        BY <3>1, <3>2
      <4> QED
        BY <4>1, <4>2
    <3> QED
      BY <3>1, <3>2
  <2>3. S \in SUBSET Nat
    OBVIOUS
  <2> HIDE DEF S
  <2>4. S = Nat
    BY <2>1, <2>2, <2>3, InductionNat
  <2> QED
    BY <2>4 DEF S
<1> DEFINE part == [n \in Nat |-> CHOOSE g \in Part(n) : TRUE]
           f == [n \in Nat |-> part[n][n]]
<1>3. ASSUME NEW n \in Nat
      PROVE  /\ part[n] \in Part(n) /\ part[n] \in [0 .. n -> D] /\ part[n][0] = d
             /\ \A k \in 0 .. n - 1 : part[n][k + 1] = step[part[n][k]]
  <2>1. part[n] \in Part(n)
    BY <1>1
  <2> QED
    BY <2>1
<1> HIDE DEF part, Part
<1>4. f \in [Nat -> D] /\ f[0] = d
  BY <1>3
<1>5. ASSUME NEW k \in Nat PROVE f[k + 1] = step[f[k]]
  <2>1. k + 1 \in Nat /\ k \in 0 .. (k + 1) - 1
    OBVIOUS
  <2>2. part[k + 1][k + 1] = step[part[k + 1][k]]
    BY <1>3, <2>1
  <2>3. part[k + 1][k] = part[k][k]
    BY <1>2, <1>3, <2>1
  <2> QED
    BY <2>1, <2>2, <2>3
<1> QED
  BY <1>4, <1>5
\* Induction over a range of numbers.
LEMMA RangeInduction ==
  ASSUME NEW a \in Nat, NEW b \in Nat, NEW S,
         a \in S, \A k \in a + 1 .. b : k - 1 \in S => k \in S
  PROVE  \A k \in a .. b : k \in S
<1> DEFINE T == {m \in Nat : a + m <= b => a + m \in S}
<1>1. 0 \in T
  OBVIOUS
<1>2. ASSUME NEW m \in T PROVE m + 1 \in T
  <2>1. m \in Nat /\ (a + m <= b => a + m \in S)
    OBVIOUS
  <2>2. ASSUME a + (m + 1) <= b PROVE a + (m + 1) \in S
    <3>1. a + m <= b /\ a + (m + 1) \in a + 1 .. b /\ (a + (m + 1)) - 1 = a + m
      BY <2>1, <2>2
    <3>2. a + m \in S
      BY <2>1, <3>1
    <3> QED
      BY <3>1, <3>2
  <2> QED
    BY <2>1, <2>2
<1>3. T \in SUBSET Nat
  OBVIOUS
<1> HIDE DEF T
<1>4. T = Nat
  BY <1>1, <1>2, <1>3, InductionNat
<1>5. ASSUME NEW k \in a .. b PROVE k \in S
  <2>1. k - a \in T /\ a + (k - a) = k /\ k <= b
    BY <1>4
  <2> QED
    BY <2>1 DEF T
<1> QED
  BY <1>5

\* A loop over a range, whose turns may differ, has values: the same for the
\* loops that are written as functions of the turn.
Steps(a, b, D) == [a + 1 .. b -> [D -> D]]
IsLoop(f, a, b, D, d, step) ==
    f \in [a .. b -> D] /\ f[a] = d /\ \A k \in a + 1 .. b : f[k] = step[k][f[k - 1]]

\* Such a function exists.
LEMMA LoopExists ==
  ASSUME NEW a \in Nat, NEW b \in Nat, a <= b, NEW D, NEW d \in D, NEW step \in Steps(a, b, D)
  PROVE  \E f : IsLoop(f, a, b, D, d, step)
<1> DEFINE Upto(n) == {g \in [a .. n -> D] :
                         g[a] = d /\ \A k \in a + 1 .. n : g[k] = step[k][g[k - 1]]}
           S == {n \in Nat : Upto(n) # {}}
<1>1. a \in S
  <2>1. [i \in a .. a |-> d] \in Upto(a)
    OBVIOUS
  <2> QED
    BY <2>1
<1>2. ASSUME NEW n \in a + 1 .. b, n - 1 \in S PROVE n \in S
  <2>0. n \in Nat /\ n - 1 \in Nat /\ a <= n - 1 /\ Upto(n - 1) # {}
    BY <1>2
  <2>1. PICK g \in Upto(n - 1) : TRUE
    BY <2>0
  <2> DEFINE h == [i \in a .. n |-> IF i = n THEN step[n][g[n - 1]] ELSE g[i]]
  <2>2. /\ g \in [a .. n - 1 -> D] /\ g[a] = d
        /\ \A k \in a + 1 .. n - 1 : g[k] = step[k][g[k - 1]]
    BY <2>1
  <2>3. step[n] \in [D -> D] /\ g[n - 1] \in D
    BY <1>2, <2>0, <2>2 DEF Steps
  <2>4. h \in [a .. n -> D] /\ h[a] = d
    BY <2>0, <2>2, <2>3
  <2>5. ASSUME NEW k \in a + 1 .. n PROVE h[k] = step[k][h[k - 1]]
    <3>1. CASE k = n
      BY <2>0, <3>1
    <3>2. CASE k # n
      <4>1. k \in a + 1 .. n - 1 /\ k - 1 # n /\ k \in a .. n /\ k - 1 \in a .. n
        BY <2>0, <3>2
      <4>2. h[k] = g[k] /\ h[k - 1] = g[k - 1]
        BY <4>1, <3>2
      <4> QED
        BY <2>2, <4>1, <4>2
    <3> QED
      BY <3>1, <3>2
  <2>6. h \in Upto(n)
    <3> HIDE DEF h
    <3> QED
      BY <2>4, <2>5
  <2> QED
    BY <2>0, <2>6
<1>3. \A k \in a .. b : k \in S
  <2> HIDE DEF S
  <2> QED
    BY <1>1, <1>2, RangeInduction
<1>4. Upto(b) # {}
  <2>1. b \in a .. b
    OBVIOUS
  <2> QED
    BY <1>3, <2>1
<1> QED
  BY <1>4 DEF IsLoop

\* A function of a number may be given by its value for a smaller one.
IsDescent(f, n, D, last, pre, step) ==
    /\ f \in [0 .. n -> D]
    /\ \A m \in 0 .. n : f[m] = IF pre[m] < m THEN step[m][f[pre[m]]] ELSE last[m]

\* Such a function exists.
LEMMA DescentExists ==
  ASSUME NEW n \in Nat, NEW D, NEW last \in [0 .. n -> D], NEW pre \in [0 .. n -> Nat],
         NEW step \in [0 .. n -> [D -> D]]
  PROVE  \E f : IsDescent(f, n, D, last, pre, step)
<1> DEFINE S == {k \in 0 .. n : \E f : IsDescent(f, k, D, last, pre, step)}
<1>1. 0 \in S
  <2>1. IsDescent([m \in 0 .. 0 |-> last[0]], 0, D, last, pre, step)
    BY DEF IsDescent
  <2> QED
    BY <2>1
<1>2. ASSUME NEW k \in 0 + 1 .. n, k - 1 \in S PROVE k \in S
  <2>1. PICK f : IsDescent(f, k - 1, D, last, pre, step)
    BY <1>2
  <2> DEFINE v == IF pre[k] < k THEN step[k][f[pre[k]]] ELSE last[k]
             h == [m \in 0 .. k |-> IF m = k THEN v ELSE f[m]]
  <2>2. k \in 0 .. n /\ k \in Nat /\ k - 1 \in Nat
    OBVIOUS
  <2>3. /\ f \in [0 .. k - 1 -> D]
        /\ \A m \in 0 .. k - 1 : f[m] = IF pre[m] < m THEN step[m][f[pre[m]]] ELSE last[m]
    BY <2>1 DEF IsDescent
  <2>4. v \in D
    <3>1. pre[k] \in Nat /\ step[k] \in [D -> D] /\ last[k] \in D
      BY <2>2
    <3>2. CASE pre[k] < k
      <4>1. pre[k] \in 0 .. k - 1
        BY <2>2, <3>1, <3>2
      <4> QED
        BY <2>3, <3>1, <3>2, <4>1
    <3> QED
      BY <3>1, <3>2
  <2> HIDE DEF v
  <2>5. h \in [0 .. k -> D]
    BY <2>2, <2>3, <2>4
  <2>6. ASSUME NEW m \in 0 .. k
        PROVE  h[m] = IF pre[m] < m THEN step[m][h[pre[m]]] ELSE last[m]
    <3>0. m \in 0 .. n /\ pre[m] \in Nat
      BY <2>2
    <3>1. pre[m] < m => pre[m] \in 0 .. k - 1 /\ pre[m] \in 0 .. k /\ pre[m] # k
      BY <2>2, <3>0
    <3>2. pre[m] < m => h[pre[m]] = f[pre[m]]
      BY <3>1
    <3>3. CASE m = k
      BY <2>2, <3>2, <3>3 DEF v
    <3>4. CASE m # k
      <4>1. m \in 0 .. k - 1 /\ h[m] = f[m]
        BY <2>2, <3>4
      <4> QED
        BY <2>3, <3>2, <4>1
    <3> QED
      BY <3>3, <3>4
  <2>7. IsDescent(h, k, D, last, pre, step)
    <3> HIDE DEF h
    <3> QED
      BY <2>5, <2>6 DEF IsDescent
  <2> QED
    BY <2>2, <2>7
<1>3. \A k \in 0 .. n : k \in S
  <2> HIDE DEF S
  <2> QED
    BY <1>1, <1>2, RangeInduction
<1> QED
  BY <1>3
=============================================================================
