----------------------------- MODULE LibProofs -----------------------------
(***************************************************************************)
(* The kernel's library (src/kernel/lib).  The mutex loses no operation,   *)
(* for any number of threads and any width of the semaphore; the linked    *)
(* lists are sequences, for any number of nodes.  On the same walks rest   *)
(* the buffer cache, for any number of headers, and the partition table,   *)
(* for any chain of extended boot records.                                 *)
(***************************************************************************)
EXTENDS Lists, BufferCache, Partition, Mutex, Residues, FiniteSetTheorems, SequenceTheorems, TLAPS

\* A decl compensates for one more thread inside.
LEMMA Down ==
  ASSUME NEW m \in Nat \ {0}, NEW v \in 0 .. m - 1, NEW c \in Nat
  PROVE  (((v - 1) % m) + (c + 1)) % m = (v + c) % m
<1>1. CASE v = 0
  <2>1. (v - 1) % m = m - 1
    BY <1>1
  <2>2. (c + m) % m = c % m
    <3>1. c \in Int
      OBVIOUS
    <3> QED
      BY <3>1, ModPeriod, Zenon
  <2>3. ((v - 1) % m) + (c + 1) = c + m /\ v + c = c
    BY <1>1, <2>1
  <2> QED
    BY <2>2, <2>3
<1>2. CASE v # 0
  <2>1. (v - 1) % m = v - 1
    BY <1>2
  <2>2. v - 1 + (c + 1) = v + c
    OBVIOUS
  <2> QED
    BY <2>1, <2>2
<1> QED
  BY <1>1, <1>2

\* An incl compensates for one thread less.
LEMMA Up ==
  ASSUME NEW m \in Nat \ {0}, NEW v \in 0 .. m - 1, NEW c \in Nat \ {0}
  PROVE  (((v + 1) % m) + (c - 1)) % m = (v + c) % m
<1>1. CASE v = m - 1
  <2>1. (v + 1) % m = 0
    BY <1>1
  <2>2. ((c - 1) + m) % m = (c - 1) % m
    <3>1. c - 1 \in Int
      OBVIOUS
    <3> QED
      BY <3>1, ModPeriod, Zenon
  <2>3. ((v + 1) % m) + (c - 1) = c - 1 /\ v + c = (c - 1) + m
    BY <1>1, <2>1
  <2> QED
    BY <2>2, <2>3
<1>2. CASE v # m - 1
  <2>1. (v + 1) % m = v + 1
    BY <1>2
  <2>2. v + 1 + (c - 1) = v + c
    OBVIOUS
  <2> QED
    BY <2>1, <2>2
<1> QED
  BY <1>1, <1>2

\* The inductive invariant.
MutexInv == TypeOK /\ Conserved

\* The threads inside can be counted.
LEMMA InsideFinite == IsFiniteSet(Inside) /\ Cardinality(Inside) \in Nat
  BY MutexAssumption, FS_Subset, FS_CardinalityType DEF Inside

\* decl and incl of mutex never lose an update, whatever the interleaving.
THEOREM MutexConserved == Spec => []Conserved
<1>1. Init => MutexInv
  <2> SUFFICES ASSUME Init PROVE MutexInv
    OBVIOUS
  <2>1. Inside = {}
    BY DEF Init, Inside
  <2>2. Cardinality(Inside) = 0
    BY <2>1, FS_EmptySet
  <2>3. TypeOK
    BY MutexAssumption DEF Init, TypeOK
  <2> QED
    BY <2>2, <2>3, MutexAssumption DEF Init, MutexInv, Conserved
<1>2. MutexInv /\ [Next]_vars => MutexInv'
  <2> SUFFICES ASSUME MutexInv, [Next]_vars PROVE MutexInv'
    OBVIOUS
  <2> DEFINE c == Cardinality(Inside)
  <2>1. M \in Nat \ {0} /\ mutex \in 0 .. M - 1 /\ c \in Nat /\ (mutex + c) % M = 1
    BY MutexAssumption, InsideFinite DEF MutexInv, TypeOK, Conserved
  <2>2. TypeOK'
    BY MutexAssumption
       DEF MutexInv, TypeOK, Next, vars, mutex_spin_down, SpinLoad, SpinTest,
           SpinDecl, mutex_up
  <2>3. CASE UNCHANGED <<mutex, Inside>>
    BY <2>2, <2>3 DEF MutexInv, Conserved
  <2>4. ASSUME NEW t \in Threads,
               mutex_spin_down(t) \/ SpinLoad(t) \/ SpinTest(t)
        PROVE  MutexInv'
    <3>1. UNCHANGED <<mutex, Inside>>
      BY <2>4 DEF Inside, mutex_spin_down, SpinLoad, SpinTest, MutexInv, TypeOK
    <3> QED
      BY <2>3, <3>1
  <2>5. ASSUME NEW t \in Threads, SpinDecl(t) PROVE MutexInv'
    <3>1. t \notin Inside /\ Inside' = Inside \cup {t}
      BY <2>5 DEF Inside, SpinDecl, MutexInv, TypeOK
    <3>2. Cardinality(Inside') = c + 1
      BY <3>1, InsideFinite, FS_AddElement
    <3>3. (((mutex - 1) % M) + (c + 1)) % M = (mutex + c) % M
      BY <2>1, Down
    <3> QED
      BY <2>1, <2>2, <2>5, <3>2, <3>3 DEF SpinDecl, MutexInv, Conserved
  <2>6. ASSUME NEW t \in Threads, mutex_up(t) PROVE MutexInv'
    <3>1. t \in Inside /\ Inside' = Inside \ {t}
      BY <2>6 DEF Inside, mutex_up, MutexInv, TypeOK
    <3>2. Cardinality(Inside') = c - 1
      BY <3>1, InsideFinite, FS_RemoveElement
    <3>3. c # 0
      BY <3>1, InsideFinite, FS_EmptySet
    <3>4. (((mutex + 1) % M) + (c - 1)) % M = (mutex + c) % M
      BY <2>1, <3>3, Up
    <3> QED
      BY <2>1, <2>2, <2>6, <3>2, <3>4 DEF mutex_up, MutexInv, Conserved
  <2>7. CASE UNCHANGED vars
    BY <2>3, <2>7 DEF vars, Inside
  <2> QED
    BY <2>4, <2>5, <2>6, <2>7 DEF Next
<1>3. MutexInv => Conserved
  BY DEF MutexInv
<1> QED
  BY <1>1, <1>2, <1>3, PTL DEF Spec

----------------------------------------------------------------------------
(***************************************************************************)
(* Lists.  The loops are functions that are defined by recursion; what such*)
(* a loop visits on an intact list is shown by induction on its turns      *)
(* (TrailIs).  The rest is how each operation changes the nodes t that     *)
(* carry a list.                                                           *)
(***************************************************************************)
LOCAL INSTANCE SequencesExt

\* The loop from start along f meets the objects of t, in order, and stops.
Chain(f, start, stop, t) ==
    /\ t \in Seq(DOMAIN f)
    /\ \A i, j \in DOMAIN t : t[i] = t[j] => i = j
    /\ \A i \in DOMAIN t : t[i] # stop
    /\ t = <<>> => start = stop
    /\ t # <<>> => t[1] = start /\ f[t[Len(t)]] = stop
    /\ \A i \in 1 .. Len(t) - 1 : f[t[i]] = t[i + 1]

\* One turn of the loop.
Turn(f, start, stop, seen) ==
    LET x == IF seen = <<>> THEN start ELSE f[Last(seen)]
    IN  IF x = stop \/ Contains(seen, x) THEN seen ELSE Append(seen, x)

\* A chain visits no more objects than there are.
LEMMA ChainLength ==
  ASSUME NEW S, IsFiniteSet(S), NEW t \in Seq(S),
         \A i, j \in DOMAIN t : t[i] = t[j] => i = j
  PROVE  Len(t) \in Nat /\ Cardinality(S) \in Nat /\ Len(t) <= Cardinality(S)
<1>1. Len(t) \in Nat /\ DOMAIN t = 1 .. Len(t) /\ t \in [1 .. Len(t) -> S]
  OBVIOUS
<1>2. IsFiniteSet(1 .. Len(t)) /\ Cardinality(1 .. Len(t)) = Len(t) /\ Cardinality(S) \in Nat
  <2>1. IsFiniteSet(1 .. Len(t)) /\ Cardinality(1 .. Len(t)) = Len(t)
    BY <1>1, FS_Interval
  <2>2. Cardinality(S) \in Nat
    BY FS_CardinalityType
  <2> QED
    BY <2>1, <2>2
<1>3. ASSUME Cardinality(S) < Len(t) PROVE FALSE
  <2>1. \E x, y \in 1 .. Len(t) : x # y /\ t[x] = t[y]
    BY <1>1, <1>2, <1>3, FS_PigeonHole
  <2> QED
    BY <1>1, <2>1
<1> QED
  BY <1>1, <1>2, <1>3

\* The k-th turn of the loop adds the k-th object of the chain, until there
\* are no more.
LEMMA TurnIs ==
  ASSUME NEW f, NEW start, NEW stop, NEW t, Chain(f, start, stop, t), NEW k \in Nat
  PROVE  /\ k < Len(t) => Turn(f, start, stop, SubSeq(t, 1, k)) = SubSeq(t, 1, k + 1)
         /\ Turn(f, start, stop, t) = t
<1> USE DEF Chain
<1>1. Len(t) \in Nat /\ DOMAIN t = 1 .. Len(t) /\ t \in Seq(DOMAIN f)
  OBVIOUS
<1>2. ASSUME k < Len(t)
      PROVE  Turn(f, start, stop, SubSeq(t, 1, k)) = SubSeq(t, 1, k + 1)
  <2> DEFINE seen == SubSeq(t, 1, k)
             y == IF seen = <<>> THEN start ELSE f[Last(seen)]
  <2>1. seen \in Seq(DOMAIN f) /\ Len(seen) = k /\ \A i \in 1 .. k : seen[i] = t[i]
    BY <1>1, <1>2
  <2>2. y = t[k + 1]
    <3>1. CASE k = 0
      <4>1. seen = <<>> /\ t # <<>>
        BY <1>1, <1>2, <2>1, <3>1
      <4> QED
        BY <3>1, <4>1
    <3>2. CASE k # 0
      <4>1. seen # <<>> /\ Last(seen) = t[k] /\ k \in 1 .. Len(t) - 1
        BY <1>1, <1>2, <2>1, <3>2 DEF Last
      <4> QED
        BY <4>1
    <3> QED
      BY <3>1, <3>2
  <2>3. ~(y = stop \/ Contains(seen, y))
    <3>1. k + 1 \in DOMAIN t /\ t[k + 1] # stop
      BY <1>1, <1>2
    <3>2. ASSUME NEW i \in 1 .. k PROVE seen[i] # t[k + 1]
      BY <1>1, <1>2, <2>1
    <3> HIDE DEF seen, y
    <3> QED
      BY <2>1, <2>2, <3>1, <3>2 DEF Contains
  <2>4. Append(seen, t[k + 1]) = SubSeq(t, 1, k + 1)
    <3> DEFINE next == SubSeq(t, 1, k + 1)
    <3>1. next \in Seq(DOMAIN f) /\ Len(next) = k + 1 /\ \A i \in 1 .. k + 1 : next[i] = t[i]
      BY <1>1, <1>2
    <3>2. t[k + 1] \in DOMAIN f
      BY <1>1, <1>2
    <3> HIDE DEF seen, next
    <3>3. /\ Append(seen, t[k + 1]) \in Seq(DOMAIN f) /\ Len(Append(seen, t[k + 1])) = k + 1
          /\ \A i \in 1 .. k + 1 : Append(seen, t[k + 1])[i] = next[i]
      BY <2>1, <3>1, <3>2
    <3> QED
      BY <3>1, <3>3 DEF next
  <2>5. Turn(f, start, stop, seen) = IF y = stop \/ Contains(seen, y) THEN seen ELSE Append(seen, y)
    BY DEF Turn
  <2> QED
    BY <2>2, <2>3, <2>4, <2>5
<1>3. Turn(f, start, stop, t) = t
  <2>1. (IF t = <<>> THEN start ELSE f[Last(t)]) = stop
    BY <1>1 DEF Last
  <2> QED
    BY <2>1 DEF Turn
<1> QED
  BY <1>2, <1>3

\* So the trail of the loop is the chain.
LEMMA TrailIs ==
  ASSUME NEW f, IsFiniteSet(DOMAIN f), NEW start, NEW stop, NEW t, Chain(f, start, stop, t)
  PROVE  Trail(f, start, stop) = t
<1> DEFINE upto(k) == IF k < Len(t) THEN SubSeq(t, 1, k) ELSE t
           all == [k \in Nat |-> upto(k)]
           eqn(g) == g = [k \in Nat |-> IF k = 0 THEN <<>> ELSE Turn(f, start, stop, g[k - 1])]
           walk == CHOOSE g : eqn(g)
<1>1. Len(t) \in Nat /\ t \in Seq(DOMAIN f) /\ Len(t) <= Cardinality(DOMAIN f)
      /\ Cardinality(DOMAIN f) \in Nat
  BY ChainLength DEF Chain
<1>2. upto(0) = <<>>
  BY <1>1
<1>3. ASSUME NEW k \in Nat \ {0} PROVE upto(k) = Turn(f, start, stop, upto(k - 1))
  <2>1. k - 1 \in Nat /\ (k - 1) + 1 = k
    OBVIOUS
  <2>2. CASE k - 1 < Len(t)
    <3>1. Turn(f, start, stop, SubSeq(t, 1, k - 1)) = SubSeq(t, 1, k)
      BY <2>1, <2>2, TurnIs
    <3>2. ~(k < Len(t)) => k = Len(t) /\ SubSeq(t, 1, k) = t
      BY <1>1, <2>2
    <3> QED
      BY <2>2, <3>1, <3>2
  <2>3. CASE ~(k - 1 < Len(t))
    <3>1. ~(k < Len(t))
      BY <1>1, <2>3
    <3> QED
      BY <2>1, <2>3, <3>1, TurnIs
  <2> QED
    BY <2>2, <2>3
<1> HIDE DEF upto
<1>4. eqn(all)
  <2>1. ASSUME NEW k \in Nat
        PROVE  upto(k) = IF k = 0 THEN <<>> ELSE Turn(f, start, stop, all[k - 1])
    <3>1. CASE k = 0
      BY <1>2, <3>1
    <3>2. CASE k # 0
      <4>1. k \in Nat \ {0} /\ k - 1 \in Nat
        BY <3>2
      <4>2. all[k - 1] = upto(k - 1)
        BY <4>1
      <4> QED
        BY <1>3, <3>2, <4>1, <4>2
    <3> QED
      BY <3>1, <3>2
  <2> QED
    BY <2>1
<1>5. eqn(walk)
  BY <1>4, Zenon
<1>6. Trail(f, start, stop) = walk[Cardinality(DOMAIN f)]
  BY Zenon DEF Trail, Turn
<1> HIDE DEF walk
<1> DEFINE S == {k \in Nat : walk[k] = upto(k)}
<1>7. 0 \in S
  BY <1>2, <1>5
<1>8. ASSUME NEW k \in S PROVE k + 1 \in S
  <2>1. k \in Nat /\ k + 1 \in Nat \ {0} /\ (k + 1) - 1 = k /\ walk[k] = upto(k)
    OBVIOUS
  <2>2. walk[k + 1] = Turn(f, start, stop, walk[k])
    BY <1>5, <2>1
  <2>3. upto(k + 1) = Turn(f, start, stop, upto(k))
    BY <1>3, <2>1
  <2> QED
    BY <2>1, <2>2, <2>3
<1>9. S \in SUBSET Nat
  OBVIOUS
<1> HIDE DEF S
<1>10. S = Nat
  BY <1>7, <1>8, <1>9, InductionNat
<1>11. walk[Cardinality(DOMAIN f)] = upto(Cardinality(DOMAIN f))
  BY <1>1, <1>10 DEF S
<1>12. upto(Cardinality(DOMAIN f)) = t
  BY <1>1 DEF upto
<1> QED
  BY <1>6, <1>11, <1>12

\* A loop over pointers that lead to objects or to stop visits objects, and
\* at least one if it does not stop at once.
LEMMA TrailType ==
  ASSUME NEW f, IsFiniteSet(DOMAIN f), NEW stop, NEW start \in DOMAIN f \cup {stop},
         \A x \in DOMAIN f : f[x] \in DOMAIN f \cup {stop}
  PROVE  /\ Trail(f, start, stop) \in Seq(DOMAIN f)
         /\ start # stop => Trail(f, start, stop) # <<>>
<1> DEFINE D == Seq(DOMAIN f)
           step == [s \in D |-> Turn(f, start, stop, s)]
           eqn(g) == g = [k \in Nat |-> IF k = 0 THEN <<>> ELSE Turn(f, start, stop, g[k - 1])]
           walk == CHOOSE g : eqn(g)
           n == Cardinality(DOMAIN f)
<1>1. ASSUME NEW s \in D
      PROVE  /\ Turn(f, start, stop, s) \in D
             /\ start # stop => Turn(f, start, stop, s) # <<>>
  <2> DEFINE x == IF s = <<>> THEN start ELSE f[Last(s)]
  <2>1. x \in DOMAIN f \cup {stop}
    <3>1. s # <<>> => Last(s) \in DOMAIN f
      BY DEF Last
    <3> QED
      BY <3>1
  <2>2. Turn(f, start, stop, s) = IF x = stop \/ Contains(s, x) THEN s ELSE Append(s, x)
    BY DEF Turn
  <2>3. s = <<>> => ~Contains(s, x) /\ x = start
    BY DEF Contains
  <2> HIDE DEF x
  <2>4. x # stop => Append(s, x) \in D /\ Append(s, x) # <<>>
    BY <2>1
  <2> QED
    BY <2>2, <2>3, <2>4
<1>2. step \in [D -> D] /\ <<>> \in D
  BY <1>1
<1>3. PICK g \in [Nat -> D] : g[0] = <<>> /\ \A k \in Nat : g[k + 1] = step[g[k]]
  <2> HIDE DEF step, D
  <2> QED
    BY <1>2, IterationExists
<1>4. eqn(g)
  <2>1. ASSUME NEW k \in Nat
        PROVE  g[k] = IF k = 0 THEN <<>> ELSE Turn(f, start, stop, g[k - 1])
    <3>1. CASE k = 0
      BY <1>3, <3>1
    <3>2. CASE k # 0
      <4>1. k - 1 \in Nat /\ (k - 1) + 1 = k /\ g[k - 1] \in D
        BY <1>3, <3>2
      <4>2. g[k] = step[g[k - 1]]
        BY <1>3, <4>1
      <4> QED
        BY <3>2, <4>1, <4>2
    <3> QED
      BY <3>1, <3>2
  <2>2. g = [k \in Nat |-> g[k]]
    BY <1>3
  <2> QED
    BY <2>1, <2>2
<1>5. eqn(walk)
  BY <1>4, Zenon
<1>6. Trail(f, start, stop) = walk[n]
  BY Zenon DEF Trail, Turn
<1> HIDE DEF walk
<1> DEFINE S == {k \in Nat : walk[k] \in D /\ (k > 0 /\ start # stop => walk[k] # <<>>)}
<1>7. 0 \in S
  BY <1>5
<1>8. ASSUME NEW k \in S PROVE k + 1 \in S
  <2>1. k \in Nat /\ k + 1 \in Nat \ {0} /\ (k + 1) - 1 = k /\ walk[k] \in D
    OBVIOUS
  <2>2. walk[k + 1] = Turn(f, start, stop, walk[k])
    BY <1>5, <2>1
  <2> QED
    BY <1>1, <2>1, <2>2
<1>9. S \in SUBSET Nat
  OBVIOUS
<1> HIDE DEF S
<1>10. S = Nat
  BY <1>7, <1>8, <1>9, InductionNat
<1>11. n \in Nat /\ (start # stop => n > 0)
  <2>1. n \in Nat /\ (n = 0 <=> DOMAIN f = {})
    BY FS_CardinalityType, FS_EmptySet
  <2> QED
    BY <2>1
<1> HIDE DEF n
<1> QED
  BY <1>6, <1>10, <1>11 DEF S

----------------------------------------------------------------------------
\* RemoveAt closes the gap.
LEMMA RemoveAtIs ==
  ASSUME NEW S, NEW q \in Seq(S), NEW p \in 1 .. Len(q)
  PROVE  /\ RemoveAt(q, p) \in Seq(S) /\ Len(RemoveAt(q, p)) = Len(q) - 1
         /\ \A i \in 1 .. Len(q) - 1 : RemoveAt(q, p)[i] = IF i < p THEN q[i] ELSE q[i + 1]
<1>0. Len(q) \in Nat /\ p \in Nat /\ 1 <= p /\ p <= Len(q)
  OBVIOUS
<1> DEFINE u == SubSeq(q, 1, p - 1)
           v == SubSeq(q, p + 1, Len(q))
<1>1. RemoveAt(q, p) = u \o v
  BY DEF RemoveAt
<1>2. u \in Seq(S) /\ Len(u) = p - 1 /\ \A i \in 1 .. p - 1 : u[i] = q[i]
  BY <1>0
<1>3. v \in Seq(S) /\ Len(v) = Len(q) - p /\ \A i \in 1 .. Len(q) - p : v[i] = q[p + i]
  BY <1>0
<1> HIDE DEF u, v
<1>4. u \o v \in Seq(S) /\ Len(u \o v) = Len(q) - 1
  <2>1. u \in Seq(S) /\ v \in Seq(S)
    BY <1>2, <1>3
  <2>2. u \o v \in Seq(S) /\ Len(u \o v) = Len(u) + Len(v)
    BY ONLY <2>1, ConcatProperties
  <2> QED
    BY <1>0, <1>2, <1>3, <2>2
<1>5. ASSUME NEW i \in 1 .. Len(q) - 1
      PROVE  (u \o v)[i] = IF i < p THEN q[i] ELSE q[i + 1]
  <2>1. CASE i < p
    BY <1>0, <1>2, <1>3, <2>1
  <2>2. CASE ~(i < p)
    <3>1. i - (p - 1) \in 1 .. Len(q) - p /\ p + (i - (p - 1)) = i + 1
      BY <1>0, <2>2
    <3>2. (u \o v)[i] = v[i - (p - 1)]
      BY <1>0, <1>2, <1>3, <2>2
    <3> QED
      BY <1>3, <2>2, <3>1, <3>2
  <2> QED
    BY <2>1, <2>2
<1> QED
  BY <1>1, <1>4, <1>5

\* RemoveFirst removes where the element is met first.
LEMMA RemoveFirstIs ==
  ASSUME NEW S, NEW q \in Seq(S), NEW e, NEW p \in 1 .. Len(q), q[p] = e,
         \A j \in 1 .. p - 1 : q[j] # e
  PROVE  Contains(q, e) /\ RemoveFirst(q, e) = RemoveAt(q, p)
<1>1. Contains(q, e)
  BY DEF Contains
<1> DEFINE I == {i \in 1 .. Len(q) : q[i] = e}
<1>2. p \in I /\ \A j \in I : p <= j
  OBVIOUS
<1>3. Min(I) = p
  <2>1. \A x \in I : (\A y \in I : x <= y) => x = p
    BY <1>2
  <2> HIDE DEF I
  <2> QED
    BY <1>2, <2>1 DEF Min
<1>4. SelectInSeq(q, LAMBDA v : v = e) = p
  BY <1>2, <1>3 DEF SelectInSeq
<1> QED
  BY <1>1, <1>4 DEF RemoveFirst, Contains

\* What the loop that compares elements finds.
LEMMA FirstAtIs ==
  ASSUME NEW element, NEW S, NEW t \in Seq(S), NEW e
  PROVE  LET k == FirstAt(element, t, e)
         IN  \/ k = 0 /\ \A i \in 1 .. Len(t) : element[t[i]] # e
             \/ /\ k \in 1 .. Len(t) /\ element[t[k]] = e
                /\ \A j \in 1 .. k - 1 : element[t[j]] # e
<1> DEFINE K == {k \in DOMAIN t : element[t[k]] = e}
<1>1. FirstAt(element, t, e) = IF K = {} THEN 0 ELSE CHOOSE k \in K : \A j \in K : k <= j
  BY DEF FirstAt
<1>2. DOMAIN t = 1 .. Len(t) /\ Len(t) \in Nat
  OBVIOUS
<1>3. CASE K = {}
  BY <1>1, <1>2, <1>3
<1>4. CASE K # {}
  <2>1. K \in SUBSET Nat
    BY <1>2
  <2> HIDE DEF K
  <2>2. \E k \in K : \A j \in K : k <= j
    BY <1>4, <2>1, LeastNat
  <2> DEFINE f == CHOOSE k \in K : \A j \in K : k <= j
  <2>3. f \in K /\ \A j \in K : f <= j
    BY <2>2
  <2>4. FirstAt(element, t, e) = f
    BY <1>1, <1>4
  <2> HIDE DEF f
  <2>5. f \in 1 .. Len(t) /\ element[t[f]] = e
    BY <1>2, <2>3 DEF K
  <2>6. ASSUME NEW j \in 1 .. f - 1 PROVE element[t[j]] # e
    BY <1>2, <2>3, <2>5 DEF K
  <2> QED
    BY <2>4, <2>5, <2>6
<1> QED
  BY <1>3, <1>4

----------------------------------------------------------------------------
\* The nodes of t, and no others, are in use; they hold the elements of q.
Holds(element, q, t) ==
    /\ t \in Seq(ListNodes) /\ q \in Seq(Elems) /\ Len(q) = Len(t)
    /\ element \in [ListNodes -> Elems \cup {NoElem}]
    /\ \A i, j \in 1 .. Len(t) : t[i] = t[j] => i = j
    /\ \A i \in 1 .. Len(t) : element[t[i]] = q[i]
    /\ \A n \in ListNodes : element[n] # NoElem => \E i \in 1 .. Len(t) : t[i] = n

\* A new node at the end.
LEMMA HoldsAdd ==
  ASSUME NEW element, NEW q, NEW t, Holds(element, q, t),
         NEW n \in ListNodes, element[n] = NoElem, NEW e \in Elems
  PROVE  /\ Holds([element EXCEPT ![n] = e], Append(q, e), Append(t, n))
         /\ \A i \in 1 .. Len(t) : t[i] # n
<1> USE DEF Holds
<1>1. e # NoElem /\ \A i \in 1 .. Len(t) : q[i] # NoElem /\ q[i] \in Elems /\ t[i] \in ListNodes
  BY ListsAssumption DEF NoElem
<1>2. \A i \in 1 .. Len(t) : t[i] # n
  BY <1>1
<1> DEFINE u == Append(t, n)
           r == Append(q, e)
           el == [element EXCEPT ![n] = e]
<1>3. /\ u \in Seq(ListNodes) /\ r \in Seq(Elems) /\ Len(u) = Len(t) + 1 /\ Len(r) = Len(u)
      /\ Len(t) \in Nat
      /\ u[Len(t) + 1] = n /\ r[Len(t) + 1] = e
      /\ \A i \in 1 .. Len(t) : u[i] = t[i] /\ r[i] = q[i]
  OBVIOUS
<1>4. el \in [ListNodes -> Elems \cup {NoElem}] /\ el[n] = e
      /\ \A m \in ListNodes : m # n => el[m] = element[m]
  OBVIOUS
<1> HIDE DEF u, r, el
<1>5. ASSUME NEW i \in 1 .. Len(u), NEW j \in 1 .. Len(u), u[i] = u[j] PROVE i = j
  BY <1>2, <1>3, <1>5
<1>6. ASSUME NEW i \in 1 .. Len(u) PROVE el[u[i]] = r[i]
  <2>1. CASE i = Len(t) + 1
    BY <1>3, <1>4, <2>1
  <2>2. CASE i # Len(t) + 1
    <3>1. i \in 1 .. Len(t)
      BY <1>3, <2>2
    <3> QED
      BY <1>1, <1>2, <1>3, <1>4, <3>1
  <2> QED
    BY <2>1, <2>2
<1>7. ASSUME NEW m \in ListNodes, el[m] # NoElem PROVE \E i \in 1 .. Len(u) : u[i] = m
  <2>1. CASE m = n
    BY <1>3, <2>1
  <2>2. CASE m # n
    <3>1. PICK i \in 1 .. Len(t) : t[i] = m
      BY <1>4, <1>7, <2>2
    <3> QED
      BY <1>3, <3>1
  <2> QED
    BY <2>1, <2>2
<1>8. Holds(el, r, u)
  BY <1>3, <1>4, <1>5, <1>6, <1>7
<1> QED
  BY <1>2, <1>8 DEF u, r, el

\* A node less.
LEMMA HoldsRemove ==
  ASSUME NEW element, NEW q, NEW t, Holds(element, q, t), NEW k \in 1 .. Len(t)
  PROVE  Holds([element EXCEPT ![t[k]] = NoElem], RemoveAt(q, k), RemoveAt(t, k))
<1> USE DEF Holds
<1> DEFINE u == RemoveAt(t, k)
           r == RemoveAt(q, k)
           el == [element EXCEPT ![t[k]] = NoElem]
<1>1. /\ Len(t) \in Nat /\ k \in Nat /\ 1 <= k /\ k <= Len(t)
      /\ u \in Seq(ListNodes) /\ r \in Seq(Elems) /\ Len(u) = Len(t) - 1 /\ Len(r) = Len(u)
      /\ \A i \in 1 .. Len(u) : /\ u[i] = IF i < k THEN t[i] ELSE t[i + 1]
                                /\ r[i] = IF i < k THEN q[i] ELSE q[i + 1]
  <2>0. t \in Seq(ListNodes) /\ q \in Seq(Elems) /\ k \in 1 .. Len(t) /\ k \in 1 .. Len(q)
    OBVIOUS
  <2>1. /\ u \in Seq(ListNodes) /\ Len(u) = Len(t) - 1
        /\ \A i \in 1 .. Len(t) - 1 : u[i] = IF i < k THEN t[i] ELSE t[i + 1]
    BY ONLY <2>0, RemoveAtIs
  <2>2. /\ r \in Seq(Elems) /\ Len(r) = Len(q) - 1
        /\ \A i \in 1 .. Len(q) - 1 : r[i] = IF i < k THEN q[i] ELSE q[i + 1]
    BY ONLY <2>0, RemoveAtIs
  <2>3. Len(t) \in Nat /\ Len(q) = Len(t) /\ k \in Nat /\ 1 <= k /\ k <= Len(t)
    OBVIOUS
  <2> HIDE DEF u, r
  <2> QED
    BY ONLY <2>1, <2>2, <2>3
<1>2. t[k] \in ListNodes
  BY <1>1
<1>3. /\ el \in [ListNodes -> Elems \cup {NoElem}] /\ el[t[k]] = NoElem
      /\ \A m \in ListNodes : m # t[k] => el[m] = element[m]
  BY <1>2
<1> HIDE DEF u, r, el
<1>4. ASSUME NEW i \in 1 .. Len(u)
      PROVE  \E h \in 1 .. Len(t) : /\ h # k /\ h = (IF i < k THEN i ELSE i + 1)
                                    /\ u[i] = t[h] /\ r[i] = q[h]
  <2>1. CASE i < k
    BY <1>1, <2>1
  <2>2. CASE ~(i < k)
    BY <1>1, <2>2
  <2> QED
    BY <2>1, <2>2
<1>5. ASSUME NEW i \in 1 .. Len(u), NEW j \in 1 .. Len(u), u[i] = u[j] PROVE i = j
  <2>1. PICK g \in 1 .. Len(t) : g = (IF i < k THEN i ELSE i + 1) /\ u[i] = t[g]
    BY <1>4
  <2>2. PICK h \in 1 .. Len(t) : h = (IF j < k THEN j ELSE j + 1) /\ u[j] = t[h]
    BY <1>4
  <2>3. t[g] = t[h]
    BY <1>5, <2>1, <2>2
  <2>4. g = h
    BY <2>3
  <2> QED
    BY <1>1, <2>1, <2>2, <2>4
<1>6. ASSUME NEW i \in 1 .. Len(u) PROVE el[u[i]] = r[i]
  <2>1. PICK h \in 1 .. Len(t) : h # k /\ u[i] = t[h] /\ r[i] = q[h]
    BY <1>4
  <2>2. t[h] # t[k] /\ t[h] \in ListNodes
    BY <1>1, <2>1
  <2> QED
    BY <1>3, <2>1, <2>2
<1>7. ASSUME NEW m \in ListNodes, el[m] # NoElem PROVE \E i \in 1 .. Len(u) : u[i] = m
  <2>1. m # t[k]
    BY <1>3, <1>7
  <2>2. PICK h \in 1 .. Len(t) : t[h] = m
    BY <1>3, <1>7, <2>1
  <2>3. CASE h < k
    <3>1. h \in 1 .. Len(u) /\ h < k
      BY <1>1, <2>3
    <3>2. u[h] = m
      BY <1>1, <2>2, <3>1
    <3> QED
      BY <3>1, <3>2
  <2>4. CASE h > k
    <3>1. h - 1 \in 1 .. Len(u) /\ ~(h - 1 < k) /\ (h - 1) + 1 = h
      BY <1>1, <2>4
    <3>2. u[h - 1] = m
      BY <1>1, <2>2, <3>1
    <3> QED
      BY <3>1, <3>2
  <2> QED
    BY <1>1, <2>1, <2>2, <2>3, <2>4
<1>8. Holds(el, r, u)
  BY <1>1, <1>3, <1>5, <1>6, <1>7
<1> QED
  BY <1>8 DEF u, r, el

----------------------------------------------------------------------------
\* A llist with the nodes t that hold q; nodes not in use are zeroed.
Linear(head, element, next, q, t) ==
    /\ Holds(element, q, t)
    /\ next \in [ListNodes -> ListNodes \cup {NULL}]
    /\ \A n \in ListNodes : element[n] = NoElem => next[n] = NULL
    /\ t = <<>> => head = NULL
    /\ t # <<>> => head = t[1]
    /\ \A i \in 1 .. Len(t) : next[t[i]] = IF i < Len(t) THEN t[i + 1] ELSE NULL

\* No node is at NULL.
LEMMA NodesNotNull == \A n \in ListNodes : n # NULL /\ n \in Nat
BY ListsAssumption DEF NULL

\* The loops over a llist meet its nodes.
LEMMA LinearTrail ==
  ASSUME NEW head, NEW element, NEW next, NEW q, NEW t, Linear(head, element, next, q, t)
  PROVE  Trail(next, head, NULL) = t
<1> USE DEF Linear, Holds
<1>1. Len(t) \in Nat /\ DOMAIN t = 1 .. Len(t) /\ DOMAIN next = ListNodes /\ t \in Seq(ListNodes)
  OBVIOUS
<1>2. \A i \in 1 .. Len(t) : t[i] \in ListNodes
  BY <1>1
<1>3. t # <<>> => Len(t) \in 1 .. Len(t) /\ 1 \in 1 .. Len(t)
  BY <1>1
<1>4. Chain(next, head, NULL, t)
  BY <1>1, <1>2, <1>3, NodesNotNull DEF Chain
<1> QED
  BY <1>1, <1>4, TrailIs, ListsAssumption

\* llist_add links the new node to the last one, or to the head.
LEMMA LinearAdd ==
  ASSUME NEW head, NEW element, NEW next, NEW q, NEW t, Linear(head, element, next, q, t),
         NEW n \in ListNodes, element[n] = NoElem, NEW e \in Elems
  PROVE  Linear(IF head = NULL THEN n ELSE head, [element EXCEPT ![n] = e],
                IF head = NULL THEN next ELSE [next EXCEPT ![Last(t)] = n],
                Append(q, e), Append(t, n))
<1> DEFINE el == [element EXCEPT ![n] = e]
           nx == IF head = NULL THEN next ELSE [next EXCEPT ![Last(t)] = n]
           u == Append(t, n)
           hd == IF head = NULL THEN n ELSE head
<1>0. /\ Holds(element, q, t) /\ next \in [ListNodes -> ListNodes \cup {NULL}] /\ next[n] = NULL
      /\ t \in Seq(ListNodes) /\ Len(t) \in Nat /\ element \in [ListNodes -> Elems \cup {NoElem}]
  BY DEF Linear, Holds
<1>1. Holds(el, Append(q, e), u) /\ \A i \in 1 .. Len(t) : t[i] # n /\ t[i] \in ListNodes
  <2>1. Holds(el, Append(q, e), u) /\ \A i \in 1 .. Len(t) : t[i] # n
    BY <1>0, HoldsAdd
  <2>2. \A i \in 1 .. Len(t) : t[i] \in ListNodes
    BY <1>0
  <2> QED
    BY <2>1, <2>2
<1>2. /\ u # <<>> /\ Len(u) = Len(t) + 1 /\ u[Len(t) + 1] = n
      /\ \A i \in 1 .. Len(t) : u[i] = t[i]
  BY <1>0
<1>3. \A m \in ListNodes : m # n => el[m] = element[m]
  BY <1>0
<1>4. el[n] # NoElem
  BY <1>0, ListsAssumption DEF NoElem
<1>5. CASE t = <<>>
  <2>1. head = NULL /\ Len(t) = 0 /\ nx = next /\ hd = n
    BY <1>5 DEF Linear
  <2>2. \A i \in 1 .. Len(u) : nx[u[i]] = IF i < Len(u) THEN u[i + 1] ELSE NULL
    BY <1>0, <1>2, <2>1
  <2>3. \A m \in ListNodes : el[m] = NoElem => nx[m] = NULL
    BY <1>3, <1>4, <2>1 DEF Linear
  <2> HIDE DEF u, el, nx, hd
  <2>4. Linear(hd, el, nx, Append(q, e), u)
    BY <1>0, <1>1, <1>2, <2>1, <2>2, <2>3 DEF Linear
  <2> QED
    BY <2>4 DEF u, el, nx, hd
<1>6. CASE t # <<>>
  <2>1. Len(t) \in 1 .. Len(t) /\ 1 \in 1 .. Len(t) /\ head = t[1] /\ Last(t) = t[Len(t)]
    BY <1>0, <1>6 DEF Linear, Last
  <2>2. head # NULL /\ hd = t[1] /\ t[Len(t)] \in ListNodes
    BY <1>1, <2>1, NodesNotNull
  <2>3. /\ nx \in [ListNodes -> ListNodes \cup {NULL}] /\ nx[t[Len(t)]] = n
        /\ \A m \in ListNodes : m # t[Len(t)] => nx[m] = next[m]
    BY <1>0, <2>1, <2>2
  <2> HIDE DEF u, el, nx, hd
  <2>4. ASSUME NEW i \in 1 .. Len(u) PROVE nx[u[i]] = IF i < Len(u) THEN u[i + 1] ELSE NULL
    <3>1. CASE i = Len(t) + 1
      BY <1>0, <1>1, <1>2, <2>1, <2>3, <3>1
    <3>2. CASE i = Len(t)
      BY <1>0, <1>2, <2>1, <2>3, <3>2
    <3>3. CASE i < Len(t)
      <4>1. i \in 1 .. Len(t) /\ i + 1 \in 1 .. Len(t) /\ i # Len(t) /\ i < Len(u)
        BY <1>0, <1>2, <3>3
      <4>2. t[i] # t[Len(t)] /\ t[i] \in ListNodes
        BY <1>0, <1>1, <2>1, <4>1 DEF Holds
      <4>3. next[t[i]] = t[i + 1]
        BY <3>3, <4>1 DEF Linear
      <4> QED
        BY <1>2, <2>3, <4>1, <4>2, <4>3
    <3> QED
      BY <1>0, <1>2, <3>1, <3>2, <3>3
  <2>5. ASSUME NEW m \in ListNodes, el[m] = NoElem PROVE nx[m] = NULL
    <3>1. m # n /\ element[m] = NoElem
      BY <1>3, <1>4, <2>5
    <3>2. m # t[Len(t)]
      <4>1. element[t[Len(t)]] = q[Len(t)] /\ q[Len(t)] \in Elems
        BY <1>0, <2>1 DEF Holds
      <4> QED
        BY <3>1, <4>1, ListsAssumption DEF NoElem
    <3> QED
      BY <2>3, <3>1, <3>2 DEF Linear
  <2>6. u[1] = t[1]
    BY <1>2, <2>1
  <2>7. Linear(hd, el, nx, Append(q, e), u)
    BY <1>1, <1>2, <2>2, <2>3, <2>4, <2>5, <2>6 DEF Linear
  <2> QED
    BY <2>7 DEF u, el, nx, hd
<1> QED
  BY <1>5, <1>6

\* The places of the nodes that stay, when the k-th of a sequence leaves it.
Place(k, i) == IF i < k THEN i ELSE i + 1

\* The sequence without its k-th node, and where each of its nodes was.
LEMMA Remaining ==
  ASSUME NEW t \in Seq(ListNodes), NEW k \in 1 .. Len(t)
  PROVE  /\ RemoveAt(t, k) \in Seq(ListNodes) /\ Len(RemoveAt(t, k)) = Len(t) - 1
         /\ \A i \in 1 .. Len(t) - 1 :
               /\ Place(k, i) \in 1 .. Len(t) /\ Place(k, i) # k
               /\ RemoveAt(t, k)[i] = t[Place(k, i)]
<1> DEFINE u == RemoveAt(t, k)
<1>1. /\ u \in Seq(ListNodes) /\ Len(u) = Len(t) - 1
      /\ \A i \in 1 .. Len(t) - 1 : u[i] = IF i < k THEN t[i] ELSE t[i + 1]
  BY RemoveAtIs
<1>2. Len(t) \in Nat
  OBVIOUS
<1> HIDE DEF u
<1>3. ASSUME NEW i \in 1 .. Len(t) - 1
      PROVE  Place(k, i) \in 1 .. Len(t) /\ Place(k, i) # k /\ u[i] = t[Place(k, i)]
  BY <1>1, <1>2 DEF Place
<1> QED
  BY <1>1, <1>3 DEF u

\* Unlink takes the k-th node out.
LEMMA LinearRemove ==
  ASSUME NEW head, NEW element, NEW next, NEW q, NEW t, Linear(head, element, next, q, t),
         NEW k \in 1 .. Len(t)
  PROVE  Linear(IF k = 1 THEN next[head] ELSE head, [element EXCEPT ![t[k]] = NoElem],
                [IF k = 1 THEN next ELSE [next EXCEPT ![t[k - 1]] = next[t[k]]] EXCEPT ![t[k]] = NULL],
                RemoveAt(q, k), RemoveAt(t, k))
<1> DEFINE el == [element EXCEPT ![t[k]] = NoElem]
           mid == IF k = 1 THEN next ELSE [next EXCEPT ![t[k - 1]] = next[t[k]]]
           nx == [mid EXCEPT ![t[k]] = NULL]
           u == RemoveAt(t, k)
           hd == IF k = 1 THEN next[head] ELSE head
<1>0. /\ Holds(element, q, t) /\ next \in [ListNodes -> ListNodes \cup {NULL}]
      /\ t \in Seq(ListNodes) /\ Len(t) \in Nat /\ element \in [ListNodes -> Elems \cup {NoElem}]
      /\ k \in Nat /\ 1 <= k /\ k <= Len(t)
  BY DEF Linear, Holds
<1>1. Holds(el, RemoveAt(q, k), u)
  BY <1>0, HoldsRemove
<1>2. /\ u \in Seq(ListNodes) /\ Len(u) = Len(t) - 1
      /\ \A i \in 1 .. Len(t) - 1 :
            Place(k, i) \in 1 .. Len(t) /\ Place(k, i) # k /\ u[i] = t[Place(k, i)]
  BY <1>0, Remaining
<1>3. /\ \A i \in 1 .. Len(t) : t[i] \in ListNodes
      /\ \A i, j \in 1 .. Len(t) : t[i] = t[j] => i = j
      /\ \A i \in 1 .. Len(t) : next[t[i]] = IF i < Len(t) THEN t[i + 1] ELSE NULL
  <2>1. \A i \in 1 .. Len(t) : t[i] \in ListNodes
    BY <1>0
  <2> QED
    BY <2>1 DEF Linear, Holds
<1>4. /\ mid \in [ListNodes -> ListNodes \cup {NULL}]
      /\ \A i \in 1 .. Len(t) : i # k - 1 => mid[t[i]] = next[t[i]]
      /\ k > 1 => mid[t[k - 1]] = next[t[k]]
      /\ \A m \in ListNodes : mid[m] = next[m] \/ (k > 1 /\ m = t[k - 1])
  <2>1. CASE k = 1
    BY <1>0, <2>1
  <2>2. CASE k # 1
    <3>1. k - 1 \in 1 .. Len(t) /\ t[k - 1] \in ListNodes /\ next[t[k]] \in ListNodes \cup {NULL}
      BY <1>0, <1>3, <2>2
    <3>2. mid = [next EXCEPT ![t[k - 1]] = next[t[k]]]
      BY <2>2
    <3> HIDE DEF mid
    <3>3. /\ mid \in [ListNodes -> ListNodes \cup {NULL}] /\ mid[t[k - 1]] = next[t[k]]
          /\ \A m \in ListNodes : m # t[k - 1] => mid[m] = next[m]
      BY <1>0, <3>1, <3>2
    <3>4. \A i \in 1 .. Len(t) : i # k - 1 => t[i] # t[k - 1] /\ t[i] \in ListNodes
      BY <1>3, <3>1
    <3>5. k > 1
      BY <1>0, <2>2
    <3> QED
      BY <3>3, <3>4, <3>5
  <2> QED
    BY <2>1, <2>2
<1> HIDE DEF mid
<1>5. /\ nx \in [ListNodes -> ListNodes \cup {NULL}] /\ nx[t[k]] = NULL
      /\ \A m \in ListNodes : m # t[k] => nx[m] = mid[m]
  BY <1>3, <1>4
<1>6. \A m \in ListNodes : m # t[k] => el[m] = element[m]
  BY <1>0
<1>7. u = <<>> => hd = NULL
  <2> SUFFICES ASSUME u = <<>> PROVE hd = NULL
    OBVIOUS
  <2>1. Len(t) = 1 /\ k = 1
    <3>1. Len(u) = 0
      OBVIOUS
    <3>2. Len(u) = Len(t) - 1
      BY <1>2
    <3>3. \A n \in Nat : \A j \in 1 .. n : n - 1 = 0 => n = 1 /\ j = 1
      OBVIOUS
    <3>4. Len(t) - 1 = 0
      BY <3>1, <3>2
    <3> QED
      BY <1>0, <3>3, <3>4, Zenon
  <2>2. t # <<>>
    <3> SUFFICES ASSUME t = <<>> PROVE FALSE
      OBVIOUS
    <3>1. Len(t) = 0
      OBVIOUS
    <3> QED
      BY ONLY <2>1, <3>1
  <2>3. head = t[1]
    BY <2>2 DEF Linear
  <2> QED
    BY <1>3, <2>1, <2>3
<1>8. u # <<>> => hd = u[1]
  <2> SUFFICES ASSUME u # <<>> PROVE hd = u[1]
    OBVIOUS
  <2>0. Len(u) \in Nat /\ Len(u) # 0
    <3> HIDE DEF u
    <3> QED
      BY <1>2
  <2>1. Len(t) > 1 /\ head = t[1] /\ 1 \in 1 .. Len(t) - 1 /\ 1 \in 1 .. Len(t)
    BY <1>0, <1>2, <2>0 DEF Linear
  <2>2. u[1] = IF k = 1 THEN t[2] ELSE t[1]
    BY <1>0, <1>2, <2>1 DEF Place
  <2>3. next[t[1]] = t[2]
    BY <1>0, <1>3, <2>1
  <2> QED
    BY <2>1, <2>2, <2>3
<1> HIDE DEF u, nx, el, hd
<1>9. ASSUME NEW i \in 1 .. Len(u) PROVE nx[u[i]] = IF i < Len(u) THEN u[i + 1] ELSE NULL
  <2> DEFINE p == Place(k, i)
  <2>1. p \in 1 .. Len(t) /\ p # k /\ u[i] = t[p]
    BY <1>2
  <2>2. t[p] # t[k] /\ t[p] \in ListNodes
    BY <1>0, <1>3, <2>1
  <2>3. nx[t[p]] = mid[t[p]]
    BY <1>5, <2>2
  <2>4. i < Len(u) => i + 1 \in 1 .. Len(t) - 1 /\ u[i + 1] = t[Place(k, i + 1)]
    BY <1>0, <1>2
  <2>5. CASE p = k - 1
    <3>1. i = k - 1 /\ k > 1
      BY <1>0, <1>2, <2>5 DEF Place
    <3>2. mid[t[p]] = next[t[k]] /\ Place(k, i + 1) = k + 1
      BY <1>0, <1>4, <2>5, <3>1 DEF Place
    <3>3. next[t[k]] = IF k < Len(t) THEN t[k + 1] ELSE NULL
      BY <1>3
    <3>4. i < Len(u) <=> k < Len(t)
      BY <1>0, <1>2, <3>1
    <3> QED
      BY <2>1, <2>3, <2>4, <3>2, <3>3, <3>4
  <2>6. CASE p # k - 1
    <3>1. mid[t[p]] = IF p < Len(t) THEN t[p + 1] ELSE NULL
      BY <1>3, <1>4, <2>1, <2>6
    <3>2. p + 1 = Place(k, i + 1)
      BY <1>0, <1>2, <2>6 DEF Place
    <3>3. i < Len(u) <=> p < Len(t)
      BY <1>0, <1>2, <2>6 DEF Place
    <3> QED
      BY <2>1, <2>3, <2>4, <3>1, <3>2, <3>3
  <2> QED
    BY <2>5, <2>6
<1>10. ASSUME NEW m \in ListNodes, el[m] = NoElem PROVE nx[m] = NULL
  <2>1. CASE m = t[k]
    BY <1>5, <2>1
  <2>2. CASE m # t[k]
    <3>1. element[m] = NoElem /\ nx[m] = mid[m]
      BY <1>5, <1>6, <1>10, <2>2
    <3>2. next[m] = NULL
      BY <3>1 DEF Linear
    <3>3. ASSUME k > 1, m = t[k - 1] PROVE FALSE
      <4>1. k - 1 \in 1 .. Len(t)
        BY <1>0, <3>3
      <4>2. element[m] = q[k - 1] /\ q[k - 1] \in Elems
        BY <1>0, <3>3, <4>1 DEF Holds
      <4> QED
        BY <3>1, <4>2, ListsAssumption DEF NoElem
    <3> QED
      BY <1>4, <3>1, <3>2, <3>3
  <2> QED
    BY <2>1, <2>2
<1>11. Linear(hd, el, nx, RemoveAt(q, k), u)
  BY <1>1, <1>5, <1>7, <1>8, <1>9, <1>10 DEF Linear
<1> QED
  BY <1>11 DEF u, nx, el, hd, mid

----------------------------------------------------------------------------
\* The place behind the i-th on a ring of n.
Behind(n, i) == IF i = n THEN 1 ELSE i + 1

\* A c_llist with the nodes t that hold q.
Circular(head, element, prev, next, q, t) ==
    /\ Holds(element, q, t)
    /\ next \in [ListNodes -> ListNodes \cup {NULL}]
    /\ prev \in [ListNodes -> ListNodes \cup {NULL}]
    /\ t = <<>> => head = NULL
    /\ t # <<>> => head = t[1]
    /\ \A i \in 1 .. Len(t) : /\ next[t[i]] = t[Behind(Len(t), i)]
                              /\ prev[t[Behind(Len(t), i)]] = t[i]

\* The loop that begins behind the head meets all other nodes.
LEMMA CircularTrail ==
  ASSUME NEW head, NEW element, NEW prev, NEW next, NEW q, NEW t,
         Circular(head, element, prev, next, q, t), t # <<>>
  PROVE  <<head>> \o Trail(next, next[head], head) = t
<1> DEFINE n == Len(t)
           u == [i \in 1 .. n - 1 |-> t[i + 1]]
<1>0. /\ n \in Nat /\ n >= 1 /\ t \in Seq(ListNodes) /\ DOMAIN next = ListNodes
      /\ t \in [1 .. n -> ListNodes]
      /\ head = t[1]
      /\ \A i, j \in 1 .. n : t[i] = t[j] => i = j
      /\ \A i \in 1 .. n : next[t[i]] = t[Behind(n, i)]
  BY DEF Circular, Holds
<1> HIDE DEF n
<1>1. /\ u \in Seq(ListNodes) /\ Len(u) = n - 1 /\ DOMAIN u = 1 .. n - 1
      /\ \A i \in 1 .. n - 1 : u[i] = t[i + 1]
  <2>1. \A i \in 1 .. n - 1 : t[i + 1] \in ListNodes
    BY <1>0
  <2> QED
    BY <1>0, <2>1
<1> HIDE DEF u
<1>2. \A i, j \in 1 .. n - 1 : u[i] = u[j] => i = j
  <2> SUFFICES ASSUME NEW i \in 1 .. n - 1, NEW j \in 1 .. n - 1, u[i] = u[j] PROVE i = j
    OBVIOUS
  <2>1. i + 1 \in 1 .. n /\ j + 1 \in 1 .. n /\ t[i + 1] = t[j + 1]
    BY <1>0, <1>1
  <2>2. i + 1 = j + 1
    BY <1>0, <2>1
  <2> QED
    BY <2>2
<1>3. \A i \in 1 .. n - 1 : u[i] # head
  <2> SUFFICES ASSUME NEW i \in 1 .. n - 1, u[i] = head PROVE FALSE
    OBVIOUS
  <2>1. i + 1 \in 1 .. n /\ 1 \in 1 .. n /\ t[i + 1] = t[1]
    BY <1>0, <1>1
  <2>2. i + 1 = 1
    BY <1>0, <2>1
  <2> QED
    BY <2>2
<1>4. u = <<>> => next[head] = head
  <2> SUFFICES ASSUME u = <<>> PROVE next[head] = head
    OBVIOUS
  <2>1. Len(u) = 0
    OBVIOUS
  <2>2. n = 1
    BY <1>0, <1>1, <2>1
  <2> QED
    BY <1>0, <2>2 DEF Behind
<1>5. u # <<>> => u[1] = next[head] /\ next[u[Len(u)]] = head
  <2> SUFFICES ASSUME u # <<>> PROVE u[1] = next[head] /\ next[u[Len(u)]] = head
    OBVIOUS
  <2>1. Len(u) # 0
    BY <1>1
  <2>2. n > 1
    BY <1>0, <1>1, <2>1
  <2>3. u[1] = t[2] /\ u[n - 1] = t[n]
    BY <1>0, <1>1, <2>2
  <2>4. next[t[1]] = t[2] /\ next[t[n]] = t[1]
    BY <1>0, <2>2 DEF Behind
  <2> QED
    BY <1>0, <1>1, <2>3, <2>4
<1>6. \A i \in 1 .. Len(u) - 1 : next[u[i]] = u[i + 1]
  <2> SUFFICES ASSUME NEW i \in 1 .. Len(u) - 1 PROVE next[u[i]] = u[i + 1]
    OBVIOUS
  <2>0. n \in Nat /\ Len(u) = n - 1
    BY <1>0, <1>1
  <2>1. /\ i \in 1 .. n - 1 /\ i + 1 \in 1 .. n - 1 /\ i + 1 \in 1 .. n /\ i + 1 # n
        /\ Behind(n, i + 1) = (i + 1) + 1
    BY ONLY <2>0, i \in 1 .. Len(u) - 1 DEF Behind
  <2>2. u[i] = t[i + 1] /\ u[i + 1] = t[(i + 1) + 1]
    BY <1>1, <2>1
  <2>3. next[t[i + 1]] = t[(i + 1) + 1]
    BY <1>0, <2>1
  <2> QED
    BY <2>2, <2>3
<1>7. Chain(next, next[head], head, u)
  BY <1>0, <1>1, <1>2, <1>3, <1>4, <1>5, <1>6 DEF Chain
<1>8. Trail(next, next[head], head) = u
  BY <1>0, <1>7, TrailIs, ListsAssumption
<1>9. <<head>> \o u = t
  <2>1. head \in ListNodes
    BY <1>0
  <2>2. /\ <<head>> \o u \in Seq(ListNodes) /\ Len(<<head>> \o u) = n
        /\ \A i \in 1 .. n : (<<head>> \o u)[i] = IF i = 1 THEN head ELSE u[i - 1]
    <3>1. <<head>> \in Seq(ListNodes) /\ Len(<<head>>) = 1 /\ <<head>>[1] = head
      BY <2>1
    <3>2. u \in Seq(ListNodes)
      BY <1>1
    <3>3. /\ <<head>> \o u \in Seq(ListNodes) /\ Len(<<head>> \o u) = Len(<<head>>) + Len(u)
          /\ \A i \in 1 .. Len(<<head>>) + Len(u) :
               (<<head>> \o u)[i] = IF i <= Len(<<head>>) THEN <<head>>[i]
                                                          ELSE u[i - Len(<<head>>)]
      BY <3>1, <3>2, ConcatProperties
    <3> QED
      BY <1>0, <1>1, <3>1, <3>3
  <2>3. \A i \in 1 .. n : (<<head>> \o u)[i] = t[i]
    <3> SUFFICES ASSUME NEW i \in 1 .. n PROVE (<<head>> \o u)[i] = t[i]
      OBVIOUS
    <3>1. CASE i = 1
      BY <1>0, <2>2, <3>1
    <3>2. CASE i # 1
      <4>1. i - 1 \in 1 .. n - 1 /\ (i - 1) + 1 = i
        BY <1>0, <3>2
      <4> QED
        BY <1>1, <2>2, <3>2, <4>1
    <3> QED
      BY <3>1, <3>2
  <2>4. Len(t) = n
    BY DEF n
  <2> HIDE DEF n
  <2> DEFINE w == <<head>> \o u
  <2> HIDE DEF w
  <2>5. w \in Seq(ListNodes) /\ t \in Seq(ListNodes) /\ Len(w) = Len(t)
        /\ \A i \in 1 .. Len(t) : w[i] = t[i]
    BY <1>0, <2>2, <2>3, <2>4 DEF w
  <2>6. w = t
    BY ONLY <2>5, SeqEqual
  <2> QED
    BY <2>6 DEF w
<1> QED
  BY <1>8, <1>9

\* Facts that the steps on a ring share.
LEMMA CircularFacts ==
  ASSUME NEW head, NEW element, NEW prev, NEW next, NEW q, NEW t,
         Circular(head, element, prev, next, q, t)
  PROVE  /\ Holds(element, q, t) /\ t \in Seq(ListNodes) /\ Len(t) \in Nat
         /\ next \in [ListNodes -> ListNodes \cup {NULL}]
         /\ prev \in [ListNodes -> ListNodes \cup {NULL}]
         /\ \A i \in 1 .. Len(t) : t[i] \in ListNodes
         /\ \A i, j \in 1 .. Len(t) : t[i] = t[j] => i = j
         /\ \A i \in 1 .. Len(t) : /\ next[t[i]] = t[Behind(Len(t), i)]
                                   /\ prev[t[Behind(Len(t), i)]] = t[i]
         /\ Len(t) # 0 => head = t[1]
         /\ Len(t) = 0 => head = NULL
<1>1. t \in Seq(ListNodes)
  BY DEF Circular, Holds
<1>2. (t = <<>> <=> Len(t) = 0) /\ Len(t) \in Nat /\ \A i \in 1 .. Len(t) : t[i] \in ListNodes
  BY <1>1
<1> QED
  BY <1>1, <1>2 DEF Circular, Holds

\* c_llist_add links the new node between the last one and the head.
LEMMA CircularAdd ==
  ASSUME NEW head, NEW element, NEW prev, NEW next, NEW q, NEW t,
         Circular(head, element, prev, next, q, t),
         NEW n \in ListNodes, element[n] = NoElem, NEW e \in Elems
  PROVE  Circular(IF head = NULL THEN n ELSE head, [element EXCEPT ![n] = e],
                  IF head = NULL THEN [prev EXCEPT ![n] = n]
                  ELSE [prev EXCEPT ![n] = prev[head], ![head] = n],
                  IF head = NULL THEN [next EXCEPT ![n] = n]
                  ELSE [next EXCEPT ![prev[head]] = n, ![n] = head],
                  Append(q, e), Append(t, n))
<1> DEFINE el == [element EXCEPT ![n] = e]
           pv == IF head = NULL THEN [prev EXCEPT ![n] = n]
                 ELSE [prev EXCEPT ![n] = prev[head], ![head] = n]
           nx == IF head = NULL THEN [next EXCEPT ![n] = n]
                 ELSE [next EXCEPT ![prev[head]] = n, ![n] = head]
           u == Append(t, n)
           hd == IF head = NULL THEN n ELSE head
           L == Len(t)
<1>0. /\ Holds(element, q, t) /\ t \in Seq(ListNodes) /\ L \in Nat
      /\ next \in [ListNodes -> ListNodes \cup {NULL}]
      /\ prev \in [ListNodes -> ListNodes \cup {NULL}]
      /\ \A i \in 1 .. L : t[i] \in ListNodes
      /\ \A i, j \in 1 .. L : t[i] = t[j] => i = j
      /\ \A i \in 1 .. L : next[t[i]] = t[Behind(L, i)] /\ prev[t[Behind(L, i)]] = t[i]
      /\ L # 0 => head = t[1]
      /\ L = 0 => head = NULL
  BY CircularFacts
<1>1. Holds(el, Append(q, e), u) /\ \A i \in 1 .. L : t[i] # n
  BY <1>0, HoldsAdd
<1>2. /\ u # <<>> /\ Len(u) = L + 1 /\ u[L + 1] = n
      /\ \A i \in 1 .. L : u[i] = t[i]
  BY <1>0
<1> HIDE DEF L, u, el
<1>3. CASE L = 0
  <2>1. head = NULL /\ hd = n /\ nx = [next EXCEPT ![n] = n] /\ pv = [prev EXCEPT ![n] = n]
    BY <1>0, <1>3
  <2> HIDE DEF nx, pv, hd
  <2>2. /\ nx \in [ListNodes -> ListNodes \cup {NULL}] /\ nx[n] = n
        /\ pv \in [ListNodes -> ListNodes \cup {NULL}] /\ pv[n] = n
    BY <1>0, <2>1
  <2>3. Len(u) = 1 /\ u[1] = n /\ Behind(1, 1) = 1
    BY <1>2, <1>3 DEF Behind
  <2>4. \A i \in 1 .. Len(u) : nx[u[i]] = u[Behind(Len(u), i)] /\ pv[u[Behind(Len(u), i)]] = u[i]
    BY <2>2, <2>3
  <2>5. Circular(hd, el, pv, nx, Append(q, e), u)
    BY <1>1, <1>2, <2>1, <2>2, <2>3, <2>4 DEF Circular
  <2> QED
    BY <2>5 DEF u, el, nx, pv, hd
<1>4. CASE L # 0
  <2>1. /\ L \in 1 .. L /\ 1 \in 1 .. L /\ Behind(L, L) = 1 /\ head = t[1] /\ prev[head] = t[L]
        /\ t[1] \in ListNodes /\ t[L] \in ListNodes /\ t[1] # n /\ t[L] # n
    <3>1. L \in 1 .. L /\ 1 \in 1 .. L /\ Behind(L, L) = 1
      BY <1>0, <1>4 DEF Behind
    <3> QED
      BY <1>0, <1>1, <1>4, <3>1
  <2>2. /\ head # NULL /\ hd = t[1]
        /\ nx = [next EXCEPT ![t[L]] = n, ![n] = t[1]]
        /\ pv = [prev EXCEPT ![n] = t[L], ![t[1]] = n]
    BY <2>1, NodesNotNull
  <2> HIDE DEF nx, pv, hd
  <2>3. /\ nx \in [ListNodes -> ListNodes \cup {NULL}] /\ nx[t[L]] = n /\ nx[n] = t[1]
        /\ \A m \in ListNodes : m # n /\ m # t[L] => nx[m] = next[m]
    BY <1>0, <2>1, <2>2
  <2>4. /\ pv \in [ListNodes -> ListNodes \cup {NULL}] /\ pv[n] = t[L] /\ pv[t[1]] = n
        /\ \A m \in ListNodes : m # n /\ m # t[1] => pv[m] = prev[m]
    BY <1>0, <2>1, <2>2
  <2>5. ASSUME NEW i \in 1 .. L + 1
        PROVE  nx[u[i]] = u[Behind(L + 1, i)] /\ pv[u[Behind(L + 1, i)]] = u[i]
    <3>1. CASE i = L + 1
      <4>1. Behind(L + 1, i) = 1 /\ u[i] = n /\ u[1] = t[1]
        BY <1>2, <2>1, <3>1 DEF Behind
      <4> QED
        BY <2>3, <2>4, <4>1
    <3>2. CASE i = L
      <4>1. Behind(L + 1, i) = L + 1 /\ u[i] = t[L] /\ u[L + 1] = n
        BY <1>0, <1>2, <2>1, <3>2 DEF Behind
      <4> QED
        BY <2>3, <2>4, <4>1
    <3>3. CASE i # L + 1 /\ i # L
      <4>1. /\ i \in 1 .. L /\ i + 1 \in 1 .. L /\ i # L /\ i + 1 # 1
            /\ Behind(L + 1, i) = i + 1 /\ Behind(L, i) = i + 1
        BY <1>0, <3>3 DEF Behind
      <4>2. /\ t[i] # t[L] /\ t[i] # n /\ t[i + 1] # t[1] /\ t[i + 1] # n
            /\ t[i] \in ListNodes /\ t[i + 1] \in ListNodes
        BY <1>0, <1>1, <2>1, <4>1
      <4>3. next[t[i]] = t[i + 1] /\ prev[t[i + 1]] = t[i]
        BY <1>0, <4>1
      <4>4. nx[t[i]] = t[i + 1] /\ pv[t[i + 1]] = t[i]
        BY <2>3, <2>4, <4>2, <4>3
      <4> QED
        BY <1>2, <4>1, <4>4
    <3> QED
      BY <3>1, <3>2, <3>3
  <2>6. u[1] = t[1]
    BY <1>2, <2>1
  <2>7. \A i \in 1 .. Len(u) : nx[u[i]] = u[Behind(Len(u), i)] /\ pv[u[Behind(Len(u), i)]] = u[i]
    BY <1>2, <2>5
  <2>8. u # <<>> /\ hd = u[1] /\ Holds(el, Append(q, e), u)
    BY <1>1, <1>2, <2>2, <2>6
  <2>9. /\ nx \in [ListNodes -> ListNodes \cup {NULL}]
        /\ pv \in [ListNodes -> ListNodes \cup {NULL}]
    BY <2>3, <2>4
  <2>10. Circular(hd, el, pv, nx, Append(q, e), u)
    BY <2>7, <2>8, <2>9 DEF Circular
  <2> QED
    BY <2>10 DEF u, el, nx, pv, hd
<1> QED
  BY <1>3, <1>4

\* What follows what, when the k-th of n places on a ring is closed.
LEMMA PlaceBehind ==
  ASSUME NEW n \in Nat, n > 1, NEW k \in 1 .. n, NEW i \in 1 .. n - 1
  PROVE  /\ Behind(n - 1, i) \in 1 .. n - 1
         /\ Place(k, Behind(n - 1, i)) =
              IF Behind(n, Place(k, i)) = k THEN Behind(n, k) ELSE Behind(n, Place(k, i))
BY DEF Behind, Place

\* c_llist_remove joins the neighbours of the k-th node.
LEMMA CircularRemove ==
  ASSUME NEW head, NEW element, NEW prev, NEW next, NEW q, NEW t,
         Circular(head, element, prev, next, q, t), Len(t) > 1, NEW k \in 1 .. Len(t)
  PROVE  Circular(IF t[k] = head THEN next[t[k]] ELSE head, [element EXCEPT ![t[k]] = NoElem],
                  [prev EXCEPT ![next[t[k]]] = prev[t[k]], ![t[k]] = NULL],
                  [next EXCEPT ![prev[t[k]]] = next[t[k]], ![t[k]] = NULL],
                  RemoveAt(q, k), RemoveAt(t, k))
<1> DEFINE el == [element EXCEPT ![t[k]] = NoElem]
           a == next[t[k]]
           b == prev[t[k]]
           pv == [prev EXCEPT ![a] = b, ![t[k]] = NULL]
           nx == [next EXCEPT ![b] = a, ![t[k]] = NULL]
           u == RemoveAt(t, k)
           hd == IF t[k] = head THEN a ELSE head
           L == Len(t)
<1>0. /\ Holds(element, q, t) /\ t \in Seq(ListNodes) /\ L \in Nat /\ L > 1 /\ k \in 1 .. L
      /\ next \in [ListNodes -> ListNodes \cup {NULL}]
      /\ prev \in [ListNodes -> ListNodes \cup {NULL}]
      /\ \A i \in 1 .. L : t[i] \in ListNodes
      /\ \A i, j \in 1 .. L : t[i] = t[j] => i = j
      /\ \A i \in 1 .. L : next[t[i]] = t[Behind(L, i)] /\ prev[t[Behind(L, i)]] = t[i]
      /\ head = t[1]
  BY CircularFacts
<1>1. Holds(el, RemoveAt(q, k), u)
  BY <1>0, HoldsRemove
<1>2. /\ u \in Seq(ListNodes) /\ Len(u) = L - 1
      /\ \A i \in 1 .. L - 1 : Place(k, i) \in 1 .. L /\ Place(k, i) # k /\ u[i] = t[Place(k, i)]
  BY <1>0, Remaining
<1> HIDE DEF L, u, el
<1>3. /\ Behind(L, k) \in 1 .. L /\ Behind(L, k) # k
      /\ \E j \in 1 .. L : j # k /\ Behind(L, j) = k
  <2>1. Behind(L, k) \in 1 .. L /\ Behind(L, k) # k
    BY <1>0 DEF Behind
  <2>2. CASE k = 1
    BY <1>0, <2>2 DEF Behind
  <2>3. CASE k # 1
    <3>1. k - 1 \in 1 .. L /\ k - 1 # k /\ Behind(L, k - 1) = k
      BY <1>0, <2>3 DEF Behind
    <3> QED
      BY <2>1, <3>1
  <2> QED
    BY <2>1, <2>2, <2>3
<1>4. PICK c \in 1 .. L : c # k /\ Behind(L, c) = k
  BY <1>3
<1>5. a = t[Behind(L, k)] /\ b = t[c] /\ a \in ListNodes /\ b \in ListNodes /\ a # t[k] /\ b # t[k]
      /\ t[k] \in ListNodes
  BY <1>0, <1>3, <1>4
<1> HIDE DEF a, b
<1>6. /\ nx \in [ListNodes -> ListNodes \cup {NULL}] /\ nx[b] = a
      /\ \A m \in ListNodes : m # t[k] /\ m # b => nx[m] = next[m]
  BY <1>0, <1>5
<1>7. /\ pv \in [ListNodes -> ListNodes \cup {NULL}] /\ pv[a] = b
      /\ \A m \in ListNodes : m # t[k] /\ m # a => pv[m] = prev[m]
  BY <1>0, <1>5
<1> HIDE DEF nx, pv
<1>8. ASSUME NEW i \in 1 .. L - 1
      PROVE  nx[u[i]] = u[Behind(L - 1, i)] /\ pv[u[Behind(L - 1, i)]] = u[i]
  <2> DEFINE p == Place(k, i)
             s == Behind(L, p)
  <2>1. /\ p \in 1 .. L /\ p # k /\ u[i] = t[p] /\ s \in 1 .. L
        /\ next[t[p]] = t[s] /\ prev[t[s]] = t[p]
    <3>1. p \in 1 .. L /\ p # k /\ u[i] = t[p]
      BY <1>2
    <3>2. s \in 1 .. L
      BY <1>0, <3>1 DEF Behind
    <3> QED
      BY <1>0, <3>1, <3>2
  <2>2. u[Behind(L - 1, i)] = t[IF s = k THEN Behind(L, k) ELSE s]
    <3>1. L \in Nat /\ L > 1 /\ k \in 1 .. L
      BY <1>0
    <3>2. /\ Behind(L - 1, i) \in 1 .. L - 1
          /\ Place(k, Behind(L - 1, i)) = IF s = k THEN Behind(L, k) ELSE s
      BY <3>1, PlaceBehind
    <3> QED
      BY <1>2, <3>2
  <2>3. s = k <=> p = c
    BY <1>0, <1>4, <2>1 DEF Behind
  <2>4. s = Behind(L, k) <=> p = k
    BY <1>0, <2>1 DEF Behind
  <2> HIDE DEF p, s
  <2>5. CASE s = k
    BY <1>5, <1>6, <1>7, <2>1, <2>2, <2>3, <2>5
  <2>6. CASE s # k
    <3>1. t[p] # t[k] /\ t[p] # b /\ t[s] # t[k] /\ t[s] # a /\ t[p] \in ListNodes /\ t[s] \in ListNodes
      BY <1>0, <1>3, <1>4, <1>5, <2>1, <2>3, <2>4, <2>6
    <3> QED
      BY <1>6, <1>7, <2>1, <2>2, <2>6, <3>1
  <2> QED
    BY <2>5, <2>6
<1>9. u # <<>>
  <2> SUFFICES ASSUME u = <<>> PROVE FALSE
    OBVIOUS
  <2>1. Len(u) = 0
    OBVIOUS
  <2>2. L - 1 # 0
    BY <1>0
  <2> QED
    BY <1>2, <2>1, <2>2
<1>10. hd = u[1]
  <2>1. 1 \in 1 .. L - 1 /\ 1 \in 1 .. L /\ Behind(L, 1) = 2 /\ Place(k, 1) = IF k = 1 THEN 2 ELSE 1
    BY <1>0 DEF Behind, Place
  <2>2. u[1] = IF k = 1 THEN t[2] ELSE t[1]
    BY <1>2, <2>1
  <2>3. t[k] = head <=> k = 1
    BY <1>0, <2>1
  <2> QED
    BY <1>0, <1>5, <2>1, <2>2, <2>3
<1> HIDE DEF hd
<1>11. Circular(hd, el, pv, nx, RemoveAt(q, k), u)
  BY <1>1, <1>2, <1>6, <1>7, <1>8, <1>9, <1>10 DEF Circular
<1> QED
  BY <1>11 DEF u, el, nx, pv, hd, a, b

----------------------------------------------------------------------------
Links == [ListNodes -> ListNodes \cup {NULL}]
Labels == [ListNodes -> Elems \cup {NoElem}]
Heaps == [element : Labels, next : Links]
RingHeaps == [element : Labels, prev : Links, next : Links]

\* The inductive invariant: some nodes carry each of the two lists.
ListInv ==
    /\ lheap \in Heaps /\ cheap \in RingHeaps
    /\ \E t : Linear(lhead, lheap.element, lheap.next, lseq, t)
    /\ \E t : Circular(chead, cheap.element, cheap.prev, cheap.next, cseq, t)

\* Both lists are empty at the start.
LEMMA ListStart == ASSUME ListInit PROVE ListInv
<1> DEFINE none == [n \in ListNodes |-> NoElem]
           nil == [n \in ListNodes |-> NULL]
<1>1. none \in Labels /\ nil \in Links
  BY DEF Labels, Links
<1>2. /\ lhead = NULL /\ lheap = [element |-> none, next |-> nil] /\ lseq = <<>>
      /\ chead = NULL /\ cheap = [element |-> none, prev |-> nil, next |-> nil] /\ cseq = <<>>
  BY DEF ListInit
<1>3. Holds(none, <<>>, <<>>)
  BY <1>1 DEF Holds, Labels
<1>4. Linear(NULL, none, nil, <<>>, <<>>)
  BY <1>1, <1>3 DEF Linear, Links
<1>5. Circular(NULL, none, nil, nil, <<>>, <<>>)
  BY <1>1, <1>3 DEF Circular, Links
<1> HIDE DEF none, nil
<1>6. lheap \in Heaps /\ lheap.element = none /\ lheap.next = nil
  BY <1>1, <1>2 DEF Heaps
<1>7. cheap \in RingHeaps /\ cheap.element = none /\ cheap.next = nil /\ cheap.prev = nil
  BY <1>1, <1>2 DEF RingHeaps
<1> QED
  BY <1>2, <1>4, <1>5, <1>6, <1>7 DEF ListInv

\* Assignments to the fields of a node change nothing else.
LEMMA SetElement ==
  ASSUME NEW h \in Heaps, NEW n \in ListNodes, NEW e \in Elems \cup {NoElem}
  PROVE  /\ [h EXCEPT !.element[n] = e] \in Heaps
         /\ [h EXCEPT !.element[n] = e].element = [h.element EXCEPT ![n] = e]
         /\ [h EXCEPT !.element[n] = e].next = h.next
BY DEF Heaps, Labels, Links

\* The same for the pointer to the next node.
LEMMA SetNext ==
  ASSUME NEW h \in Heaps, NEW n \in ListNodes, NEW m \in ListNodes \cup {NULL}
  PROVE  /\ [h EXCEPT !.next[n] = m] \in Heaps
         /\ [h EXCEPT !.next[n] = m].element = h.element
         /\ [h EXCEPT !.next[n] = m].next = [h.next EXCEPT ![n] = m]
BY DEF Heaps, Labels, Links

----------------------------------------------------------------------------
\* The part of the invariant that the steps on one of the lists leave alone.
LEMMA OtherList ==
  ASSUME ListInv
  PROVE  /\ UNCHANGED <<chead, cheap, cseq>> =>
              /\ cheap' \in RingHeaps
              /\ \E t : Circular(chead', cheap'.element, cheap'.prev, cheap'.next, cseq', t)
         /\ UNCHANGED <<lhead, lheap, lseq>> =>
              lheap' \in Heaps /\ \E t : Linear(lhead', lheap'.element, lheap'.next, lseq', t)
BY DEF ListInv

\* The nodes of the list, and what is known of them.
LEMMA ListNow ==
  ASSUME ListInv
  PROVE  /\ lheap \in Heaps
         /\ Linear(lhead, lheap.element, lheap.next, lseq, LTrail)
         /\ LTrail \in Seq(ListNodes) /\ lseq \in Seq(Elems) /\ Len(lseq) = Len(LTrail)
         /\ Len(LTrail) \in Nat
         /\ \A i \in 1 .. Len(LTrail) : LTrail[i] \in ListNodes /\ lheap.element[LTrail[i]] = lseq[i]
<1>1. PICK t : Linear(lhead, lheap.element, lheap.next, lseq, t)
  BY DEF ListInv
<1>2. LTrail = t
  BY <1>1, LinearTrail DEF LTrail
<1>3. lheap \in Heaps /\ Linear(lhead, lheap.element, lheap.next, lseq, LTrail)
  BY <1>1, <1>2 DEF ListInv
<1>4. /\ LTrail \in Seq(ListNodes) /\ lseq \in Seq(Elems) /\ Len(lseq) = Len(LTrail)
      /\ \A i \in 1 .. Len(LTrail) : lheap.element[LTrail[i]] = lseq[i]
  BY <1>3 DEF Linear, Holds
<1>5. Len(LTrail) \in Nat /\ \A i \in 1 .. Len(LTrail) : LTrail[i] \in ListNodes
  BY <1>4
<1> QED
  BY <1>3, <1>4, <1>5

\* llist_add.
LEMMA ListAddStep == ASSUME ListInv, NEW e \in Elems, llist_add(e) PROVE ListInv'
<1>1. PICK n \in ListNodes \ Allocated(lheap) :
        LET heap == [lheap EXCEPT !.element[n] = e]
        IN  /\ IF lhead = NULL THEN lhead' = n /\ lheap' = heap
               ELSE lhead' = lhead /\ lheap' = LinkLast(heap, n)
            /\ lseq' = Append(lseq, e)
            /\ UNCHANGED <<chead, cheap, cseq>>
  BY DEF llist_add
<1> DEFINE heap == [lheap EXCEPT !.element[n] = e]
           t == LTrail
<1>2. n \in ListNodes /\ lheap.element[n] = NoElem
  BY DEF Allocated
<1>3. lheap \in Heaps /\ Linear(lhead, lheap.element, lheap.next, lseq, t)
  BY ListNow
<1>4. heap \in Heaps /\ heap.element = [lheap.element EXCEPT ![n] = e] /\ heap.next = lheap.next
  BY <1>2, <1>3, SetElement
<1>5. Linear(IF lhead = NULL THEN n ELSE lhead, [lheap.element EXCEPT ![n] = e],
             IF lhead = NULL THEN lheap.next ELSE [lheap.next EXCEPT ![Last(t)] = n],
             Append(lseq, e), Append(t, n))
  BY <1>2, <1>3, LinearAdd
<1> HIDE DEF heap, t
<1>6. lheap' \in Heaps /\ Linear(lhead', lheap'.element, lheap'.next, lseq', Append(t, n))
  <2>1. CASE lhead = NULL
    <3>1. lhead' = n /\ lheap' = heap /\ lseq' = Append(lseq, e)
      BY <1>1, <2>1 DEF heap
    <3> QED
      BY <1>4, <1>5, <2>1, <3>1
  <2>2. CASE lhead # NULL
    <3>1. lhead' = lhead /\ lheap' = [heap EXCEPT !.next[Last(t)] = n] /\ lseq' = Append(lseq, e)
      BY <1>1, <2>2 DEF heap, t, LinkLast
    <3>2. Last(t) \in ListNodes
      <4>1. t \in Seq(ListNodes) /\ (t # <<>> => lhead = t[1]) /\ (t = <<>> => lhead = NULL)
        BY <1>3 DEF Linear, Holds
      <4>2. t # <<>>
        BY <2>2, <4>1
      <4>3. Len(t) \in 1 .. Len(t)
        BY <4>1, <4>2
      <4> QED
        BY <4>1, <4>3 DEF Last
    <3>3. /\ lheap' \in Heaps /\ lheap'.element = heap.element
          /\ lheap'.next = [heap.next EXCEPT ![Last(t)] = n]
      BY <1>2, <1>4, <3>1, <3>2, SetNext
    <3> QED
      BY <1>4, <1>5, <2>2, <3>1, <3>3
  <2> QED
    BY <2>1, <2>2
<1>7. UNCHANGED <<chead, cheap, cseq>>
  BY <1>1
<1> QED
  BY <1>6, <1>7, OtherList DEF ListInv

\* The node at place k leaves the list, and its element the sequence.
LEMMA UnlinkStep ==
  ASSUME ListInv, NEW k \in 1 .. Len(LTrail), Unlink(k), lseq' = RemoveAt(lseq, k),
         UNCHANGED <<chead, cheap, cseq>>
  PROVE  ListInv'
<1> DEFINE t == LTrail
           mid == IF k = 1 THEN lheap ELSE [lheap EXCEPT !.next[t[k - 1]] = lheap.next[t[k]]]
           nx == IF k = 1 THEN lheap.next ELSE [lheap.next EXCEPT ![t[k - 1]] = lheap.next[t[k]]]
<1>1. /\ lheap \in Heaps /\ Linear(lhead, lheap.element, lheap.next, lseq, t)
      /\ Len(t) \in Nat /\ \A i \in 1 .. Len(t) : t[i] \in ListNodes
  BY ListNow
<1>2. /\ lhead' = IF k = 1 THEN lheap.next[lhead] ELSE lhead
      /\ lheap' = Freed(mid, t[k])
  BY DEF Unlink
<1>3. Linear(IF k = 1 THEN lheap.next[lhead] ELSE lhead, [lheap.element EXCEPT ![t[k]] = NoElem],
             [nx EXCEPT ![t[k]] = NULL], RemoveAt(lseq, k), RemoveAt(t, k))
  BY <1>1, LinearRemove
<1> HIDE DEF t
<1>4. t[k] \in ListNodes /\ lheap.next \in Links
  BY <1>1 DEF Heaps, t
<1>5. mid \in Heaps /\ mid.element = lheap.element /\ mid.next = nx
  <2>1. CASE k = 1
    BY <1>1, <2>1
  <2>2. CASE k # 1
    <3>1. k - 1 \in 1 .. Len(t)
      BY <1>1, <2>2 DEF t
    <3>2. t[k - 1] \in ListNodes /\ lheap.next[t[k]] \in ListNodes \cup {NULL}
      BY <1>1, <1>4, <3>1 DEF Links
    <3>3. LET g == [lheap EXCEPT !.next[t[k - 1]] = lheap.next[t[k]]]
          IN  /\ g \in Heaps /\ g.element = lheap.element
              /\ g.next = [lheap.next EXCEPT ![t[k - 1]] = lheap.next[t[k]]]
      BY <1>1, <3>2, SetNext
    <3> QED
      BY <2>2, <3>3
  <2> QED
    BY <2>1, <2>2
<1> HIDE DEF mid, nx
<1> DEFINE g == [mid EXCEPT !.element[t[k]] = NoElem]
<1>6. g \in Heaps /\ g.element = [mid.element EXCEPT ![t[k]] = NoElem] /\ g.next = mid.next
  BY <1>4, <1>5, SetElement
<1>7. lheap' = [g EXCEPT !.next[t[k]] = NULL]
  BY <1>2, <1>4, <1>5 DEF Freed, Heaps, Labels, Links
<1> HIDE DEF g
<1>8. /\ lheap' \in Heaps /\ lheap'.element = g.element
      /\ lheap'.next = [g.next EXCEPT ![t[k]] = NULL]
  <2>1. LET f == [g EXCEPT !.next[t[k]] = NULL]
        IN  f \in Heaps /\ f.element = g.element /\ f.next = [g.next EXCEPT ![t[k]] = NULL]
    BY <1>4, <1>6, SetNext
  <2> QED
    BY <1>7, <2>1
<1>9. Linear(lhead', lheap'.element, lheap'.next, lseq', RemoveAt(t, k))
  BY <1>2, <1>3, <1>5, <1>6, <1>8
<1> QED
  BY <1>8, <1>9, OtherList DEF ListInv

\* llist_remove_nth: the place it counts to is the place in the sequence.
LEMMA RemoveNthStep == ASSUME ListInv, NEW pos \in Nat, llist_remove_nth(pos) PROVE ListInv'
<1>1. Len(lseq) = Len(LTrail) /\ Len(LTrail) \in Nat
  BY ListNow
<1>2. UNCHANGED <<chead, cheap, cseq>>
  BY DEF llist_remove_nth
<1>3. CASE pos < Len(LTrail)
  <2>1. pos + 1 \in 1 .. Len(LTrail) /\ pos + 1 <= Len(LTrail)
    BY <1>1, <1>3
  <2>2. Unlink(pos + 1) /\ lseq' = RemoveAt(lseq, pos + 1)
    BY <1>1, <1>3, <2>1 DEF llist_remove_nth, NthNode
  <2> QED
    BY <1>2, <2>1, <2>2, UnlinkStep
<1>4. CASE ~(pos < Len(LTrail))
  <2>1. ~(pos + 1 <= Len(LTrail))
    BY <1>1, <1>4
  <2>2. UNCHANGED <<lhead, lheap, lseq>>
    BY <1>1, <1>4, <2>1 DEF llist_remove_nth, NthNode
  <2> QED
    BY <1>2, <2>2 DEF ListInv
<1> QED
  BY <1>3, <1>4

\* The loop that compares elements finds the place in the sequence.
LEMMA SamePlace ==
  ASSUME NEW element, NEW t \in Seq(ListNodes), NEW q \in Seq(Elems), Len(q) = Len(t),
         \A i \in 1 .. Len(t) : element[t[i]] = q[i], NEW e
  PROVE  LET k == FirstAt(element, t, e)
         IN  \/ k = 0 /\ ~Contains(q, e)
             \/ /\ k \in 1 .. Len(t) /\ q[k] = e /\ \A j \in 1 .. k - 1 : q[j] # e
                /\ Contains(q, e) /\ RemoveFirst(q, e) = RemoveAt(q, k)
<1> DEFINE k == FirstAt(element, t, e)
<1>0. Len(t) \in Nat
  OBVIOUS
<1>1. \/ k = 0 /\ \A i \in 1 .. Len(t) : element[t[i]] # e
      \/ /\ k \in 1 .. Len(t) /\ element[t[k]] = e
         /\ \A j \in 1 .. k - 1 : element[t[j]] # e
  BY FirstAtIs, SMTT(40)
<1> HIDE DEF k
<1>2. CASE k = 0 /\ \A i \in 1 .. Len(t) : element[t[i]] # e
  BY <1>2 DEF Contains, k
<1>3. CASE /\ k \in 1 .. Len(t) /\ element[t[k]] = e
           /\ \A j \in 1 .. k - 1 : element[t[j]] # e
  <2>1. k \in 1 .. Len(q) /\ q[k] = e
    BY <1>3
  <2>2. \A j \in 1 .. k - 1 : q[j] # e
    BY <1>0, <1>3
  <2>3. Contains(q, e) /\ RemoveFirst(q, e) = RemoveAt(q, k)
    BY <2>1, <2>2, RemoveFirstIs
  <2> QED
    BY <1>3, <2>1, <2>2, <2>3 DEF k
<1> QED
  BY <1>1, <1>2, <1>3

\* llist_remove.
LEMMA RemoveStep == ASSUME ListInv, NEW e \in Elems, llist_remove(e) PROVE ListInv'
<1> DEFINE k == FirstAt(lheap.element, LTrail, e)
<1>1. UNCHANGED <<chead, cheap, cseq>>
  BY DEF llist_remove
<1>2. /\ IF k # 0 THEN Unlink(k) ELSE UNCHANGED <<lhead, lheap>>
      /\ lseq' = IF Contains(lseq, e) THEN RemoveFirst(lseq, e) ELSE lseq
  BY DEF llist_remove
<1>3. \/ k = 0 /\ ~Contains(lseq, e)
      \/ k \in 1 .. Len(LTrail) /\ Contains(lseq, e) /\ RemoveFirst(lseq, e) = RemoveAt(lseq, k)
  BY ListNow, SamePlace
<1> HIDE DEF k
<1>4. CASE k = 0 /\ ~Contains(lseq, e)
  BY <1>1, <1>2, <1>4 DEF ListInv
<1>5. CASE k \in 1 .. Len(LTrail) /\ Contains(lseq, e) /\ RemoveFirst(lseq, e) = RemoveAt(lseq, k)
  <2>1. k # 0
    BY <1>5, ListNow
  <2> QED
    BY <1>1, <1>2, <1>5, <2>1, UnlinkStep
<1> QED
  BY <1>3, <1>4, <1>5

\* The nodes of the ring.
LEMMA RingNow ==
  ASSUME ListInv
  PROVE  /\ cheap \in RingHeaps
         /\ Circular(chead, cheap.element, cheap.prev, cheap.next, cseq, CTrail)
         /\ CTrail \in Seq(ListNodes) /\ cseq \in Seq(Elems) /\ Len(cseq) = Len(CTrail)
         /\ Len(CTrail) \in Nat
         /\ \A i \in 1 .. Len(CTrail) : CTrail[i] \in ListNodes /\ cheap.element[CTrail[i]] = cseq[i]
<1>1. PICK t : Circular(chead, cheap.element, cheap.prev, cheap.next, cseq, t)
  BY DEF ListInv
<1>2. CTrail = t
  <2>0. t \in Seq(ListNodes)
    BY <1>1 DEF Circular, Holds
  <2>1. CASE t = <<>>
    BY <1>1, <2>1 DEF Circular, CTrail
  <2>2. CASE t # <<>>
    <3>1. chead = t[1] /\ 1 \in 1 .. Len(t)
      BY <1>1, <2>0, <2>2 DEF Circular
    <3>2. chead # NULL
      BY <2>0, <3>1, NodesNotNull
    <3>3. <<chead>> \o Trail(cheap.next, cheap.next[chead], chead) = t
      BY <1>1, <2>2, CircularTrail
    <3> QED
      BY <3>2, <3>3 DEF CTrail
  <2> QED
    BY <2>1, <2>2
<1>3. cheap \in RingHeaps /\ Circular(chead, cheap.element, cheap.prev, cheap.next, cseq, CTrail)
  BY <1>1, <1>2 DEF ListInv
<1>4. /\ CTrail \in Seq(ListNodes) /\ cseq \in Seq(Elems) /\ Len(cseq) = Len(CTrail)
      /\ \A i \in 1 .. Len(CTrail) : cheap.element[CTrail[i]] = cseq[i]
  BY <1>3 DEF Circular, Holds
<1>5. Len(CTrail) \in Nat /\ \A i \in 1 .. Len(CTrail) : CTrail[i] \in ListNodes
  BY <1>4
<1> QED
  BY <1>3, <1>4, <1>5

\* c_llist_add.
LEMMA RingAddStep == ASSUME ListInv, NEW e \in Elems, c_llist_add(e) PROVE ListInv'
<1>1. PICK n \in ListNodes \ Allocated(cheap) :
        LET heap == [cheap EXCEPT !.element[n] = e]
        IN  /\ IF chead = NULL
               THEN chead' = n /\ cheap' = [heap EXCEPT !.next[n] = n, !.prev[n] = n]
               ELSE chead' = chead /\ cheap' = CLinkLast(heap, n)
            /\ cseq' = Append(cseq, e)
            /\ UNCHANGED <<lhead, lheap, lseq>>
  BY DEF c_llist_add
<1> DEFINE heap == [cheap EXCEPT !.element[n] = e]
           t == CTrail
<1>2. n \in ListNodes /\ cheap.element[n] = NoElem
  BY DEF Allocated
<1>3. /\ cheap \in RingHeaps /\ Circular(chead, cheap.element, cheap.prev, cheap.next, cseq, t)
      /\ t \in Seq(ListNodes)
  BY RingNow
<1>4. /\ heap \in RingHeaps /\ heap.element = [cheap.element EXCEPT ![n] = e]
      /\ heap.next = cheap.next /\ heap.prev = cheap.prev
  BY <1>2, <1>3 DEF RingHeaps, Labels, Links
<1>5. Circular(IF chead = NULL THEN n ELSE chead, [cheap.element EXCEPT ![n] = e],
               IF chead = NULL THEN [cheap.prev EXCEPT ![n] = n]
               ELSE [cheap.prev EXCEPT ![n] = cheap.prev[chead], ![chead] = n],
               IF chead = NULL THEN [cheap.next EXCEPT ![n] = n]
               ELSE [cheap.next EXCEPT ![cheap.prev[chead]] = n, ![n] = chead],
               Append(cseq, e), Append(t, n))
  BY <1>2, <1>3, CircularAdd
<1>6. cseq' = Append(cseq, e) /\ UNCHANGED <<lhead, lheap, lseq>>
  BY <1>1
<1>7. CASE chead = NULL
  <2>1. chead' = n /\ cheap' = [heap EXCEPT !.next[n] = n, !.prev[n] = n]
    BY <1>1, <1>7
  <2> HIDE DEF heap, t
  <2>2. /\ cheap' \in RingHeaps /\ cheap'.element = heap.element
        /\ cheap'.next = [heap.next EXCEPT ![n] = n] /\ cheap'.prev = [heap.prev EXCEPT ![n] = n]
    BY <1>2, <1>4, <2>1 DEF RingHeaps, Labels, Links
  <2>3. Circular(chead', cheap'.element, cheap'.prev, cheap'.next, cseq', Append(t, n))
    BY <1>4, <1>5, <1>6, <1>7, <2>1, <2>2
  <2> QED
    BY <1>6, <2>2, <2>3, OtherList DEF ListInv
<1>8. CASE chead # NULL
  <2>1. chead' = chead /\ cheap' = CLinkLast(heap, n)
    BY <1>1, <1>8
  <2> HIDE DEF heap, t
  <2>2. chead \in ListNodes /\ heap.prev[chead] \in ListNodes
    <3>1. t # <<>> /\ Len(t) \in Nat /\ Len(t) # 0
      BY <1>3, <1>8 DEF Circular
    <3>2. 1 \in 1 .. Len(t) /\ Len(t) \in 1 .. Len(t) /\ Behind(Len(t), Len(t)) = 1
      BY <3>1 DEF Behind
    <3>3. chead = t[1] /\ cheap.prev[chead] = t[Len(t)]
      BY <1>3, <3>1, <3>2 DEF Circular
    <3>4. t[1] \in ListNodes /\ t[Len(t)] \in ListNodes
      BY <1>3, <3>2
    <3> QED
      BY <1>4, <3>3, <3>4
  <2> DEFINE last == heap.prev[chead]
  <2>3. cheap' = [heap EXCEPT !.next[last] = n, !.next[n] = chead, !.prev[n] = last, !.prev[chead] = n]
    BY <2>1 DEF CLinkLast
  <2>4. last \in ListNodes
    BY <2>2
  <2> HIDE DEF last
  <2>5. /\ cheap' \in RingHeaps /\ cheap'.element = heap.element
        /\ cheap'.next = [heap.next EXCEPT ![last] = n, ![n] = chead]
        /\ cheap'.prev = [heap.prev EXCEPT ![n] = last, ![chead] = n]
    BY <1>2, <1>4, <2>2, <2>3, <2>4 DEF RingHeaps, Labels, Links
  <2>6. last = cheap.prev[chead]
    BY <1>4 DEF last
  <2>7. Circular(chead', cheap'.element, cheap'.prev, cheap'.next, cseq', Append(t, n))
    BY <1>4, <1>5, <1>6, <1>8, <2>1, <2>5, <2>6
  <2> QED
    BY <1>6, <2>5, <2>7, OtherList DEF ListInv
<1> QED
  BY <1>7, <1>8

\* c_llist_remove.
LEMMA RingRemoveStep == ASSUME ListInv, NEW e \in Elems, c_llist_remove(e) PROVE ListInv'
<1> DEFINE k == FirstAt(cheap.element, CTrail, e)
           t == CTrail
           n == t[k]
           a == cheap.next[n]
           b == cheap.prev[n]
<1>1. UNCHANGED <<lhead, lheap, lseq>> /\ Len(t) > 1
  BY DEF c_llist_remove
<1>2. /\ IF k = 0 THEN UNCHANGED <<chead, cheap>>
         ELSE /\ chead' = IF n = chead THEN a ELSE chead
              /\ cheap' = CFreed([cheap EXCEPT !.prev[a] = b, !.next[b] = a], n)
      /\ cseq' = IF Contains(cseq, e) THEN RemoveFirst(cseq, e) ELSE cseq
  BY DEF c_llist_remove
<1>3. \/ k = 0 /\ ~Contains(cseq, e)
      \/ k \in 1 .. Len(t) /\ Contains(cseq, e) /\ RemoveFirst(cseq, e) = RemoveAt(cseq, k)
  <2>1. /\ CTrail \in Seq(ListNodes) /\ cseq \in Seq(Elems) /\ Len(cseq) = Len(CTrail)
        /\ \A i \in 1 .. Len(CTrail) : cheap.element[CTrail[i]] = cseq[i]
    BY RingNow
  <2> QED
    BY <2>1, SamePlace
<1>4. /\ cheap \in RingHeaps /\ Circular(chead, cheap.element, cheap.prev, cheap.next, cseq, t)
      /\ t \in Seq(ListNodes) /\ Len(t) \in Nat
  BY RingNow
<1> HIDE DEF k, t
<1>5. CASE k = 0 /\ ~Contains(cseq, e)
  <2>1. UNCHANGED <<chead, cheap, cseq>>
    BY <1>2, <1>5
  <2> QED
    BY <1>1, <2>1 DEF ListInv
<1>6. CASE k \in 1 .. Len(t) /\ Contains(cseq, e) /\ RemoveFirst(cseq, e) = RemoveAt(cseq, k)
  <2>1. k # 0
    BY <1>4, <1>6
  <2>2. /\ chead' = IF n = chead THEN a ELSE chead
        /\ cheap' = CFreed([cheap EXCEPT !.prev[a] = b, !.next[b] = a], n)
        /\ cseq' = RemoveAt(cseq, k)
    BY <1>2, <1>6, <2>1
  <2>3. Circular(IF n = chead THEN a ELSE chead, [cheap.element EXCEPT ![n] = NoElem],
                 [cheap.prev EXCEPT ![a] = b, ![n] = NULL],
                 [cheap.next EXCEPT ![b] = a, ![n] = NULL], RemoveAt(cseq, k), RemoveAt(t, k))
    BY <1>1, <1>4, <1>6, CircularRemove
  <2>4. n \in ListNodes /\ a \in ListNodes /\ b \in ListNodes
    <3>1. /\ \A i \in 1 .. Len(t) : t[i] \in ListNodes
          /\ \A i \in 1 .. Len(t) : /\ cheap.next[t[i]] = t[Behind(Len(t), i)]
                                    /\ cheap.prev[t[Behind(Len(t), i)]] = t[i]
      BY <1>4, CircularFacts
    <3>2. /\ Behind(Len(t), k) \in 1 .. Len(t)
          /\ \E i \in 1 .. Len(t) : Behind(Len(t), i) = k
      <4>1. Behind(Len(t), k) \in 1 .. Len(t)
        BY <1>1, <1>4, <1>6 DEF Behind
      <4>2. CASE k = 1
        <5>1. Len(t) \in 1 .. Len(t) /\ Behind(Len(t), Len(t)) = k
          BY <1>1, <1>4, <4>2 DEF Behind
        <5> QED
          BY <4>1, <5>1
      <4>3. CASE k # 1
        <5>1. k - 1 \in 1 .. Len(t) /\ Behind(Len(t), k - 1) = k
          BY <1>4, <1>6, <4>3 DEF Behind
        <5> QED
          BY <4>1, <5>1
      <4> QED
        BY <4>2, <4>3
    <3> QED
      BY <1>6, <3>1, <3>2
  <2> HIDE DEF n, a, b
  <2>5. cheap' = [[[cheap EXCEPT !.prev[a] = b, !.next[b] = a] EXCEPT !.element[n] = NoElem, !.next[n] = NULL]
                     EXCEPT !.prev[n] = NULL]
    BY <2>2 DEF CFreed, Freed
  <2>6. /\ cheap' \in RingHeaps /\ cheap'.element = [cheap.element EXCEPT ![n] = NoElem]
        /\ cheap'.prev = [cheap.prev EXCEPT ![a] = b, ![n] = NULL]
        /\ cheap'.next = [cheap.next EXCEPT ![b] = a, ![n] = NULL]
    BY <1>4, <2>4, <2>5 DEF RingHeaps, Labels, Links
  <2>7. Circular(chead', cheap'.element, cheap'.prev, cheap'.next, cseq', RemoveAt(t, k))
    BY <2>2, <2>3, <2>6
  <2> QED
    BY <1>1, <2>6, <2>7, OtherList DEF ListInv
<1> QED
  BY <1>3, <1>5, <1>6

\* Every operation keeps the lists.
LEMMA ListKept == ASSUME ListInv, [ListNext]_listVars PROVE ListInv'
<1>1. CASE \E e \in Elems : llist_add(e)
  BY <1>1, ListAddStep
<1>2. CASE \E e \in Elems : llist_remove(e)
  BY <1>2, RemoveStep
<1>3. CASE \E e \in Elems : c_llist_add(e)
  BY <1>3, RingAddStep
<1>4. CASE \E e \in Elems : c_llist_remove(e)
  BY <1>4, RingRemoveStep
<1>5. CASE \E pos \in 0 .. Cardinality(ListNodes) : llist_remove_nth(pos)
  <2>1. PICK pos \in 0 .. Cardinality(ListNodes) : llist_remove_nth(pos)
    BY <1>5
  <2>2. pos \in Nat
    BY FS_CardinalityType, ListsAssumption
  <2> QED
    BY <2>1, <2>2, RemoveNthStep
<1>6. CASE UNCHANGED listVars
  BY <1>6 DEF listVars, ListInv
<1> QED
  BY <1>1, <1>2, <1>3, <1>4, <1>5, <1>6 DEF ListNext

\* What the nodes hold is what the calls should have left, and they are the
\* nodes in use.
LEMMA HoldsSequence ==
  ASSUME NEW element, NEW q, NEW t, Holds(element, q, t)
  PROVE  /\ [k \in DOMAIN t |-> element[t[k]]] = q
         /\ ToSet(t) = {n \in ListNodes : element[n] # NoElem}
<1> USE DEF Holds
<1>1. DOMAIN t = 1 .. Len(t) /\ Len(t) \in Nat /\ q \in Seq(Elems) /\ Len(q) = Len(t)
      /\ DOMAIN q = 1 .. Len(t)
      /\ \A i \in 1 .. Len(t) : t[i] \in ListNodes /\ q[i] \in Elems
  OBVIOUS
<1>2. [k \in DOMAIN t |-> element[t[k]]] = q
  <2>1. q = [k \in 1 .. Len(t) |-> q[k]]
    BY <1>1
  <2>2. \A k \in 1 .. Len(t) : element[t[k]] = q[k]
    OBVIOUS
  <2> QED
    BY <1>1, <2>1, <2>2
<1>3. \A i \in 1 .. Len(t) : t[i] \in ListNodes /\ element[t[i]] # NoElem
  BY <1>1, ListsAssumption DEF NoElem
<1>4. ToSet(t) = {n \in ListNodes : element[n] # NoElem}
  BY <1>1, <1>3 DEF ToSet
<1> QED
  BY <1>2, <1>4

\* The invariant gives what the callers rely on.
LEMMA ListsRight == ASSUME ListInv PROVE ListsAreSequences
<1>1. ListIsSequence
  <2> DEFINE t == LTrail
  <2>1. /\ Holds(lheap.element, lseq, t) /\ t \in Seq(ListNodes) /\ lseq \in Seq(Elems)
        /\ Len(lseq) = Len(t) /\ Len(t) \in Nat
        /\ \A i \in 1 .. Len(t) : lheap.element[t[i]] = lseq[i]
    BY ListNow DEF Linear
  <2>2. Contents(lheap, t) = lseq /\ ToSet(t) = Allocated(lheap)
    BY <2>1, HoldsSequence DEF Contents, Allocated
  <2> HIDE DEF t
  <2>3. llist_length = Len(lseq)
    BY <2>1 DEF llist_length, t
  <2>4. ASSUME NEW i \in 0 .. Len(lseq)
        PROVE  llist_nth(i) = IF i < Len(lseq) THEN lseq[i + 1] ELSE NoElem
    <3>1. CASE i < Len(lseq)
      <4>1. i + 1 \in 1 .. Len(t) /\ i < Len(t)
        BY <2>1, <3>1
      <4> QED
        BY <2>1, <3>1, <4>1 DEF llist_nth, t
    <3>2. CASE ~(i < Len(lseq))
      BY <2>1, <3>2 DEF llist_nth, t
    <3> QED
      BY <3>1, <3>2
  <2>5. ASSUME NEW e \in Elems
        PROVE  IF Contains(lseq, e)
               THEN lseq[llist_index(e) + 1] = e /\ \A i \in 1 .. llist_index(e) : lseq[i] # e
               ELSE llist_index(e) = -1
    <3> DEFINE k == FirstAt(lheap.element, t, e)
    <3>1. \/ k = 0 /\ ~Contains(lseq, e)
          \/ /\ k \in 1 .. Len(t) /\ lseq[k] = e /\ \A j \in 1 .. k - 1 : lseq[j] # e
             /\ Contains(lseq, e)
      BY <2>1, SamePlace
    <3>2. llist_index(e) = k - 1
      BY DEF llist_index, t
    <3> HIDE DEF k
    <3>3. CASE k = 0 /\ ~Contains(lseq, e)
      BY <3>2, <3>3
    <3>4. CASE /\ k \in 1 .. Len(t) /\ lseq[k] = e /\ \A j \in 1 .. k - 1 : lseq[j] # e
               /\ Contains(lseq, e)
      <4>1. (k - 1) + 1 = k
        BY <2>1, <3>4
      <4> QED
        BY <3>2, <3>4, <4>1
    <3> QED
      BY <3>1, <3>3, <3>4
  <2> QED
    BY <2>2, <2>3, <2>4, <2>5 DEF ListIsSequence, t
<1>2. RingIsSequence
  <2> DEFINE t == CTrail
  <2>0. Circular(chead, cheap.element, cheap.prev, cheap.next, cseq, t)
    BY RingNow
  <2>1. /\ Holds(cheap.element, cseq, t) /\ t \in Seq(ListNodes) /\ cseq \in Seq(Elems)
        /\ Len(cseq) = Len(t) /\ Len(t) \in Nat
        /\ \A i \in 1 .. Len(t) : cheap.element[t[i]] = cseq[i]
    BY RingNow, <2>0 DEF Circular
  <2>2. Contents(cheap, t) = cseq /\ ToSet(t) = Allocated(cheap)
    BY <2>1, HoldsSequence DEF Contents, Allocated
  <2> HIDE DEF t
  <2>3. c_llist_length = Len(cseq)
    BY <2>1 DEF c_llist_length, t
  <2>4. ASSUME NEW n \in Allocated(cheap) PROVE cheap.prev[cheap.next[n]] = n
    <3>1. PICK i \in 1 .. Len(t) : t[i] = n
      BY <2>1 DEF Holds, Allocated
    <3> QED
      BY <2>0, <3>1 DEF Circular
  <2>5. ASSUME NEW e \in Elems, Contains(cseq, e) PROVE cseq[c_llist_index(e) + 1] = e
    <3> DEFINE k == FirstAt(cheap.element, t, e)
    <3>1. k \in 1 .. Len(t) /\ cseq[k] = e
      <4>1. \/ k = 0 /\ ~Contains(cseq, e)
            \/ /\ k \in 1 .. Len(t) /\ cseq[k] = e /\ \A j \in 1 .. k - 1 : cseq[j] # e
               /\ Contains(cseq, e)
        BY <2>1, SamePlace
      <4> QED
        BY <2>5, <4>1
    <3>2. c_llist_index(e) = k - 1
      BY DEF c_llist_index, t
    <3> HIDE DEF k
    <3>3. (k - 1) + 1 = k
      BY <2>1, <3>1
    <3> QED
      BY <3>1, <3>2, <3>3
  <2> QED
    BY <2>2, <2>3, <2>4, <2>5 DEF RingIsSequence, t
<1> QED
  BY <1>1, <1>2 DEF ListsAreSequences

\* The two list libraries keep the sequences that their callers take them
\* for, whatever is added and removed, for any number of nodes.
THEOREM ListsKeepSequences == ListSpec => []ListsAreSequences
<1>1. ListInit => ListInv
  BY ListStart
<1>2. ListInv /\ [ListNext]_listVars => ListInv'
  BY ListKept
<1>3. ListInv => ListsAreSequences
  BY ListsRight
<1> QED
  BY <1>1, <1>2, <1>3, PTL DEF ListSpec

----------------------------------------------------------------------------
(***************************************************************************)
(* The buffer cache.  Its hash links may be wrong after a lookup that      *)
(* succeeds; the proofs show what does not depend on them.                 *)
(***************************************************************************)
HdrLinks == [Headers -> Headers \cup {NULL}]
FreeLinks == [Headers -> Headers]
Numbers == [Headers -> Nat]
Content == [Headers -> {<<>>} \cup Sectors]
Marks == [Headers -> Statuses]
Buckets == [0 .. 3 -> Headers \cup {NULL}]

\* The queues q and r differ in hash links at most.
Same(q, r) ==
    /\ r.addr = q.addr /\ r.device = q.device /\ r.status = q.status /\ r.data = q.data
    /\ r.free_prev = q.free_prev /\ r.free_next = q.free_next

\* The headers.
LEMMA HeaderSet ==
  /\ Headers \subseteq Nat /\ HeadHdr \in Headers /\ NULL \notin Headers
  /\ IsFiniteSet(Headers) /\ Headers # {}
<1>1. BUFF_QUEUE_SIZE \in Nat \ {0}
  BY BufferCacheAssumption
<1>2. IsFiniteSet(0 .. BUFF_QUEUE_SIZE - 1)
  BY <1>1, FS_Interval
<1>3. IsFiniteSet(Headers)
  BY <1>2, Zenon DEF Headers
<1>4. \A b \in Headers : b \in Nat
  BY <1>1 DEF Headers
<1>5. HeadHdr \in Headers /\ NULL \notin Nat
  BY <1>1 DEF Headers, HeadHdr, NULL
<1> QED
  BY <1>3, <1>4, <1>5

\* The types of the fields.
LEMMA QueueFields ==
  ASSUME NEW q \in QueueType
  PROVE  /\ q.addr \in Numbers /\ q.device \in Numbers
         /\ q.status \in Marks /\ q.data \in Content
         /\ q.prev \in HdrLinks /\ q.next \in HdrLinks
         /\ q.free_prev \in FreeLinks /\ q.free_next \in FreeLinks
         /\ q.hashtable \in Buckets
BY DEF QueueType, HdrLinks, Buckets, FreeLinks, Numbers, Content, Marks

\* A queue with other hash links; with another free list; with other blocks.
WithLinks(q, p, n, h) == [q EXCEPT !.prev = p, !.next = n, !.hashtable = h]
WithFree(q, p, n) == [q EXCEPT !.free_prev = p, !.free_next = n]
WithBlocks(q, a, d, x, st) == [q EXCEPT !.addr = a, !.device = d, !.data = x, !.status = st]

\* Assignments to hash links.
LEMMA SetLinks ==
  ASSUME NEW q \in QueueType, NEW p \in HdrLinks, NEW n \in HdrLinks, NEW h \in Buckets
  PROVE  /\ WithLinks(q, p, n, h) \in QueueType /\ Same(q, WithLinks(q, p, n, h))
         /\ WithLinks(q, p, n, h).prev = p /\ WithLinks(q, p, n, h).next = n
         /\ WithLinks(q, p, n, h).hashtable = h
BY DEF QueueType, HdrLinks, Buckets, Same, WithLinks

\* Assignments to the links of the free list.
LEMMA SetFree ==
  ASSUME NEW q \in QueueType, NEW p \in FreeLinks, NEW n \in FreeLinks,
         NEW r, r = WithFree(q, p, n)
  PROVE  /\ r \in QueueType /\ r.free_prev = p /\ r.free_next = n
         /\ r.addr = q.addr /\ r.device = q.device /\ r.data = q.data /\ r.status = q.status
         /\ r.prev = q.prev /\ r.next = q.next /\ r.hashtable = q.hashtable
BY DEF QueueType, WithFree, FreeLinks

\* Assignments to what is known of the blocks.
LEMMA SetBlocks ==
  ASSUME NEW q \in QueueType, NEW a \in Numbers, NEW d \in Numbers,
         NEW x \in Content, NEW st \in Marks,
         NEW r, r = WithBlocks(q, a, d, x, st)
  PROVE  /\ r \in QueueType /\ r.addr = a /\ r.device = d /\ r.data = x /\ r.status = st
         /\ r.free_prev = q.free_prev /\ r.free_next = q.free_next
         /\ r.prev = q.prev /\ r.next = q.next /\ r.hashtable = q.hashtable
BY DEF QueueType, WithBlocks, Numbers, Content, Marks

\* A link that is written through a pointer.
LEMMA PutType ==
  ASSUME NEW f \in HdrLinks, NEW x \in Headers \cup {NULL}, NEW v \in Headers \cup {NULL}
  PROVE  Put(f, x, v) \in HdrLinks
BY DEF Put, HdrLinks

\* A turn of the loop that unlinks.
LEMMA UnhashTurnType ==
  ASSUME NEW q \in QueueType, NEW tmp \in Headers, NEW key
  PROVE  LET u == UnhashTurn([q |-> q, tmp |-> tmp], key)
         IN  u \in [q : QueueType, tmp : Headers] /\ Same(q, u.q)
<1> DEFINE p == q.prev[tmp]
           n == q.next[tmp]
           r == [q EXCEPT !.prev[n] = p, !.next = Put(@, p, n)]
           u == UnhashTurn([q |-> q, tmp |-> tmp], key)
<1>1. p \in Headers \cup {NULL} /\ n \in Headers \cup {NULL}
  BY QueueFields DEF HdrLinks
<1>2. CASE n = NULL
  <2>1. u = [q |-> q, tmp |-> tmp]
    BY <1>2 DEF UnhashTurn
  <2> QED
    BY <2>1 DEF Same
<1>3. CASE n # NULL
  <2>1. [q.prev EXCEPT ![n] = p] \in HdrLinks /\ Put(q.next, p, n) \in HdrLinks
    BY <1>1, <1>3, QueueFields, PutType DEF HdrLinks
  <2>2. r = [q EXCEPT !.prev = [q.prev EXCEPT ![n] = p], !.next = Put(q.next, p, n),
                      !.hashtable = q.hashtable]
    BY DEF QueueType
  <2>3. r \in QueueType /\ Same(q, r)
    <3> DEFINE P == [q.prev EXCEPT ![n] = p]
               N == Put(q.next, p, n)
    <3>1. P \in HdrLinks /\ N \in HdrLinks /\ q.hashtable \in Buckets
      BY <2>1, QueueFields
    <3>2. r = WithLinks(q, P, N, q.hashtable)
      BY <2>2 DEF WithLinks
    <3> HIDE DEF r, p, n, P, N
    <3> QED
      BY <3>1, <3>2, SetLinks
  <2>4. u = [q |-> IF Key(q, tmp) # key THEN q ELSE r, tmp |-> n]
    BY <1>3 DEF UnhashTurn
  <2>5. Same(q, q) /\ n \in Headers
    BY <1>1, <1>3 DEF Same
  <2> HIDE DEF r, n, u
  <2>6. CASE Key(q, tmp) # key
    BY <2>4, <2>5, <2>6 DEF u
  <2>7. CASE Key(q, tmp) = key
    BY <2>3, <2>4, <2>5, <2>7 DEF u
  <2> QED
    BY <2>6, <2>7
<1> QED
  BY <1>2, <1>3

\* The loop that unlinks changes hash links only.
LEMMA UnhashType ==
  ASSUME NEW q \in QueueType, NEW head \in Headers, NEW key
  PROVE  Unhash(q, head, key) \in QueueType /\ Same(q, Unhash(q, head, key))
<1> DEFINE D == {st \in [q : QueueType, tmp : Headers] : Same(q, st.q)}
           d == [q |-> q, tmp |-> head]
           step == [st \in D |-> UnhashTurn(st, key)]
           eqn(g) == g = [k \in Nat |-> IF k = 0 THEN d ELSE UnhashTurn(g[k - 1], key)]
           turn == CHOOSE g : eqn(g)
           n == 2 * BUFF_QUEUE_SIZE
<1>1. ASSUME NEW st \in D PROVE UnhashTurn(st, key) \in D
  <2>1. st = [q |-> st.q, tmp |-> st.tmp] /\ st.q \in QueueType /\ st.tmp \in Headers
        /\ Same(q, st.q)
    OBVIOUS
  <2>2. /\ UnhashTurn(st, key) \in [q : QueueType, tmp : Headers]
        /\ Same(st.q, UnhashTurn(st, key).q)
    BY <2>1, UnhashTurnType
  <2>3. Same(q, UnhashTurn(st, key).q)
    BY <2>1, <2>2 DEF Same
  <2> QED
    BY <2>2, <2>3
<1>2. step \in [D -> D] /\ d \in D
  BY <1>1 DEF Same
<1>3. PICK g \in [Nat -> D] : g[0] = d /\ \A k \in Nat : g[k + 1] = step[g[k]]
  <2> HIDE DEF step, D, d
  <2> QED
    BY <1>2, IterationExists
<1> HIDE DEF D, d
<1>4. eqn(g)
  <2>1. ASSUME NEW k \in Nat
        PROVE  g[k] = IF k = 0 THEN d ELSE UnhashTurn(g[k - 1], key)
    <3>1. CASE k = 0
      BY <1>3, <3>1
    <3>2. CASE k # 0
      <4>1. k - 1 \in Nat /\ (k - 1) + 1 = k /\ g[k - 1] \in D
        BY <1>3, <3>2
      <4>2. g[k] = step[g[k - 1]]
        BY <1>3, <4>1
      <4> QED
        BY <3>2, <4>1, <4>2
    <3> QED
      BY <3>1, <3>2
  <2>2. g = [k \in Nat |-> g[k]]
    BY <1>3
  <2> QED
    BY <2>1, <2>2
<1>5. eqn(turn)
  BY <1>4, Zenon
<1>6. Unhash(q, head, key) = turn[n].q
  BY Zenon DEF Unhash, d
<1> HIDE DEF turn
<1> DEFINE S == {k \in Nat : turn[k] \in D}
<1>7. 0 \in S
  BY <1>2, <1>5
<1>8. ASSUME NEW k \in S PROVE k + 1 \in S
  <2>1. k \in Nat /\ k + 1 \in Nat \ {0} /\ (k + 1) - 1 = k /\ turn[k] \in D
    OBVIOUS
  <2>2. turn[k + 1] = UnhashTurn(turn[k], key)
    BY <1>5, <2>1
  <2> QED
    BY <1>1, <2>1, <2>2
<1>9. S \in SUBSET Nat
  OBVIOUS
<1> HIDE DEF S
<1>10. S = Nat
  BY <1>7, <1>8, <1>9, InductionNat
<1>11. n \in Nat
  BY BufferCacheAssumption
<1> HIDE DEF n
<1>12. turn[n] \in D
  BY <1>10, <1>11 DEF S
<1> QED
  BY <1>6, <1>12 DEF D

\* What a loop that looks for an object of S finds.
LEMMA FirstInIs ==
  ASSUME NEW T, NEW t \in Seq(T), NEW S
  PROVE  \/ FirstIn(t, S) = NULL /\ \A i \in DOMAIN t : t[i] \notin S
         \/ \E k \in DOMAIN t : FirstIn(t, S) = t[k] /\ t[k] \in S
<1> DEFINE K == {i \in DOMAIN t : t[i] \in S}
<1>1. CASE K = {}
  BY <1>1 DEF FirstIn
<1>2. CASE K # {}
  <2>1. K \in SUBSET Nat
    OBVIOUS
  <2>2. PICK k \in K : \A j \in K : k <= j
    <3> HIDE DEF K
    <3> QED
      BY <1>2, <2>1, LeastNat
  <2>3. k \in DOMAIN t /\ t[k] \in S /\ \A j \in 1 .. k - 1 : t[j] \notin S
    BY <2>2
  <2> DEFINE c == CHOOSE i \in DOMAIN t : t[i] \in S /\ \A j \in 1 .. i - 1 : t[j] \notin S
  <2>4. c \in DOMAIN t /\ t[c] \in S
    BY <2>3
  <2>5. FirstIn(t, S) = t[c]
    BY <2>3 DEF FirstIn
  <2> HIDE DEF c
  <2> QED
    BY <2>4, <2>5
<1> QED
  BY <1>1, <1>2

\* The walks over the hash chains and over the free list meet headers.
LEMMA HashTrailType ==
  ASSUME NEW q \in QueueType, NEW i \in 0 .. 3
  PROVE  /\ HashTrail(q, i) \in Seq(Headers)
         /\ q.hashtable[i] # NULL => HashTrail(q, i) # <<>>
<1>1. DOMAIN q.next = Headers /\ q.hashtable[i] \in Headers \cup {NULL}
      /\ \A x \in Headers : q.next[x] \in Headers \cup {NULL}
  BY QueueFields DEF HdrLinks, Buckets
<1> QED
  BY <1>1, HeaderSet, TrailType DEF HashTrail

\* A walk along the free list stays among the headers.
LEMMA FreeTrailType ==
  ASSUME NEW q \in QueueType
  PROVE  /\ FreeTrail(q) \in Seq(Headers)
         /\ q.free_next[HeadHdr] # HeadHdr => FreeTrail(q) # <<>>
<1>1. DOMAIN q.free_next = Headers /\ q.free_next[HeadHdr] \in Headers \cup {HeadHdr}
      /\ \A x \in Headers : q.free_next[x] \in Headers \cup {HeadHdr}
  BY QueueFields, HeaderSet DEF FreeLinks
<1> QED
  BY <1>1, HeaderSet, TrailType DEF FreeTrail

\* search_blk gives a header with the key, or NULL.
LEMMA SearchIs ==
  ASSUME NEW q \in QueueType, NEW s, s[2] \in Nat, search_blk(q, s) # NULL
  PROVE  search_blk(q, s) \in Headers /\ Key(q, search_blk(q, s)) = s
<1>1. Bucket(s) \in 0 .. 3
  BY DEF Bucket
<1>2. HashTrail(q, Bucket(s)) \in Seq(Headers)
  BY <1>1, HashTrailType
<1>3. search_blk(q, s) \in Matching(q, s)
  BY <1>2, FirstInIs DEF search_blk
<1> QED
  BY <1>3 DEF Matching

\* The block that get_free_blk takes is a header.
LEMMA FreeChoiceIs ==
  ASSUME NEW q \in QueueType, NEW s
  PROVE  FreeChoice(q, s) \in Headers
<1>1. FreeTrail(q) \in Seq(Headers)
  BY FreeTrailType
<1>2. FirstIn(FreeTrail(q), Matching(q, s)) \in Headers \cup {NULL}
  BY <1>1, FirstInIs
<1>3. q.free_next[HeadHdr] \in Headers
  BY QueueFields, HeaderSet DEF FreeLinks
<1> QED
  BY <1>2, <1>3 DEF FreeChoice

\* The removal from the old chain changes hash links only.
LEMMA RemoveOldType ==
  ASSUME NEW q \in QueueType, NEW b \in Headers, NEW s
  PROVE  RemoveOld(q, b, s) \in QueueType /\ Same(q, RemoveOld(q, b, s))
<1> DEFINE key == <<s[1], q.addr[b]>>
           pos == q.addr[b] % 4
           head == q.hashtable[pos]
           h == [q.hashtable EXCEPT ![pos] = NULL]
<1>1. pos \in 0 .. 3
  <2>1. q.addr[b] \in Nat
    BY QueueFields DEF Numbers
  <2> QED
    BY <2>1
<1>2. head \in Headers \cup {NULL} /\ h \in Buckets
  BY <1>1, QueueFields DEF Buckets
<1>3. Same(q, q)
  BY DEF Same
<1>4. [q EXCEPT !.hashtable[pos] = NULL] = WithLinks(q, q.prev, q.next, h)
  BY DEF WithLinks, QueueType
<1>5. /\ WithLinks(q, q.prev, q.next, h) \in QueueType
      /\ Same(q, WithLinks(q, q.prev, q.next, h))
  <2>1. q.prev \in HdrLinks /\ q.next \in HdrLinks
    BY QueueFields
  <2> HIDE DEF h
  <2> QED
    BY <1>2, <2>1, SetLinks
<1>6. head # NULL => Unhash(q, head, key) \in QueueType /\ Same(q, Unhash(q, head, key))
  BY <1>2, UnhashType
<1>7. \/ RemoveOld(q, b, s) = q
      \/ RemoveOld(q, b, s) = [q EXCEPT !.hashtable[pos] = NULL]
      \/ head # NULL /\ RemoveOld(q, b, s) = Unhash(q, head, key)
  BY Zenon DEF RemoveOld
<1> HIDE DEF head, key, h
<1> QED
  BY <1>3, <1>4, <1>5, <1>6, <1>7

\* add_to_buff_queue gives the block b its new key and changes hash links.
LEMMA AddType ==
  ASSUME NEW q \in QueueType, NEW b \in Headers, NEW s \in Sectors
  PROVE  LET r == add_to_buff_queue(q, b, s)
         IN  /\ r \in QueueType
             /\ r.addr = [q.addr EXCEPT ![b] = s[2]] /\ r.device = [q.device EXCEPT ![b] = s[1]]
             /\ r.status = q.status /\ r.data = q.data
             /\ r.free_prev = q.free_prev /\ r.free_next = q.free_next
<1> DEFINE o == RemoveOld(q, b, s)
           a == [q.addr EXCEPT ![b] = s[2]]
           d == [q.device EXCEPT ![b] = s[1]]
           r == [o EXCEPT !.addr[b] = s[2], !.device[b] = s[1]]
           pos == Bucket(s)
           head == r.hashtable[pos]
           tmp == HashTrail(r, pos)[Len(HashTrail(r, pos))]
           v == [r EXCEPT !.next[b] = NULL, !.prev[b] = b, !.hashtable[pos] = b]
           u == [r EXCEPT !.next[head] = b, !.prev[head] = NULL, !.next[b] = NULL, !.prev[b] = head]
           w == [r EXCEPT !.prev[b] = tmp, !.next[b] = NULL, !.next[tmp] = b]
<1>1. s[1] \in Nat /\ s[2] \in Nat /\ pos \in 0 .. 3
  BY BufferCacheAssumption DEF Bucket
<1>2. o \in QueueType /\ Same(q, o)
  BY RemoveOldType
<1>3. /\ r \in QueueType /\ r.addr = a /\ r.device = d
      /\ r.status = q.status /\ r.data = q.data
      /\ r.free_prev = q.free_prev /\ r.free_next = q.free_next
  <2> HIDE DEF o
  <2>1. a \in Numbers /\ d \in Numbers
    BY <1>1, QueueFields DEF Numbers
  <2>2. o.data \in Content /\ o.status \in Marks
    BY <1>2, QueueFields
  <2>3. r = WithBlocks(o, a, d, o.data, o.status)
    BY <1>2 DEF WithBlocks, QueueType, Same
  <2> HIDE DEF r, a, d
  <2>4. /\ r \in QueueType /\ r.addr = a /\ r.device = d /\ r.data = o.data
        /\ r.status = o.status /\ r.free_prev = o.free_prev /\ r.free_next = o.free_next
    BY <1>2, <2>1, <2>2, <2>3, SetBlocks
  <2> QED
    BY <1>2, <2>4 DEF Same
<1> HIDE DEF r, a, d
<1>4. /\ r.prev \in HdrLinks /\ r.next \in HdrLinks /\ r.hashtable \in Buckets
      /\ head \in Headers \cup {NULL}
  BY <1>1, <1>3, QueueFields DEF Buckets
<1>5. v \in QueueType /\ Same(r, v)
  <2> DEFINE n == [r.next EXCEPT ![b] = NULL]
             p == [r.prev EXCEPT ![b] = b]
             h == [r.hashtable EXCEPT ![pos] = b]
  <2>1. n \in HdrLinks /\ p \in HdrLinks /\ h \in Buckets
    BY <1>1, <1>4 DEF HdrLinks, Buckets
  <2>2. v = WithLinks(r, p, n, h)
    BY <1>3 DEF WithLinks, QueueType
  <2> HIDE DEF n, p, h, v
  <2> QED
    BY <1>3, <2>1, <2>2, SetLinks
<1>6. head # NULL => u \in QueueType /\ Same(r, u)
  <2> SUFFICES ASSUME head # NULL PROVE u \in QueueType /\ Same(r, u)
    OBVIOUS
  <2>1. head \in Headers
    BY <1>4
  <2> HIDE DEF head
  <2> DEFINE n == [[r.next EXCEPT ![head] = b] EXCEPT ![b] = NULL]
             p == [[r.prev EXCEPT ![head] = NULL] EXCEPT ![b] = head]
  <2>2. n \in HdrLinks /\ p \in HdrLinks
    BY <1>4, <2>1 DEF HdrLinks
  <2>3. u = WithLinks(r, p, n, r.hashtable)
    BY <1>3 DEF WithLinks, QueueType
  <2> HIDE DEF u, p, n
  <2> QED
    BY <1>3, <1>4, <2>2, <2>3, SetLinks
<1>8. head # NULL => w \in QueueType /\ Same(r, w)
  <2> SUFFICES ASSUME head # NULL PROVE w \in QueueType /\ Same(r, w)
    OBVIOUS
  <2>1. tmp \in Headers
    <3>1. HashTrail(r, pos) \in Seq(Headers) /\ HashTrail(r, pos) # <<>>
      BY <1>1, <1>3, HashTrailType
    <3> QED
      BY <3>1
  <2> HIDE DEF tmp
  <2> DEFINE n == [[r.next EXCEPT ![b] = NULL] EXCEPT ![tmp] = b]
             p == [r.prev EXCEPT ![b] = tmp]
  <2>2. n \in HdrLinks /\ p \in HdrLinks
    BY <1>4, <2>1 DEF HdrLinks
  <2>3. w = WithLinks(r, p, n, r.hashtable)
    BY <1>3 DEF WithLinks, QueueType
  <2> HIDE DEF w, p, n
  <2> QED
    BY <1>3, <1>4, <2>2, <2>3, SetLinks
<1>7. add_to_buff_queue(q, b, s) = IF head = NULL THEN v ELSE IF r.next[head] = NULL THEN u ELSE w
  BY Zenon DEF add_to_buff_queue, r
<1> HIDE DEF v, u, w, head
<1> QED
  BY <1>3, <1>5, <1>6, <1>7, <1>8 DEF Same, a, d

----------------------------------------------------------------------------
\* The free list is the ring of its head and of the blocks of t.  Stand is
\* who stands at a place of it; the head stands at both ends.
Stand(t, i) == IF i \in 1 .. Len(t) THEN t[i] ELSE HeadHdr

FreeRing(p, n, t) ==
    /\ t \in Seq(Headers)
    /\ \A i \in 1 .. Len(t) : t[i] # HeadHdr
    /\ \A i, j \in 1 .. Len(t) : t[i] = t[j] => i = j
    /\ \A i \in 0 .. Len(t) : n[Stand(t, i)] = Stand(t, i + 1) /\ p[Stand(t, i + 1)] = Stand(t, i)

\* Different places, different headers.
LEMMA StandIs ==
  ASSUME NEW p, NEW n, NEW t, FreeRing(p, n, t)
  PROVE  /\ Len(t) \in Nat /\ \A i \in Int : Stand(t, i) \in Headers
         /\ \A i, j \in 0 .. Len(t) : Stand(t, i) = Stand(t, j) => i = j
         /\ \A i, j \in 1 .. Len(t) + 1 : Stand(t, i) = Stand(t, j) => i = j
BY HeaderSet DEF FreeRing, Stand

\* get_free_blk takes the k-th block off the ring.
LEMMA RingTake ==
  ASSUME NEW p \in FreeLinks, NEW n \in FreeLinks, NEW t, FreeRing(p, n, t),
         NEW k \in 1 .. Len(t)
  PROVE  FreeRing([p EXCEPT ![n[t[k]]] = p[t[k]]], [n EXCEPT ![p[t[k]]] = n[t[k]]],
                  RemoveAt(t, k))
<1> DEFINE u == RemoveAt(t, k)
           pp == [p EXCEPT ![n[t[k]]] = p[t[k]]]
           nn == [n EXCEPT ![p[t[k]]] = n[t[k]]]
<1>1. t \in Seq(Headers) /\ Len(t) \in Nat /\ k \in Nat /\ 1 <= k /\ k <= Len(t)
  BY DEF FreeRing
<1>2. /\ u \in Seq(Headers) /\ Len(u) = Len(t) - 1
      /\ \A i \in 1 .. Len(t) - 1 : u[i] = IF i < k THEN t[i] ELSE t[i + 1]
  BY <1>1, RemoveAtIs
<1> HIDE DEF u
<1>3. ASSUME NEW i \in 0 .. Len(t)
      PROVE  Stand(u, i) = IF i < k THEN Stand(t, i) ELSE Stand(t, i + 1)
  BY <1>1, <1>2 DEF Stand
<1>4. n[t[k]] = Stand(t, k + 1) /\ p[t[k]] = Stand(t, k - 1)
  <2>1. t[k] = Stand(t, k)
    BY <1>1 DEF Stand
  <2>2. k \in 0 .. Len(t) /\ k - 1 \in 0 .. Len(t) /\ (k - 1) + 1 = k
    BY <1>1
  <2> QED
    BY <2>1, <2>2 DEF FreeRing
<1>5. \A i \in 1 .. Len(u) : u[i] # HeadHdr
  BY <1>1, <1>2 DEF FreeRing
<1>6. ASSUME NEW i \in 1 .. Len(u), NEW j \in 1 .. Len(u), u[i] = u[j] PROVE i = j
  <2> DEFINE a == IF i < k THEN i ELSE i + 1
             b == IF j < k THEN j ELSE j + 1
  <2>1. a \in 1 .. Len(t) /\ b \in 1 .. Len(t) /\ u[i] = t[a] /\ u[j] = t[b]
    BY <1>1, <1>2
  <2>2. a = b
    BY <1>6, <2>1 DEF FreeRing
  <2> QED
    BY <1>1, <1>2, <2>2
<1>7. ASSUME NEW i \in 0 .. Len(u)
      PROVE  nn[Stand(u, i)] = Stand(u, i + 1) /\ pp[Stand(u, i + 1)] = Stand(u, i)
  <2>1. i \in 0 .. Len(t) /\ i + 1 \in 0 .. Len(t) /\ i \in Nat
    BY <1>1, <1>2
  <2>2. /\ \A j \in Int : Stand(t, j) \in Headers
        /\ \A j, l \in 0 .. Len(t) : Stand(t, j) = Stand(t, l) => j = l
        /\ \A j, l \in 1 .. Len(t) + 1 : Stand(t, j) = Stand(t, l) => j = l
        /\ \A j \in 0 .. Len(t) : /\ n[Stand(t, j)] = Stand(t, j + 1)
                                  /\ p[Stand(t, j + 1)] = Stand(t, j)
    <3>1. \A j \in 0 .. Len(t) : /\ n[Stand(t, j)] = Stand(t, j + 1)
                                 /\ p[Stand(t, j + 1)] = Stand(t, j)
      BY DEF FreeRing
    <3> QED
      BY StandIs, <3>1
  <2>3. \A x \in Headers : /\ nn[x] = IF x = Stand(t, k - 1) THEN Stand(t, k + 1) ELSE n[x]
                           /\ pp[x] = IF x = Stand(t, k + 1) THEN Stand(t, k - 1) ELSE p[x]
    <3> DEFINE hi == Stand(t, k + 1)
               lo == Stand(t, k - 1)
    <3>1. pp = [p EXCEPT ![hi] = lo] /\ nn = [n EXCEPT ![lo] = hi]
      BY <1>4
    <3> HIDE DEF pp, nn, hi, lo
    <3>2. \A x \in Headers : /\ nn[x] = IF x = lo THEN hi ELSE n[x]
                             /\ pp[x] = IF x = hi THEN lo ELSE p[x]
      BY <3>1 DEF FreeLinks
    <3> QED
      BY <3>2 DEF hi, lo
  <2> HIDE DEF nn, pp
  <2>4. CASE i + 1 < k
    <3>1. Stand(u, i) = Stand(t, i) /\ Stand(u, i + 1) = Stand(t, i + 1)
      BY <1>3, <2>1, <2>4
    <3>2. /\ k - 1 \in 0 .. Len(t) /\ i # k - 1 /\ k + 1 \in 1 .. Len(t) + 1
          /\ i + 1 \in 1 .. Len(t) + 1 /\ i + 1 # k + 1
      BY <1>1, <2>1, <2>4
    <3>3. Stand(t, i) # Stand(t, k - 1) /\ Stand(t, i + 1) # Stand(t, k + 1)
      BY <2>1, <2>2, <3>2
    <3> QED
      BY <2>1, <2>2, <2>3, <3>1, <3>3
  <2>5. CASE i + 1 = k
    <3>1. Stand(u, i) = Stand(t, k - 1) /\ Stand(u, i + 1) = Stand(t, k + 1)
      BY <1>1, <1>3, <2>1, <2>5
    <3>2. k - 1 \in Int /\ k + 1 \in Int
      BY <1>1
    <3> QED
      BY <2>2, <2>3, <3>1, <3>2
  <2>6. CASE i + 1 > k
    <3>1. Stand(u, i) = Stand(t, i + 1) /\ Stand(u, i + 1) = Stand(t, (i + 1) + 1)
      BY <1>1, <1>3, <2>1, <2>6
    <3>2. /\ k - 1 \in 0 .. Len(t) /\ i + 1 # k - 1 /\ k + 1 \in 1 .. Len(t) + 1
          /\ (i + 1) + 1 \in 1 .. Len(t) + 1 /\ (i + 1) + 1 # k + 1
      BY <1>1, <2>1, <2>6
    <3>3. Stand(t, i + 1) # Stand(t, k - 1) /\ Stand(t, (i + 1) + 1) # Stand(t, k + 1)
      BY <2>1, <2>2, <3>2
    <3> QED
      BY <2>1, <2>2, <2>3, <3>1, <3>3
  <2> QED
    BY <1>1, <2>1, <2>4, <2>5, <2>6
<1> HIDE DEF pp, nn
<1>8. FreeRing(pp, nn, u)
  BY <1>2, <1>5, <1>6, <1>7 DEF FreeRing
<1> QED
  BY <1>8 DEF pp, nn, u

\* brelse links a valid block between the last one and the head.
LEMMA RingAppend ==
  ASSUME NEW p \in FreeLinks, NEW n \in FreeLinks, NEW t, FreeRing(p, n, t),
         NEW b \in Headers, b # HeadHdr, \A i \in 1 .. Len(t) : t[i] # b
  PROVE  FreeRing([[p EXCEPT ![b] = p[HeadHdr]] EXCEPT ![HeadHdr] = b],
                  [[n EXCEPT ![b] = HeadHdr] EXCEPT ![p[HeadHdr]] = b], Append(t, b))
<1> DEFINE u == Append(t, b)
           last == p[HeadHdr]
           pp == [[p EXCEPT ![b] = last] EXCEPT ![HeadHdr] = b]
           nn == [[n EXCEPT ![b] = HeadHdr] EXCEPT ![last] = b]
<1>1. t \in Seq(Headers) /\ Len(t) \in Nat
  BY DEF FreeRing
<1>2. /\ u \in Seq(Headers) /\ Len(u) = Len(t) + 1
      /\ \A i \in 1 .. Len(t) + 1 : u[i] = IF i = Len(t) + 1 THEN b ELSE t[i]
  BY <1>1
<1> HIDE DEF u
<1>3. last = Stand(t, Len(t))
  <2>1. HeadHdr = Stand(t, Len(t) + 1) /\ Len(t) \in 0 .. Len(t)
    BY <1>1 DEF Stand
  <2> QED
    BY <2>1 DEF FreeRing
<1>4. /\ \A i \in 0 .. Len(t) : Stand(u, i) = Stand(t, i)
      /\ Stand(u, Len(t) + 1) = b /\ Stand(u, (Len(t) + 1) + 1) = HeadHdr
      /\ Stand(t, Len(t) + 1) = HeadHdr
  BY <1>1, <1>2 DEF Stand
<1>5. \A i \in 1 .. Len(u) : u[i] # HeadHdr
  BY <1>1, <1>2 DEF FreeRing
<1>6. ASSUME NEW i \in 1 .. Len(u), NEW j \in 1 .. Len(u), u[i] = u[j] PROVE i = j
  BY <1>1, <1>2, <1>6 DEF FreeRing
<1>7. ASSUME NEW i \in 0 .. Len(u)
      PROVE  nn[Stand(u, i)] = Stand(u, i + 1) /\ pp[Stand(u, i + 1)] = Stand(u, i)
  <2>1. i \in Nat /\ (i < Len(t) \/ i = Len(t) \/ i = Len(t) + 1)
    BY <1>1, <1>2
  <2>2. /\ \A j \in Int : Stand(t, j) \in Headers
        /\ \A j, l \in 0 .. Len(t) : Stand(t, j) = Stand(t, l) => j = l
        /\ \A j \in 0 .. Len(t) : /\ n[Stand(t, j)] = Stand(t, j + 1)
                                  /\ p[Stand(t, j + 1)] = Stand(t, j)
    BY StandIs DEF FreeRing
  <2>3. \A j \in Int : Stand(t, j) # b
    BY <1>1 DEF Stand
  <2>4. last \in Headers /\ last # b /\ HeadHdr \in Headers
    BY <1>1, <1>3, <2>2, <2>3, HeaderSet
  <2>5. \A x \in Headers :
          /\ nn[x] = IF x = last THEN b ELSE IF x = b THEN HeadHdr ELSE n[x]
          /\ pp[x] = IF x = HeadHdr THEN b ELSE IF x = b THEN last ELSE p[x]
    BY <2>4 DEF FreeLinks
  <2> HIDE DEF nn, pp, last
  <2>6. CASE i < Len(t)
    <3>1. i \in 0 .. Len(t) /\ i + 1 \in 0 .. Len(t) /\ i # Len(t) /\ i + 1 \in 1 .. Len(t)
          /\ Len(t) \in 0 .. Len(t) /\ i \in Int /\ i + 1 \in Int
      BY <1>1, <2>1, <2>6
    <3>2. Stand(t, i) # last
      BY <1>3, <2>2, <3>1
    <3>3. Stand(t, i + 1) # HeadHdr
      BY <3>1 DEF Stand, FreeRing
    <3>4. Stand(u, i) = Stand(t, i) /\ Stand(u, i + 1) = Stand(t, i + 1)
      BY <1>4, <3>1
    <3> QED
      BY <2>2, <2>3, <2>5, <3>1, <3>2, <3>3, <3>4
  <2>7. CASE i = Len(t)
    <3>1. Stand(u, i) = last /\ Stand(u, i + 1) = b
      BY <1>1, <1>3, <1>4, <2>7
    <3> QED
      BY <2>4, <2>5, <3>1
  <2>8. CASE i = Len(t) + 1
    <3>1. Stand(u, i) = b /\ Stand(u, i + 1) = HeadHdr
      BY <1>1, <1>4, <2>8
    <3> QED
      BY <2>4, <2>5, <3>1
  <2> QED
    BY <2>1, <2>6, <2>7, <2>8
<1> HIDE DEF pp, nn
<1>8. FreeRing(pp, nn, u)
  BY <1>2, <1>5, <1>6, <1>7 DEF FreeRing
<1> QED
  BY <1>8 DEF pp, nn, u, last

\* The loop over the ring meets its blocks.
LEMMA RingTrail ==
  ASSUME NEW q \in QueueType, NEW t, FreeRing(q.free_prev, q.free_next, t)
  PROVE  /\ FreeTrail(q) = t /\ FreeSet(q) = {t[i] : i \in 1 .. Len(t)}
         /\ Ends(q.free_next, q.free_next[HeadHdr], HeadHdr)
<1> DEFINE n == q.free_next
<1>1. n \in [Headers -> Headers] /\ DOMAIN n = Headers
  BY QueueFields DEF FreeLinks
<1>2. t \in Seq(Headers) /\ Len(t) \in Nat /\ DOMAIN t = 1 .. Len(t)
  BY DEF FreeRing
<1>3. /\ \A i \in 0 .. Len(t) : n[Stand(t, i)] = Stand(t, i + 1)
      /\ \A i \in 1 .. Len(t) : t[i] # HeadHdr
      /\ \A i, j \in 1 .. Len(t) : t[i] = t[j] => i = j
  BY DEF FreeRing
<1> HIDE DEF n
<1>4. n[HeadHdr] = Stand(t, 1)
  <2>1. Stand(t, 0) = HeadHdr /\ 0 \in 0 .. Len(t) /\ 0 + 1 = 1
    BY <1>2 DEF Stand
  <2> QED
    BY <1>3, <2>1
<1>5. Chain(n, n[HeadHdr], HeadHdr, t)
  <2>1. t = <<>> => n[HeadHdr] = HeadHdr
    BY <1>2, <1>4 DEF Stand
  <2>2. t # <<>> => t[1] = n[HeadHdr] /\ n[t[Len(t)]] = HeadHdr
    <3> SUFFICES ASSUME t # <<>> PROVE t[1] = n[HeadHdr] /\ n[t[Len(t)]] = HeadHdr
      OBVIOUS
    <3>1. Len(t) \in 1 .. Len(t) /\ 1 \in 1 .. Len(t) /\ Len(t) \in 0 .. Len(t)
      BY <1>2
    <3>2. Stand(t, Len(t)) = t[Len(t)] /\ Stand(t, 1) = t[1] /\ Stand(t, Len(t) + 1) = HeadHdr
      BY <1>2, <3>1 DEF Stand
    <3> QED
      BY <1>3, <1>4, <3>1, <3>2
  <2>3. ASSUME NEW i \in 1 .. Len(t) - 1 PROVE n[t[i]] = t[i + 1]
    <3>1. i \in 0 .. Len(t) /\ Stand(t, i) = t[i] /\ Stand(t, i + 1) = t[i + 1]
      BY <1>2 DEF Stand
    <3> QED
      BY <1>3, <3>1
  <2> QED
    BY <1>1, <1>2, <1>3, <2>1, <2>2, <2>3 DEF Chain
<1>6. Trail(n, n[HeadHdr], HeadHdr) = t
  BY <1>1, <1>5, HeaderSet, TrailIs
<1>7. FreeTrail(q) = t
  BY <1>6 DEF FreeTrail, n
<1>8. FreeSet(q) = {t[i] : i \in 1 .. Len(t)}
  BY <1>2, <1>7 DEF FreeSet
<1>9. Ends(n, n[HeadHdr], HeadHdr)
  <2>1. t # <<>> => n[t[Len(t)]] = HeadHdr
    BY <1>5 DEF Chain
  <2> QED
    BY <1>6, <2>1 DEF Ends, Last
<1> QED
  BY <1>7, <1>8, <1>9 DEF n

\* The queue after a read into the block b; after a lookup that gave b.
Missed(q, b, s) ==
    [add_to_buff_queue(get_free_blk(q, b), b, s) EXCEPT
        !.data[b] = IF get_free_blk(q, b).status[b] = "VALID" THEN @ ELSE s, !.status[b] = "VALID"]
Hit(q, b, s) == [blk_remove_from_freelist(q, s) EXCEPT !.status[b] = "VALID"]

\* From q to r, b leaves the free list and becomes the block of sector s; it
\* returns to the free list; nothing but hash links and a mark changes.
Takes(q, r, b, s) ==
    /\ r.addr = [q.addr EXCEPT ![b] = s[2]] /\ r.device = [q.device EXCEPT ![b] = s[1]]
    /\ r.data = [q.data EXCEPT ![b] = IF q.status[b] = "VALID" THEN q.data[b] ELSE s]
    /\ r.status = [q.status EXCEPT ![b] = "VALID"]
    /\ r.free_prev = [q.free_prev EXCEPT ![q.free_next[b]] = q.free_prev[b]]
    /\ r.free_next = [q.free_next EXCEPT ![q.free_prev[b]] = q.free_next[b]]

Gives(q, r, b) ==
    /\ r.addr = q.addr /\ r.device = q.device /\ r.data = q.data
    /\ r.status = [q.status EXCEPT ![b] = "UNLOCKED"]
    /\ r.next = q.next /\ r.hashtable = q.hashtable
    /\ q.status[b] = "VALID" =>
         /\ r.free_prev = [[q.free_prev EXCEPT ![b] = q.free_prev[HeadHdr]] EXCEPT ![HeadHdr] = b]
         /\ r.free_next = [[q.free_next EXCEPT ![b] = HeadHdr] EXCEPT ![q.free_prev[HeadHdr]] = b]

Keeps(q, r, b) ==
    /\ r.addr = q.addr /\ r.device = q.device /\ r.data = q.data
    /\ r.free_prev = q.free_prev /\ r.free_next = q.free_next
    /\ r.status = [q.status EXCEPT ![b] = "VALID"]

\* bread of a sector that is not in the cache, as a change of the queue.
LEMMA MissQueue ==
  ASSUME NEW q \in QueueType, NEW b \in Headers, NEW s \in Sectors
  PROVE  Missed(q, b, s) \in QueueType /\ Takes(q, Missed(q, b, s), b, s)
<1> DEFINE p == [q.free_prev EXCEPT ![q.free_next[b]] = q.free_prev[b]]
           n == [q.free_next EXCEPT ![q.free_prev[b]] = q.free_next[b]]
           g == get_free_blk(q, b)
           a == add_to_buff_queue(g, b, s)
           r == Missed(q, b, s)
<1>1. p \in FreeLinks /\ n \in FreeLinks
  BY QueueFields DEF FreeLinks
<1>2. g = WithFree(q, p, n)
  BY DEF get_free_blk, WithFree, QueueType
<1> HIDE DEF p, n, g
<1>3. /\ g \in QueueType /\ g.free_prev = p /\ g.free_next = n
      /\ g.addr = q.addr /\ g.device = q.device /\ g.data = q.data /\ g.status = q.status
  BY <1>1, <1>2, SetFree
<1>4. /\ a \in QueueType
      /\ a.addr = [g.addr EXCEPT ![b] = s[2]] /\ a.device = [g.device EXCEPT ![b] = s[1]]
      /\ a.status = g.status /\ a.data = g.data
      /\ a.free_prev = g.free_prev /\ a.free_next = g.free_next
  BY <1>3, AddType
<1>5. r = [a EXCEPT !.data[b] = IF g.status[b] = "VALID" THEN @ ELSE s, !.status[b] = "VALID"]
  BY DEF g, Missed
<1> HIDE DEF a, r
<1> DEFINE x == [a.data EXCEPT ![b] = IF g.status[b] = "VALID" THEN @ ELSE s]
           st == [a.status EXCEPT ![b] = "VALID"]
<1>6. x \in Content /\ st \in Marks /\ a.addr \in Numbers /\ a.device \in Numbers
  BY <1>4, QueueFields DEF Content, Marks, Statuses
<1>7. r = WithBlocks(a, a.addr, a.device, x, st)
  BY <1>4, <1>5 DEF WithBlocks, QueueType
<1>8. /\ r \in QueueType /\ r.addr = a.addr /\ r.device = a.device /\ r.data = x /\ r.status = st
      /\ r.free_prev = a.free_prev /\ r.free_next = a.free_next
  <2> HIDE DEF x, st
  <2> QED
    BY <1>4, <1>6, <1>7, SetBlocks
<1>9. r \in QueueType /\ Takes(q, r, b, s)
  BY <1>3, <1>4, <1>8 DEF p, n, Takes
<1> QED
  BY <1>9 DEF r

\* A hit: whatever becomes of the hash links, blocks and free list stay as
\* they were.
LEMMA HitQueue ==
  ASSUME NEW q \in QueueType, NEW b \in Headers, NEW s
  PROVE  Hit(q, b, s) \in QueueType /\ Keeps(q, Hit(q, b, s), b)
<1> DEFINE c == FirstIn(FreeTrail(q), Matching(q, s))
           u == blk_remove_from_freelist(q, s)
           st == [u.status EXCEPT ![b] = "VALID"]
           r == Hit(q, b, s)
<1>1. c \in Headers \cup {NULL}
  BY FreeTrailType, FirstInIs
<1>2. u \in QueueType /\ Same(q, u)
  <2>1. CASE c = NULL
    BY <2>1 DEF blk_remove_from_freelist, Same
  <2>2. CASE c # NULL
    <3> HIDE DEF c
    <3> DEFINE pp == [q.prev EXCEPT ![q.free_next[c]] = q.free_prev[c]]
               nn == [q.next EXCEPT ![q.free_prev[c]] = q.free_next[c]]
    <3>1. c \in Headers /\ q.free_next[c] \in Headers /\ q.free_prev[c] \in Headers
      BY <1>1, <2>2, QueueFields DEF FreeLinks
    <3>2. pp \in HdrLinks /\ nn \in HdrLinks /\ q.hashtable \in Buckets
      BY <3>1, QueueFields DEF HdrLinks
    <3>3. u = WithLinks(q, pp, nn, q.hashtable)
      BY <2>2 DEF blk_remove_from_freelist, WithLinks, QueueType, c
    <3> HIDE DEF pp, nn, u
    <3> QED
      BY <3>2, <3>3, SetLinks
  <2> QED
    BY <2>1, <2>2
<1>3. r = [u EXCEPT !.status[b] = "VALID"]
  BY DEF Hit
<1> HIDE DEF u, r
<1>4. st \in Marks /\ u.addr \in Numbers /\ u.device \in Numbers /\ u.data \in Content
  BY <1>2, QueueFields DEF Marks, Statuses
<1>5. r = WithBlocks(u, u.addr, u.device, u.data, st)
  BY <1>2, <1>3 DEF WithBlocks, QueueType
<1>6. /\ r \in QueueType /\ r.addr = u.addr /\ r.device = u.device /\ r.data = u.data
      /\ r.free_prev = u.free_prev /\ r.free_next = u.free_next /\ r.status = st
  <2> HIDE DEF st
  <2> QED
    BY <1>2, <1>4, <1>5, SetBlocks
<1>7. r \in QueueType /\ Keeps(q, r, b)
  BY <1>2, <1>6 DEF Same, Keeps
<1> QED
  BY <1>7 DEF r

\* brelse, as a change of the queue.
LEMMA ReleasedQueue ==
  ASSUME NEW q \in QueueType, NEW b \in Headers
  PROVE  Released(q, b) \in QueueType /\ Gives(q, Released(q, b), b)
<1> DEFINE last == q.free_prev[HeadHdr]
           first == q.free_next[HeadHdr]
           pv == [[q.free_prev EXCEPT ![b] = last] EXCEPT ![HeadHdr] = b]
           nv == [[q.free_next EXCEPT ![b] = HeadHdr] EXCEPT ![last] = b]
           po == [[q.free_prev EXCEPT ![b] = HeadHdr] EXCEPT ![first] = b]
           no == [[q.free_next EXCEPT ![b] = first] EXCEPT ![HeadHdr] = b]
           u == IF q.status[b] = "VALID"
                THEN [q EXCEPT !.free_prev[b] = last, !.free_next[b] = HeadHdr,
                               !.free_prev[HeadHdr] = b, !.free_next[last] = b]
                ELSE [q EXCEPT !.free_next[b] = first, !.free_prev[b] = HeadHdr,
                               !.free_next[HeadHdr] = b, !.free_prev[first] = b]
           p == IF q.status[b] = "VALID" THEN pv ELSE po
           n == IF q.status[b] = "VALID" THEN nv ELSE no
           st == [q.status EXCEPT ![b] = "UNLOCKED"]
           r == Released(q, b)
<1>1. HeadHdr \in Headers /\ last \in Headers /\ first \in Headers
  BY QueueFields, HeaderSet DEF FreeLinks
<1>2. pv \in FreeLinks /\ nv \in FreeLinks /\ po \in FreeLinks /\ no \in FreeLinks
  <2> HIDE DEF last, first
  <2> QED
    BY <1>1, QueueFields DEF FreeLinks
<1>3. p \in FreeLinks /\ n \in FreeLinks
  <2> HIDE DEF pv, nv, po, no
  <2> QED
    BY <1>2
<1>4. u = WithFree(q, p, n)
  <2>1. CASE q.status[b] = "VALID"
    <3> HIDE DEF last
    <3> QED
      BY <2>1 DEF WithFree, QueueType
  <2>2. CASE q.status[b] # "VALID"
    <3> HIDE DEF first
    <3> QED
      BY <2>2 DEF WithFree, QueueType
  <2> QED
    BY <2>1, <2>2
<1>5. r = [u EXCEPT !.status[b] = "UNLOCKED"]
  BY DEF Released
<1> HIDE DEF u, p, n, r
<1>6. /\ u \in QueueType /\ u.free_prev = p /\ u.free_next = n
      /\ u.addr = q.addr /\ u.device = q.device /\ u.data = q.data /\ u.status = q.status
      /\ u.next = q.next /\ u.hashtable = q.hashtable
  BY <1>3, <1>4, SetFree
<1>7. st \in Marks /\ u.addr \in Numbers /\ u.device \in Numbers /\ u.data \in Content
  BY <1>6, QueueFields DEF Marks, Statuses
<1>8. r = WithBlocks(u, u.addr, u.device, u.data, st)
  BY <1>5, <1>6 DEF WithBlocks, QueueType
<1>9. /\ r \in QueueType /\ r.addr = u.addr /\ r.device = u.device /\ r.data = u.data
      /\ r.status = st /\ r.free_prev = u.free_prev /\ r.free_next = u.free_next
      /\ r.next = u.next /\ r.hashtable = u.hashtable
  <2> HIDE DEF st
  <2> QED
    BY <1>6, <1>7, <1>8, SetBlocks
<1>10. q.status[b] = "VALID" => p = pv /\ n = nv
  BY Zenon DEF p, n
<1>11. r \in QueueType /\ Gives(q, r, b)
  BY <1>6, <1>9, <1>10 DEF Gives
<1> QED
  BY <1>11 DEF r

(***************************************************************************)
(* Until a lookup succeeds, the free list is a ring of the blocks that are *)
(* not held, and the blocks held are valid and different: brelse appends   *)
(* to the ring.                                                            *)
(***************************************************************************)
Rest(t, h) ==
    \A b \in Headers : (\E i \in 1 .. Len(t) : t[i] = b)
                         <=> (b # HeadHdr /\ \A j \in 1 .. Len(h) : h[j].buf # b)

BufRing(q, h) ==
    /\ \A i \in 1 .. Len(h) : h[i].buf # HeadHdr
    /\ \A i, j \in 1 .. Len(h) : h[i].buf = h[j].buf => i = j
    /\ \A i \in 1 .. Len(h) : q.status[h[i].buf] = "VALID"
    /\ \E t : FreeRing(q.free_prev, q.free_next, t) /\ Rest(t, h)

BufInv ==
    /\ BufTypeOK /\ (~bhits => BufRing(bq, bheld))
    /\ bkernel /\ bcalls # 3 => Len(bheld) <= 1

\* create_hash_queue links the headers in the order of their numbers.
LEMMA BufStart == BufInit => BufInv
<1> SUFFICES ASSUME BufInit PROVE BufInv
  OBVIOUS
<1> DEFINE q == create_hash_queue
           m == BUFF_QUEUE_SIZE - 1
           t == [i \in 1 .. m |-> i]
<1>1. m \in Nat /\ BUFF_QUEUE_SIZE \in Nat \ {0} /\ Headers = 0 .. m /\ HeadHdr = 0 /\ BufMaxHeld \in Nat
  BY BufferCacheAssumption DEF Headers, HeadHdr
<1>2. q \in QueueType
  <2> HIDE DEF m
  <2>1. \A b \in Headers : b \in Nat /\ (b # HeadHdr => b - 1 \in Headers) /\ (b # m => b + 1 \in Headers)
    BY <1>1
  <2>2. m \in Headers /\ HeadHdr \in Headers
    BY <1>1
  <2>3. /\ [b \in Headers |-> IF b = HeadHdr THEN m ELSE b - 1] \in FreeLinks
        /\ [b \in Headers |-> IF b = m THEN HeadHdr ELSE b + 1] \in FreeLinks
    BY <2>1, <2>2 DEF FreeLinks
  <2>4. /\ [b \in Headers |-> 0] \in Numbers /\ [b \in Headers |-> NULL] \in HdrLinks
        /\ [b \in Headers |-> <<>>] \in Content /\ [i \in 0 .. 3 |-> NULL] \in Buckets
        /\ [b \in Headers |-> IF b = HeadHdr THEN "HEAD" ELSE "NONE"] \in Marks
    BY DEF Numbers, HdrLinks, Content, Buckets, Marks, Statuses
  <2>5. q = [addr |-> [b \in Headers |-> 0], device |-> [b \in Headers |-> 0],
             status |-> [b \in Headers |-> IF b = HeadHdr THEN "HEAD" ELSE "NONE"],
             data |-> [b \in Headers |-> <<>>],
             prev |-> [b \in Headers |-> NULL], next |-> [b \in Headers |-> NULL],
             free_prev |-> [b \in Headers |-> IF b = HeadHdr THEN m ELSE b - 1],
             free_next |-> [b \in Headers |-> IF b = m THEN HeadHdr ELSE b + 1],
             hashtable |-> [i \in 0 .. 3 |-> NULL]]
    BY DEF create_hash_queue, m
  <2>6. QueueType = [addr : Numbers, device : Numbers, status : Marks, data : Content,
                     prev : HdrLinks, next : HdrLinks, free_prev : FreeLinks,
                     free_next : FreeLinks, hashtable : Buckets]
    BY DEF QueueType, Numbers, Marks, Content, HdrLinks, FreeLinks, Buckets
  <2> QED
    BY <2>3, <2>4, <2>5, <2>6
<1>3. /\ q.free_prev = [b \in Headers |-> IF b = HeadHdr THEN m ELSE b - 1]
      /\ q.free_next = [b \in Headers |-> IF b = m THEN HeadHdr ELSE b + 1]
  BY DEF create_hash_queue
<1>4. t \in Seq(Headers) /\ Len(t) = m /\ \A i \in 1 .. m : t[i] = i
  <2>1. \A i \in 1 .. m : i \in Headers
    BY <1>1
  <2> HIDE DEF m
  <2> QED
    BY <1>1, <2>1
<1> HIDE DEF q, m, t
<1>5. FreeRing(q.free_prev, q.free_next, t)
  <2>1. \A i \in 0 .. m : Stand(t, i) = i /\ Stand(t, i + 1) = IF i = m THEN 0 ELSE i + 1
    BY <1>1, <1>4 DEF Stand
  <2>2. ASSUME NEW i \in 0 .. m
        PROVE  /\ q.free_next[Stand(t, i)] = Stand(t, i + 1)
               /\ q.free_prev[Stand(t, i + 1)] = Stand(t, i)
    <3>1. i \in Headers /\ (i # m => i + 1 \in Headers) /\ 0 \in Headers
      BY <1>1
    <3> QED
      BY <1>1, <1>3, <2>1, <3>1
  <2> QED
    BY <1>1, <1>4, <2>2 DEF FreeRing
<1>6. /\ bq = q /\ bheld = <<>> /\ bhung = FALSE /\ bhits = FALSE
      /\ bkernel \in BOOLEAN /\ bcalls = 0
  BY Zenon DEF BufInit, q
<1>7. Rest(t, bheld)
  BY <1>1, <1>4, <1>6 DEF Rest
<1>8. BufRing(bq, bheld)
  BY <1>5, <1>6, <1>7 DEF BufRing
<1>9. BufTypeOK
  <2>1. bheld \in Seq([buf : Headers, sec : Sectors]) /\ Len(bheld) = 0
    BY <1>6
  <2>2. /\ bheld \in Seq([buf : Headers, sec : Sectors])
        /\ Len(bheld) <= IF bkernel THEN 2 ELSE BufMaxHeld
    BY <1>1, <2>1
  <2>3. bq \in QueueType /\ bcalls \in 0 .. 3
    BY <1>2, <1>6
  <2> QED
    BY <1>6, <2>2, <2>3, Zenon DEF BufTypeOK
<1>10. Len(bheld) <= 1
  BY <1>6
<1> QED
  BY <1>8, <1>9, <1>10 DEF BufInv

\* What the ring loses when its k-th block is taken.
LEMMA RestTake ==
  ASSUME NEW T, NEW t \in Seq(Headers), NEW h \in Seq(T), NEW k \in 1 .. Len(t), NEW e,
         e.buf = t[k], Rest(t, h), \A i, j \in 1 .. Len(t) : t[i] = t[j] => i = j
  PROVE  Rest(RemoveAt(t, k), Append(h, e))
<1> DEFINE u == RemoveAt(t, k)
           g == Append(h, e)
<1>1. Len(t) \in Nat /\ k \in Nat /\ 1 <= k /\ k <= Len(t) /\ Len(h) \in Nat
  OBVIOUS
<1>2. Len(u) = Len(t) - 1 /\ \A i \in 1 .. Len(t) - 1 : u[i] = IF i < k THEN t[i] ELSE t[i + 1]
  BY RemoveAtIs
<1>3. Len(g) = Len(h) + 1 /\ g[Len(h) + 1] = e /\ \A j \in 1 .. Len(h) : g[j] = h[j]
  OBVIOUS
<1> HIDE DEF u, g
<1> SUFFICES ASSUME NEW b \in Headers
             PROVE  (\E i \in 1 .. Len(u) : u[i] = b)
                      <=> (b # HeadHdr /\ \A j \in 1 .. Len(g) : g[j].buf # b)
  BY DEF Rest, u, g
<1>4. (\A j \in 1 .. Len(g) : g[j].buf # b) <=> (t[k] # b /\ \A j \in 1 .. Len(h) : h[j].buf # b)
  BY <1>1, <1>3
<1>5. (\E i \in 1 .. Len(u) : u[i] = b) <=> (t[k] # b /\ \E i \in 1 .. Len(t) : t[i] = b)
  <2>1. ASSUME NEW i \in 1 .. Len(u), u[i] = b
        PROVE  t[k] # b /\ \E j \in 1 .. Len(t) : t[j] = b
    <3>1. CASE i < k
      <4>1. i \in 1 .. Len(t) /\ t[i] = b /\ i # k
        BY <1>1, <1>2, <2>1, <3>1
      <4> QED
        BY <4>1
    <3>2. CASE ~(i < k)
      <4>1. i + 1 \in 1 .. Len(t) /\ t[i + 1] = b /\ i + 1 # k
        BY <1>1, <1>2, <2>1, <3>2
      <4> QED
        BY <4>1
    <3> QED
      BY <3>1, <3>2
  <2>2. ASSUME t[k] # b, NEW j \in 1 .. Len(t), t[j] = b
        PROVE  \E i \in 1 .. Len(u) : u[i] = b
    <3>1. CASE j < k
      <4>1. j \in 1 .. Len(u) /\ u[j] = b
        BY <1>1, <1>2, <2>2, <3>1
      <4> QED
        BY <4>1
    <3>2. CASE ~(j < k)
      <4>1. j # k
        BY <2>2
      <4>2. j - 1 \in 1 .. Len(u) /\ u[j - 1] = b
        BY <1>1, <1>2, <2>2, <3>2, <4>1
      <4> QED
        BY <4>2
    <3> QED
      BY <3>1, <3>2
  <2> QED
    BY <2>1, <2>2
<1> QED
  BY <1>4, <1>5 DEF Rest

\* And what it gains when the i-th of the blocks held is released.
LEMMA RestGive ==
  ASSUME NEW T, NEW t \in Seq(Headers), NEW h \in Seq(T), NEW i \in 1 .. Len(h),
         Rest(t, h), \A x, y \in 1 .. Len(h) : h[x].buf = h[y].buf => x = y,
         h[i].buf # HeadHdr
  PROVE  Rest(Append(t, h[i].buf), RemoveAt(h, i))
<1> DEFINE u == Append(t, h[i].buf)
           g == RemoveAt(h, i)
<1>1. Len(h) \in Nat /\ i \in Nat /\ 1 <= i /\ i <= Len(h) /\ Len(t) \in Nat
  OBVIOUS
<1>2. Len(g) = Len(h) - 1 /\ \A j \in 1 .. Len(h) - 1 : g[j] = IF j < i THEN h[j] ELSE h[j + 1]
  BY RemoveAtIs
<1>3. Len(u) = Len(t) + 1 /\ u[Len(t) + 1] = h[i].buf /\ \A j \in 1 .. Len(t) : u[j] = t[j]
  OBVIOUS
<1> HIDE DEF u, g
<1> SUFFICES ASSUME NEW b \in Headers
             PROVE  (\E j \in 1 .. Len(u) : u[j] = b)
                      <=> (b # HeadHdr /\ \A j \in 1 .. Len(g) : g[j].buf # b)
  BY DEF Rest, u, g
<1>4. (\E j \in 1 .. Len(u) : u[j] = b) <=> (h[i].buf = b \/ \E j \in 1 .. Len(t) : t[j] = b)
  BY <1>1, <1>3
<1>5. (\E j \in 1 .. Len(g) : g[j].buf = b) <=> (h[i].buf # b /\ \E j \in 1 .. Len(h) : h[j].buf = b)
  <2>1. ASSUME NEW j \in 1 .. Len(g), g[j].buf = b
        PROVE  h[i].buf # b /\ \E l \in 1 .. Len(h) : h[l].buf = b
    <3>1. CASE j < i
      <4>1. j \in 1 .. Len(h) /\ h[j].buf = b /\ j # i
        BY <1>1, <1>2, <2>1, <3>1
      <4> QED
        BY <4>1
    <3>2. CASE ~(j < i)
      <4>1. j + 1 \in 1 .. Len(h) /\ h[j + 1].buf = b /\ j + 1 # i
        BY <1>1, <1>2, <2>1, <3>2
      <4> QED
        BY <4>1
    <3> QED
      BY <3>1, <3>2
  <2>2. ASSUME h[i].buf # b, NEW l \in 1 .. Len(h), h[l].buf = b
        PROVE  \E j \in 1 .. Len(g) : g[j].buf = b
    <3>1. CASE l < i
      <4>1. l \in 1 .. Len(g) /\ g[l].buf = b
        BY <1>1, <1>2, <2>2, <3>1
      <4> QED
        BY <4>1
    <3>2. CASE ~(l < i)
      <4>1. l # i
        BY <2>2
      <4>2. l - 1 \in 1 .. Len(g) /\ g[l - 1].buf = b
        BY <1>1, <1>2, <2>2, <3>2, <4>1
      <4> QED
        BY <4>2
    <3> QED
      BY <3>1, <3>2
  <2> QED
    BY <2>1, <2>2
<1> QED
  BY <1>4, <1>5 DEF Rest

\* What bread has returned.
LEMMA HeldType ==
  ASSUME NEW h \in Seq([buf : Headers, sec : Sectors]), NEW i \in 1 .. Len(h)
  PROVE  h[i].buf \in Headers /\ h[i].sec \in Sectors
<1>1. h[i] \in [buf : Headers, sec : Sectors]
  BY ElementOfSeq
<1> QED
  BY <1>1

\* bread of a sector that is not in the cache.
LEMMA RingMiss ==
  ASSUME NEW q \in QueueType, NEW h \in Seq([buf : Headers, sec : Sectors]), BufRing(q, h),
         NEW s \in Sectors, q.free_next[HeadHdr] # HeadHdr,
         NEW b, b = FreeChoice(q, s), NEW r, r = Missed(q, b, s)
  PROVE  BufRing(r, Append(h, [buf |-> b, sec |-> s]))
<1> DEFINE e == [buf |-> b, sec |-> s]
           g == Append(h, e)
<1>1. PICK t : FreeRing(q.free_prev, q.free_next, t) /\ Rest(t, h)
  BY DEF BufRing
<1>2. /\ t \in Seq(Headers) /\ Len(t) \in Nat /\ DOMAIN t = 1 .. Len(t)
      /\ \A i, j \in 1 .. Len(t) : t[i] = t[j] => i = j
  BY <1>1 DEF FreeRing
<1>3. FreeTrail(q) = t
  BY <1>1, RingTrail
<1>4. PICK k \in 1 .. Len(t) : b = t[k]
  <2> DEFINE c == FirstIn(t, Matching(q, s))
  <2>1. b = IF c = NULL THEN q.free_next[HeadHdr] ELSE c
    BY <1>3 DEF FreeChoice
  <2>2. c = NULL \/ \E k \in 1 .. Len(t) : c = t[k]
    BY <1>2, FirstInIs
  <2>3. q.free_next[HeadHdr] = Stand(t, 1)
    <3>1. Stand(t, 0) = HeadHdr /\ 0 \in 0 .. Len(t) /\ 0 + 1 = 1
      BY <1>2 DEF Stand
    <3> QED
      BY <1>1, <3>1 DEF FreeRing
  <2>4. 1 \in 1 .. Len(t) /\ q.free_next[HeadHdr] = t[1]
    BY <1>2, <2>3 DEF Stand
  <2> HIDE DEF c
  <2> QED
    BY <2>1, <2>2, <2>4
<1>5. b \in Headers
  BY <1>2, <1>4
<1>6. /\ r.status = [q.status EXCEPT ![b] = "VALID"]
      /\ r.free_prev = [q.free_prev EXCEPT ![q.free_next[b]] = q.free_prev[b]]
      /\ r.free_next = [q.free_next EXCEPT ![q.free_prev[b]] = q.free_next[b]]
  <2>1. Takes(q, r, b, s)
    BY <1>5, MissQueue
  <2> QED
    BY <2>1 DEF Takes
<1>7. FreeRing(r.free_prev, r.free_next, RemoveAt(t, k))
  BY <1>1, <1>4, <1>6, RingTake, QueueFields
<1>8. Rest(RemoveAt(t, k), g)
  BY <1>1, <1>2, <1>4, RestTake
<1>9. ASSUME NEW j \in 1 .. Len(h) PROVE h[j].buf # b /\ h[j].buf \in Headers
  <2>1. h[j].buf \in Headers
    BY HeldType
  <2>2. \A l \in 1 .. Len(h) : h[l].buf # b
    BY <1>1, <1>4, <1>5 DEF Rest
  <2> QED
    BY <2>1, <2>2
<1>10. /\ Len(h) \in Nat /\ Len(g) = Len(h) + 1 /\ g[Len(h) + 1].buf = b
       /\ \A j \in 1 .. Len(h) : g[j] = h[j]
  OBVIOUS
<1>11. \A x \in Headers : r.status[x] = IF x = b THEN "VALID" ELSE q.status[x]
  BY <1>6, QueueFields DEF Marks
<1> HIDE DEF g
<1>0. b # HeadHdr
  BY <1>1, <1>4 DEF FreeRing
<1>12. /\ \A i, j \in 1 .. Len(g) : g[i].buf = g[j].buf => i = j
       /\ \A i \in 1 .. Len(g) : g[i].buf # HeadHdr
  BY <1>0, <1>9, <1>10 DEF BufRing
<1>13. \A i \in 1 .. Len(g) : r.status[g[i].buf] = "VALID"
  BY <1>5, <1>9, <1>10, <1>11 DEF BufRing
<1>14. BufRing(r, g)
  BY <1>7, <1>8, <1>12, <1>13 DEF BufRing
<1> QED
  BY <1>14 DEF g

\* brelse of the i-th block held.
LEMMA RingRelease ==
  ASSUME NEW q \in QueueType, NEW h \in Seq([buf : Headers, sec : Sectors]), BufRing(q, h),
         NEW i \in 1 .. Len(h), NEW r, r = Released(q, h[i].buf)
  PROVE  BufRing(r, RemoveAt(h, i))
<1> DEFINE b == h[i].buf
           g == RemoveAt(h, i)
<1>1. PICK t : FreeRing(q.free_prev, q.free_next, t) /\ Rest(t, h)
  BY DEF BufRing
<1>2. /\ \A x, y \in 1 .. Len(h) : h[x].buf = h[y].buf => x = y
      /\ \A x \in 1 .. Len(h) : q.status[h[x].buf] = "VALID" /\ h[x].buf \in Headers
  BY HeldType, Zenon DEF BufRing
<1>3. b \in Headers /\ q.status[b] = "VALID"
  BY <1>2
<1>4. b # HeadHdr /\ \A j \in 1 .. Len(t) : t[j] # b
  BY <1>1, <1>3 DEF Rest, BufRing
<1>5. /\ r.status = [q.status EXCEPT ![b] = "UNLOCKED"]
      /\ r.free_prev = [[q.free_prev EXCEPT ![b] = q.free_prev[HeadHdr]] EXCEPT ![HeadHdr] = b]
      /\ r.free_next = [[q.free_next EXCEPT ![b] = HeadHdr] EXCEPT ![q.free_prev[HeadHdr]] = b]
  <2>1. Gives(q, r, b)
    BY <1>3, ReleasedQueue
  <2> QED
    BY <1>3, <2>1 DEF Gives
<1>6. FreeRing(r.free_prev, r.free_next, Append(t, b))
  <2>1. q.free_prev \in FreeLinks /\ q.free_next \in FreeLinks
    BY QueueFields
  <2> HIDE DEF b
  <2> QED
    BY <1>1, <1>3, <1>4, <1>5, <2>1, RingAppend
<1>7. Rest(Append(t, b), g)
  <2>1. t \in Seq(Headers)
    BY <1>1 DEF FreeRing
  <2> QED
    BY <1>1, <1>2, <1>4, <2>1, RestGive
<1>8. /\ Len(h) \in Nat /\ Len(g) = Len(h) - 1
      /\ \A j \in 1 .. Len(h) - 1 : g[j] = IF j < i THEN h[j] ELSE h[j + 1]
  BY RemoveAtIs
<1>9. \A x \in Headers : r.status[x] = IF x = b THEN "UNLOCKED" ELSE q.status[x]
  BY <1>5, QueueFields DEF Marks
<1> HIDE DEF g
<1>10. ASSUME NEW x \in 1 .. Len(g)
       PROVE  \E y \in 1 .. Len(h) : y = (IF x < i THEN x ELSE x + 1) /\ g[x] = h[y] /\ y # i
  BY <1>8
<1>11. \A x \in 1 .. Len(g) : g[x].buf # HeadHdr /\ r.status[g[x].buf] = "VALID"
  BY <1>2, <1>9, <1>10 DEF BufRing
<1>12. ASSUME NEW x \in 1 .. Len(g), NEW y \in 1 .. Len(g), g[x].buf = g[y].buf PROVE x = y
  BY <1>2, <1>10, <1>12
<1>13. BufRing(r, g)
  BY <1>6, <1>7, <1>11, <1>12 DEF BufRing
<1> QED
  BY <1>13 DEF g

\* A call of the cache keeps the invariant.
LEMMA BufKept == BufInv /\ [BufNext]_bufVars => BufInv'
<1> SUFFICES ASSUME BufInv, [BufNext]_bufVars PROVE BufInv'
  OBVIOUS
<1> DEFINE R == [buf : Headers, sec : Sectors]
           most == IF bkernel THEN 2 ELSE BufMaxHeld
<1>1. /\ bq \in QueueType /\ bheld \in Seq(R) /\ Len(bheld) \in Nat /\ Len(bheld) <= most
      /\ BufMaxHeld \in Nat /\ most \in Nat /\ DOMAIN bheld = 1 .. Len(bheld) /\ bcalls \in 0 .. 3
      /\ bkernel /\ bcalls # 3 => Len(bheld) <= 1
  BY BufferCacheAssumption DEF BufInv, BufTypeOK
<1>2. bhung \in BOOLEAN /\ bhits \in BOOLEAN /\ bkernel \in BOOLEAN /\ (~bhits => BufRing(bq, bheld))
  BY Zenon DEF BufInv, BufTypeOK
<1>3. \A s \in Sectors : s[2] \in Nat
  BY BufferCacheAssumption
<1>4. ASSUME NEW s \in Sectors, NEW b \in Headers
      PROVE  /\ Append(bheld, [buf |-> b, sec |-> s]) \in Seq(R)
             /\ Len(Append(bheld, [buf |-> b, sec |-> s])) = Len(bheld) + 1
  <2>1. [buf |-> b, sec |-> s] \in R
    OBVIOUS
  <2> HIDE DEF R, most
  <2> QED
    BY <1>1, <2>1
<1> HIDE DEF R
<1>10. ASSUME NEW s, MayRead(s), bcalls' = IF bkernel /\ bcalls < 3 THEN bcalls + 1 ELSE bcalls,
              bkernel' = bkernel
       PROVE  /\ bcalls' \in 0 .. 3 /\ Len(bheld) + 1 <= most
              /\ bkernel' /\ bcalls' # 3 => Len(bheld) + 1 <= 1
  <2>1. bheld = <<>> => Len(bheld) = 0
    OBVIOUS
  <2> QED
    BY <1>1, <1>10, <2>1 DEF MayRead
<1>11. ASSUME bheld' \in Seq(R), bq' \in QueueType, bkernel' = bkernel, bcalls' \in 0 .. 3,
              bhung' \in BOOLEAN, bhits' \in BOOLEAN, Len(bheld') <= most,
              bkernel' /\ bcalls' # 3 => Len(bheld') <= 1, ~bhits' => BufRing(bq', bheld')
       PROVE  BufInv'
  BY <1>2, <1>11, Zenon DEF BufInv, BufTypeOK, R
<1> HIDE DEF most
<1>5. ASSUME NEW s \in Sectors, MayRead(s), BreadHit(s), bkernel' = bkernel,
             bcalls' = IF bkernel /\ bcalls < 3 THEN bcalls + 1 ELSE bcalls
      PROVE  BufInv'
  <2> DEFINE b == search_blk(bq, s)
  <2>1. b \in Headers
    BY <1>1, <1>3, <1>5, SearchIs DEF BreadHit
  <2>2. /\ bq' = Hit(bq, b, s) /\ bheld' = Append(bheld, [buf |-> b, sec |-> s])
        /\ bhits' = TRUE /\ bhung' = bhung
    BY <1>5, Zenon DEF BreadHit, Hit
  <2> HIDE DEF b
  <2>3. bq' \in QueueType
    BY <1>1, <2>1, <2>2, HitQueue
  <2>4. bheld' \in Seq(R) /\ Len(bheld') = Len(bheld) + 1
    BY <1>4, <2>1, <2>2
  <2>5. bcalls' \in 0 .. 3 /\ Len(bheld') <= most /\ (bkernel' /\ bcalls' # 3 => Len(bheld') <= 1)
    BY <1>5, <1>10, <2>4, Zenon
  <2>6. bhung' \in BOOLEAN /\ bhits' \in BOOLEAN /\ (~bhits' => BufRing(bq', bheld'))
    BY <1>2, <2>2, Zenon
  <2> QED
    BY <1>5, <1>11, <2>3, <2>4, <2>5, <2>6, Zenon
<1>6. ASSUME NEW s \in Sectors, MayRead(s), BreadMiss(s), bkernel' = bkernel,
             bcalls' = IF bkernel /\ bcalls < 3 THEN bcalls + 1 ELSE bcalls
      PROVE  BufInv'
  <2> DEFINE b == FreeChoice(bq, s)
  <2>1. b \in Headers
    BY <1>1, FreeChoiceIs
  <2>2. /\ bq' = Missed(bq, b, s) /\ bheld' = Append(bheld, [buf |-> b, sec |-> s])
        /\ bhits' = bhits /\ bhung' = bhung /\ bq.free_next[HeadHdr] # HeadHdr
    BY <1>6, Zenon DEF BreadMiss, Missed
  <2>3. ~bhits => BufRing(bq', bheld')
    BY <1>1, <1>2, <2>2, RingMiss DEF R
  <2> HIDE DEF b
  <2>4. bq' \in QueueType
    BY <1>1, <2>1, <2>2, MissQueue
  <2>5. bheld' \in Seq(R) /\ Len(bheld') = Len(bheld) + 1
    BY <1>4, <2>1, <2>2
  <2>6. bcalls' \in 0 .. 3 /\ Len(bheld') <= most /\ (bkernel' /\ bcalls' # 3 => Len(bheld') <= 1)
    BY <1>6, <1>10, <2>5, Zenon
  <2>7. bhung' \in BOOLEAN /\ bhits' \in BOOLEAN /\ (~bhits' => BufRing(bq', bheld'))
    BY <1>2, <2>2, <2>3, Zenon
  <2> QED
    BY <1>6, <1>11, <2>4, <2>5, <2>6, <2>7, Zenon
<1>7. ASSUME NEW s \in Sectors, MayRead(s), BreadHang(s), bkernel' = bkernel,
             bcalls' = IF bkernel /\ bcalls < 3 THEN bcalls + 1 ELSE bcalls
      PROVE  BufInv'
  <2>1. bhung' = TRUE /\ bq' = bq /\ bheld' = bheld /\ bhits' = bhits
    BY <1>7, Zenon DEF BreadHang
  <2>2. /\ bcalls' \in 0 .. 3 /\ Len(bheld) + 1 <= most
        /\ bkernel' /\ bcalls' # 3 => Len(bheld) + 1 <= 1
    BY <1>7, <1>10, Zenon
  <2>3. bcalls' \in 0 .. 3 /\ Len(bheld') <= most /\ (bkernel' /\ bcalls' # 3 => Len(bheld') <= 1)
    BY <1>1, <2>1, <2>2
  <2> QED
    BY <1>1, <1>2, <1>7, <1>11, <2>1, <2>3, Zenon
<1>8. CASE Brelse
  <2>1. PICK i \in 1 .. Len(bheld) : bq' = Released(bq, bheld[i].buf) /\ bheld' = RemoveAt(bheld, i)
    BY <1>1, <1>8, Zenon DEF Brelse
  <2>2. bhung' = bhung /\ bhits' = bhits /\ bkernel' = bkernel /\ bcalls' = bcalls
    BY <1>8, Zenon DEF Brelse
  <2>3. bheld[i].buf \in Headers
    BY <1>1, HeldType DEF R
  <2>4. bq' \in QueueType
    BY <1>1, <2>1, <2>3, ReleasedQueue
  <2>5. bheld' \in Seq(R) /\ Len(bheld') = Len(bheld) - 1
    BY <1>1, <2>1, RemoveAtIs
  <2>6. ~bhits => BufRing(bq', bheld')
    BY <1>1, <1>2, <2>1, RingRelease DEF R
  <2>7. Len(bheld') <= most /\ (bkernel /\ bcalls # 3 => Len(bheld') <= 1)
    BY <1>1, <2>5
  <2> QED
    BY <1>1, <1>2, <1>11, <2>2, <2>4, <2>5, <2>6, <2>7, Zenon
<1>9. CASE UNCHANGED bufVars
  <2>1. /\ bq' = bq /\ bheld' = bheld /\ bhung' = bhung /\ bhits' = bhits
        /\ bkernel' = bkernel /\ bcalls' = bcalls
    BY <1>9, Zenon DEF bufVars
  <2> QED
    BY <1>1, <1>2, <1>11, <2>1, Zenon
<1> QED
  BY <1>5, <1>6, <1>7, <1>8, <1>9, Zenon DEF BufNext, Bread

\* The loop over the free list ends, its back links match, and it meets the
\* blocks that are not held.
LEMMA BufListsRight == BufInv => BufListsSound
<1> SUFFICES ASSUME BufInv, ~bhits
             PROVE  /\ Ends(bq.free_next, bq.free_next[HeadHdr], HeadHdr)
                    /\ \A b \in FreeSet(bq) \cup {HeadHdr} : bq.free_prev[bq.free_next[b]] = b
                    /\ FreeSet(bq) = Headers \ ({HeadHdr} \cup {bheld[i].buf : i \in DOMAIN bheld})
  BY Zenon DEF BufInv, BufListsSound, BufRingUntilHit
<1>1. /\ bq \in QueueType /\ BufRing(bq, bheld)
      /\ DOMAIN bheld = 1 .. Len(bheld)
  BY DEF BufInv, BufTypeOK
<1>2. PICK t : FreeRing(bq.free_prev, bq.free_next, t) /\ Rest(t, bheld)
  BY <1>1 DEF BufRing
<1>3. /\ FreeSet(bq) = {t[i] : i \in 1 .. Len(t)}
      /\ Ends(bq.free_next, bq.free_next[HeadHdr], HeadHdr)
  BY <1>1, <1>2, RingTrail
<1>4. ASSUME NEW b \in FreeSet(bq) \cup {HeadHdr} PROVE bq.free_prev[bq.free_next[b]] = b
  <2>1. Len(t) \in Nat
    BY <1>2 DEF FreeRing
  <2>2. PICK i \in 0 .. Len(t) : b = Stand(t, i)
    <3>1. CASE b = HeadHdr
      <4>1. 0 \in 0 .. Len(t) /\ Stand(t, 0) = HeadHdr
        BY <2>1 DEF Stand
      <4> QED
        BY <3>1, <4>1
    <3>2. CASE b # HeadHdr
      <4>1. PICK i \in 1 .. Len(t) : b = t[i]
        BY <1>3, <3>2
      <4>2. i \in 0 .. Len(t) /\ Stand(t, i) = t[i]
        BY <2>1 DEF Stand
      <4> QED
        BY <4>1, <4>2
    <3> QED
      BY <3>1, <3>2
  <2> QED
    BY <1>2, <2>2 DEF FreeRing
<1>5. FreeSet(bq) = Headers \ ({HeadHdr} \cup {bheld[i].buf : i \in DOMAIN bheld})
  <2>1. \A i \in 1 .. Len(t) : t[i] \in Headers
    BY <1>2 DEF FreeRing
  <2> QED
    BY <1>1, <1>2, <1>3, <2>1 DEF Rest
<1> QED
  BY <1>3, <1>4, <1>5

\* For every number of headers, sectors and blocks held: every pointer is
\* that of a header, and the free list is a ring in both directions of
\* exactly the blocks that are not held until the first lookup that succeeds
\* (bhash.c:73, 137, 195, 364).
THEOREM BufferListsHold == BufSpec => []BufListsSound
<1>1. BufInit => BufInv
  BY BufStart
<1>2. BufInv /\ [BufNext]_bufVars => BufInv'
  BY BufKept
<1>3. BufInv => BufListsSound
  BY BufListsRight
<1> QED
  BY <1>1, <1>2, <1>3, PTL DEF BufSpec

(***************************************************************************)
(* The data.  A block that is marked valid is held, so that bread reads    *)
(* what it takes from the free list.  For the kernel's reads, every header *)
(* that was given a key holds the sector of that key, and what a hit gives *)
(* does not depend on the links; the links matter only while the mount     *)
(* holds two blocks, and there the cache is still known well enough: the   *)
(* header 1 has the super block, the others no sector, and the free list   *)
(* does not begin with header 1.                                           *)
(***************************************************************************)
BufData(q) == \A b \in Headers : Key(q, b) = <<0, 0>> \/ q.data[b] = Key(q, b)

Valid(q, h) == \A b \in Headers : q.status[b] = "VALID" => \E i \in 1 .. Len(h) : h[i].buf = b

Right(q, h) ==
    \A i \in 1 .. Len(h) : Key(q, h[i].buf) = h[i].sec /\ q.data[h[i].buf] = h[i].sec

OneLoaded(q) ==
    /\ 1 \in Headers /\ Key(q, 1) = BufSuper
    /\ \A b \in Headers \ {1} : Key(q, b) = <<0, 0>>
    /\ q.free_next[HeadHdr] # HeadHdr /\ q.free_next[HeadHdr] # 1 /\ q.free_prev[HeadHdr] # HeadHdr

BufMount ==
    /\ bcalls = 0 => bq = create_hash_queue /\ bheld = <<>>
    /\ bcalls \in {0, 1} => ~bhits
    /\ bcalls = 1 => bq.hashtable[Bucket(BufSuper)] = 1 /\ bq.next[1] = NULL
    /\ bcalls \in {1, 2} => OneLoaded(bq) /\ \A i \in 1 .. Len(bheld) : bheld[i].buf = 1

BufDataInv ==
    /\ BufInv /\ Valid(bq, bheld) /\ (bkernel \/ ~bhits => Right(bq, bheld))
    /\ bkernel => BufData(bq) /\ (~bhung => BufMount)

\* Initially every key is <<0, 0>> and nothing is held.
LEMMA BufDataStart == BufInit => BufDataInv
<1> SUFFICES ASSUME BufInit PROVE BufDataInv
  OBVIOUS
<1>1. BufInv
  BY BufStart
<1>2. bheld = <<>> /\ bq = create_hash_queue /\ bcalls = 0 /\ bhits = FALSE
  BY Zenon DEF BufInit
<1>3. /\ bq.addr = [b \in Headers |-> 0] /\ bq.device = [b \in Headers |-> 0]
      /\ bq.status = [b \in Headers |-> IF b = HeadHdr THEN "HEAD" ELSE "NONE"]
  BY <1>2 DEF create_hash_queue
<1>4. BufData(bq)
  BY <1>3 DEF BufData, Key
<1>5. Right(bq, bheld)
  BY <1>2 DEF Right
<1>6. Valid(bq, bheld)
  BY <1>3 DEF Valid
<1>7. BufMount
  BY <1>2 DEF BufMount
<1> QED
  BY <1>1, <1>4, <1>5, <1>6, <1>7 DEF BufDataInv

\* The mount's first read.
LEMMA FirstRead ==
  ASSUME BUFF_QUEUE_SIZE >= 3, <<0, 0>> \notin Sectors, NEW s \in Sectors,
         NEW q, q = create_hash_queue, q \in QueueType,
         NEW r, r = Missed(q, FreeChoice(q, s), s)
  PROVE  /\ search_blk(q, s) = NULL /\ FreeChoice(q, s) = 1 /\ 1 \in Headers
         /\ r.hashtable[Bucket(s)] = 1 /\ r.next[1] = NULL
         /\ r.free_next[HeadHdr] = 2 /\ r.free_prev[HeadHdr] = BUFF_QUEUE_SIZE - 1
<1> DEFINE m == BUFF_QUEUE_SIZE - 1
           pos == Bucket(s)
<1>1. /\ m \in Nat /\ m >= 2 /\ Headers = 0 .. m /\ HeadHdr = 0
      /\ s[1] \in Nat /\ s[2] \in Nat /\ pos \in 0 .. 3 /\ s = <<s[1], s[2]>>
  BY BufferCacheAssumption DEF Headers, HeadHdr, Bucket
<1>2. /\ q.addr = [b \in Headers |-> 0] /\ q.device = [b \in Headers |-> 0]
      /\ q.next = [b \in Headers |-> NULL] /\ q.hashtable = [i \in 0 .. 3 |-> NULL]
      /\ q.free_prev = [b \in Headers |-> IF b = HeadHdr THEN m ELSE b - 1]
      /\ q.free_next = [b \in Headers |-> IF b = m THEN HeadHdr ELSE b + 1]
  BY DEF create_hash_queue
<1>3. Matching(q, s) = {}
  BY <1>2 DEF Matching, Key
<1>4. search_blk(q, s) = NULL
  <2>1. HashTrail(q, pos) \in Seq(Headers)
    BY <1>1, HashTrailType
  <2> QED
    BY <1>3, <2>1, FirstInIs DEF search_blk
<1>5. 1 \in Headers /\ 2 \in Headers /\ q.free_next[HeadHdr] = 1 /\ q.free_next[1] = 2
      /\ q.free_prev[1] = HeadHdr /\ q.free_prev[HeadHdr] = m /\ HeadHdr # 1
      /\ (HeadHdr # 2) /\ HeadHdr \in Headers
  BY <1>1, <1>2
<1>6. FreeChoice(q, s) = 1
  <2>1. FirstIn(FreeTrail(q), Matching(q, s)) = NULL
    BY <1>3, FreeTrailType, FirstInIs
  <2> QED
    BY <1>5, <2>1 DEF FreeChoice
<1>7. r.free_next[HeadHdr] = 2 /\ r.free_prev[HeadHdr] = m
  <2>1. Takes(q, r, 1, s)
    BY <1>5, <1>6, MissQueue
  <2>2. /\ r.free_prev = [q.free_prev EXCEPT ![2] = HeadHdr]
        /\ r.free_next = [q.free_next EXCEPT ![HeadHdr] = 2]
    BY <1>5, <2>1 DEF Takes
  <2> QED
    BY <1>5, <2>2, QueueFields DEF FreeLinks
<1>8. r.hashtable[pos] = 1 /\ r.next[1] = NULL
  <2> DEFINE g == get_free_blk(q, 1)
             o == [g EXCEPT !.addr[1] = s[2], !.device[1] = s[1]]
             v == [o EXCEPT !.next[1] = NULL, !.prev[1] = 1, !.hashtable[pos] = 1]
             a == add_to_buff_queue(g, 1, s)
  <2>1. g.addr = q.addr /\ g.hashtable = q.hashtable /\ g \in QueueType
    <3> DEFINE p == [q.free_prev EXCEPT ![q.free_next[1]] = q.free_prev[1]]
               n == [q.free_next EXCEPT ![q.free_prev[1]] = q.free_next[1]]
    <3>1. p \in FreeLinks /\ n \in FreeLinks
      BY <1>5, QueueFields DEF FreeLinks
    <3>2. g = WithFree(q, p, n)
      BY DEF get_free_blk, WithFree, QueueType
    <3> HIDE DEF p, n, g
    <3> QED
      BY <3>1, <3>2, SetFree
  <2> HIDE DEF g
  <2>2. RemoveOld(g, 1, s) = g
    <3>1. g.hashtable[g.addr[1] % 4] = NULL
      BY <1>2, <1>5, <2>1
    <3> QED
      BY <3>1 DEF RemoveOld
  <2>3. o.hashtable[pos] = NULL
    BY <1>1, <1>2, <2>1 DEF QueueType
  <2>4. a = v
    BY <2>2, <2>3 DEF add_to_buff_queue
  <2>5. v.hashtable[pos] = 1 /\ v.next[1] = NULL
    BY <1>1, <1>5, <2>1 DEF QueueType
  <2> HIDE DEF o, v
  <2>6. a \in QueueType
    BY <1>5, <2>1, AddType
  <2>7. r = [a EXCEPT !.data[1] = IF g.status[1] = "VALID" THEN @ ELSE s, !.status[1] = "VALID"]
    BY <1>6 DEF Missed, g
  <2> HIDE DEF a
  <2>8. r.hashtable = a.hashtable /\ r.next = a.next
    BY <2>6, <2>7 DEF QueueType
  <2> QED
    BY <2>4, <2>5, <2>8
<1> QED
  BY <1>4, <1>5, <1>6, <1>7, <1>8

\* The mount's second read finds the super block.
LEMMA SecondRead ==
  ASSUME NEW q \in QueueType, OneLoaded(q), q.hashtable[Bucket(BufSuper)] = 1, q.next[1] = NULL
  PROVE  search_blk(q, BufSuper) # NULL
<1> DEFINE t == <<1>>
<1>1. /\ 1 \in Headers /\ DOMAIN q.next = Headers /\ 1 \in Matching(q, BufSuper)
      /\ 1 # NULL
  BY QueueFields DEF HdrLinks, OneLoaded, Matching, NULL
<1>2. Chain(q.next, 1, NULL, t)
  <2>1. t \in Seq(Headers) /\ Len(t) = 1 /\ DOMAIN t = {1} /\ t[1] = 1 /\ t # <<>>
    BY <1>1
  <2>2. 1 .. Len(t) - 1 = {}
    BY <2>1
  <2> HIDE DEF t
  <2> QED
    BY <1>1, <2>1, <2>2 DEF Chain
<1>3. HashTrail(q, Bucket(BufSuper)) = t
  BY <1>1, <1>2, HeaderSet, TrailIs DEF HashTrail
<1>4. search_blk(q, BufSuper) = FirstIn(t, Matching(q, BufSuper))
  BY <1>3 DEF search_blk
<1>5. t \in Seq(Headers) /\ 1 \in DOMAIN t /\ t[1] \in Matching(q, BufSuper)
  BY <1>1
<1>6. \A k \in DOMAIN t : t[k] # NULL
  BY <1>1
<1> HIDE DEF t
<1> QED
  BY <1>4, <1>5, <1>6, FirstInIs

\* The mount's third read takes another block than header 1.
LEMMA ThirdRead ==
  ASSUME NEW q \in QueueType, OneLoaded(q), <<0, 0>> \notin Sectors
  PROVE  /\ search_blk(q, BufSecond) = NULL
         /\ FreeChoice(q, BufSecond) = q.free_next[HeadHdr]
<1>1. /\ BufSuper[1] \in Nat /\ BufSuper[2] \in Nat /\ BufSuper = <<BufSuper[1], BufSuper[2]>>
      /\ BufSecond \in Sectors
  BY BufferCacheAssumption
<1>2. BufSecond[2] = BufSuper[2] + 1 /\ BufSecond # BufSuper /\ BufSecond # <<0, 0>>
  BY <1>1 DEF BufSecond
<1>3. Matching(q, BufSecond) = {}
  BY <1>2 DEF Matching, OneLoaded
<1>4. FirstIn(FreeTrail(q), Matching(q, BufSecond)) = NULL
  BY <1>3, FreeTrailType, FirstInIs
<1>5. search_blk(q, BufSecond) = NULL
  <2>1. Bucket(BufSecond) \in 0 .. 3
    BY <1>1, <1>2 DEF Bucket
  <2>2. HashTrail(q, Bucket(BufSecond)) \in Seq(Headers)
    BY <2>1, HashTrailType
  <2> QED
    BY <1>3, <2>2, FirstInIs DEF search_blk
<1> QED
  BY <1>4, <1>5 DEF FreeChoice

AfterMiss(q, h, r, g, b, s) ==
    /\ \A c \in Headers : Key(r, c) = IF c = b THEN s ELSE Key(q, c)
    /\ Valid(r, g) /\ (BufData(q) => BufData(r)) /\ (Right(q, h) => Right(r, g))

AfterHit(q, h, r, g) ==
    /\ \A c \in Headers : Key(r, c) = Key(q, c)
    /\ Valid(r, g) /\ (BufData(q) => BufData(r))
    /\ BufData(q) /\ Right(q, h) => Right(r, g)

AfterRelease(q, h, r, g) ==
    /\ \A c \in Headers : Key(r, c) = Key(q, c)
    /\ Valid(r, g) /\ (BufData(q) => BufData(r)) /\ (Right(q, h) => Right(r, g))
    /\ \A k \in 1 .. Len(g) : \E j \in 1 .. Len(h) : g[k] = h[j]

\* A read into a block that nobody holds; a hit; a release.
LEMMA DataMiss ==
  ASSUME NEW q \in QueueType, NEW h \in Seq([buf : Headers, sec : Sectors]), NEW s \in Sectors,
         NEW b \in Headers, \A i \in 1 .. Len(h) : h[i].buf # b, Valid(q, h),
         NEW r, r = Missed(q, b, s), NEW g, g = Append(h, [buf |-> b, sec |-> s])
  PROVE  AfterMiss(q, h, r, g, b, s)
<1> DEFINE e == [buf |-> b, sec |-> s]
<1>1. s = <<s[1], s[2]>> /\ Len(h) \in Nat
  BY BufferCacheAssumption
<1>2. q.status[b] # "VALID"
  BY DEF Valid
<1>3. Takes(q, r, b, s)
  BY MissQueue
<1>4. \A c \in Headers : /\ r.addr[c] = IF c = b THEN s[2] ELSE q.addr[c]
                         /\ r.device[c] = IF c = b THEN s[1] ELSE q.device[c]
                         /\ r.data[c] = IF c = b THEN s ELSE q.data[c]
                         /\ r.status[c] = IF c = b THEN "VALID" ELSE q.status[c]
  BY <1>2, <1>3, QueueFields DEF Takes, Numbers, Content, Marks
<1>5. \A c \in Headers : Key(r, c) = IF c = b THEN s ELSE Key(q, c)
  BY <1>1, <1>4 DEF Key
<1>6. /\ Len(g) = Len(h) + 1 /\ g[Len(h) + 1] = e /\ e.buf = b /\ e.sec = s
      /\ \A i \in 1 .. Len(h) : g[i] = h[i]
  OBVIOUS
<1>7. \A i \in 1 .. Len(h) : h[i].buf \in Headers
  BY HeldType
<1> HIDE DEF e
<1>8. Valid(r, g)
  <2> SUFFICES ASSUME NEW c \in Headers, r.status[c] = "VALID"
               PROVE  \E i \in 1 .. Len(g) : g[i].buf = c
    BY DEF Valid
  <2>1. CASE c = b
    BY <1>1, <1>6, <2>1
  <2>2. CASE c # b
    <3>1. PICK i \in 1 .. Len(h) : h[i].buf = c
      BY <1>4, <2>2 DEF Valid
    <3>2. i \in 1 .. Len(g) /\ g[i].buf = c
      BY <1>1, <1>6, <3>1
    <3> QED
      BY <3>2
  <2> QED
    BY <2>1, <2>2
<1>9. BufData(q) => BufData(r)
  BY <1>4, <1>5 DEF BufData
<1>10. ASSUME Right(q, h) PROVE Right(r, g)
  <2> SUFFICES ASSUME NEW i \in 1 .. Len(g)
               PROVE  Key(r, g[i].buf) = g[i].sec /\ r.data[g[i].buf] = g[i].sec
    BY DEF Right
  <2>1. CASE i = Len(h) + 1
    BY <1>4, <1>5, <1>6, <2>1
  <2>2. CASE i # Len(h) + 1
    <3>1. i \in 1 .. Len(h) /\ g[i] = h[i] /\ h[i].buf # b /\ h[i].buf \in Headers
      BY <1>1, <1>6, <1>7, <2>2
    <3> QED
      BY <1>4, <1>5, <1>10, <3>1 DEF Right
  <2> QED
    BY <2>1, <2>2
<1> QED
  BY <1>5, <1>8, <1>9, <1>10 DEF AfterMiss

LEMMA DataHit ==
  ASSUME NEW q \in QueueType, NEW h \in Seq([buf : Headers, sec : Sectors]), NEW s,
         NEW b \in Headers, Key(q, b) = s, s # <<0, 0>>, Valid(q, h),
         NEW r, r = Hit(q, b, s), NEW g, g = Append(h, [buf |-> b, sec |-> s])
  PROVE  AfterHit(q, h, r, g)
<1> DEFINE e == [buf |-> b, sec |-> s]
<1>1. Len(h) \in Nat
  OBVIOUS
<1>2. Keeps(q, r, b)
  BY HitQueue
<1>3. r.data = q.data /\ \A c \in Headers : Key(r, c) = Key(q, c)
  BY <1>2 DEF Keeps, Key
<1>4. \A c \in Headers : r.status[c] = IF c = b THEN "VALID" ELSE q.status[c]
  BY <1>2, QueueFields DEF Keeps, Marks
<1>6. /\ Len(g) = Len(h) + 1 /\ g[Len(h) + 1] = e /\ e.buf = b /\ e.sec = s
      /\ \A i \in 1 .. Len(h) : g[i] = h[i]
  OBVIOUS
<1>7. \A i \in 1 .. Len(h) : h[i].buf \in Headers
  BY HeldType
<1> HIDE DEF e
<1>8. Valid(r, g)
  <2> SUFFICES ASSUME NEW c \in Headers, r.status[c] = "VALID"
               PROVE  \E i \in 1 .. Len(g) : g[i].buf = c
    BY DEF Valid
  <2>1. CASE c = b
    BY <1>1, <1>6, <2>1
  <2>2. CASE c # b
    <3>1. PICK i \in 1 .. Len(h) : h[i].buf = c
      BY <1>4, <2>2 DEF Valid
    <3>2. i \in 1 .. Len(g) /\ g[i].buf = c
      BY <1>1, <1>6, <3>1
    <3> QED
      BY <3>2
  <2> QED
    BY <2>1, <2>2
<1>9. BufData(q) => BufData(r)
  BY <1>3 DEF BufData
<1>10. ASSUME BufData(q), Right(q, h) PROVE Right(r, g)
  <2> SUFFICES ASSUME NEW i \in 1 .. Len(g)
               PROVE  Key(r, g[i].buf) = g[i].sec /\ r.data[g[i].buf] = g[i].sec
    BY DEF Right
  <2>1. CASE i = Len(h) + 1
    BY <1>3, <1>6, <1>10, <2>1 DEF BufData
  <2>2. CASE i # Len(h) + 1
    <3>1. i \in 1 .. Len(h) /\ g[i] = h[i] /\ h[i].buf \in Headers
      BY <1>1, <1>6, <1>7, <2>2
    <3> QED
      BY <1>3, <1>10, <3>1 DEF Right
  <2> QED
    BY <2>1, <2>2
<1> QED
  BY <1>3, <1>8, <1>9, <1>10 DEF AfterHit

LEMMA DataRelease ==
  ASSUME NEW q \in QueueType, NEW h \in Seq([buf : Headers, sec : Sectors]),
         NEW i \in 1 .. Len(h), Valid(q, h), NEW r, r = Released(q, h[i].buf),
         NEW g, g = RemoveAt(h, i)
  PROVE  AfterRelease(q, h, r, g)
<1> DEFINE b == h[i].buf
<1>1. b \in Headers /\ \A k \in 1 .. Len(h) : h[k].buf \in Headers
  BY HeldType
<1>2. Gives(q, r, b)
  BY <1>1, ReleasedQueue
<1>3. r.data = q.data /\ \A c \in Headers : Key(r, c) = Key(q, c)
  BY <1>2 DEF Gives, Key
<1>4. \A c \in Headers : r.status[c] = IF c = b THEN "UNLOCKED" ELSE q.status[c]
  BY <1>1, <1>2, QueueFields DEF Gives, Marks
<1>11. /\ Len(g) = Len(h) - 1
       /\ \A k \in 1 .. Len(h) - 1 : g[k] = IF k < i THEN h[k] ELSE h[k + 1]
  BY RemoveAtIs
<1>5. /\ Len(h) \in Nat /\ i \in Nat /\ 1 <= i /\ i <= Len(h) /\ Len(g) = Len(h) - 1
      /\ \A k \in 1 .. Len(h) - 1 : g[k] = IF k < i THEN h[k] ELSE h[k + 1]
  BY <1>11
<1>6. ASSUME NEW k \in 1 .. Len(g) PROVE \E j \in 1 .. Len(h) : g[k] = h[j]
  <2>1. k \in 1 .. Len(h) /\ k + 1 \in 1 .. Len(h) /\ (g[k] = h[k] \/ g[k] = h[k + 1])
    BY <1>5
  <2> QED
    BY <2>1
<1>7. ASSUME NEW j \in 1 .. Len(h), j # i PROVE \E k \in 1 .. Len(g) : g[k] = h[j]
  <2>1. CASE j < i
    BY <1>5, <2>1
  <2>2. CASE j > i
    <3>1. j - 1 \in 1 .. Len(g) /\ g[j - 1] = h[j]
      BY <1>5, <2>2
    <3> QED
      BY <3>1
  <2> QED
    BY <1>5, <1>7, <2>1, <2>2
<1>8. Valid(r, g)
  <2> SUFFICES ASSUME NEW c \in Headers, r.status[c] = "VALID"
               PROVE  \E k \in 1 .. Len(g) : g[k].buf = c
    BY DEF Valid
  <2>1. c # b /\ q.status[c] = "VALID"
    BY <1>4
  <2>2. PICK j \in 1 .. Len(h) : h[j].buf = c
    BY <2>1 DEF Valid
  <2>3. PICK k \in 1 .. Len(g) : g[k] = h[j]
    BY <1>7, <2>1, <2>2
  <2> QED
    BY <2>2, <2>3
<1>9. BufData(q) => BufData(r)
  BY <1>3 DEF BufData
<1>10. ASSUME Right(q, h) PROVE Right(r, g)
  BY <1>1, <1>3, <1>6, <1>10 DEF Right
<1> QED
  BY <1>3, <1>6, <1>8, <1>9, <1>10 DEF AfterRelease

\* A call keeps the data right.
LEMMA BufDataKept ==
  ASSUME BUFF_QUEUE_SIZE >= 3, <<0, 0>> \notin Sectors
  PROVE  BufDataInv /\ [BufNext]_bufVars => BufDataInv'
<1> SUFFICES ASSUME BufDataInv, [BufNext]_bufVars PROVE BufDataInv'
  OBVIOUS
<1> DEFINE R == [buf : Headers, sec : Sectors]
<1>1. BufInv /\ BufInv' /\ Valid(bq, bheld) /\ (bkernel \/ ~bhits => Right(bq, bheld))
      /\ (bkernel => BufData(bq) /\ (~bhung => BufMount))
  BY BufKept, Zenon DEF BufDataInv
<1>2. /\ bq \in QueueType /\ bheld \in Seq(R)
      /\ Len(bheld) \in Nat /\ DOMAIN bheld = 1 .. Len(bheld) /\ bcalls \in 0 .. 3
  BY <1>1 DEF BufInv, BufTypeOK
<1>3. /\ \A s \in Sectors : s[2] \in Nat /\ s # <<0, 0>>
      /\ BufSuper \in Sectors /\ BufSecond \in Sectors
  BY BufferCacheAssumption
<1>4. bheld = <<>> => 1 .. Len(bheld) = {}
  OBVIOUS
<1>5. ASSUME NEW s \in Sectors, MayRead(s), BreadHit(s), bkernel' = bkernel, ~bhung,
             bcalls' = IF bkernel /\ bcalls < 3 THEN bcalls + 1 ELSE bcalls
      PROVE  BufDataInv'
  <2> DEFINE b == search_blk(bq, s)
             e == [buf |-> b, sec |-> s]
  <2>1. b \in Headers /\ Key(bq, b) = s
    BY <1>2, <1>3, <1>5, SearchIs DEF BreadHit
  <2>2. bq' = Hit(bq, b, s) /\ bheld' = Append(bheld, e) /\ bhits' = TRUE /\ b # NULL
    BY <1>5, Zenon DEF BreadHit, Hit
  <2>3. /\ \A c \in Headers : Key(bq', c) = Key(bq, c)
        /\ Valid(bq', bheld') /\ (BufData(bq) => BufData(bq'))
        /\ BufData(bq) /\ Right(bq, bheld) => Right(bq', bheld')
    <3>1. s # <<0, 0>>
      BY <1>3
    <3>2. Valid(bq, bheld) /\ bq' = Hit(bq, b, s)
      BY <1>1, <2>2
    <3>3. AfterHit(bq, bheld, bq', bheld')
      <4> HIDE DEF b
      <4> QED
        BY <1>2, <2>1, <2>2, <3>1, <3>2, DataHit
    <3> QED
      BY <3>3, Zenon DEF AfterHit
  <2>4. bkernel => Right(bq', bheld') /\ BufData(bq')
    BY <1>1, <2>3
  <2>5. ASSUME bkernel PROVE BufMount'
    <3>1. BufMount
      BY <1>1, <1>5, <2>5
    <3>2. bcalls # 0
      <4> SUFFICES ASSUME bcalls = 0 PROVE FALSE
        OBVIOUS
      <4>1. bq = create_hash_queue
        BY <3>1 DEF BufMount
      <4> QED
        BY <1>2, <2>2, <4>1, FirstRead
    <3>3. bcalls # 2
      <4> SUFFICES ASSUME bcalls = 2 PROVE FALSE
        OBVIOUS
      <4>1. OneLoaded(bq) /\ s = BufSecond
        BY <1>5, <2>5, <3>1 DEF BufMount, MayRead
      <4> QED
        BY <1>2, <2>2, <4>1, ThirdRead
    <3>4. CASE bcalls = 1
      <4>1. OneLoaded(bq) /\ s = BufSuper /\ bheld = <<>> /\ bcalls' = 2
        BY <1>5, <2>5, <3>1, <3>4 DEF BufMount, MayRead
      <4>2. b = 1
        BY <1>3, <2>1, <4>1 DEF OneLoaded
      <4> HIDE DEF b
      <4>3. Keeps(bq, bq', b)
        BY <1>2, <2>1, <2>2, HitQueue
      <4>4. OneLoaded(bq')
        BY <2>3, <4>1, <4>3 DEF OneLoaded, Keeps
      <4>5. Len(bheld') = 1 /\ bheld'[1] = e /\ e.buf = 1
        BY <2>2, <4>1, <4>2
      <4>6. \A i \in 1 .. Len(bheld') : bheld'[i].buf = 1
        BY <4>5
      <4> QED
        BY <4>1, <4>4, <4>6 DEF BufMount
    <3>5. CASE bcalls = 3
      <4>1. bcalls' = 3
        BY <1>5, <3>5
      <4> QED
        BY <4>1 DEF BufMount
    <3> QED
      BY <1>2, <3>2, <3>3, <3>4, <3>5
  <2> HIDE DEF b, e
  <2> QED
    BY <1>1, <1>5, <2>2, <2>3, <2>4, <2>5, Zenon DEF BufDataInv
<1>6. ASSUME NEW s \in Sectors, MayRead(s), BreadMiss(s), bkernel' = bkernel, ~bhung,
             bcalls' = IF bkernel /\ bcalls < 3 THEN bcalls + 1 ELSE bcalls
      PROVE  BufDataInv'
  <2> DEFINE b == FreeChoice(bq, s)
             e == [buf |-> b, sec |-> s]
  <2>1. b \in Headers
    BY <1>2, FreeChoiceIs
  <2>2. /\ bq' = Missed(bq, b, s) /\ bheld' = Append(bheld, e) /\ bhits' = bhits
        /\ search_blk(bq, s) = NULL
    BY <1>6, Zenon DEF BreadMiss, Missed
  <2>3. e.buf = b /\ e.sec = s
    OBVIOUS
  <2>4. ASSUME \A i \in 1 .. Len(bheld) : bheld[i].buf # b
        PROVE  /\ \A c \in Headers : Key(bq', c) = IF c = b THEN s ELSE Key(bq, c)
               /\ Valid(bq', bheld') /\ (BufData(bq) => BufData(bq'))
               /\ Right(bq, bheld) => Right(bq', bheld')
    <3>2. Valid(bq, bheld) /\ bq' = Missed(bq, b, s)
      BY <1>1, <2>2
    <3>3. AfterMiss(bq, bheld, bq', bheld', b, s)
      <4> HIDE DEF b
      <4> QED
        BY <1>2, <2>1, <2>2, <2>4, <3>2, DataMiss
    <3> QED
      BY <3>3, Zenon DEF AfterMiss
  <2>5. CASE bkernel
    <3>1. BufMount /\ BufData(bq) /\ Right(bq, bheld)
      BY <1>1, <1>6, <2>5
    <3>2. bcalls # 1
      <4> SUFFICES ASSUME bcalls = 1 PROVE FALSE
        OBVIOUS
      <4>1. /\ OneLoaded(bq) /\ s = BufSuper
            /\ bq.hashtable[Bucket(BufSuper)] = 1 /\ bq.next[1] = NULL
        BY <1>6, <2>5, <3>1 DEF BufMount, MayRead
      <4> QED
        BY <1>2, <2>2, <4>1, SecondRead
    <3>3. CASE bcalls = 0
      <4>1. bq = create_hash_queue /\ s = BufSuper /\ bheld = <<>> /\ bcalls' = 1
        BY <1>6, <2>5, <3>1, <3>3 DEF BufMount, MayRead
      <4>2. /\ b = 1 /\ 1 \in Headers /\ bq'.hashtable[Bucket(BufSuper)] = 1 /\ bq'.next[1] = NULL
            /\ bq'.free_next[HeadHdr] = 2 /\ bq'.free_prev[HeadHdr] = BUFF_QUEUE_SIZE - 1
        BY <1>2, <2>2, <4>1, FirstRead
      <4>3. BUFF_QUEUE_SIZE - 1 # HeadHdr /\ 2 # HeadHdr
        BY BufferCacheAssumption DEF HeadHdr
      <4>4. \A c \in Headers : Key(bq, c) = <<0, 0>>
        BY <4>1 DEF create_hash_queue, Key
      <4> HIDE DEF b
      <4>5. /\ \A c \in Headers : Key(bq', c) = IF c = b THEN s ELSE Key(bq, c)
            /\ Valid(bq', bheld') /\ BufData(bq') /\ Right(bq', bheld')
        BY <1>4, <2>4, <3>1, <4>1
      <4>6. OneLoaded(bq')
        BY <4>1, <4>2, <4>3, <4>4, <4>5 DEF OneLoaded
      <4>7. Len(bheld') = 1 /\ bheld'[1] = e
        BY <2>2, <4>1
      <4>8. \A i \in 1 .. Len(bheld') : bheld'[i].buf = 1
        BY <2>3, <4>2, <4>7
      <4>0. ~bhits'
        BY <2>2, <3>1, <3>3, Zenon DEF BufMount
      <4>9. BufMount'
        BY <4>0, <4>1, <4>2, <4>6, <4>8 DEF BufMount
      <4> QED
        BY <1>1, <4>5, <4>9, Zenon DEF BufDataInv
    <3>4. CASE bcalls = 2
      <4>1. /\ OneLoaded(bq) /\ s = BufSecond /\ bcalls' = 3
            /\ \A i \in 1 .. Len(bheld) : bheld[i].buf = 1
        BY <1>6, <2>5, <3>1, <3>4 DEF BufMount, MayRead
      <4>2. b # 1
        BY <1>2, <4>1, ThirdRead DEF OneLoaded
      <4> HIDE DEF b, e
      <4>3. Valid(bq', bheld') /\ BufData(bq') /\ Right(bq', bheld')
        BY <2>4, <3>1, <4>1, <4>2
      <4>4. BufMount'
        BY <4>1 DEF BufMount
      <4> QED
        BY <1>1, <4>3, <4>4, Zenon DEF BufDataInv
    <3>5. CASE bcalls = 3
      <4>1. bheld = <<>> /\ bcalls' = 3
        BY <1>6, <2>5, <3>5 DEF MayRead
      <4> HIDE DEF b, e
      <4>3. Valid(bq', bheld') /\ BufData(bq') /\ Right(bq', bheld')
        BY <1>4, <2>4, <3>1, <4>1
      <4>4. BufMount'
        BY <4>1 DEF BufMount
      <4> QED
        BY <1>1, <4>3, <4>4, Zenon DEF BufDataInv
    <3> QED
      BY <1>2, <3>2, <3>3, <3>4, <3>5
  <2>6. CASE ~bkernel /\ ~bhits
    <3>1. ~bhits'
      BY <2>2, <2>6, Zenon
    <3>2. \A i, j \in 1 .. Len(bheld') : bheld'[i].buf = bheld'[j].buf => i = j
      BY <1>1, <3>1, Zenon DEF BufInv, BufRing
    <3>3. /\ Len(bheld') = Len(bheld) + 1 /\ bheld'[Len(bheld) + 1] = e
          /\ \A i \in 1 .. Len(bheld) : bheld'[i] = bheld[i]
      BY <1>2, <2>2
    <3>4. ASSUME NEW i \in 1 .. Len(bheld) PROVE bheld[i].buf # b
      <4>1. i \in 1 .. Len(bheld') /\ Len(bheld) + 1 \in 1 .. Len(bheld') /\ i # Len(bheld) + 1
        BY <1>2, <3>3
      <4> HIDE DEF b, e
      <4> QED
        BY <2>3, <3>2, <3>3, <4>1
    <3> HIDE DEF b, e
    <3>5. Valid(bq', bheld') /\ Right(bq', bheld')
      BY <1>1, <2>4, <2>6, <3>4
    <3> QED
      BY <1>1, <1>6, <2>6, <3>5, Zenon DEF BufDataInv
  <2>7. CASE ~bkernel /\ bhits
    <3> HIDE DEF b
    <3>1. Takes(bq, bq', b, s)
      BY <1>2, <2>1, <2>2, MissQueue
    <3>2. \A c \in Headers : bq'.status[c] = IF c = b THEN "VALID" ELSE bq.status[c]
      BY <1>2, <2>1, <3>1, QueueFields DEF Takes, Marks
    <3>3. /\ Len(bheld') = Len(bheld) + 1 /\ bheld'[Len(bheld) + 1] = e
          /\ \A i \in 1 .. Len(bheld) : bheld'[i] = bheld[i]
      BY <1>2, <2>2
    <3>4. \A i \in 1 .. Len(bheld) : i \in 1 .. Len(bheld')
      BY <1>2, <3>3
    <3>5. Len(bheld) + 1 \in 1 .. Len(bheld')
      BY <1>2, <3>3
    <3> HIDE DEF e
    <3>6. Valid(bq', bheld')
      <4> SUFFICES ASSUME NEW c \in Headers, bq'.status[c] = "VALID"
                   PROVE  \E i \in 1 .. Len(bheld') : bheld'[i].buf = c
        BY DEF Valid
      <4>1. CASE c = b
        BY <2>3, <3>3, <3>5, <4>1
      <4>2. CASE c # b
        BY <1>1, <3>2, <3>3, <3>4, <4>2 DEF Valid
      <4> QED
        BY <4>1, <4>2
    <3>7. ~(bkernel' \/ ~bhits')
      BY <1>6, <2>2, <2>7, Zenon
    <3> QED
      BY <1>1, <3>6, <3>7, Zenon DEF BufDataInv
  <2> QED
    BY <2>5, <2>6, <2>7, Zenon
<1>7. ASSUME NEW s \in Sectors, MayRead(s), BreadHang(s), bkernel' = bkernel, ~bhung,
             bcalls' = IF bkernel /\ bcalls < 3 THEN bcalls + 1 ELSE bcalls
      PROVE  BufDataInv'
  <2>1. bq' = bq /\ bheld' = bheld /\ bhits' = bhits /\ bhung' = TRUE
    BY <1>7, Zenon DEF BreadHang
  <2> QED
    BY <1>1, <1>7, <2>1, Zenon DEF BufDataInv
<1>8. CASE Brelse
  <2>1. PICK i \in 1 .. Len(bheld) : bq' = Released(bq, bheld[i].buf) /\ bheld' = RemoveAt(bheld, i)
    BY <1>2, <1>8, Zenon DEF Brelse
  <2>2. /\ bhung' = bhung /\ bhits' = bhits /\ bkernel' = bkernel /\ bcalls' = bcalls
        /\ ~bhung /\ ~(bkernel /\ bcalls = 2)
    BY <1>8, Zenon DEF Brelse
  <2>3. /\ \A c \in Headers : Key(bq', c) = Key(bq, c)
        /\ Valid(bq', bheld') /\ (BufData(bq) => BufData(bq')) /\ (Right(bq, bheld) => Right(bq', bheld'))
        /\ \A k \in 1 .. Len(bheld') : \E j \in 1 .. Len(bheld) : bheld'[k] = bheld[j]
    <3>1. AfterRelease(bq, bheld, bq', bheld')
      BY <1>1, <1>2, <2>1, DataRelease
    <3> QED
      BY <3>1, Zenon DEF AfterRelease
  <2>4. ASSUME bkernel PROVE BufMount'
    <3>1. BufMount /\ bcalls # 2
      BY <1>1, <2>2, <2>4, Zenon
    <3>2. bcalls # 0
      <4>1. bheld # <<>>
        BY <1>4, <2>1
      <4> QED
        BY <3>1, <4>1 DEF BufMount
    <3>3. CASE bcalls = 1
      <4>1. /\ OneLoaded(bq) /\ bheld[i].buf = 1 /\ 1 \in Headers /\ HeadHdr \in Headers
            /\ bq.hashtable[Bucket(BufSuper)] = 1 /\ bq.next[1] = NULL
            /\ \A k \in 1 .. Len(bheld) : bheld[k].buf = 1
        BY <3>1, <3>3, HeaderSet DEF BufMount, OneLoaded
      <4>2. Gives(bq, bq', 1)
        BY <1>2, <2>1, <4>1, ReleasedQueue
      <4>3. bq'.next = bq.next /\ bq'.hashtable = bq.hashtable
        BY <4>2 DEF Gives
      <4>4. /\ bq'.free_next[HeadHdr] = bq.free_next[HeadHdr] /\ bq'.free_prev[HeadHdr] = 1
            /\ HeadHdr # 1
        <5>1. bq.status[1] = "VALID"
          <6>1. BufRing(bq, bheld)
            BY <1>1, <3>1, <3>3 DEF BufInv, BufMount
          <6> QED
            BY <4>1, <6>1 DEF BufRing
        <5>2. /\ bq'.free_prev = [[bq.free_prev EXCEPT ![1] = bq.free_prev[HeadHdr]] EXCEPT ![HeadHdr] = 1]
              /\ bq'.free_next = [[bq.free_next EXCEPT ![1] = HeadHdr] EXCEPT ![bq.free_prev[HeadHdr]] = 1]
          BY <4>2, <5>1 DEF Gives
        <5>3. HeadHdr # 1
          BY DEF HeadHdr
        <5> QED
          BY <1>2, <4>1, <5>2, <5>3, QueueFields DEF FreeLinks, OneLoaded
      <4>5. OneLoaded(bq')
        BY <2>3, <4>1, <4>4 DEF OneLoaded
      <4>6. \A k \in 1 .. Len(bheld') : bheld'[k].buf = 1
        BY <2>3, <4>1
      <4>7. ~bhits'
        BY <2>2, <3>1, <3>3, Zenon DEF BufMount
      <4> QED
        BY <2>2, <3>3, <4>1, <4>3, <4>5, <4>6, <4>7 DEF BufMount
    <3>4. CASE bcalls = 3
      BY <2>2, <3>4 DEF BufMount
    <3> QED
      BY <1>2, <3>1, <3>2, <3>3, <3>4
  <2> QED
    BY <1>1, <2>2, <2>3, <2>4, Zenon DEF BufDataInv
<1>9. CASE UNCHANGED bufVars
  <2>1. /\ bq' = bq /\ bheld' = bheld /\ bhung' = bhung /\ bhits' = bhits
        /\ bkernel' = bkernel /\ bcalls' = bcalls
    BY <1>9, Zenon DEF bufVars
  <2>2. BufMount => BufMount'
    BY <2>1, Zenon DEF BufMount
  <2> QED
    BY <1>1, <2>1, <2>2, Zenon DEF BufDataInv
<1> QED
  BY <1>5, <1>6, <1>7, <1>8, <1>9, Zenon DEF BufNext, Bread

\* For every number of headers and sectors: the kernel is given the sectors
\* it asks for and keeps them until it releases them, the two of the super
\* block at the same time included, whatever a hit or a reuse did to the
\* lists (bhash.c:160, 233; ext2.c:96, 131); any other caller until its first
\* hit, however many blocks it holds.  Sector 0 of device 0, the key of the
\* headers never used, must not be read.
THEOREM BufferGivesSector ==
  ASSUME BUFF_QUEUE_SIZE >= 3, <<0, 0>> \notin Sectors
  PROVE  BufSpec => []BufRightBlock
<1>1. BufInit => BufDataInv
  BY BufDataStart
<1>2. BufDataInv /\ [BufNext]_bufVars => BufDataInv'
  BY BufDataKept
<1>3. BufDataInv => BufRightBlock
  <2> SUFFICES ASSUME BufDataInv PROVE BufRightBlock
    OBVIOUS
  <2>1. DOMAIN bheld = 1 .. Len(bheld)
    BY DEF BufDataInv, BufInv, BufTypeOK
  <2>2. bkernel \/ ~bhits => Right(bq, bheld)
    BY Zenon DEF BufDataInv
  <2> QED
    BY <2>1, <2>2 DEF BufRightBlock, Right
<1> QED
  BY <1>1, <1>2, <1>3, PTL DEF BufSpec

----------------------------------------------------------------------------
(***************************************************************************)
(* The partition table.  What the entry i of the MBR adds to it has        *)
(* numbers that no other entry gives.                                      *)
(***************************************************************************)
Disk(d) ==
    /\ d.signed \in BOOLEAN /\ d.mbr \in [1 .. 4 -> EntryType]
    /\ IsFiniteSet(DOMAIN d.ebr) /\ DOMAIN d.ebr \subseteq Nat
    /\ \A x \in DOMAIN d.ebr :
         /\ d.ebr[x].part \in EntryType
         /\ d.ebr[x].next.sysid # 0 => x + d.ebr[x].next.first \in DOMAIN d.ebr
    /\ \A i \in 1 .. 4 : IsExtended(d.mbr[i]) => d.mbr[i].first \in DOMAIN d.ebr
    /\ \A i, j \in 1 .. 4 : IsExtended(d.mbr[i]) /\ IsExtended(d.mbr[j]) => i = j

\* The numbers that entry i may give, and the numbers of a list.
NumbersOf(d, i) == {i} \cup (IF IsExtended(d.mbr[i]) THEN {n \in Nat : n > 4} ELSE {})

Numbered(q, S) ==
    /\ \A k \in 1 .. Len(q) : q[k].number \in S
    /\ \A k, l \in 1 .. Len(q) : q[k].number = q[l].number => k = l

\* The walk over the EBRs meets EBRs.
LEMMA ChainType ==
  ASSUME NEW d, Disk(d), NEW i \in 1 .. 4, IsExtended(d.mbr[i])
  PROVE  EbrChain(d, d.mbr[i]) \in Seq(DOMAIN d.ebr)
<1> DEFINE f == NextEbr(d)
           start == d.mbr[i].first
<1>1. DOMAIN f = DOMAIN d.ebr /\ IsFiniteSet(DOMAIN f) /\ start \in DOMAIN f
  BY DEF Disk, NextEbr
<1>2. ASSUME NEW x \in DOMAIN f PROVE f[x] \in DOMAIN f \cup {NULL}
  <2>1. f[x] = IF d.ebr[x].next.sysid = 0 THEN NULL ELSE x + d.ebr[x].next.first
    BY <1>1 DEF NextEbr
  <2>2. d.ebr[x].next.sysid # 0 => x + d.ebr[x].next.first \in DOMAIN f
    BY <1>1 DEF Disk
  <2> QED
    BY <2>1, <2>2
<1> HIDE DEF f, start
<1>3. Trail(f, start, NULL) \in Seq(DOMAIN f)
  BY <1>1, <1>2, TrailType
<1> QED
  BY <1>1, <1>3 DEF EbrChain, f, start

\* The list has an entry for the partition.
Lists(q, x) ==
    \E l \in 1 .. Len(q) : /\ q[l].number = x.number /\ q[l].init = x.first
                           /\ q[l].length = x.total

\* What is filled in for entry i: as many partitions as are counted for it,
\* with numbers of its own; all of its partitions are in it.
LEMMA FillRight ==
  ASSUME NEW d, Disk(d), NEW i \in 1 .. 4
  PROVE  \E T : /\ Fill(d, i) \in Seq(T) /\ Len(Fill(d, i)) = CountEntry(d, d.mbr[i])
                /\ Numbered(Fill(d, i), NumbersOf(d, i))
                /\ \A x \in PartitionsOf(d, i) : Lists(Fill(d, i), x)
<1> DEFINE e == d.mbr[i]
           chain == EbrChain(d, e)
           entry(type) ==
             [init |-> e.first, length |-> e.total, id |-> e.sysid, number |-> i, type |-> type]
           logic == [k \in 1 .. Len(chain) |->
                       [init |-> chain[k], length |-> d.ebr[chain[k]].part.total,
                        id |-> d.ebr[chain[k]].part.sysid,
                        number |-> LogicNumber(k), type |-> "logic"]]
<1>1. Fill(d, i) = IF e.sysid = 0 THEN <<>>
                   ELSE IF ~IsExtended(e) THEN << entry("primary") >>
                   ELSE << entry("extended") >> \o logic
  BY Zenon DEF Fill
<1>2. CountEntry(d, e) = IF e.sysid = 0 THEN 0 ELSE IF IsExtended(e) THEN Len(chain) + 1 ELSE 1
  BY Zenon DEF CountEntry
<1>2a. PartitionsOf(d, i) =
         IF e.sysid = 0 THEN {}
         ELSE {Extent(i, e.first, e.total)} \cup
              (IF IsExtended(e)
               THEN {Extent(k + 4, chain[k], d.ebr[chain[k]].part.total) : k \in 1 .. Len(chain)}
               ELSE {})
  BY DEF PartitionsOf
<1>3. CASE e.sysid = 0
  <2>1. Fill(d, i) = <<>> /\ CountEntry(d, e) = 0 /\ PartitionsOf(d, i) = {}
    BY <1>1, <1>2, <1>2a, <1>3
  <2>2. <<>> \in Seq(Nat) /\ Len(<<>>) = 0 /\ Numbered(<<>>, NumbersOf(d, i))
    BY DEF Numbered
  <2> QED
    BY <2>1, <2>2
<1>4. CASE e.sysid # 0 /\ ~IsExtended(e)
  <2> DEFINE p == entry("primary")
  <2>1. /\ Fill(d, i) = << p >> /\ CountEntry(d, e) = 1
        /\ PartitionsOf(d, i) = {Extent(i, e.first, e.total)}
    BY <1>1, <1>2, <1>2a, <1>4
  <2>2. p.number = i /\ p.init = e.first /\ p.length = e.total
    OBVIOUS
  <2> HIDE DEF p
  <2>3. << p >> \in Seq({p}) /\ Len(<< p >>) = 1 /\ << p >>[1] = p
    OBVIOUS
  <2>4. Numbered(<< p >>, NumbersOf(d, i))
    BY <2>2, <2>3 DEF Numbered, NumbersOf
  <2>5. Lists(<< p >>, Extent(i, e.first, e.total))
    BY <2>2, <2>3 DEF Lists, Extent
  <2> QED
    BY <2>1, <2>3, <2>4, <2>5
<1>5. CASE e.sysid # 0 /\ IsExtended(e)
  <2> DEFINE p == entry("extended")
             q == << p >> \o logic
  <2>1. /\ Fill(d, i) = q /\ CountEntry(d, e) = Len(chain) + 1
        /\ PartitionsOf(d, i) = {Extent(i, e.first, e.total)} \cup
             {Extent(k + 4, chain[k], d.ebr[chain[k]].part.total) : k \in 1 .. Len(chain)}
    BY <1>1, <1>2, <1>2a, <1>5
  <2>2. chain \in Seq(DOMAIN d.ebr) /\ Len(chain) \in Nat
    BY <1>5, ChainType
  <2>3. /\ p.number = i /\ p.init = e.first /\ p.length = e.total
        /\ \A k \in 1 .. Len(chain) :
             /\ logic[k].number = k + 4 /\ logic[k].init = chain[k]
             /\ logic[k].length = d.ebr[chain[k]].part.total
    BY DEF LogicNumber
  <2> DEFINE T == {p} \cup {logic[k] : k \in 1 .. Len(chain)}
  <2>4. DOMAIN logic = 1 .. Len(chain) /\ logic = [k \in 1 .. Len(chain) |-> logic[k]]
    OBVIOUS
  <2> HIDE DEF logic, p, chain
  <2>5. logic \in [1 .. Len(chain) -> T]
    BY <2>4
  <2>6. logic \in Seq(T) /\ Len(logic) = Len(chain)
    <3> HIDE DEF T
    <3> QED
      BY <2>2, <2>5, SeqDef
  <2>7. << p >> \in Seq(T) /\ Len(<< p >>) = 1 /\ << p >>[1] = p
    OBVIOUS
  <2> HIDE DEF T
  <2>8. /\ q \in Seq(T) /\ Len(q) = 1 + Len(chain) /\ q[1] = p
        /\ \A k \in 2 .. Len(chain) + 1 : q[k] = logic[k - 1]
    BY <2>2, <2>6, <2>7
  <2> HIDE DEF q
  <2>9. ASSUME NEW k \in 1 .. Len(q) PROVE q[k].number = IF k = 1 THEN i ELSE k + 3
    <3>1. CASE k = 1
      BY <2>3, <2>8, <3>1
    <3>2. CASE k # 1
      <4>1. k \in 2 .. Len(chain) + 1 /\ k - 1 \in 1 .. Len(chain) /\ (k - 1) + 4 = k + 3
        BY <2>2, <2>8, <3>2
      <4>2. logic[k - 1].number = (k - 1) + 4
        BY <2>3, <4>1
      <4> QED
        BY <2>8, <3>2, <4>1, <4>2
    <3> QED
      BY <3>1, <3>2
  <2>10. Numbered(q, NumbersOf(d, i))
    <3>1. NumbersOf(d, i) = {i} \cup {n \in Nat : n > 4}
      BY <1>5 DEF NumbersOf
    <3> QED
      BY <2>2, <2>8, <2>9, <3>1 DEF Numbered
  <2>11. Lists(q, Extent(i, e.first, e.total))
    <3>1. 1 \in 1 .. Len(q)
      BY <2>2, <2>8
    <3> QED
      BY <2>3, <2>8, <3>1 DEF Lists, Extent
  <2>12. ASSUME NEW k \in 1 .. Len(chain)
         PROVE  Lists(q, Extent(k + 4, chain[k], d.ebr[chain[k]].part.total))
    <3>1. k + 1 \in 2 .. Len(chain) + 1 /\ k + 1 \in 1 .. Len(q) /\ (k + 1) - 1 = k
      BY <2>2, <2>8
    <3>2. q[k + 1] = logic[k]
      BY <2>8, <3>1
    <3> QED
      BY <2>3, <3>1, <3>2 DEF Lists, Extent
  <2>13. \A x \in PartitionsOf(d, i) : Lists(q, x)
    BY <2>1, <2>11, <2>12
  <2> QED
    BY <2>1, <2>8, <2>10, <2>13
<1> QED
  BY <1>3, <1>4, <1>5

\* The length of a partition.
LEMMA ExtentType ==
  ASSUME NEW d, Disk(d), NEW x \in PartitionsOn(d)
  PROVE  x.total \in Nat
<1>1. PICK i \in 1 .. 4 : x \in PartitionsOf(d, i)
  BY DEF PartitionsOn
<1>2. d.mbr[i] \in EntryType
  BY DEF Disk
<1>3. CASE x = Extent(i, d.mbr[i].first, d.mbr[i].total)
  BY <1>2, <1>3 DEF Extent, EntryType
<1>4. CASE /\ IsExtended(d.mbr[i])
           /\ \E k \in 1 .. Len(EbrChain(d, d.mbr[i])) :
                x = Extent(k + 4, EbrChain(d, d.mbr[i])[k],
                          d.ebr[EbrChain(d, d.mbr[i])[k]].part.total)
  <2>1. PICK k \in 1 .. Len(EbrChain(d, d.mbr[i])) :
               x = Extent(k + 4, EbrChain(d, d.mbr[i])[k],
                         d.ebr[EbrChain(d, d.mbr[i])[k]].part.total)
    BY <1>4
  <2>2. EbrChain(d, d.mbr[i])[k] \in DOMAIN d.ebr
    BY <1>4, ChainType
  <2>3. d.ebr[EbrChain(d, d.mbr[i])[k]].part \in EntryType
    BY <2>2 DEF Disk
  <2> QED
    BY <2>1, <2>3 DEF Extent, EntryType
<1>5. \/ x = Extent(i, d.mbr[i].first, d.mbr[i].total)
      \/ /\ IsExtended(d.mbr[i])
         /\ \E k \in 1 .. Len(EbrChain(d, d.mbr[i])) :
              x = Extent(k + 4, EbrChain(d, d.mbr[i])[k],
                        d.ebr[EbrChain(d, d.mbr[i])[k]].part.total)
  BY <1>1, Zenon DEF PartitionsOf
<1> QED
  BY <1>3, <1>4, <1>5

\* Everything in p is in r.
Covers(r, p) == \A k \in 1 .. Len(p) : \E l \in 1 .. Len(r) : r[l] = p[k]

\* Two lists whose numbers are different.
LEMMA JoinNumbered ==
  ASSUME NEW T, NEW p \in Seq(T), NEW q \in Seq(T), NEW A, NEW B,
         Numbered(p, A), Numbered(q, B), A \cap B = {}
  PROVE  /\ p \o q \in Seq(T) /\ Len(p \o q) = Len(p) + Len(q)
         /\ Numbered(p \o q, A \cup B)
         /\ Covers(p \o q, p) /\ Covers(p \o q, q)
<1> DEFINE r == p \o q
<1>1. /\ r \in Seq(T) /\ Len(r) = Len(p) + Len(q) /\ Len(p) \in Nat /\ Len(q) \in Nat
      /\ \A k \in 1 .. Len(p) + Len(q) : r[k] = IF k <= Len(p) THEN p[k] ELSE q[k - Len(p)]
  BY ConcatProperties
<1> HIDE DEF r
<1>2. \A k \in 1 .. Len(r) : r[k].number \in A \cup B
  BY <1>1 DEF Numbered
<1>3. ASSUME NEW k \in 1 .. Len(r), NEW l \in 1 .. Len(r), r[k].number = r[l].number PROVE k = l
  <2>1. CASE k <= Len(p) /\ l <= Len(p)
    BY <1>1, <1>3, <2>1 DEF Numbered
  <2>2. CASE k > Len(p) /\ l > Len(p)
    <3>1. k - Len(p) \in 1 .. Len(q) /\ l - Len(p) \in 1 .. Len(q)
      BY <1>1, <2>2
    <3>2. q[k - Len(p)].number = q[l - Len(p)].number
      BY <1>1, <1>3, <2>2
    <3>3. k - Len(p) = l - Len(p)
      BY <3>1, <3>2 DEF Numbered
    <3> QED
      BY <1>1, <3>3
  <2>3. CASE k <= Len(p) /\ l > Len(p)
    <3>1. r[k].number \in A /\ r[l].number \in B
      BY <1>1, <2>3 DEF Numbered
    <3> QED
      BY <1>3, <3>1
  <2>4. CASE k > Len(p) /\ l <= Len(p)
    <3>1. r[k].number \in B /\ r[l].number \in A
      BY <1>1, <2>4 DEF Numbered
    <3> QED
      BY <1>3, <3>1
  <2> QED
    BY <1>1, <2>1, <2>2, <2>3, <2>4
<1>4. Numbered(r, A \cup B)
  BY <1>2, <1>3 DEF Numbered
<1>5. ASSUME NEW k \in 1 .. Len(p) PROVE \E l \in 1 .. Len(r) : r[l] = p[k]
  <2>1. k \in 1 .. Len(r) /\ r[k] = p[k]
    BY <1>1
  <2> QED
    BY <2>1
<1>6. ASSUME NEW k \in 1 .. Len(q) PROVE \E l \in 1 .. Len(r) : r[l] = q[k]
  <2>1. /\ k + Len(p) \in 1 .. Len(p) + Len(q) /\ ~(k + Len(p) <= Len(p))
        /\ (k + Len(p)) - Len(p) = k
    BY <1>1
  <2>2. r[k + Len(p)] = q[k] /\ k + Len(p) \in 1 .. Len(r)
    BY <1>1, <2>1
  <2> QED
    BY <2>2
<1> QED
  BY <1>1, <1>4, <1>5, <1>6 DEF r, Covers

\* The whole table.
LEMMA FilledRight ==
  ASSUME NEW d, Disk(d)
  PROVE  /\ Len(Filled(d)) = Count(d) /\ Count(d) \in Nat /\ DOMAIN Filled(d) = 1 .. Count(d)
         /\ \A k, l \in 1 .. Count(d) : Filled(d)[k].number = Filled(d)[l].number => k = l
         /\ \A x \in PartitionsOn(d) : Lists(Filled(d), x)
<1> DEFINE F(i) == Fill(d, i)
           N(i) == NumbersOf(d, i)
           C(i) == CountEntry(d, d.mbr[i])
           Single(i) == \A x \in PartitionsOf(d, i) : Lists(F(i), x)
<1>1. ASSUME NEW i \in 1 .. 4
      PROVE  \E T : F(i) \in Seq(T) /\ Len(F(i)) = C(i) /\ Numbered(F(i), N(i)) /\ Single(i)
  BY FillRight
<1>2. \A i, j \in 1 .. 4 : i # j => N(i) \cap N(j) = {}
  <2>1. \A i, j \in 1 .. 4 : IsExtended(d.mbr[i]) /\ IsExtended(d.mbr[j]) => i = j
    BY DEF Disk
  <2> QED
    BY <2>1 DEF NumbersOf
<1>3. Filled(d) = ((F(1) \o F(2)) \o F(3)) \o F(4)
  BY DEF Filled
<1>4. Count(d) = C(1) + C(2) + C(3) + C(4)
  BY DEF Count
<1>5. 1 \in 1 .. 4 /\ 2 \in 1 .. 4 /\ 3 \in 1 .. 4 /\ 4 \in 1 .. 4
  OBVIOUS
<1> HIDE DEF F, N, C, Single
<1>6. PICK T1 : F(1) \in Seq(T1) /\ Len(F(1)) = C(1) /\ Numbered(F(1), N(1)) /\ Single(1)
  BY <1>1, <1>5
<1>7. PICK T2 : F(2) \in Seq(T2) /\ Len(F(2)) = C(2) /\ Numbered(F(2), N(2)) /\ Single(2)
  BY <1>1, <1>5
<1>8. PICK T3 : F(3) \in Seq(T3) /\ Len(F(3)) = C(3) /\ Numbered(F(3), N(3)) /\ Single(3)
  BY <1>1, <1>5
<1>9. PICK T4 : F(4) \in Seq(T4) /\ Len(F(4)) = C(4) /\ Numbered(F(4), N(4)) /\ Single(4)
  BY <1>1, <1>5
<1> DEFINE T == T1 \cup T2 \cup T3 \cup T4
<1>10. F(1) \in Seq(T) /\ F(2) \in Seq(T) /\ F(3) \in Seq(T) /\ F(4) \in Seq(T)
  <2>1. T1 \subseteq T /\ T2 \subseteq T /\ T3 \subseteq T /\ T4 \subseteq T
    OBVIOUS
  <2> HIDE DEF T
  <2> QED
    BY <1>6, <1>7, <1>8, <1>9, <2>1, SeqMonotonic
<1> HIDE DEF T
<1> DEFINE a == F(1) \o F(2)
           b == a \o F(3)
           c == b \o F(4)
<1>11. /\ a \in Seq(T) /\ Len(a) = C(1) + C(2) /\ Numbered(a, N(1) \cup N(2))
       /\ Covers(a, F(1)) /\ Covers(a, F(2))
  <2>1. N(1) \cap N(2) = {}
    BY <1>2, <1>5
  <2> QED
    <3> DEFINE x == F(1)
               y == F(2)
               A == N(1)
               B == N(2)
    <3>1. /\ x \in Seq(T) /\ y \in Seq(T) /\ Numbered(x, A) /\ Numbered(y, B) /\ A \cap B = {}
          /\ Len(x) = C(1) /\ Len(y) = C(2)
      BY <1>6, <1>7, <1>10, <2>1
    <3> HIDE DEF x, y, A, B
    <3>2. /\ x \o y \in Seq(T) /\ Len(x \o y) = Len(x) + Len(y) /\ Numbered(x \o y, A \cup B)
          /\ Covers(x \o y, x) /\ Covers(x \o y, y)
      BY <3>1, JoinNumbered
    <3> QED
      BY <3>1, <3>2 DEF x, y, A, B
<1> HIDE DEF a
<1>12. /\ b \in Seq(T) /\ Len(b) = C(1) + C(2) + C(3) /\ Numbered(b, N(1) \cup N(2) \cup N(3))
       /\ Covers(b, a) /\ Covers(b, F(3))
  <2>1. N(1) \cap N(3) = {} /\ N(2) \cap N(3) = {}
    BY <1>2, <1>5
  <2>2. (N(1) \cup N(2)) \cap N(3) = {}
    BY <2>1
  <2> QED
    BY <1>8, <1>10, <1>11, <2>2, JoinNumbered
<1> HIDE DEF b
<1> DEFINE S == N(1) \cup N(2) \cup N(3) \cup N(4)
<1>13. /\ c \in Seq(T) /\ Len(c) = C(1) + C(2) + C(3) + C(4) /\ Numbered(c, S)
       /\ Covers(c, b) /\ Covers(c, F(4))
  <2>1. N(1) \cap N(4) = {} /\ N(2) \cap N(4) = {} /\ N(3) \cap N(4) = {}
    BY <1>2, <1>5
  <2>2. (N(1) \cup N(2) \cup N(3)) \cap N(4) = {}
    BY <2>1
  <2> QED
    BY <1>9, <1>10, <1>12, <2>2, JoinNumbered
<1> HIDE DEF c, S
<1>14. Filled(d) = c
  BY <1>3 DEF a, b, c
<1>15. Len(c) = Count(d) /\ Count(d) \in Nat /\ DOMAIN c = 1 .. Count(d)
  BY <1>4, <1>13
<1>16. \A k, l \in 1 .. Count(d) : c[k].number = c[l].number => k = l
  BY <1>13, <1>15 DEF Numbered
<1>17. Covers(c, F(1)) /\ Covers(c, F(2)) /\ Covers(c, F(3)) /\ Covers(c, F(4))
  <2>1. ASSUME NEW x, NEW y, NEW z, Covers(x, y), Covers(y, z) PROVE Covers(x, z)
    BY <2>1, Zenon DEF Covers
  <2> QED
    BY <1>11, <1>12, <1>13, <2>1, Zenon
<1>18. ASSUME NEW n \in 1 .. 4, NEW x \in PartitionsOf(d, n) PROVE Lists(c, x)
  <2>0. n = 1 \/ n = 2 \/ n = 3 \/ n = 4
    OBVIOUS
  <2>1. Lists(F(n), x)
    <3>1. Single(n)
      BY <1>6, <1>7, <1>8, <1>9, <2>0
    <3> QED
      BY <3>1 DEF Single
  <2>2. PICK k \in 1 .. Len(F(n)) : /\ F(n)[k].number = x.number /\ F(n)[k].init = x.first
                                    /\ F(n)[k].length = x.total
    BY <2>1 DEF Lists
  <2>3. \E l \in 1 .. Len(c) : c[l] = F(n)[k]
    BY <1>17, <2>0, <2>2 DEF Covers
  <2> QED
    BY <2>2, <2>3 DEF Lists
<1>19. \A x \in PartitionsOn(d) : Lists(c, x)
  BY <1>18 DEF PartitionsOn
<1> QED
  BY <1>14, <1>15, <1>16, <1>19

PartInv ==
    /\ pdisk \in Disks
    /\ IF pparse = "ok" THEN ptable = [size |-> Count(pdisk), partitions |-> Filled(pdisk)]
       ELSE ptable = NoTable

\* A sector of a partition.
LEMMA TranslateRight ==
  ASSUME Disk(pdisk), ptable = [size |-> Count(pdisk), partitions |-> Filled(pdisk)],
         NEW x \in PartitionsOn(pdisk), NEW a \in Nat
  PROVE  translate_part_address(x.number, a) = IF a > x.total THEN -1 ELSE x.first + a
<1> DEFINE q == Filled(pdisk)
           m == Count(pdisk)
           hits == {i \in 1 .. m : q[i].number = x.number}
           least == CHOOSE i \in hits : \A j \in hits : i <= j
<1>1. /\ m \in Nat /\ \A k, l \in 1 .. m : q[k].number = q[l].number => k = l
  BY FilledRight
<1>2. PICK p \in 1 .. m : /\ q[p].number = x.number /\ q[p].init = x.first
                          /\ q[p].length = x.total
  <2>1. Lists(q, x) /\ Len(q) = m
    BY FilledRight
  <2> HIDE DEF q, m
  <2> QED
    BY <2>1 DEF Lists
<1>3. ptable.size = m /\ ptable.partitions = q
  OBVIOUS
<1>4. translate_part_address(x.number, a) = IF hits = {} \/ a > q[least].length THEN -1 ELSE q[least].init + a
  <2> HIDE DEF q, m
  <2> QED
    BY <1>3 DEF translate_part_address
<1> HIDE DEF q, m
<1>5. hits = {p}
  BY <1>1, <1>2
<1>6. least = p
  BY <1>1, <1>2, <1>5
<1> HIDE DEF hits, least
<1> QED
  BY <1>2, <1>4, <1>5, <1>6

\* The table says what it must.
LEMMA PartImplies == PartInv => PartitionRight
<1> SUFFICES ASSUME PartInv PROVE PartFilled /\ PartNumbers /\ PartInside
  BY Zenon DEF PartitionRight
<1>1. Disk(pdisk)
  BY PartitionAssumption, Zenon DEF PartInv, Disk
<1>2. CASE pparse # "ok"
  <2>1. ptable.size = 0 /\ ptable.partitions = <<>>
    BY <1>2 DEF PartInv, NoTable
  <2> QED
    BY <1>2, <2>1 DEF PartFilled, PartNumbers, PartInside
<1>3. CASE pparse = "ok"
  <2>1. ptable = [size |-> Count(pdisk), partitions |-> Filled(pdisk)]
    BY <1>3 DEF PartInv
  <2>2. ptable.size = Count(pdisk) /\ ptable.partitions = Filled(pdisk)
    BY <2>1
  <2>3. PartFilled
    BY <1>1, <2>2, FilledRight DEF PartFilled
  <2>4. PartNumbers
    BY <1>1, <2>2, FilledRight DEF PartNumbers
  <2>5. ASSUME NEW x \in PartitionsOn(pdisk), NEW a \in 0 .. x.total + 1
        PROVE  translate_part_address(x.number, a) = IF a <= x.total THEN x.first + a ELSE -1
    <3>1. x.total \in Nat
      BY <1>1, ExtentType
    <3>2. translate_part_address(x.number, a) = IF a > x.total THEN -1 ELSE x.first + a
      BY <1>1, <2>1, <3>1, TranslateRight
    <3> QED
      BY <3>1, <3>2
  <2>6. PartInside
    BY <2>5, Zenon DEF PartInside
  <2> QED
    BY <2>3, <2>4, <2>6
<1> QED
  BY <1>2, <1>3

\* For every set of disks whose extended entries lead to EBRs, one extended
\* partition at most: the two passes of parse_mbr agree, the numbers of the
\* table are distinct, and translate_part_address counts an address from the
\* start of its own partition, primary, extended or logical, and refuses one
\* greater than its length (partition.c:71, 104, 190).
THEOREM PartitionTableRight == PartSpec => []PartitionRight
<1>1. PartInit => PartInv
  BY DEF PartInit, PartInv
<1>2. PartInv /\ [PartNext]_partVars => PartInv'
  <2> SUFFICES ASSUME PartInv, [PartNext]_partVars PROVE PartInv'
    OBVIOUS
  <2>1. ASSUME NEW tab_ok \in BOOLEAN, NEW parts_ok \in BOOLEAN, parse_mbr(tab_ok, parts_ok)
        PROVE  PartInv'
    <3>1. pdisk' = pdisk /\ pdisk \in Disks /\ ptable = NoTable
      BY <2>1 DEF parse_mbr, PartInv
    <3>2. \/ pparse' = "refused" /\ ptable' = ptable
          \/ pparse' = "hung" /\ ptable' = ptable
          \/ pparse' = "ok" /\ ptable' = [size |-> Count(pdisk), partitions |-> Filled(pdisk)]
      BY <2>1, Zenon DEF parse_mbr
    <3> QED
      BY <3>1, <3>2 DEF PartInv
  <2>2. CASE UNCHANGED partVars
    BY <2>2, Zenon DEF PartInv, partVars
  <2> QED
    BY <2>1, <2>2, Zenon DEF PartNext
<1>3. PartInv => PartitionRight
  BY PartImplies
<1> QED
  BY <1>1, <1>2, <1>3, PTL DEF PartSpec
=============================================================================
