----------------------------- MODULE TimerProofs -----------------------------
(***************************************************************************)
(* The quantum ends in time, and a tick with one due alarm serves exactly  *)
(* that one, for every width of jiffies, every quantum, every delay and    *)
(* any use of alarms.                                                      *)
(***************************************************************************)
EXTENDS Timer, Residues, SequenceTheorems, FiniteSetTheorems, TLAPS

\* A tick moves jiffies on by one, perhaps to 0; counted from inside the
\* handler, as many ticks are left as before.
LEMMA TickArith ==
  ASSUME NEW m \in Nat \ {0}, NEW j \in 0 .. m - 1, NEW s \in 0 .. m - 1
  PROVE  (s - ((j + 1) % m) + 1) % m = (s - j) % m
<1>1. CASE j + 1 < m
  <2>1. (j + 1) % m = j + 1
    BY <1>1, ModLow
  <2> QED
    BY <2>1
<1>2. CASE j + 1 = m
  <2>1. (j + 1) % m = 0
    BY <1>2, ModHigh
  <2>2. CASE s = j
    <3>1. (s + 1) % m = 0
      BY <1>2, <2>2, ModHigh
    <3>2. (s - j) % m = 0
      BY <2>2, ModLow
    <3> QED
      BY <2>1, <3>1, <3>2
  <2>3. CASE s < j
    <3>1. (s + 1) % m = s + 1
      BY <1>2, <2>3, ModLow
    <3>2. (s - j) % m = s - j + m
      BY <2>3, ModNeg
    <3> QED
      BY <1>2, <2>1, <3>1, <3>2
  <2> QED
    BY <1>2, <2>2, <2>3
<1> QED
  BY <1>1, <1>2

\* A quantum that starts now ends q ticks later.
LEMMA StartArith ==
  ASSUME NEW m \in Nat \ {0}, NEW j \in 0 .. m - 1, NEW q \in 0 .. m - 1
  PROVE  (((j + q) % m) - j) % m = q
<1>1. CASE j + q < m
  <2>1. (j + q) % m = j + q
    BY <1>1, ModLow
  <2> QED
    BY <2>1, ModLow
<1>2. CASE j + q >= m
  <2> DEFINE z == j + q
  <2>0. z \in Int /\ m <= z /\ z < 2 * m
    BY <1>2
  <2>1. z % m = z - m
    <3> HIDE DEF z
    <3> QED
      BY <2>0, ModHigh
  <2>2. (q - m) % m = q
    BY ModNeg
  <2> QED
    BY <2>1, <2>2
<1> QED
  BY <1>1, <1>2

\* A quantum that is not over loses a tick, and only a tick.
LEMMA KeepArith ==
  ASSUME NEW m \in Nat \ {0}, NEW j \in 0 .. m - 1, NEW s \in 0 .. m - 1,
         NEW q \in Nat, m # 1, 2 * ((s - j) % m) < m, (s - j + 1) % m <= q
  PROVE  (s - j) % m <= q
<1>1. CASE s >= j
  <2>1. (s - j) % m = s - j
    BY <1>1, ModLow
  <2>2. s - j + 1 < m
    BY <2>1
  <2>3. (s - j + 1) % m = s - j + 1
    BY <1>1, <2>2, ModLow
  <2> QED
    BY <2>1, <2>3
<1>2. CASE s < j
  <2>1. (s - j) % m = s - j + m
    BY <1>2, ModNeg
  <2>2. s - j + 1 < 0
    BY <1>2, <2>1
  <2>3. (s - j + 1) % m = s - j + 1 + m
    BY <2>2, ModNeg
  <2> QED
    BY <2>1, <2>3
<1> QED
  BY <1>1, <1>2

----------------------------------------------------------------------------
\* The inductive invariant: the clock variables are in range and the quantum
\* ends in time.
ClockInv ==
    /\ jiffies \in 0 .. M - 1
    /\ sched_cnt \in 0 .. M - 1
    /\ walking \in BOOLEAN
    /\ QuantumEnds

\* The clock's invariant holds at the start.
LEMMA ClockInit == Init => ClockInv
<1> SUFFICES ASSUME Init PROVE ClockInv
  OBVIOUS
<1>1. Quantum % M = Quantum
  BY ModLow, TimerAssumption
<1>2. jiffies \in 0 .. Quantum /\ sched_cnt = jiffies + Quantum /\ ~walking
  BY DEF Init
<1>3. sched_cnt - jiffies + 0 = Quantum
  BY <1>2, TimerAssumption
<1>4. QuantumEnds
  BY <1>1, <1>2, <1>3, TimerAssumption DEF QuantumEnds
<1>5. jiffies \in 0 .. M - 1 /\ sched_cnt \in 0 .. M - 1
  BY <1>2, TimerAssumption
<1>6. walking \in BOOLEAN
  BY <1>2 DEF Init
<1> QED
  BY <1>4, <1>5, <1>6 DEF ClockInv

\* The timer interrupt keeps it.
LEMMA ClockTick == ASSUME ClockInv, TimerIrq PROVE ClockInv'
<1>1. M \in Nat \ {0} /\ jiffies \in 0 .. M - 1 /\ sched_cnt \in 0 .. M - 1
  BY TimerAssumption DEF ClockInv
<1>2. /\ jiffies' = (jiffies + 1) % M /\ sched_cnt' = sched_cnt
      /\ walking = FALSE /\ walking' = TRUE
  BY DEF TimerIrq, ClockInv
<1>3. (sched_cnt - ((jiffies + 1) % M) + 1) % M = (sched_cnt - jiffies) % M
  BY <1>1, TickArith
<1>4. (sched_cnt - jiffies) % M <= Quantum
  <2>1. sched_cnt - jiffies + 0 = sched_cnt - jiffies
    BY <1>1
  <2> QED
    BY <1>2, <2>1 DEF ClockInv, QuantumEnds
<1>5. QuantumEnds'
  BY <1>2, <1>3, <1>4 DEF QuantumEnds
<1>6. jiffies' \in 0 .. M - 1
  BY <1>1, <1>2
<1> QED
  BY <1>1, <1>2, <1>5, <1>6 DEF ClockInv

\* do_schedule starts a new quantum exactly when none of the old is left.
LEMMA ClockSchedule == ASSUME ClockInv, WalkEnd PROVE ClockInv'
<1>1. /\ M \in Nat \ {0, 1} /\ jiffies \in 0 .. M - 1 /\ sched_cnt \in 0 .. M - 1
      /\ Quantum \in 0 .. M - 1
  BY TimerAssumption DEF ClockInv
<1>2. jiffies' = jiffies /\ walking = TRUE /\ walking' = FALSE
  BY DEF WalkEnd, ClockInv
<1>3. sched_cnt' \in 0 .. M - 1 /\ (sched_cnt' - jiffies) % M <= Quantum
  <2>1. CASE time_after(jiffies, sched_cnt)
    <3>1. sched_cnt' = (jiffies + Quantum) % M
      BY <2>1 DEF WalkEnd, do_schedule
    <3>2. (((jiffies + Quantum) % M) - jiffies) % M = Quantum
      BY <1>1, StartArith
    <3> QED
      BY <1>1, <3>1, <3>2
  <2>2. CASE ~time_after(jiffies, sched_cnt)
    <3>1. sched_cnt' = sched_cnt
      BY <2>2 DEF WalkEnd, do_schedule
    <3>2. (sched_cnt - jiffies) % M \in Int /\ 2 * ((sched_cnt - jiffies) % M) < M
      BY <1>1, <2>2 DEF time_after
    <3>3. (sched_cnt - jiffies + 1) % M <= Quantum
      BY <1>2 DEF ClockInv, QuantumEnds
    <3>4. (sched_cnt - jiffies) % M <= Quantum
      BY <1>1, <3>2, <3>3, KeepArith
    <3> QED
      BY <1>1, <3>1, <3>4
  <2> QED
    BY <2>1, <2>2
<1>4. sched_cnt' - jiffies + 0 = sched_cnt' - jiffies
  BY <1>1, <1>3
<1>5. QuantumEnds'
  BY <1>2, <1>3, <1>4 DEF QuantumEnds
<1> QED
  BY <1>1, <1>2, <1>3, <1>5 DEF ClockInv

\* At most Quantum ticks remain before the running task is preempted,
\* through every wrapping of jiffies and sched_cnt.
THEOREM QuantumAlwaysEnds == Spec => []QuantumEnds
<1>1. ClockInv /\ [Next]_vars => ClockInv'
  <2> SUFFICES ASSUME ClockInv, [Next]_vars PROVE ClockInv'
    OBVIOUS
  <2>1. CASE UNCHANGED <<jiffies, sched_cnt, walking>>
    BY <2>1 DEF ClockInv, QuantumEnds
  <2>2. ASSUME NEW a \in Alarms, NEW d \in Delays, NewAlarm(a, d) PROVE ClockInv'
    BY <2>1, <2>2 DEF NewAlarm, walkVars
  <2>3. ASSUME NEW a \in Alarms, AddAlarm(a) PROVE ClockInv'
    BY <2>1, <2>3 DEF AddAlarm, walkVars
  <2>4. CASE WalkStep
    BY <2>1, <2>4 DEF WalkStep
  <2>5. CASE UNCHANGED vars
    BY <2>1, <2>5 DEF vars
  <2> QED
    BY <2>2, <2>3, <2>4, <2>5, ClockTick, ClockSchedule DEF Next
<1>2. ClockInv => QuantumEnds
  BY DEF ClockInv
<1> QED
  BY ClockInit, <1>1, <1>2, PTL DEF Spec

----------------------------------------------------------------------------
\* What an alarm has to do with the clock.  An alarm in use expires left[a]
\* ticks from now, counted modulo M.
Clocked ==
    \A a \in Queued \cup arming :
        /\ expires[a] = (jiffies + left[a]) % M
        /\ 2 * (left[a] + 1) < M

NoneTwice == \A i, j \in DOMAIN alarm_queue : alarm_queue[i] = alarm_queue[j] => i = j

\* How late an alarm may be: one that is not queued yet at most MaxLate; one
\* in the queue, a tick more for every place that it has moved up.  A due
\* alarm that survives a tick has moved up, because the first due alarm is
\* removed.
Patience ==
    \A i \in DOMAIN alarm_queue :
        left[alarm_queue[i]] >= i - Cardinality(Alarms) - MaxLate

\* Inside the loop, before the first expired alarm: pos is tmp's.
Untouched ==
    /\ alarm_queue = before
    /\ node = pos + 1
    /\ \A j \in DOMAIN before : j < node => before[j] \notin due
    /\ ran = [a \in Alarms |-> 0]

\* The queue before this tick without its e-th alarm.
Without(e) == llist_remove_nth(before, e - 1)

\* After it, which was at place e: pos runs ahead of tmp, and the alarms
\* behind place e have moved up.
Touched(e) ==
    /\ before[e] \in due
    /\ \A j \in DOMAIN before : j < e => before[j] \notin due
    /\ e <= node /\ node <= pos
    /\ \A i \in DOMAIN alarm_queue :
          IF i < e THEN i \in DOMAIN before /\ alarm_queue[i] = before[i]
                   ELSE \E h \in DOMAIN before : h > i /\ alarm_queue[i] = before[h]
    /\ due = {before[e]} =>
          /\ alarm_queue = Without(e)
          /\ ran = [a \in Alarms |-> IF a = before[e] THEN 1 ELSE 0]

\* The queue when the tick began.
AtTick ==
    /\ \A i, j \in DOMAIN before : before[i] = before[j] => i = j
    /\ \A h \in DOMAIN before :
          /\ left[before[h]] >= h - Cardinality(Alarms) - MaxLate - 1
          /\ before[h] \in due <=> left[before[h]] < 0
    /\ \A a \in due : \E h \in DOMAIN before : before[h] = a

\* The inductive invariant.
AlarmInv ==
    /\ TypeOK
    /\ Clocked
    /\ NoneTwice /\ Queued \cap arming = {}
    /\ \A a \in arming : left[a] >= -MaxLate
    /\ ~walking => Patience
    /\ walking => AtTick /\ (Untouched \/ \E e \in DOMAIN before : Touched(e))

----------------------------------------------------------------------------
\* llist_remove_nth closes the gap, and removes nothing beyond the end.
LEMMA RemoveNth ==
  ASSUME NEW S, NEW q \in Seq(S), NEW p \in Nat
  PROVE  /\ llist_remove_nth(q, p) \in Seq(S)
         /\ p >= Len(q) => llist_remove_nth(q, p) = q
         /\ p < Len(q) =>
              /\ DOMAIN llist_remove_nth(q, p) = 1 .. Len(q) - 1
              /\ \A i \in 1 .. Len(q) - 1 :
                    llist_remove_nth(q, p)[i] = IF i <= p THEN q[i] ELSE q[i + 1]
<1>0. Len(q) \in Nat
  OBVIOUS
<1>1. CASE p >= Len(q)
  <2>1. ~(p < Len(q))
    BY <1>0, <1>1
  <2> QED
    BY <2>1 DEF llist_remove_nth
<1>2. CASE p < Len(q)
  <2> DEFINE u == SubSeq(q, 1, p)
             v == SubSeq(q, p + 2, Len(q))
  <2>1. llist_remove_nth(q, p) = u \o v
    BY <1>2 DEF llist_remove_nth
  <2>2. u \in Seq(S) /\ Len(u) = p /\ \A i \in 1 .. p : u[i] = q[i]
    BY <1>2
  <2>3. /\ v \in Seq(S) /\ Len(v) = Len(q) - 1 - p
        /\ \A i \in 1 .. Len(q) - 1 - p : v[i] = q[p + 1 + i]
    BY <1>2
  <2> HIDE DEF u, v
  <2>4. u \o v \in Seq(S) /\ Len(u \o v) = Len(q) - 1
    BY <1>2, <2>2, <2>3
  <2>5. ASSUME NEW i \in 1 .. Len(q) - 1
        PROVE  (u \o v)[i] = IF i <= p THEN q[i] ELSE q[i + 1]
    <3>1. CASE i <= p
      BY <1>2, <2>2, <2>3, <3>1
    <3>2. CASE i > p
      <4>1. (u \o v)[i] = v[i - p] /\ i - p \in 1 .. Len(q) - 1 - p
        BY <1>2, <2>2, <2>3, <3>2
      <4>2. v[i - p] = q[p + 1 + (i - p)] /\ p + 1 + (i - p) = i + 1
        BY <2>3, <4>1
      <4> QED
        BY <3>2, <4>1, <4>2
    <3>3. i <= p \/ i > p
      BY <1>0
    <3> QED
      BY <3>1, <3>2, <3>3, Zenon
  <2>6. DOMAIN (u \o v) = 1 .. Len(q) - 1
    BY <2>4
  <2> QED
    BY <1>2, <2>1, <2>4, <2>5, <2>6
<1> QED
  BY <1>1, <1>2

\* A sequence without repetitions is no longer than there are elements.
LEMMA DistinctLength ==
  ASSUME NEW q \in Seq(Alarms), \A i, j \in DOMAIN q : q[i] = q[j] => i = j
  PROVE  Len(q) <= Cardinality(Alarms) /\ Cardinality(Alarms) \in Nat
<1>1. q \in Injection(1 .. Len(q), Alarms)
  BY DEF Injection, IsInjective
<1>2. IsFiniteSet(Alarms)
  BY TimerAssumption
<1>3. Cardinality(1 .. Len(q)) <= Cardinality(Alarms)
  BY <1>1, <1>2, FS_Injection
<1>4. Cardinality(1 .. Len(q)) = Len(q)
  <2>1. Len(q) \in Nat
    OBVIOUS
  <2>2. \A b \in Int : Cardinality(1 .. b) = IF 1 > b THEN 0 ELSE b - 1 + 1
    BY FS_Interval
  <2> QED
    BY <2>1, <2>2
<1> QED
  BY <1>2, <1>3, <1>4, FS_CardinalityType

\* A tick keeps the distance between the clock and an expiry time.
LEMMA TickDistance ==
  ASSUME NEW m \in Nat \ {0}, NEW j \in 0 .. m - 1, NEW l \in Int
  PROVE  (((j + 1) % m) + (l - 1)) % m = (j + l) % m
<1>1. CASE j + 1 < m
  <2>1. (j + 1) % m = j + 1
    BY <1>1, ModLow
  <2> QED
    BY <2>1
<1>2. CASE j + 1 = m
  <2>1. (j + 1) % m = 0
    BY <1>2, ModHigh
  <2>2. ((l - 1) + m) % m = (l - 1) % m
    <3> DEFINE x == l - 1
    <3>1. x \in Int
      OBVIOUS
    <3> HIDE DEF x
    <3>2. (x + m) % m = x % m
      BY <3>1, ModPeriod, Zenon
    <3> QED
      BY <3>2 DEF x
  <2>3. (l - 1) + m = j + l
    BY <1>2
  <2> QED
    BY <2>1, <2>2, <2>3
<1> QED
  BY <1>1, <1>2

\* time_after tells whether the true distance is negative, as long as it is
\* less than half the range.
LEMMA AfterExact ==
  ASSUME NEW j \in 0 .. M - 1, NEW l \in Int, 2 * (l + 1) < M, -(2 * l) <= M
  PROVE  time_after(j, (j + l) % M) <=> l < 0
<1>0. M \in Nat \ {0}
  BY TimerAssumption
<1>1. CASE l >= 0
  <2>1. l \in 0 .. M - 1
    BY <1>0, <1>1
  <2>2. (((j + l) % M) - j) % M = l
    BY <1>0, <2>1, StartArith
  <2> QED
    BY <1>0, <1>1, <2>2 DEF time_after
<1>2. CASE l < 0
  <2> DEFINE q == l + M
  <2>1. q \in 0 .. M - 1
    BY <1>0, <1>2
  <2> HIDE DEF q
  <2>2. (((j + q) % M) - j) % M = q
    BY <1>0, <2>1, StartArith
  <2>3. (j + l) + M = j + q
    BY <1>0 DEF q
  <2>4. ((j + l) + M) % M = (j + l) % M
    <3> DEFINE x == j + l
    <3>1. x \in Int
      OBVIOUS
    <3> HIDE DEF x
    <3>2. (x + M) % M = x % M
      BY <1>0, <3>1, ModPeriod, Zenon
    <3> QED
      BY <3>2 DEF x
  <2>5. (((j + l) % M) - j) % M = q
    BY <2>2, <2>3, <2>4
  <2>6. 2 * q >= M
    BY <1>0 DEF q
  <2> QED
    BY <1>2, <2>5, <2>6 DEF time_after
<1> QED
  BY <1>1, <1>2

----------------------------------------------------------------------------
\* The types of the constants.
LEMMA TimerConstants ==
  /\ M \in Nat \ {0} /\ Quantum \in Nat /\ MaxLate \in Nat /\ Cardinality(Alarms) \in Nat
  /\ 2 * (MaxLate + Cardinality(Alarms) + 1) < M /\ 2 * (Quantum + 1) < M
  /\ \A d \in Delays : d \in Nat /\ 2 * (d + 1) < M
BY TimerAssumption, FS_CardinalityType

\* Every value of the clock is in its range.
LEMMA ResidueRange == ASSUME NEW x \in Int PROVE x % M \in 0 .. M - 1
BY TimerConstants

\* Every step keeps the types.
LEMMA AlarmTypes == ASSUME TypeOK, [Next]_vars PROVE TypeOK'
<1>0. ASSUME walking' \in BOOLEAN,
             /\ jiffies' \in 0 .. M - 1 /\ sched_cnt' \in 0 .. M - 1
             /\ alarm_queue' \in Seq(Alarms) /\ expires' \in [Alarms -> 0 .. M - 1]
             /\ arming' \subseteq Alarms /\ node' \in Nat /\ pos' \in Nat
             /\ left' \in [Alarms -> Int]
             /\ before' \in Seq(Alarms) /\ due' \subseteq Alarms /\ ran' \in [Alarms -> Nat]
      PROVE  TypeOK'
  BY <1>0 DEF TypeOK
<1>1. ASSUME NEW a \in Alarms, NEW d \in Delays, NewAlarm(a, d) PROVE TypeOK'
  <2>0. jiffies + d \in Int /\ d \in Int
    BY TimerConstants DEF TypeOK
  <2>1. (jiffies + d) % M \in 0 .. M - 1
    BY <2>0, ResidueRange
  <2>2. walking' \in BOOLEAN
    BY <1>1 DEF NewAlarm, walkVars, TypeOK
  <2> QED
    BY <1>0, <1>1, <2>0, <2>1, <2>2 DEF NewAlarm, walkVars, TypeOK
<1>2. ASSUME NEW a \in Alarms, AddAlarm(a) PROVE TypeOK'
  <2>1. Append(alarm_queue, a) \in Seq(Alarms)
    BY DEF TypeOK
  <2>2. walking' \in BOOLEAN
    BY <1>2 DEF AddAlarm, walkVars, TypeOK
  <2> QED
    BY <1>0, <1>2, <2>1, <2>2 DEF AddAlarm, walkVars, TypeOK
<1>3. CASE TimerIrq
  <2>0. jiffies + 1 \in Int
    BY TimerConstants DEF TypeOK
  <2>1. (jiffies + 1) % M \in 0 .. M - 1
    BY <2>0, ResidueRange
  <2>2. walking' \in BOOLEAN
    BY <1>3 DEF TimerIrq
  <2>3. Queued \subseteq Alarms
    BY DEF Queued, TypeOK
  <2> QED
    BY <1>0, <1>3, <2>1, <2>2, <2>3 DEF TimerIrq, TypeOK
<1>4. CASE WalkStep
  <2>1. llist_remove_nth(alarm_queue, pos) \in Seq(Alarms)
    BY RemoveNth DEF TypeOK
  <2>2. walking' \in BOOLEAN
    BY <1>4 DEF WalkStep, TypeOK
  <2>3. ASSUME NEW x PROVE [ran EXCEPT ![x] = @ + 1] \in [Alarms -> Nat]
    <3>1. CASE x \in Alarms
      BY <3>1 DEF TypeOK
    <3>2. CASE x \notin Alarms
      <4>1. [ran EXCEPT ![x] = @ + 1] = ran
        BY <3>2 DEF TypeOK
      <4> QED
        BY <4>1 DEF TypeOK
    <3> QED
      BY <3>1, <3>2
  <2> DEFINE x == alarm_queue[node]
  <2>4. \/ Expire(x)
        \/ node' = node + 1 /\ UNCHANGED <<alarm_queue, ran>>
    BY <1>4 DEF WalkStep
  <2> HIDE DEF x
  <2>5. /\ alarm_queue' \in Seq(Alarms) /\ ran' \in [Alarms -> Nat]
        /\ node' \in Nat /\ pos' \in Nat
    <3>1. pos' \in Nat
      BY <1>4 DEF WalkStep, TypeOK
    <3>2. CASE Expire(x)
      BY <2>1, <2>3, <3>1, <3>2 DEF Expire, TypeOK
    <3> QED
      BY <2>4, <3>1, <3>2 DEF TypeOK
  <2> QED
    BY <1>0, <1>4, <2>2, <2>5 DEF WalkStep, TypeOK
<1>5. CASE WalkEnd
  <2>1. sched_cnt' \in 0 .. M - 1
    <3>0. jiffies + Quantum \in Int
      BY TimerConstants DEF TypeOK
    <3>1. (jiffies + Quantum) % M \in 0 .. M - 1
      BY <3>0, ResidueRange
    <3> QED
      BY <1>5, <3>1 DEF WalkEnd, do_schedule, TypeOK
  <2>2. walking' \in BOOLEAN
    BY <1>5 DEF WalkEnd
  <2>3. expires' \in [Alarms -> 0 .. M - 1] /\ left' \in [Alarms -> Int]
    BY <1>5, TimerConstants DEF WalkEnd, TypeOK
  <2>4. <<>> \in Seq(Alarms) /\ [a \in Alarms |-> 0] \in [Alarms -> Nat]
    OBVIOUS
  <2> QED
    BY <1>0, <1>5, <2>1, <2>2, <2>3, <2>4 DEF WalkEnd, TypeOK
<1>6. CASE UNCHANGED vars
  <2>1. walking' \in BOOLEAN
    BY <1>6 DEF vars, TypeOK
  <2> QED
    BY <1>0, <1>6, <2>1 DEF vars, TypeOK
<1> QED
  BY <1>1, <1>2, <1>3, <1>4, <1>5, <1>6 DEF Next

\* The invariant of the alarms holds at the start.
LEMMA AlarmInit == Init => AlarmInv
<1> SUFFICES ASSUME Init PROVE AlarmInv
  OBVIOUS
<1>1. walking = FALSE /\ arming = {} /\ alarm_queue = <<>>
  BY DEF Init
<1>2. TypeOK
  <2>1. walking \in BOOLEAN
    BY <1>1
  <2>2. /\ jiffies \in 0 .. M - 1 /\ sched_cnt \in 0 .. M - 1
        /\ expires \in [Alarms -> 0 .. M - 1] /\ left \in [Alarms -> Int]
    BY TimerConstants DEF Init
  <2>3. <<>> \in Seq(Alarms) /\ [a \in Alarms |-> 0] \in [Alarms -> Nat]
    OBVIOUS
  <2> QED
    BY <2>1, <2>2, <2>3 DEF Init, TypeOK
<1>3. Queued = {} /\ DOMAIN alarm_queue = {}
  BY <1>1 DEF Queued
<1> QED
  BY <1>1, <1>2, <1>3 DEF AlarmInv, Clocked, NoneTwice, Patience

\* What is known of an alarm in the queue.
LEMMA QueuedAlarms ==
  ASSUME TypeOK
  PROVE  /\ DOMAIN alarm_queue = 1 .. Len(alarm_queue) /\ Len(alarm_queue) \in Nat
         /\ \A i \in DOMAIN alarm_queue : alarm_queue[i] \in Queued /\ alarm_queue[i] \in Alarms
         /\ \A a \in Queued : a \in Alarms /\ \E i \in DOMAIN alarm_queue : alarm_queue[i] = a
BY DEF TypeOK, Queued

\* new_alarm computes the expiry.
LEMMA NewAlarmStep ==
  ASSUME AlarmInv, NEW a \in Alarms, NEW d \in Delays, NewAlarm(a, d)
  PROVE  AlarmInv'
<1>1. /\ ~walking /\ a \notin Queued \cup arming
      /\ expires' = [expires EXCEPT ![a] = (jiffies + d) % M]
      /\ left' = [left EXCEPT ![a] = d] /\ arming' = arming \cup {a}
      /\ jiffies' = jiffies /\ alarm_queue' = alarm_queue
  BY DEF NewAlarm
<1>2. walking' = walking
  BY DEF NewAlarm, walkVars
<1>3. TypeOK /\ TypeOK'
  BY AlarmTypes DEF AlarmInv, Next
<1>4. Queued' = Queued /\ Queued \subseteq Alarms /\ arming \subseteq Alarms
  <2>1. Queued' = Queued
    BY <1>1 DEF Queued
  <2>2. Queued \subseteq Alarms
    BY <1>3, QueuedAlarms
  <2> QED
    BY <1>3, <2>1, <2>2 DEF TypeOK
<1>5. d \in Nat /\ 2 * (d + 1) < M
  BY TimerConstants
<1>6. /\ expires'[a] = (jiffies + d) % M /\ left'[a] = d
      /\ \A b \in Alarms \ {a} : expires'[b] = expires[b] /\ left'[b] = left[b]
  BY <1>1, <1>3 DEF TypeOK
<1>7. Clocked'
  BY <1>1, <1>4, <1>5, <1>6 DEF AlarmInv, Clocked
<1>8. NoneTwice' /\ Queued' \cap arming' = {}
  BY <1>1, <1>4 DEF AlarmInv, NoneTwice
<1>9. \A b \in arming' : left'[b] >= -MaxLate
  BY <1>1, <1>4, <1>5, <1>6, TimerConstants DEF AlarmInv
<1>10. Patience'
  BY <1>1, <1>3, <1>6, QueuedAlarms DEF AlarmInv, Patience
<1> QED
  BY <1>1, <1>2, <1>3, <1>7, <1>8, <1>9, <1>10 DEF AlarmInv

\* new_alarm queues the alarm.
LEMMA AddAlarmStep ==
  ASSUME AlarmInv, NEW a \in Alarms, AddAlarm(a)
  PROVE  AlarmInv'
<1>1. /\ ~walking /\ a \in arming /\ arming' = arming \ {a}
      /\ alarm_queue' = Append(alarm_queue, a) \/ alarm_queue' = alarm_queue
      /\ jiffies' = jiffies /\ expires' = expires /\ left' = left
  BY DEF AddAlarm
<1>2. walking' = walking
  BY DEF AddAlarm, walkVars
<1>3. TypeOK /\ TypeOK'
  BY AlarmTypes DEF AlarmInv, Next
<1>4. CASE alarm_queue' = alarm_queue
  <2>1. Queued' = Queued
    BY <1>4 DEF Queued
  <2> QED
    BY <1>1, <1>2, <1>3, <1>4, <2>1 DEF AlarmInv, Clocked, NoneTwice, Patience
<1>5. CASE alarm_queue' = Append(alarm_queue, a)
  <2> DEFINE n == Len(alarm_queue)
  <2>1. /\ n \in Nat /\ DOMAIN alarm_queue = 1 .. n /\ DOMAIN alarm_queue' = 1 .. n + 1
        /\ Len(alarm_queue') = n + 1
        /\ \A i \in 1 .. n : alarm_queue'[i] = alarm_queue[i]
        /\ alarm_queue'[n + 1] = a
    BY <1>3, <1>5 DEF TypeOK
  <2> HIDE DEF n
  <2>2. Queued' = Queued \cup {a} /\ a \notin Queued
    <3>1. Queued = {alarm_queue[i] : i \in 1 .. n}
      BY DEF Queued, n
    <3>2. Queued' = {alarm_queue'[i] : i \in 1 .. n + 1}
      BY <2>1 DEF Queued
    <3>3. Queued' = Queued \cup {a}
      BY <2>1, <3>1, <3>2
    <3> QED
      BY <1>1, <3>3 DEF AlarmInv
  <2>3. \A i \in 1 .. n : alarm_queue[i] # a
    BY <1>3, <2>1, <2>2, QueuedAlarms
  <2>4. NoneTwice'
    BY <2>1, <2>3 DEF AlarmInv, NoneTwice
  <2>5. Clocked' /\ Queued' \cap arming' = {} /\ \A b \in arming' : left'[b] >= -MaxLate
    BY <1>1, <2>2 DEF AlarmInv, Clocked
  <2>6. n + 1 <= Cardinality(Alarms)
    <3>1. Len(alarm_queue') <= Cardinality(Alarms)
      BY <1>3, <2>4, DistinctLength DEF TypeOK, NoneTwice
    <3> QED
      BY <2>1, <3>1
  <2>7. left[a] >= -MaxLate /\ left[a] \in Int
    BY <1>1, <1>3 DEF AlarmInv, TypeOK
  <2>8. Patience'
    <3> SUFFICES ASSUME NEW i \in 1 .. n + 1
                 PROVE  left[alarm_queue'[i]] >= i - Cardinality(Alarms) - MaxLate
      BY <1>1, <2>1 DEF Patience
    <3>1. CASE i = n + 1
      BY <2>1, <2>6, <2>7, <3>1, TimerConstants
    <3>2. CASE i # n + 1
      <4>1. i \in 1 .. n /\ alarm_queue'[i] = alarm_queue[i]
        BY <2>1, <3>2
      <4> QED
        BY <1>1, <2>1, <4>1 DEF AlarmInv, Patience
    <3> QED
      BY <3>1, <3>2
  <2> QED
    BY <1>1, <1>2, <1>3, <2>4, <2>5, <2>8 DEF AlarmInv
<1> QED
  BY <1>1, <1>4, <1>5

\* A tick counts the alarms down and walks the queue.
LEMMA TimerIrqStep == ASSUME AlarmInv, TimerIrq PROVE AlarmInv'
<1>1. /\ ~walking /\ \A a \in arming : left[a] > -MaxLate
      /\ jiffies' = (jiffies + 1) % M /\ node' = 1 /\ pos' = 0
      /\ left' = [a \in Alarms |-> IF a \in Queued \cup arming THEN left[a] - 1 ELSE left[a]]
      /\ before' = alarm_queue /\ due' = {a \in Queued : left'[a] < 0}
      /\ ran' = [a \in Alarms |-> 0]
      /\ alarm_queue' = alarm_queue /\ expires' = expires /\ arming' = arming
  BY DEF TimerIrq
<1>2. walking' = TRUE
  BY DEF TimerIrq
<1>3. TypeOK /\ TypeOK'
  BY AlarmTypes DEF AlarmInv, Next
<1>4. Queued' = Queued
  BY <1>1 DEF Queued
<1>5. \A a \in Queued \cup arming :
         /\ left[a] \in Int /\ left'[a] = left[a] - 1
         /\ expires[a] = (jiffies + left[a]) % M /\ 2 * (left[a] + 1) < M
  BY <1>1, <1>3, QueuedAlarms DEF AlarmInv, TypeOK, Clocked
<1>6. Clocked'
  <2> SUFFICES ASSUME NEW a \in Queued \cup arming
               PROVE  expires[a] = (jiffies' + left'[a]) % M /\ 2 * (left'[a] + 1) < M
    BY <1>1, <1>4 DEF Clocked
  <2>1. M \in Nat \ {0} /\ jiffies \in 0 .. M - 1 /\ left[a] \in Int
    BY <1>3, <1>5, TimerConstants DEF TypeOK
  <2>2. (((jiffies + 1) % M) + (left[a] - 1)) % M = (jiffies + left[a]) % M
    BY <2>1, TickDistance
  <2>3. jiffies' = (jiffies + 1) % M /\ left'[a] = left[a] - 1
    BY <1>1, <1>5
  <2>4. expires[a] = (jiffies + left[a]) % M /\ 2 * (left[a] + 1) < M
    BY <1>5
  <2>5. 2 * ((left[a] - 1) + 1) < M
    BY <2>1, <2>4
  <2> QED
    BY <2>2, <2>3, <2>4, <2>5, Zenon
<1>7. NoneTwice' /\ Queued' \cap arming' = {}
  BY <1>1, <1>4 DEF AlarmInv, NoneTwice
<1>8. \A a \in arming' : left'[a] >= -MaxLate
  <2> SUFFICES ASSUME NEW a \in arming PROVE left'[a] >= -MaxLate
    BY <1>1
  <2>1. left[a] \in Int /\ left'[a] = left[a] - 1 /\ left[a] > -MaxLate
    BY <1>1, <1>5
  <2> QED
    BY <2>1, TimerConstants
<1>9. AtTick'
  <2>1. \A h \in DOMAIN alarm_queue :
           /\ left'[alarm_queue[h]] >= h - Cardinality(Alarms) - MaxLate - 1
           /\ alarm_queue[h] \in due' <=> left'[alarm_queue[h]] < 0
    <3> TAKE h \in DOMAIN alarm_queue
    <3>1. /\ alarm_queue[h] \in Queued /\ h \in Int
          /\ left[alarm_queue[h]] >= h - Cardinality(Alarms) - MaxLate
      BY <1>1, <1>3, QueuedAlarms DEF AlarmInv, Patience
    <3>2. left'[alarm_queue[h]] >= h - Cardinality(Alarms) - MaxLate - 1
      BY <1>5, <3>1, TimerConstants
    <3> QED
      BY <1>1, <3>1, <3>2
  <2>2. \A a \in due' : \E h \in DOMAIN alarm_queue : alarm_queue[h] = a
    BY <1>1, <1>3, QueuedAlarms
  <2> QED
    BY <1>1, <2>1, <2>2 DEF AlarmInv, NoneTwice, AtTick
<1>10. Untouched'
  <2>1. \A j \in DOMAIN alarm_queue : ~(j < 1)
    BY <1>3, QueuedAlarms
  <2> QED
    BY <1>1, <2>1 DEF Untouched
<1> QED
  BY <1>2, <1>3, <1>6, <1>7, <1>8, <1>9, <1>10 DEF AlarmInv

----------------------------------------------------------------------------
\* Inside the loop every alarm of the queue was there when the tick began.
LEMMA FromBefore ==
  ASSUME AlarmInv, walking, NEW i \in DOMAIN alarm_queue
  PROVE  \E h \in DOMAIN before : alarm_queue[i] = before[h]
BY DEF AlarmInv, Untouched, Touched

\* The handler's comparison finds exactly the due alarms.
LEMMA DueExactly ==
  ASSUME AlarmInv, walking, NEW i \in DOMAIN alarm_queue
  PROVE  time_after(jiffies, expires[alarm_queue[i]]) <=> alarm_queue[i] \in due
<1> DEFINE a == alarm_queue[i]
<1>1. TypeOK /\ AtTick /\ Clocked
  BY DEF AlarmInv
<1>2. PICK h \in DOMAIN before : a = before[h]
  BY FromBefore
<1>3. a \in Queued /\ a \in Alarms /\ left[a] \in Int
  BY <1>1, QueuedAlarms DEF TypeOK
<1> HIDE DEF a
<1>4. h \in Nat /\ h >= 1
  <2>1. before \in Seq(Alarms)
    BY <1>1 DEF TypeOK
  <2>2. DOMAIN before = 1 .. Len(before)
    BY <2>1
  <2> QED
    BY <2>2
<1>5. left[a] >= h - Cardinality(Alarms) - MaxLate - 1 /\ (a \in due <=> left[a] < 0)
  BY <1>1, <1>2 DEF AtTick
<1>6. -(2 * left[a]) <= M
  <2> DEFINE l == left[a]
             c == Cardinality(Alarms)
  <2>1. /\ l \in Int /\ h \in Nat /\ h >= 1 /\ c \in Nat /\ MaxLate \in Nat /\ M \in Nat
        /\ l >= h - c - MaxLate - 1 /\ 2 * (MaxLate + c + 1) < M
    BY <1>3, <1>4, <1>5, TimerConstants
  <2> HIDE DEF l, c
  <2>2. -(2 * l) <= M
    BY <2>1
  <2> QED
    BY <2>2 DEF l
<1>7. expires[a] = (jiffies + left[a]) % M /\ 2 * (left[a] + 1) < M
  BY <1>1, <1>3 DEF Clocked
<1>8. jiffies \in 0 .. M - 1
  BY <1>1 DEF TypeOK
<1>9. time_after(jiffies, (jiffies + left[a]) % M) <=> left[a] < 0
  BY <1>3, <1>6, <1>7, <1>8, AfterExact
<1> QED
  BY <1>5, <1>7, <1>9 DEF a

\* Removing an alarm repeats none.
LEMMA RemoveDistinct ==
  ASSUME TypeOK, NoneTwice, alarm_queue' = llist_remove_nth(alarm_queue, pos)
  PROVE  /\ \A i, j \in DOMAIN alarm_queue' : alarm_queue'[i] = alarm_queue'[j] => i = j
         /\ \A i \in DOMAIN alarm_queue' :
               \E k \in DOMAIN alarm_queue : alarm_queue'[i] = alarm_queue[k]
<1> DEFINE n == Len(alarm_queue)
<1>1. n \in Nat /\ pos \in Nat /\ DOMAIN alarm_queue = 1 .. n /\ alarm_queue \in Seq(Alarms)
  BY DEF TypeOK
<1>2. CASE pos >= n
  <2>1. alarm_queue' = alarm_queue
    BY <1>1, <1>2, RemoveNth
  <2> QED
    BY <2>1 DEF NoneTwice
<1>3. CASE pos < n
  <2>1. /\ DOMAIN alarm_queue' = 1 .. n - 1
        /\ \A i \in 1 .. n - 1 :
              alarm_queue'[i] = IF i <= pos THEN alarm_queue[i] ELSE alarm_queue[i + 1]
    BY <1>1, <1>3, RemoveNth
  <2> HIDE DEF n
  <2> DEFINE from(i) == IF i <= pos THEN i ELSE i + 1
  <2>2. \A i \in 1 .. n - 1 : from(i) \in 1 .. n /\ alarm_queue'[i] = alarm_queue[from(i)]
    BY <1>1, <2>1
  <2>3. \A i, j \in 1 .. n - 1 : from(i) = from(j) => i = j
    BY <1>1
  <2> HIDE DEF from
  <2> QED
    BY <1>1, <2>1, <2>2, <2>3 DEF NoneTwice
<1> QED
  BY <1>1, <1>2, <1>3

\* What is left of the queue after the first removal of a tick.
LEMMA WithoutFacts ==
  ASSUME before \in Seq(Alarms), NEW e \in DOMAIN before
  PROVE  /\ DOMAIN before = 1 .. Len(before) /\ Len(before) \in Nat /\ e \in 1 .. Len(before)
         /\ DOMAIN Without(e) = 1 .. Len(before) - 1
         /\ \A i \in 1 .. Len(before) - 1 :
               Without(e)[i] = IF i < e THEN before[i] ELSE before[i + 1]
<1>1. DOMAIN before = 1 .. Len(before) /\ Len(before) \in Nat
  OBVIOUS
<1>2. e \in 1 .. Len(before) /\ e - 1 \in Nat /\ e - 1 < Len(before)
  BY <1>1
<1>3. /\ DOMAIN llist_remove_nth(before, e - 1) = 1 .. Len(before) - 1
      /\ \A i \in 1 .. Len(before) - 1 : llist_remove_nth(before, e - 1)[i] =
            IF i <= e - 1 THEN before[i] ELSE before[i + 1]
  BY <1>2, RemoveNth
<1>4. \A i \in 1 .. Len(before) - 1 : i <= e - 1 <=> i < e
  BY <1>1, <1>2
<1> QED
  BY <1>1, <1>2, <1>3, <1>4 DEF Without

\* The first due alarm is removed at its own place.
LEMMA ExpireFirst ==
  ASSUME AlarmInv, walking, Untouched, node \in DOMAIN alarm_queue,
         alarm_queue[node] \in due, Expire(alarm_queue[node]), pos' = pos + 1,
         before' = before, due' = due
  PROVE  Touched(node)'
<1>1. TypeOK /\ before \in Seq(Alarms) /\ AtTick
  BY DEF AlarmInv, TypeOK
<1>2. /\ alarm_queue = before /\ node = pos + 1 /\ pos \in Nat /\ pos = node - 1
      /\ \A j \in DOMAIN before : j < node => before[j] \notin due
      /\ ran = [a \in Alarms |-> 0]
  BY <1>1 DEF Untouched, TypeOK
<1>3. /\ alarm_queue' = Without(node) /\ node' = node /\ pos' = node
      /\ ran' = [ran EXCEPT ![before[node]] = @ + 1]
  BY <1>2 DEF Expire, Without
<1>4. node \in DOMAIN before /\ node \in Int
  BY <1>2
<1>5. before[node] \in Alarms
  BY <1>1, <1>4
<1>6. /\ DOMAIN before = 1 .. Len(before) /\ Len(before) \in Nat /\ node \in 1 .. Len(before)
      /\ DOMAIN Without(node) = 1 .. Len(before) - 1
      /\ \A i \in 1 .. Len(before) - 1 :
            Without(node)[i] = IF i < node THEN before[i] ELSE before[i + 1]
  BY <1>1, <1>4, WithoutFacts
<1>7. \A i \in DOMAIN alarm_queue' :
         IF i < node THEN i \in DOMAIN before /\ alarm_queue'[i] = before[i]
                     ELSE \E h \in DOMAIN before : h > i /\ alarm_queue'[i] = before[h]
  <2> TAKE i \in DOMAIN alarm_queue'
  <2>1. /\ i \in 1 .. Len(before) - 1 /\ i \in DOMAIN before /\ i + 1 \in DOMAIN before
        /\ i + 1 > i
    BY <1>3, <1>6
  <2> QED
    BY <1>3, <1>6, <2>1
<1>8. ran' = [a \in Alarms |-> IF a = before[node] THEN 1 ELSE 0]
  BY <1>2, <1>3, <1>5
<1>9. Without(node)' = Without(node)
  BY <1>3 DEF Without
<1> QED
  BY <1>2, <1>3, <1>4, <1>7, <1>8, <1>9 DEF Touched

\* Once a single due alarm is gone no other one is found.
LEMMA SingleGone ==
  ASSUME AlarmInv, walking, NEW e \in DOMAIN before, Touched(e), due = {before[e]},
         NEW i \in DOMAIN alarm_queue
  PROVE  alarm_queue[i] \notin due
<1>1. before \in Seq(Alarms) /\ AtTick /\ alarm_queue = Without(e)
  BY DEF AlarmInv, TypeOK, Touched
<1>2. /\ DOMAIN before = 1 .. Len(before) /\ Len(before) \in Nat /\ e \in 1 .. Len(before)
      /\ DOMAIN Without(e) = 1 .. Len(before) - 1
      /\ \A k \in 1 .. Len(before) - 1 :
            Without(e)[k] = IF k < e THEN before[k] ELSE before[k + 1]
  BY <1>1, WithoutFacts
<1>3. i \in 1 .. Len(before) - 1
  BY <1>1, <1>2
<1>4. PICK h \in DOMAIN before : h # e /\ alarm_queue[i] = before[h]
  <2>1. CASE i < e
    BY <1>1, <1>2, <1>3, <2>1
  <2>2. CASE ~(i < e)
    BY <1>1, <1>2, <1>3, <2>2
  <2> QED
    BY <2>1, <2>2
<1> QED
  BY <1>1, <1>4 DEF AtTick

\* A later one removes the alarm at pos, behind tmp, if any.
LEMMA ExpireLater ==
  ASSUME AlarmInv, walking, NEW e \in DOMAIN before, Touched(e), node \in DOMAIN alarm_queue,
         alarm_queue[node] \in due, Expire(alarm_queue[node]), pos' = pos + 1,
         before' = before, due' = due
  PROVE  Touched(e)'
<1> DEFINE n == Len(alarm_queue)
<1>1. /\ TypeOK /\ AtTick /\ alarm_queue \in Seq(Alarms) /\ n \in Nat /\ pos \in Nat
      /\ DOMAIN alarm_queue = 1 .. n /\ before \in Seq(Alarms) /\ node \in Nat
  <2>1. TypeOK /\ AtTick
    BY DEF AlarmInv
  <2>2. alarm_queue \in Seq(Alarms) /\ pos \in Nat /\ before \in Seq(Alarms) /\ node \in Nat
    BY <2>1 DEF TypeOK
  <2>3. n \in Nat /\ DOMAIN alarm_queue = 1 .. n
    BY <2>2
  <2> QED
    BY <2>1, <2>2, <2>3
<1>2. e \in Nat /\ DOMAIN before \subseteq Nat
  <2>1. DOMAIN before = 1 .. Len(before)
    BY <1>1
  <2> QED
    BY <2>1
<1>3. /\ before[e] \in due /\ \A j \in DOMAIN before : j < e => before[j] \notin due
      /\ e <= node /\ node <= pos
      /\ \A i \in DOMAIN alarm_queue :
            IF i < e THEN i \in DOMAIN before /\ alarm_queue[i] = before[i]
                     ELSE \E h \in DOMAIN before : h > i /\ alarm_queue[i] = before[h]
  BY DEF Touched
<1>4. due # {before[e]}
  BY SingleGone
<1>5. alarm_queue' = llist_remove_nth(alarm_queue, pos) /\ node' = node + 1
  BY <1>1, <1>3 DEF Expire
<1> HIDE DEF n
<1>6. \A i \in DOMAIN alarm_queue' :
         IF i < e THEN i \in DOMAIN before /\ alarm_queue'[i] = before[i]
                  ELSE \E h \in DOMAIN before : h > i /\ alarm_queue'[i] = before[h]
  <2>1. CASE pos >= n
    <3>1. alarm_queue' = alarm_queue
      BY <1>1, <1>5, <2>1, RemoveNth DEF n
    <3> QED
      BY <1>3, <3>1
  <2>2. CASE pos < n
    <3>1. /\ DOMAIN alarm_queue' = 1 .. n - 1
          /\ \A i \in 1 .. n - 1 :
                alarm_queue'[i] = IF i <= pos THEN alarm_queue[i] ELSE alarm_queue[i + 1]
      BY <1>1, <1>5, <2>2, RemoveNth DEF n
    <3> TAKE i \in DOMAIN alarm_queue'
    <3>2. i \in 1 .. n - 1 /\ i \in 1 .. n /\ i + 1 \in 1 .. n
      BY <1>1, <3>1
    <3>3. CASE i <= pos
      BY <1>1, <1>3, <3>1, <3>2, <3>3
    <3>4. CASE i > pos
      <4>1. alarm_queue'[i] = alarm_queue[i + 1] /\ ~(i < e) /\ ~(i + 1 < e)
        BY <1>1, <1>2, <1>3, <3>1, <3>2, <3>4
      <4>2. PICK h \in DOMAIN before : h > i + 1 /\ alarm_queue[i + 1] = before[h]
        BY <1>1, <1>3, <3>2, <4>1
      <4>3. h > i
        BY <1>2, <3>2, <4>2
      <4> QED
        BY <4>1, <4>2, <4>3
    <3> QED
      BY <1>1, <3>2, <3>3, <3>4
  <2> QED
    BY <1>1, <2>1, <2>2
<1>7. e <= node' /\ node' <= pos'
  BY <1>1, <1>2, <1>3, <1>5
<1> QED
  BY <1>3, <1>4, <1>6, <1>7 DEF Touched

\* One iteration of the loop.
LEMMA WalkStepStep == ASSUME AlarmInv, WalkStep PROVE AlarmInv'
<1>1. /\ walking /\ walking' = walking /\ pos' = pos + 1
      /\ jiffies' = jiffies /\ expires' = expires /\ arming' = arming /\ left' = left
      /\ before' = before /\ due' = due
  BY DEF WalkStep
<1>2. TypeOK /\ TypeOK' /\ AtTick
  BY <1>1, AlarmTypes DEF AlarmInv, Next
<1>3. AtTick'
  BY <1>1, <1>2 DEF AtTick
<1>4. node \in DOMAIN alarm_queue
  <2>1. node >= 1 /\ node \in Nat
    <3>1. CASE Untouched
      BY <1>2, <3>1 DEF Untouched, TypeOK
    <3>2. CASE \E e \in DOMAIN before : Touched(e)
      <4>1. PICK e \in DOMAIN before : Touched(e)
        BY <3>2
      <4>2. before \in Seq(Alarms) /\ node \in Nat
        BY <1>2 DEF TypeOK
      <4>3. e \in 1 .. Len(before) /\ Len(before) \in Nat
        BY <4>2
      <4>4. e <= node
        BY <4>1 DEF Touched
      <4> QED
        BY <4>2, <4>3, <4>4
    <3> QED
      BY <1>1, <3>1, <3>2 DEF AlarmInv
  <2>2. node <= Len(alarm_queue)
    BY DEF WalkStep
  <2> QED
    BY <1>2, <2>1, <2>2, QueuedAlarms
<1>5. time_after(jiffies, expires[alarm_queue[node]]) <=> alarm_queue[node] \in due
  BY <1>1, <1>4, DueExactly
<1>6. CASE alarm_queue[node] \notin due
  <2>1. node' = node + 1 /\ alarm_queue' = alarm_queue /\ ran' = ran
    BY <1>5, <1>6 DEF WalkStep
  <2>2. Queued' = Queued
    BY <2>1 DEF Queued
  <2>3. Clocked' /\ NoneTwice' /\ Queued' \cap arming' = {}
        /\ \A a \in arming' : left'[a] >= -MaxLate
    BY <1>1, <2>1, <2>2 DEF AlarmInv, Clocked, NoneTwice
  <2>4. node \in Nat /\ pos \in Nat /\ DOMAIN before \subseteq Nat
    <3>1. before \in Seq(Alarms) /\ node \in Nat /\ pos \in Nat
      BY <1>2 DEF TypeOK
    <3>2. DOMAIN before = 1 .. Len(before)
      BY <3>1
    <3> QED
      BY <3>1, <3>2
  <2>5. CASE Untouched
    <3>1. \A j \in DOMAIN before : j < node + 1 => before[j] \notin due
      <4> TAKE j \in DOMAIN before
      <4> HAVE j < node + 1
      <4>1. j < node \/ j = node
        BY <2>4
      <4> QED
        BY <1>6, <2>5, <4>1 DEF Untouched
    <3>2. node + 1 = (pos + 1) + 1
      BY <2>5 DEF Untouched
    <3>3. Untouched'
      BY <1>1, <2>1, <2>5, <3>1, <3>2 DEF Untouched
    <3> QED
      BY <1>1, <1>2, <1>3, <2>3, <3>3 DEF AlarmInv
  <2>6. CASE \E e \in DOMAIN before : Touched(e)
    <3>1. PICK e \in DOMAIN before : Touched(e)
      BY <2>6
    <3>2. e <= node + 1 /\ node + 1 <= pos + 1
      BY <2>4, <3>1 DEF Touched
    <3>3. Without(e)' = Without(e)
      BY <1>1 DEF Without
    <3>4. Touched(e)'
      BY <1>1, <2>1, <3>1, <3>2, <3>3 DEF Touched
    <3> QED
      BY <1>1, <1>2, <1>3, <2>3, <3>4 DEF AlarmInv
  <2> QED
    BY <1>1, <2>5, <2>6 DEF AlarmInv
<1>7. CASE alarm_queue[node] \in due
  <2>1. Expire(alarm_queue[node])
    BY <1>5, <1>7 DEF WalkStep
  <2>2. alarm_queue' = llist_remove_nth(alarm_queue, pos)
    BY <2>1 DEF Expire
  <2>3. /\ \A i, j \in DOMAIN alarm_queue' : alarm_queue'[i] = alarm_queue'[j] => i = j
        /\ \A i \in DOMAIN alarm_queue' :
              \E k \in DOMAIN alarm_queue : alarm_queue'[i] = alarm_queue[k]
    BY <1>2, <2>2, RemoveDistinct DEF AlarmInv
  <2>4. NoneTwice'
    BY <2>3 DEF NoneTwice
  <2>5. Queued' \subseteq Queued
    <3> SUFFICES ASSUME NEW a \in Queued' PROVE a \in Queued
      OBVIOUS
    <3>1. PICK i \in 1 .. Len(alarm_queue') : a = alarm_queue'[i]
      BY DEF Queued
    <3>2. i \in DOMAIN alarm_queue'
      BY <1>2, <3>1 DEF TypeOK
    <3> QED
      BY <1>2, <2>3, <3>1, <3>2, QueuedAlarms
  <2>6. Clocked' /\ Queued' \cap arming' = {} /\ \A a \in arming' : left'[a] >= -MaxLate
    BY <1>1, <2>5 DEF AlarmInv, Clocked
  <2>7. \E e \in DOMAIN before' : Touched(e)'
    <3>1. CASE Untouched
      <4>1. Touched(node)'
        BY <1>1, <1>4, <1>7, <2>1, <3>1, ExpireFirst
      <4>2. node \in DOMAIN before /\ node' = node
        BY <1>4, <2>1, <3>1 DEF Untouched, Expire
      <4> QED
        BY <1>1, <4>1, <4>2 DEF Touched, Without
    <3>2. CASE \E e \in DOMAIN before : Touched(e)
      <4>1. PICK e \in DOMAIN before : Touched(e)
        BY <3>2
      <4>2. Touched(e)'
        BY <1>1, <1>4, <1>7, <2>1, <4>1, ExpireLater
      <4> QED
        BY <1>1, <4>2
    <3> QED
      BY <1>1, <3>1, <3>2 DEF AlarmInv
  <2> QED
    BY <1>1, <1>2, <1>3, <2>4, <2>6, <2>7 DEF AlarmInv
<1> QED
  BY <1>6, <1>7

\* The loop is over.  An alarm that is still queued and was due has moved up,
\* so that it is not later than its new place allows.
LEMMA WalkEndStep == ASSUME AlarmInv, WalkEnd PROVE AlarmInv'
<1>1. /\ walking /\ walking' = FALSE /\ node > Len(alarm_queue)
      /\ jiffies' = jiffies /\ alarm_queue' = alarm_queue /\ arming' = arming
  BY DEF WalkEnd
<1>2. TypeOK /\ TypeOK' /\ AtTick
  BY <1>1, AlarmTypes DEF AlarmInv, Next
<1>3. Queued' = Queued
  BY <1>1 DEF Queued
<1>4. \A a \in Queued \cup arming : expires'[a] = expires[a] /\ left'[a] = left[a]
  BY <1>2, QueuedAlarms DEF WalkEnd, TypeOK
<1>5. Clocked' /\ NoneTwice' /\ Queued' \cap arming' = {}
      /\ \A a \in arming' : left'[a] >= -MaxLate
  BY <1>1, <1>3, <1>4 DEF AlarmInv, Clocked, NoneTwice
<1>6. Patience'
  <2> SUFFICES ASSUME NEW i \in DOMAIN alarm_queue
               PROVE  left'[alarm_queue[i]] >= i - Cardinality(Alarms) - MaxLate
    BY <1>1 DEF Patience
  <2> DEFINE a == alarm_queue[i]
             c == Cardinality(Alarms)
  <2>1. /\ DOMAIN alarm_queue = 1 .. Len(alarm_queue) /\ Len(alarm_queue) \in Nat
        /\ a \in Queued /\ a \in Alarms /\ left[a] \in Int
    BY <1>2, QueuedAlarms DEF TypeOK
  <2>2. i \in Nat /\ i <= Len(alarm_queue) /\ i < node /\ node \in Nat
    <3>1. node \in Nat
      BY <1>2 DEF TypeOK
    <3> QED
      BY <1>1, <2>1, <3>1
  <2>3. Len(alarm_queue) <= c /\ c \in Nat /\ MaxLate \in Nat
    <3>1. alarm_queue \in Seq(Alarms)
      BY <1>2 DEF TypeOK
    <3>2. \A u, v \in DOMAIN alarm_queue : alarm_queue[u] = alarm_queue[v] => u = v
      BY DEF AlarmInv, NoneTwice
    <3> QED
      BY <3>1, <3>2, DistinctLength, TimerConstants
  <2>4. left'[a] = left[a]
    BY <1>4, <2>1
  <2>5. DOMAIN before \subseteq Nat
    <3>1. before \in Seq(Alarms)
      BY <1>2 DEF TypeOK
    <3>2. DOMAIN before = 1 .. Len(before)
      BY <3>1
    <3> QED
      BY <3>2
  <2>6. left[a] >= 0 \/ \E h \in DOMAIN before : h > i /\ a = before[h]
    <3>1. CASE Untouched
      <4>1. i \in DOMAIN before /\ a = before[i] /\ before[i] \notin due
        BY <2>2, <3>1 DEF Untouched
      <4>2. ~(left[a] < 0)
        BY <1>2, <4>1 DEF AtTick
      <4> QED
        BY <2>1, <4>2
    <3>2. CASE \E e \in DOMAIN before : Touched(e)
      <4>1. PICK e \in DOMAIN before : Touched(e)
        BY <3>2
      <4>2. CASE i < e
        <5>1. i \in DOMAIN before /\ a = before[i] /\ before[i] \notin due
          BY <4>1, <4>2 DEF Touched
        <5>2. ~(left[a] < 0)
          BY <1>2, <5>1 DEF AtTick
        <5> QED
          BY <2>1, <5>2
      <4>3. CASE ~(i < e)
        BY <4>1, <4>3 DEF Touched
      <4> QED
        BY <4>2, <4>3
    <3> QED
      BY <1>1, <3>1, <3>2 DEF AlarmInv
  <2> HIDE DEF a, c
  <2>7. left[a] >= i - c - MaxLate
    <3>1. CASE left[a] >= 0
      BY <2>1, <2>2, <2>3, <3>1
    <3>2. CASE \E h \in DOMAIN before : h > i /\ a = before[h]
      <4>1. PICK h \in DOMAIN before : h > i /\ a = before[h]
        BY <3>2
      <4>2. left[a] >= h - c - MaxLate - 1
        BY <1>2, <4>1 DEF AtTick, c
      <4>3. h \in Nat
        BY <2>5
      <4> QED
        BY <2>1, <2>2, <2>3, <4>1, <4>2, <4>3
    <3> QED
      BY <2>6, <3>1, <3>2
  <2> QED
    BY <2>4, <2>7 DEF a, c
<1> QED
  BY <1>1, <1>2, <1>5, <1>6 DEF AlarmInv

\* Every step keeps the invariant.
LEMMA AlarmNext == ASSUME AlarmInv, [Next]_vars PROVE AlarmInv'
<1>1. CASE \E a \in Alarms, d \in Delays : NewAlarm(a, d)
  BY <1>1, NewAlarmStep
<1>2. CASE \E a \in Alarms : AddAlarm(a)
  BY <1>2, AddAlarmStep
<1>3. CASE UNCHANGED vars
  <2>1. /\ jiffies' = jiffies /\ alarm_queue' = alarm_queue /\ expires' = expires
        /\ arming' = arming /\ walking' = walking /\ node' = node /\ pos' = pos
        /\ left' = left /\ before' = before /\ due' = due /\ ran' = ran
    BY <1>3 DEF vars
  <2>2. TypeOK'
    BY AlarmTypes DEF AlarmInv
  <2>3. Queued' = Queued /\ NoneTwice' = NoneTwice
    BY <2>1 DEF Queued, NoneTwice
  <2>4. /\ Clocked' = Clocked /\ Patience' = Patience
        /\ AtTick' = AtTick /\ Untouched' = Untouched
    BY <2>1, <2>3 DEF Clocked, Patience, AtTick, Untouched
  <2>5. \A e \in DOMAIN before : Touched(e)' = Touched(e)
    BY <2>1 DEF Touched, Without
  <2> QED
    BY <2>1, <2>2, <2>3, <2>4, <2>5 DEF AlarmInv
<1> QED
  BY <1>1, <1>2, <1>3, TimerIrqStep, WalkStepStep, WalkEndStep DEF Next

----------------------------------------------------------------------------
\* A set of at most one alarm that holds a is {a}.
LEMMA AtMostOne ==
  ASSUME NEW S, S \subseteq Alarms, Cardinality(S) <= 1, NEW a \in S
  PROVE  S = {a}
<1>1. IsFiniteSet(S)
  BY FS_Subset, TimerAssumption
<1>2. IsFiniteSet(S \ {a}) /\ Cardinality(S \ {a}) = Cardinality(S) - 1
  BY <1>1, FS_RemoveElement
<1>3. Cardinality(S \ {a}) \in Nat /\ Cardinality(S) \in Nat
  BY <1>1, <1>2, FS_CardinalityType
<1>4. Cardinality(S \ {a}) = 0
  BY <1>2, <1>3
<1>5. S \ {a} = {}
  BY <1>2, <1>4, FS_EmptySet
<1> QED
  BY <1>5

\* A loop that found nothing due leaves every alarm where it was; a loop
\* that found the only due alarm has removed that one.
LEMMA TickServes == ASSUME AlarmInv PROVE SingleAlarmExact
<1> SUFFICES ASSUME walking, node > Len(alarm_queue), Cardinality(due) <= 1 PROVE TickExact
  BY DEF SingleAlarmExact, WalkOver
<1>1. TypeOK /\ AtTick
  BY DEF AlarmInv
<1>2. /\ before \in Seq(Alarms) /\ node \in Nat /\ due \subseteq Alarms
      /\ alarm_queue \in Seq(Alarms)
  BY <1>1 DEF TypeOK
<1>3. DOMAIN before = 1 .. Len(before) /\ Len(before) \in Nat
  BY <1>2
<1>4. CASE Untouched
  <2>1. alarm_queue = before /\ ran = [a \in Alarms |-> 0]
    BY <1>4 DEF Untouched
  <2>2. due = {}
    <3> SUFFICES ASSUME NEW a \in due PROVE FALSE
      OBVIOUS
    <3>1. PICK h \in DOMAIN before : before[h] = a
      BY <1>1 DEF AtTick
    <3>2. h < node
      BY <1>2, <1>3, <2>1, <3>1
    <3> QED
      BY <1>4, <3>1, <3>2 DEF Untouched
  <2> DEFINE kept == [i \in DOMAIN before |-> i]
  <2>3. kept \in [DOMAIN alarm_queue -> DOMAIN before] /\ \A i \in DOMAIN before : kept[i] = i
    BY <2>1
  <2> HIDE DEF kept
  <2>4. OthersKept
    BY <2>1, <2>2, <2>3 DEF OthersKept
  <2> QED
    BY <2>1, <2>2, <2>4 DEF TickExact
<1>5. CASE \E e \in DOMAIN before : Touched(e)
  <2>1. PICK e \in DOMAIN before : Touched(e)
    BY <1>5
  <2>2. due = {before[e]}
    BY <1>2, <2>1, AtMostOne DEF Touched
  <2>3. alarm_queue = Without(e) /\ ran = [a \in Alarms |-> IF a = before[e] THEN 1 ELSE 0]
    BY <2>1, <2>2 DEF Touched
  <2> DEFINE n == Len(before)
             kept == [i \in 1 .. n - 1 |-> IF i < e THEN i ELSE i + 1]
  <2>4. /\ n \in Nat /\ DOMAIN before = 1 .. n /\ e \in 1 .. n
        /\ DOMAIN alarm_queue = 1 .. n - 1
        /\ \A i \in 1 .. n - 1 : alarm_queue[i] = IF i < e THEN before[i] ELSE before[i + 1]
    BY <1>2, <2>3, WithoutFacts
  <2> HIDE DEF n
  <2>5. \A i \in 1 .. n - 1 : kept[i] = IF i < e THEN i ELSE i + 1
    OBVIOUS
  <2>6. kept \in [DOMAIN alarm_queue -> DOMAIN before]
    BY <2>4
  <2> HIDE DEF kept
  <2>7. \A i, j \in DOMAIN alarm_queue : i < j => kept[i] < kept[j]
    BY <2>4, <2>5
  <2>8. \A i \in DOMAIN alarm_queue : alarm_queue[i] = before[kept[i]]
    BY <2>4, <2>5
  <2>9. ASSUME NEW k \in DOMAIN before
        PROVE  before[k] \notin due <=> \E i \in DOMAIN alarm_queue : kept[i] = k
    <3>1. before[k] \notin due <=> k # e
      BY <1>1, <2>2 DEF AtTick
    <3>2. CASE k = e
      <4>1. \A i \in 1 .. n - 1 : kept[i] # e
        BY <2>4, <2>5
      <4> QED
        BY <2>4, <3>1, <3>2, <4>1
    <3>3. CASE k < e
      <4>1. k \in 1 .. n - 1 /\ kept[k] = k /\ k # e
        BY <2>4, <2>5, <3>3
      <4> QED
        BY <2>4, <3>1, <4>1
    <3>4. CASE k > e
      <4>1. k - 1 \in 1 .. n - 1 /\ kept[k - 1] = k /\ k # e
        BY <2>4, <2>5, <3>4
      <4> QED
        BY <2>4, <3>1, <4>1
    <3> QED
      BY <2>4, <3>2, <3>3, <3>4
  <2>10. OthersKept
    BY <2>6, <2>7, <2>8, <2>9 DEF OthersKept
  <2> QED
    BY <2>2, <2>3, <2>10 DEF TickExact
<1> QED
  BY <1>4, <1>5 DEF AlarmInv

\* timer_handler: on a tick with at most one due alarm the loop runs that
\* handler once and takes that alarm, and no other, off the queue: for every
\* number of alarms, every width of jiffies and every wrapping of it, although
\* due alarms that an earlier tick passed over may be late.
THEOREM TimerAlarmsSound == Spec => []AlarmsSound
<1>1. AlarmInv /\ [Next]_vars => AlarmInv'
  BY AlarmNext
<1>2. AlarmInv => AlarmsSound
  BY TickServes DEF AlarmInv, AlarmsSound
<1> QED
  BY AlarmInit, <1>1, <1>2, PTL DEF Spec
=============================================================================
