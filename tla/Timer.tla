------------------------------- MODULE Timer -------------------------------
(***************************************************************************)
(* The system clock (kernel/timer.c, jiffies.h) and the part of            *)
(* do_schedule (kernel/sched.c) that measures the quantum.                 *)
(*                                                                         *)
(* jiffies is an unsigned integer below M, so that it wraps in small       *)
(* instances.  The interrupt handler walks the alarm queue one             *)
(* iteration per step; it runs with interrupts off, so nothing else        *)
(* happens until the walk is over.  left[a], before, due and ran are       *)
(* history: the true number of ticks before alarm a is due, the queue and  *)
(* the set of alarms that are due when a tick begins, and how often each   *)
(* handler has run during the tick.                                        *)
(***************************************************************************)
EXTENDS Integers, Sequences, FiniteSets

CONSTANTS
    Alarms,         \* alarm_t blocks
    M,              \* number of values of jiffies (2^32 in the code)
    Quantum,        \* scheduler_quantum
    Delays,         \* callers ask for jiffies + d, d \in Delays
    MaxLate,        \* bound: a thread inside new_alarm is delayed less than
                    \* MaxLate ticks beyond the expiry it asked for
    AllocOutcomes   \* what kmalloc may do

ASSUME TimerAssumption ==
    /\ M \in Nat \ {0} /\ M % 2 = 0
    /\ Quantum \in Nat /\ 2 * (Quantum + 1) < M
    /\ \A d \in Delays : d \in Nat /\ 2 * (d + 1) < M
    /\ IsFiniteSet(Alarms)
    /\ MaxLate \in Nat /\ 2 * (MaxLate + Cardinality(Alarms) + 1) < M
    /\ AllocOutcomes \subseteq BOOLEAN

VARIABLES
    jiffies, sched_cnt,
    alarm_queue,    \* sequence of alarms
    expires,        \* expires[a], meaningful while a is in use
    arming,         \* alarms that new_alarm has set up and not yet queued
    walking,        \* is timer_handler inside its loop?
    node, pos,      \* index of tmp in the queue, and the variable pos
    left, before, due, ran

vars == <<jiffies, sched_cnt, alarm_queue, expires, arming, walking, node, pos,
          left, before, due, ran>>

walkVars == <<walking, node, pos, before, due, ran>>

Queued == {alarm_queue[i] : i \in 1 .. Len(alarm_queue)}

----------------------------------------------------------------------------
\* Mutant: a comparison of unsigned integers.
time_after_Plain(a, b) == b < a

\* ((int32_t)(b) - (int32_t)(a) < 0): the sign bit of the difference.  The
\* build does not optimise, so the subtraction wraps when it overflows.
time_after(a, b) == 2 * ((b - a) % M) >= M

\* llist_remove_nth(&q, p): nothing is removed beyond the end.
llist_remove_nth(q, p) ==
    IF p < Len(q) THEN SubSeq(q, 1, p) \o SubSeq(q, p + 2, Len(q)) ELSE q

----------------------------------------------------------------------------
\* init_timer, some ticks (calibrate_delay), then init_scheduler.
Init ==
    /\ jiffies \in 0 .. Quantum
    /\ sched_cnt = jiffies + Quantum
    /\ alarm_queue = <<>>
    /\ expires = [a \in Alarms |-> 0]
    /\ arming = {}
    /\ walking = FALSE /\ node = 1 /\ pos = 0
    /\ left = [a \in Alarms |-> 0]
    /\ before = <<>> /\ due = {} /\ ran = [a \in Alarms |-> 0]

\* new_alarm(jiffies + d), up to the cli: refused when expires < jiffies,
\* a plain comparison, or when kmalloc fails.
NewAlarm(a, d) ==
    LET e == (jiffies + d) % M
    IN  /\ ~walking
        /\ a \notin Queued \cup arming
        /\ ~(e < jiffies)
        /\ TRUE \in AllocOutcomes
        /\ expires' = [expires EXCEPT ![a] = e]
        /\ left' = [left EXCEPT ![a] = d]
        /\ arming' = arming \cup {a}
        /\ UNCHANGED <<jiffies, sched_cnt, alarm_queue, walkVars>>

\* cli .. sti: llist_add, whose failure is ignored.
AddAlarm(a) ==
    /\ ~walking
    /\ a \in arming
    /\ arming' = arming \ {a}
    /\ \E ok \in AllocOutcomes :
          alarm_queue' = IF ok THEN Append(alarm_queue, a) ELSE alarm_queue
    /\ UNCHANGED <<jiffies, sched_cnt, expires, left, walkVars>>

\* IRQ0: jiffies++ and the start of the loop.
TimerIrq ==
    /\ ~walking
    /\ \A a \in arming : left[a] > -MaxLate
    /\ jiffies' = (jiffies + 1) % M
    /\ walking' = TRUE /\ node' = 1 /\ pos' = 0
    /\ left' = [a \in Alarms |-> IF a \in Queued \cup arming THEN left[a] - 1 ELSE left[a]]
    /\ before' = alarm_queue
    /\ due' = {a \in Queued : left'[a] < 0}
    /\ ran' = [a \in Alarms |-> 0]
    /\ UNCHANGED <<sched_cnt, alarm_queue, expires, arming>>

\* Mutant: the expired alarm is not taken off the queue.
Expire_NotRemoved(a) ==
    /\ UNCHANGED alarm_queue
    /\ ran' = [ran EXCEPT ![a] = @ + 1]
    /\ node' = node + 1

\* An expired alarm: llist_remove_nth(&alarm_queue, pos), then the handler.
\* tmp->next is read from the node afterwards: it leads to the element that
\* follows tmp, at the same index when tmp itself was removed.
Expire(a) ==
    /\ alarm_queue' = llist_remove_nth(alarm_queue, pos)
    /\ ran' = [ran EXCEPT ![a] = @ + 1]
    /\ node' = IF pos + 1 = node THEN node ELSE node + 1

WalkStep ==
    /\ walking
    /\ node <= Len(alarm_queue)
    /\ IF time_after(jiffies, expires[alarm_queue[node]])
       THEN Expire(alarm_queue[node])
       ELSE node' = node + 1 /\ UNCHANGED <<alarm_queue, ran>>
    /\ pos' = pos + 1
    /\ UNCHANGED <<jiffies, sched_cnt, expires, arming, walking, left, before, due>>

\* do_schedule: a new quantum, and schedule(), when the old one is over.
do_schedule ==
    sched_cnt' = IF time_after(jiffies, sched_cnt) THEN (jiffies + Quantum) % M
                                                   ELSE sched_cnt

\* The loop ends; do_schedule; return from the interrupt.  The values of
\* locals, of history and of alarms no longer in use are forgotten.
WalkEnd ==
    LET used == Queued \cup arming
    IN  /\ walking
        /\ node > Len(alarm_queue)
        /\ do_schedule
        /\ walking' = FALSE /\ node' = 1 /\ pos' = 0
        /\ before' = <<>> /\ due' = {} /\ ran' = [a \in Alarms |-> 0]
        /\ expires' = [a \in Alarms |-> IF a \in used THEN expires[a] ELSE 0]
        /\ left' = [a \in Alarms |-> IF a \in used THEN left[a] ELSE 0]
        /\ UNCHANGED <<jiffies, alarm_queue, arming>>

Next ==
    \/ \E a \in Alarms, d \in Delays : NewAlarm(a, d)
    \/ \E a \in Alarms : AddAlarm(a)
    \/ TimerIrq
    \/ WalkStep
    \/ WalkEnd

Spec == Init /\ [][Next]_vars

----------------------------------------------------------------------------
\* Types; jiffies and the expiry times keep their width.
TypeOK ==
    /\ jiffies \in 0 .. M - 1
    /\ sched_cnt \in 0 .. M - 1
    /\ alarm_queue \in Seq(Alarms)
    /\ expires \in [Alarms -> 0 .. M - 1]
    /\ arming \subseteq Alarms
    /\ walking \in BOOLEAN
    /\ node \in Nat /\ pos \in Nat
    /\ left \in [Alarms -> Int]
    /\ before \in Seq(Alarms) /\ due \subseteq Alarms
    /\ ran \in [Alarms -> Nat]

\* do_schedule never lets the end of the quantum slip out of reach, not even
\* when jiffies or sched_cnt wraps: at most Quantum ticks are left.
QuantumEnds ==
    (sched_cnt - jiffies + (IF walking THEN 1 ELSE 0)) % M <= Quantum

\* The loop of timer_handler is over.
WalkOver == walking /\ node > Len(alarm_queue)

\* The queue is what it was without the due alarms: kept[i] is the place
\* that the i-th alarm had.
OthersKept ==
    \E kept \in [DOMAIN alarm_queue -> DOMAIN before] :
        /\ \A i, j \in DOMAIN alarm_queue : i < j => kept[i] < kept[j]
        /\ \A i \in DOMAIN alarm_queue : alarm_queue[i] = before[kept[i]]
        /\ \A k \in DOMAIN before :
              before[k] \notin due <=> \E i \in DOMAIN alarm_queue : kept[i] = k

\* What one tick has done: the handlers of the due alarms ran once, those
\* alarms left the queue, and no other alarm was touched.
TickExact ==
    /\ \A a \in Alarms : ran[a] = IF a \in due THEN 1 ELSE 0
    /\ OthersKept

\* A tick on which at most one alarm is due runs and removes exactly that
\* one, on time, across any wrapping of jiffies and however late new_alarm
\* was in queueing it.
SingleAlarmExact == WalkOver /\ Cardinality(due) <= 1 => TickExact

\* "Execute handler and remove from list" (timer.c): the same for every tick.
AlarmsExact == WalkOver => TickExact

\* A tick on which at most one alarm is due serves exactly that one
\* (timer.c:82), and the queue keeps only alarms that were asked for.
AlarmsSound == TypeOK /\ SingleAlarmExact
=============================================================================
