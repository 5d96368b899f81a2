----------------------------- MODULE SchedProofs -----------------------------
(***************************************************************************)
(* Proofs about Sched, for any set of tasks and of sleep addresses, with   *)
(* kmalloc failing or not.  They hold when no quantum ends inside a        *)
(* voluntary switch or inside sleep_on's llist_remove (OpenWindow = {}),   *)
(* which the runs SchedWindow and SchedUnlink show to be needed.           *)
(***************************************************************************)
EXTENDS Sched, TLAPS

\* With its window closed, only the executing context is inside
\* llist_remove, and the list is still as it has read it.
Unlinking ==
    \A c \in Tasks : pc[c] = "unlink" =>
        c = onCpu /\ seen[c] = wait_queues[addr[c]]

\* The inductive invariant.
IInv ==
    /\ TypeOK
    /\ ControlInv
    /\ ContextIntegrity
    /\ OneRunning
    /\ SleepersQueued
    /\ RingLinked
    /\ Unlinking

\* The inductive invariant holds at the start.
LEMMA InitIInv == Init => IInv
<1> SUFFICES ASSUME Init PROVE IInv
  OBVIOUS
<1> USE SchedAssumption DEF Init, EmptyQueues, EmptyQueue
<1>1. TypeOK
  BY DEF TypeOK, TaskState, PC, Addrs
<1>2. ControlInv
  BY DEF ControlInv, OnRing, Runnable, Window
<1>3. ContextIntegrity
  BY DEF ContextIntegrity
<1>4. OneRunning
  BY DEF OneRunning
<1>5. SleepersQueued
  BY DEF SleepersQueued, Addrs
<1>6. RingLinked
  BY DEF RingLinked, OnRing
<1>7. Unlinking
  BY DEF Unlinking
<1> QED
  BY <1>1, <1>2, <1>3, <1>4, <1>5, <1>6, <1>7 DEF IInv

----------------------------------------------------------------------------
(* The inductive step, one lemma per action.                               *)

\* wakeup() from an interrupt touches sleepers only, none of them a zombie.
LEMMA IrqWakeupIInv ==
  ASSUME IInv, NEW a \in Events, IrqWakeup(a)
  PROVE  IInv'
<1> USE SchedAssumption DEF IInv, IrqWakeup, Woken, ringVars, cpuVars, ctxVars
<1>0. \A u \in Tasks : /\ state'[u] = "ZOMBIE" <=> state[u] = "ZOMBIE"
                       /\ state'[u] = "NOTASK" <=> state[u] = "NOTASK"
                       /\ Runnable(u) => Runnable(u)'
                       /\ state'[u] = "RUNNING" => state[u] = "RUNNING"
                       /\ state'[u] \in {state[u], "READY"}
  BY DEF TypeOK, SleepersQueued, Addrs, Runnable
<1>1. TypeOK'
  BY DEF TypeOK, TaskState, PC, Addrs
<1>2. ControlInv'
  <2>1. UNCHANGED <<next, prev, cur_task, onCpu, pc, pick, addr, child, parent>>
    OBVIOUS
  <2> QED
    BY <1>0, <2>1 DEF TypeOK, ControlInv, OnRing, Window
<1>3. ContextIntegrity'
  BY <1>0 DEF ContextIntegrity
<1>4. OneRunning'
  BY DEF TypeOK, OneRunning, ControlInv, ContextIntegrity, Window
<1>5. SleepersQueued'
  BY DEF TypeOK, SleepersQueued, ControlInv, ContextIntegrity, Window, Addrs
<1>6. RingLinked'
  BY DEF TypeOK, RingLinked, ControlInv, ContextIntegrity, OnRing, Window
<1>7. Unlinking'
  BY DEF TypeOK, Unlinking, ControlInv, ContextIntegrity, Window
<1> QED
  BY <1>1, <1>2, <1>3, <1>4, <1>5, <1>6, <1>7

\* The same from a thread.
LEMMA ThreadWakeupIInv ==
  ASSUME IInv, NEW c \in Tasks, NEW a \in Events, ThreadWakeup(c, a)
  PROVE  IInv'
<1> USE SchedAssumption DEF IInv, ThreadWakeup, Woken, ringVars, cpuVars, ctxVars
<1>0. \A u \in Tasks : /\ state'[u] = "ZOMBIE" <=> state[u] = "ZOMBIE"
                       /\ state'[u] = "NOTASK" <=> state[u] = "NOTASK"
                       /\ Runnable(u) => Runnable(u)'
                       /\ state'[u] = "RUNNING" => state[u] = "RUNNING"
                       /\ state'[u] \in {state[u], "READY"}
  BY DEF TypeOK, SleepersQueued, Addrs, Runnable
<1>1. TypeOK'
  BY DEF TypeOK, TaskState, PC, Addrs
<1>2. ControlInv'
  <2>1. UNCHANGED <<next, prev, cur_task, onCpu, pc, pick, addr, child, parent>>
    OBVIOUS
  <2> QED
    BY <1>0, <2>1 DEF TypeOK, ControlInv, OnRing, Window
<1>3. ContextIntegrity'
  BY <1>0 DEF ContextIntegrity
<1>4. OneRunning'
  BY DEF TypeOK, OneRunning, ControlInv, ContextIntegrity, Window
<1>5. SleepersQueued'
  BY DEF TypeOK, SleepersQueued, ControlInv, ContextIntegrity, Window, Addrs
<1>6. RingLinked'
  BY DEF TypeOK, RingLinked, ControlInv, ContextIntegrity, OnRing, Window
<1>7. Unlinking'
  BY DEF TypeOK, Unlinking, ControlInv, ContextIntegrity, Window
<1> QED
  BY <1>1, <1>2, <1>3, <1>4, <1>5, <1>6, <1>7

\* The new task is linked between the head and its old predecessor, or it
\* stays off the ring.
LEMMA CreateIInv ==
  ASSUME IInv, NEW c \in Tasks, NEW t \in Tasks,
         KernelThreadCreate(c, t)
  PROVE  IInv'
<1> USE SchedAssumption DEF IInv, KernelThreadCreate, SetupTask
<1>a. /\ prev[Main] \in Tasks /\ OnRing(prev[Main]) /\ next[prev[Main]] = Main
      /\ OnRing(Main) /\ ~OnRing(t) /\ t # Main /\ t # prev[Main]
  BY DEF TypeOK, ControlInv, RingLinked, OnRing
<1>b. t # onCpu /\ pc[t] = "run" /\ t \notin {Main, Idle} /\ parent[t] = None
  BY <1>a DEF TypeOK, ControlInv
<1>c. addr[t] = None /\ pick[t] = None /\ child[t] = None
  BY <1>b DEF ControlInv, Window
<1>d. \A u \in Tasks : child[u] # t
  <2>1. \A u \in Tasks : child[u] # None => parent[child[u]] = u
    BY DEF ControlInv
  <2> QED
    BY <1>b, <2>1
<1>e. \A u \in Tasks : pick[u] # t
  BY <1>a DEF TypeOK, ControlInv
<1>f. \A u \in Tasks : parent[u] # t
  BY DEF TypeOK, ControlInv
<1>g. state[c] \notin {"NOTASK", "ZOMBIE"}
  BY DEF ControlInv, RingLinked, Window
<1>1. TypeOK'
  <2>1. CASE RingAdd(t)
    BY <2>1, <1>a DEF RingAdd, TypeOK, TaskState, PC
  <2>2. CASE UNCHANGED ringVars
    BY <2>2 DEF ringVars, TypeOK, TaskState, PC
  <2> QED
    BY <2>1, <2>2
<1>2. ControlInv'
  <2>1. CASE RingAdd(t)
    <3>1. \A u \in Tasks : OnRing(u)' <=> OnRing(u) \/ u = t
      BY <2>1, <1>a DEF RingAdd, TypeOK, OnRing
    <3>2. \A u \in Tasks : u # t /\ prev[u] = None => prev'[u] = None \/ OnRing(u)'
      BY <2>1, <1>a DEF RingAdd, TypeOK, OnRing
    <3> QED
      BY <1>b, <1>c, <1>d, <1>e, <1>f, <1>g, <3>1, <3>2
      DEF TypeOK, ControlInv, Runnable, Window
  <2>2. CASE UNCHANGED ringVars
    BY <1>b, <1>c, <1>d, <1>e, <1>f, <1>g, <2>2
    DEF ringVars, TypeOK, ControlInv, OnRing, Runnable, Window
  <2> QED
    BY <2>1, <2>2
<1>3. ContextIntegrity'
  BY <1>b, <1>c DEF TypeOK, ContextIntegrity
<1>4. OneRunning'
  BY DEF TypeOK, OneRunning, ControlInv, ContextIntegrity, Window
<1>5. SleepersQueued'
  BY DEF TypeOK, SleepersQueued, ControlInv, ContextIntegrity, Window, Addrs
<1>6. RingLinked'
  <2>1. CASE RingAdd(t)
    BY <2>1, <1>a DEF RingAdd, TypeOK, RingLinked, OnRing
  <2>2. CASE UNCHANGED ringVars
    BY <2>2 DEF ringVars, TypeOK, RingLinked, OnRing
  <2> QED
    BY <2>1, <2>2
<1>7. Unlinking'
  BY DEF TypeOK, Unlinking, ControlInv, ContextIntegrity, Window
<1> QED
  BY <1>1, <1>2, <1>3, <1>4, <1>5, <1>6, <1>7

\* Entering sleep_on only notes the address.
LEMMA SleepOnIInv ==
  ASSUME IInv, NEW c \in Tasks, NEW a \in Events, SleepOn(c, a)
  PROVE  IInv'
<1> USE SchedAssumption DEF IInv, SleepOn, ringVars, cpuVars, ctxVars
<1>1. TypeOK'
  BY DEF TypeOK, TaskState, PC, Addrs
<1>2. ControlInv'
  BY DEF TypeOK, ControlInv, ContextIntegrity, RingLinked, OnRing, Runnable, Window
<1>3. ContextIntegrity'
  BY DEF TypeOK, ControlInv, ContextIntegrity, OnRing, Runnable, Window
<1>4. OneRunning'
  BY DEF TypeOK, OneRunning, ControlInv, ContextIntegrity, Window
<1>5. SleepersQueued'
  BY DEF TypeOK, SleepersQueued, ControlInv, ContextIntegrity, Window, Addrs
<1>6. RingLinked'
  BY DEF TypeOK, RingLinked, ControlInv, ContextIntegrity, OnRing, Window
<1>7. Unlinking'
  BY DEF TypeOK, Unlinking, ControlInv, ContextIntegrity, Window
<1> QED
  BY <1>1, <1>2, <1>3, <1>4, <1>5, <1>6, <1>7

\* The caller queues itself once.
LEMMA SleepEnqueueIInv ==
  ASSUME IInv, NEW c \in Tasks, SleepEnqueue(c)
  PROVE  IInv'
<1> USE SchedAssumption DEF IInv, SleepEnqueue, ringVars, cpuVars, ctxVars
<1>1. TypeOK'
  BY DEF TypeOK, ControlInv, ContextIntegrity, OnRing, Window, TaskState, PC, Addrs
<1>2. ControlInv'
  BY DEF TypeOK, ControlInv, ContextIntegrity, RingLinked, OnRing, Runnable, Window
<1>3. ContextIntegrity'
  BY DEF TypeOK, ControlInv, ContextIntegrity, OnRing, Runnable, Window
<1>4. OneRunning'
  BY DEF TypeOK, OneRunning, ControlInv, ContextIntegrity, Window
<1>5. SleepersQueued'
  BY DEF TypeOK, SleepersQueued, ControlInv, ContextIntegrity, Window, Addrs
<1>6. RingLinked'
  BY DEF TypeOK, RingLinked, ControlInv, ContextIntegrity, OnRing, Window
<1>7. Unlinking'
  BY DEF TypeOK, Unlinking, ControlInv, ContextIntegrity, Window
<1> QED
  BY <1>1, <1>2, <1>3, <1>4, <1>5, <1>6, <1>7

\* llist_remove notes the list it has read.
LEMMA SleepUnlinkIInv ==
  ASSUME IInv, NEW c \in Tasks, SleepUnlink(c)
  PROVE  IInv'
<1> USE SchedAssumption DEF IInv, SleepUnlink, ringVars, cpuVars, ctxVars
<1>1. TypeOK'
  BY DEF TypeOK, ControlInv, ContextIntegrity, OnRing, Window, TaskState, PC, Addrs
<1>2. ControlInv'
  BY DEF TypeOK, ControlInv, ContextIntegrity, RingLinked, OnRing, Runnable, Window
<1>3. ContextIntegrity'
  BY DEF TypeOK, ControlInv, ContextIntegrity, OnRing, Runnable, Window
<1>4. OneRunning'
  BY DEF TypeOK, OneRunning, ControlInv, ContextIntegrity, Window
<1>5. SleepersQueued'
  BY DEF TypeOK, SleepersQueued, ControlInv, ContextIntegrity, Window, Addrs
<1>6. RingLinked'
  BY DEF TypeOK, RingLinked, ControlInv, ContextIntegrity, OnRing, Window
<1>7. Unlinking'
  BY DEF TypeOK, Unlinking, ControlInv, ContextIntegrity, Window
<1> QED
  BY <1>1, <1>2, <1>3, <1>4, <1>5, <1>6, <1>7

\* ... and dequeues itself before it leaves sleep_on.
LEMMA SleepReturnIInv ==
  ASSUME IInv, NEW c \in Tasks, SleepReturn(c)
  PROVE  IInv'
<1> USE SchedAssumption DEF IInv, SleepReturn, EmptyQueue, ringVars, cpuVars, ctxVars
<1>0. wait_queues' = [wait_queues EXCEPT ![addr[c]][c] =
                          IF wait_queues[addr[c]][c] > 0 THEN wait_queues[addr[c]][c] - 1 ELSE 0]
  <2>1. /\ addr[c] \in Addrs /\ seen[c] = wait_queues[addr[c]]
        /\ wait_queues[addr[c]] \in [Tasks -> Nat]
    BY DEF TypeOK, ControlInv, Unlinking
  <2>2. Unlinked(c, {}) = [wait_queues[addr[c]] EXCEPT ![c] = IF @ > 0 THEN @ - 1 ELSE 0]
    BY <2>1 DEF Unlinked
  <2>3. wait_queues' = [wait_queues EXCEPT ![addr[c]] = Unlinked(c, {})]
    BY <2>1
  <2> QED
    BY <2>1, <2>2, <2>3
<1>1. TypeOK'
  BY <1>0 DEF TypeOK, ControlInv, ContextIntegrity, OnRing, Window, TaskState, PC, Addrs
<1>2. ControlInv'
  BY DEF TypeOK, ControlInv, ContextIntegrity, RingLinked, OnRing, Runnable, Window
<1>3. ContextIntegrity'
  BY DEF TypeOK, ControlInv, ContextIntegrity, OnRing, Runnable, Window
<1>4. OneRunning'
  BY DEF TypeOK, OneRunning, ControlInv, ContextIntegrity, Window
<1>5. SleepersQueued'
  BY <1>0 DEF TypeOK, SleepersQueued, ControlInv, ContextIntegrity, Window, Addrs
<1>6. RingLinked'
  BY DEF TypeOK, RingLinked, ControlInv, ContextIntegrity, OnRing, Window
<1>7. Unlinking'
  BY DEF TypeOK, Unlinking, ControlInv, ContextIntegrity, Window
<1> QED
  BY <1>1, <1>2, <1>3, <1>4, <1>5, <1>6, <1>7

\* schedule() chooses a runnable neighbour.
LEMMA SchedulePickIInv ==
  ASSUME IInv, NEW c \in Tasks, SchedulePick(c)
  PROVE  IInv'
<1> USE SchedAssumption DEF IInv, SchedulePick, ringVars, cpuVars, ctxVars
<1>1. TypeOK'
  BY DEF TypeOK, PC
<1>2. ControlInv'
  BY DEF TypeOK, ControlInv, ContextIntegrity, RingLinked, OnRing, Runnable, Window
<1>3. ContextIntegrity'
  BY DEF TypeOK, ControlInv, ContextIntegrity, OnRing, Runnable, Window
<1>4. OneRunning'
  BY DEF TypeOK, OneRunning, ControlInv, ContextIntegrity, Window
<1>5. SleepersQueued'
  BY DEF TypeOK, SleepersQueued, ControlInv, ContextIntegrity, Window, Addrs
<1>6. RingLinked'
  BY DEF TypeOK, RingLinked, ControlInv, ContextIntegrity, OnRing, Window
<1>7. Unlinking'
  BY DEF TypeOK, Unlinking, ControlInv, ContextIntegrity, Window
<1> QED
  BY <1>1, <1>2, <1>3, <1>4, <1>5, <1>6, <1>7

\* A fruitless schedule() returns to sleep_on or kernel_thread_exit.
LEMMA ScheduleReturnIInv ==
  ASSUME IInv, NEW c \in Tasks, ScheduleReturn(c)
  PROVE  IInv'
<1> USE SchedAssumption DEF IInv, ScheduleReturn, ringVars, cpuVars, ctxVars
<1>1. TypeOK'
  BY DEF TypeOK, TaskState, PC, Addrs
<1>2. ControlInv'
  BY DEF TypeOK, ControlInv, ContextIntegrity, RingLinked, OnRing, Runnable, Window
<1>3. ContextIntegrity'
  BY DEF TypeOK, ControlInv, ContextIntegrity, OnRing, Runnable, Window
<1>4. OneRunning'
  BY DEF TypeOK, OneRunning, ControlInv, ContextIntegrity, Window
<1>5. SleepersQueued'
  BY DEF TypeOK, SleepersQueued, ControlInv, ContextIntegrity, Window, Addrs
<1>6. RingLinked'
  BY DEF TypeOK, RingLinked, ControlInv, ContextIntegrity, OnRing, Window
<1>7. Unlinking'
  BY DEF TypeOK, Unlinking, ControlInv, ContextIntegrity, Window
<1> QED
  BY <1>1, <1>2, <1>3, <1>4, <1>5, <1>6, <1>7

\* The task being left stops being TASK_RUNNING.
LEMMA SwitchMarkIInv ==
  ASSUME IInv, NEW c \in Tasks, SwitchMark(c)
  PROVE  IInv'
<1> USE SchedAssumption DEF IInv, SwitchMark, Preempted, ringVars, cpuVars, ctxVars
<1>1. TypeOK'
  BY DEF TypeOK, TaskState, PC, Addrs
<1>2. ControlInv'
  BY DEF TypeOK, ControlInv, ContextIntegrity, RingLinked, OnRing, Runnable, Window
<1>3. ContextIntegrity'
  BY DEF TypeOK, ControlInv, ContextIntegrity, OnRing, Runnable, Window
<1>4. OneRunning'
  BY DEF TypeOK, OneRunning, ControlInv, ContextIntegrity, Window
<1>5. SleepersQueued'
  BY DEF TypeOK, SleepersQueued, ControlInv, ContextIntegrity, Window, Addrs
<1>6. RingLinked'
  BY DEF TypeOK, RingLinked, ControlInv, ContextIntegrity, OnRing, Window
<1>7. Unlinking'
  BY DEF TypeOK, Unlinking, ControlInv, ContextIntegrity, Window
<1> QED
  BY <1>1, <1>2, <1>3, <1>4, <1>5, <1>6, <1>7

\* The cursor moves while the old context still executes.
LEMMA SwitchCommitIInv ==
  ASSUME IInv, NEW c \in Tasks, SwitchCommit(c)
  PROVE  IInv'
<1> USE SchedAssumption DEF IInv, SwitchCommit, ringVars, cpuVars, ctxVars
<1>1. TypeOK'
  BY DEF TypeOK, ControlInv, ContextIntegrity, OnRing, Window, TaskState, PC, Addrs
<1>2. ControlInv'
  BY DEF TypeOK, ControlInv, ContextIntegrity, RingLinked, OnRing, Runnable, Window
<1>3. ContextIntegrity'
  BY DEF TypeOK, ControlInv, ContextIntegrity, OnRing, Runnable, Window
<1>4. OneRunning'
  BY DEF TypeOK, OneRunning, ControlInv, ContextIntegrity, Window
<1>5. SleepersQueued'
  BY DEF TypeOK, SleepersQueued, ControlInv, ContextIntegrity, Window, Addrs
<1>6. RingLinked'
  BY DEF TypeOK, RingLinked, ControlInv, ContextIntegrity, OnRing, Window
<1>7. Unlinking'
  BY DEF TypeOK, Unlinking, ControlInv, ContextIntegrity, Window
<1> QED
  BY <1>1, <1>2, <1>3, <1>4, <1>5, <1>6, <1>7

\* The old context is stored in its own task, the chosen one is loaded.
LEMMA SwitchLoadIInv ==
  ASSUME IInv, NEW c \in Tasks, SwitchLoad(c)
  PROVE  IInv'
<1> USE SchedAssumption DEF IInv, SwitchLoad, ringVars, cpuVars, ctxVars
<1>a. onCpu = c /\ arch_tss_cur_task = c /\ cur_task = pick[c]
  BY DEF ContextIntegrity
<1>b. pick[c] \in Tasks /\ OnRing(pick[c]) /\ state[pick[c]] # "NOTASK" /\ pick[c] # None
  BY <1>a DEF TypeOK, ControlInv, RingLinked, OnRing, Runnable, Window
<1>c. [saved EXCEPT ![c] = onCpu][pick[c]] = pick[c]
  BY <1>a, <1>b DEF TypeOK, ContextIntegrity
<1>d. onCpu' = pick[c] /\ saved' = [saved EXCEPT ![c] = c, ![pick[c]] = None]
  BY <1>a, <1>c DEF SwitchContext
<1>e. arch_tss_cur_task' = pick[c] /\ sif' \in [Tasks -> BOOLEAN] /\ ifl' \in BOOLEAN
  BY <1>a, <1>b, <1>c DEF SwitchContext, TypeOK
<1>1. TypeOK'
  BY <1>a, <1>b, <1>d, <1>e DEF TypeOK, TaskState, PC, ControlInv, ContextIntegrity, Window
<1>2. ControlInv'
  BY <1>a, <1>b, <1>d, <1>e DEF TypeOK, ControlInv, ContextIntegrity, RingLinked, OnRing, Runnable, Window
<1>3. ContextIntegrity'
  <2>1. pick[c] # c => pc[pick[c]] # "load"
    BY <1>a, <1>b DEF ControlInv, Window
  <2>2. state[c] # "NOTASK"
    BY <1>a DEF ControlInv, RingLinked
  <2> QED
    BY <1>a, <1>b, <1>d, <1>e, <2>1, <2>2 DEF TypeOK, ContextIntegrity
<1>4. OneRunning'
  BY <1>a, <1>b, <1>d, <1>e DEF TypeOK, OneRunning, ControlInv, ContextIntegrity, Window
<1>5. SleepersQueued'
  BY <1>a, <1>b, <1>d, <1>e DEF TypeOK, SleepersQueued, ControlInv, ContextIntegrity, Window, Addrs
<1>6. RingLinked'
  BY <1>a, <1>b, <1>d, <1>e DEF TypeOK, RingLinked, ControlInv, ContextIntegrity, OnRing, Window
<1>7. Unlinking'
  BY <1>a, <1>b, <1>d, <1>e DEF TypeOK, Unlinking, ControlInv, ContextIntegrity, Window
<1> QED
  BY <1>1, <1>2, <1>3, <1>4, <1>5, <1>6, <1>7

\* A preempted context is stored in its own task: it is outside switch_to.
LEMMA TickIInv ==
  ASSUME IInv, OpenWindow = {}, Tick
  PROVE  IInv'
<1> DEFINE target == next[cur_task]
<1> USE SchedAssumption DEF IInv
<1>a. onCpu = cur_task /\ pc[onCpu] \notin Window /\ pc[onCpu] # "unlink"
  BY DEF Tick, ContextIntegrity, Window, Unprotected
<1>b. target \in Tasks /\ OnRing(target) /\ Runnable(target) /\ target # None
  BY DEF Tick, TypeOK, ControlInv, RingLinked, OnRing
<1>c. [saved EXCEPT ![cur_task] = onCpu][target] = target
  BY <1>a, <1>b DEF TypeOK, ContextIntegrity, Runnable
<1>d. /\ onCpu' = target /\ arch_tss_cur_task' = target /\ cur_task' = target
      /\ saved' = [saved EXCEPT ![cur_task] = cur_task, ![target] = None]
      /\ sif' \in [Tasks -> BOOLEAN] /\ ifl' \in BOOLEAN
  BY <1>a, <1>b, <1>c DEF Tick, SwitchContext, TypeOK
<1>e. state' = [u \in Tasks |-> IF u = target THEN "RUNNING"
                                ELSE IF u = cur_task /\ state[u] = "RUNNING"
                                     THEN "READY" ELSE state[u]]
  BY <1>b DEF Tick, Preempted, TypeOK, Runnable
<1>f. UNCHANGED <<next, prev, pc, pick, addr, child, seen, wait_queues, parent>>
  BY DEF Tick, ringVars, ctxVars
<1>g. \A u \in Tasks : /\ state'[u] = "ZOMBIE" <=> state[u] = "ZOMBIE"
                       /\ state'[u] = "NOTASK" <=> state[u] = "NOTASK"
                       /\ Runnable(u) => Runnable(u)'
  BY <1>b, <1>e DEF Runnable
<1> HIDE DEF target
<1>1. TypeOK'
  BY <1>b, <1>d, <1>e, <1>f DEF TypeOK, TaskState
<1>2. ControlInv'
  <2>1. \A u \in Tasks : pc[u] \notin Window
    BY <1>a DEF ControlInv
  <2> QED
    BY <1>b, <1>d, <1>e, <1>f, <1>g, <2>1 DEF TypeOK, ControlInv, OnRing, Window
<1>3. ContextIntegrity'
  <2>1. pc[target] # "load"
    BY <1>a, <1>b DEF ControlInv, Window
  <2>2. state[cur_task] # "NOTASK"
    BY DEF TypeOK, ControlInv, RingLinked
  <2> QED
    BY <1>a, <1>b, <1>d, <1>f, <1>g, <2>1, <2>2 DEF TypeOK, ContextIntegrity, Runnable
<1>4. OneRunning'
  BY <1>b, <1>d, <1>e DEF OneRunning, TypeOK
<1>5. SleepersQueued'
  BY <1>b, <1>e, <1>f DEF SleepersQueued, TypeOK
<1>6. RingLinked'
  BY <1>b, <1>f, <1>g DEF RingLinked, OnRing
<1>7. Unlinking'
  BY <1>a, <1>f DEF TypeOK, Unlinking, ControlInv, ContextIntegrity, Window
<1> QED
  BY <1>1, <1>2, <1>3, <1>4, <1>5, <1>6, <1>7

\* A thread that exits is in no wait queue and waits for nobody.
LEMMA ExitIInv ==
  ASSUME IInv, NEW c \in Tasks, KernelThreadExit(c)
  PROVE  IInv'
<1> USE SchedAssumption DEF IInv, KernelThreadExit, Woken, ringVars, cpuVars, ctxVars
<1>0. \A u \in Tasks : state'[u] = "NOTASK" <=> state[u] = "NOTASK"
  BY DEF TypeOK, ControlInv, SleepersQueued, RingLinked, Addrs
<1>1. TypeOK'
  BY DEF TypeOK, ControlInv, ContextIntegrity, OnRing, Window, TaskState, PC, Addrs
<1>2. ControlInv'
  BY DEF TypeOK, ControlInv, ContextIntegrity, SleepersQueued, Addrs, OnRing,
         Runnable, Window
<1>3. ContextIntegrity'
  BY <1>0 DEF TypeOK, ControlInv, ContextIntegrity, Window
<1>4. OneRunning'
  BY DEF TypeOK, OneRunning, ControlInv, ContextIntegrity, Window
<1>5. SleepersQueued'
  BY DEF TypeOK, SleepersQueued, ControlInv, ContextIntegrity, Window, Addrs
<1>6. RingLinked'
  BY DEF TypeOK, RingLinked, ControlInv, ContextIntegrity, OnRing, Window
<1>7. Unlinking'
  BY DEF TypeOK, Unlinking, ControlInv, ContextIntegrity, Window
<1> QED
  BY <1>1, <1>2, <1>3, <1>4, <1>5, <1>6, <1>7

\* kernel_thread_wait starts with a thread the caller owns.
LEMMA WaitIInv ==
  ASSUME IInv, NEW c \in Tasks, NEW th \in Tasks, KernelThreadWait(c, th)
  PROVE  IInv'
<1> USE SchedAssumption DEF IInv, KernelThreadWait, ringVars, cpuVars, ctxVars
<1>1. TypeOK'
  BY DEF TypeOK, TaskState, PC, Addrs
<1>2. ControlInv'
  BY DEF TypeOK, ControlInv, ContextIntegrity, RingLinked, OnRing, Runnable, Window
<1>3. ContextIntegrity'
  BY DEF TypeOK, ControlInv, ContextIntegrity, OnRing, Runnable, Window
<1>4. OneRunning'
  BY DEF TypeOK, OneRunning, ControlInv, ContextIntegrity, Window
<1>5. SleepersQueued'
  BY DEF TypeOK, SleepersQueued, ControlInv, ContextIntegrity, Window, Addrs
<1>6. RingLinked'
  BY DEF TypeOK, RingLinked, ControlInv, ContextIntegrity, OnRing, Window
<1>7. Unlinking'
  BY DEF TypeOK, Unlinking, ControlInv, ContextIntegrity, Window
<1> QED
  BY <1>1, <1>2, <1>3, <1>4, <1>5, <1>6, <1>7

\* The loop ends only at a zombie.
LEMMA WaitTestIInv ==
  ASSUME IInv, NEW c \in Tasks, WaitTest(c)
  PROVE  IInv'
<1> USE SchedAssumption DEF IInv, WaitTest, ringVars, cpuVars, ctxVars
<1>1. TypeOK'
  BY DEF TypeOK, TaskState, PC, Addrs
<1>2. ControlInv'
  BY DEF TypeOK, ControlInv, ContextIntegrity, RingLinked, OnRing, Runnable, Window
<1>3. ContextIntegrity'
  BY DEF TypeOK, ControlInv, ContextIntegrity, OnRing, Runnable, Window
<1>4. OneRunning'
  BY DEF TypeOK, OneRunning, ControlInv, ContextIntegrity, Window
<1>5. SleepersQueued'
  BY DEF TypeOK, SleepersQueued, ControlInv, ContextIntegrity, Window, Addrs
<1>6. RingLinked'
  BY DEF TypeOK, RingLinked, ControlInv, ContextIntegrity, OnRing, Window
<1>7. Unlinking'
  BY DEF TypeOK, Unlinking, ControlInv, ContextIntegrity, Window
<1> QED
  BY <1>1, <1>2, <1>3, <1>4, <1>5, <1>6, <1>7

\* The freed thread is unlinked, unowned and in no queue.
LEMMA WaitReapIInv ==
  ASSUME IInv, NEW c \in Tasks, WaitReap(c)
  PROVE  IInv'
<1> USE SchedAssumption DEF IInv, WaitReap, RingRemove, ringVars, cpuVars, ctxVars
<1>a. /\ child[c] \in Tasks /\ OnRing(child[c]) /\ child[c] # c
      /\ next[child[c]] \in Tasks /\ prev[child[c]] \in Tasks
      /\ child[c] \notin {Main, Idle, onCpu, cur_task}
  BY DEF TypeOK, ControlInv, ContextIntegrity, RingLinked, OnRing, Window
<1>1. TypeOK'
  BY <1>a DEF TypeOK, TaskState, PC
<1>2. ControlInv'
  BY <1>a DEF TypeOK, ControlInv, ContextIntegrity, RingLinked, OnRing, Runnable, Window
<1>3. ContextIntegrity'
  BY <1>a DEF TypeOK, ControlInv, ContextIntegrity, OnRing, Runnable, Window
<1>4. OneRunning'
  BY <1>a DEF TypeOK, OneRunning, ControlInv, ContextIntegrity, Window
<1>5. SleepersQueued'
  <2>1. /\ pc[c] = "reap" /\ state[child[c]] = "ZOMBIE"
        /\ wait_queues' = wait_queues /\ addr' = addr
        /\ pc' = [pc EXCEPT ![c] = "run", ![child[c]] = "run"]
        /\ state' = [state EXCEPT ![child[c]] = "NOTASK"]
    BY DEF ControlInv
  <2> HIDE DEF WaitReap, RingRemove
  <2>2. ASSUME NEW a \in Addrs, NEW t \in Tasks, wait_queues[a][t] > 0
        PROVE  t # c /\ t # child[c]
    BY <1>a, <2>1, <2>2 DEF SleepersQueued, Window
  <2> QED
    BY <1>a, <2>1, <2>2 DEF TypeOK, SleepersQueued
<1>6. RingLinked'
  <2>2. \A u \in Tasks : u # child[c] => state'[u] = state[u]
    BY DEF TypeOK
  <2>3. /\ next' = [next EXCEPT ![prev[child[c]]] = next[child[c]], ![child[c]] = None]
        /\ prev' = [prev EXCEPT ![next[child[c]]] = prev[child[c]], ![child[c]] = None]
    OBVIOUS
  <2> HIDE DEF WaitReap, RingRemove
  <2>4. \A u \in Tasks :
          /\ next'[u] = IF u = child[c] THEN None
                        ELSE IF u = prev[child[c]] THEN next[child[c]] ELSE next[u]
          /\ prev'[u] = IF u = child[c] THEN None
                        ELSE IF u = next[child[c]] THEN prev[child[c]] ELSE prev[u]
    BY <1>a, <2>3 DEF TypeOK
  <2>5. ASSUME NEW u \in Tasks, next[u] # None
        PROVE  /\ next[u] \in Tasks /\ prev[u] \in Tasks
               /\ next[next[u]] # None /\ next[prev[u]] # None
               /\ prev[next[u]] = u /\ next[prev[u]] = u /\ state[u] # "NOTASK"
    BY <2>5 DEF TypeOK, RingLinked, OnRing
  <2> HIDE DEF IInv
  <2> QED
    BY <1>a, <2>2, <2>4, <2>5 DEF RingLinked, OnRing
<1>7. Unlinking'
  BY <1>a DEF TypeOK, Unlinking, ControlInv, ContextIntegrity, Window
<1> QED
  BY <1>1, <1>2, <1>3, <1>4, <1>5, <1>6, <1>7

----------------------------------------------------------------------------
(* The theorems.                                                           *)

\* Every step of the scheduler preserves the invariant.
LEMMA NextIInv == ASSUME IInv, OpenWindow = {}, [Next]_vars PROVE IInv'
<1>1. CASE Tick
  BY <1>1, TickIInv
<1>2. ASSUME NEW a \in Events, IrqWakeup(a) PROVE IInv'
  BY <1>2, IrqWakeupIInv
<1>3. ASSUME NEW c \in Tasks, Step(c) PROVE IInv'
  BY <1>3, SleepEnqueueIInv, SleepUnlinkIInv, SleepReturnIInv, SchedulePickIInv,
     ScheduleReturnIInv, SwitchMarkIInv, SwitchCommitIInv, SwitchLoadIInv,
     WaitTestIInv, WaitReapIInv DEF Step
<1>4. ASSUME NEW c \in Tasks, Call(c) PROVE IInv'
  BY <1>4, CreateIInv, WaitIInv, SleepOnIInv, ThreadWakeupIInv, ExitIInv DEF Call
<1>5. CASE UNCHANGED vars
  BY <1>5 DEF vars, ringVars, cpuVars, ctxVars, IInv, TypeOK, ControlInv,
     ContextIntegrity, OneRunning, SleepersQueued, RingLinked, Unlinking, OnRing, Runnable
<1> QED
  BY <1>1, <1>2, <1>3, <1>4, <1>5 DEF Next

\* The invariant holds in every behaviour of the scheduler.
THEOREM SchedInductive == ASSUME OpenWindow = {} PROVE Spec => []IInv
<1>1. IInv /\ [Next]_vars => IInv'
  BY NextIInv
<1> QED
  BY InitIInv, <1>1, PTL DEF Spec

\* The variables keep their types, and places, locals and states agree.
THEOREM SchedTypes == ASSUME OpenWindow = {} PROVE Spec => [](TypeOK /\ ControlInv)
<1>1. IInv => TypeOK /\ ControlInv
  BY DEF IInv
<1> QED
  BY SchedInductive, <1>1, PTL

\* No task is cut off the ring by a step: a new task is linked behind the
\* last one, and the successor of a reaped task takes its place.
LEMMA RingWholeStep ==
  ASSUME IInv, RingWhole, [Next]_vars
  PROVE  RingWhole'
<1> SUFFICES ASSUME NEW S \in SUBSET Tasks, Main \in S, \A u \in S : next'[u] \in S
             PROVE  \A u \in Tasks : next'[u] # None => u \in S
  BY DEF RingWhole, OnRing
<1> USE SchedAssumption
<1>0. ASSUME NEW W \in SUBSET Tasks, Main \in W, \A u \in W : next[u] \in W
      PROVE  \A u \in Tasks : next[u] # None => u \in W
  BY <1>0 DEF RingWhole, OnRing
<1>1. CASE next' = next
  BY <1>0, <1>1
<1>2. ASSUME NEW c \in Tasks, NEW t \in Tasks, KernelThreadCreate(c, t), RingAdd(t)
      PROVE  \A u \in Tasks : next'[u] # None => u \in S
  <2>1. /\ prev[Main] \in Tasks /\ next[prev[Main]] = Main /\ t # Main /\ t # prev[Main]
        /\ next[t] = None /\ \A u \in Tasks : next[u] # t
    BY <1>2 DEF KernelThreadCreate, IInv, TypeOK, ControlInv, RingLinked, OnRing
  <2>2. \A u \in Tasks : next'[u] = IF u = t THEN Main ELSE IF u = prev[Main] THEN t ELSE next[u]
    BY <1>2, <2>1 DEF RingAdd, IInv, TypeOK
  <2>3. \A u \in S \ {t} : next[u] \in S \ {t}
    BY <2>1, <2>2
  <2>4. \A u \in Tasks : next[u] # None => u \in S \ {t}
    BY <1>0, <2>1, <2>3
  <2>5. t \in S
    BY <2>1, <2>2, <2>4
  <2> QED
    BY <2>1, <2>2, <2>4, <2>5
<1>3. ASSUME NEW c \in Tasks, WaitReap(c)
      PROVE  \A u \in Tasks : next'[u] # None => u \in S
  <2> DEFINE th == child[c]
  <2>1. /\ th \in Tasks /\ th # Main /\ next[th] \in Tasks /\ prev[th] \in Tasks
        /\ next[prev[th]] = th /\ next[prev[th]] # None
        /\ prev[next[th]] = th
    BY <1>3 DEF WaitReap, IInv, TypeOK, ControlInv, ContextIntegrity, RingLinked, OnRing, Window
  <2>2. \A u \in Tasks : next'[u] = IF u = th THEN None
                                    ELSE IF u = prev[th] THEN next[th] ELSE next[u]
    BY <1>3, <2>1 DEF WaitReap, RingRemove, IInv, TypeOK
  <2> HIDE DEF th
  <2>3. th \notin S
    BY <2>1, <2>2
  <2>4. prev[th] \in S
    <3> SUFFICES ASSUME prev[th] \notin S PROVE FALSE
      OBVIOUS
    <3>1. \A u \in S : next[u] \in S
      BY <2>2, <2>3
    <3> QED
      BY <1>0, <2>1, <3>1
  <2>5. next[th] \in S
    BY <2>1, <2>2, <2>3, <2>4
  <2>6. \A u \in S \cup {th} : next[u] \in S \cup {th}
    BY <2>1, <2>2, <2>3, <2>5
  <2>7. \A u \in Tasks : next[u] # None => u \in S \cup {th}
    BY <1>0, <2>1, <2>6
  <2> QED
    BY <2>1, <2>2, <2>7
<1>4. \/ next' = next
      \/ \E c, t \in Tasks : KernelThreadCreate(c, t) /\ RingAdd(t)
      \/ \E c \in Tasks : WaitReap(c)
  <2>1. CASE Tick \/ (\E a \in Events : IrqWakeup(a)) \/ UNCHANGED vars
    BY <2>1 DEF Tick, IrqWakeup, vars, ringVars
  <2>2. ASSUME NEW c \in Tasks, Step(c) PROVE next' = next \/ WaitReap(c)
    BY <2>2 DEF Step, SleepEnqueue, SleepUnlink, SleepReturn, SchedulePick, ScheduleReturn, SwitchMark,
       SwitchCommit, SwitchLoad, WaitTest, ringVars
  <2>3. ASSUME NEW c \in Tasks, Call(c)
        PROVE  next' = next \/ \E t \in Tasks : KernelThreadCreate(c, t) /\ RingAdd(t)
    BY <2>3 DEF Call, KernelThreadCreate, KernelThreadWait, SleepOn, ThreadWakeup,
       KernelThreadExit, ringVars
  <2> QED
    BY <2>1, <2>2, <2>3 DEF Next
<1> QED
  BY <1>1, <1>2, <1>3, <1>4

\* Everything the scheduler's data structures promise holds together: the
\* ring is linked both ways and whole, for any number of tasks, through any
\* sequence of creations, failed allocations and reaps.
THEOREM SchedConsistent == ASSUME OpenWindow = {} PROVE Spec => []Consistent
<1>1. Init => RingWhole
  BY SchedAssumption DEF Init, RingWhole, OnRing
<1>2. IInv /\ RingWhole /\ [Next]_vars => RingWhole'
  BY RingWholeStep
<1>3. IInv /\ RingWhole => Consistent
  BY DEF IInv, Consistent
<1> QED
  BY <1>1, <1>2, <1>3, SchedInductive, PTL DEF Spec

\* Contexts are never mixed up, however ticks, interrupts, sleeping, exiting
\* and waiting threads interleave (outside the window).
THEOREM ContextsIntact == ASSUME OpenWindow = {} PROVE Spec => []ContextIntegrity
<1>1. IInv => ContextIntegrity
  BY DEF IInv
<1> QED
  BY SchedInductive, <1>1, PTL

\* At most one task, the current one, is TASK_RUNNING.
THEOREM SingleRunning == ASSUME OpenWindow = {} PROVE Spec => []OneRunning
<1>1. IInv => OneRunning
  BY DEF IInv
<1> QED
  BY SchedInductive, <1>1, PTL

\* Wait queues hold living sleepers only, each once.
THEOREM QueuesExact == ASSUME OpenWindow = {} PROVE Spec => []SleepersQueued
<1>1. IInv => SleepersQueued
  BY DEF IInv
<1> QED
  BY SchedInductive, <1>1, PTL

\* No freed control block can be reached.
THEOREM NoUseAfterFree == ASSUME OpenWindow = {} PROVE Spec => []NoDangling
<1>1. IInv => NoDangling
  <2> SUFFICES ASSUME IInv, NEW t \in Tasks, state[t] = "NOTASK"
               PROVE  /\ ~OnRing(t)
                      /\ t \notin {cur_task, onCpu}
                      /\ \A a \in Addrs : wait_queues[a][t] = 0
                      /\ \A c \in Tasks : t \notin {pick[c], child[c], next[c], prev[c]}
    BY DEF NoDangling
  <2>1. ~OnRing(t)
    BY DEF IInv, RingLinked
  <2>2. t \notin {cur_task, onCpu}
    BY <2>1 DEF IInv, ControlInv
  <2>3. \A a \in Addrs : wait_queues[a][t] = 0
    BY DEF IInv, SleepersQueued, TypeOK
  <2>4. ASSUME NEW c \in Tasks PROVE t \notin {pick[c], child[c]}
    BY <2>1, SchedAssumption DEF IInv, ControlInv, TypeOK
  <2>5. ASSUME NEW c \in Tasks PROVE t \notin {next[c], prev[c]}
    BY <2>1, SchedAssumption DEF IInv, ControlInv, RingLinked, OnRing, TypeOK
  <2> QED
    BY <2>1, <2>2, <2>3, <2>4, <2>5
<1> QED
  BY SchedInductive, <1>1, PTL

----------------------------------------------------------------------------
(* What a step may do to a thread's state.                                 *)

\* A wakeup changes the state of sleepers only, and none is a zombie.
LEMMA WakeupLife ==
  ASSUME IInv, NEW a \in Addrs, NEW t \in Tasks, wait_queues[a][t] > 0
  PROVE  state[t] \notin {"NOTASK", "ZOMBIE"}
BY DEF IInv, SleepersQueued

\* A step leaves life and ownership alone, or is a creation, an end or a
\* successful wait of the abstract specification.
LEMMA LifeStep == ASSUME IInv, OpenWindow = {}, [Next]_vars
                  PROVE  [Life!Next]_<<LifeOf, parent>>
<1> USE SchedAssumption
<1> DEFINE Same == \A t \in Tasks : /\ state'[t] = "NOTASK" <=> state[t] = "NOTASK"
                                    /\ state'[t] = "ZOMBIE" <=> state[t] = "ZOMBIE"
<1>0. ASSUME Same, parent' = parent PROVE UNCHANGED <<LifeOf, parent>>
  BY <1>0 DEF LifeOf
<1>1. CASE Tick
  <2>1. Same /\ parent' = parent
    BY <1>1 DEF Tick, Preempted, Runnable, IInv, TypeOK
  <2> QED
    BY <2>1, <1>0
<1>2. ASSUME NEW a \in Events, IrqWakeup(a) PROVE UNCHANGED <<LifeOf, parent>>
  <2>1. Same /\ parent' = parent
    BY <1>2, WakeupLife DEF IrqWakeup, Woken, Addrs, IInv, TypeOK
  <2> QED
    BY <2>1, <1>0
<1>3. ASSUME NEW c \in Tasks, Step(c) PROVE [Life!Next]_<<LifeOf, parent>>
  <2>1. CASE WaitReap(c)
    <3>1. /\ child[c] \in Tasks /\ state[child[c]] = "ZOMBIE" /\ parent[child[c]] = c
          /\ state[c] \notin {"NOTASK", "ZOMBIE"}
      BY <2>1 DEF WaitReap, IInv, TypeOK, ControlInv, RingLinked
    <3>2. Life!Wait(c, child[c])
      BY <2>1, <3>1 DEF WaitReap, Life!Wait, LifeOf, IInv, TypeOK
    <3> QED
      BY <3>1, <3>2 DEF Life!Next
  <2>2. CASE SleepEnqueue(c) \/ SleepUnlink(c) \/ SleepReturn(c) \/ SchedulePick(c) \/ ScheduleReturn(c)
             \/ SwitchMark(c) \/ SwitchCommit(c) \/ SwitchLoad(c) \/ WaitTest(c)
    <3>1. parent' = parent
      BY <2>2 DEF SleepEnqueue, SleepUnlink, SleepReturn, SchedulePick, ScheduleReturn, SwitchMark,
         SwitchCommit, SwitchLoad, WaitTest
    <3>2. CASE SleepEnqueue(c)
      <4>1. state[c] \notin {"NOTASK", "ZOMBIE"}
        BY <3>2 DEF SleepEnqueue, IInv, TypeOK, ControlInv, RingLinked, Window
      <4> QED
        BY <3>1, <3>2, <4>1, <1>0 DEF SleepEnqueue, IInv, TypeOK
    <3>3. CASE SwitchLoad(c)
      <4>1. pick[c] \in Tasks /\ state[pick[c]] \notin {"NOTASK", "ZOMBIE"}
        BY <3>3 DEF SwitchLoad, IInv, TypeOK, ControlInv, Runnable, Window
      <4> QED
        BY <3>1, <3>3, <4>1, <1>0 DEF SwitchLoad, IInv, TypeOK
    <3>4. CASE SwitchMark(c)
      BY <3>1, <3>4, <1>0 DEF SwitchMark, Preempted, IInv, TypeOK
    <3>5. CASE SleepUnlink(c) \/ SleepReturn(c) \/ SchedulePick(c) \/ ScheduleReturn(c) \/ SwitchCommit(c)
               \/ WaitTest(c)
      BY <3>1, <3>5, <1>0 DEF SleepUnlink, SleepReturn, SchedulePick, ScheduleReturn, SwitchCommit, WaitTest
    <3> QED
      BY <2>2, <3>2, <3>3, <3>4, <3>5
  <2> QED
    BY <1>3, <2>1, <2>2 DEF Step
<1>4. ASSUME NEW c \in Tasks, Call(c) PROVE [Life!Next]_<<LifeOf, parent>>
  <2>1. ASSUME NEW t \in Tasks, KernelThreadCreate(c, t)
        PROVE  Life!Next
    <3>1. state[c] \notin {"NOTASK", "ZOMBIE"}
      BY <2>1 DEF KernelThreadCreate, IInv, ControlInv, RingLinked, Window
    <3>2. Life!Create(c, t)
      BY <2>1, <3>1 DEF KernelThreadCreate, SetupTask, Life!Create, LifeOf, IInv, TypeOK
    <3> QED
      BY <3>2 DEF Life!Next
  <2>2. ASSUME NEW t \in Tasks, KernelThreadWait(c, t)
        PROVE  UNCHANGED <<LifeOf, parent>>
    BY <2>2 DEF KernelThreadWait, LifeOf
  <2>3. ASSUME NEW a \in Events, SleepOn(c, a) PROVE UNCHANGED <<LifeOf, parent>>
    BY <2>3 DEF SleepOn, LifeOf
  <2>4. ASSUME NEW a \in Events, ThreadWakeup(c, a) PROVE UNCHANGED <<LifeOf, parent>>
    <3>1. Same /\ parent' = parent
      BY <2>4, WakeupLife DEF ThreadWakeup, Woken, Addrs, IInv, TypeOK
    <3> QED
      BY <3>1, <1>0
  <2>5. CASE KernelThreadExit(c)
    <3>1. /\ cur_task = c /\ \A a \in Addrs : wait_queues[a][c] = 0
          /\ state[c] # "NOTASK"
      BY <2>5 DEF KernelThreadExit, IInv, TypeOK, ControlInv, ContextIntegrity,
         SleepersQueued, RingLinked, Window
    <3>2. state' = [t \in Tasks |-> IF t = c THEN "ZOMBIE"
                      ELSE IF wait_queues[WAIT_KERNEL_THREAD][t] > 0 THEN "READY" ELSE state[t]]
      BY <2>5, <3>1 DEF KernelThreadExit, Woken, Addrs, IInv, TypeOK
    <3>3. \A t \in Tasks \ {c} : /\ state'[t] = "NOTASK" <=> state[t] = "NOTASK"
                                 /\ state'[t] = "ZOMBIE" <=> state[t] = "ZOMBIE"
      BY <3>2, WakeupLife DEF Addrs
    <3>4. parent' = [t \in Tasks |-> IF parent[t] = c THEN None ELSE parent[t]]
      BY <2>5 DEF KernelThreadExit
    <3>5. CASE state[c] = "ZOMBIE"
      <4>1. Same
        BY <3>2, <3>3, <3>5
      <4>2. parent' = parent
        BY <3>4, <3>5 DEF IInv, TypeOK, ControlInv
      <4> QED
        BY <4>1, <4>2, <1>0
    <3>6. CASE state[c] # "ZOMBIE"
      <4>1. LifeOf' = [LifeOf EXCEPT ![c] = "done"]
        BY <3>2, <3>3 DEF LifeOf
      <4>2. Life!Exit(c)
        BY <2>5, <3>1, <3>4, <3>6, <4>1 DEF KernelThreadExit, Life!Exit, LifeOf
      <4> QED
        BY <4>2 DEF Life!Next
    <3> QED
      BY <3>5, <3>6
  <2> QED
    BY <1>4, <2>1, <2>2, <2>3, <2>4, <2>5 DEF Call
<1>5. CASE UNCHANGED vars
  BY <1>5 DEF vars, LifeOf
<1> QED
  BY <1>1, <1>2, <1>3, <1>4, <1>5 DEF Next

\* The scheduler implements the thread interface.
THEOREM SchedImplementsKThreads == ASSUME OpenWindow = {} PROVE Spec => ImplementsKThreads
<1>1. Init => Life!Init
  BY SchedAssumption DEF Init, Life!Init, LifeOf
<1>2. IInv /\ [Next]_vars => [Life!Next]_<<LifeOf, parent>>
  BY LifeStep
<1> QED
  BY <1>1, <1>2, SchedInductive, PTL DEF Spec, Life!Spec, ImplementsKThreads

\* A zombie is never scheduled, woken or put to sleep again.
THEOREM ZombiesStayDead == ASSUME OpenWindow = {} PROVE Spec => ZombieFinal
<1>1. IInv /\ [Next]_vars =>
        [\A t \in Tasks : state[t] = "ZOMBIE" => state'[t] \in {"ZOMBIE", "NOTASK"}]_vars
  <2> SUFFICES ASSUME IInv, [Next]_vars, NEW t \in Tasks, state[t] = "ZOMBIE"
               PROVE  state'[t] \in {"ZOMBIE", "NOTASK"}
    OBVIOUS
  <2>1. LifeOf[t] = "done" /\ LifeOf'[t] \in {"done", "free"}
    BY LifeStep, SchedAssumption DEF LifeOf, Life!Next, Life!Create, Life!Wait, Life!Exit
  <2> QED
    BY <2>1 DEF LifeOf
<1> QED
  BY <1>1, SchedInductive, PTL DEF Spec, ZombieFinal

\* kernel_thread_wait frees a zombie of its own, never the stack in use.
THEOREM ReapsAreSafe == ASSUME OpenWindow = {} PROVE Spec => ReapIsSafe
<1>1. IInv /\ [Next]_vars =>
        [\A t \in Tasks : state[t] # "NOTASK" /\ state'[t] = "NOTASK" =>
            /\ state[t] = "ZOMBIE"
            /\ t \notin {onCpu, cur_task}
            /\ parent[t] = onCpu]_vars
  <2> SUFFICES ASSUME IInv, [Next]_vars, NEW t \in Tasks,
                      state[t] # "NOTASK", state'[t] = "NOTASK"
               PROVE  state[t] = "ZOMBIE" /\ t \notin {onCpu, cur_task} /\ parent[t] = onCpu
    OBVIOUS
  <2>1. PICK c \in Tasks : WaitReap(c) /\ t = child[c]
    <3>1. ASSUME NEW c \in Tasks, Step(c), ~WaitReap(c) PROVE FALSE
      BY <3>1 DEF Step, SleepEnqueue, SleepUnlink, SleepReturn, SchedulePick, ScheduleReturn,
         SwitchMark, SwitchCommit, SwitchLoad, WaitTest, Preempted, IInv, TypeOK
    <3>2. ASSUME NEW c \in Tasks, Call(c) PROVE FALSE
      BY <3>2 DEF Call, KernelThreadCreate, KernelThreadWait, SleepOn, ThreadWakeup,
         KernelThreadExit, Woken, IInv, TypeOK
    <3>3. ~Tick /\ \A a \in Events : ~IrqWakeup(a)
      BY DEF Tick, IrqWakeup, Woken, Preempted, IInv, TypeOK
    <3>4. ASSUME NEW c \in Tasks, WaitReap(c) PROVE t = child[c]
      BY <3>4 DEF WaitReap, IInv, TypeOK
    <3>5. ~UNCHANGED vars
      BY DEF vars
    <3> QED
      BY <3>1, <3>2, <3>3, <3>4, <3>5 DEF Next
  <2>2. onCpu = c /\ cur_task = c /\ parent[t] = c /\ state[t] = "ZOMBIE" /\ state[c] # "ZOMBIE"
    BY <2>1, SchedAssumption DEF WaitReap, IInv, TypeOK, ControlInv, ContextIntegrity
  <2> QED
    BY <2>2
<1> QED
  BY <1>1, SchedInductive, PTL DEF Spec, ReapIsSafe

----------------------------------------------------------------------------
(* The kernel before it has started any thread but idle_thread.  The ring  *)
(* neighbour of the main thread can then always run, so schedule() never   *)
(* returns to a sleep_on whose event has not come.                         *)

TwoThreads ==
    /\ next[Main] = Idle /\ next[Idle] = Main
    /\ state[Idle] \in {"READY", "RUNNING"}
    /\ pick[Main] \in {Idle, None}
    /\ onCpu = Main /\ pc[Main] \in {"woken", "unlink"} => state[Main] # "STOPPED"
    /\ StoppedIsQueued

\* With main and idle only, every step keeps TwoThreads.
LEMMA TwoThreadsStep ==
  ASSUME Tasks = {Main, Idle}, AllocOutcomes = {TRUE}, OpenWindow = {},
         IInv, TwoThreads, [Next]_vars
  PROVE  TwoThreads'
<1> USE SchedAssumption DEF TwoThreads, StoppedIsQueued, ringVars, cpuVars, ctxVars
<1>0. /\ TypeOK /\ ControlInv /\ SleepersQueued
      /\ pc[Idle] = "run" /\ state[Main] \notin {"NOTASK", "ZOMBIE"}
      /\ child[Main] = None /\ pick[Idle] = None
      /\ onCpu \in {Main, Idle}
      /\ pc[onCpu] \notin Window => cur_task = onCpu
      /\ \A a \in Addrs : wait_queues[a][Idle] = 0
  BY DEF IInv, TypeOK, ControlInv, ContextIntegrity, RingLinked, SleepersQueued, OnRing, Window
<1>1. CASE Tick
  <2>1. UNCHANGED <<next, prev, pc, pick, wait_queues>>
    BY <1>1 DEF Tick
  <2>2. pc[onCpu] \notin Window /\ cur_task = onCpu
    BY <1>0, <1>1 DEF Tick, Unprotected
  <2>3. /\ cur_task' = next[onCpu]
        /\ state' = [Preempted(state, onCpu) EXCEPT ![next[onCpu]] = "RUNNING"]
    BY <1>1, <2>2 DEF Tick
  <2>4. /\ state'[Idle] \in {"READY", "RUNNING"}
        /\ state'[Main] = "STOPPED" => state[Main] = "STOPPED"
        /\ next[onCpu] = Main => state'[Main] = "RUNNING"
    BY <1>0, <2>3 DEF Preempted, TypeOK
  <2>5. onCpu' = Main => next[onCpu] = Main
    BY <1>0, <1>1, <2>2 DEF Tick, SwitchContext, IInv, ContextIntegrity, TypeOK
  <2> QED
    BY <1>0, <2>1, <2>4, <2>5
<1>2. ASSUME NEW a \in Events, IrqWakeup(a) PROVE TwoThreads'
  BY <1>0, <1>2 DEF IrqWakeup, Woken, TypeOK, Addrs
<1>3. ASSUME NEW c \in Tasks, Step(c) PROVE TwoThreads'
  <2>0. c = Main
    BY <1>0, <1>3 DEF Step, SleepEnqueue, SleepUnlink, SleepReturn, SchedulePick, ScheduleReturn,
       SwitchMark, SwitchCommit, SwitchLoad, WaitTest, WaitReap
  <2>1. CASE SleepEnqueue(c)
    BY <1>0, <2>0, <2>1 DEF SleepEnqueue, TypeOK, ControlInv, Addrs
  <2>2. CASE SleepReturn(c)
    <3>1. state[Main] # "STOPPED" /\ pc'[Main] # "woken"
      BY <1>0, <2>0, <2>2 DEF SleepReturn, TypeOK
    <3> QED
      BY <1>0, <2>0, <2>2, <3>1 DEF SleepReturn, TypeOK
  <2>9. CASE SleepUnlink(c)
    BY <1>0, <2>0, <2>9 DEF SleepUnlink, TypeOK
  <2>3. CASE SchedulePick(c)
    BY <1>0, <2>0, <2>3 DEF SchedulePick, TypeOK, Window
  <2>4. CASE ScheduleReturn(c)
    BY <1>0, <2>0, <2>4 DEF ScheduleReturn, Runnable, Window
  <2>5. CASE SwitchMark(c)
    BY <1>0, <2>0, <2>5 DEF SwitchMark, Preempted, TypeOK
  <2>6. CASE SwitchCommit(c)
    BY <1>0, <2>0, <2>6 DEF SwitchCommit, TypeOK
  <2>7. CASE SwitchLoad(c)
    <3>1. pick[Main] = Idle /\ arch_tss_cur_task = Main
      BY <1>0, <2>0, <2>7 DEF SwitchLoad, ControlInv, Window, IInv, ContextIntegrity
    <3>2. onCpu' # Main
      BY <2>0, <2>7, <3>1 DEF SwitchLoad, SwitchContext, IInv, TypeOK, ContextIntegrity
    <3> QED
      BY <1>0, <2>0, <2>7, <3>1, <3>2 DEF SwitchLoad, TypeOK
  <2>8. CASE WaitTest(c) \/ WaitReap(c)
    BY <1>0, <2>0, <2>8 DEF WaitTest, WaitReap, ControlInv
  <2> QED
    BY <1>3, <2>1, <2>2, <2>3, <2>4, <2>5, <2>6, <2>7, <2>8, <2>9 DEF Step
<1>4. ASSUME NEW c \in Tasks, Call(c) PROVE TwoThreads'
  <2>1. CASE \E t \in Tasks : KernelThreadCreate(c, t) \/ KernelThreadWait(c, t)
    BY <1>0, <2>1 DEF KernelThreadCreate, KernelThreadWait, ControlInv
  <2>2. ASSUME NEW a \in Events, SleepOn(c, a) PROVE TwoThreads'
    BY <1>0, <2>2 DEF SleepOn, TypeOK
  <2>3. ASSUME NEW a \in Events, ThreadWakeup(c, a) PROVE TwoThreads'
    BY <1>0, <2>3 DEF ThreadWakeup, Woken, TypeOK, Addrs
  <2>4. ~KernelThreadExit(c)
    BY DEF KernelThreadExit
  <2> QED
    BY <1>4, <2>1, <2>2, <2>3, <2>4 DEF Call
<1>5. CASE UNCHANGED vars
  BY <1>5 DEF vars
<1> QED
  BY <1>1, <1>2, <1>3, <1>4, <1>5 DEF Next

\* While the main thread and idle_thread are alone and memory does not run
\* out, whoever is TASK_STOPPED is in a wait queue, whatever it waits for.
THEOREM StoppedStaysQueued ==
  ASSUME Tasks = {Main, Idle}, AllocOutcomes = {TRUE}, OpenWindow = {}
  PROVE  Spec => []StoppedIsQueued
<1>1. Init => TwoThreads
  BY SchedAssumption DEF Init, TwoThreads, StoppedIsQueued
<1>2. IInv /\ TwoThreads /\ [Next]_vars => TwoThreads'
  BY TwoThreadsStep
<1>3. TwoThreads => StoppedIsQueued
  BY DEF TwoThreads
<1> QED
  BY <1>1, <1>2, <1>3, SchedInductive, PTL DEF Spec
=============================================================================
