------------------------------- MODULE Sched -------------------------------
(***************************************************************************)
(* The uniprocessor scheduler of TempOS and what is built on it: the task  *)
(* ring and schedule() (kernel/sched.c), switch_to() and task_switch_to()  *)
(* (arch/x86), sleep_on() and wakeup() (kernel/wait.c) and kernel threads  *)
(* (kernel/thread.c).                                                      *)
(*                                                                         *)
(* A task t has a control block (state, arch_tss) and a kernel stack.  The *)
(* stack is called the context of t: pc[t] is where the code on it stands, *)
(* onCpu is the context the CPU executes, saved[t] the context whose stack *)
(* pointer is stored in t's arch_tss.  Nothing in the C code forces        *)
(* saved[t] to be t, or cur_task to be onCpu: that is ContextIntegrity.    *)
(*                                                                         *)
(* Code between cli and sti, and every interrupt handler (interrupt gates  *)
(* clear IF), is one step.  The initial state is the one after             *)
(* kernel_main_thread() has created idle_thread, its first statement: both *)
(* stay on the ring for ever.                                              *)
(***************************************************************************)
EXTENDS Integers, FiniteSets

CONSTANTS
    Tasks,          \* control blocks kmalloc may hand out
    Main,           \* kernel_main_thread, head of the ring: never exits
    Idle,           \* idle_thread: spins, calls nothing
    Events,         \* sleep addresses of devices and buffers
    WAIT_KERNEL_THREAD,  \* sleep address of kernel_thread_wait
    None,           \* NULL, or "no such value"
    AllocOutcomes,  \* what kmalloc may do: TRUE it succeeds, FALSE it fails
    OpenWindow      \* the places of Unprotected where a quantum may end

ASSUME SchedAssumption ==
    /\ Main \in Tasks /\ Idle \in Tasks /\ Main # Idle
    /\ None \notin Tasks
    /\ None \notin Events
    /\ WAIT_KERNEL_THREAD \notin Events
    /\ WAIT_KERNEL_THREAD # None
    /\ AllocOutcomes \subseteq BOOLEAN
    /\ OpenWindow \subseteq {"mark", "commit", "load", "unlink"}

Addrs == Events \cup {WAIT_KERNEL_THREAD}

\* NOTASK: the control block is not allocated.
TaskState == {"NOTASK", "READY", "RUNNING", "STOPPED", "ZOMBIE"}

\* "run": in the thread's routine;  "wait": at the test of
\* kernel_thread_wait's loop;  "reap": past it;  "sleep": in sleep_on,
\* before cli;  "schedule": about to enter schedule();  "mark", "commit",
\* "load": inside switch_to;  "woken": schedule() has returned to sleep_on;
\* "unlink": inside sleep_on's llist_remove;  "exited": schedule() has
\* returned to kernel_thread_exit.
PC == {"run", "wait", "reap", "sleep", "schedule", "mark", "commit", "load",
       "woken", "unlink", "exited"}

\* From schedule()'s choice of a task to the cli of task_switch_to.
Window == {"mark", "commit", "load"}

\* Where shared state is between two consistent states and nothing in the
\* code keeps the timer away.
Unprotected == Window \cup {"unlink"}

VARIABLES
    next, prev,         \* links of the task ring; None: not on the ring
    cur_task,           \* the task the ring cursor points at
    state,              \* state[t]: TASK_... of the control block
    wait_queues,        \* wait_queues[a][t]: how many nodes of queue a hold t
    arch_tss_cur_task,  \* whose arch_tss receives the next saved stack
    saved,              \* saved[t]: the context stored in t's arch_tss
    onCpu,              \* the executing context
    ifl,                \* the CPU's interrupt flag
    sif,                \* sif[c]: the flag context c will resume with
    pc, pick, addr, child,  \* per context: place, schedule()'s choice,
                            \* sleep_on's argument, kernel_thread_wait's
    seen,               \* seen[c]: the queue as c's llist_remove has read it
    parent              \* parent[t]: the context that holds t's handle

ringVars == <<next, prev>>
cpuVars  == <<cur_task, arch_tss_cur_task, saved, onCpu, ifl, sif>>
ctxVars  == <<pc, pick, addr, child, seen>>
vars == <<ringVars, cpuVars, ctxVars, state, wait_queues, parent>>

OnRing(t) == next[t] # None

\* Mutants: schedule() accepts zombies, or only TASK_RUNNING.
Runnable_Zombie(t) == state[t] \in {"RUNNING", "READY", "ZOMBIE"}
Runnable_RunningOnly(t) == state[t] = "RUNNING"

Runnable(t) == state[t] \in {"RUNNING", "READY"}

----------------------------------------------------------------------------
(* init_wait_queues, init_scheduler with arch_init_scheduler, and the      *)
(* creation of idle_thread.                                                *)

\* init_wait_queues
EmptyQueue == [t \in Tasks |-> 0]
EmptyQueues == [a \in Addrs |-> EmptyQueue]

Init ==
    /\ next = [t \in Tasks |-> IF t = Main THEN Idle
                               ELSE IF t = Idle THEN Main ELSE None]
    /\ prev = next
    /\ cur_task = Main
    /\ state = [t \in Tasks |-> IF t = Main THEN "RUNNING"
                                ELSE IF t = Idle THEN "READY" ELSE "NOTASK"]
    /\ wait_queues = EmptyQueues
    /\ arch_tss_cur_task = Main
    /\ saved = [t \in Tasks |-> IF t = Idle THEN Idle ELSE None]
    /\ onCpu = Main
    /\ ifl = TRUE
    /\ sif = [t \in Tasks |-> TRUE]
    /\ pc = [t \in Tasks |-> "run"]
    /\ pick = [t \in Tasks |-> None]
    /\ addr = [t \in Tasks |-> None]
    /\ child = [t \in Tasks |-> None]
    /\ seen = [t \in Tasks |-> EmptyQueue]
    /\ parent = [t \in Tasks |-> None]

----------------------------------------------------------------------------
(* wakeup(a): every task of the queue becomes READY.  Its call             *)
(* llist_remove(&queue, tmp) compares nodes with tasks and removes         *)
(* nothing: the sleepers stay queued until they dequeue themselves.        *)

Woken(st, a) ==
    [t \in Tasks |-> IF wait_queues[a][t] > 0 THEN "READY" ELSE st[t]]

\* wakeup() by an interrupt handler (a disk or keyboard interrupt).
IrqWakeup(a) ==
    /\ ifl
    /\ state' = Woken(state, a)
    /\ UNCHANGED <<ringVars, cpuVars, ctxVars, wait_queues, parent>>

\* wakeup() by a thread (brelse); ends in sti.
ThreadWakeup(c, a) ==
    /\ onCpu = c /\ pc[c] = "run" /\ c # Idle
    /\ state' = Woken(state, a)
    /\ ifl' = TRUE
    /\ UNCHANGED <<ringVars, cur_task, arch_tss_cur_task, saved, onCpu, sif,
                   ctxVars, wait_queues, parent>>

----------------------------------------------------------------------------
(* kernel_thread_create: two kmallocs, then a third one in c_llist_add     *)
(* whose failure is ignored: the handle of a task that is not on the ring  *)
(* is returned.  With either of the first two failing NULL is returned and *)
(* nothing has changed.                                                    *)

\* Mutant: last->next is not moved to the new node.
RingAdd_StaleLastNext(t) ==
    /\ next' = [next EXCEPT ![t] = Main]
    /\ prev' = [prev EXCEPT ![t] = prev[Main], ![Main] = t]

\* c_llist_add(&tasks, t): insert before the head, which is Main.
RingAdd(t) ==
    LET last == prev[Main]
    IN  /\ next' = [next EXCEPT ![last] = t, ![t] = Main]
        /\ prev' = [prev EXCEPT ![t] = last, ![Main] = t]

\* setup_task: the stack is prepared so that loading it starts the routine,
\* with interrupts on.
SetupTask(t) ==
    /\ saved' = [saved EXCEPT ![t] = t]
    /\ sif' = [sif EXCEPT ![t] = TRUE]
    /\ pc' = [pc EXCEPT ![t] = "run"]

KernelThreadCreate(c, t) ==
    /\ onCpu = c /\ pc[c] = "run" /\ c # Idle
    /\ state[t] = "NOTASK"
    /\ TRUE \in AllocOutcomes
    /\ state' = [state EXCEPT ![t] = "READY"]
    /\ SetupTask(t)
    /\ parent' = [parent EXCEPT ![t] = c]
    /\ ifl' = TRUE
    /\ \/ RingAdd(t)
       \/ FALSE \in AllocOutcomes /\ UNCHANGED ringVars
    /\ UNCHANGED <<cur_task, arch_tss_cur_task, onCpu, pick, addr, child, seen,
                   wait_queues>>

----------------------------------------------------------------------------
(* sleep_on(a).                                                            *)

\* The call, up to the cli.  The caller has found its condition false.
SleepOn(c, a) ==
    /\ onCpu = c /\ pc[c] = "run" /\ c # Idle
    /\ a \in Events
    /\ addr' = [addr EXCEPT ![c] = a]
    /\ pc' = [pc EXCEPT ![c] = "sleep"]
    /\ UNCHANGED <<ringVars, cpuVars, pick, child, seen, state, wait_queues, parent>>

\* cli .. sti: TASK_STOPPED, then llist_add, whose failure is ignored.
SleepEnqueue(c) ==
    /\ onCpu = c /\ pc[c] = "sleep"
    /\ state' = [state EXCEPT ![c] = "STOPPED"]
    /\ \E ok \in AllocOutcomes :
          wait_queues' = IF ok THEN [wait_queues EXCEPT ![addr[c]][c] = @ + 1]
                               ELSE wait_queues
    /\ ifl' = TRUE
    /\ pc' = [pc EXCEPT ![c] = "schedule"]
    /\ UNCHANGED <<ringVars, cur_task, arch_tss_cur_task, saved, onCpu, sif,
                   pick, addr, child, seen, parent>>

\* llist_remove(&wait_queues[a], current_task) begins: it reads the list.
\* Interrupts are off here if the CPU was given up (see SwitchLoad), but on
\* if schedule() returned without a switch.
SleepUnlink(c) ==
    /\ onCpu = c /\ pc[c] = "woken"
    /\ seen' = [seen EXCEPT ![c] = wait_queues[addr[c]]]
    /\ pc' = [pc EXCEPT ![c] = "unlink"]
    /\ UNCHANGED <<ringVars, cpuVars, pick, addr, child, state, wait_queues, parent>>

\* Mutant: sleep_on leaves the dequeueing to wakeup's llist_remove.
Unlinked_Stays(c, S) == wait_queues[addr[c]]

\* The queue after c's llist_remove.  The head it has read is written back:
\* if others have queued or removed themselves meanwhile, the part of the
\* list it restores (S) is as c saw it, freed nodes included, and the rest
\* as it is now.  An entry that was not seen is not removed.
Unlinked(c, S) ==
    LET now == wait_queues[addr[c]]
    IN  IF seen[c][c] = 0 THEN now
        ELSE [t \in Tasks |->
                 IF t = c THEN IF now[c] > 0 THEN now[c] - 1 ELSE 0
                 ELSE IF t \in S THEN seen[c][t] ELSE now[t]]

\* llist_remove ends, and sleep_on returns to its caller, which is the loop
\* of kernel_thread_wait when a child is being waited for.
SleepReturn(c) ==
    /\ onCpu = c /\ pc[c] = "unlink"
    /\ \E S \in SUBSET {t \in Tasks : seen[c][t] # wait_queues[addr[c]][t]} :
          wait_queues' = [wait_queues EXCEPT ![addr[c]] = Unlinked(c, S)]
    /\ seen' = [seen EXCEPT ![c] = EmptyQueue]
    /\ addr' = [addr EXCEPT ![c] = None]
    /\ pc' = [pc EXCEPT ![c] = IF child[c] = None THEN "run" ELSE "wait"]
    /\ UNCHANGED <<ringVars, cpuVars, pick, child, state, parent>>

----------------------------------------------------------------------------
(* schedule() and switch_to() called voluntarily, with interrupts on.      *)
(* The do-while loop ends after one round unless the ring has one node:    *)
(* only the ring neighbour of the current task is ever considered.         *)

SchedulePick(c) ==
    /\ onCpu = c /\ pc[c] = "schedule"
    /\ Runnable(next[cur_task])
    /\ pick' = [pick EXCEPT ![c] = next[cur_task]]
    /\ pc' = [pc EXCEPT ![c] = "mark"]
    /\ UNCHANGED <<ringVars, cpuVars, addr, child, seen, state, wait_queues, parent>>

\* The neighbour cannot run: schedule() returns and its caller goes on.
ScheduleReturn(c) ==
    /\ onCpu = c /\ pc[c] = "schedule"
    /\ ~Runnable(next[cur_task])
    /\ next[cur_task] # cur_task
    /\ pc' = [pc EXCEPT ![c] = IF addr[c] = None THEN "exited" ELSE "woken"]
    /\ UNCHANGED <<ringVars, cpuVars, pick, addr, child, seen, state, wait_queues,
                   parent>>

\* Mutant: the task being left keeps TASK_RUNNING.
Preempted_KeepsRunning(st, t) == st

\* if (current_task->state == TASK_RUNNING) state = TASK_READY_TO_RUN
Preempted(st, t) ==
    IF st[t] = "RUNNING" THEN [st EXCEPT ![t] = "READY"] ELSE st

SwitchMark(c) ==
    /\ onCpu = c /\ pc[c] = "mark"
    /\ state' = Preempted(state, cur_task)
    /\ pc' = [pc EXCEPT ![c] = "commit"]
    /\ UNCHANGED <<ringVars, cpuVars, pick, addr, child, seen, wait_queues, parent>>

\* Mutant: the two assignments swapped, so that the old context is stored
\* in the arch_tss of the new task.
SwitchCommit_Swapped(c) ==
    /\ onCpu = c /\ pc[c] = "commit"
    /\ arch_tss_cur_task' = pick[c]
    /\ cur_task' = pick[c]
    /\ pc' = [pc EXCEPT ![c] = "load"]
    /\ UNCHANGED <<ringVars, saved, onCpu, ifl, sif, pick, addr, child, seen, state,
                   wait_queues, parent>>

\* arch_tss_cur_task = &current_task->arch_tss; cur_task = tsk
SwitchCommit(c) ==
    /\ onCpu = c /\ pc[c] = "commit"
    /\ arch_tss_cur_task' = cur_task
    /\ cur_task' = pick[c]
    /\ pc' = [pc EXCEPT ![c] = "load"]
    /\ UNCHANGED <<ringVars, saved, onCpu, ifl, sif, pick, addr, child, seen, state,
                   wait_queues, parent>>

\* Mutant: the flags of the loaded context are not restored (ret, not iret).
SwitchContext_FlagsKept(tss, target, resumeFlag) ==
    LET stored == [saved EXCEPT ![tss] = onCpu]
    IN  /\ onCpu' = stored[target]
        /\ saved' = [stored EXCEPT ![target] = None]
        /\ sif' = [sif EXCEPT ![onCpu] = resumeFlag]
        /\ ifl' = FALSE
        /\ arch_tss_cur_task' = target

\* task_switch_to: push the context, store the stack pointer in tss, load
\* the one of target.  The loaded context is in use, no longer stored; to
\* load where nothing is stored is to run on a stale stack (onCpu = None).
SwitchContext(tss, target, resumeFlag) ==
    LET stored == [saved EXCEPT ![tss] = onCpu]
        flags  == [sif EXCEPT ![onCpu] = resumeFlag]
    IN  /\ onCpu' = stored[target]
        /\ saved' = [stored EXCEPT ![target] = None]
        /\ sif' = flags
        /\ ifl' = IF stored[target] = None THEN TRUE ELSE flags[stored[target]]
        /\ arch_tss_cur_task' = target

\* task->state = TASK_RUNNING; task_switch_to, whose pushf follows its cli:
\* a task that gave up the CPU itself resumes with interrupts off.
SwitchLoad(c) ==
    /\ onCpu = c /\ pc[c] = "load"
    /\ state' = [state EXCEPT ![pick[c]] = "RUNNING"]
    /\ SwitchContext(arch_tss_cur_task, pick[c], FALSE)
    /\ pc' = [pc EXCEPT ![c] = IF addr[c] = None THEN "exited" ELSE "woken"]
    /\ pick' = [pick EXCEPT ![c] = None]
    /\ UNCHANGED <<ringVars, cur_task, addr, child, seen, wait_queues, parent>>

----------------------------------------------------------------------------
(* IRQ0 with the quantum expired: do_schedule() calls schedule() with      *)
(* interrupts off.  A tick that leaves the quantum running, or finds the   *)
(* neighbour not runnable, changes nothing here.  The preempted context    *)
(* resumes where it was, through the interrupt's iret: interrupts on.      *)

Tick ==
    LET target == next[cur_task]
    IN  /\ ifl
        /\ pc[onCpu] \in Unprotected => pc[onCpu] \in OpenWindow
        /\ Runnable(target)
        /\ state' = [Preempted(state, cur_task) EXCEPT ![target] = "RUNNING"]
        /\ cur_task' = target
        /\ SwitchContext(cur_task, target, TRUE)
        /\ UNCHANGED <<ringVars, ctxVars, wait_queues, parent>>

----------------------------------------------------------------------------
(* kernel_thread_exit, called by the routine or by force_kthread_exit when *)
(* the routine returns.  Should schedule() return ("exited"), the routine  *)
(* returns in turn and force_kthread_exit calls it again; what the CPU     *)
(* executes after that is not code of the kernel, and the context stays    *)
(* where it is.  The handles the thread holds are lost with its stack.     *)

KernelThreadExit(c) ==
    /\ onCpu = c /\ pc[c] \in {"run", "exited"} /\ c \notin {Main, Idle}
    /\ state' = Woken([state EXCEPT ![cur_task] = "ZOMBIE"], WAIT_KERNEL_THREAD)
    /\ ifl' = TRUE
    /\ pc' = [pc EXCEPT ![c] = "schedule"]
    /\ parent' = [t \in Tasks |-> IF parent[t] = c THEN None ELSE parent[t]]
    /\ UNCHANGED <<ringVars, cur_task, arch_tss_cur_task, saved, onCpu, sif,
                   pick, addr, child, seen, wait_queues>>

----------------------------------------------------------------------------
(* kernel_thread_wait(th), th a handle the caller got from                 *)
(* kernel_thread_create.                                                   *)

KernelThreadWait(c, th) ==
    /\ onCpu = c /\ pc[c] = "run" /\ c # Idle
    /\ parent[th] = c
    /\ child' = [child EXCEPT ![c] = th]
    /\ pc' = [pc EXCEPT ![c] = "wait"]
    /\ UNCHANGED <<ringVars, cpuVars, pick, addr, seen, state, wait_queues, parent>>

\* Mutant: any state but STOPPED is taken for the end of the thread.
WaitTest_NotStopped(c) ==
    /\ onCpu = c /\ pc[c] = "wait"
    /\ IF state[child[c]] # "STOPPED"
       THEN /\ pc' = [pc EXCEPT ![c] = "reap"]
            /\ UNCHANGED addr
       ELSE /\ pc' = [pc EXCEPT ![c] = "sleep"]
            /\ addr' = [addr EXCEPT ![c] = WAIT_KERNEL_THREAD]
    /\ UNCHANGED <<ringVars, cpuVars, pick, child, seen, state, wait_queues, parent>>

\* while (th->state != TASK_ZOMBIE) sleep_on(WAIT_KERNEL_THREAD)
WaitTest(c) ==
    /\ onCpu = c /\ pc[c] = "wait"
    /\ IF state[child[c]] = "ZOMBIE"
       THEN /\ pc' = [pc EXCEPT ![c] = "reap"]
            /\ UNCHANGED addr
       ELSE /\ pc' = [pc EXCEPT ![c] = "sleep"]
            /\ addr' = [addr EXCEPT ![c] = WAIT_KERNEL_THREAD]
    /\ UNCHANGED <<ringVars, cpuVars, pick, child, seen, state, wait_queues, parent>>

\* Mutant: the reaped task is freed but stays linked.
RingRemove_Forgotten(t) == UNCHANGED ringVars

\* c_llist_remove(&tasks, t): t has run, so it is on the ring; it is never
\* the head.
RingRemove(t) ==
    /\ next' = [next EXCEPT ![prev[t]] = next[t], ![t] = None]
    /\ prev' = [prev EXCEPT ![next[t]] = prev[t], ![t] = None]

\* cli .. sti: off the ring, then stack and control block are freed.
WaitReap(c) ==
    LET th == child[c]
    IN  /\ onCpu = c /\ pc[c] = "reap"
        /\ RingRemove(th)
        /\ state' = [state EXCEPT ![th] = "NOTASK"]
        /\ saved' = [saved EXCEPT ![th] = None]
        /\ parent' = [parent EXCEPT ![th] = None]
        /\ child' = [child EXCEPT ![c] = None]
        /\ pc' = [pc EXCEPT ![c] = "run", ![th] = "run"]
        /\ ifl' = TRUE
        /\ UNCHANGED <<cur_task, arch_tss_cur_task, onCpu, sif, pick, addr, seen,
                       wait_queues>>

----------------------------------------------------------------------------
\* The steps a context takes inside an operation it has begun.
Step(c) ==
    \/ SleepEnqueue(c)
    \/ SleepUnlink(c)
    \/ SleepReturn(c)
    \/ SchedulePick(c)
    \/ ScheduleReturn(c)
    \/ SwitchMark(c)
    \/ SwitchCommit(c)
    \/ SwitchLoad(c)
    \/ WaitTest(c)
    \/ WaitReap(c)

\* The operations a thread's routine may begin.
Call(c) ==
    \/ \E t \in Tasks : KernelThreadCreate(c, t)
    \/ \E t \in Tasks : KernelThreadWait(c, t)
    \/ \E a \in Events : SleepOn(c, a)
    \/ \E a \in Events : ThreadWakeup(c, a)
    \/ KernelThreadExit(c)

Next ==
    \/ Tick
    \/ \E a \in Events : IrqWakeup(a)
    \/ \E c \in Tasks : Step(c) \/ Call(c)

Spec == Init /\ [][Next]_vars
----------------------------------------------------------------------------
(* Properties.                                                             *)

\* Types of the ring, the tasks, the contexts and the wait queues.
TypeOK ==
    /\ next \in [Tasks -> Tasks \cup {None}]
    /\ prev \in [Tasks -> Tasks \cup {None}]
    /\ cur_task \in Tasks
    /\ state \in [Tasks -> TaskState]
    /\ wait_queues \in [Addrs -> [Tasks -> Nat]]
    /\ arch_tss_cur_task \in Tasks
    /\ saved \in [Tasks -> Tasks \cup {None}]
    /\ onCpu \in Tasks
    /\ ifl \in BOOLEAN
    /\ sif \in [Tasks -> BOOLEAN]
    /\ pc \in [Tasks -> PC]
    /\ pick \in [Tasks -> Tasks \cup {None}]
    /\ addr \in [Tasks -> Addrs \cup {None}]
    /\ child \in [Tasks -> Tasks \cup {None}]
    /\ seen \in [Tasks -> [Tasks -> Nat]]
    /\ parent \in [Tasks -> Tasks \cup {None}]

\* How the place of each context, its locals and its task's state go
\* together: only the executing context is inside switch_to, and what it
\* chose can run; a zombie is exactly a context in kernel_thread_exit; a
\* waiter owns the thread it waits for; a task off the ring has never run.
ControlInv ==
    /\ \A c \in Tasks :
        /\ IF pc[c] \in Window
           THEN c = onCpu /\ pick[c] # None /\ OnRing(pick[c]) /\ Runnable(pick[c])
           ELSE pick[c] = None
        /\ pc[c] \in {"commit", "load"} => state[c] # "RUNNING"
        /\ state[c] = "ZOMBIE" <=>
              \/ pc[c] = "exited"
              \/ pc[c] \in {"schedule"} \cup Window /\ addr[c] = None
        /\ pc[c] \in {"sleep", "woken", "unlink"} => addr[c] # None
        /\ pc[c] \in {"run", "wait", "reap", "exited"} => addr[c] = None
        /\ pc[c] \in {"wait", "reap"} => child[c] # None
        /\ pc[c] = "reap" => state[child[c]] = "ZOMBIE"
        /\ child[c] # None =>
              /\ parent[child[c]] = c
              /\ pc[c] # "run" /\ state[c] # "ZOMBIE"
        /\ parent[c] # None =>
              /\ c \notin {Main, Idle} /\ state[c] # "NOTASK"
              /\ state[parent[c]] \notin {"NOTASK", "ZOMBIE"}
        /\ ~OnRing(c) =>
              prev[c] = None /\ pc[c] = "run" /\ state[c] \in {"NOTASK", "READY"}
    /\ \A t \in {Main, Idle, onCpu, cur_task} : OnRing(t)
    /\ state[Main] # "ZOMBIE" /\ pc[Idle] = "run"

\* task.S saves "all context of the current task in it's stack": the CPU
\* executes the context of cur_task (of the task being left, until the
\* switch is complete), and every other allocated task has its own context
\* stored in its own arch_tss.
ContextIntegrity ==
    /\ arch_tss_cur_task = onCpu
    /\ cur_task = IF pc[onCpu] = "load" THEN pick[onCpu] ELSE onCpu
    /\ \A t \in Tasks : saved[t] = IF t = onCpu \/ state[t] = "NOTASK"
                                   THEN None ELSE t

\* switch_to leaves no second task marked TASK_RUNNING.
OneRunning == \A t \in Tasks : state[t] = "RUNNING" => t = cur_task

\* wakeup() makes READY whatever it finds in a queue, so a queue may only
\* hold, and only once, a living task that is inside sleep_on for it.
SleepersQueued ==
    \A a \in Addrs, t \in Tasks :
        wait_queues[a][t] > 0 =>
            /\ wait_queues[a][t] = 1
            /\ addr[t] = a
            /\ pc[t] \in {"schedule", "woken", "unlink"} \cup Window
            /\ state[t] \in {"READY", "RUNNING", "STOPPED"}

\* No freed control block is reachable: from the ring, a wait queue, the
\* scheduler's cursor and choice, or a thread that waits for it.
NoDangling ==
    \A t \in Tasks : state[t] = "NOTASK" =>
        /\ ~OnRing(t)
        /\ t \notin {cur_task, onCpu}
        /\ \A a \in Addrs : wait_queues[a][t] = 0
        /\ \A c \in Tasks : t \notin {pick[c], child[c], next[c], prev[c]}

\* The task ring is doubly linked through allocated tasks, whatever
\* c_llist_add and c_llist_remove have done to it.
RingLinked ==
    \A t \in Tasks : OnRing(t) =>
        /\ prev[t] # None /\ OnRing(next[t]) /\ OnRing(prev[t])
        /\ prev[next[t]] = t /\ next[prev[t]] = t
        /\ state[t] # "NOTASK"

\* A walk from the head meets every task of the ring: c_llist_add and
\* c_llist_remove cut none off, so schedule() can reach them all.  (A set
\* that holds the head and is closed under next holds the whole walk.)
RingWhole ==
    \A S \in SUBSET Tasks :
        Main \in S /\ (\A t \in S : next[t] \in S) => {t \in Tasks : OnRing(t)} \subseteq S

\* kernel_thread_exit is final: a zombie is never scheduled, woken or put to
\* sleep again; the only way on is that kernel_thread_wait frees it.
ZombieFinal ==
    [][\A t \in Tasks : state[t] = "ZOMBIE" => state'[t] \in {"ZOMBIE", "NOTASK"}]_vars

\* kernel_thread_wait frees a thread only when the CPU can no longer be on
\* its stack and nobody else can still free it.
ReapIsSafe ==
    [][\A t \in Tasks : state[t] # "NOTASK" /\ state'[t] = "NOTASK" =>
          /\ state[t] = "ZOMBIE"
          /\ t \notin {onCpu, cur_task}
          /\ parent[t] = onCpu]_vars

LifeOf == [t \in Tasks |-> IF state[t] = "NOTASK" THEN "free"
                           ELSE IF state[t] = "ZOMBIE" THEN "done" ELSE "alive"]

Life == INSTANCE KThreads WITH life <- LifeOf, owner <- parent

\* Scheduling, sleeping and reaping together implement the thread interface
\* (KThreads): threads are created, end and are freed once, in that order.
ImplementsKThreads == Life!Spec

----------------------------------------------------------------------------
(* Fairness: a context that is given the CPU keeps it for a quantum, many  *)
(* instructions, so a step it can take again and again is taken (SF); IRQ0 *)
(* comes for ever.  Threads need not call anything, devices need not       *)
(* interrupt.                                                              *)

Fairness ==
    /\ WF_vars(Tick)
    /\ \A c \in Tasks : SF_vars(Step(c))

FairSpec == Spec /\ Fairness

\* A sleeper that wakeup() has made READY leaves sleep_on.
WakeupDelivered ==
    \A t \in Tasks :
        (state[t] = "READY" /\ \E a \in Addrs : wait_queues[a][t] > 0)
            ~> (pc[t] \in {"run", "wait"})

\* "puts the process that called it to sleep until the event represented by
\* sleep_addr become available" (wait.c), for kernel_thread_wait: nobody
\* sleeps for the end of a thread that has ended.
NoMissedExit ==
    \A t \in Tasks :
        pc[t] \in {"schedule", "woken"} /\ state[t] = "STOPPED" /\ child[t] # None
            => state[child[t]] # "ZOMBIE"

\* The same sentence, for what sleep_on leaves behind: a task that is
\* TASK_STOPPED is in a wait queue, where the event will find it.
StoppedIsQueued ==
    \A t \in Tasks : state[t] = "STOPPED" => \E a \in Addrs : wait_queues[a][t] > 0

\* "All process waiting for sleep_addr will be put in TASK_READY_TO_RUN
\* state" (wakeup, wait.c): a task that sleep_on has queued stays in the
\* queue until it begins to remove itself.
WaitersQueued ==
    \A t \in Tasks :
        pc[t] \in {"schedule", "woken"} \cup Window /\ addr[t] # None
            => wait_queues[addr[t]][t] > 0

\* The data structures of scheduler and threads stay whole: types, the
\* places of contexts, and the ring of tasks (clinkedl.c:67, 152) in both
\* directions.
Consistent == TypeOK /\ ControlInv /\ RingLinked /\ RingWhole
=============================================================================
