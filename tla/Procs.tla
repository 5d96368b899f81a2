------------------------------- MODULE Procs -------------------------------
(***************************************************************************)
(* Process identifiers and the creation of processes (kernel/fork.c).      *)
(* _exec_init is called by kernel_main_thread; _fork and release_pid are   *)
(* the interface kept for system calls that are still empty, and what      *)
(* calls release_pid is the environment of the model.  All of it runs in   *)
(* one thread.                                                             *)
(*                                                                         *)
(* A process is its PID and the memory blocks it owns; its registers and   *)
(* the copy of its stack are left out.  plost is history: processes whose  *)
(* entry in the ring of tasks was refused (c_llist_add returns 0 and       *)
(* nobody looks).  The two pages for the tables of a process are taken     *)
(* without a test and are not modelled.                                    *)
(***************************************************************************)
EXTENDS Integers, Sequences, FiniteSets

CONSTANTS
    MAX_NUM_PROCESS,
    PidW,               \* number of values of pid_st_top (2^32 in the code)
    ProcBlocks,         \* memory blocks: a finite set of numbers
    ProcPageSize, ProcTableSize,    \* bytes of a page, entries of a table
    ProcHeader,         \* sizeof(mregion)
    ProcFirst,          \* first pages where kmalloc put the image of init
    ProcSizes           \* and its sizes

ASSUME ProcsAssumption ==
    /\ MAX_NUM_PROCESS \in Nat \ {0} /\ PidW \in Nat /\ PidW > MAX_NUM_PROCESS
    /\ ProcPageSize \in Nat \ {0} /\ ProcTableSize \in Nat \ {0}
    /\ ProcHeader \in 0 .. ProcPageSize - 1
    /\ ProcFirst \subseteq Nat /\ ProcSizes \subseteq Nat

VARIABLES
    pid_stack, pid_st_top,
    ptasks,     \* the processes of the ring of tasks: set of [pid, blocks]
    plost,
    pheap,      \* the blocks in use
    pimage      \* init's pages: [first, size, ptable]

procVars == <<pid_stack, pid_st_top, ptasks, plost, pheap, pimage>>

KERNEL_PID == 0
INIT_PID == 1
NoImage == [first |-> 0, size |-> 0, ptable |-> <<>>]

\* p++ of the loop, and the skip of the first identifier that is reserved.
NextPid(p) ==
    LET q == p + 1 IN IF q \in {KERNEL_PID, INIT_PID} THEN q + 1 ELSE q

\* init_pids: p starts at KERNEL_PID and is skipped there once.
init_pids ==
    LET pid[i \in 0 .. MAX_NUM_PROCESS - 1] ==
            IF i = 0 THEN KERNEL_PID + 1 ELSE NextPid(pid[i - 1])
    IN  pid

ProcInit ==
    /\ pid_stack = init_pids
    /\ pid_st_top = MAX_NUM_PROCESS - 1
    /\ ptasks = {} /\ plost = {} /\ pheap = {}
    /\ pimage = NoImage

----------------------------------------------------------------------------
Procs == ptasks \cup plost

\* get_new_pid has no test for an empty stack; the index then wraps, and a
\* call before the next release would read outside of the array: bound, no
\* process is created then.
HasPid == pid_st_top < MAX_NUM_PROCESS

get_new_pid == pid_stack[pid_st_top]

PopPid == pid_st_top' = (pid_st_top - 1) % PidW

\* What _exec_init frees when kmalloc refuses the next of the task, its
\* stack and its page directory: everything it has got until then.
ExecFrees(got) == got

\* The walk over the kernel's page tables: <<index, ffpage>>.
NextEntry(at) ==
    IF at[2] + 1 >= ProcTableSize THEN <<at[1] + 1, 0>> ELSE <<at[1], at[2] + 1>>

\* Mutant: no page for the rest.
NPages_Floor(size) == size \div ProcPageSize

\* The header in front of init_data is not counted.
NPages(size) == size \div ProcPageSize + (IF size % ProcPageSize # 0 THEN 1 ELSE 0)

\* ptable[i]: the table and entry of the kernel that page i of init shares.
ImageTable(first, size) ==
    LET entry[i \in 0 .. NPages(size)] ==
            IF i = 0 THEN <<first \div ProcTableSize, first % ProcTableSize>>
                     ELSE NextEntry(entry[i - 1])
    IN  [i \in 1 .. NPages(size) |-> entry[i - 1]]

\* A new process enters the ring of tasks, or is lost if it has no memory
\* for the node.
AddTask(proc, linked) ==
    /\ ptasks' = IF linked THEN ptasks \cup {proc} ELSE ptasks
    /\ plost' = IF linked THEN plost ELSE plost \cup {proc}

\* _exec_init; got are the blocks that kmalloc gives.
_exec_init(got, linked, first, size) ==
    /\ HasPid
    /\ IF Cardinality(got) < 3
       THEN /\ pheap' = (pheap \cup got) \ ExecFrees(got)
            /\ UNCHANGED <<pid_st_top, ptasks, plost, pimage>>
       ELSE /\ pheap' = pheap \cup got
            /\ AddTask([pid |-> get_new_pid, blocks |-> got], linked)
            /\ PopPid
            /\ pimage' = [first |-> first, size |-> size, ptable |-> ImageTable(first, size)]
    /\ UNCHANGED pid_stack

\* _fork by process p: a task and a stack.  It would return 0, as in the
\* child, and keep the new process out of the ring, if p had its PID.
_fork(p, got, linked) ==
    /\ HasPid
    /\ IF Cardinality(got) < 2
       THEN pheap' = (pheap \cup got) \ ExecFrees(got) /\ UNCHANGED <<pid_st_top, ptasks, plost>>
       ELSE /\ pheap' = pheap \cup got
            /\ AddTask([pid |-> get_new_pid, blocks |-> got], linked /\ p.pid # get_new_pid)
            /\ PopPid
    /\ UNCHANGED <<pid_stack, pimage>>

\* Mutant: the top is moved after the store.
release_pid_Late(pid) ==
    /\ pid_stack' = [pid_stack EXCEPT ![pid_st_top % MAX_NUM_PROCESS] = pid]
    /\ pid_st_top' = (pid_st_top + 1) % PidW

release_pid(pid) ==
    /\ pid_stack' = [pid_stack EXCEPT ![(pid_st_top + 1) % PidW] = pid]
    /\ pid_st_top' = (pid_st_top + 1) % PidW

\* Environment: nothing calls release_pid yet (exit.c is empty).  It is called
\* here as its comment (fork.c:229) allows, with a PID that is allocated; the
\* process that had it leaves the ring and gives its memory back.
ProcessEnds(p) ==
    /\ ptasks' = ptasks \ {p}
    /\ pheap' = pheap \ p.blocks
    /\ release_pid(p.pid)
    /\ UNCHANGED <<plost, pimage>>

ProcNext ==
    \/ \E got \in SUBSET (ProcBlocks \ pheap), linked \in BOOLEAN :
         /\ Cardinality(got) <= 3
         /\ \E first \in ProcFirst, size \in ProcSizes : _exec_init(got, linked, first, size)
    \/ \E p \in ptasks, got \in SUBSET (ProcBlocks \ pheap), linked \in BOOLEAN :
         Cardinality(got) <= 2 /\ _fork(p, got, linked)
    \/ \E p \in ptasks : ProcessEnds(p)

ProcSpec == ProcInit /\ [][ProcNext]_procVars

----------------------------------------------------------------------------
ProcTypeOK ==
    /\ pid_stack \in [0 .. MAX_NUM_PROCESS - 1 -> Nat]
    /\ pid_st_top \in 0 .. MAX_NUM_PROCESS - 1 \cup {PidW - 1}
    /\ \A p \in Procs : p.pid \in Nat /\ p.blocks \subseteq ProcBlocks
    /\ pheap \subseteq ProcBlocks

Free == IF HasPid THEN 0 .. pid_st_top ELSE {}

\* Every identifier but the kernel's (fork.c:223, 233, 246) is in one place
\* at any time: on the stack once, or with one process.  So no two processes
\* have the same PID, however often the stack runs empty, and _fork never
\* takes the caller for the child.
PidsConserved ==
    /\ \A p, q \in Procs : p.pid = q.pid => p = q
    /\ \A i, j \in Free : pid_stack[i] = pid_stack[j] => i = j
    /\ {pid_stack[i] : i \in Free} \cap {p.pid : p \in Procs} = {}
    /\ {pid_stack[i] : i \in Free} \cup {p.pid : p \in Procs} = 1 .. MAX_NUM_PROCESS

\* Whichever allocation fails (fork.c:64, 71, 79), a block is in use exactly
\* if one process owns it.  What a process owns that was refused by the ring
\* of tasks is never given back.
ProcNoLeak ==
    /\ pheap = UNION {p.blocks : p \in Procs}
    /\ \A p, q \in Procs : p # q => p.blocks \cap q.blocks = {}

\* init sees its image (fork.c:118): byte b of it, which lies behind the
\* header of the block, is at its address also where the block goes on in
\* the next page table; only of the last ProcHeader bytes this cannot be
\* said, since the header is not counted in the number of pages.
ExecMapsImage ==
    \A b \in 0 .. pimage.size - 1 - ProcHeader :
        LET page == (ProcHeader + b) \div ProcPageSize
            kpage == pimage.first + page
        IN  /\ page + 1 \in DOMAIN pimage.ptable
            /\ pimage.ptable[page + 1] = <<kpage \div ProcTableSize, kpage % ProcTableSize>>

\* PIDs and memory have one owner each, whichever allocation fails and
\* however often the stack of PIDs (fork.c:225) runs empty.
ProcsSound == ProcTypeOK /\ PidsConserved /\ ProcNoLeak
=============================================================================
