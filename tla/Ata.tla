-------------------------------- MODULE Ata --------------------------------
(***************************************************************************)
(* The primary bus of the ATA driver (drivers/block/ata_generic.c): the    *)
(* request queues of its two devices, the interrupt handler that serves    *)
(* them, and the processes that read and write blocks synchronously or     *)
(* asynchronously.  The secondary bus runs a copy of the same code.        *)
(*                                                                         *)
(* The drive is external: a read ends in one interrupt, after which its    *)
(* data can be fetched; a write ends in one and the cache flush behind it  *)
(* in another ("Flush cache will generate a IRQ, that shall be             *)
(* discarded"); interrupts arrive in the order of their causes.  The line  *)
(* is edge triggered: an interrupt raised while another is pending, as     *)
(* when write_hd_sector polls with interrupts off, may merge with it.      *)
(*                                                                         *)
(* Two variables are history: served[b], has the drive really done what    *)
(* was last asked for buffer b?, and spoiled, has something happened that  *)
(* the code does not cope with (memory ran out, the address is outside the *)
(* partition, the device is hdb, a queued write was started on a device    *)
(* that is not its own, a write failed, two interrupts merged)?            *)
(***************************************************************************)
EXTENDS Integers, Sequences, FiniteSets

CONSTANTS
    Procs,          \* processes and kernel threads
    Bufs,           \* buffers, each for a sector of its own
    SlaveBufs,      \* those of hdb; the others belong to hda
    BadBufs,        \* those whose address is outside their partition
    Ops,            \* the operations used: a subset of {"read", "write"}
    AllocOutcomes,  \* what kmalloc may do
    Answers,        \* how a drive may answer: a subset of AllAnswers
    None

\* Each interrupt by itself, two of them merged, a failed write.
AllAnswers == {"separate", "merged", "failed"}

ASSUME AtaAssumption ==
    /\ SlaveBufs \subseteq Bufs /\ BadBufs \subseteq Bufs
    /\ Ops \subseteq {"read", "write"}
    /\ AllocOutcomes \subseteq BOOLEAN
    /\ Answers \subseteq AllAnswers
    /\ None \notin Bufs

VARIABLES
    status,         \* status[b]: "UNLOCKED", "BUSY" or "VALID"
    blk_queue,      \* blk_queue[d], d \in 0 .. 1: sequence of [op, buf]
    discard_irq,    \* discard_irq[0]
    at, buf,        \* where each process is, and the buffer it waits for
    waking,         \* is the handler between its sti and its wakeup?
    drive,          \* [reading |-> buffer or None, ready |-> can its data be
                    \* fetched?, irqs |-> interrupts not yet delivered]
    fault,          \* the handler has followed a NULL queue
    served, spoiled

vars == <<status, blk_queue, discard_irq, at, buf, waking, drive, fault, served, spoiled>>

Dev(b) == IF b \in SlaveBufs THEN 1 ELSE 0

\* The buffers that the code can serve.
Good(b) == b \notin SlaveBufs \cup BadBufs

Idle == [reading |-> None, ready |-> FALSE, irqs |-> <<>>]

Init ==
    /\ status = [b \in Bufs |-> "UNLOCKED"]
    /\ blk_queue = [d \in 0 .. 1 |-> <<>>]
    /\ discard_irq = FALSE
    /\ at = [p \in Procs |-> "out"] /\ buf = [p \in Procs |-> None]
    /\ waking = FALSE
    /\ drive = Idle
    /\ fault = FALSE
    /\ served = [b \in Bufs |-> FALSE]
    /\ spoiled = FALSE

----------------------------------------------------------------------------
\* The drive v after read_hd_sector(b): the command is sent unless the
\* address cannot be translated; the callers ignore the result.
read_hd_sector(v, b) ==
    IF b \in BadBufs THEN v ELSE [v EXCEPT !.reading = b, !.ready = FALSE]

\* The interrupts of a write, by the drive's answer.  A merged pair is one
\* interrupt, or none if an earlier one is still pending.
WriteIrqs ==
    [separate |-> {<<"done", "flush">>}, merged |-> {<<"done">>, <<>>},
     failed |-> {<<"done">>, <<>>}]

\* What write_hd_sector may lead to on the request's own device, on the other
\* one of the bus and on none (it returns -1, which its callers ignore, as
\* they do after a failed command): the interrupts to come, whether the data
\* is written, and whether the code copes with it.
write_hd_sector(device) ==
    IF device = "none" THEN {[irqs |-> <<>>, written |-> FALSE, clean |-> FALSE]}
    ELSE UNION {{[irqs |-> q, written |-> device = "own" /\ a # "failed",
                  clean |-> device = "own" /\ a = "separate"] :
                    q \in WriteIrqs[a]} : a \in Answers}

\* bop->device of a queued request: write_async_ata_sector does not set it,
\* and kmalloc does not clear the memory.
QueuedDevice(r) == IF r.op = "read" THEN {"own"} ELSE {"own", "other", "none"}

\* Drive and history before a command, v and s, after it: the ways the
\* command of request r may go, sent to one of the devices.
Starts(v, s, r, devices) ==
    IF r.op = "read"
    THEN {[drive |-> read_hd_sector(v, r.buf), served |-> s, clean |-> TRUE]}
    ELSE {[drive |-> [v EXCEPT !.irqs = @ \o w.irqs],
           served |-> [s EXCEPT ![r.buf] = w.written], clean |-> w.clean] :
             w \in UNION {write_hd_sector(d) : d \in devices}}

\* No command is sent.
Waits(v, s) == {[drive |-> v, served |-> s, clean |-> TRUE]}

\* Mutants: the command is always sent at once, or the test is inverted.
MustStart_Always(q) == TRUE
MustStart_Inverted(q) == q # <<>>

\* if (blk_queue[dev] == NULL): "we can process this block now!"
MustStart(q) == q = <<>>

\* Mutant: llist_add is forgotten when the queue is not empty.
Queued_FirstOnly(q, r) == IF q = <<>> THEN <<r>> ELSE q

Queued(q, r) == Append(q, r)

\* The request is queued (llist_add, whose failure is ignored), and its
\* command is sent if the queue of its device was empty.
Enqueue(r) ==
    LET d == Dev(r.buf)
        s == [served EXCEPT ![r.buf] = FALSE]
    IN  \E ok \in AllocOutcomes,
           o \in IF MustStart(blk_queue[d]) THEN Starts(drive, s, r, {"own"})
                                            ELSE Waits(drive, s) :
          /\ blk_queue' = [blk_queue EXCEPT ![d] = IF ok THEN Queued(@, r) ELSE @]
          /\ drive' = o.drive
          /\ served' = o.served
          /\ spoiled' = (spoiled \/ ~ok \/ ~Good(r.buf) \/ ~o.clean)

\* {read,write}_async_ata_sector, from its cli to its sti, and the first part
\* of {read,write}_sync_ata_sector.  Buffers come from getblk: no other
\* process waits for b.  A partition cannot be written.
Request(p, b, op, sync) ==
    /\ ~fault
    /\ at[p] = "out"
    /\ status[b] # "BUSY" /\ \A q \in Procs : buf[q] # b
    /\ op = "write" => b \notin BadBufs
    /\ status' = [status EXCEPT ![b] = "BUSY"]
    /\ at' = [at EXCEPT ![p] = IF sync THEN "test" ELSE "out"]
    /\ buf' = [buf EXCEPT ![p] = IF sync THEN b ELSE None]
    /\ \/ TRUE \in AllocOutcomes /\ Enqueue([op |-> op, buf |-> b])
       \/ /\ FALSE \in AllocOutcomes
          /\ spoiled' = TRUE
          /\ UNCHANGED <<blk_queue, drive, served>>
    /\ UNCHANGED <<discard_irq, waking, fault>>

\* while(buf->status == BUFF_ST_BUSY), with interrupts on.
SyncTest(p) ==
    /\ at[p] = "test"
    /\ \/ /\ status[buf[p]] = "BUSY"
          /\ at' = [at EXCEPT ![p] = "sleep_on"]
          /\ UNCHANGED buf
       \/ /\ status[buf[p]] # "BUSY"
          /\ at' = [at EXCEPT ![p] = "out"]
          /\ buf' = [buf EXCEPT ![p] = None]
    /\ UNCHANGED <<status, blk_queue, discard_irq, waking, drive, fault, served, spoiled>>

\* sleep_on(WAIT_INT_IDE_PRI), its cli .. sti part.
SleepOn(p) ==
    /\ at[p] = "sleep_on"
    /\ at' = [at EXCEPT ![p] = "asleep"]
    /\ UNCHANGED <<status, blk_queue, discard_irq, buf, waking, drive, fault, served, spoiled>>

\* schedule() finds no other task to run and sleep_on returns.
SleepReturn(p) ==
    /\ at[p] = "asleep"
    /\ at' = [at EXCEPT ![p] = "test"]
    /\ UNCHANGED <<status, blk_queue, discard_irq, buf, waking, drive, fault, served, spoiled>>

----------------------------------------------------------------------------
\* The drive has read the sector; its interrupt may merge with a pending one.
DriveReady ==
    /\ drive.reading # None /\ ~drive.ready
    /\ \/ /\ drive' = [drive EXCEPT !.ready = TRUE, !.irqs = Append(@, "done")]
          /\ UNCHANGED spoiled
       \/ /\ "merged" \in Answers /\ drive.irqs # <<>>
          /\ drive' = [drive EXCEPT !.ready = TRUE]
          /\ spoiled' = TRUE
    /\ UNCHANGED <<status, blk_queue, discard_irq, at, buf, waking, fault, served>>

\* An interrupt reaches ata_handler1.  do_irq sends the EOI to the slave PIC
\* after the handler has returned, so the handler does not interrupt itself.
Delivered == ~fault /\ ~waking /\ drive.irqs # <<>>

\* Mutant: the flag stays set.
IrqDiscard_Sticky ==
    /\ Delivered /\ discard_irq
    /\ drive' = [drive EXCEPT !.irqs = Tail(@)]
    /\ UNCHANGED <<status, blk_queue, discard_irq, at, buf, waking, fault, served, spoiled>>

\* ata_handler1 when the interrupt is to be discarded.
IrqDiscard ==
    /\ Delivered /\ discard_irq
    /\ discard_irq' = FALSE
    /\ drive' = [drive EXCEPT !.irqs = Tail(@)]
    /\ UNCHANGED <<status, blk_queue, at, buf, waking, fault, served, spoiled>>

\* ata_handler1 with no request: blk_queue[0]->element of a NULL list.
IrqFault ==
    /\ Delivered /\ ~discard_irq
    /\ blk_queue[0] = <<>>
    /\ drive' = [drive EXCEPT !.irqs = Tail(@)]
    /\ fault' = TRUE
    /\ UNCHANGED <<status, blk_queue, discard_irq, at, buf, waking, served, spoiled>>

\* Mutant: the interrupt of the flush is not expected.
Finish_NoDiscard(r) ==
    /\ status' = [status EXCEPT ![r.buf] = "VALID"]
    /\ UNCHANGED discard_irq

\* The request r is done; after a write the next interrupt is discarded.
Finish(r) ==
    /\ status' = [status EXCEPT ![r.buf] = "VALID"]
    /\ discard_irq' = (r.op = "write")

\* ata_handler1 from the head of the queue to the sti: fetch the data of a
\* read, finish and remove the request, start the next one.
IrqServe ==
    LET r == Head(blk_queue[0])
        rest == Tail(blk_queue[0])
        v == IF r.op = "read" THEN [Idle EXCEPT !.irqs = Tail(drive.irqs)]
                              ELSE [drive EXCEPT !.irqs = Tail(@)]
        s == IF r.op = "read"
             THEN [served EXCEPT ![r.buf] = (drive.ready /\ drive.reading = r.buf)]
             ELSE served
    IN  /\ Delivered /\ ~discard_irq
        /\ blk_queue[0] # <<>>
        /\ Finish(r)
        /\ blk_queue' = [blk_queue EXCEPT ![0] = rest]
        /\ \E o \in IF rest = <<>> THEN Waits(v, s)
                     ELSE Starts(v, s, Head(rest), QueuedDevice(Head(rest))) :
              /\ drive' = o.drive
              /\ served' = o.served
              /\ spoiled' = (spoiled \/ ~o.clean)
        /\ waking' = TRUE
        /\ UNCHANGED <<at, buf, fault>>

\* wakeup(WAIT_INT_IDE_PRI)
IrqWakeup ==
    /\ waking
    /\ waking' = FALSE
    /\ at' = [p \in Procs |-> IF at[p] = "asleep" THEN "test" ELSE at[p]]
    /\ UNCHANGED <<status, blk_queue, discard_irq, buf, drive, fault, served, spoiled>>

Irq == IrqDiscard \/ IrqFault \/ IrqServe

Next ==
    \/ \E p \in Procs, b \in Bufs, op \in Ops, sync \in BOOLEAN : Request(p, b, op, sync)
    \/ \E p \in Procs : SyncTest(p) \/ SleepOn(p) \/ SleepReturn(p)
    \/ DriveReady
    \/ Irq
    \/ IrqWakeup

\* The drive answers, interrupts are delivered, and a process that can run
\* is scheduled.  Nothing makes sleep_on return before a wakeup.
Fairness ==
    /\ WF_vars(DriveReady) /\ WF_vars(Irq) /\ WF_vars(IrqWakeup)
    /\ \A p \in Procs : WF_vars(SyncTest(p)) /\ WF_vars(SleepOn(p))

Spec == Init /\ [][Next]_vars
LiveSpec == Spec /\ Fairness

----------------------------------------------------------------------------
\* Types of the queues, the bus, the drive and the history.
TypeOK ==
    /\ status \in [Bufs -> {"UNLOCKED", "BUSY", "VALID"}]
    /\ blk_queue \in [0 .. 1 -> Seq([op : {"read", "write"}, buf : Bufs])]
    /\ discard_irq \in BOOLEAN
    /\ at \in [Procs -> {"out", "test", "sleep_on", "asleep"}]
    /\ buf \in [Procs -> Bufs \cup {None}]
    /\ waking \in BOOLEAN
    /\ drive \in [reading : Bufs \cup {None}, ready : BOOLEAN, irqs : Seq({"done", "flush"})]
    /\ fault \in BOOLEAN
    /\ served \in [Bufs -> BOOLEAN]
    /\ spoiled \in BOOLEAN

\* A block is marked valid only after the drive has read that very sector
\* into it, or taken its data: no reply is taken for another request's, as
\* long as memory lasts, no write is started from the queue on a wrong device
\* or fails, and no two interrupts merge (ata_generic.c:738-773).
ValidIsServed == ~spoiled => \A b \in Bufs : status[b] = "VALID" => served[b]

\* The handler discards exactly the interrupts of flushes, under the same
\* conditions: requests may come, be queued and be started in any order.
DiscardsFlushes == ~spoiled =>
    (discard_irq <=> (drive.irqs # <<>> /\ Head(drive.irqs) = "flush"))

\* No interrupt finds the queue empty.
NoFault == ~spoiled => ~fault

\* Where block b is queued.
Places(b) == {i \in DOMAIN blk_queue[Dev(b)] : blk_queue[Dev(b)][i].buf = b}

\* A block is queued at most once and only while it is busy, even after
\* memory has run out or the handler has failed: the handler never finishes
\* a block that nobody waits for.
QueuedOnce == \A b \in Bufs :
    Cardinality(Places(b)) <= IF status[b] = "BUSY" THEN 1 ELSE 0

\* Every busy block is in the queue of its device.
BusyIsQueued == ~spoiled => \A b \in Bufs : status[b] = "BUSY" => Places(b) # {}

\* Every block that is asked for is done in the end, and every process that
\* waits for one returns: unless something happens that the code does not
\* cope with, or the wakeup comes between the process's test and its sleep
\* (ata_generic.c:923).
RequestsServed ==
    /\ \A b \in Bufs : (status[b] = "BUSY") ~> (status[b] # "BUSY" \/ spoiled)
    /\ \A p \in Procs : (at[p] # "out") ~>
          \/ at[p] = "out" \/ spoiled
          \/ at[p] = "asleep" /\ status[buf[p]] # "BUSY"

\* "This function will sleep until the write operation get done"
\* (write_sync_ata_sector): the block it waits for becomes valid only when
\* the data has been written to the block's device.
WriteIsDone == \A b \in Bufs : status[b] = "VALID" => served[b]

\* A block is on the queue of its device at most once and only while it is
\* busy, whatever has failed; until something has, every busy block is there
\* (ata_generic.c:884, 762).
QueueSound == TypeOK /\ QueuedOnce /\ BusyIsQueued
=============================================================================
