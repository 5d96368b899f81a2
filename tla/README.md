# TempOS: a verification project

TempOS is a small uniprocessor kernel for x86 (`src/kernel`).  This directory
holds TLA+ models of the parts of it that are concurrent or stateful, the TLC
configurations that check small instances of them, and TLAPS proofs of their
main invariants for instances of every size.

Paths below are relative to `src/kernel`.

## 1. The system

### How the kernel runs

There is one processor.  Kernel threads and processes are preempted by the timer
interrupt when their quantum ends, and every device interrupt may come between
any two instructions executed with the interrupt flag on.  Interrupt and system
call gates clear the flag, so a handler runs without interruption unless it says
`sti` itself (`ata_handler1` does, before its `wakeup`).  The only other
protection in the code is `cli` .. `sti`, and `sti` is unconditional: a function
that ends in `sti` turns interrupts on whatever its caller had.  There are no
tests in the repository; what the code promises stands in its comments.

### Components

| component (sources) | state | operations | used by / uses |
|---|---|---|---|
| scheduler (`kernel/sched.c`, `arch/x86/kernel/task.c`, `arch/x86/task.S`) | circular list `tasks` with cursor `cur_task`, `task_t.state`, `arch_tss` of every task, `arch_tss_cur_task`, `sched_cnt` | `do_schedule`, `schedule`, `switch_to`, `task_switch_to` | called by the timer interrupt, `sleep_on`, `kernel_thread_exit` |
| wait queues (`kernel/wait.c`) | one linked list of tasks per sleep address | `sleep_on`, `wakeup` | ATA, keyboard, buffer cache, kernel threads |
| kernel threads (`kernel/thread.c`) | the control blocks and stacks | `kernel_thread_create`, `_exit`, `_wait` | `kernel_main_thread` |
| timer and alarms (`kernel/timer.c`, `jiffies.h`) | `jiffies` (32 bits), `alarm_queue` | `timer_handler`, `new_alarm` | delay loops, ATA timeouts, `do_schedule` |
| mutex (`lib/semaphore.c`, `arch/x86/kernel/atomic.c`) | an unsigned counter | `mutex_spin_down`, `mutex_up`, `mutex_is_locked` | `vfs_iget` asks `mutex_is_locked`; the others nobody yet |
| keyboard (`drivers/char/i8042.c`) | ring of characters, two positions, a counter | `keyboard_handler`, `kbc_read_from_buffer` | `sys_read` |
| ATA driver (`drivers/block/ata_generic.c`) | per device a queue of requests, `discard_irq` per bus, the status of each buffer | `{read,write}_{async,sync}_ata_sector`, `ata_handler1/2` | buffer cache, wait queues |
| lists (`lib/linkedl.c`, `lib/clinkedl.c`) | linked nodes | add, remove, remove_nth, nth, index, length | everything above |
| buffer cache (`fs/bhash.c`) | buffers, circular free list, hash queues | `getblk`, `brelse`, `bread`, `breada`, `bwrite` | VFS, ext2; uses the ATA driver |
| memory (`kernel/mm/*`, `arch/x86/mm/mm.c`) | stack of free pages, bitmap of virtual pages, page tables | `_vmalloc_`, `kfree`, `alloc_page`, `free_page` | everything |
| interrupts (`arch/x86/kernel/irq.c`) | per line a list of handlers and flags | `request_irq`, `do_irq` | drivers |
| processes (`kernel/fork.c`) | stack of PIDs | `_fork`, `_exec_init`, `get_new_pid` | system calls |
| VFS (`fs/vfs.c`, `namei.c`, `mount.c`) | i-node objects, their free list and hash table, mount table | `vfs_iget`, `vfs_bmap`, `vfs_namei`, `vfs_mount_root` | `kernel_main_thread`; uses ext2 |
| ext2 (`fs/ext2/ext2.c`) | block size, number of groups, first i-node table | `ext2_get_sb`, `ext2_get_inode`, `ext2_get_fs_block` | VFS; uses the buffer cache |
| partitions and devices (`fs/partition.c`, `fs/devices.c`) | partition and driver tables | `parse_mbr`, `translate_part_address`, `register_block_driver` | ATA driver |
| kernel start (`kernel/kernel.c`, `arch/x86/boot/karch.c`, `kernel/cmdline.c`) | what the boot loader told, the arguments | `karch`, `tempos_main`, `kernel_main_thread`, `parse_cmdline` | everything |
| output and text (`arch/x86/boot/video.c`, `lib/printf.c`, `lib/string.c`) | screen and cursor, `strtok`'s position | `kprint`, `vsprintf`, `strtok_r`, `atoi` | everything |

`PROJECT.json` lists all parts with the reason why they are or are not modelled.
File system, buffer cache and process creation are used by one thread only,
`kernel_main_thread`: what is concurrent there is the ATA driver underneath.

### What is hard here

* `schedule()` is called both with interrupts on (voluntarily) and off (by the
  timer), and the switch itself is several assignments long.
* A condition is tested with interrupts on, and `sleep_on` disables them later; it
  leaves its queue with interrupts on, too, if no other task could run.
* `sleep_on` may return without the event, because `schedule()` looks at one ring
  neighbour only and returns when that one cannot run.
* `kmalloc` may fail in the middle of most operations; the failure of a list
  insertion is nowhere tested.
* `jiffies`, `sched_cnt` and the mutex are unsigned and wrap.
* A disk write causes two interrupts, one of which has to be ignored, and which may
  become one on their way.
* Memory from `kmalloc` is not cleared; some of it is read before it is written.
* Handlers may enable interrupts, so that they nest, while the end of an interrupt
  is reported to the controller without the number of its line.
* Two lists are threaded through every buffer header, and the start of the kernel
  waits for devices with a clock that an interrupt drives.
* Numbers come from outside: partition tables, disk sizes, memory maps, file
  system geometry, the command line.

`PROJECT.json`, "hazards", lists each of these at the line where it bites, with
the properties that watch over it.

### What makes each component correct

* scheduler: each task always resumes on its own stack; one task is running; the
  ring stays whole; a zombie never runs again; a ready sleeper gets back.
* wait queues: a queue holds living sleepers only; no event is missed.
* threads: created, ended and freed once, in that order; freed memory is
  unreachable.
* timer: a quantum ends in bounded time; each alarm fires once, on time.
* mutex: no operation lost; someone gets in.
* keyboard: no key lost or out of order; no access outside the ring.
* ATA: every request is answered once, by the reply to its own command.
* buffer cache: one buffer per block; a buffer is held or free, never both.
* memory: a page has one owner; what is freed can be allocated again.
* interrupts: an exclusive handler stays alone; the controller's idea of what is in
  service is that of the kernel.
* VFS and ext2: a path leads to its file, a number to its i-node, an i-node to the
  sectors that hold it and its blocks.
* partitions: the two passes agree; an address stays inside its partition.
* processes: a PID belongs to one process; nothing leaks when memory runs out.
* start: only free memory is handed out; every wait ends.

## 2. Modules

| module | models | extended by |
|---|---|---|
| `Sched` | scheduler, context switch, wait queues, kernel threads | `MCSched`, `SchedProofs` |
| `KThreads` | abstract life cycle of kernel threads, which `Sched` implements | |
| `Timer` | `timer_handler`, `new_alarm`, the quantum of `do_schedule` | `MCTimer`, `TimerProofs` |
| `Mutex` | mutex operations, one step per instruction | `MCParts`, `LibProofs` |
| `Keyboard` | ring of the keyboard driver with one reader | `MCParts`, `ConsoleProofs` |
| `Ata` | primary bus of the ATA driver, its drive, its users | `AtaProofs` |
| `Memory` | page stack, bitmap of virtual pages, `_vmalloc_`, `kfree` | `MCParts`, `MemoryProofs` |
| `Residues` | lemmas on `%` for the wrapping counters, on induction and on loops written as recursive functions | the modules of proofs |
| `BufferCache` (with `Walks`, the loops over linked structures) | hash queues and free list of `fs/bhash.c`, `bread`, `brelse`, and the reads of the kernel's mount | `MCBuffers`, `MCParts`, `LibProofs` |
| `Vfs` | i-node cache, `vfs_mount_root`, `vfs_namei`, `mutex_is_locked` | `MCVfs`, `MCParts`, `BootProofs` |
| `Ext2` | `ext2_get_sb`, `ext2_get_inode`, `vfs_bmap`, the loading of init | `MCParts`, `BootProofs` |
| `Partition` | `parse_mbr`, `translate_part_address` | `MCParts`, `LibProofs` |
| `AtaProbe` | detection of disks, `get_dev_info`, driver registration | `MCParts`, `AtaProofs` |
| `Irq` | `request_irq`, `do_irq`, the two interrupt controllers | `MCParts`, `BootProofs` |
| `Lists` | `lib/linkedl.c` and `lib/clinkedl.c` on a heap of nodes | `MCParts`, `LibProofs` |
| `Procs` | PID stack, `_exec_init`, `_fork` | `MCParts`, `MemoryProofs` |
| `Text` | `numtostr`, `atoi`, `parse_cmdline`, the root argument, `strtok_r` | `MCParts`, `ConsoleProofs` |
| `Console` | `kprint`, `writechar`, `scroll_screen` | `MCParts`, `ConsoleProofs` |
| `Boot` | `karch`, `init_pg`'s page stack, `tempos_main`, `kernel_main_thread` | `MCParts`, `BootProofs` |

A module of proofs may hold those of several components: `LibProofs` has the mutex,
the lists, the buffer cache and the partition table, `ConsoleProofs` keyboard, screen
and text functions, `MemoryProofs` pages and processes, `AtaProofs` the driver and the
probing of drives, `BootProofs` interrupts, start, VFS and ext2.

### Sched

A task is a control block plus the context (stack) that belongs to it.  `onCpu` is
the context the processor executes, `saved[t]` the context whose stack pointer
lies in the `arch_tss` of `t`; the C code assigns both through pointers, so that
they *could* be mixed up.  `pc[c]` is the place of context `c` inside the
operations.  An operation is split where an interruption can make a difference, and
each stretch between two such places is one action:
`SleepOn`/`SleepEnqueue`/`SleepUnlink`/`SleepReturn` for `sleep_on`;
`SchedulePick`, `SwitchMark`, `SwitchCommit`, `SwitchLoad` for a voluntary
`schedule()`; `Tick` for the whole of it when the timer calls it.  The ring is
`next`/`prev`, changed by `RingAdd` and `RingRemove` as `c_llist_add` and
`c_llist_remove` do.  A wait queue is a bag of tasks, since the code could queue a
task twice.  `wakeup` makes tasks ready but its `llist_remove` removes nothing
(it passes the node where the element is compared); the sleeper dequeues itself.

The initial state is the one after `kernel_main_thread` has created
`idle_thread`, which is its first statement: these two never leave the ring.

Two stretches leave shared state half changed with interrupts on: a voluntary
switch between the choice of a task and the `cli` of `task_switch_to`
(`"mark"`, `"commit"`, `"load"`), and the `llist_remove` at the end of `sleep_on`
(`"unlink"`).  The second one is exposed only if `schedule()` has returned without a
switch: after one, the task resumes with interrupts off, for `task_switch_to`
executes its `cli` before it saves the flags.  `SleepUnlink` reads the queue into
`seen`, and `SleepReturn` writes it back: what others have done to the same queue in
between may be undone, node by node.  `OpenWindow` is the set of those places where a
quantum may end.  The runs `sched_window` and `sched_unlink` show what breaks when it
does: contexts are mixed up, and a thread that has just queued itself is dropped
from its queue.  `sched_boot` keeps `"unlink"` open, which does no harm to main and
idle, since idle never sleeps.  The other results about `Sched` are for
`OpenWindow = {}`: they tell what else can and cannot go wrong.

### Timer

The interrupt handler walks the alarm queue one iteration per step, with the
code's own position counter `pos` next to the node the walk stands on: the two
differ after a removal.  `left`, `before`, `due` and `ran` are history variables
that record the true time to each alarm and what a tick did.  `time_after` is
the code's sign test of a wrapping difference.  In C the subtraction overflows;
the build uses no optimisation (`Makefile`), and what it then computes is the
wrapped value.  An alarm may be late: its caller by at most `MaxLate` ticks, and once
queued by one tick more for each alarm before it, since a tick removes at least the
first alarm that is due.  `TimerAssumption` asks that this total, like every delay,
stays below half the clock's range, where the sign test is right.

### Mutex

One action per instruction of `atomic_spin_down` that the timer can separate from
the next; `M` is the number of values of a `sem_t`.  Two threads can be inside at
once: interrupts are on between the load and the decrement.  No code of the
kernel takes or releases a mutex yet, so no run claims otherwise.  `mutex_is_locked`
is called, by `vfs_iget`, and is part of `Vfs`.

### Keyboard

The key typed as the i-th is the number i.  The ring has one slot more than the
array, for the byte behind its end that the reader may touch.  `got` is the set of
keys that the reader has returned, `early` records whether `sleep_on` ever returned
without a key and `overrun` whether a key that was not read was overwritten.
`KeysDelivered` is about the keys themselves, in every lap.

### Ata

`Request` is the part of `read_async_ata_sector` and `write_async_ata_sector`
between `cli` and `sti`; the synchronous versions go on with `SyncTest` and
`sleep_on`.  `IrqDiscard`, `IrqServe` and `IrqFault` are the ways through
`ata_handler1` up to its `sti`, `IrqWakeup` what follows.  The drive and the
interrupt controller are external, modelled from how the driver uses them: a read
command ends in one interrupt, a write in one and its cache flush in another, in
that order; `do_irq` acknowledges the slave controller after the handler has
returned, so the handler is not interrupted by its own line.  `Answers` says how
drive and controller may answer a write: with two interrupts, with one in their
place (the line is edge triggered, and `write_hd_sector` waits with interrupts off
until the flush is over; a completion may merge with a pending interrupt in the same
way), or with an error, upon which `write_hd_sector` returns -1 and its callers go
on.  A write that waits in the queue carries no device number: `QueuedDevice` is what
the memory of the request may hold, the right device, the other one of the bus or
none.  `served` and `spoiled` are history: has the drive done what was last asked for
a buffer, and has something happened that the code does not cope with (memory
exhausted, an address outside the partition, the second device of the bus, whose
queue the handler never reads, a queued write started elsewhere than on its own
device, a failed write, merged interrupts)?  The run `ata_device` shows what the
missing device number leads to.  The secondary bus is a copy of the same code.

### Memory

`Kmalloc` is `_vmalloc_` when `alloc_page` never fails, `KmallocFails` the same call
when it does, `Kfree` the whole of `kfree`.  A call runs to its end before the
next: the code has no lock; after the start only one thread allocates.
The stack of pages has `stack_max_top` words, of which `init_pg` fills the first
`Phys`; `alloc_page` ends at `stack_max_top`, and the words between, never written,
are `Unfilled`.  Handing one out sets `spoiled`; whatever `Unfilled` names belongs to
nobody the model knows.
The model keeps what the code does to its own accounting: one page more than
needed is mapped and marked; the index into a table runs one entry too far,
so the first entry of the next table is written twice; a failing call gives
pages back from the entry that it had not yet filled, and leaves the bits set;
`kfree` walks the table downwards from the first page, so a region of several
pages gives back its lower neighbours' pages (`spoiled`), loops for ever when
the region begins at the start of a table (`hung`), and `bmap_off` sets bits
instead of clearing one.  `Stale` counts the entries behind the kernel's pages
that `init_pg` leaves mapped to the kernel's own memory.  A call that fails before it
has written over them gives back pages of the kernel; from then on, as after the
freeing of several pages, a page on the stack may be in use, and `spoiled` says so.

### BufferCache

One queue with all its pointers (`prev`, `next`, `free_prev`, `free_next`,
`hashtable`).  The result of an action is that of the code's assignments in their
order, which matters where two of the nodes concerned are the same: a header put
behind itself in a chain is linked to itself.  `Bread` is `getblk`
and the synchronous read, `Brelse` is `brelse`.  Two kinds of callers are modelled
(`bkernel`): the kernel's mount, which reads the super block in `check_is_ext2` and
again in `ext2_get_sb`, where it holds it together with the sector behind it, and then
reads one block at a time; and any thread with up to `BufMaxHeld` blocks.  A walk that does not end sets
`bhung`.  The loops are `Trail` of `Walks`, a recursive function of the number of
turns, and so is `Unhash`, the loop that changes the chain it walks.  The first lookup
that succeeds damages the free list (`buffer_hit`).  `BufRingUntilHit` says what holds
before it.  `BufRightBlock`, that a held block has the sector it was asked for, holds
for the mount also after its hit, and for any thread until its first one.  `bwrite` and `breada` have no
callers and are left out.

### Vfs, Ext2, Partition, AtaProbe

`Vfs` keeps the i-node objects (`vnode`), the hash table and the free list; `Tree` is
the disk, a sequence of directory blocks for each directory.  `NameiTurn` is one turn
of the loop over the characters of a path, `FindTurn` one of the loop over the blocks
of a directory; each search reads any number of blocks, since `get_fs_block` may run
out of memory and then ends it.  The lock word of an i-node object is never written by
the code, so `vlocked` is any set of objects from the start; `vfs_iget` falls asleep
for ever on a found object that looks locked.  `vfs_mount_root` goes on after a failed
`get_sb`, and the first call through the empty super block leaves what the model can
follow.  `vstop` tells how a behaviour has ended: panic, asleep, wild.  `Ext2` describes the disk by its geometry, from which `TableBlock`
says where the format puts a group's i-node table; `einode` and `efile` are what the
driver reads, `emount` whether the super block could be read. `Partition` runs the whole of `parse_mbr` on a disk, whose chain of EBRs
is a walk of `Walks` (`NextEbr`), `AtaProbe` one turn of the loop over the four
devices per step; `Half` is the half of a word's range from which the code takes it
for negative.  All of it is sequential code over enumerated disks; a property compares
its result with what the layout means.

### Irq

`istack` holds the `do_irq` calls in progress.  The code initialises the master
controller twice and the slave's last word not at all: the master ends
interrupts by itself, the slave waits for the end that `do_irq` sends.  A handler
may return with interrupts on, and then be interrupted by any line that the slave
lets pass.

### Lists, Procs, Text, Console

`Lists` performs the two libraries' operations on a heap of nodes next to plain
sequences, with the loops of `Walks`.  `Procs` has the PID stack with its unsigned
top, the creation of processes with an allocation failing at each place, and the
page table of init; that a process ends and its PID is released is assumed of the
environment (`ProcessEnds`), as `exit.c` is still empty and `release_pid` has no
caller.  A PID is asked for only while there is one (`HasPid`, a bound: the code reads
behind the array otherwise).  `Text` is a set of functions over character codes, each loop a
recursive function of its turns (`ParseTurn`, `TokenTurn`); its behaviours do nothing
but choose an input.  `parse_cmdline` stores its arguments as far as the line goes,
`CMDLINE_MAX_ARGS` or not, and a root argument that does not fit `rdev_str`
(`RdevSize`), or is missing, so that the string at address 0 is taken, ends in
`Overrun` when it is too long.  `Console` prints character by character
on a small screen and remembers all that was printed.

### Boot

`bpc` is the next call of the start, in the order of `BootSteps`.  The only clock
is the timer interrupt (`BootTick`), which needs the interrupt flag and the
handler that `init_timer` registers; `bleft` is what remains of the wait in
progress.  `StackPages` computes the stack of free pages from the boot loader's
memory map, with the `Unwritten` words up to `stack_max_top`.  Mounting the root and
loading init read from the disk and wait in `sleep_on` without a timeout
(`DiskPart`): nothing makes them go on but the drive.  `BootPages` is about maps as a PC has them (`PlainMap`): no byte is in two
regions, or the code would hand out its page twice.

## 3. Runs

| run | expects | shows |
|---|---|---|
| `sched_core` | pass | contexts, ring and queues stay sound; the thread interface is implemented; zombies stay dead; reaping is safe |
| `sched_boot` | pass | with main and idle only, no sleeper is stranded and a wakeup always brings it back |
| `sched_window` | violation | a tick inside a voluntary switch stores a context in the wrong task (`task.c:164`) |
| `sched_missed_exit` | violation | `kernel_thread_wait` can sleep for a thread that has ended (`thread.c:106`) |
| `sched_unlink` | violation | a tick inside `sleep_on`'s `llist_remove` drops another sleeper from the queue (`wait.c:70`) |
| `timer_wrap` | pass | quanta end, single alarms are exact, across wraps of the clock |
| `timer_two_due` | violation | two alarms due on one tick are not both removed (`timer.c:91`) |
| `ata_core` | pass | replies go to their own requests; flushes are told from completions; every request is done |
| `ata_device` | violation | a queued write is started on a device that nobody named (`ata_generic.c:988`) |
| `kernel_parts` | pass | the properties of `Mutex`, `Keyboard`, `Memory`, `BufferCache`, `Vfs`, `Irq`, `Lists`, `Procs`, `Partition`, `Ext2`, `Text`, `Console`, `AtaProbe` and `Boot` |
| `buffer_hit` | violation | a block found in the cache stays on the free list while it is held (`bhash.c:160`) |
| `inode_alias` | violation | a path leads to another file, whose i-node is in the same bucket (`vfs.c:191`) |

`kernel_parts` is one run for parts that share no state.  The variable `focus`
is chosen at the beginning and names the part that moves; the others keep one of
their initial states.  An interleaving of several parts would reach the product
of their states and show nothing more about any of them.

What the properties of `kernel_parts` say:

* `Conserved`, `SomeoneEnters`: no down or up of a mutex is lost, and some waiting
  thread gets in.
* `Accounted`, `NoOverflow`, `KeysSound`, `KeysDelivered`: positions
  and counter of the keyboard ring agree over many laps and the handler stays inside the
  array; keys arrive in order in the first lap; without an early return or an overrun each
  key itself reaches the reader.
* `RegionsSound`, `RegionStable`: regions in use stay disjoint and mapped, across table
  boundaries, exhausted memory and the freeing of other regions, and theirs alone until
  `spoiled`.
* `BufRightBlock`, `BufListsSound`: the mount and other callers are given the sectors
  they ask for; the free list is whole until the first hit.
* `VfsRight`: paths lead to their files, or to none if a block was not read; no i-node
  is lost or doubled.
* `IrqExclusive`, `IrqInService`: see the proofs.
* `ListsAreSequences`: nodes on the heap and sequence agree after any operations,
  and index, n-th element and length give what the sequence says.
* `ProcsSound`: every PID is free or with one process (`PidsConserved`), every block
  in use has one owner (`ProcNoLeak`).  `ExecMapsImage`: init finds its image
  mapped, across the end of a page table.
* `PartitionRight`: the second pass over the disk fills the table the first one
  counted (`PartFilled`), numbers are distinct (`PartNumbers`), an address in any
  partition, up to its length, is counted from the start of this one and a larger one
  refused (`PartInside`).
* `Ext2Right`: i-nodes and files are read where they are (`Ext2InodeRight`,
  `InitLoaded`).
* `TextRight`: the text functions against their definitions (`TextNumbers`,
  `TextCmdline`, `TextRoot`, `TextTokens`).  `ConsoleShows`: the screen
  shows the last lines printed.
* `ProbeSound`: disks are recognised with their size (`ProbeRight`), and drivers
  registered for the right buses (`ProbeDrivers`).
* `BootSound`: only free pages are put on the stack, each once (`BootPages`); nothing
  waits without a clock (`BootClocked`).  `BootCompletes`: once the timer runs, the
  start comes to its end or to the first read from the disk though no device answers,
  and to its end if these reads come back.

The invariants of all modules are built from named parts:
`Consistent` of `Sched` (`TypeOK`, `ControlInv`, `RingLinked`, `RingWhole`),
`AlarmsSound` of `Timer` (`SingleAlarmExact`), `KeysSound` of `Keyboard`
(`KeysInOrder`), `BufListsSound` of `BufferCache` (`BufRingUntilHit`), `VfsRight` of `Vfs`
(`VfsNameiRight`, with `VfsFoundIsNamed`, and `VfsCacheWhole`), `QueueSound` of `Ata` (`QueuedOnce`, `BusyIsQueued`), `RegionsSound` of
`Memory` (`Disjoint`, `Owned`), each with the module's types.

Bounds, and why they are enough:

* `sched_core`: main, idle and two threads.  Two threads give every combination of
  creator, waiter, sleeper, runner and zombie on the ring; ring operations at the
  head, in the middle and at the end all happen.  One event, since addresses do
  not interact.  `kmalloc` may fail at every call.  The control blocks of the two
  threads are symmetric.
* `sched_boot`: main and idle, the configuration in which the kernel waits for
  its disk at boot, with six sleep addresses, one for each user of `sleep_on`; a
  quantum may end inside `llist_remove`.
* `sched_window`, `sched_missed_exit`, `sched_unlink`: one thread besides main and idle
  is enough to be the other party.
* `timer_wrap`: a clock of 16 values wraps every few quanta; three alarms are one
  more than is needed for a removal to disturb a neighbour; a caller may be
  delayed two ticks beyond the expiry it asked for.
* `ata_core`: two processes, two good blocks, one bad one, reads and writes,
  synchronous and not, `kmalloc` failing, every answer of the drive.  `ata_device`
  has writes only, and nothing fails.
* `kernel_parts`, keyboard: three slots, nine keys, at most five unread: three laps,
  with overrun.
* `kernel_parts`, memory: six physical pages on a stack of seven words, tables of four
  entries, regions of one and of three pages, seven stale entries, one more than there
  are physical pages: a region crosses the end of a table and fills entries behind the
  one written twice, which is what the extra page is needed for; memory runs out, at the
  end of the pages and at that of the stack, at every point of a call.  Twenty-eight
  virtual pages (`Virt`) bound the run; freed virtual pages are never usable again, so
  that every behaviour ends there.
* `kernel_parts`, buffers: three buffer headers, the least with which the mount can hold
  two blocks, for five sectors, three of which share a bucket and two an address on
  different devices; a thread that is not the mount is followed to its first hit
  (`MCUntilHit`), behind which only types are claimed for it.
* `kernel_parts`, paths: four i-node objects for the five numbers in use, more buckets
  than numbers (fewer in `inode_alias`), twelve paths with slashes twice and at the end,
  a directory that holds itself and names that are not there, one object at a time whose
  lock word looks taken, every number of blocks read.
* `kernel_parts`, the others: four threads and four values, so that the mutex wraps below
  zero and up again; one line of the master and
  two of the slave, nested three deep; three list nodes; two PIDs and five blocks of
  memory; images that need one, two and three pages, from both entries of a table;
  disks with up to two EBRs, also a chain that names itself; geometries of both
  revisions, three block sizes and up to five groups; all command lines up to four
  characters and lines of three words, with room for four arguments; root arguments of
  up to ten characters, one more than fit; a screen of two by two; words of eight values
  for the sizes of disks; memory maps with regions below, at and above the kernel,
  unaligned, smaller than the kernel, and more than the table holds.

Fairness:

* `FairSpec` of `Sched`: the timer interrupt comes for ever (weak), and a context
  that gets the processor executes some instructions before it is preempted
  (strong, on the steps of an operation already begun): a quantum is many
  instructions long.  Threads need not begin anything; devices need not interrupt.
* `Mutex`: threads are scheduled again and again, and a holder releases.
* `Boot`: the processor goes on and the timer ticks; no device need answer, and no read
  from the disk need come back (`BootCompletes` says what follows if it does).
* `Keyboard`: the reader goes on when it can, and reads again; `sleep_on` need not
  return early.
* `Ata`: the drive answers, interrupts are delivered, processes are scheduled;
  `sleep_on` need not return early.

Deadlock checking is off where the system really may stop: a keyboard on which
nobody types any more, a bus whose handler has failed or whose reader has missed
its wakeup, a thread that waits for an exit it has missed, an address space that is
used up, a start that has ended or panicked.

## 4. Proofs

| theorem | module | for every |
|---|---|---|
| `SchedTypes`, `SchedConsistent`, `ContextsIntact`, `SingleRunning`, `QueuesExact`, `NoUseAfterFree`, `ZombiesStayDead`, `ReapsAreSafe`, `SchedImplementsKThreads` | `SchedProofs` | set of tasks and of sleep addresses, `kmalloc` failing or not; `OpenWindow = {}` |
| `StoppedStaysQueued` | `SchedProofs` | set of sleep addresses; main and idle only, as while the kernel waits for its disk, memory not exhausted, `OpenWindow = {}` |
| `QuantumAlwaysEnds`, `TimerAlarmsSound` | `TimerProofs` | even number of clock values, quantum and delays shorter than half of it, set of alarms |
| `MutexConserved` | `LibProofs` | number of threads, width of the mutex |
| `ListsKeepSequences` | `LibProofs` | number of nodes, set of elements |
| `BufferListsHold` | `LibProofs` | number of headers and of blocks held, set of sectors; up to the first lookup that succeeds |
| `BufferGivesSector` | `LibProofs` | number of headers from 3 on, set of sectors without sector 0 of device 0; the kernel's mount throughout, other callers up to their first hit |
| `PartitionTableRight` | `LibProofs` | disk whose extended entries lead to EBRs, with one extended partition at most |
| `RingAccounted`, `WritesInside`, `KeyboardKeysSound` | `ConsoleProofs` | size of the ring, number of keys |
| `ConsoleShowsText` | `ConsoleProofs` | size of the screen, text |
| `TextsRight` | `ConsoleProofs` | number (a negative one with the flag for its sign), command line of fewer words than `CMDLINE_MAX_ARGS` and keys, root argument that fits its copy, string and delimiters |
| `AtaValidIsServed`, `AtaDiscardsFlushes`, `AtaNoFault`, `AtaQueueSound` | `AtaProofs` | set of processes and blocks, operations and answers of the drive |
| `ProbingSound` | `AtaProofs` | four devices, width of a word, registration failing or not |
| `MemoryRegionsSound`, `MemoryRegionStable` | `MemoryProofs` | amount of memory, size of the page stack, of pages, tables and the bitmap's bytes, sizes asked for, number of stale entries |
| `ProcsOneOwner`, `ExecMapsAll` | `MemoryProofs` | number of PIDs, amount of memory; place and size of the image, size of pages and tables |
| `ExclusiveStaysAlone`, `IdsDistinct`, `EndsMatchService` | `BootProofs` | set of lines among 0 .. 15, number of handlers, depth of nesting, `kmalloc` failing or not |
| `BootHandsOver` | `BootProofs` | memory map, place and size of the kernel, size of a page, length of the waits, size of the page stack |
| `InodesKept` | `BootProofs` | tree, set of paths, number of i-node objects and of buckets, lock words, blocks read |
| `PathsLeadToFiles` | `BootProofs` | the same, for trees that are `TreeGood` |
| `Ext2ReadsRight` | `BootProofs` | geometry with blocks of 1, 2 or 4 KB, length of files, width of addresses |

How the arguments go:

* `SchedProofs`: the inductive invariant `IInv` is the conjunction of types,
  `ControlInv` (how a context's place, its locals and its task's state go
  together), `ContextIntegrity`, `OneRunning`, `SleepersQueued` and `RingLinked`.
  None is inductive alone: that a task chosen by `schedule()` is still runnable
  when it is loaded needs `ControlInv`; that `wakeup` wakes no zombie needs
  `SleepersQueued`; that a reaped thread is not the current one needs both and
  the ring.  One lemma per action.  The refinement of `KThreads` maps
  `TASK_ZOMBIE` to done and unallocated to free.  `RingWhole` (in `Consistent`) says
  that a set which contains main and is closed under `next` contains the whole
  ring; a step that changes the ring turns such a set of the new ring into one of
  the old.  That `llist_remove` writes back the queue as it is needs the closed window:
  nobody has run since it was read.  `StoppedIsQueued` needs `TwoThreads`: main's neighbour is idle, which can
  always run, so that `schedule()` never returns to main before its event.
* `TimerProofs`: the distance `sched_cnt - jiffies` modulo the clock's range stays
  between 0 and the quantum; the lemmas of `Residues` reduce the wrapping
  comparison to that distance.  For the alarms, `AlarmInv` describes the middle of
  the walk: before the first removal the position counter is right (`Untouched`),
  after it the counter runs ahead and alarms have moved up (`Touched`).  `Patience`
  is the bound on lateness above; without it the sign test could fail.
* `LibProofs`: mutex value plus number of threads inside is 1 modulo the width.  The
  lists: there is a sequence of nodes that are linked one to the next and hold the
  elements (`Linear`, `Circular`); what the loops visit on such nodes is that
  sequence (`TrailIs`), by induction on the turns of the loop.
* `LibProofs`, the buffer cache: `BufInv` says that there is a sequence of headers along
  which the free list is linked both ways (`FreeRing`), and that it holds exactly those
  not held (`Rest`).  Of the hash chains it says nothing but their types: a hit, and
  the reuse of a header, leave them wrong.  That `bread` gives the right sector does not
  need them: a header that has a key holds the sector of that key (`BufDataInv`), and
  `search_blk` returns only headers whose key it has compared.  That a held header is not
  given to another sector needs the ring, which a thread has until its first hit.  The
  mount takes its second block after a hit: until then only header 1 has a key, and the
  free list begins with another header, of at least three (`OneLoaded`, `BufMount`);
  from then on it holds one block at a time.
* `LibProofs`, the partition table: an entry of the MBR gives itself and, if extended,
  the numbers from 5 on, one for each EBR of the chain that both passes walk
  (`NumbersOf`); there is one extended entry, so the numbers differ.
* `ConsoleProofs`: write position minus read position minus counter is 0 modulo
  the size, up to the reader's step between its two updates.  Keys are in order
  during the first lap because slot i holds key i + 1 (`FirstLap`).  The screen:
  `ConInv` adds the row below the screen, which a scroll brings up and must find
  blank, and the place of the cursor, to what `ConsoleShows` says.
* `ConsoleProofs`, the text: that the digits of a number are worth it is shown by
  induction over the division (`DescentExists`).  `strtok_r`: after each call the position is not inside a
  word and the words before it have been returned, each at its rank.  The command
  line: `ParseInv` says that the arguments hold keys and values of words in the order
  of the line, that every word with "=" before the current one has its argument
  (`ArgsInv`), and that the loop stands in the current word or behind the line
  (`PlaceInv`); the first argument whose key compares equal is then that of the first
  word.  `WordsInv` counts the words begun, so that no argument lies behind the array.
* `AtaProofs`: `BusOK` ties the drive and its undelivered interrupts to the head
  of the queue: an idle queue leaves at most a flush, a read has its completion
  outstanding, a write its completion and a flush, all behind the flush that
  `discard_irq` stands for.  Together with "queued blocks are busy, distinct and
  usable" it is inductive as long as nothing has happened that `spoiled` records.
  `QueueInv`, about both queues, also holds afterwards.  The probing: `ProbeInv` says of
  the devices before `anext` what `ProbeRight` says; where each field of the answer is
  found follows from the sums of the lengths in `Layout`.
* `MemoryProofs`: bits are only ever set, and a region begins right behind a page
  whose bit is set (first fit).  So a mapped page and the one before it are marked
  (`RegionsMarked`, `MappedMarked`), and the page that is mapped in excess behind a
  region is never another region's.  That a page has one owner needs `StackClean`:
  no page is on the stack twice, and none of the kernel's; only zeros and words that
  were never written are.  For the processes it
  is enough that none is both in the ring of tasks and lost.  What `_exec_init` maps
  is a recursive function of the number of entries, computed by induction.
* `BootProofs`: `IrqExclusive` needs `FlagClear`, that the shared flag is off wherever
  an exclusive handler is; `IrqInService` needs `Nested`, that slave interrupts
  nest with falling line numbers, so that the highest priority in service is
  always the innermost call's.  The start: the stack of pages is computed by
  recursion over the memory map; its pages are free and distinct by induction over
  the regions, and the words behind them are unwritten.  `NoClock` says that without the timer's handler the start does not
  get past `calibrate_delay`.
* `BootProofs`, the VFS: `Whole` ties objects, table and free list together, and
  `Grows` says that a lookup keeps what was cached; both hold for every tree.  That a
  path leads to its file needs `TreeGood`: i-nodes in different buckets (otherwise
  `inode_alias`), no name twice in a directory, and no entry behind an unused one in a
  block, where the search stops.  `PathInv` follows the loop of `vfs_namei`: at
  each cut the object is the file that the path so far names, or none, and none only
  for want of a block or of a name.  Ext2: `Ext2Inv` adds to
  the property what `ext2_get_sb` has computed from the geometry.

Loops over data are recursive functions of the number of turns, defined by LET in the
operator that runs them.  `Residues` shows once that such a function exists and takes
the value its definition says (`IterationExists`, `LoopExists`, `DescentExists` for
recursion on smaller numbers), and induction over a range as a statement about sets
(`RangeInduction`), which the provers can instantiate.

What the attempts to prove brought up: stale table entries of the kernel reach the
stack of free pages when an allocation fails (`Memory`); an alarm can be late by more
than its caller was (`Timer`); a calibration of zero ticks would hide that the timer
has no handler, and overlapping regions of the memory map give a page twice (`Boot`);
two extended partitions give the same numbers to their logical ones (`Partition`); a
file whose directory entry lies behind an unused one is not found, and of two entries
with one name in different blocks the last is (`Vfs`).
The assumptions and definitions concerned now say so.

Assumptions are those named in the modules (`...Assumption`), which TLC evaluates
in the runs.  Beyond types and sizes: elements are not the null element (`Lists`),
no glyph is a control character (`Console`), the number of PIDs is below the range
of the stack's top (`Procs`), a region with the page in excess fits into the
entries of one table (`Memory`).

Only model-checked: liveness (`WakeupDelivered`, `SomeoneEnters`, `KeysDelivered`,
`RequestsServed`, `BootCompletes`), which is out of the prover's reach.  All
other properties of the passing runs are also proved.

## 5. What the code does beyond the findings

Met while modelling, built into the models and named in the comments of the
definitions concerned.  No run is devoted to them: what they do is seen by reading, the
properties of the passing runs say where it begins, or nobody calls the code that way.

Against what a comment promises:

* "This function will sleep until the block becomes available" (`ata_generic.c:913`):
  the test of `buf->status` comes with interrupts on before the `cli` of `sleep_on`, so
  that the completion may come in between; the reader then sleeps although its block is
  valid, until some other request completes.  `RequestsServed` excepts it.
* "Flush cache will generate a IRQ, that shall be discarded" (`ata_generic.c:702`): if
  completion and flush merge into one interrupt, it is the next request's that is
  discarded.  `DiscardsFlushes` holds until two interrupts have merged.
* "Return a free page entry or 0 if memory is full" (`mm.c:297`): the end of the stack is
  the number of pages above 1 MB (`mm.c:213`), more than are put on it; at exhaustion
  `alloc_page` hands out words that were never written.  `RegionsSound` claims the
  physical pages until then, and `BootSound` what `init_pg` writes.
* "return NULL if path name is invalid, or the i-node (locked) otherwise"
  (`namei.c:39`): `vfs_iget` tests `inode->lock` (`vfs.c:369`), which no code initialises
  and which lies in memory that is not cleared; a cached i-node whose word is above zero
  is waited for, for ever.  `mutex_is_locked` moreover returns 1 for a free mutex, against
  its own comment (`semaphore.c:49`).
* "return 1 on success, 0 otherwise" (`mount.c:35`): the result of `get_sb` is ignored, and
  without memory for the super block `vfs_iget` calls through a null table.
* "0 on success (it's a valid partition address), -1 otherwise" (`partition.c:180`): the
  address equal to the length is accepted.  "First block of the partition"
  (`partition.h:89`): a logical partition starts at its EBR.  `PartInside` has both as the
  code does.
* "Signed conversion" (`printf.c:54`): a minus is written only with the flag for a space or
  a plus; and the flags of one conversion are still set at the next (`printf.c:183`).
* "Maximum command line arguments" (`cmdline.c:28`): nothing is compared with it, and the
  root argument is copied into ten bytes whatever its length (`kernel.c:143`).
  `TextRight` claims what fits.
* "Translate file byte offset into file system block number" (`vfs.c:398`): a block of a
  file from the 14th on is read from the wrong place, since `vfs_bmap` divides by entries
  times block size and uses one index on all levels.

Others:

* The sector of the group descriptors is right for 1 KB blocks only; the i-node
  tables of groups are right for revision 0 and for the first three groups; the
  byte address of an i-node wraps at 4 GB.
* The place of the next EBR is counted from the EBR before it, not from the extended
  partition.
* The PID of init is handed out like any other; an empty PID stack is not noticed.
* The console loses the character that meets the end of a line.
* `ext2_get_sb` holds two blocks at a time.  After a hit the held block is still on the
  free list; with at least three buffers the mount does not meet it there, but with
  fewer, or with enough reads while it is held, its header is given away (the run
  `buffer_hit` shows the cause).
* `strcpy` copies no terminating 0.  `cmdline_str` is all zeros before its only use and
  `kernel.c:148` adds the 0, but `irq.c:121` copies into memory of `kmalloc`, and the
  command line that `karch.c:100` copies into `kinf`, on the stack, ends where the next
  0 happens to be.  The models take names and lines as they were meant.
* The last region of the memory map is left out, a region above 4 GB is taken for
  its lower half.  If page 0 is free the first `kmalloc` fails (`alloc_page` says 0
  for none), the timer gets no handler and `calibrate_delay` never ends.
* An alarm whose expiry lies beyond the wrap of `jiffies` is refused.
* The ATA handler takes requests of the first device only; `wait_bus` polls a
  stopped clock when interrupts are off.

## 6. Not modelled

* Register contents, descriptor tables, exception messages, port I/O, the assembly
  before `karch`: hardware set-up without decisions.
* `bwrite`, `breada`, `c_llist_remove_nth`, `c_llist_nth`, the file table: no callers.  `exit`, `execve` and the ELF loader are empty.
* The loop of `vsprintf` over a format (its conversions are `numtostr`).
* `udelay` and `mdelay`: real time.  The serial port: pure I/O.
* Allocations that preempt one another: after the start only one thread allocates.
* The example programs under `apps`.

## 7. Plan

1. The composition of `BufferCache` with `Ata` in place of the synchronous read, once
   a second thread uses the cache.
2. `Memory` with calls that preempt each other; a run that shows what `kfree` of a
   region of several pages does to its neighbours.
