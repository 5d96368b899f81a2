-------------------------------- MODULE Boot --------------------------------
(***************************************************************************)
(* The start of the kernel: karch (arch/x86/boot/karch.c) reads what the   *)
(* boot loader tells and fills the stack of free pages (arch/x86/mm/mm.c), *)
(* tempos_main and kernel_main_thread (kernel/kernel.c) start the parts    *)
(* one after the other.  The timer interrupts from init_timer on; waits    *)
(* for a device or for the calibration end by the clock it drives; reads   *)
(* from the disk have no timeout.  A key before init_wait_queues finds the *)
(* zeroed, empty queue and is left out.                                    *)
(*                                                                         *)
(* The clock is bleft: how many ticks are missing until the wait in        *)
(* progress times out.  What a start step does inside is the subject of    *)
(* the other modules; here it succeeds, or fails as the code lets it.      *)
(***************************************************************************)
EXTENDS Integers, Sequences, FiniteSets

LOCAL INSTANCE SequencesExt

CONSTANTS
    Loaders,            \* what boot loaders tell: [valid, map, upper]
    BootPage,           \* bytes of a page
    BootKernel,         \* address and size of the kernel, at 1 MB
    BootKernelLen,
    MBOOT_MMAP_MAXREG,
    BootCalibration,    \* HZ / 10
    BootTimeout         \* HZ / 40

BootRegion == [base : Nat, len : Nat, avail : BOOLEAN, high : BOOLEAN]

ASSUME BootAssumption ==
    /\ {BootPage, BootKernelLen, MBOOT_MMAP_MAXREG, BootCalibration} \subseteq Nat \ {0}
    /\ {BootKernel, BootTimeout} \subseteq Nat
    /\ \A l \in Loaders : l.map \in Seq(BootRegion) \ {<<>>} /\ l.upper \in Nat

VARIABLES
    bloader,
    bpc,            \* the next step, or "halt", "panic", "loop"
    bstack,         \* the stack_max_top words of stack_pages
    bflag,          \* the interrupt flag
    btimer,         \* is the timer's handler registered?
    bleft

bootVars == <<bloader, bpc, bstack, bflag, btimer, bleft>>

\* The steps of the start, in the order of the calls.
BootSteps ==
    <<"karch", "init_timer", "calibrate_delay", "init_8042", "init_wait_queues",
      "init_scheduler", "initial_task", "idle", "register_all_fs_types", "init_pids",
      "init_ata_generic", "parse_cmdline", "console", "root", "vfs_mount_root", "init",
      "_exec_init", "loop">>

BootEnds == {"halt", "panic", "loop"}

\* The steps that panic when they fail; the others go on.
MayPanic ==
    {"init_scheduler", "register_all_fs_types", "init_ata_generic", "console", "root",
     "vfs_mount_root", "init"}

\* The steps that read from the disk, through read_sync_ata_sector.
DiskSteps == {"vfs_mount_root", "init"}

BootInit ==
    /\ bloader \in Loaders
    /\ bpc = "karch"
    /\ bstack = <<>>
    /\ bflag = FALSE /\ btimer = FALSE /\ bleft = 0

----------------------------------------------------------------------------
\* PAGE_ALIGN
PageAlign(a) == ((a + BootPage - 1) \div BootPage) * BootPage

\* kinf.mmap_table: the last region of the loader's map is left out.
mmap_table(l) == Front(l.map)

\* Regions from 1 MB on are taken for the one that the kernel lies in.
IsAdjusted(r) == r.avail /\ r.base >= BootKernel

\* The kernel is taken from the beginning of such a region.
Adjust(r) ==
    IF IsAdjusted(r) THEN [r EXCEPT !.base = @ + BootKernelLen, !.len = @ - BootKernelLen] ELSE r

\* Each of these regions adds one to the table.
TableFull(l) ==
    Len(mmap_table(l)) + Len(SelectSeq(mmap_table(l), IsAdjusted)) > MBOOT_MMAP_MAXREG

\* The pages whose first byte lies in a region.
PagesIn(r) ==
    LET first == PageAlign(r.base)
        stop == r.base + r.len
    IN  IF ~r.avail \/ stop <= first THEN <<>>
        ELSE [k \in 1 .. (stop - first + BootPage - 1) \div BootPage |-> first + (k - 1) * BootPage]

\* stack_max_top: as many pages as there are above 1 MB.
StackMax(l) == l.upper \div BootPage

\* The pages that init_pg puts on the stack, as long as it has room.
WrittenPages(l) ==
    LET pages == FlattenSeq([i \in DOMAIN mmap_table(l) |-> PagesIn(Adjust(mmap_table(l)[i]))])
    IN  SubSeq(pages, 1, IF Len(pages) < StackMax(l) THEN Len(pages) ELSE StackMax(l))

\* A word of the stack that is left as it was found in memory.
Unwritten == -1

\* The stack that alloc_page takes pages from.
StackPages(l) ==
    [i \in 1 .. StackMax(l) |->
        IF i \in DOMAIN WrittenPages(l) THEN WrittenPages(l)[i] ELSE Unwritten]

----------------------------------------------------------------------------
\* Mutant: the keyboard is started first.
Following_KeyboardFirst(step) ==
    CASE step = "karch" -> "init_8042"
      [] step = "init_8042" -> "init_timer"
      [] step = "calibrate_delay" -> "init_wait_queues"
      [] OTHER -> BootSteps[(CHOOSE k \in DOMAIN BootSteps : BootSteps[k] = step) + 1]

Following(step) == BootSteps[(CHOOSE k \in DOMAIN BootSteps : BootSteps[k] = step) + 1]

\* The ticks that a step waits for at most: calibrate_delay until the clock
\* has reached its end, the others until it has passed it.
WaitOf(step) ==
    CASE step = "calibrate_delay" -> BootCalibration
      [] step \in {"init_8042", "init_ata_generic"} -> BootTimeout + 1
      [] OTHER -> 0

GoTo(step) == bpc' = step /\ bleft' = WaitOf(step)

\* karch up to its sti, init_pg included.  Without the data it needs it
\* returns, and the processor is halted.
karch ==
    /\ bpc = "karch"
    /\ IF ~bloader.valid THEN GoTo("halt") /\ UNCHANGED <<bstack, bflag>>
       ELSE IF TableFull(bloader) THEN GoTo("panic") /\ UNCHANGED <<bstack, bflag>>
       ELSE GoTo(Following("karch")) /\ bstack' = StackPages(bloader) /\ bflag' = TRUE
    /\ UNCHANGED <<bloader, btimer>>

\* init_timer: request_irq is the first caller of kmalloc, which fails if
\* the first page is the one at address 0; nobody looks at the result.
init_timer(ok) ==
    /\ bpc = "init_timer"
    /\ ok => bstack # <<>> /\ bstack[1] # 0
    /\ btimer' = ok
    /\ GoTo(Following(bpc))
    /\ UNCHANGED <<bloader, bstack, bflag>>

\* Mutant: only an answer ends a wait.
WaitOver_NoTimeout(answer) ==
    /\ WaitOf(bpc) > 0
    /\ IF bpc = "calibrate_delay" THEN bleft <= 0 ELSE answer
    /\ GoTo(Following(bpc))
    /\ UNCHANGED <<bloader, bstack, bflag, btimer>>

\* A busy wait ends: at its timeout, or before, when the device answers.
WaitOver(answer) ==
    /\ WaitOf(bpc) > 0
    /\ bleft <= 0 \/ (answer /\ bpc # "calibrate_delay")
    /\ GoTo(Following(bpc))
    /\ UNCHANGED <<bloader, bstack, bflag, btimer>>

\* A call comes back; a failure is noticed in MayPanic only.  (Without
\* memory for its task init_scheduler returns, and tempos_main panics.)
Returns(ok) ==
    /\ GoTo(IF ok \/ bpc \notin MayPanic THEN Following(bpc) ELSE "panic")
    /\ UNCHANGED <<bloader, bstack, bflag, btimer>>

\* The calls that wait for nothing.
StartPart(ok) ==
    /\ bpc \notin BootEnds \cup DiskSteps \cup {"karch", "init_timer"}
    /\ WaitOf(bpc) = 0
    /\ Returns(ok)

\* vfs_mount_root and the loading of init: all their reads have come back.
DiskPart == bpc \in DiskSteps /\ \E ok \in BOOLEAN : Returns(ok)

\* init_ata_generic may also panic when it registers the drivers.
AtaPanics ==
    /\ bpc = "init_ata_generic"
    /\ GoTo("panic")
    /\ UNCHANGED <<bloader, bstack, bflag, btimer>>

\* What the processor does by itself.
BootStep ==
    \/ karch
    \/ \E ok \in BOOLEAN : init_timer(ok) \/ StartPart(ok)
    \/ WaitOver(FALSE)

\* The timer interrupt; without a handler it changes nothing.  schedule()
\* finds no current task before the scheduler is there, and then no other
\* task than the current one before idle_thread is.
BootTick ==
    /\ bflag /\ btimer /\ bleft > 0 /\ bpc \notin BootEnds
    /\ bleft' = bleft - 1
    /\ UNCHANGED <<bloader, bpc, bstack, bflag, btimer>>

BootNext == BootStep \/ BootTick \/ DiskPart \/ WaitOver(TRUE) \/ AtaPanics

\* The processor executes instructions and the timer ticks; no device need
\* answer, nor does a read from the disk have to come back.
BootSpec == BootInit /\ [][BootNext]_bootVars /\ WF_bootVars(BootStep) /\ WF_bootVars(BootTick)

----------------------------------------------------------------------------
\* A map of a PC: nothing above 4 GB is available, a region that meets the
\* kernel begins at 1 MB or above, and no byte is in two regions.
PlainMap(map) ==
    /\ \A i \in DOMAIN map : map[i].avail =>
          /\ ~map[i].high
          /\ map[i].base + map[i].len > BootKernel => map[i].base >= BootKernel
    /\ \A i, j \in DOMAIN map : map[i].avail /\ map[j].avail /\ i # j =>
          map[i].base + map[i].len <= map[j].base \/ map[j].base + map[j].len <= map[i].base

IsFree(map, a) ==
    \E i \in DOMAIN map : map[i].avail /\ a >= map[i].base /\ a < map[i].base + map[i].len

\* What init_pg puts on the stack of free pages (mm.c:216-230) is available
\* memory only, no page of the kernel, and every page once, whatever regions
\* the map has, aligned or not, smaller than the kernel or not, and however
\* large the stack is.  (A region above 4 GB is taken for its lower half, and
\* the last page of a region may reach beyond its end.  The words behind, up
\* to stack_max_top, hold anything: see Memory.)
BootPages ==
    PlainMap(bloader.map) =>
        /\ \A i \in DOMAIN bstack : bstack[i] # Unwritten =>
             /\ bstack[i] % BootPage = 0 /\ IsFree(bloader.map, bstack[i])
             /\ bstack[i] \notin BootKernel .. BootKernel + BootKernelLen - 1
        /\ \A i, j \in DOMAIN bstack :
             bstack[i] = bstack[j] /\ bstack[i] # Unwritten => i = j

\* "keep init_timer() in first place because drivers use timer functions"
\* (kernel.c:71): once the timer's handler is there the start comes to its
\* end or to the first read from the disk, though no device answers; and to
\* its end, if what is read from the disk comes back.
BootCompletes ==
    /\ [](btimer => <>(bpc \in BootEnds \cup DiskSteps))
    /\ WF_bootVars(DiskPart) => [](btimer => <>(bpc \in BootEnds))

\* Before that nothing waits for the clock, except in calibrate_delay when
\* request_irq has failed.
BootClocked == (bpc \in {"init_8042", "init_ata_generic"}) => btimer

\* What the start hands over is sound at every step: only free pages are put
\* on the stack (mm.c:216), and there is no wait without a clock
\* (kernel.c:71).
BootSound == BootPages /\ BootClocked
=============================================================================
