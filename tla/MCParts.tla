------------------------------ MODULE MCParts ------------------------------
(***************************************************************************)
(* The small parts of the kernel for TLC, in one run.  They share no       *)
(* state: a behaviour of this specification is a behaviour of the part     *)
(* that focus names, while the others stay in one of their initial states. *)
(* What the properties of a part say is the same in any interleaving with  *)
(* the others.                                                             *)
(***************************************************************************)
EXTENDS Mutex, Keyboard, Memory, MCBuffers, MCVfs, Irq, Lists, Procs, Partition, Ext2, Text, Console,
        AtaProbe, Boot

VARIABLE focus

MCEntry(sysid, first, total) == [sysid |-> sysid, first |-> first, total |-> total]
MCNone == MCEntry(0, 0, 0)

\* One extended boot record, two, and two of which the second names itself.
MCEbrs ==
    LET ebr(next) == [part |-> MCEntry(131, 1, 3), next |-> next]
    IN  {10 :> ebr(MCNone),
         (10 :> ebr(MCEntry(5, 5, 4))) @@ (15 :> ebr(MCNone)),
         (10 :> ebr(MCEntry(5, 5, 4))) @@ (15 :> ebr(MCEntry(5, 0, 4)))}

\* Disks with at most one extended partition, in the second or last place.
MCDisks ==
    {d \in [signed : BOOLEAN, ebr : MCEbrs,
            mbr : {MCNone, MCEntry(131, 1, 3)} \X {MCNone, MCEntry(130, 4, 2), MCEntry(5, 10, 20)}
                    \X {MCNone, MCEntry(131, 30, 2)} \X {MCNone, MCEntry(15, 10, 20)}] :
       ~(IsExtended(d.mbr[2]) /\ IsExtended(d.mbr[4]))}

MCGeometry(log, fdb, bpg, rev, groups, gdt, magic) ==
    [log |-> log, fdb |-> fdb, blocks |-> fdb + groups * bpg - 5, bpg |-> bpg, ipg |-> 12,
     groups |-> groups, gdt |-> gdt, rev |-> rev, magic |-> magic]

\* Both revisions with 1 KB blocks, more descriptors, a disk larger than the
\* address space, larger blocks, and a disk that is not ext2.
MCGeometries ==
    {MCGeometry(0, 1, 40, 0, 5, 1, TRUE), MCGeometry(0, 1, 40, 1, 5, 1, TRUE),
     MCGeometry(0, 1, 40, 0, 2, 2, TRUE), MCGeometry(0, 1, 600, 1, 3, 1, TRUE),
     MCGeometry(1, 0, 40, 1, 2, 1, TRUE), MCGeometry(2, 0, 40, 0, 2, 1, TRUE),
     MCGeometry(0, 1, 40, 1, 1, 1, FALSE)}

MCStrings(chars, n) == UNION {[1 .. k -> chars] : k \in 0 .. n}

\* Command lines: all short strings of blanks, "=", "a" and "b", and lines of
\* three words.
MCWords == {<<97>>, <<98, 97>>, <<97, 61>>, <<98, 61, 97>>, <<97, 61, 98, 61, 97>>, <<97, 98, 61, 98>>}
MCLines ==
    MCStrings({SpaceCh, EqualsCh, 97, 98}, 4)
    \cup {w[1] \o gap \o w[2] \o <<SpaceCh>> \o w[3] :
            w \in MCWords \X MCWords \X MCWords, gap \in {<<SpaceCh>>, <<SpaceCh, SpaceCh>>}}

MCTextCases ==
    {[kind |-> "number", flags |-> flags, value |-> value, prec |-> prec] :
       flags \in {{}, {"zero"}, {"plus"}, {"zero", "plus"}}, prec \in 0 .. 5,
       value \in {-1234, -100, -10, -9, -1, 0, 1, 9, 10, 19, 90, 100, 2147483647}}
    \cup {[kind |-> "cmdline", line |-> s, keys |-> {<<97>>, <<98>>, <<97, 98>>}] : s \in MCLines}
    \cup {[kind |-> "root", major |-> major, minor |-> minor, word |-> word, low |-> <<83, 255>>] :
            major \in {2, 3}, minor \in {0, 1, 10, 64, 105},
            word \in {<<>>, [i \in 1 .. 9 |-> 97], [i \in 1 .. 10 |-> 97]}}
    \cup {[kind |-> "token", s |-> s, delim |-> {SpaceCh, 44}] : s \in MCStrings({SpaceCh, 44, 97}, 4)}

MCDevice(kind, lba, lba48, secs, secs48) ==
    [kind |-> kind, lba |-> lba, lba48 |-> lba48, secs |-> secs, secs48 |-> secs48]

\* The last disk has the highest bit of its second word set.
MCDevices ==
    {MCDevice(kind, FALSE, FALSE, <<0, 0>>, <<0, 0, 0, 0>>) : kind \in {"none", "floating", "cdrom"}}
    \cup {MCDevice("disk", lba, FALSE, <<3, 2>>, <<0, 0, 0, 0>>) : lba \in BOOLEAN}
    \cup {MCDevice("disk", TRUE, TRUE, <<7, 7>>, secs48) : secs48 \in {<<3, 1, 5, 1>>, <<3, 5, 5, 1>>}}

\* Any device as master, the slaves with a disk or without.
MCBoards ==
    {board \in [0 .. 3 -> MCDevices] : \A i \in {1, 3} : board[i].kind = "none" \/ board[i].lba48}

MCRegion(base, len, avail, high) == [base |-> base, len |-> len, avail |-> avail, high |-> high]

\* Pages of 4 bytes, 1 MB at byte 32, a kernel of two pages: low memory from
\* page 0 on, a hole, memory from 1 MB on (also smaller than the kernel),
\* more above it, memory above 4 GB, and the reserved region at the end.
MCLoaders ==
    LET map(low, ram, more) ==
            low \o << MCRegion(32, ram, TRUE, FALSE) >> \o more \o << MCRegion(200, 8, FALSE, FALSE) >>
        lows == {<<>>, << MCRegion(0, 10, TRUE, FALSE), MCRegion(10, 6, FALSE, FALSE) >>,
                 << MCRegion(2, 9, TRUE, FALSE) >>}
        mores == {<<>>, << MCRegion(81, 17, TRUE, FALSE) >>, << MCRegion(0, 40, TRUE, TRUE) >>}
    IN  {[valid |-> TRUE, map |-> map(low, ram, more), upper |-> upper] :
           low \in lows, ram \in {6, 41}, more \in mores, upper \in {8, 64}}
        \cup {[valid |-> FALSE, map |-> map(<<>>, 41, <<>>), upper |-> 64]}

----------------------------------------------------------------------------
PartNames == {"mutex", "keyboard", "memory", "buffers", "vfs", "irq", "lists", "procs", "partition",
              "ext2", "text", "console", "probe", "boot"}

PartsInit ==
    /\ focus \in PartNames
    /\ IF focus = "buffers" THEN TRUE ELSE bkernel = FALSE
    /\ IF focus = "vfs" THEN vlocked \in {{}} \cup {{i} : i \in Objects} ELSE vlocked = {}
    /\ IF focus = "partition" THEN TRUE ELSE pdisk = CHOOSE d \in Disks : TRUE
    /\ IF focus = "ext2" THEN TRUE ELSE egeom = CHOOSE g \in Geometries : TRUE
    /\ IF focus = "text" THEN TRUE ELSE tcase = CHOOSE c \in TextCases : TRUE
    /\ IF focus = "probe" THEN TRUE ELSE aboard = CHOOSE b \in Boards : TRUE
    /\ IF focus = "boot" THEN TRUE ELSE bloader = CHOOSE l \in Loaders : TRUE
    /\ Init /\ KbdInit /\ MemInit /\ BufInit /\ VfsInit /\ IrqInit /\ ListInit /\ ProcInit /\ PartInit /\ Ext2Init
    /\ TextInit /\ ConInit /\ ProbeInit /\ BootInit
    /\ IF focus = "memory" THEN TRUE ELSE \A i \in Phys .. stack_max_top - 1 : stack_pages[i] = 0

\* Only the part in focus moves.
Frame ==
    /\ IF focus = "mutex" THEN TRUE ELSE UNCHANGED vars
    /\ IF focus = "keyboard" THEN TRUE ELSE UNCHANGED kbdVars
    /\ IF focus = "memory" THEN TRUE ELSE UNCHANGED memVars
    /\ IF focus = "buffers" THEN TRUE ELSE UNCHANGED bufVars
    /\ IF focus = "vfs" THEN TRUE ELSE UNCHANGED vfsVars
    /\ IF focus = "irq" THEN TRUE ELSE UNCHANGED irqVars
    /\ IF focus = "lists" THEN TRUE ELSE UNCHANGED listVars
    /\ IF focus = "procs" THEN TRUE ELSE UNCHANGED procVars
    /\ IF focus = "partition" THEN TRUE ELSE UNCHANGED partVars
    /\ IF focus = "ext2" THEN TRUE ELSE UNCHANGED ext2Vars
    /\ IF focus = "console" THEN TRUE ELSE UNCHANGED conVars
    /\ IF focus = "probe" THEN TRUE ELSE UNCHANGED probeVars
    /\ IF focus = "boot" THEN TRUE ELSE UNCHANGED bootVars
    /\ UNCHANGED <<tcase, focus>>

PartsNext ==
    \/ focus = "mutex" /\ Next /\ Frame
    \/ focus = "keyboard" /\ KbdNext /\ Frame
    \/ focus = "memory" /\ MemNext /\ Frame
    \/ focus = "buffers" /\ MCUntilHit /\ BufNext /\ Frame
    \/ focus = "vfs" /\ VfsNext /\ Frame
    \/ focus = "irq" /\ IrqNext /\ Frame
    \/ focus = "lists" /\ ListNext /\ Frame
    \/ focus = "procs" /\ ProcNext /\ Frame
    \/ focus = "partition" /\ PartNext /\ Frame
    \/ focus = "ext2" /\ Ext2Next /\ Frame
    \/ focus = "console" /\ ConNext /\ Frame
    \/ focus = "probe" /\ ProbeNext /\ Frame
    \/ focus = "boot" /\ BootNext /\ Frame

partsVars ==
    <<focus, vars, kbdVars, memVars, bufVars, vfsVars, irqVars, listVars, procVars, partVars, ext2Vars, tcase,
      conVars, probeVars, bootVars>>

\* The fairness of Mutex, which asks nothing of threads that are outside, of
\* Keyboard, whose reader is outside elsewhere, and of Boot when it moves.
PartsFairness ==
    /\ Fairness
    /\ WF_kbdVars(focus = "keyboard" /\ Proceed)
    /\ WF_bootVars(focus = "boot" /\ BootStep) /\ WF_bootVars(focus = "boot" /\ BootTick)

PartsSpec == PartsInit /\ [][PartsNext]_partsVars /\ PartsFairness
=============================================================================
