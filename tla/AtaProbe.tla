----------------------------- MODULE AtaProbe -----------------------------
(***************************************************************************)
(* How init_ata_generic (drivers/block/ata_generic.c) finds the disks of   *)
(* the two buses and registers their drivers (fs/devices.c), in one        *)
(* thread.  Devices 0 and 1 are master and slave of the primary bus, 2 and *)
(* 3 of the secondary one.                                                 *)
(*                                                                         *)
(* External: a device is absent (its registers read 0), floating (the bus  *)
(* reads all ones), a CD-ROM or a disk, whose answer to IDENTIFY is a      *)
(* function from word number to word.  The polling of wait_bus ends with   *)
(* the answer or with its timeout; the words read are the same.            *)
(***************************************************************************)
EXTENDS Integers, Sequences

CONSTANTS
    Half,           \* the words whose highest bit is clear (2^15)
    Boards          \* the sets of four devices the kernel may find

\* The number of words; an int is as long as two words, size as four.
Word == 2 * Half
WordValues == 0 .. Word - 1

DeviceType ==
    [kind : {"none", "floating", "cdrom", "disk"}, lba : BOOLEAN, lba48 : BOOLEAN,
     secs : [1 .. 2 -> WordValues], secs48 : [1 .. 4 -> WordValues]]

ASSUME AtaProbeAssumption ==
    Half \in Nat \ {0} /\ Boards \subseteq [0 .. 3 -> DeviceType]

VARIABLES
    aboard,         \* the devices
    anext,          \* the next device to probe; 4 when all are done
    adev,           \* ata_devices: [present, sectors]
    adrv,           \* block_dev_drivers: major |-> [size] or 0 for NULL
    apanic

probeVars == <<aboard, anext, adev, adrv, apanic>>

DEVMAJOR_ATA_PRI == 3
DEVMAJOR_ATA_SEC == 2
Majors == {DEVMAJOR_ATA_PRI, DEVMAJOR_ATA_SEC}
Ones == Word - 1
Unregistered == -1

ProbeInit ==
    /\ aboard \in Boards
    /\ anext = 0
    /\ adev = [i \in 0 .. 3 |-> [present |-> FALSE, sectors |-> 0]]
    /\ adrv = [m \in Majors |-> Unregistered]
    /\ apanic = FALSE

----------------------------------------------------------------------------
\* The answer to IDENTIFY, with the words at the places the ATA standard
\* gives them; a word that says nothing else is its number.
Identify(d) ==
    [w \in 0 .. 255 |->
       IF d.kind = "floating" THEN Ones
       ELSE CASE w = 0 -> 0
              [] w = 49 -> IF d.lba THEN 1 ELSE 0
              [] w = 83 -> IF d.lba48 THEN 1 ELSE 0
              [] w \in {60, 61} -> d.secs[w - 59]
              [] w \in 100 .. 103 -> d.secs48[w - 99]
              [] OTHER -> w % Word]

\* The loops of get_dev_info: which field takes how many of the words that
\* follow, "" for those that are thrown away.
Layout ==
    << <<"type", 1>>, <<"", 9>>, <<"serial", 10>>, <<"", 3>>, <<"firmware_rev", 4>>,
       <<"model", 20>>, <<"mult_secs", 1>>, <<"", 1>>, <<"capabilities", 2>>, <<"", 8>>,
       <<"mult_sec", 1>>, <<"max_secs", 2>>, <<"", 1>>, <<"mword_dma", 1>>, <<"", 16>>,
       <<"major_ver", 1>>, <<"minor_ver", 1>>, <<"cmds_supported", 6>>, <<"ultra_dma", 1>>,
       <<"", 11>>, <<"max_lba48", 4>>, <<"", 152>> >>

\* Mutant: one of the words behind the capabilities is not read.
Before_Short(k) ==
    LET sum[i \in 0 .. Len(Layout)] == IF i = 0 THEN 0 ELSE sum[i - 1] + Layout[i][2]
    IN  sum[k - 1] - (IF k > 10 THEN 1 ELSE 0)

\* The words read before the k-th loop.
Before(k) ==
    LET sum[i \in 0 .. Len(Layout)] == IF i = 0 THEN 0 ELSE sum[i - 1] + Layout[i][2]
    IN  sum[k - 1]

\* Word j of a field.
Field(d, name, j) ==
    LET k == CHOOSE i \in DOMAIN Layout : Layout[i][1] = name
    IN  Identify(d)[Before(k) + j]

\* word << 16 is an int, which the assignment to size extends with its sign.
Shifted(w) ==
    IF w < Half THEN w * Word
    ELSE w * Word + Word * Word * Word * Word - Word * Word

\* The number of sectors.  The upper words of an LBA48 size are or-ed to
\* what the sign has left there.
SizeOf(d) ==
    IF Field(d, "cmds_supported", 1) # 0
    THEN LET low == Field(d, "max_lba48", 0) + Shifted(Field(d, "max_lba48", 1))
         IN  IF low >= Word * Word THEN low
             ELSE low + Field(d, "max_lba48", 2) * (Word * Word)
                      + Field(d, "max_lba48", 3) * (Word * Word * Word)
    ELSE Field(d, "max_secs", 0) + Shifted(Field(d, "max_secs", 1))

\* Absent devices and CD-ROMs are recognised by their registers, the others
\* by the highest bit of the type word and by the LBA capability.
IsDisk(d) ==
    /\ d.kind \in {"floating", "disk"}
    /\ Field(d, "type", 0) < Half
    /\ Field(d, "capabilities", 0) # 0

\* One turn of the loop of init_ata_generic.
ProbeDevice ==
    /\ anext < 4
    /\ anext' = anext + 1
    /\ adev' = [adev EXCEPT ![anext] =
                  IF IsDisk(aboard[anext]) THEN [present |-> TRUE, sectors |-> SizeOf(aboard[anext])]
                  ELSE @]
    /\ UNCHANGED <<aboard, adrv, apanic>>

\* register_block_driver: the table entry must be free, and there must be
\* memory for the buffer queue.
register_block_driver(major, size, ok) ==
    IF adrv[major] # Unregistered \/ ~ok THEN apanic' = TRUE /\ UNCHANGED adrv
    ELSE adrv' = [adrv EXCEPT ![major] = size] /\ UNCHANGED apanic

MasterOf(major) == IF major = DEVMAJOR_ATA_PRI THEN 0 ELSE 2

\* The end of init_ata_generic: the driver of a bus stands for its master.
RegisterBus(major, ok) ==
    /\ anext = 4 + (IF major = DEVMAJOR_ATA_PRI THEN 0 ELSE 1) /\ ~apanic
    /\ anext' = anext + 1
    /\ IF adev[MasterOf(major)].present
       THEN register_block_driver(major, adev[MasterOf(major)].sectors, ok)
       ELSE UNCHANGED <<adrv, apanic>>
    /\ UNCHANGED <<aboard, adev>>

ProbeNext == ProbeDevice \/ \E major \in Majors, ok \in BOOLEAN : RegisterBus(major, ok)

ProbeSpec == ProbeInit /\ [][ProbeNext]_probeVars

----------------------------------------------------------------------------
\* What the words of a size mean, first the least significant one.
Value(words) == words[1] + Word * (words[2] + Word * (words[3] + Word * words[4]))

\* A device is taken for a disk with the size that it tells (ata_generic.c
\* 394, 242): every word goes to its field and all 256 are read, so that the
\* next command finds none left over.  A size is understood if the highest
\* bit of its second word is clear, below 2^31 sectors in the code.
ProbeRight ==
    /\ Before(Len(Layout) + 1) = 256
    /\ \A i \in 0 .. 3 : i < anext =>
         LET d == aboard[i]
             words == IF d.lba48 THEN d.secs48 ELSE <<d.secs[1], d.secs[2], 0, 0>>
         IN  /\ adev[i].present = (d.kind = "disk" /\ d.lba)
             /\ (adev[i].present /\ words[2] < Half) => adev[i].sectors = Value(words)

\* A bus has a driver exactly if a disk is its master, with the size of that
\* disk (ata_generic.c:297), unless the kernel has panicked.
ProbeDrivers ==
    (anext = 6 /\ ~apanic) =>
        \A m \in Majors :
            LET master == aboard[IF m = 3 THEN 0 ELSE 2]
            IN  adrv[m] = IF master.kind = "disk" /\ master.lba THEN SizeOf(master) ELSE Unregistered

\* Disks are found with their sizes, and the drivers of their buses are
\* registered (ata_generic.c:161, 297).
ProbeSound == ProbeRight /\ ProbeDrivers
=============================================================================
