----------------------------- MODULE Partition -----------------------------
(***************************************************************************)
(* The partition table of a disk (fs/partition.c): parse_mbr, which init   *)
(* of the ATA driver calls, and translate_part_address, which every block  *)
(* transfer of the driver calls.                                           *)
(*                                                                         *)
(* External: the disk, an MBR of four entries [sysid, first, total] and    *)
(* the extended boot records [part, next] by sector.  An entry of type 0   *)
(* is empty.  Sector numbers are small: no sum of them wraps.              *)
(***************************************************************************)
EXTENDS Walks

CONSTANTS
    Disks           \* set of [signed, mbr, ebr]

EntryType == [sysid : Nat, first : Nat, total : Nat]
IsExtended(e) == e.sysid \in {5, 15}

\* The entries of an extended partition lead to EBRs, and there is one
\* extended partition at most.
ASSUME PartitionAssumption ==
    \A d \in Disks :
        /\ d.signed \in BOOLEAN /\ d.mbr \in [1 .. 4 -> EntryType]
        /\ IsFiniteSet(DOMAIN d.ebr) /\ DOMAIN d.ebr \subseteq Nat
        /\ \A x \in DOMAIN d.ebr :
             /\ d.ebr[x].part \in EntryType
             /\ d.ebr[x].next.sysid # 0 => x + d.ebr[x].next.first \in DOMAIN d.ebr
        /\ \A i \in 1 .. 4 : IsExtended(d.mbr[i]) => d.mbr[i].first \in DOMAIN d.ebr
        /\ \A i, j \in 1 .. 4 : IsExtended(d.mbr[i]) /\ IsExtended(d.mbr[j]) => i = j

VARIABLES
    pdisk,          \* the disk
    ptable,         \* the table that parse_mbr returned, or NoTable
    pparse          \* "no", "ok", "refused", "hung"

partVars == <<pdisk, ptable, pparse>>

NoTable == [size |-> 0, partitions |-> <<>>]

PartInit ==
    /\ pdisk \in Disks
    /\ ptable = NoTable
    /\ pparse = "no"

----------------------------------------------------------------------------
\* The sectors of the EBRs that the inner loop reads: each is as far behind
\* the last one as its entry says.
NextEbr(d) ==
    [x \in DOMAIN d.ebr |->
       IF d.ebr[x].next.sysid = 0 THEN NULL ELSE x + d.ebr[x].next.first]

EbrChain(d, e) == Trail(NextEbr(d), e.first, NULL)

\* If an EBR leads back to another one, the loop turns for ever.
Turns(d) == \E i \in 1 .. 4 : IsExtended(d.mbr[i]) /\ ~Ends(NextEbr(d), d.mbr[i].first, NULL)

\* Mutant: the extended partition itself is not counted.
CountEntry_NoExtended(d, e) ==
    IF e.sysid = 0 THEN 0 ELSE IF IsExtended(e) THEN Len(EbrChain(d, e)) ELSE 1

\* The first pass counts an entry, with the EBRs behind an extended one.
CountEntry(d, e) ==
    IF e.sysid = 0 THEN 0 ELSE IF IsExtended(e) THEN Len(EbrChain(d, e)) + 1 ELSE 1

Count(d) ==
    CountEntry(d, d.mbr[1]) + CountEntry(d, d.mbr[2]) + CountEntry(d, d.mbr[3])
        + CountEntry(d, d.mbr[4])

\* exnum of the k-th logical partition.
LogicNumber(k) == k + 4

\* The second pass: a logical partition starts at its EBR.
Fill(d, i) ==
    LET e == d.mbr[i]
        chain == EbrChain(d, e)
        entry(type) ==
            [init |-> e.first, length |-> e.total, id |-> e.sysid, number |-> i, type |-> type]
    IN  IF e.sysid = 0 THEN <<>>
        ELSE IF ~IsExtended(e) THEN << entry("primary") >>
        ELSE << entry("extended") >> \o
             [k \in 1 .. Len(chain) |->
                [init |-> chain[k], length |-> d.ebr[chain[k]].part.total,
                 id |-> d.ebr[chain[k]].part.sysid,
                 number |-> LogicNumber(k), type |-> "logic"]]

Filled(d) == Fill(d, 1) \o Fill(d, 2) \o Fill(d, 3) \o Fill(d, 4)

\* parse_mbr.
parse_mbr(tab_ok, parts_ok) ==
    /\ pparse = "no"
    /\ IF ~pdisk.signed \/ ~tab_ok THEN pparse' = "refused" /\ UNCHANGED ptable
       ELSE IF Turns(pdisk) THEN pparse' = "hung" /\ UNCHANGED ptable
       ELSE IF ~parts_ok THEN pparse' = "refused" /\ UNCHANGED ptable
       ELSE /\ pparse' = "ok"
            /\ ptable' = [size |-> Count(pdisk), partitions |-> Filled(pdisk)]
    /\ UNCHANGED pdisk

\* The disk address, or -1.  An address equal to the length is accepted.
translate_part_address(pnumber, paddress) ==
    LET hits == {i \in 1 .. ptable.size : ptable.partitions[i].number = pnumber}
        part == ptable.partitions[CHOOSE i \in hits : \A j \in hits : i <= j]
    IN  IF hits = {} \/ paddress > part.length THEN -1 ELSE part.init + paddress

PartNext == \E tab_ok, parts_ok \in BOOLEAN : parse_mbr(tab_ok, parts_ok)

PartSpec == PartInit /\ [][PartNext]_partVars

----------------------------------------------------------------------------
\* The second pass (partition.c:106) fills exactly the memory that the first
\* (partition.c:71) has counted, whatever mixture of empty, primary and
\* extended entries there is: it neither leaves an entry of zeros nor writes
\* behind the array.
PartFilled == ptable.size = Len(ptable.partitions)

\* A number stands for one partition, so that the search of
\* translate_part_address (partition.c:193) means what it finds; a disk has
\* one extended partition at most.
PartNumbers ==
    \A i, j \in DOMAIN ptable.partitions :
        ptable.partitions[i].number = ptable.partitions[j].number => i = j

\* The partitions of entry i of the MBR: the entry itself, and a logical
\* partition for each EBR behind an extended one.
Extent(number, first, total) == [number |-> number, first |-> first, total |-> total]

PartitionsOf(d, i) ==
    LET e == d.mbr[i]
        chain == EbrChain(d, e)
    IN  IF e.sysid = 0 THEN {}
        ELSE {Extent(i, e.first, e.total)} \cup
             (IF IsExtended(e)
              THEN {Extent(k + 4, chain[k], d.ebr[chain[k]].part.total) : k \in 1 .. Len(chain)}
              ELSE {})

PartitionsOn(d) == UNION {PartitionsOf(d, i) : i \in 1 .. 4}

\* Whatever other entries there are, an address in a partition of the disk,
\* primary, extended or logical, is counted from the start of this one, that
\* of a logical partition being its EBR, and refused behind its end
\* (partition.c:190).  The address equal to the length is accepted.
PartInside ==
    pparse = "ok" =>
        \A p \in PartitionsOn(pdisk) : \A a \in 0 .. p.total + 1 :
            translate_part_address(p.number, a) = IF a <= p.total THEN p.first + a ELSE -1

\* The table that parse_mbr builds in two passes (partition.c:71, 104) is
\* filled to its end, its numbers are distinct, and an address is translated
\* with the entry of its own partition.
PartitionRight == PartFilled /\ PartNumbers /\ PartInside
=============================================================================
