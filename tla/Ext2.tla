-------------------------------- MODULE Ext2 --------------------------------
(***************************************************************************)
(* Where the ext2 driver (fs/ext2/ext2.c) and vfs_bmap (fs/vfs.c) look for *)
(* things on the disk: the group descriptor, the i-nodes and the blocks of *)
(* a file, as kernel_main_thread reads them when it mounts the root and    *)
(* loads init.                                                             *)
(*                                                                         *)
(* External: the layout of an ext2 disk.  Group g starts at block          *)
(* fdb + g * bpg; it holds a copy of the super block and the gdt blocks of *)
(* descriptors if it is a backup group, then two bitmaps, then the i-node  *)
(* table.  An i-node has 128 bytes.  The cache under bread is transparent  *)
(* here (BufferCache is about it).  After the mount kmalloc succeeds: the  *)
(* loading of init does not look at what get_fs_block returns              *)
(* (kernel.c:185).                                                         *)
(***************************************************************************)
EXTENDS Integers, Sequences, FiniteSets

LOCAL INSTANCE SequencesExt

CONSTANTS
    Geometries,     \* disks: [log, fdb, blocks, bpg, ipg, groups, gdt, rev, magic]
    Ext2W,          \* number of values of a uint32_t (2^32 in the code)
    FileBlocks      \* sizes of init, in blocks

EXT2_ROOT_INO == 2

\* Block sizes that get_block_size knows; every group that is counted has a
\* block, and the root is among the i-nodes.
GeometryType ==
    [log : 0 .. 2, fdb : Nat, blocks : Nat, bpg : Nat \ {0}, ipg : Nat \ {0},
     groups : Nat \ {0}, gdt : Nat, rev : Nat, magic : BOOLEAN]

ASSUME Ext2Assumption ==
    /\ Ext2W \in Nat \ {0} /\ FileBlocks \subseteq Nat
    /\ Geometries \subseteq {e \in GeometryType :
         (e.groups - 1) * e.bpg < e.blocks /\ EXT2_ROOT_INO <= e.groups * e.ipg}

VARIABLES
    egeom,          \* the disk
    edrv,           \* the driver's ext2_fsdriver_t, or NoDriver
    emount,         \* how the mount ended: "yes", "panic", "wild"; "no" before
    einode,         \* the last i-node read: [number, sector, offset]
    efile           \* init as it was loaded: the sectors, in order

ext2Vars == <<egeom, edrv, emount, einode, efile>>

SECTOR_SIZE == 512
EXT2_SUPERBLOCK_SECTOR == 2
InodeSize == 128
VFS_NDIR_BLOCKS == 12
NoDriver == [block_size |-> 0, n_groups |-> 0, table |-> 0]
NoInode == [number |-> 0, sector |-> 0, offset |-> 0]

Ext2Init ==
    /\ egeom \in Geometries
    /\ edrv = NoDriver /\ emount = "no" /\ einode = NoInode /\ efile = <<>>

----------------------------------------------------------------------------
\* The disk.  The powers of a prime b.
IsPower(b, n) == n > 1 /\ \A d \in 2 .. n : n % d = 0 => d % b = 0

IsBackup(g) == egeom.rev = 0 \/ g \in {0, 1} \/ \E b \in {3, 5, 7} : IsPower(b, g)

TableBlock(g) ==
    egeom.fdb + g * egeom.bpg + (IF IsBackup(g) THEN 1 + egeom.gdt ELSE 0) + 2

BlockBytes == 1024 * 2^egeom.log
DescriptorSector == (egeom.fdb + 1) * (BlockBytes \div SECTOR_SIZE)

\* Block numbers in the i-node of init, and in its indirect block.
InitBlock(i) == 100 + i
Indirect(b, i) == b * 2000 + i

----------------------------------------------------------------------------
\* get_block_size: other indicators than 1 and 2 mean the default.
get_block_size == IF egeom.log = 1 THEN 2048 ELSE IF egeom.log = 2 THEN 4096 ELSE 1024

div_rup(a, b) == LET res == a \div b IN IF res * b < a THEN res + 1 ELSE res

\* bg_inode_table of group 0, if that is what the sector holds; anything,
\* here 0, otherwise.
ReadDescriptor(sector) == IF sector = DescriptorSector THEN TableBlock(0) ELSE 0

GroupSector(block_size) == egeom.fdb * block_size + EXT2_SUPERBLOCK_SECTOR

\* check_is_ext2 and ext2_get_sb.  On another file system vfs_mount_root
\* panics.  Without memory (ok FALSE) ext2_get_sb returns 0 and the super
\* block stays empty; vfs_mount_root goes on with it and calls through its
\* null sb_op, so that no code of this driver runs again.
ext2_get_sb(ok) ==
    /\ emount = "no"
    /\ emount' = IF ~egeom.magic THEN "panic" ELSE IF ~ok THEN "wild" ELSE "yes"
    /\ edrv' = IF emount' # "yes" THEN NoDriver
               ELSE LET block_size == get_block_size \div SECTOR_SIZE
                    IN  [block_size |-> block_size,
                         n_groups |-> div_rup(egeom.blocks, egeom.bpg),
                         table |-> ReadDescriptor(GroupSector(block_size))]
    /\ UNCHANGED <<egeom, einode, efile>>

\* Mutant: the first i-node of a group is taken for the last of the one
\* before it.
GroupOf_OffByOne(number) == number \div egeom.ipg

GroupOf(number) == (number - 1) \div egeom.ipg

\* The groups without a copy, as the loop takes them to be: not 1 and no
\* multiple of 3, 5 or 7.  Each of them moves the tables of all that follow.
NoCopy(i) == i # 1 /\ i % 3 # 0 /\ i % 5 # 0 /\ i % 7 # 0

GroupBlock(g) ==
    edrv.table + g * egeom.bpg
      - (IF egeom.rev > 0 THEN 2 * Cardinality({i \in 1 .. g : NoCopy(i)}) ELSE 0)

\* ext2_get_inode: the byte address of the i-node wraps like a uint32_t.
ext2_get_inode(n) ==
    LET number == IF n = 0 THEN EXT2_ROOT_INO ELSE n
        g == GroupOf(number)
        iblk == (number - g * egeom.ipg - 1) * InodeSize
        itab_addr == (GroupBlock(g) * get_block_size + iblk) % Ext2W
    IN  /\ emount = "yes"
        /\ einode' = [number |-> number, sector |-> itab_addr \div SECTOR_SIZE,
                      offset |-> iblk - (iblk \div SECTOR_SIZE) * SECTOR_SIZE]
        /\ UNCHANGED <<egeom, edrv, emount, efile>>

\* _ipow for the powers that vfs_bmap takes.
_ipow(x, y) == IF y = 0 THEN 1 ELSE x^y

Level(b_ind, n) ==
    IF b_ind < VFS_NDIR_BLOCKS THEN 0
    ELSE IF b_ind < VFS_NDIR_BLOCKS + n THEN 1
    ELSE IF b_ind < VFS_NDIR_BLOCKS + n + _ipow(n, 2) THEN 2 ELSE 3

\* The walk through the indirect blocks, with the same index on every level.
WalkDown(number, index, levels) ==
    LET walk[l \in 0 .. levels] == IF l = 0 THEN number ELSE Indirect(walk[l - 1], index)
    IN  walk[levels]

\* vfs_bmap: the number of the block that holds the byte at offset.
vfs_bmap(offset) ==
    LET blk_size == get_block_size
        n_entries == blk_size \div 4
        b_ind == offset \div blk_size
        ilevel == Level(b_ind, n_entries)
        index == (offset - (VFS_NDIR_BLOCKS + _ipow(n_entries, ilevel - 1) * blk_size))
                   \div (n_entries * blk_size)
    IN  IF ilevel = 0 THEN InitBlock(b_ind)
        ELSE WalkDown(InitBlock(VFS_NDIR_BLOCKS + ilevel - 1), index, ilevel)

\* ext2_get_fs_block reads the sectors of a block.
ext2_get_fs_block(blocknum) ==
    [i \in 1 .. get_block_size \div SECTOR_SIZE |-> blocknum * edrv.block_size + i - 1]

\* kernel_main_thread loads init, block by block.
LoadInit(fblocks) ==
    /\ emount = "yes"
    /\ efile' = FlattenSeq([i \in 1 .. fblocks |->
                              ext2_get_fs_block(vfs_bmap((i - 1) * get_block_size))])
    /\ UNCHANGED <<egeom, edrv, emount, einode>>

Ext2Next ==
    \/ \E ok \in BOOLEAN : ext2_get_sb(ok)
    \/ \E n \in 0 .. egeom.groups * egeom.ipg : ext2_get_inode(n)
    \/ \E fblocks \in FileBlocks : LoadInit(fblocks)

Ext2Spec == Ext2Init /\ [][Ext2Next]_ext2Vars

----------------------------------------------------------------------------
\* The group arithmetic is right as far as it goes: all groups of a revision
\* 0 disk, the first three of a later one with one block of descriptors.
Reached(g) == egeom.rev = 0 \/ (g <= 2 /\ egeom.gdt = 1)

\* The driver finds an i-node where the disk has it (ext2.c:187): on a disk
\* with blocks of 1 KB, in the groups its arithmetic reaches, and below the
\* address at which itab_addr wraps.  Its group is one of those counted.
Ext2InodeRight ==
    LET g == (einode.number - 1) \div egeom.ipg
        place == TableBlock(g) * BlockBytes + ((einode.number - 1) % egeom.ipg) * InodeSize
    IN  (einode # NoInode /\ egeom.log = 0 /\ Reached(g) /\ place < Ext2W) =>
            /\ einode.sector * SECTOR_SIZE + einode.offset = place
            /\ g < edrv.n_groups

\* A file of up to 13 blocks is loaded from the sectors it has on the disk,
\* in order (kernel.c:174, vfs.c:404).  From the 14th block on the index into
\* the indirect block stays behind.
InitLoaded ==
    LET spb == BlockBytes \div SECTOR_SIZE
        block(i) == IF i < VFS_NDIR_BLOCKS THEN InitBlock(i)
                    ELSE Indirect(InitBlock(VFS_NDIR_BLOCKS), i - VFS_NDIR_BLOCKS)
    IN  Len(efile) <= (VFS_NDIR_BLOCKS + 1) * spb =>
            \A k \in DOMAIN efile :
                efile[k] = block((k - 1) \div spb) * spb + ((k - 1) % spb)

\* I-nodes and the blocks of files are read where the disk has them
\* (ext2.c:189, vfs.c:404), within the limits given above.
Ext2Right == Ext2InodeRight /\ InitLoaded
=============================================================================
