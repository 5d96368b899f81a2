-------------------------------- MODULE Vfs --------------------------------
(***************************************************************************)
(* The in-memory i-nodes of the virtual file system (fs/vfs.c), the mount  *)
(* of the root device (fs/mount.c) and the lookup of paths (fs/namei.c),   *)
(* as the one kernel thread that uses them calls them.                     *)
(*                                                                         *)
(* Only the root device is ever mounted, so that a bucket of the hash      *)
(* table never has to hold two i-nodes: a lookup that compares devices     *)
(* only finds whatever i-node is there.  The free list is a sequence; the  *)
(* code never puts an i-node back on it.  Paths and names are sequences of *)
(* characters.  External: the disk, a tree of directories whose blocks     *)
(* hold entries [ino, name] (directories of more than the 12 direct blocks *)
(* are outside the model: vfs_bmap).                                       *)
(*                                                                         *)
(* The memory of the objects is not cleared (vfs.c:105).  The lock word of *)
(* an i-node is never written, so it is whatever was there; the device of  *)
(* a free object is not written either, so that get_free_inode may prefer  *)
(* one by accident, but the objects are alike and here it is the first.    *)
(***************************************************************************)
EXTENDS Integers, Sequences

CONSTANTS
    VFS_MAX_OPEN_FILES,     \* i-node objects, object 0 heads the free list
    INODE_HASH_TABLE_SIZE,
    Tree,                   \* directory i-node |-> sequence of blocks
    DirBlocks,              \* blocks that the longest directory has
    Paths,                  \* the path names looked up
    FsTypes                 \* do the registered file systems know the device?

DirEntryType == [ino : Nat, name : Seq(STRING)]

ASSUME VfsAssumption ==
    /\ VFS_MAX_OPEN_FILES \in Nat \ {0} /\ INODE_HASH_TABLE_SIZE \in Nat \ {0}
    /\ FsTypes \in Seq(BOOLEAN) /\ Paths \subseteq Seq(STRING) /\ DirBlocks \in Nat
    /\ \A d \in DOMAIN Tree :
         /\ d \in Nat \ {0} /\ Tree[d] \in Seq(Seq(DirEntryType))
         /\ Len(Tree[d]) <= DirBlocks

VARIABLES
    vnode,      \* vnode[i]: i-node number of object i
    vtable,     \* inode_hash_table: object, or 0 for NULL
    vfree,      \* the free list: sequence of objects
    vroot,      \* i_root and i_cdir of the thread; 0 before the mount
    vlast,      \* the last call of vfs_namei, its result, and whether it
                \* could read every block
    vlocked,    \* objects whose lock word, never written, is not zero
    vstop       \* why the thread goes no further, or "no"

vfsVars == <<vnode, vtable, vfree, vroot, vlast, vlocked, vstop>>

NoObj == 0
Objects == 1 .. VFS_MAX_OPEN_FILES - 1
RootIno == 2                    \* EXT2_ROOT_INO, which number 0 stands for
DiskIno(n) == IF n = 0 THEN RootIno ELSE n
IsDir(n) == DiskIno(n) \in DOMAIN Tree

\* A cache: what register_all_fs_types sets up.
register_all_fs_types ==
    [node |-> [i \in Objects |-> 0],
     table |-> [h \in 0 .. INODE_HASH_TABLE_SIZE - 1 |-> NoObj],
     free |-> [i \in Objects |-> i], stop |-> "no"]

\* panic, asleep for a lock that nobody releases, or at a wild address.
Stops == {"no", "panic", "asleep", "wild"}

Current == [node |-> vnode, table |-> vtable, free |-> vfree, stop |-> vstop]

VfsInit ==
    /\ vnode = register_all_fs_types.node
    /\ vtable = register_all_fs_types.table
    /\ vfree = register_all_fs_types.free
    /\ vroot = NoObj
    /\ vlast = [path |-> <<>>, obj |-> NoObj, whole |-> TRUE]
    /\ vlocked \in SUBSET Objects
    /\ vstop = "no"

----------------------------------------------------------------------------
hash(n) == n % INODE_HASH_TABLE_SIZE

\* The first i-node of the bucket with the root's device: the number is not
\* compared.
search_inode(c, n) == c.table[hash(n)]

\* Mutant: the i-node stays on the free list.
NewInode_StaysFree(c, n) ==
    IF c.free = <<>> THEN [c EXCEPT !.stop = "panic"]
    ELSE [c EXCEPT !.node[Head(c.free)] = n, !.table[hash(n)] = Head(c.free)]

\* get_free_inode takes the first free i-node and reads it; it panics if
\* there is none.
\* add_inode_htable puts it into its bucket, which the failed search has
\* shown to be empty.
NewInode(c, n) ==
    IF c.free = <<>> THEN [c EXCEPT !.stop = "panic"]
    ELSE [c EXCEPT !.node[Head(c.free)] = n,
                   !.table[hash(n)] = Head(c.free),
                   !.free = Tail(@)]

\* mutex_is_locked: any word above zero counts as locked.
mutex_is_locked(i) == i \in vlocked

\* vfs_iget: cache and object.  For a found i-node that looks locked the
\* thread sleeps, and nobody wakes it: no code unlocks an i-node.  A found
\* i-node is never on the free list, and inode_remove_from_freelist changes
\* links of the hash chain only, which a free object has no use for.
vfs_iget(c, n) ==
    IF search_inode(c, n) # NoObj
    THEN IF mutex_is_locked(search_inode(c, n))
         THEN [c |-> [c EXCEPT !.stop = "asleep"], obj |-> NoObj]
         ELSE [c |-> c, obj |-> search_inode(c, n)]
    ELSE [c |-> NewInode(c, n), obj |-> IF c.free = <<>> THEN NoObj ELSE Head(c.free)]

\* The entry of a block that the inner loop of _vfs_find_component stops at:
\* the first with the name, if no unused entry (i-node 0) comes before it.
EntryIn(block, name) ==
    LET hits == {i \in DOMAIN block :
                   /\ block[i].name = name /\ block[i].ino # 0
                   /\ \A j \in 1 .. i - 1 : block[j].ino # 0 /\ block[j].name # name}
    IN  IF hits = {} THEN 0 ELSE block[CHOOSE i \in hits : TRUE].ino

\* The outer loop goes on to the last block even after the name was found.
FindTurn(r, block, name) ==
    IF r.c.stop # "no" \/ EntryIn(block, name) = 0 THEN r
    ELSE vfs_iget(r.c, EntryIn(block, name))

\* The blocks before the one that get_fs_block has no memory for.
BlocksRead(blocks, reads) == IF reads < Len(blocks) THEN reads ELSE Len(blocks)

\* A block that cannot be read ends the search with what it has found.
Find(c, blocks, name, reads) ==
    LET found[k \in 0 .. Len(blocks)] ==
          IF k = 0 THEN [c |-> c, obj |-> NoObj] ELSE FindTurn(found[k - 1], blocks[k], name)
    IN  found[BlocksRead(blocks, reads)]

_vfs_find_component(c, obj, name, reads) ==
    IF ~IsDir(c.node[obj]) THEN [c |-> c, obj |-> NoObj]
    ELSE Find(c, Tree[DiskIno(c.node[obj])], name, reads)

\* A component ends at a slash or at the end of the path.
AtCut(path, i) == i > Len(path) \/ path[i] = "/"
DotDot == <<".", ".">>

\* How many blocks each component's search can read.
Reads(path) == [{i \in 2 .. Len(path) + 1 : AtCut(path, i)} -> 0 .. DirBlocks]
AllRead(reads) == \A i \in DOMAIN reads : reads[i] = DirBlocks

\* A turn of the loop of vfs_namei at character i; a lookup that has failed
\* has returned.
NameiTurn(st, path, reads, i) ==
    LET comp == SubSeq(path, st.start, i - 1)
        r == _vfs_find_component(st.c, st.obj, comp, reads[i])
    IN  IF ~AtCut(path, i) THEN st
        ELSE IF \/ st.obj = NoObj \/ st.c.stop # "no" \/ comp = <<>>
                \/ comp = DotDot /\ path[1] = "/"
        THEN [st EXCEPT !.start = i + 1]
        ELSE [c |-> r.c, obj |-> r.obj, start |-> i + 1]

\* i_root and i_cdir are both the root of the mounted device.  The loop
\* starts at the second character, so that a relative path loses its first.
vfs_namei(c, path, reads) ==
    LET turn[i \in 1 .. Len(path) + 1] ==
          IF i = 1 THEN [c |-> c, obj |-> vroot, start |-> 2]
          ELSE NameiTurn(turn[i - 1], path, reads, i)
    IN  turn[Len(path) + 1]

Becomes(c) ==
    vnode' = c.node /\ vtable' = c.table /\ vfree' = c.free /\ vstop' = c.stop

----------------------------------------------------------------------------
\* vfs_mount_root: the first file system that knows the device is asked for
\* the super block and the root i-node, number 0; without one it panics, and
\* so does the caller if the root is no directory.  The result of get_sb is
\* not looked at: without memory for the super block (sb FALSE) it stays
\* empty, and get_free_inode calls get_inode through its null sb_op.
vfs_mount_root(sb) ==
    /\ vroot = NoObj /\ vstop = "no"
    /\ IF sb /\ \E i \in DOMAIN FsTypes : FsTypes[i]
       THEN LET r == vfs_iget(Current, 0)
            IN  /\ Becomes([r.c EXCEPT !.stop = IF @ = "no" /\ ~IsDir(0) THEN "panic" ELSE @])
                /\ vroot' = IF IsDir(0) THEN r.obj ELSE NoObj
       ELSE /\ vstop' = IF \E i \in DOMAIN FsTypes : FsTypes[i] THEN "wild" ELSE "panic"
            /\ UNCHANGED <<vnode, vtable, vfree, vroot>>
    /\ UNCHANGED <<vlast, vlocked>>

\* The thread looks up a path.
Namei ==
    /\ vroot # NoObj /\ vstop = "no"
    /\ \E path \in Paths : \E reads \in Reads(path) :
         LET r == vfs_namei(Current, path, reads)
         IN  /\ Becomes(r.c)
             /\ vlast' = [path |-> path, obj |-> IF r.c.stop # "no" THEN NoObj ELSE r.obj,
                          whole |-> AllRead(reads)]
    /\ UNCHANGED <<vroot, vlocked>>

VfsNext == (\E sb \in BOOLEAN : vfs_mount_root(sb)) \/ Namei

VfsSpec == VfsInit /\ [][VfsNext]_vfsVars

----------------------------------------------------------------------------
VfsTypeOK ==
    /\ vnode \in [Objects -> Nat]
    /\ vtable \in [0 .. INODE_HASH_TABLE_SIZE - 1 -> {NoObj} \cup Objects]
    /\ vfree \in Seq(Objects) /\ vroot \in {NoObj} \cup Objects
    /\ vlast.path \in {<<>>} \cup Paths /\ vlast.obj \in {NoObj} \cup Objects
    /\ vlocked \subseteq Objects /\ vstop \in Stops

Entries(ino) ==
    IF ino \notin DOMAIN Tree THEN {}
    ELSE UNION {{Tree[ino][k][i] : i \in DOMAIN Tree[ino][k]} : k \in DOMAIN Tree[ino]}

\* What a path names, taken from the tree alone: 0 if nothing.
Child(ino, name) ==
    IF \E e \in Entries(ino) : e.name = name
    THEN (CHOOSE e \in Entries(ino) : e.name = name).ino ELSE 0

\* The part of an absolute path that ends before character i.
LastCut(path, i) ==
    CHOOSE j \in 1 .. i - 1 : path[j] = "/" /\ \A m \in j + 1 .. i - 1 : path[m] # "/"
Part(path, i) == SubSeq(path, LastCut(path, i) + 1, i - 1)

Named(path) ==
    LET upto[i \in 1 .. Len(path) + 1] ==
          IF i = 1 THEN RootIno
          ELSE IF AtCut(path, i) /\ Part(path, i) # <<>> THEN Child(upto[i - 1], Part(path, i))
          ELSE upto[i - 1]
    IN  upto[Len(path) + 1]

Absolute(path) ==
    /\ path # <<>> /\ path[1] = "/"
    /\ \A i \in 2 .. Len(path) + 1 : AtCut(path, i) => Part(path, i) # DotDot

\* "Search for an i-node on i-nodes queue. \param number i-node number"
\* (vfs.c:168): a lookup that returns an i-node returns the one that the path
\* names, whatever else is cached.
VfsFoundIsNamed ==
    (Absolute(vlast.path) /\ vlast.obj # NoObj) =>
        DiskIno(vnode[vlast.obj]) = Named(vlast.path)

\* vfs_namei (namei.c:41) finds the file that an absolute path without ".."
\* names, and nothing if it names none, whatever was looked up before and
\* is cached: the root is cached as number 0 and again as the number its
\* entry "." gives it, and both are the same directory.  A directory block
\* that cannot be read hides files, but never leads to another one.
VfsNameiRight ==
    /\ VfsFoundIsNamed
    /\ (/\ Absolute(vlast.path) /\ vstop = "no"
        /\ vlast.obj = NoObj /\ Named(vlast.path) # 0) => ~vlast.whole

\* The cache never holds an i-node twice, no object in use is on the free
\* list, and every object in use can be found (vfs.c:359): nothing is lost
\* although i-nodes are never released.
VfsCacheWhole ==
    LET used == {i \in Objects : \A k \in DOMAIN vfree : vfree[k] # i}
    IN  /\ \A i, j \in used : vnode[i] = vnode[j] => i = j
        /\ \A i \in used : vtable[hash(vnode[i])] = i
        /\ \A h \in DOMAIN vtable : vtable[h] # NoObj => vtable[h] \in used

\* A path leads to its file and no i-node object is lost or doubled
\* (vfs.c:359, namei.c:41), whatever was looked up before.
VfsRight == VfsTypeOK /\ VfsNameiRight /\ VfsCacheWhole
=============================================================================
