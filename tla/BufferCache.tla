---------------------------- MODULE BufferCache ----------------------------
(***************************************************************************)
(* The block cache of one driver (fs/bhash.c): a hash table of blocks and  *)
(* a circular free list, both threaded through the block headers.          *)
(* kernel_main_thread is the only caller, and it calls bread and brelse    *)
(* only: a call is one action, in which read_sync_block has waited for the *)
(* driver.  bkernel chooses the caller: the thread as ext2.c makes it call *)
(* (mounting first, then one block at a time), or any thread that holds up *)
(* to BufMaxHeld blocks.                                                   *)
(*                                                                         *)
(* The code's pointer assignments are translated one by one, with NULL     *)
(* and self links, since what they do to the lists is the question here.   *)
(* create_hash_queue clears the pointer to the hash table it has just      *)
(* allocated, so that the table lies at address 0, in mapped memory; it is *)
(* a table of its own here.  bhits is history: has a lookup succeeded?     *)
(***************************************************************************)
EXTENDS Walks

LOCAL INSTANCE SequencesExt

CONSTANTS
    BUFF_QUEUE_SIZE,    \* headers of a queue, header 0 heads the free list
    Sectors,            \* the sectors read, pairs <<device, address>>
    BufSuper,           \* the first sector of the super block
    BufMaxHeld          \* bound: blocks that any thread holds at a time

BufSecond == <<BufSuper[1], BufSuper[2] + 1>>       \* and its second one

ASSUME BufferCacheAssumption ==
    /\ BUFF_QUEUE_SIZE \in Nat \ {0} /\ BufMaxHeld \in Nat
    /\ Sectors \subseteq Nat \X Nat /\ {BufSuper, BufSecond} \subseteq Sectors

VARIABLES
    bq,         \* the queue: a record of functions over the headers
    bheld,      \* what bread returned, in order: sequence of [buf, sec]
    bhung,      \* a walk over a list has not ended
    bhits,
    bkernel,    \* is it the kernel's mount that reads, or any thread?
    bcalls      \* how many of the mount's three first reads are done

bufVars == <<bq, bheld, bhung, bhits, bkernel, bcalls>>

Headers == 0 .. BUFF_QUEUE_SIZE - 1
HeadHdr == 0                \* freelist_head
Statuses == {"NONE", "UNLOCKED", "VALID", "BUSY", "HEAD"}

\* struct _buffer_header_t and struct _buff_hash_queue_t; data is the sector
\* last read into the block.
QueueType ==
    [addr : [Headers -> Nat], device : [Headers -> Nat], status : [Headers -> Statuses],
     data : [Headers -> {<<>>} \cup Sectors],
     prev : [Headers -> Headers \cup {NULL}], next : [Headers -> Headers \cup {NULL}],
     free_prev : [Headers -> Headers], free_next : [Headers -> Headers],
     hashtable : [0 .. 3 -> Headers \cup {NULL}]]

Key(q, b) == <<q.device[b], q.addr[b]>>

\* The loop puts header i between i - 1 and the head.
create_hash_queue ==
    LET last == BUFF_QUEUE_SIZE - 1
    IN  [addr |-> [b \in Headers |-> 0], device |-> [b \in Headers |-> 0],
         status |-> [b \in Headers |-> IF b = HeadHdr THEN "HEAD" ELSE "NONE"],
         data |-> [b \in Headers |-> <<>>],
         prev |-> [b \in Headers |-> NULL], next |-> [b \in Headers |-> NULL],
         free_prev |-> [b \in Headers |-> IF b = HeadHdr THEN last ELSE b - 1],
         free_next |-> [b \in Headers |-> IF b = last THEN HeadHdr ELSE b + 1],
         hashtable |-> [i \in 0 .. 3 |-> NULL]]

BufInit ==
    /\ bq = create_hash_queue
    /\ bheld = <<>>
    /\ bhung = FALSE /\ bhits = FALSE
    /\ bkernel \in BOOLEAN /\ bcalls = 0

----------------------------------------------------------------------------
Bucket(s) == s[2] % 4
HashTrail(q, i) == Trail(q.next, q.hashtable[i], NULL)
FreeTrail(q) == Trail(q.free_next, q.free_next[HeadHdr], HeadHdr)
FreeSet(q) == {FreeTrail(q)[i] : i \in DOMAIN FreeTrail(q)}
Matching(q, s) == {b \in Headers : Key(q, b) = s}

\* Mutant: the device is not compared.
search_blk_AnyDevice(q, s) ==
    FirstIn(HashTrail(q, Bucket(s)), {b \in Headers : q.addr[b] = s[2]})

\* The block of sector s in its hash chain, or NULL.
search_blk(q, s) == FirstIn(HashTrail(q, Bucket(s)), Matching(q, s))

\* A search turns for ever if the chain has a cycle and no match before it.
SearchEnds(q, s) ==
    search_blk(q, s) # NULL \/ Ends(q.next, q.hashtable[Bucket(s)], NULL)

FreeSearchEnds(q, s) ==
    \/ FirstIn(FreeTrail(q), Matching(q, s)) # NULL
    \/ Ends(q.free_next, q.free_next[HeadHdr], HeadHdr)

\* The code changes the hash links of the neighbours on the free list and
\* leaves the block on it.
blk_remove_from_freelist(q, s) ==
    LET b == FirstIn(FreeTrail(q), Matching(q, s))
    IN  IF b = NULL THEN q
        ELSE [q EXCEPT !.prev[q.free_next[b]] = q.free_prev[b],
                       !.next[q.free_prev[b]] = q.free_next[b]]

\* The block of the free list that held s before, else the first one.
FreeChoice(q, s) ==
    LET b == FirstIn(FreeTrail(q), Matching(q, s))
    IN  IF b = NULL THEN q.free_next[HeadHdr] ELSE b

\* The queue after block b was taken off the free list.
get_free_blk(q, b) ==
    [q EXCEPT !.free_next[q.free_prev[b]] = q.free_next[b],
              !.free_prev[q.free_next[b]] = q.free_prev[b]]

\* The loop that unlinks the blocks of the old address from their chain,
\* over all blocks of the chain but the last; one turn of it.
UnhashTurn(st, key) ==
    LET q == st.q
        p == q.prev[st.tmp]
        n == q.next[st.tmp]
    IN  IF n = NULL THEN st
        ELSE [q |-> IF Key(q, st.tmp) # key THEN q
                    ELSE [q EXCEPT !.prev[n] = p, !.next = Put(@, p, n)],
              tmp |-> n]

Unhash(q, head, key) ==
    LET turn[k \in Nat] == IF k = 0 THEN [q |-> q, tmp |-> head] ELSE UnhashTurn(turn[k - 1], key)
    IN  turn[2 * BUFF_QUEUE_SIZE].q

\* The chain is left only if a block of the NEW device with the old address
\* is on it.
RemoveOld(q, b, s) ==
    LET key == <<s[1], q.addr[b]>>
        pos == q.addr[b] % 4
        head == q.hashtable[pos]
    IN  IF head = NULL \/ search_blk(q, key) = NULL THEN q
        ELSE IF q.next[head] = NULL THEN [q EXCEPT !.hashtable[pos] = NULL]
        ELSE Unhash(q, head, key)

\* The block leaves the chain of its old address, as far as RemoveOld does
\* it, and is put behind the last block of the chain of sector s; the block
\* may be that last one itself, and is its own successor then.
add_to_buff_queue(q, b, s) ==
    LET r == [RemoveOld(q, b, s) EXCEPT !.addr[b] = s[2], !.device[b] = s[1]]
        pos == Bucket(s)
        head == r.hashtable[pos]
        chain == HashTrail(r, pos)
        tmp == chain[Len(chain)]
    IN  IF head = NULL
        THEN [r EXCEPT !.next[b] = NULL, !.prev[b] = b, !.hashtable[pos] = b]
        ELSE IF r.next[head] = NULL
        THEN [r EXCEPT !.next[head] = b, !.prev[head] = NULL, !.next[b] = NULL, !.prev[b] = head]
        ELSE [r EXCEPT !.prev[b] = tmp, !.next[b] = NULL, !.next[tmp] = b]

\* The chains that add_to_buff_queue walks, before and after the removal.
AddEnds(q, b, s) ==
    LET pos == q.addr[b] % 4
        r == RemoveOld(q, b, s)
    IN  /\ q.hashtable[pos] # NULL => SearchEnds(q, <<s[1], q.addr[b]>>)
        /\ Ends(q.next, q.hashtable[pos], NULL)
        /\ Ends(r.next, r.hashtable[Bucket(s)], NULL)

----------------------------------------------------------------------------
\* getblk finds the block: it is busy only inside bread, so it is never
\* waited for; it is marked busy and, as far as blk_remove_from_freelist
\* does it, leaves the free list.  bread takes a busy block for valid.
BreadHit(s) ==
    LET b == search_blk(bq, s)
    IN  /\ b # NULL /\ SearchEnds(bq, s) /\ FreeSearchEnds(bq, s)
        /\ bq' = [blk_remove_from_freelist(bq, s) EXCEPT !.status[b] = "VALID"]
        /\ bheld' = Append(bheld, [buf |-> b, sec |-> s])
        /\ bhits' = TRUE
        /\ UNCHANGED bhung

\* getblk takes a free block, and bread reads it, unless it is marked valid:
\* the handler of the driver fills it and marks it valid.
BreadMiss(s) ==
    LET b == FreeChoice(bq, s)
        q == get_free_blk(bq, b)
    IN  /\ search_blk(bq, s) = NULL /\ SearchEnds(bq, s) /\ FreeSearchEnds(bq, s)
        /\ bq.free_next[HeadHdr] # HeadHdr
        /\ AddEnds(q, b, s)
        /\ bq' = [add_to_buff_queue(q, b, s) EXCEPT
                      !.data[b] = IF q.status[b] = "VALID" THEN @ ELSE s, !.status[b] = "VALID"]
        /\ bheld' = Append(bheld, [buf |-> b, sec |-> s])
        /\ UNCHANGED <<bhung, bhits>>

\* One of the walks of getblk does not end.
BreadHang(s) ==
    LET b == FreeChoice(bq, s)
    IN  /\ \/ ~SearchEnds(bq, s)
           \/ search_blk(bq, s) # NULL /\ ~FreeSearchEnds(bq, s)
           \/ /\ search_blk(bq, s) = NULL /\ bq.free_next[HeadHdr] # HeadHdr
              /\ FreeSearchEnds(bq, s) => ~AddEnds(get_free_blk(bq, b), b, s)
        /\ bhung' = TRUE
        /\ UNCHANGED <<bq, bheld, bhits>>

\* The calls of the thread.  check_is_ext2 reads the super block and releases
\* it; ext2_get_sb reads it again and, while it holds it, its second sector;
\* ext2_get_inode and ext2_get_fs_block release what they read before they
\* read again.
MayRead(s) ==
    IF bkernel
    THEN \/ bcalls < 2 /\ bheld = <<>> /\ s = BufSuper
         \/ bcalls = 2 /\ s = BufSecond
         \/ bcalls = 3 /\ bheld = <<>>
    ELSE Len(bheld) < BufMaxHeld

\* bread.  With an empty free list the thread sleeps until a block is
\* released, which only it could do: no action.
Bread ==
    /\ ~bhung
    /\ \E s \in Sectors : MayRead(s) /\ (BreadHit(s) \/ BreadMiss(s) \/ BreadHang(s))
    /\ bcalls' = IF bkernel /\ bcalls < 3 THEN bcalls + 1 ELSE bcalls
    /\ UNCHANGED bkernel

\* Mutant: the old last block is not linked to the released one.
Released_OneWay(q, b) ==
    LET last == q.free_prev[HeadHdr]
    IN  [q EXCEPT !.free_prev[b] = last, !.free_next[b] = HeadHdr,
                  !.free_prev[HeadHdr] = b, !.status[b] = "UNLOCKED"]

\* A valid block goes to the end of the free list, another one to its
\* beginning; the assignments are in the order of the code.
Released(q, b) ==
    LET last == q.free_prev[HeadHdr]
        first == q.free_next[HeadHdr]
        r == IF q.status[b] = "VALID"
             THEN [q EXCEPT !.free_prev[b] = last, !.free_next[b] = HeadHdr,
                            !.free_prev[HeadHdr] = b, !.free_next[last] = b]
             ELSE [q EXCEPT !.free_next[b] = first, !.free_prev[b] = HeadHdr,
                            !.free_next[HeadHdr] = b, !.free_prev[first] = b]
    IN  [r EXCEPT !.status[b] = "UNLOCKED"]

\* brelse of a block the thread holds; there is nobody to be woken up.
Brelse ==
    /\ ~bhung /\ ~(bkernel /\ bcalls = 2)
    /\ \E i \in DOMAIN bheld :
         /\ bq' = Released(bq, bheld[i].buf)
         /\ bheld' = RemoveAt(bheld, i)
    /\ UNCHANGED <<bhung, bhits, bkernel, bcalls>>

BufNext == Bread \/ Brelse

BufSpec == BufInit /\ [][BufNext]_bufVars

----------------------------------------------------------------------------
BufTypeOK ==
    /\ bq \in QueueType
    /\ bheld \in Seq([buf : Headers, sec : Sectors])
    /\ Len(bheld) <= IF bkernel THEN 2 ELSE BufMaxHeld
    /\ bhung \in BOOLEAN /\ bhits \in BOOLEAN /\ bkernel \in BOOLEAN /\ bcalls \in 0 .. 3

\* A block that bread has returned is the sector that was asked for, and
\* stays so until it is released: for the kernel's own reads, the mount's two
\* blocks at a time included, even though a cache hit leaves the block on the
\* free list and rewrites hash links that belong to other blocks
\* (bhash.c:160) and the reuse of a block leaves it on its old chain
\* (bhash.c:233); for any other caller until the first hit.  A walk may hang,
\* but no data are wrong.  Sector 0 of device 0 is not read.
BufRightBlock ==
    bkernel \/ ~bhits =>
        \A i \in DOMAIN bheld :
            Key(bq, bheld[i].buf) = bheld[i].sec /\ bq.data[bheld[i].buf] = bheld[i].sec

\* As long as no lookup has succeeded, the free list (bhash.c:73) is what it
\* is meant to be: a ring in both directions of exactly the blocks that are
\* not held.
BufRingUntilHit ==
    ~bhits =>
        /\ Ends(bq.free_next, bq.free_next[HeadHdr], HeadHdr)
        /\ \A b \in FreeSet(bq) \cup {HeadHdr} : bq.free_prev[bq.free_next[b]] = b
        /\ FreeSet(bq) = Headers \ ({HeadHdr} \cup {bheld[i].buf : i \in DOMAIN bheld})

\* "Remove buffer from free list and set as busy" (bhash.c:314): a block
\* that a caller holds is not on the free list.
BufHeldNotFree == \A i \in DOMAIN bheld : bheld[i].buf \notin FreeSet(bq)

\* Every pointer is that of a header, and the free list is whole until the
\* first lookup that succeeds (bhash.c:137, 195, 364).
BufListsSound == BufTypeOK /\ BufRingUntilHit
=============================================================================
