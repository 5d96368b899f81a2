------------------------------- MODULE Memory -------------------------------
(***************************************************************************)
(* The page allocator of the kernel: the stack of free physical pages      *)
(* (arch/x86/mm/mm.c), the bitmap of virtual pages (kernel/mm/init_mm.c),  *)
(* _vmalloc_ and kfree (kernel/mm/kmalloc.c).                              *)
(*                                                                         *)
(* A call runs to its end before the next one begins: the code has no      *)
(* lock, and callers that preempt each other are not modelled.  A physical *)
(* page is a number from 1 on; 0 is an empty entry.  The stack is longer   *)
(* than the pages it is filled with, since its length is counted from all  *)
(* the memory above 1 MB; what lies behind them was never written, so each *)
(* of these words is 0 or Unfilled, the address of any page.  The tables are   *)
(* contiguous in memory (make_kerneldir), so the entry behind the last one *)
(* of a table is the first one of the next: table[p] is the entry of       *)
(* virtual page p.  live and spoiled are history: the regions handed out   *)
(* and not yet freed, and whether a page in use may have been handed out   *)
(* or may be on the stack: since a word never written was handed out, a    *)
(* region of several pages was freed, or an allocation that failed has     *)
(* given back a page of the kernel.                                        *)
(***************************************************************************)
EXTENDS Integers, FiniteSets, FiniteSetsExt

CONSTANTS
    Phys,           \* number of free physical pages
    stack_max_top,  \* number of words of the stack of free pages
    Virt,           \* bound: number of virtual pages
    KPages,         \* virtual pages 0 .. KPages - 1 belong to the kernel
    Stale,          \* entries behind them that init_pg leaves mapped to it
    Bits,           \* bits of a byte of the bitmap
    TABLE_SIZE,     \* entries of a page table
    PAGE_SIZE,
    Header,         \* sizeof(mregion)
    Sizes           \* the sizes that are asked for

ASSUME MemoryAssumption ==
    /\ {Phys, Virt, KPages, Bits, TABLE_SIZE, PAGE_SIZE, Header} \subseteq Nat \ {0}
    /\ Sizes \subseteq Nat
    /\ stack_max_top \in Nat /\ Phys <= stack_max_top
    /\ Stale \in Nat /\ KPages + Stale <= Virt
    /\ \A size \in Sizes : Header + size < PAGE_SIZE * (TABLE_SIZE - 1)

VPages == 0 .. Virt - 1

VARIABLES
    bitmap,         \* the virtual pages whose bit is set
    table,          \* table[p]: the physical page mapped at p
    stack_pages, stack_top,     \* entries from stack_top on are free
    hung,           \* kfree has run away
    live, spoiled

memVars == <<bitmap, table, stack_pages, stack_top, hung, live, spoiled>>

\* A physical page of the kernel itself.
Kernel == Phys + 1

\* A word that init_pg has not written and that is not 0.
Unfilled == Phys + 2

\* The bits that init_mm sets (those of the kernel at 3 GB are out of bounds).
KernelBits == 0 .. KPages - 1

\* The tables after make_kerneldir and init_pg, which maps the kernel at its
\* physical addresses too and unmaps whole tables only.
KernelTables == [p \in VPages |-> IF p < KPages + Stale THEN Kernel ELSE 0]

\* init_pg and init_mm.
MemInit ==
    /\ bitmap = KernelBits
    /\ table = KernelTables
    /\ \E tail \in [Phys .. stack_max_top - 1 -> {0, Unfilled}] :
          stack_pages = [i \in 0 .. stack_max_top - 1 |-> IF i < Phys THEN i + 1 ELSE tail[i]]
    /\ stack_top = 0
    /\ hung = FALSE /\ live = {} /\ spoiled = FALSE

----------------------------------------------------------------------------
\* PAGE_ALIGN(sizeof(mregion) + size) >> PAGE_SHIFT
PagesFor(size) == (Header + size + PAGE_SIZE - 1) \div PAGE_SIZE

\* Mutant: apages < npages.
Mapped_Exact(n) == n

\* The pages that the loop maps for a region of n: apages <= npages.
Mapped(n) == n + 1

\* Where n free pages in a row begin.
Fits(n) == {p \in VPages : p + n <= Virt /\ bitmap \cap (p .. p + n - 1) = {}}

\* Mutant: pstart is marked instead of pstart + apages.
Marked_First(s, k) == {s}

\* bmap_on for each of the k pages mapped from s on.
Marked(s, k) == s .. s + k - 1

\* The entry that the a-th page of a region at s is written to.  The index i
\* runs up to TABLE_SIZE inclusive before the next table is taken, whose
\* first entry is then written again.
Entry(s, a) ==
    IF (s % TABLE_SIZE) + a <= TABLE_SIZE THEN s + a ELSE s + a - 1

\* How many pages alloc_page hands out before it returns 0: at the end of the
\* stack, or at an entry that is 0.
Available ==
    Min({i \in stack_top .. stack_max_top - 1 : stack_pages[i] = 0} \cup {stack_max_top}) - stack_top

\* stack_top after a call of alloc_page that returned 0 behind k that did not:
\* an entry that is 0 is taken off the stack.
TopAfter(k) ==
    IF stack_top + k = stack_max_top THEN stack_max_top ELSE stack_top + k + 1

\* The tables with k pages of the stack mapped from s on.
WithPages(s, k) ==
    [p \in VPages |->
        LET as == {a \in 0 .. k - 1 : Entry(s, a) = p}
        IN  IF as = {} THEN table[p] ELSE stack_pages[stack_top + Max(as)]]

\* free_page(page[0]), ..., free_page(page[k - 1]) with stack_top = top.
PushAll(top, k, page) ==
    /\ stack_top' = IF k <= top THEN top - k ELSE 0
    /\ stack_pages' = [i \in 0 .. stack_max_top - 1 |->
                          IF i < top /\ i >= top - k THEN page[top - 1 - i] ELSE stack_pages[i]]

----------------------------------------------------------------------------
\* _vmalloc_ succeeds: a page more than asked for is mapped and marked.
Kmalloc(size) ==
    LET n == PagesFor(size)
        s == Min(Fits(n))
        k == Mapped(n)
    IN  /\ ~hung
        /\ Fits(n) # {} /\ s + k <= Virt
        /\ k <= Available
        /\ table' = WithPages(s, k)
        /\ bitmap' = bitmap \cup Marked(s, k)
        /\ stack_top' = stack_top + k
        /\ live' = live \cup {[start |-> s, size |-> n]}
        /\ spoiled' = (spoiled \/ \E a \in 0 .. k - 1 : stack_pages[stack_top + a] = Unfilled)
        /\ UNCHANGED <<stack_pages, hung>>

\* table[i] = 0 for the k entries from first downwards.
Unmapped(t, first, k) ==
    [p \in VPages |-> IF p <= first /\ p > first - k THEN 0 ELSE t[p]]

\* _vmalloc_ runs out of physical pages after k of them.  What is given back
\* begins at the entry that was to be filled next; the bits stay set.
KmallocFails(size) ==
    LET n == PagesFor(size)
        s == Min(Fits(n))
        k == Available
        t == WithPages(s, k)
        first == Entry(s, k)
        page == [d \in 0 .. k - 1 |-> t[first - d]]
    IN  /\ ~hung
        /\ Fits(n) # {} /\ s + Mapped(n) <= Virt
        /\ k < Mapped(n)
        /\ bitmap' = bitmap \cup Marked(s, k)
        /\ PushAll(TopAfter(k), k, page)
        /\ table' = Unmapped(t, first, k)
        /\ spoiled' = (spoiled \/ \E d \in 0 .. k - 1 : page[d] = Kernel)
        /\ UNCHANGED <<hung, live>>

----------------------------------------------------------------------------
\* The bits that bmap_off sets for page p: all others of its byte.
OthersOfByte(p) == {q \in VPages : q \div Bits = p \div Bits /\ q # p}

\* kfree(r).  The loop counts pages up from the first, but walks the table
\* downwards from it; the bits are those of start + ffpage and following.
\* With ffpage = 0 the unsigned loop variable never falls below it.
Kfree(r) ==
    LET f == r.start % TABLE_SIZE
        j == r.start \div TABLE_SIZE
        entry(d) == IF d <= f THEN r.start - d ELSE (j - (d - f)) * TABLE_SIZE
        off == {r.start + f + d : d \in 0 .. r.size - 1}
    IN  /\ ~hung
        /\ r \in live
        /\ live' = live \ {r}
        /\ IF f = 0
           THEN /\ hung' = TRUE
                /\ UNCHANGED <<bitmap, stack_pages, stack_top, spoiled>>
           ELSE /\ \A p \in off : p \in VPages
                /\ r.size - 1 <= f + j
                /\ PushAll(stack_top, r.size, [d \in 0 .. r.size - 1 |-> table[entry(d)]])
                /\ bitmap' = bitmap \cup UNION {OthersOfByte(p) : p \in off}
                /\ spoiled' = (spoiled \/ r.size > 1)
                /\ UNCHANGED hung
        /\ UNCHANGED table

MemNext ==
    \/ \E size \in Sizes : Kmalloc(size) \/ KmallocFails(size)
    \/ \E r \in live : Kfree(r)

MemSpec == MemInit /\ [][MemNext]_memVars

----------------------------------------------------------------------------
\* Types; the stack pointer stays inside the stack.
MemTypeOK ==
    /\ bitmap \subseteq VPages
    /\ table \in [VPages -> 0 .. Unfilled]
    /\ stack_pages \in [0 .. stack_max_top - 1 -> 0 .. Unfilled]
    /\ stack_top \in 0 .. stack_max_top
    /\ hung \in BOOLEAN /\ spoiled \in BOOLEAN
    /\ \A r \in live : r.start \in VPages /\ r.size \in Nat

PagesOf(r) == r.start .. r.start + r.size - 1

\* The regions handed out do not overlap, nor do they overlap the kernel.
Disjoint ==
    \A r \in live :
        /\ PagesOf(r) \cap (0 .. KPages - 1) = {}
        /\ \A q \in live \ {r} : PagesOf(r) \cap PagesOf(q) = {}

\* Every page of a region is mapped, to a physical page that is mapped
\* nowhere else in a region and is not free, though the index runs over the
\* end of a table and allocations fail at a word 0: until a word that was
\* never written is handed out or a page in use is given back.
Owned == ~spoiled =>
    \A r \in live : \A p \in PagesOf(r) :
        /\ table[p] \in 1 .. Phys
        /\ \A i \in stack_top .. stack_max_top - 1 : stack_pages[i] # table[p]
        /\ \A q \in live : \A o \in PagesOf(q) : table[o] = table[p] => o = p

\* No allocation, successful or not, and no kfree changes the mapping of a
\* region that is in use, although one page too many is mapped each time.
RegionStable ==
    [][\A r \in live \cap live' : \A p \in PagesOf(r) : table'[p] = table[p]]_memVars

\* Regions in use do not meet, and each has the pages it is mapped to for
\* itself (kmalloc.c:54, 192).
RegionsSound == MemTypeOK /\ Disjoint /\ Owned
=============================================================================
