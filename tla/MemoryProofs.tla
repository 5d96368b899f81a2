---------------------------- MODULE MemoryProofs ----------------------------
(***************************************************************************)
(* The regions of the page allocator are disjoint, keep their mapping and  *)
(* own their physical pages, for every amount of memory, size of a table   *)
(* and of the bitmap's bytes, and for all sizes that are asked for.        *)
(*                                                                         *)
(* Bits are only ever set, and a region begins right behind a page whose   *)
(* bit is set (first fit).  So the page before a mapped page is always     *)
(* marked, and the page that is mapped in excess behind a new region is    *)
(* never one of another region.                                            *)
(***************************************************************************)
EXTENDS Memory, Procs, Residues, FiniteSetTheorems, TLAPS

\* A region lies on marked pages, behind a marked page and the kernel.
RegionsMarked ==
    /\ KernelBits \subseteq bitmap
    /\ \A r \in live :
          /\ r.size \in Nat \ {0} /\ r.start >= KPages
          /\ \A p \in PagesOf(r) : p \in bitmap /\ p - 1 \in bitmap

\* So does every page that is mapped.
MappedMarked ==
    \A p \in VPages : table[p] \notin {0, Kernel} =>
        p \in bitmap /\ p - 1 \in bitmap

\* The free entries of the stack: no page of the kernel, no page twice but
\* for words that were never written.
StackClean ==
    \A i \in stack_top .. stack_max_top - 1 :
        /\ stack_pages[i] # Kernel
        /\ \A j \in stack_top .. stack_max_top - 1 :
              i # j /\ stack_pages[i] = stack_pages[j] => stack_pages[i] \in {0, Unfilled}

\* The inductive invariant.
MemInv ==
    /\ MemTypeOK
    /\ RegionsMarked
    /\ Disjoint
    /\ MappedMarked
    /\ ~spoiled => StackClean
    /\ Owned

----------------------------------------------------------------------------
\* The types of the constants.
LEMMA Constants ==
  /\ Phys \in Nat \ {0} /\ Virt \in Nat \ {0} /\ KPages \in Nat \ {0}
  /\ Bits \in Nat \ {0} /\ TABLE_SIZE \in Nat \ {0} /\ PAGE_SIZE \in Nat \ {0}
  /\ Header \in Nat \ {0} /\ Kernel = Phys + 1 /\ Unfilled = Phys + 2
  /\ Stale \in Nat /\ KPages + Stale <= Virt
  /\ stack_max_top \in Nat \ {0} /\ Phys <= stack_max_top
BY MemoryAssumption DEF Kernel, Unfilled

\* The least element of a set of numbers.
LEMMA MinNat ==
  ASSUME NEW S \in SUBSET Nat, S # {}
  PROVE  Min(S) \in S /\ \A y \in S : Min(S) <= y
BY LeastNat DEF Min

\* The greatest element of a finite set of numbers.
LEMMA MaxNat ==
  ASSUME NEW n \in Nat, NEW S \in SUBSET (0 .. n), S # {}
  PROVE  Max(S) \in S
BY GreatestNat DEF Max

\* Every request is for one page at least: the header is counted.
LEMMA PagesForPositive ==
  ASSUME NEW size \in Sizes
  PROVE  PagesFor(size) \in Nat \ {0}
<1> DEFINE x == Header + size + PAGE_SIZE - 1
<1>1. x \in Nat /\ x >= PAGE_SIZE
  BY MemoryAssumption, Constants
<1>2. /\ x \div PAGE_SIZE \in Nat /\ x % PAGE_SIZE \in 0 .. PAGE_SIZE - 1
      /\ x = PAGE_SIZE * (x \div PAGE_SIZE) + (x % PAGE_SIZE)
  BY <1>1, DivMod, Constants
<1>3. x \div PAGE_SIZE # 0
  <2> HIDE DEF x
  <2> QED
    BY <1>1, <1>2, Constants
<1> QED
  BY <1>2, <1>3 DEF PagesFor

\* alloc_page hands out Available pages, none of them 0.
LEMMA AvailableFacts ==
  ASSUME MemTypeOK
  PROVE  /\ Available \in Nat /\ stack_top + Available <= stack_max_top
         /\ \A i \in stack_top .. stack_top + Available - 1 : stack_pages[i] # 0
<1> DEFINE S == {i \in stack_top .. stack_max_top - 1 : stack_pages[i] = 0} \cup {stack_max_top}
<1>1. stack_top \in 0 .. stack_max_top
  BY DEF MemTypeOK
<1>2. S \in SUBSET Nat /\ S # {}
  BY <1>1, Constants
<1>3. Min(S) \in S /\ \A y \in S : Min(S) <= y
  BY <1>2, MinNat
<1>4. Available = Min(S) - stack_top
  BY DEF Available
<1>5. /\ Available \in Nat /\ stack_top + Available = Min(S) /\ Min(S) \in 0 .. stack_max_top
      /\ stack_top + Available <= stack_max_top
  BY <1>1, <1>3, <1>4, Constants
<1>6. ASSUME NEW i \in stack_top .. stack_top + Available - 1 PROVE stack_pages[i] # 0
  BY <1>1, <1>3, <1>5, <1>6, Constants
<1> QED
  BY <1>5, <1>6

\* First fit: the pages found are free, and the one before them is not.
LEMMA FitsFacts ==
  ASSUME MemTypeOK, RegionsMarked, NEW n \in Nat \ {0}, Fits(n) # {}
  PROVE  /\ Min(Fits(n)) \in VPages /\ Min(Fits(n)) >= KPages
         /\ \A i \in 0 .. n - 1 : Min(Fits(n)) + i \notin bitmap
         /\ Min(Fits(n)) - 1 \in bitmap
<1> DEFINE s == Min(Fits(n))
<1>1. Fits(n) \in SUBSET Nat
  BY Constants DEF Fits, VPages
<1>2. s \in Fits(n) /\ \A y \in Fits(n) : s <= y
  BY <1>1, MinNat
<1> HIDE DEF s
<1>3. s \in VPages /\ s \in Nat /\ s + n <= Virt /\ bitmap \cap (s .. s + n - 1) = {}
  BY <1>2, Constants DEF Fits, VPages
<1>4. \A i \in 0 .. n - 1 : s + i \notin bitmap
  BY <1>3
<1>5. s >= KPages
  BY <1>3, <1>4, Constants DEF RegionsMarked, KernelBits
<1>6. s - 1 \in bitmap
  <2> SUFFICES ASSUME s - 1 \notin bitmap PROVE FALSE
    OBVIOUS
  <2>1. s - 1 \in VPages /\ (s - 1) + n <= Virt
    BY <1>3, <1>5, Constants DEF VPages
  <2>2. bitmap \cap ((s - 1) .. (s - 1) + n - 1) = {}
    BY <1>3, <1>4
  <2>3. s - 1 \in Fits(n)
    BY <2>1, <2>2 DEF Fits
  <2> QED
    BY <1>2, <1>3, <2>3
<1> QED
  BY <1>3, <1>4, <1>5, <1>6 DEF s

----------------------------------------------------------------------------
\* The entries written are those of the region, and not one is left out up to
\* the last but one page.
LEMMA EntryRange ==
  ASSUME NEW s \in Nat, NEW a \in Nat
  PROVE  Entry(s, a) \in Nat /\ Entry(s, a) >= s /\ Entry(s, a) \in {s + a, s + a - 1}
<1>1. s % TABLE_SIZE \in 0 .. TABLE_SIZE - 1
  BY DivMod, Constants
<1> QED
  BY <1>1, Constants DEF Entry

\* The entries that a call writes cover the pages of its region.
LEMMA EntryCovers ==
  ASSUME NEW s \in Nat, NEW k \in Nat, NEW b \in Nat, b + 1 < k
  PROVE  \E a \in 0 .. k - 1 : Entry(s, a) = s + b
<1>1. s % TABLE_SIZE \in 0 .. TABLE_SIZE - 1
  BY DivMod, Constants
<1>2. CASE (s % TABLE_SIZE) + b <= TABLE_SIZE
  <2>1. Entry(s, b) = s + b /\ b \in 0 .. k - 1
    BY <1>2 DEF Entry
  <2> QED
    BY <2>1
<1>3. CASE (s % TABLE_SIZE) + b > TABLE_SIZE
  <2>1. Entry(s, b + 1) = s + b /\ b + 1 \in 0 .. k - 1
    BY <1>1, <1>3, Constants DEF Entry
  <2> QED
    BY <2>1
<1> QED
  BY <1>1, <1>2, <1>3, Constants

\* p holds a page that has just been taken off the stack.
Filled(s, k, p) ==
    \E a \in 0 .. k - 1 :
        Entry(s, a) = p /\ WithPages(s, k)[p] = stack_pages[stack_top + a]

\* What the mapping of a region changes in the page tables.
LEMMA WithPagesFacts ==
  ASSUME MemTypeOK, NEW s \in Nat, NEW k \in Nat, stack_top + k <= stack_max_top,
         NEW p \in VPages
  PROVE  /\ WithPages(s, k)[p] \in 0 .. Unfilled
         /\ Filled(s, k, p) \/ WithPages(s, k)[p] = table[p]
         /\ ~Filled(s, k, p) => \A a \in 0 .. k - 1 : Entry(s, a) # p
         /\ Filled(s, k, p) => p \in s .. s + k - 1
<1> DEFINE as == {a \in 0 .. k - 1 : Entry(s, a) = p}
<1>1. WithPages(s, k)[p] = IF as = {} THEN table[p] ELSE stack_pages[stack_top + Max(as)]
  BY DEF WithPages
<1>2. CASE as = {}
  <2>1. WithPages(s, k)[p] = table[p] /\ table[p] \in 0 .. Unfilled
    BY <1>1, <1>2 DEF MemTypeOK
  <2>2. ~Filled(s, k, p)
    BY <1>2 DEF Filled
  <2> QED
    BY <1>2, <2>1, <2>2
<1>3. CASE as # {}
  <2>1. k - 1 \in Nat /\ as \in SUBSET (0 .. k - 1)
    BY <1>3
  <2>2. Max(as) \in as
    BY <1>3, <2>1, MaxNat
  <2> DEFINE m == Max(as)
  <2> HIDE DEF m
  <2>3. m \in 0 .. k - 1 /\ Entry(s, m) = p
    BY <2>2 DEF m
  <2>4. WithPages(s, k)[p] = stack_pages[stack_top + m]
    BY <1>1, <1>3 DEF m
  <2>5. stack_top + m \in 0 .. stack_max_top - 1
    BY <2>3, Constants DEF MemTypeOK
  <2>6. stack_pages[stack_top + m] \in 0 .. Unfilled
    BY <2>5 DEF MemTypeOK
  <2>7. Filled(s, k, p)
    BY <2>3, <2>4 DEF Filled
  <2>8. Entry(s, m) >= s /\ Entry(s, m) \in {s + m, s + m - 1}
    BY <2>3, EntryRange
  <2>9. p \in s .. s + k - 1
    BY <2>3, <2>8
  <2> QED
    BY <2>4, <2>6, <2>7, <2>9
<1> QED
  BY <1>2, <1>3

\* Two entries never get the same page.
LEMMA FilledDistinct ==
  ASSUME MemTypeOK, StackClean, NEW s \in Nat, NEW k \in Nat, k <= Available,
         NEW p \in VPages, NEW q \in VPages, Filled(s, k, p)
  PROVE  /\ WithPages(s, k)[p] \notin {0, Kernel}
         /\ \E i \in stack_top .. stack_top + k - 1 : stack_pages[i] = WithPages(s, k)[p]
         /\ WithPages(s, k)[p] # Unfilled =>
              /\ WithPages(s, k)[p] \in 1 .. Phys
              /\ \A i \in stack_top + k .. stack_max_top - 1 : stack_pages[i] # WithPages(s, k)[p]
              /\ Filled(s, k, q) /\ WithPages(s, k)[q] = WithPages(s, k)[p] => q = p
<1> DEFINE t == WithPages(s, k)
<1>1. PICK a \in 0 .. k - 1 : Entry(s, a) = p /\ t[p] = stack_pages[stack_top + a]
  BY DEF Filled
<1>2. /\ Available \in Nat /\ stack_top + Available <= stack_max_top
      /\ \A i \in stack_top .. stack_top + Available - 1 : stack_pages[i] # 0
  BY AvailableFacts
<1>3. stack_top \in Nat /\ stack_top + a \in stack_top .. stack_max_top - 1
      /\ stack_top + a \in stack_top .. stack_top + Available - 1
  BY <1>2, Constants DEF MemTypeOK
<1>4. stack_pages[stack_top + a] \notin {0, Kernel}
  BY <1>2, <1>3 DEF StackClean
<1>5. ASSUME t[p] # Unfilled, NEW i \in stack_top .. stack_max_top - 1, i # stack_top + a
      PROVE  stack_pages[i] # stack_pages[stack_top + a]
  BY <1>1, <1>3, <1>4, <1>5 DEF StackClean
<1>5a. t[p] # Unfilled => t[p] \in 1 .. Phys
  <2>1. stack_top + a \in 0 .. stack_max_top - 1
    BY <1>3, Constants DEF MemTypeOK
  <2>2. t[p] \in 0 .. Unfilled
    BY <1>1, <2>1 DEF MemTypeOK
  <2> HIDE DEF t
  <2> QED
    BY <1>1, <1>4, <2>2, Constants
<1>6. ASSUME t[p] # Unfilled, NEW i \in stack_top + k .. stack_max_top - 1 PROVE stack_pages[i] # t[p]
  <2>1. i \in stack_top .. stack_max_top - 1 /\ i # stack_top + a
    BY <1>3
  <2> QED
    BY <1>1, <1>5, <1>6, <2>1
<1>7. ASSUME t[p] # Unfilled, Filled(s, k, q), t[q] = t[p] PROVE q = p
  <2>1. PICK b \in 0 .. k - 1 : Entry(s, b) = q /\ t[q] = stack_pages[stack_top + b]
    BY <1>7 DEF Filled
  <2>2. stack_top + b \in stack_top .. stack_max_top - 1
    BY <1>2, <1>3, Constants DEF MemTypeOK
  <2>3. stack_top + b = stack_top + a
    BY <1>1, <1>5, <1>7, <2>1, <2>2
  <2>4. b = a
    BY <1>3, <2>3
  <2> QED
    BY <1>1, <2>1, <2>4
<1>8. stack_top + a \in stack_top .. stack_top + k - 1
  BY <1>3
<1> QED
  BY <1>1, <1>4, <1>5a, <1>6, <1>7, <1>8

----------------------------------------------------------------------------
\* The pages where a region is made, and the one behind it, belong to no
\* region and are not mapped.
LEMMA SiteFree ==
  ASSUME MemInv, NEW n \in Nat \ {0}, Fits(n) # {}, NEW p \in VPages,
         p \in Min(Fits(n)) .. Min(Fits(n)) + n
  PROVE  table[p] \in {0, Kernel} /\ \A r \in live : p \notin PagesOf(r)
<1> DEFINE s == Min(Fits(n))
<1>1. s \in VPages /\ \A i \in 0 .. n - 1 : s + i \notin bitmap
  BY FitsFacts DEF MemInv
<1> HIDE DEF s
<1>2. p \notin bitmap \/ p - 1 \notin bitmap
  <2>1. s \in Nat /\ p \in Nat /\ p >= s /\ p <= s + n
    BY <1>1, Constants DEF VPages, s
  <2>2. CASE p = s + n
    <3>1. n - 1 \in 0 .. n - 1 /\ p - 1 = s + (n - 1)
      BY <2>1, <2>2
    <3> QED
      BY <1>1, <3>1
  <2>3. CASE p # s + n
    <3>1. p - s \in 0 .. n - 1 /\ p = s + (p - s)
      BY <2>1, <2>3
    <3> QED
      BY <1>1, <3>1
  <2> QED
    BY <2>2, <2>3
<1> QED
  BY <1>2 DEF MemInv, RegionsMarked, MappedMarked

\* So the mapping of a region in use survives the allocation of another.
LEMMA LivePages == ASSUME MemInv, NEW r \in live, NEW p \in PagesOf(r) PROVE p \in VPages
BY DEF MemInv, RegionsMarked, MemTypeOK

\* The pages of a region in use are not among those a call writes.
LEMMA LiveUntouched ==
  ASSUME MemInv, NEW n \in Nat \ {0}, Fits(n) # {}, NEW k \in Nat, k <= n + 1,
         stack_top + k <= stack_max_top, NEW r \in live, NEW p \in PagesOf(r)
  PROVE  /\ p \notin Min(Fits(n)) .. Min(Fits(n)) + n
         /\ WithPages(Min(Fits(n)), k)[p] = table[p]
         /\ ~Filled(Min(Fits(n)), k, p)
<1> DEFINE s == Min(Fits(n))
<1>1. s \in Nat
  BY FitsFacts, Constants DEF MemInv, VPages
<1>2. p \in VPages
  BY LivePages
<1>3. p \notin s .. s + n
  BY <1>2, SiteFree
<1>4. Filled(s, k, p) => p \in s .. s + k - 1
  BY <1>1, <1>2, WithPagesFacts DEF MemInv
<1>5. ~Filled(s, k, p)
  <2> HIDE DEF s
  <2>1. s .. s + k - 1 \subseteq s .. s + n
    BY <1>1
  <2> QED
    BY <1>3, <1>4, <2>1
<1> QED
  BY <1>1, <1>2, <1>3, <1>5, WithPagesFacts DEF MemInv

\* What an allocation maps it also marks.
LEMMA FilledMarked ==
  ASSUME MemInv, NEW n \in Nat \ {0}, Fits(n) # {}, NEW k \in Nat,
         stack_top + k <= stack_max_top, NEW p \in VPages, NEW B,
         bitmap \cup Marked(Min(Fits(n)), k) \subseteq B,
         WithPages(Min(Fits(n)), k)[p] \notin {0, Kernel}
  PROVE  p \in B /\ p - 1 \in B
<1> DEFINE s == Min(Fits(n))
<1>1. s \in Nat /\ s - 1 \in bitmap
  BY FitsFacts, Constants DEF MemInv, VPages
<1>2. CASE Filled(s, k, p)
  <2>1. p \in s .. s + k - 1
    BY <1>1, <1>2, WithPagesFacts DEF MemInv
  <2>2. p \in Marked(s, k) /\ (p = s \/ p - 1 \in Marked(s, k))
    <3> HIDE DEF s
    <3> QED
      BY <1>1, <2>1 DEF Marked
  <2> QED
    BY <1>1, <2>2
<1>3. CASE ~Filled(s, k, p)
  <2>1. table[p] \notin {0, Kernel}
    BY <1>1, <1>3, WithPagesFacts DEF MemInv
  <2> QED
    BY <2>1 DEF MemInv, MappedMarked
<1> QED
  BY <1>2, <1>3

----------------------------------------------------------------------------
\* The mapping of a region that stays in use is not changed.
Stable == \A r \in live \cap live' : \A p \in PagesOf(r) : table'[p] = table[p]

\* _vmalloc_ succeeds.
LEMMA KmallocStep ==
  ASSUME MemInv, NEW size \in Sizes, Kmalloc(size)
  PROVE  MemInv' /\ Stable
<1> DEFINE n == PagesFor(size)
           s == Min(Fits(n))
           k == Mapped(n)
           new == [start |-> s, size |-> n]
<1>1. n \in Nat \ {0} /\ k = n + 1
  BY PagesForPositive DEF Mapped
<1>2. /\ Fits(n) # {} /\ s + k <= Virt /\ k <= Available
      /\ table' = WithPages(s, k) /\ bitmap' = bitmap \cup Marked(s, k)
      /\ stack_top' = stack_top + k /\ live' = live \cup {new}
      /\ stack_pages' = stack_pages /\ hung' = hung
      /\ spoiled' = (spoiled \/ \E a \in 0 .. k - 1 : stack_pages[stack_top + a] = Unfilled)
  BY DEF Kmalloc
<1> HIDE DEF n, k
<1>3. /\ s \in VPages /\ s \in Nat /\ s >= KPages /\ s - 1 \in bitmap
      /\ \A i \in 0 .. n - 1 : s + i \notin bitmap
  BY <1>1, <1>2, FitsFacts, Constants DEF MemInv, VPages
<1>4. k \in Nat /\ stack_top + k <= stack_max_top /\ stack_top \in 0 .. stack_max_top
  BY <1>1, <1>2, AvailableFacts, Constants DEF MemInv, MemTypeOK
<1>5. \A r \in live : \A p \in PagesOf(r) :
         p \in VPages /\ p \notin s .. s + n /\ table'[p] = table[p]
  <2> TAKE r \in live
  <2> TAKE p \in PagesOf(r)
  <2>1. p \notin s .. s + n /\ WithPages(s, k)[p] = table[p]
    BY <1>1, <1>2, <1>4, LiveUntouched
  <2> QED
    BY <1>2, <2>1, LivePages
<1> HIDE DEF s
<1>6. PagesOf(new) = s .. s + n - 1 /\ PagesOf(new) \subseteq VPages
  BY <1>1, <1>2, <1>3, Constants DEF PagesOf, VPages
<1>7. MemTypeOK'
  <2>1. bitmap' \subseteq VPages
    BY <1>1, <1>2, <1>3, Constants DEF MemInv, MemTypeOK, Marked, VPages
  <2>2. table' \in [VPages -> 0 .. Unfilled]
    <3>1. \A p \in VPages : WithPages(s, k)[p] \in 0 .. Unfilled
      BY <1>3, <1>4, WithPagesFacts DEF MemInv
    <3>2. WithPages(s, k) = [p \in VPages |-> WithPages(s, k)[p]]
      BY DEF WithPages
    <3> QED
      BY <1>2, <3>1, <3>2
  <2>3. stack_top' \in 0 .. stack_max_top
    BY <1>2, <1>4
  <2>4. \A r \in live' : r.start \in VPages /\ r.size \in Nat
    BY <1>1, <1>2, <1>3 DEF MemInv, MemTypeOK
  <2>5. hung' \in BOOLEAN /\ spoiled' \in BOOLEAN
    BY <1>2, Zenon DEF MemInv, MemTypeOK
  <2> QED
    BY <1>2, <2>1, <2>2, <2>3, <2>4, <2>5 DEF MemInv, MemTypeOK
<1>8. RegionsMarked'
  <2>1. KernelBits \subseteq bitmap'
    BY <1>2 DEF MemInv, RegionsMarked
  <2>2. ASSUME NEW p \in PagesOf(new) PROVE p \in bitmap' /\ p - 1 \in bitmap'
    BY <1>1, <1>2, <1>3, <1>6, <2>2 DEF Marked
  <2> QED
    BY <1>1, <1>2, <1>3, <2>1, <2>2 DEF MemInv, RegionsMarked, PagesOf
<1>9. Disjoint'
  <2>1. \A q \in live : PagesOf(q) \cap PagesOf(new) = {}
    BY <1>1, <1>3, <1>5, <1>6
  <2>2. PagesOf(new) \cap (0 .. KPages - 1) = {}
    BY <1>1, <1>3, <1>6, Constants
  <2> QED
    BY <1>2, <2>1, <2>2 DEF MemInv, Disjoint, PagesOf
<1>10. MappedMarked'
  <2> SUFFICES ASSUME NEW p \in VPages, table'[p] \notin {0, Kernel}
               PROVE  p \in bitmap' /\ p - 1 \in bitmap'
    BY DEF MappedMarked, Kernel
  <2> QED
    BY <1>1, <1>2, <1>4, FilledMarked DEF s
<1>11. ASSUME ~spoiled' PROVE StackClean'
  <2>1. ~spoiled /\ StackClean
    BY <1>2, <1>11 DEF MemInv
  <2>2. /\ stack_top' .. stack_max_top - 1 \subseteq stack_top .. stack_max_top - 1
        /\ stack_pages' = stack_pages
    BY <1>2, <1>4, Constants
  <2> QED
    BY <2>1, <2>2 DEF StackClean, Kernel, Unfilled
<1>12. ASSUME ~spoiled'
       PROVE  \A r \in live' : \A p \in PagesOf(r) :
                 /\ table'[p] \in 1 .. Phys
                 /\ \A i \in stack_top' .. stack_max_top - 1 : stack_pages'[i] # table'[p]
                 /\ \A q \in live' : \A o \in PagesOf(q) : table'[o] = table'[p] => o = p
  <2>1. ~spoiled /\ StackClean
    BY <1>2, <1>12 DEF MemInv
  <2>2. \A r \in live : \A p \in PagesOf(r) :
            /\ table[p] \in 1 .. Phys
            /\ \A i \in stack_top .. stack_max_top - 1 : stack_pages[i] # table[p]
            /\ \A q \in live : \A o \in PagesOf(q) : table[o] = table[p] => o = p
    BY <2>1 DEF MemInv, Owned
  <2>3. \A p \in PagesOf(new) : Filled(s, k, p)
    <3> TAKE p \in PagesOf(new)
    <3> DEFINE b == p - s
    <3>1. p \in VPages /\ b \in Nat /\ b + 1 < k /\ p = s + b
      BY <1>1, <1>3, <1>6
    <3> HIDE DEF b
    <3>2. \E a \in 0 .. k - 1 : Entry(s, a) = s + b
      BY <1>3, <1>4, <3>1, EntryCovers, Zenon
    <3> QED
      BY <1>3, <1>4, <3>1, <3>2, WithPagesFacts DEF MemInv
  <2>4. \A p \in PagesOf(new) :
            /\ table'[p] \in 1 .. Phys
            /\ \A i \in stack_top + k .. stack_max_top - 1 : stack_pages[i] # table'[p]
            /\ \E i \in stack_top .. stack_max_top - 1 : stack_pages[i] = table'[p]
            /\ \A o \in PagesOf(new) : table'[o] = table'[p] => o = p
    <3> TAKE p \in PagesOf(new)
    <3>1. ASSUME NEW o \in PagesOf(new)
          PROVE  /\ table'[p] \in 1 .. Phys
                 /\ \A i \in stack_top + k .. stack_max_top - 1 : stack_pages[i] # table'[p]
                 /\ \E i \in stack_top .. stack_max_top - 1 : stack_pages[i] = table'[p]
                 /\ table'[o] = table'[p] => o = p
      <4>1. p \in VPages /\ o \in VPages /\ Filled(s, k, p) /\ Filled(s, k, o)
        BY <1>6, <2>3
      <4>2. MemTypeOK /\ k <= Available /\ table' = WithPages(s, k)
        BY <1>2 DEF MemInv
      <4>3. \E i \in stack_top .. stack_top + k - 1 : stack_pages[i] = table'[p]
        BY <1>3, <1>4, <2>1, <4>1, <4>2, FilledDistinct
      <4>4. table'[p] # Unfilled
        <5>1. \A a \in 0 .. k - 1 : stack_pages[stack_top + a] # Unfilled
          BY <1>2, <1>12
        <5>2. PICK i \in stack_top .. stack_top + k - 1 : stack_pages[i] = table'[p]
          BY <4>3
        <5>3. i - stack_top \in 0 .. k - 1 /\ stack_top + (i - stack_top) = i
          BY <1>4
        <5> QED
          BY <5>1, <5>2, <5>3
      <4>5. \E i \in stack_top .. stack_max_top - 1 : stack_pages[i] = table'[p]
        <5>1. stack_top .. stack_top + k - 1 \subseteq stack_top .. stack_max_top - 1
          BY <1>4, Constants
        <5> QED
          BY <4>3, <5>1
      <4> QED
        BY <1>3, <1>4, <2>1, <4>1, <4>2, <4>4, <4>5, FilledDistinct
    <3> QED
      BY <3>1
  <2>5. stack_top' .. stack_max_top - 1 \subseteq stack_top .. stack_max_top - 1
    BY <1>2, <1>4, Constants
  <2>6. ASSUME NEW r \in live, NEW p \in PagesOf(r)
        PROVE  /\ table'[p] \in 1 .. Phys
               /\ \A i \in stack_top' .. stack_max_top - 1 : stack_pages'[i] # table'[p]
               /\ \A q \in live : \A o \in PagesOf(q) : table'[o] = table'[p] => o = p
               /\ \A o \in PagesOf(new) : table'[o] # table'[p]
    <3>1. table'[p] = table[p]
      BY <1>5
    <3>2. \A q \in live : \A o \in PagesOf(q) : table'[o] = table'[p] => o = p
      BY <1>5, <2>2, <3>1
    <3>3. \A o \in PagesOf(new) : table'[o] # table'[p]
      BY <2>2, <2>4, <3>1
    <3> QED
      BY <1>2, <2>2, <2>5, <3>1, <3>2, <3>3
  <2>7. ASSUME NEW p \in PagesOf(new)
        PROVE  /\ table'[p] \in 1 .. Phys
               /\ \A i \in stack_top' .. stack_max_top - 1 : stack_pages'[i] # table'[p]
               /\ \A q \in live : \A o \in PagesOf(q) : table'[o] # table'[p]
               /\ \A o \in PagesOf(new) : table'[o] = table'[p] => o = p
    BY <1>2, <2>4, <2>6
  <2> QED
    BY <1>2, <2>6, <2>7
<1>13. Owned'
  BY <1>12 DEF Owned, PagesOf
<1>14. Stable
  BY <1>5 DEF Stable
<1> QED
  BY <1>7, <1>8, <1>9, <1>10, <1>11, <1>13, <1>14 DEF MemInv

\* An allocation that fails gives back what it took, but for the first page,
\* and in its place what it finds at the entry it was about to fill.
LEMMA KmallocFailsStep ==
  ASSUME MemInv, NEW size \in Sizes, KmallocFails(size)
  PROVE  MemInv' /\ Stable
<1> DEFINE n == PagesFor(size)
           s == Min(Fits(n))
           k == Available
           t == WithPages(s, k)
           first == Entry(s, k)
           page == [d \in 0 .. k - 1 |-> t[first - d]]
           top == TopAfter(k)
           at(i) == first - (top - 1 - i)
<1>1. n \in Nat \ {0} /\ Mapped(n) = n + 1
  BY PagesForPositive DEF Mapped
<1>2. /\ Fits(n) # {} /\ s + (n + 1) <= Virt /\ k < n + 1
      /\ bitmap' = bitmap \cup Marked(s, k)
      /\ PushAll(top, k, page)
      /\ table' = Unmapped(t, first, k)
      /\ spoiled' = (spoiled \/ \E d \in 0 .. k - 1 : page[d] = Kernel)
      /\ hung' = hung /\ live' = live
  BY <1>1 DEF KmallocFails
<1> HIDE DEF n
<1>3. /\ s \in VPages /\ s \in Nat /\ s >= KPages /\ s - 1 \in bitmap
      /\ \A i \in 0 .. n - 1 : s + i \notin bitmap
  BY <1>1, <1>2, FitsFacts, Constants DEF MemInv, VPages
<1>4. k \in Nat /\ stack_top + k <= stack_max_top /\ stack_top \in 0 .. stack_max_top
  BY AvailableFacts DEF MemInv, MemTypeOK
<1>5. \A r \in live : \A p \in PagesOf(r) :
         p \in VPages /\ p \notin s .. s + n /\ t[p] = table[p]
  BY <1>1, <1>2, <1>4, LiveUntouched, LivePages
<1>6. \A p \in VPages : p \in s .. s + n => table[p] \in {0, Kernel}
  BY <1>1, <1>2, SiteFree
<1>7. \A p \in VPages : t[p] \notin {0, Kernel} => p \in bitmap' /\ p - 1 \in bitmap'
  BY <1>1, <1>2, <1>4, FilledMarked
<1> HIDE DEF s, k
<1>8. first \in Nat /\ first >= s /\ first \in {s + k, s + k - 1}
  BY <1>3, <1>4, EntryRange
<1>9. \A p \in VPages : /\ t[p] \in 0 .. Unfilled
                        /\ Filled(s, k, p) \/ t[p] = table[p]
  BY <1>3, <1>4, WithPagesFacts DEF MemInv
<1>10. top \in Nat /\ stack_top + k <= top /\ top <= stack_max_top
  BY <1>4, Constants DEF TopAfter
<1>11. t = [p \in VPages |-> t[p]]
  BY DEF WithPages
<1> HIDE DEF t, first, top
<1>12. \A d \in 0 .. k - 1 : first - d \in s .. s + n /\ first - d \in VPages
  BY <1>1, <1>2, <1>3, <1>4, <1>8, Constants DEF VPages
<1>13. /\ stack_top' = top - k
       /\ \A i \in 0 .. stack_max_top - 1 : stack_pages'[i] =
             IF i < top /\ i >= top - k THEN t[at(i)] ELSE stack_pages[i]
  <2>1. k <= top
    BY <1>4, <1>10
  <2>2. \A i \in 0 .. stack_max_top - 1 :
           i < top /\ i >= top - k => top - 1 - i \in 0 .. k - 1 /\ page[top - 1 - i] = t[at(i)]
    BY <1>4, <1>10
  <2>3. /\ stack_top' = top - k
        /\ stack_pages' = [i \in 0 .. stack_max_top - 1 |->
               IF i < top /\ i >= top - k THEN page[top - 1 - i] ELSE stack_pages[i]]
    BY <1>2, <2>1 DEF PushAll
  <2> HIDE DEF page, at
  <2> QED
    BY <2>2, <2>3
<1>14. \A p \in VPages : /\ table'[p] \in {0, t[p]}
                         /\ p \notin s .. s + n => table'[p] = t[p]
  <2>1. \A p \in VPages : table'[p] = IF p <= first /\ p > first - k THEN 0 ELSE t[p]
    BY <1>2 DEF Unmapped
  <2>2. \A p \in VPages : p <= first /\ p > first - k => p \in s .. s + n
    BY <1>1, <1>2, <1>3, <1>4, <1>8, Constants DEF VPages
  <2> QED
    BY <2>1, <2>2
<1>15. \A i \in 0 .. stack_max_top - 1 :
          i < top /\ i >= top - k => /\ at(i) \in s .. s + n /\ at(i) \in VPages
                                     /\ at(i) = first - (top - 1 - i)
                                     /\ top - 1 - i \in 0 .. k - 1
  BY <1>4, <1>10, <1>12
<1> HIDE DEF at
<1>16. MemTypeOK'
  <2>1. bitmap' \subseteq VPages
    BY <1>1, <1>2, <1>3, <1>4, Constants DEF MemInv, MemTypeOK, Marked, VPages
  <2>2. table' \in [VPages -> 0 .. Unfilled]
    <3>1. table' = [p \in VPages |-> table'[p]]
      BY <1>2 DEF Unmapped
    <3>2. \A p \in VPages : table'[p] \in 0 .. Unfilled
      BY <1>9, <1>14, Constants
    <3> QED
      BY <3>1, <3>2
  <2>3. stack_top' \in 0 .. stack_max_top
    <3>1. /\ stack_top' = top - k /\ k \in Nat /\ top \in Nat /\ stack_max_top \in Nat
          /\ top <= stack_max_top /\ stack_top \in Nat /\ stack_top + k <= top
      BY <1>4, <1>10, <1>13, Constants
    <3> QED
      BY <3>1
  <2>4. stack_pages' \in [0 .. stack_max_top - 1 -> 0 .. Unfilled]
    <3>1. stack_pages' = [i \in 0 .. stack_max_top - 1 |-> stack_pages'[i]]
      BY <1>2 DEF PushAll
    <3>2. \A i \in 0 .. stack_max_top - 1 : stack_pages'[i] \in 0 .. Unfilled
      BY <1>9, <1>13, <1>15 DEF MemInv, MemTypeOK
    <3> QED
      BY <3>1, <3>2
  <2>5. hung' \in BOOLEAN /\ spoiled' \in BOOLEAN
    BY <1>2, Zenon DEF MemInv, MemTypeOK
  <2> QED
    BY <1>2, <2>1, <2>2, <2>3, <2>4, <2>5 DEF MemInv, MemTypeOK
<1>17. RegionsMarked' /\ Disjoint'
  BY <1>2 DEF MemInv, RegionsMarked, Disjoint, PagesOf
<1>18. MappedMarked'
  BY <1>7, <1>14 DEF MappedMarked, Kernel
<1>19. \A r \in live : \A p \in PagesOf(r) : p \in VPages /\ table'[p] = table[p]
  BY <1>5, <1>14
<1>20. ASSUME ~spoiled'
       PROVE  ~spoiled /\ StackClean
  BY <1>2, <1>20 DEF MemInv
<1>21. ASSUME ~spoiled', NEW i \in stack_top' .. stack_max_top - 1
       PROVE  \/ /\ i < top /\ i >= top - k /\ i \in 0 .. stack_max_top - 1
                 /\ stack_pages'[i] = t[at(i)]
                 /\ Filled(s, k, at(i)) \/ t[at(i)] = 0
              \/ /\ i >= top /\ i \in stack_top + k .. stack_max_top - 1
                 /\ stack_pages'[i] = stack_pages[i]
  <2>1. i \in 0 .. stack_max_top - 1 /\ i >= top - k
    BY <1>4, <1>10, <1>13
  <2>2. CASE i >= top
    BY <1>4, <1>10, <1>13, <2>1, <2>2
  <2>3. CASE i < top
    <3>1. stack_pages'[i] = t[at(i)] /\ at(i) \in s .. s + n /\ at(i) \in VPages
      BY <1>13, <1>15, <2>1, <2>3
    <3>2. t[at(i)] # Kernel
      <4>1. top - 1 - i \in 0 .. k - 1 /\ page[top - 1 - i] = t[at(i)]
        BY <1>15, <2>1, <2>3
      <4> QED
        BY <1>2, <1>21, <4>1
    <3>3. Filled(s, k, at(i)) \/ t[at(i)] = 0
      BY <1>6, <1>9, <3>1, <3>2
    <3> QED
      BY <2>1, <2>3, <3>1, <3>3
  <2> QED
    BY <1>10, <2>1, <2>2, <2>3
<1>22. ASSUME ~spoiled', NEW p \in VPages, NEW q \in VPages, Filled(s, k, p)
       PROVE  /\ t[p] \notin {0, Kernel}
              /\ \E i \in stack_top .. stack_max_top - 1 : stack_pages[i] = t[p]
              /\ t[p] # Unfilled =>
                   /\ \A i \in stack_top + k .. stack_max_top - 1 : stack_pages[i] # t[p]
                   /\ Filled(s, k, q) /\ t[q] = t[p] => q = p
  <2>1. MemTypeOK /\ k <= Available
    BY <1>4 DEF k, MemInv
  <2>2. stack_top .. stack_top + k - 1 \subseteq stack_top .. stack_max_top - 1
    BY <1>4, Constants
  <2> QED
    BY <1>3, <1>4, <1>20, <1>22, <2>1, <2>2, FilledDistinct DEF t
<1>23. ASSUME ~spoiled' PROVE StackClean'
  <2> SUFFICES ASSUME NEW i \in stack_top' .. stack_max_top - 1, NEW j \in stack_top' .. stack_max_top - 1
               PROVE  /\ stack_pages'[i] # Kernel
                      /\ i # j /\ stack_pages'[i] = stack_pages'[j] =>
                           stack_pages'[i] \in {0, Unfilled}
    BY DEF StackClean, Kernel, Unfilled
  <2>1. stack_top + k .. stack_max_top - 1 \subseteq stack_top .. stack_max_top - 1
    BY <1>4, Constants
  <2>2. \A x, y \in stack_top + k .. stack_max_top - 1 :
           /\ stack_pages[x] # Kernel
           /\ x # y /\ stack_pages[x] = stack_pages[y] => stack_pages[x] \in {0, Unfilled}
    BY <1>20, <1>23, <2>1 DEF StackClean
  <2>3. CASE i >= top
    BY <1>10, <1>15, <1>21, <1>22, <1>23, <2>2, <2>3
  <2>4. CASE i < top /\ i >= top - k /\ at(i) \in VPages
    <3>0. /\ stack_pages'[i] = t[at(i)] /\ i \in 0 .. stack_max_top - 1
          /\ Filled(s, k, at(i)) \/ t[at(i)] = 0
      BY <1>10, <1>21, <1>23, <2>4
    <3>1. stack_pages'[i] # Kernel
      BY <1>22, <1>23, <2>4, <3>0, Constants
    <3>2. ASSUME i # j, stack_pages'[i] = stack_pages'[j], stack_pages'[i] \notin {0, Unfilled} PROVE FALSE
      <4>1. Filled(s, k, at(i)) /\ stack_pages'[i] = t[at(i)]
        BY <3>0, <3>2
      <4>2. CASE j >= top
        <5>1. j \in stack_top + k .. stack_max_top - 1 /\ stack_pages'[j] = stack_pages[j]
          BY <1>10, <1>21, <1>23, <4>2
        <5> QED
          BY <1>22, <1>23, <2>4, <3>2, <4>1, <5>1
      <4>3. CASE j < top
        <5>1. /\ Filled(s, k, at(j)) /\ stack_pages'[j] = t[at(j)]
              /\ j >= top - k /\ j \in 0 .. stack_max_top - 1 /\ i \in 0 .. stack_max_top - 1
          BY <1>10, <1>21, <1>23, <2>4, <3>2, <4>3
        <5>2. at(j) = at(i)
          BY <1>15, <1>22, <1>23, <2>4, <3>2, <4>1, <4>3, <5>1
        <5>3. first - (top - 1 - j) = first - (top - 1 - i)
          BY <1>15, <2>4, <4>3, <5>1, <5>2
        <5> QED
          BY <1>8, <1>10, <3>2, <5>1, <5>3
      <4> QED
        BY <1>10, <1>21, <1>23, <4>2, <4>3
    <3> QED
      BY <3>1, <3>2
  <2> QED
    BY <1>10, <1>15, <1>21, <1>23, <2>3, <2>4
<1>24. ASSUME ~spoiled'
       PROVE  \A r \in live' : \A p \in PagesOf(r) :
                 /\ table'[p] \in 1 .. Phys
                 /\ \A i \in stack_top' .. stack_max_top - 1 : stack_pages'[i] # table'[p]
                 /\ \A q \in live' : \A o \in PagesOf(q) : table'[o] = table'[p] => o = p
  <2>1. \A r \in live : \A p \in PagesOf(r) :
            /\ table[p] \in 1 .. Phys
            /\ \A i \in stack_top .. stack_max_top - 1 : stack_pages[i] # table[p]
            /\ \A q \in live : \A o \in PagesOf(q) : table[o] = table[p] => o = p
    BY <1>20, <1>24 DEF MemInv, Owned
  <2>2. \A i \in stack_top' .. stack_max_top - 1 :
            stack_pages'[i] = 0 \/ \E j \in stack_top .. stack_max_top - 1 : stack_pages[j] = stack_pages'[i]
    <3> TAKE i \in stack_top' .. stack_max_top - 1
    <3>1. CASE i >= top
      <4>1. i \in stack_top .. stack_max_top - 1 /\ stack_pages'[i] = stack_pages[i]
        BY <1>4, <1>10, <1>21, <1>24, <3>1
      <4> QED
        BY <4>1
    <3>2. CASE i < top
      BY <1>10, <1>15, <1>21, <1>22, <1>24, <3>2
    <3> QED
      BY <1>10, <1>21, <1>24, <3>1, <3>2
  <2> QED
    BY <1>2, <1>19, <2>1, <2>2
<1>25. Owned'
  BY <1>24 DEF Owned, PagesOf
<1>26. Stable
  BY <1>19 DEF Stable
<1> QED
  BY <1>16, <1>17, <1>18, <1>23, <1>25, <1>26 DEF MemInv

----------------------------------------------------------------------------
\* Multiplication is monotone.
LEMMA TimesMonotone ==
  ASSUME NEW m \in Nat, NEW a \in Nat, NEW b \in Nat, a <= b
  PROVE  a * m \in Nat /\ a * m <= m * b
<1>1. b = a + (b - a) /\ b - a \in Nat
  OBVIOUS
<1>2. \A c \in Nat : a * m \in Nat /\ c * m \in Nat /\ m * (a + c) = a * m + c * m
  BY SMTT(30)
<1>3. PICK c \in Nat : b = a + c
  BY <1>1
<1> QED
  BY <1>2, <1>3

\* kfree leaves the tables alone and sets bits only.  A region of one page
\* gives back the page it owns.
LEMMA KfreeStep ==
  ASSUME MemInv, NEW r \in live, Kfree(r)
  PROVE  MemInv' /\ Stable
<1> DEFINE f == r.start % TABLE_SIZE
           j == r.start \div TABLE_SIZE
           entry(d) == IF d <= f THEN r.start - d ELSE (j - (d - f)) * TABLE_SIZE
           off == {r.start + f + d : d \in 0 .. r.size - 1}
           page == [d \in 0 .. r.size - 1 |-> table[entry(d)]]
<1>1. live' = live \ {r} /\ table' = table
  BY DEF Kfree
<1>2. /\ r.start \in VPages /\ r.start \in Nat /\ r.size \in Nat \ {0}
      /\ r.start \in PagesOf(r)
  BY Constants DEF MemInv, MemTypeOK, RegionsMarked, VPages, PagesOf
<1>3. /\ j \in Nat /\ f \in 0 .. TABLE_SIZE - 1 /\ r.start = TABLE_SIZE * j + f
  BY <1>2, DivMod, Constants
<1>4. CASE f = 0
  <2>1. hung' = TRUE /\ UNCHANGED <<bitmap, stack_pages, stack_top, spoiled>>
    BY <1>4 DEF Kfree
  <2>2. MemTypeOK' /\ RegionsMarked' /\ Disjoint' /\ MappedMarked'
    BY <1>1, <2>1
       DEF MemInv, MemTypeOK, RegionsMarked, Disjoint, MappedMarked, PagesOf, Kernel, Unfilled
  <2>3. (~spoiled' => StackClean') /\ Owned'
    BY <1>1, <2>1 DEF MemInv, StackClean, Owned, PagesOf, Kernel, Unfilled
  <2> QED
    BY <1>1, <2>2, <2>3 DEF MemInv, Stable
<1>5. CASE f # 0
  <2>1. /\ \A p \in off : p \in VPages
        /\ r.size - 1 <= f + j
        /\ PushAll(stack_top, r.size, page)
        /\ bitmap' = bitmap \cup UNION {OthersOfByte(p) : p \in off}
        /\ spoiled' = (spoiled \/ r.size > 1)
        /\ hung' = hung
    BY <1>5 DEF Kfree
  <2>2. bitmap \subseteq bitmap' /\ bitmap' \subseteq VPages
    BY <2>1 DEF MemInv, MemTypeOK, OthersOfByte
  <2>3. \A d \in 0 .. r.size - 1 : entry(d) \in VPages
    <3> TAKE d \in 0 .. r.size - 1
    <3> HIDE DEF j, f
    <3>1. CASE d <= f
      <4>1. TABLE_SIZE * j \in Nat
        BY <1>3, Constants
      <4>2. r.start - d \in 0 .. r.start
        BY <1>2, <1>3, <3>1, <4>1
      <4> QED
        BY <1>2, <3>1, <4>2, Constants DEF VPages
    <3>2. CASE d > f
      <4>1. j - (d - f) \in Nat /\ j - (d - f) <= j
        BY <1>2, <1>3, <2>1, <3>2
      <4> DEFINE a == j - (d - f)
      <4> HIDE DEF a
      <4>2. a * TABLE_SIZE \in Nat /\ a * TABLE_SIZE <= TABLE_SIZE * j
        BY <1>3, <4>1, TimesMonotone, Constants DEF a
      <4>3. TABLE_SIZE * j \in Nat /\ TABLE_SIZE * j <= r.start
        BY <1>3, Constants
      <4>4. a * TABLE_SIZE \in VPages
        BY <1>2, <4>2, <4>3, Constants DEF VPages
      <4> QED
        BY <1>3, <3>2, <4>4 DEF a
    <3> QED
      BY <1>3, <3>1, <3>2
  <2>4. entry(0) = r.start
    BY <1>2, <1>3
  <2> HIDE DEF off, entry, f, j
  <2>5. /\ stack_top' = IF r.size <= stack_top THEN stack_top - r.size ELSE 0
        /\ stack_pages' = [i \in 0 .. stack_max_top - 1 |->
               IF i < stack_top /\ i >= stack_top - r.size
               THEN page[stack_top - 1 - i] ELSE stack_pages[i]]
    BY <2>1 DEF PushAll
  <2>6. stack_top \in 0 .. stack_max_top /\ stack_top' \in 0 .. stack_max_top
    <3>1. stack_top \in 0 .. stack_max_top /\ stack_max_top \in Nat
      BY Constants DEF MemInv, MemTypeOK
    <3> QED
      BY <1>2, <2>5, <3>1
  <2>7. MemTypeOK'
    <3>1. \A i \in 0 .. stack_max_top - 1 : stack_pages'[i] \in 0 .. Unfilled
      <4> TAKE i \in 0 .. stack_max_top - 1
      <4>1. CASE i < stack_top /\ i >= stack_top - r.size
        <5>1. stack_top - 1 - i \in 0 .. r.size - 1
          BY <1>2, <2>6, <4>1, Constants
        <5>2. page[stack_top - 1 - i] \in 0 .. Unfilled
          BY <2>3, <5>1 DEF MemInv, MemTypeOK
        <5> QED
          BY <2>5, <4>1, <5>2
      <4>2. CASE ~(i < stack_top /\ i >= stack_top - r.size)
        BY <2>5, <4>2 DEF MemInv, MemTypeOK
      <4> QED
        BY <4>1, <4>2
    <3>2. stack_pages' \in [0 .. stack_max_top - 1 -> 0 .. Unfilled]
      BY <2>5, <3>1
    <3>3. hung' \in BOOLEAN /\ spoiled' \in BOOLEAN
      BY <2>1, Zenon DEF MemInv, MemTypeOK
    <3> QED
      BY <1>1, <2>2, <2>6, <3>2, <3>3 DEF MemInv, MemTypeOK
  <2>8. RegionsMarked' /\ Disjoint' /\ MappedMarked'
    BY <1>1, <2>2 DEF MemInv, RegionsMarked, Disjoint, MappedMarked, PagesOf, Kernel, Unfilled
  <2>9. ASSUME ~spoiled'
        PROVE  /\ ~spoiled /\ StackClean /\ r.size = 1
               /\ \A i \in stack_top' .. stack_max_top - 1 :
                     \/ i = stack_top - 1 /\ stack_pages'[i] = table[r.start]
                     \/ i \in stack_top .. stack_max_top - 1 /\ stack_pages'[i] = stack_pages[i]
    <3>1. ~spoiled /\ r.size = 1
      <4>1. ~spoiled /\ ~(r.size > 1)
        BY <2>1, <2>9
      <4> QED
        BY <1>2, <4>1
    <3>2. page[0] = table[r.start]
      BY <2>4, <3>1
    <3> HIDE DEF page
    <3>3. ASSUME NEW i \in stack_top' .. stack_max_top - 1
          PROVE  \/ i = stack_top - 1 /\ stack_pages'[i] = table[r.start]
                 \/ i \in stack_top .. stack_max_top - 1 /\ stack_pages'[i] = stack_pages[i]
      <4>1. i \in 0 .. stack_max_top - 1 /\ i >= stack_top - 1
        BY <2>5, <2>6, <3>1, Constants
      <4>2. CASE i = stack_top - 1
        <5>1. i < stack_top /\ i >= stack_top - r.size /\ stack_top - 1 - i = 0
          BY <2>6, <3>1, <4>2
        <5> QED
          BY <2>5, <3>2, <4>1, <4>2, <5>1
      <4>3. CASE i # stack_top - 1
        <5>1. i >= stack_top
          BY <2>6, <4>1, <4>3
        <5> QED
          BY <2>5, <2>6, <4>1, <5>1
      <4> QED
        BY <4>2, <4>3
    <3> QED
      BY <3>1, <3>3 DEF MemInv
  <2>10. ASSUME ~spoiled'
         PROVE  \A q \in live : \A p \in PagesOf(q) :
                   /\ table[p] \in 1 .. Phys
                   /\ \A i \in stack_top .. stack_max_top - 1 : stack_pages[i] # table[p]
                   /\ \A u \in live : \A o \in PagesOf(u) : table[o] = table[p] => o = p
    BY <2>9, <2>10 DEF MemInv, Owned
  <2>11. ASSUME ~spoiled' PROVE StackClean'
    <3> SUFFICES ASSUME NEW i \in stack_top' .. stack_max_top - 1, NEW h \in stack_top' .. stack_max_top - 1
                 PROVE  /\ stack_pages'[i] # Kernel
                        /\ i # h /\ stack_pages'[i] = stack_pages'[h] =>
                             stack_pages'[i] \in {0, Unfilled}
      BY DEF StackClean, Kernel, Unfilled
    <3>1. /\ table[r.start] \in 1 .. Phys
          /\ \A x \in stack_top .. stack_max_top - 1 : stack_pages[x] # table[r.start]
      BY <1>2, <2>10, <2>11
    <3>2. \A x, y \in stack_top .. stack_max_top - 1 :
             /\ stack_pages[x] # Kernel
             /\ x # y /\ stack_pages[x] = stack_pages[y] => stack_pages[x] \in {0, Unfilled}
      BY <2>9, <2>11 DEF StackClean
    <3> QED
      BY <2>9, <2>11, <3>1, <3>2, Constants
  <2>12. ASSUME ~spoiled'
         PROVE  \A q \in live' : \A p \in PagesOf(q) :
                   /\ table'[p] \in 1 .. Phys
                   /\ \A i \in stack_top' .. stack_max_top - 1 : stack_pages'[i] # table'[p]
                   /\ \A u \in live' : \A o \in PagesOf(u) : table'[o] = table'[p] => o = p
    <3> TAKE q \in live'
    <3> TAKE p \in PagesOf(q)
    <3>1. q \in live /\ q # r
      BY <1>1
    <3>2. p # r.start
      BY <1>2, <3>1 DEF MemInv, Disjoint
    <3>3. table[r.start] # table[p]
      BY <1>2, <2>10, <2>12, <3>1, <3>2
    <3>4. \A i \in stack_top' .. stack_max_top - 1 : stack_pages'[i] # table[p]
      BY <2>9, <2>10, <2>12, <3>1, <3>3
    <3> QED
      BY <1>1, <2>10, <2>12, <3>1, <3>4
  <2>13. Owned'
    BY <2>12 DEF Owned, PagesOf
  <2> QED
    BY <1>1, <2>7, <2>8, <2>11, <2>13 DEF MemInv, Stable
<1> QED
  BY <1>4, <1>5

----------------------------------------------------------------------------
\* The invariant holds at the start.
LEMMA MemoryInit == MemInit => MemInv
<1> SUFFICES ASSUME MemInit PROVE MemInv
  OBVIOUS
<1>1. hung \in BOOLEAN /\ spoiled \in BOOLEAN
  BY Zenon DEF MemInit
<1>2. /\ \A p \in VPages : table[p] \in {0, Kernel}
      /\ table \in [VPages -> 0 .. Unfilled]
  BY Constants DEF MemInit, KernelTables
<1>3. /\ stack_pages \in [0 .. stack_max_top - 1 -> 0 .. Unfilled] /\ stack_top = 0
      /\ \A i \in 0 .. stack_max_top - 1 :
            IF i < Phys THEN stack_pages[i] = i + 1 ELSE stack_pages[i] \in {0, Unfilled}
  <2>1. PICK tail \in [Phys .. stack_max_top - 1 -> {0, Unfilled}] :
          stack_pages = [i \in 0 .. stack_max_top - 1 |-> IF i < Phys THEN i + 1 ELSE tail[i]]
    BY DEF MemInit
  <2>2. \A i \in 0 .. stack_max_top - 1 :
           IF i < Phys THEN stack_pages[i] = i + 1 ELSE stack_pages[i] \in {0, Unfilled}
    BY <2>1, Constants
  <2>3. \A i \in 0 .. stack_max_top - 1 : stack_pages[i] \in 0 .. Unfilled
    BY <2>2, Constants
  <2> QED
    BY <2>1, <2>2, <2>3 DEF MemInit
<1>4. MemTypeOK
  <2>1. bitmap \subseteq VPages
    BY Constants DEF MemInit, KernelBits, VPages
  <2>2. stack_top \in 0 .. stack_max_top /\ live = {}
    BY <1>3, Constants DEF MemInit
  <2> QED
    BY <1>1, <1>2, <1>3, <2>1, <2>2 DEF MemTypeOK
<1>5. RegionsMarked /\ Disjoint /\ MappedMarked /\ Owned
  BY <1>2 DEF MemInit, RegionsMarked, Disjoint, MappedMarked, Owned
<1>6. StackClean
  BY <1>3, Constants DEF StackClean
<1> QED
  BY <1>4, <1>5, <1>6 DEF MemInv

\* Every step keeps the invariant, and the regions in use where they are.
LEMMA MemoryNext == ASSUME MemInv, [MemNext]_memVars PROVE MemInv' /\ Stable
<1>1. CASE UNCHANGED memVars
  <2>1. MemTypeOK' /\ RegionsMarked' /\ Disjoint' /\ MappedMarked' /\ Stable
    BY <1>1
       DEF memVars, MemInv, MemTypeOK, RegionsMarked, Disjoint, MappedMarked, PagesOf, Kernel, Unfilled, Stable
  <2>2. (~spoiled' => StackClean') /\ Owned'
    BY <1>1 DEF memVars, MemInv, StackClean, Owned, PagesOf, Kernel, Unfilled
  <2> QED
    BY <2>1, <2>2 DEF MemInv
<1> QED
  BY <1>1, KmallocStep, KmallocFailsStep, KfreeStep DEF MemNext

\* Regions in use are disjoint and clear of the kernel, and each has its
\* physical pages for itself, through exhaustion in the middle of a call and
\* over the ends of tables.
THEOREM MemoryRegionsSound == MemSpec => []RegionsSound
<1>1. MemInv /\ [MemNext]_memVars => MemInv'
  BY MemoryNext
<1>2. MemInv => RegionsSound
  BY DEF MemInv, RegionsSound
<1> QED
  BY MemoryInit, <1>1, <1>2, PTL DEF MemSpec

\* No step of the allocator changes the mapping of a region that stays in
\* use, also once the stack of pages is damaged.
THEOREM MemoryRegionStable == MemSpec => RegionStable
<1>1. MemInv /\ [MemNext]_memVars => MemInv'
  BY MemoryNext
<1>2. MemInv /\ [MemNext]_memVars =>
        [\A r \in live \cap live' : \A p \in PagesOf(r) : table'[p] = table[p]]_memVars
  BY MemoryNext DEF Stable
<1> QED
  BY MemoryInit, <1>1, <1>2, PTL DEF MemSpec, RegionStable

----------------------------------------------------------------------------
(***************************************************************************)
(* Processes.  A PID is on the stack or with a process: a stack that is not*)
(* full while a process lives (there are fewer PIDs left than places) is   *)
(* what makes release_pid safe.                                            *)
(***************************************************************************)
\* init_pids puts every identifier but the kernel's on the stack, once.
LEMMA InitPids == init_pids = [i \in 0 .. MAX_NUM_PROCESS - 1 |-> i + 1]
<1> DEFINE dom == 0 .. MAX_NUM_PROCESS - 1
           one == [i \in dom |-> i + 1]
           eqn(f) == f = [i \in dom |-> IF i = 0 THEN KERNEL_PID + 1 ELSE NextPid(f[i - 1])]
<1>1. eqn(one)
  <2>1. ASSUME NEW i \in dom
        PROVE  i + 1 = IF i = 0 THEN KERNEL_PID + 1 ELSE NextPid(one[i - 1])
    <3>1. CASE i = 0
      BY <3>1 DEF KERNEL_PID
    <3>2. CASE i # 0
      <4>1. i - 1 \in dom /\ one[i - 1] = i
        BY <3>2, ProcsAssumption
      <4>2. NextPid(i) = i + 1
        BY <3>2, ProcsAssumption DEF NextPid, KERNEL_PID, INIT_PID
      <4> QED
        BY <3>2, <4>1, <4>2
    <3> QED
      BY <3>1, <3>2
  <2> QED
    BY <2>1
<1>2. eqn(init_pids)
  BY <1>1, Zenon DEF init_pids
<1> HIDE DEF one
<1> DEFINE S == {i \in Nat : i \in dom => init_pids[i] = i + 1}
<1>3. 0 \in S
  BY <1>2 DEF KERNEL_PID
<1>4. ASSUME NEW i \in S PROVE i + 1 \in S
  <2>1. CASE i + 1 \in dom
    <3>1. i \in Nat /\ i \in dom /\ init_pids[i] = i + 1 /\ (i + 1) - 1 = i /\ i + 1 # 0
      BY <2>1, ProcsAssumption
    <3>2. init_pids[i + 1] = NextPid(init_pids[i])
      BY <1>2, <2>1, <3>1
    <3>3. NextPid(i + 1) = i + 1 + 1
      BY <3>1 DEF NextPid, KERNEL_PID, INIT_PID
    <3> QED
      BY <3>1, <3>2, <3>3
  <2> QED
    BY <2>1
<1>5. S \in SUBSET Nat
  OBVIOUS
<1> HIDE DEF S
<1>6. S = Nat
  BY <1>3, <1>4, <1>5, InductionNat
<1>7. \A i \in dom : init_pids[i] = i + 1
  BY <1>6, ProcsAssumption DEF S
<1> QED
  BY <1>2, <1>7

\* The inductive invariant: what the runs check, and that no process is both
\* in the ring of tasks and lost.
ProcInv == ProcsSound /\ ptasks \cap plost = {}

\* The invariant of the processes holds at the start.
LEMMA ProcStart == ASSUME ProcInit PROVE ProcInv
<1>1. /\ pid_stack = [i \in 0 .. MAX_NUM_PROCESS - 1 |-> i + 1]
      /\ pid_st_top = MAX_NUM_PROCESS - 1 /\ ptasks = {} /\ plost = {} /\ pheap = {}
  BY InitPids DEF ProcInit
<1>2. HasPid /\ Free = 0 .. MAX_NUM_PROCESS - 1 /\ Procs = {}
  BY <1>1, ProcsAssumption DEF HasPid, Free, Procs
<1>3. {pid_stack[i] : i \in Free} = 1 .. MAX_NUM_PROCESS
  <2>1. \A k \in 1 .. MAX_NUM_PROCESS : k - 1 \in Free /\ pid_stack[k - 1] = k
    BY <1>1, <1>2, ProcsAssumption
  <2>2. \A i \in Free : pid_stack[i] \in 1 .. MAX_NUM_PROCESS
    BY <1>1, <1>2, ProcsAssumption
  <2> QED
    BY <2>1, <2>2
<1>4. \A i, j \in Free : pid_stack[i] = pid_stack[j] => i = j
  BY <1>1, <1>2
<1>5. ProcTypeOK
  BY <1>1, <1>2, ProcsAssumption DEF ProcTypeOK
<1>6. PidsConserved
  BY <1>2, <1>3, <1>4 DEF PidsConserved
<1>7. ProcNoLeak
  BY <1>1, <1>2 DEF ProcNoLeak
<1> QED
  BY <1>1, <1>5, <1>6, <1>7 DEF ProcInv, ProcsSound

\* What HasPid says of the top of the stack.
LEMMA TopIs ==
  ASSUME ProcTypeOK
  PROVE  /\ HasPid => pid_st_top \in 0 .. MAX_NUM_PROCESS - 1 /\ Free = 0 .. pid_st_top
         /\ ~HasPid => pid_st_top = PidW - 1 /\ Free = {}
         /\ Free \subseteq 0 .. MAX_NUM_PROCESS - 1
BY ProcsAssumption DEF ProcTypeOK, HasPid, Free

\* A process that is created gets the PID on top of the stack and blocks
\* that nobody owns; so it has both for itself.
LEMMA Created ==
  ASSUME ProcInv, HasPid, PopPid, NEW got \in SUBSET (ProcBlocks \ pheap),
         NEW linked \in BOOLEAN, AddTask([pid |-> get_new_pid, blocks |-> got], linked),
         pheap' = pheap \cup got, pid_stack' = pid_stack
  PROVE  ProcInv'
<1> DEFINE new == [pid |-> get_new_pid, blocks |-> got]
           top == pid_st_top
<1>1. ProcTypeOK /\ PidsConserved /\ ProcNoLeak /\ ptasks \cap plost = {}
  BY DEF ProcInv, ProcsSound
<1>2. top \in 0 .. MAX_NUM_PROCESS - 1 /\ Free = 0 .. top
  BY <1>1, TopIs
<1>3. top' = IF top = 0 THEN PidW - 1 ELSE top - 1
  <2>1. top' = (top - 1) % PidW
    BY DEF PopPid
  <2>2. CASE top = 0
    <3>1. (0 - 1) % PidW = PidW - 1
      BY ProcsAssumption, ModNeg
    <3> QED
      BY <2>1, <2>2, <3>1
  <2>3. CASE top # 0
    <3>1. top - 1 \in Int /\ 0 <= top - 1 /\ top - 1 < PidW /\ PidW \in Nat \ {0}
      BY <1>2, <2>3, ProcsAssumption
    <3>2. (top - 1) % PidW = top - 1
      BY <3>1, ModLow
    <3> QED
      BY <2>1, <2>3, <3>2
  <2> QED
    BY <2>2, <2>3
<1>4. Free' = Free \ {top} /\ top \in Free
  <2>1. CASE top = 0
    BY <1>2, <1>3, <2>1, ProcsAssumption DEF Free, HasPid
  <2>2. CASE top # 0
    BY <1>2, <1>3, <2>2, ProcsAssumption DEF Free, HasPid
  <2> QED
    BY <2>1, <2>2
<1>5. new.pid = pid_stack[top] /\ new.blocks = got
  BY DEF get_new_pid
<1>6. /\ Procs' = Procs \cup {new}
      /\ ptasks' = (IF linked THEN ptasks \cup {new} ELSE ptasks)
      /\ plost' = (IF linked THEN plost ELSE plost \cup {new})
  BY DEF AddTask, Procs
<1> HIDE DEF new, top
<1>7. \A p \in Procs : p.pid # new.pid
  BY <1>1, <1>4, <1>5 DEF PidsConserved
<1>8. new \notin Procs
  BY <1>7
<1>9. ProcTypeOK'
  <2>1. pid_st_top' \in 0 .. MAX_NUM_PROCESS - 1 \cup {PidW - 1}
    BY <1>2, <1>3, ProcsAssumption DEF top
  <2>2. new.pid \in Nat /\ new.blocks \subseteq ProcBlocks
    BY <1>1, <1>2, <1>5 DEF ProcTypeOK
  <2> QED
    BY <1>1, <1>6, <2>1, <2>2 DEF ProcTypeOK
<1>10. PidsConserved'
  <2>1. \A p, q \in Procs' : p.pid = q.pid => p = q
    BY <1>1, <1>6, <1>7 DEF PidsConserved
  <2>2. \A i, j \in Free' : pid_stack'[i] = pid_stack'[j] => i = j
    BY <1>1, <1>4 DEF PidsConserved
  <2>3. {pid_stack'[i] : i \in Free'} = {pid_stack[i] : i \in Free} \ {new.pid}
    BY <1>1, <1>4, <1>5 DEF PidsConserved
  <2>4. {p.pid : p \in Procs'} = {p.pid : p \in Procs} \cup {new.pid}
    BY <1>6
  <2>5. new.pid \in {pid_stack[i] : i \in Free}
    BY <1>4, <1>5
  <2>6. /\ {pid_stack[i] : i \in Free} \cap {p.pid : p \in Procs} = {}
        /\ {pid_stack[i] : i \in Free} \cup {p.pid : p \in Procs} = 1 .. MAX_NUM_PROCESS
    BY <1>1 DEF PidsConserved
  <2>7. /\ {pid_stack'[i] : i \in Free'} \cap {p.pid : p \in Procs'} = {}
        /\ {pid_stack'[i] : i \in Free'} \cup {p.pid : p \in Procs'} = 1 .. MAX_NUM_PROCESS
    BY <2>3, <2>4, <2>5, <2>6
  <2> QED
    BY <2>1, <2>2, <2>7 DEF PidsConserved
<1>11. ProcNoLeak'
  <2>1. pheap = UNION {p.blocks : p \in Procs}
        /\ \A p, q \in Procs : p # q => p.blocks \cap q.blocks = {}
    BY <1>1 DEF ProcNoLeak
  <2>2. UNION {p.blocks : p \in Procs'} = (UNION {p.blocks : p \in Procs}) \cup got
    <3> DEFINE owned == {p.blocks : p \in Procs}
    <3>1. {p.blocks : p \in Procs'} = owned \cup {got}
      BY <1>5, <1>6
    <3> HIDE DEF owned
    <3>2. UNION (owned \cup {got}) = (UNION owned) \cup got
      OBVIOUS
    <3> QED
      BY <3>1, <3>2 DEF owned
  <2>3. \A p \in Procs : p.blocks \cap got = {}
    <3>1. \A p \in Procs : p.blocks \subseteq pheap
      BY <2>1
    <3>2. got \cap pheap = {}
      OBVIOUS
    <3> QED
      BY <3>1, <3>2
  <2>4. \A p, q \in Procs' : p # q => p.blocks \cap q.blocks = {}
    BY <1>5, <1>6, <2>1, <2>3
  <2> QED
    BY <2>1, <2>2, <2>4 DEF ProcNoLeak
<1>12. ptasks' \cap plost' = {}
  <2>1. new \notin ptasks /\ new \notin plost
    BY <1>8 DEF Procs
  <2>2. CASE linked
    BY <1>1, <1>6, <2>1, <2>2
  <2>3. CASE ~linked
    BY <1>1, <1>6, <2>1, <2>3
  <2> QED
    BY <2>2, <2>3
<1> QED
  BY <1>9, <1>10, <1>11, <1>12 DEF ProcInv, ProcsSound

\* While a process has a PID the stack is not full: release_pid stores
\* inside the array.
LEMMA RoomForPid ==
  ASSUME ProcInv, NEW p \in Procs
  PROVE  HasPid => pid_st_top + 1 \in 0 .. MAX_NUM_PROCESS - 1
<1> DEFINE n == MAX_NUM_PROCESS
           T == (1 .. n) \ {p.pid}
<1>1. ProcTypeOK /\ PidsConserved /\ n \in Nat \ {0}
  BY ProcsAssumption DEF ProcInv, ProcsSound
<1> SUFFICES ASSUME HasPid, pid_st_top = n - 1 PROVE FALSE
  BY <1>1, TopIs
<1>2. Free = 0 .. n - 1
  BY <1>1, TopIs
<1>3. p.pid \in 1 .. n
  BY <1>1 DEF PidsConserved
<1>4. \A i \in 0 .. n - 1 : pid_stack[i] \in T
  <2> DEFINE stacked == {pid_stack[i] : i \in Free}
             taken == {q.pid : q \in Procs}
  <2>1. stacked \cap taken = {} /\ stacked \cup taken = 1 .. n
    BY <1>1 DEF PidsConserved
  <2>2. p.pid \in taken /\ \A i \in 0 .. n - 1 : pid_stack[i] \in stacked
    BY <1>2
  <2> HIDE DEF stacked, taken
  <2> QED
    BY <2>1, <2>2
<1>5. pid_stack \in [0 .. n - 1 -> T]
  BY <1>1, <1>4 DEF ProcTypeOK
<1>6. IsFiniteSet(0 .. n - 1) /\ Cardinality(0 .. n - 1) = n
  <2>1. 0 \in Int /\ n - 1 \in Int
    BY <1>1
  <2>2. IsFiniteSet(0 .. n - 1) /\ Cardinality(0 .. n - 1) =
           IF 0 > n - 1 THEN 0 ELSE (n - 1) - 0 + 1
    BY <2>1, FS_Interval
  <2> QED
    BY <1>1, <2>2
<1>7. IsFiniteSet(1 .. n) /\ Cardinality(1 .. n) = n
  <2>1. 1 \in Int /\ n \in Int
    BY <1>1
  <2>2. IsFiniteSet(1 .. n) /\ Cardinality(1 .. n) = IF 1 > n THEN 0 ELSE n - 1 + 1
    BY <2>1, FS_Interval
  <2> QED
    BY <1>1, <2>2
<1>8. IsFiniteSet(T) /\ Cardinality(T) = n - 1
  BY <1>3, <1>7, FS_RemoveElement
<1> HIDE DEF T
<1>9. Cardinality(T) < Cardinality(0 .. n - 1)
  BY <1>1, <1>6, <1>8
<1>10. \E i, j \in 0 .. n - 1 : i # j /\ pid_stack[i] = pid_stack[j]
  BY <1>5, <1>6, <1>8, <1>9, FS_PigeonHole
<1> QED
  BY <1>1, <1>2, <1>10 DEF PidsConserved

\* A process that ends gives its PID to the stack and its blocks to the heap.
LEMMA Ended == ASSUME ProcInv, NEW p \in ptasks, ProcessEnds(p) PROVE ProcInv'
<1> DEFINE top == pid_st_top
<1>1. /\ ProcTypeOK /\ PidsConserved /\ ProcNoLeak /\ ptasks \cap plost = {} /\ p \in Procs
  BY DEF ProcInv, ProcsSound, Procs
<1>2. /\ ptasks' = ptasks \ {p} /\ plost' = plost /\ pheap' = pheap \ p.blocks
      /\ pid_stack' = [pid_stack EXCEPT ![(top + 1) % PidW] = p.pid]
      /\ top' = (top + 1) % PidW
  BY DEF ProcessEnds, release_pid
<1>3. Procs' = Procs \ {p}
  BY <1>1, <1>2 DEF Procs
<1>4. /\ top' \in 0 .. MAX_NUM_PROCESS - 1
      /\ top' = (top + 1) % PidW
      /\ Free = 0 .. top' - 1
  <2>1. CASE HasPid
    <3>1. top + 1 \in 0 .. MAX_NUM_PROCESS - 1 /\ top \in 0 .. MAX_NUM_PROCESS - 1
      BY <1>1, <2>1, RoomForPid, TopIs
    <3>2. top + 1 \in Int /\ 0 <= top + 1 /\ top + 1 < PidW /\ PidW \in Nat \ {0}
      BY <3>1, ProcsAssumption
    <3>3. (top + 1) % PidW = top + 1
      BY <3>2, ModLow
    <3>4. Free = 0 .. top /\ (top + 1) - 1 = top
      BY <1>1, <2>1, <3>1, TopIs
    <3> QED
      BY <1>2, <3>1, <3>3, <3>4
  <2>2. CASE ~HasPid
    <3>1. top = PidW - 1 /\ Free = {}
      BY <1>1, <2>2, TopIs
    <3>2. PidW % PidW = 0 /\ (PidW - 1) + 1 = PidW
      BY ProcsAssumption, ModHigh
    <3>3. top' = 0
      BY <1>2, <3>1, <3>2
    <3> QED
      BY <1>2, <3>1, <3>3, ProcsAssumption
  <2> QED
    BY <2>1, <2>2
<1> DEFINE t == top'
<1>5. /\ t \in 0 .. MAX_NUM_PROCESS - 1 /\ Free = 0 .. t - 1
      /\ pid_stack' = [pid_stack EXCEPT ![t] = p.pid]
  BY <1>2, <1>4
<1> HIDE DEF t
<1>6. pid_stack'[t] = p.pid /\ \A i \in Free : i # t /\ pid_stack'[i] = pid_stack[i]
  <2>1. DOMAIN pid_stack = 0 .. MAX_NUM_PROCESS - 1
    BY <1>1 DEF ProcTypeOK
  <2>2. \A i \in Free : i # t /\ i \in DOMAIN pid_stack
    BY <1>5, <2>1, ProcsAssumption
  <2> QED
    BY <1>5, <2>1, <2>2
<1>7. Free' = Free \cup {t}
  <2>1. HasPid' /\ Free' = 0 .. t
    BY <1>5, ProcsAssumption DEF HasPid, Free, t
  <2> QED
    BY <1>5, <2>1, ProcsAssumption
<1>8. ProcTypeOK'
  <2>1. pid_stack' \in [0 .. MAX_NUM_PROCESS - 1 -> Nat]
    BY <1>1, <1>5 DEF ProcTypeOK
  <2>2. pid_st_top' \in 0 .. MAX_NUM_PROCESS - 1 \cup {PidW - 1}
    BY <1>4
  <2>3. \A q \in Procs' : q.pid \in Nat /\ q.blocks \subseteq ProcBlocks
    BY <1>1, <1>3 DEF ProcTypeOK
  <2>4. pheap' \subseteq ProcBlocks
    BY <1>1, <1>2 DEF ProcTypeOK
  <2> QED
    BY <2>1, <2>2, <2>3, <2>4 DEF ProcTypeOK
<1>9. PidsConserved'
  <2> DEFINE stacked == {pid_stack[i] : i \in Free}
             taken == {q.pid : q \in Procs}
  <2>1. {pid_stack'[i] : i \in Free'} = stacked \cup {p.pid}
    BY <1>6, <1>7
  <2>2. {q.pid : q \in Procs'} = taken \ {p.pid} /\ p.pid \in taken
    BY <1>1, <1>3 DEF PidsConserved
  <2>3. \A i \in Free : pid_stack[i] \in stacked
    OBVIOUS
  <2>4. /\ stacked \cap taken = {} /\ stacked \cup taken = 1 .. MAX_NUM_PROCESS
        /\ \A q, r \in Procs : q.pid = r.pid => q = r
        /\ \A i, j \in Free : pid_stack[i] = pid_stack[j] => i = j
    BY <1>1 DEF PidsConserved
  <2> HIDE DEF stacked, taken
  <2>5. \A i, j \in Free' : pid_stack'[i] = pid_stack'[j] => i = j
    BY <1>6, <1>7, <2>2, <2>3, <2>4
  <2>6. \A q, r \in Procs' : q.pid = r.pid => q = r
    BY <1>3, <2>4
  <2>7. /\ {pid_stack'[i] : i \in Free'} \cap {q.pid : q \in Procs'} = {}
        /\ {pid_stack'[i] : i \in Free'} \cup {q.pid : q \in Procs'} = 1 .. MAX_NUM_PROCESS
    BY <2>1, <2>2, <2>4
  <2> QED
    BY <2>5, <2>6, <2>7 DEF PidsConserved
<1>10. ProcNoLeak'
  <2>1. /\ pheap = UNION {q.blocks : q \in Procs}
        /\ \A q, r \in Procs : q # r => q.blocks \cap r.blocks = {}
    BY <1>1 DEF ProcNoLeak
  <2>2. ASSUME NEW b PROVE b \in pheap \ p.blocks <=> \E q \in Procs \ {p} : b \in q.blocks
    <3>1. b \in pheap <=> \E q \in Procs : b \in q.blocks
      BY <2>1
    <3>2. \A q \in Procs \ {p} : b \in q.blocks => b \notin p.blocks
      BY <1>1, <2>1
    <3> QED
      BY <3>1, <3>2
  <2>3. pheap \ p.blocks = UNION {q.blocks : q \in Procs \ {p}}
    BY <2>2
  <2> QED
    BY <1>2, <1>3, <2>1, <2>3 DEF ProcNoLeak
<1>11. ptasks' \cap plost' = {}
  BY <1>1, <1>2
<1> QED
  BY <1>8, <1>9, <1>10, <1>11 DEF ProcInv, ProcsSound

\* A refused allocation frees what there was.
LEMMA NotCreated ==
  ASSUME ProcInv, NEW got \in SUBSET (ProcBlocks \ pheap),
         pheap' = (pheap \cup got) \ ExecFrees(got),
         UNCHANGED <<pid_stack, pid_st_top, ptasks, plost>>
  PROVE  ProcInv'
<1>1. /\ pheap' = pheap /\ pid_stack' = pid_stack /\ pid_st_top' = pid_st_top
      /\ ptasks' = ptasks /\ plost' = plost
  BY DEF ExecFrees
<1>2. Procs' = Procs /\ Free' = Free
  BY <1>1 DEF Procs, Free, HasPid
<1>3. ProcTypeOK' /\ PidsConserved' /\ ProcNoLeak'
  BY <1>1, <1>2 DEF ProcInv, ProcsSound, ProcTypeOK, PidsConserved, ProcNoLeak
<1> QED
  BY <1>1, <1>3 DEF ProcInv, ProcsSound

\* PIDs and memory blocks have one owner each: for every number of PIDs and of
\* blocks, whatever fails and in whatever order processes come and go.
THEOREM ProcsOneOwner == ProcSpec => []ProcsSound
<1>1. ASSUME ProcInv, [ProcNext]_procVars PROVE ProcInv'
  <2>1. ASSUME NEW got \in SUBSET (ProcBlocks \ pheap), NEW linked \in BOOLEAN,
               NEW first \in ProcFirst, NEW size \in ProcSizes,
               _exec_init(got, linked, first, size)
        PROVE  ProcInv'
    <3>1. CASE Cardinality(got) < 3
      BY <1>1, <2>1, <3>1, NotCreated DEF _exec_init
    <3>2. CASE ~(Cardinality(got) < 3)
      BY <1>1, <2>1, <3>2, Created DEF _exec_init
    <3> QED
      BY <3>1, <3>2
  <2>2. ASSUME NEW p \in ptasks, NEW got \in SUBSET (ProcBlocks \ pheap), NEW linked \in BOOLEAN,
               _fork(p, got, linked)
        PROVE  ProcInv'
    <3>1. CASE Cardinality(got) < 2
      BY <1>1, <2>2, <3>1, NotCreated DEF _fork
    <3>2. CASE ~(Cardinality(got) < 2)
      <4> DEFINE listed == linked /\ p.pid # get_new_pid
      <4>1. listed \in BOOLEAN /\ AddTask([pid |-> get_new_pid, blocks |-> got], listed)
        BY <2>2, <3>2 DEF _fork
      <4> HIDE DEF listed
      <4> QED
        BY <1>1, <2>2, <3>2, <4>1, Created DEF _fork
    <3> QED
      BY <3>1, <3>2
  <2>3. CASE UNCHANGED procVars
    <3>1. {} \in SUBSET (ProcBlocks \ pheap) /\ pheap' = (pheap \cup {}) \ ExecFrees({})
      BY <2>3 DEF procVars, ExecFrees
    <3> QED
      BY <1>1, <2>3, <3>1, NotCreated DEF procVars
  <2> QED
    BY <1>1, <2>1, <2>2, <2>3, Ended DEF ProcNext
<1>2. ProcInv => ProcsSound
  BY DEF ProcInv
<1> QED
  BY <1>1, <1>2, ProcStart, PTL DEF ProcSpec

----------------------------------------------------------------------------
\* Table and entry of a page of the kernel; the walk goes from one to the next.
EntryOf(page) == <<page \div ProcTableSize, page % ProcTableSize>>

\* The walk's next entry is the entry of the next page.
LEMMA EntryStep == ASSUME NEW page \in Nat PROVE NextEntry(EntryOf(page)) = EntryOf(page + 1)
<1> DEFINE t == ProcTableSize
           q == page \div t
           r == page % t
<1>1. t \in Nat \ {0}
  BY ProcsAssumption
<1>2. q \in Nat /\ r \in 0 .. t - 1 /\ page = t * q + r
  BY <1>1, DivMod
<1>3. EntryOf(page) = <<q, r>>
  BY DEF EntryOf
<1>4. NextEntry(<<q, r>>) = IF r + 1 >= t THEN <<q + 1, 0>> ELSE <<q, r + 1>>
  BY DEF NextEntry
<1>5. EntryOf(page + 1) = <<(page + 1) \div t, (page + 1) % t>>
  BY DEF EntryOf
<1> HIDE DEF t, q, r
<1>6. CASE r + 1 >= t
  <2>1. page + 1 = t * (q + 1) + 0
    <3>1. r = t - 1
      BY <1>1, <1>2, <1>6
    <3> QED
      BY <1>1, <1>2, <3>1
  <2>2. (t * (q + 1) + 0) \div t = q + 1 /\ (t * (q + 1) + 0) % t = 0
    <3>1. q + 1 \in Nat /\ 0 \in 0 .. t - 1
      BY <1>1, <1>2
    <3> QED
      BY <1>1, <3>1, DivModUnique
  <2> QED
    BY <1>3, <1>4, <1>5, <1>6, <2>1, <2>2
<1>7. CASE ~(r + 1 >= t)
  <2>1. page + 1 = t * q + (r + 1) /\ r + 1 \in 0 .. t - 1
    BY <1>1, <1>2, <1>7
  <2>2. (t * q + (r + 1)) \div t = q /\ (t * q + (r + 1)) % t = r + 1
    BY <1>1, <1>2, <2>1, DivModUnique
  <2> QED
    BY <1>3, <1>4, <1>5, <1>7, <2>1, <2>2
<1> QED
  BY <1>6, <1>7

\* There is a page for every byte of the size.
LEMMA PagesForSize ==
  ASSUME NEW size \in Nat
  PROVE  /\ NPages(size) \in Nat
         /\ \A x \in Nat : x < size => x \div ProcPageSize \in 0 .. NPages(size) - 1
<1> DEFINE m == ProcPageSize
           q == size \div m
           r == size % m
<1>1. m \in Nat \ {0}
  BY ProcsAssumption
<1>2. q \in Nat /\ r \in 0 .. m - 1 /\ size = m * q + r
  BY <1>1, DivMod
<1>3. NPages(size) = q + (IF r # 0 THEN 1 ELSE 0)
  BY DEF NPages
<1> HIDE DEF m, q, r
<1>4. ASSUME NEW x \in Nat, x < size PROVE x \div m \in 0 .. NPages(size) - 1
  <2> DEFINE p == x \div m
             o == x % m
  <2>1. p \in Nat /\ o \in 0 .. m - 1 /\ x = m * p + o
    BY <1>1, DivMod
  <2> HIDE DEF p, o
  <2>2. m * p + o < m * q + r
    BY <1>2, <1>4, <2>1
  <2>3. p <= q
    <3> SUFFICES ASSUME p >= q + 1 PROVE FALSE
      BY <1>2, <2>1
    <3>1. m * p >= m * (q + 1)
      BY <1>1, <1>2, <2>1
    <3>2. m * (q + 1) = m * q + m
      BY <1>1, <1>2
    <3>3. m * p \in Int /\ m * q \in Int
      BY <1>1, <1>2, <2>1
    <3> QED
      BY <1>1, <1>2, <2>1, <2>2, <3>1, <3>2, <3>3
  <2>4. p = q => r # 0
    <3>1. m * q \in Int
      BY <1>1, <1>2
    <3> QED
      BY <1>2, <2>1, <2>2, <3>1
  <2>5. p \in 0 .. NPages(size) - 1
    BY <1>2, <1>3, <2>1, <2>3, <2>4
  <2> QED
    BY <2>5 DEF p
<1> QED
  BY <1>2, <1>3, <1>4 DEF m

\* ImageTable walks the tables page by page.
LEMMA ImageEntries ==
  ASSUME NEW first \in Nat, NEW size \in Nat
  PROVE  /\ DOMAIN ImageTable(first, size) = 1 .. NPages(size)
         /\ \A i \in 1 .. NPages(size) : ImageTable(first, size)[i] = EntryOf(first + i - 1)
<1> DEFINE n == NPages(size)
           entry[i \in 0 .. NPages(size)] ==
              IF i = 0 THEN <<first \div ProcTableSize, first % ProcTableSize>>
                       ELSE NextEntry(entry[i - 1])
           eqn(f) == f = [i \in 0 .. n |->
                            IF i = 0 THEN <<first \div ProcTableSize, first % ProcTableSize>>
                                     ELSE NextEntry(f[i - 1])]
           one == [i \in 0 .. n |-> EntryOf(first + i)]
<1>0. n \in Nat
  BY PagesForSize
<1>1. ImageTable(first, size) = [i \in 1 .. n |-> entry[i - 1]]
  BY Zenon DEF ImageTable
<1>2. eqn(one)
  <2>1. ASSUME NEW i \in 0 .. n
        PROVE  EntryOf(first + i) =
                 IF i = 0 THEN <<first \div ProcTableSize, first % ProcTableSize>>
                          ELSE NextEntry(one[i - 1])
    <3>1. CASE i = 0
      <4>1. first + 0 = first
        OBVIOUS
      <4> QED
        BY <3>1, <4>1 DEF EntryOf
    <3>2. CASE i # 0
      <4>1. i - 1 \in 0 .. n /\ first + (i - 1) \in Nat /\ (first + (i - 1)) + 1 = first + i
        BY <1>0, <3>2
      <4>2. one[i - 1] = EntryOf(first + (i - 1))
        BY <4>1
      <4> QED
        BY <3>2, <4>1, <4>2, EntryStep
    <3> QED
      BY <3>1, <3>2
  <2> QED
    BY <2>1
<1>3. eqn(entry)
  BY <1>2, Zenon DEF entry
<1> HIDE DEF n, entry, one
<1> DEFINE S == {i \in Nat : i \in 0 .. n => entry[i] = EntryOf(first + i)}
<1>4. 0 \in S
  <2>1. first + 0 = first
    OBVIOUS
  <2> QED
    BY <1>3, <2>1 DEF EntryOf
<1>5. ASSUME NEW i \in S PROVE i + 1 \in S
  <2>1. CASE i + 1 \in 0 .. n
    <3>1. i \in Nat /\ i \in 0 .. n /\ entry[i] = EntryOf(first + i) /\ (i + 1) - 1 = i /\ i + 1 # 0
      BY <1>0, <2>1
    <3>2. entry[i + 1] = NextEntry(entry[i])
      BY <1>3, <2>1, <3>1
    <3>3. NextEntry(EntryOf(first + i)) = EntryOf(first + (i + 1))
      <4>1. first + i \in Nat /\ (first + i) + 1 = first + (i + 1)
        BY <3>1
      <4> QED
        BY <4>1, EntryStep
    <3> QED
      BY <3>1, <3>2, <3>3
  <2> QED
    BY <2>1
<1>6. S \in SUBSET Nat
  OBVIOUS
<1> HIDE DEF S
<1>7. S = Nat
  BY <1>4, <1>5, <1>6, InductionNat
<1>8. ASSUME NEW i \in 1 .. n PROVE ImageTable(first, size)[i] = EntryOf(first + i - 1)
  <2>1. i - 1 \in Nat /\ i - 1 \in 0 .. n /\ first + (i - 1) = first + i - 1
    BY <1>0
  <2>2. entry[i - 1] = EntryOf(first + (i - 1))
    BY <1>7, <2>1 DEF S
  <2> QED
    BY <1>1, <2>1, <2>2
<1> QED
  BY <1>1, <1>8 DEF n

\* The image in use is one that _exec_init has mapped.
ImageMapped ==
    \/ pimage = NoImage
    \/ \E first \in ProcFirst, size \in ProcSizes :
          pimage = [first |-> first, size |-> size, ptable |-> ImageTable(first, size)]

\* init finds every byte of its image, but for the length of a header at its
\* end, at the address where it expects it: for every place and size of the
\* image and every size of pages and tables.
THEOREM ExecMapsAll == ProcSpec => []ExecMapsImage
<1>1. ProcInit => ImageMapped
  BY DEF ProcInit, ImageMapped
<1>2. ImageMapped /\ [ProcNext]_procVars => ImageMapped'
  BY DEF ImageMapped, ProcNext, _exec_init, _fork, ProcessEnds, procVars
<1>3. ASSUME ImageMapped PROVE ExecMapsImage
  <2>1. CASE pimage = NoImage
    <3>1. pimage.size = 0
      BY <2>1 DEF NoImage
    <3>2. \A b \in 0 .. 0 - 1 - ProcHeader : FALSE
      BY ProcsAssumption
    <3> QED
      BY <3>1, <3>2 DEF ExecMapsImage
  <2>2. ASSUME NEW first \in ProcFirst, NEW size \in ProcSizes,
               pimage = [first |-> first, size |-> size, ptable |-> ImageTable(first, size)]
        PROVE  ExecMapsImage
    <3>1. /\ first \in Nat /\ size \in Nat /\ pimage.first = first /\ pimage.size = size
          /\ pimage.ptable = ImageTable(first, size)
      BY <2>2, ProcsAssumption
    <3> SUFFICES ASSUME NEW b \in 0 .. size - 1 - ProcHeader
                 PROVE  LET page == (ProcHeader + b) \div ProcPageSize
                            kpage == first + page
                        IN  /\ page + 1 \in DOMAIN pimage.ptable
                            /\ pimage.ptable[page + 1] =
                                 <<kpage \div ProcTableSize, kpage % ProcTableSize>>
      BY <3>1, Zenon DEF ExecMapsImage
    <3> DEFINE page == (ProcHeader + b) \div ProcPageSize
    <3>2. ProcHeader + b \in Nat /\ ProcHeader + b < size
      BY <3>1, ProcsAssumption
    <3>3. page \in 0 .. NPages(size) - 1 /\ NPages(size) \in Nat
      BY <3>1, <3>2, PagesForSize
    <3> HIDE DEF page
    <3>4. page + 1 \in 1 .. NPages(size) /\ first + (page + 1) - 1 = first + page
      BY <3>1, <3>3
    <3>5. pimage.ptable[page + 1] = EntryOf(first + page) /\ page + 1 \in DOMAIN pimage.ptable
      <4>1. /\ DOMAIN ImageTable(first, size) = 1 .. NPages(size)
            /\ \A i \in 1 .. NPages(size) : ImageTable(first, size)[i] = EntryOf(first + i - 1)
        BY <3>1, ImageEntries
      <4>2. ImageTable(first, size)[page + 1] = EntryOf(first + (page + 1) - 1)
        BY <3>4, <4>1
      <4> QED
        BY <3>1, <3>4, <4>1, <4>2
    <3> QED
      BY <3>5, Zenon DEF EntryOf, page
  <2> QED
    BY <1>3, <2>1, <2>2 DEF ImageMapped
<1> QED
  BY <1>1, <1>2, <1>3, PTL DEF ProcSpec
=============================================================================
