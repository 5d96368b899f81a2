------------------------------- MODULE Lists -------------------------------
(***************************************************************************)
(* The linked lists of the kernel (lib/linkedl.c and lib/clinkedl.c) on a  *)
(* heap of nodes, next to the sequences that the other modules take them   *)
(* for: lseq and cseq are what a list should contain after the same calls. *)
(*                                                                         *)
(* Calls that have no caller in the kernel and do not do what their names  *)
(* say are left out: llist_destroy, c_llist_destroy, c_llist_remove_nth    *)
(* and c_llist_nth.  c_llist_remove is not called for the last element of  *)
(* a list: the ring of tasks, the only circular list, never gets empty.    *)
(***************************************************************************)
EXTENDS Walks

LOCAL INSTANCE SequencesExt

CONSTANTS
    ListNodes,      \* node addresses: a finite set of positive numbers
    Elems           \* what the lists hold

ASSUME ListsAssumption == ListNodes \subseteq Nat /\ IsFiniteSet(ListNodes) /\ 0 \notin Elems

VARIABLES
    lhead, lheap,   \* *list of a llist, and its nodes: [element, next]
    lseq,
    chead, cheap,   \* the same of a c_llist: [element, prev, next]
    cseq

listVars == <<lhead, lheap, lseq, chead, cheap, cseq>>

NoElem == 0

\* Unallocated nodes hold nothing.
ListInit ==
    /\ lhead = NULL /\ lheap = [element |-> [n \in ListNodes |-> NoElem],
                                next |-> [n \in ListNodes |-> NULL]]
    /\ lseq = <<>>
    /\ chead = NULL /\ cheap = [element |-> [n \in ListNodes |-> NoElem],
                                prev |-> [n \in ListNodes |-> NULL],
                                next |-> [n \in ListNodes |-> NULL]]
    /\ cseq = <<>>

Allocated(heap) == {n \in ListNodes : heap.element[n] # NoElem}

\* External: kfree gives a node back, and kmalloc zeroes the one it returns.
Freed(heap, n) == [heap EXCEPT !.element[n] = NoElem, !.next[n] = NULL]
CFreed(heap, n) == [Freed(heap, n) EXCEPT !.prev[n] = NULL]

----------------------------------------------------------------------------
LTrail == Trail(lheap.next, lhead, NULL)

\* The loop stops with prev at the last node.
LinkLast(heap, n) == [heap EXCEPT !.next[Last(LTrail)] = n]

\* llist_add; it returns 0 without memory.
llist_add(e) ==
    \E n \in ListNodes \ Allocated(lheap) :
        LET heap == [lheap EXCEPT !.element[n] = e]
        IN  /\ IF lhead = NULL THEN lhead' = n /\ lheap' = heap
               ELSE lhead' = lhead /\ lheap' = LinkLast(heap, n)
            /\ lseq' = Append(lseq, e)
            /\ UNCHANGED <<chead, cheap, cseq>>

\* The node is unlinked from the one before it, or from the head, and freed.
Unlink(k) ==
    /\ lhead' = IF k = 1 THEN lheap.next[lhead] ELSE lhead
    /\ lheap' = Freed(IF k = 1 THEN lheap
                      ELSE [lheap EXCEPT !.next[LTrail[k - 1]] = lheap.next[LTrail[k]]],
                      LTrail[k])

\* Where the loop of llist_remove_nth stops: tmp is node pos + 1, or NULL.
NthNode(pos) == pos + 1

\* llist_remove_nth: a position behind the end removes nothing.  (With an
\* empty list and position 0 it would follow NULL; no caller does that.)
llist_remove_nth(pos) ==
    /\ pos = 0 => lhead # NULL
    /\ IF NthNode(pos) <= Len(LTrail) THEN Unlink(NthNode(pos)) ELSE UNCHANGED <<lhead, lheap>>
    /\ lseq' = IF pos < Len(lseq) THEN RemoveAt(lseq, pos + 1) ELSE lseq
    /\ UNCHANGED <<chead, cheap, cseq>>

\* The first node with the element, counted from one; 0 if none.
FirstAt(element, trail, e) ==
    LET at == {k \in DOMAIN trail : element[trail[k]] = e}
    IN  IF at = {} THEN 0 ELSE CHOOSE k \in at : \A j \in at : k <= j

\* llist_remove: the first node with the element.
llist_remove(e) ==
    LET k == FirstAt(lheap.element, LTrail, e)
    IN  /\ IF k # 0 THEN Unlink(k) ELSE UNCHANGED <<lhead, lheap>>
        /\ lseq' = IF Contains(lseq, e) THEN RemoveFirst(lseq, e) ELSE lseq
        /\ UNCHANGED <<chead, cheap, cseq>>

llist_nth(index) == IF index < Len(LTrail) THEN lheap.element[LTrail[index + 1]] ELSE NoElem
llist_index(e) == FirstAt(lheap.element, LTrail, e) - 1
llist_length == Len(LTrail)

----------------------------------------------------------------------------
\* The loops over a circular list go from head->next back to head.
CTrail == IF chead = NULL THEN <<>> ELSE <<chead>> \o Trail(cheap.next, cheap.next[chead], chead)

\* Mutant: head->prev is not set to the new node.
CLinkLast_NoBack(heap, n) ==
    [heap EXCEPT !.next[heap.prev[chead]] = n, !.next[n] = chead, !.prev[n] = heap.prev[chead]]

CLinkLast(heap, n) ==
    [heap EXCEPT !.next[heap.prev[chead]] = n, !.next[n] = chead,
                 !.prev[n] = heap.prev[chead], !.prev[chead] = n]

c_llist_add(e) ==
    \E n \in ListNodes \ Allocated(cheap) :
        LET heap == [cheap EXCEPT !.element[n] = e]
        IN  /\ IF chead = NULL
               THEN chead' = n /\ cheap' = [heap EXCEPT !.next[n] = n, !.prev[n] = n]
               ELSE chead' = chead /\ cheap' = CLinkLast(heap, n)
            /\ cseq' = Append(cseq, e)
            /\ UNCHANGED <<lhead, lheap, lseq>>

\* c_llist_remove: the head moves on when it is removed.
c_llist_remove(e) ==
    LET k == FirstAt(cheap.element, CTrail, e)
        n == CTrail[k]
        aux1 == cheap.next[n]
        aux2 == cheap.prev[n]
    IN  /\ Len(CTrail) > 1
        /\ IF k = 0 THEN UNCHANGED <<chead, cheap>>
           ELSE /\ chead' = IF n = chead THEN aux1 ELSE chead
                /\ cheap' = CFreed([cheap EXCEPT !.prev[aux1] = aux2, !.next[aux2] = aux1], n)
        /\ cseq' = IF Contains(cseq, e) THEN RemoveFirst(cseq, e) ELSE cseq
        /\ UNCHANGED <<lhead, lheap, lseq>>

c_llist_index(e) == FirstAt(cheap.element, CTrail, e) - 1
c_llist_length == Len(CTrail)

ListNext ==
    \/ \E e \in Elems : llist_add(e) \/ llist_remove(e) \/ c_llist_add(e) \/ c_llist_remove(e)
    \/ \E pos \in 0 .. Cardinality(ListNodes) : llist_remove_nth(pos)

ListSpec == ListInit /\ [][ListNext]_listVars

----------------------------------------------------------------------------
Contents(heap, trail) == [k \in DOMAIN trail |-> heap.element[trail[k]]]

\* A llist is the sequence the other modules take it for: it contains what
\* the calls should have left in it, in order, the queries answer as they
\* would on the sequence, and no node leaks or is freed while linked.
ListIsSequence ==
    /\ Contents(lheap, LTrail) = lseq
    /\ ToSet(LTrail) = Allocated(lheap)
    /\ llist_length = Len(lseq)
    /\ \A i \in 0 .. Len(lseq) : llist_nth(i) = IF i < Len(lseq) THEN lseq[i + 1] ELSE NoElem
    /\ \A e \in Elems :
         IF Contains(lseq, e)
         THEN lseq[llist_index(e) + 1] = e /\ \A i \in 1 .. llist_index(e) : lseq[i] # e
         ELSE llist_index(e) = -1

\* The same for a c_llist, whose links back are the reverse of its links.
RingIsSequence ==
    /\ Contents(cheap, CTrail) = cseq
    /\ ToSet(CTrail) = Allocated(cheap)
    /\ \A n \in Allocated(cheap) : cheap.prev[cheap.next[n]] = n
    /\ c_llist_length = Len(cseq)
    /\ \A e \in Elems : Contains(cseq, e) => cseq[c_llist_index(e) + 1] = e

\* Both libraries keep the sequences that their callers take them for
\* (linkedl.c, clinkedl.c), and no node is lost or freed in use.
ListsAreSequences == ListIsSequence /\ RingIsSequence
=============================================================================
