------------------------------- MODULE Walks -------------------------------
(***************************************************************************)
(* The kernel's loops over linked structures, "x = start; while (x != stop)*)
(* x = f[x]", and assignments through pointers that may be NULL.           *)
(***************************************************************************)
EXTENDS Integers, Sequences, FiniteSets

LOCAL INSTANCE SequencesExt

\* The NULL pointer; every object has a natural number as its address.
NULL == -1

\* The objects the loop visits, each once, up to where it ends or repeats:
\* walk[k] are the first k of them.
Trail(f, start, stop) ==
    LET walk[k \in Nat] ==
          IF k = 0 THEN <<>>
          ELSE LET seen == walk[k - 1]
                   x == IF seen = <<>> THEN start ELSE f[Last(seen)]
               IN  IF x = stop \/ Contains(seen, x) THEN seen ELSE Append(seen, x)
    IN  walk[Cardinality(DOMAIN f)]

\* Does the loop reach stop, or does it turn for ever?
Ends(f, start, stop) ==
    LET t == Trail(f, start, stop) IN t # <<>> => f[Last(t)] = stop

\* *x = v.  Page 0 is mapped, so that a write through NULL harms no object.
Put(f, x, v) == IF x = NULL THEN f ELSE [f EXCEPT ![x] = v]

\* The first object of the trail in S, or NULL.
FirstIn(t, S) ==
    IF \E i \in DOMAIN t : t[i] \in S
    THEN t[CHOOSE i \in DOMAIN t : t[i] \in S /\ \A j \in 1 .. i - 1 : t[j] \notin S]
    ELSE NULL
=============================================================================
