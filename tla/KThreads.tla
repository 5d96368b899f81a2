------------------------------ MODULE KThreads ------------------------------
(***************************************************************************)
(* What the kernel thread interface of thread.c promises its callers: a    *)
(* thread is created once, ends once, and is freed once, by the thread     *)
(* that created it and after it has ended.                                 *)
(***************************************************************************)
CONSTANTS Tasks, Main, Idle, None

VARIABLES
    life,   \* life[t]: "free", "alive" or "done"
    owner   \* owner[t]: the thread that may wait for t, or None

Init ==
    /\ life = [t \in Tasks |-> IF t \in {Main, Idle} THEN "alive" ELSE "free"]
    /\ owner = [t \in Tasks |-> None]

Create(c, t) ==
    /\ life[c] = "alive" /\ life[t] = "free"
    /\ life' = [life EXCEPT ![t] = "alive"]
    /\ owner' = [owner EXCEPT ![t] = c]

\* A thread that ends can no longer wait for the threads it created.
Exit(t) ==
    /\ life[t] = "alive" /\ t \notin {Main, Idle}
    /\ life' = [life EXCEPT ![t] = "done"]
    /\ owner' = [u \in Tasks |-> IF owner[u] = t THEN None ELSE owner[u]]

Wait(c, t) ==
    /\ life[c] = "alive" /\ life[t] = "done" /\ owner[t] = c
    /\ life' = [life EXCEPT ![t] = "free"]
    /\ owner' = [owner EXCEPT ![t] = None]

Next ==
    \/ \E c, t \in Tasks : Create(c, t) \/ Wait(c, t)
    \/ \E t \in Tasks : Exit(t)

Spec == Init /\ [][Next]_<<life, owner>>
=============================================================================
