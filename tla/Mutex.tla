------------------------------- MODULE Mutex -------------------------------
(***************************************************************************)
(* The mutex of lib/semaphore.c on top of arch/x86/kernel/atomic.c, used   *)
(* by kernel threads that the timer may preempt between any two            *)
(* instructions outside a cli .. sti section.                              *)
(***************************************************************************)
EXTENDS Integers, FiniteSets

CONSTANTS
    Threads,
    M               \* number of values of a sem_t (2^32 in the code)

ASSUME MutexAssumption == M \in Nat /\ M > 1 /\ IsFiniteSet(Threads)

VARIABLES
    mutex,          \* *mutex
    at,             \* at[t]: the next instruction of atomic_spin_down, or
                    \* "out" or "in" of the section that the mutex guards
    ecx             \* ecx[t]: the value that the spin loop has read

vars == <<mutex, at, ecx>>

Inside == {t \in Threads : at[t] = "in"}

\* mutex_init with a valid pointer.
Init ==
    /\ mutex = 1
    /\ at = [t \in Threads |-> "out"]
    /\ ecx = [t \in Threads |-> 0]

mutex_spin_down(t) ==
    /\ at[t] = "out"
    /\ at' = [at EXCEPT ![t] = "movl"]
    /\ UNCHANGED <<mutex, ecx>>

\* cli; movl (mutex), ecx; sti
SpinLoad(t) ==
    /\ at[t] = "movl"
    /\ ecx' = [ecx EXCEPT ![t] = mutex]
    /\ at' = [at EXCEPT ![t] = "jecxz"]
    /\ UNCHANGED mutex

\* Mutant: jump if not zero.
SpinTest_Inverted(t) ==
    /\ at[t] = "jecxz"
    /\ at' = [at EXCEPT ![t] = IF ecx[t] = 0 THEN "decl" ELSE "movl"]
    /\ ecx' = [ecx EXCEPT ![t] = 0]
    /\ UNCHANGED mutex

\* jecxz _spin_loop
SpinTest(t) ==
    /\ at[t] = "jecxz"
    /\ at' = [at EXCEPT ![t] = IF ecx[t] = 0 THEN "movl" ELSE "decl"]
    /\ ecx' = [ecx EXCEPT ![t] = 0]
    /\ UNCHANGED mutex

\* Mutant: the value that was read is decremented and stored.
SpinDecl_Stored(t) ==
    /\ at[t] = "decl"
    /\ mutex' = 0
    /\ at' = [at EXCEPT ![t] = "in"]
    /\ UNCHANGED ecx

\* decl (mutex)
SpinDecl(t) ==
    /\ at[t] = "decl"
    /\ mutex' = (mutex - 1) % M
    /\ at' = [at EXCEPT ![t] = "in"]
    /\ UNCHANGED ecx

\* atomic_incl
mutex_up(t) ==
    /\ at[t] = "in"
    /\ mutex' = (mutex + 1) % M
    /\ at' = [at EXCEPT ![t] = "out"]
    /\ UNCHANGED ecx

Next == \E t \in Threads :
    \/ mutex_spin_down(t)
    \/ SpinLoad(t)
    \/ SpinTest(t)
    \/ SpinDecl(t)
    \/ mutex_up(t)

\* Every thread is scheduled again and again; one that holds the mutex
\* releases it.
Fairness == \A t \in Threads :
    /\ WF_vars(SpinLoad(t)) /\ WF_vars(SpinTest(t)) /\ WF_vars(SpinDecl(t))
    /\ WF_vars(mutex_up(t))

Spec == Init /\ [][Next]_vars
LiveSpec == Spec /\ Fairness

----------------------------------------------------------------------------
\* Types; the mutex keeps its width.
TypeOK ==
    /\ mutex \in 0 .. M - 1
    /\ at \in [Threads -> {"out", "movl", "jecxz", "decl", "in"}]
    /\ ecx \in [Threads -> 0 .. M - 1]

\* However many threads decrement at once, and even when the value wraps
\* below 0, no down or up is lost: the mutex is free again when they are out.
Conserved == (mutex + Cardinality(Inside)) % M = 1

\* The busy wait ends: some thread gets in whenever threads are waiting.
SomeoneEnters ==
    (\E t \in Threads : at[t] \in {"movl", "jecxz", "decl"}) ~> (Inside # {})
=============================================================================
