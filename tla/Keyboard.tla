------------------------------ MODULE Keyboard ------------------------------
(***************************************************************************)
(* The ring of the keyboard driver (drivers/char/i8042.c): the interrupt   *)
(* handler writes it, one process reads it through sys_read.               *)
(*                                                                         *)
(* The i-th keystroke is the number i, so that order and loss are visible  *)
(* (scancodes2ascii maps it to a character).  Junk stands for a byte that  *)
(* no keystroke put there: the initial contents of the ring and the byte   *)
(* behind its end.  The last six variables are history: how many keys were *)
(* typed and bytes read, the byte read last, all bytes read, whether       *)
(* sleep_on has ever returned early, and whether a key was ever typed      *)
(* while as many as the ring holds were waiting.                           *)
(***************************************************************************)
EXTENDS Integers

CONSTANTS
    N,              \* KEYBOARD_BUFFER_SIZE
    MaxKeys,        \* bound: keystrokes
    MaxReads,       \* bound: completed reads
    MaxAvail        \* bound: keystrokes that wait to be read

ASSUME KeyboardAssumption ==
    /\ N \in Nat \ {0}
    /\ MaxKeys \in Nat /\ MaxReads \in Nat /\ MaxAvail \in Nat

Junk == 0

VARIABLES
    keyboard_buffer,    \* [0 .. N -> Nat]; index N is outside the array
    cbuffer_write_pos, cbuffer_read_pos, cbuffer_avail,
    reader,                 \* the reader: "out", "sleep", "take", "advance", "decl"
    key,                \* its local variable
    typed, reads, last, got, early, overrun

ring == <<keyboard_buffer, cbuffer_write_pos, cbuffer_read_pos, cbuffer_avail>>
kbdVars == <<ring, reader, key, typed, reads, last, got, early, overrun>>

\* init_8042
KbdInit ==
    /\ keyboard_buffer = [i \in 0 .. N |-> Junk]
    /\ cbuffer_write_pos = 0 /\ cbuffer_read_pos = 0 /\ cbuffer_avail = 0
    /\ reader = "out" /\ key = Junk
    /\ typed = 0 /\ reads = 0 /\ last = Junk /\ got = {} /\ early = FALSE /\ overrun = FALSE

----------------------------------------------------------------------------
\* wakeup(WAIT_KEYBOARD_KEY)
wakeup == reader' = IF reader = "sleep" THEN "take" ELSE reader

\* Mutant: the position wraps one slot too late.
WritePos_Late == IF cbuffer_write_pos > N THEN 0 ELSE cbuffer_write_pos

\* The slot the handler writes.
WritePos == IF cbuffer_write_pos >= N THEN 0 ELSE cbuffer_write_pos

\* Mutant: the wakeup is forgotten.
keyboard_handler_Silent ==
    /\ typed < MaxKeys
    /\ cbuffer_avail < MaxAvail
    /\ typed' = typed + 1
    /\ keyboard_buffer' = [keyboard_buffer EXCEPT ![WritePos] = typed']
    /\ cbuffer_write_pos' = WritePos + 1
    /\ cbuffer_avail' = cbuffer_avail + 1
    /\ overrun' = (overrun \/ cbuffer_avail >= N)
    /\ UNCHANGED <<cbuffer_read_pos, reader, key, reads, last, got, early>>

\* The interrupt of a key press; a release code changes nothing.
keyboard_handler ==
    /\ typed < MaxKeys
    /\ cbuffer_avail < MaxAvail
    /\ typed' = typed + 1
    /\ keyboard_buffer' = [keyboard_buffer EXCEPT ![WritePos] = typed']
    /\ cbuffer_write_pos' = WritePos + 1
    /\ cbuffer_avail' = cbuffer_avail + 1
    /\ overrun' = (overrun \/ cbuffer_avail >= N)
    /\ wakeup
    /\ UNCHANGED <<cbuffer_read_pos, key, reads, last, got, early>>

\* Mutant: no test for an empty ring.
kbc_read_from_buffer_NoTest ==
    /\ reader = "out"
    /\ reads < MaxReads
    /\ reader' = "take"
    /\ UNCHANGED <<ring, key, typed, reads, last, got, early, overrun>>

\* sys_read calls kbc_read_from_buffer, which tests once whether to sleep.
\* The system call gate has disabled interrupts, so the test and sleep_on's
\* enqueueing are one step.
kbc_read_from_buffer ==
    /\ reader = "out"
    /\ reads < MaxReads
    /\ reader' = IF cbuffer_avail = 0 THEN "sleep" ELSE "take"
    /\ UNCHANGED <<ring, key, typed, reads, last, got, early, overrun>>

\* sleep_on returns although no key has arrived: schedule() has found no
\* other task to switch to.
EarlyReturn ==
    /\ reader = "sleep"
    /\ reader' = "take"
    /\ early' = TRUE
    /\ UNCHANGED <<ring, key, typed, reads, last, got, overrun>>

\* key = keyboard_buffer[cbuffer_read_pos].  sleep_on may have left
\* interrupts on, so the handler may run between this and the next steps.
ReadTake ==
    /\ reader = "take"
    /\ key' = keyboard_buffer[cbuffer_read_pos]
    /\ reader' = "advance"
    /\ UNCHANGED <<ring, typed, reads, last, got, early, overrun>>

\* The byte is handed to the caller of sys_read.
Return ==
    /\ last' = key
    /\ got' = got \cup {key}
    /\ reads' = reads + 1
    /\ key' = Junk
    /\ reader' = "out"

\* Mutant: the position restarts, but the key it skips is counted as read.
ReadAdvance_Counts ==
    /\ reader = "advance"
    /\ cbuffer_read_pos' = IF cbuffer_read_pos >= N THEN 0 ELSE cbuffer_read_pos + 1
    /\ reader' = "decl"
    /\ UNCHANGED <<keyboard_buffer, cbuffer_write_pos, cbuffer_avail, key, typed,
                   reads, last, got, early, overrun>>

\* Past the end the position restarts and nothing is counted; otherwise it
\* moves on, and the counter is decremented next.
ReadAdvance ==
    /\ reader = "advance"
    /\ \/ /\ cbuffer_read_pos >= N
          /\ cbuffer_read_pos' = 0
          /\ Return
       \/ /\ cbuffer_read_pos < N
          /\ cbuffer_read_pos' = cbuffer_read_pos + 1
          /\ reader' = "decl"
          /\ UNCHANGED <<key, reads, last, got>>
    /\ UNCHANGED <<keyboard_buffer, cbuffer_write_pos, cbuffer_avail, typed, early, overrun>>

\* atomic_decl(&cbuffer_avail)
ReadDecl ==
    /\ reader = "decl"
    /\ cbuffer_avail' = cbuffer_avail - 1
    /\ Return
    /\ UNCHANGED <<keyboard_buffer, cbuffer_write_pos, cbuffer_read_pos, typed, early, overrun>>

Proceed == kbc_read_from_buffer \/ ReadTake \/ ReadAdvance \/ ReadDecl

Reader == Proceed \/ EarlyReturn

KbdNext == keyboard_handler \/ Reader

KbdSpec == KbdInit /\ [][KbdNext]_kbdVars

\* The reader is scheduled whenever it can run and reads again and again.
KbdLiveSpec == KbdSpec /\ WF_kbdVars(Proceed)

----------------------------------------------------------------------------
\* Types; the positions may leave the array by one slot only.
KbdTypeOK ==
    /\ keyboard_buffer \in [0 .. N -> Nat]
    /\ cbuffer_write_pos \in 0 .. N
    /\ cbuffer_read_pos \in 0 .. N
    /\ cbuffer_avail \in Int
    /\ reader \in {"out", "sleep", "take", "advance", "decl"}
    /\ key \in Nat /\ typed \in Nat /\ reads \in Nat /\ last \in Nat
    /\ got \subseteq Nat /\ early \in BOOLEAN /\ overrun \in BOOLEAN

\* Counter and positions agree modulo the size of the ring at every moment
\* of every interleaving, also after laps, overruns and early returns: no
\* increment or decrement of the handler or the reader is lost.
Accounted ==
    (cbuffer_write_pos - cbuffer_read_pos - cbuffer_avail
        + (IF reader = "decl" THEN 1 ELSE 0)) % N = 0

\* The handler writes inside the ring only: the byte behind it, which the
\* reader may read, is never changed.
NoOverflow == keyboard_buffer[N] = Junk

\* The i-th read returns the i-th key, until the ring has been filled once
\* and unless sleep_on has returned early.
KeysInOrder == reads > 0 /\ typed <= N /\ ~early => last = reads

\* Every key that is typed is read, in any lap, until sleep_on has returned
\* early or the ring was overrun (i8042.c:120-135, 149-155): a reader that is
\* about to sleep, or asleep, does not miss the handler's wakeup, and the byte
\* behind the ring that is read once a lap costs no key.
KeysDelivered ==
    \A i \in 1 .. MaxKeys : typed >= i ~> i \in got \/ early \/ overrun

\* Keys are read in the order they were typed in during the first lap
\* (i8042.c:127), and no position leaves the ring.
KeysSound == KbdTypeOK /\ KeysInOrder
=============================================================================
