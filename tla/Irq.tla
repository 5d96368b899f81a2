-------------------------------- MODULE Irq --------------------------------
(***************************************************************************)
(* The registration of interrupt handlers and their dispatch               *)
(* (arch/x86/kernel/irq.c), with the two interrupt controllers as          *)
(* init_PIC (i8259A.c) leaves them: the master in automatic end-of-        *)
(* interrupt mode; the slave not, since its ICW4 goes to the master too.   *)
(*                                                                         *)
(* A request is one action: it only appends a complete node to a list, so  *)
(* that an interrupt in the middle sees the list before or after it.       *)
(* Handlers run with interrupts off until they enable them (ata_handler1   *)
(* does), and may then be interrupted.                                     *)
(***************************************************************************)
EXTENDS Integers, Sequences, FiniteSets

CONSTANTS
    IrqLines,           \* the interrupt lines in use: a subset of 0 .. 15
    IrqMaxHandlers,     \* bound: handlers per line
    IrqMaxDepth         \* bound: interrupts inside interrupts

ASSUME IrqAssumption ==
    /\ IrqLines \subseteq 0 .. 15
    /\ IrqMaxHandlers \in Nat /\ IrqMaxDepth \in Nat

VARIABLES
    ishared,    \* ishared[i]: is SA_SHIRQ set in irq_list[i].flags?
    iqueue,     \* iqueue[i]: the handlers of a line, sequence of [id, shared]
    istack,     \* do_irq calls in progress: sequence of [irq, next]
    islave,     \* lines in service at the slave
    ienabled    \* the interrupt flag

irqVars == <<ishared, iqueue, istack, islave, ienabled>>

Handlers == [id : Nat, shared : BOOLEAN]

Calls == [irq : IrqLines, next : Nat]

\* init_IRQ and init_PIC.
IrqInit ==
    /\ ishared = [i \in IrqLines |-> TRUE]
    /\ iqueue = [i \in IrqLines |-> <<>>]
    /\ istack = <<>>
    /\ islave = {}
    /\ ienabled = TRUE

----------------------------------------------------------------------------
\* Mutant: an exclusive request does not look at the handlers there are.
MayRegister_NoTest(i, shared) == shared => ishared[i]

\* A shared request needs a line that may be shared, an exclusive one a line
\* without handlers.
MayRegister(i, shared) == IF shared THEN ishared[i] ELSE iqueue[i] = <<>>

\* One more than the id of the last handler.
NewId(i) == IF iqueue[i] = <<>> THEN 1 ELSE iqueue[i][Len(iqueue[i])].id + 1

\* request_irq: an exclusive request makes the line exclusive before the
\* memory for its handler or for the list node may be refused.  A refused
\* node is not noticed.
request_irq(i, shared, ok) ==
    /\ MayRegister(i, shared) /\ Len(iqueue[i]) < IrqMaxHandlers
    /\ ishared' = IF shared THEN ishared ELSE [ishared EXCEPT ![i] = FALSE]
    /\ iqueue' = IF ok THEN [iqueue EXCEPT ![i] = Append(@, [id |-> NewId(i), shared |-> shared])]
                       ELSE iqueue
    /\ UNCHANGED <<istack, islave, ienabled>>

\* External: the controllers pass a line on if the slave serves no line of
\* the same or a higher priority (a lower number) on its side.
Interrupt(i) ==
    /\ ienabled /\ Len(istack) < IrqMaxDepth
    /\ i > 7 => \A j \in islave : i < j
    /\ istack' = Append(istack, [irq |-> i, next |-> 1])
    /\ islave' = IF i > 7 THEN islave \cup {i} ELSE islave
    /\ ienabled' = FALSE
    /\ UNCHANGED <<ishared, iqueue>>

\* do_irq calls the next handler of the list; it may return with interrupts
\* enabled.
CallHandler(on) ==
    /\ istack # <<>>
    /\ LET f == istack[Len(istack)]
       IN  /\ f.next <= Len(iqueue[f.irq])
           /\ istack' = [istack EXCEPT ![Len(istack)].next = @ + 1]
    /\ ienabled' = (ienabled \/ on)
    /\ UNCHANGED <<ishared, iqueue, islave>>

\* Mutant: the end is reported to the slave for every line.
EndOfInterrupt_Always(f) ==
    islave' = {i \in islave : \E j \in islave : j < i}

\* do_irq ends: the slave, if the line is one of its lines, drops the
\* highest priority it has in service; the master has dropped it already.
EndOfInterrupt(f) ==
    islave' = IF f.irq > 7 THEN {i \in islave : \E j \in islave : j < i} ELSE islave

\* iret restores the flag of the interrupted code, which was enabled.
Leave ==
    /\ istack # <<>>
    /\ LET f == istack[Len(istack)]
       IN  f.next > Len(iqueue[f.irq]) /\ EndOfInterrupt(f)
    /\ istack' = SubSeq(istack, 1, Len(istack) - 1)
    /\ ienabled' = TRUE
    /\ UNCHANGED <<ishared, iqueue>>

IrqNext ==
    \/ \E i \in IrqLines, shared, ok \in BOOLEAN : request_irq(i, shared, ok)
    \/ \E i \in IrqLines : Interrupt(i)
    \/ \E on \in BOOLEAN : CallHandler(on)
    \/ Leave

IrqSpec == IrqInit /\ [][IrqNext]_irqVars

----------------------------------------------------------------------------
IrqTypeOK ==
    /\ ishared \in [IrqLines -> BOOLEAN]
    /\ iqueue \in [IrqLines -> Seq(Handlers)]
    /\ istack \in Seq(Calls)
    /\ islave \subseteq {i \in IrqLines : i > 7}
    /\ ienabled \in BOOLEAN

\* A handler that was registered without SA_SHIRQ (irq.c:107) is the only
\* one of its line for ever, whatever is requested later and whichever
\* allocation fails in between.
IrqExclusive ==
    \A i \in IrqLines : \A k \in DOMAIN iqueue[i] :
        ~iqueue[i][k].shared => Len(iqueue[i]) = 1

\* The handlers of a line have ids of their own (irq.c:138).
IrqIds ==
    \A i \in IrqLines : \A j, k \in DOMAIN iqueue[i] :
        j < k => iqueue[i][j].id < iqueue[i][k].id

\* The slave has in service exactly the lines whose do_irq has not ended
\* (irq.c:76), also when handlers are interrupted by one another: the end
\* that is reported without naming the line always meets the right one.
IrqInService ==
    islave = {istack[k].irq : k \in {n \in DOMAIN istack : istack[n].irq > 7}}
=============================================================================
