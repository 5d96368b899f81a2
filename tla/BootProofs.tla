----------------------------- MODULE BootProofs -----------------------------
(***************************************************************************)
(* Interrupts and the start of the kernel: for any set of lines, any number*)
(* of handlers and any depth of nesting; for any memory map, any place of  *)
(* the kernel and any timeouts.  The file system that the start ends with: *)
(* the i-node cache and path lookup for any tree, any size of the table    *)
(* and any sequence of lookups, and the places on disk that ext2 computes, *)
(* for any geometry.                                                       *)
(***************************************************************************)
EXTENDS Irq, Boot, Vfs, Ext2, Residues, SequenceTheorems, FiniteSetTheorems, TLAPS

LOCAL INSTANCE SequencesExt

\* Why a shared request is refused: the flag is clear wherever an exclusive
\* handler is.
FlagClear ==
    \A i \in IrqLines : \A k \in DOMAIN iqueue[i] : ~iqueue[i][k].shared => ~ishared[i]

\* Interrupts of the slave nest by priority: an inner one has the lower
\* number.
Nested ==
    \A k, l \in DOMAIN istack :
        (k < l /\ istack[k].irq > 7 /\ istack[l].irq > 7) => istack[l].irq < istack[k].irq

IrqInv == IrqTypeOK /\ FlagClear /\ IrqExclusive /\ IrqIds /\ Nested /\ IrqInService

----------------------------------------------------------------------------
\* A handler's record and a do_irq call's record, before and after a call.
LEMMA HandlerRecords ==
    /\ \A n \in Nat, shared \in BOOLEAN : [id |-> n, shared |-> shared] \in Handlers
    /\ \A h \in Handlers : h.id \in Nat /\ h.shared \in BOOLEAN
BY DEF Handlers

\* What a record of a do_irq call in progress holds.
LEMMA CallRecords ==
    /\ \A i \in IrqLines : [irq |-> i, next |-> 1] \in Calls /\ [irq |-> i, next |-> 1].irq = i
    /\ \A f \in Calls : /\ f.irq \in IrqLines /\ f.irq \in Int
                        /\ [f EXCEPT !.next = f.next + 1] \in Calls
                        /\ [f EXCEPT !.next = f.next + 1].irq = f.irq
BY IrqAssumption DEF Calls

\* Types are kept by every step.
LEMMA TypesKept == ASSUME IrqTypeOK, [IrqNext]_irqVars PROVE IrqTypeOK'
<1> USE DEF IrqTypeOK
<1>1. ASSUME NEW i \in IrqLines, NEW shared \in BOOLEAN, NEW ok \in BOOLEAN,
             request_irq(i, shared, ok)
      PROVE  IrqTypeOK'
  <2>1. ishared' \in [IrqLines -> BOOLEAN]
    BY <1>1 DEF request_irq
  <2>2. NewId(i) \in Nat
    <3>1. CASE iqueue[i] # <<>>
      <4>1. iqueue[i][Len(iqueue[i])] \in Handlers
        BY <3>1
      <4> QED BY <3>1, <4>1, HandlerRecords DEF NewId
    <3> QED BY <3>1 DEF NewId
  <2>3. Append(iqueue[i], [id |-> NewId(i), shared |-> shared]) \in Seq(Handlers)
    BY <2>2, HandlerRecords
  <2>4. iqueue' \in [IrqLines -> Seq(Handlers)]
    BY <1>1, <2>3 DEF request_irq
  <2> QED BY <1>1, <2>1, <2>4 DEF request_irq
<1>2. ASSUME NEW i \in IrqLines, Interrupt(i) PROVE IrqTypeOK'
  <2>1. istack' \in Seq(Calls)
    BY <1>2, CallRecords DEF Interrupt
  <2> QED BY <1>2, <2>1 DEF Interrupt
<1>3. ASSUME NEW on \in BOOLEAN, CallHandler(on) PROVE IrqTypeOK'
  <2>1. Len(istack) \in DOMAIN istack
    BY <1>3 DEF CallHandler
  <2>2. istack' \in Seq(Calls)
    <3>1. istack' = [istack EXCEPT ![Len(istack)] =
                       [istack[Len(istack)] EXCEPT !.next = @ + 1]]
      BY <1>3 DEF CallHandler
    <3>2. istack[Len(istack)] \in Calls
      BY <2>1
    <3>4. [istack[Len(istack)] EXCEPT !.next = @ + 1] \in Calls
      BY <3>2, CallRecords
    <3> QED BY <2>1, <3>1, <3>4
  <2> QED BY <1>3, <2>2 DEF CallHandler
<1>4. ASSUME Leave PROVE IrqTypeOK'
  <2>0. Len(istack) \in Nat /\ Len(istack) # 0
    BY <1>4 DEF Leave
  <2>1. istack' \in Seq(Calls)
    <3>1. \A k \in 1 .. Len(istack) - 1 : istack[k] \in Calls
      BY <2>0
    <3> QED BY <1>4, <2>0, <3>1, SubSeqProperties DEF Leave
  <2>2. islave' \subseteq islave
    BY <1>4 DEF Leave, EndOfInterrupt
  <2> QED BY <1>4, <2>1, <2>2 DEF Leave
<1>5. ASSUME UNCHANGED irqVars PROVE IrqTypeOK'
  BY <1>5 DEF irqVars
<1> QED BY <1>1, <1>2, <1>3, <1>4, <1>5 DEF IrqNext

\* What a successful request makes of the queue of its line.
LEMMA QueueAfter ==
    ASSUME IrqTypeOK, NEW i \in IrqLines, NEW shared \in BOOLEAN, NEW ok \in BOOLEAN,
           request_irq(i, shared, ok), NEW l \in IrqLines, NEW k \in DOMAIN iqueue'[l]
    PROVE  \/ k \in DOMAIN iqueue[l] /\ iqueue'[l][k] = iqueue[l][k]
           \/ /\ l = i /\ ok /\ k = Len(iqueue[i]) + 1
              /\ iqueue'[l][k] = [id |-> NewId(i), shared |-> shared]
<1> USE DEF IrqTypeOK
<1>1. CASE ~ok \/ l # i
  BY <1>1 DEF request_irq
<1>2. CASE ok /\ l = i
  <2>1. iqueue'[l] = Append(iqueue[i], [id |-> NewId(i), shared |-> shared])
    BY <1>2 DEF request_irq
  <2> QED BY <1>2, <2>1
<1> QED BY <1>1, <1>2

\* The length of a queue after a request.
LEMMA LengthAfter ==
    ASSUME IrqTypeOK, NEW i \in IrqLines, NEW shared \in BOOLEAN, NEW ok \in BOOLEAN,
           request_irq(i, shared, ok), NEW l \in IrqLines
    PROVE  Len(iqueue'[l]) = IF ok /\ l = i THEN Len(iqueue[l]) + 1 ELSE Len(iqueue[l])
BY DEF IrqTypeOK, request_irq

----------------------------------------------------------------------------
\* Exclusive handlers stay alone: a request that would join one is refused.
LEMMA ExclusiveKept ==
    ASSUME IrqInv, [IrqNext]_irqVars PROVE FlagClear' /\ IrqExclusive'
<1> USE DEF IrqInv
<1>1. ASSUME NEW i \in IrqLines, NEW shared \in BOOLEAN, NEW ok \in BOOLEAN,
             request_irq(i, shared, ok)
      PROVE  FlagClear' /\ IrqExclusive'
  <2> SUFFICES ASSUME NEW l \in IrqLines, NEW k \in DOMAIN iqueue'[l], ~iqueue'[l][k].shared
               PROVE  ~ishared'[l] /\ Len(iqueue'[l]) = 1
    BY DEF FlagClear, IrqExclusive
  <2>1. CASE k \in DOMAIN iqueue[l] /\ iqueue'[l][k] = iqueue[l][k]
    <3>1. ~ishared[l] /\ Len(iqueue[l]) = 1
      BY <2>1 DEF FlagClear, IrqExclusive
    <3>2. l # i \/ ~ok
      BY <1>1, <3>1 DEF request_irq, MayRegister
    <3> QED BY <1>1, <3>1, <3>2, LengthAfter DEF request_irq, IrqTypeOK
  <2>2. CASE /\ l = i /\ ok /\ k = Len(iqueue[i]) + 1
             /\ iqueue'[l][k] = [id |-> NewId(i), shared |-> shared]
    <3>1. ~shared
      BY <2>2
    <3>2. iqueue[i] = <<>>
      BY <1>1, <3>1 DEF request_irq, MayRegister
    <3>3. Len(iqueue'[l]) = 1
      <4>1. Len(iqueue'[l]) = Len(iqueue[l]) + 1
        BY <1>1, <2>2, LengthAfter
      <4> QED BY <2>2, <3>2, <4>1
    <3> QED BY <1>1, <2>2, <3>1, <3>3 DEF request_irq, IrqTypeOK
  <2> QED BY <1>1, <2>1, <2>2, QueueAfter
<1>2. CASE UNCHANGED <<ishared, iqueue>>
  BY <1>2 DEF FlagClear, IrqExclusive
<1> QED BY <1>1, <1>2 DEF IrqNext, Interrupt, CallHandler, Leave, irqVars

\* The ids of a line increase: a new one is above the last.
LEMMA IdsKept == ASSUME IrqInv, [IrqNext]_irqVars PROVE IrqIds'
<1> USE DEF IrqInv
<1>1. ASSUME NEW i \in IrqLines, NEW shared \in BOOLEAN, NEW ok \in BOOLEAN,
             request_irq(i, shared, ok)
      PROVE  IrqIds'
  <2> SUFFICES ASSUME NEW l \in IrqLines, NEW j \in DOMAIN iqueue'[l],
                      NEW k \in DOMAIN iqueue'[l], j < k
               PROVE  iqueue'[l][j].id < iqueue'[l][k].id
    BY DEF IrqIds
  <2>0. iqueue[l] \in Seq(Handlers) /\ Len(iqueue[l]) \in Nat
    BY DEF IrqTypeOK
  <2>00. iqueue'[l] \in Seq(Handlers)
    BY TypesKept, <1>1 DEF IrqNext, IrqTypeOK
  <2>1. CASE k \in DOMAIN iqueue[l] /\ iqueue'[l][k] = iqueue[l][k]
    <3>1. j # Len(iqueue[l]) + 1
      BY <2>0, <2>00, <2>1
    <3>2. j \in DOMAIN iqueue[l] /\ iqueue'[l][j] = iqueue[l][j]
      BY <1>1, <3>1, QueueAfter
    <3> QED BY <2>1, <3>2 DEF IrqIds
  <2>2. CASE /\ l = i /\ ok /\ k = Len(iqueue[i]) + 1
             /\ iqueue'[l][k] = [id |-> NewId(i), shared |-> shared]
    <3>1. j # Len(iqueue[l]) + 1
      BY <2>0, <2>00, <2>2
    <3>2. j \in DOMAIN iqueue[l] /\ iqueue'[l][j] = iqueue[l][j]
      BY <1>1, <3>1, QueueAfter
    <3>3. iqueue[i] # <<>> /\ Len(iqueue[i]) \in DOMAIN iqueue[i]
      BY <2>0, <2>2, <3>2
    <3>4. NewId(i) = iqueue[i][Len(iqueue[i])].id + 1
      BY <3>3 DEF NewId
    <3>6. iqueue[i][j].id \in Nat /\ iqueue[i][Len(iqueue[i])].id \in Nat
      <4>1. iqueue[i][j] \in Handlers /\ iqueue[i][Len(iqueue[i])] \in Handlers
        BY <2>0, <2>2, <3>2, <3>3
      <4> QED BY <4>1, HandlerRecords
    <3>5. iqueue[i][j].id <= iqueue[i][Len(iqueue[i])].id
      <4>1. j = Len(iqueue[i]) \/ j < Len(iqueue[i])
        BY <2>0, <2>2, <3>2
      <4>2. CASE j = Len(iqueue[i])
        BY <4>2, <3>6
      <4>3. CASE j < Len(iqueue[i])
        <5>1. iqueue[i][j].id < iqueue[i][Len(iqueue[i])].id
          BY <2>2, <3>2, <3>3, <4>3 DEF IrqIds
        <5> QED BY <5>1, <3>6
      <4> QED BY <4>1, <4>2, <4>3
    <3>7. iqueue'[l][j].id = iqueue[i][j].id /\ iqueue'[l][k].id = iqueue[i][Len(iqueue[i])].id + 1
      BY <2>2, <3>2, <3>4
    <3> QED BY <3>5, <3>6, <3>7
  <2> QED BY <1>1, <2>1, <2>2, QueueAfter
<1>2. CASE UNCHANGED iqueue
  BY <1>2 DEF IrqIds
<1> QED BY <1>1, <1>2 DEF IrqNext, Interrupt, CallHandler, Leave, irqVars

----------------------------------------------------------------------------
\* The slave's lines in service are those of the nested calls.
LEMMA ServiceKept == ASSUME IrqInv, [IrqNext]_irqVars PROVE Nested' /\ IrqInService'
<1> USE IrqAssumption DEF IrqInv
<1>0. istack \in Seq(Calls) /\ Len(istack) \in Nat
  BY DEF IrqTypeOK
<1>1. ASSUME NEW i \in IrqLines, Interrupt(i) PROVE Nested' /\ IrqInService'
  <2>1. istack' = Append(istack, [irq |-> i, next |-> 1])
    BY <1>1 DEF Interrupt
  <2>2. /\ DOMAIN istack' = 1 .. Len(istack) + 1 /\ DOMAIN istack = 1 .. Len(istack)
        /\ \A k \in DOMAIN istack : istack'[k] = istack[k]
        /\ istack'[Len(istack) + 1].irq = i
    BY <1>0, <2>1
  <2>3. \A k \in DOMAIN istack : (istack[k].irq > 7 /\ i > 7) => i < istack[k].irq
    BY <1>1 DEF Interrupt, IrqInService
  <2>4. Nested'
    BY <1>0, <2>2, <2>3 DEF Nested
  <2>5. IrqInService'
    <3>1. islave' = IF i > 7 THEN islave \cup {i} ELSE islave
      BY <1>1 DEF Interrupt
    <3> QED BY <1>0, <2>2, <3>1 DEF IrqInService
  <2> QED BY <2>4, <2>5
<1>2. ASSUME NEW on \in BOOLEAN, CallHandler(on) PROVE Nested' /\ IrqInService'
  <2>1. /\ DOMAIN istack' = DOMAIN istack
        /\ \A k \in DOMAIN istack : istack'[k].irq = istack[k].irq
    BY <1>0, <1>2 DEF CallHandler
  <2> QED BY <1>2, <2>1 DEF CallHandler, Nested, IrqInService
<1>3. ASSUME Leave PROVE Nested' /\ IrqInService'
  <2> DEFINE n == Len(istack)
             f == istack[n]
  <2>0. n \in Nat /\ n # 0
    BY <1>0, <1>3 DEF Leave
  <2>1. /\ n \in DOMAIN istack /\ DOMAIN istack' = 1 .. n - 1 /\ DOMAIN istack = 1 .. n
        /\ \A k \in 1 .. n - 1 : istack'[k] = istack[k]
    BY <1>0, <1>3 DEF Leave
  <2>10. /\ \A k \in DOMAIN istack : istack[k].irq \in Int
         /\ \A k \in DOMAIN istack' : k \in DOMAIN istack /\ istack'[k].irq = istack[k].irq
    <3>1. \A k \in DOMAIN istack : istack[k] \in Calls
      BY <1>0
    <3>2. \A k \in DOMAIN istack : istack[k].irq \in Int
      BY <3>1, CallRecords
    <3>3. \A k \in 1 .. n - 1 : k \in 1 .. n
      BY <2>0
    <3>4. ASSUME NEW k \in DOMAIN istack'
          PROVE  k \in DOMAIN istack /\ istack'[k].irq = istack[k].irq
      BY <2>1, <3>3
    <3> QED BY <3>2, <3>4
  <2>2. Nested'
    <3> SUFFICES ASSUME NEW k \in DOMAIN istack', NEW l \in DOMAIN istack', k < l,
                        istack'[k].irq > 7, istack'[l].irq > 7
                 PROVE  istack'[l].irq < istack'[k].irq
      BY DEF Nested
    <3>1. k \in DOMAIN istack /\ l \in DOMAIN istack
      BY <2>10
    <3>2. istack'[k].irq = istack[k].irq /\ istack'[l].irq = istack[l].irq
      BY <2>10
    <3> QED BY <3>1, <3>2 DEF Nested
  <2>11. {m \in DOMAIN istack' : istack'[m].irq > 7} = {m \in 1 .. n - 1 : istack[m].irq > 7}
    BY <2>1
  <2>12. {istack'[k].irq : k \in {m \in DOMAIN istack' : istack'[m].irq > 7}} =
         {istack[k].irq : k \in {m \in 1 .. n - 1 : istack[m].irq > 7}}
    BY <2>1, <2>11
  <2>3. CASE f.irq <= 7
    <3>1. islave' = islave
      BY <2>3, <2>10, <2>1, <1>3 DEF Leave, EndOfInterrupt
    <3>2. {m \in DOMAIN istack : istack[m].irq > 7} = {m \in 1 .. n - 1 : istack[m].irq > 7}
      BY <2>0, <2>1, <2>3, <2>10
    <3> QED BY <2>2, <2>12, <3>1, <3>2 DEF IrqInService
  <2>4. CASE f.irq > 7
    <3>1. islave' = {i \in islave : \E j \in islave : j < i}
      BY <1>3, <2>4 DEF Leave, EndOfInterrupt
    <3>2. \A k \in 1 .. n - 1 : istack[k].irq > 7 => f.irq < istack[k].irq
      <4> SUFFICES ASSUME NEW k \in 1 .. n - 1, istack[k].irq > 7 PROVE f.irq < istack[k].irq
        OBVIOUS
      <4>1. k \in DOMAIN istack /\ k < n
        BY <2>0, <2>1
      <4> QED BY <2>1, <2>4, <4>1 DEF Nested
    <3>3. islave = {istack[k].irq : k \in {m \in DOMAIN istack : istack[m].irq > 7}}
      BY DEF IrqInService
    <3>4. f.irq \in islave /\ f.irq \in Int
      BY <2>1, <2>4, <2>10, <3>3
    <3>5. \A i \in islave : i = f.irq \/ f.irq < i
      <4> SUFFICES ASSUME NEW i \in islave PROVE i = f.irq \/ f.irq < i
        OBVIOUS
      <4>1. PICK k \in DOMAIN istack : istack[k].irq > 7 /\ i = istack[k].irq
        BY <3>3
      <4>2. k = n \/ k \in 1 .. n - 1
        BY <2>0, <2>1
      <4> QED BY <3>2, <4>1, <4>2
    <3>6. ASSUME NEW i PROVE i \in islave' <=> (i \in islave /\ i # f.irq)
      <4>0. \A x \in islave : x \in Int
        BY DEF IrqTypeOK
      <4> QED BY <4>0, <3>1, <3>4, <3>5
    <3>7. ASSUME NEW i
          PROVE (i \in islave /\ i # f.irq) <=>
                \E k \in 1 .. n - 1 : istack[k].irq > 7 /\ i = istack[k].irq
      <4>0. \A k \in 1 .. n - 1 : k \in DOMAIN istack /\ istack[k].irq \in Int
        BY <2>0, <2>1, <2>10
      <4>1. ASSUME i \in islave, i # f.irq
            PROVE \E k \in 1 .. n - 1 : istack[k].irq > 7 /\ i = istack[k].irq
        <5>1. PICK k \in DOMAIN istack : istack[k].irq > 7 /\ i = istack[k].irq
          BY <4>1, <3>3
        <5>2. k \in 1 .. n - 1
          BY <2>0, <2>1, <4>1, <5>1
        <5> QED BY <5>1, <5>2
      <4>2. ASSUME NEW k \in 1 .. n - 1, istack[k].irq > 7, i = istack[k].irq
            PROVE i \in islave /\ i # f.irq
        BY <3>2, <3>3, <3>4, <4>0, <4>2
      <4> QED BY <4>1, <4>2
    <3>8. islave' = {istack[k].irq : k \in {m \in 1 .. n - 1 : istack[m].irq > 7}}
      <4> DEFINE R == {istack[k].irq : k \in {m \in 1 .. n - 1 : istack[m].irq > 7}}
      <4>1. ASSUME NEW i PROVE i \in R <=> \E k \in 1 .. n - 1 : istack[k].irq > 7 /\ i = istack[k].irq
        OBVIOUS
      <4> HIDE DEF R
      <4>2. ASSUME NEW i PROVE i \in islave' <=> i \in R
        BY <3>6, <3>7, <4>1
      <4>3. islave' = R
        BY <4>2
      <4> QED BY <4>3 DEF R
    <3> QED BY <2>2, <2>12, <3>8 DEF IrqInService
  <2> QED BY <2>1, <2>3, <2>4, <2>10
<1>4. CASE UNCHANGED <<istack, islave>>
  BY <1>4 DEF Nested, IrqInService
<1> QED BY <1>1, <1>2, <1>3, <1>4 DEF IrqNext, request_irq, irqVars

----------------------------------------------------------------------------
\* The invariant holds initially and is kept by every step.
LEMMA IrqInductive == IrqSpec => []IrqInv
<1>1. IrqInit => IrqInv
  BY IrqAssumption DEF IrqInit, IrqInv, IrqTypeOK, FlagClear, IrqExclusive, IrqIds, Nested, IrqInService,
     Handlers
<1>2. IrqInv /\ [IrqNext]_irqVars => IrqInv'
  BY TypesKept, ExclusiveKept, IdsKept, ServiceKept DEF IrqInv
<1> QED BY <1>1, <1>2, PTL DEF IrqSpec

\* request_irq never puts a second handler next to an exclusive one, for any
\* set of lines and whichever allocations fail.
THEOREM ExclusiveStaysAlone == IrqSpec => []IrqExclusive
<1>1. IrqInv => IrqExclusive
  BY DEF IrqInv
<1> QED BY <1>1, IrqInductive, PTL

\* No two handlers of a line have the same id.
THEOREM IdsDistinct == IrqSpec => []IrqIds
<1>1. IrqInv => IrqIds
  BY DEF IrqInv
<1> QED BY <1>1, IrqInductive, PTL

\* do_irq ends the right interrupt at the slave, however deep they nest.
THEOREM EndsMatchService == IrqSpec => []IrqInService
<1>1. IrqInv => IrqInService
  BY DEF IrqInv
<1> QED BY <1>1, IrqInductive, PTL

----------------------------------------------------------------------------
(***************************************************************************)
(* The start.  init_pg puts the pages of the regions on its stack one region*)
(* after the other; what holds of one region's pages holds of all because no*)
(* byte is in two regions.                                                 *)
(***************************************************************************)
\* FlattenSeq puts its sequences together one after the other.
LEMMA FlattenSteps ==
  ASSUME NEW s
  PROVE  \A n \in Nat : \E f : f = [i \in 1 .. n |-> IF i = 1 THEN s[i] ELSE f[i - 1] \o s[i]]
<1> DEFINE step(f, i) == IF i = 1 THEN s[i] ELSE f[i - 1] \o s[i]
           S == {n \in Nat : \E f : f = [i \in 1 .. n |-> step(f, i)]}
<1>1. 0 \in S
  <2>1. \A i \in 1 .. 0 : FALSE
    OBVIOUS
  <2>2. <<>> = [i \in 1 .. 0 |-> step(<<>>, i)]
    BY <2>1
  <2> QED
    BY <2>2
<1>2. ASSUME NEW n \in S PROVE n + 1 \in S
  <2>1. PICK f : f = [i \in 1 .. n |-> step(f, i)]
    OBVIOUS
  <2>11. \A i \in 1 .. n : f[i] = step(f, i)
    <3> HIDE DEF step
    <3> QED
      BY <2>1
  <2> DEFINE g == [i \in 1 .. n + 1 |-> IF i <= n THEN f[i] ELSE step(f, i)]
  <2>2. ASSUME NEW i \in 1 .. n + 1 PROVE g[i] = step(g, i)
    <3>1. n \in Nat
      OBVIOUS
    <3>2. CASE i = 1
      <4>1. step(f, i) = s[i] /\ step(g, i) = s[i]
        BY <3>2
      <4>2. i <= n => f[i] = step(f, i)
        BY <2>11, <3>1
      <4> QED
        BY <4>1, <4>2
    <3>3. CASE i # 1
      <4>1. i - 1 \in 1 .. n /\ i - 1 \in 1 .. n + 1 /\ i - 1 <= n
        BY <3>1, <3>3
      <4>2. g[i - 1] = f[i - 1]
        BY <4>1
      <4>3. step(f, i) = step(g, i)
        BY <3>3, <4>2
      <4>4. i <= n => f[i] = step(f, i)
        BY <2>11, <3>1
      <4> QED
        BY <4>3, <4>4
    <3> QED
      BY <3>2, <3>3
  <2>3. g = [i \in 1 .. n + 1 |-> g[i]]
    OBVIOUS
  <2> HIDE DEF g, step
  <2>4. g = [i \in 1 .. n + 1 |-> step(g, i)]
    BY <2>2, <2>3
  <2> QED
    BY <2>4
<1>3. S \in SUBSET Nat
  OBVIOUS
<1> HIDE DEF S
<1>4. S = Nat
  BY <1>1, <1>2, <1>3, InductionNat
<1> QED
  BY <1>4, Zenon DEF S

\* n sequences of numbers that have no element in common and none twice.
Apart(s, n) ==
    /\ DOMAIN s = 1 .. n /\ Len(s) = n
    /\ \A i \in 1 .. n : s[i] \in Seq(Nat)
    /\ \A i, j \in 1 .. n : \A k \in DOMAIN s[i], l \in DOMAIN s[j] :
          s[i][k] = s[j][l] => i = j /\ k = l

\* A sequence of elements of theirs, none of them twice.
Collects(p, s, n) ==
    /\ p \in Seq(Nat)
    /\ \A k \in DOMAIN p : \E i \in 1 .. n : \E l \in DOMAIN s[i] : p[k] = s[i][l]
    /\ \A k, l \in DOMAIN p : p[k] = p[l] => k = l

\* The elements of the flattened sequence are those of its parts.
LEMMA FlattenElements ==
  ASSUME NEW s, NEW n \in Nat \ {0}, Apart(s, n)
  PROVE  Collects(FlattenSeq(s), s, n)
<1> USE DEF Apart
<1> DEFINE flatten[i \in 1 .. Len(s)] == IF i = 1 THEN s[i] ELSE flatten[i - 1] \o s[i]
<1>1. FlattenSeq(s) = flatten[n]
  <2>1. FlattenSeq(s) = IF Len(s) = 0 THEN s ELSE flatten[Len(s)]
    BY Zenon DEF FlattenSeq
  <2> QED
    BY <2>1
<1>2. flatten = [i \in 1 .. n |-> IF i = 1 THEN s[i] ELSE flatten[i - 1] \o s[i]]
  <2>1. \E f : f = [i \in 1 .. n |-> IF i = 1 THEN s[i] ELSE f[i - 1] \o s[i]]
    <3>1. \A k \in Nat :
             \E f : f = [i \in 1 .. k |-> IF i = 1 THEN s[i] ELSE f[i - 1] \o s[i]]
      BY FlattenSteps, Zenon
    <3> QED
      BY <3>1, Zenon
  <2>2. \E f : f = [i \in 1 .. Len(s) |-> IF i = 1 THEN s[i] ELSE f[i - 1] \o s[i]]
    BY <2>1, Zenon
  <2>3. flatten = [i \in 1 .. Len(s) |-> IF i = 1 THEN s[i] ELSE flatten[i - 1] \o s[i]]
    BY <2>2, Zenon DEF flatten
  <2> QED
    BY <2>3, Zenon
<1> HIDE DEF flatten
<1> USE DEF Collects
<1> DEFINE Good(m) == Collects(flatten[m], s, m)
           S == {m \in Nat : m + 1 \in 1 .. n => Good(m + 1)}
<1>3. 0 \in S
  <2>1. 1 \in 1 .. n /\ flatten[1] = s[1]
    BY <1>2
  <2>2. Good(1)
    BY <2>1
  <2>3. 0 + 1 = 1
    OBVIOUS
  <2> HIDE DEF Good, Collects
  <2> QED
    BY <2>2, <2>3
<1>4. ASSUME NEW m \in S PROVE m + 1 \in S
  <2> SUFFICES ASSUME m + 2 \in 1 .. n PROVE Good(m + 2)
    <3>1. m + 1 \in Nat /\ (m + 1) + 1 = m + 2
      OBVIOUS
    <3> HIDE DEF Good, Collects
    <3> QED
      BY <3>1
  <2> DEFINE u == flatten[m + 1]
             v == s[m + 2]
  <2>1. m \in Nat /\ m + 1 \in 1 .. n /\ (m + 2) - 1 = m + 1 /\ m + 2 # 1
    OBVIOUS
  <2>2. /\ u \in Seq(Nat)
        /\ \A k \in DOMAIN u : \E i \in 1 .. m + 1 : \E l \in DOMAIN s[i] : u[k] = s[i][l]
        /\ \A k, l \in DOMAIN u : u[k] = u[l] => k = l
    BY <2>1
  <2>3. flatten[m + 2] = u \o v
    <3>1. flatten[m + 2] = IF m + 2 = 1 THEN s[m + 2] ELSE flatten[(m + 2) - 1] \o s[m + 2]
      BY <1>2, Zenon
    <3> QED
      BY <2>1, <3>1, Zenon
  <2>4. v \in Seq(Nat) /\ \A k, l \in DOMAIN v : v[k] = v[l] => k = l
    OBVIOUS
  <2>5. \A k \in DOMAIN u, l \in DOMAIN v : u[k] # v[l]
    <3> SUFFICES ASSUME NEW k \in DOMAIN u, NEW l \in DOMAIN v, u[k] = v[l] PROVE FALSE
      OBVIOUS
    <3>1. PICK i \in 1 .. m + 1 : \E h \in DOMAIN s[i] : u[k] = s[i][h]
      BY <2>2
    <3>2. PICK h \in DOMAIN s[i] : u[k] = s[i][h]
      BY <3>1
    <3>3. i \in 1 .. n /\ i # m + 2
      BY <2>1, <3>1
    <3>4. s[i][h] = s[m + 2][l] /\ l \in DOMAIN s[m + 2] /\ m + 2 \in 1 .. n
      BY <3>2
    <3> QED
      BY <3>2, <3>3, <3>4, Zenon
  <2> HIDE DEF u, v
  <2>6. /\ u \o v \in Seq(Nat) /\ DOMAIN (u \o v) = 1 .. Len(u) + Len(v)
        /\ Len(u) \in Nat /\ Len(v) \in Nat
        /\ DOMAIN u = 1 .. Len(u) /\ DOMAIN v = 1 .. Len(v)
        /\ \A k \in 1 .. Len(u) + Len(v) :
              (u \o v)[k] = IF k <= Len(u) THEN u[k] ELSE v[k - Len(u)]
    BY <2>2, <2>4
  <2> DEFINE w == u \o v
  <2>10. flatten[m + 2] = w /\ w \in Seq(Nat)
    BY <2>3, <2>6
  <2> HIDE DEF w
  <2>7. \A k \in DOMAIN w :
          \/ k \in DOMAIN u /\ w[k] = u[k]
          \/ k - Len(u) \in DOMAIN v /\ w[k] = v[k - Len(u)] /\ k \notin DOMAIN u
    BY <2>6 DEF w
  <2>8. \A k \in DOMAIN w : \E i \in 1 .. m + 2 : \E l \in DOMAIN s[i] : w[k] = s[i][l]
    <3> TAKE k \in DOMAIN w
    <3>1. CASE k \in DOMAIN u /\ w[k] = u[k]
      <4>1. PICK i \in 1 .. m + 1 : \E l \in DOMAIN s[i] : u[k] = s[i][l]
        BY <2>2, <3>1
      <4>2. i \in 1 .. m + 2
        BY <2>1
      <4> QED
        BY <3>1, <4>1, <4>2
    <3>2. CASE k - Len(u) \in DOMAIN v /\ w[k] = v[k - Len(u)]
      BY <2>1, <3>2 DEF v
    <3> QED
      BY <2>7, <3>1, <3>2
  <2>9. \A k, l \in DOMAIN w : w[k] = w[l] => k = l
    <3> TAKE k, l \in DOMAIN w
    <3> HAVE w[k] = w[l]
    <3>0. k \in Int /\ l \in Int /\ Len(u) \in Int
      BY <2>6 DEF w
    <3>1. CASE k \in DOMAIN u /\ l \in DOMAIN u
      BY <2>2, <2>7, <2>6, <3>1 DEF w
    <3>2. CASE k \notin DOMAIN u /\ l \notin DOMAIN u
      <4>1. k - Len(u) = l - Len(u)
        BY <2>4, <2>7, <3>2
      <4> QED
        BY <3>0, <4>1
    <3>3. CASE k \in DOMAIN u /\ l \notin DOMAIN u
      BY <2>5, <2>7, <3>3
    <3>4. CASE k \notin DOMAIN u /\ l \in DOMAIN u
      BY <2>5, <2>7, <3>4
    <3> QED
      BY <3>1, <3>2, <3>3, <3>4
  <2> QED
    BY <2>8, <2>9, <2>10
<1>5. S \in SUBSET Nat
  OBVIOUS
<1> HIDE DEF Good, Collects, S
<1>6. S = Nat
  BY <1>3, <1>4, <1>5, InductionNat
<1>7. Good(n)
  <2>1. n - 1 \in Nat /\ (n - 1) + 1 = n /\ n \in 1 .. n
    OBVIOUS
  <2> QED
    BY <1>6, <2>1 DEF S
<1> QED
  BY <1>1, <1>7 DEF Good, Collects

\* PAGE_ALIGN gives the next multiple of a page.
LEMMA Aligned ==
  ASSUME NEW a \in Nat
  PROVE  \E q \in Nat : PageAlign(a) = BootPage * q /\ BootPage * q >= a
<1> DEFINE P == BootPage
           q == (a + P - 1) \div P
           r == (a + P - 1) % P
<1>1. P \in Nat \ {0}
  BY BootAssumption
<1>2. a + P - 1 \in Nat
  BY <1>1
<1>3. q \in Nat /\ r \in 0 .. P - 1 /\ a + P - 1 = P * q + r
  BY <1>1, <1>2, DivMod
<1>4. PageAlign(a) = q * P
  BY DEF PageAlign
<1> HIDE DEF q, r, P
<1>5. q * P = P * q /\ P * q \in Int
  BY <1>1, <1>3
<1>6. P * q >= a
  BY <1>1, <1>3, <1>5
<1> QED
  BY <1>3, <1>4, <1>5, <1>6 DEF P

\* The pages that a region gives begin in it, on page boundaries, behind the
\* kernel if the region lies above 1 MB, and each is given once.
LEMMA RegionPages ==
  ASSUME NEW r \in BootRegion
  PROVE  /\ PagesIn(Adjust(r)) \in Seq(Nat)
         /\ \A k \in DOMAIN PagesIn(Adjust(r)) :
              /\ PagesIn(Adjust(r))[k] % BootPage = 0
              /\ r.avail
              /\ r.base <= PagesIn(Adjust(r))[k] /\ PagesIn(Adjust(r))[k] < r.base + r.len
              /\ r.base >= BootKernel => PagesIn(Adjust(r))[k] >= BootKernel + BootKernelLen
         /\ \A k, l \in DOMAIN PagesIn(Adjust(r)) :
              PagesIn(Adjust(r))[k] = PagesIn(Adjust(r))[l] => k = l
<1> DEFINE P == BootPage
           d == Adjust(r)
           stop == r.base + r.len
           pages == PagesIn(d)
<1>1. /\ P \in Nat \ {0} /\ BootKernel \in Nat /\ BootKernelLen \in Nat
      /\ r.base \in Nat /\ r.len \in Nat /\ stop \in Nat /\ r.avail \in BOOLEAN
  BY BootAssumption DEF BootRegion
<1>2. /\ d.base \in Nat /\ d.base >= r.base /\ d.avail = r.avail /\ d.base + d.len = stop
      /\ r.avail /\ r.base >= BootKernel => d.base >= BootKernel + BootKernelLen
  <2>1. CASE IsAdjusted(r)
    <3>1. d = [r EXCEPT !.base = @ + BootKernelLen, !.len = @ - BootKernelLen]
      BY <2>1 DEF Adjust
    <3>2. /\ d.base = r.base + BootKernelLen /\ d.len = r.len - BootKernelLen
          /\ d.avail = r.avail
      BY <3>1 DEF BootRegion
    <3> HIDE DEF d
    <3> QED
      BY <1>1, <3>2
  <2>2. CASE ~IsAdjusted(r)
    <3>1. d = r
      BY <2>2 DEF Adjust
    <3> HIDE DEF d
    <3> QED
      BY <1>1, <2>2, <3>1 DEF IsAdjusted
  <2> QED
    BY <2>1, <2>2
<1>3. PICK q \in Nat : PageAlign(d.base) = P * q /\ P * q >= d.base
  BY <1>2, Aligned
<1> DEFINE first == P * q
           n == (stop - first + P - 1) \div P
<1>4. pages = IF ~r.avail \/ stop <= first THEN <<>>
              ELSE [k \in 1 .. n |-> first + (k - 1) * P]
  BY <1>2, <1>3 DEF PagesIn
<1>5. CASE ~r.avail \/ stop <= first
  <2>1. pages = <<>>
    BY <1>4, <1>5
  <2> HIDE DEF pages
  <2>2. pages \in Seq(Nat) /\ \A k \in DOMAIN pages : FALSE
    BY <2>1
  <2> QED
    BY <2>2 DEF pages
<1>6. CASE r.avail /\ ~(stop <= first)
  <2>1. pages = [k \in 1 .. n |-> first + (k - 1) * P]
    BY <1>4, <1>6
  <2>2. first \in Nat /\ stop - first + P - 1 \in Nat
    BY <1>1, <1>3, <1>6
  <2> DEFINE x == stop - first + P - 1
             o == x % P
  <2>3. n \in Nat /\ o \in 0 .. P - 1 /\ x = P * n + o
    BY <1>1, <2>2, DivMod
  <2> HIDE DEF n, o
  <2>4. ASSUME NEW k \in 1 .. n
        PROVE  /\ pages[k] = first + (k - 1) * P
               /\ pages[k] \in Nat /\ pages[k] >= first /\ pages[k] < stop
               /\ pages[k] % P = 0
    <3> DEFINE j == k - 1
    <3>1. pages[k] = first + j * P /\ j \in Nat /\ j + 1 <= n
      BY <2>1, <2>3
    <3> HIDE DEF j
    <3>2. P * n >= P * (j + 1) /\ P * (j + 1) = P * j + P /\ j * P = P * j /\ P * j \in Nat
      BY <1>1, <2>3, <3>1
    <3>3. P * n \in Int
      BY <1>1, <2>3
    <3>4. P * j < stop - first
      <4> DEFINE pn == P * n
                 pj == P * j
      <4>1. pn >= pj + P /\ pn \in Int /\ pj \in Nat /\ stop - first + P - 1 = pn + o
        BY <2>3, <3>2, <3>3
      <4> HIDE DEF pn, pj, first, stop
      <4>2. first \in Int /\ stop \in Int
        BY <1>1, <2>2 DEF stop
      <4>3. pj < stop - first
        BY <1>1, <2>3, <4>1, <4>2
      <4> QED
        BY <4>3 DEF pj
    <3>5. first + P * j = P * (q + j) + 0 /\ q + j \in Nat /\ 0 \in 0 .. P - 1
      BY <1>1, <3>1
    <3>6. (P * (q + j) + 0) % P = 0
      BY <1>1, <3>5, DivModUnique
    <3>7. pages[k] = first + P * j
      BY <3>1, <3>2
    <3>8. first + P * j \in Nat /\ first + P * j >= first /\ first + P * j < stop
      <4> DEFINE pj == P * j
      <4>1. pj \in Nat /\ pj < stop - first /\ first \in Nat /\ stop \in Nat
        BY <1>1, <2>2, <3>2, <3>4
      <4> HIDE DEF pj, first, stop
      <4>2. first + pj \in Nat /\ first + pj >= first /\ first + pj < stop
        BY <4>1
      <4> QED
        BY <4>2 DEF pj
    <3>9. (first + P * j) % P = 0
      BY <3>5, <3>6
    <3> QED
      BY <3>1, <3>7, <3>8, <3>9 DEF j
  <2>5. DOMAIN pages = 1 .. n
    BY <2>1
  <2> HIDE DEF pages
  <2>6. pages \in Seq(Nat)
    <3>1. pages \in [1 .. n -> Nat]
      BY <2>1, <2>4, <2>5
    <3> QED
      BY <2>3, <3>1
  <2>7. \A k, l \in 1 .. n : pages[k] = pages[l] => k = l
    <3> TAKE k, l \in 1 .. n
    <3> HAVE pages[k] = pages[l]
    <3>1. first + (k - 1) * P = first + (l - 1) * P
      BY <2>4
    <3>2. (k - 1) * P = (l - 1) * P
      <4> DEFINE y == (k - 1) * P
                 z == (l - 1) * P
      <4>1. y \in Int /\ z \in Int /\ first + y = first + z
        BY <1>1, <2>3, <3>1
      <4> HIDE DEF y, z, first
      <4>2. y = z
        BY <2>2, <4>1
      <4> QED
        BY <4>2 DEF y, z
    <3>3. k \in Nat /\ l \in Nat
      BY <2>3
    <3> QED
      BY <1>1, <3>2, <3>3, SMTT(30)
  <2>8. \A k \in 1 .. n :
           /\ r.base <= pages[k]
           /\ r.base >= BootKernel => pages[k] >= BootKernel + BootKernelLen
    <3> TAKE k \in 1 .. n
    <3>1. pages[k] \in Nat /\ pages[k] >= first /\ first >= d.base /\ first \in Nat
      BY <1>3, <2>2, <2>4
    <3> HIDE DEF first, d
    <3> QED
      BY <1>1, <1>2, <1>6, <3>1
  <2> QED
    BY <1>6, <2>4, <2>5, <2>6, <2>7, <2>8 DEF pages
<1> QED
  BY <1>5, <1>6

\* What init_pg makes of a plain map.
LEMMA WrittenSound ==
  ASSUME NEW l \in Loaders, PlainMap(l.map)
  PROVE  /\ \A i \in DOMAIN WrittenPages(l) :
              /\ WrittenPages(l)[i] % BootPage = 0 /\ IsFree(l.map, WrittenPages(l)[i])
              /\ WrittenPages(l)[i] \notin BootKernel .. BootKernel + BootKernelLen - 1
         /\ \A i, j \in DOMAIN WrittenPages(l) : WrittenPages(l)[i] = WrittenPages(l)[j] => i = j
<1> DEFINE map == l.map
           t == mmap_table(l)
           n == Len(map) - 1
           s == [i \in DOMAIN t |-> PagesIn(Adjust(t[i]))]
           pages == FlattenSeq(s)
           max == l.upper \div BootPage
           m == IF Len(pages) < max THEN Len(pages) ELSE max
<1>1. map \in Seq(BootRegion) /\ Len(map) \in Nat \ {0} /\ DOMAIN map = 1 .. Len(map) /\ n \in Nat
  BY BootAssumption
<1>2. DOMAIN t = 1 .. n /\ \A i \in 1 .. n : t[i] = map[i] /\ i \in DOMAIN map
  <2>1. t = SubSeq(map, 1, n)
    BY DEF mmap_table, Front
  <2> HIDE DEF t
  <2> QED
    BY <1>1, <2>1
<1>3. WrittenPages(l) = SubSeq(pages, 1, m)
  BY Zenon DEF WrittenPages, StackMax
<1>4. max \in Nat
  BY BootAssumption, DivMod
<1> HIDE DEF t
<1>5. DOMAIN s = 1 .. n /\ \A i \in 1 .. n : s[i] = PagesIn(Adjust(map[i])) /\ map[i] \in BootRegion
  BY <1>1, <1>2
<1> HIDE DEF s
<1>6. ASSUME NEW i \in 1 .. n, NEW k \in DOMAIN s[i]
      PROVE  /\ s[i][k] \in Nat /\ s[i][k] % BootPage = 0
             /\ map[i].avail /\ map[i].base <= s[i][k] /\ s[i][k] < map[i].base + map[i].len
             /\ map[i].base >= BootKernel => s[i][k] >= BootKernel + BootKernelLen
  <2>1. s[i] = PagesIn(Adjust(map[i])) /\ map[i] \in BootRegion
    BY <1>5
  <2>2. s[i] \in Seq(Nat)
    BY <2>1, RegionPages
  <2> QED
    BY <2>1, <2>2, RegionPages
<1>7. \A i \in 1 .. n : s[i] \in Seq(Nat) /\ map[i].base \in Nat /\ map[i].len \in Nat
  BY <1>5, RegionPages DEF BootRegion
<1>8. s \in Seq(Seq(Nat)) /\ Len(s) = n
  <2>1. s = [i \in 1 .. n |-> s[i]]
    BY <1>5 DEF s
  <2> QED
    BY <1>1, <1>7, <2>1
<1>9. ASSUME NEW i \in 1 .. n, NEW j \in 1 .. n, NEW k \in DOMAIN s[i], NEW h \in DOMAIN s[j],
             s[i][k] = s[j][h]
      PROVE  i = j /\ k = h
  <2>1. i = j
    <3> SUFFICES ASSUME i # j PROVE FALSE
      OBVIOUS
    <3>1. \/ map[i].base + map[i].len <= map[j].base
          \/ map[j].base + map[j].len <= map[i].base
      BY <1>2, <1>6 DEF PlainMap
    <3>2. /\ map[i].base <= s[i][k] /\ s[i][k] < map[i].base + map[i].len
          /\ map[j].base <= s[j][h] /\ s[j][h] < map[j].base + map[j].len
          /\ s[i][k] \in Nat
      BY <1>6
    <3>3. /\ map[i].base \in Nat /\ map[i].len \in Nat
          /\ map[j].base \in Nat /\ map[j].len \in Nat
      BY <1>7
    <3> DEFINE bi == map[i].base
               li == map[i].len
               bj == map[j].base
               lj == map[j].len
               x == s[i][k]
    <3>4. /\ bi \in Nat /\ li \in Nat /\ bj \in Nat /\ lj \in Nat /\ x \in Nat
          /\ bi <= x /\ x < bi + li /\ bj <= x /\ x < bj + lj
          /\ bi + li <= bj \/ bj + lj <= bi
      BY <1>9, <3>1, <3>2, <3>3, Zenon
    <3> HIDE DEF bi, li, bj, lj, x
    <3> QED
      BY <3>4
  <2>2. s[i] = PagesIn(Adjust(map[i])) /\ map[i] \in BootRegion
    BY <1>5
  <2> QED
    BY <1>9, <2>1, <2>2, RegionPages
<1>10. Collects(pages, s, n)
  <2>1. CASE n = 0
    <3>1. pages = s
      BY <1>8, <2>1 DEF FlattenSeq
    <3>2. s = <<>>
      <4>1. s \in Seq(Seq(Nat)) /\ Len(s) = 0
        BY <1>8, <2>1
      <4> QED
        BY <4>1
    <3> HIDE DEF pages
    <3> QED
      BY <3>1, <3>2 DEF Collects
  <2>2. CASE n # 0
    <3>1. \A i, j \in 1 .. n : \A k \in DOMAIN s[i], h \in DOMAIN s[j] :
             s[i][k] = s[j][h] => i = j /\ k = h
      BY <1>9
    <3>2. \A i \in 1 .. n : s[i] \in Seq(Nat)
      BY <1>7
    <3>3. n \in Nat /\ DOMAIN s = 1 .. n /\ Len(s) = n
      BY <1>1, <1>5, <1>8
    <3> HIDE DEF n
    <3>4. Apart(s, n)
      BY <3>1, <3>2, <3>3 DEF Apart
    <3> QED
      BY <2>2, <3>3, <3>4, FlattenElements
  <2> QED
    BY <2>1, <2>2
<1> HIDE DEF pages, max
<1>11. m \in 0 .. Len(pages) /\ Len(pages) \in Nat /\ DOMAIN pages = 1 .. Len(pages)
  BY <1>4, <1>10 DEF Collects
<1> HIDE DEF m
<1> DEFINE st == SubSeq(pages, 1, m)
<1>12. DOMAIN st = 1 .. m /\ \A i \in 1 .. m : st[i] = pages[i] /\ i \in DOMAIN pages
  BY <1>10, <1>11 DEF Collects
<1> HIDE DEF st
<1>13. ASSUME NEW a \in DOMAIN st
       PROVE  /\ st[a] % BootPage = 0 /\ IsFree(map, st[a])
              /\ st[a] \notin BootKernel .. BootKernel + BootKernelLen - 1
  <2>1. PICK i \in 1 .. n : \E h \in DOMAIN s[i] : st[a] = s[i][h]
    <3>1. a \in DOMAIN pages /\ st[a] = pages[a]
      BY <1>12
    <3>2. PICK i \in 1 .. n : \E h \in DOMAIN s[i] : pages[a] = s[i][h]
      BY <1>10, <3>1, Zenon DEF Collects
    <3> QED
      BY <3>1, <3>2
  <2>2. PICK h \in DOMAIN s[i] : st[a] = s[i][h]
    BY <2>1
  <2>3. /\ st[a] \in Nat /\ st[a] % BootPage = 0
        /\ map[i].avail /\ map[i].base <= st[a] /\ st[a] < map[i].base + map[i].len
        /\ map[i].base >= BootKernel => st[a] >= BootKernel + BootKernelLen
    BY <1>6, <2>2
  <2>4. i \in DOMAIN map /\ map[i].base \in Nat /\ map[i].len \in Nat
    BY <1>2, <1>7
  <2>5. IsFree(map, st[a])
    BY <2>3, <2>4 DEF IsFree
  <2>6. map[i].base + map[i].len > BootKernel => map[i].base >= BootKernel
    BY <2>3, <2>4 DEF PlainMap
  <2>7. BootKernel \in Nat /\ BootKernelLen \in Nat
    BY BootAssumption
  <2>8. st[a] \notin BootKernel .. BootKernel + BootKernelLen - 1
    BY <2>3, <2>4, <2>6, <2>7
  <2> QED
    BY <2>3, <2>5, <2>8
<1>14. \A i, j \in DOMAIN st : st[i] = st[j] => i = j
  BY <1>10, <1>12 DEF Collects
<1> QED
  BY <1>3, <1>13, <1>14 DEF st

\* So the stack holds such pages as far as it was written.
LEMMA StackSound ==
  ASSUME NEW l \in Loaders, PlainMap(l.map)
  PROVE  /\ \A i \in DOMAIN StackPages(l) : StackPages(l)[i] # Unwritten =>
              /\ StackPages(l)[i] % BootPage = 0 /\ IsFree(l.map, StackPages(l)[i])
              /\ StackPages(l)[i] \notin BootKernel .. BootKernel + BootKernelLen - 1
         /\ \A i, j \in DOMAIN StackPages(l) :
              StackPages(l)[i] = StackPages(l)[j] /\ StackPages(l)[i] # Unwritten => i = j
<1>1. \A i \in DOMAIN StackPages(l) : StackPages(l)[i] # Unwritten =>
         i \in DOMAIN WrittenPages(l) /\ StackPages(l)[i] = WrittenPages(l)[i]
  BY DEF StackPages
<1> QED
  BY <1>1, WrittenSound

----------------------------------------------------------------------------
\* The first two calls of the start.
LEMMA FirstSteps ==
  Following("karch") = "init_timer" /\ Following("init_timer") = "calibrate_delay"
<1>1. DOMAIN BootSteps = 1 .. 18
  BY DEF BootSteps
<1>2. BootSteps[1] = "karch" /\ BootSteps[2] = "init_timer" /\ BootSteps[3] = "calibrate_delay"
  BY DEF BootSteps
<1>3. \A k \in 1 .. 18 : BootSteps[k] = "karch" => k = 1
  BY DEF BootSteps
<1>4. \A k \in 1 .. 18 : BootSteps[k] = "init_timer" => k = 2
  BY DEF BootSteps
<1>5. (CHOOSE k \in DOMAIN BootSteps : BootSteps[k] = "karch") = 1
  BY <1>1, <1>2, <1>3
<1>6. (CHOOSE k \in DOMAIN BootSteps : BootSteps[k] = "init_timer") = 2
  BY <1>1, <1>2, <1>4
<1>7. BootSteps[1 + 1] = "init_timer" /\ BootSteps[2 + 1] = "calibrate_delay"
  BY <1>2
<1> QED
  BY <1>5, <1>6, <1>7, Zenon DEF Following

\* Without the timer's handler the start does not get past the calibration,
\* which waits for at least one tick.
NoClock ==
    btimer \/ bpc \in {"karch", "init_timer", "halt", "panic"}
           \/ (bpc = "calibrate_delay" /\ bleft \in Nat \ {0})

\* The inductive invariant.
BootInv ==
    /\ bloader \in Loaders
    /\ bstack = <<>> \/ bstack = StackPages(bloader)
    /\ NoClock

\* Every step of the start keeps the invariant.
LEMMA BootKept == ASSUME BootInv, [BootNext]_bootVars PROVE BootInv'
<1> USE DEF BootInv
<1>1. CASE karch
  <2>1. bpc' \in {"halt", "panic", "init_timer"}
    BY <1>1, FirstSteps DEF karch, GoTo
  <2>2. bstack' = bstack \/ bstack' = StackPages(bloader)
    BY <1>1 DEF karch
  <2>3. bloader' = bloader /\ btimer' = btimer
    BY <1>1 DEF karch
  <2> QED
    BY <2>1, <2>2, <2>3 DEF NoClock
<1>2. ASSUME NEW ok \in BOOLEAN, init_timer(ok) PROVE BootInv'
  <2>1. bpc' = "calibrate_delay" /\ bleft' = BootCalibration
    BY <1>2, FirstSteps DEF init_timer, GoTo, WaitOf
  <2>2. /\ bloader' = bloader /\ bstack' = bstack
    BY <1>2 DEF init_timer
  <2>3. BootCalibration \in Nat \ {0}
    BY BootAssumption
  <2>4. NoClock'
    BY <2>1, <2>3 DEF NoClock
  <2> QED
    BY <2>2, <2>4
<1>4. ASSUME UNCHANGED <<bloader, bstack, btimer>>, btimer \/ bpc' = "panic"
      PROVE  BootInv'
  BY <1>4 DEF NoClock
<1>5. ASSUME NEW ok \in BOOLEAN, StartPart(ok) PROVE BootInv'
  <2>1. bpc # "calibrate_delay"
    <3>1. WaitOf("calibrate_delay") = BootCalibration /\ BootCalibration # 0
      BY BootAssumption DEF WaitOf
    <3> QED
      BY <1>5, <3>1 DEF StartPart
  <2>2. btimer
    BY <1>5, <2>1 DEF StartPart, NoClock, BootEnds
  <2> QED
    BY <1>4, <1>5, <2>2 DEF StartPart, Returns
<1>5a. CASE DiskPart
  <2>1. btimer
    BY <1>5a DEF DiskPart, DiskSteps, NoClock
  <2> QED
    BY <1>4, <1>5a, <2>1 DEF DiskPart, Returns
<1>6. ASSUME NEW answer \in BOOLEAN, WaitOver(answer) PROVE BootInv'
  <2>1. bpc \in {"calibrate_delay", "init_8042", "init_ata_generic"}
    BY <1>6 DEF WaitOver, WaitOf
  <2>2. bpc = "calibrate_delay" => bleft \notin Nat \ {0}
    BY <1>6 DEF WaitOver
  <2>3. btimer
    BY <2>1, <2>2 DEF NoClock
  <2> QED
    BY <1>4, <1>6, <2>3 DEF WaitOver
<1>7. CASE AtaPanics
  BY <1>4, <1>7 DEF AtaPanics, GoTo
<1>8. CASE BootTick
  BY <1>4, <1>8 DEF BootTick
<1>9. CASE UNCHANGED bootVars
  BY <1>9 DEF bootVars, NoClock
<1> QED
  BY <1>1, <1>2, <1>5, <1>5a, <1>6, <1>7, <1>8, <1>9 DEF BootNext, BootStep

\* What the start of the kernel hands over is sound: only free pages are put
\* on the stack and no driver waits without a clock, for every memory map,
\* wherever the kernel lies and however long the timeouts are, whatever fails.
THEOREM BootHandsOver == BootSpec => []BootSound
<1>1. BootInit => BootInv
  BY DEF BootInit, BootInv, NoClock
<1>2. BootInv /\ [BootNext]_bootVars => BootInv'
  BY BootKept
<1>3. ASSUME BootInv PROVE BootSound
  <2>1. BootPages
    <3>1. CASE bstack = <<>>
      BY <3>1 DEF BootPages
    <3>2. CASE bstack = StackPages(bloader)
      BY <1>3, <3>2, StackSound DEF BootPages, BootInv
    <3> QED
      BY <1>3, <3>1, <3>2 DEF BootInv
  <2>2. BootClocked
    BY <1>3 DEF BootInv, NoClock, BootClocked
  <2> QED
    BY <2>1, <2>2 DEF BootSound
<1> QED
  BY <1>1, <1>2, <1>3, PTL DEF BootSpec

----------------------------------------------------------------------------
(* The i-node cache and the lookup of paths. *)

Buckets == 0 .. INODE_HASH_TABLE_SIZE - 1
MaybeObject == {NoObj} \cup Objects
CacheType == [node : [Objects -> Nat], table : [Buckets -> MaybeObject],
              free : Seq(Objects), stop : Stops]
FoundType == [c : CacheType, obj : MaybeObject]

\* The objects that are in use, and the numbers that they can have.
UsedIn(c) == {i \in Objects : \A k \in DOMAIN c.free : c.free[k] # i}
Inos == {0} \cup {e.ino : e \in UNION {Entries(d) : d \in DOMAIN Tree}}

\* Every object in use is the one of its bucket, every bucket holds an object
\* in use that belongs there, and no object is on the free list twice.
Whole(c) ==
    /\ \A i \in UsedIn(c) : c.table[hash(c.node[i])] = i /\ c.node[i] \in Inos
    /\ \A h \in Buckets : c.table[h] # NoObj =>
         c.table[h] \in UsedIn(c) /\ hash(c.node[c.table[h]]) = h
    /\ \A k, l \in DOMAIN c.free : c.free[k] = c.free[l] => k = l

\* What a lookup leaves of the cache it starts with: all of it.
Grows(c, d) ==
    /\ \A i \in UsedIn(c) : i \in UsedIn(d) /\ d.node[i] = c.node[i]
    /\ c.stop # "no" => d.stop # "no"

\* A cache and an object that is in use, or none.
Kept(c, r) ==
    /\ r.c \in CacheType /\ r.obj \in MaybeObject /\ Whole(r.c) /\ Grows(c, r.c)
    /\ r.obj # NoObj => r.obj \in UsedIn(r.c)

\* Lookups after one another keep what the first found.
LEMMA GrowsOn ==
  ASSUME NEW c, NEW d, NEW e, Grows(c, d), Grows(d, e)
  PROVE  Grows(c, e)
BY DEF Grows

\* No object is not an object.
LEMMA NoObjFree == NoObj \notin Objects /\ NoObj \in MaybeObject
BY VfsAssumption DEF NoObj, Objects, MaybeObject

\* The numbers of i-nodes that entries hold, and their buckets.
LEMMA NumberTypes ==
  /\ \A n \in Nat : hash(n) \in Buckets
  /\ Inos \in SUBSET Nat /\ 0 \in Inos
  /\ \A d \in DOMAIN Tree : \A k \in DOMAIN Tree[d] : \A i \in DOMAIN Tree[d][k] :
       Tree[d][k][i] \in Entries(d) /\ Tree[d][k][i].ino \in Inos
  /\ \A d : \A e \in Entries(d) : e.ino \in Nat
<1>1. \A n \in Nat : hash(n) \in Buckets
  BY VfsAssumption, DivMod DEF hash, Buckets
<1>2. ASSUME NEW d \in DOMAIN Tree, NEW k \in DOMAIN Tree[d], NEW i \in DOMAIN Tree[d][k]
      PROVE  Tree[d][k][i] \in Entries(d) /\ Tree[d][k][i].ino \in Inos
  <2>1. Tree[d][k][i] \in Entries(d)
    BY DEF Entries
  <2> QED
    BY <2>1 DEF Inos
<1>3. ASSUME NEW d, NEW e \in Entries(d) PROVE e.ino \in Nat
  <2>1. d \in DOMAIN Tree
    BY DEF Entries
  <2>2. PICK k \in DOMAIN Tree[d] : \E i \in DOMAIN Tree[d][k] : e = Tree[d][k][i]
    BY <2>1 DEF Entries
  <2>3. Tree[d] \in Seq(Seq(DirEntryType))
    BY <2>1, VfsAssumption
  <2>4. Tree[d][k] \in Seq(DirEntryType)
    BY <2>2, <2>3
  <2>5. PICK i \in DOMAIN Tree[d][k] : e = Tree[d][k][i]
    BY <2>2
  <2>6. e \in DirEntryType
    BY <2>4, <2>5
  <2> QED
    BY <2>6 DEF DirEntryType
<1>4. Inos \in SUBSET Nat /\ 0 \in Inos
  BY <1>3 DEF Inos
<1> QED
  BY <1>1, <1>2, <1>3, <1>4

\* A free object is taken: it is used from then on, under its number.
LEMMA NewInodeTakes ==
  ASSUME NEW c \in CacheType, Whole(c), NEW n \in Inos, c.table[hash(n)] = NoObj,
         c.free # <<>>
  PROVE  /\ NewInode(c, n) \in CacheType /\ Whole(NewInode(c, n))
         /\ Grows(c, NewInode(c, n))
         /\ Head(c.free) \in UsedIn(NewInode(c, n))
         /\ NewInode(c, n).node[Head(c.free)] = n
<1> DEFINE d == NewInode(c, n)
           o == Head(c.free)
           h == hash(n)
<1>1. /\ c.free \in Seq(Objects) /\ c.node \in [Objects -> Nat]
      /\ c.table \in [Buckets -> MaybeObject] /\ c.stop \in Stops
  BY DEF CacheType
<1>2. /\ o \in Objects /\ Tail(c.free) \in Seq(Objects) /\ o = c.free[1] /\ 1 \in DOMAIN c.free
      /\ Len(Tail(c.free)) = Len(c.free) - 1
      /\ \A k \in DOMAIN Tail(c.free) : k + 1 \in DOMAIN c.free /\ Tail(c.free)[k] = c.free[k + 1]
      /\ \A k \in DOMAIN c.free : k # 1 => k - 1 \in DOMAIN Tail(c.free)
  BY <1>1, HeadTailProperties
<1>3. n \in Nat /\ h \in Buckets
  BY NumberTypes
<1>4. /\ d \in CacheType /\ d.free = Tail(c.free) /\ d.stop = c.stop
      /\ d.node = [c.node EXCEPT ![o] = n] /\ d.table = [c.table EXCEPT ![h] = o]
  BY <1>1, <1>2, <1>3 DEF NewInode, CacheType, MaybeObject
<1>5. \A k, l \in DOMAIN c.free : c.free[k] = c.free[l] => k = l
  BY DEF Whole
<1> HIDE DEF d, o, h
<1>6. UsedIn(d) = UsedIn(c) \cup {o} /\ o \notin UsedIn(c)
  <2>1. ASSUME NEW i \in UsedIn(c) PROVE i \in UsedIn(d) /\ i # o
    BY <1>2, <1>4 DEF UsedIn
  <2>2. o \in UsedIn(d)
    BY <1>1, <1>2, <1>4, <1>5 DEF UsedIn
  <2>3. ASSUME NEW i \in UsedIn(d), i # o PROVE i \in UsedIn(c)
    <3>1. i \in Objects /\ \A k \in DOMAIN Tail(c.free) : Tail(c.free)[k] # i
      BY <1>4 DEF UsedIn
    <3>2. ASSUME NEW k \in DOMAIN c.free PROVE c.free[k] # i
      <4>1. CASE k = 1
        BY <1>2, <2>3, <4>1
      <4>2. CASE k # 1
        <5>1. k - 1 \in DOMAIN Tail(c.free) /\ (k - 1) + 1 = k
          BY <1>1, <1>2, <4>2
        <5> QED
          BY <1>2, <3>1, <5>1
      <4> QED
        BY <4>1, <4>2
    <3> QED
      BY <3>1, <3>2 DEF UsedIn
  <2> QED
    BY <2>1, <2>2, <2>3
<1>7. o \in UsedIn(d) /\ d.node[o] = n
  BY <1>1, <1>2, <1>4, <1>6
<1>8. Grows(c, d)
  BY <1>1, <1>4, <1>6 DEF Grows, UsedIn
<1>9. Whole(d)
  <2>1. ASSUME NEW i \in UsedIn(d)
        PROVE  d.table[hash(d.node[i])] = i /\ d.node[i] \in Inos
    <3>1. CASE i = o
      BY <1>1, <1>2, <1>3, <1>4, <3>1 DEF h
    <3>2. CASE i # o
      <4>1. i \in UsedIn(c) /\ i \in Objects /\ d.node[i] = c.node[i]
        BY <1>1, <1>4, <1>6, <3>2 DEF UsedIn
      <4>2. c.table[hash(c.node[i])] = i /\ c.node[i] \in Inos
        BY <4>1 DEF Whole
      <4>3. hash(c.node[i]) # h /\ hash(c.node[i]) \in Buckets
        BY <4>1, <4>2, NumberTypes, NoObjFree DEF h
      <4> QED
        BY <1>1, <1>4, <4>1, <4>2, <4>3
    <3> QED
      BY <3>1, <3>2
  <2>2. ASSUME NEW b \in Buckets, d.table[b] # NoObj
        PROVE  d.table[b] \in UsedIn(d) /\ hash(d.node[d.table[b]]) = b
    <3>1. CASE b = h
      BY <1>1, <1>4, <1>7, <3>1 DEF h
    <3>2. CASE b # h
      <4>1. d.table[b] = c.table[b]
        BY <1>1, <1>4, <3>2
      <4>2. c.table[b] \in UsedIn(c) /\ hash(c.node[c.table[b]]) = b
        BY <2>2, <4>1 DEF Whole
      <4> QED
        BY <1>8, <4>1, <4>2 DEF Grows
    <3> QED
      BY <3>1, <3>2
  <2>3. ASSUME NEW k \in DOMAIN d.free, NEW l \in DOMAIN d.free, d.free[k] = d.free[l]
        PROVE  k = l
    <3>1. /\ k + 1 \in DOMAIN c.free /\ l + 1 \in DOMAIN c.free
          /\ c.free[k + 1] = c.free[l + 1]
      BY <1>2, <1>4, <2>3
    <3>2. k + 1 = l + 1 /\ k \in Int /\ l \in Int
      BY <1>1, <1>2, <1>4, <1>5, <3>1
    <3> QED
      BY <3>2
  <2> QED
    BY <2>1, <2>2, <2>3 DEF Whole
<1> QED
  BY <1>4, <1>7, <1>8, <1>9 DEF d, o

\* vfs_iget keeps the cache whole and finds an object of the number's bucket.
LEMMA IgetKeeps ==
  ASSUME NEW c \in CacheType, Whole(c), NEW n \in Inos
  PROVE  /\ vfs_iget(c, n) \in FoundType /\ Kept(c, vfs_iget(c, n))
         /\ vfs_iget(c, n).c.stop = "no" => vfs_iget(c, n).obj # NoObj
         /\ vfs_iget(c, n).obj # NoObj =>
              hash(vfs_iget(c, n).c.node[vfs_iget(c, n).obj]) = hash(n)
<1> DEFINE r == vfs_iget(c, n)
<1>0. n \in Nat /\ hash(n) \in Buckets /\ c.table[hash(n)] \in MaybeObject
  BY NumberTypes DEF CacheType
<1>1. CASE c.table[hash(n)] # NoObj /\ ~mutex_is_locked(c.table[hash(n)])
  <2>1. r = [c |-> c, obj |-> c.table[hash(n)]]
    BY <1>1 DEF vfs_iget, search_inode
  <2>2. Grows(c, c)
    BY DEF Grows
  <2>3. c.table[hash(n)] \in UsedIn(c) /\ hash(c.node[c.table[hash(n)]]) = hash(n)
    BY <1>0, <1>1 DEF Whole
  <2> QED
    BY <1>0, <1>1, <2>1, <2>2, <2>3 DEF Kept, FoundType
<1>2. ASSUME NEW e \in Stops \ {"no"}, r = [c |-> [c EXCEPT !.stop = e], obj |-> NoObj]
      PROVE  r \in FoundType /\ Kept(c, r) /\ r.c.stop # "no" /\ r.obj = NoObj
  <2> DEFINE d == [c EXCEPT !.stop = e]
  <2>2. /\ d \in CacheType /\ d.stop = e
        /\ d.node = c.node /\ d.table = c.table /\ d.free = c.free
    BY DEF CacheType
  <2> HIDE DEF d
  <2>3. Whole(d) /\ Grows(c, d)
    BY <1>2, <2>2 DEF Whole, Grows, UsedIn
  <2>4. r = [c |-> d, obj |-> NoObj] /\ NoObj \in MaybeObject
    BY <1>2 DEF d, MaybeObject
  <2> HIDE DEF r
  <2> QED
    BY <1>2, <2>2, <2>3, <2>4 DEF Kept, FoundType
<1>2a. CASE c.table[hash(n)] = NoObj /\ c.free = <<>>
  <2>1. r = [c |-> [c EXCEPT !.stop = "panic"], obj |-> NoObj] /\ "panic" \in Stops
    BY <1>2a DEF vfs_iget, search_inode, NewInode, Stops
  <2> HIDE DEF r
  <2> QED
    BY <1>2, <2>1 DEF r
<1>2b. CASE c.table[hash(n)] # NoObj /\ mutex_is_locked(c.table[hash(n)])
  <2>1. r = [c |-> [c EXCEPT !.stop = "asleep"], obj |-> NoObj] /\ "asleep" \in Stops
    BY <1>2b DEF vfs_iget, search_inode, Stops
  <2> HIDE DEF r
  <2> QED
    BY <1>2, <2>1 DEF r
<1>3. CASE c.table[hash(n)] = NoObj /\ c.free # <<>>
  <2> DEFINE d == NewInode(c, n)
             o == Head(c.free)
  <2>1. r = [c |-> d, obj |-> o]
    BY <1>3 DEF vfs_iget, search_inode
  <2>2. d \in CacheType /\ Whole(d) /\ Grows(c, d) /\ o \in UsedIn(d) /\ d.node[o] = n
    BY <1>3, NewInodeTakes
  <2> HIDE DEF d, o
  <2>3. o \in MaybeObject /\ o # NoObj
    BY <2>2 DEF UsedIn, MaybeObject, Objects, NoObj
  <2> QED
    BY <2>1, <2>2, <2>3 DEF Kept, FoundType
<1> QED
  BY <1>1, <1>2a, <1>2b, <1>3

\* What the search of a block gives is the number of an entry with the name.
LEMMA EntryInIs ==
  ASSUME NEW d \in DOMAIN Tree, NEW k \in DOMAIN Tree[d], NEW name
  PROVE  /\ EntryIn(Tree[d][k], name) \in Inos
         /\ EntryIn(Tree[d][k], name) # 0 =>
              \E e \in Entries(d) : e.name = name /\ e.ino = EntryIn(Tree[d][k], name)
<1> DEFINE b == Tree[d][k]
           hits == {i \in DOMAIN b :
                      /\ b[i].name = name /\ b[i].ino # 0
                      /\ \A j \in 1 .. i - 1 : b[j].ino # 0 /\ b[j].name # name}
<1>1. CASE hits = {}
  <2>1. EntryIn(b, name) = 0
    BY <1>1 DEF EntryIn
  <2> QED
    BY <2>1, NumberTypes
<1>2. CASE hits # {}
  <2>1. PICK i \in hits : EntryIn(b, name) = b[i].ino
    BY <1>2 DEF EntryIn
  <2>2. i \in DOMAIN b /\ b[i].name = name
    BY <2>1
  <2> QED
    BY <2>1, <2>2, NumberTypes
<1> QED
  BY <1>1, <1>2

\* A turn of the search in a directory.
FoundUpto(d, name, k, r) ==
    r.c.stop = "no" =>
        IF r.obj = NoObj THEN \A j \in 1 .. k : EntryIn(Tree[d][j], name) = 0
        ELSE \E j \in 1 .. k : /\ EntryIn(Tree[d][j], name) # 0
                               /\ hash(r.c.node[r.obj]) = hash(EntryIn(Tree[d][j], name))

\* A turn keeps what the turns before it have found.
LEMMA FindTurnKeeps ==
  ASSUME NEW c \in CacheType, NEW d \in DOMAIN Tree, NEW k \in DOMAIN Tree[d], NEW name,
         NEW r \in FoundType, Kept(c, r)
  PROVE  /\ FindTurn(r, Tree[d][k], name) \in FoundType
         /\ Kept(c, FindTurn(r, Tree[d][k], name))
         /\ FoundUpto(d, name, k - 1, r) =>
              FoundUpto(d, name, k, FindTurn(r, Tree[d][k], name))
<1> DEFINE n == EntryIn(Tree[d][k], name)
           s == FindTurn(r, Tree[d][k], name)
<1>0. n \in Inos /\ r.c \in CacheType /\ Whole(r.c) /\ k \in Nat \ {0}
  <2>1. Tree[d] \in Seq(Seq(DirEntryType))
    BY VfsAssumption
  <2> QED
    BY <2>1, EntryInIs DEF Kept
<1>1. CASE r.c.stop # "no"
  <2>1. s = r
    BY <1>1 DEF FindTurn
  <2> QED
    BY <1>1, <2>1 DEF FoundUpto
<1>2. CASE r.c.stop = "no" /\ n = 0
  <2>1. s = r
    BY <1>2 DEF FindTurn
  <2>2. ASSUME FoundUpto(d, name, k - 1, r) PROVE FoundUpto(d, name, k, r)
    <3>1. \A j : j \in 1 .. k <=> j \in 1 .. k - 1 \/ j = k
      BY <1>0
    <3> QED
      BY <1>2, <2>2, <3>1 DEF FoundUpto
  <2> HIDE DEF s
  <2> QED
    BY <2>1, <2>2 DEF s
<1>3. CASE r.c.stop = "no" /\ n # 0
  <2>1. s = vfs_iget(r.c, n)
    BY <1>3 DEF FindTurn
  <2> HIDE DEF s, n
  <2>2. /\ s \in FoundType /\ Kept(r.c, s)
        /\ s.c.stop = "no" => s.obj # NoObj /\ hash(s.c.node[s.obj]) = hash(n)
    BY <1>0, <2>1, IgetKeeps
  <2>3. Kept(c, s)
    BY <2>2, GrowsOn DEF Kept
  <2>4. FoundUpto(d, name, k, s)
    <3>1. k \in 1 .. k
      BY <1>0
    <3> QED
      BY <1>3, <2>2, <3>1 DEF FoundUpto, n
  <2> QED
    BY <2>2, <2>3, <2>4 DEF s
<1> QED
  BY <1>1, <1>2, <1>3

\* The search of all blocks of a directory.
LEMMA FindKeeps ==
  ASSUME NEW c \in CacheType, Whole(c), NEW d \in DOMAIN Tree, NEW name, NEW reads \in Nat
  PROVE  /\ Find(c, Tree[d], name, reads) \in FoundType
         /\ Kept(c, Find(c, Tree[d], name, reads))
         /\ FoundUpto(d, name, BlocksRead(Tree[d], reads), Find(c, Tree[d], name, reads))
<1> DEFINE b == Tree[d]
           read == BlocksRead(b, reads)
           n == Len(b)
           r0 == [c |-> c, obj |-> NoObj]
           D == {r \in FoundType : Kept(c, r)}
           step == [k \in 0 + 1 .. n |-> [r \in D |-> FindTurn(r, b[k], name)]]
           eqn(g) == g = [k \in 0 .. n |-> IF k = 0 THEN r0 ELSE FindTurn(g[k - 1], b[k], name)]
           found == CHOOSE g : eqn(g)
<1>1. n \in Nat /\ DOMAIN b = 1 .. n
  <2>1. b \in Seq(Seq(DirEntryType))
    BY VfsAssumption
  <2> QED
    BY <2>1
<1>2. r0 \in D /\ FoundUpto(d, name, 0, r0)
  <2>1. Grows(c, c)
    BY DEF Grows
  <2> QED
    BY <2>1, NoObjFree DEF Kept, FoundType, FoundUpto
<1>3. ASSUME NEW k \in 1 .. n, NEW r \in D PROVE FindTurn(r, b[k], name) \in D
  BY <1>1, FindTurnKeeps
<1>4. step \in Steps(0, n, D)
  <2> HIDE DEF D, b, n
  <2> QED
    BY <1>3 DEF Steps
<1>5. PICK g : IsLoop(g, 0, n, D, r0, step)
  <2>1. 0 \in Nat /\ n \in Nat /\ 0 <= n /\ r0 \in D
    BY <1>1, <1>2
  <2> HIDE DEF step, D, r0, n
  <2> QED
    BY <1>4, <2>1, LoopExists
<1>6. eqn(g)
  <2>1. ASSUME NEW k \in 0 .. n
        PROVE  g[k] = IF k = 0 THEN r0 ELSE FindTurn(g[k - 1], b[k], name)
    <3>1. CASE k # 0
      <4>1. k \in 0 + 1 .. n /\ k - 1 \in 0 .. n
        BY <1>1, <3>1
      <4>2. g[k - 1] \in D /\ g[k] = step[k][g[k - 1]]
        <5> HIDE DEF D, step, n
        <5> QED
          BY <1>5, <4>1 DEF IsLoop
      <4> HIDE DEF D, b, n
      <4> QED
        BY <3>1, <4>1, <4>2
    <3> QED
      BY <1>5, <3>1 DEF IsLoop
  <2>2. g = [k \in 0 .. n |-> g[k]]
    <3> HIDE DEF D, step, n
    <3> QED
      BY <1>5 DEF IsLoop
  <2> QED
    BY <2>1, <2>2
<1>7. eqn(found)
  BY <1>6, Zenon
<1>8. Find(c, b, name, reads) = found[read]
  BY Zenon DEF Find
<1> HIDE DEF found
<1> DEFINE S == {k \in 0 .. n : found[k] \in D /\ FoundUpto(d, name, k, found[k])}
<1>9. 0 \in S
  <2>1. found[0] = r0 /\ 0 \in 0 .. n
    BY <1>1, <1>7
  <2> QED
    BY <1>2, <2>1
<1>10. ASSUME NEW k \in 0 + 1 .. n, k - 1 \in S PROVE k \in S
  <2>1. k \in 0 .. n /\ k # 0 /\ k \in DOMAIN b
    BY <1>1
  <2>2. found[k] = FindTurn(found[k - 1], b[k], name)
    BY <1>7, <2>1
  <2>3. found[k - 1] \in FoundType /\ Kept(c, found[k - 1])
        /\ FoundUpto(d, name, k - 1, found[k - 1])
    BY <1>10
  <2>4. found[k] \in FoundType /\ Kept(c, found[k]) /\ FoundUpto(d, name, k, found[k])
    <3> HIDE DEF n
    <3> QED
      BY <2>1, <2>2, <2>3, FindTurnKeeps
  <2> QED
    BY <2>1, <2>4
<1>11. \A k \in 0 .. n : k \in S
  <2> HIDE DEF S, n
  <2> QED
    BY <1>1, <1>9, <1>10, RangeInduction
<1>12. read \in 0 .. n
  BY <1>1 DEF BlocksRead
<1>13. read \in S
  BY <1>11, <1>12
<1> QED
  BY <1>8, <1>13

\* The trees of which a path can be looked up: no two i-nodes share a bucket
\* (search_inode does not compare numbers), the names of a directory are
\* unique, and the unused entries of a block come last (the search of a block
\* ends at the first).
TreeGood ==
    /\ \A m, n \in Inos : hash(m) = hash(n) => m = n
    /\ \A d \in DOMAIN Tree : \A e, f \in Entries(d) : e.name = f.name => e.ino = f.ino
    /\ \A d \in DOMAIN Tree : \A k \in DOMAIN Tree[d] : \A i, j \in DOMAIN Tree[d][k] :
         i < j /\ Tree[d][k][i].ino = 0 => Tree[d][k][j].ino = 0

\* The object is the file with the number, or there is none.
Leads(c, o, n) ==
    IF n = 0 THEN o = NoObj ELSE o \in UsedIn(c) /\ DiskIno(c.node[o]) = n

\* A block that could not be read may hide it.
Led(c, o, n, all) == Leads(c, o, n) \/ (~all /\ o = NoObj)

\* A name that is there is found.
LEMMA EntryInFinds ==
  ASSUME TreeGood, NEW d \in DOMAIN Tree, NEW k \in DOMAIN Tree[d], NEW i \in DOMAIN Tree[d][k],
         Tree[d][k][i].ino # 0
  PROVE  EntryIn(Tree[d][k], Tree[d][k][i].name) # 0
<1> DEFINE b == Tree[d][k]
           name == b[i].name
           S == {j \in DOMAIN b : b[j].name = name /\ b[j].ino # 0}
<1>1. b \in Seq(DirEntryType)
  BY VfsAssumption
<1>2. S \in SUBSET Nat /\ S # {}
  BY <1>1
<1>3. PICK j \in S : \A l \in S : j <= l
  <2> HIDE DEF S
  <2> QED
    BY <1>2, LeastNat
<1>4. j \in DOMAIN b /\ b[j].name = name /\ b[j].ino # 0
  BY <1>3
<1>5. ASSUME NEW m \in 1 .. j - 1 PROVE b[m].ino # 0 /\ b[m].name # name
  <2>1. m \in DOMAIN b /\ m < j /\ ~(j <= m)
    BY <1>1, <1>4
  <2>2. b[m].ino # 0
    BY <1>4, <2>1 DEF TreeGood
  <2>3. m \notin S
    <3> HIDE DEF S
    <3> QED
      BY <1>3, <2>1
  <2> QED
    BY <2>1, <2>2, <2>3
<1> DEFINE hits == {l \in DOMAIN b :
                      /\ b[l].name = name /\ b[l].ino # 0
                      /\ \A m \in 1 .. l - 1 : b[m].ino # 0 /\ b[m].name # name}
<1>6. j \in hits
  BY <1>4, <1>5
<1>7. EntryIn(b, name) = b[CHOOSE l \in hits : TRUE].ino
  BY <1>6 DEF EntryIn
<1>8. (CHOOSE l \in hits : TRUE) \in hits
  <2> HIDE DEF hits
  <2> QED
    BY <1>6
<1> QED
  BY <1>7, <1>8

\* What a directory says of a name.
LEMMA ChildIs ==
  ASSUME NEW d, NEW name
  PROVE  /\ Child(d, name) \in Nat
         /\ Child(d, name) # 0 => \E e \in Entries(d) : e.name = name /\ e.ino = Child(d, name)
         /\ TreeGood => \A e \in Entries(d) : e.name = name => e.ino = Child(d, name)
<1>1. CASE \E e \in Entries(d) : e.name = name
  <2>1. PICK f \in Entries(d) : f.name = name /\ Child(d, name) = f.ino
    BY <1>1 DEF Child
  <2>2. d \in DOMAIN Tree
    BY <2>1 DEF Entries
  <2>3. f.ino \in Nat
    BY <2>1, NumberTypes
  <2>4. ASSUME TreeGood, NEW e \in Entries(d), e.name = name PROVE e.ino = f.ino
    BY <2>1, <2>2, <2>4 DEF TreeGood
  <2> QED
    BY <2>1, <2>3, <2>4
<1>2. CASE ~ \E e \in Entries(d) : e.name = name
  BY <1>2 DEF Child
<1> QED
  BY <1>1, <1>2

\* The search of a directory finds what the directory says.
LEMMA FindRight ==
  ASSUME TreeGood, NEW d \in DOMAIN Tree, NEW name, NEW c, NEW r, Kept(c, r),
         NEW reads \in Nat, FoundUpto(d, name, BlocksRead(Tree[d], reads), r), r.c.stop = "no"
  PROVE  Led(r.c, r.obj, Child(d, name), reads = DirBlocks)
<1>1. Tree[d] \in Seq(Seq(DirEntryType)) /\ DOMAIN Tree[d] = 1 .. Len(Tree[d])
      /\ Len(Tree[d]) <= DirBlocks /\ DirBlocks \in Nat
  BY VfsAssumption
<1>1a. BlocksRead(Tree[d], reads) \in 0 .. Len(Tree[d])
      /\ (reads = DirBlocks => BlocksRead(Tree[d], reads) = Len(Tree[d]))
  <2>1. Len(Tree[d]) \in Nat
    BY <1>1
  <2>2. BlocksRead(Tree[d], reads) = IF reads < Len(Tree[d]) THEN reads ELSE Len(Tree[d])
    BY DEF BlocksRead
  <2>3. ASSUME NEW n \in Nat, NEW m, m = IF reads < n THEN reads ELSE n
        PROVE  m \in 0 .. n
    BY <2>3
  <2>4. reads = DirBlocks => ~(reads < Len(Tree[d]))
    BY <1>1, <2>1
  <2> QED
    BY <2>1, <2>2, <2>3, <2>4
<1>2a. CASE r.obj = NoObj /\ reads # DirBlocks
  BY <1>2a DEF Led
<1>2. CASE r.obj = NoObj /\ reads = DirBlocks
  <2>1. \A j \in DOMAIN Tree[d] : EntryIn(Tree[d][j], name) = 0
    BY <1>1, <1>1a, <1>2 DEF FoundUpto
  <2>2. ASSUME Child(d, name) # 0 PROVE FALSE
    <3>1. PICK e \in Entries(d) : e.name = name /\ e.ino = Child(d, name)
      BY <2>2, ChildIs
    <3>2. PICK k \in DOMAIN Tree[d] : \E i \in DOMAIN Tree[d][k] : e = Tree[d][k][i]
      BY <3>1 DEF Entries
    <3>3. PICK i \in DOMAIN Tree[d][k] : e = Tree[d][k][i]
      BY <3>2
    <3>4. EntryIn(Tree[d][k], Tree[d][k][i].name) # 0
      BY <2>2, <3>1, <3>3, EntryInFinds
    <3> QED
      BY <2>1, <3>1, <3>3, <3>4
  <2> QED
    BY <1>2, <2>2 DEF Leads, Led
<1>3. CASE r.obj # NoObj
  <2>1. PICK j \in 1 .. BlocksRead(Tree[d], reads) :
          /\ EntryIn(Tree[d][j], name) # 0
          /\ hash(r.c.node[r.obj]) = hash(EntryIn(Tree[d][j], name))
    BY <1>3 DEF FoundUpto
  <2> DEFINE n == EntryIn(Tree[d][j], name)
  <2>2. j \in DOMAIN Tree[d]
    BY <1>1, <1>1a, <2>1
  <2>3. n \in Inos /\ \E e \in Entries(d) : e.name = name /\ e.ino = n
    BY <2>1, <2>2, EntryInIs
  <2>4. Child(d, name) = n
    BY <2>3, ChildIs
  <2>5. r.obj \in UsedIn(r.c) /\ r.c.node[r.obj] \in Inos
    BY <1>3 DEF Kept, Whole
  <2>6. r.c.node[r.obj] = n
    BY <2>1, <2>3, <2>5 DEF TreeGood
  <2> QED
    BY <2>1, <2>4, <2>5, <2>6 DEF Led, Leads, DiskIno
<1> QED
  BY <1>2a, <1>2, <1>3

\* A component of a path is looked up in an object that is in use.
LEMMA ComponentKeeps ==
  ASSUME NEW c \in CacheType, Whole(c), NEW o \in UsedIn(c), NEW name, NEW reads \in Nat
  PROVE  /\ _vfs_find_component(c, o, name, reads) \in FoundType
         /\ Kept(c, _vfs_find_component(c, o, name, reads))
         /\ (TreeGood /\ _vfs_find_component(c, o, name, reads).c.stop = "no") =>
              Led(_vfs_find_component(c, o, name, reads).c,
                  _vfs_find_component(c, o, name, reads).obj,
                  Child(DiskIno(c.node[o]), name), reads = DirBlocks)
<1> DEFINE r == _vfs_find_component(c, o, name, reads)
           d == DiskIno(c.node[o])
<1>1. CASE d \notin DOMAIN Tree
  <2>1. r = [c |-> c, obj |-> NoObj]
    BY <1>1 DEF _vfs_find_component, IsDir
  <2>2. Child(d, name) = 0
    BY <1>1 DEF Child, Entries
  <2>3. Grows(c, c)
    BY DEF Grows
  <2> HIDE DEF d
  <2> QED
    BY <2>1, <2>2, <2>3, NoObjFree DEF Kept, FoundType, Led, Leads, d
<1>2. CASE d \in DOMAIN Tree
  <2>1. r = Find(c, Tree[d], name, reads)
    BY <1>2 DEF _vfs_find_component, IsDir
  <2> HIDE DEF r, d
  <2>2. r \in FoundType /\ Kept(c, r) /\ FoundUpto(d, name, BlocksRead(Tree[d], reads), r)
    BY <1>2, <2>1, FindKeeps
  <2>3. ASSUME TreeGood, r.c.stop = "no" 
        PROVE  Led(r.c, r.obj, Child(d, name), reads = DirBlocks)
    BY <1>2, <2>2, <2>3, FindRight
  <2> QED
    BY <2>2, <2>3 DEF r, d
<1> QED
  BY <1>1, <1>2

\* A turn of the loop over the characters of a path.
WalkType == [c : CacheType, obj : MaybeObject, start : Int]

\* A turn keeps the cache whole.
LEMMA NameiTurnKeeps ==
  ASSUME NEW c \in CacheType, NEW st \in WalkType, Kept(c, st), NEW path \in Seq(STRING),
         NEW reads \in Reads(path), NEW i \in 2 .. Len(path) + 1
  PROVE  NameiTurn(st, path, reads, i) \in WalkType /\ Kept(c, NameiTurn(st, path, reads, i))
<1> DEFINE comp == SubSeq(path, st.start, i - 1)
           r == _vfs_find_component(st.c, st.obj, comp, reads[i])
           skip == \/ st.obj = NoObj \/ st.c.stop # "no" \/ comp = <<>>
                   \/ comp = DotDot /\ path[1] = "/"
<1>1. CASE ~AtCut(path, i)
  BY <1>1 DEF NameiTurn
<1>2. CASE AtCut(path, i) /\ skip
  <2> DEFINE s == [st EXCEPT !.start = i + 1]
  <2>1. NameiTurn(st, path, reads, i) = s
    BY <1>2 DEF NameiTurn
  <2>2. s \in WalkType /\ s.c = st.c /\ s.obj = st.obj
    BY DEF WalkType
  <2> QED
    BY <2>1, <2>2 DEF Kept
<1>3. CASE AtCut(path, i) /\ ~skip
  <2> DEFINE s == [c |-> r.c, obj |-> r.obj, start |-> i + 1]
  <2>1. NameiTurn(st, path, reads, i) = s
    BY <1>3 DEF NameiTurn
  <2>2. st.obj \in UsedIn(st.c) /\ st.c \in CacheType /\ Whole(st.c)
    BY <1>3 DEF Kept
  <2>2a. reads[i] \in Nat
    BY <1>3, VfsAssumption DEF Reads
  <2>3. r \in FoundType /\ Kept(st.c, r)
    <3> HIDE DEF comp
    <3> QED
      BY <2>2, <2>2a, ComponentKeeps
  <2> HIDE DEF r
  <2>4. s \in WalkType /\ s.c = r.c /\ s.obj = r.obj
    BY <2>3 DEF WalkType, FoundType
  <2>5. Kept(c, s)
    <3> HIDE DEF s
    <3> QED
      BY <2>3, <2>4, GrowsOn DEF Kept
  <2> QED
    BY <2>1, <2>4, <2>5
<1> QED
  BY <1>1, <1>2, <1>3

\* The states that the loop goes through.
IsWalk(turn, c, path, reads) ==
    /\ turn[1] = [c |-> c, obj |-> vroot, start |-> 2]
    /\ \A i \in 1 .. Len(path) + 1 : turn[i] \in WalkType /\ Kept(c, turn[i])
    /\ \A i \in 2 .. Len(path) + 1 : turn[i] = NameiTurn(turn[i - 1], path, reads, i)
    /\ vfs_namei(c, path, reads) = turn[Len(path) + 1]

\* vfs_namei goes through such states.
LEMMA NameiWalks ==
  ASSUME NEW c \in CacheType, Whole(c), vroot \in UsedIn(c), NEW path \in Seq(STRING),
         NEW reads \in Reads(path)
  PROVE  \E turn : IsWalk(turn, c, path, reads)
<1> DEFINE n == Len(path) + 1
           s0 == [c |-> c, obj |-> vroot, start |-> 2]
           D == {st \in WalkType : Kept(c, st)}
           step == [i \in 1 + 1 .. n |-> [st \in D |-> NameiTurn(st, path, reads, i)]]
           eqn(g) == g = [i \in 1 .. n |-> IF i = 1 THEN s0 ELSE NameiTurn(g[i - 1], path, reads, i)]
           turn == CHOOSE g : eqn(g)
<1>1. 1 \in Nat /\ n \in Nat /\ 1 <= n
  OBVIOUS
<1>2. s0 \in D
  <2>1. Grows(c, c)
    BY DEF Grows
  <2>2. vroot \in MaybeObject
    BY DEF UsedIn, MaybeObject
  <2> QED
    BY <2>1, <2>2 DEF Kept, WalkType
<1>3. ASSUME NEW i \in 1 + 1 .. n, NEW st \in D PROVE NameiTurn(st, path, reads, i) \in D
  <2>1. i \in 2 .. Len(path) + 1
    OBVIOUS
  <2> QED
    BY <2>1, NameiTurnKeeps
<1>4. step \in Steps(1, n, D)
  <2> HIDE DEF D, n
  <2> QED
    BY <1>3 DEF Steps
<1>5. PICK g : IsLoop(g, 1, n, D, s0, step)
  <2> HIDE DEF step, D, s0, n
  <2> QED
    BY <1>1, <1>2, <1>4, LoopExists
<1>6. ASSUME NEW i \in 1 + 1 .. n PROVE g[i] = NameiTurn(g[i - 1], path, reads, i)
  <2>1. g[i] = step[i][g[i - 1]] /\ g[i - 1] \in D
    <3>1. i - 1 \in 1 .. n
      BY <1>1
    <3> HIDE DEF step, D, n
    <3> QED
      BY <1>5, <3>1 DEF IsLoop
  <2> HIDE DEF D, n
  <2> QED
    BY <2>1
<1>7. g \in [1 .. n -> D] /\ g[1] = s0
  <2> HIDE DEF step, D, n, s0
  <2> QED
    BY <1>5 DEF IsLoop
<1>8. eqn(g)
  <2>1. ASSUME NEW i \in 1 .. n
        PROVE  g[i] = IF i = 1 THEN s0 ELSE NameiTurn(g[i - 1], path, reads, i)
    <3>1. CASE i # 1
      <4>1. i \in 1 + 1 .. n
        BY <1>1, <3>1
      <4> QED
        BY <1>6, <3>1, <4>1
    <3> QED
      BY <1>7, <3>1
  <2>2. g = [i \in 1 .. n |-> g[i]]
    <3> HIDE DEF D, n
    <3> QED
      BY <1>7
  <2> QED
    BY <2>1, <2>2
<1>9. eqn(turn)
  BY <1>8, Zenon
<1>10. vfs_namei(c, path, reads) = turn[n]
  BY Zenon DEF vfs_namei
<1> HIDE DEF turn
<1>11. turn[1] = s0 /\ \A i \in 2 .. n : turn[i] = NameiTurn(turn[i - 1], path, reads, i)
  BY <1>1, <1>9
<1> DEFINE S == {i \in 1 .. n : turn[i] \in D}
<1>12. 1 \in S
  <2>1. turn[1] \in D /\ 1 \in 1 .. n
    BY <1>1, <1>2, <1>11
  <2> QED
    BY <2>1
<1>13. ASSUME NEW i \in 1 + 1 .. n, i - 1 \in S PROVE i \in S
  <2>1. turn[i - 1] \in D /\ i \in 2 .. n /\ i \in 1 .. n
    BY <1>13
  <2>2. turn[i] \in D
    BY <1>3, <1>11, <2>1
  <2> QED
    BY <2>1, <2>2
<1>14. \A i \in 1 .. n : i \in S
  <2> HIDE DEF S, n
  <2> QED
    BY <1>1, <1>12, <1>13, RangeInduction
<1>15. \A i \in 1 .. n : turn[i] \in WalkType /\ Kept(c, turn[i])
  BY <1>14
<1>16. IsWalk(turn, c, path, reads)
  BY <1>10, <1>11, <1>15 DEF IsWalk
<1> QED
  BY <1>16

\* What the prefixes of a path name.
NamedTurn(n, path, i) ==
    IF AtCut(path, i) /\ Part(path, i) # <<>> THEN Child(n, Part(path, i)) ELSE n
NamesUpto(upto, path) ==
    /\ upto[1] = RootIno /\ Named(path) = upto[Len(path) + 1]
    /\ \A i \in 2 .. Len(path) + 1 : upto[i] = NamedTurn(upto[i - 1], path, i)

\* Named goes through them.
LEMMA NamedUpto == ASSUME NEW path \in Seq(STRING) PROVE \E upto : NamesUpto(upto, path)
<1> DEFINE n == Len(path) + 1
           step == [i \in 1 + 1 .. n |-> [m \in Nat |-> NamedTurn(m, path, i)]]
           eqn(g) == g = [i \in 1 .. n |->
                            IF i = 1 THEN RootIno
                            ELSE IF AtCut(path, i) /\ Part(path, i) # <<>>
                                 THEN Child(g[i - 1], Part(path, i))
                            ELSE g[i - 1]]
           upto == CHOOSE g : eqn(g)
<1>1. 1 \in Nat /\ n \in Nat /\ 1 <= n /\ RootIno \in Nat
  BY DEF RootIno
<1>2. ASSUME NEW i, NEW m \in Nat PROVE NamedTurn(m, path, i) \in Nat
  BY ChildIs DEF NamedTurn
<1>3. step \in Steps(1, n, Nat)
  BY <1>2 DEF Steps
<1>4. PICK g : IsLoop(g, 1, n, Nat, RootIno, step)
  <2> HIDE DEF step, n
  <2> QED
    BY <1>1, <1>3, LoopExists
<1>5. g \in [1 .. n -> Nat] /\ g[1] = RootIno
      /\ \A i \in 1 + 1 .. n : g[i] = step[i][g[i - 1]]
  <2> HIDE DEF step, n
  <2> QED
    BY <1>4 DEF IsLoop
<1>6. ASSUME NEW i \in 1 + 1 .. n PROVE g[i] = NamedTurn(g[i - 1], path, i)
  <2>1. g[i - 1] \in Nat
    <3>1. i - 1 \in 1 .. n
      BY <1>1
    <3> QED
      BY <1>5, <3>1
  <2> QED
    BY <1>5, <2>1
<1>7. eqn(g)
  <2>1. ASSUME NEW i \in 1 .. n
        PROVE  g[i] = IF i = 1 THEN RootIno
                      ELSE IF AtCut(path, i) /\ Part(path, i) # <<>>
                           THEN Child(g[i - 1], Part(path, i))
                      ELSE g[i - 1]
    <3>1. CASE i # 1
      <4>1. i \in 1 + 1 .. n
        BY <1>1, <3>1
      <4> QED
        BY <1>6, <3>1, <4>1 DEF NamedTurn
    <3> QED
      BY <1>5, <3>1
  <2>2. g = [i \in 1 .. n |-> g[i]]
    <3> HIDE DEF n
    <3> QED
      BY <1>5
  <2> QED
    BY <2>1, <2>2
<1>8. eqn(upto)
  BY <1>7, Zenon
<1>9. Named(path) = upto[n]
  BY Zenon DEF Named
<1> HIDE DEF upto
<1>10. upto[1] = RootIno
  BY <1>1, <1>8
<1>11. ASSUME NEW i \in 2 .. n PROVE upto[i] = NamedTurn(upto[i - 1], path, i)
  <2>1. i \in 1 .. n /\ i # 1
    BY <1>1
  <2> QED
    BY <1>8, <2>1 DEF NamedTurn
<1>12. NamesUpto(upto, path)
  BY <1>9, <1>10, <1>11 DEF NamesUpto
<1> QED
  BY <1>12

\* The slash before a component.
LEMMA CutIs ==
  ASSUME NEW path \in Seq(STRING), NEW i \in 2 .. Len(path) + 1, NEW s \in 2 .. i,
         path[s - 1] = "/", \A m \in s .. i - 1 : path[m] # "/"
  PROVE  Part(path, i) = SubSeq(path, s, i - 1)
<1> DEFINE Cut(j) == path[j] = "/" /\ \A m \in j + 1 .. i - 1 : path[m] # "/"
<1>0. s \in Int /\ i \in Int /\ (s - 1) + 1 = s /\ s - 1 \in 1 .. i - 1
  OBVIOUS
<1>1. Cut(s - 1)
  BY <1>0
<1>2. ASSUME NEW j \in 1 .. i - 1, Cut(j) PROVE j = s - 1
  <2>1. ~(j < s - 1)
    <3>1. ASSUME j < s - 1 PROVE FALSE
      <4>1. s - 1 \in j + 1 .. i - 1
        BY <1>0, <3>1
      <4> QED
        BY <1>1, <1>2, <4>1
    <3> QED
      BY <3>1
  <2>2. ~(j > s - 1)
    <3>1. ASSUME j > s - 1 PROVE FALSE
      <4>1. j \in s .. i - 1
        BY <1>0, <3>1
      <4> QED
        BY <1>2, <4>1
    <3> QED
      BY <3>1
  <2> QED
    BY <1>0, <2>1, <2>2
<1>3. LastCut(path, i) = CHOOSE j \in 1 .. i - 1 : Cut(j)
  BY DEF LastCut
<1> HIDE DEF Cut
<1>4. LastCut(path, i) = s - 1
  BY <1>0, <1>1, <1>2, <1>3
<1> QED
  BY <1>0, <1>4 DEF Part

\* The state of the loop at character i of an absolute path: where the
\* component begins, and what the path names so far.
WalkAt(path, i, st, n, all) ==
    /\ i <= Len(path) =>
         /\ st.start - 1 \in 1 .. i /\ path[st.start - 1] = "/"
         /\ \A m \in st.start .. i : path[m] # "/"
    /\ st.c.stop = "no" => Led(st.c, st.obj, n, all)

\* A turn of the loop goes on with both.
LEMMA WalkTurn ==
  ASSUME TreeGood, NEW path \in Seq(STRING), Absolute(path), NEW i \in 2 .. Len(path) + 1,
         NEW st \in WalkType, NEW c, Kept(c, st), NEW n, NEW reads \in Reads(path),
         WalkAt(path, i - 1, st, n, AllRead(reads))
  PROVE  WalkAt(path, i, NameiTurn(st, path, reads, i), NamedTurn(n, path, i), AllRead(reads))
<1> DEFINE comp == SubSeq(path, st.start, i - 1)
           r == _vfs_find_component(st.c, st.obj, comp, reads[i])
           skip == \/ st.obj = NoObj \/ st.c.stop # "no" \/ comp = <<>>
                   \/ comp = DotDot /\ path[1] = "/"
           all == AllRead(reads)
           t == NameiTurn(st, path, reads, i)
<1>0. /\ st.start \in Int /\ i \in Int /\ Len(path) \in Nat /\ i - 1 <= Len(path)
      /\ st.start \in 2 .. i /\ path[st.start - 1] = "/"
      /\ \A m \in st.start .. i - 1 : path[m] # "/"
  <2>1. st.start \in Int /\ i \in Int /\ Len(path) \in Nat /\ i - 1 <= Len(path)
    BY DEF WalkType
  <2> QED
    BY <2>1 DEF WalkAt
<1>1. Part(path, i) = comp
  BY <1>0, CutIs
<1>2. CASE ~AtCut(path, i)
  <2>1. t = st /\ NamedTurn(n, path, i) = n
    BY <1>2 DEF NameiTurn, NamedTurn
  <2>2. i <= Len(path) /\ path[i] # "/"
    BY <1>0, <1>2 DEF AtCut
  <2>3. WalkAt(path, i, st, n, all)
    BY <1>0, <2>2 DEF WalkAt
  <2> QED
    BY <2>1, <2>3
<1>3. ASSUME AtCut(path, i), NEW u, NEW m, u.start = i + 1,
             u.c.stop = "no" => Led(u.c, u.obj, m, all)
      PROVE  WalkAt(path, i, u, m, all)
  <2>1. i <= Len(path) => path[i] = "/"
    BY <1>0, <1>3 DEF AtCut
  <2>2. u.start - 1 = i /\ i \in 1 .. i /\ \A l \in u.start .. i : FALSE
    BY <1>0, <1>3
  <2> QED
    BY <1>3, <2>1, <2>2 DEF WalkAt
<1>4. CASE AtCut(path, i) /\ skip
  <2>1. t = [st EXCEPT !.start = i + 1]
    BY <1>4 DEF NameiTurn
  <2>2. t.c = st.c /\ t.obj = st.obj /\ t.start = i + 1
    BY <2>1 DEF WalkType
  <2>3. ASSUME st.c.stop = "no" PROVE Led(st.c, st.obj, NamedTurn(n, path, i), all)
    <3>1. Led(st.c, st.obj, n, all)
      BY <2>3 DEF WalkAt
    <3>2. CASE comp = <<>>
      BY <1>1, <3>1, <3>2 DEF NamedTurn
    <3>3. CASE st.obj = NoObj
      <4>0. CASE ~all
        BY <3>3, <4>0 DEF Led
      <4>1. CASE Leads(st.c, st.obj, n)
        <5>1. n = 0
          BY <3>3, <4>1, NoObjFree DEF Leads, UsedIn
        <5>2. Child(0, comp) = 0
          BY VfsAssumption DEF Child, Entries
        <5>3. NamedTurn(n, path, i) = 0
          BY <1>1, <5>1, <5>2 DEF NamedTurn
        <5> QED
          BY <3>3, <5>3 DEF Led, Leads
      <4> QED
        BY <3>1, <4>0, <4>1 DEF Led
    <3>4. comp # DotDot
      BY <1>1, <1>4 DEF Absolute
    <3> QED
      BY <1>4, <2>3, <3>2, <3>3, <3>4
  <2> HIDE DEF t
  <2>4. WalkAt(path, i, t, NamedTurn(n, path, i), all)
    BY <1>3, <1>4, <2>2, <2>3
  <2> QED
    BY <2>4 DEF t
<1>5. CASE AtCut(path, i) /\ ~skip
  <2>1. t = [c |-> r.c, obj |-> r.obj, start |-> i + 1]
    BY <1>5 DEF NameiTurn
  <2>2. NamedTurn(n, path, i) = Child(n, comp)
    BY <1>1, <1>5 DEF NamedTurn
  <2>3. Leads(st.c, st.obj, n)
    BY <1>5 DEF WalkAt, Led
  <2>4. st.obj \in UsedIn(st.c) /\ DiskIno(st.c.node[st.obj]) = n
    BY <1>5, <2>3 DEF Leads
  <2>5. st.c \in CacheType /\ Whole(st.c)
    BY DEF Kept
  <2>5a. reads[i] \in Nat /\ (all => reads[i] = DirBlocks)
    BY <1>5, VfsAssumption DEF Reads, AllRead
  <2>6. r.c.stop = "no" => Led(r.c, r.obj, Child(n, comp), reads[i] = DirBlocks)
    <3> HIDE DEF comp, all
    <3> QED
      BY <2>4, <2>5, <2>5a, ComponentKeeps
  <2>6a. r.c.stop = "no" => Led(r.c, r.obj, Child(n, comp), all)
    <3> HIDE DEF comp, all, r
    <3> QED
      BY <2>5a, <2>6 DEF Led
  <2> HIDE DEF r, t, all
  <2>7. t.c = r.c /\ t.obj = r.obj /\ t.start = i + 1
    BY <2>1
  <2>8. WalkAt(path, i, t, NamedTurn(n, path, i), all)
    BY <1>3, <1>5, <2>2, <2>6a, <2>7 DEF all
  <2> QED
    BY <2>8 DEF t, all
<1> QED
  BY <1>2, <1>4, <1>5

\* vfs_namei finds what an absolute path names.
LEMMA NameiFinds ==
  ASSUME TreeGood, NEW c \in CacheType, Whole(c), vroot \in UsedIn(c), c.node[vroot] = 0,
         NEW path \in Seq(STRING), Absolute(path), NEW reads \in Reads(path),
         vfs_namei(c, path, reads).c.stop = "no"
  PROVE  Led(vfs_namei(c, path, reads).c, vfs_namei(c, path, reads).obj, Named(path),
             AllRead(reads))
<1> DEFINE n == Len(path) + 1
           all == AllRead(reads)
<1>1. PICK turn : IsWalk(turn, c, path, reads)
  BY NameiWalks
<1>2. PICK upto : NamesUpto(upto, path)
  BY NamedUpto
<1> DEFINE S == {i \in 1 .. n : WalkAt(path, i, turn[i], upto[i], all)}
<1>3. 1 \in Nat /\ n \in Nat /\ 1 \in 1 .. n /\ n \in 1 .. n
  OBVIOUS
<1>4. 1 \in S
  <2>1. turn[1] = [c |-> c, obj |-> vroot, start |-> 2] /\ upto[1] = RootIno
    BY <1>1, <1>2 DEF IsWalk, NamesUpto
  <2>2. Leads(c, vroot, RootIno)
    BY DEF Leads, DiskIno, RootIno
  <2>3. path[1] = "/" /\ 2 - 1 = 1 /\ \A m \in 2 .. 1 : FALSE
    BY DEF Absolute
  <2>4. WalkAt(path, 1, turn[1], upto[1], all)
    BY <2>1, <2>2, <2>3 DEF WalkAt, Led
  <2> QED
    BY <1>3, <2>4
<1>5. ASSUME NEW i \in 1 + 1 .. n, i - 1 \in S PROVE i \in S
  <2>1. i \in 2 .. Len(path) + 1 /\ i \in 1 .. n /\ i - 1 \in 1 .. Len(path) + 1
    OBVIOUS
  <2>2. WalkAt(path, i - 1, turn[i - 1], upto[i - 1], all)
    BY <1>5
  <2>3. /\ turn[i - 1] \in WalkType /\ Kept(c, turn[i - 1])
        /\ turn[i] = NameiTurn(turn[i - 1], path, reads, i)
    BY <1>1, <2>1 DEF IsWalk
  <2>4. upto[i] = NamedTurn(upto[i - 1], path, i)
    BY <1>2, <2>1 DEF NamesUpto
  <2>5. WalkAt(path, i, turn[i], upto[i], all)
    BY <2>1, <2>2, <2>3, <2>4, WalkTurn
  <2> QED
    BY <2>1, <2>5
<1>6. \A i \in 1 .. n : i \in S
  <2> HIDE DEF S, n
  <2> QED
    BY <1>3, <1>4, <1>5, RangeInduction
<1>7. WalkAt(path, n, turn[n], upto[n], all)
  BY <1>3, <1>6
<1>8. vfs_namei(c, path, reads) = turn[n] /\ Named(path) = upto[n]
  BY <1>1, <1>2 DEF IsWalk, NamesUpto
<1> QED
  BY <1>7, <1>8 DEF WalkAt

----------------------------------------------------------------------------
VfsInv ==
    /\ VfsTypeOK /\ Whole(Current)
    /\ vroot # NoObj => vroot \in UsedIn(Current)

PathInv ==
    /\ vroot # NoObj => vnode[vroot] = 0
    /\ vroot = NoObj => vlast.path = <<>>
    /\ VfsNameiRight

\* The cache that the variables hold.
LEMMA CurrentIs ==
  /\ VfsTypeOK => Current \in CacheType
  /\ \A c \in CacheType : Becomes(c) => Current' = c
<1>1. VfsTypeOK => Current \in CacheType
  BY DEF VfsTypeOK, Current, CacheType, Buckets, MaybeObject
<1>2. ASSUME NEW c \in CacheType, Becomes(c) PROVE Current' = c
  <2>1. c = [node |-> c.node, table |-> c.table, free |-> c.free, stop |-> c.stop]
    BY DEF CacheType
  <2>2. Current' = [node |-> vnode', table |-> vtable', free |-> vfree', stop |-> vstop']
    BY DEF Current
  <2> QED
    BY <1>2, <2>1, <2>2 DEF Becomes
<1> QED
  BY <1>1, <1>2

\* The empty cache that register_all_fs_types leaves.
LEMMA VfsInitHolds == ASSUME VfsInit PROVE VfsInv /\ PathInv
<1>1. /\ Current = register_all_fs_types /\ vroot = NoObj
      /\ vlast = [path |-> <<>>, obj |-> NoObj, whole |-> TRUE]
  BY DEF VfsInit, Current, register_all_fs_types
<1>2. [i \in Objects |-> i] \in Seq(Objects)
  BY VfsAssumption DEF Objects
<1>3. VfsTypeOK
  BY <1>2 DEF VfsTypeOK, VfsInit, register_all_fs_types, Stops
<1>4. UsedIn(Current) = {}
  BY <1>1 DEF UsedIn, register_all_fs_types
<1>5. Whole(Current)
  BY <1>1, <1>4 DEF Whole, register_all_fs_types, Buckets
<1>6. ~Absolute(vlast.path)
  BY <1>1 DEF Absolute
<1> QED
  BY <1>1, <1>3, <1>5, <1>6 DEF VfsInv, PathInv, VfsNameiRight, VfsFoundIsNamed

\* What a step that lets the cache grow leaves true.
LEMMA BecomesKeeps ==
  ASSUME VfsInv, NEW r, Kept(Current, r), Becomes(r.c), vlocked' = vlocked,
         vroot' \in {vroot, r.obj},
         vlast'.path \in {<<>>} \cup Paths, vlast'.obj \in MaybeObject
  PROVE  VfsInv' /\ Current' = r.c
<1>1. r.c \in CacheType /\ r.obj \in MaybeObject /\ Whole(r.c) /\ Grows(Current, r.c)
  BY DEF Kept
<1>2. Current' = r.c
  BY <1>1, CurrentIs
<1>3. vroot' # NoObj => vroot' \in UsedIn(r.c)
  BY <1>1 DEF VfsInv, Kept, Grows
<1>4. vroot' \in MaybeObject
  BY <1>1 DEF VfsInv, VfsTypeOK, MaybeObject
<1>5. VfsTypeOK'
  BY <1>1, <1>4 DEF VfsInv, VfsTypeOK, Becomes, CacheType, MaybeObject, Buckets
<1>6. Whole(Current)'
  BY <1>1, <1>2 DEF Whole, UsedIn, hash, NoObj, Inos, Buckets, Entries, Objects
<1>7. UsedIn(Current)' = UsedIn(r.c)
  BY <1>2 DEF UsedIn, Objects
<1> QED
  BY <1>2, <1>3, <1>5, <1>6, <1>7 DEF VfsInv, NoObj

\* The mount of the root.
LEMMA MountKeeps ==
  ASSUME VfsInv, NEW sb \in BOOLEAN, vfs_mount_root(sb)
  PROVE  VfsInv' /\ (TreeGood /\ PathInv => PathInv')
<1>0. Current \in CacheType /\ Whole(Current) /\ VfsTypeOK /\ 0 \in Inos
  BY CurrentIs, NumberTypes DEF VfsInv
<1>1. CASE sb /\ \E i \in DOMAIN FsTypes : FsTypes[i]
  <2> DEFINE r == vfs_iget(Current, 0)
             d == [r.c EXCEPT !.stop = IF @ = "no" /\ ~IsDir(0) THEN "panic" ELSE @]
             q == [c |-> d, obj |-> r.obj]
  <2>1. /\ Becomes(d) /\ vlast' = vlast /\ vroot = NoObj /\ vlocked' = vlocked
        /\ vroot' = IF IsDir(0) THEN r.obj ELSE NoObj
    BY <1>1 DEF vfs_mount_root
  <2>2. /\ r \in FoundType /\ Kept(Current, r)
        /\ r.obj # NoObj => hash(r.c.node[r.obj]) = hash(0)
    BY <1>0, IgetKeeps
  <2> HIDE DEF r
  <2>2a. /\ d \in CacheType /\ d.node = r.c.node /\ d.table = r.c.table /\ d.free = r.c.free
         /\ r.c.stop # "no" => d.stop # "no"
    <3>1. r.c \in CacheType
      BY <2>2 DEF Kept
    <3> QED
      BY <3>1 DEF CacheType, Stops
  <2>2b. q.c = d /\ q.obj = r.obj
    OBVIOUS
  <2> HIDE DEF d, q
  <2>2c. Kept(Current, q)
    <3>1. UsedIn(d) = UsedIn(r.c)
      BY <2>2a DEF UsedIn
    <3> QED
      BY <2>2, <2>2a, <2>2b, <3>1 DEF Kept, Whole, Grows
  <2>3. VfsInv' /\ Current' = d
    BY <1>0, <2>1, <2>2b, <2>2c, BecomesKeeps DEF VfsTypeOK, MaybeObject
  <2>4. ASSUME TreeGood, PathInv PROVE PathInv'
    <3>1. vlast'.path = <<>>
      BY <2>1, <2>4 DEF PathInv
    <3>2. VfsNameiRight'
      BY <3>1 DEF VfsNameiRight, VfsFoundIsNamed, Absolute
    <3>3. ASSUME vroot' # NoObj PROVE vnode'[vroot'] = 0
      <4>1. vroot' = r.obj /\ r.obj \in UsedIn(r.c) /\ Whole(r.c)
        BY <2>1, <2>2, <3>3 DEF Kept
      <4>2. vnode' = r.c.node
        BY <2>1, <2>2a DEF Becomes
      <4>3. r.c.node[r.obj] \in Inos /\ hash(r.c.node[r.obj]) = hash(0)
        BY <2>2, <3>3, <4>1, NoObjFree DEF Whole, UsedIn
      <4>4. r.c.node[r.obj] = 0
        BY <1>0, <2>4, <4>3 DEF TreeGood
      <4> QED
        BY <4>1, <4>2, <4>4
    <3> QED
      BY <3>1, <3>2, <3>3 DEF PathInv, NoObj
  <2> QED
    BY <2>3, <2>4
<1>2. CASE ~ (sb /\ \E i \in DOMAIN FsTypes : FsTypes[i])
  <2>1. /\ vstop' \in Stops /\ vlocked' = vlocked /\ vnode' = vnode /\ vtable' = vtable /\ vfree' = vfree
        /\ vroot' = vroot /\ vlast' = vlast
    BY <1>2 DEF vfs_mount_root, Stops
  <2>2. VfsTypeOK'
    BY <1>0, <2>1 DEF VfsTypeOK
  <2>3. /\ Current'.node = Current.node /\ Current'.table = Current.table
        /\ Current'.free = Current.free
    BY <2>1 DEF Current
  <2>4. UsedIn(Current)' = UsedIn(Current) /\ Whole(Current)'
    BY <1>0, <2>3 DEF UsedIn, Whole, hash, NoObj, Inos, Buckets, Entries, Objects
  <2>5. PathInv => PathInv'
    <3>1. PathInv => vlast'.path = <<>>
      BY <2>1 DEF PathInv, vfs_mount_root
    <3>2. PathInv => VfsNameiRight'
      BY <3>1 DEF VfsNameiRight, VfsFoundIsNamed, Absolute
    <3> QED
      BY <2>1, <3>1, <3>2 DEF PathInv
  <2> QED
    BY <2>1, <2>2, <2>4, <2>5 DEF VfsInv, NoObj
<1> QED
  BY <1>1, <1>2

\* The lookup of a path.
LEMMA NameiKeeps ==
  ASSUME VfsInv, Namei
  PROVE  VfsInv' /\ (TreeGood /\ PathInv => PathInv')
<1>0. Current \in CacheType /\ Whole(Current) /\ VfsTypeOK /\ vroot \in UsedIn(Current)
  BY CurrentIs DEF VfsInv, Namei
<1>1a. PICK path \in Paths : \E reads \in Reads(path) :
        /\ Becomes(vfs_namei(Current, path, reads).c)
        /\ vlast' = [path |-> path,
                     obj |-> IF vfs_namei(Current, path, reads).c.stop # "no" THEN NoObj
                             ELSE vfs_namei(Current, path, reads).obj,
                     whole |-> AllRead(reads)]
  BY DEF Namei
<1>1. PICK reads \in Reads(path) :
        /\ Becomes(vfs_namei(Current, path, reads).c)
        /\ vlast' = [path |-> path,
                     obj |-> IF vfs_namei(Current, path, reads).c.stop # "no" THEN NoObj
                             ELSE vfs_namei(Current, path, reads).obj,
                     whole |-> AllRead(reads)]
  BY <1>1a
<1>2. vroot' = vroot /\ vroot # NoObj /\ path \in Seq(STRING) /\ vlocked' = vlocked
  BY VfsAssumption DEF Namei
<1> DEFINE r == vfs_namei(Current, path, reads)
<1>3. PICK turn : IsWalk(turn, Current, path, reads)
  BY <1>0, <1>2, NameiWalks
<1>4. Kept(Current, r)
  <2>1. Len(path) + 1 \in 1 .. Len(path) + 1
    BY <1>2
  <2> QED
    BY <1>3, <2>1 DEF IsWalk
<1>5. ASSUME TreeGood, vnode[vroot] = 0, Absolute(path), r.c.stop = "no"
      PROVE  Led(r.c, r.obj, Named(path), AllRead(reads))
  <2>1. Current.node[vroot] = 0
    BY <1>5 DEF Current
  <2> QED
    BY <1>0, <1>2, <1>5, <2>1, NameiFinds
<1>6. /\ Becomes(r.c) /\ vlast'.path = path
      /\ vlast'.obj = IF r.c.stop # "no" THEN NoObj ELSE r.obj
      /\ vlast'.whole = AllRead(reads)
  BY <1>1
<1> HIDE DEF r
<1>7. VfsInv' /\ Current' = r.c
  <2>1. vlast'.obj \in MaybeObject
    BY <1>4, <1>6, NoObjFree DEF Kept
  <2> QED
    BY <1>2, <1>4, <1>6, <2>1, BecomesKeeps
<1>8. ASSUME TreeGood, PathInv PROVE PathInv'
  <2>1. vnode' = r.c.node /\ vstop' = r.c.stop
    BY <1>6 DEF Becomes
  <2>2. vnode[vroot] = 0
    BY <1>2, <1>8 DEF PathInv
  <2>3. vnode'[vroot'] = 0
    BY <1>0, <1>2, <1>4, <2>1, <2>2 DEF Kept, Grows, Current
  <2>4. ASSUME Absolute(path), vstop' = "no"
        PROVE  \/ /\ Named(path) = 0 /\ vlast'.obj = NoObj
               \/ /\ Named(path) # 0 /\ vlast'.obj # NoObj
                  /\ DiskIno(vnode'[vlast'.obj]) = Named(path)
               \/ ~vlast'.whole /\ vlast'.obj = NoObj
    <3>1. r.c.stop = "no" /\ vlast'.obj = r.obj
      BY <1>6, <2>1, <2>4
    <3>2. Led(r.c, r.obj, Named(path), vlast'.whole)
      BY <1>5, <1>6, <1>8, <2>2, <2>4, <3>1
    <3> QED
      BY <2>1, <3>1, <3>2, NoObjFree DEF Led, Leads, UsedIn
  <2>4a. vstop' # "no" => vlast'.obj = NoObj
    BY <1>6, <2>1
  <2>5. VfsNameiRight'
    <3>1. VfsFoundIsNamed'
      <4>1. VfsFoundIsNamed' <=>
              (Absolute(path) /\ vlast'.obj # NoObj =>
                 DiskIno(vnode'[vlast'.obj]) = Named(path))
        BY <1>6 DEF VfsFoundIsNamed, NoObj, DiskIno, RootIno
      <4> QED
        BY <2>4, <2>4a, <4>1
    <3>2. VfsNameiRight' <=>
            /\ VfsFoundIsNamed'
            /\ (/\ Absolute(path) /\ vstop' = "no"
                /\ vlast'.obj = NoObj /\ Named(path) # 0) => ~vlast'.whole
      BY <1>6 DEF VfsNameiRight, NoObj
    <3> QED
      BY <2>4, <3>1, <3>2
  <2> QED
    BY <1>2, <2>3, <2>5 DEF PathInv, NoObj
<1> QED
  BY <1>7, <1>8

\* Every step keeps the cache whole and the answers right.
LEMMA VfsStep ==
  ASSUME VfsInv, [VfsNext]_vfsVars
  PROVE  VfsInv' /\ (TreeGood /\ PathInv => PathInv')
<1>1. ASSUME NEW sb \in BOOLEAN, vfs_mount_root(sb)
      PROVE  VfsInv' /\ (TreeGood /\ PathInv => PathInv')
  BY <1>1, MountKeeps
<1>2. CASE Namei
  BY <1>2, NameiKeeps
<1>3. CASE UNCHANGED vfsVars
  <2>1. Current' = Current
    BY <1>3 DEF vfsVars, Current
  <2>2. UsedIn(Current)' = UsedIn(Current) /\ Whole(Current)' = Whole(Current)
    BY <2>1 DEF UsedIn, Whole, hash, NoObj, Inos, Buckets, Entries, Objects
  <2>3. VfsTypeOK' /\ vroot' = vroot
    BY <1>3 DEF vfsVars, VfsInv, VfsTypeOK
  <2>4. PathInv => PathInv'
    BY <1>3 DEF vfsVars, PathInv, VfsNameiRight, VfsFoundIsNamed
  <2> QED
    BY <2>2, <2>3, <2>4 DEF VfsInv, NoObj
<1> QED
  BY <1>1, <1>2, <1>3 DEF VfsNext

\* What the invariant says of the cache.
LEMMA CacheFollows == ASSUME VfsInv PROVE VfsTypeOK /\ VfsCacheWhole
<1> DEFINE used == {i \in Objects : \A k \in DOMAIN vfree : vfree[k] # i}
<1>1. VfsTypeOK /\ Whole(Current) /\ UsedIn(Current) = used
  BY DEF VfsInv, UsedIn, Current
<1>2. /\ \A i \in used : vtable[hash(vnode[i])] = i
      /\ \A h \in Buckets : vtable[h] # NoObj => vtable[h] \in used
  BY <1>1 DEF Whole, Current
<1>3. DOMAIN vtable = Buckets
  BY <1>1 DEF VfsTypeOK, Buckets
<1> QED
  BY <1>1, <1>2, <1>3 DEF VfsCacheWhole

\* For every tree, any number of objects and any size of the table, and any
\* sequence of lookups: no i-node is in the cache twice, no object in use is
\* on the free list, and every object in use can be found (vfs.c:359).
THEOREM InodesKept == VfsSpec => [](VfsTypeOK /\ VfsCacheWhole)
<1>1. VfsInit => VfsInv
  BY VfsInitHolds
<1>2. VfsInv /\ [VfsNext]_vfsVars => VfsInv'
  BY VfsStep
<1>3. VfsInv => VfsTypeOK /\ VfsCacheWhole
  BY CacheFollows
<1> QED
  BY <1>1, <1>2, <1>3, PTL DEF VfsSpec

\* In a tree whose i-nodes do not share buckets, whose names are unique in a
\* directory and whose unused entries end a block, a lookup that returns an
\* i-node returns the file that the path names, and one that returns none
\* could not read a block or was asked for a file that is not there
\* (namei.c:41): for every such tree, every path, any number of objects,
\* whatever is cached, whichever reads fail and whatever the lock words hold.
\* A lookup that panics or sleeps for a lock returns nothing.
THEOREM PathsLeadToFiles == ASSUME TreeGood PROVE VfsSpec => []VfsRight
<1>1. VfsInit => VfsInv /\ PathInv
  BY VfsInitHolds
<1>2. VfsInv /\ PathInv /\ [VfsNext]_vfsVars => VfsInv' /\ PathInv'
  BY VfsStep
<1>3. VfsInv /\ PathInv => VfsRight
  BY CacheFollows DEF VfsRight, PathInv
<1> QED
  BY <1>1, <1>2, <1>3, PTL DEF VfsSpec

----------------------------------------------------------------------------
(* Where the ext2 driver looks for i-nodes and for the blocks of a file. *)

\* What parts of equal length make together.
PartsJoined(f, s, n, m, T) ==
    /\ f \in Seq(T) /\ Len(f) = m * n
    /\ \A k \in 1 .. m * n : f[k] = s[((k - 1) \div m) + 1][((k - 1) % m) + 1]

\* FlattenSeq joins parts of equal length.
LEMMA FlattenEqual ==
  ASSUME NEW T, NEW n \in Nat, NEW m \in Nat \ {0}, NEW s \in [1 .. n -> [1 .. m -> T]]
  PROVE  PartsJoined(FlattenSeq(s), s, n, m, T)
<1> DEFINE at(k) == s[((k - 1) \div m) + 1][((k - 1) % m) + 1]
           Joined(f, i) == f \in Seq(T) /\ Len(f) = m * i /\ \A k \in 1 .. m * i : f[k] = at(k)
<1>0. Len(s) = n /\ \A i \in 1 .. n : s[i] \in Seq(T) /\ Len(s[i]) = m
  OBVIOUS
<1>1. CASE n = 0
  <2>1. FlattenSeq(s) = s /\ s = <<>>
    BY <1>0, <1>1 DEF FlattenSeq
  <2> QED
    BY <1>1, <2>1 DEF PartsJoined
<1>2. CASE n # 0
  <2> DEFINE D == Seq(T)
             step == [i \in 1 + 1 .. n |-> [f \in D |-> f \o s[i]]]
             eqn(g) == g = [i \in 1 .. n |-> IF i = 1 THEN s[i] ELSE g[i - 1] \o s[i]]
             flatten == CHOOSE g : eqn(g)
  <2>1. 1 \in Nat /\ 1 <= n /\ s[1] \in D
    BY <1>0, <1>2
  <2>2. step \in Steps(1, n, D)
    BY <1>0 DEF Steps
  <2>3. PICK g : IsLoop(g, 1, n, D, s[1], step)
    <3> HIDE DEF step, D
    <3> QED
      BY <2>1, <2>2, LoopExists
  <2>4. /\ g \in [1 .. n -> D] /\ g[1] = s[1]
        /\ \A i \in 1 + 1 .. n : g[i] = step[i][g[i - 1]]
    <3> HIDE DEF step, D
    <3> QED
      BY <2>3 DEF IsLoop
  <2>5. eqn(g)
    <3>1. ASSUME NEW i \in 1 .. n PROVE g[i] = IF i = 1 THEN s[i] ELSE g[i - 1] \o s[i]
      <4>1. CASE i # 1
        <5>1. i \in 1 + 1 .. n /\ i - 1 \in 1 .. n
          BY <4>1
        <5>2. g[i - 1] \in D /\ g[i] = step[i][g[i - 1]]
          <6> HIDE DEF D, step
          <6> QED
            BY <2>4, <5>1
        <5> HIDE DEF D
        <5> QED
          BY <4>1, <5>1, <5>2
      <4> QED
        BY <2>4, <4>1
    <3>2. g = [i \in 1 .. n |-> g[i]]
      <4> HIDE DEF D
      <4> QED
        BY <2>4
    <3> QED
      BY <3>1, <3>2
  <2>6. eqn(flatten)
    BY <2>5, Zenon
  <2>7. FlattenSeq(s) = flatten[n]
    <3>1. Len(s) # 0
      BY <1>0, <1>2
    <3>2. FlattenSeq(s) = LET flat[i \in 1 .. Len(s)] == IF i = 1 THEN s[i] ELSE flat[i - 1] \o s[i]
                          IN  flat[Len(s)]
      BY <3>1, Zenon DEF FlattenSeq
    <3> QED
      BY <1>0, <3>2, Zenon
  <2> HIDE DEF flatten
  <2> DEFINE S == {i \in 1 .. n : Joined(flatten[i], i)}
  <2>8. 1 \in S
    <3>1. flatten[1] = s[1] /\ m * 1 = m
      BY <2>1, <2>6
    <3>2. ASSUME NEW k \in 1 .. m PROVE s[1][k] = at(k)
      <4>1. (k - 1) \div m = 0 /\ (k - 1) % m = k - 1
        <5>1. k - 1 \in 0 .. m - 1 /\ m * 0 + (k - 1) = k - 1
          OBVIOUS
        <5> QED
          BY <5>1, DivModUnique
      <4> QED
        BY <4>1
    <3> QED
      BY <1>0, <2>1, <3>1, <3>2
  <2>9. ASSUME NEW i \in 1 + 1 .. n, i - 1 \in S PROVE i \in S
    <3> DEFINE f == flatten[i - 1]
               L == m * (i - 1)
    <3>1. i \in 1 .. n /\ i # 1 /\ i - 1 \in Nat /\ Joined(f, i - 1)
      BY <2>9
    <3>2. flatten[i] = f \o s[i] /\ s[i] \in Seq(T) /\ Len(s[i]) = m
      BY <1>0, <2>6, <3>1
    <3>3. L \in Nat /\ m * i = L + m
      BY <3>1
    <3>4. L \in Nat
      BY <3>3
    <3>5. f \in Seq(T) /\ Len(f) = L /\ \A k \in 1 .. L : f[k] = at(k)
      BY <3>1
    <3>6. ASSUME NEW k \in 1 .. L + m, k > L PROVE s[i][k - L] = at(k)
      <4>1. k - L - 1 \in 0 .. m - 1 /\ m * (i - 1) + (k - L - 1) = k - 1
        BY <3>3, <3>6
      <4>2. (k - 1) \div m = i - 1 /\ (k - 1) % m = k - L - 1
        <5> DEFINE q == i - 1
                   r == k - L - 1
        <5>1. q \in Nat /\ r \in 0 .. m - 1 /\ m * q + r = k - 1
          BY <3>1, <4>1
        <5> HIDE DEF q, r
        <5>2. (k - 1) \div m = q /\ (k - 1) % m = r
          BY <5>1, DivModUnique
        <5> QED
          BY <5>2 DEF q, r
      <4>3. ((k - 1) \div m) + 1 = i /\ ((k - 1) % m) + 1 = k - L
        <5> HIDE DEF L
        <5> QED
          BY <3>1, <3>3, <4>2
      <4> QED
        BY <4>3
    <3> DEFINE u == s[i]
    <3>7. f \in Seq(T) /\ u \in Seq(T) /\ Len(f) = L /\ Len(u) = m
      BY <3>2, <3>5
    <3>8. \A k \in 1 .. L : f[k] = at(k)
      BY <3>5
    <3>9. \A k \in 1 .. L + m : k > L => u[k - L] = at(k)
      BY <3>6
    <3> HIDE DEF L, f, u, at
    <3>10. ASSUME NEW k \in 1 .. L + m PROVE (f \o u)[k] = at(k)
      <4>0. k \in Int /\ k >= 1 /\ k <= L + m
        BY <3>4
      <4>1. CASE k <= L
        <5>1. k \in 1 .. L
          BY <3>4, <4>0, <4>1
        <5>2. (f \o u)[k] = f[k]
          BY <3>4, <3>7, <4>0, <4>1
        <5> QED
          BY <3>8, <5>1, <5>2
      <4>2. CASE k > L
        <5>1. (f \o u)[k] = u[k - L]
          BY <3>4, <3>7, <4>0, <4>2
        <5> QED
          BY <3>9, <4>2, <5>1
      <4>3. k <= L \/ k > L
        BY <3>4, <4>0
      <4> QED
        BY <4>1, <4>2, <4>3
    <3>11. f \o u \in Seq(T) /\ Len(f \o u) = L + m
      <4>1. f \o u \in Seq(T)
        BY <3>7, ConcatProperties
      <4>2. Len(f \o u) = Len(f) + Len(u)
        BY <3>7, ConcatProperties
      <4> QED
        BY <3>7, <4>1, <4>2
    <3> QED
      BY <3>1, <3>2, <3>3, <3>10, <3>11 DEF u
  <2>10. \A i \in 1 .. n : i \in S
    <3> HIDE DEF S
    <3> QED
      BY <2>1, <2>8, <2>9, RangeInduction
  <2>11. n \in 1 .. n
    BY <1>2
  <2>12. Joined(flatten[n], n)
    <3> HIDE DEF Joined
    <3> QED
      BY <2>10, <2>11
  <2> QED
    BY <2>7, <2>12 DEF PartsJoined
<1> QED
  BY <1>1, <1>2

\* The size of a block, in bytes and in sectors, as the disk and as the
\* driver see it.
Spb == get_block_size \div SECTOR_SIZE
Driver ==
    [block_size |-> Spb, n_groups |-> div_rup(egeom.blocks, egeom.bpg),
     table |-> ReadDescriptor(GroupSector(Spb))]

Ext2Inv ==
    /\ egeom \in Geometries /\ edrv = IF emount = "yes" THEN Driver ELSE NoDriver
    /\ emount # "yes" => einode = NoInode /\ efile = <<>>
    /\ Ext2Right

\* The disk, with the facts that the layout of an ext2 disk gives.
LEMMA GeometryIs ==
  ASSUME egeom \in Geometries
  PROVE  /\ egeom \in GeometryType
         /\ (egeom.groups - 1) * egeom.bpg < egeom.blocks
         /\ EXT2_ROOT_INO <= egeom.groups * egeom.ipg
         /\ egeom.log \in 0 .. 2 /\ egeom.fdb \in Nat /\ egeom.blocks \in Nat
         /\ egeom.bpg \in Nat \ {0} /\ egeom.ipg \in Nat \ {0} /\ egeom.groups \in Nat \ {0}
         /\ egeom.gdt \in Nat /\ egeom.rev \in Nat
<1>1. egeom \in GeometryType
  BY Ext2Assumption
<1> QED
  BY <1>1, Ext2Assumption DEF GeometryType

\* get_block_size is the block size of the disk.
LEMMA BlockSizes ==
  ASSUME egeom \in Geometries
  PROVE  /\ get_block_size = BlockBytes /\ Spb = BlockBytes \div SECTOR_SIZE
         /\ \/ egeom.log = 0 /\ get_block_size = 1024 /\ Spb = 2
            \/ egeom.log = 1 /\ get_block_size = 2048 /\ Spb = 4
            \/ egeom.log = 2 /\ get_block_size = 4096 /\ Spb = 8
<1>1. egeom.log \in 0 .. 2
  BY GeometryIs
<1>2. 1024 * 2^0 = 1024 /\ 1024 * 2^1 = 2048 /\ 1024 * 2^2 = 4096
  OBVIOUS
<1>3. CASE egeom.log = 0
  BY <1>2, <1>3 DEF get_block_size, BlockBytes, Spb, SECTOR_SIZE
<1>4. CASE egeom.log = 1
  BY <1>2, <1>4 DEF get_block_size, BlockBytes, Spb, SECTOR_SIZE
<1>5. CASE egeom.log = 2
  BY <1>2, <1>5 DEF get_block_size, BlockBytes, Spb, SECTOR_SIZE
<1> QED
  BY <1>1, <1>3, <1>4, <1>5

\* div_rup counts every group of which the disk has a block.
LEMMA GroupsCounted ==
  ASSUME egeom \in Geometries
  PROVE  Driver.n_groups \in Nat /\ egeom.groups <= Driver.n_groups
<1> DEFINE a == egeom.blocks
           b == egeom.bpg
           g == egeom.groups
           q == a \div b
<1>1. a \in Nat /\ b \in Nat \ {0} /\ g \in Nat \ {0} /\ (g - 1) * b < a
  BY GeometryIs
<1>2. Driver.n_groups = IF q * b < a THEN q + 1 ELSE q
  BY DEF Driver, div_rup
<1> HIDE DEF a, b, g
<1>3. q \in Nat /\ a % b \in 0 .. b - 1 /\ a = b * q + (a % b)
  BY <1>1, DivMod
<1> HIDE DEF q
<1>4. ASSUME q < g - 1 PROVE FALSE
  <2>1. (q + 1) * b <= (g - 1) * b
    BY <1>1, <1>3, <1>4
  <2> QED
    BY <1>1, <1>3, <2>1
<1>5. ASSUME q = g - 1 PROVE q * b < a
  BY <1>1, <1>5
<1> QED
  BY <1>1, <1>2, <1>3, <1>4, <1>5 DEF g

\* Where the driver takes the table of a group to be, as far as it is right.
LEMMA TablesFound ==
  ASSUME egeom \in Geometries, egeom.log = 0, edrv = Driver, NEW g \in Nat, Reached(g)
  PROVE  GroupBlock(g) = TableBlock(g) /\ TableBlock(g) \in Nat
<1> DEFINE f == egeom.fdb
           b == egeom.bpg
           d == egeom.gdt
<1>1. f \in Nat /\ b \in Nat /\ d \in Nat /\ egeom.rev \in Nat /\ g * b \in Nat
  BY GeometryIs
<1>2. Spb = 2 /\ BlockBytes \div SECTOR_SIZE = 2
  BY BlockSizes
<1>3. edrv.table = TableBlock(0)
  <2>1. GroupSector(Spb) = DescriptorSector
    BY <1>1, <1>2 DEF GroupSector, DescriptorSector, EXT2_SUPERBLOCK_SECTOR
  <2> QED
    BY <2>1 DEF Driver, ReadDescriptor
<1>4. IsBackup(0)
  BY DEF IsBackup
<1>5. TableBlock(0) = f + (1 + d) + 2
  BY <1>1, <1>4 DEF TableBlock
<1>6. TableBlock(g) = f + g * b + (IF IsBackup(g) THEN 1 + d ELSE 0) + 2
  BY DEF TableBlock
<1>7. TableBlock(g) \in Nat
  BY <1>1, <1>6
<1>8. CASE egeom.rev = 0
  <2>1. IsBackup(g) /\ GroupBlock(g) = edrv.table + g * b
    BY <1>1, <1>3, <1>5, <1>8 DEF IsBackup, GroupBlock
  <2> QED
    BY <1>1, <1>3, <1>5, <1>6, <1>7, <2>1
<1>9. CASE egeom.rev # 0
  <2> DEFINE S == {i \in 1 .. g : NoCopy(i)}
  <2>1. d = 1 /\ g \in 0 .. 2 /\ egeom.rev > 0
    BY <1>1, <1>9 DEF Reached
  <2>2. GroupBlock(g) = edrv.table + g * b - 2 * Cardinality(S)
    BY <2>1 DEF GroupBlock
  <2>3. CASE g \in {0, 1}
    <3>1. S = {}
      BY <2>3 DEF NoCopy
    <3>2. Cardinality(S) = 0 /\ IsBackup(g)
      BY <2>3, <3>1, FS_EmptySet DEF IsBackup
    <3>3. GroupBlock(g) = f + (1 + d) + 2 + g * b
      <4> HIDE DEF S, f, d, b
      <4> QED
        BY <1>1, <1>3, <1>5, <2>2, <3>2
    <3>4. TableBlock(g) = f + g * b + (1 + d) + 2
      BY <1>6, <3>2
    <3> HIDE DEF f, d, b
    <3> QED
      BY <1>1, <1>7, <3>3, <3>4
  <2>4. CASE g = 2
    <3>1. S = {2}
      BY <2>4 DEF NoCopy
    <3>2. Cardinality(S) = 1
      BY <3>1, FS_Singleton
    <3>3. ~IsBackup(g)
      <4>1. ASSUME NEW p \in {3, 5, 7} PROVE ~IsPower(p, 2)
        <5>1. 2 \in 2 .. 2 /\ 2 % 2 = 0 /\ 2 % 3 # 0 /\ 2 % 5 # 0 /\ 2 % 7 # 0
          OBVIOUS
        <5> QED
          BY <5>1 DEF IsPower
      <4> QED
        BY <1>9, <2>4, <4>1 DEF IsBackup
    <3> QED
      BY <1>1, <1>3, <1>5, <1>6, <1>7, <2>1, <2>2, <3>2, <3>3
  <2> QED
    BY <2>1, <2>3, <2>4
<1> QED
  BY <1>8, <1>9

\* The address of an i-node, cut into a sector and an offset in it.
LEMMA AddressCut ==
  ASSUME NEW t \in Nat, NEW i \in Nat
  PROVE  ((t * 1024 + i) \div 512) * 512 + (i - (i \div 512) * 512) = t * 1024 + i
<1> DEFINE q == i \div 512
           r == i % 512
<1>1. q \in Nat /\ r \in 0 .. 511 /\ i = 512 * q + r
  BY DivMod
<1> HIDE DEF q, r
<1>2. t * 1024 + i = 512 * (2 * t + q) + r /\ 2 * t + q \in Nat
  BY <1>1
<1>3. (t * 1024 + i) \div 512 = 2 * t + q
  <2>1. (512 * (2 * t + q) + r) \div 512 = 2 * t + q
    BY <1>1, <1>2, DivModUnique
  <2> QED
    BY <1>2, <2>1
<1> QED
  BY <1>1, <1>2, <1>3 DEF q

\* The group of an i-node and its place in the table of the group.
LEMMA GroupPlace ==
  ASSUME egeom \in Geometries, NEW number \in 1 .. egeom.groups * egeom.ipg
  PROVE  /\ GroupOf(number) \in Nat /\ GroupOf(number) < egeom.groups
         /\ GroupOf(number) = (number - 1) \div egeom.ipg
         /\ (number - 1) % egeom.ipg \in Nat
         /\ number - GroupOf(number) * egeom.ipg - 1 = (number - 1) % egeom.ipg
<1> DEFINE p == egeom.ipg
           g == egeom.groups
           q == (number - 1) \div p
           r == (number - 1) % p
<1>1. p \in Nat \ {0} /\ g \in Nat \ {0} /\ number \in Nat \ {0} /\ number <= g * p
  BY GeometryIs
<1>2. GroupOf(number) = q
  BY DEF GroupOf
<1> HIDE DEF p, g
<1>3. q \in Nat /\ r \in 0 .. p - 1 /\ number - 1 = p * q + r
  <2>1. number - 1 \in Nat
    BY <1>1
  <2> QED
    BY <1>1, <2>1, DivMod
<1> HIDE DEF q, r
<1>4. q < g
  <2>1. ASSUME q >= g PROVE FALSE
    <3>1. p * q >= g * p
      BY <1>1, <1>3, <2>1
    <3> QED
      BY <1>1, <1>3, <3>1
  <2> QED
    BY <1>1, <1>3, <2>1
<1>5. number - q * p - 1 = r
  BY <1>1, <1>3
<1> QED
  BY <1>2, <1>3, <1>4, <1>5 DEF p, g, q, r

\* ext2_get_inode reads the i-node where the disk has it.
LEMMA InodeFound ==
  ASSUME Ext2Inv, NEW n \in 0 .. egeom.groups * egeom.ipg, ext2_get_inode(n)
  PROVE  Ext2InodeRight'
<1> DEFINE number == IF n = 0 THEN EXT2_ROOT_INO ELSE n
           g == GroupOf(number)
           iblk == (number - g * egeom.ipg - 1) * InodeSize
           addr == GroupBlock(g) * get_block_size + iblk
           place == TableBlock(g) * BlockBytes + ((number - 1) % egeom.ipg) * InodeSize
<1>1. /\ egeom \in Geometries /\ edrv = Driver
      /\ egeom' = egeom /\ edrv' = edrv
      /\ einode' = [number |-> number, sector |-> (addr % Ext2W) \div SECTOR_SIZE,
                    offset |-> iblk - (iblk \div SECTOR_SIZE) * SECTOR_SIZE]
  BY DEF Ext2Inv, ext2_get_inode
<1>2. number \in 1 .. egeom.groups * egeom.ipg
  BY <1>1, GeometryIs DEF EXT2_ROOT_INO
<1>3. /\ g \in Nat /\ g < egeom.groups /\ g = (number - 1) \div egeom.ipg
      /\ (number - 1) % egeom.ipg \in Nat
      /\ iblk = ((number - 1) % egeom.ipg) * InodeSize
  <2> HIDE DEF number
  <2> QED
    BY <1>1, <1>2, GroupPlace
<1>4. /\ einode'.number = number
      /\ einode'.sector = (addr % Ext2W) \div SECTOR_SIZE
      /\ einode'.offset = iblk - (iblk \div SECTOR_SIZE) * SECTOR_SIZE
  BY <1>1
<1>5. ASSUME egeom.log = 0, Reached(g), place < Ext2W
      PROVE  /\ einode'.sector * SECTOR_SIZE + einode'.offset = place
             /\ g < edrv.n_groups
  <2>1. g < edrv.n_groups
    BY <1>1, <1>3, GroupsCounted, GeometryIs
  <2>2. GroupBlock(g) = TableBlock(g) /\ TableBlock(g) \in Nat
    BY <1>1, <1>3, <1>5, TablesFound
  <2>3. get_block_size = 1024 /\ BlockBytes = 1024
    BY <1>1, <1>5, BlockSizes
  <2>4. iblk \in Nat
    BY <1>3 DEF InodeSize
  <2>5. addr = place /\ place = TableBlock(g) * 1024 + iblk
    BY <1>3, <2>2, <2>3
  <2> HIDE DEF iblk, addr, place
  <2>6. place \in Nat /\ addr % Ext2W = place
    BY <1>5, <2>2, <2>4, <2>5, Ext2Assumption, ModLow
  <2>7. (place \div 512) * 512 + (iblk - (iblk \div 512) * 512) = place
    <3> DEFINE t == TableBlock(g)
    <3>1. t \in Nat /\ place = t * 1024 + iblk
      BY <2>2, <2>5
    <3> HIDE DEF t
    <3> QED
      BY <2>4, <3>1, AddressCut
  <2> QED
    BY <1>4, <2>1, <2>6, <2>7 DEF SECTOR_SIZE
<1>6. g = (einode'.number - 1) \div egeom'.ipg
  BY <1>1, <1>3, <1>4
<1>7. place = TableBlock(g) * BlockBytes + ((einode'.number - 1) % egeom'.ipg) * InodeSize
  BY <1>1, <1>4
<1> HIDE DEF number, g, iblk, addr, place
<1> QED
  BY <1>1, <1>5, <1>6, <1>7
  DEF Ext2InodeRight, Reached, TableBlock, IsBackup, IsPower, BlockBytes

\* Where vfs_bmap looks for the first thirteen blocks of a file.
FileBlock(i) ==
    IF i < VFS_NDIR_BLOCKS THEN InitBlock(i)
    ELSE Indirect(InitBlock(VFS_NDIR_BLOCKS), i - VFS_NDIR_BLOCKS)

\* vfs_bmap gives them.
LEMMA BmapIs ==
  ASSUME egeom \in Geometries, NEW i \in 0 .. 12
  PROVE  vfs_bmap(i * get_block_size) = FileBlock(i)
<1> DEFINE bs == get_block_size
           n == bs \div 4
           l == Level(i, n)
           index == (i * bs - (VFS_NDIR_BLOCKS + _ipow(n, l - 1) * bs)) \div (n * bs)
<1>1. bs \in {1024, 2048, 4096}
  BY BlockSizes
<1>2. (i * bs) \div bs = i /\ n \in {256, 512, 1024}
  BY <1>1
<1>3. vfs_bmap(i * bs) =
        IF l = 0 THEN InitBlock(i) ELSE WalkDown(InitBlock(VFS_NDIR_BLOCKS + l - 1), index, l)
  <2> HIDE DEF bs
  <2> QED
    BY <1>2 DEF vfs_bmap, bs
<1>4. CASE i < 12
  <2>1. l = 0
    BY <1>4 DEF Level, VFS_NDIR_BLOCKS
  <2> QED
    BY <1>3, <1>4, <2>1 DEF FileBlock, VFS_NDIR_BLOCKS
<1>5. CASE i = 12
  <2>1. l = 1
    BY <1>2, <1>5 DEF Level, VFS_NDIR_BLOCKS
  <2>2. _ipow(n, l - 1) = 1
    BY <2>1 DEF _ipow
  <2>3. index = (12 * bs - (12 + bs)) \div (n * bs)
    BY <1>1, <1>5, <2>2 DEF VFS_NDIR_BLOCKS
  <2>4. index = 0
    BY <1>1, <2>3
  <2> HIDE DEF l, index
  <2>5. ASSUME NEW b \in Int PROVE WalkDown(b, 0, 1) = Indirect(b, 0)
    <3> DEFINE eqn(g) == g = [k \in 0 .. 1 |-> IF k = 0 THEN b ELSE Indirect(g[k - 1], 0)]
               walk == CHOOSE g : eqn(g)
               w == [k \in 0 .. 1 |-> IF k = 0 THEN b ELSE Indirect(b, 0)]
    <3>1. eqn(w)
      <4>1. ASSUME NEW k \in 0 .. 1
            PROVE  w[k] = IF k = 0 THEN b ELSE Indirect(w[k - 1], 0)
        OBVIOUS
      <4>2. w = [k \in 0 .. 1 |-> w[k]]
        OBVIOUS
      <4> HIDE DEF w
      <4> QED
        BY <4>1, <4>2
    <3>2. eqn(walk)
      BY <3>1, Zenon
    <3>3. WalkDown(b, 0, 1) = walk[1]
      BY Zenon DEF WalkDown
    <3> HIDE DEF walk
    <3>4. walk[0] = b /\ walk[1] = Indirect(walk[0], 0)
      BY <3>2
    <3> QED
      BY <3>3, <3>4
  <2>6. InitBlock(12) \in Int /\ VFS_NDIR_BLOCKS + l - 1 = 12
    BY <2>1 DEF InitBlock, VFS_NDIR_BLOCKS
  <2> QED
    BY <1>3, <1>5, <2>1, <2>4, <2>5, <2>6 DEF FileBlock, VFS_NDIR_BLOCKS
<1> QED
  BY <1>4, <1>5

\* init is loaded from its sectors.
LEMMA InitFound ==
  ASSUME Ext2Inv, NEW fblocks \in FileBlocks, LoadInit(fblocks)
  PROVE  InitLoaded'
<1> DEFINE bs == get_block_size
           m == Spb
           s == [i \in 1 .. fblocks |-> ext2_get_fs_block(vfs_bmap((i - 1) * bs))]
           T == UNION {{s[i][j] : j \in 1 .. m} : i \in 1 .. fblocks}
<1>1. /\ egeom \in Geometries /\ edrv = Driver /\ fblocks \in Nat
      /\ egeom' = egeom /\ efile' = FlattenSeq(s)
  BY Ext2Assumption DEF Ext2Inv, LoadInit
<1>2. m \in {2, 4, 8} /\ m = BlockBytes \div SECTOR_SIZE /\ edrv.block_size = m
  BY <1>1, BlockSizes DEF Driver
<1>3. ASSUME NEW i \in 1 .. fblocks
      PROVE  s[i] = [j \in 1 .. m |-> vfs_bmap((i - 1) * bs) * m + j - 1]
  BY <1>2 DEF ext2_get_fs_block, Spb
<1>4. s \in [1 .. fblocks -> [1 .. m -> T]]
  <2>1. ASSUME NEW i \in 1 .. fblocks PROVE s[i] \in [1 .. m -> T]
    <3> DEFINE u == [j \in 1 .. m |-> vfs_bmap((i - 1) * bs) * m + j - 1]
    <3>1. s[i] = u /\ \A j \in 1 .. m : s[i][j] \in T
      <4> HIDE DEF s, u
      <4> QED
        BY <1>3 DEF u
    <3>2. u \in [1 .. m -> T]
      <4> HIDE DEF s, T
      <4> QED
        BY <3>1
    <3> QED
      BY <3>1, <3>2
  <2> HIDE DEF T, m
  <2> QED
    BY <2>1
<1> HIDE DEF s, T, m, bs
<1>5. /\ efile' \in Seq(T) /\ Len(efile') = m * fblocks
      /\ \A k \in 1 .. m * fblocks : efile'[k] = s[((k - 1) \div m) + 1][((k - 1) % m) + 1]
  <2>1. fblocks \in Nat /\ m \in Nat \ {0}
    BY <1>1, <1>2
  <2>2. PartsJoined(FlattenSeq(s), s, fblocks, m, T)
    BY <1>4, <2>1, FlattenEqual
  <2> QED
    BY <1>1, <2>2, Zenon DEF PartsJoined
<1>6. ASSUME Len(efile') <= 13 * m, NEW k \in DOMAIN efile'
      PROVE  efile'[k] = FileBlock((k - 1) \div m) * m + ((k - 1) % m)
  <2> DEFINE i == (k - 1) \div m
             r == (k - 1) % m
  <2>1. k \in 1 .. m * fblocks /\ k - 1 \in Nat
    BY <1>1, <1>2, <1>5
  <2>2. i \in Nat /\ r \in 0 .. m - 1 /\ k - 1 = m * i + r
    <3>1. m \in Nat \ {0}
      BY <1>2
    <3> QED
      BY <2>1, <3>1, DivMod, Zenon
  <2>3. efile'[k] = s[i + 1][r + 1]
    BY <1>5, <2>1
  <2> HIDE DEF i, r
  <2>4. i \in 0 .. 12 /\ i + 1 \in 1 .. fblocks
    <3>0. k <= m * fblocks /\ m * fblocks <= 13 * m /\ k \in Int
      BY <1>1, <1>2, <1>5, <1>6, <2>1
    <3>1. CASE m = 2
      BY <1>1, <2>2, <3>0, <3>1
    <3>2. CASE m = 4
      BY <1>1, <2>2, <3>0, <3>2
    <3>3. CASE m = 8
      BY <1>1, <2>2, <3>0, <3>3
    <3> QED
      BY <1>2, <3>1, <3>2, <3>3
  <2>5. vfs_bmap(i * bs) = FileBlock(i)
    BY <1>1, <2>4, BmapIs DEF bs
  <2>6. FileBlock(i) \in Int
    BY <2>4 DEF FileBlock, InitBlock, Indirect, VFS_NDIR_BLOCKS
  <2>7. (i + 1) - 1 = i /\ r + 1 \in 1 .. m /\ r \in Int
    BY <1>2, <2>2
  <2>8. s[i + 1] = [j \in 1 .. m |-> FileBlock(i) * m + j - 1]
    BY <1>3, <2>4, <2>5, <2>7
  <2>9. s[i + 1][r + 1] = FileBlock(i) * m + (r + 1) - 1
    BY <2>7, <2>8
  <2>10. efile'[k] = FileBlock(i) * m + r
    BY <1>2, <2>3, <2>6, <2>7, <2>9
  <2> QED
    BY <2>10 DEF i, r
<1>7. m = BlockBytes' \div SECTOR_SIZE
  BY <1>1, <1>2 DEF BlockBytes
<1> QED
  BY <1>6, <1>7 DEF InitLoaded, FileBlock, VFS_NDIR_BLOCKS, InitBlock, Indirect

\* Every step keeps the driver and what it has read right.
LEMMA Ext2Step == ASSUME Ext2Inv, [Ext2Next]_ext2Vars PROVE Ext2Inv'
<1>1. ASSUME egeom' = egeom PROVE Driver' = Driver /\ BlockBytes' = BlockBytes
  BY <1>1 DEF Driver, Spb, get_block_size, div_rup, ReadDescriptor, GroupSector,
              DescriptorSector, TableBlock, IsBackup, IsPower, BlockBytes
<1>2. ASSUME egeom' = egeom, edrv' = edrv, einode' = einode PROVE Ext2InodeRight'
  BY <1>2 DEF Ext2Inv, Ext2Right, Ext2InodeRight, Reached, TableBlock, IsBackup, IsPower,
              BlockBytes
<1>3. ASSUME egeom' = egeom, efile' = efile PROVE InitLoaded'
  BY <1>3 DEF Ext2Inv, Ext2Right, InitLoaded, BlockBytes
<1>4. ASSUME NEW ok \in BOOLEAN, ext2_get_sb(ok) PROVE Ext2Inv'
  <2>1. /\ emount = "no" /\ edrv' = IF emount' = "yes" THEN Driver ELSE NoDriver
        /\ egeom' = egeom /\ einode' = einode /\ efile' = efile
    BY <1>4 DEF ext2_get_sb, Driver, Spb
  <2>2. einode' = NoInode /\ efile' = <<>>
    BY <2>1 DEF Ext2Inv
  <2>3. Ext2InodeRight'
    BY <2>2 DEF Ext2InodeRight
  <2>4. InitLoaded'
    BY <1>3, <2>1
  <2> QED
    BY <1>1, <2>1, <2>2, <2>3, <2>4 DEF Ext2Inv, Ext2Right, NoInode, NoDriver
<1>5. ASSUME NEW n \in 0 .. egeom.groups * egeom.ipg, ext2_get_inode(n) PROVE Ext2Inv'
  <2>1. /\ emount = "yes" /\ emount' = emount /\ edrv' = edrv /\ egeom' = egeom /\ efile' = efile
    BY <1>5 DEF ext2_get_inode
  <2>2. Ext2InodeRight' /\ InitLoaded'
    BY <1>3, <1>5, <2>1, InodeFound
  <2> QED
    BY <1>1, <2>1, <2>2 DEF Ext2Inv, Ext2Right, NoDriver
<1>6. ASSUME NEW fblocks \in FileBlocks, LoadInit(fblocks) PROVE Ext2Inv'
  <2>1. /\ emount = "yes" /\ emount' = emount /\ edrv' = edrv /\ egeom' = egeom /\ einode' = einode
    BY <1>6 DEF LoadInit
  <2>2. Ext2InodeRight' /\ InitLoaded'
    BY <1>2, <1>6, <2>1, InitFound
  <2> QED
    BY <1>1, <2>1, <2>2 DEF Ext2Inv, Ext2Right, NoDriver
<1>7. CASE UNCHANGED ext2Vars
  <2>1. egeom' = egeom /\ edrv' = edrv /\ emount' = emount /\ einode' = einode /\ efile' = efile
    BY <1>7 DEF ext2Vars
  <2>2. Ext2InodeRight' /\ InitLoaded'
    BY <1>2, <1>3, <2>1
  <2> QED
    BY <1>1, <2>1, <2>2 DEF Ext2Inv, Ext2Right, NoDriver, NoInode
<1> QED
  BY <1>4, <1>5, <1>6, <1>7 DEF Ext2Next

\* For every disk of the layouts that get_block_size knows, any number and
\* size of groups and any sequence of reads: an i-node (ext2.c:187) and the
\* blocks of a file (vfs.c:404) are read where the disk has them, within the
\* limits that Ext2InodeRight and InitLoaded name.
THEOREM Ext2ReadsRight == Ext2Spec => []Ext2Right
<1>1. Ext2Init => Ext2Inv
  BY DEF Ext2Init, Ext2Inv, Ext2Right, Ext2InodeRight, InitLoaded
<1>2. Ext2Inv /\ [Ext2Next]_ext2Vars => Ext2Inv'
  BY Ext2Step
<1>3. Ext2Inv => Ext2Right
  BY DEF Ext2Inv
<1> QED
  BY <1>1, <1>2, <1>3, PTL DEF Ext2Spec
=============================================================================
