----------------------------- MODULE AtaProofs -----------------------------
(***************************************************************************)
(* The master device of an ATA bus is driven correctly for any number of   *)
(* processes and blocks, until something happens that the code does not    *)
(* cope with (spoiled): a failed allocation, a refused address, a write    *)
(* that fails or is started from the queue on a wrong device, two merged   *)
(* interrupts.  Probing finds and registers the disks of any board.        *)
(***************************************************************************)
EXTENDS Ata, AtaProbe, Residues, SequenceTheorems, FiniteSetTheorems, TLAPS

Requests == [op : {"read", "write"}, buf : Bufs]

Kinds == {"done", "flush"}

Drives == [reading : Bufs \cup {None}, ready : BOOLEAN, irqs : Seq(Kinds)]

Q == blk_queue[0]

\* The interrupts s begin with that of a flush exactly when it is to be
\* discarded (disc); n more belong to the request in progress.
Shape(s, disc, n) ==
    /\ Len(s) = (IF disc THEN 1 ELSE 0) + n
    /\ disc => s[1] = "flush"
    /\ n >= 1 => s[(IF disc THEN 1 ELSE 0) + 1] = "done"
    /\ n >= 2 => s[(IF disc THEN 1 ELSE 0) + 2] = "flush"

\* What the drive v does belongs to the head of the queue q.
BusOK(q, v, disc, srv) ==
    /\ q = <<>> => v.reading = None /\ ~v.ready /\ Shape(v.irqs, disc, 0)
    /\ q # <<>> /\ Head(q).op = "read" =>
          v.reading = Head(q).buf /\ Shape(v.irqs, disc, IF v.ready THEN 1 ELSE 0)
    /\ q # <<>> /\ Head(q).op = "write" =>
          v.reading = None /\ ~v.ready /\ Shape(v.irqs, disc, 2) /\ srv[Head(q).buf]

Answered == \A b \in Bufs : status[b] = "VALID" => served[b]

\* Queued blocks are busy, readable, and different.
QueueBusy == \A i \in DOMAIN Q : status[Q[i].buf] = "BUSY" /\ Good(Q[i].buf)

QueueDistinct == \A i, j \in DOMAIN Q : Q[i].buf = Q[j].buf => i = j

Sound ==
    /\ TypeOK /\ ~fault /\ Answered
    /\ BusOK(Q, drive, discard_irq, served)
    /\ QueueBusy /\ QueueDistinct

\* The inductive invariant.
AtaInv == ~spoiled => Sound

----------------------------------------------------------------------------
\* What happens to the sequence of interrupts: a flush is discarded, a read
\* becomes ready, a completion is delivered, a write is sent.
LEMMA ShapeDiscard ==
  ASSUME NEW s \in Seq(Kinds), NEW n \in 0 .. 2, Shape(s, TRUE, n)
  PROVE  Tail(s) \in Seq(Kinds) /\ Shape(Tail(s), FALSE, n)
<1>1. s # <<>> /\ Len(s) = 1 + n
  BY DEF Shape
<1>2. /\ Tail(s) \in Seq(Kinds) /\ Len(Tail(s)) = n
      /\ \A i \in 1 .. n : Tail(s)[i] = s[i + 1]
  BY <1>1, HeadTailProperties
<1> QED
  BY <1>2 DEF Shape

\* The drive's completion of a read joins the interrupts outstanding.
LEMMA ShapeReady ==
  ASSUME NEW s \in Seq(Kinds), NEW disc \in BOOLEAN, Shape(s, disc, 0)
  PROVE  Append(s, "done") \in Seq(Kinds) /\ Shape(Append(s, "done"), disc, 1)
<1> DEFINE t == Append(s, "done")
<1>1. Len(s) \in Nat
  BY LenProperties
<1>2. /\ t \in Seq(Kinds) /\ Len(t) = Len(s) + 1
      /\ \A i \in 1 .. Len(s) : t[i] = s[i]
      /\ t[Len(s) + 1] = "done"
  BY <1>1 DEF Kinds
<1> HIDE DEF t
<1>3. CASE disc
  <2>1. Len(s) = 1 /\ s[1] = "flush"
    BY <1>3 DEF Shape
  <2>2. Len(t) = 2 /\ t[1] = "flush" /\ t[2] = "done"
    BY <1>2, <2>1
  <2> QED
    BY <1>2, <1>3, <2>2 DEF Shape, t
<1>4. CASE ~disc
  BY <1>2, <1>4 DEF Shape, t
<1> QED
  BY <1>3, <1>4

\* The completion of a read is taken: nothing is left but what the flag knows.
LEMMA ShapeReadDone ==
  ASSUME NEW s \in Seq(Kinds), Shape(s, FALSE, 1)
  PROVE  Tail(s) \in Seq(Kinds) /\ Shape(Tail(s), FALSE, 0)
<1>1. s # <<>> /\ Len(s) = 1
  BY DEF Shape
<1>2. Tail(s) \in Seq(Kinds) /\ Len(Tail(s)) = 0
  BY <1>1, HeadTailProperties
<1> QED
  BY <1>2 DEF Shape

\* The completion of a write is taken: its flush is left, and discard_irq is set.
LEMMA ShapeWriteDone ==
  ASSUME NEW s \in Seq(Kinds), Shape(s, FALSE, 2)
  PROVE  Tail(s) \in Seq(Kinds) /\ Shape(Tail(s), TRUE, 0)
<1>1. s # <<>> /\ Len(s) = 2 /\ s[2] = "flush"
  BY DEF Shape
<1>2. /\ Tail(s) \in Seq(Kinds) /\ Len(Tail(s)) = 1
      /\ \A i \in 1 .. 1 : Tail(s)[i] = s[i + 1]
  BY <1>1, HeadTailProperties
<1> QED
  BY <1>1, <1>2 DEF Shape

\* A write adds its completion and its flush.
LEMMA ShapeWrite ==
  ASSUME NEW s \in Seq(Kinds), NEW disc \in BOOLEAN, Shape(s, disc, 0)
  PROVE  /\ s \o <<"done", "flush">> \in Seq(Kinds)
         /\ Shape(s \o <<"done", "flush">>, disc, 2)
<1> DEFINE w == <<"done", "flush">>
<1>1. w \in Seq(Kinds) /\ Len(w) = 2 /\ w[1] = "done" /\ w[2] = "flush"
  BY DEF Kinds
<1> HIDE DEF w
<1>2. /\ s \o w \in Seq(Kinds) /\ Len(s \o w) = Len(s) + 2
      /\ \A i \in 1 .. Len(s) + 2 :
            (s \o w)[i] = IF i <= Len(s) THEN s[i] ELSE w[i - Len(s)]
  <2>1. Len(s) + Len(w) = Len(s) + 2
    BY <1>1
  <2>2. /\ s \o w \in Seq(Kinds) /\ Len(s \o w) = Len(s) + Len(w)
        /\ \A i \in 1 .. Len(s) + Len(w) :
              (s \o w)[i] = IF i <= Len(s) THEN s[i] ELSE w[i - Len(s)]
    BY <1>1, ConcatProperties, Zenon
  <2> QED
    BY <2>1, <2>2
<1>3. CASE disc
  <2>1. Len(s) = 1 /\ s[1] = "flush"
    BY <1>3 DEF Shape
  <2>2. /\ (s \o w)[1] = "flush" /\ (s \o w)[2] = "done" /\ (s \o w)[3] = "flush"
        /\ Len(s \o w) = 3
    BY <1>1, <1>2, <2>1
  <2> QED
    BY <1>2, <1>3, <2>2 DEF Shape, w
<1>4. CASE ~disc
  <2>1. Len(s) = 0
    BY <1>4 DEF Shape
  <2>2. (s \o w)[1] = "done" /\ (s \o w)[2] = "flush" /\ Len(s \o w) = 2
    BY <1>1, <1>2, <2>1
  <2> QED
    BY <1>2, <1>4, <2>2 DEF Shape, w
<1> QED
  BY <1>3, <1>4

\* A shaped sequence is not empty when something is to be delivered, and its
\* first interrupt is a flush exactly when it will be discarded.
LEMMA ShapeHead ==
  ASSUME NEW s \in Seq(Kinds), NEW disc \in BOOLEAN, NEW n \in 0 .. 2, Shape(s, disc, n)
  PROVE  /\ s # <<>> <=> disc \/ n # 0
         /\ disc <=> s # <<>> /\ Head(s) = "flush"
  BY DEF Shape

----------------------------------------------------------------------------
\* The types that the steps below use.
LEMMA Types ==
  ASSUME TypeOK
  PROVE  /\ Q \in Seq(Requests)
         /\ drive.irqs \in Seq(Kinds) /\ drive.ready \in BOOLEAN
         /\ drive.reading \in Bufs \cup {None}
         /\ drive = [reading |-> drive.reading, ready |-> drive.ready, irqs |-> drive.irqs]
  BY DEF TypeOK, Requests, Kinds, Q

\* The head of a queue that is not empty reads or writes one of the blocks.
LEMMA HeadRequest ==
  ASSUME TypeOK, Q # <<>>
  PROVE  /\ Head(Q) \in Requests /\ Head(Q).op \in {"read", "write"}
         /\ Head(Q).buf \in Bufs
<1>1. Head(Q) \in Requests
  <2>1. Q \in Seq(Requests)
    BY Types
  <2> QED
    BY <2>1, HeadTailProperties
<1> QED
  BY <1>1 DEF Requests

\* Drive and history after a command that goes as it should.
Sent(v, r) ==
    IF r.op = "read" THEN read_hd_sector(v, r.buf)
    ELSE [v EXCEPT !.irqs = @ \o <<"done", "flush">>]

Noted(s, r) == IF r.op = "read" THEN s ELSE [s EXCEPT ![r.buf] = TRUE]

\* A write that is clean was sent to its own device and is answered by two
\* interrupts.
LEMMA CleanWrite ==
  ASSUME NEW device, NEW w \in write_hd_sector(device), w.clean
  PROVE  w.irqs = <<"done", "flush">> /\ w.written = TRUE
<1>1. device # "none"
  BY DEF write_hd_sector
<1>2. PICK a \in Answers : \E q \in WriteIrqs[a] :
        w = [irqs |-> q, written |-> device = "own" /\ a # "failed",
             clean |-> device = "own" /\ a = "separate"]
  BY <1>1 DEF write_hd_sector
<1>3. PICK q \in WriteIrqs[a] :
        w = [irqs |-> q, written |-> device = "own" /\ a # "failed",
             clean |-> device = "own" /\ a = "separate"]
  BY <1>2, Zenon
<1>3a. /\ w.irqs = q /\ w.written = (device = "own" /\ a # "failed")
       /\ w.clean = (device = "own" /\ a = "separate")
  BY <1>3, Zenon
<1>4. a = "separate" /\ device = "own"
  BY <1>3a, Zenon
<1>5. w.irqs = <<"done", "flush">>
  BY <1>3, <1>3a, <1>4 DEF WriteIrqs
<1>6. w.written = (device = "own" /\ a # "failed") /\ "separate" # "failed"
  BY <1>3a
<1> QED
  BY <1>4, <1>5, <1>6

\* What a write leads to is a sequence of interrupts and two flags.
LEMMA WriteTypes ==
  ASSUME NEW device, NEW w \in write_hd_sector(device)
  PROVE  w.irqs \in Seq(Kinds) /\ w.written \in BOOLEAN /\ w.clean \in BOOLEAN
<1>1. CASE device = "none"
  <2>1. w = [irqs |-> <<>>, written |-> FALSE, clean |-> FALSE]
    BY <1>1, Zenon DEF write_hd_sector
  <2>2. w.irqs = <<>> /\ w.written = FALSE /\ w.clean = FALSE
    BY <2>1, Zenon
  <2>3. <<>> \in Seq(Kinds)
    OBVIOUS
  <2> QED
    BY <2>2, <2>3, Zenon
<1>2. CASE device # "none"
  <2>1. PICK a \in Answers : \E q \in WriteIrqs[a] :
          w = [irqs |-> q, written |-> device = "own" /\ a # "failed",
               clean |-> device = "own" /\ a = "separate"]
    BY <1>2 DEF write_hd_sector
  <2>2. \A q \in WriteIrqs[a] : q \in {<<"done", "flush">>, <<"done">>, <<>>}
    BY AtaAssumption DEF AllAnswers, WriteIrqs
  <2>3. /\ <<"done", "flush">> \in Seq(Kinds) /\ <<"done">> \in Seq(Kinds)
        /\ <<>> \in Seq(Kinds)
    BY DEF Kinds
  <2>4. PICK q \in WriteIrqs[a] :
          w = [irqs |-> q, written |-> device = "own" /\ a # "failed",
               clean |-> device = "own" /\ a = "separate"]
    BY <2>1, Zenon
  <2>4a. /\ w.irqs = q /\ w.written = (device = "own" /\ a # "failed")
         /\ w.clean = (device = "own" /\ a = "separate")
    BY <2>4, Zenon
  <2>5. w.irqs \in Seq(Kinds)
    BY <2>2, <2>3, <2>4, <2>4a
  <2> QED
    BY <2>4a, <2>5, Zenon
<1> QED
  BY <1>1, <1>2

\* A clean start is the one that Sent and Noted describe.
LEMMA CleanStart ==
  ASSUME NEW v, NEW s, NEW r, NEW devices, NEW o \in Starts(v, s, r, devices), o.clean
  PROVE  o.drive = Sent(v, r) /\ o.served = Noted(s, r)
<1>1. CASE r.op = "read"
  BY <1>1 DEF Starts, Sent, Noted
<1>2. CASE r.op # "read"
  <2>0. PICK d \in devices : \E w \in write_hd_sector(d) :
          o = [drive |-> [v EXCEPT !.irqs = @ \o w.irqs],
               served |-> [s EXCEPT ![r.buf] = w.written], clean |-> w.clean]
    BY <1>2 DEF Starts
  <2>1. PICK w \in write_hd_sector(d) :
          o = [drive |-> [v EXCEPT !.irqs = @ \o w.irqs],
               served |-> [s EXCEPT ![r.buf] = w.written], clean |-> w.clean]
    BY <2>0
  <2>2. w.irqs = <<"done", "flush">> /\ w.written = TRUE
    BY <2>1, CleanWrite
  <2> QED
    BY <1>2, <2>1, <2>2 DEF Sent, Noted
<1> QED
  BY <1>1, <1>2

\* However a command goes, a drive stays a drive.
LEMMA StartTypes ==
  ASSUME NEW v \in Drives, NEW s \in [Bufs -> BOOLEAN], NEW r \in Requests,
         NEW devices, NEW o \in Starts(v, s, r, devices)
  PROVE  o.drive \in Drives /\ o.served \in [Bufs -> BOOLEAN] /\ o.clean \in BOOLEAN
<1>1. CASE r.op = "read"
  <2>1. o = [drive |-> read_hd_sector(v, r.buf), served |-> s, clean |-> TRUE]
    BY <1>1, Zenon DEF Starts
  <2>2. o.drive = read_hd_sector(v, r.buf) /\ o.served = s /\ o.clean = TRUE
    BY <2>1, Zenon
  <2>3. read_hd_sector(v, r.buf) \in Drives
    BY DEF read_hd_sector, Drives, Requests
  <2> QED
    BY <2>2, <2>3, Zenon
<1>2. CASE r.op # "read"
  <2>0. PICK d \in devices : \E w \in write_hd_sector(d) :
          o = [drive |-> [v EXCEPT !.irqs = @ \o w.irqs],
               served |-> [s EXCEPT ![r.buf] = w.written], clean |-> w.clean]
    BY <1>2 DEF Starts
  <2>1. PICK w \in write_hd_sector(d) :
          o = [drive |-> [v EXCEPT !.irqs = @ \o w.irqs],
               served |-> [s EXCEPT ![r.buf] = w.written], clean |-> w.clean]
    BY <2>0
  <2>2. w.irqs \in Seq(Kinds) /\ w.written \in BOOLEAN /\ w.clean \in BOOLEAN
    BY WriteTypes
  <2>3. v.irqs \o w.irqs \in Seq(Kinds)
    BY <2>2, ConcatProperties DEF Drives
  <2> QED
    BY <2>1, <2>2, <2>3 DEF Drives, Requests
<1> QED
  BY <1>1, <1>2

\* The drive v, and served = s, after the command of request r, the head of
\* the queue q.
Started(v, r, disc, s, q) ==
    /\ Sent(v, r) \in Drives
    /\ Noted(s, r) \in [Bufs -> BOOLEAN]
    /\ \A b \in Bufs : s[b] => Noted(s, r)[b]
    /\ BusOK(q, Sent(v, r), disc, Noted(s, r))

\* A request sent to an idle drive is started as BusOK wants it.
LEMMA SentOK ==
  ASSUME NEW r \in Requests, Good(r.buf), NEW v \in Drives, NEW disc \in BOOLEAN,
         v.reading = None, ~v.ready, Shape(v.irqs, disc, 0),
         NEW s \in [Bufs -> BOOLEAN], NEW q, q # <<>>, Head(q) = r
  PROVE  Started(v, r, disc, s, q)
<1> USE DEF Started
<1>1. CASE r.op = "read"
  <2>1. /\ Sent(v, r).reading = r.buf /\ Sent(v, r).ready = FALSE
        /\ Sent(v, r).irqs = v.irqs
        /\ Sent(v, r) \in Drives
    BY <1>1 DEF Sent, read_hd_sector, Good, Requests, Drives
  <2>2. Noted(s, r) = s
    BY <1>1 DEF Noted
  <2> QED
    BY <1>1, <2>1, <2>2 DEF BusOK
<1>2. CASE r.op = "write"
  <2> DEFINE w == v.irqs \o <<"done", "flush">>
  <2>1. w \in Seq(Kinds) /\ Shape(w, disc, 2)
    BY ShapeWrite DEF Drives
  <2>2. Sent(v, r) = [v EXCEPT !.irqs = w]
    BY <1>2 DEF Sent
  <2> HIDE DEF w
  <2>3. /\ Sent(v, r).reading = None /\ Sent(v, r).ready = FALSE /\ Sent(v, r).irqs = w
        /\ Sent(v, r) \in Drives
    BY <2>1, <2>2 DEF Drives
  <2>4. Noted(s, r) = [s EXCEPT ![r.buf] = TRUE] /\ r.buf \in Bufs
    BY <1>2 DEF Noted, Requests
  <2>5. /\ Noted(s, r) \in [Bufs -> BOOLEAN] /\ Noted(s, r)[r.buf]
        /\ \A b \in Bufs : s[b] => Noted(s, r)[b]
    BY <2>4
  <2> QED
    BY <1>2, <2>1, <2>3, <2>5 DEF BusOK
<1> QED
  BY <1>1, <1>2 DEF Requests

\* Steps of processes that do not touch queue, blocks and drive.
LEMMA QuietStep ==
  ASSUME Sound, TypeOK',
         UNCHANGED <<status, blk_queue, discard_irq, drive, fault, served, spoiled>>
  PROVE  Sound'
  BY DEF Sound, Answered, BusOK, QueueBusy, QueueDistinct, Q, Shape

\* The steps of processes that leave queue and bus alone.
LEMMA ProcessSteps ==
  ASSUME Sound,
         \/ \E p \in Procs : SyncTest(p) \/ SleepOn(p) \/ SleepReturn(p)
         \/ IrqWakeup
  PROVE  Sound'
<1>1. UNCHANGED <<status, blk_queue, discard_irq, drive, fault, served, spoiled>>
  BY DEF SyncTest, SleepOn, SleepReturn, IrqWakeup
<1>2. TypeOK'
  <2>1. at' \in [Procs -> {"out", "test", "sleep_on", "asleep"}]
    <3>1. at \in [Procs -> {"out", "test", "sleep_on", "asleep"}]
      BY DEF Sound, TypeOK
    <3>2. CASE \E p \in Procs : SyncTest(p)
      BY <3>1, <3>2 DEF SyncTest
    <3>3. CASE \E p \in Procs : SleepOn(p) \/ SleepReturn(p)
      BY <3>1, <3>3 DEF SleepOn, SleepReturn
    <3>4. CASE IrqWakeup
      BY <3>1, <3>4 DEF IrqWakeup
    <3> QED
      BY <3>2, <3>3, <3>4
  <2>2. buf' \in [Procs -> Bufs \cup {None}]
    BY DEF Sound, TypeOK, SyncTest, SleepOn, SleepReturn, IrqWakeup
  <2>3. waking' \in BOOLEAN
    BY DEF Sound, TypeOK, SyncTest, SleepOn, SleepReturn, IrqWakeup
  <2> QED
    BY <1>1, <2>1, <2>2, <2>3 DEF Sound, TypeOK
<1> QED
  BY <1>1, <1>2, QuietStep

\* The drive answers.
LEMMA DriveReadyStep == ASSUME Sound, DriveReady, ~spoiled' PROVE Sound'
<1>1. TypeOK /\ BusOK(Q, drive, discard_irq, served) /\ discard_irq \in BOOLEAN
  BY DEF Sound, TypeOK
<1>2. Q # <<>> /\ Head(Q).op = "read"
  <2>1. Q # <<>> => Head(Q).op \in {"read", "write"}
    BY <1>1, HeadRequest
  <2> QED
    BY <1>1, <2>1 DEF DriveReady, BusOK
<1>3. drive.reading = Head(Q).buf /\ Shape(drive.irqs, discard_irq, 0)
  BY <1>1, <1>2 DEF BusOK, DriveReady
<1>4. /\ Append(drive.irqs, "done") \in Seq(Kinds)
      /\ Shape(Append(drive.irqs, "done"), discard_irq, 1)
  BY <1>1, <1>3, Types, ShapeReady
<1>5. /\ drive'.reading = drive.reading /\ drive'.ready = TRUE
      /\ drive'.irqs = Append(drive.irqs, "done")
      /\ drive' \in Drives
  BY <1>1, <1>4, Types DEF DriveReady, Drives
<1>6. UNCHANGED <<status, blk_queue, discard_irq, at, buf, waking, fault, served, spoiled>>
  BY DEF DriveReady
<1>7. BusOK(Q, drive', discard_irq, served)
  BY <1>2, <1>3, <1>4, <1>5 DEF BusOK
<1>8. TypeOK'
  BY <1>1, <1>5, <1>6 DEF TypeOK, Kinds, Drives
<1>9. Q' = Q
  BY <1>6 DEF Q
<1> QED
  BY <1>6, <1>7, <1>8, <1>9 DEF Sound, Answered, QueueBusy, QueueDistinct

\* ata_handler1 ignores the interrupt of a flush.
LEMMA DiscardStep == ASSUME Sound, IrqDiscard PROVE Sound'
<1>1. TypeOK /\ BusOK(Q, drive, TRUE, served) /\ discard_irq = TRUE
  <2>1. discard_irq = TRUE
    BY DEF Sound, TypeOK, IrqDiscard
  <2> QED
    BY <2>1, Zenon DEF Sound
<1> DEFINE t == Tail(drive.irqs)
<1>2. /\ drive'.reading = drive.reading /\ drive'.ready = drive.ready /\ drive'.irqs = t
      /\ discard_irq' = FALSE
  BY <1>1, Types DEF IrqDiscard
<1>3. \A n \in 0 .. 2 : Shape(drive.irqs, TRUE, n) =>
          t \in Seq(Kinds) /\ Shape(t, FALSE, n)
  BY <1>1, Types, ShapeDiscard
<1>4. Q # <<>> => Head(Q).op \in {"read", "write"}
  BY <1>1, HeadRequest
<1> HIDE DEF t
<1>5. t \in Seq(Kinds) /\ BusOK(Q, drive', FALSE, served)
  <2>1. CASE Q = <<>>
    <3>1. t \in Seq(Kinds) /\ Shape(t, FALSE, 0)
      <4>1. Shape(drive.irqs, TRUE, 0)
        BY <1>1, <2>1, Zenon DEF BusOK
      <4>2. 0 \in 0 .. 2
        OBVIOUS
      <4> QED
        BY <1>3, <4>1, <4>2, Zenon
    <3> QED
      BY <1>1, <1>2, <2>1, <3>1 DEF BusOK
  <2>2. CASE Q # <<>> /\ Head(Q).op = "read"
    <3> DEFINE n == IF drive.ready THEN 1 ELSE 0
    <3>1. n \in 0 .. 2
      OBVIOUS
    <3>2. t \in Seq(Kinds) /\ Shape(t, FALSE, n)
      <4>1. Shape(drive.irqs, TRUE, n)
        BY <1>1, <2>2, Zenon DEF BusOK
      <4> QED
        BY <1>3, <3>1, <4>1, Zenon
    <3> QED
      BY <1>1, <1>2, <2>2, <3>2 DEF BusOK
  <2>3. CASE Q # <<>> /\ Head(Q).op = "write"
    <3>1. t \in Seq(Kinds) /\ Shape(t, FALSE, 2)
      <4>1. Shape(drive.irqs, TRUE, 2)
        BY <1>1, <2>3, Zenon DEF BusOK
      <4>2. 2 \in 0 .. 2
        OBVIOUS
      <4> QED
        BY <1>3, <4>1, <4>2, Zenon
    <3> QED
      BY <1>1, <1>2, <2>3, <3>1 DEF BusOK
  <2> QED
    BY <1>4, <2>1, <2>2, <2>3
<1>6. UNCHANGED <<status, blk_queue, at, buf, waking, fault, served, spoiled>>
  BY DEF IrqDiscard
<1>7. drive' \in Drives
  BY <1>1, <1>5, Types DEF IrqDiscard, t, Drives
<1>8. TypeOK'
  BY <1>1, <1>2, <1>6, <1>7 DEF TypeOK, Kinds, Drives
<1>9. Q' = Q
  BY <1>6 DEF Q
<1> QED
  BY <1>2, <1>5, <1>6, <1>8, <1>9
     DEF Sound, Answered, QueueBusy, QueueDistinct

\* An interrupt that is not discarded is the completion of the head of the
\* queue, and after it the drive is idle.
LEMMA Completion ==
  ASSUME Sound, Delivered, ~discard_irq
  PROVE  /\ Q # <<>>
         /\ Head(Q).op = "read" => drive.ready /\ drive.reading = Head(Q).buf
         /\ Head(Q).op = "write" =>
               drive.reading = None /\ ~drive.ready /\ served[Head(Q).buf]
         /\ Tail(drive.irqs) \in Seq(Kinds)
         /\ Shape(Tail(drive.irqs), Head(Q).op = "write", 0)
<1>1. /\ TypeOK /\ BusOK(Q, drive, FALSE, served) /\ discard_irq = FALSE
      /\ drive.irqs # <<>> /\ drive.irqs \in Seq(Kinds)
  BY Types DEF Sound, TypeOK, Delivered
<1>2. ~Shape(drive.irqs, FALSE, 0)
  BY <1>1 DEF Shape
<1>3. Q # <<>>
  BY <1>1, <1>2 DEF BusOK
<1>4. CASE Head(Q).op = "read"
  <2>1. drive.ready /\ drive.reading = Head(Q).buf /\ Shape(drive.irqs, FALSE, 1)
    BY <1>1, <1>2, <1>3, <1>4 DEF BusOK
  <2>2. Tail(drive.irqs) \in Seq(Kinds) /\ Shape(Tail(drive.irqs), FALSE, 0)
    BY <1>1, <2>1, ShapeReadDone, Zenon
  <2> QED
    BY <1>3, <1>4, <2>1, <2>2
<1>5. CASE Head(Q).op = "write"
  <2>1. /\ drive.reading = None /\ ~drive.ready /\ served[Head(Q).buf]
        /\ Shape(drive.irqs, FALSE, 2)
    BY <1>1, <1>3, <1>5 DEF BusOK
  <2>2. Tail(drive.irqs) \in Seq(Kinds) /\ Shape(Tail(drive.irqs), TRUE, 0)
    BY <1>1, <2>1, ShapeWriteDone, Zenon
  <2> QED
    BY <1>3, <1>5, <2>1, <2>2
<1> QED
  BY <1>1, <1>3, <1>4, <1>5, HeadRequest

\* ata_handler1 serves the head of the queue and sends the next request.
LEMMA ServeStep == ASSUME Sound, IrqServe, ~spoiled' PROVE Sound'
<1> DEFINE r == Head(Q)
           rest == Tail(Q)
           v == IF r.op = "read" THEN [Idle EXCEPT !.irqs = Tail(drive.irqs)]
                                 ELSE [drive EXCEPT !.irqs = Tail(@)]
           s == IF r.op = "read"
                THEN [served EXCEPT ![r.buf] = (drive.ready /\ drive.reading = r.buf)]
                ELSE served
           disc == r.op = "write"
<1>1. /\ Delivered /\ ~discard_irq
      /\ status' = [status EXCEPT ![r.buf] = "VALID"] /\ discard_irq' = disc
      /\ blk_queue' = [blk_queue EXCEPT ![0] = rest]
      /\ drive' = IF rest = <<>> THEN v ELSE Sent(v, Head(rest))
      /\ served' = IF rest = <<>> THEN s ELSE Noted(s, Head(rest))
      /\ waking' = TRUE /\ spoiled' \in BOOLEAN /\ UNCHANGED <<at, buf, fault>>
  <2>1. PICK o \in IF rest = <<>> THEN Waits(v, s)
                    ELSE Starts(v, s, Head(rest), QueuedDevice(Head(rest))) :
          drive' = o.drive /\ served' = o.served /\ spoiled' = (spoiled \/ ~o.clean)
    BY DEF IrqServe, Q
  <2>2. rest = <<>> => o.drive = v /\ o.served = s
    BY <2>1 DEF Waits
  <2>3. rest # <<>> => o.drive = Sent(v, Head(rest)) /\ o.served = Noted(s, Head(rest))
    <3> SUFFICES ASSUME rest # <<>>
                 PROVE  o.drive = Sent(v, Head(rest)) /\ o.served = Noted(s, Head(rest))
      OBVIOUS
    <3>1. o \in Starts(v, s, Head(rest), QueuedDevice(Head(rest)))
      BY <2>1
    <3>2. o.clean
      BY <2>1
    <3> HIDE DEF rest, v, s
    <3> QED
      BY <3>1, <3>2, CleanStart, Zenon
  <2>4. /\ Delivered /\ ~discard_irq
        /\ status' = [status EXCEPT ![r.buf] = "VALID"] /\ discard_irq' = disc
        /\ blk_queue' = [blk_queue EXCEPT ![0] = rest]
        /\ waking' = TRUE /\ UNCHANGED <<at, buf, fault>>
    BY DEF IrqServe, Finish, Q
  <2> QED
    BY <2>1, <2>2, <2>3, <2>4, Zenon
<1>2. /\ TypeOK /\ Q \in Seq(Requests) /\ served \in [Bufs -> BOOLEAN]
      /\ Answered /\ QueueBusy /\ QueueDistinct /\ ~fault
  BY Types DEF Sound, TypeOK
<1>3. /\ Q # <<>>
      /\ r.op = "read" => drive.ready /\ drive.reading = r.buf
      /\ r.op = "write" => drive.reading = None /\ ~drive.ready /\ served[r.buf]
      /\ Tail(drive.irqs) \in Seq(Kinds) /\ Shape(Tail(drive.irqs), disc, 0)
  BY <1>1, Completion
<1>4. r \in Requests /\ r.op \in {"read", "write"} /\ r.buf \in Bufs
  BY <1>2, <1>3, HeadRequest
<1>5. /\ rest \in Seq(Requests) /\ Len(rest) = Len(Q) - 1
      /\ \A i \in 1 .. Len(rest) : rest[i] = Q[i + 1]
      /\ Len(Q) \in Nat \ {0} /\ Q[1] = r
  <2>1. /\ rest \in Seq(Requests) /\ Len(rest) = Len(Q) - 1
        /\ \A i \in 1 .. Len(rest) : rest[i] = Q[i + 1]
    BY <1>2, <1>3, HeadTailProperties
  <2>2. Len(Q) \in Nat \ {0} /\ Q[1] = r
    BY <1>2, <1>3
  <2> QED
    BY <2>1, <2>2
<1>6. /\ v \in Drives
      /\ v.reading = None /\ ~v.ready /\ v.irqs = Tail(drive.irqs)
  <2>1. CASE r.op = "read"
    BY <1>3, <2>1 DEF Idle, Drives
  <2>2. CASE r.op = "write"
    BY <1>2, <1>3, <2>2, Types DEF Drives
  <2> QED
    BY <1>4, <2>1, <2>2
<1>7. s \in [Bufs -> BOOLEAN] /\ s[r.buf] /\ \A b \in Bufs : served[b] => s[b]
  BY <1>2, <1>3, <1>4
<1>8. disc \in BOOLEAN
  OBVIOUS
<1>9. Q' = rest
  BY <1>1, <1>2 DEF Q, TypeOK
<1> HIDE DEF r, rest, v, s, disc
<1>10. /\ drive' \in Drives
       /\ served' \in [Bufs -> BOOLEAN]
       /\ \A b \in Bufs : s[b] => served'[b]
       /\ BusOK(rest, drive', disc, served')
  <2>1. CASE rest = <<>>
    BY <1>1, <1>3, <1>6, <1>7, <2>1 DEF BusOK
  <2>2. CASE rest # <<>>
    <3>1. Head(rest) \in Requests
      BY <1>5, <2>2, HeadTailProperties
    <3>0. Good(Head(rest).buf)
      <4>1. Head(rest) = rest[1] /\ 1 \in 1 .. Len(rest) /\ rest[1] = Q[2]
        BY <1>5, <2>2
      <4>2. 2 \in DOMAIN Q
        BY <1>2, <1>5, <4>1
      <4> QED
        BY <1>2, <4>1, <4>2 DEF QueueBusy
    <3>2. Shape(v.irqs, disc, 0)
      BY <1>3, <1>6
    <3> DEFINE h == Head(rest)
    <3>3. Started(v, h, disc, s, rest)
      <4>1. h \in Requests /\ Good(h.buf) /\ rest # <<>> /\ Head(rest) = h
        BY <2>2, <3>0, <3>1
      <4>2. v \in Drives /\ v.reading = None /\ ~v.ready /\ s \in [Bufs -> BOOLEAN]
        BY <1>6, <1>7
      <4> HIDE DEF h
      <4> QED
        BY <1>8, <3>2, <4>1, <4>2, SentOK, Zenon
    <3> QED
      BY <1>1, <2>2, <3>3 DEF Started
  <2> QED
    BY <2>1, <2>2
<1>11. status' \in [Bufs -> {"UNLOCKED", "BUSY", "VALID"}]
  BY <1>1, <1>2, <1>4 DEF TypeOK
<1>12. TypeOK'
  <2>1. blk_queue' \in [0 .. 1 -> Seq(Requests)]
    BY <1>1, <1>2, <1>5 DEF TypeOK, Requests
  <2> QED
    BY <1>1, <1>2, <1>8, <1>10, <1>11, <2>1 DEF TypeOK, Requests, Kinds, Drives
<1>13. Answered'
  <2> SUFFICES ASSUME NEW b \in Bufs, status'[b] = "VALID" PROVE served'[b]
    BY DEF Answered
  <2>1. CASE b = r.buf
    BY <1>7, <1>10, <2>1
  <2>2. CASE b # r.buf
    BY <1>1, <1>2, <1>7, <1>10, <2>2 DEF Answered, TypeOK
  <2> QED
    BY <2>1, <2>2
<1>14. \A i \in 1 .. Len(rest) :
          i + 1 \in DOMAIN Q /\ rest[i] = Q[i + 1] /\ Q[i + 1].buf # r.buf
       /\ Q[i + 1].buf \in Bufs
  <2> TAKE i \in 1 .. Len(rest)
  <2>1. i + 1 \in 1 .. Len(Q) /\ 1 \in 1 .. Len(Q) /\ i + 1 # 1
    BY <1>5
  <2>2. DOMAIN Q = 1 .. Len(Q) /\ Q[i + 1] \in Requests
    BY <1>2, <2>1, ElementOfSeq
  <2>3. Q[i + 1].buf # Q[1].buf
    BY <1>2, <2>1, <2>2 DEF QueueDistinct
  <2> QED
    BY <1>5, <2>1, <2>2, <2>3 DEF Requests
<1>15. DOMAIN rest = 1 .. Len(rest)
  BY <1>5
<1>16. QueueBusy'
  <2> SUFFICES ASSUME NEW i \in 1 .. Len(rest)
               PROVE  status'[rest[i].buf] = "BUSY" /\ Good(rest[i].buf)
    BY <1>9, <1>15 DEF QueueBusy, Good
  <2>1. status[Q[i + 1].buf] = "BUSY" /\ Good(Q[i + 1].buf)
    BY <1>2, <1>14 DEF QueueBusy
  <2> QED
    BY <1>1, <1>2, <1>14, <2>1 DEF TypeOK
<1>17. QueueDistinct'
  <2> SUFFICES ASSUME NEW i \in 1 .. Len(rest), NEW j \in 1 .. Len(rest),
                      rest[i].buf = rest[j].buf
               PROVE  i = j
    BY <1>9, <1>15 DEF QueueDistinct
  <2>1. i + 1 = j + 1
    BY <1>2, <1>14 DEF QueueDistinct
  <2> QED
    BY <2>1
<1> QED
  BY <1>1, <1>2, <1>9, <1>10, <1>12, <1>13, <1>16, <1>17 DEF Sound

\* A request is queued, and sent when the bus is idle.
LEMMA RequestStep ==
  ASSUME Sound,
         NEW p \in Procs, NEW b \in Bufs, NEW op \in Ops, NEW sync \in BOOLEAN,
         Request(p, b, op, sync), ~spoiled'
  PROVE  Sound'
<1> DEFINE r == [op |-> op, buf |-> b]
           s == [served EXCEPT ![b] = FALSE]
           d == Dev(b)
<1>1. r \in Requests /\ r.buf = b /\ r.op = op
  BY AtaAssumption DEF Requests
<1>2. /\ TypeOK /\ Q \in Seq(Requests) /\ served \in [Bufs -> BOOLEAN]
      /\ Answered /\ QueueBusy /\ QueueDistinct /\ ~fault
      /\ BusOK(Q, drive, discard_irq, served) /\ discard_irq \in BOOLEAN
      /\ drive \in Drives
  BY Types DEF Sound, TypeOK, Drives, Kinds
<1>3. /\ status[b] # "BUSY" /\ status' = [status EXCEPT ![b] = "BUSY"]
      /\ at' = [at EXCEPT ![p] = IF sync THEN "test" ELSE "out"]
      /\ buf' = [buf EXCEPT ![p] = IF sync THEN b ELSE None]
      /\ blk_queue' = [blk_queue EXCEPT ![0] = Append(Q, r)]
      /\ drive' = IF Q = <<>> THEN Sent(drive, r) ELSE drive
      /\ served' = IF Q = <<>> THEN Noted(s, r) ELSE s
      /\ UNCHANGED <<discard_irq, waking, fault>> /\ spoiled' = FALSE /\ Good(b)
  <2>1. Enqueue(r) /\ Good(b) /\ d = 0
    <3>1. spoiled' = TRUE \/ Enqueue(r)
      BY Zenon DEF Request
    <3>2. Enqueue(r) => spoiled' = TRUE \/ Good(b)
      BY Zenon DEF Enqueue
    <3> QED
      BY <3>1, <3>2 DEF Good, Dev
  <2>2. PICK ok \in AllocOutcomes,
             o \in IF Q = <<>> THEN Starts(drive, s, r, {"own"}) ELSE Waits(drive, s) :
          /\ blk_queue' = [blk_queue EXCEPT ![0] = IF ok THEN Append(Q, r) ELSE Q]
          /\ drive' = o.drive /\ served' = o.served
          /\ spoiled' = (spoiled \/ ~ok \/ ~Good(b) \/ ~o.clean)
    BY <2>1 DEF Enqueue, MustStart, Queued, Q
  <2>3. ok /\ o.clean /\ spoiled' = FALSE
    BY <2>2
  <2>4. Q = <<>> => o.drive = Sent(drive, r) /\ o.served = Noted(s, r)
    BY <2>2, <2>3, CleanStart, Zenon
  <2>5. Q # <<>> => o.drive = drive /\ o.served = s
    BY <2>2 DEF Waits
  <2>6. /\ status[b] # "BUSY" /\ status' = [status EXCEPT ![b] = "BUSY"]
        /\ at' = [at EXCEPT ![p] = IF sync THEN "test" ELSE "out"]
        /\ buf' = [buf EXCEPT ![p] = IF sync THEN b ELSE None]
        /\ UNCHANGED <<discard_irq, waking, fault>>
    BY DEF Request
  <2>7. blk_queue' = [blk_queue EXCEPT ![0] = Append(Q, r)]
    BY <2>2, <2>3
  <2> QED
    BY <2>1, <2>2, <2>3, <2>4, <2>5, <2>6, <2>7, Zenon
<1>4. s \in [Bufs -> BOOLEAN] /\ \A c \in Bufs \ {b} : s[c] = served[c]
  BY <1>2
<1>5. Q' = Append(Q, r)
  BY <1>2, <1>3 DEF Q, TypeOK
<1>6. /\ Append(Q, r) \in Seq(Requests) /\ Len(Append(Q, r)) = Len(Q) + 1
      /\ \A i \in 1 .. Len(Q) : Append(Q, r)[i] = Q[i]
      /\ Append(Q, r)[Len(Q) + 1] = r /\ Len(Q) \in Nat
      /\ DOMAIN Append(Q, r) = 1 .. Len(Q) + 1 /\ DOMAIN Q = 1 .. Len(Q)
      /\ Append(Q, r) # <<>>
  BY <1>1, <1>2
<1>7. \A i \in 1 .. Len(Q) : Q[i] \in Requests /\ Q[i].buf \in Bufs /\ Q[i].buf # b
  <2> TAKE i \in 1 .. Len(Q)
  <2>1. Q[i] \in Requests
    BY <1>2, ElementOfSeq
  <2>2. status[Q[i].buf] = "BUSY"
    BY <1>2, <1>6 DEF QueueBusy
  <2> QED
    BY <1>3, <2>1, <2>2 DEF Requests
<1>8. /\ drive' \in Drives /\ served' \in [Bufs -> BOOLEAN]
      /\ \A c \in Bufs : s[c] => served'[c]
      /\ BusOK(Append(Q, r), drive', discard_irq, served')
  <2>1. CASE Q = <<>>
    <3>1. drive.reading = None /\ ~drive.ready /\ Shape(drive.irqs, discard_irq, 0)
      BY <1>2, <2>1, Zenon DEF BusOK
    <3>2. Append(Q, r) # <<>> /\ Head(Append(Q, r)) = r
      BY <1>1, <2>1
    <3> DEFINE a == Append(Q, r)
    <3> HIDE DEF r, s
    <3>3. Started(drive, r, discard_irq, s, a)
      <4>1. /\ drive \in Drives /\ discard_irq \in BOOLEAN /\ r \in Requests
            /\ s \in [Bufs -> BOOLEAN] /\ a # <<>> /\ Head(a) = r /\ Good(r.buf)
        BY <1>1, <1>2, <1>3, <1>4, <3>2
      <4> HIDE DEF a
      <4> QED
        BY <3>1, <4>1, SentOK, Zenon
    <3> QED
      BY <1>3, <2>1, <3>3 DEF Started, a
  <2>2. CASE Q # <<>>
    <3>1. Head(Append(Q, r)) = Head(Q)
      BY <1>1, <1>2, <2>2
    <3>2. Head(Q) = Q[1] /\ 1 \in 1 .. Len(Q)
      BY <1>2, <2>2
    <3>3. Head(Q).buf \in Bufs \ {b}
      BY <1>7, <3>2
    <3>4. s[Head(Q).buf] = served[Head(Q).buf]
      BY <1>4, <3>3
    <3>5. drive' = drive /\ served' = s
      BY <1>3, <2>2
    <3> HIDE DEF r, s
    <3>6. BusOK(Append(Q, r), drive, discard_irq, s)
      BY <1>2, <1>6, <2>2, <3>1, <3>4, Zenon DEF BusOK
    <3> QED
      BY <1>2, <1>4, <3>5, <3>6
  <2> QED
    BY <2>1, <2>2
<1>9. TypeOK'
  <2>1. blk_queue' \in [0 .. 1 -> Seq(Requests)]
    BY <1>2, <1>3, <1>6 DEF TypeOK, Requests
  <2> QED
    BY <1>2, <1>3, <1>8, <2>1 DEF TypeOK, Requests, Kinds, Drives
<1>10. Answered'
  <2> SUFFICES ASSUME NEW c \in Bufs, status'[c] = "VALID" PROVE served'[c]
    BY DEF Answered
  <2>1. c # b /\ status[c] = "VALID"
    BY <1>2, <1>3 DEF TypeOK
  <2> QED
    BY <1>2, <1>4, <1>8, <2>1 DEF Answered
<1>11. QueueBusy'
  <2> SUFFICES ASSUME NEW i \in 1 .. Len(Q) + 1
               PROVE  status'[Append(Q, r)[i].buf] = "BUSY" /\ Good(Append(Q, r)[i].buf)
    BY <1>5, <1>6 DEF QueueBusy, Good
  <2>1. CASE i = Len(Q) + 1
    BY <1>1, <1>2, <1>3, <1>6, <2>1 DEF TypeOK
  <2>2. CASE i \in 1 .. Len(Q)
    <3>1. status[Q[i].buf] = "BUSY" /\ Good(Q[i].buf)
      BY <1>2, <1>6, <2>2 DEF QueueBusy
    <3> QED
      BY <1>2, <1>3, <1>6, <1>7, <2>2, <3>1 DEF TypeOK
  <2> QED
    BY <1>6, <2>1, <2>2
<1>12. QueueDistinct'
  <2> SUFFICES ASSUME NEW i \in 1 .. Len(Q) + 1, NEW j \in 1 .. Len(Q) + 1,
                      Append(Q, r)[i].buf = Append(Q, r)[j].buf
               PROVE  i = j
    BY <1>5, <1>6 DEF QueueDistinct
  <2> HIDE DEF r
  <2>1. CASE i \in 1 .. Len(Q) /\ j \in 1 .. Len(Q)
    BY <1>2, <1>6, <2>1 DEF QueueDistinct
  <2>2. CASE i = Len(Q) + 1 \/ j = Len(Q) + 1
    BY <1>1, <1>6, <1>7, <2>2
  <2> QED
    BY <1>6, <2>1, <2>2
<1> QED
  BY <1>2, <1>3, <1>5, <1>8, <1>9, <1>10, <1>11, <1>12 DEF Sound

\* The invariant holds at the start.
LEMMA AtaInit == Init => Sound
<1> SUFFICES ASSUME Init PROVE Sound
  OBVIOUS
<1>1. Q = <<>> /\ drive = Idle /\ discard_irq = FALSE
  BY DEF Init, Q
<1>2. TypeOK
  <2>1. blk_queue \in [0 .. 1 -> Seq([op : {"read", "write"}, buf : Bufs])]
    BY DEF Init
  <2>2. drive \in [reading : Bufs \cup {None}, ready : BOOLEAN, irqs : Seq({"done", "flush"})]
    BY DEF Init, Idle
  <2>3. /\ at \in [Procs -> {"out", "test", "sleep_on", "asleep"}]
        /\ buf \in [Procs -> Bufs \cup {None}]
    BY DEF Init
  <2>4. /\ status \in [Bufs -> {"UNLOCKED", "BUSY", "VALID"}]
        /\ served \in [Bufs -> BOOLEAN]
    BY DEF Init
  <2>5. /\ discard_irq \in BOOLEAN /\ waking \in BOOLEAN /\ fault \in BOOLEAN
        /\ spoiled \in BOOLEAN
    BY DEF Init
  <2> QED
    BY <2>1, <2>2, <2>3, <2>4, <2>5 DEF TypeOK
<1>3. BusOK(Q, drive, discard_irq, served)
  BY <1>1 DEF BusOK, Shape, Idle
<1> QED
  BY <1>1, <1>2, <1>3 DEF Init, Sound, Answered, QueueBusy, QueueDistinct

\* Every step keeps the invariant.
LEMMA AtaNext == ASSUME AtaInv, [Next]_vars PROVE AtaInv'
<1> SUFFICES ASSUME ~spoiled' PROVE Sound'
  BY DEF AtaInv
<1>0. Sound
  <2>1. ~spoiled
    <3>1. CASE \E p \in Procs, b \in Bufs, op \in Ops, sync \in BOOLEAN : Request(p, b, op, sync)
      <4>1. PICK p \in Procs, b \in Bufs, op \in Ops, sync \in BOOLEAN : Request(p, b, op, sync)
        BY <3>1
      <4>2. spoiled' = TRUE \/ Enqueue([op |-> op, buf |-> b])
        BY <4>1, Zenon DEF Request
      <4>3. ASSUME NEW r, Enqueue(r) PROVE ~spoiled
        BY <4>3, Zenon DEF Enqueue
      <4> QED
        BY <4>2, <4>3, Zenon
    <3>2. CASE \E p \in Procs : SyncTest(p) \/ SleepOn(p) \/ SleepReturn(p)
      BY <3>2 DEF SyncTest, SleepOn, SleepReturn
    <3>3. CASE DriveReady \/ IrqWakeup
      BY <3>3 DEF DriveReady, IrqWakeup
    <3>4. CASE Irq
      BY <3>4 DEF Irq, IrqDiscard, IrqFault, IrqServe
    <3>5. CASE UNCHANGED vars
      BY <3>5 DEF vars
    <3> QED
      BY <3>1, <3>2, <3>3, <3>4, <3>5 DEF Next
  <2> QED
    BY <2>1 DEF AtaInv
<1>1. CASE IrqFault
  <2>1. Delivered /\ ~discard_irq /\ Q = <<>>
    BY <1>1 DEF IrqFault, Q
  <2> QED
    BY <1>0, <2>1, Completion
<1>2. CASE UNCHANGED vars
  <2>1. TypeOK'
    BY <1>0, <1>2 DEF Sound, TypeOK, vars
  <2> QED
    BY <1>0, <1>2, <2>1, QuietStep DEF vars
<1> QED
  BY <1>0, <1>1, <1>2, RequestStep, ProcessSteps, DriveReadyStep, DiscardStep, ServeStep
     DEF Next, Irq

----------------------------------------------------------------------------
\* A block is marked valid only when the drive has done what was asked for
\* it, whatever is queued behind it and however flushes are interleaved.
THEOREM AtaValidIsServed == Spec => []ValidIsServed
<1>1. Init => AtaInv
  BY AtaInit DEF AtaInv
<1>2. AtaInv => ValidIsServed
  BY DEF AtaInv, Sound, Answered, ValidIsServed
<1> QED
  BY <1>1, AtaNext, <1>2, PTL DEF Spec

\* The interrupts that the handler discards are exactly those of flushes.
THEOREM AtaDiscardsFlushes == Spec => []DiscardsFlushes
<1>1. AtaInv => DiscardsFlushes
  <2> SUFFICES ASSUME AtaInv, ~spoiled PROVE DiscardsFlushes
    BY DEF DiscardsFlushes
  <2>1. /\ TypeOK /\ drive.irqs \in Seq(Kinds) /\ discard_irq \in BOOLEAN
        /\ BusOK(Q, drive, discard_irq, served) /\ drive.ready \in BOOLEAN
    BY Types DEF AtaInv, Sound, TypeOK
  <2>2. \E n \in 0 .. 2 : Shape(drive.irqs, discard_irq, n)
    <3>1. CASE Q = <<>>
      BY <2>1, <3>1 DEF BusOK
    <3>2. CASE Q # <<>>
      BY <2>1, <3>2, HeadRequest DEF BusOK
    <3> QED
      BY <3>1, <3>2
  <2>3. discard_irq <=> drive.irqs # <<>> /\ Head(drive.irqs) = "flush"
    BY <2>1, <2>2, ShapeHead
  <2> QED
    BY <2>3 DEF DiscardsFlushes
<1>2. Init => AtaInv
  BY AtaInit DEF AtaInv
<1> QED
  BY <1>2, AtaNext, <1>1, PTL DEF Spec

\* The handler always finds a request for the interrupt it serves.
THEOREM AtaNoFault == Spec => []NoFault
<1>1. AtaInv => NoFault
  BY DEF AtaInv, Sound, NoFault
<1>2. Init => AtaInv
  BY AtaInit DEF AtaInv
<1> QED
  BY <1>2, AtaNext, <1>1, PTL DEF Spec

----------------------------------------------------------------------------
(* The queues, also after a request the code does not cope with.           *)

\* Every request is in the queue of its device, its block is busy, and no
\* block is queued twice.
InOwnQueue == \A d \in 0 .. 1 : \A i \in DOMAIN blk_queue[d] : Dev(blk_queue[d][i].buf) = d

QueuedAreBusy ==
    \A d \in 0 .. 1 : \A i \in DOMAIN blk_queue[d] : status[blk_queue[d][i].buf] = "BUSY"

NoneTwice ==
    \A d \in 0 .. 1 : \A i, j \in DOMAIN blk_queue[d] :
        blk_queue[d][i].buf = blk_queue[d][j].buf => i = j

\* The inductive invariant.
QueueInv == TypeOK /\ InOwnQueue /\ QueuedAreBusy /\ NoneTwice /\ BusyIsQueued

\* A block belongs to one of the bus's two devices.
LEMMA DevType == ASSUME NEW b \in Bufs PROVE Dev(b) \in 0 .. 1
BY DEF Dev

\* A request that is not refused memory joins the queue of its device.
LEMMA RequestQueues ==
  ASSUME QueueInv, NEW p \in Procs, NEW b \in Bufs, NEW op \in Ops, NEW sync \in BOOLEAN,
         Request(p, b, op, sync)
  PROVE  QueueInv'
<1> DEFINE r == [op |-> op, buf |-> b]
           d == Dev(b)
           q == blk_queue[d]
<1>1. r \in Requests /\ r.buf = b /\ d \in 0 .. 1
  BY AtaAssumption, DevType DEF Requests
<1>2. /\ TypeOK /\ blk_queue \in [0 .. 1 -> Seq(Requests)] /\ drive \in Drives
      /\ served \in [Bufs -> BOOLEAN] /\ spoiled \in BOOLEAN
      /\ status \in [Bufs -> {"UNLOCKED", "BUSY", "VALID"}]
  BY DEF QueueInv, TypeOK, Requests, Drives, Kinds
<1>3. /\ status[b] # "BUSY" /\ status' = [status EXCEPT ![b] = "BUSY"]
      /\ at' = [at EXCEPT ![p] = IF sync THEN "test" ELSE "out"]
      /\ buf' = [buf EXCEPT ![p] = IF sync THEN b ELSE None]
      /\ UNCHANGED <<discard_irq, waking, fault>>
  BY DEF Request
<1> HIDE DEF r, d
<1>4. /\ drive' \in Drives /\ served' \in [Bufs -> BOOLEAN] /\ spoiled' \in BOOLEAN
      /\ \/ blk_queue' = [blk_queue EXCEPT ![d] = Append(q, r)] /\ (~spoiled' => ~spoiled)
         \/ blk_queue' = blk_queue /\ spoiled' = TRUE
  <2>1. CASE Enqueue(r)
    <3> DEFINE s == [served EXCEPT ![b] = FALSE]
    <3>1. s \in [Bufs -> BOOLEAN]
      BY <1>2
    <3>2. PICK ok \in BOOLEAN,
               o \in IF q = <<>> THEN Starts(drive, s, r, {"own"}) ELSE Waits(drive, s) :
            /\ blk_queue' = [blk_queue EXCEPT ![d] = IF ok THEN Append(q, r) ELSE q]
            /\ drive' = o.drive /\ served' = o.served
            /\ spoiled' = (spoiled \/ ~ok \/ ~Good(b) \/ ~o.clean)
      BY <1>1, <2>1, AtaAssumption DEF Enqueue, MustStart, Queued, d
    <3>3. drive' \in Drives /\ served' \in [Bufs -> BOOLEAN]
      <4>1. CASE q = <<>>
        BY <1>1, <1>2, <3>1, <3>2, <4>1, StartTypes
      <4>2. CASE q # <<>>
        <5>1. o = [drive |-> drive, served |-> s, clean |-> TRUE]
          BY <3>2, <4>2, Zenon DEF Waits
        <5>2. o.drive = drive /\ o.served = s
          BY <5>1, Zenon
        <5> QED
          BY <1>2, <3>1, <3>2, <5>2, Zenon
      <4> QED
        BY <4>1, <4>2
    <3>4. [blk_queue EXCEPT ![d] = q] = blk_queue
      BY <1>1, <1>2
    <3> QED
      BY <3>2, <3>3, <3>4
  <2>2. CASE spoiled' = TRUE /\ UNCHANGED <<blk_queue, drive, served>>
    BY <1>2, <2>2
  <2> QED
    BY <2>1, <2>2 DEF Request, r
<1>5. CASE blk_queue' = [blk_queue EXCEPT ![d] = Append(q, r)] /\ (~spoiled' => ~spoiled)
  <2>1. /\ q \in Seq(Requests) /\ Len(q) \in Nat /\ DOMAIN q = 1 .. Len(q)
        /\ Append(q, r) \in Seq(Requests) /\ DOMAIN Append(q, r) = 1 .. Len(q) + 1
        /\ \A i \in 1 .. Len(q) : Append(q, r)[i] = q[i]
        /\ Append(q, r)[Len(q) + 1] = r
    BY <1>1, <1>2
  <2>2. /\ q = blk_queue[d]
        /\ \A e \in 0 .. 1 : blk_queue'[e] = IF e = d THEN Append(q, r) ELSE blk_queue[e]
    BY <1>1, <1>2, <1>5
  <2> DEFINE a == Append(q, r)
  <2>a. /\ Len(q) \in Nat /\ DOMAIN q = 1 .. Len(q) /\ DOMAIN a = 1 .. Len(q) + 1
        /\ (\A i \in 1 .. Len(q) : a[i] = q[i]) /\ a[Len(q) + 1] = r
        /\ \A e \in 0 .. 1 : blk_queue'[e] = IF e = d THEN a ELSE blk_queue[e]
    BY <2>1, <2>2
  <2> HIDE DEF a, q
  <2>b. ASSUME NEW e \in 0 .. 1, NEW i \in DOMAIN blk_queue'[e], ~(e = d /\ i = Len(q) + 1)
        PROVE  i \in DOMAIN blk_queue[e] /\ blk_queue'[e][i] = blk_queue[e][i]
    <3>1. CASE e = d
      <4>1. i \in 1 .. Len(q)
        BY <2>a, <2>b, <3>1
      <4> QED
        BY <2>a, <2>2, <3>1, <4>1
    <3>2. CASE e # d
      BY <2>a, <3>2
    <3> QED
      BY <3>1, <3>2
  <2>c. ASSUME NEW e \in 0 .. 1, NEW i \in DOMAIN blk_queue[e]
        PROVE  i \in DOMAIN blk_queue'[e] /\ blk_queue'[e][i] = blk_queue[e][i]
    BY <2>a, <2>2
  <2>3. \A e \in 0 .. 1 : \A i \in DOMAIN blk_queue[e] :
           blk_queue[e][i].buf \in Bufs /\ blk_queue[e][i].buf # b
    <3> TAKE e \in 0 .. 1
    <3> TAKE i \in DOMAIN blk_queue[e]
    <3>1. blk_queue[e][i] \in Requests
      BY <1>2, ElementOfSeq
    <3>2. status[blk_queue[e][i].buf] = "BUSY"
      BY DEF QueueInv, QueuedAreBusy
    <3> QED
      BY <1>3, <3>1, <3>2 DEF Requests
  <2>4. TypeOK'
    <3>1. blk_queue' \in [0 .. 1 -> Seq(Requests)]
      BY <1>1, <1>2, <1>5, <2>1 DEF q
    <3> QED
      BY <1>2, <1>3, <1>4, <3>1 DEF TypeOK, Requests, Kinds, Drives
  <2>5. InOwnQueue'
    <3> SUFFICES ASSUME NEW e \in 0 .. 1, NEW i \in DOMAIN blk_queue'[e]
                 PROVE  Dev(blk_queue'[e][i].buf) = e
      BY DEF InOwnQueue, Dev
    <3>1. CASE e = d /\ i = Len(q) + 1
      BY <1>1, <2>a, <3>1 DEF d
    <3>2. CASE ~(e = d /\ i = Len(q) + 1)
      BY <2>b, <3>2 DEF QueueInv, InOwnQueue
    <3> QED
      BY <3>1, <3>2
  <2>6. QueuedAreBusy'
    <3> SUFFICES ASSUME NEW e \in 0 .. 1, NEW i \in DOMAIN blk_queue'[e]
                 PROVE  status'[blk_queue'[e][i].buf] = "BUSY"
      BY DEF QueuedAreBusy
    <3>1. CASE e = d /\ i = Len(q) + 1
      BY <1>1, <1>2, <1>3, <2>a, <3>1
    <3>2. CASE ~(e = d /\ i = Len(q) + 1)
      <4>1. i \in DOMAIN blk_queue[e] /\ blk_queue'[e][i] = blk_queue[e][i]
        BY <2>b, <3>2
      <4> QED
        BY <1>2, <1>3, <2>3, <4>1 DEF QueueInv, QueuedAreBusy
    <3> QED
      BY <3>1, <3>2
  <2>7. NoneTwice'
    <3> SUFFICES ASSUME NEW e \in 0 .. 1, NEW i \in DOMAIN blk_queue'[e],
                        NEW j \in DOMAIN blk_queue'[e],
                        blk_queue'[e][i].buf = blk_queue'[e][j].buf
                 PROVE  i = j
      BY DEF NoneTwice
    <3>1. CASE e = d /\ (i = Len(q) + 1 \/ j = Len(q) + 1)
      <4>1. \A k \in DOMAIN a : k # Len(q) + 1 => a[k].buf # b
        BY <2>a, <2>2, <2>3, <1>1
      <4> QED
        BY <1>1, <2>a, <3>1, <4>1
    <3>2. CASE ~(e = d /\ (i = Len(q) + 1 \/ j = Len(q) + 1))
      BY <2>b, <3>2 DEF QueueInv, NoneTwice
    <3> QED
      BY <3>1, <3>2
  <2>8. BusyIsQueued'
    <3> SUFFICES ASSUME ~spoiled', NEW c \in Bufs, status'[c] = "BUSY" PROVE Places(c)' # {}
      BY DEF BusyIsQueued
    <3>1. CASE c = b
      <4>1. Len(q) + 1 \in DOMAIN blk_queue'[d] /\ blk_queue'[d][Len(q) + 1].buf = b
        BY <1>1, <2>a
      <4> QED
        BY <3>1, <4>1 DEF Places, d, Dev
    <3>2. CASE c # b
      <4>1. status[c] = "BUSY" /\ ~spoiled
        BY <1>2, <1>3, <1>5, <3>2
      <4>2. PICK i \in DOMAIN blk_queue[Dev(c)] : blk_queue[Dev(c)][i].buf = c
        BY <4>1 DEF QueueInv, BusyIsQueued, Places
      <4>3. i \in DOMAIN blk_queue'[Dev(c)] /\ blk_queue'[Dev(c)][i].buf = c
        BY <2>c, <4>2, DevType
      <4> QED
        BY <4>3 DEF Places, Dev
    <3> QED
      BY <3>1, <3>2
  <2> QED
    BY <2>4, <2>5, <2>6, <2>7, <2>8 DEF QueueInv
<1>6. CASE blk_queue' = blk_queue /\ spoiled' = TRUE
  <2>1. TypeOK'
    BY <1>2, <1>3, <1>4, <1>6 DEF TypeOK, Kinds, Drives
  <2>2. QueuedAreBusy'
    <3> SUFFICES ASSUME NEW e \in 0 .. 1, NEW i \in DOMAIN blk_queue[e]
                 PROVE  status'[blk_queue[e][i].buf] = "BUSY"
      BY <1>6 DEF QueuedAreBusy
    <3>1. blk_queue[e][i] \in Requests /\ status[blk_queue[e][i].buf] = "BUSY"
      BY <1>2, ElementOfSeq DEF QueueInv, QueuedAreBusy
    <3> QED
      BY <1>2, <1>3, <3>1 DEF Requests
  <2> QED
    BY <1>6, <2>1, <2>2 DEF QueueInv, InOwnQueue, NoneTwice, BusyIsQueued, Dev
<1> QED
  BY <1>4, <1>5, <1>6

\* The handler takes the head off the queue of the master when it has
\* finished it: the rest of the blocks stay queued and busy.
LEMMA ServeQueues == ASSUME QueueInv, IrqServe PROVE QueueInv'
<1> DEFINE r == Head(Q)
           rest == Tail(Q)
           v == IF r.op = "read" THEN [Idle EXCEPT !.irqs = Tail(drive.irqs)]
                                 ELSE [drive EXCEPT !.irqs = Tail(@)]
           s == IF r.op = "read"
                THEN [served EXCEPT ![r.buf] = (drive.ready /\ drive.reading = r.buf)]
                ELSE served
<1>1. /\ drive.irqs # <<>> /\ Q # <<>>
      /\ status' = [status EXCEPT ![r.buf] = "VALID"]
      /\ discard_irq' = (r.op = "write")
      /\ blk_queue' = [blk_queue EXCEPT ![0] = rest]
      /\ \E o \in IF rest = <<>> THEN Waits(v, s)
                   ELSE Starts(v, s, Head(rest), QueuedDevice(Head(rest))) :
            drive' = o.drive /\ served' = o.served /\ spoiled' = (spoiled \/ ~o.clean)
      /\ waking' = TRUE /\ UNCHANGED <<at, buf, fault>>
  BY DEF IrqServe, Finish, Delivered, Q
<1>2. /\ TypeOK /\ Q \in Seq(Requests) /\ blk_queue \in [0 .. 1 -> Seq(Requests)]
      /\ served \in [Bufs -> BOOLEAN] /\ drive \in Drives /\ drive.irqs \in Seq(Kinds)
      /\ status \in [Bufs -> {"UNLOCKED", "BUSY", "VALID"}]
  BY Types DEF QueueInv, TypeOK, Requests, Drives, Kinds
<1>3. r \in Requests /\ r.op \in {"read", "write"} /\ r.buf \in Bufs
  BY <1>1, <1>2, HeadRequest
<1>4. /\ rest \in Seq(Requests) /\ Len(rest) = Len(Q) - 1
      /\ \A i \in 1 .. Len(rest) : rest[i] = Q[i + 1]
      /\ Len(Q) \in Nat \ {0} /\ Q[1] = r
      /\ DOMAIN rest = 1 .. Len(rest) /\ DOMAIN Q = 1 .. Len(Q)
  <2>1. /\ rest \in Seq(Requests) /\ Len(rest) = Len(Q) - 1
        /\ \A i \in 1 .. Len(rest) : rest[i] = Q[i + 1]
    BY <1>1, <1>2, HeadTailProperties
  <2>2. Len(Q) \in Nat \ {0} /\ Q[1] = r /\ DOMAIN Q = 1 .. Len(Q)
    BY <1>1, <1>2
  <2>3. DOMAIN rest = 1 .. Len(rest)
    BY <2>1
  <2> QED
    BY <2>1, <2>2, <2>3
<1>5. Tail(drive.irqs) \in Seq(Kinds)
  BY <1>1, <1>2, HeadTailProperties
<1>6. v \in Drives /\ s \in [Bufs -> BOOLEAN]
  <2>1. CASE r.op = "read"
    BY <1>2, <1>3, <1>5, <2>1 DEF Idle, Drives
  <2>2. CASE r.op = "write"
    BY <1>2, <1>5, <2>2 DEF Drives
  <2> QED
    BY <1>3, <2>1, <2>2
<1> HIDE DEF r, rest, v, s
<1>7. /\ drive' \in Drives /\ served' \in [Bufs -> BOOLEAN] /\ spoiled' \in BOOLEAN
      /\ ~spoiled' => ~spoiled
  <2>1. rest # <<>> => Head(rest) \in Requests
    BY <1>4, HeadTailProperties
  <2>2. PICK o \in IF rest = <<>> THEN Waits(v, s)
                    ELSE Starts(v, s, Head(rest), QueuedDevice(Head(rest))) :
          drive' = o.drive /\ served' = o.served /\ spoiled' = (spoiled \/ ~o.clean)
    BY <1>1
  <2>3. o.drive \in Drives /\ o.served \in [Bufs -> BOOLEAN]
    <3>1. CASE rest = <<>>
      BY <1>6, <2>2, <3>1 DEF Waits
    <3>2. CASE rest # <<>>
      BY <1>6, <2>1, <2>2, <3>2, StartTypes
    <3> QED
      BY <3>1, <3>2
  <2> QED
    BY <2>2, <2>3
<1>8. TypeOK'
  <2>1. blk_queue' \in [0 .. 1 -> Seq(Requests)]
    BY <1>1, <1>2, <1>4
  <2>2. status' \in [Bufs -> {"UNLOCKED", "BUSY", "VALID"}]
    BY <1>1, <1>2, <1>3
  <2> QED
    BY <1>1, <1>2, <1>7, <2>1, <2>2 DEF TypeOK, Requests, Kinds, Drives
<1>9. \A e \in 0 .. 1 : blk_queue'[e] = IF e = 0 THEN rest ELSE blk_queue[e]
  BY <1>1, <1>2
\* A place in a new queue was the next place in the old one.
<1>10. ASSUME NEW e \in 0 .. 1, NEW i \in DOMAIN blk_queue'[e]
       PROVE  LET j == IF e = 0 THEN i + 1 ELSE i
              IN  /\ j \in DOMAIN blk_queue[e] /\ blk_queue'[e][i] = blk_queue[e][j]
                  /\ blk_queue[e][j].buf \in Bufs /\ blk_queue[e][j].buf # r.buf
  <2> DEFINE j == IF e = 0 THEN i + 1 ELSE i
  <2>1. j \in DOMAIN blk_queue[e] /\ blk_queue'[e][i] = blk_queue[e][j] /\ (e = 0 => j # 1)
    <3>1. CASE e = 0
      <4>1. i \in 1 .. Len(rest) /\ j = i + 1 /\ blk_queue'[e][i] = rest[i] /\ Q = blk_queue[e]
        BY <1>4, <1>9, <3>1 DEF Q
      <4>2. j \in 1 .. Len(Q) /\ j # 1
        BY <1>4, <4>1
      <4> HIDE DEF j
      <4> QED
        BY <1>4, <4>1, <4>2
    <3>2. CASE e # 0
      BY <1>9, <3>2
    <3> QED
      BY <3>1, <3>2
  <2> HIDE DEF j
  <2>2. blk_queue[e][j] \in Requests
    BY <1>2, <2>1, ElementOfSeq
  <2>3. Dev(blk_queue[e][j].buf) = e /\ Dev(r.buf) = 0
    BY <1>4, <2>1 DEF QueueInv, InOwnQueue, Q
  <2>4. e = 0 => blk_queue[e][j].buf # r.buf
    BY <1>4, <2>1 DEF QueueInv, NoneTwice, Q
  <2> QED
    BY <2>1, <2>2, <2>3, <2>4 DEF Requests, j
<1>11. InOwnQueue'
  BY <1>10 DEF QueueInv, InOwnQueue, Dev
<1>12. QueuedAreBusy'
  <2> SUFFICES ASSUME NEW e \in 0 .. 1, NEW i \in DOMAIN blk_queue'[e]
               PROVE  status'[blk_queue'[e][i].buf] = "BUSY"
    BY DEF QueuedAreBusy
  <2> QED
    BY <1>1, <1>2, <1>10 DEF QueueInv, QueuedAreBusy
<1>13. NoneTwice'
  <2> SUFFICES ASSUME NEW e \in 0 .. 1, NEW i \in DOMAIN blk_queue'[e],
                      NEW j \in DOMAIN blk_queue'[e],
                      blk_queue'[e][i].buf = blk_queue'[e][j].buf
               PROVE  i = j
    BY DEF NoneTwice
  <2>1. i \in Int /\ j \in Int
    BY <1>2, <1>4, <1>9
  <2>2. (IF e = 0 THEN i + 1 ELSE i) = (IF e = 0 THEN j + 1 ELSE j)
    BY <1>10 DEF QueueInv, NoneTwice
  <2> QED
    BY <2>1, <2>2
<1>14. BusyIsQueued'
  <2> SUFFICES ASSUME ~spoiled', NEW c \in Bufs, status'[c] = "BUSY" PROVE Places(c)' # {}
    BY DEF BusyIsQueued
  <2>1. c # r.buf /\ status[c] = "BUSY" /\ ~spoiled
    BY <1>1, <1>2, <1>3, <1>7
  <2>2. PICK i \in DOMAIN blk_queue[Dev(c)] : blk_queue[Dev(c)][i].buf = c
    BY <2>1 DEF QueueInv, BusyIsQueued, Places
  <2> DEFINE j == IF Dev(c) = 0 THEN i - 1 ELSE i
  <2>3. j \in DOMAIN blk_queue'[Dev(c)] /\ blk_queue'[Dev(c)][j].buf = c
    <3>1. CASE Dev(c) = 0
      <4>1. i \in 1 .. Len(Q) /\ Q[i].buf = c /\ j = i - 1
        BY <1>4, <2>2, <3>1 DEF Q
      <4>2. i # 1
        BY <1>4, <2>1, <4>1
      <4>3. j \in 1 .. Len(rest) /\ j + 1 = i
        BY <1>4, <4>1, <4>2
      <4> HIDE DEF j
      <4>4. rest[j].buf = c
        BY <1>4, <4>1, <4>3
      <4> QED
        BY <1>4, <1>9, <3>1, <4>3, <4>4
    <3>2. CASE Dev(c) # 0
      BY <1>9, <2>2, <3>2, DevType
    <3> QED
      BY <3>1, <3>2
  <2> QED
    BY <2>3 DEF Places, Dev
<1> QED
  BY <1>8, <1>11, <1>12, <1>13, <1>14 DEF QueueInv

\* Every step keeps the queues.
LEMMA QueueNext == ASSUME QueueInv, [Next]_vars PROVE QueueInv'
<1>0. ASSUME TypeOK', UNCHANGED <<status, blk_queue>>, ~spoiled' => ~spoiled
      PROVE  QueueInv'
  BY <1>0 DEF QueueInv, InOwnQueue, QueuedAreBusy, NoneTwice, BusyIsQueued, Places, Dev
<1>1. ASSUME NEW p \in Procs, SyncTest(p) \/ SleepOn(p) \/ SleepReturn(p) PROVE QueueInv'
  <2>1. TypeOK'
    BY <1>1 DEF SyncTest, SleepOn, SleepReturn, QueueInv, TypeOK
  <2> QED
    BY <1>0, <1>1, <2>1 DEF SyncTest, SleepOn, SleepReturn
<1>2. CASE DriveReady
  <2>1. drive \in Drives /\ Append(drive.irqs, "done") \in Seq(Kinds)
    BY DEF QueueInv, TypeOK, Drives, Kinds
  <2>2. drive' \in Drives
    BY <1>2, <2>1 DEF DriveReady, Drives
  <2>3. TypeOK'
    BY <1>2, <2>2 DEF DriveReady, QueueInv, TypeOK, Drives, Kinds
  <2> QED
    BY <1>0, <1>2, <2>3 DEF DriveReady
<1>3. CASE IrqDiscard \/ IrqFault
  <2>1. /\ drive \in Drives /\ drive.irqs \in Seq(Kinds) /\ drive.irqs # <<>>
        /\ drive' = [drive EXCEPT !.irqs = Tail(@)]
    BY <1>3 DEF IrqDiscard, IrqFault, Delivered, QueueInv, TypeOK, Drives, Kinds
  <2>2. Tail(drive.irqs) \in Seq(Kinds)
    BY <2>1, HeadTailProperties
  <2>3. drive' \in Drives
    BY <2>1, <2>2 DEF Drives
  <2>4. TypeOK'
    BY <1>3, <2>3 DEF IrqDiscard, IrqFault, QueueInv, TypeOK, Drives, Kinds
  <2> QED
    BY <1>0, <1>3, <2>4 DEF IrqDiscard, IrqFault
<1>4. CASE IrqWakeup
  <2>1. TypeOK'
    BY <1>4 DEF IrqWakeup, QueueInv, TypeOK
  <2> QED
    BY <1>0, <1>4, <2>1 DEF IrqWakeup
<1>5. CASE UNCHANGED vars
  BY <1>0, <1>5 DEF vars, QueueInv, TypeOK
<1> QED
  BY <1>1, <1>2, <1>3, <1>4, <1>5, RequestQueues, ServeQueues DEF Next, Irq

\* A block is queued once and only while it is busy, whatever fails and
\* whichever device it belongs to; until something fails, every busy block
\* is queued.
THEOREM AtaQueueSound == Spec => []QueueSound
<1>1. Init => QueueInv
  <2> SUFFICES ASSUME Init PROVE QueueInv
    OBVIOUS
  <2>1. TypeOK
    BY AtaInit DEF Sound
  <2> QED
    BY <2>1 DEF Init, QueueInv, InOwnQueue, QueuedAreBusy, NoneTwice, BusyIsQueued
<1>2. QueueInv /\ [Next]_vars => QueueInv'
  BY QueueNext
<1>3. QueueInv => QueueSound
  <2> SUFFICES ASSUME QueueInv, NEW b \in Bufs
               PROVE  Cardinality(Places(b)) <= IF status[b] = "BUSY" THEN 1 ELSE 0
    BY DEF QueueInv, QueueSound, QueuedOnce
  <2>1. CASE Places(b) = {}
    BY <2>1, FS_EmptySet
  <2>2. CASE Places(b) # {}
    <3>1. PICK i \in Places(b) : TRUE
      BY <2>2
    <3>2. Places(b) = {i} /\ status[b] = "BUSY"
      BY <3>1, DevType DEF QueueInv, QueuedAreBusy, NoneTwice, Places
    <3>3. Cardinality({i}) = 1
      BY FS_Singleton
    <3> QED
      BY <3>2, <3>3
  <2> QED
    BY <2>1, <2>2
<1> QED
  BY <1>1, <1>2, <1>3, PTL DEF Spec

----------------------------------------------------------------------------
(***************************************************************************)
(* The probing of the buses.  The sums that Before takes over Layout are   *)
(* computed step by step; the rest is arithmetic on words.                 *)
(***************************************************************************)
\* Where the runs of Layout begin, and where the last one ends.
Begins ==
    << 0, 1, 10, 20, 23, 27, 47, 48, 49, 51, 59, 60, 62, 63, 64, 80, 81, 82, 88, 89, 100, 104, 256 >>

\* The runs and the places, one by one.
LEMMA LayoutNames ==
  /\ Layout[1][1] = "type" /\ Layout[2][1] = "" /\ Layout[3][1] = "serial"
  /\ Layout[4][1] = "" /\ Layout[5][1] = "firmware_rev" /\ Layout[6][1] = "model"
  /\ Layout[7][1] = "mult_secs" /\ Layout[8][1] = "" /\ Layout[9][1] = "capabilities"
  /\ Layout[10][1] = "" /\ Layout[11][1] = "mult_sec" /\ Layout[12][1] = "max_secs"
  /\ Layout[13][1] = "" /\ Layout[14][1] = "mword_dma" /\ Layout[15][1] = ""
  /\ Layout[16][1] = "major_ver" /\ Layout[17][1] = "minor_ver"
  /\ Layout[18][1] = "cmds_supported" /\ Layout[19][1] = "ultra_dma" /\ Layout[20][1] = ""
  /\ Layout[21][1] = "max_lba48" /\ Layout[22][1] = ""
BY DEF Layout

\* The lengths of the rows of the table of fields.
LEMMA LayoutLengths ==
  /\ Layout[1][2] = 1 /\ Layout[2][2] = 9 /\ Layout[3][2] = 10 /\ Layout[4][2] = 3
  /\ Layout[5][2] = 4 /\ Layout[6][2] = 20 /\ Layout[7][2] = 1 /\ Layout[8][2] = 1
  /\ Layout[9][2] = 2 /\ Layout[10][2] = 8 /\ Layout[11][2] = 1 /\ Layout[12][2] = 2
  /\ Layout[13][2] = 1 /\ Layout[14][2] = 1 /\ Layout[15][2] = 16 /\ Layout[16][2] = 1
  /\ Layout[17][2] = 1 /\ Layout[18][2] = 6 /\ Layout[19][2] = 1 /\ Layout[20][2] = 11
  /\ Layout[21][2] = 4 /\ Layout[22][2] = 152
BY DEF Layout

\* Where the rows of the table begin.
LEMMA BeginsRows ==
  /\ Begins[1] = 0 /\ Begins[2] = 1 /\ Begins[3] = 10 /\ Begins[4] = 20 /\ Begins[5] = 23
  /\ Begins[6] = 27 /\ Begins[7] = 47 /\ Begins[8] = 48 /\ Begins[9] = 49
  /\ Begins[10] = 51 /\ Begins[11] = 59 /\ Begins[12] = 60 /\ Begins[13] = 62
  /\ Begins[14] = 63 /\ Begins[15] = 64 /\ Begins[16] = 80 /\ Begins[17] = 81
  /\ Begins[18] = 82 /\ Begins[19] = 88 /\ Begins[20] = 89 /\ Begins[21] = 100
  /\ Begins[22] = 104 /\ Begins[23] = 256
BY DEF Begins

\* Each run begins where the one before it ends.
LEMMA BeginsRight ==
  /\ Len(Layout) = 22 /\ Begins[1] = 0
  /\ \A i \in 1 .. 22 : Begins[i + 1] = Begins[i] + Layout[i][2]
<1>1. Len(Layout) = 22 /\ Begins[1] = 0
  BY DEF Layout, Begins
<1>2. ASSUME NEW i \in 1 .. 22 PROVE Begins[i + 1] = Begins[i] + Layout[i][2]
  <2>1. i \in 1 .. 7 \/ i \in 8 .. 15 \/ i \in 16 .. 22
    OBVIOUS
  <2>2. CASE i \in 1 .. 7
    BY <2>2, LayoutLengths, BeginsRows
  <2>3. CASE i \in 8 .. 15
    BY <2>3, LayoutLengths, BeginsRows
  <2>4. CASE i \in 16 .. 22
    BY <2>4, LayoutLengths, BeginsRows
  <2> QED
    BY <2>1, <2>2, <2>3, <2>4
<1> QED
  BY <1>1, <1>2

\* Before gives these places.
LEMMA BeforeIs == \A k \in 1 .. 23 : Before(k) = Begins[k]
<1> DEFINE D == 0 .. Len(Layout)
           eqn(f) == f = [i \in D |-> IF i = 0 THEN 0 ELSE f[i - 1] + Layout[i][2]]
           sum == CHOOSE f : eqn(f)
           g == [i \in D |-> Begins[i + 1]]
<1>1. D = 0 .. 22
  BY BeginsRight
<1>2. eqn(g)
  <2>1. ASSUME NEW i \in D
        PROVE  g[i] = IF i = 0 THEN 0 ELSE g[i - 1] + Layout[i][2]
    <3>1. CASE i = 0
      BY <3>1, BeginsRight
    <3>2. CASE i # 0
      <4>1. i \in 1 .. 22 /\ i - 1 \in D /\ (i - 1) + 1 = i
        BY <1>1, <3>2
      <4>2. g[i - 1] = Begins[i] /\ g[i] = Begins[i + 1]
        BY <4>1
      <4> QED
        BY <3>2, <4>1, <4>2, BeginsRight
    <3> QED
      BY <3>1, <3>2
  <2> QED
    BY <2>1
<1>3. eqn(sum)
  <2> HIDE DEF g, D
  <2> QED
    BY <1>2, Zenon
<1>4. \A k : Before(k) = sum[k - 1]
  BY Zenon DEF Before
<1> HIDE DEF sum
<1> DEFINE P(k) == k \in 0 .. 22 => sum[k] = Begins[k + 1]
           S == {k \in Nat : P(k)}
<1>5. 0 \in S
  BY <1>1, <1>3, BeginsRight
<1>6. ASSUME NEW k \in S PROVE k + 1 \in S
  <2> SUFFICES ASSUME k + 1 \in 0 .. 22 PROVE sum[k + 1] = Begins[(k + 1) + 1]
    OBVIOUS
  <2>0. k \in Nat /\ k + 1 <= 22
    OBVIOUS
  <2>1. k \in 0 .. 22 /\ k + 1 \in 1 .. 22 /\ k + 1 # 0 /\ (k + 1) - 1 = k /\ k + 1 \in D
    <3> HIDE DEF D
    <3> QED
      BY <1>1, <2>0
  <2>2. sum[k + 1] = sum[k] + Layout[k + 1][2]
    BY <1>3, <2>1
  <2>3. sum[k] = Begins[k + 1]
    BY <2>1
  <2> QED
    BY <2>1, <2>2, <2>3, BeginsRight
<1>7. S \in SUBSET Nat
  OBVIOUS
<1> HIDE DEF S
<1>8. S = Nat
  BY <1>5, <1>6, <1>7, InductionNat
<1>9. ASSUME NEW k \in 1 .. 23 PROVE Before(k) = Begins[k]
  <2>1. k - 1 \in Nat /\ k - 1 \in 0 .. 22 /\ (k - 1) + 1 = k
    OBVIOUS
  <2>2. k - 1 \in S
    BY <1>8, <2>1
  <2> QED
    BY <1>4, <2>1, <2>2 DEF S
<1> QED
  BY <1>9

\* The words of the fields that init_ata_generic looks at.
LEMMA FieldIs ==
  ASSUME NEW d, NEW j \in 0 .. 3
  PROVE  /\ Field(d, "type", j) = Identify(d)[j]
         /\ Field(d, "capabilities", j) = Identify(d)[49 + j]
         /\ Field(d, "max_secs", j) = Identify(d)[60 + j]
         /\ Field(d, "cmds_supported", j) = Identify(d)[82 + j]
         /\ Field(d, "max_lba48", j) = Identify(d)[100 + j]
<1> DEFINE place(name) == CHOOSE i \in DOMAIN Layout : Layout[i][1] = name
<1>1. DOMAIN Layout = 1 .. 22
  BY DEF Layout
<1>2. /\ place("type") = 1 /\ place("capabilities") = 9 /\ place("max_secs") = 12
      /\ place("cmds_supported") = 18 /\ place("max_lba48") = 21
  <2>1. ASSUME NEW i \in 1 .. 22
        PROVE  /\ i # 1 => Layout[i][1] # "type"
               /\ i # 9 => Layout[i][1] # "capabilities"
               /\ i # 12 => Layout[i][1] # "max_secs"
               /\ i # 18 => Layout[i][1] # "cmds_supported"
               /\ i # 21 => Layout[i][1] # "max_lba48"
    <3>1. CASE i \in 1 .. 8
      <4>1. \/ i = 1 \/ i = 2 \/ i = 3 \/ i = 4 \/ i = 5 \/ i = 6 \/ i = 7 \/ i = 8
        BY <3>1
      <4> QED
        BY <4>1, LayoutNames
    <3>2. CASE i \in 9 .. 15
      <4>1. \/ i = 9 \/ i = 10 \/ i = 11 \/ i = 12 \/ i = 13 \/ i = 14 \/ i = 15
        BY <3>2
      <4> QED
        BY <4>1, LayoutNames
    <3>3. CASE i \in 16 .. 22
      <4>1. \/ i = 16 \/ i = 17 \/ i = 18 \/ i = 19 \/ i = 20 \/ i = 21 \/ i = 22
        BY <3>3
      <4> QED
        BY <4>1, LayoutNames
    <3> QED
      BY <3>1, <3>2, <3>3
  <2>2. 1 \in 1 .. 22 /\ 9 \in 1 .. 22 /\ 12 \in 1 .. 22 /\ 18 \in 1 .. 22 /\ 21 \in 1 .. 22
    OBVIOUS
  <2> QED
    BY <1>1, <2>1, <2>2, LayoutNames
<1>3. /\ Before(1) = 0 /\ Before(9) = 49 /\ Before(12) = 60 /\ Before(18) = 82
      /\ Before(21) = 100
  BY BeforeIs DEF Begins
<1>4. \A name : Field(d, name, j) = Identify(d)[Before(place(name)) + j]
  BY Zenon DEF Field
<1> HIDE DEF place
<1> QED
  BY <1>2, <1>3, <1>4

\* What is answered at these places.
LEMMA WordsRead ==
  ASSUME NEW d \in DeviceType
  PROVE  /\ d.kind = "floating" => Identify(d)[0] = Word - 1
         /\ d.kind # "floating" =>
              /\ Identify(d)[0] = 0
              /\ Identify(d)[49] = IF d.lba THEN 1 ELSE 0
              /\ Identify(d)[83] = IF d.lba48 THEN 1 ELSE 0
              /\ Identify(d)[60] = d.secs[1] /\ Identify(d)[61] = d.secs[2]
              /\ Identify(d)[100] = d.secs48[1] /\ Identify(d)[101] = d.secs48[2]
              /\ Identify(d)[102] = d.secs48[3] /\ Identify(d)[103] = d.secs48[4]
<1>1. CASE d.kind = "floating"
  BY <1>1 DEF Identify, Ones
<1>2. CASE d.kind # "floating"
  BY <1>2 DEF Identify
<1> QED
  BY <1>1, <1>2

\* A device is taken for a disk exactly if it is one and has LBA.
LEMMA IsDiskRight ==
  ASSUME NEW d \in DeviceType
  PROVE  IsDisk(d) <=> d.kind = "disk" /\ d.lba
<1>1. Half \in Nat \ {0} /\ Word = 2 * Half
  BY AtaProbeAssumption DEF Word
<1>2. 0 \in 0 .. 3
  OBVIOUS
<1>3. Field(d, "type", 0) = Identify(d)[0] /\ Field(d, "capabilities", 0) = Identify(d)[49]
  BY <1>2, FieldIs
<1>4. d.lba \in BOOLEAN /\ d.kind \in {"none", "floating", "cdrom", "disk"}
  BY DEF DeviceType
<1>5. CASE d.kind = "floating"
  BY <1>1, <1>3, <1>5, WordsRead DEF IsDisk
<1>6. CASE d.kind = "disk"
  BY <1>1, <1>3, <1>4, <1>6, WordsRead DEF IsDisk
<1>7. CASE d.kind \in {"none", "cdrom"}
  BY <1>7 DEF IsDisk
<1> QED
  BY <1>4, <1>5, <1>6, <1>7

\* Two words make less than the square of a word.
LEMMA TwoWords ==
  ASSUME NEW w \in Nat \ {0}, NEW a \in 0 .. w - 1, NEW b \in 0 .. w - 1
  PROVE  a + b * w < w * w
<1>1. w - 1 - b \in Nat /\ w - 1 - a \in Nat
  OBVIOUS
<1>2. w * w = (w - 1 - b) * w + b * w + w
  OBVIOUS
<1>3. (w - 1 - b) * w \in Nat /\ b * w \in Nat
  BY <1>1
<1> DEFINE x == (w - 1 - b) * w
           y == b * w
           z == w * w
<1>4. x \in Nat /\ y \in Nat /\ z = x + y + w
  BY <1>2, <1>3
<1> HIDE DEF x, y, z
<1>5. a + y < z
  BY <1>4
<1> QED
  BY <1>5 DEF y, z

\* The words of a size as the property reads them.
SizeWords(d) == IF d.lba48 THEN d.secs48 ELSE <<d.secs[1], d.secs[2], 0, 0>>

\* The size of a disk is understood if the highest bit of its second word is
\* clear: nothing is extended with a sign, and the or-ed parts do not meet.
LEMMA SizeRight ==
  ASSUME NEW d \in DeviceType, d.kind = "disk", SizeWords(d)[2] < Half
  PROVE  SizeOf(d) = Value(SizeWords(d))
<1> DEFINE s == SizeWords(d)
<1>1. Half \in Nat \ {0} /\ Word = 2 * Half /\ Word \in Nat \ {0}
  BY AtaProbeAssumption DEF Word
<1>2. 0 \in 0 .. 3 /\ 1 \in 0 .. 3 /\ 2 \in 0 .. 3 /\ 3 \in 0 .. 3
  OBVIOUS
<1>3. /\ Field(d, "cmds_supported", 1) = Identify(d)[83]
      /\ Field(d, "max_secs", 0) = Identify(d)[60] /\ Field(d, "max_secs", 1) = Identify(d)[61]
      /\ Field(d, "max_lba48", 0) = Identify(d)[100] /\ Field(d, "max_lba48", 1) = Identify(d)[101]
      /\ Field(d, "max_lba48", 2) = Identify(d)[102] /\ Field(d, "max_lba48", 3) = Identify(d)[103]
  BY <1>2, FieldIs
<1>4. /\ d.lba48 \in BOOLEAN
      /\ d.secs \in [1 .. 2 -> WordValues] /\ d.secs48 \in [1 .. 4 -> WordValues]
  BY DEF DeviceType
<1>5. CASE d.lba48
  <2> DEFINE a == d.secs48[1]
             b == d.secs48[2]
             x == d.secs48[3]
             y == d.secs48[4]
  <2>1. a \in 0 .. Word - 1 /\ b \in 0 .. Word - 1 /\ x \in 0 .. Word - 1 /\ y \in 0 .. Word - 1
    BY <1>4 DEF WordValues
  <2>2. s = d.secs48 /\ b < Half
    BY <1>5 DEF SizeWords
  <2>3. Field(d, "cmds_supported", 1) # 0 /\ Field(d, "max_lba48", 0) = a /\ Field(d, "max_lba48", 1) = b
        /\ Field(d, "max_lba48", 2) = x /\ Field(d, "max_lba48", 3) = y
    BY <1>3, <1>5, WordsRead
  <2>4. Shifted(b) = b * Word
    BY <2>2 DEF Shifted
  <2>5. SizeOf(d) = IF a + b * Word >= Word * Word THEN a + b * Word
                    ELSE a + b * Word + x * (Word * Word) + y * (Word * Word * Word)
    <3> HIDE DEF a, b, x, y
    <3> QED
      BY <2>3, <2>4 DEF SizeOf
  <2>6. Value(s) = a + Word * (b + Word * (x + Word * y))
    BY <2>2 DEF Value
  <2> HIDE DEF a, b, x, y, s
  <2>7. a + b * Word < Word * Word
    BY <1>1, <2>1, TwoWords
  <2>8. a \in Int /\ b \in Int /\ x \in Int /\ y \in Int /\ Word \in Int
    BY <1>1, <2>1
  <2>9. a + b * Word + x * (Word * Word) + y * (Word * Word * Word)
          = a + Word * (b + Word * (x + Word * y))
    BY <2>8
  <2>10. a + b * Word \in Int /\ Word * Word \in Int
    BY <2>8
  <2>11. SizeOf(d) = Value(s)
    BY <2>5, <2>6, <2>7, <2>9, <2>10
  <2> QED
    BY <2>11 DEF s
<1>6. CASE ~d.lba48
  <2> DEFINE a == d.secs[1]
             b == d.secs[2]
  <2>1. a \in 0 .. Word - 1 /\ b \in 0 .. Word - 1
    BY <1>4 DEF WordValues
  <2>4. s[1] = a /\ s[2] = b /\ s[3] = 0 /\ s[4] = 0
    BY <1>6 DEF SizeWords
  <2>5. Field(d, "cmds_supported", 1) = 0 /\ Field(d, "max_secs", 0) = a /\ Field(d, "max_secs", 1) = b
    BY <1>3, <1>6, WordsRead
  <2>6. b < Half
    BY <2>4
  <2>7. SizeOf(d) = a + b * Word
    <3> HIDE DEF a, b
    <3> QED
      BY <2>5, <2>6 DEF SizeOf, Shifted
  <2>8. Value(s) = a + Word * (b + Word * (0 + Word * 0))
    BY <2>4 DEF Value
  <2> HIDE DEF a, b, s
  <2>9. a \in Int /\ b \in Int /\ Word \in Int
    BY <1>1, <2>1
  <2>10. a + Word * (b + Word * (0 + Word * 0)) = a + b * Word
    BY <2>9
  <2> QED
    BY <2>7, <2>8, <2>10 DEF s
<1> QED
  BY <1>4, <1>5, <1>6

\* The entry of ata_devices, and the driver of a bus, once its
\* turn is done.
DeviceEntry(d, done) ==
    IF done /\ IsDisk(d) THEN [present |-> TRUE, sectors |-> SizeOf(d)]
    ELSE [present |-> FALSE, sectors |-> 0]

BusDriver(d, done) == IF done /\ IsDisk(d) THEN SizeOf(d) ELSE Unregistered

Turn(major) == IF major = DEVMAJOR_ATA_PRI THEN 4 ELSE 5

ProbeInv ==
    /\ aboard \in Boards /\ anext \in 0 .. 6 /\ apanic \in BOOLEAN
    /\ DOMAIN adev = 0 .. 3 /\ adev = [i \in 0 .. 3 |-> adev[i]]
    /\ \A i \in 0 .. 3 : adev[i] = DeviceEntry(aboard[i], i < anext)
    /\ DOMAIN adrv = Majors /\ adrv = [m \in Majors |-> adrv[m]]
    /\ ~apanic => \A m \in Majors : adrv[m] = BusDriver(aboard[MasterOf(m)], Turn(m) < anext)

\* Nothing is probed yet.
LEMMA ProbeStart == ProbeInit => ProbeInv
<1> SUFFICES ASSUME ProbeInit PROVE ProbeInv
  OBVIOUS
<1>1. aboard \in Boards /\ anext = 0 /\ apanic = FALSE
  BY Zenon DEF ProbeInit
<1>2. /\ adev = [i \in 0 .. 3 |-> [present |-> FALSE, sectors |-> 0]]
      /\ adrv = [m \in Majors |-> Unregistered]
  BY Zenon DEF ProbeInit
<1>3. \A i \in 0 .. 3 : adev[i] = DeviceEntry(aboard[i], i < anext)
  BY <1>1, <1>2 DEF DeviceEntry
<1>4. \A m \in Majors : adrv[m] = BusDriver(aboard[MasterOf(m)], Turn(m) < anext)
  BY <1>1, <1>2 DEF BusDriver, Turn
<1>5. anext \in 0 .. 6 /\ DOMAIN adev = 0 .. 3 /\ adev = [i \in 0 .. 3 |-> adev[i]]
      /\ DOMAIN adrv = Majors /\ adrv = [m \in Majors |-> adrv[m]]
  BY <1>1, <1>2
<1> QED
  BY <1>1, <1>3, <1>4, <1>5, Zenon DEF ProbeInv

\* A turn of the loop, or the registration of a bus.
LEMMA ProbeKept == ProbeInv /\ [ProbeNext]_probeVars => ProbeInv'
<1> SUFFICES ASSUME ProbeInv, [ProbeNext]_probeVars PROVE ProbeInv'
  OBVIOUS
<1>1. aboard \in Boards /\ anext \in 0 .. 6 /\ apanic \in BOOLEAN
  BY Zenon DEF ProbeInv
<1>2. /\ DOMAIN adev = 0 .. 3 /\ adev = [i \in 0 .. 3 |-> adev[i]]
      /\ \A i \in 0 .. 3 : adev[i] = DeviceEntry(aboard[i], i < anext)
      /\ DOMAIN adrv = Majors /\ adrv = [m \in Majors |-> adrv[m]]
  BY Zenon DEF ProbeInv
<1>3. ~apanic => \A m \in Majors : adrv[m] = BusDriver(aboard[MasterOf(m)], Turn(m) < anext)
  BY Zenon DEF ProbeInv
<1>4. CASE ProbeDevice
  <2> DEFINE e == IF IsDisk(aboard[anext])
                  THEN [present |-> TRUE, sectors |-> SizeOf(aboard[anext])] ELSE adev[anext]
  <2>1. /\ anext < 4 /\ anext' = anext + 1 /\ aboard' = aboard /\ adrv' = adrv /\ apanic' = apanic
        /\ adev' = [adev EXCEPT ![anext] = e]
    BY <1>4, Zenon DEF ProbeDevice
  <2>2. anext \in 0 .. 3 /\ anext + 1 \in 0 .. 6
    BY <1>1, <2>1
  <2>3. e = DeviceEntry(aboard[anext], anext < anext + 1)
    <3>1. (anext < anext + 1) = TRUE /\ (anext < anext) = FALSE
      BY <2>2
    <3>2. adev[anext] = DeviceEntry(aboard[anext], FALSE)
      BY <1>2, <2>2, <3>1
    <3>3. e = DeviceEntry(aboard[anext], TRUE)
      BY <3>2 DEF DeviceEntry
    <3> QED
      BY <3>1, <3>3
  <2> HIDE DEF e
  <2>4. /\ DOMAIN adev' = 0 .. 3 /\ adev' = [i \in 0 .. 3 |-> adev'[i]]
        /\ \A i \in 0 .. 3 : adev'[i] = IF i = anext THEN e ELSE adev[i]
    BY <1>2, <2>1, <2>2
  <2>5. \A i \in 0 .. 3 : i # anext => DeviceEntry(aboard[i], i < anext + 1) = DeviceEntry(aboard[i], i < anext)
    BY <2>2 DEF DeviceEntry
  <2>6. \A i \in 0 .. 3 : adev'[i] = DeviceEntry(aboard[i], i < anext + 1)
    BY <1>2, <2>3, <2>4, <2>5
  <2>7. \A m \in Majors : (Turn(m) < anext + 1) = FALSE /\ (Turn(m) < anext) = FALSE
    BY <2>2 DEF Turn
  <2>8. ~apanic => \A m \in Majors : adrv[m] = BusDriver(aboard[MasterOf(m)], Turn(m) < anext + 1)
    BY <1>3, <2>7
  <2> QED
    BY <1>1, <1>2, <2>1, <2>2, <2>4, <2>6, <2>8, Zenon DEF ProbeInv
<1>5. ASSUME NEW major \in Majors, NEW ok \in BOOLEAN, RegisterBus(major, ok) PROVE ProbeInv'
  <2> DEFINE d == aboard[MasterOf(major)]
  <2>1. /\ anext = 4 + (IF major = DEVMAJOR_ATA_PRI THEN 0 ELSE 1) /\ ~apanic
        /\ anext' = anext + 1 /\ aboard' = aboard /\ adev' = adev
    BY <1>5, Zenon DEF RegisterBus
  <2>2. /\ anext = Turn(major) /\ anext \in 4 .. 5 /\ anext + 1 \in 0 .. 6 /\ MasterOf(major) \in 0 .. 3
        /\ Turn(major) < anext + 1 /\ ~(Turn(major) < anext)
    BY <2>1 DEF Turn, MasterOf
  <2>3. \A i \in 0 .. 3 : (i < anext) = TRUE /\ (i < anext + 1) = TRUE
    BY <2>2
  <2>4. \A i \in 0 .. 3 : adev[i] = DeviceEntry(aboard[i], i < anext + 1)
    BY <1>2, <2>3
  <2>5. adev[MasterOf(major)].present <=> IsDisk(d)
    BY <1>2, <2>2, <2>3 DEF DeviceEntry
  <2>6. IsDisk(d) => adev[MasterOf(major)].sectors = SizeOf(d)
    BY <1>2, <2>2, <2>3 DEF DeviceEntry
  <2>7. adrv[major] = Unregistered
    BY <1>3, <2>1, <2>2 DEF BusDriver
  <2>8. ASSUME NEW m \in Majors, m # major
        PROVE  (Turn(m) < anext + 1) = (Turn(m) < anext)
    BY <2>2, <2>8 DEF Turn, Majors, DEVMAJOR_ATA_PRI, DEVMAJOR_ATA_SEC
  <2>9. CASE ~IsDisk(d)
    <3>1. adrv' = adrv /\ apanic' = apanic
      BY <1>5, <2>5, <2>9, Zenon DEF RegisterBus
    <3>2. adrv[major] = BusDriver(d, Turn(major) < anext + 1)
      BY <2>7, <2>9 DEF BusDriver
    <3>3. \A m \in Majors : adrv[m] = BusDriver(aboard[MasterOf(m)], Turn(m) < anext + 1)
      BY <1>3, <2>1, <2>8, <3>2
    <3> QED
      BY <1>1, <1>2, <2>1, <2>2, <2>4, <3>1, <3>3, Zenon DEF ProbeInv
  <2>10. CASE IsDisk(d) /\ ~ok
    <3>1. adrv' = adrv /\ apanic' = TRUE
      BY <1>5, <2>5, <2>7, <2>10, Zenon DEF RegisterBus, register_block_driver
    <3> QED
      BY <1>1, <1>2, <2>1, <2>2, <2>4, <3>1, Zenon DEF ProbeInv
  <2>11. CASE IsDisk(d) /\ ok
    <3>1. adrv' = [adrv EXCEPT ![major] = adev[MasterOf(major)].sectors] /\ apanic' = apanic
      BY <1>5, <2>5, <2>7, <2>11, Zenon DEF RegisterBus, register_block_driver
    <3>2. adrv' = [adrv EXCEPT ![major] = SizeOf(d)]
      BY <2>6, <2>11, <3>1
    <3>3. SizeOf(d) = BusDriver(d, Turn(major) < anext + 1)
      BY <2>2, <2>11 DEF BusDriver
    <3>4. /\ DOMAIN adrv' = Majors /\ adrv' = [m \in Majors |-> adrv'[m]]
          /\ \A m \in Majors : adrv'[m] = IF m = major THEN SizeOf(d) ELSE adrv[m]
      BY <1>2, <3>2
    <3>5. \A m \in Majors : adrv'[m] = BusDriver(aboard[MasterOf(m)], Turn(m) < anext + 1)
      BY <1>3, <2>1, <2>8, <3>3, <3>4
    <3> QED
      BY <1>1, <1>2, <2>1, <2>2, <2>4, <3>1, <3>4, <3>5, Zenon DEF ProbeInv
  <2> QED
    BY <2>9, <2>10, <2>11
<1>6. CASE UNCHANGED probeVars
  BY <1>1, <1>2, <1>3, <1>6, Zenon DEF ProbeInv, probeVars
<1> QED
  BY <1>4, <1>5, <1>6, Zenon DEF ProbeNext

\* What the entries say is what the devices are.
LEMMA ProbeImplies == ProbeInv => ProbeSound
<1> SUFFICES ASSUME ProbeInv PROVE ProbeRight /\ ProbeDrivers
  BY Zenon DEF ProbeSound
<1>1. aboard \in [0 .. 3 -> DeviceType] /\ anext \in 0 .. 6
  BY AtaProbeAssumption, Zenon DEF ProbeInv
<1>2. \A i \in 0 .. 3 : aboard[i] \in DeviceType /\ adev[i] = DeviceEntry(aboard[i], i < anext)
  BY <1>1 DEF ProbeInv
<1>3. Before(Len(Layout) + 1) = 256
  <2>1. Len(Layout) + 1 = 23 /\ 23 \in 1 .. 23
    BY BeginsRight
  <2> QED
    BY <2>1, BeforeIs, BeginsRows
<1>4. ASSUME NEW i \in 0 .. 3, i < anext
      PROVE  LET d == aboard[i]
                 words == IF d.lba48 THEN d.secs48 ELSE <<d.secs[1], d.secs[2], 0, 0>>
             IN  /\ adev[i].present = (d.kind = "disk" /\ d.lba)
                 /\ (adev[i].present /\ words[2] < Half) => adev[i].sectors = Value(words)
  <2> DEFINE d == aboard[i]
  <2>1. d \in DeviceType /\ adev[i] = DeviceEntry(d, TRUE) /\ d.lba \in BOOLEAN
    <3>1. (i < anext) = TRUE
      BY <1>4
    <3>2. d \in DeviceType /\ adev[i] = DeviceEntry(d, TRUE)
      BY <1>2, <3>1
    <3> HIDE DEF d
    <3> QED
      BY <3>2 DEF DeviceType
  <2>2. IsDisk(d) <=> d.kind = "disk" /\ d.lba
    BY <2>1, IsDiskRight
  <2> HIDE DEF d
  <2>3. CASE IsDisk(d)
    <3>1. adev[i].present = TRUE /\ adev[i].sectors = SizeOf(d) /\ d.kind = "disk" /\ d.lba = TRUE
      BY <2>1, <2>2, <2>3 DEF DeviceEntry
    <3>2. SizeWords(d)[2] < Half => SizeOf(d) = Value(SizeWords(d))
      BY <2>1, <3>1, SizeRight
    <3> QED
      BY <3>1, <3>2, Zenon DEF SizeWords, d
  <2>4. CASE ~IsDisk(d)
    <3>1. adev[i].present = FALSE
      BY <2>1, <2>4 DEF DeviceEntry
    <3>2. (d.kind = "disk" /\ d.lba) = FALSE
      BY <2>2, <2>4
    <3> QED
      BY <3>1, <3>2, Zenon DEF d
  <2> QED
    BY <2>3, <2>4
<1>5. ProbeRight
  BY <1>3, <1>4, Zenon DEF ProbeRight
<1>6. ASSUME anext = 6, ~apanic, NEW m \in Majors
      PROVE  LET master == aboard[IF m = 3 THEN 0 ELSE 2]
             IN  adrv[m] = IF master.kind = "disk" /\ master.lba THEN SizeOf(master) ELSE Unregistered
  <2> DEFINE k == IF m = 3 THEN 0 ELSE 2
  <2>1. k \in 0 .. 3 /\ k = MasterOf(m) /\ (Turn(m) < anext) = TRUE
    BY <1>6 DEF MasterOf, Turn, DEVMAJOR_ATA_PRI
  <2>2. adrv[m] = BusDriver(aboard[k], TRUE)
    BY <1>6, <2>1 DEF ProbeInv
  <2>3. IsDisk(aboard[k]) <=> aboard[k].kind = "disk" /\ aboard[k].lba
    BY <1>2, <2>1, IsDiskRight
  <2> HIDE DEF k
  <2>4. adrv[m] = IF aboard[k].kind = "disk" /\ aboard[k].lba THEN SizeOf(aboard[k]) ELSE Unregistered
    BY <2>2, <2>3 DEF BusDriver
  <2> QED
    BY <2>4, Zenon DEF k
<1>7. ProbeDrivers
  BY <1>6, Zenon DEF ProbeDrivers
<1> QED
  BY <1>5, <1>7

\* For every width of a word and all devices: a device is taken for a disk
\* exactly if it is one with LBA, with the size that it tells as long as the
\* highest bit of the second word of the size is clear; all 256 words of the
\* answer are read; and a bus gets the driver of its master (ata_generic.c
\* 161, 242, 297, 394).
THEOREM ProbingSound == ProbeSpec => []ProbeSound
<1>1. ProbeInit => ProbeInv
  BY ProbeStart
<1>2. ProbeInv /\ [ProbeNext]_probeVars => ProbeInv'
  BY ProbeKept
<1>3. ProbeInv => ProbeSound
  BY ProbeImplies
<1> QED
  BY <1>1, <1>2, <1>3, PTL DEF ProbeSpec
============================================================================
