--------------------------- MODULE ConsoleProofs ---------------------------
(***************************************************************************)
(* Keyboard and screen.  The keyboard ring keeps its books for every size  *)
(* of the ring, any number of keystrokes and any behaviour of sleep_on; the*)
(* screen shows the end of the text for every size of the screen; numbers, *)
(* tokens, the command line and the root device are read right for every   *)
(* input that Text says they are.                                          *)
(***************************************************************************)
EXTENDS Keyboard, Console, Text, Residues, SequenceTheorems, FiniteSetTheorems, TLAPS

LOCAL INSTANCE SequencesExt

\* The inductive invariant: the positions are in range and agree with the
\* counter.
RingInv ==
    /\ cbuffer_write_pos \in 0 .. N
    /\ cbuffer_read_pos \in 0 .. N
    /\ cbuffer_avail \in Int
    /\ reader \in {"out", "sleep", "take", "advance", "decl"}
    /\ Accounted

\* What Accounted says is a multiple of N.
Balance ==
    cbuffer_write_pos - cbuffer_read_pos - cbuffer_avail
        + (IF reader = "decl" THEN 1 ELSE 0)

\* A step that changes the balance by one lap, or not at all, keeps it.
LEMMA Laps ==
  ASSUME RingInv, NEW y \in Int, y = Balance \/ y + N = Balance \/ y = Balance + N
  PROVE  y % N = 0
<1>1. N \in Nat \ {0} /\ Balance \in Int /\ Balance % N = 0
  BY KeyboardAssumption DEF RingInv, Accounted, Balance
<1>2. CASE y = Balance
  BY <1>1, <1>2
<1>3. CASE y + N = Balance
  <2>1. (y + N) % N = y % N
    BY <1>1, ModPeriod, Zenon
  <2> QED
    BY <1>1, <1>3, <2>1
<1>4. CASE y = Balance + N
  <2>1. (Balance + N) % N = Balance % N
    BY <1>1, ModPeriod, Zenon
  <2> QED
    BY <1>1, <1>4, <2>1
<1> QED
  BY <1>2, <1>3, <1>4

\* keyboard_handler keeps the books.
LEMMA HandlerBalance == ASSUME RingInv, keyboard_handler PROVE RingInv'
<1>1. /\ cbuffer_write_pos' \in 0 .. N /\ cbuffer_read_pos' = cbuffer_read_pos
      /\ cbuffer_avail' = cbuffer_avail + 1
      /\ \/ cbuffer_write_pos' = cbuffer_write_pos + 1
         \/ cbuffer_write_pos = N /\ cbuffer_write_pos' = 1
  BY KeyboardAssumption DEF RingInv, keyboard_handler, WritePos
<1>2. /\ reader' \in {"out", "sleep", "take", "advance", "decl"}
      /\ (IF reader' = "decl" THEN 1 ELSE 0) = (IF reader = "decl" THEN 1 ELSE 0)
  BY DEF RingInv, keyboard_handler, wakeup
<1>3. Balance' \in Int /\ (Balance' = Balance \/ Balance' + N = Balance)
  <2> DEFINE d == IF reader = "decl" THEN 1 ELSE 0
  <2>1. /\ Balance = cbuffer_write_pos - cbuffer_read_pos - cbuffer_avail + d
        /\ Balance' = cbuffer_write_pos' - cbuffer_read_pos - (cbuffer_avail + 1) + d
    BY <1>1, <1>2 DEF Balance
  <2>2. /\ N \in Int /\ d \in Int /\ cbuffer_write_pos \in Int
        /\ cbuffer_read_pos \in Int /\ cbuffer_avail \in Int
    BY KeyboardAssumption DEF RingInv
  <2> HIDE DEF d
  <2>3. CASE cbuffer_write_pos' = cbuffer_write_pos + 1
    BY <2>1, <2>2, <2>3
  <2>4. CASE cbuffer_write_pos = N /\ cbuffer_write_pos' = 1
    BY <2>1, <2>2, <2>4
  <2> QED
    BY <1>1, <2>3, <2>4
<1>4. Balance' % N = 0
  BY <1>3, Laps
<1> QED
  BY <1>1, <1>2, <1>4 DEF RingInv, Accounted, Balance

\* So does every step of the reader.
LEMMA ReaderBalance == ASSUME RingInv, Reader PROVE RingInv'
<1>1. /\ cbuffer_write_pos' = cbuffer_write_pos
      /\ cbuffer_read_pos' \in 0 .. N /\ cbuffer_avail' \in Int
      /\ reader' \in {"out", "sleep", "take", "advance", "decl"}
  BY KeyboardAssumption
     DEF RingInv, Reader, Proceed, kbc_read_from_buffer, EarlyReturn, ReadTake,
         ReadAdvance, ReadDecl, Return, ring
<1>2. Balance' \in Int /\ (Balance' = Balance \/ Balance' = Balance + N)
  <2>1. CASE kbc_read_from_buffer \/ EarlyReturn \/ ReadTake
    BY <2>1, KeyboardAssumption
       DEF RingInv, kbc_read_from_buffer, EarlyReturn, ReadTake, ring, Balance
  <2>2. CASE ReadAdvance
    BY <2>2, KeyboardAssumption DEF RingInv, ReadAdvance, Return, Balance
  <2>3. CASE ReadDecl
    BY <2>3, KeyboardAssumption DEF RingInv, ReadDecl, Return, Balance
  <2> QED
    BY <2>1, <2>2, <2>3 DEF Reader, Proceed
<1>3. Balance' % N = 0
  BY <1>2, Laps
<1> QED
  BY <1>1, <1>3 DEF RingInv, Accounted, Balance

\* Handler and reader never disagree about how much of the ring is filled,
\* in any interleaving, lap after lap.
THEOREM RingAccounted == KbdSpec => []Accounted
<1>1. KbdInit => RingInv
  BY KeyboardAssumption, ModLow DEF KbdInit, RingInv, Accounted
<1>2. RingInv /\ [KbdNext]_kbdVars => RingInv'
  <2> SUFFICES ASSUME RingInv, [KbdNext]_kbdVars PROVE RingInv'
    OBVIOUS
  <2>1. CASE UNCHANGED kbdVars
    BY <2>1 DEF kbdVars, ring, RingInv, Accounted
  <2> QED
    BY <2>1, HandlerBalance, ReaderBalance DEF KbdNext
<1>3. RingInv => Accounted
  BY DEF RingInv
<1> QED
  BY <1>1, <1>2, <1>3, PTL DEF KbdSpec

\* The byte behind the ring is never written: the handler's index stays
\* inside, whatever the positions were.
THEOREM WritesInside == KbdSpec => []NoOverflow
<1> DEFINE Inv == /\ keyboard_buffer \in [0 .. N -> Nat]
                  /\ cbuffer_write_pos \in 0 .. N
                  /\ typed \in Nat
                  /\ NoOverflow
<1>1. KbdInit => Inv
  BY KeyboardAssumption DEF KbdInit, NoOverflow, Junk
<1>2. Inv /\ [KbdNext]_kbdVars => Inv'
  <2> SUFFICES ASSUME Inv, [KbdNext]_kbdVars PROVE Inv'
    OBVIOUS
  <2>1. CASE keyboard_handler
    BY <2>1, KeyboardAssumption DEF keyboard_handler, WritePos, NoOverflow
  <2>2. CASE Reader \/ UNCHANGED kbdVars
    BY <2>2
       DEF Reader, Proceed, kbc_read_from_buffer, EarlyReturn, ReadTake, ReadAdvance,
           ReadDecl, ring, kbdVars, NoOverflow
  <2> QED
    BY <2>1, <2>2 DEF KbdNext
<1>3. Inv => NoOverflow
  OBVIOUS
<1> QED
  BY <1>1, <1>2, <1>3, PTL DEF KbdSpec

----------------------------------------------------------------------------
\* The first lap: until the ring has been filled once, and while sleep_on has
\* not returned early, slot i holds key i + 1, the positions are the numbers
\* of keys typed and read, and a reader past the test has a key to take.
OnePerSlot ==
    /\ cbuffer_write_pos = typed
    /\ \A i \in 0 .. typed - 1 : keyboard_buffer[i] = i + 1
    /\ reads <= typed
    /\ cbuffer_avail = typed - reads
    /\ cbuffer_read_pos = (IF reader = "decl" THEN reads + 1 ELSE reads)
    /\ reader \in {"take", "advance", "decl"} => reads < typed
    /\ reader \in {"advance", "decl"} => key = reads + 1
    /\ reads > 0 => last = reads

FirstLap == typed <= N /\ ~early => OnePerSlot

\* Every step keeps the types.
LEMMA KeyboardTypes == ASSUME KbdTypeOK, [KbdNext]_kbdVars PROVE KbdTypeOK'
<1>1. CASE keyboard_handler
  BY <1>1, KeyboardAssumption DEF KbdTypeOK, keyboard_handler, WritePos, wakeup
<1>2. CASE kbc_read_from_buffer \/ EarlyReturn \/ ReadTake \/ UNCHANGED kbdVars
  BY <1>2, KeyboardAssumption
     DEF KbdTypeOK, kbc_read_from_buffer, EarlyReturn, ReadTake, ring, kbdVars
<1>3. CASE ReadAdvance
  <2>1. early' \in BOOLEAN /\ overrun' \in BOOLEAN
    BY <1>3, Zenon DEF KbdTypeOK, ReadAdvance
  <2>2. got' \subseteq Nat
    BY <1>3 DEF KbdTypeOK, ReadAdvance, Return
  <2> QED
    BY <1>3, <2>1, <2>2, KeyboardAssumption DEF KbdTypeOK, ReadAdvance, Return, Junk
<1>4. CASE ReadDecl
  BY <1>4, KeyboardAssumption DEF KbdTypeOK, ReadDecl, Return, Junk
<1> QED
  BY <1>1, <1>2, <1>3, <1>4 DEF KbdNext, Reader, Proceed

\* The handler fills the slot behind the last key, and whoever it wakes has a
\* key to take.
LEMMA HandlerFirstLap ==
  ASSUME KbdTypeOK, OnePerSlot, keyboard_handler, typed' <= N PROVE OnePerSlot'
<1>1. /\ typed \in Nat /\ typed' = typed + 1 /\ typed < N
      /\ WritePos = typed /\ cbuffer_write_pos' = typed'
  BY KeyboardAssumption DEF KbdTypeOK, OnePerSlot, keyboard_handler, WritePos
<1>2. keyboard_buffer' = [keyboard_buffer EXCEPT ![typed] = typed + 1]
  BY <1>1 DEF keyboard_handler
<1>3. \A i \in 0 .. typed' - 1 : keyboard_buffer'[i] = i + 1
  BY <1>1, <1>2, KeyboardAssumption DEF KbdTypeOK, OnePerSlot
<1>4. /\ reads' = reads /\ reads \in Nat /\ reads' <= typed' /\ cbuffer_avail' = typed' - reads'
      /\ key' = key /\ last' = last /\ cbuffer_read_pos' = cbuffer_read_pos
  BY <1>1 DEF KbdTypeOK, OnePerSlot, keyboard_handler
<1>5. /\ cbuffer_read_pos' = (IF reader' = "decl" THEN reads' + 1 ELSE reads')
      /\ reader' \in {"take", "advance", "decl"} => reads' < typed'
      /\ reader' \in {"advance", "decl"} => key' = reads' + 1
  BY <1>1, <1>4 DEF KbdTypeOK, OnePerSlot, keyboard_handler, wakeup
<1> QED
  BY <1>1, <1>3, <1>4, <1>5 DEF OnePerSlot

\* The reader takes the key behind the last it has returned, and does not
\* wrap.
LEMMA ReaderFirstLap ==
  ASSUME KbdTypeOK, OnePerSlot, typed <= N, Proceed PROVE OnePerSlot'
<1>1. CASE kbc_read_from_buffer
  BY <1>1, KeyboardAssumption DEF KbdTypeOK, OnePerSlot, kbc_read_from_buffer, ring
<1>2. CASE ReadTake
  BY <1>2, KeyboardAssumption DEF KbdTypeOK, OnePerSlot, ReadTake, ring
<1>3. CASE ReadAdvance
  <2>1. cbuffer_read_pos < N
    BY <1>3, KeyboardAssumption DEF KbdTypeOK, OnePerSlot, ReadAdvance
  <2> QED
    BY <1>3, <2>1, KeyboardAssumption DEF KbdTypeOK, OnePerSlot, ReadAdvance
<1>4. CASE ReadDecl
  BY <1>4, KeyboardAssumption DEF KbdTypeOK, OnePerSlot, ReadDecl, Return
<1> QED
  BY <1>1, <1>2, <1>3, <1>4 DEF Proceed

\* Every step keeps what is known of the first lap.
LEMMA KeyboardFirstLap == ASSUME KbdTypeOK, FirstLap, [KbdNext]_kbdVars PROVE FirstLap'
<1> SUFFICES ASSUME typed' <= N, ~early' PROVE OnePerSlot'
  BY DEF FirstLap
<1>1. CASE keyboard_handler
  <2>1. early' = early
    BY <1>1 DEF keyboard_handler
  <2>2. typed \in Nat /\ typed' = typed + 1 /\ N \in Nat
    BY <1>1, KeyboardAssumption DEF KbdTypeOK, keyboard_handler
  <2>3. typed <= N
    BY <2>2
  <2> QED
    BY <1>1, <2>1, <2>3, HandlerFirstLap DEF FirstLap
<1>2. CASE Proceed
  <2>1. early' = early /\ typed' = typed
    BY <1>2, Zenon
       DEF Proceed, kbc_read_from_buffer, ReadTake, ReadAdvance, ReadDecl
  <2> QED
    BY <1>2, <2>1, ReaderFirstLap DEF FirstLap
<1>3. CASE EarlyReturn
  BY <1>3 DEF EarlyReturn
<1>4. CASE UNCHANGED kbdVars
  BY <1>4 DEF kbdVars, ring, FirstLap, OnePerSlot
<1> QED
  BY <1>1, <1>2, <1>3, <1>4 DEF KbdNext, Reader

\* The positions never leave the array by more than one slot, and the i-th
\* read returns the i-th key until the ring has been filled once, in every
\* interleaving of the handler with the steps of the reader.
THEOREM KeyboardKeysSound == KbdSpec => []KeysSound
<1> DEFINE Inv == KbdTypeOK /\ FirstLap
<1>1. KbdInit => Inv
  <2> SUFFICES ASSUME KbdInit PROVE Inv
    OBVIOUS
  <2>1. KbdTypeOK
    <3>1. early \in BOOLEAN /\ overrun \in BOOLEAN
      BY Zenon DEF KbdInit
    <3> QED
      BY <3>1, KeyboardAssumption DEF KbdInit, KbdTypeOK, Junk
  <2>2. OnePerSlot
    BY KeyboardAssumption DEF KbdInit, OnePerSlot
  <2> QED
    BY <2>1, <2>2 DEF FirstLap
<1>2. Inv /\ [KbdNext]_kbdVars => Inv'
  BY KeyboardTypes, KeyboardFirstLap
<1>3. Inv => KeysSound
  BY DEF KeysSound, FirstLap, OnePerSlot, KeysInOrder
<1> QED
  BY <1>1, <1>2, <1>3, PTL DEF KbdSpec

----------------------------------------------------------------------------
(***************************************************************************)
(* The screen.  The invariant adds the row below the screen, which a scroll*)
(* brings up, and the place of the cursor.                                 *)
(***************************************************************************)
\* The place of column x of row y; the number of lines that have left the
\* screen; the k-th character of the i-th line.
CellAt(y, x) == VIDEO_COLS * y + x
Gone(n) == IF n > VIDEO_ROWS THEN n - VIDEO_ROWS ELSE 0
CharAt(lines, i, k) == IF i <= Len(lines) /\ k <= Len(lines[i]) THEN lines[i][k] ELSE Blank

\* Video memory, the row below the screen included, shows the lines.
Shows(mem, lines) ==
    \A y \in 0 .. VIDEO_ROWS, x \in 0 .. VIDEO_COLS - 1 :
        mem[CellAt(y, x)] = CharAt(lines, Gone(Len(lines)) + y + 1, x + 1)

\* The inductive invariant: and the cursor stands behind the last line.
ConInv ==
    ~clong =>
        /\ clines \in Seq(Seq(Glyphs)) /\ clines # <<>>
        /\ DOMAIN cmem = Places /\ cmem = [p \in Places |-> cmem[p]]
        /\ px = Len(clines[Len(clines)]) /\ px <= VIDEO_COLS
        /\ py = Len(clines) - Gone(Len(clines)) - 1
        /\ Shows(cmem, clines)

\* Columns and rows are told from the place, and the other way round.
LEMMA PlaceOf ==
  ASSUME NEW y \in 0 .. VIDEO_ROWS, NEW x \in 0 .. VIDEO_COLS - 1
  PROVE  /\ CellAt(y, x) \in Places
         /\ \A b \in 0 .. VIDEO_ROWS, a \in 0 .. VIDEO_COLS - 1 :
               CellAt(y, x) = CellAt(b, a) => y = b /\ x = a
<1> DEFINE c == VIDEO_COLS
           r == VIDEO_ROWS
<1>1. c \in Nat \ {0} /\ r \in Nat \ {0}
  BY ConsoleAssumption
<1>2. CellAt(y, x) \in Places
  <2> HIDE DEF c, r
  <2>1. c * y + x \in 0 .. c * (r + 1) - 1
    <3>1. y \in 0 .. r /\ x \in 0 .. c - 1
      BY DEF c, r
    <3>2. c * y \in Nat /\ c * r \in Nat /\ c * (r + 1) = c * r + c
      BY <1>1, <3>1
    <3>3. c * y <= c * r
      BY <1>1, <3>1
    <3> QED
      BY <1>1, <3>1, <3>2, <3>3
  <2> QED
    BY <2>1 DEF CellAt, Places, c, r
<1>3. ASSUME NEW b \in 0 .. VIDEO_ROWS, NEW a \in 0 .. VIDEO_COLS - 1, CellAt(y, x) = CellAt(b, a)
      PROVE  y = b /\ x = a
  <2>1. (c * y + x) \div c = y /\ (c * y + x) % c = x
    <3>1. y \in Nat /\ x \in 0 .. c - 1
      BY <1>1
    <3> QED
      BY <1>1, <3>1, DivModUnique
  <2>2. (c * b + a) \div c = b /\ (c * b + a) % c = a
    <3>1. b \in Nat /\ a \in 0 .. c - 1
      BY <1>1
    <3> QED
      BY <1>1, <3>1, DivModUnique
  <2>3. c * y + x = c * b + a
    BY <1>3 DEF CellAt
  <2> QED
    BY <2>1, <2>2, <2>3
<1> QED
  BY <1>2, <1>3

\* The rows on the screen and the lines of the text.
LEMMA GoneRange ==
  ASSUME NEW n \in Nat \ {0}
  PROVE  /\ Gone(n) \in Nat /\ Gone(n) < n /\ n - Gone(n) - 1 \in 0 .. VIDEO_ROWS - 1
         /\ n >= VIDEO_ROWS => Gone(n + 1) = Gone(n) + 1 /\ n - Gone(n) - 1 = VIDEO_ROWS - 1
                                 /\ Gone(n) = n - VIDEO_ROWS
         /\ n < VIDEO_ROWS => Gone(n + 1) = 0 /\ Gone(n) = 0
BY ConsoleAssumption DEF Gone

\* line is the last line with ch in column x, and nothing else of it differs.
Replaces(line, lines, x, ch) ==
    \A k \in 1 .. VIDEO_COLS :
        (IF k <= Len(line) THEN line[k] ELSE Blank) =
            IF k = x + 1 THEN ch ELSE CharAt(lines, Len(lines), k)

\* One character stored at the cursor's row changes the text there.
LEMMA Stored ==
  ASSUME NEW mem, DOMAIN mem = Places, NEW lines \in Seq(Seq(Glyphs)), lines # <<>>,
         Shows(mem, lines), NEW line \in Seq(Glyphs), NEW x \in 0 .. VIDEO_COLS - 1, NEW ch,
         Replaces(line, lines, x, ch)
  PROVE  Shows([mem EXCEPT ![CellAt(Len(lines) - Gone(Len(lines)) - 1, x)] = ch],
               [lines EXCEPT ![Len(lines)] = line])
<1> DEFINE n == Len(lines)
           row == n - Gone(n) - 1
           new == [lines EXCEPT ![n] = line]
           mem2 == [mem EXCEPT ![CellAt(row, x)] = ch]
<1>1. n \in Nat \ {0} /\ VIDEO_COLS \in Nat \ {0} /\ VIDEO_ROWS \in Nat \ {0}
  BY ConsoleAssumption
<1>2. Gone(n) \in Nat /\ Gone(n) < n /\ row \in 0 .. VIDEO_ROWS - 1
  BY <1>1, GoneRange
<1>3. /\ new \in Seq(Seq(Glyphs)) /\ Len(new) = n /\ new[n] = line
      /\ \A i \in 1 .. n : i # n => new[i] = lines[i]
  BY <1>1
<1> HIDE DEF new
<1>4. SUFFICES ASSUME NEW y \in 0 .. VIDEO_ROWS, NEW a \in 0 .. VIDEO_COLS - 1
               PROVE  mem2[CellAt(y, a)] = CharAt(new, Gone(n) + y + 1, a + 1)
  BY <1>3 DEF Shows, new
<1>5. CellAt(y, a) \in Places /\ CellAt(row, x) \in Places
      /\ (CellAt(y, a) = CellAt(row, x) => y = row /\ a = x)
  <2>1. row \in 0 .. VIDEO_ROWS
    BY <1>1, <1>2
  <2> QED
    BY <2>1, PlaceOf
<1>6. mem[CellAt(y, a)] = CharAt(lines, Gone(n) + y + 1, a + 1)
  BY DEF Shows
<1>7. mem2[CellAt(y, a)] = IF y = row /\ a = x THEN ch ELSE mem[CellAt(y, a)]
  BY <1>5
<1> HIDE DEF mem2
<1>8. CASE y = row
  <2>1. Gone(n) + y + 1 = n /\ a + 1 \in 1 .. VIDEO_COLS /\ (a + 1 = x + 1 <=> a = x)
    BY <1>1, <1>2, <1>8
  <2>2. CharAt(new, n, a + 1) = IF a + 1 <= Len(line) THEN line[a + 1] ELSE Blank
    BY <1>1, <1>3 DEF CharAt
  <2>3. CharAt(new, n, a + 1) = IF a + 1 = x + 1 THEN ch ELSE CharAt(lines, n, a + 1)
    BY <2>1, <2>2 DEF Replaces
  <2> QED
    BY <1>6, <1>7, <1>8, <2>1, <2>3
<1>9. CASE y # row
  <2>1. Gone(n) + y + 1 # n /\ Gone(n) + y + 1 \in Nat \ {0}
    BY <1>1, <1>2, <1>9
  <2>2. CharAt(new, Gone(n) + y + 1, a + 1) = CharAt(lines, Gone(n) + y + 1, a + 1)
    <3> DEFINE i == Gone(n) + y + 1
    <3>1. i \in Nat \ {0} /\ i # n
      BY <2>1
    <3> HIDE DEF i
    <3>2. i <= n => new[i] = lines[i]
      BY <1>1, <1>3, <3>1
    <3>4. CharAt(new, i, a + 1) = CharAt(lines, i, a + 1)
      BY <1>3, <3>2 DEF CharAt
    <3> QED
      BY <3>4 DEF i
  <2> QED
    BY <1>6, <1>7, <1>9, <2>2
<1> QED
  BY <1>8, <1>9

\* A new line: the next row, or the last one again after the screen has
\* scrolled.
LEMMA NewLine ==
  ASSUME ConInv, ~clong, NEW s, s = NextRow(Screen)
  PROVE  /\ DOMAIN s.mem = Places /\ s.mem = [p \in Places |-> s.mem[p]]
         /\ s.x = 0 /\ s.y = Len(clines) - Gone(Len(clines) + 1)
         /\ Shows(s.mem, Append(clines, <<>>))
<1> DEFINE n == Len(clines)
           new == Append(clines, <<>>)
<1>1. /\ clines \in Seq(Seq(Glyphs)) /\ n \in Nat \ {0} /\ DOMAIN cmem = Places
      /\ cmem = [p \in Places |-> cmem[p]]
      /\ py = n - Gone(n) - 1 /\ Shows(cmem, clines)
  BY DEF ConInv
<1>2. VIDEO_COLS \in Nat \ {0} /\ VIDEO_ROWS \in Nat \ {0}
  BY ConsoleAssumption
<1>3. /\ Gone(n) \in Nat /\ Gone(n) < n /\ py \in 0 .. VIDEO_ROWS - 1
      /\ n >= VIDEO_ROWS => /\ Gone(n + 1) = Gone(n) + 1 /\ py = VIDEO_ROWS - 1
                            /\ Gone(n) = n - VIDEO_ROWS
      /\ n < VIDEO_ROWS => Gone(n + 1) = 0 /\ Gone(n) = 0
  BY <1>1, GoneRange
<1>4. Len(new) = n + 1 /\ new[n + 1] = <<>> /\ \A i \in 1 .. n : new[i] = clines[i]
  BY <1>1
<1> HIDE DEF new
<1>5. ASSUME NEW i \in Nat \ {0}, NEW k \in Nat \ {0} PROVE CharAt(new, i, k) = CharAt(clines, i, k)
  <2>1. CASE i <= n
    BY <1>1, <1>4, <2>1 DEF CharAt
  <2>2. CASE i = n + 1
    <3>1. CharAt(clines, i, k) = Blank
      BY <1>1, <2>2 DEF CharAt
    <3>2. Len(new[i]) = 0
      BY <1>4, <2>2
    <3>3. CharAt(new, i, k) = Blank
      BY <3>2 DEF CharAt
    <3> QED
      BY <3>1, <3>3
  <2>3. CASE i > n + 1
    BY <1>1, <1>4, <2>3 DEF CharAt
  <2> QED
    BY <1>1, <2>1, <2>2, <2>3
<1>6. CASE n >= VIDEO_ROWS
  <2>1. s = [mem |-> scroll_screen(cmem), x |-> 0, y |-> VIDEO_ROWS - 1]
    BY <1>2, <1>3, <1>6 DEF NextRow, Screen
  <2>2. s.mem = scroll_screen(cmem) /\ s.x = 0 /\ s.y = VIDEO_ROWS - 1
    BY <2>1
  <2>3. /\ DOMAIN s.mem = Places /\ s.mem = [p \in Places |-> s.mem[p]]
        /\ \A p \in Places : s.mem[p] =
              IF p < VIDEO_COLS * VIDEO_ROWS THEN cmem[p + VIDEO_COLS] ELSE cmem[p]
    BY <2>2 DEF scroll_screen
  <2>4. ASSUME NEW y \in 0 .. VIDEO_ROWS, NEW x \in 0 .. VIDEO_COLS - 1
        PROVE  s.mem[CellAt(y, x)] = CharAt(new, Gone(n + 1) + y + 1, x + 1)
    <3>1. CellAt(y, x) \in Places
      BY PlaceOf
    <3>2. CASE y < VIDEO_ROWS
      <4>1. y + 1 \in 0 .. VIDEO_ROWS
        BY <1>2, <3>2
      <4>2. CellAt(y, x) < VIDEO_COLS * VIDEO_ROWS /\ CellAt(y, x) + VIDEO_COLS = CellAt(y + 1, x)
        <5> DEFINE c == VIDEO_COLS
                   r == VIDEO_ROWS
        <5>1. c \in Nat \ {0} /\ r \in Nat \ {0} /\ y \in Nat /\ y + 1 <= r /\ x \in 0 .. c - 1
          BY <1>2, <3>2
        <5> HIDE DEF c, r
        <5>2. c * (y + 1) <= c * r /\ c * (y + 1) = c * y + c /\ c * y \in Nat /\ c * r \in Nat
          BY <5>1
        <5>3. c * y + x < c * r /\ (c * y + x) + c = c * (y + 1) + x
          BY <5>1, <5>2
        <5> QED
          BY <5>3 DEF CellAt, c, r
      <4>3. s.mem[CellAt(y, x)] = cmem[CellAt(y + 1, x)]
        BY <2>3, <3>1, <4>2
      <4>4. cmem[CellAt(y + 1, x)] = CharAt(clines, Gone(n) + (y + 1) + 1, x + 1)
        BY <1>1, <4>1 DEF Shows
      <4>5. /\ Gone(n) + (y + 1) + 1 = Gone(n + 1) + y + 1
            /\ Gone(n) + (y + 1) + 1 \in Nat \ {0} /\ x + 1 \in Nat \ {0}
        BY <1>2, <1>3, <1>6
      <4> QED
        BY <1>5, <4>3, <4>4, <4>5
    <3>3. CASE y = VIDEO_ROWS
      <4>1. ~(CellAt(y, x) < VIDEO_COLS * VIDEO_ROWS)
        <5> DEFINE c == VIDEO_COLS * VIDEO_ROWS
        <5>1. c \in Int /\ CellAt(y, x) = c + x /\ x \in Nat
          BY <1>2, <3>3 DEF CellAt
        <5> HIDE DEF c
        <5>2. ~(CellAt(y, x) < c)
          BY <5>1
        <5> QED
          BY <5>2 DEF c
      <4>2. s.mem[CellAt(y, x)] = cmem[CellAt(y, x)]
        BY <2>3, <3>1, <4>1
      <4>3. cmem[CellAt(y, x)] = CharAt(clines, Gone(n) + y + 1, x + 1)
        BY <1>1 DEF Shows
      <4>4. Gone(n) + y + 1 = n + 1 /\ Gone(n + 1) + y + 1 = n + 2
        <5>1. Gone(n + 1) = Gone(n) + 1 /\ Gone(n) = n - VIDEO_ROWS /\ n \in Nat /\ VIDEO_ROWS \in Nat
          BY <1>2, <1>3, <1>6
        <5> HIDE DEF n
        <5> QED
          BY <3>3, <5>1
      <4>5. CharAt(clines, n + 1, x + 1) = Blank
        BY <1>1 DEF CharAt
      <4>6. CharAt(new, n + 2, x + 1) = Blank
        BY <1>1, <1>4 DEF CharAt
      <4> QED
        BY <4>2, <4>3, <4>4, <4>5, <4>6
    <3> QED
      BY <1>2, <3>2, <3>3
  <2>5. Shows(s.mem, new)
    BY <1>4, <2>4 DEF Shows
  <2>6. s.y = n - Gone(n + 1)
    BY <1>1, <1>2, <1>3, <1>6, <2>2
  <2> QED
    BY <2>2, <2>3, <2>5, <2>6 DEF new
<1>7. CASE n < VIDEO_ROWS
  <2>1. py = n - 1 /\ ~(py + 1 >= VIDEO_ROWS)
    BY <1>1, <1>2, <1>3, <1>7
  <2>2. s.mem = cmem /\ s.x = 0 /\ s.y = py + 1
    BY <2>1 DEF NextRow, Screen
  <2>3. ASSUME NEW y \in 0 .. VIDEO_ROWS, NEW x \in 0 .. VIDEO_COLS - 1
        PROVE  s.mem[CellAt(y, x)] = CharAt(new, Gone(n + 1) + y + 1, x + 1)
    <3>1. s.mem[CellAt(y, x)] = CharAt(clines, Gone(n) + y + 1, x + 1)
      BY <1>1, <2>2 DEF Shows
    <3>2. Gone(n) = 0 /\ Gone(n + 1) = 0 /\ 0 + y + 1 \in Nat \ {0} /\ x + 1 \in Nat \ {0}
      BY <1>2, <1>3, <1>7
    <3> QED
      BY <1>5, <3>1, <3>2
  <2>4. Shows(s.mem, new)
    BY <1>4, <2>3 DEF Shows
  <2>5. s.y = n - Gone(n + 1)
    BY <1>1, <1>3, <1>7, <2>1, <2>2
  <2> QED
    BY <1>1, <2>2, <2>4, <2>5 DEF new
<1> QED
  BY <1>1, <1>2, <1>6, <1>7

\* writechar inside a row.
LEMMA Written ==
  ASSUME NEW x \in 0 .. VIDEO_COLS - 1, NEW mem, NEW y, NEW ch
  PROVE  writechar([mem |-> mem, x |-> x, y |-> y], ch) =
           [mem |-> [mem EXCEPT ![CellAt(y, x)] = ch], x |-> x + 1, y |-> y]
<1> DEFINE s == [mem |-> mem, x |-> x, y |-> y]
           r == [s EXCEPT !.x = @ + 1]
<1>1. ~(s.x >= VIDEO_COLS) /\ VIDEO_COLS * s.y + s.x = CellAt(y, x)
  BY ConsoleAssumption DEF CellAt
<1>2. writechar(s, ch) = [r EXCEPT !.mem[CellAt(y, x)] = ch]
  BY <1>1 DEF writechar
<1>3. r = [mem |-> mem, x |-> x + 1, y |-> y]
  OBVIOUS
<1> HIDE DEF r, s
<1>4. [r EXCEPT !.mem[CellAt(y, x)] = ch] = [r EXCEPT !.mem = [r.mem EXCEPT ![CellAt(y, x)] = ch]]
  BY <1>3
<1>5. [r EXCEPT !.mem = [r.mem EXCEPT ![CellAt(y, x)] = ch]] =
        [mem |-> [mem EXCEPT ![CellAt(y, x)] = ch], x |-> x + 1, y |-> y]
  BY <1>3
<1> QED
  BY <1>2, <1>4, <1>5 DEF s

\* Every step keeps the screen's invariant.
LEMMA ConKept == ASSUME ConInv, [ConNext]_conVars PROVE ConInv'
<1> SUFFICES ASSUME ~clong'
             PROVE  /\ clines' \in Seq(Seq(Glyphs)) /\ clines' # <<>>
                    /\ DOMAIN cmem' = Places /\ cmem' = [p \in Places |-> cmem'[p]]
                    /\ px' = Len(clines'[Len(clines')]) /\ px' <= VIDEO_COLS
                    /\ py' = Len(clines') - Gone(Len(clines')) - 1
                    /\ Shows(cmem', clines')
  BY DEF ConInv, Shows
<1>1. CASE UNCHANGED conVars
  <2>1. cmem' = cmem /\ px' = px /\ py' = py /\ clines' = clines /\ clong' = clong
    BY <1>1 DEF conVars
  <2> QED
    BY <2>1 DEF ConInv
<1>2. ASSUME NEW ch \in Glyphs \cup {"LF", "BS"}, PrintChar(ch)
      PROVE  /\ clines' \in Seq(Seq(Glyphs)) /\ clines' # <<>>
             /\ DOMAIN cmem' = Places /\ cmem' = [p \in Places |-> cmem'[p]]
             /\ px' = Len(clines'[Len(clines')]) /\ px' <= VIDEO_COLS
             /\ py' = Len(clines') - Gone(Len(clines')) - 1
             /\ Shows(cmem', clines')
  <2> DEFINE n == Len(clines)
             line == clines[n]
             s == kprint(Screen, ch)
  <2>1. ~clong /\ ~(Len(clines'[Len(clines')]) > VIDEO_COLS)
    BY <1>2 DEF PrintChar, Last
  <2>2. /\ clines \in Seq(Seq(Glyphs)) /\ n \in Nat \ {0} /\ DOMAIN cmem = Places
        /\ cmem = [p \in Places |-> cmem[p]]
        /\ line \in Seq(Glyphs) /\ px = Len(line) /\ px \in Nat /\ px <= VIDEO_COLS
        /\ py = n - Gone(n) - 1 /\ Shows(cmem, clines) /\ clines # <<>>
    BY <2>1 DEF ConInv
  <2>3. VIDEO_COLS \in Nat \ {0} /\ VIDEO_ROWS \in Nat \ {0}
    BY ConsoleAssumption
  <2>4. cmem' = s.mem /\ px' = s.x /\ py' = s.y /\ clines' = Typed(ch)
    BY <1>2 DEF PrintChar
  <2>5. CASE ch = "LF"
    <3>1. s = NextRow(Screen) /\ clines' = Append(clines, <<>>)
      BY <2>4, <2>5 DEF kprint, Typed
    <3> HIDE DEF s
    <3>2. /\ DOMAIN s.mem = Places /\ s.mem = [p \in Places |-> s.mem[p]]
          /\ s.x = 0 /\ s.y = n - Gone(n + 1) /\ Shows(s.mem, clines')
      BY <2>1, <3>1, NewLine
    <3>3. /\ clines' \in Seq(Seq(Glyphs)) /\ Len(clines') = n + 1 /\ clines'[n + 1] = <<>>
          /\ clines' # <<>> /\ Len(<<>>) = 0
      BY <2>2, <3>1
    <3>4. Gone(n + 1) \in Nat
      <4>1. n + 1 \in Nat \ {0}
        BY <2>2
      <4> QED
        BY <4>1, GoneRange
    <3>5. n - Gone(n + 1) = (n + 1) - Gone(n + 1) - 1 /\ 0 <= VIDEO_COLS
      BY <2>2, <2>3, <3>4
    <3> QED
      BY <2>4, <3>2, <3>3, <3>5
  <2>6. ASSUME NEW x \in 0 .. VIDEO_COLS - 1, NEW c, NEW text \in Seq(Glyphs),
               cmem' = [cmem EXCEPT ![CellAt(py, x)] = c], py' = py, px' = Len(text),
               clines' = [clines EXCEPT ![n] = text], Replaces(text, clines, x, c)
        PROVE  /\ clines' \in Seq(Seq(Glyphs)) /\ clines' # <<>>
               /\ DOMAIN cmem' = Places /\ cmem' = [p \in Places |-> cmem'[p]]
               /\ px' = Len(clines'[Len(clines')]) /\ px' <= VIDEO_COLS
               /\ py' = Len(clines') - Gone(Len(clines')) - 1
               /\ Shows(cmem', clines')
    <3>1. /\ clines' \in Seq(Seq(Glyphs)) /\ Len(clines') = n /\ clines'[n] = text
          /\ clines' # <<>> /\ Len(text) \in Nat
      BY <2>2, <2>6
    <3>2. Shows([cmem EXCEPT ![CellAt(n - Gone(n) - 1, x)] = c], [clines EXCEPT ![n] = text])
      BY <2>2, <2>6, Stored
    <3>3. Shows(cmem', clines')
      BY <2>2, <2>6, <3>2
    <3>4. DOMAIN cmem' = Places /\ cmem' = [p \in Places |-> cmem'[p]]
      BY <2>2, <2>6
    <3> QED
      BY <2>1, <2>2, <2>3, <2>6, <3>1, <3>3, <3>4
  <2>7. \A k \in Nat : CharAt(clines, n, k) = IF k <= Len(line) THEN line[k] ELSE Blank
    BY <2>2 DEF CharAt
  <2>8. CASE ch = "BS"
    <3>1. s = Backspace(Screen) /\ clines' = [clines EXCEPT ![n] = IF line = <<>> THEN line ELSE Front(line)]
      BY <2>4, <2>8 DEF kprint, Typed
    <3>2. CASE px = 0
      <4>1. line = <<>>
        <5>1. line \in Seq(Glyphs) /\ Len(line) = 0
          BY <2>2, <3>2
        <5> HIDE DEF line
        <5> QED
          BY <5>1
      <4>2. 0 \in 0 .. VIDEO_COLS - 1
        BY <2>3
      <4>3. Screen = [mem |-> cmem, x |-> 0, y |-> py]
        BY <3>2 DEF Screen
      <4>4. writechar(Screen, Blank) = [mem |-> [cmem EXCEPT ![CellAt(py, 0)] = Blank], x |-> 0 + 1, y |-> py]
        BY <4>2, <4>3, Written
      <4>5. s = [writechar(Screen, Blank) EXCEPT !.x = @ - 1]
        BY <3>1, <3>2 DEF Backspace, Screen
      <4>6. s.mem = [cmem EXCEPT ![CellAt(py, 0)] = Blank] /\ s.x = 0 /\ s.y = py
        BY <4>4, <4>5
      <4> HIDE DEF s
      <4>7. clines' = [clines EXCEPT ![n] = line] /\ Len(line) = 0
        BY <2>2, <3>1, <3>2, <4>1
      <4>8. Replaces(line, clines, 0, Blank)
        BY <2>7, <4>7 DEF Replaces
      <4>9. cmem' = [cmem EXCEPT ![CellAt(py, 0)] = Blank] /\ py' = py /\ px' = Len(line)
        BY <2>4, <4>6, <4>7
      <4> QED
        BY <2>2, <2>6, <4>2, <4>7, <4>8, <4>9
    <3>3. CASE px # 0
      <4> DEFINE x == px - 1
                 text == Front(line)
      <4>1. x \in 0 .. VIDEO_COLS - 1 /\ x + 1 = px /\ px > 0 /\ x \in Nat
        BY <2>2, <2>3, <3>3
      <4>2. line # <<>>
        BY <2>2, <3>3
      <4>3. /\ text \in Seq(Glyphs) /\ Len(text) = x /\ \A k \in 1 .. x : text[k] = line[k]
        BY <2>2, <4>1 DEF Front
      <4>4. [Screen EXCEPT !.x = @ - 1] = [mem |-> cmem, x |-> x, y |-> py]
        BY DEF Screen
      <4>5. s = [writechar([Screen EXCEPT !.x = @ - 1], Blank) EXCEPT !.x = @ - 1]
        BY <3>1, <4>1 DEF Backspace, Screen
      <4> HIDE DEF x, text
      <4>6. writechar([mem |-> cmem, x |-> x, y |-> py], Blank) =
               [mem |-> [cmem EXCEPT ![CellAt(py, x)] = Blank], x |-> x + 1, y |-> py]
        BY <4>1, Written
      <4>7. s.mem = [cmem EXCEPT ![CellAt(py, x)] = Blank] /\ s.x = (x + 1) - 1 /\ s.y = py
        <5> DEFINE m == [cmem EXCEPT ![CellAt(py, x)] = Blank]
        <5>1. s = [[mem |-> m, x |-> x + 1, y |-> py] EXCEPT !.x = @ - 1]
          BY <4>4, <4>5, <4>6
        <5> HIDE DEF s, m
        <5>2. s.mem = m /\ s.x = (x + 1) - 1 /\ s.y = py
          BY <5>1
        <5> QED
          BY <5>2 DEF m
      <4> HIDE DEF s
      <4>8. clines' = [clines EXCEPT ![n] = text]
        BY <3>1, <4>2 DEF text
      <4>9. Replaces(text, clines, x, Blank)
        <5> SUFFICES ASSUME NEW k \in 1 .. VIDEO_COLS
                     PROVE  (IF k <= Len(text) THEN text[k] ELSE Blank) =
                               IF k = x + 1 THEN Blank ELSE CharAt(clines, n, k)
          BY DEF Replaces
        <5>1. k \in Nat /\ k >= 1
          BY <2>3
        <5>2. CASE k <= x
          <6>1. k \in 1 .. x /\ k <= Len(line) /\ k # x + 1 /\ k <= Len(text)
            BY <2>2, <4>1, <4>3, <5>1, <5>2
          <6> QED
            BY <2>7, <4>3, <5>1, <6>1
        <5>3. CASE k = x + 1
          BY <4>1, <4>3, <5>3
        <5>4. CASE k > x + 1
          <6>1. ~(k <= Len(line)) /\ ~(k <= Len(text)) /\ k # x + 1
            BY <2>2, <4>1, <4>3, <5>1, <5>4
          <6> QED
            BY <2>7, <5>1, <6>1
        <5> QED
          BY <4>1, <5>1, <5>2, <5>3, <5>4
      <4>10. (x + 1) - 1 = Len(text)
        BY <4>1, <4>3
      <4>11. cmem' = [cmem EXCEPT ![CellAt(py, x)] = Blank] /\ py' = py /\ px' = Len(text)
        BY <2>4, <4>7, <4>10
      <4> QED
        BY <2>6, <4>1, <4>3, <4>8, <4>9, <4>11
    <3> QED
      BY <3>2, <3>3
  <2>9. CASE ch \in Glyphs
    <3>0. ch \notin {"LF", "CR", "BS"}
      BY <2>9, ConsoleAssumption
    <3> DEFINE text == Append(line, ch)
    <3>1. clines' = [clines EXCEPT ![n] = text]
      BY <2>4, <3>0 DEF Typed
    <3>2. /\ text \in Seq(Glyphs) /\ Len(text) = px + 1 /\ text[px + 1] = ch
          /\ \A k \in 1 .. px : text[k] = line[k]
      BY <2>2, <2>9
    <3> HIDE DEF text
    <3>3. clines'[Len(clines')] = text
      BY <2>2, <3>1, <3>2
    <3>4. px \in 0 .. VIDEO_COLS - 1
      BY <2>1, <2>2, <2>3, <3>2, <3>3
    <3>5. s = writechar(Screen, ch)
      BY <3>0 DEF kprint
    <3>6. s = [mem |-> [cmem EXCEPT ![CellAt(py, px)] = ch], x |-> px + 1, y |-> py]
      BY <3>4, <3>5, Written DEF Screen
    <3>7. s.mem = [cmem EXCEPT ![CellAt(py, px)] = ch] /\ s.x = px + 1 /\ s.y = py
      BY <3>6
    <3> HIDE DEF s
    <3>8. Replaces(text, clines, px, ch)
      <4> SUFFICES ASSUME NEW k \in 1 .. VIDEO_COLS
                   PROVE  (IF k <= Len(text) THEN text[k] ELSE Blank) =
                             IF k = px + 1 THEN ch ELSE CharAt(clines, n, k)
        BY DEF Replaces
      <4>1. k \in Nat /\ k >= 1
        BY <2>3
      <4>2. CASE k <= px
        BY <2>2, <2>7, <3>2, <4>1, <4>2
      <4>3. CASE k = px + 1
        BY <2>2, <3>2, <4>3
      <4>4. CASE k > px + 1
        <5>1. ~(k <= Len(line)) /\ ~(k <= Len(text)) /\ k # px + 1
          BY <2>2, <3>2, <4>1, <4>4
        <5> QED
          BY <2>7, <4>1, <5>1
      <4> QED
        BY <2>2, <4>1, <4>2, <4>3, <4>4
    <3>9. cmem' = [cmem EXCEPT ![CellAt(py, px)] = ch] /\ py' = py /\ px' = Len(text)
      BY <2>4, <3>2, <3>7
    <3> QED
      BY <2>6, <3>1, <3>2, <3>4, <3>8, <3>9
  <2> QED
    BY <2>5, <2>8, <2>9
<1> QED
  BY <1>1, <1>2 DEF ConNext

\* The screen shows the end of the text, for every size of the screen and
\* every text whose lines fit.
THEOREM ConsoleShowsText == ConSpec => []ConsoleShows
<1>1. ConInit => ConInv
  <2> SUFFICES ASSUME ConInit PROVE ConInv
    OBVIOUS
  <2>1. /\ cmem = [p \in Places |-> Blank] /\ px = 0 /\ py = 0 /\ clines = << <<>> >>
    BY DEF ConInit
  <2>2. /\ clines \in Seq(Seq(Glyphs)) /\ Len(clines) = 1 /\ clines[1] = <<>> /\ Len(<<>>) = 0
        /\ clines # <<>>
    BY <2>1
  <2>3. VIDEO_COLS \in Nat \ {0} /\ VIDEO_ROWS \in Nat \ {0} /\ Gone(1) = 0
    BY ConsoleAssumption DEF Gone
  <2>4. Shows(cmem, clines)
    <3> SUFFICES ASSUME NEW y \in 0 .. VIDEO_ROWS, NEW x \in 0 .. VIDEO_COLS - 1
                 PROVE  cmem[CellAt(y, x)] = CharAt(clines, 0 + y + 1, x + 1)
      BY <2>2, <2>3 DEF Shows
    <3>1. cmem[CellAt(y, x)] = Blank
      BY <2>1, PlaceOf
    <3>2. CASE y = 0
      BY <2>2, <2>3, <3>1, <3>2 DEF CharAt
    <3>3. CASE y # 0
      BY <2>2, <2>3, <3>1, <3>3 DEF CharAt
    <3> QED
      BY <3>2, <3>3
  <2>5. py = Len(clines) - Gone(Len(clines)) - 1 /\ px <= VIDEO_COLS
    BY <2>1, <2>2, <2>3
  <2>6. DOMAIN cmem = Places /\ cmem = [p \in Places |-> cmem[p]]
    BY <2>1
  <2> QED
    BY <2>1, <2>2, <2>4, <2>5, <2>6 DEF ConInv
<1>2. ConInv /\ [ConNext]_conVars => ConInv'
  BY ConKept
<1>3. ASSUME ConInv PROVE ConsoleShows
  <2> SUFFICES ASSUME ~clong, NEW y \in 0 .. VIDEO_ROWS - 1
               PROVE  Row(y) = IF Gone(Len(clines)) + y + 1 <= Len(clines)
                               THEN Padded(clines[Gone(Len(clines)) + y + 1]) ELSE Padded(<<>>)
    BY Zenon DEF ConsoleShows, Gone
  <2> DEFINE i == Gone(Len(clines)) + y + 1
  <2>1. Shows(cmem, clines) /\ clines \in Seq(Seq(Glyphs)) /\ Len(clines) \in Nat \ {0}
    BY <1>3 DEF ConInv
  <2>2. VIDEO_COLS \in Nat \ {0} /\ VIDEO_ROWS \in Nat \ {0}
    BY ConsoleAssumption
  <2>3. ASSUME NEW k \in 1 .. VIDEO_COLS
        PROVE  cmem[VIDEO_COLS * y + k - 1] = CharAt(clines, i, k)
    <3>1. k - 1 \in 0 .. VIDEO_COLS - 1 /\ (k - 1) + 1 = k /\ y \in 0 .. VIDEO_ROWS
      BY <2>2
    <3>2. cmem[CellAt(y, k - 1)] = CharAt(clines, i, (k - 1) + 1)
      BY <2>1, <3>1 DEF Shows
    <3>3. CellAt(y, k - 1) = VIDEO_COLS * y + k - 1
      <4> DEFINE z == VIDEO_COLS * y
      <4>1. z \in Int /\ k \in Int
        BY <2>2
      <4> HIDE DEF z
      <4>2. z + (k - 1) = z + k - 1
        BY <4>1
      <4> QED
        BY <4>2 DEF CellAt, z
    <3> QED
      BY <3>1, <3>2, <3>3
  <2> HIDE DEF i
  <2>4. CASE i <= Len(clines)
    <3>1. \A k \in 1 .. VIDEO_COLS : cmem[VIDEO_COLS * y + k - 1] =
             IF k <= Len(clines[i]) THEN clines[i][k] ELSE Blank
      BY <2>3, <2>4 DEF CharAt
    <3>2. Row(y) = Padded(clines[i])
      BY <3>1 DEF Row, Padded
    <3> QED
      BY <2>4, <3>2 DEF i
  <2>5. CASE ~(i <= Len(clines))
    <3>1. \A k \in 1 .. VIDEO_COLS : cmem[VIDEO_COLS * y + k - 1] = Blank
      BY <2>3, <2>5 DEF CharAt
    <3>2. \A k \in 1 .. VIDEO_COLS : ~(k <= Len(<<>>))
      BY <2>2
    <3>3. Row(y) = Padded(<<>>)
      BY <3>1, <3>2 DEF Row, Padded
    <3> QED
      BY <2>5, <3>3 DEF i
  <2> QED
    BY <2>4, <2>5
<1> QED
  BY <1>1, <1>2, <1>3, PTL DEF ConSpec

----------------------------------------------------------------------------
(* Numbers, formats, the command line and tokens. *)

DigitChars == ZeroCh .. ZeroCh + 9

\* The loop that adds up the digits of a string.
Sums(sum, s, n) ==
    sum[0] = 0 /\ \A k \in 1 .. n : sum[k] = 10 * sum[k - 1] + s[k] - ZeroCh

\* Worth is what the loop ends with.
LEMMA WorthSums ==
  ASSUME NEW s \in Seq(Int)
  PROVE  \E sum : sum \in [0 .. Len(s) -> Int] /\ Sums(sum, s, Len(s)) /\ Worth(s) = sum[Len(s)]
<1> DEFINE n == Len(s)
           step == [k \in 0 + 1 .. n |-> [v \in Int |-> 10 * v + s[k] - ZeroCh]]
           eqn(g) == g = [k \in 0 .. n |-> IF k = 0 THEN 0 ELSE 10 * g[k - 1] + s[k] - ZeroCh]
           sum == CHOOSE g : eqn(g)
<1>1. 0 \in Nat /\ n \in Nat /\ 0 <= n /\ 0 \in Int /\ \A k \in 1 .. n : s[k] \in Int
  OBVIOUS
<1>2. step \in Steps(0, n, Int)
  BY <1>1 DEF Steps, ZeroCh
<1>3. PICK g : IsLoop(g, 0, n, Int, 0, step)
  <2> HIDE DEF step, n
  <2> QED
    BY <1>1, <1>2, LoopExists
<1>4. /\ g \in [0 .. n -> Int] /\ g[0] = 0
      /\ \A k \in 0 + 1 .. n : g[k] = step[k][g[k - 1]]
  <2> HIDE DEF step, n
  <2> QED
    BY <1>3 DEF IsLoop
<1>5. ASSUME NEW k \in 1 .. n PROVE g[k] = 10 * g[k - 1] + s[k] - ZeroCh
  <2>1. k - 1 \in 0 .. n /\ k \in 0 + 1 .. n
    BY <1>1
  <2>2. g[k - 1] \in Int /\ g[k] = step[k][g[k - 1]]
    <3> HIDE DEF step, n
    <3> QED
      BY <1>4, <2>1
  <2> QED
    BY <2>1, <2>2
<1>6. eqn(g)
  <2>1. ASSUME NEW k \in 0 .. n
        PROVE  g[k] = IF k = 0 THEN 0 ELSE 10 * g[k - 1] + s[k] - ZeroCh
    <3>1. CASE k # 0
      <4>1. k \in 1 .. n
        BY <1>1, <3>1
      <4> QED
        BY <1>5, <3>1, <4>1
    <3> QED
      BY <1>4, <3>1
  <2>2. g = [k \in 0 .. n |-> g[k]]
    <3> HIDE DEF n
    <3> QED
      BY <1>4
  <2> QED
    BY <2>1, <2>2
<1>7. eqn(sum)
  BY <1>6, Zenon
<1>8. Worth(s) = sum[n]
  BY Zenon DEF Worth
<1> HIDE DEF sum
<1> DEFINE S == {k \in 0 .. n : sum[k] = g[k]}
<1>9. sum[0] = 0 /\ \A k \in 1 .. n : sum[k] = 10 * sum[k - 1] + s[k] - ZeroCh
  BY <1>1, <1>7
<1>10. 0 \in S
  BY <1>1, <1>4, <1>9
<1>11. ASSUME NEW k \in 0 + 1 .. n, k - 1 \in S PROVE k \in S
  <2>1. k \in 1 .. n /\ k \in 0 .. n /\ sum[k - 1] = g[k - 1]
    BY <1>1, <1>11
  <2> QED
    BY <1>5, <1>9, <2>1
<1>12. \A k \in 0 .. n : k \in S
  <2> HIDE DEF S, n
  <2> QED
    BY <1>1, <1>10, <1>11, RangeInduction
<1>13. n \in 0 .. n
  BY <1>1
<1>14. Worth(s) = g[n]
  BY <1>8, <1>12, <1>13
<1>15. Sums(g, s, n)
  BY <1>4, <1>5 DEF Sums
<1> QED
  BY <1>4, <1>14, <1>15

\* Any function that the loop could compute gives the same.
LEMMA WorthIs ==
  ASSUME NEW s \in Seq(Int), NEW h, Sums(h, s, Len(s))
  PROVE  Worth(s) = h[Len(s)] /\ Worth(s) \in Int
<1> DEFINE n == Len(s)
<1>1. PICK sum : sum \in [0 .. n -> Int] /\ Sums(sum, s, n) /\ Worth(s) = sum[n]
  BY WorthSums
<1> DEFINE S == {k \in 0 .. n : sum[k] = h[k]}
<1>2. 0 \in Nat /\ n \in Nat /\ 0 \in 0 .. n /\ n \in 0 .. n
  OBVIOUS
<1>3. 0 \in S
  BY <1>1, <1>2 DEF Sums
<1>4. ASSUME NEW k \in 0 + 1 .. n, k - 1 \in S PROVE k \in S
  <2>1. k \in 1 .. n /\ k \in 0 .. n /\ sum[k - 1] = h[k - 1]
    BY <1>2, <1>4
  <2> QED
    BY <1>1, <2>1 DEF Sums
<1>5. \A k \in 0 .. n : k \in S
  <2> HIDE DEF S, n
  <2> QED
    BY <1>2, <1>3, <1>4, RangeInduction
<1> QED
  BY <1>1, <1>2, <1>5

\* One digit more.
LEMMA WorthAppend ==
  ASSUME NEW s \in Seq(Int), NEW c \in Int
  PROVE  Worth(Append(s, c)) = 10 * Worth(s) + c - ZeroCh /\ Worth(s) \in Int
<1> DEFINE t == Append(s, c)
           n == Len(s)
<1>1. /\ t \in Seq(Int) /\ Len(t) = n + 1 /\ n \in Nat
      /\ \A k \in 1 .. n : t[k] = s[k]
      /\ t[n + 1] = c
  OBVIOUS
<1> HIDE DEF t
<1>2. PICK sum : sum \in [0 .. Len(t) -> Int] /\ Sums(sum, t, Len(t)) /\ Worth(t) = sum[Len(t)]
  BY <1>1, WorthSums
<1>3. Sums(sum, s, n)
  BY <1>1, <1>2 DEF Sums
<1>4. Worth(s) = sum[n] /\ Worth(s) \in Int
  BY <1>3, WorthIs
<1>5. sum[n + 1] = 10 * sum[n] + c - ZeroCh
  <2>1. n + 1 \in 1 .. Len(t) /\ (n + 1) - 1 = n
    BY <1>1
  <2>2. sum[n + 1] = 10 * sum[(n + 1) - 1] + t[n + 1] - ZeroCh
    BY <1>2, <2>1 DEF Sums
  <2> QED
    BY <1>1, <2>1, <2>2
<1> QED
  BY <1>1, <1>2, <1>4, <1>5 DEF t

\* No digits, and one.
LEMMA WorthOne ==
  ASSUME NEW c \in Int
  PROVE  Worth(<<>>) = 0 /\ Worth(<<c>>) = c - ZeroCh
<1>1. Sums([k \in {0} |-> 0], <<>>, Len(<<>>))
  BY DEF Sums
<1>2. Worth(<<>>) = 0
  BY <1>1, WorthIs
<1>3. <<c>> = Append(<<>>, c)
  OBVIOUS
<1>4. <<>> \in Seq(Int)
  OBVIOUS
<1>5. Worth(Append(<<>>, c)) = 10 * Worth(<<>>) + c - ZeroCh
  BY <1>4, WorthAppend
<1> QED
  BY <1>2, <1>3, <1>5 DEF ZeroCh

\* The padding of numtostr.
Zeros(p) == [i \in 1 .. p |-> ZeroCh]

\* A string behind its padding, place by place.
LEMMA ZerosThen ==
  ASSUME NEW p \in Nat, NEW s \in Seq(Int)
  PROVE  LET t == Zeros(p) \o s
         IN  /\ t \in Seq(Int) /\ Len(t) = p + Len(s)
             /\ \A k \in 1 .. p : t[k] = ZeroCh
             /\ \A k \in 1 .. Len(s) : t[p + k] = s[k]
BY DEF Zeros, ZeroCh

\* Zeros in front are worth nothing.
LEMMA WorthPadded ==
  ASSUME NEW p \in Nat, NEW s \in Seq(Int)
  PROVE  Worth(Zeros(p) \o s) = Worth(s)
<1> DEFINE t == Zeros(p) \o s
           n == Len(s)
<1>1. /\ t \in Seq(Int) /\ Len(t) = p + n /\ n \in Nat
      /\ \A k \in 1 .. p : t[k] = ZeroCh
      /\ \A k \in 1 .. n : t[p + k] = s[k]
  BY DEF Zeros, ZeroCh
<1> HIDE DEF t
<1>2. PICK sum : sum \in [0 .. Len(t) -> Int] /\ Sums(sum, t, Len(t)) /\ Worth(t) = sum[Len(t)]
  BY <1>1, WorthSums
<1> DEFINE S == {k \in 0 .. p : sum[k] = 0}
<1>3. 0 \in S
  BY <1>2 DEF Sums
<1>4. ASSUME NEW k \in 0 + 1 .. p, k - 1 \in S PROVE k \in S
  <2>1. k \in 1 .. p + n /\ k \in 1 .. p /\ k \in 0 .. p /\ sum[k - 1] = 0
    BY <1>1, <1>4
  <2>2. sum[k] = 10 * sum[k - 1] + t[k] - ZeroCh
    BY <1>1, <1>2, <2>1 DEF Sums
  <2>3. t[k] = ZeroCh
    BY <1>1, <2>1
  <2>4. sum[k] = 0
    BY <2>1, <2>2, <2>3 DEF ZeroCh
  <2> QED
    BY <2>1, <2>4
<1>5. \A k \in 0 .. p : k \in S
  <2>1. 0 \in Nat
    OBVIOUS
  <2> HIDE DEF S
  <2> QED
    BY <1>3, <1>4, <2>1, RangeInduction
<1>6. sum[p] = 0
  BY <1>5
<1> DEFINE h == [k \in 0 .. n |-> sum[p + k]]
<1>7. ASSUME NEW k \in 1 .. n PROVE h[k] = 10 * h[k - 1] + s[k] - ZeroCh
  <2>1. p + k \in 1 .. p + n /\ (p + k) - 1 = p + (k - 1) /\ k \in 0 .. n /\ k - 1 \in 0 .. n
    BY <1>1
  <2>2. sum[p + k] = 10 * sum[(p + k) - 1] + t[p + k] - ZeroCh
    BY <1>1, <1>2, <2>1 DEF Sums
  <2> QED
    BY <1>1, <2>1, <2>2
<1>8. h[0] = 0 /\ h[n] = sum[p + n]
  BY <1>1, <1>6
<1>9. Sums(h, s, n)
  <2> HIDE DEF h
  <2> QED
    BY <1>7, <1>8 DEF Sums
<1>10. Worth(s) = h[n]
  <2> HIDE DEF h
  <2> QED
    BY <1>9, WorthIs
<1> QED
  BY <1>1, <1>2, <1>8, <1>10 DEF t

\* A number is smaller when it is divided.
LEMMA DivLess ==
  ASSUME NEW b \in Nat, b > 1, NEW m \in Nat
  PROVE  /\ m \div b \in Nat /\ m % b \in 0 .. b - 1 /\ m = b * (m \div b) + (m % b)
         /\ m \div b # 0 => m \div b < m
<1> DEFINE q == m \div b
           r == m % b
<1>1. q \in Nat /\ r \in 0 .. b - 1 /\ m = b * q + r
  <2>1. b \in Nat \ {0}
    OBVIOUS
  <2> QED
    BY <2>1, DivMod
<1> HIDE DEF q, r
<1>2. ASSUME q # 0 PROVE q < m
  <2>1. b * q >= 2 * q
    BY <1>1
  <2> QED
    BY <1>1, <1>2, <2>1
<1> QED
  BY <1>1, <1>2 DEF q, r

\* The division loops, one number for each turn.
Divides(f, n, b) ==
    \A m \in 0 .. n : f[m] = IF m \div b = 0 THEN <<DigitCh(m % b)>>
                             ELSE Append(f[m \div b], DigitCh(m % b))

\* Digits is what they end with.
LEMMA DigitsDivide ==
  ASSUME NEW n \in Nat, NEW b \in Nat, b > 1
  PROVE  \E f : Divides(f, n, b) /\ Digits(n, b) = f[n]
<1> DEFINE D == Seq(Int)
           low == [m \in 0 .. n |-> <<DigitCh(m % b)>>]
           pre == [m \in 0 .. n |-> IF m \div b = 0 THEN m ELSE m \div b]
           step == [m \in 0 .. n |-> [s \in D |-> Append(s, DigitCh(m % b))]]
           eqn(g) == g = [m \in 0 .. n |-> IF m \div b = 0 THEN <<DigitCh(m % b)>>
                                           ELSE Append(g[m \div b], DigitCh(m % b))]
           digits == CHOOSE g : eqn(g)
<1>1. ASSUME NEW m \in 0 .. n
      PROVE  m \div b \in Nat /\ DigitCh(m % b) \in Int /\ (m \div b # 0 => m \div b < m)
  <2>1. m \in Nat
    OBVIOUS
  <2>2. m \div b \in Nat /\ m % b \in Int /\ (m \div b # 0 => m \div b < m)
    BY <2>1, DivLess
  <2> QED
    BY <2>2 DEF DigitCh, ZeroCh
<1>2. low \in [0 .. n -> D] /\ pre \in [0 .. n -> Nat] /\ step \in [0 .. n -> [D -> D]]
  <2>1. ASSUME NEW m \in 0 .. n PROVE <<DigitCh(m % b)>> \in D
    <3>1. DigitCh(m % b) \in Int
      BY <1>1
    <3>2. \A c \in Int : <<c>> \in Seq(Int)
      OBVIOUS
    <3> QED
      BY <3>1, <3>2, Zenon
  <2>2. ASSUME NEW m \in 0 .. n PROVE (IF m \div b = 0 THEN m ELSE m \div b) \in Nat
    BY <1>1
  <2>3. ASSUME NEW m \in 0 .. n PROVE [s \in D |-> Append(s, DigitCh(m % b))] \in [D -> D]
    <3>1. DigitCh(m % b) \in Int
      BY <1>1
    <3> QED
      BY <3>1
  <2> HIDE DEF D
  <2>4. low \in [0 .. n -> D]
    BY <2>1, Zenon
  <2>5. pre \in [0 .. n -> Nat]
    BY <2>2, Zenon
  <2>6. step \in [0 .. n -> [D -> D]]
    BY <2>3, Zenon
  <2> QED
    BY <2>4, <2>5, <2>6
<1>3. PICK g : IsDescent(g, n, D, low, pre, step)
  <2> HIDE DEF low, pre, step, D
  <2> QED
    BY <1>2, DescentExists
<1>4. g \in [0 .. n -> D]
      /\ \A m \in 0 .. n : g[m] = IF pre[m] < m THEN step[m][g[pre[m]]] ELSE low[m]
  <2> HIDE DEF low, pre, step, D
  <2> QED
    BY <1>3 DEF IsDescent
<1>5. ASSUME NEW m \in 0 .. n
      PROVE  g[m] = IF m \div b = 0 THEN <<DigitCh(m % b)>>
                    ELSE Append(g[m \div b], DigitCh(m % b))
  <2>1. CASE m \div b = 0
    <3>1. ~(pre[m] < m) /\ low[m] = <<DigitCh(m % b)>>
      BY <2>1
    <3> HIDE DEF low, pre, step
    <3> QED
      BY <1>4, <2>1, <3>1
  <2>2. CASE m \div b # 0
    <3>1. pre[m] = m \div b /\ pre[m] < m /\ m \div b \in 0 .. n
      BY <1>1, <2>2
    <3>2. g[m \div b] \in D
      BY <1>4, <3>1
    <3>3. g[m] = step[m][g[m \div b]]
      <4> HIDE DEF low, step
      <4> QED
        BY <1>4, <3>1
    <3> QED
      BY <2>2, <3>2, <3>3
  <2> QED
    BY <2>1, <2>2
<1>6. eqn(g)
  <2>1. g = [m \in 0 .. n |-> g[m]]
    BY <1>4
  <2> QED
    BY <1>5, <2>1
<1>7. eqn(digits)
  BY <1>6, Zenon
<1>8. Digits(n, b) = digits[n]
  BY Zenon DEF Digits
<1> HIDE DEF digits
<1>9. Divides(digits, n, b)
  BY <1>7 DEF Divides
<1> QED
  BY <1>8, <1>9

\* The digits of a number, in any base that is used, are a string.
LEMMA DigitsType ==
  ASSUME NEW n \in Nat, NEW b \in Nat, b > 1
  PROVE  Digits(n, b) \in Seq(Int) /\ Digits(n, b) # <<>>
<1>1. PICK f : Divides(f, n, b) /\ Digits(n, b) = f[n]
  BY DigitsDivide
<1> DEFINE Good(m) == f[m] \in Seq(Int) /\ f[m] # <<>>
           S == {k \in 0 .. n : \A m \in 0 .. k : Good(m)}
<1>2. ASSUME NEW k \in 0 .. n, \A m \in 0 .. k - 1 : Good(m) PROVE Good(k)
  <2>1. k \in Nat
    OBVIOUS
  <2>2. k \div b \in Nat /\ DigitCh(k % b) \in Int /\ (k \div b # 0 => k \div b < k)
    BY <2>1, DivLess DEF DigitCh, ZeroCh
  <2>3. f[k] = IF k \div b = 0 THEN <<DigitCh(k % b)>> ELSE Append(f[k \div b], DigitCh(k % b))
    BY <1>1 DEF Divides
  <2> DEFINE q == k \div b
             c == DigitCh(k % b)
  <2> HIDE DEF q, c
  <2>4. CASE q = 0
    <3>1. f[k] = <<c>>
      BY <2>3, <2>4 DEF q, c
    <3> QED
      BY <2>2, <3>1 DEF c
  <2>5. CASE q # 0
    <3>1. f[k] = Append(f[q], c) /\ q \in 0 .. k - 1 /\ c \in Int
      BY <2>1, <2>2, <2>3, <2>5 DEF q, c
    <3>2. f[q] \in Seq(Int)
      BY <1>2, <3>1
    <3>3. Append(f[q], c) \in Seq(Int) /\ Append(f[q], c) # <<>>
      BY <3>1, <3>2, AppendProperties
    <3> QED
      BY <3>1, <3>3, Zenon
  <2> QED
    BY <2>4, <2>5
<1>3. 0 \in S
  <2>1. Good(0)
    <3>1. 0 \in 0 .. n /\ \A m \in 0 .. 0 - 1 : FALSE
      OBVIOUS
    <3> HIDE DEF Good
    <3> QED
      BY <1>2, <3>1
  <2> HIDE DEF Good
  <2> QED
    BY <2>1
<1>4. ASSUME NEW k \in 0 + 1 .. n, k - 1 \in S PROVE k \in S
  <2>1. k \in 0 .. n /\ \A m \in 0 .. k - 1 : Good(m)
    BY <1>4
  <2>2. Good(k)
    BY <1>2, <2>1
  <2> HIDE DEF Good
  <2> QED
    BY <2>1, <2>2
<1>5. \A k \in 0 .. n : k \in S
  <2>1. 0 \in Nat
    OBVIOUS
  <2> HIDE DEF S
  <2> QED
    BY <1>3, <1>4, <2>1, RangeInduction
<1>6. Good(n)
  <2> HIDE DEF Good
  <2> QED
    BY <1>5
<1> QED
  BY <1>1, <1>6

\* Decimal digits are worth the number.
LEMMA DigitsWorth ==
  ASSUME NEW n \in Nat
  PROVE  Digits(n, 10) \in Seq(DigitChars) /\ Worth(Digits(n, 10)) = n
<1>1. PICK f : Divides(f, n, 10) /\ Digits(n, 10) = f[n]
  BY DigitsDivide
<1> DEFINE Good(m) == f[m] \in Seq(DigitChars) /\ Worth(f[m]) = m
           S == {k \in 0 .. n : \A m \in 0 .. k : Good(m)}
<1>2. ASSUME NEW k \in 0 .. n, \A m \in 0 .. k - 1 : Good(m) PROVE Good(k)
  <2> DEFINE q == k \div 10
             r == k % 10
             c == DigitCh(r)
  <2>1. k \in Nat
    OBVIOUS
  <2>2. q \in Nat /\ r \in 0 .. 9 /\ k = 10 * q + r /\ (q # 0 => q < k)
    BY <2>1, DivLess
  <2>3. f[k] = IF q = 0 THEN <<c>> ELSE Append(f[q], c)
    BY <1>1 DEF Divides
  <2> HIDE DEF q, r
  <2>4. c \in DigitChars /\ c = r + ZeroCh /\ c \in Int
    BY <2>2 DEF DigitCh, DigitChars, ZeroCh
  <2> HIDE DEF c
  <2>5. CASE q = 0
    <3>1. f[k] = <<c>> /\ Worth(<<c>>) = c - ZeroCh
      BY <2>3, <2>4, <2>5, WorthOne
    <3>2. c - ZeroCh = k
      BY <2>2, <2>4, <2>5 DEF ZeroCh
    <3> QED
      BY <2>4, <3>1, <3>2
  <2>6. CASE q # 0
    <3>1. f[k] = Append(f[q], c) /\ q \in 0 .. k - 1
      BY <2>1, <2>2, <2>3, <2>6
    <3>2. f[q] \in Seq(DigitChars) /\ Worth(f[q]) = q
      BY <1>2, <3>1
    <3>3. f[q] \in Seq(Int)
      BY <3>2 DEF DigitChars, ZeroCh
    <3>4. Worth(Append(f[q], c)) = 10 * Worth(f[q]) + c - ZeroCh
      BY <2>4, <3>3, WorthAppend
    <3>5. 10 * q + c - ZeroCh = k
      BY <2>2, <2>4 DEF ZeroCh
    <3>6. Append(f[q], c) \in Seq(DigitChars)
      BY <2>4, <3>2
    <3> QED
      BY <3>1, <3>2, <3>4, <3>5, <3>6
  <2> QED
    BY <2>5, <2>6
<1>3. 0 \in S
  <2>1. Good(0)
    <3>1. 0 \in 0 .. n /\ \A m \in 0 .. 0 - 1 : FALSE
      OBVIOUS
    <3> HIDE DEF Good
    <3> QED
      BY <1>2, <3>1
  <2> HIDE DEF Good
  <2> QED
    BY <2>1
<1>4. ASSUME NEW k \in 0 + 1 .. n, k - 1 \in S PROVE k \in S
  <2>1. k \in 0 .. n /\ \A m \in 0 .. k - 1 : Good(m)
    BY <1>4
  <2>2. Good(k)
    BY <1>2, <2>1
  <2> HIDE DEF Good
  <2> QED
    BY <2>1, <2>2
<1>5. \A k \in 0 .. n : k \in S
  <2>1. 0 \in Nat
    OBVIOUS
  <2> HIDE DEF S
  <2> QED
    BY <1>3, <1>4, <2>1, RangeInduction
<1>6. Good(n)
  <2> HIDE DEF Good
  <2> QED
    BY <1>5
<1> QED
  BY <1>1, <1>6

\* atoi reads digits as what they are worth, behind a "-" as less than zero.
LEMMA AtoiReads ==
  ASSUME NEW d \in Seq(DigitChars), d # <<>>
  PROVE  /\ atoi(d) = Worth(d)
         /\ \A t \in Seq(Int) : t # <<>> /\ t[1] = MinusCh /\ Tail(t) = d => atoi(t) = -Worth(d)
<1>1. \A i \in 1 .. Len(d) : d[i] \in DigitChars /\ IsDigit(d[i]) /\ d[i] # MinusCh
  BY DEF DigitChars, IsDigit, ZeroCh, MinusCh
<1>2. Len(d) \in Nat /\ Len(d) > 0
  OBVIOUS
<1>3. d[1] # MinusCh
  BY <1>1, <1>2
<1>4. ~\E i \in 2 .. Len(d) : ~IsDigit(d[i])
  BY <1>1, <1>2
<1> QED
  BY <1>3, <1>4, Zenon DEF atoi

\* Padding and a number, as digits.
LEMMA PaddedDigits ==
  ASSUME NEW n \in Nat, NEW p \in Nat
  PROVE  /\ Zeros(p) \o Digits(n, 10) \in Seq(DigitChars)
         /\ Zeros(p) \o Digits(n, 10) # <<>>
         /\ Worth(Zeros(p) \o Digits(n, 10)) = n
<1> DEFINE d == Digits(n, 10)
<1>1. d \in Seq(DigitChars) /\ Worth(d) = n
  BY DigitsWorth
<1>2. d \in Seq(Int) /\ d # <<>>
  BY DigitsType
<1> HIDE DEF d
<1>3. Zeros(p) \in Seq(DigitChars)
  BY DEF Zeros, DigitChars, ZeroCh
<1>4. Zeros(p) \o d \in Seq(DigitChars) /\ Zeros(p) \o d # <<>>
  BY <1>1, <1>2, <1>3
<1>5. Worth(Zeros(p) \o d) = n
  BY <1>1, <1>2, WorthPadded
<1> QED
  BY <1>4, <1>5 DEF d

\* What numtostr writes without the flags space and plus: the number behind
\* its padding.
LEMMA NumberPlain ==
  ASSUME NEW flags \in SUBSET {"zero"}, NEW value \in Int, NEW prec \in Nat,
         "zero" \in flags \/ prec = 0
  PROVE  \E p \in Nat : /\ numtostr(flags, value, 10, prec) = Zeros(p) \o Digits(Abs(value), 10)
                        /\ prec = 0 => p = 0
<1> DEFINE num == Digits(Abs(value), 10)
           pad == IF prec > Len(num) THEN prec - Len(num) ELSE 0
           fch == IF prec > 0 /\ "zero" \in flags THEN ZeroCh ELSE SpaceCh
<1>1. Abs(value) \in Nat
  BY DEF Abs
<1>2. num \in Seq(Int) /\ Len(num) \in Nat
  BY <1>1, DigitsType
<1>3. ~("space" \in flags \/ "plus" \in flags)
  OBVIOUS
<1>4. numtostr(flags, value, 10, prec) = [i \in 1 .. pad + 0 |-> fch] \o num
  BY <1>3, Zenon DEF numtostr
<1> HIDE DEF num
<1>5. pad \in Nat /\ (prec = 0 => pad = 0)
  BY <1>2
<1>6. pad > 0 => fch = ZeroCh
  BY <1>2
<1> HIDE DEF pad, fch
<1>7. [i \in 1 .. pad + 0 |-> fch] = Zeros(pad)
  BY <1>5, <1>6 DEF Zeros
<1> QED
  BY <1>4, <1>5, <1>7 DEF num

\* With the flag plus a negative number has its sign in front.
LEMMA NumberSigned ==
  ASSUME NEW flags \in SUBSET {"zero", "plus"}, NEW value \in Int, NEW prec \in Nat,
         "plus" \in flags, value < 0,
         "zero" \in flags \/ prec <= Len(Digits(-value, 10))
  PROVE  \E p \in Nat : LET text == numtostr(flags, value, 10, prec)
                        IN  /\ text \in Seq(Int) /\ text # <<>> /\ text[1] = MinusCh
                            /\ Tail(text) = Zeros(p) \o Digits(Abs(value), 10)
<1> DEFINE num == Digits(Abs(value), 10)
           pad == IF prec > Len(num) THEN prec - Len(num) ELSE 0
           fch == IF prec > 0 /\ "zero" \in flags THEN ZeroCh ELSE SpaceCh
           sh == pad + 1
           moved == [i \in 1 .. sh |-> fch] \o num
           text == [moved EXCEPT ![SignAt(flags, sh)] = MinusCh]
<1>1. Abs(value) \in Nat /\ Abs(value) = -value
  BY DEF Abs
<1>2. num \in Seq(Int) /\ Len(num) \in Nat
  BY <1>1, DigitsType
<1>3. "space" \in flags \/ "plus" \in flags
  OBVIOUS
<1>4. numtostr(flags, value, 10, prec) = text
  BY <1>3, Zenon DEF numtostr
<1>5. "zero" \in flags \/ prec <= Len(num)
  BY <1>1
<1> HIDE DEF num
<1>6. pad \in Nat /\ (pad > 0 => fch = ZeroCh /\ "zero" \in flags) /\ fch \in Int
  BY <1>2, <1>5 DEF ZeroCh, SpaceCh
<1> HIDE DEF pad, fch
<1>7. SignAt(flags, sh) = 1
  BY <1>6 DEF SignAt
<1>8. /\ moved \in Seq(Int) /\ Len(moved) = pad + 1 + Len(num)
      /\ \A i \in 1 .. pad + 1 : moved[i] = fch
      /\ \A i \in 1 .. Len(num) : moved[pad + 1 + i] = num[i]
  BY <1>2, <1>6
<1> HIDE DEF moved
<1>9. /\ text \in Seq(Int) /\ Len(text) = Len(moved) /\ text[1] = MinusCh
      /\ \A i \in 2 .. Len(moved) : text[i] = moved[i]
  BY <1>2, <1>6, <1>7, <1>8 DEF MinusCh
<1> HIDE DEF text
<1> DEFINE z == Zeros(pad) \o num
<1>10. /\ z \in Seq(Int) /\ Len(z) = pad + Len(num)
       /\ \A i \in 1 .. pad : z[i] = ZeroCh
       /\ \A i \in 1 .. Len(num) : z[pad + i] = num[i]
  BY <1>2, <1>6, ZerosThen, Zenon
<1>11. text # <<>>
  BY <1>2, <1>6, <1>8, <1>9
<1> DEFINE u == Tail(text)
<1>12. u \in Seq(Int) /\ Len(u) = Len(z) /\ \A i \in 1 .. Len(z) : u[i] = text[i + 1]
  BY <1>2, <1>6, <1>8, <1>9, <1>10, <1>11
<1> HIDE DEF z, u
<1>13. ASSUME NEW i \in 1 .. Len(z) PROVE u[i] = z[i]
  <2>0. i \in Int /\ i >= 1 /\ i <= pad + Len(num)
    BY <1>2, <1>6, <1>10
  <2>1. i + 1 \in 2 .. Len(moved) /\ u[i] = text[i + 1]
    BY <1>2, <1>6, <1>8, <1>10, <1>12, <2>0
  <2>2. u[i] = moved[i + 1]
    BY <1>9, <2>1
  <2>3. CASE i <= pad
    <3>1. i + 1 \in 1 .. pad + 1 /\ i \in 1 .. pad /\ pad > 0
      BY <1>6, <2>3
    <3> QED
      BY <1>6, <1>8, <1>10, <2>2, <3>1
  <2>4. CASE i > pad
    <3>1. i - pad \in 1 .. Len(num) /\ i + 1 = pad + 1 + (i - pad) /\ i = pad + (i - pad)
      BY <1>2, <1>6, <1>10, <2>4
    <3>2. moved[i + 1] = num[i - pad] /\ z[i] = num[i - pad]
      BY <1>8, <1>10, <3>1
    <3> QED
      BY <2>2, <3>2
  <2> QED
    BY <1>6, <2>0, <2>3, <2>4
<1>14. u = z
  BY <1>10, <1>12, <1>13, SeqEqual
<1> QED
  BY <1>4, <1>6, <1>9, <1>11, <1>14 DEF z, num, u

\* Numbers are read back.
LEMMA NumbersRead ==
  ASSUME tcase \in NumberCase
  PROVE  TextNumbers
<1> DEFINE flags == tcase.flags
           value == tcase.value
           prec == tcase.prec
           text == numtostr(flags, value, 10, prec)
<1>1. flags \in SUBSET {"zero", "plus"} /\ value \in Int /\ prec \in Nat /\ Abs(value) \in Nat
  BY DEF NumberCase, Abs
<1>2. ASSUME "plus" \in flags, value < 0, "zero" \in flags \/ prec <= Len(Digits(-value, 10))
      PROVE  atoi(text) = value
  <2> HIDE DEF flags, value, prec
  <2>1. PICK p \in Nat : /\ text \in Seq(Int) /\ text # <<>> /\ text[1] = MinusCh
                         /\ Tail(text) = Zeros(p) \o Digits(Abs(value), 10)
    BY <1>1, <1>2, NumberSigned
  <2> DEFINE d == Zeros(p) \o Digits(Abs(value), 10)
  <2>2. d \in Seq(DigitChars) /\ d # <<>> /\ Worth(d) = Abs(value)
    BY <1>1, PaddedDigits
  <2> HIDE DEF text, d
  <2>3. atoi(text) = -Worth(d)
    BY <2>1, <2>2, AtoiReads DEF d
  <2> QED
    BY <1>1, <1>2, <2>2, <2>3 DEF Abs
<1>3. ASSUME "plus" \notin flags, value >= 0, "zero" \in flags \/ prec = 0
      PROVE  atoi(text) = value
  <2> HIDE DEF flags, value, prec
  <2>1. flags \in SUBSET {"zero"}
    BY <1>1, <1>3
  <2>2. PICK p \in Nat : text = Zeros(p) \o Digits(Abs(value), 10)
    BY <1>1, <1>3, <2>1, NumberPlain
  <2> DEFINE d == Zeros(p) \o Digits(Abs(value), 10)
  <2>3. d \in Seq(DigitChars) /\ d # <<>> /\ Worth(d) = Abs(value)
    BY <1>1, PaddedDigits
  <2>4. Abs(value) = value
    BY <1>1, <1>3 DEF Abs
  <2> HIDE DEF text, d
  <2> QED
    BY <2>2, <2>3, <2>4, AtoiReads DEF d
<1> QED
  BY <1>2, <1>3, Zenon DEF TextNumbers

\* A part of a string.
LEMMA CutOut ==
  ASSUME NEW S, NEW s \in Seq(S), NEW a \in Nat, NEW n \in Nat, a + n <= Len(s)
  PROVE  LET t == SubSeq(s, a + 1, a + n)
         IN  t \in Seq(S) /\ Len(t) = n /\ \A i \in 1 .. n : t[i] = s[a + i]
<1>1. Len(s) \in Nat /\ a + 1 \in Int /\ a + n \in Int
  OBVIOUS
<1> DEFINE t == SubSeq(s, a + 1, a + n)
<1>2. t \in Seq(S) /\ Len(t) = n
  BY <1>1
<1>3. ASSUME NEW i \in 1 .. n PROVE t[i] = s[a + i]
  <2>1. i \in Int /\ 1 <= i /\ i <= n
    OBVIOUS
  <2>2. (a + 1) + i - 1 = a + i /\ (a + n) - (a + 1) + 1 = n
    BY <1>1, <2>1
  <2>3. t[i] = s[(a + 1) + i - 1]
    BY <1>1, <2>1, <2>2, SMTT(30)
  <2> QED
    BY <2>2, <2>3
<1> QED
  BY <1>2, <1>3

\* The same, by its two ends.
LEMMA CutTo ==
  ASSUME NEW S, NEW s \in Seq(S), NEW a \in Nat, NEW b \in Nat, a <= b, b <= Len(s)
  PROVE  LET t == SubSeq(s, a + 1, b)
         IN  t \in Seq(S) /\ Len(t) = b - a /\ \A i \in 1 .. b - a : t[i] = s[a + i]
<1>1. Len(s) \in Nat /\ a + 1 \in Int
  OBVIOUS
<1> DEFINE t == SubSeq(s, a + 1, b)
<1>2. t \in Seq(S) /\ Len(t) = b - a
  BY <1>1
<1>3. ASSUME NEW i \in 1 .. b - a PROVE t[i] = s[a + i]
  BY <1>1
<1> QED
  BY <1>2, <1>3

\* A number that is printed without flags is its digits.
LEMMA PlainText ==
  ASSUME NEW n \in Nat
  PROVE  /\ numtostr({}, n, 10, 0) \in Seq(DigitChars) /\ numtostr({}, n, 10, 0) # <<>>
         /\ atoi(numtostr({}, n, 10, 0)) = n
<1> DEFINE text == numtostr({}, n, 10, 0)
<1>1. Abs(n) = n /\ n \in Int /\ {} \in SUBSET {"zero"} /\ 0 \in Nat
  BY DEF Abs
<1>2. PICK p \in Nat : text = Zeros(p) \o Digits(n, 10)
  <2>1. \E p \in Nat : /\ numtostr({}, n, 10, 0) = Zeros(p) \o Digits(Abs(n), 10)
                       /\ 0 = 0 => p = 0
    BY <1>1, NumberPlain, Zenon
  <2> QED
    BY <1>1, <2>1, Zenon
<1>3. text \in Seq(DigitChars) /\ text # <<>> /\ Worth(text) = n
  BY <1>2, PaddedDigits
<1> HIDE DEF text
<1>4. atoi(text) = n
  BY <1>3, AtoiReads
<1> QED
  BY <1>3, <1>4 DEF text

\* The root device is found again.
LEMMA RootRead ==
  ASSUME tcase \in RootCase
  PROVE  TextRoot
<1> DEFINE d == numtostr({}, tcase.major, 10, 0)
           e == numtostr({}, tcase.minor, 10, 0)
           r == d \o <<ColonCh>> \o e
           At0 == Len(d) + 1
           colons == {i \in DOMAIN r : r[i] = ColonCh}
           first == CHOOSE k \in colons : \A j \in colons : k <= j
           word == tcase.word
           low == tcase.low
<1>1. /\ tcase.major \in Nat /\ tcase.minor \in Nat
      /\ word \in Seq(Nat \ {0, ColonCh})
  BY DEF RootCase
<1>2. d \in Seq(DigitChars) /\ d # <<>> /\ atoi(d) = tcase.major
  BY <1>1, PlainText
<1>3. e \in Seq(DigitChars) /\ e # <<>> /\ atoi(e) = tcase.minor
  BY <1>1, PlainText
<1> HIDE DEF d, e
<1>4. /\ \A i \in DOMAIN d : d[i] \in Int /\ d[i] # ColonCh
      /\ \A i \in DOMAIN e : e[i] \in Int /\ e[i] # ColonCh
  <2>1. \A c \in DigitChars : c \in Int /\ c # ColonCh
    BY DEF DigitChars, ZeroCh, ColonCh
  <2>2. ASSUME NEW s \in Seq(DigitChars) PROVE \A i \in DOMAIN s : s[i] \in DigitChars
    OBVIOUS
  <2> QED
    BY <1>2, <1>3, <2>1, <2>2
<1>5. d \in Seq(Int) /\ e \in Seq(Int)
  BY <1>2, <1>3, <1>4
<1>6. /\ r \in Seq(Int) /\ Len(r) = Len(d) + 1 + Len(e) /\ r[At0] = ColonCh
      /\ \A i \in 1 .. Len(d) : r[i] = d[i]
      /\ \A i \in 1 .. Len(e) : r[At0 + i] = e[i]
  BY <1>5 DEF ColonCh
<1>7. Len(d) \in Nat /\ Len(e) \in Nat /\ At0 \in Nat
  BY <1>5
<1> HIDE DEF r
<1>8. At0 \in colons /\ \A k \in colons : At0 <= k
  <2>1. At0 \in colons
    BY <1>6, <1>7
  <2>2. ASSUME NEW k \in colons PROVE At0 <= k
    <3>1. k \in 1 .. Len(r) /\ r[k] = ColonCh
      BY <1>6
    <3>2. k \in 1 .. Len(d) => r[k] = d[k] /\ d[k] # ColonCh
      BY <1>4, <1>5, <1>6
    <3> QED
      BY <1>6, <1>7, <3>1, <3>2
  <2> QED
    BY <2>1, <2>2
<1>9. first = At0
  <2>1. first \in colons /\ \A k \in colons : first <= k
    BY <1>8, Zenon
  <2>2. first <= At0 /\ At0 <= first /\ first \in Int
    BY <1>6, <1>8, <2>1
  <2> QED
    BY <1>7, <2>2
<1>10. Len(r) < RdevSize =>
         RootDevice(r, low) = <<atoi(SubSeq(r, 1, first - 1)), atoi(SubSeq(r, first + 1, Len(r)))>>
  <2>1. r # NoValue
    <3> SUFFICES ASSUME r = NoValue PROVE FALSE
      OBVIOUS
    <3>1. Len(r) = 1 /\ r[1] = 0
      BY DEF NoValue
    <3>2. At0 = 1 /\ r[At0] = 58
      BY <1>6, <1>7, <3>1 DEF ColonCh, NoValue
    <3> HIDE DEF At0
    <3> QED
      BY <3>1, <3>2
  <2>2. colons # {}
    BY <1>8
  <2>3. Len(r) < RdevSize => ~(Len(r) >= RdevSize)
    BY <1>6, <1>7 DEF RdevSize
  <2> QED
    BY <2>1, <2>2, <2>3, Zenon DEF RootDevice
<1> HIDE DEF first, colons
<1>11. SubSeq(r, 1, first - 1) = d
  <2> DEFINE s == SubSeq(r, 1, first - 1)
  <2>1. first - 1 = Len(d) /\ Len(d) \in Nat /\ Len(d) <= Len(r)
    BY <1>6, <1>7, <1>9
  <2>2. s \in Seq(Int) /\ Len(s) = Len(d) /\ \A i \in 1 .. Len(d) : s[i] = r[i]
    BY <1>6, <2>1
  <2> HIDE DEF s
  <2>3. s = d
    BY <1>5, <1>6, <2>2, SeqEqual
  <2> QED
    BY <2>3 DEF s
<1>12. SubSeq(r, first + 1, Len(r)) = e
  <2> DEFINE s == SubSeq(r, first + 1, Len(r))
  <2>1. first + 1 = At0 + 1 /\ Len(r) = At0 + Len(e)
    BY <1>6, <1>7, <1>9
  <2>2. s \in Seq(Int) /\ Len(s) = Len(e) /\ \A i \in 1 .. Len(e) : s[i] = r[At0 + i]
    <3>1. s = SubSeq(r, At0 + 1, At0 + Len(e)) /\ At0 + Len(e) <= Len(r)
      BY <1>7, <2>1
    <3> HIDE DEF At0
    <3>2. LET u == SubSeq(r, At0 + 1, At0 + Len(e))
          IN  u \in Seq(Int) /\ Len(u) = Len(e) /\ \A i \in 1 .. Len(e) : u[i] = r[At0 + i]
      <4>1. r \in Seq(Int) /\ At0 \in Nat /\ Len(e) \in Nat /\ At0 + Len(e) <= Len(r)
        BY <1>6, <1>7, <3>1
      <4> QED
        BY <4>1, CutOut
    <3> HIDE DEF s
    <3> QED
      BY <3>1, <3>2, Zenon
  <2> HIDE DEF s
  <2>3. s = e
    BY <1>5, <1>6, <2>2, SeqEqual
  <2> QED
    BY <2>3 DEF s
<1>13. Len(r) < RdevSize => RootDevice(r, low) = <<tcase.major, tcase.minor>>
  BY <1>2, <1>3, <1>10, <1>11, <1>12, Zenon
<1>14. Len(word) < RdevSize => RootDevice(word, low) = <<>>
  <2>1. ASSUME NEW i \in DOMAIN word PROVE word[i] # 0 /\ word[i] # ColonCh
    BY <1>1
  <2>2. {i \in DOMAIN word : word[i] = ColonCh} = {}
    BY <2>1
  <2>3. word # NoValue
    <3> SUFFICES ASSUME word = NoValue PROVE FALSE
      OBVIOUS
    <3>1. 1 \in DOMAIN word /\ word[1] = 0
      BY DEF NoValue
    <3> QED
      BY <2>1, <3>1
  <2>4. Len(word) < RdevSize => ~(Len(word) >= RdevSize)
    BY <1>1 DEF RdevSize
  <2> HIDE DEF word
  <2> QED
    BY <2>2, <2>3, <2>4, Zenon DEF RootDevice
<1> QED
  BY <1>13, <1>14, Zenon DEF TextRoot, RootText, d, e, r

----------------------------------------------------------------------------
(* Tokens. *)

\* How far the places of a set reach without a gap.
LEMMA RunExists ==
  ASSUME NEW L \in Nat, NEW T
  PROVE  \E n \in 0 .. L : (\A i \in 1 .. n : i \in T) /\ (n < L => n + 1 \notin T)
<1> DEFINE E == {n \in 0 .. L : n < L => n + 1 \notin T}
<1>1. L \in E /\ E \in SUBSET Nat
  OBVIOUS
<1>2. PICK n \in E : \A m \in E : n <= m
  <2> HIDE DEF E
  <2> QED
    BY <1>1, LeastNat
<1>3. ASSUME NEW i \in 1 .. n PROVE i \in T
  <2>1. i - 1 \in 0 .. L /\ i - 1 < n /\ n <= L /\ (i - 1) + 1 = i
    BY <1>2
  <2>2. i - 1 \notin E
    BY <1>2, <2>1
  <2> QED
    BY <2>1, <2>2
<1> QED
  BY <1>2, <1>3

\* strspn and strcspn stop where their characters do.
LEMMA Spans ==
  ASSUME NEW s \in Seq(Int), NEW C
  PROVE  /\ strspn(s, C) \in 0 .. Len(s)
         /\ \A i \in 1 .. strspn(s, C) : s[i] \in C
         /\ strspn(s, C) < Len(s) => s[strspn(s, C) + 1] \notin C
         /\ strcspn(s, C) \in 0 .. Len(s)
         /\ \A i \in 1 .. strcspn(s, C) : s[i] \notin C
         /\ strcspn(s, C) < Len(s) => s[strcspn(s, C) + 1] \in C
<1> DEFINE L == Len(s)
           In(n) == (\A i \in 1 .. n : s[i] \in C) /\ (n < L => s[n + 1] \notin C)
           Out(n) == (\A i \in 1 .. n : s[i] \notin C) /\ (n < L => s[n + 1] \in C)
<1>1. L \in Nat
  OBVIOUS
<1>2. \E n \in 0 .. L : In(n)
  <2> DEFINE T == {i \in 1 .. L : s[i] \in C}
  <2>1. PICK n \in 0 .. L : (\A i \in 1 .. n : i \in T) /\ (n < L => n + 1 \notin T)
    <3> HIDE DEF T, L
    <3> QED
      BY <1>1, RunExists
  <2>2. n < L => n + 1 \in 1 .. L
    BY <1>1
  <2>3. In(n)
    BY <2>1, <2>2
  <2> QED
    BY <2>3
<1>3. \E n \in 0 .. L : Out(n)
  <2> DEFINE T == {i \in 1 .. L : s[i] \notin C}
  <2>1. PICK n \in 0 .. L : (\A i \in 1 .. n : i \in T) /\ (n < L => n + 1 \notin T)
    <3> HIDE DEF T, L
    <3> QED
      BY <1>1, RunExists
  <2>2. n < L => n + 1 \in 1 .. L
    BY <1>1
  <2>3. Out(n)
    BY <2>1, <2>2
  <2> QED
    BY <2>3
<1>4. strspn(s, C) \in 0 .. L /\ In(strspn(s, C))
  BY <1>2, Zenon DEF strspn
<1>5. strcspn(s, C) \in 0 .. L /\ Out(strcspn(s, C))
  BY <1>3, Zenon DEF strcspn
<1> QED
  BY <1>4, <1>5

\* A word ends where it is said to.
LEMMA WordEnds ==
  ASSUME NEW s \in Seq(Int), NEW C, NEW i \in Nat, NEW e \in i .. Len(s),
         \A k \in i .. e : s[k] \notin C, e < Len(s) => s[e + 1] \in C
  PROVE  EndOf(s, C, i) = e
<1> DEFINE L == Len(s)
           Ends(j) == (\A k \in i .. j : s[k] \notin C) /\ (j < L => s[j + 1] \in C)
           j == EndOf(s, C, i)
<1>1. L \in Nat /\ e \in Nat
  OBVIOUS
<1>2. j \in i .. L /\ Ends(j)
  BY Zenon DEF EndOf
<1> HIDE DEF j
<1>3. j \in Nat /\ j <= L
  BY <1>1, <1>2
<1>4. ~(j < e)
  <2> SUFFICES ASSUME j < e PROVE FALSE
    OBVIOUS
  <2>1. j + 1 \in i .. e /\ j < L
    BY <1>1, <1>2, <1>3
  <2> QED
    BY <1>2, <2>1
<1>5. ~(e < j)
  <2> SUFFICES ASSUME e < j PROVE FALSE
    OBVIOUS
  <2>1. e + 1 \in i .. j /\ e < L
    BY <1>1, <1>2, <1>3
  <2> QED
    BY <1>2, <2>1
<1>6. j = e
  BY <1>1, <1>3, <1>4, <1>5
<1> QED
  BY <1>6 DEF j

\* The number of the word that starts at i.
Rank(s, C, i) == Cardinality({j \in Starts(s, C) : j <= i})

\* The numbers go up by one from word to word.
LEMMA RankSteps ==
  ASSUME NEW s \in Seq(Int), NEW C, NEW p \in Int, NEW r \in Int, p <= r
  PROVE  /\ Rank(s, C, p) \in Nat
         /\ \A i \in Starts(s, C) : i <= p => Rank(s, C, i) \in 1 .. Rank(s, C, p)
         /\ (\A j \in Starts(s, C) : j <= r => j <= p) => Rank(s, C, r) = Rank(s, C, p)
         /\ \A i \in Starts(s, C) :
              p < i /\ i <= r /\ (\A j \in Starts(s, C) : j <= r => j <= p \/ j = i)
                => Rank(s, C, i) = Rank(s, C, p) + 1 /\ Rank(s, C, r) = Rank(s, C, p) + 1
<1> DEFINE W == Starts(s, C)
           Upto(i) == {j \in W : j <= i}
<1>1. IsFiniteSet(W) /\ \A j \in W : j \in Int
  <2>1. Len(s) \in Nat /\ W \subseteq 1 .. Len(s)
    BY DEF Starts
  <2>2. IsFiniteSet(1 .. Len(s))
    <3>1. 1 \in Int /\ Len(s) \in Int
      BY <2>1
    <3> QED
      BY <3>1, FS_Interval
  <2>3. IsFiniteSet(W)
    BY <2>1, <2>2, FS_Subset
  <2> QED
    BY <2>1, <2>3
<1> HIDE DEF W
<1>2. ASSUME NEW i PROVE IsFiniteSet(Upto(i)) /\ Cardinality(Upto(i)) \in Nat
  <2>1. Upto(i) \subseteq W
    OBVIOUS
  <2> HIDE DEF Upto
  <2>2. IsFiniteSet(Upto(i))
    BY <1>1, <2>1, FS_Subset
  <2> QED
    BY <2>2, FS_CardinalityType
<1>3. \A i : Rank(s, C, i) = Cardinality(Upto(i))
  BY DEF Rank, W
<1>4. ASSUME NEW i \in W, i <= p PROVE Cardinality(Upto(i)) \in 1 .. Cardinality(Upto(p))
  <2>1. Upto(i) \subseteq Upto(p) /\ i \in Upto(i)
    BY <1>1, <1>4
  <2> DEFINE A == Upto(i)
             B == Upto(p)
  <2>2. IsFiniteSet(A) /\ IsFiniteSet(B) /\ Cardinality(A) \in Nat /\ Cardinality(B) \in Nat
    BY <1>2
  <2> HIDE DEF A, B, Upto
  <2>3. Cardinality(A) <= Cardinality(B)
    BY <2>1, <2>2, FS_Subset DEF A, B
  <2>4. A # {}
    BY <2>1 DEF A
  <2>5. Cardinality(A) # 0
    BY <2>2, <2>4, FS_EmptySet
  <2> QED
    BY <2>2, <2>3, <2>5 DEF A, B
<1>5. ASSUME \A j \in W : j <= r => j <= p PROVE Upto(r) = Upto(p)
  BY <1>1, <1>5
<1>6. ASSUME NEW i \in W, p < i, i <= r, \A j \in W : j <= r => j <= p \/ j = i
      PROVE  Cardinality(Upto(i)) = Cardinality(Upto(p)) + 1 /\ Upto(r) = Upto(i)
  <2>1. Upto(i) = Upto(p) \cup {i} /\ i \notin Upto(p) /\ Upto(r) = Upto(i)
    BY <1>1, <1>6
  <2> DEFINE B == Upto(p)
  <2>2. IsFiniteSet(B)
    BY <1>2
  <2> HIDE DEF Upto
  <2>3. i \notin B /\ Upto(i) = B \cup {i}
    BY <2>1
  <2> HIDE DEF B
  <2>4. Cardinality(B \cup {i}) = Cardinality(B) + 1
    BY <2>2, <2>3, FS_AddElement
  <2> QED
    BY <2>1, <2>3, <2>4 DEF B
<1> HIDE DEF Upto
<1>7. Rank(s, C, p) \in Nat
  BY <1>2, <1>3
<1>8. \A i \in W : i <= p => Rank(s, C, i) \in 1 .. Rank(s, C, p)
  BY <1>3, <1>4
<1>9. (\A j \in W : j <= r => j <= p) => Rank(s, C, r) = Rank(s, C, p)
  BY <1>3, <1>5
<1>10. ASSUME NEW i \in W, p < i, i <= r, \A j \in W : j <= r => j <= p \/ j = i
       PROVE  Rank(s, C, i) = Rank(s, C, p) + 1 /\ Rank(s, C, r) = Rank(s, C, p) + 1
  BY <1>3, <1>6, <1>10
<1> QED
  BY <1>7, <1>8, <1>9, <1>10 DEF W

\* What a call does at place p of the string: it steps over a delimiters,
\* takes n characters, and leaves off at place r.
TokenAt(s, C, p, a, n, r) ==
    /\ a \in Nat /\ n \in Nat /\ p + a + n <= Len(s)
    /\ r \in Nat /\ r = IF p + a + n < Len(s) THEN p + a + n + 1 ELSE Len(s)
    /\ \A i \in p + 1 .. p + a : s[i] \in C
    /\ \A i \in p + a + 1 .. p + a + n : s[i] \notin C
    /\ p + a < Len(s) => s[p + a + 1] \notin C
    /\ p + a + n < Len(s) => s[p + a + n + 1] \in C
CallGives(s, C, p) ==
    \E a, n, r : /\ TokenAt(s, C, p, a, n, r)
                 /\ strtok_r(SubSeq(s, p + 1, Len(s)), C)
                      = [tok |-> SubSeq(s, p + a + 1, p + a + n),
                         save |-> SubSeq(s, r + 1, Len(s))]

\* strtok_r does that.
LEMMA TokenCall ==
  ASSUME NEW s \in Seq(Int), NEW C, NEW p \in 0 .. Len(s)
  PROVE  CallGives(s, C, p)
<1> DEFINE L == Len(s)
           t == SubSeq(s, p + 1, L)
           a == strspn(t, C)
           from == SubSeq(t, a + 1, Len(t))
           n == strcspn(from, C)
           r == IF p + a + n < L THEN p + a + n + 1 ELSE L
<1>1. L \in Nat /\ p \in Nat /\ p <= L
  OBVIOUS
<1>2. t \in Seq(Int) /\ Len(t) = L - p /\ \A i \in 1 .. L - p : t[i] = s[p + i]
  <2> HIDE DEF L
  <2>1. s \in Seq(Int) /\ p \in Nat /\ L \in Nat /\ p <= L /\ L <= Len(s)
    BY <1>1 DEF L
  <2> QED
    BY <2>1, CutTo
<1> HIDE DEF t
<1>3. /\ a \in 0 .. Len(t) /\ (\A i \in 1 .. a : t[i] \in C)
      /\ a < Len(t) => t[a + 1] \notin C
  BY <1>2, Spans
<1> HIDE DEF a
<1>4. /\ from \in Seq(Int) /\ Len(from) = L - p - a
      /\ \A i \in 1 .. L - p - a : from[i] = s[p + a + i]
  <2> DEFINE m == L - p - a
  <2>0. Len(t) \in Nat /\ a \in Nat /\ a <= Len(t)
    BY <1>2, <1>3
  <2>1. m \in Nat /\ m = Len(t) - a
    BY <1>1, <1>2, <2>0
  <2>2. from \in Seq(Int) /\ Len(from) = Len(t) - a /\ \A i \in 1 .. Len(t) - a : from[i] = t[a + i]
    <3>1. Len(t) <= Len(t)
      BY <2>0
    <3> QED
      BY <1>2, <2>0, <3>1, CutTo
  <2> HIDE DEF m, from
  <2>3. from \in Seq(Int) /\ Len(from) = m /\ \A i \in 1 .. m : from[i] = t[a + i]
    BY <2>1, <2>2
  <2>4. ASSUME NEW i \in 1 .. m PROVE from[i] = s[p + a + i]
    <3>1. a + i \in 1 .. L - p /\ p + (a + i) = p + a + i
      BY <1>1, <1>2, <2>0, <2>1
    <3> QED
      BY <1>2, <2>3, <3>1
  <2> QED
    BY <2>3, <2>4 DEF m
<1>5. /\ n \in 0 .. Len(from) /\ (\A i \in 1 .. n : from[i] \notin C)
      /\ n < Len(from) => from[n + 1] \in C
  BY <1>4, Spans
<1>6. strtok_r(t, C) = [tok |-> SubSeq(from, 1, n), save |-> SubSeq(from, n + 2, Len(from))]
  BY Zenon DEF strtok_r, a
<1> HIDE DEF from, n
<1>7. /\ a \in Nat /\ n \in Nat /\ p + a + n <= L /\ a <= L - p
      /\ p + a < L <=> a < Len(t)
      /\ p + a + n < L <=> n < Len(from)
      /\ r \in Nat
  <2>1. Len(t) = L - p /\ a \in 0 .. Len(t)
    BY <1>2, <1>3
  <2>2. Len(from) = L - p - a /\ n \in 0 .. Len(from)
    BY <1>4, <1>5
  <2> QED
    BY <1>1, <2>1, <2>2
<1>8. SubSeq(from, 1, n) = SubSeq(s, p + a + 1, p + a + n)
  <2> DEFINE u == SubSeq(from, 0 + 1, 0 + n)
             b == p + a
             v == SubSeq(s, b + 1, b + n)
  <2>1. u \in Seq(Int) /\ Len(u) = n /\ \A i \in 1 .. n : u[i] = from[0 + i]
    <3>1. 0 \in Nat /\ n \in Nat /\ 0 + n <= Len(from)
      BY <1>5, <1>7
    <3> QED
      BY <1>4, <3>1, CutOut
  <2>2. v \in Seq(Int) /\ Len(v) = n /\ \A i \in 1 .. n : v[i] = s[b + i]
    <3>1. b \in Nat /\ n \in Nat /\ b + n <= L
      BY <1>1, <1>7
    <3> HIDE DEF b
    <3> QED
      BY <3>1, CutOut
  <2> HIDE DEF u, v
  <2>3. ASSUME NEW i \in 1 .. n PROVE u[i] = v[i]
    <3>1. i \in 1 .. L - p - a /\ 0 + i = i
      BY <1>4, <1>5, <1>7
    <3> QED
      BY <1>4, <2>1, <2>2, <3>1
  <2>4. u = v
    BY <2>1, <2>2, <2>3, SeqEqual
  <2>5. 0 + 1 = 1 /\ 0 + n = n
    BY <1>7
  <2> QED
    BY <2>4, <2>5 DEF u, v
<1>9. SubSeq(from, n + 2, Len(from)) = SubSeq(s, r + 1, L)
  <2>1. CASE p + a + n < L
    <3> DEFINE m == L - p - a - n - 1
               c == n + 1
               u == SubSeq(from, c + 1, c + m)
               v == SubSeq(s, r + 1, r + m)
    <3>1. /\ m \in Nat /\ c \in Nat /\ r = p + a + n + 1
          /\ c + 1 = n + 2 /\ c + m = Len(from) /\ r + m = L
      BY <1>1, <1>4, <1>7, <2>1
    <3>2. u \in Seq(Int) /\ Len(u) = m /\ \A i \in 1 .. m : u[i] = from[c + i]
      <4>1. c + m <= Len(from)
        BY <1>4, <3>1
      <4> HIDE DEF m, c
      <4> QED
        BY <1>4, <3>1, <4>1, CutOut
    <3>3. v \in Seq(Int) /\ Len(v) = m /\ \A i \in 1 .. m : v[i] = s[r + i]
      <4>1. r + m <= L
        BY <1>1, <3>1
      <4>2. m \in Nat /\ r \in Nat /\ L = Len(s)
        BY <1>7, <3>1
      <4> HIDE DEF m, r
      <4> QED
        BY <4>1, <4>2, CutOut
    <3> HIDE DEF u, v
    <3>4. ASSUME NEW i \in 1 .. m PROVE u[i] = v[i]
      <4>1. c + i \in 1 .. L - p - a /\ p + a + (c + i) = r + i
        BY <1>1, <1>7, <3>1
      <4> HIDE DEF c, r, m
      <4> QED
        BY <1>4, <3>2, <3>3, <4>1
    <3>5. u = v
      BY <3>2, <3>3, <3>4, SeqEqual
    <3> HIDE DEF m, c, r
    <3> QED
      BY <3>1, <3>5 DEF u, v
  <2>2. CASE ~(p + a + n < L)
    <3>1. Len(from) = n /\ r = L /\ n \in Nat
      BY <1>1, <1>4, <1>7, <2>2
    <3>2. SubSeq(from, n + 2, Len(from)) = <<>>
      BY <3>1, SubSeqEmpty
    <3>3. SubSeq(s, r + 1, L) = <<>>
      BY <1>1, <3>1, SubSeqEmpty
    <3> QED
      BY <3>2, <3>3
  <2> QED
    BY <2>1, <2>2
<1>10. TokenAt(s, C, p, a, n, r)
  <2>1. ASSUME NEW i \in p + 1 .. p + a PROVE s[i] \in C
    <3>1. i - p \in 1 .. a /\ i - p \in 1 .. L - p /\ p + (i - p) = i
      BY <1>1, <1>7
    <3> QED
      BY <1>2, <1>3, <3>1
  <2>2. ASSUME NEW i \in p + a + 1 .. p + a + n PROVE s[i] \notin C
    <3>1. i - p - a \in 1 .. n /\ i - p - a \in 1 .. L - p - a /\ p + a + (i - p - a) = i
      BY <1>1, <1>7
    <3> QED
      BY <1>4, <1>5, <3>1
  <2>3. ASSUME p + a < L PROVE s[p + a + 1] \notin C
    <3>1. a + 1 \in 1 .. L - p /\ p + (a + 1) = p + a + 1 /\ a < Len(t)
      BY <1>1, <1>7, <2>3
    <3> QED
      BY <1>2, <1>3, <3>1
  <2>4. ASSUME p + a + n < L PROVE s[p + a + n + 1] \in C
    <3>1. n + 1 \in 1 .. L - p - a /\ p + a + (n + 1) = p + a + n + 1 /\ n < Len(from)
      BY <1>1, <1>7, <2>4
    <3> QED
      BY <1>4, <1>5, <3>1
  <2> QED
    BY <1>7, <2>1, <2>2, <2>3, <2>4 DEF TokenAt
<1> HIDE DEF r
<1>11. strtok_r(t, C) = [tok |-> SubSeq(s, p + a + 1, p + a + n), save |-> SubSeq(s, r + 1, L)]
  BY <1>6, <1>8, <1>9, Zenon
<1> QED
  BY <1>10, <1>11, Zenon DEF t, CallGives

\* After some calls: what is saved is the string from place p on, which is not
\* inside a word, and the words that start before have been returned.
TokenState == [toks : Seq(Seq(Int)), save : Seq(Int)]
TokensTo(st, s, C, p) ==
    /\ st \in TokenState /\ p \in 0 .. Len(s)
    /\ st.save = SubSeq(s, p + 1, Len(s))
    /\ p = 0 \/ p = Len(s) \/ s[p] \in C
    /\ Len(st.toks) = Rank(s, C, p)
    /\ \A i \in Starts(s, C) : i <= p => st.toks[Rank(s, C, i)] = WordAt(s, C, i)

\* A call returns the next word.
LEMMA TokenStep ==
  ASSUME NEW s \in Seq(Int), NEW C, NEW st, NEW p, TokensTo(st, s, C, p)
  PROVE  \E r : TokensTo(TokenTurn(st, C), s, C, r) /\ r >= p /\ (p < Len(s) => r > p)
<1> DEFINE L == Len(s)
           W == Starts(s, C)
           new == TokenTurn(st, C)
<1>1. /\ L \in Nat /\ p \in 0 .. L /\ p \in Nat /\ st.save = SubSeq(s, p + 1, L)
      /\ st.toks \in Seq(Seq(Int)) /\ Len(st.toks) = Rank(s, C, p)
  BY DEF TokensTo, TokenState
<1>2. PICK a, n, r : /\ TokenAt(s, C, p, a, n, r)
                     /\ strtok_r(SubSeq(s, p + 1, L), C)
                          = [tok |-> SubSeq(s, p + a + 1, p + a + n),
                             save |-> SubSeq(s, r + 1, L)]
  <2>1. p \in 0 .. Len(s)
    BY <1>1
  <2>2. CallGives(s, C, p)
    BY <2>1, TokenCall
  <2> QED
    BY <2>2, Zenon DEF CallGives
<1> DEFINE tok == SubSeq(s, p + a + 1, p + a + n)
           save == SubSeq(s, r + 1, L)
<1>3. new = [toks |-> IF tok = <<>> THEN st.toks ELSE Append(st.toks, tok), save |-> save]
  <2> DEFINE x == strtok_r(st.save, C)
  <2>1. x = [tok |-> tok, save |-> save]
    BY <1>1, <1>2, Zenon
  <2>2. new = [toks |-> IF x.tok = <<>> THEN st.toks ELSE Append(st.toks, x.tok), save |-> x.save]
    BY DEF TokenTurn
  <2> HIDE DEF x, tok, save, new
  <2>3. x.tok = tok /\ x.save = save
    BY <2>1
  <2> QED
    BY <2>2, <2>3, Zenon
<1>4. /\ a \in Nat /\ n \in Nat /\ p + a + n <= L
      /\ r \in Nat /\ r = IF p + a + n < L THEN p + a + n + 1 ELSE L
      /\ \A i \in p + 1 .. p + a : s[i] \in C
      /\ \A i \in p + a + 1 .. p + a + n : s[i] \notin C
      /\ p + a < L => s[p + a + 1] \notin C
      /\ p + a + n < L => s[p + a + n + 1] \in C
  BY <1>2 DEF TokenAt
<1>5. r \in 0 .. L /\ r >= p /\ (p < L => r > p) /\ (r = L \/ s[r] \in C)
  BY <1>1, <1>4
<1>6. save \in Seq(Int)
  <2>1. r \in Nat /\ L \in Nat /\ r <= L /\ L <= Len(s)
    BY <1>1, <1>5
  <2> QED
    BY <2>1, CutTo
<1>7. tok \in Seq(Int) /\ Len(tok) = n
  <2> DEFINE b == p + a
  <2>1. b \in Nat /\ b + n <= Len(s)
    BY <1>1, <1>4
  <2>2. tok = SubSeq(s, b + 1, b + n)
    OBVIOUS
  <2>3. n \in Nat
    BY <1>4
  <2> HIDE DEF b, tok
  <2> QED
    BY <2>1, <2>2, <2>3, CutOut
<1> HIDE DEF tok, save
<1>8. \A j \in W : /\ j \in 1 .. L /\ j \in Nat /\ s[j] \notin C
                   /\ j > 1 => s[j - 1] \in C
  BY <1>1 DEF Starts
<1>9. CASE n = 0
  <2>1. p + a = L /\ r = L
    <3>1. ~(p + a < L)
      <4> SUFFICES ASSUME p + a < L PROVE FALSE
        OBVIOUS
      <4>1. p + a + n = p + a
        BY <1>1, <1>4, <1>9
      <4> QED
        BY <1>4, <4>1
    <3> QED
      BY <1>1, <1>4, <1>9, <3>1
  <2>2. tok = <<>>
    BY <1>7, <1>9
  <2>3. ASSUME NEW j \in W PROVE j <= p
    <3> SUFFICES ASSUME ~(j <= p) PROVE FALSE
      OBVIOUS
    <3>1. j \in p + 1 .. p + a
      BY <1>1, <1>4, <1>8, <2>1
    <3> QED
      BY <1>4, <1>8, <3>1
  <2>4. Rank(s, C, r) = Rank(s, C, p)
    <3>1. p \in Int /\ r \in Int /\ p <= r
      BY <1>1, <1>5
    <3> QED
      BY <2>3, <3>1, RankSteps
  <2>5. new.toks = st.toks /\ new.save = save /\ new \in TokenState
    <3> HIDE DEF new
    <3> QED
      BY <1>1, <1>3, <1>6, <2>2 DEF TokenState
  <2> HIDE DEF new
  <2>6. TokensTo(new, s, C, r)
    BY <1>1, <1>5, <2>3, <2>4, <2>5 DEF TokensTo, save
  <2> QED
    BY <1>5, <2>6 DEF new
<1>10. CASE n # 0
  <2> DEFINE i == p + a + 1
             e == p + a + n
  <2>1. i \in Nat /\ i > p /\ i <= r /\ i \in 1 .. L /\ s[i] \notin C /\ e \in Nat /\ e \in i .. L /\ p + a < L
    BY <1>1, <1>4, <1>5, <1>10
  <2>2. i \in W
    <3>1. ASSUME i > 1 PROVE s[i - 1] \in C
      <4>1. CASE a > 0
        <5>1. i - 1 \in p + 1 .. p + a
          BY <1>1, <1>4, <4>1
        <5> QED
          BY <1>4, <5>1
      <4>2. CASE ~(a > 0)
        <5>1. i - 1 = p /\ p # 0 /\ p # L
          BY <1>1, <1>4, <2>1, <3>1, <4>2
        <5> QED
          BY <5>1 DEF TokensTo
      <4> QED
        BY <4>1, <4>2
    <3> HIDE DEF i
    <3> QED
      BY <2>1, <3>1 DEF Starts
  <2>3. ASSUME NEW j \in W, j <= r PROVE j <= p \/ j = i
    <3> SUFFICES ASSUME j > p, j # i PROVE FALSE
      BY <1>1, <1>8, <2>1
    <3>1. CASE j <= p + a
      <4>1. j \in p + 1 .. p + a
        BY <1>1, <1>4, <1>8, <3>1
      <4> QED
        BY <1>4, <1>8, <4>1
    <3>2. CASE j > p + a /\ j <= e
      <4>1. j - 1 \in p + a + 1 .. p + a + n /\ j > 1
        <5>1. j \in Nat /\ p + a \in Nat /\ j # p + a + 1
          BY <1>1, <1>4, <1>8
        <5>2. j > p + a /\ j <= p + a + n /\ n \in Nat
          BY <1>4, <3>2
        <5> QED
          BY <5>1, <5>2
      <4> QED
        BY <1>4, <1>8, <4>1
    <3>3. CASE j > e
      <4>1. e < L /\ j = p + a + n + 1
        BY <1>1, <1>4, <1>8, <2>3, <3>3
      <4> QED
        BY <1>4, <1>8, <4>1
    <3> QED
      BY <1>1, <1>4, <1>8, <3>1, <3>2, <3>3
  <2>4. EndOf(s, C, i) = e
    <3>1. \A k \in i .. e : s[k] \notin C
      BY <1>4
    <3>2. e < Len(s) => s[e + 1] \in C
      BY <1>4
    <3> HIDE DEF i, e
    <3> QED
      BY <2>1, <3>1, <3>2, WordEnds
  <2>5. tok = WordAt(s, C, i)
    BY <2>4, Zenon DEF tok, WordAt
  <2> HIDE DEF i, e
  <2>6. /\ Rank(s, C, i) = Rank(s, C, p) + 1 /\ Rank(s, C, r) = Rank(s, C, p) + 1
        /\ Rank(s, C, p) \in Nat
        /\ \A j \in W : j <= p => Rank(s, C, j) \in 1 .. Rank(s, C, p)
    <3>1. p \in Int /\ r \in Int /\ p <= r /\ p < i /\ i <= r
      BY <1>1, <1>5, <2>1
    <3> QED
      BY <2>2, <2>3, <3>1, RankSteps
  <2>7. tok # <<>>
    BY <1>7, <1>10
  <2> DEFINE toks == Append(st.toks, tok)
  <2>8. /\ toks \in Seq(Seq(Int)) /\ Len(toks) = Rank(s, C, p) + 1
        /\ \A k \in 1 .. Rank(s, C, p) : toks[k] = st.toks[k]
        /\ toks[Rank(s, C, p) + 1] = tok
    BY <1>1, <1>7, <2>6, AppendProperties
  <2> HIDE DEF toks
  <2>9. new.toks = toks /\ new.save = save /\ new \in TokenState
    <3> HIDE DEF new
    <3>1. new = [toks |-> toks, save |-> save]
      BY <1>3, <2>7, Zenon DEF toks
    <3> QED
      BY <1>6, <2>8, <3>1 DEF TokenState
  <2> HIDE DEF new
  <2>10. ASSUME NEW j \in W, j <= r PROVE new.toks[Rank(s, C, j)] = WordAt(s, C, j)
    <3>1. CASE j <= p
      <4>1. Rank(s, C, j) \in 1 .. Rank(s, C, p)
        BY <2>6, <3>1
      <4>2. st.toks[Rank(s, C, j)] = WordAt(s, C, j)
        BY <3>1 DEF TokensTo
      <4> QED
        BY <2>8, <2>9, <4>1, <4>2
    <3>2. CASE j = i
      BY <2>5, <2>6, <2>8, <2>9, <3>2
    <3> QED
      BY <2>3, <2>10, <3>1, <3>2
  <2>11. TokensTo(new, s, C, r)
    BY <1>5, <2>6, <2>8, <2>9, <2>10 DEF TokensTo, save
  <2> QED
    BY <1>5, <2>11 DEF new
<1> QED
  BY <1>9, <1>10

\* A call, typed.
LEMMA TokenTurnType ==
  ASSUME NEW st \in TokenState, NEW C
  PROVE  TokenTurn(st, C) \in TokenState
<1> DEFINE s == st.save
<1>1. s \in Seq(Int) /\ st.toks \in Seq(Seq(Int)) /\ Len(s) \in Nat
  BY DEF TokenState
<1> HIDE DEF s
<1>2. 0 \in 0 .. Len(s) /\ SubSeq(s, 0 + 1, Len(s)) = s
  <2>1. 0 + 1 = 1 /\ 0 \in 0 .. Len(s)
    BY <1>1
  <2>2. SubSeq(s, 1, Len(s)) = s
    BY <1>1, SubSeqFull
  <2> QED
    BY <2>1, <2>2
<1>3. CallGives(s, C, 0)
  BY <1>1, <1>2, TokenCall
<1>4. PICK a, n, r : /\ TokenAt(s, C, 0, a, n, r)
                     /\ strtok_r(s, C) = [tok |-> SubSeq(s, 0 + a + 1, 0 + a + n),
                                          save |-> SubSeq(s, r + 1, Len(s))]
  BY <1>2, <1>3, Zenon DEF CallGives
<1> DEFINE b == 0 + a
           tok == SubSeq(s, b + 1, b + n)
           save == SubSeq(s, r + 1, Len(s))
<1>5. b \in Nat /\ n \in Nat /\ b + n <= Len(s) /\ r \in Nat /\ r <= Len(s) /\ Len(s) <= Len(s)
  BY <1>1, <1>4 DEF TokenAt
<1> HIDE DEF b
<1>6. tok \in Seq(Int)
  BY <1>1, <1>5, CutOut
<1>7. save \in Seq(Int)
  BY <1>1, <1>5, CutTo
<1>8. strtok_r(s, C) = [tok |-> tok, save |-> save]
  BY <1>4, Zenon DEF b
<1> HIDE DEF tok, save
<1>9. Append(st.toks, tok) \in Seq(Seq(Int))
  BY <1>1, <1>6
<1>10. TokenTurn(st, C)
         = [toks |-> IF tok = <<>> THEN st.toks ELSE Append(st.toks, tok), save |-> save]
  <2> DEFINE x == strtok_r(s, C)
  <2>1. TokenTurn(st, C)
          = [toks |-> IF x.tok = <<>> THEN st.toks ELSE Append(st.toks, x.tok), save |-> x.save]
    BY Zenon DEF TokenTurn, s
  <2> HIDE DEF x
  <2>2. x.tok = tok /\ x.save = save
    BY <1>8 DEF x
  <2> QED
    BY <2>1, <2>2, Zenon
<1> DEFINE app == Append(st.toks, tok)
           toks == IF tok = <<>> THEN st.toks ELSE app
<1>11. toks \in Seq(Seq(Int))
  <2> HIDE DEF app
  <2> QED
    BY <1>1, <1>9 DEF app
<1> HIDE DEF toks
<1> QED
  BY <1>7, <1>10, <1>11 DEF TokenState, toks

\* The loop of calls.
Calls(turn, s, C) ==
    /\ turn \in [0 .. Len(s) -> TokenState]
    /\ turn[0] = [toks |-> <<>>, save |-> s]
    /\ \A k \in 1 .. Len(s) : turn[k] = TokenTurn(turn[k - 1], C)

\* Tokens is what the calls end with.
LEMMA TokenLoop ==
  ASSUME NEW s \in Seq(Int), NEW C
  PROVE  \E turn : Calls(turn, s, C) /\ Tokens(s, C) = turn[Len(s)].toks
<1> DEFINE n == Len(s)
           none == [toks |-> <<>>, save |-> s]
           step == [k \in 0 + 1 .. n |-> [st \in TokenState |-> TokenTurn(st, C)]]
           eqn(g) == g = [k \in 0 .. n |-> IF k = 0 THEN none ELSE TokenTurn(g[k - 1], C)]
           turn == CHOOSE g : eqn(g)
<1>1. 0 \in Nat /\ n \in Nat /\ 0 <= n
  OBVIOUS
<1>2. none \in TokenState
  BY DEF TokenState
<1>3. step \in Steps(0, n, TokenState)
  <2>1. ASSUME NEW st \in TokenState PROVE TokenTurn(st, C) \in TokenState
    BY TokenTurnType
  <2> HIDE DEF n
  <2> QED
    BY <2>1, Zenon DEF Steps
<1>4. PICK g : IsLoop(g, 0, n, TokenState, none, step)
  <2> HIDE DEF step, n, none
  <2> QED
    BY <1>1, <1>2, <1>3, LoopExists
<1>5. /\ g \in [0 .. n -> TokenState] /\ g[0] = none
      /\ \A k \in 0 + 1 .. n : g[k] = step[k][g[k - 1]]
  <2> HIDE DEF step, n, none
  <2> QED
    BY <1>4 DEF IsLoop
<1>6. ASSUME NEW k \in 1 .. n PROVE g[k] = TokenTurn(g[k - 1], C)
  <2>1. k - 1 \in 0 .. n /\ k \in 0 + 1 .. n
    BY <1>1
  <2>2. g[k - 1] \in TokenState /\ g[k] = step[k][g[k - 1]]
    <3> HIDE DEF step, n
    <3> QED
      BY <1>5, <2>1
  <2> QED
    BY <2>1, <2>2
<1> HIDE DEF none
<1>7. eqn(g)
  <2>1. ASSUME NEW k \in 0 .. n
        PROVE  g[k] = IF k = 0 THEN none ELSE TokenTurn(g[k - 1], C)
    <3>1. CASE k # 0
      <4>1. k \in 1 .. n
        BY <1>1, <3>1
      <4> QED
        BY <1>6, <3>1, <4>1
    <3> QED
      BY <1>5, <3>1
  <2>2. g = [k \in 0 .. n |-> g[k]]
    <3> HIDE DEF n
    <3> QED
      BY <1>5
  <2> QED
    BY <2>1, <2>2
<1>8. eqn(turn)
  BY <1>7, Zenon
<1>9. Tokens(s, C) = turn[n].toks
  BY Zenon DEF Tokens, none
<1> HIDE DEF turn
<1> DEFINE S == {k \in 0 .. n : turn[k] = g[k]}
<1>10. turn[0] = none /\ \A k \in 1 .. n : turn[k] = TokenTurn(turn[k - 1], C)
  <2>1. 0 \in 0 .. n /\ \A k \in 1 .. n : k \in 0 .. n /\ k # 0
    BY <1>1
  <2>2. \A k \in 0 .. n : turn[k] = IF k = 0 THEN none ELSE TokenTurn(turn[k - 1], C)
    <3> HIDE DEF n
    <3> QED
      BY <1>8, Zenon
  <2> QED
    BY <2>1, <2>2, Zenon
<1>11. 0 \in S
  BY <1>1, <1>5, <1>10
<1>12. ASSUME NEW k \in 0 + 1 .. n, k - 1 \in S PROVE k \in S
  <2>1. k \in 1 .. n /\ k \in 0 .. n /\ turn[k - 1] = g[k - 1]
    BY <1>1, <1>12
  <2> QED
    BY <1>6, <1>10, <2>1
<1>13. \A k \in 0 .. n : k \in S
  <2> HIDE DEF S, n
  <2> QED
    BY <1>1, <1>11, <1>12, RangeInduction
<1>14. Tokens(s, C) = g[n].toks
  <2>1. n \in 0 .. n
    BY <1>1
  <2>2. turn[n] = g[n]
    BY <1>13, <2>1
  <2> QED
    BY <1>9, <2>2
<1>15. Calls(g, s, C)
  BY <1>5, <1>6 DEF Calls, none
<1> QED
  BY <1>14, <1>15

\* All the words are returned.
LEMMA TokensRead ==
  ASSUME tcase \in TokenCase
  PROVE  TextTokens
<1> DEFINE s == tcase.s
           C == tcase.delim
           L == Len(s)
           W == Starts(s, C)
<1>1. s \in Seq(Int) /\ L \in Nat
  <2>1. s \in Seq(Nat \ {0})
    BY DEF TokenCase
  <2> QED
    BY <2>1
<1> HIDE DEF s, C
<1>2. PICK turn : Calls(turn, s, C) /\ Tokens(s, C) = turn[L].toks
  BY <1>1, TokenLoop
<1> DEFINE Got(k) == \E p : TokensTo(turn[k], s, C, p) /\ (p = L \/ p >= k)
           S == {k \in 0 .. L : Got(k)}
<1>3. /\ turn \in [0 .. L -> TokenState]
      /\ turn[0] = [toks |-> <<>>, save |-> s]
      /\ \A k \in 1 .. L : turn[k] = TokenTurn(turn[k - 1], C)
  BY <1>2 DEF Calls
<1>4. \A j \in W : j \in 1 .. L
  BY <1>1 DEF Starts
<1>5. 0 \in S
  <2>1. Rank(s, C, 0) = 0
    <3>1. {j \in W : j <= 0} = {}
      BY <1>1, <1>4
    <3> QED
      BY <3>1, FS_EmptySet DEF Rank
  <2>2. turn[0].save = SubSeq(s, 0 + 1, L)
    <3>1. SubSeq(s, 1, L) = s /\ 0 + 1 = 1
      BY <1>1, SubSeqFull
    <3> QED
      BY <1>3, <3>1
  <2>3. turn[0] \in TokenState /\ Len(turn[0].toks) = 0 /\ 0 \in 0 .. L
    BY <1>1, <1>3
  <2>4. \A i \in W : i <= 0 => turn[0].toks[Rank(s, C, i)] = WordAt(s, C, i)
    BY <1>1, <1>4
  <2>5. TokensTo(turn[0], s, C, 0)
    BY <2>1, <2>2, <2>3, <2>4 DEF TokensTo
  <2> QED
    BY <2>3, <2>5
<1>6. ASSUME NEW k \in 0 + 1 .. L, k - 1 \in S PROVE k \in S
  <2>1. k \in 1 .. L /\ k \in 0 .. L /\ k \in Nat
    BY <1>1
  <2>2. PICK p : TokensTo(turn[k - 1], s, C, p) /\ (p = L \/ p >= k - 1)
    BY <1>6
  <2>3. PICK r : TokensTo(TokenTurn(turn[k - 1], C), s, C, r) /\ r >= p /\ (p < L => r > p)
    BY <1>1, <2>2, TokenStep
  <2>4. p \in 0 .. L /\ r \in 0 .. L
    BY <2>2, <2>3 DEF TokensTo
  <2>5. r = L \/ r >= k
    BY <1>1, <2>1, <2>2, <2>3, <2>4
  <2>6. TokensTo(turn[k], s, C, r)
    BY <1>3, <2>1, <2>3
  <2> QED
    BY <2>1, <2>5, <2>6
<1>7. \A k \in 0 .. L : k \in S
  <2>1. 0 \in Nat
    OBVIOUS
  <2> HIDE DEF S, L
  <2> QED
    BY <1>1, <1>5, <1>6, <2>1, RangeInduction
<1>8. TokensTo(turn[L], s, C, L)
  <2>1. L \in 0 .. L
    BY <1>1
  <2>2. PICK p : TokensTo(turn[L], s, C, p) /\ (p = L \/ p >= L)
    BY <1>7, <2>1
  <2>3. p \in 0 .. L
    BY <2>2 DEF TokensTo
  <2>4. p = L
    BY <1>1, <2>2, <2>3
  <2> QED
    BY <2>2, <2>4
<1> DEFINE toks == Tokens(s, C)
<1>9. /\ Len(toks) = Rank(s, C, L)
      /\ \A i \in W : i <= L => toks[Rank(s, C, i)] = WordAt(s, C, i)
  BY <1>2, <1>8 DEF TokensTo
<1>10. Len(toks) = Cardinality(W)
  <2>1. {j \in W : j <= L} = W
    BY <1>1, <1>4
  <2> QED
    BY <1>9, <2>1 DEF Rank
<1>11. \A i \in W : toks[Cardinality({j \in W : j <= i})] = WordAt(s, C, i)
  <2>1. \A i \in W : i <= L
    BY <1>1, <1>4
  <2> QED
    BY <1>9, <2>1 DEF Rank
<1> QED
  BY <1>10, <1>11, Zenon DEF TextTokens, s, C

----------------------------------------------------------------------------
(* The command line. *)

\* A string that is cut by a zero.
LEMMA CStringIs ==
  ASSUME NEW str \in Seq(Int), NEW b \in Nat, b >= 1, NEW f \in Nat, b <= f + 1, f <= Len(str),
         \A k \in b .. f : str[k] # 0, At(str, f + 1) = 0
  PROVE  CString(str, b) = SubSeq(str, b, f)
<1> DEFINE L == Len(str)
           Stop(j) == At(str, j) = 0 /\ \A k \in b .. j - 1 : At(str, k) # 0
           stop == CHOOSE j \in b .. L + 1 : Stop(j)
<1>1. L \in Nat /\ f + 1 \in b .. L + 1
  OBVIOUS
<1>2. ASSUME NEW k \in b .. f PROVE At(str, k) # 0
  BY <1>1 DEF At
<1>3. Stop(f + 1)
  <2>1. (f + 1) - 1 = f
    OBVIOUS
  <2> QED
    BY <1>2, <2>1
<1>4. stop \in b .. L + 1 /\ Stop(stop)
  <2> HIDE DEF Stop
  <2> QED
    BY <1>1, <1>3, Zenon
<1>5. CString(str, b) = SubSeq(str, b, stop - 1)
  BY Zenon DEF CString
<1> HIDE DEF stop
<1>6. ~(stop < f + 1)
  <2> SUFFICES ASSUME stop < f + 1 PROVE FALSE
    OBVIOUS
  <2>1. stop \in b .. f
    BY <1>1, <1>4
  <2> QED
    BY <1>2, <1>4, <2>1
<1>7. ~(f + 1 < stop)
  <2> SUFFICES ASSUME f + 1 < stop PROVE FALSE
    OBVIOUS
  <2>1. f + 1 \in b .. stop - 1
    BY <1>1, <1>4
  <2> QED
    BY <1>4, <2>1
<1>8. stop - 1 = f
  BY <1>1, <1>4, <1>6, <1>7
<1> QED
  BY <1>5, <1>8

\* The first of some characters.
LEMMA UpToIs ==
  ASSUME NEW str \in Seq(Int), NEW i \in Nat, NEW C, NEW j \in i .. Len(str) + 1,
         j = Len(str) + 1 \/ At(str, j) \in C, \A k \in i .. j - 1 : At(str, k) \notin C
  PROVE  UpTo(str, i, C) = j
<1> DEFINE L == Len(str)
           Stop(m) == (m = L + 1 \/ At(str, m) \in C) /\ \A k \in i .. m - 1 : At(str, k) \notin C
           m == UpTo(str, i, C)
<1>1. L \in Nat /\ j \in Nat /\ Stop(j)
  OBVIOUS
<1>2. m \in i .. L + 1 /\ Stop(m)
  BY <1>1, Zenon DEF UpTo
<1> HIDE DEF m
<1>3. ~(m < j)
  <2> SUFFICES ASSUME m < j PROVE FALSE
    OBVIOUS
  <2>1. m \in i .. j - 1 /\ m # L + 1
    BY <1>1, <1>2
  <2> QED
    BY <1>1, <1>2, <2>1
<1>4. ~(j < m)
  <2> SUFFICES ASSUME j < m PROVE FALSE
    OBVIOUS
  <2>1. j \in i .. m - 1 /\ j # L + 1
    BY <1>1, <1>2
  <2> QED
    BY <1>1, <1>2, <2>1
<1>5. m = j
  BY <1>1, <1>2, <1>3, <1>4
<1> QED
  BY <1>5 DEF m

\* Behind the spaces.
LEMMA PastSpacesIs ==
  ASSUME NEW str \in Seq(Int), NEW i \in Nat, i >= 1, i <= Len(str) + 1
  PROVE  /\ PastSpaces(str, i) \in i .. Len(str) + 1
         /\ At(str, PastSpaces(str, i)) # SpaceCh
         /\ \A k \in i .. PastSpaces(str, i) - 1 : At(str, k) = SpaceCh
<1> DEFINE L == Len(str)
           Stop(j) == At(str, j) # SpaceCh /\ \A k \in i .. j - 1 : At(str, k) = SpaceCh
           M == L + 1 - i
           T == {m \in 1 .. M : At(str, i + m - 1) = SpaceCh}
<1>1. L \in Nat /\ M \in Nat
  OBVIOUS
<1>2. PICK n \in 0 .. M : (\A m \in 1 .. n : m \in T) /\ (n < M => n + 1 \notin T)
  <2> HIDE DEF T, M
  <2> QED
    BY <1>1, RunExists
<1>3. i + n \in i .. L + 1
  BY <1>1
<1>4. At(str, i + n) # SpaceCh
  <2>1. CASE n < M
    <3>1. n + 1 \in 1 .. M /\ i + (n + 1) - 1 = i + n
      BY <1>1, <2>1
    <3> QED
      BY <1>2, <2>1, <3>1
  <2>2. CASE ~(n < M)
    <3>1. i + n = L + 1 /\ ~(L + 1 <= L)
      BY <1>1, <2>2
    <3>2. At(str, i + n) = 0
      BY <3>1 DEF At
    <3> QED
      BY <3>2 DEF SpaceCh
  <2> QED
    BY <2>1, <2>2
<1>5. ASSUME NEW k \in i .. (i + n) - 1 PROVE At(str, k) = SpaceCh
  <2>1. k - i + 1 \in 1 .. n /\ i + (k - i + 1) - 1 = k
    BY <1>1
  <2> QED
    BY <1>2, <2>1
<1>6. \E j \in i .. L + 1 : Stop(j)
  BY <1>3, <1>4, <1>5
<1>7. PastSpaces(str, i) \in i .. L + 1 /\ Stop(PastSpaces(str, i))
  BY <1>6, Zenon DEF PastSpaces
<1> QED
  BY <1>7

\* A word of the line, from b to e.
Spaces == {SpaceCh}
IsWord(line, b, e) ==
    /\ b \in 1 .. Len(line) /\ e \in b .. Len(line)
    /\ b > 1 => line[b - 1] = SpaceCh
    /\ \A k \in b .. e : line[k] # SpaceCh
    /\ e < Len(line) => line[e + 1] = SpaceCh

\* The words are those of the definition.
LEMMA WordsAre ==
  ASSUME NEW line \in Seq(Int)
  PROVE  /\ \A b \in Starts(line, Spaces) : IsWord(line, b, EndOf(line, Spaces, b))
         /\ \A b, e : IsWord(line, b, e) => b \in Starts(line, Spaces) /\ EndOf(line, Spaces, b) = e
<1> DEFINE L == Len(line)
<1>1. L \in Nat
  OBVIOUS
<1>2. ASSUME NEW b, NEW e, IsWord(line, b, e)
      PROVE  b \in Starts(line, Spaces) /\ EndOf(line, Spaces, b) = e
  <2>1. b \in 1 .. L /\ e \in b .. L /\ b \in Nat
    BY <1>1, <1>2 DEF IsWord
  <2>2. \A k \in b .. e : line[k] \notin Spaces
    BY <1>2 DEF IsWord, Spaces
  <2>3. e < Len(line) => line[e + 1] \in Spaces
    BY <1>2 DEF IsWord, Spaces
  <2>4. EndOf(line, Spaces, b) = e
    BY <2>1, <2>2, <2>3, WordEnds
  <2>5. b \in Starts(line, Spaces)
    <3>1. line[b] \notin Spaces
      BY <2>1, <2>2
    <3>2. b > 1 => line[b - 1] \in Spaces
      BY <1>2 DEF IsWord, Spaces
    <3> QED
      BY <2>1, <3>1, <3>2 DEF Starts
  <2> QED
    BY <2>4, <2>5
<1>3. ASSUME NEW b \in Starts(line, Spaces) PROVE \E e : IsWord(line, b, e)
  <2>1. b \in 1 .. L /\ line[b] # SpaceCh /\ (b > 1 => line[b - 1] = SpaceCh)
    BY DEF Starts, Spaces
  <2> DEFINE M == L - b
             T == {m \in 1 .. M : line[b + m] # SpaceCh}
  <2>2. M \in Nat
    BY <1>1, <2>1
  <2>3. PICK n \in 0 .. M : (\A m \in 1 .. n : m \in T) /\ (n < M => n + 1 \notin T)
    <3> HIDE DEF T, M
    <3> QED
      BY <2>2, RunExists
  <2>4. ASSUME NEW k \in b .. b + n PROVE line[k] # SpaceCh
    <3>1. CASE k = b
      BY <2>1, <3>1
    <3>2. CASE k # b
      <4>1. k - b \in 1 .. n /\ b + (k - b) = k
        BY <1>1, <2>1, <3>2
      <4> QED
        BY <2>3, <4>1
    <3> QED
      BY <3>1, <3>2
  <2>5. ASSUME b + n < L PROVE line[(b + n) + 1] = SpaceCh
    <3>1. n < M /\ n + 1 \in 1 .. M /\ b + (n + 1) = (b + n) + 1
      BY <1>1, <2>1, <2>5
    <3> QED
      BY <2>3, <3>1
  <2>6. b + n \in b .. L
    BY <1>1, <2>1
  <2>7. IsWord(line, b, b + n)
    BY <2>1, <2>4, <2>5, <2>6 DEF IsWord
  <2> QED
    BY <2>7
<1>4. ASSUME NEW b \in Starts(line, Spaces) PROVE IsWord(line, b, EndOf(line, Spaces, b))
  <2>1. PICK e : IsWord(line, b, e)
    BY <1>3
  <2>2. EndOf(line, Spaces, b) = e
    BY <1>2, <2>1
  <2> QED
    BY <2>1, <2>2
<1> QED
  BY <1>2, <1>4

\* The word from b to e has its first "=", not counting its first character,
\* at q.
IsCut(line, b, q, e) ==
    /\ IsWord(line, b, e) /\ q \in b .. e /\ line[q] = EqualsCh
    /\ \A k \in b + 1 .. q - 1 : line[k] # EqualsCh

\* The string has such a word as two strings.
Stands(str, line, b, q, e) ==
    /\ \A k \in b .. e : k # q => str[k] = line[k]
    /\ At(str, q) = 0 /\ At(str, e + 1) = 0

\* An argument: a word in front of the place where the loop is.
Entry(c, line, a) ==
    \E q, e : /\ IsCut(line, c.keys[a], q, e)
              /\ c.values[a] = q + 1 /\ e < c.i
              /\ Stands(c.str, line, c.keys[a], q, e)

\* The loop is in a word, and has filled its argument, has seen no "=" yet, or
\* has come to the end of the line.
Here(c, line, e) ==
    /\ IsWord(line, c.key, e) /\ c.key <= c.i /\ c.i <= e + 1
    /\ \A k \in c.i + 1 .. Len(line) : c.str[k] = line[k]
    /\ c.keys[c.p] = 0 =>
         /\ \A k \in c.key .. Len(line) : c.str[k] = line[k]
         /\ \A k \in c.key + 1 .. c.i - 1 : line[k] # EqualsCh
    /\ c.keys[c.p] # 0 => c.i = e + 1 /\ At(c.str, c.i) = 0

\* A word whose key and value can be told.
HasKey(line, b) == \E e : IsWord(line, b, e) /\ \E k \in b + 1 .. e : line[k] = EqualsCh

ParseState(n) ==
    [str : Seq(Int), i : Nat, p : 0 .. n, key : Nat, value : Nat,
     keys : [0 .. n -> Nat], values : [0 .. n -> Nat]]
ArgsInv(c, line) ==
    /\ \A a \in 0 .. Len(line) : c.keys[a] # 0 =>
         /\ Entry(c, line, a)
         /\ \/ a < c.p /\ c.keys[a] < c.key
            \/ a = c.p /\ c.keys[a] = c.key /\ c.value = c.values[a]
    /\ \A a, b \in 0 .. Len(line) :
         a < b /\ c.keys[a] # 0 /\ c.keys[b] # 0 => c.keys[a] < c.keys[b]
    /\ \A b : HasKey(line, b) /\ b < c.key => \E a \in 0 .. Len(line) : c.keys[a] = b
PlaceInv(c, line) ==
    /\ Len(c.str) = Len(line) /\ c.p < c.i
    /\ \/ c.key = Len(line) + 1 /\ c.i > Len(line) /\ c.keys[c.p] = 0
       \/ \E e : Here(c, line, e)

\* The words that start in front of a place; the number of the argument is not
\* larger than that of the words in front of the current one.
Before(line, k) == {j \in Starts(line, Spaces) : j < k}
WordsInv(c, line) == c.p <= Cardinality(Before(line, c.key))
ParseInv(c, line) == ArgsInv(c, line) /\ PlaceInv(c, line) /\ WordsInv(c, line)

\* There are finitely many, and behind a word there is one more.
LEMMA WordsBefore ==
  ASSUME NEW line \in Seq(Int)
  PROVE  /\ IsFiniteSet(Starts(line, Spaces)) /\ Cardinality(Starts(line, Spaces)) \in Nat
         /\ \A k \in Nat : /\ Cardinality(Before(line, k)) \in Nat
                          /\ Cardinality(Before(line, k)) <= Cardinality(Starts(line, Spaces))
         /\ \A k, m \in Nat : k \in Starts(line, Spaces) /\ k < m =>
              Cardinality(Before(line, k)) + 1 <= Cardinality(Before(line, m))
<1> DEFINE S == Starts(line, Spaces)
<1>1. IsFiniteSet(S) /\ S \subseteq 1 .. Len(line)
  <2>1. Len(line) \in Nat
    OBVIOUS
  <2>2. S \subseteq 1 .. Len(line)
    BY DEF Starts
  <2>3. IsFiniteSet(1 .. Len(line))
    BY <2>1, FS_Interval
  <2> QED
    BY <2>2, <2>3, FS_Subset
<1>2. Cardinality(S) \in Nat
  BY <1>1, FS_CardinalityType
<1>3. ASSUME NEW k \in Nat
      PROVE  /\ IsFiniteSet(Before(line, k)) /\ Cardinality(Before(line, k)) \in Nat
             /\ Cardinality(Before(line, k)) <= Cardinality(S)
  <2>1. Before(line, k) \subseteq S
    BY DEF Before
  <2> QED
    BY <1>1, <2>1, FS_Subset, FS_CardinalityType
<1>4. ASSUME NEW k \in Nat, NEW m \in Nat, k \in S, k < m
      PROVE  Cardinality(Before(line, k)) + 1 <= Cardinality(Before(line, m))
  <2> DEFINE T == Before(line, k) \cup {k}
  <2>1. k \notin Before(line, k)
    BY DEF Before
  <2>2. Cardinality(T) = Cardinality(Before(line, k)) + 1 /\ IsFiniteSet(T)
    BY <1>3, <2>1, FS_AddElement
  <2>3. T \subseteq Before(line, m)
    BY <1>1, <1>4 DEF Before
  <2>4. Cardinality(T) <= Cardinality(Before(line, m))
    BY <1>3, <2>3, FS_Subset
  <2> QED
    BY <2>2, <2>4
<1> QED
  BY <1>1, <1>2, <1>3, <1>4

\* A zero is put into the string.
LEMMA PutZeroIs ==
  ASSUME NEW str \in Seq(Int), NEW i \in Nat, i >= 1
  PROVE  /\ PutZero(str, i) \in Seq(Int) /\ Len(PutZero(str, i)) = Len(str)
         /\ \A k \in 1 .. Len(str) : PutZero(str, i)[k] = IF k = i THEN 0 ELSE str[k]
         /\ At(PutZero(str, i), i) = 0
<1>1. Len(str) \in Nat
  OBVIOUS
<1>2. CASE i <= Len(str)
  <2> DEFINE t == [str EXCEPT ![i] = 0]
  <2>1. PutZero(str, i) = t
    BY <1>2 DEF PutZero
  <2>2. t \in Seq(Int) /\ Len(t) = Len(str) /\ \A k \in 1 .. Len(str) : t[k] = IF k = i THEN 0 ELSE str[k]
    BY <1>2
  <2> HIDE DEF t
  <2>3. At(t, i) = 0
    BY <1>2, <2>2 DEF At
  <2> QED
    BY <2>1, <2>2, <2>3
<1>3. CASE ~(i <= Len(str))
  <2>1. PutZero(str, i) = str
    BY <1>3 DEF PutZero
  <2>2. At(str, i) = 0
    BY <1>3 DEF At
  <2> QED
    BY <1>1, <1>3, <2>1, <2>2
<1> QED
  BY <1>2, <1>3

\* What is in front of the loop stays as it is.
LEMMA EntryKept ==
  ASSUME NEW line \in Seq(Int), NEW c, NEW n, NEW a, Entry(c, line, a),
         Len(c.str) = Len(line), Len(n.str) = Len(line),
         n.keys[a] = c.keys[a], n.values[a] = c.values[a],
         c.i \in Nat, n.i \in Nat, n.i >= c.i,
         \A k \in 1 .. Len(line) : k < c.i => n.str[k] = c.str[k],
         \A k \in 1 .. Len(line) : c.str[k] = 0 => n.str[k] = 0
  PROVE  Entry(n, line, a)
<1> DEFINE L == Len(line)
           b == c.keys[a]
<1>1. PICK q, e : /\ IsCut(line, b, q, e) /\ c.values[a] = q + 1 /\ e < c.i
                  /\ Stands(c.str, line, b, q, e)
  BY DEF Entry
<1>2. L \in Nat /\ b \in 1 .. L /\ e \in b .. L /\ q \in b .. e /\ e \in Nat /\ q \in Nat
  BY <1>1 DEF IsCut, IsWord
<1> HIDE DEF b
<1>3. ASSUME NEW k \in b .. e, k # q PROVE n.str[k] = line[k]
  <2>1. k \in 1 .. L /\ k < c.i
    BY <1>1, <1>2
  <2> QED
    BY <1>1, <1>3, <2>1 DEF Stands
<1>4. At(n.str, q) = 0
  <2>1. q \in 1 .. L /\ q < c.i /\ q <= L
    BY <1>1, <1>2
  <2>2. At(c.str, q) = c.str[q] /\ At(n.str, q) = n.str[q]
    BY <2>1 DEF At
  <2> QED
    BY <1>1, <2>1, <2>2 DEF Stands
<1>5. At(n.str, e + 1) = 0
  <2>1. CASE e + 1 <= L
    <3>1. e + 1 \in 1 .. L
      BY <1>2, <2>1
    <3>2. At(c.str, e + 1) = c.str[e + 1] /\ At(n.str, e + 1) = n.str[e + 1]
      BY <2>1 DEF At
    <3> QED
      BY <1>1, <3>1, <3>2 DEF Stands
  <2>2. CASE ~(e + 1 <= L)
    BY <2>2 DEF At
  <2> QED
    BY <2>1, <2>2
<1>6. Stands(n.str, line, b, q, e)
  BY <1>3, <1>4, <1>5 DEF Stands
<1>7. e < n.i
  BY <1>1, <1>2
<1> QED
  BY <1>1, <1>6, <1>7 DEF Entry, b

\* The word behind the spaces.
LEMMA WordBehind ==
  ASSUME NEW line \in Seq(Int), NEW b, NEW e, IsWord(line, b, e), e < Len(line),
         NEW next \in e + 2 .. Len(line) + 1,
         \A k \in e + 1 .. next - 1 : line[k] = SpaceCh,
         next <= Len(line) => line[next] # SpaceCh
  PROVE  /\ next <= Len(line) => \E f : IsWord(line, next, f)
         /\ \A j, f : IsWord(line, j, f) /\ j < next => j < b \/ (j = b /\ f = e)
<1> DEFINE L == Len(line)
<1>1. L \in Nat /\ b \in 1 .. L /\ e \in b .. L /\ next \in Nat /\ b \in Nat /\ e \in Nat
  BY DEF IsWord
<1>2. ASSUME next <= L PROVE \E f : IsWord(line, next, f)
  <2>1. next - 1 \in e + 1 .. next - 1 /\ next \in 1 .. L
    BY <1>1, <1>2
  <2>2. line[next - 1] = SpaceCh
    BY <2>1
  <2>3. next \in Starts(line, Spaces)
    BY <1>2, <2>1, <2>2 DEF Starts, Spaces
  <2> QED
    BY <2>3, WordsAre
<1>3. ASSUME NEW j, NEW f, IsWord(line, j, f), j < next PROVE j < b \/ (j = b /\ f = e)
  <2>1. j \in 1 .. L /\ f \in j .. L /\ line[j] # SpaceCh /\ (j > 1 => line[j - 1] = SpaceCh)
    BY <1>1, <1>3 DEF IsWord
  <2>2. ~(j > e)
    <3> SUFFICES ASSUME j > e PROVE FALSE
      OBVIOUS
    <3>1. j \in e + 1 .. next - 1
      BY <1>1, <1>3, <2>1
    <3> QED
      BY <2>1, <3>1
  <2>3. ~(j > b)
    <3> SUFFICES ASSUME j > b PROVE FALSE
      OBVIOUS
    <3>1. j - 1 \in b .. e /\ j > 1
      BY <1>1, <2>1, <2>2
    <3>2. line[j - 1] # SpaceCh
      BY <3>1 DEF IsWord
    <3> QED
      BY <2>1, <3>1, <3>2
  <2>4. j = b => f = e
    BY <1>3, WordsAre
  <2> QED
    BY <1>1, <2>1, <2>3, <2>4
<1> QED
  BY <1>2, <1>3

\* The state of the loop while there is something left.
AtWork(c, line) ==
    /\ line \in Seq(Int) /\ \A k \in 1 .. Len(line) : line[k] # 0
    /\ c \in ParseState(Len(line)) /\ ParseInv(c, line) /\ c.i <= Len(line)
Moved(n, c, line) == n \in ParseState(Len(line)) /\ ParseInv(n, line) /\ n.i > c.i

\* What is at the place of the loop: a character of the word, or the blank
\* behind it, which may be cut already.
LEMMA PlaceIs ==
  ASSUME NEW line, NEW c, AtWork(c, line)
  PROVE  /\ Len(line) \in Nat /\ c.i \in Nat /\ c.i >= 1 /\ c.p \in Nat /\ c.p < c.i
         /\ c.key \in Nat /\ Len(c.str) = Len(line) /\ At(c.str, c.i) = c.str[c.i]
         /\ \E e : /\ Here(c, line, e) /\ e \in Nat /\ e <= Len(line) /\ c.key <= e /\ c.key >= 1
                   /\ c.i <= e => c.keys[c.p] = 0 /\ c.str[c.i] = line[c.i]
                                  /\ line[c.i] \notin {SpaceCh, 0}
                   /\ c.i > e => c.i = e + 1 /\ c.str[c.i] \in {SpaceCh, 0}
<1> DEFINE L == Len(line)
<1>1. /\ L \in Nat /\ c.i \in Nat /\ c.p \in Nat /\ c.p < c.i /\ c.key \in Nat
      /\ Len(c.str) = L /\ c.i <= L
  BY DEF AtWork, ParseState, ParseInv, PlaceInv
<1>2. At(c.str, c.i) = c.str[c.i] /\ c.i >= 1 /\ c.i \in 1 .. L
  BY <1>1 DEF At
<1>3. PICK e : Here(c, line, e)
  BY <1>1 DEF AtWork, ParseInv, PlaceInv
<1>4. c.key \in 1 .. L /\ e \in c.key .. L /\ e \in Nat /\ c.key <= e /\ c.key >= 1 /\ e <= L
  BY <1>1, <1>3 DEF Here, IsWord
<1>5. c.key <= c.i /\ c.i <= e + 1
  BY <1>3 DEF Here
<1>6. ASSUME c.i <= e
      PROVE  c.keys[c.p] = 0 /\ c.str[c.i] = line[c.i] /\ line[c.i] \notin {SpaceCh, 0}
  <2>1. c.i # e + 1 /\ c.i \in c.key .. e /\ c.i \in c.key .. L
    BY <1>1, <1>4, <1>5, <1>6
  <2>2. c.keys[c.p] = 0
    BY <1>3, <2>1 DEF Here
  <2>3. c.str[c.i] = line[c.i]
    BY <1>3, <2>1, <2>2 DEF Here
  <2>4. line[c.i] # SpaceCh
    BY <1>3, <2>1 DEF Here, IsWord
  <2>5. line[c.i] # 0
    BY <1>2 DEF AtWork
  <2> QED
    BY <2>2, <2>3, <2>4, <2>5
<1>7. ASSUME c.i > e
      PROVE  c.i = e + 1 /\ c.str[c.i] \in {SpaceCh, 0}
  <2>1. c.i = e + 1 /\ e < L
    BY <1>1, <1>4, <1>5, <1>7
  <2>2. CASE c.keys[c.p] = 0
    <3>1. c.str[c.i] = line[c.i]
      <4>1. c.i \in c.key .. L
        BY <1>1, <1>5
      <4> QED
        BY <1>3, <2>2, <4>1 DEF Here
    <3>2. line[e + 1] = SpaceCh
      BY <1>3, <2>1 DEF Here, IsWord
    <3> QED
      BY <2>1, <3>1, <3>2
  <2>3. CASE c.keys[c.p] # 0
    BY <1>2, <1>3, <2>1, <2>3 DEF Here
  <2> QED
    BY <2>1, <2>2, <2>3
<1> QED
  BY <1>1, <1>2, <1>3, <1>4, <1>6, <1>7

\* A character of a key is passed.
LEMMA ParseOther ==
  ASSUME NEW line, NEW c, AtWork(c, line),
         c.str[c.i] # EqualsCh, c.str[c.i] \notin {SpaceCh, 0}
  PROVE  Moved([c EXCEPT !.i = @ + 1], c, line)
<1> DEFINE L == Len(line)
           n == [c EXCEPT !.i = @ + 1]
<1>1. PICK e : /\ Here(c, line, e) /\ e \in Nat /\ e <= L /\ c.key <= e /\ c.key >= 1
               /\ c.i <= e => c.keys[c.p] = 0 /\ c.str[c.i] = line[c.i]
                              /\ line[c.i] \notin {SpaceCh, 0}
               /\ c.i > e => c.i = e + 1 /\ c.str[c.i] \in {SpaceCh, 0}
  BY PlaceIs
<1>2. L \in Nat /\ c.i \in Nat /\ c.i >= 1 /\ c.p \in Nat /\ c.p < c.i /\ c.key \in Nat /\ Len(c.str) = L
  BY PlaceIs
<1>3. c.i <= e /\ c.keys[c.p] = 0 /\ line[c.i] # EqualsCh
  BY <1>1, <1>2
<1>4. /\ n \in ParseState(L)
      /\ n.i = c.i + 1 /\ n.str = c.str /\ n.p = c.p /\ n.key = c.key /\ n.value = c.value
      /\ n.keys = c.keys /\ n.values = c.values
  <2>1. c \in ParseState(L)
    BY DEF AtWork
  <2> QED
    BY <1>2, <2>1 DEF ParseState
<1> HIDE DEF n
<1>5. line \in Seq(Int) /\ ArgsInv(c, line)
  BY DEF AtWork, ParseInv
<1>6. ArgsInv(n, line)
  <2>1. ASSUME NEW a \in 0 .. L, Entry(c, line, a) PROVE Entry(n, line, a)
    BY <1>2, <1>4, <1>5, <2>1, EntryKept
  <2> QED
    BY <1>4, <1>5, <2>1 DEF ArgsInv
<1>7. Here(n, line, e)
  <2>1. n.key <= n.i /\ n.i <= e + 1
    BY <1>1, <1>2, <1>3, <1>4 DEF Here
  <2>2. ASSUME NEW k \in n.i + 1 .. L PROVE n.str[k] = line[k]
    <3>1. k \in c.i + 1 .. L
      BY <1>2, <1>4
    <3> QED
      BY <1>1, <1>4, <3>1 DEF Here
  <2>3. \A k \in n.key .. L : n.str[k] = line[k]
    BY <1>1, <1>3, <1>4 DEF Here
  <2>4. ASSUME NEW k \in n.key + 1 .. n.i - 1 PROVE line[k] # EqualsCh
    <3>1. k = c.i \/ k \in c.key + 1 .. c.i - 1
      BY <1>2, <1>4
    <3> QED
      BY <1>1, <1>3, <3>1 DEF Here
  <2>5. IsWord(line, n.key, e) /\ n.keys[n.p] = 0
    BY <1>1, <1>3, <1>4 DEF Here
  <2> QED
    BY <2>1, <2>2, <2>3, <2>4, <2>5 DEF Here
<1>8. PlaceInv(n, line)
  BY <1>2, <1>4, <1>7 DEF PlaceInv
<1>9. n.i > c.i
  BY <1>2, <1>4
<1>10. WordsInv(n, line)
  BY <1>4 DEF AtWork, ParseInv, WordsInv
<1> QED
  BY <1>4, <1>6, <1>8, <1>9, <1>10 DEF Moved, ParseInv, n

\* A word is over.
BlankTurn(c) ==
    LET next == PastSpaces(c.str, c.i + 1)
    IN  [c EXCEPT !.str = PutZero(@, c.i), !.values[c.p] = c.value, !.key = next,
                  !.p = NextArg(@), !.i = next + 1]

\* The loop is then at the next word, or at the end.
LEMMA ParseBlank ==
  ASSUME NEW line, NEW c, AtWork(c, line), c.str[c.i] \in {SpaceCh, 0}
  PROVE  Moved(BlankTurn(c), c, line)
<1> DEFINE L == Len(line)
           next == PastSpaces(c.str, c.i + 1)
           n == BlankTurn(c)
<1>1. PICK e : /\ Here(c, line, e) /\ e \in Nat /\ e <= L /\ c.key <= e /\ c.key >= 1
               /\ c.i <= e => c.keys[c.p] = 0 /\ c.str[c.i] = line[c.i]
                              /\ line[c.i] \notin {SpaceCh, 0}
               /\ c.i > e => c.i = e + 1 /\ c.str[c.i] \in {SpaceCh, 0}
  BY PlaceIs
<1>2. L \in Nat /\ c.i \in Nat /\ c.i >= 1 /\ c.p \in Nat /\ c.p < c.i /\ c.key \in Nat /\ Len(c.str) = L
  BY PlaceIs
<1>3. /\ line \in Seq(Int) /\ ArgsInv(c, line) /\ c \in ParseState(L) /\ c.i <= L
      /\ c.str \in Seq(Int) /\ c.value \in Nat
      /\ c.keys \in [0 .. L -> Nat] /\ c.values \in [0 .. L -> Nat]
  BY DEF AtWork, ParseInv, ParseState
<1>4. c.i = e + 1 /\ e < L
  <2>1. ~(c.i <= e)
    BY <1>1, Zenon
  <2>2. c.i > e
    BY <1>1, <1>2, <2>1
  <2>3. c.i = e + 1
    BY <1>1, <2>2, Zenon
  <2>4. e \in Nat /\ c.i \in Nat /\ L \in Nat /\ c.i <= L
    BY <1>1, <1>2, <1>3, Zenon
  <2> QED
    BY <2>3, <2>4
<1>5. /\ next \in Nat /\ next \in c.i + 1 .. L + 1 /\ At(c.str, next) # SpaceCh
      /\ \A k \in c.i + 1 .. next - 1 : At(c.str, k) = SpaceCh
  <2>0. c.i <= L /\ Len(c.str) = L
    BY <1>2, <1>3
  <2>1. c.i + 1 \in Nat /\ c.i + 1 >= 1 /\ c.i + 1 <= Len(c.str) + 1
    BY <1>2, <2>0
  <2>2. /\ next \in c.i + 1 .. Len(c.str) + 1 /\ At(c.str, next) # SpaceCh
        /\ \A k \in c.i + 1 .. next - 1 : At(c.str, k) = SpaceCh
    BY <1>3, <2>1, PastSpacesIs
  <2> QED
    BY <1>2, <2>2
<1> DEFINE z == PutZero(c.str, c.i)
<1>6. /\ z \in Seq(Int) /\ Len(z) = L
      /\ \A k \in 1 .. L : z[k] = IF k = c.i THEN 0 ELSE c.str[k]
  <2>1. c.str \in Seq(Int) /\ c.i \in Nat /\ c.i >= 1 /\ Len(c.str) = L
    BY <1>2, <1>3
  <2>2. /\ z \in Seq(Int) /\ Len(z) = Len(c.str)
        /\ \A k \in 1 .. Len(c.str) : z[k] = IF k = c.i THEN 0 ELSE c.str[k]
    BY <2>1, PutZeroIs, Zenon
  <2> HIDE DEF z
  <2> QED
    BY <2>1, <2>2
<1>7. c.p + 1 \in 0 .. L /\ c.p \in 0 .. L
  <2>1. c.i <= L
    BY <1>3
  <2> QED
    BY <1>2, <2>1
<1>8. /\ n \in ParseState(L)
      /\ n.i = next + 1 /\ n.str = z /\ n.p = c.p + 1 /\ n.key = next
      /\ n.keys = c.keys
      /\ \A a \in 0 .. L : n.values[a] = IF a = c.p THEN c.value ELSE c.values[a]
  <2> HIDE DEF next, z
  <2>1. n = [c EXCEPT !.str = z, !.values[c.p] = c.value, !.key = next,
                      !.p = c.p + 1, !.i = next + 1]
    BY DEF BlankTurn, NextArg, next, z
  <2> HIDE DEF n
  <2>2. next + 1 \in Nat
    BY <1>5
  <2>3. [c.values EXCEPT ![c.p] = c.value] \in [0 .. L -> Nat]
    BY <1>3
  <2> QED
    BY <1>3, <1>5, <1>6, <1>7, <2>1, <2>2, <2>3 DEF ParseState
<1> HIDE DEF n, z, next
<1>9. ASSUME NEW k \in c.i + 1 .. L PROVE c.str[k] = line[k] /\ At(c.str, k) = line[k] /\ n.str[k] = line[k]
  <2>1. k \in 1 .. L /\ k # c.i /\ k <= L
    BY <1>2
  <2>2. c.str[k] = line[k]
    BY <1>1 DEF Here
  <2> QED
    BY <1>2, <1>6, <1>8, <2>1, <2>2 DEF At
<1>10. /\ next <= L => \E f : IsWord(line, next, f)
       /\ \A j, f : IsWord(line, j, f) /\ j < next => j < c.key \/ (j = c.key /\ f = e)
  <2>1. next \in e + 2 .. L + 1
    BY <1>1, <1>4, <1>5
  <2>2. ASSUME NEW k \in e + 1 .. next - 1 PROVE line[k] = SpaceCh
    <3>1. CASE k = e + 1
      BY <1>1, <1>4, <3>1 DEF Here, IsWord
    <3>2. CASE k # e + 1
      <4>1. k \in c.i + 1 .. next - 1 /\ k \in c.i + 1 .. L
        BY <1>1, <1>2, <1>4, <1>5, <3>2
      <4> QED
        BY <1>5, <1>9, <4>1
    <3> QED
      BY <3>1, <3>2
  <2>3. next <= L => line[next] # SpaceCh
    <3>1. next <= L => next \in c.i + 1 .. L
      BY <1>2, <1>5
    <3> QED
      BY <1>5, <1>9, <3>1
  <2>4. IsWord(line, c.key, e)
    BY <1>1 DEF Here
  <2> QED
    BY <1>3, <1>4, <2>1, <2>2, <2>3, <2>4, WordBehind
<1>11. ASSUME NEW a \in 0 .. L, c.keys[a] # 0
       PROVE  /\ Entry(n, line, a)
              /\ a < n.p /\ c.keys[a] < n.key
  <2>1. /\ Entry(c, line, a)
        /\ \/ a < c.p /\ c.keys[a] < c.key
           \/ a = c.p /\ c.keys[a] = c.key /\ c.value = c.values[a]
    BY <1>3, <1>11 DEF ArgsInv
  <2>2. n.values[a] = c.values[a] /\ n.keys[a] = c.keys[a]
    BY <1>8, <2>1
  <2>3. n.i \in Nat /\ n.i >= c.i
    BY <1>2, <1>5, <1>8
  <2>4. /\ \A k \in 1 .. L : k < c.i => n.str[k] = c.str[k]
        /\ \A k \in 1 .. L : c.str[k] = 0 => n.str[k] = 0
    BY <1>2, <1>6, <1>8
  <2>5. Entry(n, line, a)
    <3>1. Len(n.str) = L
      BY <1>6, <1>8
    <3> QED
      BY <1>2, <1>3, <2>1, <2>2, <2>3, <2>4, <3>1, EntryKept
  <2>6. c.keys[a] \in Nat
    BY <1>3
  <2> QED
    BY <1>1, <1>2, <1>4, <1>5, <1>8, <2>1, <2>5, <2>6
<1>12. ASSUME NEW b, HasKey(line, b), b < n.key PROVE \E a \in 0 .. L : n.keys[a] = b
  <2>1. PICK f : IsWord(line, b, f) /\ \E k \in b + 1 .. f : line[k] = EqualsCh
    BY <1>12 DEF HasKey
  <2>2. CASE b < c.key
    BY <1>3, <1>8, <1>12, <2>2 DEF ArgsInv
  <2>3. CASE ~(b < c.key)
    <3>1. b = c.key /\ f = e
      BY <1>8, <1>10, <1>12, <2>1, <2>3
    <3>2. c.keys[c.p] # 0
      <4> SUFFICES ASSUME c.keys[c.p] = 0 PROVE FALSE
        OBVIOUS
      <4>1. c.i - 1 = e
        BY <1>1, <1>4
      <4>2. \A k \in c.key + 1 .. e : line[k] # EqualsCh
        BY <1>1, <4>1 DEF Here
      <4> QED
        BY <2>1, <3>1, <4>2
    <3>3. c.keys[c.p] = c.key
      <4>1. \/ c.p < c.p /\ c.keys[c.p] < c.key
            \/ c.p = c.p /\ c.keys[c.p] = c.key /\ c.value = c.values[c.p]
        BY <1>3, <1>7, <3>2 DEF ArgsInv
      <4> QED
        BY <1>2, <4>1
    <3> QED
      BY <1>7, <1>8, <3>1, <3>3
  <2> QED
    BY <2>2, <2>3
<1>13. ArgsInv(n, line)
  <2>1. \A a, b \in 0 .. L : a < b /\ n.keys[a] # 0 /\ n.keys[b] # 0 => n.keys[a] < n.keys[b]
    BY <1>3, <1>8 DEF ArgsInv
  <2> QED
    BY <1>8, <1>11, <1>12, <2>1 DEF ArgsInv
<1>14. n.keys[n.p] = 0
  <2> SUFFICES ASSUME c.keys[c.p + 1] # 0 PROVE FALSE
    BY <1>8
  <2>1. c.p + 1 < c.p \/ c.p + 1 = c.p
    BY <1>3, <1>7 DEF ArgsInv
  <2> QED
    BY <1>2, <2>1
<1>15. PlaceInv(n, line)
  <2>1. Len(n.str) = L /\ n.p < n.i
    BY <1>2, <1>5, <1>6, <1>8
  <2>2. CASE next = L + 1
    <3>1. n.key = L + 1 /\ n.i > L
      BY <1>2, <1>8, <2>2
    <3> QED
      BY <1>14, <2>1, <3>1 DEF PlaceInv
  <2>3. CASE next # L + 1
    <3>1. next <= L
      BY <1>2, <1>5, <2>3
    <3>2. PICK f : IsWord(line, next, f)
      BY <1>10, <3>1
    <3>3. f \in next .. L
      BY <3>2 DEF IsWord
    <3>4. n.key <= n.i /\ n.i <= f + 1
      BY <1>2, <1>5, <1>8, <3>3
    <3>5. ASSUME NEW k \in n.key .. L PROVE n.str[k] = line[k]
      <4>1. k \in c.i + 1 .. L
        BY <1>2, <1>5, <1>8
      <4> QED
        BY <1>9, <4>1
    <3>6. \A k \in n.i + 1 .. L : k \in n.key .. L
      BY <1>2, <1>5, <1>8
    <3>7. \A k \in n.key + 1 .. n.i - 1 : FALSE
      BY <1>5, <1>8
    <3>8. Here(n, line, f)
      BY <1>8, <1>14, <3>2, <3>4, <3>5, <3>6, <3>7 DEF Here
    <3> QED
      BY <2>1, <3>8 DEF PlaceInv
  <2> QED
    BY <2>2, <2>3
<1>16. n.i > c.i
  BY <1>2, <1>5, <1>8
<1>17. WordsInv(n, line)
  <2>1. c.key \in Starts(line, Spaces)
    BY <1>1, <1>3, WordsAre DEF Here
  <2>2. c.key < next
    BY <1>1, <1>2, <1>4, <1>5
  <2>3. c.p <= Cardinality(Before(line, c.key))
    BY DEF AtWork, ParseInv, WordsInv
  <2>4. /\ Cardinality(Before(line, c.key)) \in Nat /\ Cardinality(Before(line, next)) \in Nat
        /\ Cardinality(Before(line, c.key)) + 1 <= Cardinality(Before(line, next))
    BY <1>2, <1>3, <1>5, <2>1, <2>2, WordsBefore
  <2>5. c.p + 1 <= Cardinality(Before(line, next))
    BY <1>2, <2>3, <2>4
  <2> QED
    BY <1>8, <2>5 DEF WordsInv
<1> QED
  BY <1>8, <1>13, <1>15, <1>16, <1>17 DEF Moved, ParseInv, n

\* A key is over, and with it its value.
EqualsTurn(c) ==
    LET stop == UpTo(c.str, c.i + 1, {SpaceCh, 0})
    IN  [c EXCEPT !.str = PutZero(PutZero(@, c.i), stop), !.keys[c.p] = c.key,
                  !.i = stop, !.value = c.i + 1, !.values[c.p] = c.i + 1]

\* The argument is filled.
LEMMA ParseEquals ==
  ASSUME NEW line, NEW c, AtWork(c, line), c.str[c.i] = EqualsCh
  PROVE  Moved(EqualsTurn(c), c, line)
<1> DEFINE L == Len(line)
           stop == UpTo(c.str, c.i + 1, {SpaceCh, 0})
           n == EqualsTurn(c)
<1>1. PICK e : /\ Here(c, line, e) /\ e \in Nat /\ e <= L /\ c.key <= e /\ c.key >= 1
               /\ c.i <= e => c.keys[c.p] = 0 /\ c.str[c.i] = line[c.i]
                              /\ line[c.i] \notin {SpaceCh, 0}
               /\ c.i > e => c.i = e + 1 /\ c.str[c.i] \in {SpaceCh, 0}
  BY PlaceIs
<1>2. L \in Nat /\ c.i \in Nat /\ c.i >= 1 /\ c.p \in Nat /\ c.p < c.i /\ c.key \in Nat /\ Len(c.str) = L
  BY PlaceIs
<1>3. /\ line \in Seq(Int) /\ ArgsInv(c, line) /\ c \in ParseState(L) /\ c.i <= L
      /\ c.str \in Seq(Int) /\ (\A k \in 1 .. L : line[k] # 0)
      /\ c.keys \in [0 .. L -> Nat] /\ c.values \in [0 .. L -> Nat]
  BY DEF AtWork, ParseInv, ParseState
<1>4. c.i <= e /\ c.keys[c.p] = 0 /\ line[c.i] = EqualsCh
  BY <1>1, <1>2 DEF EqualsCh, SpaceCh
<1>5. /\ IsWord(line, c.key, e) /\ c.key <= c.i
      /\ \A k \in c.key .. L : c.str[k] = line[k]
      /\ \A k \in c.key + 1 .. c.i - 1 : line[k] # EqualsCh
  BY <1>1, <1>4 DEF Here
<1>6. stop = e + 1
  <2>1. e + 1 \in c.i + 1 .. Len(c.str) + 1
    BY <1>1, <1>2, <1>4
  <2>2. e + 1 = Len(c.str) + 1 \/ At(c.str, e + 1) \in {SpaceCh, 0}
    <3>1. CASE e < L
      <4>1. e + 1 \in c.key .. L /\ e + 1 <= L
        BY <1>1, <1>2, <3>1
      <4>2. At(c.str, e + 1) = line[e + 1]
        BY <1>2, <1>5, <4>1 DEF At
      <4>3. line[e + 1] = SpaceCh
        BY <1>5, <3>1 DEF IsWord
      <4> QED
        BY <4>2, <4>3
    <3>2. CASE ~(e < L)
      BY <1>1, <1>2, <3>2
    <3> QED
      BY <3>1, <3>2
  <2>3. ASSUME NEW k \in c.i + 1 .. (e + 1) - 1 PROVE At(c.str, k) \notin {SpaceCh, 0}
    <3>1. k \in c.key .. e /\ k \in c.key .. L /\ k \in 1 .. L /\ k <= L
      BY <1>1, <1>2, <1>5
    <3>2. At(c.str, k) = line[k]
      BY <1>2, <1>5, <3>1 DEF At
    <3>3. line[k] # SpaceCh
      BY <1>5, <3>1 DEF IsWord
    <3> QED
      BY <1>3, <3>1, <3>2, <3>3
  <2>4. c.i + 1 \in Nat
    BY <1>2
  <2> QED
    BY <1>3, <2>1, <2>2, <2>3, <2>4, UpToIs
<1> DEFINE y == PutZero(c.str, c.i)
           z == PutZero(y, e + 1)
<1>7. /\ z \in Seq(Int) /\ Len(z) = L /\ At(z, e + 1) = 0
      /\ \A k \in 1 .. L : z[k] = IF k = c.i \/ k = e + 1 THEN 0 ELSE c.str[k]
  <2>1. c.str \in Seq(Int) /\ c.i \in Nat /\ c.i >= 1 /\ Len(c.str) = L /\ e + 1 \in Nat /\ e + 1 >= 1
    BY <1>1, <1>2, <1>3
  <2>2. /\ y \in Seq(Int) /\ Len(y) = Len(c.str)
        /\ \A k \in 1 .. Len(c.str) : y[k] = IF k = c.i THEN 0 ELSE c.str[k]
    BY <2>1, PutZeroIs, Zenon
  <2> HIDE DEF y
  <2>3. /\ z \in Seq(Int) /\ Len(z) = Len(y) /\ At(z, e + 1) = 0
        /\ \A k \in 1 .. Len(y) : z[k] = IF k = e + 1 THEN 0 ELSE y[k]
    BY <2>1, <2>2, PutZeroIs, Zenon
  <2> HIDE DEF z
  <2> QED
    BY <2>1, <2>2, <2>3
<1>8. c.p \in 0 .. L
  <2>1. c.i <= L
    BY <1>3
  <2> QED
    BY <1>2, <2>1
<1>9. /\ n \in ParseState(L)
      /\ n.i = e + 1 /\ n.str = z /\ n.p = c.p /\ n.key = c.key /\ n.value = c.i + 1
      /\ \A a \in 0 .. L : n.keys[a] = IF a = c.p THEN c.key ELSE c.keys[a]
      /\ \A a \in 0 .. L : n.values[a] = IF a = c.p THEN c.i + 1 ELSE c.values[a]
  <2>1. n = [c EXCEPT !.str = PutZero(PutZero(c.str, c.i), stop), !.keys[c.p] = c.key,
                      !.i = stop, !.value = c.i + 1, !.values[c.p] = c.i + 1]
    BY DEF EqualsTurn
  <2> HIDE DEF z, n, stop
  <2>2. n = [c EXCEPT !.str = z, !.keys[c.p] = c.key,
                      !.i = e + 1, !.value = c.i + 1, !.values[c.p] = c.i + 1]
    BY <1>6, <2>1, Zenon DEF z
  <2>3. e + 1 \in Nat /\ c.i + 1 \in Nat
    BY <1>1, <1>2
  <2>4. /\ [c.values EXCEPT ![c.p] = c.i + 1] \in [0 .. L -> Nat]
        /\ [c.keys EXCEPT ![c.p] = c.key] \in [0 .. L -> Nat]
    BY <1>2, <1>3, <2>3
  <2> QED
    BY <1>2, <1>3, <1>7, <1>8, <2>2, <2>3, <2>4 DEF ParseState
<1> HIDE DEF n, y, z, stop
<1>10. ASSUME NEW a \in 0 .. L, n.keys[a] # 0, a # c.p
       PROVE  Entry(n, line, a) /\ a < n.p /\ n.keys[a] < n.key
  <2>1. n.keys[a] = c.keys[a] /\ n.values[a] = c.values[a] /\ c.keys[a] # 0
    BY <1>9, <1>10
  <2>2. Entry(c, line, a) /\ a < c.p /\ c.keys[a] < c.key
    BY <1>3, <1>10, <2>1 DEF ArgsInv
  <2>3. n.i \in Nat /\ n.i >= c.i /\ Len(n.str) = L
    BY <1>1, <1>2, <1>4, <1>7, <1>9
  <2>4. /\ \A k \in 1 .. L : k < c.i => n.str[k] = c.str[k]
        /\ \A k \in 1 .. L : c.str[k] = 0 => n.str[k] = 0
    BY <1>1, <1>2, <1>4, <1>7, <1>9
  <2>5. Entry(n, line, a)
    BY <1>2, <1>3, <2>1, <2>2, <2>3, <2>4, EntryKept
  <2> QED
    BY <1>9, <2>1, <2>2, <2>5
<1>11. Entry(n, line, c.p)
  <2>1. n.keys[c.p] = c.key /\ n.values[c.p] = c.i + 1
    BY <1>8, <1>9
  <2>2. IsCut(line, c.key, c.i, e)
    <3>1. c.i \in c.key .. e
      BY <1>1, <1>2, <1>4, <1>5
    <3> QED
      BY <1>4, <1>5, <3>1 DEF IsCut
  <2>3. Stands(n.str, line, c.key, c.i, e)
    <3>1. ASSUME NEW k \in c.key .. e, k # c.i PROVE n.str[k] = line[k]
      <4>1. k \in 1 .. L /\ k # e + 1 /\ k \in c.key .. L
        BY <1>1, <1>2
      <4> QED
        BY <1>5, <1>7, <1>9, <3>1, <4>1
    <3>2. At(n.str, c.i) = 0
      <4>1. c.i \in 1 .. L /\ c.i <= L
        BY <1>1, <1>2, <1>4
      <4> QED
        BY <1>7, <1>9, <4>1 DEF At
    <3> QED
      BY <1>7, <1>9, <3>1, <3>2 DEF Stands
  <2>4. e < n.i
    BY <1>1, <1>9
  <2> QED
    BY <2>1, <2>2, <2>3, <2>4 DEF Entry
<1>12. ArgsInv(n, line)
  <2>1. ASSUME NEW a \in 0 .. L, n.keys[a] # 0
        PROVE  /\ Entry(n, line, a)
               /\ \/ a < n.p /\ n.keys[a] < n.key
                  \/ a = n.p /\ n.keys[a] = n.key /\ n.value = n.values[a]
    <3>1. CASE a = c.p
      BY <1>8, <1>9, <1>11, <3>1
    <3>2. CASE a # c.p
      BY <1>10, <2>1, <3>2
    <3> QED
      BY <3>1, <3>2
  <2>2. ASSUME NEW a \in 0 .. L, NEW b \in 0 .. L, a < b, n.keys[a] # 0, n.keys[b] # 0
        PROVE  n.keys[a] < n.keys[b]
    <3>1. CASE b = c.p
      <4>1. a # c.p /\ n.keys[b] = n.key
        BY <1>2, <1>9, <2>2, <3>1
      <4> QED
        BY <1>10, <2>2, <4>1
    <3>2. CASE b # c.p
      <4>1. b < c.p
        BY <1>9, <1>10, <2>2, <3>2
      <4>2. a # c.p
        BY <1>2, <2>2, <4>1
      <4> QED
        BY <1>3, <1>9, <2>2, <3>2, <4>2 DEF ArgsInv
    <3> QED
      BY <3>1, <3>2
  <2>3. ASSUME NEW b, HasKey(line, b), b < n.key PROVE \E a \in 0 .. L : n.keys[a] = b
    <3>1. PICK a \in 0 .. L : c.keys[a] = b
      BY <1>3, <1>9, <2>3 DEF ArgsInv
    <3>2. b # 0
      BY <1>2, <2>3 DEF HasKey, IsWord
    <3>3. a # c.p
      BY <1>4, <3>1, <3>2
    <3>4. n.keys[a] = b
      BY <1>9, <3>1, <3>3
    <3> QED
      BY <3>4
  <2> QED
    BY <2>1, <2>2, <2>3 DEF ArgsInv
<1>13. PlaceInv(n, line)
  <2>1. Len(n.str) = L /\ n.p < n.i /\ n.key <= n.i /\ n.i <= e + 1 /\ n.keys[n.p] # 0
    BY <1>1, <1>2, <1>4, <1>7, <1>8, <1>9
  <2>2. ASSUME NEW k \in n.i + 1 .. L PROVE n.str[k] = line[k]
    <3>1. k \in 1 .. L /\ k # c.i /\ k # e + 1 /\ k \in c.key .. L
      BY <1>1, <1>2, <1>4, <1>9
    <3> QED
      BY <1>5, <1>7, <1>9, <3>1
  <2>3. Here(n, line, e)
    BY <1>5, <1>7, <1>9, <2>1, <2>2 DEF Here
  <2> QED
    BY <2>1, <2>3 DEF PlaceInv
<1>14. n.i > c.i
  BY <1>1, <1>2, <1>4, <1>9
<1>15. WordsInv(n, line)
  BY <1>9 DEF AtWork, ParseInv, WordsInv
<1> QED
  BY <1>9, <1>12, <1>13, <1>14, <1>15 DEF Moved, ParseInv, n

IsLine(line) == line \in Seq(Int) /\ \A k \in 1 .. Len(line) : line[k] # 0
Parsing(line) == {c \in ParseState(Len(line)) : ParseInv(c, line)}

\* A turn of the loop.
LEMMA ParseStep ==
  ASSUME NEW line, IsLine(line), NEW c \in Parsing(line)
  PROVE  ParseTurn(c) \in Parsing(line) /\ (c.i <= Len(line) => ParseTurn(c).i > c.i)
                                        /\ (c.i > Len(line) => ParseTurn(c) = c)
<1> DEFINE L == Len(line)
<1>1. c \in ParseState(L) /\ ParseInv(c, line) /\ Len(c.str) = L /\ c.i \in Nat /\ L \in Nat
  BY DEF Parsing, ParseInv, PlaceInv, ParseState, IsLine
<1>2. CASE c.i > L
  <2>1. ParseTurn(c) = c
    BY <1>1, <1>2 DEF ParseTurn
  <2> QED
    BY <1>1, <1>2, <2>1
<1>3. CASE ~(c.i > L)
  <2>1. AtWork(c, line) /\ ~(c.i > Len(c.str))
    BY <1>1, <1>3 DEF AtWork, IsLine
  <2>2. At(c.str, c.i) = c.str[c.i]
    BY <2>1, PlaceIs
  <2>3. Moved(ParseTurn(c), c, line)
    <3>1. CASE c.str[c.i] = EqualsCh
      <4>1. ParseTurn(c) = EqualsTurn(c)
        BY <2>1, <2>2, <3>1, Zenon DEF ParseTurn, EqualsTurn
      <4> QED
        BY <2>1, <3>1, <4>1, ParseEquals
    <3>2. CASE c.str[c.i] # EqualsCh /\ c.str[c.i] \in {SpaceCh, 0}
      <4>1. ParseTurn(c) = BlankTurn(c)
        BY <2>1, <2>2, <3>2, Zenon DEF ParseTurn, BlankTurn
      <4> QED
        BY <2>1, <3>2, <4>1, ParseBlank
    <3>3. CASE c.str[c.i] # EqualsCh /\ c.str[c.i] \notin {SpaceCh, 0}
      <4>1. ParseTurn(c) = [c EXCEPT !.i = @ + 1]
        BY <2>1, <2>2, <3>3, Zenon DEF ParseTurn
      <4> QED
        BY <2>1, <3>3, <4>1, ParseOther
    <3> QED
      BY <3>1, <3>2, <3>3
  <2> QED
    BY <1>1, <1>3, <2>3 DEF Moved, Parsing
<1> QED
  BY <1>2, <1>3

\* The state before the first turn.
StartState(line) ==
    LET start == PastSpaces(line, 1)
        none == [a \in 0 .. Len(line) |-> 0]
    IN  [str |-> line, i |-> start, p |-> 0, key |-> start, value |-> start,
         keys |-> none, values |-> none]

\* It has the invariant.
LEMMA ParseStart ==
  ASSUME NEW line, IsLine(line)
  PROVE  StartState(line) \in Parsing(line) /\ StartState(line).i > 0
<1> DEFINE L == Len(line)
           start == PastSpaces(line, 1)
           none == [a \in 0 .. L |-> 0]
           c == StartState(line)
<1>1. line \in Seq(Int) /\ L \in Nat
  BY DEF IsLine
<1>2. /\ start \in 1 .. L + 1 /\ start \in Nat /\ start >= 1 /\ At(line, start) # SpaceCh
      /\ \A k \in 1 .. start - 1 : At(line, k) = SpaceCh
  <2>1. 1 \in Nat /\ 1 >= 1 /\ 1 <= Len(line) + 1
    BY <1>1
  <2>2. /\ start \in 1 .. L + 1 /\ At(line, start) # SpaceCh
        /\ \A k \in 1 .. start - 1 : At(line, k) = SpaceCh
    BY <1>1, <2>1, PastSpacesIs, Zenon
  <2> HIDE DEF start
  <2> QED
    BY <1>1, <2>2
<1>3. ASSUME NEW k \in 1 .. L PROVE At(line, k) = line[k]
  BY <1>1 DEF At
<1>4. none \in [0 .. L -> Nat]
  OBVIOUS
<1>5. /\ c.str = line /\ c.i = start /\ c.p = 0 /\ c.key = start /\ c.value = start
      /\ c.keys = none /\ c.values = none
  BY DEF StartState
<1>6. c \in ParseState(L)
  <2>1. c = [str |-> line, i |-> start, p |-> 0, key |-> start, value |-> start,
             keys |-> none, values |-> none]
    BY DEF StartState
  <2>2. 0 \in 0 .. L
    BY <1>1
  <2> HIDE DEF c, start, none
  <2> QED
    BY <1>1, <1>2, <1>4, <2>1, <2>2 DEF ParseState
<1> HIDE DEF c
<1>7. \A a \in 0 .. L : c.keys[a] = 0
  BY <1>5
<1> HIDE DEF start, none
<1>8. ArgsInv(c, line)
  <2>1. ASSUME NEW b, HasKey(line, b), b < c.key PROVE FALSE
    <3>1. PICK e : IsWord(line, b, e)
      BY <2>1 DEF HasKey
    <3>2. b \in 1 .. L /\ e \in b .. L /\ b \in b .. e
      BY <1>1, <3>1 DEF IsWord
    <3>3. line[b] # SpaceCh
      BY <3>1, <3>2 DEF IsWord
    <3>4. b \in 1 .. start - 1
      BY <1>1, <1>2, <1>5, <2>1, <3>2
    <3> QED
      BY <1>2, <1>3, <3>2, <3>3, <3>4
  <2> QED
    BY <1>7, <2>1 DEF ArgsInv
<1>9. PlaceInv(c, line)
  <2>1. Len(c.str) = L /\ c.p < c.i /\ c.keys[c.p] = 0
    BY <1>1, <1>2, <1>5, <1>7
  <2>2. CASE start = L + 1
    <3>1. c.key = L + 1 /\ c.i > L
      BY <1>1, <1>5, <2>2
    <3> QED
      BY <2>1, <3>1 DEF PlaceInv
  <2>3. CASE start # L + 1
    <3>1. start \in 1 .. L
      BY <1>1, <1>2, <2>3
    <3>2. start \in Starts(line, Spaces)
      <4>1. line[start] # SpaceCh
        BY <1>2, <1>3, <3>1
      <4>2. ASSUME start > 1 PROVE line[start - 1] = SpaceCh
        <5>1. start - 1 \in 1 .. start - 1 /\ start - 1 \in 1 .. L
          BY <1>1, <3>1, <4>2
        <5> QED
          BY <1>2, <1>3, <5>1
      <4> QED
        BY <1>1, <3>1, <4>1, <4>2 DEF Starts, Spaces
    <3>3. PICK e : IsWord(line, start, e)
      BY <1>1, <3>2, WordsAre
    <3>4. c.key <= c.i /\ c.i <= e + 1
      <4>1. e \in start .. L
        BY <3>3 DEF IsWord
      <4> QED
        BY <1>1, <1>2, <1>5, <4>1
    <3>5. \A k \in c.key + 1 .. c.i - 1 : FALSE
      BY <1>2, <1>5
    <3>6. Here(c, line, e)
      BY <1>5, <2>1, <3>3, <3>4, <3>5 DEF Here
    <3> QED
      BY <2>1, <3>6 DEF PlaceInv
  <2> QED
    BY <2>2, <2>3
<1>10. c.i > 0
  BY <1>2, <1>5
<1>11. WordsInv(c, line)
  <2>1. Cardinality(Before(line, c.key)) \in Nat
    BY <1>1, <1>2, <1>5, WordsBefore
  <2> QED
    BY <1>5, <2>1 DEF WordsInv
<1> QED
  BY <1>6, <1>8, <1>9, <1>10, <1>11 DEF Parsing, ParseInv, c

\* The loop comes to the end of the line.
LEMMA ParseEnds ==
  ASSUME NEW line, IsLine(line)
  PROVE  parse_cmdline(line) \in Parsing(line) /\ parse_cmdline(line).i > Len(line)
<1> DEFINE n == Len(line)
           D == Parsing(line)
           d == StartState(line)
           step == [k \in 0 + 1 .. n |-> [c \in D |-> ParseTurn(c)]]
           eqn(g) == g = [k \in 0 .. n |-> IF k = 0 THEN d ELSE ParseTurn(g[k - 1])]
           turn == CHOOSE g : eqn(g)
<1>1. 0 \in Nat /\ n \in Nat /\ 0 <= n
  BY DEF IsLine
<1>2. d \in D /\ d.i > 0
  BY ParseStart
<1>3. step \in Steps(0, n, D)
  <2>1. ASSUME NEW c \in D PROVE ParseTurn(c) \in D
    BY ParseStep
  <2> HIDE DEF n, D
  <2> QED
    BY <2>1, Zenon DEF Steps
<1>4. parse_cmdline(line) = turn[n]
  BY Zenon DEF parse_cmdline, StartState
<1>5. ASSUME NEW c \in D
      PROVE  /\ c.i <= n => ParseTurn(c).i > c.i
             /\ c.i > n => ParseTurn(c) = c
             /\ c.i \in Nat
  <2>1. c.i \in Nat
    BY DEF Parsing, ParseState
  <2> QED
    BY <2>1, ParseStep
<1> HIDE DEF d, D
<1>6. PICK g : IsLoop(g, 0, n, D, d, step)
  <2> HIDE DEF step, n
  <2> QED
    BY <1>1, <1>2, <1>3, LoopExists
<1>7. /\ g \in [0 .. n -> D] /\ g[0] = d
      /\ \A k \in 0 + 1 .. n : g[k] = step[k][g[k - 1]]
  <2> HIDE DEF step, n
  <2> QED
    BY <1>6 DEF IsLoop
<1>8. ASSUME NEW k \in 1 .. n PROVE g[k] = ParseTurn(g[k - 1]) /\ g[k - 1] \in D /\ g[k] \in D
  <2>1. k - 1 \in 0 .. n /\ k \in 0 + 1 .. n /\ k \in 0 .. n
    BY <1>1
  <2>2. g[k - 1] \in D /\ g[k] \in D /\ g[k] = step[k][g[k - 1]]
    <3> HIDE DEF step, n
    <3> QED
      BY <1>7, <2>1
  <2> QED
    BY <2>1, <2>2
<1>9. eqn(g)
  <2>1. ASSUME NEW k \in 0 .. n PROVE g[k] = IF k = 0 THEN d ELSE ParseTurn(g[k - 1])
    <3>1. CASE k # 0
      <4>1. k \in 1 .. n
        BY <1>1, <3>1
      <4> QED
        BY <1>8, <3>1, <4>1
    <3> QED
      BY <1>7, <3>1
  <2>2. g = [k \in 0 .. n |-> g[k]]
    <3> HIDE DEF n
    <3> QED
      BY <1>7
  <2> HIDE DEF n
  <2> QED
    BY <2>1, <2>2, Zenon
<1>10. eqn(turn)
  BY <1>9, Zenon
<1> HIDE DEF turn
<1>11. turn[0] = d /\ \A k \in 1 .. n : turn[k] = ParseTurn(turn[k - 1])
  <2>1. 0 \in 0 .. n /\ \A k \in 1 .. n : k \in 0 .. n /\ k # 0
    BY <1>1
  <2>2. \A k \in 0 .. n : turn[k] = IF k = 0 THEN d ELSE ParseTurn(turn[k - 1])
    <3> HIDE DEF n
    <3> QED
      BY <1>10, Zenon
  <2> QED
    BY <2>1, <2>2, Zenon
<1> DEFINE S == {k \in 0 .. n : turn[k] = g[k] /\ (g[k].i > k \/ g[k].i > n)}
<1>12. 0 \in S
  BY <1>1, <1>2, <1>7, <1>11
<1>13. ASSUME NEW k \in 0 + 1 .. n, k - 1 \in S PROVE k \in S
  <2>1. k \in 1 .. n /\ k \in 0 .. n /\ turn[k - 1] = g[k - 1] /\ (g[k - 1].i > k - 1 \/ g[k - 1].i > n)
    BY <1>1, <1>13
  <2>2. g[k] = ParseTurn(g[k - 1]) /\ g[k - 1] \in D /\ g[k] \in D
    BY <1>8, <2>1
  <2>3. turn[k] = g[k]
    BY <1>11, <2>1, <2>2
  <2>4. g[k].i \in Nat /\ g[k - 1].i \in Nat
    BY <1>5, <2>2
  <2>5. CASE g[k - 1].i <= n
    <3>1. g[k].i > g[k - 1].i
      BY <1>5, <2>2, <2>5
    <3>2. g[k].i > k
      BY <1>1, <2>1, <2>4, <2>5, <3>1
    <3> QED
      BY <2>1, <2>3, <3>2
  <2>6. CASE g[k - 1].i > n
    <3>1. g[k] = g[k - 1]
      BY <1>5, <2>2, <2>6
    <3> QED
      BY <2>1, <2>3, <2>6, <3>1
  <2> QED
    BY <1>1, <2>4, <2>5, <2>6
<1>14. \A k \in 0 .. n : k \in S
  <2> HIDE DEF S, n
  <2> QED
    BY <1>1, <1>12, <1>13, RangeInduction
<1>15. n \in 0 .. n
  BY <1>1
<1>16. turn[n] = g[n] /\ g[n].i > n /\ g[n] \in D
  BY <1>7, <1>14, <1>15
<1> QED
  BY <1>4, <1>16 DEF D

\* A key to look for.
IsKey(name) == name \in Seq(Int) /\ name # <<>> /\ \A k \in 1 .. Len(name) : name[k] # EqualsCh

\* A key is found at a word exactly if the word gives it, with its value.
LEMMA KeyMatches ==
  ASSUME NEW line, IsLine(line), NEW str \in Seq(Int), Len(str) = Len(line),
         NEW b, NEW q, NEW e, IsCut(line, b, q, e), Stands(str, line, b, q, e),
         NEW name, IsKey(name)
  PROVE  /\ Gives(WordAt(line, Spaces, b), name) <=> CString(str, b) = name
         /\ Gives(WordAt(line, Spaces, b), name) =>
              CString(str, q + 1) = SubSeq(WordAt(line, Spaces, b), Len(name) + 2,
                                           Len(WordAt(line, Spaces, b)))
<1> DEFINE L == Len(line)
           n == Len(name)
           w == WordAt(line, Spaces, b)
           u == CString(str, b)
           x == CString(str, q + 1)
           s == SubSeq(w, 1, n)
           y == SubSeq(w, n + 2, Len(w))
<1>1. /\ line \in Seq(Int) /\ L \in Nat /\ name \in Seq(Int) /\ n \in Nat /\ n >= 1
      /\ \A k \in 1 .. n : name[k] # EqualsCh
  BY DEF IsLine, IsKey
<1>2. /\ b \in Nat /\ b >= 1 /\ e \in Nat /\ e <= L /\ q \in Nat /\ b <= q /\ q <= e
      /\ IsWord(line, b, e) /\ line[q] = EqualsCh
      /\ \A k \in b + 1 .. q - 1 : line[k] # EqualsCh
  BY <1>1 DEF IsCut, IsWord
<1>3. /\ \A k \in b .. e : k # q => str[k] = line[k] /\ line[k] # 0
      /\ At(str, q) = 0 /\ At(str, e + 1) = 0
  <2>1. \A k \in b .. e : k \in 1 .. L
    BY <1>1, <1>2
  <2> QED
    BY <2>1 DEF Stands, IsLine
<1>4. w \in Seq(Int) /\ Len(w) = e - b + 1 /\ \A i \in 1 .. e - b + 1 : w[i] = line[b - 1 + i]
  <2>1. w = SubSeq(line, b, e)
    BY <1>1, <1>2, WordsAre DEF WordAt
  <2> DEFINE a == b - 1
  <2>2. a \in Nat /\ a <= e /\ e <= Len(line) /\ a + 1 = b /\ e - a = e - b + 1
    BY <1>2
  <2> HIDE DEF a, w
  <2>3. w = SubSeq(line, a + 1, e)
    BY <2>1, <2>2
  <2>4. w \in Seq(Int) /\ Len(w) = e - a /\ \A i \in 1 .. e - a : w[i] = line[a + i]
    <3>1. line \in Seq(Int) /\ e \in Nat
      BY <1>1, <1>2
    <3> QED
      BY <2>2, <2>3, <3>1, CutTo
  <2> QED
    BY <2>2, <2>4 DEF a
<1>5. u \in Seq(Int) /\ Len(u) = q - b /\ \A i \in 1 .. q - b : u[i] = line[b - 1 + i]
  <2> DEFINE a == b - 1
             f == q - 1
  <2>1. /\ a \in Nat /\ f \in Nat /\ a <= f /\ f <= Len(str) /\ a + 1 = b /\ f - a = q - b
        /\ b <= f + 1 /\ f + 1 = q
    BY <1>1, <1>2
  <2>2. ASSUME NEW k \in b .. f PROVE str[k] # 0 /\ str[k] = line[k]
    <3>1. k \in b .. e /\ k # q
      BY <1>2, <2>1
    <3> QED
      BY <1>3, <3>1
  <2>3. At(str, f + 1) = 0
    BY <1>3, <2>1
  <2> HIDE DEF a, f
  <2>4. u = SubSeq(str, b, f)
    BY <1>2, <2>1, <2>2, <2>3, CStringIs
  <2> HIDE DEF u
  <2>5. u \in Seq(Int) /\ Len(u) = f - a /\ \A i \in 1 .. f - a : u[i] = str[a + i]
    <3>1. u = SubSeq(str, a + 1, f)
      BY <2>1, <2>4
    <3> QED
      BY <2>1, <3>1, CutTo
  <2>6. ASSUME NEW i \in 1 .. q - b PROVE u[i] = line[b - 1 + i]
    <3>1. a + i \in b .. f /\ a + i = b - 1 + i /\ i \in 1 .. f - a
      BY <1>2, <2>1 DEF a, f
    <3> QED
      BY <2>2, <2>5, <3>1
  <2> QED
    BY <2>1, <2>5, <2>6
<1>6. x \in Seq(Int) /\ Len(x) = e - q /\ \A i \in 1 .. e - q : x[i] = line[q + i]
  <2>1. q + 1 \in Nat /\ q + 1 >= 1 /\ q + 1 <= e + 1 /\ e <= Len(str)
    BY <1>1, <1>2
  <2>2. ASSUME NEW k \in q + 1 .. e PROVE str[k] # 0 /\ str[k] = line[k]
    <3>1. k \in b .. e /\ k # q
      BY <1>2
    <3> QED
      BY <1>3, <3>1
  <2>3. x = SubSeq(str, q + 1, e)
    BY <1>2, <1>3, <2>1, <2>2, CStringIs
  <2> HIDE DEF x
  <2>4. x \in Seq(Int) /\ Len(x) = e - q /\ \A i \in 1 .. e - q : x[i] = str[q + i]
    BY <1>2, <2>1, <2>3, CutTo
  <2>5. ASSUME NEW i \in 1 .. e - q PROVE x[i] = line[q + i]
    <3>1. q + i \in q + 1 .. e
      BY <1>2
    <3> QED
      BY <2>2, <2>4, <3>1
  <2> QED
    BY <2>4, <2>5
<1> HIDE DEF w, u, x
<1>6a. n \in Nat /\ n >= 1
  BY <1>1
<1>6b. b \in Nat /\ b >= 1 /\ e \in Nat /\ q \in Nat /\ b <= q /\ q <= e
  BY <1>2
<1>6c. Len(w) = e - b + 1
  BY <1>4
<1> HIDE DEF n
<1>7. ASSUME n < Len(w)
      PROVE  s \in Seq(Int) /\ Len(s) = n /\ \A i \in 1 .. n : s[i] = line[b - 1 + i]
  <2> DEFINE t == SubSeq(w, 0 + 1, n)
  <2>1. 0 \in Nat /\ 0 <= n /\ n <= Len(w) /\ n - 0 = n /\ 0 + 1 = 1
    BY <1>6a, <1>6b, <1>6c, <1>7
  <2>2. t \in Seq(Int) /\ Len(t) = n - 0 /\ \A i \in 1 .. n - 0 : t[i] = w[0 + i]
    BY <1>4, <1>6a, <2>1, CutTo
  <2>3. t = s
    BY <2>1
  <2> HIDE DEF t, s
  <2>4. ASSUME NEW i \in 1 .. n PROVE t[i] = line[b - 1 + i]
    <3>1. i \in 1 .. e - b + 1 /\ 0 + i = i /\ i \in 1 .. n - 0
      BY <1>6a, <1>6b, <1>6c, <1>7
    <3> QED
      BY <1>4, <2>2, <3>1
  <2> QED
    BY <2>1, <2>2, <2>3, <2>4
<1>8. Gives(w, name) <=> n < Len(w) /\ s = name /\ w[n + 1] = EqualsCh
  <2>1. Len(w) \in Nat
    BY <1>4
  <2> QED
    BY <1>6a, <2>1 DEF Gives, n
<1> HIDE DEF s
<1>9. ASSUME n < Len(w)
      PROVE  b + n \in b + 1 .. e /\ w[n + 1] = line[b + n]
  <2>1. n + 1 \in 1 .. e - b + 1 /\ b - 1 + (n + 1) = b + n
    BY <1>6a, <1>6b, <1>6c, <1>9
  <2>2. b + n \in b + 1 .. e
    BY <1>6a, <1>6b, <1>6c, <1>9
  <2> QED
    BY <1>4, <2>1, <2>2
<1>10. ASSUME Gives(w, name) PROVE q = b + n /\ n < Len(w)
  <2>1. n < Len(w) /\ s = name /\ w[n + 1] = EqualsCh
    BY <1>8, <1>10
  <2>2. ~(q < b + n)
    <3> SUFFICES ASSUME q < b + n PROVE FALSE
      OBVIOUS
    <3>1. q - b + 1 \in 1 .. n /\ b - 1 + (q - b + 1) = q
      BY <1>6a, <1>6b
    <3>2. s[q - b + 1] = line[q]
      BY <1>7, <2>1, <3>1
    <3> QED
      BY <1>1, <1>2, <2>1, <3>1, <3>2 DEF n
  <2>3. ~(b + n < q)
    <3> SUFFICES ASSUME b + n < q PROVE FALSE
      OBVIOUS
    <3>1. b + n \in b + 1 .. q - 1
      BY <1>6a, <1>6b
    <3> QED
      BY <1>2, <1>9, <2>1, <3>1
  <2> QED
    BY <1>6a, <1>6b, <2>1, <2>2, <2>3
<1>11. ASSUME Gives(w, name) PROVE u = name
  <2>1. q - b = n /\ s = name /\ n < Len(w)
    BY <1>8, <1>10, <1>11, <1>6a, <1>6b
  <2>2. \A i \in 1 .. n : u[i] = name[i]
    BY <1>5, <1>7, <2>1
  <2> QED
    BY <1>1, <1>5, <2>1, <2>2, SeqEqual DEF n
<1>12. ASSUME u = name PROVE Gives(w, name)
  <2>1. n = q - b
    BY <1>5, <1>12 DEF n
  <2>2. n < Len(w) /\ b + n = q
    BY <1>6a, <1>6b, <1>6c, <2>1
  <2>3. \A i \in 1 .. n : s[i] = name[i]
    BY <1>5, <1>7, <1>12, <2>1, <2>2
  <2>4. s = name
    BY <1>1, <1>7, <2>2, <2>3, SeqEqual DEF n
  <2>5. w[n + 1] = EqualsCh
    BY <1>2, <1>9, <2>2
  <2> QED
    BY <1>8, <2>2, <2>4, <2>5
<1>13. ASSUME Gives(w, name) PROVE x = y
  <2> DEFINE a == n + 1
             m == Len(w)
  <2>1. q = b + n /\ n < Len(w) /\ m \in Nat
    BY <1>4, <1>10, <1>13
  <2>2. a \in Nat /\ a <= m /\ m <= Len(w) /\ a + 1 = n + 2 /\ m - a = e - q
    BY <1>6a, <1>6b, <1>6c, <2>1
  <2>3. y = SubSeq(w, a + 1, m)
    BY <2>2
  <2> HIDE DEF y, a, m
  <2>4. y \in Seq(Int) /\ Len(y) = m - a /\ \A i \in 1 .. m - a : y[i] = w[a + i]
    BY <1>4, <2>1, <2>2, <2>3, CutTo
  <2>5. ASSUME NEW i \in 1 .. e - q PROVE y[i] = x[i]
    <3>1. a + i \in 1 .. e - b + 1 /\ b - 1 + (a + i) = q + i
      BY <1>6a, <1>6b, <2>1 DEF a
    <3> QED
      BY <1>4, <1>6, <2>2, <2>4, <3>1
  <2>6. Len(y) = e - q
    BY <2>2, <2>4
  <2> QED
    BY <1>6, <2>4, <2>5, <2>6, SeqEqual
<1> QED
  BY <1>11, <1>12, <1>13 DEF w, u, x, y, n

\* A word that gives a key has a "=" behind its first character.
LEMMA GivesHasKey ==
  ASSUME NEW line, IsLine(line), NEW b \in Starts(line, Spaces), NEW name, IsKey(name),
         Gives(WordAt(line, Spaces, b), name)
  PROVE  HasKey(line, b)
<1> DEFINE L == Len(line)
           e == EndOf(line, Spaces, b)
           n == Len(name)
           w == SubSeq(line, b, e)
<1>1. line \in Seq(Int) /\ L \in Nat /\ n \in Nat /\ n >= 1
  BY DEF IsLine, IsKey
<1>2. IsWord(line, b, e)
  BY <1>1, WordsAre
<1>3. w = WordAt(line, Spaces, b)
  BY DEF WordAt
<1> HIDE DEF e
<1>4. b \in Nat /\ b >= 1 /\ e \in Nat /\ b <= e /\ e <= L
  BY <1>1, <1>2 DEF IsWord
<1> DEFINE a == b - 1
<1>5. a \in Nat /\ a <= e /\ e <= Len(line) /\ a + 1 = b
  BY <1>4
<1> HIDE DEF a
<1>6. w \in Seq(Int) /\ Len(w) = e - a /\ \A i \in 1 .. e - a : w[i] = line[a + i]
  <2>1. w = SubSeq(line, a + 1, e)
    BY <1>5
  <2> HIDE DEF w
  <2> QED
    BY <1>1, <1>4, <1>5, <2>1, CutTo
<1> HIDE DEF w
<1>7. Len(w) > n /\ w[n + 1] = EqualsCh
  BY <1>3 DEF Gives
<1>8. n + 1 \in 1 .. e - a /\ a + (n + 1) = b + n /\ b + n \in b + 1 .. e
  <2>1. n \in Nat /\ n >= 1 /\ Len(w) = e - a /\ Len(w) > n
    BY <1>1, <1>6, <1>7
  <2> HIDE DEF n
  <2> QED
    BY <1>4, <1>5, <2>1
<1>9. line[b + n] = EqualsCh
  BY <1>6, <1>7, <1>8
<1> QED
  BY <1>2, <1>8, <1>9 DEF HasKey

\* When the loop is at the end, every word with a key has its argument.
LEMMA AllFound ==
  ASSUME NEW line, IsLine(line), NEW c \in Parsing(line), c.i > Len(line),
         NEW b, HasKey(line, b)
  PROVE  \E a \in 0 .. c.p : c.keys[a] = b /\ b # 0 /\ Entry(c, line, a)
<1> DEFINE L == Len(line)
<1>1. /\ line \in Seq(Int) /\ L \in Nat /\ c.key \in Nat /\ c.p \in 0 .. L /\ c.i \in Nat
      /\ ArgsInv(c, line) /\ PlaceInv(c, line)
  BY DEF IsLine, Parsing, ParseState, ParseInv
<1>2. PICK f : IsWord(line, b, f) /\ \E k \in b + 1 .. f : line[k] = EqualsCh
  BY DEF HasKey
<1>3. b \in 1 .. L /\ f \in b .. L /\ line[b] # SpaceCh /\ (b > 1 => line[b - 1] = SpaceCh) /\ b # 0
  BY <1>1, <1>2 DEF IsWord
<1>4. \E a \in 0 .. L : c.keys[a] = b
  <2>1. CASE b < c.key
    BY <1>1, <2>1 DEF ArgsInv
  <2>2. CASE ~(b < c.key)
    <3>1. PICK e : Here(c, line, e)
      <4>1. c.key # L + 1
        BY <1>1, <1>3, <2>2
      <4> QED
        BY <1>1, <4>1 DEF PlaceInv
    <3>2. e = L /\ c.i = e + 1 /\ IsWord(line, c.key, e)
      <4>1. e \in c.key .. L /\ c.i <= e + 1 /\ IsWord(line, c.key, e)
        BY <3>1 DEF Here, IsWord
      <4> QED
        BY <1>1, <4>1
    <3>3. ~(b > c.key)
      <4> SUFFICES ASSUME b > c.key PROVE FALSE
        OBVIOUS
      <4>1. b - 1 \in c.key .. e /\ b > 1
        <5>1. c.key >= 1
          BY <1>1, <3>2 DEF IsWord
        <5>2. b \in Nat /\ b <= L /\ e = L
          BY <1>1, <1>3, <3>2
        <5> QED
          BY <1>1, <5>1, <5>2
      <4>2. line[b - 1] # SpaceCh
        BY <3>2, <4>1 DEF IsWord
      <4> QED
        BY <1>3, <4>1, <4>2
    <3>4. b = c.key
      BY <1>1, <1>3, <2>2, <3>3
    <3>5. f = e
      BY <1>1, <1>2, <3>2, <3>4, WordsAre
    <3>6. c.keys[c.p] # 0
      <4> SUFFICES ASSUME c.keys[c.p] = 0 PROVE FALSE
        OBVIOUS
      <4>1. c.i - 1 = e
        BY <1>1, <3>2
      <4>2. \A k \in c.key + 1 .. e : line[k] # EqualsCh
        BY <3>1, <4>1 DEF Here
      <4> QED
        BY <1>2, <3>4, <3>5, <4>2
    <3>7. c.keys[c.p] = c.key
      <4>1. \/ c.p < c.p /\ c.keys[c.p] < c.key
            \/ c.p = c.p /\ c.keys[c.p] = c.key /\ c.value = c.values[c.p]
        BY <1>1, <3>6 DEF ArgsInv
      <4> QED
        BY <1>1, <4>1
    <3> QED
      BY <1>1, <3>4, <3>7
  <2> QED
    BY <2>1, <2>2
<1>5. PICK a \in 0 .. L : c.keys[a] = b
  BY <1>4
<1>6. /\ Entry(c, line, a)
      /\ a < c.p \/ a = c.p
  BY <1>1, <1>3, <1>5 DEF ArgsInv
<1>7. a \in 0 .. c.p
  BY <1>1, <1>6
<1> QED
  BY <1>3, <1>5, <1>6, <1>7

\* An argument has the key of its word and the value of its word.
LEMMA EntryRight ==
  ASSUME NEW line, IsLine(line), NEW c \in Parsing(line), NEW a, Entry(c, line, a),
         NEW name, IsKey(name)
  PROVE  LET w == WordAt(line, Spaces, c.keys[a])
         IN  /\ c.keys[a] \in Starts(line, Spaces)
             /\ Gives(w, name) <=> CString(c.str, c.keys[a]) = name
             /\ Gives(w, name) => CString(c.str, c.values[a]) = SubSeq(w, Len(name) + 2, Len(w))
<1> DEFINE b == c.keys[a]
           w == WordAt(line, Spaces, b)
           str == c.str
<1>1. PICK q, e : /\ IsCut(line, b, q, e) /\ c.values[a] = q + 1
                  /\ Stands(str, line, b, q, e)
  BY DEF Entry
<1>2. str \in Seq(Int) /\ Len(str) = Len(line) /\ line \in Seq(Int)
  BY DEF Parsing, ParseState, ParseInv, PlaceInv, IsLine
<1>3. b \in Starts(line, Spaces)
  BY <1>1, <1>2, WordsAre DEF IsCut
<1> HIDE DEF b, str
<1>4. /\ Gives(w, name) <=> CString(str, b) = name
      /\ Gives(w, name) => CString(str, q + 1) = SubSeq(w, Len(name) + 2, Len(w))
  BY <1>1, <1>2, KeyMatches
<1> HIDE DEF w
<1> QED
  BY <1>1, <1>3, <1>4 DEF w, b, str

\* The command line is read right.
LEMMA CmdlineRead ==
  ASSUME tcase \in CmdlineCase
  PROVE  TextCmdline
<1> DEFINE line == tcase.line
           L == Len(line)
           c == parse_cmdline(line)
<1>1. IsLine(line)
  <2>1. line \in Seq(Nat \ {0})
    BY DEF CmdlineCase
  <2> HIDE DEF line
  <2>2. line \in Seq(Int)
    BY <2>1
  <2>3. \A k \in 1 .. L : line[k] # 0
    BY <2>1
  <2> QED
    BY <2>2, <2>3 DEF IsLine
<1>2. ASSUME NEW name \in tcase.keys PROVE IsKey(name)
  <2>1. name \in Seq(Nat \ {0, SpaceCh, EqualsCh}) /\ name # <<>>
    BY DEF CmdlineCase
  <2>2. name \in Seq(Int)
    BY <2>1
  <2>3. \A k \in 1 .. Len(name) : name[k] # EqualsCh
    BY <2>1
  <2> QED
    BY <2>1, <2>2, <2>3 DEF IsKey
<1> HIDE DEF line
<1>3. c \in Parsing(line) /\ c.i > L
  BY <1>1, ParseEnds
<1> HIDE DEF c
<1>4. /\ L \in Nat /\ c.p \in 0 .. L /\ ArgsInv(c, line)
      /\ c.keys \in [0 .. L -> Nat]
  BY <1>1, <1>3 DEF Parsing, ParseState, ParseInv, IsLine
<1>0. ASSUME Cardinality(Starts(line, Spaces)) < CMDLINE_MAX_ARGS
      PROVE  c.p < CMDLINE_MAX_ARGS
  <2>1. line \in Seq(Int) /\ c.key \in Nat /\ c.p <= Cardinality(Before(line, c.key))
    BY <1>1, <1>3 DEF Parsing, ParseState, ParseInv, WordsInv, IsLine
  <2>2. /\ Cardinality(Starts(line, Spaces)) \in Nat /\ Cardinality(Before(line, c.key)) \in Nat
        /\ Cardinality(Before(line, c.key)) <= Cardinality(Starts(line, Spaces))
    BY <2>1, WordsBefore
  <2>3. CMDLINE_MAX_ARGS \in Nat /\ c.p \in Nat
    BY <1>4, TextAssumption
  <2> QED
    BY <1>0, <2>1, <2>2, <2>3
<1> SUFFICES ASSUME NEW name \in tcase.keys
             PROVE  cmdline_get_value(c, name) = Said(line, name)
  BY <1>0, Zenon DEF TextCmdline, c, line, Spaces
<1> DEFINE word(i) == WordAt(line, Spaces, i)
           hits == {a \in 0 .. c.p : c.keys[a] # 0 /\ CString(c.str, c.keys[a]) = name}
           given == {i \in Starts(line, Spaces) : Gives(word(i), name)}
           a0 == CHOOSE a \in hits : \A b \in hits : a <= b
           b0 == CHOOSE i \in given : \A j \in given : i <= j
<1>5. IsKey(name)
  BY <1>2
<1>6. /\ cmdline_get_value(c, name) = IF hits = {} THEN NoValue ELSE CString(c.str, c.values[a0])
      /\ Said(line, name) = IF given = {} THEN NoValue
                           ELSE SubSeq(word(b0), Len(name) + 2, Len(word(b0)))
  BY Zenon DEF cmdline_get_value, Said, Spaces
<1>7. ASSUME NEW a \in hits
      PROVE  /\ a \in 0 .. L /\ a \in Nat /\ c.keys[a] # 0 /\ c.keys[a] \in given
             /\ CString(c.str, c.values[a])
                  = SubSeq(word(c.keys[a]), Len(name) + 2, Len(word(c.keys[a])))
  <2>1. a \in 0 .. L /\ a \in Nat /\ c.keys[a] # 0 /\ CString(c.str, c.keys[a]) = name
    BY <1>4
  <2>2. Entry(c, line, a)
    BY <1>4, <2>1 DEF ArgsInv
  <2>3. LET w == word(c.keys[a])
        IN  /\ c.keys[a] \in Starts(line, Spaces)
            /\ Gives(w, name) <=> CString(c.str, c.keys[a]) = name
            /\ Gives(w, name) => CString(c.str, c.values[a]) = SubSeq(w, Len(name) + 2, Len(w))
    BY <1>1, <1>3, <1>5, <2>2, EntryRight
  <2> QED
    BY <2>1, <2>3, Zenon
<1>8. ASSUME NEW b \in given PROVE \E a \in hits : c.keys[a] = b
  <2>1. b \in Starts(line, Spaces) /\ Gives(word(b), name)
    OBVIOUS
  <2>2. HasKey(line, b)
    BY <1>1, <1>5, <2>1, GivesHasKey
  <2>3. PICK a \in 0 .. c.p : c.keys[a] = b /\ b # 0 /\ Entry(c, line, a)
    BY <1>1, <1>3, <2>2, AllFound
  <2>4. LET w == word(c.keys[a])
        IN  /\ c.keys[a] \in Starts(line, Spaces)
            /\ Gives(w, name) <=> CString(c.str, c.keys[a]) = name
            /\ Gives(w, name) => CString(c.str, c.values[a]) = SubSeq(w, Len(name) + 2, Len(w))
    BY <1>1, <1>3, <1>5, <2>3, EntryRight
  <2>5. CString(c.str, c.keys[a]) = name
    BY <2>1, <2>3, <2>4, Zenon
  <2>6. a \in hits
    BY <2>3, <2>5
  <2> QED
    BY <2>3, <2>6
<1>9. given \in SUBSET Nat /\ hits \in SUBSET Nat
  <2>1. \A i \in Starts(line, Spaces) : i \in Nat
    BY <1>1 DEF Starts, IsLine
  <2> QED
    BY <1>7, <2>1
<1> HIDE DEF hits, given
<1>10. CASE hits = {}
  <2>1. given = {}
    BY <1>8, <1>10
  <2> QED
    BY <1>6, <1>10, <2>1, Zenon
<1>11. CASE hits # {}
  <2>1. given # {}
    BY <1>7, <1>11
  <2>2. \E a \in hits : \A b \in hits : a <= b
    BY <1>9, <1>11, LeastNat
  <2>3. \E i \in given : \A j \in given : i <= j
    BY <1>9, <2>1, LeastNat
  <2>4. a0 \in hits /\ \A b \in hits : a0 <= b
    BY <2>2, Zenon
  <2>5. b0 \in given /\ \A j \in given : b0 <= j
    BY <2>3, Zenon
  <2> HIDE DEF a0, b0
  <2>6. PICK a \in hits : c.keys[a] = b0
    BY <1>8, <2>5
  <2>7. /\ a0 \in 0 .. L /\ a \in 0 .. L /\ a0 <= a /\ c.keys[a0] # 0 /\ c.keys[a] # 0
        /\ c.keys[a0] \in given
    BY <1>7, <2>4, <2>6
  <2>8. c.keys[a0] \in Nat /\ c.keys[a] \in Nat /\ b0 <= c.keys[a0]
    BY <1>4, <2>5, <2>7
  <2>9. ~(a0 < a)
    <3> SUFFICES ASSUME a0 < a PROVE FALSE
      OBVIOUS
    <3>1. c.keys[a0] < c.keys[a]
      BY <1>4, <2>7 DEF ArgsInv
    <3> QED
      BY <2>6, <2>8, <3>1
  <2>10. a0 = a
    BY <1>4, <2>7, <2>9
  <2>11. CString(c.str, c.values[a0]) = SubSeq(word(b0), Len(name) + 2, Len(word(b0)))
    BY <1>7, <2>4, <2>6, <2>10, Zenon
  <2> QED
    BY <1>6, <1>11, <2>1, <2>11, Zenon
<1> QED
  BY <1>10, <1>11

\* For every input a number that is not negative is read back as it was written,
\* a negative one if the plus flag writes its sign; a command line of fewer words
\* than cmdline_args has room for gives what its first word with the key says and
\* stays in the array; the root device is the one that was named, when its text
\* fits into rdev_str; and strtok_r returns the words (printf.c:56;
\* cmdline.c:45, 104; kernel.c:142; string.c:156).
THEOREM TextsRight == TextSpec => []TextRight
<1>1. ASSUME tcase \in TextCases PROVE TextRight
  <2>1. tcase \in NumberCase \cup CmdlineCase \cup RootCase \cup TokenCase
    BY <1>1, TextAssumption
  <2>2. CASE tcase \in NumberCase
    <3>1. tcase.kind = "number"
      BY <2>2 DEF NumberCase
    <3>2. TextNumbers
      BY <2>2, NumbersRead
    <3> QED
      BY <3>1, <3>2 DEF TextRight, TextCmdline, TextRoot, TextTokens
  <2>3. CASE tcase \in CmdlineCase
    <3>1. tcase.kind = "cmdline"
      BY <2>3 DEF CmdlineCase
    <3>2. TextCmdline
      BY <2>3, CmdlineRead
    <3> QED
      BY <3>1, <3>2 DEF TextRight, TextNumbers, TextRoot, TextTokens
  <2>4. CASE tcase \in RootCase
    <3>1. tcase.kind = "root"
      BY <2>4 DEF RootCase
    <3>2. TextRoot
      BY <2>4, RootRead
    <3> QED
      BY <3>1, <3>2 DEF TextRight, TextNumbers, TextCmdline, TextTokens
  <2>5. CASE tcase \in TokenCase
    <3>1. tcase.kind = "token"
      BY <2>5 DEF TokenCase
    <3>2. TextTokens
      BY <2>5, TokensRead
    <3> QED
      BY <3>1, <3>2 DEF TextRight, TextNumbers, TextCmdline, TextRoot
  <2> QED
    BY <2>1, <2>2, <2>3, <2>4, <2>5
<1>2. TextInit => tcase \in TextCases
  BY DEF TextInit
<1>3. tcase \in TextCases /\ [UNCHANGED tcase]_tcase => (tcase \in TextCases)'
  OBVIOUS
<1>4. tcase \in TextCases => TextRight
  BY <1>1
<1> QED
  BY <1>2, <1>3, <1>4, PTL DEF TextSpec
=============================================================================
