------------------------------ MODULE Console ------------------------------
(***************************************************************************)
(* The screen (arch/x86/boot/video.c), one character per action.           *)
(* Attributes are left out.                                                *)
(*                                                                         *)
(* Video memory has one row more than the screen shows: scroll_screen      *)
(* copies it up, and a character at the end of the last row goes there.    *)
(* External: the firmware has left that row blank (clrscr does not reach   *)
(* it).  clines is history: the text as lines, without regard to the       *)
(* screen; clong: a line was longer than the screen is wide.               *)
(***************************************************************************)
EXTENDS Integers, Sequences, FiniteSets

LOCAL INSTANCE SequencesExt

CONSTANTS
    VIDEO_COLS, VIDEO_ROWS,
    Glyphs,             \* printable characters: a set of strings
    ConMaxText          \* bound: characters printed

ASSUME ConsoleAssumption ==
    /\ VIDEO_COLS \in Nat \ {0} /\ VIDEO_ROWS \in Nat \ {0} /\ ConMaxText \in Nat
    /\ Glyphs \cap {"LF", "CR", "BS"} = {}

VARIABLES
    cmem,               \* videomem: the characters, by position
    px, py,
    clines, clong, ccount

conVars == <<cmem, px, py, clines, clong, ccount>>

Blank == " "
Places == 0 .. VIDEO_COLS * (VIDEO_ROWS + 1) - 1

\* clrscr.
ConInit ==
    /\ cmem = [p \in Places |-> Blank]
    /\ px = 0 /\ py = 0
    /\ clines = << <<>> >> /\ clong = FALSE /\ ccount = 0

----------------------------------------------------------------------------
\* The screen as a record: memory and cursor.
Screen == [mem |-> cmem, x |-> px, y |-> py]

\* Mutant: the last row of the screen is not moved.
scroll_screen_OneLess(mem) ==
    [p \in Places |-> IF p < VIDEO_COLS * (VIDEO_ROWS - 1) THEN mem[p + VIDEO_COLS] ELSE mem[p]]

scroll_screen(mem) ==
    [p \in Places |-> IF p < VIDEO_COLS * VIDEO_ROWS THEN mem[p + VIDEO_COLS] ELSE mem[p]]

\* The next row, or the last one again after a scroll.
NextRow(s) ==
    IF s.y + 1 >= VIDEO_ROWS
    THEN [mem |-> scroll_screen(s.mem), x |-> 0, y |-> VIDEO_ROWS - 1]
    ELSE [s EXCEPT !.x = 0, !.y = @ + 1]

\* writechar: the place is taken before the cursor moves, and the character
\* is stored after the scroll.
writechar(s, ch) ==
    LET pos == VIDEO_COLS * s.y + s.x
        r == IF s.x >= VIDEO_COLS THEN NextRow(s) ELSE [s EXCEPT !.x = @ + 1]
    IN  [r EXCEPT !.mem[pos] = ch]

Backspace(s) ==
    LET r == writechar(IF s.x > 0 THEN [s EXCEPT !.x = @ - 1] ELSE s, Blank)
    IN  [r EXCEPT !.x = @ - 1]

\* One character of kprint; a carriage return is one step back.
kprint(s, ch) ==
    CASE ch = "LF" -> NextRow(s)
      [] ch = "CR" -> IF s.x > 0 THEN [s EXCEPT !.x = @ - 1] ELSE s
      [] ch = "BS" -> Backspace(s)
      [] OTHER -> writechar(s, ch)

\* The text after one more character.
Typed(ch) ==
    LET n == Len(clines)
    IN  CASE ch = "LF" -> Append(clines, <<>>)
          [] ch = "BS" -> [clines EXCEPT ![n] = IF @ = <<>> THEN @ ELSE Front(@)]
          [] OTHER -> [clines EXCEPT ![n] = Append(@, ch)]

\* kprint of one character.  The kernel prints no carriage return.
PrintChar(ch) ==
    /\ ccount < ConMaxText /\ ccount' = ccount + 1
    /\ LET s == kprint(Screen, ch) IN cmem' = s.mem /\ px' = s.x /\ py' = s.y
    /\ clines' = Typed(ch)
    /\ clong' = (clong \/ Len(Last(clines')) > VIDEO_COLS)

ConNext == \E ch \in Glyphs \cup {"LF", "BS"} : PrintChar(ch)

ConSpec == ConInit /\ [][ConNext]_conVars

----------------------------------------------------------------------------
Row(y) == [k \in 1 .. VIDEO_COLS |-> cmem[VIDEO_COLS * y + k - 1]]
Padded(line) == [k \in 1 .. VIDEO_COLS |-> IF k <= Len(line) THEN line[k] ELSE Blank]

\* As long as no line is longer than the screen is wide, the screen shows the
\* last lines of the text, also when it has scrolled and when characters
\* were taken back at the borders (video.c:122, 161).  A longer line loses a
\* character at every turn to the next row.
ConsoleShows ==
    ~clong =>
        LET first == IF Len(clines) > VIDEO_ROWS THEN Len(clines) - VIDEO_ROWS ELSE 0
        IN  \A y \in 0 .. VIDEO_ROWS - 1 :
                Row(y) = IF first + y + 1 <= Len(clines) THEN Padded(clines[first + y + 1])
                                                         ELSE Padded(<<>>)
=============================================================================
