-------------------------------- MODULE Text --------------------------------
(***************************************************************************)
(* Pure text functions of the kernel: numbers to text and back (printf.c,  *)
(* stdlib.c), the kernel command line (cmdline.c) and the cutting of       *)
(* strings into tokens (string.c).  A character is its code, a string a    *)
(* sequence of codes without the final 0.  tcase is the input that the     *)
(* properties are checked for; nothing changes it.                         *)
(***************************************************************************)
EXTENDS Integers, Sequences, FiniteSets

LOCAL INSTANCE SequencesExt

CONSTANTS
    TextCases,          \* inputs: records with a field kind
    CMDLINE_MAX_ARGS    \* arguments that cmdline_args has room for

SpaceCh == 32
PlusCh == 43
MinusCh == 45
ZeroCh == 48
ColonCh == 58
EqualsCh == 61
IsDigit(c) == c \in ZeroCh .. ZeroCh + 9

\* The inputs.  A string holds no zero, and a key neither a blank nor "=".  A
\* command line is shorter than CMDLINE_MAX, the size of kinfo.cmdline and of
\* its copy.  The root device is named by two numbers, by a word without a
\* colon, or not at all; low is the string at address 0.
NumberCase ==
    [kind : {"number"}, flags : SUBSET {"zero", "plus"}, value : Int, prec : Nat]
CmdlineCase ==
    [kind : {"cmdline"}, line : Seq(Nat \ {0}),
     keys : SUBSET (Seq(Nat \ {0, SpaceCh, EqualsCh}) \ {<<>>})]
RootCase ==
    [kind : {"root"}, major : Nat, minor : Nat, word : Seq(Nat \ {0, ColonCh}), low : Seq(Nat \ {0})]
TokenCase == [kind : {"token"}, s : Seq(Nat \ {0}), delim : SUBSET Nat]

ASSUME TextAssumption ==
    /\ CMDLINE_MAX_ARGS \in Nat \ {0}
    /\ TextCases \subseteq NumberCase \cup CmdlineCase \cup RootCase \cup TokenCase

VARIABLE tcase

TextInit == tcase \in TextCases
TextSpec == TextInit /\ [][UNCHANGED tcase]_tcase

----------------------------------------------------------------------------
DigitCh(rem) == IF rem >= 10 THEN rem - 10 + 65 ELSE rem + ZeroCh

\* The digits of a number.  The division loops give the last one first, and
\* the string is turned around; from ten on they are letters from A.
Digits(n, base) ==
    LET digits[m \in 0 .. n] ==
          IF m \div base = 0 THEN <<DigitCh(m % base)>>
          ELSE Append(digits[m \div base], DigitCh(m % base))
    IN  digits[n]

Abs(n) == IF n < 0 THEN -n ELSE n

\* Where the sign goes: in front of the zeros, else of the number.
SignAt(flags, sh) == IF "zero" \in flags THEN 1 ELSE sh

\* numtostr: a sign is written only with one of the flags space and plus.
\* The unsigned conversion gets numbers below 2^31; there both branches are
\* alike.  (The most negative number has no absolute value and is outside the
\* model.)
numtostr(flags, value, base, prec) ==
    LET num == Digits(Abs(value), base)
        signed == "space" \in flags \/ "plus" \in flags
        sch == IF value < 0 THEN MinusCh ELSE IF "plus" \in flags THEN PlusCh ELSE SpaceCh
        pad == IF prec > Len(num) THEN prec - Len(num) ELSE 0
        sh == pad + (IF signed THEN 1 ELSE 0)
        fch == IF prec > 0 /\ "zero" \in flags THEN ZeroCh ELSE SpaceCh
        moved == [i \in 1 .. sh |-> fch] \o num
    IN  IF signed THEN [moved EXCEPT ![SignAt(flags, sh)] = sch] ELSE moved

\* What the digits of a string are worth.
Worth(s) ==
    LET sum[k \in 0 .. Len(s)] == IF k = 0 THEN 0 ELSE 10 * sum[k - 1] + s[k] - ZeroCh
    IN  sum[Len(s)]

\* atoi: the first character is taken for a digit whatever it is.
atoi(s) ==
    LET neg == s # <<>> /\ s[1] = MinusCh
        body == IF neg THEN Tail(s) ELSE s
    IN  IF \E i \in 2 .. Len(body) : ~IsDigit(body[i]) THEN 0
        ELSE IF neg THEN -Worth(body) ELSE Worth(body)

----------------------------------------------------------------------------
\* parse_cmdline.  The string is cut in place by zeros: at(c, i) is
\* cmdline_str[i], counted from 1, with a zero behind the end.
At(str, i) == IF i <= Len(str) THEN str[i] ELSE 0
CString(str, i) ==
    LET stop == CHOOSE j \in i .. Len(str) + 1 : At(str, j) = 0 /\ \A k \in i .. j - 1 : At(str, k) # 0
    IN  SubSeq(str, i, stop - 1)
PutZero(str, i) == IF i <= Len(str) THEN [str EXCEPT ![i] = 0] ELSE str

\* The first position from i on where one of the characters is, or the end.
UpTo(str, i, chars) ==
    CHOOSE j \in i .. Len(str) + 1 :
        /\ j = Len(str) + 1 \/ At(str, j) \in chars
        /\ \A k \in i .. j - 1 : At(str, k) \notin chars

PastSpaces(str, i) ==
    CHOOSE j \in i .. Len(str) + 1 :
        At(str, j) # SpaceCh /\ \A k \in i .. j - 1 : At(str, k) = SpaceCh

\* Mutant: only the last word can have a key.
NextArg_Same(p) == p

\* p++ when a word is over.
NextArg(p) == p + 1

\* A turn of the loop.  Its state: the string, the position, the argument
\* that is filled, the start of the word and of the value, and cmdline_args
\* as functions from argument to position, 0 for NULL.  No line bounds the
\* argument: those from CMDLINE_MAX_ARGS on are in the memory behind the array.
ParseTurn(c) ==
    IF c.i > Len(c.str) THEN c
    ELSE IF At(c.str, c.i) = EqualsCh
    THEN LET stop == UpTo(c.str, c.i + 1, {SpaceCh, 0})
         IN  [c EXCEPT !.str = PutZero(PutZero(@, c.i), stop), !.keys[c.p] = c.key,
                       !.i = stop, !.value = c.i + 1, !.values[c.p] = c.i + 1]
    ELSE IF At(c.str, c.i) \in {SpaceCh, 0}
    THEN LET next == PastSpaces(c.str, c.i + 1)
         IN  [c EXCEPT !.str = PutZero(@, c.i), !.values[c.p] = c.value, !.key = next,
                       !.p = NextArg(@), !.i = next + 1]
    ELSE [c EXCEPT !.i = @ + 1]

\* Every turn but those behind the end moves on.
parse_cmdline(line) ==
    LET start == PastSpaces(line, 1)
        none == [a \in 0 .. Len(line) |-> 0]
        turn[k \in 0 .. Len(line)] ==
          IF k = 0 THEN [str |-> line, i |-> start, p |-> 0, key |-> start, value |-> start,
                         keys |-> none, values |-> none]
          ELSE ParseTurn(turn[k - 1])
    IN  turn[Len(line)]

\* The value of the first argument with the key (strcmp), or NoValue.
NoValue == <<0>>
cmdline_get_value(c, key) ==
    LET hits == {a \in 0 .. c.p : c.keys[a] # 0 /\ CString(c.str, c.keys[a]) = key}
    IN  IF hits = {} THEN NoValue
        ELSE CString(c.str, c.values[CHOOSE a \in hits : \A b \in hits : a <= b])

\* kernel_main_thread copies the argument root=major:minor to rdev_str, without
\* an argument the string at address 0, and cuts it at its first colon; without
\* one, here <<>>, it panics.  A string that does not fit overwrites what lies
\* behind rdev_str on the stack, with any outcome.
RdevSize == 10
Overrun == <<0>>
RootDevice(value, low) ==
    LET rstr == IF value = NoValue THEN low ELSE value
        colons == {i \in DOMAIN rstr : rstr[i] = ColonCh}
        i == CHOOSE k \in colons : \A j \in colons : k <= j
    IN  IF Len(rstr) >= RdevSize THEN Overrun
        ELSE IF colons = {} THEN <<>>
        ELSE <<atoi(SubSeq(rstr, 1, i - 1)), atoi(SubSeq(rstr, i + 1, Len(rstr)))>>

----------------------------------------------------------------------------
\* How many characters of s, from the first on, are in accept.
strspn(s, accept) ==
    CHOOSE n \in 0 .. Len(s) : /\ \A i \in 1 .. n : s[i] \in accept
                               /\ n < Len(s) => s[n + 1] \notin accept

\* How many are not in reject.
strcspn(s, reject) ==
    CHOOSE n \in 0 .. Len(s) : /\ \A i \in 1 .. n : s[i] \notin reject
                               /\ n < Len(s) => s[n + 1] \in reject

\* strtok_r: the token, <<>> for NULL, and the rest that is saved.
strtok_r(s, delim) ==
    LET from == SubSeq(s, strspn(s, delim) + 1, Len(s))
        len == strcspn(from, delim)
    IN  [tok |-> SubSeq(from, 1, len), save |-> SubSeq(from, len + 2, Len(from))]

\* A call, and the tokens that calls return until the string is used up.
TokenTurn(st, delim) ==
    LET r == strtok_r(st.save, delim)
    IN  [toks |-> IF r.tok = <<>> THEN st.toks ELSE Append(st.toks, r.tok), save |-> r.save]

Tokens(s, delim) ==
    LET turn[k \in 0 .. Len(s)] ==
          IF k = 0 THEN [toks |-> <<>>, save |-> s] ELSE TokenTurn(turn[k - 1], delim)
    IN  turn[Len(s)].toks

----------------------------------------------------------------------------
\* The words of a string, taken from the definition of a word: where they
\* start, and where the one that starts at i ends.
Starts(s, delim) == {i \in DOMAIN s : s[i] \notin delim /\ (i > 1 => s[i - 1] \in delim)}
EndOf(s, delim, i) ==
    CHOOSE j \in i .. Len(s) : /\ \A k \in i .. j : s[k] \notin delim
                               /\ j < Len(s) => s[j + 1] \in delim
WordAt(s, delim, i) == SubSeq(s, i, EndOf(s, delim, i))

\* A number that was written (printf.c:56) is read back by atoi
\* (stdlib.c:28), with leading zeros, and with its sign when it is negative and
\* the plus flag asks for one; atoi does not know "+".
TextNumbers ==
    tcase.kind = "number" =>
        LET text == numtostr(tcase.flags, tcase.value, 10, tcase.prec)
        IN  IF "plus" \in tcase.flags
            THEN tcase.value < 0 /\ ("zero" \in tcase.flags \/ tcase.prec <= Len(Digits(-tcase.value, 10)))
                   => atoi(text) = tcase.value
            ELSE tcase.value >= 0 /\ ("zero" \in tcase.flags \/ tcase.prec = 0)
                   => atoi(text) = tcase.value

\* A word gives a value to the key if it begins with the key and "="; the
\* line says what its first such word gives.
Gives(w, key) ==
    Len(w) > Len(key) /\ SubSeq(w, 1, Len(key)) = key /\ w[Len(key) + 1] = EqualsCh

Said(line, key) ==
    LET word(i) == WordAt(line, {SpaceCh}, i)
        given == {i \in Starts(line, {SpaceCh}) : Gives(word(i), key)}
        w == word(CHOOSE i \in given : \A j \in given : i <= j)
    IN  IF given = {} THEN NoValue ELSE SubSeq(w, Len(key) + 2, Len(w))

\* With fewer words than cmdline_args has room for, cmdline_get_value
\* (cmdline.c:104) gives what the first word "key=value" of the command line
\* says, among words without a key, repeated keys, values with "=" in them and
\* any number of spaces, and every argument stored or read is in the array;
\* kernel_main_thread takes the root device and init from it.
TextCmdline ==
    tcase.kind = "cmdline" /\ Cardinality(Starts(tcase.line, {SpaceCh})) < CMDLINE_MAX_ARGS =>
        LET c == parse_cmdline(tcase.line)
        IN  /\ c.p < CMDLINE_MAX_ARGS
            /\ \A key \in tcase.keys : cmdline_get_value(c, key) = Said(tcase.line, key)

\* The root device that is mounted (kernel.c:146) is the one whose numbers
\* were put on the command line, and a word without a colon is refused, for
\* texts that fit into rdev_str.
RootText(n) == numtostr({}, n, 10, 0)
TextRoot ==
    tcase.kind = "root" =>
        LET named == RootText(tcase.major) \o <<ColonCh>> \o RootText(tcase.minor)
        IN  /\ Len(named) < RdevSize =>
                 RootDevice(named, tcase.low) = <<tcase.major, tcase.minor>>
            /\ Len(tcase.word) < RdevSize => RootDevice(tcase.word, tcase.low) = <<>>

\* strtok_r (string.c:156) returns the words of a string one by one.
TextTokens ==
    tcase.kind = "token" =>
        LET toks == Tokens(tcase.s, tcase.delim)
            starts == Starts(tcase.s, tcase.delim)
        IN  /\ Len(toks) = Cardinality(starts)
            /\ \A i \in starts :
                 toks[Cardinality({j \in starts : j <= i})] = WordAt(tcase.s, tcase.delim, i)

\* Numbers, the command line, the root device and tokens are what their texts
\* say (printf.c:56; cmdline.c:45; kernel.c:142; string.c:160).
TextRight == TextNumbers /\ TextCmdline /\ TextRoot /\ TextTokens
=============================================================================
