------------------------------ MODULE Console ------------------------------
(***************************************************************************)
(* The console of os-elephant (lib/kernel/print.S): put_char, put_str and  *)
(* put_int, port access by port access.  The cursor lives in two registers *)
(* of the video controller behind one index register, and put_int has one  *)
(* static buffer; both are shared by whatever code prints.  Level "main"   *)
(* is the kernel, level "intr" an interrupt handler (module Interrupts).   *)
(***************************************************************************)
EXTENDS Integers, Sequences, SequencesExt

CONSTANTS
    Cols, Rows,     \* the screen: 80 x 25
    ByteBase,       \* values of a byte: 256
    VideoCells,     \* cells of the video segment: 16384
    Digits,         \* hexadecimal digits of a number: 8
    BootCursors     \* where the boot programs may leave the cursor

Visible == Cols * Rows                  \* 2000
WordRange == ByteBase * ByteBase        \* values of bx
Half == WordRange \div 2

ASSUME ConsoleConstants ==
    /\ {Cols, Rows, ByteBase, VideoCells, Digits} \subseteq Nat \ {0}
    /\ Visible < VideoCells /\ VideoCells <= Half
    /\ BootCursors \subseteq 0 .. Visible - 1

VARIABLES
    screen,         \* [cells of the video segment -> characters]
    cursor,         \* [{"hi", "lo"} -> byte], registers 0x0e and 0x0f
    index,          \* which of them port 0x3d5 reaches
    put_int_buffer,
    frame           \* [levels -> the printing in progress]

consoleVars == <<screen, cursor, index, put_int_buffer, frame>>

Levels == {"main", "intr"}
Blank == " "
LF == "LF"          \* or CR, which put_char treats alike
BS == "BS"
HexDigit == <<"0", "1", "2", "3", "4", "5", "6", "7", "8", "9", "A", "B", "C", "D", "E", "F">>
Cursor == cursor.hi * ByteBase + cursor.lo

(* What is to be printed: a string (put_str, put_char) or a number.        *)
Str(text) == [kind |-> "str", text |-> text, num |-> 0]
Hex(n) == [kind |-> "int", text |-> <<>>, num |-> n]

(* job: what is printed now, then: what the caller prints after it; step   *)
(* and sel: the place in put_char or its caller, and whether the index     *)
(* register is written; ch, bx, num (eax), edi: registers; text: what      *)
(* put_str has not printed yet.  before: screen and cursor at the start,   *)
(* until something (hit) interrupted the print; guard: whether it began in *)
(* a section with interrupts disabled.                                     *)
NoPrint == [job |-> Str(<<>>), then |-> <<>>, step |-> "idle", sel |-> FALSE, ch |-> Blank,
            bx |-> 0, num |-> 0, edi |-> 0, text |-> <<>>,
            before |-> <<>>, hit |-> {}, guard |-> FALSE]

ConsoleInit ==
    /\ screen = [c \in 0 .. VideoCells - 1 |-> Blank]
    /\ \E c \in BootCursors : cursor = [hi |-> c \div ByteBase, lo |-> c % ByteBase]
    /\ index = "lo"
    /\ put_int_buffer = [i \in 0 .. Digits - 1 |-> Blank]
    /\ frame = [v \in Levels |-> NoPrint]

Printing(v) == frame[v].step # "idle"
At(v, step) == frame[v].step = step

-----------------------------------------------------------------------------
(* put_str and put_int, up to their calls of put_char.                     *)
Started(jobs, guard) ==
    LET j == Head(jobs) IN
    [NoPrint EXCEPT !.job = j, !.then = Tail(jobs), !.guard = guard,
                    !.step = IF j.kind = "int" THEN "fill" ELSE "next",
                    !.text = j.text, !.num = j.num, !.edi = Digits - 1,
                    !.before = <<screen, Cursor>>]

Start(v, jobs, guard) == frame' = [frame EXCEPT ![v] = Started(jobs, guard)]

PutChar(v, f, c) == frame' = [frame EXCEPT ![v] = [f EXCEPT !.ch = c, !.step = "get_hi"]]

FillDigit(v) ==         \* .16based_4bits: from the lowest digit on
    LET f == frame[v] IN
    /\ At(v, "fill")
    /\ put_int_buffer' = [put_int_buffer EXCEPT ![f.edi] = HexDigit[(f.num % 16) + 1]]
    /\ frame' = [frame EXCEPT ![v].num = f.num \div 16,
                              ![v].edi = IF f.edi = 0 THEN 0 ELSE f.edi - 1,
                              ![v].step = IF f.edi = 0 THEN "skip" ELSE "fill"]
    /\ UNCHANGED <<screen, cursor, index>>

SkipZeroUnbounded(v) == \* mutant: only the end of the zeros ends the loop
    LET f == frame[v] IN
    /\ At(v, "skip")
    /\ IF put_int_buffer[f.edi % Digits] = "0"
       THEN frame' = [frame EXCEPT ![v].edi = (@ + 1) % Digits]
       ELSE PutChar(v, f, put_int_buffer[f.edi])
    /\ UNCHANGED <<screen, cursor, index, put_int_buffer>>

SkipZero(v) ==          \* .skip_prefix_0
    LET f == frame[v] IN
    /\ At(v, "skip")
    /\ CASE f.edi = Digits -> PutChar(v, f, "0")                        \* .full0
         [] f.edi < Digits /\ put_int_buffer[f.edi] = "0" -> frame' = [frame EXCEPT ![v].edi = @ + 1]
         [] OTHER -> PutChar(v, f, put_int_buffer[f.edi])
    /\ UNCHANGED <<screen, cursor, index, put_int_buffer>>

(* After put_char: .goon of put_str, .put_each_num of put_int.             *)
LastPrinted(f) == IF f.job.kind = "str" THEN f.text = <<>> ELSE f.edi >= Digits

NextChar(v) ==
    LET f == frame[v] IN
    /\ At(v, "next") /\ ~LastPrinted(f)
    /\ IF f.job.kind = "str"
       THEN PutChar(v, [f EXCEPT !.text = Tail(@)], Head(f.text))
       ELSE PutChar(v, f, put_int_buffer[f.edi])
    /\ UNCHANGED <<screen, cursor, index, put_int_buffer>>

Finish(v) ==
    LET f == frame[v] IN
    /\ At(v, "next") /\ LastPrinted(f)
    /\ IF f.then # <<>> THEN Start(v, f.then, f.guard)
       ELSE frame' = [frame EXCEPT ![v] = NoPrint]
    /\ UNCHANGED <<screen, cursor, index, put_int_buffer>>

-----------------------------------------------------------------------------
(* put_char: two index and two data accesses to read the cursor, the write *)
(* to the video segment, and four accesses to set the cursor.              *)
Select(v) ==
    /\ frame[v].step \in {"get_hi", "get_lo", "set_hi", "set_lo"} /\ ~frame[v].sel
    /\ index' = IF frame[v].step \in {"get_hi", "set_hi"} THEN "hi" ELSE "lo"
    /\ frame' = [frame EXCEPT ![v].sel = TRUE]
    /\ UNCHANGED <<screen, cursor, put_int_buffer>>

GetCursor(v) ==
    /\ frame[v].step \in {"get_hi", "get_lo"} /\ frame[v].sel
    /\ frame' = [frame EXCEPT ![v].sel = FALSE,
                    ![v].bx = IF At(v, "get_hi") THEN cursor[index] * ByteBase ELSE @ + cursor[index],
                    ![v].step = IF At(v, "get_hi") THEN "get_lo" ELSE "write"]
    /\ UNCHANGED <<screen, cursor, index, put_int_buffer>>

SetCursor(v) ==         \* bh, then bl
    /\ frame[v].step \in {"set_hi", "set_lo"} /\ frame[v].sel
    /\ cursor' = [cursor EXCEPT ![index] = IF At(v, "set_hi") THEN frame[v].bx \div ByteBase
                                           ELSE frame[v].bx % ByteBase]
    /\ frame' = IF At(v, "set_hi") THEN [frame EXCEPT ![v].sel = FALSE, ![v].step = "set_lo"]
                ELSE [frame EXCEPT ![v].sel = FALSE, ![v].step = "next", ![v].bx = 0, ![v].ch = Blank,
                                   ![v].edi = IF frame[v].job.kind = "int" THEN @ + 1 ELSE @]
    /\ UNCHANGED <<screen, index, put_int_buffer>>

(* shl bx, 1 loses the top bit of the cursor; a cell beyond the limit of   *)
(* the video segment raises #GP.                                           *)
Cell(v) == (IF frame[v].ch = BS THEN frame[v].bx - 1 ELSE frame[v].bx) % Half
WriteFaults(v) == At(v, "write") /\ frame[v].ch # LF /\ Cell(v) >= VideoCells

(* cmp bx, 2000; jl compares signed 16-bit numbers.                        *)
OnScreen(bx) == bx < Visible \/ bx >= Half

Moved(v, bx) == [frame EXCEPT ![v].bx = bx, ![v].step = IF OnScreen(bx) THEN "set_hi" ELSE "roll"]
NewLineStays(bx) == bx + Cols           \* mutant: does not go to the start of the line
NewLine(bx) == ((bx - (bx % Cols)) + Cols) % WordRange

Write(v) ==
    LET bx == frame[v].bx  c == Cell(v) IN
    /\ At(v, "write") /\ ~WriteFaults(v)
    /\ screen' = CASE frame[v].ch = LF -> screen
                   [] frame[v].ch = BS -> [screen EXCEPT ![c] = Blank]
                   [] OTHER -> [screen EXCEPT ![c] = frame[v].ch]
    /\ frame' = CASE frame[v].ch = LF -> Moved(v, NewLine(bx))
                  [] frame[v].ch = BS -> [frame EXCEPT ![v].bx = c, ![v].step = "set_hi"]
                  [] OTHER -> Moved(v, IF OnScreen(c + 1) THEN c + 1 ELSE NewLine(c + 1))
    /\ UNCHANGED <<cursor, index, put_int_buffer>>

RollScreen(v) ==        \* .roll_screen
    /\ At(v, "roll")
    /\ screen' = [c \in DOMAIN screen |-> IF c < Visible - Cols THEN screen[c + Cols] ELSE screen[c]]
    /\ frame' = [frame EXCEPT ![v].step = "cls"]
    /\ UNCHANGED <<cursor, index, put_int_buffer>>

Cls(v) ==
    /\ At(v, "cls")
    /\ screen' = [c \in DOMAIN screen |-> IF c \in Visible - Cols .. Visible - 1 THEN Blank ELSE screen[c]]
    /\ frame' = [frame EXCEPT ![v].step = "set_hi", ![v].bx = Visible - Cols]
    /\ UNCHANGED <<cursor, index, put_int_buffer>>

PrintStep(v) ==
    \/ FillDigit(v) \/ SkipZero(v) \/ NextChar(v) \/ Finish(v)
    \/ Select(v) \/ GetCursor(v) \/ SetCursor(v)
    \/ Write(v) \/ RollScreen(v) \/ Cls(v)

-----------------------------------------------------------------------------
(* What a terminal of Rows lines does with a character: the reference.     *)
Scrolled(s) == [c \in DOMAIN s |-> IF c >= Visible THEN s[c]
                                   ELSE IF c + Cols < Visible THEN s[c + Cols] ELSE Blank]
Advanced(s, c) == IF c < Visible THEN <<s, c>> ELSE <<Scrolled(s), Visible - Cols>>
Typed(p, ch) ==
    CASE ch = LF -> Advanced(p[1], (p[2] \div Cols + 1) * Cols)
      [] ch = BS -> <<[p[1] EXCEPT ![p[2] - 1] = Blank], p[2] - 1>>
      [] OTHER -> Advanced([p[1] EXCEPT ![p[2]] = ch], p[2] + 1)

DigitAt(n, i) == (n \div 16 ^ i) % 16
Numeral(n) ==
    LET top == IF n = 0 THEN 0 ELSE CHOOSE i \in 0 .. Digits - 1 : n \in 16 ^ i .. 16 ^ (i + 1) - 1
    IN  [k \in 1 .. top + 1 |-> HexDigit[DigitAt(n, top + 1 - k) + 1]]
Characters(job) == IF job.kind = "str" THEN job.text ELSE Numeral(job.num)

(* A string or number that nothing interrupted, printed from a cursor on   *)
(* the screen, leaves the screen and the cursor as a terminal would: lines *)
(* wrap and end where they should, the screen scrolls by one line with the *)
(* last line blank, and a number appears without leading zeros (print.S    *)
(* put_str, put_char, put_int).                                            *)
PrintExact ==
    \A v \in Levels :
        LET f == frame[v] IN
        At(v, "next") /\ LastPrinted(f) /\ f.hit = {} /\ f.before[2] < Visible
        => <<screen, Cursor>> = FoldLeft(Typed, f.before, Characters(f.job))
=============================================================================
