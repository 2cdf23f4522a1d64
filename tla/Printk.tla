------------------------------- MODULE Printk -------------------------------
(***************************************************************************)
(* The formatted output of toyos (Library/libc/printk.cpp, vsprintf.cpp).  *)
(* A caller prints "a", one directive d and a %d that shows whether format *)
(* and arguments are still in step.  The format is what C's grammar makes  *)
(* of d; vsprintf parses it character by character.  Characters are        *)
(* strings of length one.  What is written to buf is a sequence of pieces: *)
(* a character of the format, or a conversion with what the parser made of *)
(* its directive.  The text of a conversion (number, the copy loops of %c  *)
(* and %s, the length that %n stores) is left out.                         *)
(***************************************************************************)
EXTENDS Integers, Sequences, SequencesExt

CONSTANTS
    Conversions,    \* conversion characters the caller uses
    Qualifiers      \* length modifiers, <<>> for none

ASSUME PrintkConstants == Qualifiers \subseteq Seq({"h", "l", "L"})

NUL == "NUL"
FlagChars == <<"-", "+", " ", "#", "0">>
DigitChars == <<"0", "1", "2", "3", "4", "5", "6", "7", "8", "9">>

-----------------------------------------------------------------------------
(* The directives: their text, and what a field width and a precision      *)
(* mean, -1 for none.  "*" takes the value from an argument.               *)
Widths == { [text |-> <<>>, is |-> -1], [text |-> <<"4">>, is |-> 4],
            [text |-> <<"1", "2">>, is |-> 12], [text |-> <<"*">>, is |-> -3] }
Precisions == { [text |-> <<>>, is |-> -1], [text |-> <<".">>, is |-> 0],
                [text |-> <<".", "3">>, is |-> 3], [text |-> <<".", "*">>, is |-> 2] }

(* An argument: the place in the format that it was passed for, and its    *)
(* value when it is read as an int.                                        *)
Arg(for, v) == [for |-> for, v |-> v]

Takes(conv) == conv \in {"c", "s", "o", "p", "x", "X", "d", "i", "u", "n"}

VARIABLES
    d,              \* the directive
    fmt,            \* the format
    args,           \* the arguments not yet taken
    pc, pos,        \* position in vsprintf or printk, and in fmt
    flags, field_width, precision,
    out             \* the pieces written to buf

vars == <<d, fmt, args, pc, pos, flags, field_width, precision, out>>
caller == <<d, fmt>>

Starred == "*" \in ToSet(d.width.text) \union ToSet(d.precision.text)
AtEnd == d.conv = NUL           \* the format ends within the directive

Init ==
    /\ d \in [flags : SUBSET ToSet(FlagChars), width : Widths, precision : Precisions,
              qualifier : Qualifiers, conv : Conversions]
    /\ fmt = <<"a", "%">> \o SetToSeq(d.flags) \o d.width.text
             \o d.precision.text \o d.qualifier \o (IF AtEnd THEN <<>> ELSE <<d.conv, "%", "d">>)
    /\ args = (IF d.width.text = <<"*">> THEN <<Arg("width", d.width.is)>> ELSE <<>>)
              \o (IF d.precision.text = <<".", "*">> THEN <<Arg("precision", d.precision.is)>> ELSE <<>>)
              \o (IF Takes(d.conv) THEN <<Arg("directive", 0)>> ELSE <<>>) \o <<Arg("last", 7)>>
    /\ pc = "text" /\ pos = 1 /\ flags = {} /\ field_width = -1 /\ precision = -1
    /\ out = <<>>

-----------------------------------------------------------------------------
Char(p) == IF p <= Len(fmt) THEN fmt[p] ELSE NUL
IsDigit(c) == c \in ToSet(DigitChars)
DigitOf(c) == (CHOOSE i \in 1 .. 10 : DigitChars[i] = c) - 1

(* skip_atoi: the number that starts at p, and the place after it.         *)
AfterDigits(p) == CHOOSE q \in p .. Len(fmt) + 1 :
                      ~IsDigit(Char(q)) /\ \A r \in p .. q - 1 : IsDigit(Char(r))
SkipAtoiLast(p) == DigitOf(Char(AfterDigits(p) - 1))    \* mutant: i = digit
SkipAtoi(p) == FoldLeft(LAMBDA n, c : n * 10 + DigitOf(c), 0, SubSeq(fmt, p, AfterDigits(p) - 1))

(* A character that is copied, and a conversion of an argument.            *)
Copied(c) == [char |-> c]
Base(c) == CASE c = "o" -> 8 [] c \in {"p", "x", "X"} -> 16 [] c \in {"d", "i", "u"} -> 10 [] OTHER -> 0
Converted(c, for, fl, width, prec) ==
    LET default == c = "p" /\ width = -1 IN    \* a pointer without a width
    [conv |-> c, base |-> Base(c), arg |-> for,
     width |-> IF default THEN 8 ELSE width, precision |-> prec,
     flags |-> fl \union (IF default THEN {"0"} ELSE {}) \union (IF c = "x" THEN {"small"} ELSE {})
                  \union (IF c \in {"d", "i"} THEN {"sign"} ELSE {})]

-----------------------------------------------------------------------------
Ordinary ==
    /\ pc = "text" /\ Char(pos) \notin {NUL, "%"}
    /\ out' = Append(out, Copied(Char(pos))) /\ pos' = pos + 1
    /\ UNCHANGED <<caller, args, pc, flags, field_width, precision>>

Percent ==
    /\ pc = "text" /\ Char(pos) = "%"
    /\ pc' = "repeat" /\ flags' = {}
    /\ UNCHANGED <<caller, args, pos, field_width, precision, out>>

Repeat ==               \* repeat: ++fmt, then a flag or the width
    /\ pc = "repeat"
    /\ pos' = pos + 1
    /\ IF Char(pos + 1) \in ToSet(FlagChars)
       THEN flags' = flags \union {Char(pos + 1)} /\ UNCHANGED pc
       ELSE pc' = "width" /\ UNCHANGED flags
    /\ UNCHANGED <<caller, args, field_width, precision, out>>

FieldWidth ==           \* "*" is not skipped
    LET w == Head(args).v IN
    /\ pc = "width"
    /\ pc' = "precision"
    /\ CASE IsDigit(Char(pos)) ->
              field_width' = SkipAtoi(pos) /\ pos' = AfterDigits(pos) /\ UNCHANGED <<flags, args>>
         [] Char(pos) = "*" ->
              /\ field_width' = IF w < 0 THEN -w ELSE w
              /\ flags' = IF w < 0 THEN flags \union {"-"} ELSE flags
              /\ args' = Tail(args) /\ UNCHANGED pos
         [] OTHER -> field_width' = -1 /\ UNCHANGED <<pos, flags, args>>
    /\ UNCHANGED <<caller, precision, out>>

Precision ==            \* neither is this one
    LET p == pos + 1 IN
    /\ pc = "precision"
    /\ pc' = "qualifier"
    /\ CASE Char(pos) # "." -> precision' = -1 /\ UNCHANGED <<pos, args>>
         [] Char(pos) = "." /\ IsDigit(Char(p)) ->
              precision' = SkipAtoi(p) /\ pos' = AfterDigits(p) /\ UNCHANGED args
         [] Char(pos) = "." /\ Char(p) = "*" ->
              /\ precision' = IF Head(args).v < 0 THEN 0 ELSE Head(args).v
              /\ pos' = p /\ args' = Tail(args)
         [] OTHER -> precision' = 0 /\ pos' = p /\ UNCHANGED args
    /\ UNCHANGED <<caller, flags, field_width, out>>

Qualifier ==
    /\ pc = "qualifier"
    /\ pc' = "convert"
    /\ pos' = IF Char(pos) \in {"h", "l", "L"} THEN pos + 1 ELSE pos
    /\ UNCHANGED <<caller, args, flags, field_width, precision, out>>

Convert ==              \* and ++fmt of the for loop
    LET c == Char(pos) IN
    /\ pc = "convert" /\ Takes(c)
    /\ out' = Append(out, Converted(c, Head(args).for, flags, field_width, precision))
    /\ args' = Tail(args)
    /\ pos' = pos + 1 /\ pc' = "text"
    /\ UNCHANGED <<caller, flags, field_width, precision>>

UnknownPastEnd ==       \* mutant: no --fmt
    LET c == Char(pos) IN
    /\ pc = "convert" /\ ~Takes(c)
    /\ out' = out \o (IF c = "%" THEN <<>> ELSE <<Copied("%")>>) \o (IF c = NUL THEN <<>> ELSE <<Copied(c)>>)
    /\ pos' = pos + 1 /\ pc' = "text"
    /\ UNCHANGED <<caller, args, flags, field_width, precision>>

Unknown ==              \* default: at the end of the format, --fmt
    LET c == Char(pos) IN
    /\ pc = "convert" /\ ~Takes(c)
    /\ out' = out \o (IF c = "%" THEN <<>> ELSE <<Copied("%")>>) \o (IF c = NUL THEN <<>> ELSE <<Copied(c)>>)
    /\ pos' = IF c = NUL THEN pos ELSE pos + 1
    /\ pc' = "text"
    /\ UNCHANGED <<caller, args, flags, field_width, precision>>

(* vsprintf returns and printk sends what is in buf.                       *)
Send ==
    /\ pc = "text" /\ Char(pos) = NUL
    /\ pc' = "done"
    /\ UNCHANGED <<caller, args, pos, flags, field_width, precision, out>>

Done == pc = "done" /\ UNCHANGED vars

Next == Ordinary \/ Percent \/ Repeat \/ FieldWidth \/ Precision \/ Qualifier \/ Convert
        \/ Unknown \/ Send \/ Done

Spec == Init /\ [][Next]_vars

-----------------------------------------------------------------------------
(* The parser reads back the directive that the format spells, whichever   *)
(* of its parts are there: its flags, its width and precision as numbers   *)
(* of several digits, its conversion past a length modifier, each with the *)
(* argument that was passed for it, so that the %d after it gets its own.  *)
(* A directive with a "*" is excepted: the comment at vsprintf.cpp:240     *)
(* says that a ++fmt is missing there, and it is.                          *)
DirectiveRead ==
    pc = "done" /\ ~Starred =>
        out = <<Copied("a")>>
              \o (CASE Takes(d.conv) ->
                         <<Converted(d.conv, "directive", d.flags, d.width.is, d.precision.is)>>
                    [] d.conv \in {"%", NUL} -> <<Copied("%")>>
                    [] OTHER -> <<Copied("%"), Copied(d.conv)>>)
              \o (IF AtEnd THEN <<>> ELSE <<Converted("d", "last", {}, -1, -1)>>)

(* vsprintf never reads beyond the null character that ends the format,    *)
(* wherever within a directive the format ends.                            *)
ReadsInFormat == pos <= Len(fmt) + 1
=============================================================================
