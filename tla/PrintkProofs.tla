---------------------------- MODULE PrintkProofs ----------------------------
(***************************************************************************)
(* vsprintf stays within its format, whatever the format is.               *)
(***************************************************************************)
EXTENDS Printk, FiniteSetTheorems, WellFoundedInduction, TLAPS

(* The characters of a format.                                             *)
Flags == {"-", "+", " ", "#", "0"}
Alphabet == Flags \cup {"a", "%", "d", "1", "2", "3", "4", ".", "*", "h", "l", "L"} \cup Conversions

(* Where the parser may be at each label.  Before ++fmt of repeat: it is   *)
(* on a character.                                                         *)
ParseInv ==
    /\ fmt \in Seq(Alphabet) /\ pos \in Nat \ {0}
    /\ pos <= Len(fmt) + 1
    /\ pc = "repeat" => pos <= Len(fmt)

(* Sequences of up to three characters are sequences.                      *)
LEMMA ShortSeqs ==
    ASSUME NEW S, NEW x \in S, NEW y \in S, NEW z \in S
    PROVE  {<<>>, <<x>>, <<x, y>>, <<x, y, z>>} \subseteq Seq(S)
OBVIOUS

(* A larger alphabet has the sequences of a smaller one.                   *)
LEMMA SeqMonotone ==
    ASSUME NEW S, NEW T, S \subseteq T
    PROVE  Seq(S) \subseteq Seq(T)
OBVIOUS

(* The flags, and that the null is none.                                   *)
LEMMA FlagSet == ToSet(FlagChars) \subseteq Flags /\ NUL \notin Flags
<1>1. FlagChars \in Seq(Flags) BY DEF FlagChars, Flags
<1>2. NUL \notin Flags BY DEF NUL, Flags
<1> QED BY <1>1, <1>2 DEF ToSet

(* The null is no digit and no conversion that takes an argument.          *)
LEMMA NulIsNone == ~IsDigit(NUL) /\ ~Takes(NUL)
<1>1. DOMAIN DigitChars = 1 .. 10 BY DEF DigitChars
<1>2. \A i \in 1 .. 10 : DigitChars[i] # NUL BY DEF DigitChars, NUL
<1>3. ~IsDigit(NUL) BY <1>1, <1>2 DEF IsDigit, ToSet
<1>4. ~Takes(NUL) BY DEF Takes, NUL
<1> QED BY <1>3, <1>4

(* A place with a character other than the null is in the format.          *)
LEMMA InFormat ==
    ASSUME fmt \in Seq(Alphabet), NEW p \in Nat \ {0}, Char(p) # NUL
    PROVE  p <= Len(fmt)
BY DEF Char

(* skip_atoi ends, at the null of the format at the latest.                *)
LEMMA DigitsEnd ==
    ASSUME fmt \in Seq(Alphabet), NEW p \in Nat \ {0}, p <= Len(fmt) + 1
    PROVE  AfterDigits(p) \in p .. Len(fmt) + 1
<1> DEFINE T == {q \in p .. Len(fmt) + 1 : ~IsDigit(Char(q))}
<1>a. Len(fmt) \in Nat OBVIOUS
<1>1. Len(fmt) + 1 \in T
  <2>1. Char(Len(fmt) + 1) = NUL BY <1>a DEF Char
  <2> QED BY <1>a, <2>1, NulIsNone
<1>2. T \subseteq Nat /\ T # {} BY <1>a, <1>1
<1>3. PICK q \in T : \A r \in T : ~(<<r, q>> \in OpToRel(<, Nat))
  BY <1>2, WFMin, NatLessThanWellFounded
<1>4. ASSUME NEW r \in T PROVE q <= r
  <2>1. q \in Nat /\ r \in Nat BY <1>2
  <2>2. ~(<<r, q>> \in {s \in Nat \X Nat : s[1] < s[2]}) BY <1>3, Zenon DEF OpToRel
  <2> HIDE DEF T
  <2> QED BY <2>1, <2>2
<1>5. q \in p .. Len(fmt) + 1 /\ ~IsDigit(Char(q)) OBVIOUS
<1>6. \A r \in p .. q - 1 : IsDigit(Char(r)) BY <1>a, <1>4, <1>5
<1> QED BY <1>5, <1>6 DEF AfterDigits

(* The caller's format is a sequence of characters, with the parser at its *)
(* beginning.                                                              *)
LEMMA FormatType == Init => ParseInv
<1> SUFFICES ASSUME Init PROVE ParseInv OBVIOUS
<1>1. d \in [flags : SUBSET ToSet(FlagChars), width : Widths, precision : Precisions,
              qualifier : Qualifiers, conv : Conversions] BY DEF Init
<1>2. d.flags \subseteq Flags BY <1>1, FlagSet
<1>3. SetToSeq(d.flags) \in Seq(Alphabet)
  <2>1. IsFiniteSet(d.flags)
    <3>1. IsFiniteSet(Flags)
      <4>1. IsFiniteSet({"-"}) /\ IsFiniteSet({"+"}) /\ IsFiniteSet({" "}) /\ IsFiniteSet({"#"})
            /\ IsFiniteSet({"0"}) BY FS_Singleton
      <4>2. Flags = {"-"} \cup {"+"} \cup {" "} \cup {"#"} \cup {"0"} BY DEF Flags
      <4> QED BY <4>1, <4>2, FS_Union
    <3> QED BY <1>2, <3>1, FS_Subset
  <2>2. PICK n \in Nat : ExistsBijection(1 .. n, d.flags) BY <2>1, FS_NatBijection
  <2>3. Cardinality(d.flags) = n BY <2>2, FS_CountingElements
  <2>4. \E f \in [1 .. n -> d.flags] : IsInjective(f)
        BY <2>2 DEF ExistsBijection, Bijection, Injection, IsInjective
  <2>5. SetToSeq(d.flags) \in [1 .. n -> d.flags] BY <2>3, <2>4 DEF SetToSeq
  <2>6. SetToSeq(d.flags) \in [1 .. n -> Alphabet] BY <1>2, <2>5 DEF Alphabet
  <2> QED BY <2>6
<1>4. {"a", "%", "d", "1", "2", "3", "4", ".", "*", "h", "l", "L"} \subseteq Alphabet
      BY DEF Alphabet
<1>5. d.width.text \in Seq(Alphabet)
  <2>1. d.width.text \in {<<>>, <<"4">>, <<"1", "2">>, <<"*">>} BY <1>1 DEF Widths
  <2> QED BY <1>4, <2>1, ShortSeqs
<1>6. d.precision.text \in Seq(Alphabet)
  <2>1. d.precision.text \in {<<>>, <<".">>, <<".", "3">>, <<".", "*">>} BY <1>1 DEF Precisions
  <2> QED BY <1>4, <2>1, ShortSeqs
<1>7. d.qualifier \in Seq(Alphabet)
  <2>1. d.qualifier \in Seq({"h", "l", "L"}) BY <1>1, PrintkConstants
  <2>2. {"h", "l", "L"} \subseteq Alphabet BY <1>4
  <2> QED BY <2>1, <2>2, SeqMonotone
<1>8. (IF AtEnd THEN <<>> ELSE <<d.conv, "%", "d">>) \in Seq(Alphabet)
  <2>1. d.conv \in Alphabet BY <1>1 DEF Alphabet
  <2>2. <<d.conv, "%", "d">> \in Seq(Alphabet) BY <1>4, <2>1, ShortSeqs
  <2>3. <<>> \in Seq(Alphabet) OBVIOUS
  <2> QED BY <2>2, <2>3
<1>9. <<"a", "%">> \in Seq(Alphabet) BY <1>4, ShortSeqs
<1>10. ASSUME NEW e, e \in Seq(Alphabet)
       PROVE  <<"a", "%">> \o SetToSeq(d.flags) \o d.width.text \o d.precision.text
              \o d.qualifier \o e \in Seq(Alphabet)
  BY <1>3, <1>5, <1>6, <1>7, <1>9, <1>10
<1>11. fmt \in Seq(Alphabet) BY <1>8, <1>10 DEF Init
<1>12. pos = 1 /\ pc = "text" BY DEF Init
<1> QED BY <1>11, <1>12 DEF ParseInv

(* Every step of the parser keeps to the format, one step per action.      *)
LEMMA StepHolds == ParseInv /\ [Next]_vars => ParseInv'
<1> SUFFICES ASSUME ParseInv, [Next]_vars PROVE ParseInv' OBVIOUS
<1>1. fmt \in Seq(Alphabet) /\ pos \in Nat \ {0} /\ pos <= Len(fmt) + 1 /\ Len(fmt) \in Nat
      BY DEF ParseInv
<1>2. NUL \notin ToSet(FlagChars) \cup {"%", ".", "h", "l", "L"} /\ ~IsDigit(NUL) /\ ~Takes(NUL)
  <2>1. NUL \notin {"%", ".", "h", "l", "L"} BY DEF NUL
  <2> QED BY <2>1, FlagSet, NulIsNone
<1>3. CASE Ordinary
  BY <1>1, <1>3, InFormat DEF Ordinary, caller, ParseInv
<1>4. CASE Percent
  BY <1>1, <1>2, <1>4, InFormat DEF Percent, caller, ParseInv
<1>5. CASE Repeat
  <2>1. pos <= Len(fmt) /\ pos + 1 \in Nat \ {0} BY <1>1, <1>5 DEF Repeat, ParseInv
  <2>2. pos' = pos + 1 /\ fmt' = fmt BY <1>5 DEF Repeat, caller
  <2>3. CASE Char(pos + 1) \in ToSet(FlagChars)
    <3>1. pos + 1 <= Len(fmt) BY <1>1, <1>2, <2>1, <2>3, InFormat
    <3> QED BY <1>1, <2>1, <2>2, <3>1 DEF ParseInv
  <2>4. CASE ~(Char(pos + 1) \in ToSet(FlagChars))
    <3>1. pc' = "width" BY <1>5, <2>4 DEF Repeat
    <3> QED BY <1>1, <2>1, <2>2, <3>1 DEF ParseInv
  <2> QED BY <2>3, <2>4
<1>6. CASE FieldWidth
  <2>1. fmt' = fmt /\ pc' = "precision" BY <1>6 DEF FieldWidth, caller
  <2>2. pos' = pos \/ pos' = AfterDigits(pos) BY <1>6 DEF FieldWidth
  <2> QED BY <1>1, <2>1, <2>2, DigitsEnd DEF ParseInv
<1>7. CASE Precision
  <2>1. fmt' = fmt /\ pc' = "qualifier" BY <1>7 DEF Precision, caller
  <2>2. CASE Char(pos) = "."
    <3>1. pos <= Len(fmt) BY <1>1, <1>2, <2>2, InFormat
    <3>2. pos + 1 \in Nat \ {0} /\ pos + 1 <= Len(fmt) + 1 BY <1>1, <3>1
    <3>3. pos' = pos + 1 \/ pos' = AfterDigits(pos + 1) BY <1>7, <2>2 DEF Precision
    <3> QED BY <1>1, <2>1, <3>2, <3>3, DigitsEnd DEF ParseInv
  <2>3. CASE Char(pos) # "."
    <3>1. pos' = pos BY <1>7, <2>3 DEF Precision
    <3> QED BY <1>1, <2>1, <3>1 DEF ParseInv
  <2> QED BY <2>2, <2>3
<1>8. CASE Qualifier
  <2>1. fmt' = fmt /\ pc' = "convert" BY <1>8 DEF Qualifier, caller
  <2>2. CASE Char(pos) \in {"h", "l", "L"}
    <3>1. Char(pos) # NUL BY <1>2, <2>2
    <3>2. pos' = pos + 1 BY <1>8, <2>2 DEF Qualifier
    <3> QED BY <1>1, <2>1, <3>1, <3>2, InFormat DEF ParseInv
  <2>3. CASE Char(pos) \notin {"h", "l", "L"}
    <3>1. pos' = pos BY <1>8, <2>3 DEF Qualifier
    <3> QED BY <1>1, <2>1, <3>1 DEF ParseInv
  <2> QED BY <2>2, <2>3
<1>9. CASE Convert
  <2>1. pos <= Len(fmt) BY <1>1, <1>2, <1>9, InFormat DEF Convert
  <2> QED BY <1>1, <1>9, <2>1 DEF Convert, caller, ParseInv
<1>10. CASE Unknown
  <2>1. fmt' = fmt /\ pc' = "text" BY <1>10 DEF Unknown, caller
  <2>2. pos' = IF Char(pos) = NUL THEN pos ELSE pos + 1 BY <1>10 DEF Unknown
  <2> QED BY <1>1, <2>1, <2>2, InFormat DEF ParseInv
<1>11. CASE Send
  BY <1>1, <1>11 DEF Send, caller, ParseInv
<1>12. CASE UNCHANGED vars
  BY <1>12 DEF vars, ParseInv
<1> QED BY <1>3, <1>4, <1>5, <1>6, <1>7, <1>8, <1>9, <1>10, <1>11, <1>12 DEF Next, Done

(* vsprintf never moves past the null character of its format              *)
(* (ReadsInFormat), for every set of conversions, length modifiers and     *)
(* arguments: each ++fmt follows the test of a character that is not null, *)
(* and the one for an unknown directive is taken back at the null.         *)
THEOREM ParserStaysInside == Spec => []ReadsInFormat
<1>1. ParseInv => ReadsInFormat BY DEF ParseInv, ReadsInFormat
<1> QED BY <1>1, FormatType, StepHolds, PTL DEF Spec
=============================================================================
