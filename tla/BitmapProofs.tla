---------------------------- MODULE BitmapProofs ----------------------------
(***************************************************************************)
(* bitmap_scan for every length of the bitmap, every number of bits in a   *)
(* byte, every contents and every request: what it returns is free and it  *)
(* overlooks no run of the bitmap, it keeps the promise of its comment     *)
(* when the bit after the bitmap is taken, it panics only over a full      *)
(* bitmap, and its loops together do what AtomicScan does in one step.     *)
(***************************************************************************)
EXTENDS Bitmap, TLAPS

(* The loops' invariants.  While the byte and the bit loop run, everything *)
(* behind them is taken.                                                   *)
BytesInv == pc = "bytes" => \A i \in 0 .. Size : i < ByteStart(idx_byte) => bits[i] = 1

BitsInv ==
    pc = "bits" =>
        /\ idx_byte < ByteLen /\ idx_bit < ByteBits
        /\ \E j \in 0 .. ByteBits - 1 : j >= idx_bit /\ bits[ByteStart(idx_byte) + j] = 0
        /\ \A i \in 0 .. Size : i < ByteStart(idx_byte) + idx_bit => bits[i] = 1

(* In the run loop the last count bits are free, and a run that starts     *)
(* before them meets a taken bit.                                          *)
NoneBefore(n) ==
    \A s \in 0 .. Size : s < n => \E i \in 0 .. Size : s <= i /\ i < s + cnt /\ bits[i] = 1

SomeFree == \E i \in 0 .. Size - 1 : bits[i] = 0

RunInv ==
    pc = "run" =>
        /\ SomeFree
        /\ cnt > 1 /\ count < cnt /\ count <= next_bit
        /\ bit_left + next_bit = Size + 1
        /\ bit_idx_start = -1
        /\ \A i \in 0 .. Size : next_bit - count <= i /\ i < next_bit => bits[i] = 0
        /\ NoneBefore(next_bit - count)

(* The last bit that a scan tests: FoundOne returns a bit of the bitmap,   *)
(* the run loop goes on to the bit after it.                               *)
LastTested == IF cnt = 1 THEN Size - 1 ELSE Size

DoneInv ==
    pc = "done" =>
        /\ SomeFree
        /\ bit_idx_start # -1 =>
              /\ bit_idx_start + cnt - 1 <= LastTested
              /\ \A i \in 0 .. Size : bit_idx_start <= i /\ i < bit_idx_start + cnt => bits[i] = 0
              /\ NoneBefore(bit_idx_start)
        /\ bit_idx_start = -1 => cnt > 1 /\ NoneBefore(Size + 2 - cnt)

ScanInv == TypeOK /\ BytesInv /\ BitsInv /\ RunInv /\ DoneInv /\ PanicOnlyWhenFull

(* Where the bytes of the bitmap begin and end.                            *)
LEMMA ByteBounds ==
    ASSUME NEW i \in 0 .. ByteLen
    PROVE  /\ Size \in Nat /\ ByteStart(i) \in Nat
           /\ ByteStart(0) = 0 /\ ByteStart(ByteLen) = Size
           /\ ByteStart(i + 1) = ByteStart(i) + ByteBits
           /\ i < ByteLen => ByteStart(i) + ByteBits <= Size
           /\ ByteStart(i) <= Size
BY BitmapConstants, SMT DEF Size, ByteStart

(* The initial state: nothing is being scanned.                            *)
LEMMA ScanInit == Init => ScanInv
<1> SUFFICES ASSUME Init PROVE ScanInv
    OBVIOUS
<1>1. Size \in Nat
    BY BitmapConstants, SMT DEF Size
<1>2. TypeOK
    BY <1>1, BitmapConstants, SMT DEF Init, TypeOK
<1> QED
    BY <1>2 DEF Init, ScanInv, BytesInv, BitsInv, RunInv, DoneInv, PanicOnlyWhenFull

(* Every step keeps the loops' invariants.                                 *)
LEMMA ScanStep == ScanInv /\ [Next]_vars => ScanInv'
<1> SUFFICES ASSUME ScanInv, [Next]_vars PROVE ScanInv'
    OBVIOUS
<1> USE BitmapConstants
<1>0. Size \in Nat
    BY SMT DEF Size
<1>t. TypeOK
    BY DEF ScanInv
<1>1. CASE \E i \in 0 .. Size - 1, value \in {0, 1} : Set(i, value)
    <2>1. PICK i \in 0 .. Size - 1, value \in {0, 1} : Set(i, value)
        BY <1>1
    <2>2. TypeOK'
        BY <1>0, <1>t, <2>1, SMT DEF TypeOK, Set, locals
    <2> QED
        BY <2>1, <2>2 DEF Set, locals, ScanInv, BytesInv, BitsInv, RunInv, DoneInv, PanicOnlyWhenFull
<1>2. CASE \E c \in 1 .. MaxCnt : ScanStart(c)
    <2>1. PICK c \in 1 .. MaxCnt : ScanStart(c)
        BY <1>2
    <2>2. TypeOK'
        BY <1>0, <1>t, <2>1, SMT DEF TypeOK, ScanStart
    <2>3. BytesInv'
        BY <1>0, <2>1, ByteBounds, SMT DEF BytesInv, ScanStart
    <2> QED
        BY <2>1, <2>2, <2>3 DEF ScanStart, ScanInv, BitsInv, RunInv, DoneInv, PanicOnlyWhenFull
<1>3. CASE SkipByte
    <2> USE <1>3 DEF SkipByte
    <2>1. TypeOK'
        BY <1>0, <1>t, SMT DEF TypeOK
    <2>2. BytesInv'
        <3>1. /\ idx_byte \in 0 .. ByteLen /\ idx_byte' = idx_byte + 1
              /\ ByteStart(idx_byte + 1) = ByteStart(idx_byte) + ByteBits
              /\ ByteStart(idx_byte) \in Nat
            BY <1>t, ByteBounds DEF TypeOK
        <3>2. \A i \in 0 .. Size : i < ByteStart(idx_byte) => bits[i] = 1
            BY DEF ScanInv, BytesInv
        <3>3. ASSUME NEW i \in 0 .. Size, i < ByteStart(idx_byte) + ByteBits, ~(i < ByteStart(idx_byte))
              PROVE  bits[i] = 1
            <4>1. /\ i - ByteStart(idx_byte) \in 0 .. ByteBits - 1
                  /\ i = ByteStart(idx_byte) + (i - ByteStart(idx_byte))
                BY <1>0, <3>1, <3>3, SMT
            <4> QED
                BY <4>1 DEF ByteFull
        <3> QED
            BY <3>1, <3>2, <3>3 DEF BytesInv
    <2> QED
        BY <2>1, <2>2 DEF ScanInv, BitsInv, RunInv, DoneInv, PanicOnlyWhenFull
<1>4. CASE TakeByte
    <2> USE <1>4 DEF TakeByte
    <2>1. TypeOK'
        BY <1>0, <1>t, SMT DEF TypeOK
    <2>2. BitsInv'
        <3>1. idx_byte \in 0 .. ByteLen /\ ByteStart(idx_byte) \in Nat
            BY <1>t, ByteBounds DEF TypeOK
        <3>2. PICK j \in 0 .. ByteBits - 1 : bits[ByteStart(idx_byte) + j] # 1
            BY DEF ByteFull
        <3>3. ByteStart(idx_byte) + j \in 0 .. Size
            BY <1>0, <3>1, <3>2, ByteBounds, SMT
        <3>4. bits[ByteStart(idx_byte) + j] = 0
            BY <1>t, <3>2, <3>3 DEF TypeOK
        <3>5. \A i \in 0 .. Size : i < ByteStart(idx_byte) + 0 => bits[i] = 1
            BY <3>1, SMT DEF ScanInv, BytesInv
        <3> QED
            BY <3>1, <3>4, <3>5, SMT DEF BitsInv
    <2> QED
        BY <2>1, <2>2 DEF ScanInv, BytesInv, RunInv, DoneInv, PanicOnlyWhenFull
<1>5. CASE AssertFails
    <2> USE <1>5 DEF AssertFails, locals
    <2>1. TypeOK'
        BY <1>0, <1>t, SMT DEF TypeOK
    <2>2. PanicOnlyWhenFull'
        BY <1>0, ByteBounds, SMT DEF ScanInv, BytesInv, PanicOnlyWhenFull
    <2> QED
        BY <2>1, <2>2 DEF ScanInv, BytesInv, BitsInv, RunInv, DoneInv
<1>6. CASE SkipBit
    <2> USE <1>6 DEF SkipBit
    <2>1. BitsInv'
        <3>1. /\ idx_byte \in 0 .. ByteLen /\ ByteStart(idx_byte) \in Nat
              /\ ByteStart(idx_byte) + ByteBits <= Size /\ idx_bit \in 0 .. ByteBits
            BY <1>t, ByteBounds DEF TypeOK, ScanInv, BitsInv
        <3>2. PICK j \in 0 .. ByteBits - 1 : j >= idx_bit /\ bits[ByteStart(idx_byte) + j] = 0
            BY DEF ScanInv, BitsInv
        <3>3. j # idx_bit
            BY <3>2, SMT
        <3>4. \A i \in 0 .. Size : i < ByteStart(idx_byte) + idx_bit => bits[i] = 1
            BY DEF ScanInv, BitsInv
        <3>5. \A i \in 0 .. Size : i < ByteStart(idx_byte) + (idx_bit + 1) => bits[i] = 1
            <4>1. ASSUME NEW i \in 0 .. Size, i < ByteStart(idx_byte) + (idx_bit + 1),
                         ~(i < ByteStart(idx_byte) + idx_bit)
                  PROVE  i = ByteStart(idx_byte) + idx_bit
                BY <4>1, <3>1, <1>0, SMT
            <4> QED
                BY <3>4, <4>1
        <3> QED
            BY <3>1, <3>2, <3>3, <3>5, SMT DEF BitsInv, ScanInv
    <2>2. TypeOK'
        BY <1>0, <1>t, SMT DEF TypeOK, ScanInv, BitsInv
    <2> QED
        BY <2>1, <2>2 DEF ScanInv, BytesInv, RunInv, DoneInv, PanicOnlyWhenFull
<1>7. CASE FoundOne \/ RunBegin
    <2> DEFINE free == ByteStart(idx_byte) + idx_bit
    <2>1. /\ idx_byte \in 0 .. ByteLen /\ ByteStart(idx_byte) \in Nat
          /\ ByteStart(idx_byte) + ByteBits <= Size /\ idx_bit \in 0 .. ByteBits
          /\ idx_bit < ByteBits
        BY <1>7, <1>t, ByteBounds DEF TypeOK, ScanInv, BitsInv, FoundOne, RunBegin
    <2>2. free \in 0 .. Size - 1
        BY <1>0, <2>1, SMT
    <2>3. bits[free] = 0 /\ \A i \in 0 .. Size : i < free => bits[i] = 1
        BY <1>7 DEF ScanInv, BitsInv, FoundOne, RunBegin
    <2>4. cnt \in Nat /\ cnt >= 1
        BY <1>t, SMT DEF TypeOK
    <2>5. NoneBefore(free)
        BY <1>0, <2>2, <2>3, <2>4, SMT DEF NoneBefore
    <2>8. SomeFree
        BY <2>2, <2>3 DEF SomeFree
    <2> HIDE DEF free
    <2>6. CASE FoundOne
        <3>1. /\ bit_idx_start' = free /\ pc' = "done" /\ cnt = 1
              /\ UNCHANGED <<bits, cnt, idx_byte, idx_bit, next_bit, bit_left, count>>
            BY <2>6 DEF FoundOne, free
        <3>2. TypeOK'
            BY <1>0, <1>t, <2>2, <3>1, SMT DEF TypeOK
        <3>3. NoneBefore(bit_idx_start)' /\ SomeFree'
            BY <2>5, <2>8, <3>1 DEF NoneBefore, SomeFree
        <3>4. DoneInv'
            BY <1>0, <2>2, <2>3, <3>1, <3>3, SMT DEF DoneInv, LastTested
        <3> QED
            BY <3>1, <3>2, <3>4 DEF ScanInv, BytesInv, BitsInv, RunInv, PanicOnlyWhenFull
    <2>7. CASE RunBegin
        <3>1. /\ bit_left' = Size - free /\ next_bit' = free + 1 /\ count' = 1
              /\ bit_idx_start' = -1 /\ pc' = "run" /\ cnt > 1
              /\ UNCHANGED <<bits, cnt, idx_byte, idx_bit>>
            BY <2>7 DEF RunBegin, free
        <3>2. TypeOK'
            BY <1>0, <1>t, <2>2, <3>1, SMT DEF TypeOK
        <3>3. next_bit' - count' = free
            BY <2>2, <3>1, SMT
        <3>4. NoneBefore(next_bit - count)' /\ SomeFree'
            BY <2>5, <2>8, <3>1, <3>3 DEF NoneBefore, SomeFree
        <3>5. \A i \in 0 .. Size : free <= i /\ i < free + 1 => bits[i] = 0
            BY <1>0, <2>2, <2>3, SMT
        <3>6. RunInv'
            BY <1>0, <2>2, <2>4, <3>1, <3>3, <3>4, <3>5, SMT DEF RunInv
        <3> QED
            BY <3>1, <3>2, <3>6 DEF ScanInv, BytesInv, BitsInv, DoneInv, PanicOnlyWhenFull
    <2> QED
        BY <1>7, <2>6, <2>7
<1>8. CASE RunStep
    <2>1. /\ cnt \in Nat /\ count \in Nat /\ next_bit \in Nat /\ bit_left \in Nat
          /\ cnt > 1 /\ count < cnt /\ count <= next_bit /\ bit_left > 0
          /\ bit_left + next_bit = Size + 1 /\ bit_idx_start = -1
          /\ \A i \in 0 .. Size : next_bit - count <= i /\ i < next_bit => bits[i] = 0
          /\ NoneBefore(next_bit - count)
        BY <1>0, <1>8, <1>t, SMT DEF TypeOK, ScanInv, RunInv, RunStep
    <2>2. next_bit \in 0 .. Size /\ bits[next_bit] \in {0, 1}
        BY <1>0, <1>t, <2>1, SMT DEF TypeOK
    <2>3. Counted \in Nat /\ Counted <= count + 1
        BY <2>1, SMT DEF Counted
    <2>4. UNCHANGED <<bits, cnt>> /\ count' = Counted /\ bit_left' = bit_left - 1
        BY <1>8 DEF RunStep
    <2>7. SomeFree'
        BY <1>8, <2>4 DEF ScanInv, RunInv, RunStep, SomeFree
    <2>5. CASE Counted = cnt
        <3>1. /\ bits[next_bit] = 0 /\ Counted = count + 1
              /\ next_bit - cnt + 1 = next_bit - count
            BY <2>1, <2>2, <2>5, SMT DEF Counted
        <3>2. bit_idx_start' = next_bit - count /\ pc' = "done" /\ next_bit' = next_bit
            BY <1>8, <2>5, <3>1 DEF RunStep
        <3>3. NoneBefore(bit_idx_start)'
            BY <2>1, <2>4, <3>2 DEF NoneBefore
        <3>4. DoneInv'
            BY <1>0, <2>1, <2>2, <2>4, <2>5, <2>7, <3>1, <3>2, <3>3, SMT DEF DoneInv, LastTested
        <3>5. TypeOK'
            BY <1>0, <1>8, <1>t, <2>1, <2>2, <2>3, <2>4, <3>2, SMT DEF TypeOK, RunStep
        <3> QED
            BY <3>2, <3>4, <3>5 DEF ScanInv, BytesInv, BitsInv, RunInv, PanicOnlyWhenFull
    <2>6. CASE Counted # cnt
        <3>1. /\ next_bit' = next_bit + 1 /\ bit_idx_start' = bit_idx_start /\ pc' = "run"
              /\ UNCHANGED <<idx_byte, idx_bit>>
            BY <1>8, <2>6 DEF RunStep
        <3>2. TypeOK'
            BY <1>0, <1>t, <2>1, <2>2, <2>3, <2>4, <3>1, SMT DEF TypeOK
        <3>3. ASSUME bits[next_bit] = 0 PROVE RunInv'
            <4>1. Counted = count + 1 /\ next_bit' - count' = next_bit - count
                BY <2>1, <2>4, <3>1, <3>3, SMT DEF Counted
            <4>2. NoneBefore(next_bit - count)'
                BY <2>1, <2>4, <4>1 DEF NoneBefore
            <4> QED
                BY <1>0, <2>1, <2>2, <2>4, <2>6, <2>7, <3>1, <3>3, <4>1, <4>2, SMT DEF RunInv
        <3>4. ASSUME bits[next_bit] = 1 PROVE RunInv'
            <4>1. Counted = 0 /\ next_bit' - count' = next_bit + 1
                BY <2>1, <2>4, <3>1, <3>4, SMT DEF Counted
            <4>2. NoneBefore(next_bit + 1)
                <5> SUFFICES ASSUME NEW s \in 0 .. Size, s < next_bit + 1
                             PROVE  \E i \in 0 .. Size : s <= i /\ i < s + cnt /\ bits[i] = 1
                    BY DEF NoneBefore
                <5>1. CASE s < next_bit - count
                    BY <2>1, <5>1 DEF NoneBefore
                <5>2. CASE ~(s < next_bit - count)
                    BY <1>0, <2>1, <2>2, <3>4, <5>2, SMT
                <5> QED
                    BY <5>1, <5>2
            <4>3. NoneBefore(next_bit - count)'
                BY <2>4, <4>1, <4>2 DEF NoneBefore
            <4> QED
                BY <1>0, <2>1, <2>2, <2>4, <2>7, <3>1, <4>1, <4>3, SMT DEF RunInv
        <3> QED
            BY <2>2, <3>1, <3>2, <3>3, <3>4 DEF ScanInv, BytesInv, BitsInv, DoneInv, PanicOnlyWhenFull
    <2> QED
        BY <2>5, <2>6
<1>9. CASE RunEnd
    <2>1. /\ cnt \in Nat /\ count \in Nat /\ cnt > 1 /\ count < cnt
          /\ next_bit = Size + 1 /\ bit_idx_start = -1
          /\ NoneBefore(next_bit - count)
        BY <1>0, <1>9, <1>t, SMT DEF TypeOK, ScanInv, RunInv, RunEnd
    <2>2. NoneBefore(Size + 2 - cnt)
        BY <1>0, <2>1, SMT DEF NoneBefore
    <2>3. NoneBefore(Size + 2 - cnt)' /\ SomeFree'
        BY <1>9, <2>2 DEF RunEnd, locals, NoneBefore, SomeFree, ScanInv, RunInv
    <2>4. TypeOK'
        BY <1>0, <1>9, <1>t, SMT DEF TypeOK, RunEnd, locals
    <2>5. DoneInv'
        BY <1>9, <2>1, <2>3 DEF RunEnd, locals, DoneInv
    <2> QED
        BY <1>9, <2>4, <2>5 DEF RunEnd, locals, ScanInv, BytesInv, BitsInv, RunInv, PanicOnlyWhenFull
<1>10. CASE Return
    <2>1. TypeOK'
        BY <1>0, <1>10, <1>t, SMT DEF TypeOK, Return
    <2> QED
        BY <1>10, <2>1 DEF Return, ScanInv, BytesInv, BitsInv, RunInv, DoneInv, PanicOnlyWhenFull
<1>11. CASE Spin \/ UNCHANGED vars
    <2>1. UNCHANGED <<bits, pc, cnt, idx_byte, idx_bit, next_bit, bit_left, count, bit_idx_start>>
        BY <1>11 DEF Spin, vars, locals
    <2>2. TypeOK' /\ BytesInv' /\ BitsInv'
        BY <1>t, <2>1 DEF ScanInv, TypeOK, BytesInv, BitsInv
    <2>3. RunInv' /\ DoneInv' /\ PanicOnlyWhenFull'
        BY <2>1 DEF ScanInv, RunInv, DoneInv, NoneBefore, SomeFree, LastTested, PanicOnlyWhenFull
    <2> QED
        BY <2>2, <2>3 DEF ScanInv
<1> QED
    BY <1>1, <1>2, <1>3, <1>4, <1>5, <1>6, <1>7, <1>8, <1>9, <1>10, <1>11 DEF Next, Scan

(* What the loops' invariants say of a scan that has ended: it returned    *)
(* the first run of the bits that it tested.                               *)
FreeRun(s, c) == \A i \in s .. s + c - 1 : bits[i] = 0

FoundRun ==
    pc = "done" /\ bit_idx_start # -1 =>
        bit_idx_start + cnt - 1 <= LastTested /\ FreeRun(bit_idx_start, cnt)

FoundFirst ==
    pc = "done" =>
        \A s \in 0 .. Size :
            s + cnt - 1 <= LastTested /\ FreeRun(s, cnt) => bit_idx_start # -1 /\ bit_idx_start <= s

LEMMA ScanAnswer == ScanInv => FoundRun /\ FoundFirst
<1> SUFFICES ASSUME ScanInv PROVE FoundRun /\ FoundFirst
    OBVIOUS
<1> USE BitmapConstants
<1>0. Size \in Nat /\ cnt \in Nat /\ cnt >= 1 /\ bit_idx_start \in Int /\ bit_idx_start >= -1
    BY SMT DEF Size, ScanInv, TypeOK
<1>1. FoundRun
    BY <1>0, SMT DEF ScanInv, DoneInv, FoundRun, FreeRun, LastTested
<1>2. FoundFirst
    <2> SUFFICES ASSUME pc = "done", NEW s \in 0 .. Size, s + cnt - 1 <= LastTested, FreeRun(s, cnt)
                 PROVE  bit_idx_start # -1 /\ bit_idx_start <= s
        BY DEF FoundFirst
    <2>1. LastTested <= Size /\ LastTested \in Int
        BY <1>0, SMT DEF LastTested
    <2>2. \A i \in 0 .. Size : s <= i /\ i < s + cnt => bits[i] = 0
        BY <1>0, SMT DEF FreeRun
    <2>3. ASSUME NEW n \in Int, NoneBefore(n) PROVE ~(s < n)
        BY <2>2, <2>3, SMT DEF NoneBefore
    <2>4. bit_idx_start # -1
        BY <1>0, <2>1, <2>3, SMT DEF ScanInv, DoneInv
    <2> QED
        BY <1>0, <2>3, <2>4, SMT DEF ScanInv, DoneInv
<1> QED
    BY <1>1, <1>2

(* The same, of the bitmap alone.                                          *)
LEMMA ScanResult == ScanInv => ScanSound /\ ScanFirst
<1> SUFFICES ASSUME ScanInv PROVE ScanSound /\ ScanFirst
    OBVIOUS
<1>0. /\ Size \in Nat /\ cnt \in Nat /\ cnt >= 1
      /\ bit_idx_start \in Int /\ bit_idx_start >= -1
      /\ FoundRun /\ FoundFirst
    BY BitmapConstants, ScanAnswer, SMT DEF Size, ScanInv, TypeOK
<1>1. ScanSound
    BY <1>0, SMT DEF ScanSound, FoundRun, FreeRun, LastTested
<1>2. ScanFirst
    <2> SUFFICES ASSUME pc = "done", NEW s \in 0 .. Size - 1, RunIn(s, cnt)
                 PROVE  bit_idx_start # -1 /\ bit_idx_start <= s
        BY DEF ScanFirst
    <2>1. s \in 0 .. Size /\ s + cnt - 1 <= LastTested
        BY <1>0, SMT DEF RunIn, LastTested
    <2> QED
        BY <1>0, <2>1 DEF FoundFirst, RunIn, FreeRun
<1> QED
    BY <1>1, <1>2

(* When the bit after the bitmap is taken no run can use it, and the       *)
(* answer is what the comment promises.                                    *)
LEMMA ScanGuarded == ScanInv => (pc = "done" /\ bits[Size] = 1 => Promised)
<1> SUFFICES ASSUME ScanInv, pc = "done", bits[Size] = 1 PROVE Promised
    OBVIOUS
<1>0. /\ Size \in Nat /\ cnt \in Nat /\ cnt >= 1
      /\ bit_idx_start \in Int /\ bit_idx_start >= -1
      /\ FoundRun /\ ScanSound /\ ScanFirst
    BY BitmapConstants, ScanAnswer, ScanResult, SMT DEF Size, ScanInv, TypeOK
<1>1. CASE bit_idx_start = -1
    BY <1>0, <1>1 DEF Promised, ScanFirst
<1>2. CASE bit_idx_start # -1
    <2>1. bit_idx_start \in 0 .. Size - 1 /\ FreeRun(bit_idx_start, cnt) /\ bit_idx_start + cnt - 1 <= Size
        BY <1>0, <1>2, SMT DEF FoundRun, ScanSound, LastTested
    <2>2. bit_idx_start + cnt - 1 # Size
        <3> SUFFICES ASSUME bit_idx_start + cnt - 1 = Size PROVE FALSE
            OBVIOUS
        <3>1. Size \in bit_idx_start .. bit_idx_start + cnt - 1
            BY <1>0, <2>1, SMT
        <3> QED
            BY <2>1, <3>1 DEF FreeRun
    <2> QED
        BY <1>0, <1>2, <2>1, <2>2, SMT DEF Promised, RunIn, FreeRun
<1> QED
    BY <1>1, <1>2

(* What bitmap_scan returns lies in the bitmap and covers no taken bit of  *)
(* it, whatever the size and the contents of the bitmap.                   *)
THEOREM ScanIsSound == Spec => []ScanSound
BY ScanInit, ScanStep, ScanResult, PTL DEF Spec

(* bitmap_scan overlooks no run of the bitmap: none starts before the one  *)
(* returned, and -1 means that the bitmap has none.                        *)
THEOREM ScanIsFirstFit == Spec => []ScanFirst
BY ScanInit, ScanStep, ScanResult, PTL DEF Spec

(* bitmap_scan keeps the promise of its comment whenever the bit after the *)
(* bitmap is taken: the overrun of the run loop is its only departure      *)
(* besides the panic.                                                      *)
THEOREM PromiseWhenNextTaken == Spec => [](pc = "done" /\ bits[Size] = 1 => Promised)
BY ScanInit, ScanStep, ScanGuarded, PTL DEF Spec

(* The assertion in bitmap_scan fails for a full bitmap only.              *)
THEOREM PanicMeansFull == Spec => []PanicOnlyWhenFull
<1>1. ScanInv => PanicOnlyWhenFull
    BY DEF ScanInv
<1> QED
    BY <1>1, ScanInit, ScanStep, PTL DEF Spec

-----------------------------------------------------------------------------
(* The refinement.  A scan's start is the question, the last step of a     *)
(* loop the answer; the steps between are invisible.                       *)
asTaken == {i \in 0 .. Size : bits[i] = 1}
asState == IF pc \in {"bytes", "bits", "run"} THEN "asked" ELSE pc
asAnswer == IF pc = "done" THEN bit_idx_start ELSE -1

(* The states a scan passes through before it has an answer.               *)
LEMMA Invisible ==
    ASSUME UNCHANGED <<bits, cnt>>, pc \in {"bytes", "bits", "run"}, pc' \in {"bytes", "bits", "run"}
    PROVE  UNCHANGED <<asTaken, asState, cnt, asAnswer>>
BY DEF asTaken, asState, asAnswer

(* A scan that ends without a panic answers as AtomicScan does.            *)
LEMMA Answered ==
    ASSUME ScanInv, ScanInv', UNCHANGED <<bits, cnt>>, pc \in {"bits", "run"}, pc' = "done"
    PROVE  Atomic!Answer
<1> USE BitmapConstants
<1>0. /\ Size \in Nat /\ cnt \in Nat /\ cnt >= 1
      /\ bit_idx_start' \in Int /\ bit_idx_start' >= -1 /\ bit_idx_start' <= Size
    BY SMT DEF Size, ScanInv, TypeOK
<1>1. asState = "asked" /\ asState' = "done" /\ asAnswer' = bit_idx_start' /\ UNCHANGED <<asTaken, cnt>>
    BY DEF asState, asAnswer, asTaken
<1>2. ~Atomic!Full(asTaken, Size)
    BY <1>0, SMT DEF ScanInv, DoneInv, SomeFree, Atomic!Full, asTaken
<1>3. ASSUME NEW s \in 0 .. Size
      PROVE  s \in Atomic!Runs(asTaken, Size, cnt) <=> (s + cnt - 1 <= LastTested /\ FreeRun(s, cnt))
    <2>1. s + cnt <= (IF cnt = 1 THEN Size ELSE Size + 1) <=> s + cnt - 1 <= LastTested
        BY <1>0, SMT DEF LastTested
    <2>2. ASSUME s + cnt - 1 <= LastTested
          PROVE  (\A i \in s .. s + cnt - 1 : i \notin asTaken) <=> FreeRun(s, cnt)
        <3>1. \A i \in s .. s + cnt - 1 : i \in 0 .. Size
            BY <1>0, <2>2, SMT DEF LastTested
        <3>2. \A i \in 0 .. Size : i \notin asTaken <=> bits[i] = 0
            BY SMTT(30) DEF asTaken, ScanInv, TypeOK
        <3> QED
            BY <3>1, <3>2 DEF FreeRun
    <2> QED
        BY <2>1, <2>2 DEF Atomic!Runs
<1>4. FoundRun' /\ FoundFirst'
    BY ScanAnswer, PTL
<1>5. /\ bit_idx_start' # -1 => bit_idx_start' + cnt - 1 <= LastTested /\ FreeRun(bit_idx_start', cnt)
      /\ \A s \in 0 .. Size : s + cnt - 1 <= LastTested /\ FreeRun(s, cnt)
                              => bit_idx_start' # -1 /\ bit_idx_start' <= s
    BY <1>4 DEF FoundRun, FoundFirst, FreeRun, LastTested
<1>6. \A s \in Atomic!Runs(asTaken, Size, cnt) : s \in 0 .. Size
    BY DEF Atomic!Runs
<1>7. CASE bit_idx_start' = -1
    <2>1. Atomic!Runs(asTaken, Size, cnt) = {}
        BY <1>3, <1>5, <1>6, <1>7
    <2> QED
        BY <1>1, <1>2, <1>7, <2>1 DEF Atomic!Answer, asTaken, asState, asAnswer
<1>8. CASE bit_idx_start' # -1
    <2>1. bit_idx_start' \in 0 .. Size
        BY <1>0, <1>8, SMT
    <2>2. Atomic!First(Atomic!Runs(asTaken, Size, cnt), bit_idx_start')
        BY <1>3, <1>5, <1>6, <1>8, <2>1 DEF Atomic!First
    <2> QED
        BY <1>1, <1>2, <2>2 DEF Atomic!Answer, asTaken, asState, asAnswer
<1> QED
    BY <1>7, <1>8

(* Every step of bitmap_scan and of its callers is a step of AtomicScan or *)
(* changes nothing that AtomicScan speaks of.                              *)
LEMMA RefinementStep == ScanInv /\ ScanInv' /\ [Next]_vars => [Atomic!Next]_(Atomic!absVars)
<1> SUFFICES ASSUME ScanInv, ScanInv', [Next]_vars
             PROVE  Atomic!Next \/ UNCHANGED <<asTaken, asState, cnt, asAnswer>>
    BY DEF Atomic!absVars, asTaken, asState, asAnswer
<1> USE BitmapConstants
<1>0. Size \in Nat
    BY SMT DEF Size
<1>1. CASE \E i \in 0 .. Size - 1, value \in {0, 1} : Set(i, value)
    <2>1. PICK i \in 0 .. Size - 1, value \in {0, 1} : Set(i, value)
        BY <1>1
    <2>2. bits \in [0 .. Size -> {0, 1}] /\ i \in 0 .. Size
        BY <1>0, SMT DEF ScanInv, TypeOK
    <2>3. CASE value = 1
        <3>1. asTaken' = asTaken \cup {i}
            BY <2>1, <2>2, <2>3 DEF Set, asTaken
        <3> QED
            BY <2>1, <3>1 DEF Set, locals, Atomic!Next, Atomic!Change, asTaken
    <2>4. CASE value = 0
        <3>1. asTaken' = asTaken \ {i}
            BY <2>1, <2>2, <2>4 DEF Set, asTaken
        <3> QED
            BY <2>1, <3>1 DEF Set, locals, Atomic!Next, Atomic!Change, asTaken
    <2> QED
        BY <2>3, <2>4
<1>2. CASE \E c \in 1 .. MaxCnt : ScanStart(c)
    BY <1>2 DEF ScanStart, Atomic!Next, Atomic!Ask
<1>3. CASE SkipByte \/ TakeByte \/ SkipBit \/ RunBegin
    BY <1>3, Invisible DEF SkipByte, TakeByte, SkipBit, RunBegin
<1>4. CASE AssertFails
    <2>1. Atomic!Full(asTaken, Size)
        BY <1>0, <1>4, SMT DEF AssertFails, ScanInv, PanicOnlyWhenFull, locals, Atomic!Full, asTaken
    <2> QED
        BY <1>4, <2>1 DEF AssertFails, locals, Atomic!Next, Atomic!Panic, asTaken
<1>5. CASE FoundOne \/ RunEnd
    <2>1. UNCHANGED <<bits, cnt>> /\ pc \in {"bits", "run"} /\ pc' = "done"
        BY <1>5 DEF FoundOne, RunEnd, locals
    <2> QED
        BY <2>1, Answered DEF Atomic!Next
<1>6. CASE RunStep
    <2>1. UNCHANGED <<bits, cnt>> /\ pc = "run" /\ pc' \in {"done", "run"}
        BY <1>6 DEF RunStep
    <2> QED
        BY <2>1, Answered, Invisible DEF Atomic!Next
<1>7. CASE Return
    BY <1>7 DEF Return, Atomic!Next, Atomic!Forget
<1>8. CASE Spin \/ UNCHANGED vars
    BY <1>8 DEF Spin, vars, locals, asTaken, asState, asAnswer
<1> QED
    BY <1>1, <1>2, <1>3, <1>4, <1>5, <1>6, <1>7, <1>8 DEF Next, Scan

(* The loops of bitmap_scan implement AtomicScan for every bitmap and      *)
(* every request, the overrun and the panic included: the memory manager   *)
(* may take a scan for one step.                                           *)
THEOREM Refinement == Spec => ImplementsAtomicScan
<1>1. Init => Atomic!Init
    <2> SUFFICES ASSUME Init PROVE asTaken \in {{}, {Size}} /\ asState = "idle" /\ cnt = 1 /\ asAnswer = -1
        BY DEF Atomic!Init, asTaken, asState, asAnswer
    <2>1. Size \in Nat
        BY BitmapConstants, SMT DEF Size
    <2>2. PICK beyond \in {0, 1} : bits = [i \in 0 .. Size |-> IF i = Size THEN beyond ELSE 0]
        BY DEF Init
    <2>3. asTaken = IF beyond = 1 THEN {Size} ELSE {}
        BY <2>1, <2>2, SMT DEF asTaken
    <2> QED
        BY <2>3 DEF Init, asState, asAnswer
<1> QED
    BY <1>1, ScanInit, ScanStep, RefinementStep, PTL DEF Spec, ImplementsAtomicScan, Atomic!Spec
=============================================================================
