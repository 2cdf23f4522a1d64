------------------------------- MODULE Bitmap -------------------------------
(***************************************************************************)
(* The bitmap of os-elephant (lib/kernel/bitmap.c), one bit per page.      *)
(* bitmap_scan is modelled loop iteration by loop iteration, because its   *)
(* two loops stop at different places: the byte loop inside the bitmap,    *)
(* the run loop one bit past it.                                           *)
(***************************************************************************)
EXTENDS Integers

CONSTANTS
    ByteBits,   \* bits per byte: 8 in the code, fewer in TLC's instances
    ByteLen,    \* btmp_bytes_len
    MaxCnt      \* bound on the cnt that callers ask for

ASSUME BitmapConstants ==
    /\ ByteBits \in Nat \ {0} /\ ByteLen \in Nat /\ MaxCnt \in Nat

(* Bits of the bitmap are 0 .. Size - 1; bit Size is the memory after it.  *)
Size == ByteBits * ByteLen
ByteStart(i) == ByteBits * i

VARIABLES
    bits,                       \* memory, 1 = taken
    pc, cnt,                    \* position in bitmap_scan, and its argument
    idx_byte, idx_bit,          \* byte loop, bit loop
    next_bit, bit_left, count,  \* run loop
    bit_idx_start               \* the result

locals == <<cnt, idx_byte, idx_bit, next_bit, bit_left, count, bit_idx_start>>
vars == <<bits, pc, locals>>

TypeOK ==
    /\ bits \in [0 .. Size -> {0, 1}]
    /\ pc \in {"idle", "bytes", "bits", "run", "done", "panic"}
    /\ cnt \in 1 .. MaxCnt \cup {1}
    /\ idx_byte \in 0 .. ByteLen /\ idx_bit \in 0 .. ByteBits
    /\ next_bit \in 0 .. Size + 1 /\ bit_left \in 0 .. Size
    /\ count \in Nat /\ bit_idx_start \in -1 .. Size

(* bitmap_init clears the bitmap and nothing else; what lies after it is   *)
(* whatever the neighbour keeps there.                                     *)
Init ==
    /\ \E beyond \in {0, 1} : bits = [i \in 0 .. Size |-> IF i = Size THEN beyond ELSE 0]
    /\ pc = "idle" /\ cnt = 1
    /\ idx_byte = 0 /\ idx_bit = 0
    /\ next_bit = 0 /\ bit_left = 0 /\ count = 0 /\ bit_idx_start = -1

(* bitmap_set, by the caller that found a run or gives one back.           *)
Set(i, value) ==
    /\ pc = "idle"
    /\ bits' = [bits EXCEPT ![i] = value]
    /\ UNCHANGED <<pc, locals>>

ScanStart(c) ==
    /\ pc = "idle"
    /\ cnt' = c /\ idx_byte' = 0
    /\ pc' = "bytes"
    /\ UNCHANGED <<bits, idx_bit, next_bit, bit_left, count, bit_idx_start>>

(* 0xff == btmp->bits[idx_byte].                                           *)
ByteFull == \A j \in 0 .. ByteBits - 1 : bits[ByteStart(idx_byte) + j] = 1

(* Mutation of SkipByte: idx_byte is not advanced.                         *)
SkipByteStuck ==
    /\ pc = "bytes" /\ idx_byte < ByteLen /\ ByteFull
    /\ UNCHANGED vars

SkipByte ==
    /\ pc = "bytes" /\ idx_byte < ByteLen /\ ByteFull
    /\ idx_byte' = idx_byte + 1
    /\ UNCHANGED <<bits, pc, cnt, idx_bit, next_bit, bit_left, count, bit_idx_start>>

TakeByte ==
    /\ pc = "bytes" /\ idx_byte < ByteLen /\ ~ByteFull
    /\ idx_bit' = 0
    /\ pc' = "bits"
    /\ UNCHANGED <<bits, cnt, idx_byte, next_bit, bit_left, count, bit_idx_start>>

(* Mutation of AssertFails: the last byte is left out.                     *)
AssertFailsEarly ==
    /\ pc = "bytes" /\ idx_byte + 1 >= ByteLen
    /\ pc' = "panic"
    /\ UNCHANGED <<bits, locals>>

(* ASSERT(idx_byte < btmp_bytes_len) comes before the return of -1.        *)
AssertFails ==
    /\ pc = "bytes" /\ idx_byte = ByteLen
    /\ pc' = "panic"
    /\ UNCHANGED <<bits, locals>>

SkipBit ==
    /\ pc = "bits" /\ bits[ByteStart(idx_byte) + idx_bit] = 1
    /\ idx_bit' = idx_bit + 1
    /\ UNCHANGED <<bits, pc, cnt, idx_byte, next_bit, bit_left, count, bit_idx_start>>

FoundOne ==
    /\ pc = "bits" /\ bits[ByteStart(idx_byte) + idx_bit] = 0 /\ cnt = 1
    /\ bit_idx_start' = ByteStart(idx_byte) + idx_bit
    /\ pc' = "done"
    /\ UNCHANGED <<bits, cnt, idx_byte, idx_bit, next_bit, bit_left, count>>

(* Mutation of RunBegin: the first free bit is not counted.                *)
RunBeginUncounted ==
    LET free == ByteStart(idx_byte) + idx_bit IN
    /\ pc = "bits" /\ bits[free] = 0 /\ cnt > 1
    /\ bit_left' = Size - free /\ next_bit' = free + 1 /\ count' = 0
    /\ bit_idx_start' = -1
    /\ pc' = "run"
    /\ UNCHANGED <<bits, cnt, idx_byte, idx_bit>>

RunBegin ==
    LET free == ByteStart(idx_byte) + idx_bit IN
    /\ pc = "bits" /\ bits[free] = 0 /\ cnt > 1
    /\ bit_left' = Size - free /\ next_bit' = free + 1 /\ count' = 1
    /\ bit_idx_start' = -1
    /\ pc' = "run"
    /\ UNCHANGED <<bits, cnt, idx_byte, idx_bit>>

(* Mutation of Counted: a taken bit does not end the run.                  *)
CountedOn == IF bits[next_bit] = 0 THEN count + 1 ELSE count

(* bitmap_scan_test(btmp, next_bit), and the run length after it.          *)
Counted == IF bits[next_bit] = 0 THEN count + 1 ELSE 0

RunStep ==
    /\ pc = "run" /\ bit_left > 0
    /\ bit_left' = bit_left - 1
    /\ count' = Counted
    /\ IF Counted = cnt
       THEN /\ bit_idx_start' = next_bit - cnt + 1 /\ pc' = "done"
            /\ UNCHANGED next_bit
       ELSE /\ next_bit' = next_bit + 1
            /\ UNCHANGED <<bit_idx_start, pc>>
    /\ UNCHANGED <<bits, cnt, idx_byte, idx_bit>>

RunEnd ==
    /\ pc = "run" /\ bit_left = 0
    /\ pc' = "done"
    /\ UNCHANGED <<bits, locals>>

(* The locals go with the frame.                                           *)
Return ==
    /\ pc = "done"
    /\ pc' = "idle" /\ cnt' = 1
    /\ idx_byte' = 0 /\ idx_bit' = 0
    /\ next_bit' = 0 /\ bit_left' = 0 /\ count' = 0 /\ bit_idx_start' = -1
    /\ UNCHANGED bits

(* panic_spin: interrupts off, for ever.                                   *)
Spin == pc = "panic" /\ UNCHANGED vars

Scan ==
    \/ SkipByte \/ TakeByte \/ AssertFails \/ SkipBit \/ FoundOne
    \/ RunBegin \/ RunStep \/ RunEnd \/ Return

Next ==
    \/ \E i \in 0 .. Size - 1, value \in {0, 1} : Set(i, value)
    \/ \E c \in 1 .. MaxCnt : ScanStart(c)
    \/ Scan \/ Spin

Spec == Init /\ [][Next]_vars

(* The loop is not interrupted: a scan that has begun goes on.             *)
FairSpec == Spec /\ WF_vars(Scan)

-----------------------------------------------------------------------------
(* c free bits from s on, all of them bits of the bitmap.                  *)
RunIn(s, c) == s + c <= Size /\ \A i \in s .. s + c - 1 : bits[i] = 0

(* What bitmap_scan returns lies in the bitmap, and the caller, who sets   *)
(* the bits from there on, meets no bit of the bitmap that is taken: the   *)
(* run is counted afresh at every taken bit.  Whether the run also ends    *)
(* inside the bitmap is ScanPromise's question.                            *)
ScanSound ==
    pc = "done" /\ bit_idx_start # -1 =>
        /\ bit_idx_start \in 0 .. Size - 1
        /\ \A i \in bit_idx_start .. bit_idx_start + cnt - 1 : i < Size => bits[i] = 0

(* No run that the bitmap has is overlooked: none starts before the answer *)
(* of bitmap_scan, and -1 is returned only when the bitmap has none.       *)
ScanFirst ==
    pc = "done" =>
        \A s \in 0 .. Size - 1 : RunIn(s, cnt) => bit_idx_start # -1 /\ bit_idx_start <= s

(* What the comment over bitmap_scan says of an answer: it is the start of *)
(* cnt free bits in the bitmap, or -1 when the bitmap has none.            *)
Promised ==
    IF bit_idx_start = -1 THEN \A s \in 0 .. Size - 1 : ~RunIn(s, cnt)
    ELSE bit_idx_start \in 0 .. Size - 1 /\ RunIn(bit_idx_start, cnt)

(* The comment, of every scan.  The code departs from it twice: the run    *)
(* loop tests one bit more than the bitmap has, and the assertion stops    *)
(* the kernel where -1 should be returned.                                 *)
ScanPromise == pc # "panic" /\ (pc = "done" => Promised)

(* The panic is for a bitmap without a free bit, and for no other.         *)
PanicOnlyWhenFull ==
    pc = "panic" => \A i \in 0 .. Size - 1 : bits[i] = 1

(* The loops of bitmap_scan do what AtomicScan does in one step, so that   *)
(* KernelMemory may take a scan for one step: a request is answered once,  *)
(* over the bits as they were when it was made.  This is an equivalence of *)
(* two models of the code, not the promise of its comment.                 *)
Atomic == INSTANCE AtomicScan WITH
    taken <- {i \in 0 .. Size : bits[i] = 1},
    state <- IF pc \in {"bytes", "bits", "run"} THEN "asked" ELSE pc,
    answer <- IF pc = "done" THEN bit_idx_start ELSE -1

ImplementsAtomicScan == Atomic!Spec

(* A scan ends, with an answer or in the panic.                            *)
ScanEnds == pc \in {"bytes", "bits", "run"} ~> pc \in {"done", "panic"}
=============================================================================
