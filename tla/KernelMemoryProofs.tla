------------------------- MODULE KernelMemoryProofs -------------------------
(***************************************************************************)
(* The memory manager of os-elephant, from the loader's search for memory  *)
(* to malloc_page, for every machine, every width and every sequence of    *)
(* calls.  The argument: what the loader finds is memory there is          *)
(* (LoaderInv), the counts of mem_pool_init fit what they count, and heap  *)
(* pages and frames are both handed out in order (IdleOK, CallOK).         *)
(***************************************************************************)
EXTENDS KernelMemory, SequenceTheorems, WellFoundedInduction, TLAPS

(* Division by a positive number.                                          *)
LEMMA DivBounds ==
    ASSUME NEW a \in Nat, NEW b \in Nat \ {0}
    PROVE  a \div b \in Nat /\ (a \div b) * b <= a /\ a < (a \div b) * b + b
OBVIOUS

(* A quotient is less than what it is less than a multiple of.             *)
LEMMA DivLess ==
    ASSUME NEW a \in Nat, NEW b \in Nat \ {0}, NEW c \in Nat, a < c * b
    PROVE  a \div b < c
<1>1. a \div b \in Nat /\ (a \div b) * b <= a BY DivBounds
<1> DEFINE q == a \div b
<1> HIDE DEF q
<1>2. SUFFICES ASSUME q >= c PROVE FALSE BY <1>1 DEF q
<1>3. q * b >= c * b BY <1>1, <1>2 DEF q
<1> QED BY <1>1, <1>3 DEF q

(* A remainder, of any integer by a positive number.                       *)
LEMMA ModBounds ==
    ASSUME NEW a \in Int, NEW b \in Nat \ {0}
    PROVE  a % b \in 0 .. b - 1 /\ (a \in 0 .. b - 1 => a % b = a)
OBVIOUS

(* A remainder is at most the number itself.                               *)
LEMMA ModLess ==
    ASSUME NEW a \in Nat, NEW b \in Nat \ {0}
    PROVE  a % b <= a
OBVIOUS

(* A bounded set of naturals has a greatest element.                       *)
LEMMA MaxOfBounded ==
    ASSUME NEW S, NEW b \in Nat, S \subseteq 0 .. b, S # {}
    PROVE  Max(S) \in S /\ \A y \in S : y <= Max(S)
<1> DEFINE T == {b - y : y \in S}
<1>1. T \subseteq Nat /\ T # {} OBVIOUS
<1>2. PICK x \in T : \A y \in T : ~(<<y, x>> \in OpToRel(<, Nat))
  BY <1>1, WFMin, NatLessThanWellFounded
<1>3. ASSUME NEW y \in T PROVE x <= y
  <2>1. x \in Nat /\ y \in Nat BY <1>1
  <2>2. ~(<<y, x>> \in {p \in Nat \X Nat : p[1] < p[2]}) BY <1>2, Zenon DEF OpToRel
  <2> HIDE DEF T
  <2> QED BY <2>1, <2>2
<1>4. PICK m \in S : x = b - m OBVIOUS
<1>5. \A y \in S : m >= y
  <2> TAKE y \in S
  <2>1. b - y \in T OBVIOUS
  <2>2. m \in 0 .. b /\ y \in 0 .. b OBVIOUS
  <2>3. b - m <= b - y BY <1>3, <1>4, <2>1, Zenon
  <2> HIDE DEF T
  <2> QED BY <2>2, <2>3
<1>6. \E z \in S : \A y \in S : z >= y BY <1>5
<1> QED BY <1>6 DEF Max

(* The lesser of two numbers.                                              *)
LEMMA MinOfTwo ==
    ASSUME NEW a \in Int, NEW b \in Int
    PROVE  Min({a, b}) = IF a <= b THEN a ELSE b
<1> DEFINE m == IF a <= b THEN a ELSE b
<1>1. m \in {a, b} /\ \A y \in {a, b} : m <= y OBVIOUS
<1>2. \A x \in {a, b} : (\A y \in {a, b} : x <= y) => x = m OBVIOUS
<1> HIDE DEF m
<1>3. (CHOOSE x \in {a, b} : \A y \in {a, b} : x <= y) = m BY <1>1, <1>2
<1> QED BY <1>3 DEF Min, m

-----------------------------------------------------------------------------
(* Where the memory ends that the kernel can use, and where a descriptor   *)
(* ends, as the loader sees it.                                            *)
Top == IF machine < HoleStart THEN machine ELSE HoleStart
End(r) == (r.base + r.len) % AddressPages

(* An end that find_max_mem_area considers is in memory.                   *)
EndOK(e, top) == e \in 0 .. AddressPages - 1 /\ (e < AddressPages \div 2 => e <= top)

(* What the loader found: memory there is, and less than the pages in use  *)
(* only if there is more than half of the addresses.                       *)
SizeOK == all_mem \in 0 .. Top /\ (UsedPages <= all_mem \/ AddressPages \div 2 <= Top)

(* The invariant of the loader: the ends it has read and the ones it has   *)
(* still to read are as above, the end of memory is among them, and what   *)
(* it found is memory.                                                     *)
LoaderInv ==
    /\ machine \in MemSizes /\ stage \in Stages /\ spilled \in BOOLEAN /\ all_mem \in Nat
    /\ bios \subseteq [base : 0 .. AddressPages, len : Int]
    /\ ards \in Seq(0 .. AddressPages - 1) /\ ards_nr \in 0 .. Len(ards)
    /\ \A r \in bios : EndOK(End(r), Top)
    /\ \A i \in 1 .. Len(ards) : EndOK(ards[i], Top)
    /\ stage \in {"e820", "max"} => (\E r \in bios : End(r) = Top) \/ (\E i \in 1 .. Len(ards) : ards[i] = Top)
    /\ stage \in {"e820", "max"} /\ ~spilled => ards_nr = Len(ards)
    /\ stage = "max" => bios = {}
    /\ stage = "e820" => ~spilled
    /\ stage \in {"found", "kernel"} /\ ~spilled => SizeOK

(* The end of memory is below the addresses of devices.                    *)
LEMMA TopBounds ==
    ASSUME machine \in MemSizes
    PROVE  Top \in UsedPages .. HoleStart /\ Top \in 1 .. AddressPages - 1
           /\ AddressPages \div 2 \in Nat /\ AddressPages >= 2
BY LoaderConstants, PoolConstants DEF Top

(* Every map that the firmware may report has such ends, and one of them   *)
(* is the end of memory.                                                   *)
LEMMA MapsOK ==
    ASSUME machine \in MemSizes, NEW map \in Maps(machine)
    PROVE  /\ map \subseteq [base : 0 .. AddressPages, len : Int]
           /\ \A r \in map : EndOK(End(r), Top)
           /\ \E r \in map : End(r) = Top
<1> DEFINE high == IF machine > HoleStart THEN {Area(AddressPages, machine - HoleStart)} ELSE {}
           main == {{Area(LowPages, Top - LowPages)},
                    {Area(LowPages, Top - LowPages - 1), Area(Top - 1, 1)}}
           other == {Area(HoleStart, 2), Area(AddressPages - 2, 2)}
           low == {Area(0, LowPages - 1)}
<1>a. machine \in Nat /\ Top \in Nat /\ {AddressPages, LowPages, HoleStart} \subseteq Nat \ {0} /\ UsedPages \in Nat
  BY TopBounds, LoaderConstants, PoolConstants
<1>b. LowPages <= UsedPages /\ UsedPages <= Top /\ Top <= HoleStart /\ HoleStart < AddressPages
      /\ UsedPages <= AddressPages \div 2 /\ AddressPages \div 2 <= HoleStart /\ AddressPages >= 2
  BY TopBounds, LoaderConstants, PoolConstants
<1>1. PICK r \in main, d \in SUBSET other : map = low \cup high \cup r \cup d
  BY DEF Maps, Top
<1>2. ASSUME NEW b \in 0 .. AddressPages, NEW n \in Int,
             (b + n) % AddressPages < AddressPages \div 2 => (b + n) % AddressPages <= Top
      PROVE  Area(b, n) \in [base : 0 .. AddressPages, len : Int] /\ EndOK(End(Area(b, n)), Top)
  <2>1. Area(b, n).base = b /\ Area(b, n).len = n /\ Area(b, n) \in [base : 0 .. AddressPages, len : Int]
    BY DEF Area
  <2>2. (b + n) % AddressPages \in 0 .. AddressPages - 1
    <3>1. b + n \in Int /\ AddressPages \in Nat \ {0} BY <1>a
    <3> QED BY <3>1, ModBounds, Zenon
  <2> QED BY <1>2, <2>1, <2>2 DEF EndOK, End
<1>c. ASSUME NEW x \in Nat, x <= Top PROVE x % AddressPages = x
  <2>1. x \in 0 .. AddressPages - 1 BY <1>a, <1>b, <1>c
  <2> QED BY <2>1, <1>a, ModBounds
<1> DEFINE Good(a) == a \in [base : 0 .. AddressPages, len : Int] /\ EndOK(End(a), Top)
<1>3. \A a \in low : Good(a)
  <2>1. LowPages - 1 \in 0 .. AddressPages - 1 BY <1>a, <1>b
  <2>2. (0 + (LowPages - 1)) % AddressPages <= Top BY <1>a, <1>b, <2>1, ModBounds
  <2> QED BY <1>2, <1>a, <2>2
<1>4. \A a \in high : Good(a)
  <2>1. SUFFICES ASSUME machine > HoleStart PROVE Good(Area(AddressPages, machine - HoleStart))
    OBVIOUS
  <2>2. Top = HoleStart BY <2>1, <1>a DEF Top
  <2>a. AddressPages + (machine - HoleStart) \in Int BY <1>a
  <2>b. (AddressPages + (machine - HoleStart)) % AddressPages \in Int BY <2>a, <1>a
  <2>3. (AddressPages + (machine - HoleStart)) % AddressPages < AddressPages \div 2
        => (AddressPages + (machine - HoleStart)) % AddressPages <= Top
    BY <2>2, <2>b, <1>a, <1>b
  <2> QED BY <1>2, <2>3, <1>a
<1>5. \A a \in r : Good(a)
  <2>a. LowPages + (Top - LowPages) = Top /\ LowPages + (Top - LowPages - 1) = Top - 1 /\ (Top - 1) + 1 = Top
        /\ Top - 1 \in Nat /\ Top - 1 <= Top /\ Top <= Top
    BY <1>a, <1>b
  <2>1. (LowPages + (Top - LowPages)) % AddressPages <= Top BY <1>a, <1>c, <2>a
  <2>2. (LowPages + (Top - LowPages - 1)) % AddressPages <= Top /\ ((Top - 1) + 1) % AddressPages <= Top
    BY <1>a, <1>c, <2>a
  <2>3. Good(Area(LowPages, Top - LowPages)) BY <1>2, <2>1, <1>a, <1>b
  <2>4. Good(Area(LowPages, Top - LowPages - 1)) BY <1>2, <2>2, <1>a, <1>b
  <2>b. Top - 1 \in 0 .. AddressPages /\ 1 \in Int BY <1>a, <1>b
  <2>5. Good(Area(Top - 1, 1)) BY <1>2, <2>2, <2>b
  <2> HIDE DEF Good
  <2> QED BY <2>3, <2>4, <2>5
<1>6. \A a \in other : Good(a)
  <2>1. (HoleStart + 2) % AddressPages < AddressPages \div 2 => (HoleStart + 2) % AddressPages <= Top
    BY <1>a, <1>b
  <2>2. ((AddressPages - 2) + 2) % AddressPages <= Top BY <1>a, <1>b
  <2>3. Good(Area(HoleStart, 2)) BY <1>2, <2>1, <1>a, <1>b
  <2>4. Good(Area(AddressPages - 2, 2)) BY <1>2, <2>2, <1>a, <1>b
  <2> HIDE DEF Good
  <2> QED BY <2>3, <2>4
<1>7. \E a \in r : End(a) = Top
  <2>a. LowPages + (Top - LowPages) = Top /\ (Top - 1) + 1 = Top /\ Top <= Top BY <1>a, <1>b
  <2>1. (LowPages + (Top - LowPages)) % AddressPages = Top BY <1>a, <1>c, <2>a
  <2>2. ((Top - 1) + 1) % AddressPages = Top BY <1>a, <1>c, <2>a
  <2>3. End(Area(LowPages, Top - LowPages)) = Top BY <2>1 DEF End, Area
  <2>4. End(Area(Top - 1, 1)) = Top BY <2>2 DEF End, Area
  <2> QED BY <2>3, <2>4
<1> HIDE DEF low, high, main, other
<1> QED BY <1>1, <1>3, <1>4, <1>5, <1>6, <1>7

(* The invariant holds when the loader starts.                             *)
LEMMA InitLoader == ASSUME LoaderInit PROVE LoaderInv
<1>1. machine \in MemSizes /\ bios \in Maps(machine) BY DEF LoaderInit
<1>2. bios \subseteq [base : 0 .. AddressPages, len : Int] /\ (\A r \in bios : EndOK(End(r), Top))
      /\ \E r \in bios : End(r) = Top
  BY <1>1, MapsOK
<1>3. ards = <<>> /\ Len(ards) = 0 /\ ards \in Seq(0 .. AddressPages - 1) BY DEF LoaderInit
<1>4. stage = "e820" /\ ~spilled /\ spilled \in BOOLEAN /\ all_mem = 0 /\ ards_nr = 0
  BY DEF LoaderInit
<1>5. ards_nr \in 0 .. Len(ards) /\ ards_nr = Len(ards) /\ \A i \in 1 .. Len(ards) : EndOK(ards[i], Top)
  BY <1>3, <1>4
<1> QED BY <1>1, <1>2, <1>3, <1>4, <1>5 DEF LoaderInv, Stages

(* The ends that find_max_mem_area compares.                               *)
Ends == {ards[i] : i \in {j \in 1 .. ards_nr : ards[j] < AddressPages \div 2}}

(* What find_max_mem_area finds is memory; it is all of it unless memory   *)
(* reaches into the upper half of the addresses (loader.S).                *)
LEMMA MaxInMemory ==
    ASSUME LoaderInv, stage = "max"
    PROVE  LET m == Max({0} \cup Ends) IN
           /\ m \in Nat
           /\ ~spilled => m \in 0 .. Top /\ (UsedPages <= m \/ AddressPages \div 2 <= Top)
<1> DEFINE S == {0} \cup Ends
<1>a. Top \in UsedPages .. HoleStart /\ Top \in 1 .. AddressPages - 1 /\ AddressPages \div 2 \in Nat
      /\ AddressPages \in Nat /\ UsedPages \in Nat
  BY TopBounds, LoaderConstants, PoolConstants DEF LoaderInv
<1>b. Len(ards) \in Nat /\ \A i \in 1 .. Len(ards) : EndOK(ards[i], Top) BY DEF LoaderInv
<1>c. ards_nr \in 0 .. Len(ards) BY DEF LoaderInv
<1>1. \A e \in Ends : EndOK(e, Top) /\ e < AddressPages \div 2 BY <1>b, <1>c DEF Ends
<1>2. \A e \in Ends : e \in 0 .. Top BY <1>1, <1>a DEF EndOK
<1>3. S \subseteq 0 .. Top /\ S # {} BY <1>2, <1>a
<1>4. Max(S) \in S /\ \A y \in S : y <= Max(S) BY <1>3, <1>a, MaxOfBounded
<1>5. Max(S) \in 0 .. Top BY <1>3, <1>4
<1>6. ASSUME ~spilled, Top < AddressPages \div 2 PROVE UsedPages <= Max(S)
  <2>1. PICK i \in 1 .. Len(ards) : ards[i] = Top BY DEF LoaderInv
  <2>2. ards_nr = Len(ards) BY <1>6 DEF LoaderInv
  <2>3. Top \in S BY <1>6, <2>1, <2>2 DEF Ends
  <2>4. Top <= Max(S) BY <2>3, <1>4
  <2> HIDE DEF S
  <2> QED BY <2>4, <1>5, <1>a
<1> HIDE DEF S
<1>7. Max(S) \in Nat /\ (~spilled => Max(S) \in 0 .. Top /\ (UsedPages <= Max(S) \/ AddressPages \div 2 <= Top))
  BY <1>5, <1>6, <1>a
<1> QED BY <1>7 DEF S

(* Every answer of the BIOS leaves the loader with a size of memory.       *)
LEMMA LoaderStep == ASSUME LoaderInv, Detect PROVE LoaderInv'
<1>a. Top \in UsedPages .. HoleStart /\ Top \in 1 .. AddressPages - 1 /\ AddressPages \div 2 \in Nat
      /\ AddressPages \in Nat \ {0} /\ UsedPages \in Nat /\ machine \in Nat /\ HoleStart \in Nat
  BY TopBounds, LoaderConstants, PoolConstants DEF LoaderInv
<1>b. ASSUME NEW n \in Nat, Found(n),
             ~spilled => n \in 0 .. Top /\ (UsedPages <= n \/ AddressPages \div 2 <= Top)
      PROVE  LoaderInv'
  <2>1. all_mem' = n /\ stage' = "found" /\ bios' = {} /\ ards' = <<>> /\ ards_nr' = 0
        /\ machine' = machine /\ spilled' = spilled
    BY <1>b DEF Found
  <2>2. Len(ards') = 0 /\ ards' \in Seq(0 .. AddressPages - 1) BY <2>1
  <2>3. Top' = Top BY <2>1 DEF Top
  <2>4. ~spilled' => SizeOK' BY <1>b, <2>1, <2>3 DEF SizeOK
  <2> QED BY <2>1, <2>2, <2>4, <1>b DEF LoaderInv, Stages
<1>1. ASSUME NEW r \in bios, E820(r) PROVE LoaderInv'
  <2> DEFINE e == End(r)
  <2>1. ards' = Append(ards, e) /\ machine' = machine /\ all_mem' = all_mem /\ bios' = bios \ {r}
        /\ stage = "e820" /\ spilled' = (Len(ards) >= ArdsSlots)
        /\ ards_nr' = (IF spilled' THEN r.base \div AddressPages + 1 ELSE ards_nr + 1)
        /\ stage' = (IF bios' = {} THEN "max" ELSE IF spilled' THEN "wild" ELSE "e820")
    BY <1>1 DEF E820, End
  <2>2. e \in 0 .. AddressPages - 1 /\ EndOK(e, Top) BY DEF LoaderInv, EndOK
  <2> HIDE DEF e
  <2>a. ards \in Seq(0 .. AddressPages - 1) /\ Len(ards) \in Nat /\ ards_nr = Len(ards)
    BY <2>1 DEF LoaderInv
  <2>3. ards' \in Seq(0 .. AddressPages - 1) /\ Len(ards') = Len(ards) + 1 /\ ards'[Len(ards) + 1] = e
        /\ \A i \in 1 .. Len(ards) : ards'[i] = ards[i]
    BY <2>1, <2>2, <2>a, AppendProperties
  <2>4. Top' = Top BY <2>1 DEF Top
  <2>5. ards_nr' \in 0 .. Len(ards') /\ (~spilled' => ards_nr' = Len(ards'))
    <3>1. r.base \in 0 .. AddressPages BY DEF LoaderInv
    <3>2. r.base \div AddressPages \in 0 .. 1
      <4>1. r.base < 2 * AddressPages /\ r.base \in Nat BY <3>1, <1>a
      <4>2. r.base \div AddressPages < 2 BY <4>1, <1>a, DivLess
      <4>3. r.base \div AddressPages \in Nat BY <4>1, <1>a, DivBounds
      <4> QED BY <4>2, <4>3
    <3>3. ArdsSlots \in Nat \ {0} BY LoaderConstants
    <3> DEFINE b == r.base \div AddressPages
    <3>4. CASE spilled'
      <4>1. ards_nr' = b + 1 BY <3>4, <2>1
      <4>2. Len(ards) >= ArdsSlots BY <3>4, <2>1, Zenon
      <4>3. Len(ards) >= 1 BY <4>2, <2>a, <3>3
      <4> HIDE DEF b
      <4> QED BY <4>1, <4>3, <3>4, <2>3, <2>a, <3>2 DEF b
    <3>5. CASE ~spilled' BY <3>5, <2>1, <2>3, <2>a
    <3> QED BY <3>4, <3>5
  <2>6. \A i \in 1 .. Len(ards') : EndOK(ards'[i], Top')
    <3> TAKE i \in 1 .. Len(ards')
    <3>1. CASE i = Len(ards) + 1 BY <2>2, <2>3, <2>4, <3>1
    <3>2. CASE i \in 1 .. Len(ards) BY <2>3, <2>4, <3>2 DEF LoaderInv
    <3> QED BY <3>1, <3>2, <2>3, <2>a
  <2>7. \A q \in bios' : EndOK(End(q), Top') BY <2>1, <2>4 DEF LoaderInv, EndOK, End
  <2>8. (\E q \in bios' : End(q) = Top') \/ (\E i \in 1 .. Len(ards') : ards'[i] = Top')
    <3>1. CASE \E i \in 1 .. Len(ards) : ards[i] = Top BY <3>1, <2>3, <2>4, <2>a
    <3>2. CASE e = Top BY <3>2, <2>3, <2>4, <2>a
    <3>3. CASE \E q \in bios \ {r} : End(q) = Top BY <3>3, <2>1, <2>4 DEF End
    <3> QED BY <3>1, <3>2, <3>3, <2>1 DEF LoaderInv, e
  <2>9. stage' \in {"max", "wild", "e820"} /\ (stage' = "max" => bios' = {}) /\ (stage' = "e820" => ~spilled')
        /\ spilled' \in BOOLEAN
    BY <2>1
  <2>10. machine' \in MemSizes /\ all_mem' \in Nat /\ bios' \subseteq [base : 0 .. AddressPages, len : Int]
    BY <2>1 DEF LoaderInv
  <2> QED BY <2>3, <2>5, <2>6, <2>7, <2>8, <2>9, <2>10 DEF LoaderInv, Stages
<1>2. CASE FindMax BY <1>2, <1>b, MaxInMemory DEF FindMax, Ends
<1>3. CASE Carry
  <2>1. Top' = Top BY <1>3 DEF Carry, Top
  <2> QED BY <1>3, <2>1 DEF Carry, LoaderInv, EndOK, End, Stages
<1>4. CASE E801
  <2> DEFINE n == IF Top <= E801Low THEN Top ELSE E801Low + ((Top - E801Low) \div E801Block) * E801Block
  <2>1. Min({machine, HoleStart}) = Top BY <1>a, MinOfTwo DEF Top
  <2>2. Found(n) BY <1>4, <2>1 DEF E801
  <2>3. {E801Low, E801Block} \subseteq Nat \ {0} /\ UsedPages <= E801Low
    BY LoaderConstants, PoolConstants
  <2>4. n \in Nat /\ n \in 0 .. Top /\ UsedPages <= n
    <3>1. CASE Top <= E801Low BY <3>1, <1>a
    <3>2. CASE Top > E801Low
      <4>1. Top - E801Low \in Nat BY <3>2, <2>3, <1>a
      <4> DEFINE q == (Top - E801Low) \div E801Block
      <4>2. q \in Nat /\ q * E801Block <= Top - E801Low BY <4>1, <2>3, DivBounds
      <4>3. q * E801Block \in Nat BY <4>2, <2>3
      <4> HIDE DEF q
      <4>4. E801Low + q * E801Block \in E801Low .. Top BY <4>2, <4>3, <2>3, <1>a
      <4>5. n = E801Low + q * E801Block BY <3>2, <2>3, <1>a DEF q
      <4> HIDE DEF n
      <4> QED BY <4>4, <4>5, <2>3, <1>a
    <3> QED BY <3>1, <3>2, <2>3, <1>a
  <2> HIDE DEF n
  <2> QED BY <2>2, <2>4, <1>b
<1>5. CASE E88
  <2>1. E88Limit \in Nat /\ UsedPages <= E88Limit /\ E88Limit <= HoleStart /\ UsedPages <= machine
    BY LoaderConstants, PoolConstants DEF LoaderInv
  <2> DEFINE n == IF machine <= E88Limit THEN machine ELSE E88Limit
  <2>2. Found(n) BY <1>5, <2>1, <1>a, MinOfTwo DEF E88
  <2>3. n \in Nat /\ n \in 0 .. Top /\ UsedPages <= n BY <2>1, <1>a DEF Top
  <2> HIDE DEF n
  <2> QED BY <2>2, <2>3, <1>b
<1>6. CASE HltEnds
  <2>1. Top' = Top BY <1>6 DEF HltEnds, Top
  <2> QED BY <1>6, <2>1 DEF HltEnds, LoaderInv, EndOK, End, Stages
<1> QED BY <1>1, <1>2, <1>3, <1>4, <1>5, <1>6 DEF Detect

-----------------------------------------------------------------------------
(* mem_pool_init has cut up what the loader found.                         *)
PoolsOK ==
    /\ kernel_pool = KernelPool(all_mem) /\ user_pool = UserPool(all_mem)
    /\ kernel_vaddr = KernelVaddr(all_mem, Heap)

(* The pages of the kernel pool, and as many of the heap.                  *)
N == KbmLength(all_mem) * ByteBits

(* The counts of mem_pool_init.                                            *)
LEMMA Counts ==
    ASSUME all_mem \in Nat
    PROVE  /\ AllFreePages(all_mem) \in 0 .. CountModulus - 1
           /\ KernelFreePages(all_mem) \in Nat /\ UserFreePages(all_mem) \in Nat
           /\ 2 * KernelFreePages(all_mem) <= AllFreePages(all_mem)
           /\ KernelFreePages(all_mem) + UserFreePages(all_mem) = AllFreePages(all_mem)
           /\ KbmLength(all_mem) \in Nat /\ UbmLength(all_mem) \in Nat
           /\ N \in 0 .. KernelFreePages(all_mem)
           /\ UbmLength(all_mem) * ByteBits \in 0 .. UserFreePages(all_mem)
           /\ UsedPages <= all_mem => AllFreePages(all_mem) <= all_mem - UsedPages
<1>a. UsedPages \in Nat /\ AddressPages \in Nat \ {0} /\ CountModulus \in Nat \ {0} /\ ByteBits \in Nat \ {0}
  BY LoaderConstants, PoolConstants
<1> DEFINE d == all_mem - UsedPages
           f == AllFreePages(all_mem)
           k == KernelFreePages(all_mem)
           u == UserFreePages(all_mem)
<1>1. d \in Int /\ d % AddressPages \in Nat BY <1>a
<1>2. f = (d % AddressPages) % CountModulus BY DEF AllFreePages
<1>3. f \in 0 .. CountModulus - 1 BY <1>1, <1>2, <1>a, ModBounds
<1>4. UsedPages <= all_mem => f <= d
  <2> SUFFICES ASSUME UsedPages <= all_mem PROVE f <= d OBVIOUS
  <2>1. d \in Nat BY <1>a
  <2>2. d % AddressPages <= d BY <2>1, <1>a, ModLess
  <2>3. f <= d % AddressPages BY <1>1, <1>2, <1>a, ModLess
  <2> HIDE DEF d, f
  <2> QED BY <1>1, <1>3, <2>1, <2>2, <2>3
<1>5. k = f \div 2 /\ u = f - k BY DEF KernelFreePages, UserFreePages
<1> HIDE DEF d, f, k, u
<1>6. k \in Nat /\ 2 * k <= f /\ u \in Nat /\ k + u = f BY <1>3, <1>5
<1>7. KbmLength(all_mem) = k \div ByteBits /\ UbmLength(all_mem) = u \div ByteBits
  BY DEF KbmLength, UbmLength, k, u
<1>8. k \div ByteBits \in Nat /\ (k \div ByteBits) * ByteBits <= k /\ (k \div ByteBits) * ByteBits \in Nat
  BY <1>6, <1>a, DivBounds
<1>9. u \div ByteBits \in Nat /\ (u \div ByteBits) * ByteBits <= u /\ (u \div ByteBits) * ByteBits \in Nat
  BY <1>6, <1>a, DivBounds
<1>10. N \in 0 .. k /\ UbmLength(all_mem) * ByteBits \in 0 .. u BY <1>6, <1>7, <1>8, <1>9 DEF N
<1>11. UsedPages <= all_mem => f <= all_mem - UsedPages BY <1>4 DEF d
<1> QED BY <1>3, <1>6, <1>7, <1>8, <1>9, <1>10, <1>11 DEF f, k, u

(* What malloc_page uses of the pools.                                     *)
LEMMA PoolShape ==
    ASSUME all_mem \in Nat, PoolsOK
    PROVE  /\ N \in Nat
           /\ BitCount(kernel_pool) = N /\ BitCount(kernel_vaddr) = N
           /\ kernel_pool.base * ByteBits = 0
           /\ kernel_vaddr.base * ByteBits \in Nat /\ N <= kernel_vaddr.base * ByteBits
           /\ kernel_vaddr.base \in Nat /\ kernel_vaddr.len \in Nat
           /\ kernel_pool.start = UsedPages /\ kernel_vaddr.start = Heap
           /\ kernel_vaddr.pages = N
<1> DEFINE k == KbmLength(all_mem)
           u == UbmLength(all_mem)
<1>1. k \in Nat /\ u \in Nat /\ ByteBits \in Nat /\ N \in Nat /\ u * ByteBits \in Nat
  BY Counts, PoolConstants
<1>2. kernel_pool.start = UsedPages /\ kernel_pool.base = 0 /\ kernel_pool.len = k
  BY DEF PoolsOK, KernelPool, Pool
<1>3. kernel_vaddr.start = Heap /\ kernel_vaddr.pages = k * ByteBits /\ kernel_vaddr.base = k + u
      /\ kernel_vaddr.len = k
  BY DEF PoolsOK, KernelVaddr, Pool
<1>4. N = k * ByteBits BY DEF N
<1> HIDE DEF k, u
<1>5. (k + u) * ByteBits = k * ByteBits + u * ByteBits /\ 0 * ByteBits = 0 BY <1>1
<1> QED BY <1>1, <1>2, <1>3, <1>4, <1>5 DEF BitCount

(* The bitmaps end below the pcb and the heap below the directory          *)
(* (memory.c mem_pool_init).                                               *)
LEMMA LayoutOK ==
    ASSUME all_mem \in Nat, PoolsOK
    PROVE  /\ kernel_vaddr.base + kernel_vaddr.len < BitmapBytes
           /\ PDE_IDX(kernel_vaddr.start + kernel_vaddr.pages) < TableSize - 1
           /\ N <= CountModulus \div 2
<1> DEFINE k == KbmLength(all_mem)
           u == UbmLength(all_mem)
           f == AllFreePages(all_mem)
<1>a. CountModulus \in Nat \ {0} /\ ByteBits \in Nat \ {0} /\ BitmapBytes \in Nat /\ TableSize \in Nat \ {0}
      /\ KernelPde \in Nat /\ LowPages \in Nat /\ KernelPde + 1 < TableSize
  BY LoaderConstants, PoolConstants, MemoryConstants
<1>b. 3 * CountModulus <= 2 * ByteBits * BitmapBytes
      /\ LowPages + CountModulus \div 2 < (TableSize - 1 - KernelPde) * TableSize
  BY MemoryConstants
<1>1. k \in Nat /\ u \in Nat /\ f \in 0 .. CountModulus - 1
      /\ k * ByteBits <= KernelFreePages(all_mem) /\ u * ByteBits <= UserFreePages(all_mem)
      /\ KernelFreePages(all_mem) \in Nat /\ UserFreePages(all_mem) \in Nat
      /\ 2 * KernelFreePages(all_mem) <= f /\ KernelFreePages(all_mem) + UserFreePages(all_mem) = f
  BY Counts DEF N
<1>2. kernel_vaddr.base + kernel_vaddr.len = k + u + k BY DEF PoolsOK, KernelVaddr, Pool
<1> HIDE DEF k, u, f
<1>3. k + u + k < BitmapBytes
  <2>1. (k + u + k) * ByteBits = k * ByteBits + u * ByteBits + k * ByteBits
        /\ k * ByteBits \in Nat /\ u * ByteBits \in Nat
    BY <1>1, <1>a
  <2>2. 2 * ((k + u + k) * ByteBits) < 3 * CountModulus BY <1>1, <2>1, <1>a
  <2>3. 2 * ByteBits * BitmapBytes = 2 * (BitmapBytes * ByteBits) /\ BitmapBytes * ByteBits \in Nat
    BY <1>a
  <2> DEFINE x == (k + u + k) * ByteBits
             y == BitmapBytes * ByteBits
  <2>4. x < y
    <3>1. x \in Nat /\ y \in Nat BY <1>1, <1>a
    <3> HIDE DEF x, y
    <3>2. 2 * x < 3 * CountModulus BY <2>2 DEF x
    <3>3. 2 * ByteBits * BitmapBytes = 2 * y BY <2>3 DEF y
    <3>4. 3 * CountModulus <= 2 * y BY <3>3, <1>b
    <3> QED BY <3>1, <3>2, <3>4, <1>a
  <2>5. k + u + k >= BitmapBytes => x >= y BY <1>1, <1>a
  <2> HIDE DEF x, y
  <2> QED BY <2>4, <2>5, <1>1, <1>a DEF x, y
<1>4. N \in Nat /\ 2 * N <= f BY <1>1, Counts DEF N, k
<1>5. N <= CountModulus \div 2 BY <1>1, <1>4, <1>a
<1>6. kernel_vaddr.start + kernel_vaddr.pages = Heap + N BY PoolShape
<1>7. Heap + N < (TableSize - 1) * TableSize /\ Heap + N \in Nat
  <2>1. KernelPde * TableSize + (TableSize - 1 - KernelPde) * TableSize = (TableSize - 1) * TableSize
    BY <1>a
  <2>2. KernelPde * TableSize \in Nat /\ (TableSize - 1 - KernelPde) * TableSize \in Int
        /\ (TableSize - 1) * TableSize \in Int /\ CountModulus \div 2 \in Nat
    BY <1>a
  <2>3. Heap = KernelPde * TableSize + LowPages BY DEF Heap
  <2> QED BY <2>1, <2>2, <2>3, <1>4, <1>5, <1>a, <1>b
<1>8. (Heap + N) \div TableSize < TableSize - 1 BY <1>7, <1>a, DivLess
<1> QED BY <1>2, <1>3, <1>5, <1>6, <1>8 DEF PDE_IDX

(* The two pools are disjoint and in memory (memory.c mem_pool_init).      *)
LEMMA PoolsFit ==
    ASSUME LoaderInv, PoolsOK, SizeOK
    PROVE  /\ UsedPages <= kernel_pool.start
           /\ kernel_pool.start + kernel_pool.len * ByteBits <= user_pool.start
           /\ user_pool.start + user_pool.len * ByteBits <= Min({machine, HoleStart})
<1> DEFINE k == KernelFreePages(all_mem)
           b == UbmLength(all_mem) * ByteBits
           f == AllFreePages(all_mem)
<1>a. UsedPages \in Nat /\ machine \in Nat /\ HoleStart \in Nat /\ CountModulus \in Nat /\ all_mem \in Nat
      /\ UsedPages + CountModulus <= AddressPages \div 2 /\ AddressPages \div 2 \in Nat /\ Top \in Nat
  BY LoaderConstants, PoolConstants, TopBounds DEF LoaderInv
<1>1. f \in 0 .. CountModulus - 1 /\ k \in Nat /\ k + UserFreePages(all_mem) = f /\ N \in 0 .. k
      /\ b \in 0 .. UserFreePages(all_mem) /\ (UsedPages <= all_mem => f <= all_mem - UsedPages)
      /\ UserFreePages(all_mem) \in Nat
  BY <1>a, Counts
<1>2. kernel_pool.start = UsedPages /\ kernel_pool.len * ByteBits = N
      /\ user_pool.start = UsedPages + k /\ user_pool.len * ByteBits = b
  BY DEF PoolsOK, KernelPool, UserPool, Pool, N
<1>3. Min({machine, HoleStart}) = Top BY <1>a, MinOfTwo DEF Top
<1> HIDE DEF k, b, f
<1>4. UsedPages + f <= Top
  <2>1. CASE UsedPages <= all_mem
    <3>1. all_mem <= Top BY DEF SizeOK
    <3> QED BY <2>1, <3>1, <1>1, <1>a
  <2>2. CASE ~(UsedPages <= all_mem)
    <3>1. AddressPages \div 2 <= Top BY <2>2 DEF SizeOK
    <3> QED BY <3>1, <1>1, <1>a
  <2> QED BY <2>1, <2>2
<1>5. UsedPages + k + b <= UsedPages + f BY <1>1, <1>a
<1> QED BY <1>1, <1>2, <1>3, <1>4, <1>5, <1>a

-----------------------------------------------------------------------------
(* The first n bits of a bitmap are taken, and no other.                   *)
Upto(p, n) == \A i \in 0 .. N - 1 : p.base * ByteBits + i \in ram <=> i < n

(* Nothing is ever given back, so that pages of the heap and frames of the *)
(* kernel pool are both handed out in order: between two calls as many of  *)
(* the one as of the other, within a call as many frames as pages have     *)
(* been entered.                                                           *)
IdleOK ==
    /\ pc = "idle" /\ frame = NoFrame
    /\ \E n \in 0 .. N :
          Upto(kernel_pool, n) /\ Upto(kernel_vaddr, n) /\ given = Heap .. Heap + n - 1

(* In a call: vaddr is the page it is about to enter.                      *)
CallOK ==
    /\ {vaddr, vaddr_start, left, asked} \subseteq Nat
    /\ Heap <= vaddr_start /\ vaddr_start <= vaddr
    /\ Upto(kernel_vaddr, vaddr_start + asked - Heap)
    /\ given = Heap .. vaddr_start - 1
    /\ \/ /\ pc = "palloc" /\ frame = NoFrame /\ vaddr - Heap <= N
          /\ vaddr + left = vaddr_start + asked
          /\ Upto(kernel_pool, vaddr - Heap)
       \/ /\ pc = "add" /\ frame = UsedPages + (vaddr - Heap) /\ vaddr - Heap < N
          /\ vaddr + 1 + left = vaddr_start + asked
          /\ Upto(kernel_pool, vaddr - Heap + 1)

(* The kernel has stopped in malloc_page.                                  *)
StoppedOK == pc \in {"scan_panic", "pte_panic", "fault"}

(* The page tables.                                                        *)
TablesOK == table \in [Tables -> [0 .. TableSize - 1 -> Int]]

(* Before mem_init nothing is allocated, and the page tables lead to low   *)
(* memory only.                                                            *)
FreshOK ==
    /\ pc = "idle" /\ frame = NoFrame /\ given = {}
    /\ \A k \in Tables, e \in 0 .. TableSize - 1 : table[k][e] < LowPages

(* A frame is taken if it is on its way to a page table or in one.         *)
InTable(f) == \E k \in Tables, e \in 0 .. TableSize - 1 : table[k][e] = f
FramesOK ==
    /\ frame \in {NoFrame} \cup (UsedPages .. UsedPages + N - 1)
    /\ \A i \in 0 .. N - 1 : i \in ram <=> frame = UsedPages + i \/ InTable(UsedPages + i)

(* The parts of the invariant after mem_init.                              *)
RunningOK == stage = "kernel" /\ PoolsOK /\ (IdleOK \/ CallOK \/ StoppedOK) /\ FramesOK

(* The inductive invariant.                                                *)
MemInv ==
    /\ LoaderInv /\ TablesOK /\ booted \in BOOLEAN
    /\ ~booted => FreshOK
    /\ booted => RunningOK

(* A first fit in a bitmap whose taken bits are the first n: the run       *)
(* begins at bit n.                                                        *)
LEMMA FirstRun ==
    ASSUME NEW size \in Nat, NEW taken, NEW n \in Nat, NEW c \in Nat \ {0}, NEW s,
           \A i \in 0 .. size - 1 : i \in taken <=> i < n,
           n <= size, First(Runs(taken, size, c), s)
    PROVE  s = n /\ n < size /\ n + c <= size + 1
<1>1. s \in 0 .. size /\ s + c <= (IF c = 1 THEN size ELSE size + 1) /\ s \notin taken
  BY DEF First, Runs
<1>2. s < size BY <1>1
<1>3. s >= n BY <1>1, <1>2
<1>4. n \in Runs(taken, size, c)
  <2>1. CASE n + c - 1 < size BY <2>1, <1>1, <1>3 DEF Runs
  <2>2. CASE n + c - 1 >= size BY <2>2, <1>1, <1>3 DEF Runs, First
  <2> QED BY <2>1, <2>2
<1>5. s <= n BY <1>4 DEF First
<1> QED BY <1>1, <1>2, <1>3, <1>5

(* The scan of malloc_page and palloc.                                     *)
LEMMA ScanFinds ==
    ASSUME all_mem \in Nat, PoolsOK, NEW p \in {kernel_pool, kernel_vaddr}, NEW n \in 0 .. N,
           Upto(p, n), NEW c \in Nat \ {0}, NEW s, First(RunsOf(p, c), s)
    PROVE  s = n /\ n < N /\ n + c <= N + 1
<1>1. N \in Nat /\ BitCount(p) = N BY PoolShape
<1>2. \A i \in 0 .. N - 1 : i \in Taken(p) <=> i < n BY <1>1 DEF Taken, Upto
<1>3. First(Runs(Taken(p), N, c), s) BY <1>1 DEF RunsOf
<1> QED BY <1>1, <1>2, <1>3, FirstRun

(* The frames of the kernel pool that are taken.                           *)
LEMMA TakenFrames ==
    ASSUME all_mem \in Nat, PoolsOK, UsedPages \in Nat
    PROVE  /\ Taken(kernel_pool) \ {BitCount(kernel_pool)} = {i \in 0 .. N - 1 : i \in ram}
           /\ Managed(kernel_pool) = UsedPages .. UsedPages + N - 1
<1>1. N \in Nat /\ BitCount(kernel_pool) = N /\ kernel_pool.base * ByteBits = 0 /\ kernel_pool.start = UsedPages
  BY PoolShape
<1>2. \A i \in Int : kernel_pool.base * ByteBits + i = i BY <1>1
<1>3. Taken(kernel_pool) = {i \in 0 .. N : i \in ram} BY <1>1, <1>2 DEF Taken
<1>4. kernel_pool.len * ByteBits = N BY <1>1 DEF BitCount
<1> QED BY <1>1, <1>3, <1>4 DEF Managed

(* FramesOK says what FramesAccounted says.                                *)
LEMMA Accounted == ASSUME all_mem \in Nat, PoolsOK, FramesOK PROVE FramesAccounted
<1>a. UsedPages \in Nat /\ N \in Nat BY PoolConstants, PoolShape
<1>1. Taken(kernel_pool) \ {BitCount(kernel_pool)} = {i \in 0 .. N - 1 : i \in ram}
      /\ Managed(kernel_pool) = UsedPages .. UsedPages + N - 1 /\ kernel_pool.start = UsedPages
  BY <1>a, TakenFrames, PoolShape
<1> DEFINE A == {UsedPages + i : i \in {j \in 0 .. N - 1 : j \in ram}}
           B == {f \in UsedPages .. UsedPages + N - 1 : InTable(f)} \cup ({frame} \ {NoFrame})
<1>2. ASSUME NEW f \in A PROVE f \in B
  <2>1. PICK i \in 0 .. N - 1 : i \in ram /\ f = UsedPages + i OBVIOUS
  <2>2. frame = f \/ InTable(f) BY <2>1 DEF FramesOK
  <2>3. f \in UsedPages .. UsedPages + N - 1 /\ f # NoFrame BY <2>1, <1>a DEF NoFrame
  <2> QED BY <2>2, <2>3
<1>3. ASSUME NEW f \in B PROVE f \in A
  <2>1. f \in UsedPages .. UsedPages + N - 1 /\ (frame = f \/ InTable(f)) BY DEF FramesOK
  <2>2. f - UsedPages \in 0 .. N - 1 /\ UsedPages + (f - UsedPages) = f BY <2>1, <1>a
  <2>3. f - UsedPages \in ram BY <2>1, <2>2 DEF FramesOK
  <2> QED BY <2>2, <2>3
<1>4. A = B BY <1>2, <1>3
<1>5. Entered = {f \in UsedPages .. UsedPages + N - 1 : InTable(f)} BY <1>1 DEF Entered, InTable
<1> QED BY <1>1, <1>4, <1>5 DEF FramesAccounted

(* The invariant holds when the loader starts.                             *)
LEMMA InitMem == Init => MemInv
<1> SUFFICES ASSUME Init PROVE MemInv OBVIOUS
<1>1. LoaderInv BY InitLoader DEF Init
<1>2. LowPages \in Nat BY LoaderConstants
<1>3. table = [k \in Tables |-> [e \in 0 .. TableSize - 1 |-> NoFrame]] /\ ~booted /\ booted \in BOOLEAN
  BY DEF Init, PoolInit
<1>4. TablesOK /\ \A k \in Tables, e \in 0 .. TableSize - 1 : table[k][e] < LowPages
  BY <1>2, <1>3 DEF TablesOK, NoFrame
<1> QED BY <1>1, <1>3, <1>4 DEF Init, MemInv, FreshOK

(* The parts of MemInv keep while what they speak of does not change.      *)
LEMMA LoaderKept == ASSUME LoaderInv, UNCHANGED loaderVars PROVE LoaderInv'
BY DEF LoaderInv, loaderVars, Top, SizeOK

(* So do the pools.                                                        *)
LEMMA PoolsKept ==
    ASSUME UNCHANGED loaderVars, UNCHANGED poolVars
    PROVE  all_mem' = all_mem /\ stage' = stage /\ N' = N /\ booted' = booted /\ PoolsOK' = PoolsOK
           /\ kernel_pool' = kernel_pool /\ kernel_vaddr' = kernel_vaddr
BY DEF loaderVars, poolVars, N, PoolsOK

(* The steps of the loader, setup_page included.                           *)
LEMMA BootKeeps == ASSUME MemInv, Boot \/ SetupPage PROVE MemInv'
<1>1. CASE Boot
  <2>1. LoaderInv' BY <1>1, LoaderStep DEF Boot, MemInv
  <2>2. ~booted
    BY <1>1 DEF MemInv, RunningOK, Boot, Detect, E820, FindMax, Carry, E801, E88, HltEnds
  <2> QED BY <1>1, <2>1, <2>2 DEF Boot, MemInv, FreshOK, TablesOK, poolVars, callVars
<1>2. CASE SetupPage
  <2>1. LoaderInv' BY <1>2 DEF SetupPage, MemInv, LoaderInv, Stages, Top, SizeOK
  <2>2. ~booted BY <1>2 DEF SetupPage, MemInv, RunningOK
  <2>3. LowPages \in Nat \ {0} /\ TableSize \in Nat /\ LowPages < TableSize /\ 0 \in Tables
    BY LoaderConstants, MemoryConstants DEF Tables
  <2>4. PICK stale : table' = [table EXCEPT ![0] = [e \in 0 .. TableSize - 1 |->
                      IF e < LowPages THEN e ELSE IF e \in stale THEN Stale ELSE NoFrame]]
    BY <1>2 DEF SetupPage
  <2>5. \A e \in 0 .. TableSize - 1 :
           LET x == IF e < LowPages THEN e ELSE IF e \in stale THEN Stale ELSE NoFrame IN
           x \in Int /\ x < LowPages
    BY <2>3 DEF Stale, NoFrame
  <2>6. TablesOK' /\ \A k \in Tables, e \in 0 .. TableSize - 1 : table'[k][e] < LowPages
    BY <2>2, <2>3, <2>4, <2>5 DEF TablesOK, FreshOK, MemInv
  <2> QED BY <1>2, <2>1, <2>2, <2>6 DEF SetupPage, MemInv, FreshOK, poolVars, callVars
<1> QED BY <1>1, <1>2

(* mem_init clears the three bitmaps.                                      *)
LEMMA MemInitKeeps == ASSUME MemInv, MemInit PROVE MemInv'
<1>1. ~booted /\ booted' /\ booted' \in BOOLEAN /\ stage = "kernel" /\ UNCHANGED loaderVars
      /\ UNCHANGED <<table, callVars, given>>
  BY DEF MemInit, MemPoolInit
<1>2. LoaderInv' /\ all_mem' = all_mem /\ all_mem \in Nat /\ stage' = stage
  BY <1>1, LoaderKept DEF MemInv, loaderVars, LoaderInv
<1>3. PoolsOK' BY <1>2 DEF MemInit, MemPoolInit, PoolsOK
<1>4. N' = N /\ N \in Nat BY <1>2, Counts DEF N
<1>5. /\ kernel_pool'.base * ByteBits = 0 /\ kernel_vaddr'.base * ByteBits \in Nat
      /\ N <= kernel_vaddr'.base * ByteBits
      /\ kernel_vaddr'.base \in Nat /\ kernel_vaddr'.len \in Nat /\ kernel_vaddr'.len * ByteBits = N
  <2>1. KbmLength(all_mem) \in Nat /\ UbmLength(all_mem) \in Nat /\ ByteBits \in Nat
    BY <1>2, Counts, PoolConstants
  <2>2. kernel_pool'.base = 0 /\ kernel_vaddr'.base = KbmLength(all_mem) + UbmLength(all_mem)
        /\ kernel_vaddr'.len = KbmLength(all_mem)
    BY DEF MemInit, MemPoolInit, KernelPool, KernelVaddr, Pool
  <2>3. (KbmLength(all_mem) + UbmLength(all_mem)) * ByteBits = N + UbmLength(all_mem) * ByteBits
        /\ UbmLength(all_mem) * ByteBits \in Nat
    BY <2>1 DEF N
  <2>4. 0 * ByteBits = 0 BY <2>1
  <2> QED BY <2>1, <2>2, <2>3, <2>4, <1>4 DEF N
<1>6. \A i \in 0 .. N - 1 : i \notin ram' /\ kernel_vaddr'.base * ByteBits + i \notin ram'
  <2> DEFINE b == kernel_vaddr'.base  l == kernel_vaddr'.len
  <2>1. ram' = ram \ (0 .. (b + l) * ByteBits - 1) BY DEF MemInit
  <2>2. (b + l) * ByteBits = b * ByteBits + l * ByteBits BY <1>5, PoolConstants
  <2>3. \A i \in 0 .. N - 1 : i \in 0 .. (b + l) * ByteBits - 1
                              /\ b * ByteBits + i \in 0 .. (b + l) * ByteBits - 1
    BY <2>2, <1>4, <1>5
  <2> QED BY <2>1, <2>3
<1>7. UsedPages \in Nat /\ LowPages <= UsedPages /\ LowPages \in Nat /\ Heap \in Nat
  BY PoolConstants, LoaderConstants, MemoryConstants DEF Heap
<1>8. FreshOK BY <1>1 DEF MemInv
<1>9. IdleOK'
  <2>1. Upto(kernel_pool, 0)' /\ Upto(kernel_vaddr, 0)' BY <1>4, <1>5, <1>6 DEF Upto
  <2>2. given' = Heap .. Heap + 0 - 1 BY <1>1, <1>7, <1>8 DEF FreshOK
  <2>3. 0 \in 0 .. N' BY <1>4
  <2> QED BY <1>1, <1>8, <2>1, <2>2, <2>3 DEF IdleOK, FreshOK, callVars
<1>10. FramesOK'
  <2>1. frame' = NoFrame BY <1>1, <1>8 DEF FreshOK, callVars
  <2>2. \A i \in 0 .. N - 1 : ~InTable(UsedPages + i)'
    BY <1>1, <1>4, <1>7, <1>8 DEF InTable, FreshOK, MemInv, TablesOK
  <2>3. \A i \in 0 .. N - 1 : frame' # UsedPages + i BY <2>1, <1>4, <1>7 DEF NoFrame
  <2> QED BY <2>1, <2>2, <2>3, <1>4, <1>6 DEF FramesOK
<1>11. TablesOK' BY <1>1 DEF MemInv, TablesOK
<1> QED BY <1>1, <1>2, <1>3, <1>9, <1>10, <1>11 DEF MemInv, RunningOK

(* What the steps of malloc_page start from, and leave alone.              *)
LEMMA CallStart ==
    ASSUME MemInv, booted, UNCHANGED loaderVars, UNCHANGED poolVars
    PROVE  /\ all_mem \in Nat /\ N \in Nat /\ Heap \in Nat /\ UsedPages \in Nat /\ PoolsOK
           /\ kernel_pool.base * ByteBits = 0
           /\ kernel_vaddr.base * ByteBits \in Nat /\ N <= kernel_vaddr.base * ByteBits
           /\ LoaderInv' /\ booted' /\ booted' \in BOOLEAN /\ stage' = "kernel" /\ PoolsOK'
           /\ N' = N /\ kernel_pool' = kernel_pool /\ kernel_vaddr' = kernel_vaddr
<1>1. LoaderInv /\ RunningOK BY DEF MemInv
<1>2. all_mem \in Nat /\ PoolsOK BY <1>1 DEF LoaderInv, RunningOK
<1>3. LoaderInv' BY <1>1, LoaderKept
<1>4. Heap \in Nat /\ UsedPages \in Nat BY PoolConstants, LoaderConstants, MemoryConstants DEF Heap
<1>5. stage' = "kernel" /\ booted' /\ booted' \in BOOLEAN
  BY <1>1 DEF RunningOK, loaderVars, poolVars, MemInv
<1>6. PoolsOK' /\ N' = N /\ kernel_pool' = kernel_pool /\ kernel_vaddr' = kernel_vaddr
  BY <1>2, PoolsKept
<1> QED BY <1>2, <1>3, <1>4, <1>5, <1>6, PoolShape

(* A panic or an endless page fault changes nothing but pc.                *)
LEMMA StopKeeps ==
    ASSUME MemInv, booted, NEW where \in {"scan_panic", "pte_panic", "fault"}, Stop(where)
    PROVE  MemInv'
<1>1. UNCHANGED <<loaderVars, poolVars, ram, table, frame>> /\ pc' = where BY DEF Stop
<1>2. LoaderInv' /\ booted' /\ booted' \in BOOLEAN /\ stage' = "kernel" /\ PoolsOK' /\ N' = N
  BY <1>1, CallStart
<1>3. FramesOK' BY <1>1, <1>2 DEF MemInv, RunningOK, FramesOK, InTable
<1> QED BY <1>1, <1>2, <1>3 DEF MemInv, RunningOK, StoppedOK, TablesOK

(* malloc_page reserves the next pages of the heap, and perhaps one more   *)
(* than there are.                                                         *)
LEMMA MallocKeeps == ASSUME MemInv, NEW c \in Nat \ {0}, Malloc(c) PROVE MemInv'
<1>1. booted /\ pc = "idle" /\ UNCHANGED <<loaderVars, poolVars, table, frame, given>>
      /\ vaddr' = vaddr_start' /\ left' = c /\ asked' = c /\ pc' = "palloc"
  BY DEF Malloc
<1>2. PICK s : First(RunsOf(kernel_vaddr, c), s) /\ BitmapSet(kernel_vaddr, s .. s + c - 1)
               /\ vaddr_start' = kernel_vaddr.start + s
  BY DEF Malloc
<1>a. /\ all_mem \in Nat /\ N \in Nat /\ Heap \in Nat /\ UsedPages \in Nat /\ PoolsOK
      /\ kernel_pool.base * ByteBits = 0
      /\ kernel_vaddr.base * ByteBits \in Nat /\ N <= kernel_vaddr.base * ByteBits
      /\ LoaderInv' /\ booted' /\ booted' \in BOOLEAN /\ stage' = "kernel" /\ PoolsOK'
      /\ N' = N /\ kernel_pool' = kernel_pool /\ kernel_vaddr' = kernel_vaddr
  BY <1>1, CallStart
<1>3. IdleOK /\ FramesOK BY <1>1 DEF MemInv, RunningOK, CallOK, StoppedOK, IdleOK
<1>4. PICK n \in 0 .. N : Upto(kernel_pool, n) /\ Upto(kernel_vaddr, n) /\ given = Heap .. Heap + n - 1
  BY <1>3 DEF IdleOK
<1>5. s = n /\ n < N /\ n + c <= N + 1 BY <1>a, <1>2, <1>4, ScanFinds
<1>6. vaddr_start' = Heap + n BY <1>a, <1>2, <1>5, PoolShape
<1> DEFINE b == kernel_vaddr.base * ByteBits
<1>7. ram' = ram \cup {b + t : t \in n .. n + c - 1} BY <1>2, <1>5 DEF BitmapSet
<1>8. \A i \in 0 .. N - 1 : i \in ram' <=> i \in ram
  <2>1. \A t \in n .. n + c - 1 : b + t \in Nat /\ b + t >= N BY <1>a
  <2> QED BY <1>a, <1>7, <2>1
<1>9. Upto(kernel_pool, n)' 
  <2>1. \A i \in 0 .. N - 1 : kernel_pool.base * ByteBits + i = i BY <1>a
  <2>2. \A i \in 0 .. N - 1 : i \in ram <=> i < n BY <1>4, <2>1 DEF Upto
  <2> QED BY <1>a, <1>8, <2>1, <2>2 DEF Upto
<1>10. Upto(kernel_vaddr, n + c)'
  <2>1. ASSUME NEW i \in 0 .. N - 1 PROVE b + i \in ram' <=> i < n + c
    <3>1. b + i \in ram <=> i < n BY <1>4 DEF Upto
    <3>2. b + i \in {b + t : t \in n .. n + c - 1} <=> i \in n .. n + c - 1 BY <1>a
    <3> QED BY <1>7, <3>1, <3>2, <1>a
  <2> QED BY <1>a, <2>1 DEF Upto
<1>11. CallOK'
  <2>1. Heap + n - Heap = n /\ Heap + n + c - Heap = n + c /\ Heap + n \in Nat /\ Heap + n - 1 = (Heap + n) - 1
    BY <1>a
  <2>2. {vaddr', vaddr_start', left', asked'} \subseteq Nat BY <1>1, <1>6, <2>1
  <2>3. Upto(kernel_vaddr, vaddr_start + asked - Heap)'
    <3>1. vaddr_start' + asked' - Heap = n + c BY <1>1, <1>6, <2>1
    <3> QED BY <1>10, <3>1 DEF Upto
  <2>4. Upto(kernel_pool, vaddr - Heap)'
    <3>1. vaddr' = Heap + n BY <1>1, <1>6
    <3>2. vaddr' - Heap = n BY <1>a, <3>1
    <3> QED BY <1>9, <3>2 DEF Upto
  <2>5. given' = Heap .. vaddr_start' - 1 BY <1>1, <1>4, <1>6, <2>1
  <2>6. frame' = NoFrame BY <1>1, <1>3 DEF IdleOK
  <2> QED BY <1>1, <1>5, <1>6, <1>a, <2>1, <2>2, <2>3, <2>4, <2>5, <2>6 DEF CallOK
<1>12. FramesOK' BY <1>1, <1>3, <1>8, <1>a DEF FramesOK, InTable
<1> QED BY <1>1, <1>a, <1>11, <1>12 DEF MemInv, RunningOK, TablesOK

(* palloc takes the next frame.                                            *)
LEMMA PallocKeeps == ASSUME MemInv, booted, Palloc PROVE MemInv'
<1>1. pc = "palloc" /\ left > 0 /\ left' = left - 1 /\ pc' = "add"
      /\ UNCHANGED <<loaderVars, poolVars, table, vaddr_start, vaddr, asked, given>>
  BY DEF Palloc
<1>2. PICK s : First(RunsOf(kernel_pool, 1), s) /\ BitmapSet(kernel_pool, {s})
               /\ frame' = kernel_pool.start + s
  BY DEF Palloc
<1>a. /\ all_mem \in Nat /\ N \in Nat /\ Heap \in Nat /\ UsedPages \in Nat /\ PoolsOK
      /\ kernel_pool.base * ByteBits = 0
      /\ kernel_vaddr.base * ByteBits \in Nat /\ N <= kernel_vaddr.base * ByteBits
      /\ LoaderInv' /\ booted' /\ booted' \in BOOLEAN /\ stage' = "kernel" /\ PoolsOK'
      /\ N' = N /\ kernel_pool' = kernel_pool /\ kernel_vaddr' = kernel_vaddr
  BY <1>1, CallStart
<1>3. CallOK /\ FramesOK BY <1>1 DEF MemInv, RunningOK, CallOK, StoppedOK, IdleOK
<1> DEFINE n == vaddr - Heap
<1>4. n \in 0 .. N /\ Upto(kernel_pool, n) /\ frame = NoFrame BY <1>1, <1>3, <1>a DEF CallOK
<1>b. n' = n BY <1>1
<1> HIDE DEF n
<1>5. s = n /\ n < N BY <1>a, <1>2, <1>4, ScanFinds
<1>6. frame' = UsedPages + n BY <1>a, <1>2, <1>5, PoolShape
<1>7. ram' = ram \cup {n}
  <2>1. kernel_pool.base * ByteBits + n = n BY <1>a, <1>4
  <2> QED BY <1>2, <1>5, <2>1 DEF BitmapSet
<1>8. Upto(kernel_pool, n + 1)'
  <2>1. \A i \in 0 .. N - 1 : kernel_pool.base * ByteBits + i = i BY <1>a
  <2>2. \A i \in 0 .. N - 1 : i \in ram <=> i < n BY <1>4, <2>1 DEF Upto
  <2>3. \A i \in 0 .. N - 1 : i \in ram' <=> i < n + 1 BY <2>2, <1>4, <1>7
  <2>4. \A i \in 0 .. N - 1 : kernel_pool.base * ByteBits + i \in ram' <=> i < n + 1 BY <2>1, <2>3
  <2> QED BY <1>a, <1>b, <2>4 DEF Upto
<1>9. ASSUME NEW m \in Int, Upto(kernel_vaddr, m) PROVE Upto(kernel_vaddr, m)'
  <2>1. \A i \in 0 .. N - 1 : kernel_vaddr.base * ByteBits + i # n BY <1>a, <1>4, <1>5
  <2> QED BY <1>9, <1>7, <1>a, <2>1 DEF Upto
<1>10. CallOK'
  <2>1. {vaddr, vaddr_start, left, asked} \subseteq Nat /\ Heap <= vaddr_start /\ vaddr_start <= vaddr
        /\ Upto(kernel_vaddr, vaddr_start + asked - Heap) /\ given = Heap .. vaddr_start - 1
        /\ vaddr + left = vaddr_start + asked
    BY <1>1, <1>3 DEF CallOK
  <2>2. left' \in Nat /\ vaddr' + 1 + left' = vaddr_start' + asked' BY <1>1, <2>1
  <2>3. vaddr_start + asked - Heap \in Int BY <2>1, <1>a
  <2>4. Upto(kernel_vaddr, vaddr_start + asked - Heap)' BY <1>1, <1>9, <2>1, <2>3 DEF Upto
  <2>5. Upto(kernel_pool, vaddr - Heap + 1)' BY <1>1, <1>8 DEF Upto, n
  <2>6. frame' = UsedPages + (vaddr' - Heap) /\ vaddr' - Heap < N' BY <1>1, <1>5, <1>6, <1>a DEF n
  <2> QED BY <1>1, <2>1, <2>2, <2>4, <2>5, <2>6 DEF CallOK
<1>11. FramesOK'
  <2>1. \A i \in 0 .. N - 1 : i \in ram <=> InTable(UsedPages + i)
    BY <1>3, <1>4, <1>a DEF FramesOK, NoFrame
  <2>2. \A i \in 0 .. N - 1 : InTable(UsedPages + i)' <=> InTable(UsedPages + i)
    BY <1>1, <1>a DEF InTable
  <2>3. \A i \in 0 .. N - 1 : frame' = UsedPages + i <=> i = n BY <1>4, <1>6, <1>a
  <2>4. frame' \in UsedPages .. UsedPages + N - 1 BY <1>4, <1>5, <1>6, <1>a
  <2> QED BY <1>7, <1>a, <2>1, <2>2, <2>3, <2>4 DEF FramesOK
<1> QED BY <1>1, <1>a, <1>10, <1>11 DEF MemInv, RunningOK, TablesOK

(* Where page_table_add writes the entry: in a table that the loader made, *)
(* for a frame of the kernel pool.                                         *)
LEMMA EntryInTable ==
    ASSUME all_mem \in Nat, PoolsOK, NEW f \in UsedPages .. UsedPages + N - 1, PdePresent(PDE_IDX(f)),
           TablesOK
    PROVE  /\ TableOf(PDE_IDX(f)) \in Tables /\ PTE_IDX(f) \in 0 .. TableSize - 1
           /\ Mapped(f) = table[TableOf(PDE_IDX(f))][PTE_IDX(f)]
<1>a. TableSize \in Nat \ {0} /\ KernelPde \in Nat /\ 0 < KernelPde /\ KernelPde + 1 < TableSize
      /\ UsedPages <= TableSize /\ LowPages \in Nat \ {0} /\ CountModulus \in Nat /\ UsedPages \in Nat
      /\ LowPages + CountModulus \div 2 < (TableSize - 1 - KernelPde) * TableSize
  BY LoaderConstants, PoolConstants, MemoryConstants
<1>b. N \in Nat /\ N <= CountModulus \div 2 BY PoolShape, LayoutOK
<1>1. f < (TableSize - 1) * TableSize /\ f \in Nat
  <2> DEFINE x == (TableSize - 1 - KernelPde) * TableSize
  <2>1. x \in Int /\ TableSize + x = (TableSize - KernelPde) * TableSize BY <1>a
  <2>2. (TableSize - KernelPde) * TableSize <= (TableSize - 1) * TableSize BY <1>a
  <2>3. CountModulus \div 2 < x /\ CountModulus \div 2 \in Nat BY <1>a
  <2>4. (TableSize - KernelPde) * TableSize \in Int /\ (TableSize - 1) * TableSize \in Int BY <1>a
  <2> HIDE DEF x
  <2>5. f < TableSize + x BY <1>a, <1>b, <2>1, <2>3
  <2> QED BY <2>1, <2>2, <2>4, <2>5, <1>a, <1>b
<1>2. PDE_IDX(f) < TableSize - 1 /\ PDE_IDX(f) \in Nat
  <2>1. f \div TableSize < TableSize - 1
    <3>1. TableSize - 1 \in Nat BY <1>a
    <3> QED BY <1>1, <1>a, <3>1, DivLess
  <2>2. f \div TableSize \in Nat BY <1>1, <1>a, DivBounds
  <2> QED BY <2>1, <2>2 DEF PDE_IDX
<1>3. PDE_IDX(f) \in {0} \cup (KernelPde .. TableSize - 2) BY <1>2, <1>a DEF PdePresent
<1>4. TableOf(PDE_IDX(f)) \in Tables BY <1>3, <1>a DEF TableOf, Tables
<1>5. PTE_IDX(f) \in 0 .. TableSize - 1 BY <1>1, <1>a, ModBounds DEF PTE_IDX
<1> QED BY <1>3, <1>4, <1>5 DEF Mapped

(* page_table_add enters the frame and nothing else changes.               *)
LEMMA AddKeeps == ASSUME MemInv, booted, PageTableAdd PROVE MemInv'
<1>1. pc = "add" /\ vaddr' = vaddr + 1 /\ frame' = NoFrame /\ pc' = "palloc"
      /\ UNCHANGED <<loaderVars, poolVars, ram, vaddr_start, left, asked, given>>
  BY DEF PageTableAdd
<1>a. /\ all_mem \in Nat /\ N \in Nat /\ Heap \in Nat /\ UsedPages \in Nat /\ PoolsOK
      /\ LoaderInv' /\ booted' /\ booted' \in BOOLEAN /\ stage' = "kernel" /\ PoolsOK'
      /\ N' = N /\ kernel_pool' = kernel_pool /\ kernel_vaddr' = kernel_vaddr
  BY <1>1, CallStart
<1>2. CallOK /\ FramesOK /\ TablesOK BY <1>1 DEF MemInv, RunningOK, CallOK, StoppedOK, IdleOK
<1>3. frame \in UsedPages .. UsedPages + N - 1 /\ vaddr - Heap \in 0 .. N - 1 /\ frame = UsedPages + (vaddr - Heap)
  <2>1. vaddr \in Nat /\ Heap <= vaddr /\ vaddr - Heap < N /\ frame = UsedPages + (vaddr - Heap)
    <3>1. {vaddr, vaddr_start} \subseteq Nat /\ Heap <= vaddr_start /\ vaddr_start <= vaddr
          /\ vaddr - Heap < N /\ frame = UsedPages + (vaddr - Heap)
      BY <1>1, <1>2 DEF CallOK
    <3> QED BY <3>1, <1>a
  <2>2. vaddr - Heap \in 0 .. N - 1 BY <2>1, <1>a
  <2> QED BY <2>1, <2>2, <1>a
<1> DEFINE k == TableOf(PDE_IDX(frame))
           e == PTE_IDX(frame)
<1>4. table' = [table EXCEPT ![k][e] = frame] /\ Mapped(frame) = NoFrame /\ PdePresent(PDE_IDX(frame))
  BY DEF PageTableAdd, PteOf
<1>5. k \in Tables /\ e \in 0 .. TableSize - 1 /\ table[k][e] = NoFrame
  BY <1>2, <1>3, <1>4, <1>a, EntryInTable
<1> HIDE DEF k, e
<1>6. TablesOK' BY <1>2, <1>3, <1>4, <1>5, <1>a DEF TablesOK
<1>7. ASSUME NEW f \in UsedPages .. UsedPages + N - 1
      PROVE  InTable(f)' <=> f = frame \/ InTable(f)
  <2>1. f # NoFrame BY <1>a DEF NoFrame
  <2>2. \A j \in Tables, d \in 0 .. TableSize - 1 :
           table'[j][d] = IF j = k /\ d = e THEN frame ELSE table[j][d]
    BY <1>2, <1>4 DEF TablesOK
  <2> QED BY <2>1, <2>2, <1>5 DEF InTable
<1>8. FramesOK'
  <2>1. \A i \in 0 .. N - 1 : UsedPages + i \in UsedPages .. UsedPages + N - 1 /\ UsedPages + i # NoFrame
    BY <1>a DEF NoFrame
  <2>2. \A i \in 0 .. N - 1 : i \in ram' <=> InTable(UsedPages + i)'
    BY <1>1, <1>2, <1>7, <2>1 DEF FramesOK
  <2> QED BY <1>1, <1>a, <2>1, <2>2 DEF FramesOK
<1>9. CallOK'
  <2>1. {vaddr, vaddr_start, left, asked} \subseteq Nat /\ Heap <= vaddr_start /\ vaddr_start <= vaddr
        /\ Upto(kernel_vaddr, vaddr_start + asked - Heap) /\ given = Heap .. vaddr_start - 1
        /\ vaddr + 1 + left = vaddr_start + asked /\ Upto(kernel_pool, vaddr - Heap + 1)
    BY <1>1, <1>2 DEF CallOK
  <2>2. vaddr' - Heap = vaddr - Heap + 1 /\ vaddr' - Heap <= N /\ vaddr' \in Nat /\ vaddr_start <= vaddr'
    <3>1. vaddr' = vaddr + 1 /\ vaddr \in Nat /\ vaddr_start \in Nat /\ vaddr_start <= vaddr
          /\ vaddr - Heap \in 0 .. N - 1
      BY <1>1, <1>3, <2>1
    <3> QED BY <3>1, <1>a
  <2>3. Upto(kernel_vaddr, vaddr_start + asked - Heap)' BY <1>1, <1>a, <2>1 DEF Upto
  <2>4. Upto(kernel_pool, vaddr - Heap)' BY <1>1, <1>a, <2>1, <2>2 DEF Upto
  <2> QED BY <1>1, <1>a, <2>1, <2>2, <2>3, <2>4 DEF CallOK
<1> QED BY <1>a, <1>6, <1>8, <1>9 DEF MemInv, RunningOK

(* malloc_page returns the pages it reserved: they are of the heap, since  *)
(* each has its frame, and follow those given before.                      *)
LEMMA ReturnKeeps ==
    ASSUME MemInv, booted, Return
    PROVE  /\ MemInv'
           /\ vaddr_start .. vaddr_start + asked - 1 \subseteq Managed(kernel_vaddr)
           /\ (vaddr_start .. vaddr_start + asked - 1) \cap given = {}
<1>1. pc = "palloc" /\ left = 0 /\ pc' = "idle"
      /\ given' = given \cup (vaddr_start .. vaddr_start + asked - 1)
      /\ UNCHANGED <<loaderVars, poolVars, ram, table, left, frame>>
  BY DEF Return
<1>a. /\ all_mem \in Nat /\ N \in Nat /\ Heap \in Nat /\ UsedPages \in Nat /\ PoolsOK
      /\ LoaderInv' /\ booted' /\ booted' \in BOOLEAN /\ stage' = "kernel" /\ PoolsOK'
      /\ N' = N /\ kernel_pool' = kernel_pool /\ kernel_vaddr' = kernel_vaddr
  BY <1>1, CallStart
<1>2. CallOK /\ FramesOK /\ TablesOK BY <1>1 DEF MemInv, RunningOK, CallOK, StoppedOK, IdleOK
<1>3. {vaddr, vaddr_start, asked} \subseteq Nat /\ Heap <= vaddr_start /\ vaddr_start <= vaddr
      /\ Upto(kernel_vaddr, vaddr_start + asked - Heap) /\ given = Heap .. vaddr_start - 1
      /\ vaddr + left = vaddr_start + asked /\ Upto(kernel_pool, vaddr - Heap) /\ vaddr - Heap <= N
      /\ frame = NoFrame
  BY <1>1, <1>2 DEF CallOK
<1> DEFINE n == vaddr - Heap
<1>4. n \in 0 .. N /\ vaddr = vaddr_start + asked /\ vaddr = Heap + n BY <1>1, <1>3, <1>a
<1> HIDE DEF n
<1>5. given' = Heap .. Heap + n - 1
  <2>1. given' = (Heap .. vaddr_start - 1) \cup (vaddr_start .. vaddr - 1) BY <1>1, <1>3, <1>4
  <2>2. (Heap .. vaddr_start - 1) \cup (vaddr_start .. vaddr - 1) = Heap .. vaddr - 1 BY <1>3, <1>a
  <2>3. vaddr - 1 = Heap + n - 1 BY <1>4, <1>3, <1>a
  <2> QED BY <2>1, <2>2, <2>3
<1>6. Upto(kernel_pool, n) /\ Upto(kernel_vaddr, n)
  <2>1. vaddr_start + asked - Heap = n
    <3>1. vaddr_start \in Int /\ asked \in Int /\ Heap \in Int /\ n \in Int BY <1>3, <1>4, <1>a
    <3>2. vaddr_start + asked = Heap + n BY <1>4
    <3> QED BY <3>1, <3>2
  <2> QED BY <2>1, <1>3 DEF n
<1>7. \A i \in 0 .. N - 1 : (kernel_pool.base * ByteBits + i \in ram <=> i < n)
                            /\ (kernel_vaddr.base * ByteBits + i \in ram <=> i < n)
  BY <1>6 DEF Upto
<1>8. IdleOK'
  <2>1. \E m \in 0 .. N : /\ \A i \in 0 .. N - 1 : (kernel_pool.base * ByteBits + i \in ram <=> i < m)
                                               /\ (kernel_vaddr.base * ByteBits + i \in ram <=> i < m)
                          /\ given' = Heap .. Heap + m - 1
    BY <1>4, <1>5, <1>7
  <2> QED BY <1>1, <1>3, <1>a, <2>1 DEF IdleOK, Upto
<1>9. FramesOK' BY <1>1, <1>2, <1>a DEF FramesOK, InTable
<1>10. Managed(kernel_vaddr) = Heap .. Heap + N - 1
  <2>1. kernel_vaddr.len * ByteBits = N /\ kernel_vaddr.start = Heap BY <1>a, PoolShape DEF BitCount
  <2> QED BY <2>1 DEF Managed
<1>11. vaddr_start .. vaddr_start + asked - 1 \subseteq Heap .. Heap + N - 1
       /\ (vaddr_start .. vaddr_start + asked - 1) \cap (Heap .. vaddr_start - 1) = {}
  <2>1. vaddr_start + asked - 1 = vaddr - 1 /\ vaddr <= Heap + N BY <1>3, <1>4, <1>a
  <2>2. vaddr_start .. vaddr - 1 \subseteq Heap .. Heap + N - 1 BY <2>1, <1>3, <1>a
  <2> QED BY <2>1, <2>2, <1>3, <1>a
<1> QED BY <1>1, <1>2, <1>3, <1>a, <1>8, <1>9, <1>10, <1>11 DEF MemInv, RunningOK, TablesOK

(* Before mem_init nothing but the loader and mem_init does anything.      *)
LEMMA CallBooted ==
    ASSUME MemInv, MallocUser \/ PallocFull \/ Palloc \/ PageTableFault \/ PageTableRepeat \/ PageTableAdd \/ Return
    PROVE  booted
BY DEF MemInv, FreshOK, MallocUser, PallocFull, Palloc, PageTableFault, PageTableRepeat, PageTableAdd, Return

(* A step that changes nothing keeps the invariant.                        *)
LEMMA MemKept == ASSUME MemInv, UNCHANGED memVars PROVE MemInv'
<1>1. UNCHANGED <<loaderVars, poolVars, ram, table, callVars, given>> BY DEF memVars
<1>2. LoaderInv' BY <1>1, LoaderKept DEF MemInv
<1>3. N' = N /\ PoolsOK' = PoolsOK /\ booted' = booted /\ stage' = stage
      /\ kernel_pool' = kernel_pool /\ kernel_vaddr' = kernel_vaddr
  BY <1>1, PoolsKept
<1>4. UNCHANGED <<pc, vaddr_start, vaddr, left, frame, asked>> BY <1>1 DEF callVars
<1>5. ~booted' => FreshOK' BY <1>1, <1>3, <1>4 DEF MemInv, FreshOK
<1>6. ASSUME booted PROVE RunningOK'
  <2>1. FramesOK' BY <1>1, <1>3, <1>4, <1>6 DEF MemInv, RunningOK, FramesOK, InTable
  <2>2. IdleOK => IdleOK' BY <1>1, <1>3, <1>4 DEF IdleOK, Upto
  <2>3. CallOK => CallOK' BY <1>1, <1>3, <1>4 DEF CallOK, Upto
  <2>4. StoppedOK => StoppedOK' BY <1>4 DEF StoppedOK
  <2> QED BY <1>3, <1>6, <2>1, <2>2, <2>3, <2>4 DEF MemInv, RunningOK
<1> QED BY <1>1, <1>2, <1>3, <1>5, <1>6 DEF MemInv, TablesOK

(* Every step keeps the invariant, one case per action.                    *)
LEMMA MemStep == MemInv /\ [Next]_memVars => MemInv'
<1> SUFFICES ASSUME MemInv, [Next]_memVars PROVE MemInv' OBVIOUS
<1>1. CASE Boot \/ SetupPage BY <1>1, BootKeeps
<1>2. CASE MemInit BY <1>2, MemInitKeeps
<1>3. ASSUME NEW c \in Requests, MallocFull(c) PROVE MemInv' BY <1>3, StopKeeps DEF MallocFull
<1>4. ASSUME NEW c \in Requests, Malloc(c) PROVE MemInv' BY <1>4, MallocKeeps, MemoryConstants
<1>5. CASE PallocFull BY <1>5, CallBooted, StopKeeps DEF PallocFull
<1>6. CASE Palloc BY <1>6, CallBooted, PallocKeeps
<1>7. CASE PageTableFault BY <1>7, CallBooted, StopKeeps DEF PageTableFault
<1>8. CASE PageTableRepeat BY <1>8, CallBooted, StopKeeps DEF PageTableRepeat
<1>9. CASE PageTableAdd BY <1>9, CallBooted, AddKeeps
<1>10. CASE Return BY <1>10, CallBooted, ReturnKeeps
<1>11. CASE UNCHANGED memVars BY <1>11, MemKept
<1> QED BY <1>1, <1>2, <1>3, <1>4, <1>5, <1>6, <1>7, <1>8, <1>9, <1>10, <1>11
        DEF Next, Wild, MallocNull, MallocUser, Stopped

(* The memory manager's invariant.                                         *)
THEOREM MemoryInvariant == Spec => []MemInv
BY InitMem, MemStep, PTL DEF Spec

(* For every memory map and every answer of the BIOS that ards_buf has     *)
(* room for, the two pools are disjoint, above the pages in use, and in    *)
(* the memory that the machine has (loader.S, memory.c mem_pool_init).     *)
THEOREM PoolsSafe == Spec => []PoolsInMemory
<1>1. MemInv => PoolsInMemory
  <2> SUFFICES ASSUME MemInv, booted, ~spilled
               PROVE  /\ UsedPages <= kernel_pool.start
                      /\ kernel_pool.start + kernel_pool.len * ByteBits <= user_pool.start
                      /\ user_pool.start + user_pool.len * ByteBits <= Min({machine, HoleStart})
    BY DEF PoolsInMemory
  <2>1. LoaderInv /\ PoolsOK /\ SizeOK BY DEF MemInv, RunningOK, LoaderInv
  <2> QED BY <2>1, PoolsFit
<1> QED BY <1>1, MemoryInvariant, PTL

(* The three bitmaps end below the pcb, and the heap ends below the        *)
(* addresses of the page directory (memory.c:7-10, loader.S setup_page).   *)
THEOREM LayoutSafe == Spec => []LayoutFits
<1>1. MemInv => LayoutFits
  <2> SUFFICES ASSUME MemInv, booted PROVE LayoutFits BY DEF LayoutFits
  <2>1. all_mem \in Nat /\ PoolsOK BY DEF MemInv, RunningOK, LoaderInv
  <2> QED BY <2>1, LayoutOK DEF LayoutFits
<1> QED BY <1>1, MemoryInvariant, PTL

(* No frame of the kernel pool is lost between palloc and page_table_add.  *)
THEOREM NoFrameLost == Spec => []FramesAccounted
<1>1. MemInv => FramesAccounted
  <2> SUFFICES ASSUME MemInv, booted PROVE FramesAccounted BY DEF FramesAccounted
  <2>1. all_mem \in Nat /\ PoolsOK /\ FramesOK BY DEF MemInv, RunningOK, LoaderInv
  <2> QED BY <2>1, Accounted
<1> QED BY <1>1, MemoryInvariant, PTL

(* malloc_page hands out every page of the heap at most once, and no page  *)
(* after it.                                                               *)
THEOREM PagesGivenOnce == Spec => GivenOnce
<1> DEFINE Once == given' # given =>
                     LET range == vaddr_start .. vaddr_start + asked - 1 IN
                     /\ range \subseteq Managed(kernel_vaddr)
                     /\ range \cap given = {}
<1>1. ASSUME MemInv, [Next]_memVars PROVE [Once]_memVars
  <2>1. CASE Return BY <1>1, <2>1, CallBooted, ReturnKeeps
  <2>2. CASE given' = given BY <2>2
  <2>3. Return \/ given' = given

      BY <1>1 DEF Next, Boot, SetupPage, MemInit, Wild, MallocFull, MallocNull, Malloc, MallocUser, PallocFull,
                Palloc, PageTableFault, PageTableRepeat, PageTableAdd, Stopped, Stop, memVars
  <2> QED BY <2>1, <2>2, <2>3
<1> QED BY <1>1, MemoryInvariant, PTL DEF Spec, GivenOnce

(* With the frames below the number of the first kernel page, the entry    *)
(* that page_table_add computes for a frame is the frame's own number in   *)
(* the first table.                                                        *)
LEMMA LowEntry ==
    ASSUME all_mem \in Nat, PoolsOK, NEW f \in UsedPages .. UsedPages + N - 1, PdePresent(PDE_IDX(f))
    PROVE  TableOf(PDE_IDX(f)) = 0 /\ PTE_IDX(f) = f /\ f \in 0 .. TableSize - 1
<1>a. TableSize \in Nat \ {0} /\ KernelPde \in Nat /\ UsedPages \in Nat /\ CountModulus \in Nat
      /\ UsedPages + CountModulus \div 2 <= KernelPde * TableSize
  BY PoolConstants, MemoryConstants
<1>b. N \in Nat /\ N <= CountModulus \div 2 BY PoolShape, LayoutOK
<1>1. f \in Nat /\ f < KernelPde * TableSize
  <2> DEFINE x == KernelPde * TableSize
  <2>1. x \in Int /\ CountModulus \div 2 \in Int BY <1>a
  <2>2. UsedPages + CountModulus \div 2 <= x BY <1>a
  <2> HIDE DEF x
  <2>3. f \in Nat /\ f < x BY <1>a, <1>b, <2>1, <2>2
  <2> QED BY <2>3 DEF x
<1>2. f \div TableSize < KernelPde /\ f \div TableSize \in Nat BY <1>1, <1>a, DivLess, DivBounds
<1>3. f \div TableSize = 0 BY <1>2, <1>a DEF PdePresent, PDE_IDX
<1>4. f < TableSize
  <2>1. f < (f \div TableSize) * TableSize + TableSize BY <1>1, <1>a, DivBounds
  <2> QED BY <2>1, <1>3, <1>a
<1>5. f % TableSize = f
  <2>1. f \in Int /\ f \in 0 .. TableSize - 1 BY <1>1, <1>4, <1>a
  <2> QED BY <2>1, <1>a, ModBounds, Zenon
<1> QED BY <1>1, <1>3, <1>4, <1>5, <1>a DEF TableOf, PDE_IDX, PTE_IDX

(* The invariant behind RepeatMeansStale: a present entry that somebody    *)
(* wrote leads to the page of its own number, and the frame that is on its *)
(* way to page_table_add is in no table.                                   *)
EntriesInv ==
    /\ \A k \in Tables, e \in 0 .. TableSize - 1 : table[k][e] \in {NoFrame, Stale, e}
    /\ frame # NoFrame => ~InTable(frame)
    /\ RepeatMeansStale

LEMMA InitEntries == Init => EntriesInv
BY DEF Init, EntriesInv, RepeatMeansStale

LEMMA EntriesStep == MemInv /\ EntriesInv /\ [Next]_memVars => EntriesInv'
<1> SUFFICES ASSUME MemInv, EntriesInv, [Next]_memVars PROVE EntriesInv' OBVIOUS
<1>1. CASE UNCHANGED <<table, frame>> /\ ((pc' = pc /\ vaddr' = vaddr) \/ pc' # "pte_panic")
  <2>1. \A f : InTable(f)' <=> InTable(f) BY <1>1 DEF InTable
  <2>2. RepeatMeansStale'
    <3>1. CASE pc' # "pte_panic" BY <3>1 DEF RepeatMeansStale
    <3>2. CASE pc' = pc /\ vaddr' = vaddr
      <4>1. Mapped(PteOf(vaddr, frame))' = Mapped(PteOf(vaddr, frame)) BY <1>1, <3>2 DEF Mapped, PteOf
      <4> QED BY <3>2, <4>1 DEF EntriesInv, RepeatMeansStale
    <3> QED BY <1>1, <3>1, <3>2
  <2> QED BY <1>1, <2>1, <2>2 DEF EntriesInv
<1>2. CASE SetupPage
  <2>1. 0 \in Tables /\ pc' = pc /\ frame' = frame /\ vaddr' = vaddr
    <3>1. 0 \in Tables BY MemoryConstants DEF Tables
    <3> QED BY <1>2, <3>1 DEF SetupPage, callVars
  <2>2. ~booted BY <1>2 DEF SetupPage, MemInv, RunningOK
  <2>3. pc = "idle" /\ frame = NoFrame BY <2>2 DEF MemInv, FreshOK
  <2>4. PICK stale : table' = [table EXCEPT ![0] = [e \in 0 .. TableSize - 1 |->
                      IF e < LowPages THEN e ELSE IF e \in stale THEN Stale ELSE NoFrame]]
    BY <1>2 DEF SetupPage
  <2>5. \A k \in Tables, e \in 0 .. TableSize - 1 : table'[k][e] \in {NoFrame, Stale, e}
    BY <2>1, <2>4 DEF MemInv, TablesOK, EntriesInv
  <2> QED BY <2>1, <2>3, <2>5 DEF EntriesInv, RepeatMeansStale
<1>3. CASE Palloc
  <2>1. booted /\ pc' = "add" /\ table' = table BY <1>3, CallBooted DEF Palloc
  <2>a. UNCHANGED <<loaderVars, poolVars>> BY <1>3 DEF Palloc
  <2>2. /\ all_mem \in Nat /\ N \in Nat /\ UsedPages \in Nat /\ PoolsOK /\ Heap \in Nat
        /\ kernel_pool.base * ByteBits = 0
    BY <2>1, <2>a, CallStart
  <2>3. CallOK /\ FramesOK BY <1>3, <2>1 DEF MemInv, RunningOK, CallOK, StoppedOK, IdleOK, Palloc
  <2>4. PICK s : First(RunsOf(kernel_pool, 1), s) /\ frame' = kernel_pool.start + s BY <1>3 DEF Palloc
  <2> DEFINE n == vaddr - Heap
  <2>5. n \in 0 .. N /\ Upto(kernel_pool, n) /\ frame = NoFrame BY <1>3, <2>2, <2>3 DEF CallOK, Palloc
  <2> HIDE DEF n
  <2>6. s = n /\ n < N BY <2>2, <2>4, <2>5, ScanFinds
  <2>7. frame' = UsedPages + n /\ n \in 0 .. N - 1 BY <2>2, <2>4, <2>5, <2>6, PoolShape
  <2>8. n \notin ram BY <2>2, <2>5, <2>7 DEF Upto
  <2>9. ~InTable(UsedPages + n) BY <2>3, <2>7, <2>8 DEF FramesOK
  <2> QED BY <2>1, <2>7, <2>9 DEF EntriesInv, RepeatMeansStale, InTable
<1>4. ASSUME pc = "add", booted, PdePresent(PDE_IDX(frame))
      PROVE  /\ Mapped(frame) = table[0][frame] /\ 0 \in Tables /\ frame \in 0 .. TableSize - 1
             /\ TableOf(PDE_IDX(frame)) = 0 /\ PTE_IDX(frame) = frame /\ frame # NoFrame
  <2>1. all_mem \in Nat /\ PoolsOK /\ CallOK /\ TablesOK /\ FramesOK /\ UsedPages \in Nat
    BY <1>4, PoolConstants DEF MemInv, RunningOK, LoaderInv, IdleOK, CallOK, StoppedOK
  <2>2. frame \in UsedPages .. UsedPages + N - 1
    <3>1. {vaddr, vaddr_start} \subseteq Nat /\ Heap <= vaddr_start /\ vaddr_start <= vaddr
          /\ frame = UsedPages + (vaddr - Heap)
      BY <1>4, <2>1 DEF CallOK
    <3>2. Heap \in Nat BY LoaderConstants, MemoryConstants DEF Heap
    <3>3. frame # NoFrame BY <3>1, <3>2, <2>1 DEF NoFrame
    <3> QED BY <2>1, <3>3 DEF FramesOK
  <2>3. TableOf(PDE_IDX(frame)) = 0 /\ PTE_IDX(frame) = frame /\ frame \in 0 .. TableSize - 1
    BY <1>4, <2>1, <2>2, LowEntry
  <2>4. 0 \in Tables /\ Mapped(frame) = table[0][frame] BY <1>4, <2>1, <2>2, <2>3, EntryInTable
  <2> QED BY <2>3, <2>4, MemoryConstants DEF NoFrame
<1>5. CASE PageTableRepeat
  <2>1. booted /\ pc = "add" /\ PdePresent(PDE_IDX(frame)) /\ Mapped(frame) # NoFrame
        /\ UNCHANGED <<table, frame, vaddr>> /\ pc' = "pte_panic"
    BY <1>5, CallBooted DEF PageTableRepeat, PteOf, Stop
  <2>2. Mapped(frame) = table[0][frame] /\ 0 \in Tables /\ frame \in 0 .. TableSize - 1 /\ frame # NoFrame
    BY <1>4, <2>1
  <2>3. table[0][frame] # frame BY <2>2 DEF EntriesInv, InTable
  <2>4. Mapped(frame) = Stale BY <2>1, <2>2, <2>3 DEF EntriesInv
  <2>5. RepeatMeansStale' BY <2>1, <2>4 DEF RepeatMeansStale, PteOf, Mapped
  <2>6. \A f : InTable(f)' <=> InTable(f) BY <2>1 DEF InTable
  <2> QED BY <2>1, <2>5, <2>6 DEF EntriesInv
<1>6. CASE PageTableAdd
  <2>1. booted /\ pc = "add" /\ PdePresent(PDE_IDX(frame)) /\ frame' = NoFrame /\ pc' = "palloc"
        /\ table' = [table EXCEPT ![TableOf(PDE_IDX(frame))][PTE_IDX(frame)] = frame]
    BY <1>6, CallBooted DEF PageTableAdd, PteOf
  <2>2. 0 \in Tables /\ frame \in 0 .. TableSize - 1
        /\ TableOf(PDE_IDX(frame)) = 0 /\ PTE_IDX(frame) = frame
    BY <1>4, <2>1
  <2>3. table' = [table EXCEPT ![0][frame] = frame] BY <2>1, <2>2
  <2>4. \A k \in Tables, e \in 0 .. TableSize - 1 : table'[k][e] \in {NoFrame, Stale, e}
    BY <2>2, <2>3 DEF MemInv, TablesOK, EntriesInv
  <2> QED BY <2>1, <2>4 DEF EntriesInv, RepeatMeansStale
<1> QED
    BY <1>1, <1>2, <1>3, <1>5, <1>6
    DEF Next, Boot, MemInit, Wild, MallocFull, MallocNull, Malloc, MallocUser, PallocFull,
        PageTableFault, Return, Stopped, Stop, callVars, memVars

(* The assertion "pte repeat" fails only over an entry that nobody has     *)
(* initialised: no frame is entered twice, and none over the kernel's own  *)
(* pages.                                                                  *)
THEOREM RepeatOnlyStale == Spec => []RepeatMeansStale
<1>1. EntriesInv => RepeatMeansStale BY DEF EntriesInv
<1> QED BY <1>1, MemoryInvariant, InitEntries, EntriesStep, PTL DEF Spec
=============================================================================
