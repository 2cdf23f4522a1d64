------------------------------- MODULE Loader -------------------------------
(***************************************************************************)
(* How the loader of os-elephant (boot/loader.S) finds out how much memory *)
(* there is: BIOS function e820, then e801, then 88, then hlt.  The BIOS   *)
(* and the machine are external; what the loader makes of their answers is *)
(* not.  Sizes and addresses are in pages.                                 *)
(***************************************************************************)
EXTENDS Integers, Sequences, FiniteSetsExt

CONSTANTS
    MemSizes,       \* memory of the machines considered
    AddressPages,   \* pages of the 32-bit address space: 2^20
    LowPages,       \* low memory, 1 MB: 256
    HoleStart,      \* where memory gives way to devices
    ArdsSlots,      \* descriptors that ards_buf has room for: 12
    E801Low,        \* 16 MB: above, e801 counts blocks
    E801Block,      \* 64 KB
    E88Limit        \* 64 MB: function 88 sees no more

(* The hole is in the upper half of the addresses, above what function 88  *)
(* sees.                                                                   *)
ASSUME LoaderConstants ==
    /\ MemSizes \subseteq Nat
    /\ {AddressPages, LowPages, HoleStart, ArdsSlots, E801Low, E801Block, E88Limit} \subseteq Nat \ {0}
    /\ LowPages < E801Low /\ LowPages < E88Limit
    /\ E88Limit <= HoleStart /\ HoleStart \in AddressPages \div 2 .. AddressPages - 1

VARIABLES
    machine,        \* memory there is
    stage,          \* where the loader is
    bios,           \* descriptors e820 has still to report
    ards, ards_nr,  \* the ends (base + length) reported so far, and their count
    spilled,        \* a descriptor was written past ards_buf
    all_mem         \* total_mem_bytes, at 0xb00

loaderVars == <<machine, stage, bios, ards, ards_nr, spilled, all_mem>>

Stages == {"e820", "max", "e801", "e88", "hlt", "wild", "found", "kernel"}

Area(b, n) == [base |-> b, len |-> n]

(* The memory maps of a machine with m pages: low memory, memory up to the *)
(* hole and the rest above 4 GB; the firmware may keep the last page for   *)
(* itself, and may list devices and the flash at the end of 4 GB.          *)
Maps(m) ==
    LET top == IF m < HoleStart THEN m ELSE HoleStart
        high == IF m > HoleStart THEN {Area(AddressPages, m - HoleStart)} ELSE {}
        main == {{Area(LowPages, top - LowPages)},
                 {Area(LowPages, top - LowPages - 1), Area(top - 1, 1)}}
        other == {Area(HoleStart, 2), Area(AddressPages - 2, 2)}
    IN {{Area(0, LowPages - 1)} \cup high \cup r \cup d : r \in main, d \in SUBSET other}

LoaderInit ==
    /\ machine \in MemSizes
    /\ bios \in Maps(machine)
    /\ stage = "e820" /\ ards = <<>> /\ ards_nr = 0
    /\ spilled = FALSE /\ all_mem = 0

(* int 15h, eax = e820: one more descriptor.  One that does not fit in     *)
(* ards_buf leaves the upper half of its base in ards_nr, which is counted *)
(* up after that, and its type in the first instruction of this loop.      *)
E820(r) ==
    /\ stage = "e820" /\ r \in bios
    /\ bios' = bios \ {r}
    /\ ards' = Append(ards, (r.base + r.len) % AddressPages)
    /\ spilled' = (Len(ards) >= ArdsSlots)
    /\ ards_nr' = IF spilled' THEN r.base \div AddressPages + 1 ELSE ards_nr + 1
    /\ stage' = IF bios' = {} THEN "max" ELSE IF spilled' THEN "wild" ELSE "e820"
    /\ UNCHANGED <<machine, all_mem>>

Found(pages) ==
    /\ all_mem' = pages /\ stage' = "found"
    /\ bios' = {} /\ ards' = <<>> /\ ards_nr' = 0
    /\ UNCHANGED <<machine, spilled>>

(* Mutation of FindMax: jae, an unsigned comparison.                       *)
FindMaxUnsigned ==
    /\ stage = "max"
    /\ Found(Max({0} \cup {ards[i] : i \in 1 .. ards_nr}))

(* find_max_mem_area: the comparison is signed (jge), so an end in the     *)
(* upper half of the addresses is less than the 0 that the search begins   *)
(* with.                                                                   *)
FindMax ==
    /\ stage = "max"
    /\ Found(Max({0} \cup {ards[i] : i \in {j \in 1 .. ards_nr : ards[j] < AddressPages \div 2}}))

Carry ==    \* a call fails: the next one is tried
    /\ \/ stage = "e820" /\ stage' = "e801"
       \/ stage = "e801" /\ stage' = "e88"
       \/ stage = "e88" /\ stage' = "hlt"
    /\ UNCHANGED <<machine, bios, ards, ards_nr, spilled, all_mem>>

E801 ==
    LET seen == Min({machine, HoleStart}) IN
    /\ stage = "e801"
    /\ Found(IF seen <= E801Low THEN seen
             ELSE E801Low + ((seen - E801Low) \div E801Block) * E801Block)

E88 ==
    /\ stage = "e88"
    /\ Found(Min({machine, E88Limit}))

(* error_hlt: an interrupt ends the halt (an NMI, where the firmware left  *)
(* the others disabled), and what follows is code for the mode that the    *)
(* processor is not in.                                                    *)
HltEnds ==
    /\ stage = "hlt" /\ stage' = "wild"
    /\ UNCHANGED <<machine, bios, ards, ards_nr, spilled, all_mem>>

Detect == (\E r \in bios : E820(r)) \/ FindMax \/ Carry \/ E801 \/ E88 \/ HltEnds
=============================================================================
