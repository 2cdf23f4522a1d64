---------------------------- MODULE KernelMemory ----------------------------
(***************************************************************************)
(* malloc_page of os-elephant (kernel/memory.c): reserve heap addresses,   *)
(* then take a frame from the kernel pool for every page and enter it in   *)
(* the page tables the loader made (boot/loader.S).  Pages and frames are  *)
(* numbers; the bitmaps lie one after the other in one memory, so that the *)
(* bit after a bitmap belongs to its neighbour.  bitmap_scan is the one    *)
(* step of AtomicScan, the bit after the bitmap and the panic included.    *)
(***************************************************************************)
EXTENDS MemPool, BitRuns

CONSTANTS
    TableSize,      \* entries of a page table and of the directory: 1024
    KernelPde,      \* directory entry of 0xc0000000: 768
    Requests,       \* the page counts that callers ask for
    ClearedRam,     \* FALSE: page tables start with what was in memory
    BitmapBytes     \* from MEM_BITMAP_BASE to the pcb at 0xc009e000: 4 * 4096

(* 16 KB hold three bitmaps of half as many bits as a uint16_t counts, and *)
(* the tables from 0xc0000000 on map as many pages of the heap: 255 * 1024 *)
(* pages against 256 + 32768.  The frames end at 512 + 32768, below the    *)
(* page number of 0xc0000000, which is 768 * 1024.                         *)
ASSUME MemoryConstants ==
    /\ {TableSize, KernelPde, BitmapBytes} \subseteq Nat
    /\ 0 < KernelPde /\ KernelPde + 1 < TableSize
    /\ LowPages < TableSize /\ UsedPages <= TableSize
    /\ 3 * CountModulus <= 2 * ByteBits * BitmapBytes
    /\ LowPages + CountModulus \div 2 < (TableSize - 1 - KernelPde) * TableSize
    /\ UsedPages + CountModulus \div 2 <= KernelPde * TableSize
    /\ Requests \subseteq Nat \ {0}
    /\ ClearedRam \in BOOLEAN

VARIABLES
    ram,                            \* the bits that are 1 from MEM_BITMAP_BASE on
    table,                          \* [page tables -> [entries -> frame]]
    pc, vaddr_start, vaddr, left, frame, asked,     \* malloc_page's locals
    given                           \* the pages returned so far

callVars == <<pc, vaddr_start, vaddr, left, frame, asked>>
memVars == <<loaderVars, poolVars, ram, table, callVars, given>>

NoFrame == -1
Stale == -2      \* a present entry that nobody wrote: its frame is unknown
Heap == KernelPde * TableSize + LowPages     \* K_HEAP_START
Tables == 0 .. TableSize - 2 - KernelPde     \* entries KernelPde .. TableSize - 2
Ram == 0 .. BitmapBytes * ByteBits           \* the last bit is the pcb's first

(* setup_page: entry 0 and entry KernelPde lead to the first table, the    *)
(* entries after it to the others, and the last one to the directory.      *)
PdePresent(i) == i = 0 \/ i \in KernelPde .. TableSize - 1
TableOf(i) == IF i = 0 THEN 0 ELSE i - KernelPde

PDE_IDX(page) == page \div TableSize
PTE_IDX(page) == page % TableSize

(* Where the processor finds a page.                                       *)
Mapped(page) ==
    IF PDE_IDX(page) \in {0} \cup (KernelPde .. TableSize - 2)
    THEN table[TableOf(PDE_IDX(page))][PTE_IDX(page)] ELSE NoFrame

Init ==
    /\ LoaderInit /\ PoolInit
    /\ ram = {} /\ table = [k \in Tables |-> [e \in 0 .. TableSize - 1 |-> NoFrame]]
    /\ pc = "idle" /\ given = {}
    /\ vaddr_start = 0 /\ vaddr = 0 /\ left = 0 /\ frame = NoFrame /\ asked = 0

(* setup_page clears the directory but no page table; it fills in the low  *)
(* pages of the first one.  Memory that nobody has written holds anything, *)
(* chosen here, before it is first looked at: all ones or all zeros, and   *)
(* perhaps a page table entry that looks like a present one.               *)
SetupPage ==
    /\ stage = "found" /\ stage' = "kernel"
    /\ \E stale \in IF ClearedRam THEN {{}} ELSE {{}} \cup {{e} : e \in LowPages .. TableSize - 1} :
          table' = [table EXCEPT ![0] = [e \in 0 .. TableSize - 1 |->
                      IF e < LowPages THEN e ELSE IF e \in stale THEN Stale ELSE NoFrame]]
    /\ ram' \in {{}, Ram}
    /\ UNCHANGED <<machine, bios, ards, ards_nr, spilled, all_mem, poolVars, callVars, given>>

(* mem_init: cut up the memory and clear the three bitmaps.                *)
MemInit ==
    /\ pc = "idle" /\ MemPoolInit(Heap)
    /\ ram' = ram \ (0 .. (kernel_vaddr'.base + kernel_vaddr'.len) * ByteBits - 1)
    /\ UNCHANGED <<table, callVars, given>>

-----------------------------------------------------------------------------
(* A bitmap as bitmap_scan sees it, the bit after it included; the scan is *)
(* the one step of AtomicScan, which the loops of Bitmap implement.        *)
BitCount(p) == p.len * ByteBits
Taken(p) == {i \in 0 .. BitCount(p) : p.base * ByteBits + i \in ram}
IsFull(p) == Full(Taken(p), BitCount(p))
RunsOf(p, c) == Runs(Taken(p), BitCount(p), c)

BitmapSet(p, S) == ram' = ram \cup {p.base * ByteBits + s : s \in S}

(* ASSERT in bitmap_scan, and the other ends of the kernel.                *)
Stop(where) ==
    /\ pc' = where
    /\ UNCHANGED <<loaderVars, poolVars, ram, table, vaddr_start, vaddr, left, frame, asked, given>>

(* malloc_page(PF_KERNEL, c): vaddr_get.                                   *)
MallocFull(c) ==
    /\ pc = "idle" /\ booted /\ IsFull(kernel_vaddr)
    /\ Stop("scan_panic")

MallocNull(c) ==        \* no run of c pages: NULL
    /\ pc = "idle" /\ booted /\ ~IsFull(kernel_vaddr) /\ RunsOf(kernel_vaddr, c) = {}
    /\ UNCHANGED memVars

(* Mutation of Malloc: only the first page is reserved.                    *)
MallocOneBit(c) ==
    /\ pc = "idle" /\ booted /\ ~IsFull(kernel_vaddr)
    /\ \E s \in RunsOf(kernel_vaddr, c) :
          /\ First(RunsOf(kernel_vaddr, c), s)
          /\ BitmapSet(kernel_vaddr, {s})
          /\ vaddr_start' = kernel_vaddr.start + s
    /\ vaddr' = vaddr_start' /\ left' = c /\ asked' = c
    /\ pc' = "palloc"
    /\ UNCHANGED <<loaderVars, poolVars, table, frame, given>>

Malloc(c) ==
    /\ pc = "idle" /\ booted /\ ~IsFull(kernel_vaddr)
    /\ \E s \in RunsOf(kernel_vaddr, c) :
          /\ First(RunsOf(kernel_vaddr, c), s)
          /\ BitmapSet(kernel_vaddr, s .. s + c - 1)
          /\ vaddr_start' = kernel_vaddr.start + s
    /\ vaddr' = vaddr_start' /\ left' = c /\ asked' = c
    /\ pc' = "palloc"
    /\ UNCHANGED <<loaderVars, poolVars, table, frame, given>>

(* malloc_page(PF_USER, c): vaddr_get has no user heap yet and returns 0.  *)
MallocUser ==
    /\ pc = "idle" /\ booted
    /\ UNCHANGED memVars

(* palloc(&kernel_pool).                                                   *)
PallocFull ==
    /\ pc = "palloc" /\ left > 0 /\ IsFull(kernel_pool)
    /\ Stop("scan_panic")

(* Mutation of Palloc: the frame's bit is not set.                         *)
PallocKeepsFree ==
    /\ pc = "palloc" /\ left > 0 /\ ~IsFull(kernel_pool)
    /\ \E s \in RunsOf(kernel_pool, 1) :
          First(RunsOf(kernel_pool, 1), s) /\ frame' = kernel_pool.start + s
    /\ left' = left - 1
    /\ pc' = "add"
    /\ UNCHANGED <<loaderVars, poolVars, ram, table, vaddr_start, vaddr, asked, given>>

Palloc ==
    /\ pc = "palloc" /\ left > 0 /\ ~IsFull(kernel_pool)
    /\ \E s \in RunsOf(kernel_pool, 1) :
          /\ First(RunsOf(kernel_pool, 1), s)
          /\ BitmapSet(kernel_pool, {s})
          /\ frame' = kernel_pool.start + s
    /\ left' = left - 1
    /\ pc' = "add"
    /\ UNCHANGED <<loaderVars, poolVars, table, vaddr_start, vaddr, asked, given>>

(* page_table_add(vaddr, frame).  The directory entry is the one of vaddr, *)
(* which the loader made; the table entry is the one of the frame's number *)
(* taken as an address.  No table leads there: a page fault, for ever.     *)
PteOf(page, f) == f

PageTableFault ==
    /\ pc = "add" /\ PdePresent(PDE_IDX(vaddr)) /\ ~PdePresent(PDE_IDX(PteOf(vaddr, frame)))
    /\ Stop("fault")

PageTableRepeat ==      \* ASSERT: the entry is not present
    /\ pc = "add" /\ PdePresent(PDE_IDX(vaddr)) /\ PdePresent(PDE_IDX(PteOf(vaddr, frame)))
    /\ Mapped(PteOf(vaddr, frame)) # NoFrame
    /\ Stop("pte_panic")

PageTableAdd ==
    LET pte == PteOf(vaddr, frame) IN
    /\ pc = "add" /\ PdePresent(PDE_IDX(vaddr)) /\ PdePresent(PDE_IDX(pte))
    /\ Mapped(pte) = NoFrame
    /\ table' = [table EXCEPT ![TableOf(PDE_IDX(pte))][PTE_IDX(pte)] = frame]
    /\ vaddr' = vaddr + 1
    /\ frame' = NoFrame
    /\ pc' = "palloc"
    /\ UNCHANGED <<loaderVars, poolVars, ram, vaddr_start, left, asked, given>>

Return ==
    /\ pc = "palloc" /\ left = 0
    /\ given' = given \cup (vaddr_start .. vaddr_start + asked - 1)
    /\ pc' = "idle"
    /\ vaddr_start' = 0 /\ vaddr' = 0 /\ asked' = 0
    /\ UNCHANGED <<loaderVars, poolVars, ram, table, left, frame>>

Stopped == pc \in {"scan_panic", "pte_panic", "fault"} /\ UNCHANGED memVars

Wild == stage = "wild" /\ UNCHANGED memVars

Boot == Detect /\ UNCHANGED <<poolVars, ram, table, callVars, given>>

Next ==
    \/ Boot \/ SetupPage \/ MemInit \/ Wild
    \/ \E c \in Requests : MallocFull(c) \/ MallocNull(c) \/ Malloc(c)
    \/ MallocUser \/ PallocFull \/ Palloc
    \/ PageTableFault \/ PageTableRepeat \/ PageTableAdd \/ Return \/ Stopped

Spec == Init /\ [][Next]_memVars

-----------------------------------------------------------------------------
Entered == {f \in Managed(kernel_pool) : \E k \in Tables, e \in 0 .. TableSize - 1 : table[k][e] = f}

(* The frames the kernel pool counts as taken are those in a page table    *)
(* and the one on its way there; none is lost between palloc and           *)
(* page_table_add.                                                         *)
FramesAccounted ==
    booted =>
        {kernel_pool.start + i : i \in Taken(kernel_pool) \ {BitCount(kernel_pool)}}
        = Entered \cup ({frame} \ {NoFrame})

(* The three bitmaps, and the bit that bitmap_scan may use after the last  *)
(* one, end below the pcb of the main thread (memory.c:7-10), whatever the *)
(* loader found; and the loader made a page table for every page of the    *)
(* heap, so that page_table_add never has to make one.                     *)
LayoutFits ==
    booted =>
        /\ kernel_vaddr.base + kernel_vaddr.len < BitmapBytes
        /\ PDE_IDX(kernel_vaddr.start + kernel_vaddr.pages) < TableSize - 1

(* malloc_page never hands out a page twice, and only pages of the heap,   *)
(* although the run of bitmap_scan may end one page after it: such a call  *)
(* does not return.                                                        *)
GivenOnce ==
    [][given' # given =>
          LET range == vaddr_start .. vaddr_start + asked - 1 IN
          /\ range \subseteq Managed(kernel_vaddr)
          /\ range \cap given = {}]_memVars

(* "pte repeat" (memory.c:171-175) stops the kernel only over an entry     *)
(* that setup_page left uninitialised, never over one that the loader or   *)
(* page_table_add wrote: palloc gives every frame out once, and the pool   *)
(* has no frame whose number is the entry of a page that the kernel uses,  *)
(* although the entry is computed from the physical address.               *)
RepeatMeansStale == pc = "pte_panic" => Mapped(PteOf(vaddr, frame)) = Stale

(* "Add the mapping from a virtual to a physical address to the page       *)
(* table" (memory.c:164): the pages that malloc_page returns are mapped.   *)
GivenIsMapped == \A page \in given : Mapped(page) # NoFrame
=============================================================================
