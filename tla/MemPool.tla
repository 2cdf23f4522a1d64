------------------------------ MODULE MemPool ------------------------------
(***************************************************************************)
(* mem_init of os-elephant (kernel/memory.c): how the memory the loader    *)
(* found is cut into the kernel pool, the user pool and the kernel's heap  *)
(* addresses, and where their bitmaps go.  Addresses are page numbers, and *)
(* the counts keep the widths of the code.                                 *)
(***************************************************************************)
EXTENDS Loader

CONSTANTS
    UsedPages,      \* low memory, page directory and page tables: 512
    CountModulus,   \* all_free_pages is a uint16_t: 2^16
    ByteBits        \* bits per byte: 8

(* The pages in use: 512; 16 MB and 64 MB are more.  Together with the     *)
(* most that a uint16_t counts they are less than 2 GB.                    *)
ASSUME PoolConstants ==
    /\ UsedPages \in Nat /\ ByteBits \in Nat \ {0}
    /\ \A m \in MemSizes : UsedPages <= m
    /\ LowPages <= UsedPages /\ UsedPages <= E801Low /\ UsedPages <= E88Limit
    /\ CountModulus \in Nat \ {0}
    /\ UsedPages + CountModulus <= AddressPages \div 2

VARIABLES
    kernel_pool, user_pool, kernel_vaddr,   \* what each bitmap stands for
    booted                                  \* mem_init has run

poolVars == <<kernel_pool, user_pool, kernel_vaddr, booted>>

(* start: first page (for kernel_vaddr: first page of the heap); pages:    *)
(* pool_size; base: first byte of the bitmap after MEM_BITMAP_BASE; len:   *)
(* btmp_bytes_len.                                                         *)
Pool(start, pages, base, len) ==
    [start |-> start, pages |-> pages, base |-> base, len |-> len]

(* free_mem is unsigned and the count of its pages has 16 bits.            *)
AllFreePages(all) == ((all - UsedPages) % AddressPages) % CountModulus

KernelFreePages(all) == AllFreePages(all) \div 2

UserFreePages(all) == AllFreePages(all) - KernelFreePages(all)

(* A rest of less than a byte of pages is given up.                        *)
KbmLength(all) == KernelFreePages(all) \div ByteBits
UbmLength(all) == UserFreePages(all) \div ByteBits

KernelPool(all) == Pool(UsedPages, KernelFreePages(all), 0, KbmLength(all))

UserPool(all) ==
    Pool(UsedPages + KernelFreePages(all), UserFreePages(all), KbmLength(all), UbmLength(all))

(* Mutation of KernelVaddr: a byte per page.                               *)
KernelVaddrBytes(all, heap) ==
    Pool(heap, KbmLength(all) * ByteBits, KbmLength(all) + UbmLength(all), KernelFreePages(all))

(* As many heap addresses as the kernel pool has pages.                    *)
KernelVaddr(all, heap) ==
    Pool(heap, KbmLength(all) * ByteBits, KbmLength(all) + UbmLength(all), KbmLength(all))

PoolInit ==
    /\ kernel_pool = Pool(0, 0, 0, 0) /\ user_pool = Pool(0, 0, 0, 0)
    /\ kernel_vaddr = Pool(0, 0, 0, 0) /\ booted = FALSE

(* mem_pool_init(all_mem).                                                 *)
MemPoolInit(heap) ==
    /\ stage = "kernel" /\ ~booted /\ booted' = TRUE
    /\ kernel_pool' = KernelPool(all_mem)
    /\ user_pool' = UserPool(all_mem)
    /\ kernel_vaddr' = KernelVaddr(all_mem, heap)
    /\ UNCHANGED loaderVars

-----------------------------------------------------------------------------
(* The pages a bitmap stands for.                                          *)
Managed(p) == p.start .. p.start + p.len * ByteBits - 1

(* The two pools share no page, neither contains low memory or a page      *)
(* table of the loader, and a pool page is a page of the machine's memory: *)
(* "the bitmaps stand for less memory than there is" (memory.c:39-40).     *)
(* This must hold for every answer the BIOS can give to the loader, a      *)
(* total below the pages in use included, where the free memory wraps      *)
(* round; only a memory map too long for ards_buf is excepted.             *)
PoolsInMemory ==
    LET end(p) == p.start + p.len * ByteBits IN
    booted /\ ~spilled =>
        /\ UsedPages <= kernel_pool.start
        /\ end(kernel_pool) <= user_pool.start
        /\ end(user_pool) <= Min({machine, HoleStart})
=============================================================================
