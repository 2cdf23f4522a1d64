# TLA+ models of project_base_learning

The repository holds three independent programs:

* **tptfs** (`src/tptfs`), a stacking file system for the FreeBSD kernel, derived
  from nullfs. It is concurrent and is where most of the difficulty lies.
* **os-elephant** (`src/os-elephant`), a teaching kernel for the 32-bit PC. One
  processor, no threads yet; boot loader, memory manager, interrupts, console.
* **toyos** (`src/toyos`), a RISC-V kernel that prints a banner, with a small C
  library (`vsprintf`, string functions).

They share no code and no state; the models are three families too.

## 1. Inventory

### tptfs

| part | state | operations | hard behaviour |
|---|---|---|---|
| node layer: `tpt_subr.c`, part of `tpt_vnops.c` | the hash of aliases; per alias `v_data` (the lower vnode), `v_vnlock`, use and hold counts, place on the mount's list; per lower vnode use and hold counts | `tpt_nodeget`, `tpt_hashget`, `tpt_hashins`, `tpt_hashrem`, `tpt_destroy_proto`, `tpt_lock`, `tpt_unlock`, `tpt_inactive`, `tpt_reclaim`, `tpt_lookup`, `tpt_vptocnp`, `tptfs_root`, `tptfs_unmount` | an alias uses its *lower* vnode's lock until it is reclaimed, and its own afterwards; the switch happens while other threads sleep for either; creation is not serialized; forced unmount reclaims vnodes in use |
| mounting: `tpt_vfsops.c` | per mount `mnt_data`, `nullm_vfs`, the superblock copy; per device reference, lock, geom consumer, superblock buffer | `tptfs_mount`, `tpt_mountfs`, `tptfs_unmount`, the delegated operations (`statfs`, `quotactl`, `vget`, `fhtovp`, `extattrctl`), `tptfs_sync` | failure after any step; undoing in two functions; mounting again |
| other vnode operations: `tpt_vnops.c` | write counts, `v_object` | `tpt_bypass`, `tpt_open`, `tpt_setattr`, `tpt_access`, `tpt_remove`, `tpt_rename`, `tpt_rmdir`, `tpt_add_writecount`, `tpt_vput_pair`, `tpt_read_pgcache` | vnodes are mapped and mapped back around a call that may drop locks |
| callbacks of the lower layer: `tpt_vfsops.c` | `NULLV_NOUNLOCK`, `NULLV_DROP` | `tptfs_reclaim_lowervp`, `tptfs_unlink_lowervp` | run in the lower file system's context |

*Interaction.* The kernel (name lookup, `vput`, `vflush`, `insmntque1`) calls
the node layer; the node layer calls the lower file system and `lockmgr`.
Everything is shared between threads; the hash has one lock, each vnode has one.

*Correct means:* one alias per lower vnode and mount; every reference to a
lower vnode is owned by someone and is given back; what a caller receives is
alive and locked through the lock that counts at that moment; nobody sleeps on
a vnode that can be freed; no deadlock; a forced unmount ends.

### os-elephant

| part | state | operations | hard behaviour |
|---|---|---|---|
| bitmap: `lib/kernel/bitmap.c` | bits | `bitmap_init`, `bitmap_scan_test`, `bitmap_scan`, `bitmap_set` | loop ends, exhaustion |
| memory manager: `kernel/memory.c` | two pools, heap addresses, their bitmaps, page tables | `mem_init`, `malloc_page`, `palloc`, `page_table_add` | widths, layout, frames running out half way, uninitialised page tables |
| panic: `kernel/debug.c` | - | `panic_spin` | stops the kernel |
| interrupts, timer: `kernel/interrupt.c`, `kernel/kernel.S`, `device/timer.c` | IF flag, PIC masks, IDT, stack frame | `intr_enable`/`disable`/`set_status`, entry stubs | stack balance with and without error code |
| console: `lib/kernel/print.S` | screen memory, cursor | `put_char`, `put_str`, `put_int` | cursor at the screen's ends; interrupted in the middle |
| boot: `boot/mbr.S`, `boot/loader.S` | memory map, page directory, disk ports | memory detection, `setup_page`, kernel loading | three detection methods with fallbacks |
| start-up: `kernel/main.c`, `kernel/init.c` | what is set up so far | `init_all` | interrupts that arrive between two initialisers |
| strings, threads | - | - | `thread/` is unfinished and not linked |

*Interaction.* The loader leaves the size of memory and the page tables for the
memory manager, which keeps its bitmaps in low memory, one after the other. The
kernel and the interrupt handler print through one console; the functions of
`interrupt.c` are what keeps them apart. `panic_spin` uses both.

*Correct means:* pools are disjoint and inside memory, whatever the BIOS
answers; a page is handed out once; a returned range lies in the heap; entries that
the kernel wrote are not met again; the scan is first fit. What is printed is on the screen, and
a section with interrupts disabled is not interrupted; an interrupt returns to
where it came from; no tick is lost.

### toyos

`vsprintf` (flags, width, precision, `number`), `printk` with its fixed buffer,
the string functions, and `KernelMain`. No state beyond the output buffer.

*Correct means:* a directive is read as it is written; format and arguments stay
in step; the parser does not leave the format; the text of a conversion is what C
says (not modelled).

## 2. Modules

| module | models | state and actions |
|---|---|---|
| `TptNode` | tptfs node layer | Each thread has a label `pc` and the locals that survive from label to label. A label is a point where the code may sleep or where another thread can observe a difference: acquiring a lock, an interlock section, the hash lock. The code between two labels is one action. |
| `AliasTable` | what the node layer promises | a table from mount and lower vnode to one alias, in six actions; `TptNode` implements it (`ImplementsAliasTable`) |
| `MCTptNode` | - | trees, mounts and symmetry for TLC |
| `TptNodeInv` | - | `NodeInv`, the inductive invariant of `TptNode`, and `TableInv`, what the refinement needs on top |
| `TptNodeSteps` | - | type correctness of `TptNode`; what a step of one thread does to what the others rely on (`ThreadStep`), action by action |
| `TptNodeSafety` | - | what the thread itself relies on after each of its steps (`SelfInv`), action by action; `NodeInv` is an invariant, the safety properties, the refinement of `AliasTable` |
| `TptBypass` | the other vnode operations of tptfs | Threads call operations on aliases that may be reclaimed at any time nobody has them locked; one action per step of `tpt_bypass` and of what the operations do before and after it. Callers lock exclusively or shared. |
| `MCTptBypass` | - | a directory, a file, a name to create, and the calls made on them |
| `TptBypassInv` | - | `BypassInv`, the inductive invariant of `TptBypass` |
| `TptBypassProofs` | - | `BypassInv` is an invariant; references, locks, write counts, cause of panics |
| `TptMount` | tptfs mounting and delegation | per mount a phase, per device what is held on it; one action per step that can fail |
| `TptMountProofs` | - | exclusive devices, clean failure, exact references |
| `BitRuns` | - | runs of free bits and the first of them: the vocabulary of the next three |
| `AtomicScan` | `bitmap_scan` as one step | what the code does from the request to the answer, the run past the end and the panic included; `Bitmap` implements it (`ImplementsAtomicScan`). What the comment promises is `ScanPromise` of `Bitmap`. |
| `Bitmap` | os-elephant bitmap | `bitmap_scan` one loop iteration per step |
| `BitmapProofs` | - | soundness, first fit, when the comment's promise holds, panic only when full, refinement of `AtomicScan` |
| `Loader` | memory detection of `loader.S` | one action per BIOS call; a call may fail |
| `MemPool` | `mem_pool_init` | EXTENDS `Loader`; one step cuts up the memory found, with the widths of the code |
| `KernelMemory` | `setup_page`, `mem_init`, `malloc_page` and below | EXTENDS `MemPool` and `BitRuns`; one action per `palloc` and per `page_table_add` |
| `KernelMemoryProofs` | - | `MemInv` and the five safety properties of the memory models |
| `Console` | `print.S` | one action per port access and per write to the screen |
| `Interrupts` | start-up, interrupts, `panic_spin` | EXTENDS `Console`; the kernel and the handler print, the clock and exceptions come in between |
| `MCInterrupts` | - | what the kernel prints |
| `InterruptsProofs` | - | guarded sections, and the way back from an interrupt |
| `Printk` | the parser of toyos `vsprintf` | one action per step of the parser; what it writes is a sequence of pieces: characters it copies, and conversions with what it made of their directive |
| `MCPrintk` | - | conversions and length modifiers |
| `PrintkProofs` | - | the parser stays inside the format |

`KernelMemory` uses `bitmap_scan` as the single step of `AtomicScan`,
with the operators of `BitRuns`; that the loops in `Bitmap` implement that step
is proved in `BitmapProofs`.

### TptNode and the code

* `luse`, `lhold`, `ldoomed` are the lower vnode's counts and its doomed flag;
  `uuse`, `uhold`, `udoomed`, `data`, `mnt`, `hash` the same for an alias,
  `data[u]` being `tpt_lowervp` and `Null` once `v_data` is cleared.
  `Vnlock(u)` is `v_vnlock`: the lower lock while `data[u]` is set.
* Name lookup asks for exclusive locks only: `tpt_mountfs` does not set
  `MNTK_LOOKUP_SHARED`. Shared locks enter `tpt_nodeget` through `tptfs_root`'s
  flags and through `tpt_vptocnp` (line 929). Shared `..` lookups, with which two
  threads could each hold one of parent and child and upgrade the other, do not
  arise at this commit; `NoCrossWait` is about the upgrades that do.
* `VOP_UNLOCK` of the vnode (`tpt_vnops.c:918`) and `vref` of the lower one (920)
  are one step of `Vptocnp`: a reclaim between the two that drops the last use
  reference is left out.
* `NULLM_CACHE` is never set, since the `tpt_mount` is zeroed, so
  `tpt_want_recycle` always asks for recycling.
* `nullm_lowerrootvp` is the device vnode at this commit, so in practice only
  the root's alias is reached. The node layer does not depend on that, and is
  modelled over any lower tree.
* *External.* `lockmgr` (an upgrade with another sharer drops the share and
  sleeps), `vn_lock`, `vput_final`, `vdefer_inactive`, `vflush`, `insmntque1`,
  `vgonel`, `vn_vget_ino_gen` and the lower file system are not in `src/`; they
  are modelled from what the node layer relies on. Releasing a reference that is
  not the last is one step.
* `LowerFaults` lets the lower file system revoke vnodes and fail lookups.
* *Refinement.* The table of `AliasTable` is the hash; a thread holds the aliases
  that `tpt_nodeget` has returned to it and it has not released; a mount is
  `forced` once a forced unmount has begun and `gone` when it is over.

### TptBypass and the code

* `TptNode` shows how an alias comes and goes; `TptBypass` uses the result. An
  alias slot is `none`, `live`, `reclaim` (`v_data` cleared, the reclaimer has
  the private lock) or `dead` (`v_op` and `v_mount` cleared too). `tpt_nodeget`
  is one step: the lower vnode is locked and referenced by the caller.
* A call is a record of an operation and up to four vnodes. Operations that
  differ in nothing a property sees are one: `getattr` stands for `stat`,
  `setattr` for `access` and `accessx` (refused, or passed on), `create` for
  every operation that returns a vnode.
* `LowerUnlocks` names the operations in which the lower file system lets go of
  its locks for a while and takes them again; in the runs, all that have locks
  and go through `tpt_bypass`.
* A caller locks its vnodes exclusively or shared (`mode`); `SharedOps` are the
  operations that are called with `LK_SHARED` too, which `tpt_lock` passes on to
  the lower vnode (`tpt_vnops.c:669-735`). `read` is an operation that has nothing
  but `tpt_bypass`. `lock` is the set of the threads that have a lock.
* `Unlocks` is what the caller unlocks after the call. If it does not have one of
  those locks, `lockmgr` goes down (`UnlockFault`).
* The two loops of `tpt_bypass`: the first is one step (`Map`), so that the window
  between reading `tpt_lowervp` (line 267) and `VREF` (line 274) of rename's
  unlocked vnodes is left out, with a reclaim on another processor that drops the
  last reference in it; the second is one step per argument, in order, and moving
  a lock from the lower vnode to a reclaimed alias is two (`UnmapSplit`,
  `UnmapMove`). As in the code only an exclusive lock is moved (`Split`).
* The lifetime of lower vnodes is not modelled here. `tpt_bypass` takes no hold on
  them (`tpt_lookup` does, line 402), so that after a reclaim the one that is
  locked again (`LowerRelock`) or looked at in line 310 may have been freed.
* `rename` is the operation whose callee releases its arguments (`WillRele`),
  and whose first two come unlocked. A `rename` to "." has `tdvp` = `tvp`.
* `panic` is the state after an access through a NULL `v_data` or `v_mount`;
  everything stops there.
* `NULLV_DROP` is left out: without `NULLM_CACHE`, `tpt_want_recycle` does not
  look at it.
* `tpt_vput_pair`'s branch for a reclaimed `vp` (lines 1003-1009) is left out,
  with the lower layers that lead to it: see section 5. `PairDone` is what comes
  after it.

### TptMount and the code

Phases follow `tptfs_mount` and `tpt_mountfs`: `named` (namei returned the
device locked), `opened` (`g_vfs_open`), `read` (`bread`), then `mounted` or
`failed`. `depth` counts the frames of a delegated operation; `StackDepth` is
the kernel stack, and reaching it stops everything (`Overflown`).
`DelegationOverflows` says that every delegated call gets there. A failing `bread`
makes `tpt_mountfs` return -1 (`tpt_vfsops.c:215`), which the kernel takes for
`ERESTART`; the model has the failure (`MountReadFails`) and not the restarted
call, which would be one more mount.

### The memory models and the code

* `Loader`: the three BIOS functions in the order of the code, each of which may
  set the carry flag. `Maps` (external) are the memory maps that firmware
  reports for a machine: memory below and above the hole for devices, the last
  page kept by the firmware, devices and flash near 4 GB, in any order and any
  selection. `ards_buf` has room for `ArdsSlots` descriptors; the one after that
  lies over the counter and over the first instruction of the loop. The
  comparison of `find_max_mem_area` is signed. After the last failure the loader
  halts; what runs when an interrupt ends the halt is not the program any more
  (`wild`).
* Addresses are page numbers, scaled: 3 bits in a byte, 16 entries in a table,
  directory entry 12 for the kernel, 4 low pages, 256 pages of addresses, a page
  count that wraps at 64.
* The three bitmaps lie one after the other in one `ram`, so that the bit after
  one belongs to the next, and the last one to the pcb. `ram` is the set of bits
  that are 1; before `mem_init` it is anything.
* `SetupPage` clears the page directory and no page table, so with
  `ClearedRam = FALSE` one entry may be `Stale`: present, with a frame that
  nobody chose.
* `page_table_add`'s branch for a missing directory entry is not modelled: the
  loader made all of them (`LayoutFits`).
* A table entry without a table is a page fault whose handler returns to the
  same instruction: the model's `fault` state, which nothing leaves.
* `MemSizes` are at least `UsedPages`: the loader itself runs in that memory.
  What the loader *finds* may be less.

### Console, Interrupts and the code

* A print is a frame: what is still to be printed, the registers `put_char`
  keeps (`bx`, the character) and the next step. There is one for the kernel
  (`main`) and one for the handler (`intr`); the handler runs with interrupts
  disabled, so there is never a third.
* Every `out` and `in` on the ports 0x3d4 and 0x3d5 is a step: the index register
  is shared, and so are the two halves of the cursor and `put_int_buffer`.
  Scrolling is two steps, the move and the blanking of the last line. The
  attribute byte of a cell is left out.
* `bx` and the cursor are 16-bit values; `jl` and `shl bx, 1` are modelled as
  what they do to them, so a torn cursor leads where it does in the code.
  `WriteFaults` is a write beyond the limit of the video segment.
* `Boot` is the order of the initialisers in `init.c` and `interrupt.c`, each
  with a newline in place of its message. `exception_init` prints nothing.
  `mem_init` is not among them: it is `KernelMemory`.
* `Init` leaves the interrupt flag open: no code of the repository clears it
  before `lidt`. An interrupt without a table resets the machine (`dead`).
* External: the CPU (interrupt gates clear the flag, `iretd` restores it, some
  exceptions push an error code, a vector beyond the table is a general
  protection fault), the interrupt controller (one pending tick, one in service
  until the EOI, a spurious IRQ7), the clock. Ticks come at any time, so the
  period programmed by `timer_init` plays no part.
* `extra` counts the words between the saved registers and `eip`; `intr_exit`
  drops one. If it was not one the machine runs `wild`. A fault inside the
  handler is raised again by the handler that it starts, until the stack is used
  up (`overflow`).
* `intr_disable`, `intr_set_status`, `intr_enable` and `panic_spin` are called by
  any kernel code, nested up to `MaxNest`. At this commit `main` calls few of
  them; the model asks whether the functions keep their promise to a caller.

### Printk and the code

* The caller prints "a", a directive and a `%d` of 7. The two ends show whether
  the directive leaves the format and the arguments in step. The directives are
  what C's grammar makes of flags, width, precision and qualifier; unknown
  conversions and the end of the format in their place are included.
* The parser is one step per flag, width, precision, qualifier and conversion,
  over the characters of the format. The code does not advance over a `*`, and
  neither does the model.
* An argument is the place in the format that it was passed for and, if a `*`
  takes it, its value. A piece of the output is a character that was copied, or a
  conversion with the argument it took, its base, its flags, width and precision.
* Left out: the text of a conversion (`number`, `do_div`, the copy loops of `%c`
  and `%s`, the length that `%n` stores), the buffer of 1024 bytes and its size,
  `strlen` and the output through SBI. So the model says nothing about the note at
  `vsprintf.cpp:7-8` and `19`, according to which only the integers show when they
  are mixed with other conversions; it does show that the parser itself gives
  every conversion its own argument, in whatever order they come.

## 3. Runs

| run | question | bound |
|---|---|---|
| `NodeAliases` | the node layer implements `AliasTable`; duplicates, dead aliases, locks, references and leftovers with `tptfs_root`, lookup, `..` and `vptocnp` against both kinds of unmount, revoked lower vnodes and failing lower lookups | 2 threads, directory and child, 2 aliases, 1 mount |
| `NodeLive` | every operation ends; a forced unmount ends | 2 threads, 1 lower vnode |
| `NodeLookupError` | *violation*: an error of the lower `..` lookup after the directory was reclaimed | as `NodeAliases`, forced unmounts |
| `Bypass` | references, locks, write counts and faults of the operations when arguments are reclaimed on the way | 2 threads (one makes any call, one removes, renames and reads), exclusive and shared locks, 3 aliases |
| `BypassShared` | *violation*: a shared lock does not move to an alias that was reclaimed | as `Bypass` |
| `Mount` | references, exclusive devices, clean failure; a mount comes to an end, a delegated operation does not | 3 mounts, 2 disks, a file |
| `Bitmap` | what `bitmap_scan` returns is in the bitmap and free there, no run in the bitmap is overlooked, the loops are one step of `AtomicScan`, a scan ends; all contents and requests | 3 bytes of 3 bits |
| `BitmapPromise` | *violation*: cnt bits in the bitmap, or -1 | 2 bytes of 3 bits |
| `KernelMemory` | from memory detection to `malloc_page` until memory is exhausted, over page tables that may be stale | machines of 8 to 220 pages |
| `KernelMemoryMapped` | *violation*: returned pages are not mapped | cleared memory |
| `Console` | prints are exact and end, guarded sections hold, interrupts return and are not lost | screen of 3 x 3, 2 ticks or exceptions, 1 print after the messages of start-up, nesting 2 |
| `Printk` | a directive is read as it is written, with its own argument; the parser stays in the format | 32 flag sets, 4 widths, 4 precisions, 2 qualifiers, 10 conversions, `%%`, an unknown one and the end of the format |

*Why the bounds are enough.* Races of the node layer are between one thread
that holds or waits and one that changes things; every hazard listed for it
needs two threads and a duplicate alias at most, which the runs reach: each
property has a mutant of the code that violates it under the same bounds. Two
lower vnodes are needed for `..`, two alias slots for a duplicate or for a parent
and its child; that aliases of different mounts and larger trees add nothing is
what the theorems of section 4 are for. Three mounts of
two disks let one device be contended while another is reused. In `Bypass` the
second thread removes, renames and reads the file the first one uses, which gives
the file a second user and a second sharer, unlocks it and reclaims it; a third
alias is there for a created or overwritten file; one file is opened for writing. Three bytes let a
scan skip a full byte, start in the middle of one and end in another; requests
go two beyond the size. A machine of 8 pages has no free page, 25 and 37 leave a
rest that is smaller than a byte, 37 reaches beyond the first page table, 75 has
more free pages than the count can hold, 150 ends in the upper half of the
addresses, where the comparison of the loader is negative, and 220 has memory
above 4 GB; with all its areas listed a map has one or two descriptors more than
`ards_buf` takes. The sizes of the console keep the order of the real ones:
2000 visible cells, 16384 in the segment, 32768 where signed numbers turn and
65536 where they end become 9, 16, 32 and 64. The start-up messages fill
the screen, so that the print after them scrolls; two events allow a tick in a
guarded section with an exception, or a tick in each of two prints. In `Printk`
a width has one digit or two and every part of a directive may be missing, alone or
with others.
Threads, alias slots and mounts are interchangeable in the safety runs of the node
layer (`SYMMETRY`; the refinement of `AliasTable` is a safety property); the runs
with liveness properties use no symmetry.

*Fairness.* `TptNode`: a thread inside an operation goes on (the kernel
schedules it); a lock that is available again and again is granted in the end
(`lockmgr` queues its waiters); a caller does not keep a vnode locked for ever
(a path has finitely many components). `TptMount`: a mount that has begun and a
delegated call go on. `Bitmap`: nothing interrupts the loop. `Interrupts`: the
CPU executes instructions (`WF(Cpu)`), and takes a pending interrupt if it can do
so again and again (`SF(Irq)`: the line stays up until it is served). Nobody is assumed
to start or to unmount anything.

## 4. Proofs

| theorem | for every | argument |
|---|---|---|
| `TptNodeSteps!TypeCorrect` | number of threads, vnodes, mounts, tree | `TypeOK` is inductive once it says which locals are set at which label (`LocalsOK`) |
| `TptNodeSafety!NodeInvariant` | same; the lower file system may revoke vnodes and fail lookups | rely and guarantee: see below |
| `OneAlias`, `HashFindsLive`, `NewAliasAlive`, `ReferencesExact`, `AliasesAlive`, `MountThere`, `AllGivenBack`, `LocksAllMatch` (all in `TptNodeSafety`) | same | from `NodeInv` |
| `TptNodeSafety!SplitSafe` | same | an action property: `NodeInv` and `DataStep` of every action |
| `TptNodeSafety!DirectoryLocked` | same, without `LowerFaults` | `NodeInv`; with faults it is false (`NodeLookupError`), and `LocksAllMatch` excepts that case |
| `TptNodeSafety!NoDeadlyEmbrace` | same, if no two lower vnodes are each other's parent | `NoOtherLock`: what a sleeping thread may have locked |
| `TptNodeSafety!ImplementsTable` | same | `NodeInv` and `TableInv`, step by step |
| `TptBypassProofs!Invariance` | number of threads, vnodes, mounts, calls; operations in which the lower layer unlocks | rely and guarantee: see below |
| `ReferencesExact`, `CallerLocks`, `ReclaimGivesBack`, `PanicCause` (all in `TptBypassProofs`) | same, with exclusive and shared locks | from `BypassInv`; `CallerLocks` leaves out the shared lock of a reclaimed alias (`BypassShared`) |
| `TptMountProofs!DeviceIsExclusive` | number of mounts and devices | `MountInv` |
| `TptMountProofs!FailureIsClean` | same | `MountInv` |
| `TptMountProofs!RefsAreExact` | same, mounts finite | `MountInv` and a lemma on the cardinality of the users of a device |
| `BitmapProofs!ScanIsSound` | byte width, length, contents, request | `ScanInv` |
| `BitmapProofs!ScanIsFirstFit` | same | `ScanInv` |
| `BitmapProofs!PromiseWhenNextTaken` | same, while the bit after the bitmap is taken | `ScanInv`; without the condition it is false (`BitmapPromise`) |
| `BitmapProofs!PanicMeansFull` | same | `ScanInv` |
| `BitmapProofs!Refinement` | same | `ScanInv`, step by step |
| `KernelMemoryProofs!MemoryInvariant` | memory map, BIOS failures, sizes in the order of the real ones, stale page tables | `LoaderInv`, then `MemInv` |
| `PoolsSafe`, `LayoutSafe`, `NoFrameLost`, `PagesGivenOnce` (all in `KernelMemoryProofs`) | same | from `MemInv`; the last one is an action property |
| `KernelMemoryProofs!RepeatOnlyStale` | same | `EntriesInv`, on top of `MemInv` |
| `InterruptsProofs!PrintGuarded` | screen, text, nesting, number of events | `PrintInv` |
| `InterruptsProofs!InterruptsReturn` | same | `ReturnInv` |
| `PrintkProofs!ParserStaysInside` | conversions, length modifiers | `ParseInv` |

*Assumptions.* `NodeConstants`, `MountConstants` and `BitmapConstants`: special
values are distinct, sets that are counted are finite, sizes are natural
numbers. `DirectoryLocked` assumes `~LowerFaults` and `NoDeadlyEmbrace`
`TreeShaped`, in their statements; a lower file system that is a tree has both
directions of `..` consistent. `LoaderConstants`, `PoolConstants` and
`MemoryConstants` give the sizes their order: the hole for devices begins in the
upper half of the addresses, where the loader's signed comparison is negative
(3 GB and up on a PC); what INT 15h/88 can report ends below the hole;
the kernel's own pages are in the first page table and in the part that every
BIOS function counts; the 16-bit page count of one pool cannot run into the upper
half, and the bitmaps of that many pages fit into the room that `memory.c:7-10`
leaves; the kernel pool ends below the kernel's addresses at 3 GB. `InterruptConstants`: exceptions have the vectors 0 to 19
(`interrupt.c:95-114`). `BypassConstants` says which calls the kernel makes: the
vnodes that an operation cannot do without are there (the entry of a remove; the
directories and the source of a rename), only a rename has
four; what is locked shared is the one vnode of an operation in `SharedOps`; a directory and an entry of it, both locked by the caller, are two vnodes
over two lower ones (the VFS refuses to remove "."); an alias
belongs to a mount. `PrintkConstants`: length modifiers are made of `h`, `l` and
`L`. TLC evaluates all of them in the runs.

*The node layer.* None of the properties of `TptNode` is inductive: that a
duplicate is impossible depends on who has the lower lock, which depends on where
the lock of an alias is, which depends on whether its reclaim has begun.
`NodeInv` therefore says, label by label, which locals are set and how
(`Locals`), which locks the thread has (`Locking`) and that it has no other
(`NoOtherLock`), in what state the proto it creates is (`ProtoInv`), and that
its mount stays (`MountInv`); and for the shared state that counts are the sums
of what threads, aliases and mounts own (`UseExact`, `HoldExact`,
`LowerHoldExact`, `LowerUseExact`), what an alias in the hash or on a list has
(`AliasInv`), and who is reclaiming a doomed one (`DoomedInv`). Every thread
could disturb every conjunct of every other, so the proof is split in two.
`TptNodeSteps` bounds what a step of `t` may do to the shared state
(`ThreadStep`: for example, `data[u]` is cleared only by the thread that has both
locks, and only the lock that the label names is taken or released); the first
part of `TptNodeSafety` shows what `t` relies on afterwards. Both have one step per
action. The second part needs neither the actions nor the labels any more: the lemmas
`LockingKept`, `ProtoKept`, `MountKept` and so on show that a `ThreadStep` of `t`
keeps what another thread `s` relies on, and `CountsKept` and `LowerUseKept` move
one unit of a count along with the thread's locals (`CountMoves`, on the
cardinality of a set that gains or loses one member). A step of the lower file
system is `LowerKeeps`.

`NodeInv` and `TableInv` are not in a run, since no run asks a question of its
own about them; a module that EXTENDS `MCTptNode` and `TptNodeInv` checks them
under the constants of `NodeAliases` (1 419 189 states), which is how they
were found.

*The vnode operations.* `LocksReturned` and `RefsExact` speak of the states in
which a call begins or returns, and are not inductive. `BypassInv` says what holds
in between. For each thread: which labels its operation comes through and with
which vnodes (`CallInv`); that everything locked was mapped (`MapInv`); which
lower vnode the call has a reference of its own on (`SpareInv`); which locks it
has (`LockInv`). An argument that is locked is locked through its lower vnode
(`LowSide`) until `tpt_bypass` maps it back, and through `v_vnlock` of the alias
(`UpSide`) from then on: the two differ once the alias is reclaimed, and the step
from one to the other is the loop over `old_vps`. What is locked stays live
(`LiveInv`), because `tpt_reclaim` runs with the lock; and only what was not locked
is behind a NULL pointer (`PanicInv`). For the shared state, `RefInv` and `WcInv`
say what every count consists of: arguments held by the calls, those lent to the
lower call, the calls' own references, open files and live aliases.

The proof has one lemma per action. It shows that the step of `t` takes free locks
and releases its own, moves references between a counter and the thread
(`ThreadStep`), and leads to a state in which `t` finds what it relies on. From
that alone, `UserKept` and `LowerKept` keep the counts (`RowMoves`: the cardinality
of a set of pairs changes by that of the row of `t`), and `OtherKept` keeps what
every other thread relies on: an alias in use is counted, so that its slot is not
filled anew (`UsedAlias`), and one that is locked is not reclaimed. A reclaim,
which no thread carries out here, is one more step of that kind (`AliasKept`).

As above, `BypassInv` was checked first, by a module that EXTENDS `MCTptBypass` and
`TptBypassInv` under the constants of `Bypass` (1 694 712 states).

*Refinement of `AliasTable`.* `ImplementsTable` is `Spec => Table!Spec` with the
mapping at the end of `TptNode`. `TableInv` adds what the abstract actions ask
for: a forced unmount finds no vnode busy, vflush works on its own mount, and an
alias that somebody uses is reclaimed by a forced unmount only. `hash` and the
held aliases change in six places; each is one of the six abstract actions, and
every other step is a stutter (`TableStep`).

*Memory.* `LoaderInv` says that the end found by whichever BIOS function answered
is an end of memory, or that the descriptors were overrun. `MemInv` continues
from there: the pools are consecutive and inside memory, a bit is set for the
pages and frames handed out, the present entries of the heap's tables are those
of `given` and of the current call. Heap pages and frames are both handed out in
order, so that frames run out before a run of heap pages can pass the end of its
bitmap: this is what makes `GivenOnce` true although `bitmap_scan` looks one bit
too far, and it needs no pigeonhole argument. `RepeatMeansStale` is
about entries that are found under the number of a *frame*. `EntriesInv` says that
an entry which somebody wrote leads to the frame of its own number, and that the
frame on its way to `page_table_add` is in no table, because `palloc` handed it out
just now. The entry of a frame is in the first table, below the kernel's addresses
(`LowEntry`), so what is found there was written by nobody.

*Interrupts.* `PrintInv`: while a section is open interrupts are disabled, the
status it will restore is "disabled" for every section but the outermost
(`SectionInv`), a print marked `guard` was begun in a section, and a handler that
runs inside one was entered by an exception, whose return keeps the flag
(`GuardInv`). `ReturnInv`: the table is loaded before the controller lets a tick
through and no vector beyond it is raised (`BootInv`), and the number of words
above `eip` is what the stub of the vector leaves (`EntryInv`).

*Inductive invariants of the others.* `MountInv` of `TptMount` says who owns what: a mount past
`g_vfs_open` owns its device's consumer and no other (`ConsumerInv`), one that
is not has neither consumer, buffer nor memory (`NothingYet`), only a `named`
mount has the device locked (`LockInv`), and a device is recorded exactly
between `namei` and the end (`DeviceInv`). `OneMountPerDevice` alone is not
inductive: without the consumer's owner a second open is not excluded.
`ScanInv` has one part per loop: behind the byte and the bit loop everything is
taken; in the run loop the last `count` bits are free and every earlier start
meets a taken bit within `cnt`. First fit needs the second half: it is what makes
restarting the count at 0 lose nothing.

What these give is an answer over the bits that the loops look at, which are those
of the bitmap and, for `cnt` > 1, the one after it (`ScanAnswer`). `ScanSound` and
`ScanFirst` speak of the bitmap's own bits and follow (`ScanResult`); the promise
of the comment follows only if the bit after the bitmap is taken (`ScanGuarded`).

*Refinement.* `Refinement` is `Spec => Atomic!Spec` under the mapping of
`Bitmap`: the set of taken bits, "asked" while any of the loops runs, the answer
once there is one. It shows that two models of the code agree, and lets
`KernelMemory` use the scan as one step; it says nothing about the comment. `ScanInv`
says at each exit that the answer is the one of `AtomicScan`: a step inside a loop is
a stutter, the exits are `Answer`, and the failing assertion is `Panic` because the
byte loop has then seen no free bit.

*Formatted output.* `ParseInv` says that the parser is on a character when it is
about to execute the `++fmt` of `repeat:`, and at the null at the latest everywhere else.
Every other `++fmt` follows a test that the null does not pass, and the one for an
unknown directive is taken back at the null (`vsprintf.cpp:386`). `skip_atoi` stops
at the null, which is no digit: `DigitsEnd` takes the least place without a digit
(`WFMin`). The induction step makes no use of what the format looks like.

*Only model-checked.* Everything about fairness: `OperationsEnd`,
`ForcedUnmountEnds`, `MountEnds`, `DelegationOverflows`, `ScanEnds`, `PrintEnds`,
`NoTickLost`; the prover does no liveness. What a loop over data computes:
`PrintExact` of `Console` compares the screen with a fold over all characters of
the text, and `DirectiveRead` of `Printk` needs what the digit loop of `skip_atoi`
adds up to. Both are inductions over data, which the prover does not do. What a
recursive operator computes is out of its reach too, and no module uses one.

## 5. What the checks found

1. `tpt_lookup` returns an error without the directory's lock when the lower
   `..` lookup fails and the directory was reclaimed meanwhile
   (`tpt_vnops.c:411`; `NodeLookupError`).
2. `page_table_add` enters the mapping under the physical address
   (`memory.c:168`; `KernelMemoryMapped`).
3. `tpt_bypass` moves the lock from the lower vnode to an alias that was reclaimed
   only if it is exclusive (`tpt_vnops.c:310`). The comment above has no such
   condition. A caller with a shared lock (`fstat`, `read`) is left with the lock of
   the lower vnode and unlocks the alias' own, which it does not have
   (`BypassShared`).
4. `bitmap_scan` does not keep the promise of its comment (`bitmap.c:20`), cnt bits
   in the bitmap or -1: for runs longer than one it looks one bit past the bitmap
   (`bitmap.c:47-52`), and a full bitmap panics (`bitmap.c:29` comes before the
   return of -1 in line 31); `BitmapPromise`. `PromiseWhenNextTaken` and
   `PanicMeansFull` prove that there is no third case. `GivenOnce` shows that
   `malloc_page` does not return a run past the heap's bitmap: frames run out first.

The passing runs also delimit behaviour that comments describe differently, or
not at all:

* `nullm_vfs` is the mount itself, so a delegated operation calls itself until the
  stack is used up (`tpt_vfsops.c:202`, `328`): `DelegationOverflows`.
* `tptfs_unmount` does not close the consumer, release the buffer or free the
  superblock copy (`tpt_vfsops.c:273`). As a consequence a device is never
  mounted twice, which is why `MountEnds` holds: no mount gets as far as waiting
  for the buffer.
* A forced unmount while the lower layer has an argument unlocked, or while
  `rename`'s source is unlocked, ends in an access through a NULL pointer
  (`tpt_vnops.c:267`, `341`, `522`, `534`). `PanicOnlyAfterReclaim` says that
  there is no other way there.
* A lower `open` that unlocks its vnode, as those of devfs and of fifos do, lets
  `tpt_open` give a `v_object` to a reclaimed alias (`tpt_vnops.c:460`). The model
  reproduces it; `ReclaimComplete` is about the write counts only.
* A lower `VOP_VPUT_PAIR` that unlocks `vp` leads to `tpt_vnops.c:1003-1009`,
  where `tpt_nodeget` consumes a reference to `lvp` that was not taken and
  `vput(vp)` unlocks a vnode that is not locked.
* `all_free_pages` has 16 bits (`memory.c:34`), so of the 512 MB that
  `memory.c:9-10` speaks of half is never managed. `PoolsInMemory` and
  `LayoutFits` show that what is managed is memory and has room for its bitmaps.
* The loader clears no page table, so the assertion at `memory.c:171` can fail
  on an entry that nobody wrote (`pte_panic`); `RepeatMeansStale` says that this is
  the only way to it.
* A memory map of more than 12 descriptors is written over the counter and over
  the loop's own code (`loader.S:49`): `PoolsInMemory` excepts it (`spilled`).
* `find_max_mem_area` compares signed numbers (`loader.S:63`) and looks at no
  type. The comment above (`loader.S:58`) says that the largest area must be memory;
  with an unsigned comparison it would be the flash below 4 GB (the run's
  mutant), and memory that ends above 2 GB is not counted.
* If every BIOS function fails, an interrupt ends the `hlt` at `loader.S:134` and
  the processor runs on into code of another mode.
* No `cli` comes before protected mode (`loader.S:130`): if the firmware left
  interrupts enabled, a tick before `lidt` resets the machine.
* A tick between the port accesses of `put_char` (`print.S:51`) tears the cursor.
  The position may then lie beyond the video segment, where every write faults;
  in the handler itself such a fault recurs until the stack is used up.
  `put_int` has one static buffer (`print.S:6`), so a number printed by the
  handler replaces the digits of the interrupted one. `PrintExact` and `PrintEnds`
  are about prints that nothing hit, `GuardedPrintIntact` about how to have them.
* A backspace at the top of the screen faults for ever (`print.S:82`): `PrintEnds`
  counts the fault as a hit.
* The stub of vector 0x0c pushes a zero on top of the error code
  (`kernel.S:61`), so its `iretd` goes astray: `ReturnsWhereItCame` excepts it. It is the one exception of
  the run; `InterruptsReturn` is about all of them.
* A spurious IRQ7 is vector 0x27, for which `interrupt.c:76-77` has a branch; the
  table has 0x21 entries, so it arrives as a general protection fault. It returns
  all the same.
* The counter of the clock loses its high byte (`timer.c:25`: the cast binds
  before the shift), so ticks come about 77 times as often as asked for. No
  property depends on it.
* `*` is not skipped (`vsprintf.cpp:240`, as the comment there says), so later
  arguments go to the wrong directive: `DirectiveRead` excepts it.

Seen while reading, in code that is left out of the model: `number` subtracts a
negative number from itself (`vsprintf.cpp:84`), where the comment at line 79 speaks
of the absolute value, and its signed remainder reads before the table of digits for
an unsigned number with the top bit set; the comment on `%s` at `vsprintf.cpp:293-294`
says that the precision is extended to the length of the string, where lines 301-306
cut the string to the precision; `printk`'s buffer has 1024 bytes and nothing checks
it (`printk.cpp:6`), and a null printed by `%c` cuts the output short.

## 6. Not modelled, and the plan

Done: the node layer, the vnode operations and the mounts of tptfs; boot-time
memory detection, bitmap, memory manager, console, interrupts and start-up of
os-elephant; the format parser of toyos; an abstract specification of the node layer and the
one-step form of the scan, with the proofs that they are implemented; every safety
property of a passing run but the two named at the end of section 4 is proved. What is left to prove needs an induction over data or
liveness.

Not modelled, and why:

* *Lower-vnode callbacks* (`tptfs_reclaim_lowervp`, `tptfs_unlink_lowervp`). They
  are registered in `tpt_vfsops` but `tpt_mountfs` does not put the mount on
  `mnt_uppers`, so nothing calls them at this commit.
  `tptfs_unlink_lowervp` looks at `v_usecount` without a lock (`tpt_vfsops.c:436`).
* *The branch of `tpt_vput_pair`* for a reclaimed `vp`: it needs a lower layer that
  unlocks `vp` (section 5).
* *Disk reads, the kernel image and the switch to protected mode* in `mbr.S` and
  `loader.S`: straight-line code without alternatives or other actors.
* *Steps that are merged or left out* in `Map`, `LowerRelock`, `Vptocnp`,
  `MountReadFails`: see section 2.
* *The text of formatted output* and its buffer: pure loops over characters.
* *The clock's period*: see `Interrupts` above.
* *String libraries*: short pure loops; what they compute for every input is an
  induction that the prover does not do, and nothing in the modelled code depends
  on them.
* `os-elephant/thread` (unfinished, not linked), toyos' SBI calls and boot code
  (pure I/O), `riscvreg.h` (register accessors), and the build output under
  `build/`.
