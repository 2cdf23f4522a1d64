----------------------------- MODULE AtomicScan -----------------------------
(***************************************************************************)
(* bitmap_scan as one step, the way the memory manager (KernelMemory)      *)
(* builds it in.  It is what the code does, not what its comment promises: *)
(* a run may use the bit after the bitmap, and a full bitmap stops the     *)
(* kernel.  Bitmap states the promise (ScanPromise).                       *)
(***************************************************************************)
EXTENDS BitRuns

CONSTANTS
    Size,       \* bits of the bitmap
    MaxCnt      \* bound on the length of a run that is asked for

VARIABLES
    taken,      \* the bits that are 1, the one after the bitmap included
    state,      \* "idle", "asked", "done" or "panic"
    cnt,        \* the length asked for
    answer      \* the start of a run, or -1

absVars == <<taken, state, cnt, answer>>

Init ==
    /\ taken \in {{}, {Size}}
    /\ state = "idle" /\ cnt = 1 /\ answer = -1

Change(i) ==    \* a bit is set or cleared between two scans
    /\ state = "idle"
    /\ taken' \in {taken \cup {i}, taken \ {i}}
    /\ UNCHANGED <<state, cnt, answer>>

Ask(c) ==
    /\ state = "idle" /\ state' = "asked"
    /\ cnt' = c
    /\ UNCHANGED <<taken, answer>>

Answer ==
    LET free == Runs(taken, Size, cnt) IN
    /\ state = "asked" /\ state' = "done"
    /\ ~Full(taken, Size)
    /\ \/ free = {} /\ answer' = -1
       \/ First(free, answer')
    /\ UNCHANGED <<taken, cnt>>

Panic ==        \* the ASSERT comes before the return of -1
    /\ state = "asked" /\ state' = "panic"
    /\ Full(taken, Size)
    /\ UNCHANGED <<taken, cnt, answer>>

Forget ==
    /\ state = "done" /\ state' = "idle"
    /\ cnt' = 1 /\ answer' = -1
    /\ UNCHANGED taken

Next ==
    \/ \E i \in 0 .. Size - 1 : Change(i)
    \/ \E c \in 1 .. MaxCnt : Ask(c)
    \/ Answer \/ Panic \/ Forget

Spec == Init /\ [][Next]_absVars
=============================================================================
