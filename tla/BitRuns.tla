------------------------------ MODULE BitRuns ------------------------------
(***************************************************************************)
(* What bitmap_scan of os-elephant looks for, apart from how: runs of free *)
(* bits.  A bitmap is the set of its taken bits; bit number size is the    *)
(* memory after the bitmap.                                                *)
(***************************************************************************)
EXTENDS Integers

(* The starts of c free bits.  A single bit is looked for in the bytes of  *)
(* the bitmap; a longer run may end one bit after them.                    *)
Runs(taken, size, c) ==
    {s \in 0 .. size :
        /\ s + c <= IF c = 1 THEN size ELSE size + 1
        /\ \A i \in s .. s + c - 1 : i \notin taken}

Full(taken, size) == 0 .. size - 1 \subseteq taken

(* First fit: s is the least element of S.                                 *)
First(S, s) == s \in S /\ \A r \in S : s <= r
=============================================================================
