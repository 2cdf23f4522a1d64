----------------------------- MODULE MCTptNode -----------------------------
(* Instances of TptNode for TLC.                                           *)
EXTENDS TptNode, TLC

CONSTANTS l1

(* Every mount is rooted at l1; the other lower vnodes are its entries.    *)
OneRoot == [m \in Mounts |-> l1]
OneTree == [l \in Lower |-> l1]

(* Threads, alias slots and mounts are interchangeable.                    *)
Interchangeable == Permutations(Threads) \cup Permutations(Upper) \cup Permutations(Mounts)
=============================================================================
