--------------------------- MODULE TptBypassInv ---------------------------
(***************************************************************************)
(* The inductive invariant of TptBypass.  It has a part for each thread,   *)
(* which says what the thread relies on at each label, and one for each    *)
(* kind of counter.                                                        *)
(***************************************************************************)
EXTENDS TptBypass

(* The values of every variable.                                           *)
Labels == {"idle", "pre", "map", "lower", "unlocked", "unmap", "move", "nodeget", "post", "pg",
           "pair", "pair_back", "ret", "panic"}
TypeOK ==
    /\ st \in [Upper -> {"none", "live", "reclaim", "dead"}]
    /\ uuse \in [Upper -> Int] /\ wc \in [Upper -> Int] /\ obj \subseteq Upper
    /\ luse \in [Lower -> Int] /\ lwc \in [Lower -> Int]
    /\ lock \in [Lower \cup Upper -> SUBSET Threads]
    /\ pc \in [Threads -> Labels] /\ op \in [Threads -> Ops]
    /\ args \in [Threads -> [1 .. 4 -> Upper \cup {Null}]] /\ mode \in [Threads -> Modes]
    /\ mapped \in [Threads -> SUBSET (1 .. 4)] /\ rest \in [Threads -> SUBSET (1 .. 4)]
    /\ err \in [Threads -> BOOLEAN] /\ spare \in [Threads -> Lower \cup {Null}]
    /\ up \in [Threads -> Upper \cup {Null}] /\ wfile \in [Threads -> Upper \cup {Null}]

(* Arguments are mapped at these labels.                                   *)
InCall == {"lower", "unlocked", "unmap", "move", "nodeget", "post"}

(* Which calls come to which label, and with which vnodes.                 *)
CallInv(t) ==
    /\ pc[t] = "idle" => op[t] = "getattr"
    /\ pc[t] # "idle" =>
          /\ args[t][1] # Null
          /\ op[t] \in {"remove", "rename"} => args[t][2] # Null
          /\ IF op[t] = "rename" THEN args[t][3] # Null ELSE args[t][3] = Null /\ args[t][4] = Null
          /\ op[t] # "rename" /\ args[t][2] # Null => Below[args[t][1]] # Below[args[t][2]]
    /\ mode[t] = "shared" => op[t] \in SharedOps /\ args[t][2] = Null
    /\ pc[t] = "pre" => op[t] \in {"setattr", "remove", "rename", "pgcache"} \cup VputPairs
    /\ op[t] \in VputPairs => pc[t] \in {"pre", "pair", "pair_back", "ret"}
    /\ pc[t] \in {"pair", "pair_back"} => op[t] \in VputPairs
    /\ op[t] = "pgcache" => pc[t] \in {"pre", "pg", "ret"}
    /\ pc[t] = "pg" => op[t] = "pgcache"
    /\ pc[t] = "nodeget" => op[t] = "create"
    /\ pc[t] = "move" => op[t] # "rename" /\ mode[t] = "exclusive"
    /\ pc[t] = "unlocked" => op[t] \in LowerUnlocks
    /\ err[t] => pc[t] \in {"unmap", "move", "post", "ret", "nodeget", "panic"}

(* tpt_bypass has mapped every argument that is locked, and the first one, *)
(* which tells it that the vnode is its own; those in rest are still to be *)
(* mapped back.                                                            *)
MapInv(t) ==
    /\ pc[t] \in InCall => /\ mapped[t] \subseteq Given(args[t]) /\ 1 \in mapped[t]
                           /\ LockedArgs(op[t], args[t]) \subseteq mapped[t]
    /\ pc[t] \in {"lower", "unlocked"} => rest[t] = mapped[t]
    /\ pc[t] \in {"unmap", "move"} => rest[t] \subseteq mapped[t]
    /\ pc[t] \in {"nodeget", "post"} => rest[t] = {}
    /\ pc[t] = "move" => rest[t] # {} /\ st[args[t][Turn(t)]] # "live"

(* A call keeps a lower vnode of its own between VREF and vrele of         *)
(* tpt_remove, from the lower create to tpt_nodeget, and while it reads a  *)
(* page cache.  The created vnode is none of the locked ones.              *)
SpareInv(t) ==
    /\ spare[t] # Null =>
          \/ op[t] = "remove" /\ pc[t] \in {"map", "panic"} \cup InCall
          \/ op[t] = "create" /\ pc[t] \in {"unmap", "move", "nodeget", "panic"}
          \/ pc[t] = "pg"
    /\ pc[t] = "pg" => spare[t] # Null
    /\ op[t] = "create" /\ pc[t] \in {"unmap", "move"} => (spare[t] = Null <=> err[t])
    /\ pc[t] = "nodeget" => spare[t] # Null
    /\ op[t] = "create" /\ spare[t] # Null =>
          spare[t] \notin {Below[args[t][j]] : j \in LockedArgs(op[t], args[t])}
    /\ up[t] # Null => pc[t] \in {"post", "ret"} /\ op[t] = "create"

(* The arguments whose lock the thread has through the lower vnode, until  *)
(* the argument is mapped back, and those whose lock it has by the lock    *)
(* pointer of the alias (v_vnlock), afterwards.  A shared lock stays with  *)
(* the lower vnode.                                                        *)
LowSide(t) ==
    LET J == LockedArgs(op[t], args[t]) IN
    CASE pc[t] \in {"pre", "map", "lower", "pair"} -> J
      [] pc[t] = "pair_back" -> J \ PairRefs(t)
      [] mode[t] = "shared" /\ pc[t] \in {"unmap", "post", "ret"} -> J
      [] mode[t] = "exclusive" /\ pc[t] = "unmap" /\ op[t] # "rename" -> J \cap rest[t]
      [] pc[t] = "move" -> (J \cap rest[t]) \ {Turn(t)}
      [] OTHER -> {}
UpSide(t) ==
    LET J == LockedArgs(op[t], args[t]) IN
    CASE mode[t] = "shared" -> {}
      [] mode[t] = "exclusive" /\ pc[t] \in {"unmap", "move"} /\ op[t] # "rename" -> J \ rest[t]
      [] mode[t] = "exclusive" /\ pc[t] \in {"nodeget", "post"} /\ op[t] # "rename" -> J
      [] mode[t] = "exclusive" /\ pc[t] = "ret" -> J \cap Kept(t)
      [] OTHER -> {}
(* The locks a thread has are these, that of a created vnode, and that of  *)
(* the alias it returns.                                                   *)
Locks(t) ==
    {Below[args[t][j]] : j \in LowSide(t)} \cup {Vnlock(args[t][j]) : j \in UpSide(t)}
    \cup (IF op[t] = "create" THEN {spare[t]} \ {Null} ELSE {})
    \cup {Vnlock(u) : u \in {up[t]} \ {Null}}
LockInv(t) == pc[t] # "panic" => \A k \in Lower \cup Upper : t \in lock[k] <=> k \in Locks(t)

(* An alias stays live while its lower vnode is locked: before the lower   *)
(* call, and in it where the lower layer keeps its locks.  A shared lock   *)
(* is returned for a reclaimed alias only if the lower layer let go of it. *)
LiveInv(t) ==
    /\ pc[t] \in {"pre", "map", "pair", "pair_back"} => \A j \in LowSide(t) : st[args[t][j]] = "live"
    /\ pc[t] \in InCall /\ op[t] \notin LowerUnlocks \cup {"rename"} =>
          \A j \in LockedArgs(op[t], args[t]) : st[args[t][j]] = "live"
    /\ pc[t] = "ret" /\ mode[t] = "shared" /\ st[args[t][1]] # "live" =>
          mapped[t] # {} /\ op[t] \in LowerUnlocks

(* The kernel went down over an alias that was reclaimed while the call did *)
(* not have it locked.                                                     *)
PanicInv(t) ==
    pc[t] = "panic" =>
        \E j \in Given(args[t]) :
            /\ st[args[t][j]] # "live"
            /\ j \in LockedArgs(op[t], args[t]) => mapped[t] # {} /\ op[t] \in LowerUnlocks

ThreadInv(t) == CallInv(t) /\ MapInv(t) /\ SpareInv(t) /\ LockInv(t) /\ LiveInv(t) /\ PanicInv(t)

(* Every reference is accounted for by a call, an open file or a live alias. *)
RefInv ==
    /\ \A u \in Upper : uuse[u] = Cardinality(UserRefs(u))
            + Cardinality({t \in Threads : up[t] = u}) + Cardinality({t \in Threads : wfile[t] = u})
    /\ \A l \in Lower : luse[l] = Cardinality({u \in Upper : st[u] = "live" /\ Below[u] = l})
            + Cardinality({t \in Threads : spare[t] = l}) + Cardinality(LentRefs(l))
    /\ \A u \in Upper : st[u] = "none" => uuse[u] = 0

(* Open files account for the write counts; those of reclaimed aliases no  *)
(* longer count below.                                                     *)
WcInv ==
    /\ \A u \in Upper : wc[u] = Cardinality({t \in Threads : wfile[t] = u})
    /\ \A l \in Lower : lwc[l] =
          Cardinality({t \in Threads : wfile[t] # Null /\ Below[wfile[t]] = l /\ st[wfile[t]] = "live"})

BypassInv ==
    /\ TypeOK
    /\ \A t \in Threads : ThreadInv(t)
    /\ RefInv /\ WcInv
=============================================================================
