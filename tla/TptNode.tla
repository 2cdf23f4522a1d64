------------------------------ MODULE TptNode ------------------------------
(***************************************************************************)
(* The node layer of tptfs: alias vnodes stacked on lower vnodes, the hash *)
(* that finds the alias of a lower vnode, and the vnode lock that an alias *)
(* shares with its lower vnode until it is reclaimed.                      *)
(*                                                                         *)
(* Threads run tptfs_root and tpt_lookup (both end in tpt_nodeget),        *)
(* tpt_lock, tpt_unlock, the last release of an alias (tpt_inactive and    *)
(* tpt_reclaim) and tptfs_unmount, interleaved at the points where the     *)
(* code takes or drops a lock or a reference.  The parts of the kernel     *)
(* that call the layer or are called by it (lockmgr, vput_final, vflush,   *)
(* insmntque1, the lower file system) are modelled from that use.          *)
(***************************************************************************)
EXTENDS Integers, FiniteSets

CONSTANTS
    Threads,        \* kernel threads
    Lower,          \* vnodes of the lower file system
    Upper,          \* vnode slots for aliases: the bound on live aliases
    Mounts,         \* tptfs mount points
    LowerRoot,      \* [Mounts -> Lower]: nullm_lowerrootvp
    Parent,         \* [Lower -> Lower]: the lower directory tree
    NoThread, Null,
    ForceFlags,     \* the MNT_FORCE choices of unmount: a subset of BOOLEAN
    LowerFaults     \* TRUE: lower vnodes are revoked, lower ".." may fail

ASSUME NodeConstants ==
    /\ LowerRoot \in [Mounts -> Lower]
    /\ Parent \in [Lower -> Lower]
    /\ NoThread \notin Threads
    /\ Null \notin Lower \cup Upper \cup Mounts
    /\ Lower \cap Upper = {}
    /\ ForceFlags \subseteq BOOLEAN
    /\ LowerFaults \in BOOLEAN
    /\ IsFiniteSet(Threads) /\ IsFiniteSet(Upper) /\ IsFiniteSet(Mounts)

VARIABLES
    luse, lhold, ldoomed,           \* lower vnode: v_usecount, holds, VIRF_DOOMED
    uuse, uhold, udoomed,           \* alias vnode: v_usecount, extra holds, VIRF_DOOMED
    data,                           \* VTONULL(vp)->tpt_lowervp; Null once v_data is NULL
    mnt,                            \* v_mount, and the place on the mount's vnode list
    hash,                           \* aliases linked in tpt_node_hashtbl
    deferred,                       \* VI_DEFINACT: inactive processing is owed
    alloc,                          \* alias slots that are allocated vnodes
    ex, sh,                         \* exclusive owner and sharers of every vnode lock
    mstate, seen, busy,             \* mount point: phase, and vflush's progress
    pc, call, mp, low, mode, up, dir, ldvp, tgt, why  \* thread: position and locals

lowerVars == <<luse, lhold, ldoomed>>
aliasVars == <<uuse, uhold, udoomed, data, mnt, hash, deferred, alloc>>
lockVars  == <<ex, sh>>
mountVars == <<mstate, seen, busy>>
argVars   == <<call, mp, mode, dir, ldvp, why>>   \* rarely assigned locals
vars == <<lowerVars, aliasVars, lockVars, mountVars, argVars, pc, low, up, tgt>>

Vnodes == Lower \cup Upper

Labels == {"idle", "vget", "ng_get", "ng_upgrade", "ng_relock", "ng_check", "ng_new",
           "ng_insmnt", "ng_hashins", "dp_detach", "dp_fin", "locked", "ref",
           "lk_start", "lk_lower", "lk_own", "vn_lock", "lu_lock", "dd_lock", "dd_relock",
           "dd_put", "lu_check", "lu_move", "lu_err", "putdir",
           "vf_put", "vf_rele", "inact", "rc_hash", "rc_detach", "rc_rele",
           "rc_fin", "vc_walk", "vc_lock", "vc_ret", "um_pick", "um_flush", "um_fin", "panic"}

LockLabels == {"lk_start", "lk_lower", "lk_own"}
NodegetLabels == {"ng_get", "ng_upgrade", "ng_relock", "ng_check", "ng_new", "ng_insmnt",
                  "ng_hashins"}

(* The locals that are set at a label.                                     *)
LocalsOK(t) ==
    /\ pc[t] \in {"locked", "ref"} => up[t] \in Upper
    /\ pc[t] \in LockLabels \cup {"ng_insmnt", "ng_hashins", "dp_detach", "dp_fin", "vn_lock",
                  "vf_put", "vf_rele", "inact", "rc_hash", "rc_detach", "rc_rele", "rc_fin",
                  "um_flush"} => tgt[t] \in Upper
    /\ \/ pc[t] \in {"lu_lock", "dd_lock", "dd_relock", "dd_put", "lu_check", "lu_move",
                      "lu_err", "putdir", "vc_walk", "vc_lock", "vc_ret"}
       \/ pc[t] \in NodegetLabels \cup {"dp_detach", "dp_fin"} /\ call[t] # "root"
       \/ pc[t] \in LockLabels /\ why[t] \in {"dir", "cnp"}
       => dir[t] \in Upper
    /\ pc[t] \in LockLabels \cup {"vn_lock"} /\ why[t] = "user" => up[t] \in Upper
    /\ pc[t] = "vget" => call[t] = "root"
    /\ pc[t] = "vc_walk" => low[t] \in Lower
    /\ pc[t] \in {"um_pick", "um_flush"} => why[t] = "flush"

(* Counters are integers: that they never go below zero is for the         *)
(* invariants below.                                                       *)
LowerOK ==
    /\ luse \in [Lower -> Int] /\ lhold \in [Lower -> Int]
    /\ ldoomed \in [Lower -> BOOLEAN]

AliasOK ==
    /\ uuse \in [Upper -> Int] /\ uhold \in [Upper -> Int]
    /\ udoomed \in [Upper -> BOOLEAN]
    /\ data \in [Upper -> Lower \cup {Null}]
    /\ mnt \in [Upper -> Mounts \cup {Null}]
    /\ hash \subseteq Upper /\ deferred \subseteq Upper /\ alloc \subseteq Upper

LockOK ==
    /\ ex \in [Vnodes -> Threads \cup {NoThread}]
    /\ sh \in [Vnodes -> SUBSET Threads]

MountOK ==
    /\ mstate \in [Mounts -> {"mounted", "unmount", "force", "gone"}]
    /\ seen \in [Mounts -> SUBSET Upper] /\ busy \in [Mounts -> BOOLEAN]

ThreadOK ==
    /\ pc \in [Threads -> Labels]
    /\ call \in [Threads -> {"root", "lookup", "vptocnp"}]
    /\ mp \in [Threads -> Mounts \cup {Null}]
    /\ low \in [Threads -> Lower \cup {Null}]
    /\ mode \in [Threads -> {"S", "X"}]
    /\ up \in [Threads -> Upper \cup {Null}]
    /\ dir \in [Threads -> Upper \cup {Null}]
    /\ ldvp \in [Threads -> Lower \cup {Null}]
    /\ tgt \in [Threads -> Upper \cup {Null}]
    /\ why \in [Threads -> {"user", "dir", "cnp", "inact", "flush"}]

TypeOK ==
    /\ LowerOK /\ AliasOK /\ LockOK /\ MountOK /\ ThreadOK
    /\ \A t \in Threads : LocalsOK(t)

(* Every mount holds the reference namei gave it on its lower root.       *)
Init ==
    /\ luse = [l \in Lower |-> Cardinality({m \in Mounts : LowerRoot[m] = l})]
    /\ lhold = [l \in Lower |-> 0]
    /\ ldoomed = [l \in Lower |-> FALSE]
    /\ uuse = [u \in Upper |-> 0] /\ uhold = [u \in Upper |-> 0]
    /\ udoomed = [u \in Upper |-> FALSE]
    /\ data = [u \in Upper |-> Null] /\ mnt = [u \in Upper |-> Null]
    /\ hash = {} /\ deferred = {} /\ alloc = {}
    /\ ex = [v \in Vnodes |-> NoThread] /\ sh = [v \in Vnodes |-> {}]
    /\ mstate = [m \in Mounts |-> "mounted"]
    /\ seen = [m \in Mounts |-> {}] /\ busy = [m \in Mounts |-> FALSE]
    /\ pc = [t \in Threads |-> "idle"]
    /\ mp = [t \in Threads |-> Null] /\ low = [t \in Threads |-> Null]
    /\ mode = [t \in Threads |-> "X"]
    /\ up = [t \in Threads |-> Null] /\ dir = [t \in Threads |-> Null]
    /\ ldvp = [t \in Threads |-> Null] /\ tgt = [t \in Threads |-> Null]
    /\ why = [t \in Threads |-> "user"] /\ call = [t \in Threads |-> "root"]

-----------------------------------------------------------------------------
(* The vnode locks.  v_vnlock of an alias is its lower vnode's lock while  *)
(* v_data is set and its own v_lock afterwards; both are switched in one   *)
(* interlock section.                                                      *)
Vnlock(u) == IF data[u] = Null THEN u ELSE data[u]

Free(k, m) == ex[k] = NoThread /\ (m = "X" => sh[k] = {})
Holds(t, k) == ex[k] = t \/ t \in sh[k]

Acquire(t, k, m) ==
    /\ Free(k, m)
    /\ ex' = [ex EXCEPT ![k] = IF m = "X" THEN t ELSE @]
    /\ sh' = [sh EXCEPT ![k] = IF m = "S" THEN @ \cup {t} ELSE @]

Release(t, k) ==
    /\ ex' = [ex EXCEPT ![k] = IF @ = t THEN NoThread ELSE @]
    /\ sh' = [sh EXCEPT ![k] = @ \ {t}]

(* LK_UPGRADE by the only sharer.                                          *)
Upgrade(t, k) ==
    /\ ex[k] = NoThread /\ sh[k] = {t}
    /\ ex' = [ex EXCEPT ![k] = t]
    /\ sh' = [sh EXCEPT ![k] = {}]

Go(t, label) == pc' = [pc EXCEPT ![t] = label]

(* Where a thread continues once it has released a vnode: with the vnode u *)
(* it still has, or with nothing.  VOP_VPTOCNP leaves the parent unlocked. *)
Rest(t, u) == IF u = Null THEN "idle" ELSE IF call[t] = "vptocnp" THEN "ref" ELSE "locked"

(* Dropping a reference on a lower vnode, and vdrop of an alias: a doomed  *)
(* alias is freed with its last hold.                                      *)
LowerRele(l) == luse' = [luse EXCEPT ![l] = @ - 1]

Vdrop(u) ==
    /\ uhold' = [uhold EXCEPT ![u] = @ - 1]
    /\ IF udoomed[u] /\ uuse[u] = 0 /\ uhold[u] = 1
       THEN alloc' = alloc \ {u} /\ udoomed' = [udoomed EXCEPT ![u] = FALSE]
       ELSE UNCHANGED <<alloc, udoomed>>

-----------------------------------------------------------------------------
(* tptfs_root: vget of the lower root, then tpt_nodeget.  The caller has   *)
(* the mount busied, which an unmount waits for (see UnmountStart).        *)
Root(t, m, md) ==
    /\ pc[t] = "idle" /\ mstate[m] = "mounted"
    /\ luse' = [luse EXCEPT ![LowerRoot[m]] = @ + 1]
    /\ call' = [call EXCEPT ![t] = "root"]
    /\ mp' = [mp EXCEPT ![t] = m]
    /\ low' = [low EXCEPT ![t] = LowerRoot[m]]
    /\ mode' = [mode EXCEPT ![t] = md]
    /\ Go(t, "vget")
    /\ UNCHANGED <<lhold, ldoomed, aliasVars, lockVars, mountVars, dir, ldvp, why, up, tgt>>

VgetDone(t) ==
    /\ pc[t] = "vget" /\ ~ldoomed[low[t]]
    /\ Acquire(t, low[t], mode[t])
    /\ Go(t, "ng_get")
    /\ UNCHANGED <<lowerVars, aliasVars, mountVars, argVars, low, up, tgt>>

VgetDoomed(t) ==
    /\ pc[t] = "vget" /\ ldoomed[low[t]]
    /\ Free(low[t], mode[t])
    /\ LowerRele(low[t])
    /\ low' = [low EXCEPT ![t] = Null]
    /\ Go(t, "idle")
    /\ UNCHANGED <<lhold, ldoomed, aliasVars, lockVars, mountVars, argVars, up, tgt>>

-----------------------------------------------------------------------------
(* tpt_nodeget on low[t], which the thread has locked and referenced.      *)

(* The alias that tpt_hashget and tpt_hashins look for.                    *)
Aliases(m, l) == {u \in hash : data[u] = l /\ mnt[u] = m}

(* Mutation of NodegetReturn: *vpp is not stored.                           *)
NodegetReturnNoVpp(t, u) ==
    /\ low' = [low EXCEPT ![t] = Null]
    /\ tgt' = [tgt EXCEPT ![t] = Null]
    /\ Go(t, CASE call[t] = "lookup" -> "putdir" [] call[t] = "vptocnp" -> "vc_ret"
             [] OTHER -> Rest(t, u))
    /\ UNCHANGED up

(* tpt_nodeget returns u, or an error when u is Null: to tpt_lookup, whose *)
(* caller then releases the directory, to tpt_vptocnp or to tptfs_root.    *)
NodegetReturn(t, u) ==
    /\ up' = [up EXCEPT ![t] = u]
    /\ low' = [low EXCEPT ![t] = Null]
    /\ tgt' = [tgt EXCEPT ![t] = Null]
    /\ Go(t, CASE call[t] = "lookup" -> "putdir" [] call[t] = "vptocnp" -> "vc_ret"
             [] OTHER -> Rest(t, u))

(* Errors found with the lower vnode still locked: vput it and return.     *)
NodegetFail(t) ==
    /\ LowerRele(low[t])
    /\ Release(t, low[t])
    /\ NodegetReturn(t, Null)
    /\ UNCHANGED <<lhold, ldoomed, aliasVars, mountVars, argVars>>

HashgetHit(t) ==
    /\ pc[t] = "ng_get"
    /\ \E u \in Aliases(mp[t], low[t]) :
          /\ uuse' = [uuse EXCEPT ![u] = @ + 1]
          /\ NodegetReturn(t, u)
    /\ LowerRele(low[t])
    /\ UNCHANGED <<lhold, ldoomed, uhold, udoomed, data, mnt, hash, deferred, alloc,
                   lockVars, mountVars, argVars>>

HashgetMiss(t) ==
    /\ pc[t] = "ng_get" /\ Aliases(mp[t], low[t]) = {}
    /\ Go(t, IF ex[low[t]] = t THEN "ng_new" ELSE "ng_upgrade")
    /\ UNCHANGED <<lowerVars, aliasVars, lockVars, mountVars, argVars, low, up, tgt>>

(* vn_lock(lowervp, LK_UPGRADE): with other sharers the shared lock is     *)
(* given up before the thread waits for the exclusive one.                 *)
NodegetUpgrade(t) ==
    /\ pc[t] = "ng_upgrade"
    /\ IF sh[low[t]] = {t}
       THEN Upgrade(t, low[t]) /\ Go(t, "ng_check")
       ELSE Release(t, low[t]) /\ Go(t, "ng_relock")
    /\ UNCHANGED <<lowerVars, aliasVars, mountVars, argVars, low, up, tgt>>

NodegetRelock(t) ==
    /\ pc[t] = "ng_relock"
    /\ Acquire(t, low[t], "X")
    /\ Go(t, "ng_check")
    /\ UNCHANGED <<lowerVars, aliasVars, mountVars, argVars, low, up, tgt>>

NodegetDoomed(t) ==
    /\ pc[t] = "ng_check" /\ ldoomed[low[t]]
    /\ NodegetFail(t)

(* Mutation of NodegetUpgraded: VN_IS_DOOMED(lowervp) is not looked at.    *)
NodegetUpgradedAnyway(t) ==
    /\ pc[t] = "ng_check"
    /\ Go(t, "ng_new")
    /\ UNCHANGED <<lowerVars, aliasVars, lockVars, mountVars, argVars, low, up, tgt>>

NodegetUpgraded(t) ==
    /\ pc[t] = "ng_check" /\ ~ldoomed[low[t]]
    /\ Go(t, "ng_new")
    /\ UNCHANGED <<lowerVars, aliasVars, lockVars, mountVars, argVars, low, up, tgt>>

GetnewvnodeFail(t) ==
    /\ pc[t] = "ng_new"
    /\ NodegetFail(t)

Getnewvnode(t, u) ==
    /\ pc[t] = "ng_new" /\ u \notin alloc
    /\ alloc' = alloc \cup {u}
    /\ uuse' = [uuse EXCEPT ![u] = 1]
    /\ data' = [data EXCEPT ![u] = low[t]]
    /\ tgt' = [tgt EXCEPT ![t] = u]
    /\ Go(t, "ng_insmnt")
    /\ UNCHANGED <<lowerVars, uhold, udoomed, mnt, hash, deferred, lockVars, mountVars,
                   argVars, low, up>>

(* insmntque1 refuses a mount that is being forcibly unmounted, or whose   *)
(* vnode list an unmount has already emptied.                              *)
Listed(m) == {u \in Upper : mnt[u] = m}

Refuses(m) == mstate[m] \in {"force", "gone"} \/ (mstate[m] = "unmount" /\ Listed(m) = {})

InsmntqueFail(t) ==     \* tpt_insmntque_dtr: vput(lowervp), then the proto goes
    /\ pc[t] = "ng_insmnt" /\ Refuses(mp[t])
    /\ LowerRele(low[t])
    /\ Release(t, low[t])
    /\ Go(t, "dp_detach")
    /\ UNCHANGED <<lhold, ldoomed, aliasVars, mountVars, argVars, low, up, tgt>>

(* Mutation of Insmntque: the error of insmntque1 is ignored.              *)
InsmntqueAnyway(t) ==
    /\ pc[t] = "ng_insmnt"
    /\ mnt' = [mnt EXCEPT ![tgt[t]] = mp[t]]
    /\ Go(t, "ng_hashins")
    /\ UNCHANGED <<lowerVars, uuse, uhold, udoomed, data, hash, deferred, alloc, lockVars,
                   mountVars, argVars, low, up, tgt>>

Insmntque(t) ==
    /\ pc[t] = "ng_insmnt" /\ ~Refuses(mp[t])
    /\ mnt' = [mnt EXCEPT ![tgt[t]] = mp[t]]
    /\ Go(t, "ng_hashins")
    /\ UNCHANGED <<lowerVars, uuse, uhold, udoomed, data, hash, deferred, alloc, lockVars,
                   mountVars, argVars, low, up, tgt>>

(* Mutation of Hashins: insert without searching the chain first.          *)
HashinsBlind(t) ==
    /\ pc[t] = "ng_hashins"
    /\ hash' = hash \cup {tgt[t]}
    /\ NodegetReturn(t, tgt[t])
    /\ UNCHANGED <<lowerVars, uuse, uhold, udoomed, data, mnt, deferred, alloc, lockVars,
                   mountVars, argVars>>

Hashins(t) ==
    /\ pc[t] = "ng_hashins" /\ Aliases(mp[t], low[t]) = {}
    /\ hash' = hash \cup {tgt[t]}
    /\ NodegetReturn(t, tgt[t])
    /\ UNCHANGED <<lowerVars, uuse, uhold, udoomed, data, mnt, deferred, alloc, lockVars,
                   mountVars, argVars>>

HashinsDup(t) ==        \* somebody else was faster: use theirs, drop the proto
    /\ pc[t] = "ng_hashins"
    /\ \E o \in Aliases(mp[t], low[t]) :
          /\ uuse' = [uuse EXCEPT ![o] = @ + 1]
          /\ up' = [up EXCEPT ![t] = o]
    /\ LowerRele(low[t])
    /\ Go(t, "dp_detach")
    /\ UNCHANGED <<lhold, ldoomed, uhold, udoomed, data, mnt, hash, deferred, alloc,
                   lockVars, mountVars, argVars, low, tgt>>

(* tpt_destroy_proto: clear v_data under the proto's own lock, vgone, vput. *)
DestroyProtoDetach(t) ==
    /\ pc[t] = "dp_detach"
    /\ Acquire(t, tgt[t], "X")
    /\ data' = [data EXCEPT ![tgt[t]] = Null]
    /\ Go(t, "dp_fin")
    /\ UNCHANGED <<lowerVars, uuse, uhold, udoomed, mnt, hash, deferred, alloc, mountVars,
                   argVars, low, up, tgt>>

DestroyProtoFin(t) ==
    LET u == tgt[t] IN
    /\ pc[t] = "dp_fin"
    /\ mnt' = [mnt EXCEPT ![u] = Null]
    /\ uuse' = [uuse EXCEPT ![u] = @ - 1]
    /\ alloc' = IF uuse[u] = 1 /\ uhold[u] = 0 THEN alloc \ {u} ELSE alloc
    /\ udoomed' = [udoomed EXCEPT ![u] = uuse[u] > 1 \/ uhold[u] > 0]
    /\ Release(t, u)
    /\ NodegetReturn(t, up[t])
    /\ UNCHANGED <<lowerVars, uhold, data, hash, deferred, mountVars, argVars>>

-----------------------------------------------------------------------------
(* vn_lock of the alias tgt[t] in mode[t], on behalf of why[t]: a user, the *)
(* end of tpt_lookup (LK_RETRY), inactive processing, or vflush.           *)

(* Mutation of LockStart: no vholdnz(lvp).                                 *)
LockStartNoHold(t) ==
    LET l == data[tgt[t]] IN
    /\ pc[t] = "lk_start"
    /\ low' = [low EXCEPT ![t] = l]
    /\ Go(t, IF l # Null THEN "lk_lower" ELSE "lk_own")
    /\ UNCHANGED <<lowerVars, aliasVars, lockVars, mountVars, argVars, up, tgt>>

(* tpt_lock reads v_data under the interlock and holds the lower vnode     *)
(* before it sleeps for its lock.                                          *)
LockStart(t) ==
    LET l == data[tgt[t]] IN
    /\ pc[t] = "lk_start"
    /\ IF l # Null
       THEN /\ lhold' = [lhold EXCEPT ![l] = @ + 1]
            /\ low' = [low EXCEPT ![t] = l]
            /\ Go(t, "lk_lower")
       ELSE Go(t, "lk_own") /\ UNCHANGED <<lhold, low>>
    /\ UNCHANGED <<luse, ldoomed, aliasVars, lockVars, mountVars, argVars, up, tgt>>

(* LK_RETRY takes a doomed vnode as it is; the other callers look first.   *)
LockGranted(t) == Go(t, CASE why[t] = "dir" -> "lu_err" [] why[t] = "cnp" -> "putdir"
                          [] OTHER -> "vn_lock")

(* Mutation of LockLower: no vdrop(lvp).                                   *)
LockLowerNoDrop(t) ==
    /\ pc[t] = "lk_lower" /\ data[tgt[t]] # Null
    /\ Acquire(t, low[t], mode[t])
    /\ low' = [low EXCEPT ![t] = Null]
    /\ LockGranted(t)
    /\ UNCHANGED <<lowerVars, aliasVars, mountVars, argVars, up, tgt>>

LockLower(t) ==
    LET l == low[t] IN
    /\ pc[t] = "lk_lower" /\ data[tgt[t]] # Null
    /\ Acquire(t, l, mode[t])
    /\ lhold' = [lhold EXCEPT ![l] = @ - 1]
    /\ low' = [low EXCEPT ![t] = Null]
    /\ LockGranted(t)
    /\ UNCHANGED <<luse, ldoomed, aliasVars, mountVars, argVars, up, tgt>>

(* Mutation of LockSwitched: the lock pointer is not looked at again.      *)
LockSwitchedNot(t) ==
    /\ pc[t] = "lk_lower" /\ data[tgt[t]] = Null
    /\ Acquire(t, low[t], mode[t])
    /\ lhold' = [lhold EXCEPT ![low[t]] = @ - 1]
    /\ low' = [low EXCEPT ![t] = Null]
    /\ LockGranted(t)
    /\ UNCHANGED <<luse, ldoomed, aliasVars, mountVars, argVars, up, tgt>>

(* The alias was reclaimed while the thread slept: the lower lock is taken *)
(* and let go, and the thread queues for the alias's own lock.             *)
LockSwitched(t) ==
    /\ pc[t] = "lk_lower" /\ data[tgt[t]] = Null
    /\ Free(low[t], mode[t])
    /\ Go(t, "lk_own")
    /\ UNCHANGED <<lowerVars, aliasVars, lockVars, mountVars, argVars, low, up, tgt>>

LockOwn(t) ==
    /\ pc[t] = "lk_own"
    /\ Acquire(t, tgt[t], mode[t])
    /\ IF low[t] # Null
       THEN lhold' = [lhold EXCEPT ![low[t]] = @ - 1]
       ELSE UNCHANGED lhold
    /\ low' = [low EXCEPT ![t] = Null]
    /\ LockGranted(t)
    /\ UNCHANGED <<luse, ldoomed, aliasVars, mountVars, argVars, up, tgt>>

VnLockDone(t) ==
    /\ pc[t] = "vn_lock" /\ ~udoomed[tgt[t]]
    /\ Go(t, CASE why[t] = "user" -> "locked" [] why[t] = "flush" -> "um_flush"
             [] OTHER -> "inact")
    /\ tgt' = IF why[t] = "user" THEN [tgt EXCEPT ![t] = Null] ELSE tgt
    /\ UNCHANGED <<lowerVars, aliasVars, lockVars, mountVars, argVars, low, up>>

(* ENOENT: the lock is given back.  A user keeps its reference; inactive   *)
(* processing and vflush drop their hold, and vflush starts its pass over. *)
VnLockDoomed(t) ==
    /\ pc[t] = "vn_lock" /\ udoomed[tgt[t]]
    /\ Release(t, Vnlock(tgt[t]))
    /\ tgt' = [tgt EXCEPT ![t] = Null]
    /\ IF why[t] = "user"
       THEN Go(t, "ref") /\ UNCHANGED <<uhold, udoomed, alloc>>
       ELSE Vdrop(tgt[t]) /\ Go(t, IF why[t] = "flush" THEN "um_pick" ELSE Rest(t, up[t]))
    /\ seen' = IF why[t] = "flush" THEN [seen EXCEPT ![mp[t]] = {}] ELSE seen
    /\ UNCHANGED <<lowerVars, uuse, data, mnt, hash, deferred, mstate, busy, argVars, low, up>>

(* VOP_UNLOCK (tpt_unlock) of a vnode the thread keeps a reference to, and *)
(* vn_lock of it again.                                                    *)
Unlock(t) ==
    /\ pc[t] = "locked"
    /\ Release(t, Vnlock(up[t]))
    /\ Go(t, "ref")
    /\ UNCHANGED <<lowerVars, aliasVars, mountVars, argVars, low, up, tgt>>

Relock(t, md) ==
    /\ pc[t] = "ref"
    /\ tgt' = [tgt EXCEPT ![t] = up[t]]
    /\ mode' = [mode EXCEPT ![t] = md]
    /\ why' = [why EXCEPT ![t] = "user"]
    /\ Go(t, "lk_start")
    /\ UNCHANGED <<lowerVars, aliasVars, lockVars, mountVars, call, mp, dir, ldvp, low, up>>

-----------------------------------------------------------------------------
(* Releasing an alias.  With the last use the thread keeps a hold and goes *)
(* through vput_final, whose inactive processing reclaims the alias.       *)

(* nullm_flags come from malloc(M_ZERO) and nothing sets NULLM_CACHE, so   *)
(* tpt_want_recycle always says yes.                                       *)
NullmFlags == {}
WantRecycle == "CACHE" \notin NullmFlags

PutUse(u) ==
    /\ uuse' = [uuse EXCEPT ![u] = @ - 1]
    /\ uhold' = IF uuse[u] = 1 THEN [uhold EXCEPT ![u] = @ + 1] ELSE uhold

(* vput of a vnode the thread has locked: the user's own, or the directory *)
(* after a lookup.  Unlocking what is not locked is a lockmgr panic.       *)
Vput(t, u) ==
    /\ PutUse(u)
    /\ IF ~Holds(t, Vnlock(u)) THEN Go(t, "panic") /\ UNCHANGED lockVars
       ELSE IF uuse[u] = 1 THEN Go(t, "vf_put") /\ UNCHANGED lockVars
       ELSE Release(t, Vnlock(u)) /\ Go(t, Rest(t, up'[t]))
    /\ tgt' = [tgt EXCEPT ![t] = IF uuse[u] = 1 THEN u ELSE Null]
    /\ UNCHANGED <<lowerVars, udoomed, data, mnt, hash, deferred, alloc, mountVars,
                   call, mp, mode, ldvp, why, low>>

VputUser(t) ==
    /\ pc[t] = "locked"
    /\ up' = [up EXCEPT ![t] = Null]
    /\ UNCHANGED dir
    /\ Vput(t, up[t])

VputDir(t) ==
    /\ pc[t] = "putdir" /\ up[t] # dir[t]
    /\ dir' = [dir EXCEPT ![t] = Null]
    /\ UNCHANGED up
    /\ Vput(t, dir[t])

VreleDir(t) ==          \* "." returned the directory itself, locked once
    /\ pc[t] = "putdir" /\ up[t] = dir[t]
    /\ PutUse(dir[t])
    /\ dir' = [dir EXCEPT ![t] = Null]
    /\ tgt' = [tgt EXCEPT ![t] = Null]
    /\ Go(t, "locked")
    /\ UNCHANGED <<lowerVars, udoomed, data, mnt, hash, deferred, alloc, lockVars, mountVars,
                   call, mp, mode, ldvp, why, low, up>>

(* vdefer_inactive: leave the inactive processing, and the hold, to the    *)
(* syncer; one owed turn is enough.                                        *)
Defer(u) ==
    IF u \in deferred THEN Vdrop(u) /\ UNCHANGED deferred
    ELSE deferred' = deferred \cup {u} /\ UNCHANGED <<uhold, alloc, udoomed>>

NoInactive(u) == uuse[u] > 0 \/ udoomed[u] \/ ~WantRecycle

VputFinal(t) ==
    LET u == tgt[t] IN
    /\ pc[t] = "vf_put"
    /\ IF NoInactive(u)
       THEN Release(t, Vnlock(u)) /\ Vdrop(u) /\ Go(t, Rest(t, up[t])) /\ UNCHANGED deferred
       ELSE IF ex[Vnlock(u)] = t
       THEN Go(t, "inact") /\ UNCHANGED <<uhold, alloc, udoomed, deferred, lockVars>>
       ELSE IF sh[Vnlock(u)] = {t}
       THEN Upgrade(t, Vnlock(u)) /\ Go(t, "inact") /\ UNCHANGED <<uhold, alloc, udoomed, deferred>>
       ELSE Release(t, Vnlock(u)) /\ Defer(u) /\ Go(t, Rest(t, up[t]))
    /\ why' = [why EXCEPT ![t] = "inact"]
    /\ tgt' = IF pc'[t] = "inact" THEN tgt ELSE [tgt EXCEPT ![t] = Null]
    /\ UNCHANGED <<lowerVars, uuse, data, mnt, hash, mountVars, call, mp, mode, dir, ldvp, low, up>>

Vrele(t) ==
    LET u == up[t] IN
    /\ pc[t] = "ref"
    /\ PutUse(u)
    /\ up' = [up EXCEPT ![t] = Null]
    /\ IF uuse[u] = 1
       THEN Go(t, "vf_rele") /\ tgt' = [tgt EXCEPT ![t] = u]
       ELSE Go(t, "idle") /\ UNCHANGED tgt
    /\ UNCHANGED <<lowerVars, udoomed, data, mnt, hash, deferred, alloc, lockVars, mountVars,
                   argVars, low>>

VreleFinal(t) ==
    LET u == tgt[t] IN
    /\ pc[t] = "vf_rele"
    /\ IF NoInactive(u) \/ sh[Vnlock(u)] # {}
       THEN /\ IF NoInactive(u) THEN Vdrop(u) /\ UNCHANGED deferred ELSE Defer(u)
            /\ tgt' = [tgt EXCEPT ![t] = Null]
            /\ Go(t, "idle")
            /\ UNCHANGED <<mode, why>>
       ELSE /\ mode' = [mode EXCEPT ![t] = "X"]
            /\ why' = [why EXCEPT ![t] = "inact"]
            /\ Go(t, "lk_start")
            /\ UNCHANGED <<uhold, alloc, udoomed, deferred, tgt>>
    /\ UNCHANGED <<lowerVars, uuse, data, mnt, hash, lockVars, mountVars, call, mp, dir, ldvp, low, up>>

(* The syncer takes over an owed turn (vfs_deferred_inactive).             *)
DeferredInactive(t, u) ==
    /\ pc[t] = "idle" /\ u \in deferred
    /\ deferred' = deferred \ {u}
    /\ tgt' = [tgt EXCEPT ![t] = u]
    /\ mode' = [mode EXCEPT ![t] = "X"]
    /\ why' = [why EXCEPT ![t] = "inact"]
    /\ Go(t, "lk_start")
    /\ UNCHANGED <<lowerVars, uuse, uhold, udoomed, data, mnt, hash, alloc, lockVars, mountVars,
                   call, mp, dir, ldvp, low, up>>

(* vgonel marks the vnode and takes over an owed inactive turn's hold.     *)
Doom(t, u) ==
    /\ udoomed' = [udoomed EXCEPT ![u] = TRUE]
    /\ uhold' = IF u \in deferred THEN [uhold EXCEPT ![u] = @ - 1] ELSE uhold
    /\ deferred' = deferred \ {u}
    /\ low' = [low EXCEPT ![t] = data[u]]
    /\ Go(t, "rc_hash")
    /\ UNCHANGED <<alloc, lockVars, tgt>>

(* tpt_inactive, and vrecycle's look at the use count.                     *)
Inactive(t) ==
    LET u == tgt[t] IN
    /\ pc[t] = "inact"
    /\ IF uuse[u] = 0 /\ WantRecycle THEN Doom(t, u)
       ELSE /\ Release(t, Vnlock(u)) /\ Vdrop(u) /\ Go(t, Rest(t, up[t]))
            /\ tgt' = [tgt EXCEPT ![t] = Null]
            /\ UNCHANGED <<deferred, low>>
    /\ UNCHANGED <<lowerVars, uuse, data, mnt, hash, mountVars, argVars, up>>

(* Mutation of ReclaimHashrem: the lower vnode is unlocked first.           *)
ReclaimHashremLate(t) ==
    /\ pc[t] = "rc_hash"
    /\ IF ex[low[t]] = t
       THEN Release(t, low[t]) /\ UNCHANGED <<hash, pc>>
       ELSE hash' = hash \ {tgt[t]} /\ Go(t, "rc_detach") /\ UNCHANGED lockVars
    /\ UNCHANGED <<lowerVars, uuse, uhold, udoomed, data, mnt, deferred, alloc, mountVars,
                   argVars, low, up, tgt>>

-----------------------------------------------------------------------------
(* tpt_reclaim of tgt[t], with the shared lock held exclusively.           *)
ReclaimHashrem(t) ==
    /\ pc[t] = "rc_hash"
    /\ hash' = hash \ {tgt[t]}
    /\ Go(t, "rc_detach")
    /\ UNCHANGED <<lowerVars, uuse, uhold, udoomed, data, mnt, deferred, alloc, lockVars,
                   mountVars, argVars, low, up, tgt>>

(* Mutation of ReclaimDetach: v_lock is not taken.                         *)
ReclaimDetachUnlocked(t) ==
    /\ pc[t] = "rc_detach"
    /\ data' = [data EXCEPT ![tgt[t]] = Null]
    /\ Go(t, "rc_rele")
    /\ UNCHANGED <<lowerVars, uuse, uhold, udoomed, mnt, hash, deferred, alloc, lockVars,
                   mountVars, argVars, low, up, tgt>>

ReclaimDetach(t) ==
    /\ pc[t] = "rc_detach"
    /\ Acquire(t, tgt[t], "X")
    /\ data' = [data EXCEPT ![tgt[t]] = Null]
    /\ Go(t, "rc_rele")
    /\ UNCHANGED <<lowerVars, uuse, uhold, udoomed, mnt, hash, deferred, alloc, mountVars,
                   argVars, low, up, tgt>>

ReclaimRele(t) ==       \* vput(lowervp)
    /\ pc[t] = "rc_rele"
    /\ LowerRele(low[t])
    /\ Release(t, low[t])
    /\ low' = [low EXCEPT ![t] = Null]
    /\ Go(t, "rc_fin")
    /\ UNCHANGED <<lhold, ldoomed, aliasVars, mountVars, argVars, up, tgt>>

(* Back in vgonel (delmntque) and its caller, which unlocks and drops.     *)
ReclaimFin(t) ==
    LET u == tgt[t] IN
    /\ pc[t] = "rc_fin"
    /\ mnt' = [mnt EXCEPT ![u] = Null]
    /\ Release(t, u)
    /\ Vdrop(u)
    /\ tgt' = [tgt EXCEPT ![t] = Null]
    /\ Go(t, IF why[t] = "flush" THEN "um_pick" ELSE Rest(t, up[t]))
    /\ UNCHANGED <<lowerVars, uuse, data, hash, deferred, mountVars, argVars, low, up>>

-----------------------------------------------------------------------------
(* tptfs_unmount and the vflush it calls.                                  *)

(* A mount is busied while tptfs_root runs on it; dounmount drains those.  *)
RootBusy(m) == \E t \in Threads : /\ mp[t] = m /\ call[t] = "root"
                                 /\ pc[t] \in NodegetLabels \cup {"vget", "dp_detach", "dp_fin"}

UnmountStart(t, m, force) ==
    /\ pc[t] = "idle" /\ mstate[m] = "mounted" /\ ~RootBusy(m)
    /\ mstate' = [mstate EXCEPT ![m] = IF force THEN "force" ELSE "unmount"]
    /\ seen' = [seen EXCEPT ![m] = {}]
    /\ busy' = [busy EXCEPT ![m] = FALSE]
    /\ mp' = [mp EXCEPT ![t] = m]
    /\ mode' = [mode EXCEPT ![t] = "X"]
    /\ why' = [why EXCEPT ![t] = "flush"]
    /\ Go(t, "um_pick")
    /\ UNCHANGED <<lowerVars, aliasVars, lockVars, call, dir, ldvp, low, up, tgt>>

(* The next vnode of vflush's pass; vnodes already doomed are passed over. *)
Pending(m) == {u \in Listed(m) \ seen[m] : ~udoomed[u]}

FlushPick(t, u) ==
    LET m == mp[t] IN
    /\ pc[t] = "um_pick" /\ u \in Pending(m)
    /\ seen' = [seen EXCEPT ![m] = @ \cup {u}]
    /\ uhold' = [uhold EXCEPT ![u] = @ + 1]
    /\ tgt' = [tgt EXCEPT ![t] = u]
    /\ Go(t, "lk_start")
    /\ UNCHANGED <<lowerVars, uuse, udoomed, data, mnt, hash, deferred, alloc, lockVars,
                   mstate, busy, argVars, low, up>>

FlushVnode(t) ==
    LET u == tgt[t] IN
    /\ pc[t] = "um_flush"
    /\ IF uuse[u] = 0 \/ mstate[mp[t]] = "force"
       THEN Doom(t, u) /\ UNCHANGED busy
       ELSE /\ busy' = [busy EXCEPT ![mp[t]] = TRUE]
            /\ Release(t, Vnlock(u)) /\ Vdrop(u) /\ Go(t, "um_pick")
            /\ tgt' = [tgt EXCEPT ![t] = Null]
            /\ UNCHANGED <<deferred, low>>
    /\ UNCHANGED <<lowerVars, uuse, data, mnt, hash, mstate, seen, argVars, up>>

FlushAgain(t) ==        \* forced, and vnodes are still on the list
    /\ pc[t] = "um_pick" /\ Pending(mp[t]) = {} /\ ~busy[mp[t]]
    /\ Listed(mp[t]) # {} /\ mstate[mp[t]] = "force"
    /\ seen' = [seen EXCEPT ![mp[t]] = {}]
    /\ UNCHANGED <<lowerVars, aliasVars, lockVars, mstate, busy, argVars, pc, low, up, tgt>>

UnmountBusy(t) ==       \* EBUSY: the mount stays
    LET m == mp[t] IN
    /\ pc[t] = "um_pick" /\ Pending(m) = {}
    /\ busy[m] \/ (Listed(m) # {} /\ mstate[m] = "unmount")
    /\ mstate' = [mstate EXCEPT ![m] = "mounted"]
    /\ Go(t, "idle")
    /\ UNCHANGED <<lowerVars, aliasVars, lockVars, seen, busy, argVars, low, up, tgt>>

(* Mutation of UnmountEmpty: the loop is not left when the list is empty.  *)
UnmountEmptyLoops(t) ==
    /\ pc[t] = "um_pick" /\ ~busy[mp[t]] /\ Listed(mp[t]) = {}
    /\ UNCHANGED vars

UnmountEmpty(t) ==      \* mnt_nvnodelistsize is 0
    /\ pc[t] = "um_pick" /\ ~busy[mp[t]] /\ Listed(mp[t]) = {}
    /\ Go(t, "um_fin")
    /\ UNCHANGED <<lowerVars, aliasVars, lockVars, mountVars, argVars, low, up, tgt>>

UnmountFin(t) ==        \* vrele(nullm_lowerrootvp), free the tpt_mount
    LET m == mp[t] IN
    /\ pc[t] = "um_fin"
    /\ LowerRele(LowerRoot[m])
    /\ mstate' = [mstate EXCEPT ![m] = "gone"]
    /\ Go(t, "idle")
    /\ UNCHANGED <<lhold, ldoomed, aliasVars, lockVars, seen, busy, argVars, low, up, tgt>>

-----------------------------------------------------------------------------
(* tpt_lookup in the locked directory up[t].  The lower vnode of the       *)
(* directory is held until the end; the lower VOP_LOOKUP finds an entry    *)
(* with the directory locked, and unlocks the directory for "..".  Name    *)
(* lookup locks exclusively: tpt_mountfs does not set MNTK_LOOKUP_SHARED.  *)
(* A reclaimed vnode has other vnode operations, so v_data is set here.    *)

LookupStart(t, l, label) ==
    LET d == data[up[t]] IN
    /\ pc[t] = "locked" /\ d # Null /\ ex[d] = t
    /\ lhold' = [lhold EXCEPT ![d] = @ + 1]
    /\ luse' = IF l = Null THEN luse ELSE [luse EXCEPT ![l] = @ + 1]
    /\ call' = [call EXCEPT ![t] = "lookup"]
    /\ mp' = [mp EXCEPT ![t] = mnt[up[t]]]
    /\ ldvp' = [ldvp EXCEPT ![t] = d]
    /\ low' = [low EXCEPT ![t] = l]
    /\ mode' = [mode EXCEPT ![t] = "X"]
    /\ dir' = [dir EXCEPT ![t] = up[t]]
    /\ up' = [up EXCEPT ![t] = Null]
    /\ Go(t, label)
    /\ UNCHANGED <<ldoomed, aliasVars, mountVars, why, tgt>>

LookupChild(t, c) ==
    /\ pc[t] = "locked"
    /\ Parent[c] = data[up[t]] /\ c # data[up[t]]
    /\ LookupStart(t, c, "lu_lock")
    /\ UNCHANGED lockVars

LookupDot(t) ==
    /\ pc[t] = "locked"
    /\ LookupStart(t, data[up[t]], "lu_check")
    /\ UNCHANGED lockVars

LookupMissing(t) ==     \* an error, or EJUSTRETURN without a vnode
    /\ pc[t] = "locked"
    /\ LookupStart(t, Null, "lu_err")
    /\ UNCHANGED lockVars

(* namei never asks for ".." in the root of the mount.                     *)
BelowRoot(u) == data[u] # Null /\ data[u] # LowerRoot[mnt[u]]

(* Mutation of LookupDotDot: the directory stays locked.                   *)
LookupDotDotLocked(t) ==
    /\ pc[t] = "locked" /\ BelowRoot(up[t])
    /\ LookupStart(t, Parent[data[up[t]]], "lu_lock")
    /\ UNCHANGED lockVars

LookupDotDot(t) ==
    /\ pc[t] = "locked" /\ BelowRoot(up[t])
    /\ LookupStart(t, Parent[data[up[t]]], "dd_lock")
    /\ Release(t, data[up[t]])

(* The lower file system locks the entry, or finds it doomed.              *)
LowerLock(t) ==
    LET l == low[t] IN
    /\ pc[t] \in {"lu_lock", "dd_lock"} /\ ~ldoomed[l]
    /\ Acquire(t, l, mode[t])
    /\ Go(t, IF pc[t] = "lu_lock" THEN "lu_check" ELSE "dd_relock")
    /\ UNCHANGED <<lowerVars, aliasVars, mountVars, argVars, low, up, tgt>>

LowerFail(t) ==
    LET l == low[t] IN
    /\ pc[t] \in {"lu_lock", "dd_lock"} /\ LowerFaults
    /\ LowerRele(l)
    /\ low' = [low EXCEPT ![t] = Null]
    /\ Go(t, IF pc[t] = "lu_lock" THEN "lu_err" ELSE "dd_relock")
    /\ UNCHANGED <<lhold, ldoomed, aliasVars, lockVars, mountVars, argVars, up, tgt>>

(* After "..": lock the directory again; ENOENT if it was revoked.         *)
DotDotRelock(t) ==
    LET d == ldvp[t] IN
    /\ pc[t] = "dd_relock"
    /\ Acquire(t, d, mode[t])
    /\ Go(t, IF low[t] = Null THEN "lu_err" ELSE IF ldoomed[d] THEN "dd_put" ELSE "lu_check")
    /\ UNCHANGED <<lowerVars, aliasVars, mountVars, argVars, low, up, tgt>>

DotDotPut(t) ==
    /\ pc[t] = "dd_put"
    /\ LowerRele(low[t])
    /\ Release(t, low[t])
    /\ low' = [low EXCEPT ![t] = Null]
    /\ Go(t, "lu_err")
    /\ UNCHANGED <<lhold, ldoomed, aliasVars, mountVars, argVars, up, tgt>>

(* The lower lookup succeeded.  A directory reclaimed meanwhile has its    *)
(* own lock now: give the entry back and move to that lock.                *)
LookupDoomed(t) ==
    /\ pc[t] = "lu_check" /\ udoomed[dir[t]]
    /\ LowerRele(low[t])
    /\ Release(t, low[t])
    /\ low' = [low EXCEPT ![t] = Null]
    /\ Go(t, "lu_move")
    /\ UNCHANGED <<lhold, ldoomed, aliasVars, mountVars, argVars, up, tgt>>

LookupMove(t) ==        \* VOP_UNLOCK(ldvp), vn_lock(dvp, LK_EXCLUSIVE | LK_RETRY)
    /\ pc[t] = "lu_move"
    /\ Release(t, ldvp[t])
    /\ tgt' = [tgt EXCEPT ![t] = dir[t]]
    /\ mode' = [mode EXCEPT ![t] = "X"]
    /\ why' = [why EXCEPT ![t] = "dir"]
    /\ Go(t, "lk_start")
    /\ UNCHANGED <<lowerVars, aliasVars, mountVars, call, mp, dir, ldvp, low, up>>

LookupError(t) ==       \* vdrop(ldvp) and return an error
    /\ pc[t] = "lu_err"
    /\ lhold' = [lhold EXCEPT ![ldvp[t]] = @ - 1]
    /\ ldvp' = [ldvp EXCEPT ![t] = Null]
    /\ tgt' = [tgt EXCEPT ![t] = Null]
    /\ Go(t, "putdir")
    /\ UNCHANGED <<luse, ldoomed, aliasVars, lockVars, mountVars, call, mp, mode, dir, why, low, up>>

LookupSelf(t) ==        \* ".": one more reference to the directory
    /\ pc[t] = "lu_check" /\ ~udoomed[dir[t]] /\ low[t] = ldvp[t]
    /\ lhold' = [lhold EXCEPT ![ldvp[t]] = @ - 1]
    /\ LowerRele(low[t])
    /\ uuse' = [uuse EXCEPT ![dir[t]] = @ + 1]
    /\ ldvp' = [ldvp EXCEPT ![t] = Null]
    /\ NodegetReturn(t, dir[t])
    /\ UNCHANGED <<ldoomed, uhold, udoomed, data, mnt, hash, deferred, alloc, lockVars,
                   mountVars, call, mp, mode, dir, why>>

LookupNode(t) ==        \* the entry is locked and referenced: tpt_nodeget
    /\ pc[t] = "lu_check" /\ ~udoomed[dir[t]] /\ low[t] # ldvp[t]
    /\ lhold' = [lhold EXCEPT ![ldvp[t]] = @ - 1]
    /\ ldvp' = [ldvp EXCEPT ![t] = Null]
    /\ Go(t, "ng_get")
    /\ UNCHANGED <<luse, ldoomed, aliasVars, lockVars, mountVars, call, mp, mode, dir, why, low, up, tgt>>

-----------------------------------------------------------------------------
(* tpt_vptocnp of up[t], which becomes dir[t]: find the parent with the    *)
(* vnode unlocked, lock the lower parent shared, get its alias, unlock it  *)
(* and lock the vnode again.  The caller releases the vnode and goes on    *)
(* with the parent.                                                        *)
Vptocnp(t) ==
    LET u == up[t]
        d == data[u] IN
    /\ pc[t] = "locked" /\ BelowRoot(u)
    /\ lhold' = [lhold EXCEPT ![d] = @ + 1]
    /\ luse' = [luse EXCEPT ![d] = @ + 1]
    /\ Release(t, d)
    /\ mode' = [mode EXCEPT ![t] = IF ex[d] = t THEN "X" ELSE "S"]
    /\ call' = [call EXCEPT ![t] = "vptocnp"]
    /\ mp' = [mp EXCEPT ![t] = mnt[u]]
    /\ dir' = [dir EXCEPT ![t] = u]
    /\ up' = [up EXCEPT ![t] = Null]
    /\ ldvp' = [ldvp EXCEPT ![t] = d]
    /\ low' = [low EXCEPT ![t] = d]
    /\ Go(t, "vc_walk")
    /\ UNCHANGED <<ldoomed, aliasVars, mountVars, why, tgt>>

(* vn_lock(vp, locked | LK_RETRY), last.                                   *)
VptocnpRelock(t) ==
    /\ tgt' = [tgt EXCEPT ![t] = dir[t]]
    /\ why' = [why EXCEPT ![t] = "cnp"]
    /\ Go(t, "lk_start")

VptocnpParent(t) ==     \* vn_vptocnp trades the reference for one to the parent
    LET d == low[t]
        p == Parent[d] IN
    /\ pc[t] = "vc_walk"
    /\ luse' = [luse EXCEPT ![d] = @ - 1, ![p] = @ + 1]
    /\ lhold' = [lhold EXCEPT ![ldvp[t]] = @ - 1]
    /\ low' = [low EXCEPT ![t] = p]
    /\ ldvp' = [ldvp EXCEPT ![t] = Null]
    /\ Go(t, "vc_lock")
    /\ UNCHANGED <<ldoomed, aliasVars, lockVars, mountVars, call, mp, mode, dir, why, up, tgt>>

VptocnpError(t) ==
    /\ pc[t] = "vc_walk"
    /\ LowerRele(low[t])
    /\ lhold' = [lhold EXCEPT ![ldvp[t]] = @ - 1]
    /\ low' = [low EXCEPT ![t] = Null]
    /\ ldvp' = [ldvp EXCEPT ![t] = Null]
    /\ VptocnpRelock(t)
    /\ UNCHANGED <<ldoomed, aliasVars, lockVars, mountVars, call, mp, mode, dir, up>>

VptocnpLock(t) ==
    /\ pc[t] = "vc_lock" /\ ~ldoomed[low[t]]
    /\ Acquire(t, low[t], "S")
    /\ Go(t, "ng_get")
    /\ UNCHANGED <<lowerVars, aliasVars, mountVars, argVars, low, up, tgt>>

(* Mutation of VptocnpDoomed: no vrele(ldvp).                              *)
VptocnpDoomedKeeps(t) ==
    /\ pc[t] = "vc_lock" /\ ldoomed[low[t]] /\ Free(low[t], "S")
    /\ low' = [low EXCEPT ![t] = Null]
    /\ VptocnpRelock(t)
    /\ UNCHANGED <<lowerVars, aliasVars, lockVars, mountVars, call, mp, mode, dir, ldvp, up>>

VptocnpDoomed(t) ==
    /\ pc[t] = "vc_lock" /\ ldoomed[low[t]] /\ Free(low[t], "S")
    /\ LowerRele(low[t])
    /\ low' = [low EXCEPT ![t] = Null]
    /\ VptocnpRelock(t)
    /\ UNCHANGED <<lhold, ldoomed, aliasVars, lockVars, mountVars, call, mp, mode, dir, ldvp, up>>

VptocnpReturn(t) ==     \* VOP_UNLOCK(*dvp), when there is one
    /\ pc[t] = "vc_ret"
    /\ IF up[t] = Null THEN UNCHANGED lockVars ELSE Release(t, Vnlock(up[t]))
    /\ VptocnpRelock(t)
    /\ UNCHANGED <<lowerVars, aliasVars, mountVars, call, mp, mode, dir, ldvp, low, up>>

-----------------------------------------------------------------------------
(* The lower file system on its own: a vnode is revoked (vgone, under its  *)
(* exclusive lock), and a revoked vnode nobody references is used again.   *)
LowerRevoke(l) ==
    /\ LowerFaults /\ ~ldoomed[l] /\ Free(l, "X")
    /\ ldoomed' = [ldoomed EXCEPT ![l] = TRUE]
    /\ UNCHANGED <<luse, lhold, aliasVars, lockVars, mountVars, argVars, pc, low, up, tgt>>

LowerReuse(l) ==
    /\ ldoomed[l] /\ luse[l] = 0 /\ lhold[l] = 0
    /\ ldoomed' = [ldoomed EXCEPT ![l] = FALSE]
    /\ UNCHANGED <<luse, lhold, aliasVars, lockVars, mountVars, argVars, pc, low, up, tgt>>

-----------------------------------------------------------------------------
Nodeget(t) ==
    \/ HashgetHit(t) \/ HashgetMiss(t)
    \/ NodegetUpgrade(t) \/ NodegetRelock(t) \/ NodegetDoomed(t) \/ NodegetUpgraded(t)
    \/ GetnewvnodeFail(t) \/ \E u \in Upper : Getnewvnode(t, u)
    \/ InsmntqueFail(t) \/ Insmntque(t) \/ Hashins(t) \/ HashinsDup(t)
    \/ DestroyProtoDetach(t) \/ DestroyProtoFin(t)

VnLock(t) ==
    \/ LockStart(t) \/ LockLower(t) \/ LockSwitched(t) \/ LockOwn(t)
    \/ VnLockDone(t) \/ VnLockDoomed(t)

Put(t) ==
    \/ VputDir(t) \/ VreleDir(t) \/ VputFinal(t)
    \/ VreleFinal(t) \/ Inactive(t)

Reclaim(t) ==
    \/ ReclaimHashrem(t) \/ ReclaimDetach(t) \/ ReclaimRele(t) \/ ReclaimFin(t)

Unmount(t) ==
    \/ \E u \in Upper : FlushPick(t, u)
    \/ FlushVnode(t) \/ FlushAgain(t) \/ UnmountBusy(t) \/ UnmountEmpty(t) \/ UnmountFin(t)

LookupSteps(t) ==
    \/ LowerLock(t) \/ LowerFail(t) \/ DotDotRelock(t) \/ DotDotPut(t)
    \/ LookupDoomed(t) \/ LookupMove(t) \/ LookupError(t) \/ LookupSelf(t) \/ LookupNode(t)

VptocnpSteps(t) ==
    \/ VptocnpParent(t) \/ VptocnpError(t) \/ VptocnpLock(t) \/ VptocnpDoomed(t)
    \/ VptocnpReturn(t)

(* What a thread must go on doing, and what it may choose to start.        *)
Continue(t) ==
    \/ VgetDone(t) \/ VgetDoomed(t) \/ Nodeget(t) \/ VnLock(t)
    \/ Put(t) \/ Reclaim(t) \/ Unmount(t) \/ LookupSteps(t) \/ VptocnpSteps(t)

Begin(t) ==
    \/ \E m \in Mounts, md \in {"S", "X"} : Root(t, m, md)
    \/ Unlock(t) \/ VputUser(t) \/ Vrele(t)
    \/ \E md \in {"S", "X"} : Relock(t, md)
    \/ \E u \in Upper : DeferredInactive(t, u)
    \/ \E m \in Mounts, force \in ForceFlags : UnmountStart(t, m, force)
    \/ \E c \in Lower : LookupChild(t, c)
    \/ LookupDot(t) \/ LookupMissing(t) \/ LookupDotDot(t) \/ Vptocnp(t)

Terminated ==
    /\ \A m \in Mounts : mstate[m] = "gone"
    /\ \A t \in Threads : pc[t] = "idle"
    /\ UNCHANGED vars

Next ==
    \/ \E t \in Threads : Continue(t) \/ Begin(t)
    \/ \E l \in Lower : LowerRevoke(l) \/ LowerReuse(l)
    \/ Terminated

Spec == Init /\ [][Next]_vars

(* Threads keep running; lockmgr queues its waiters, so a request that can *)
(* be granted again and again is granted; a path has finitely many         *)
(* components, so a thread does not keep a vnode locked for ever.          *)
LockSteps(t) ==
    \/ VgetDone(t) \/ VgetDoomed(t) \/ NodegetRelock(t) \/ LockLower(t) \/ LockSwitched(t)
    \/ LockOwn(t) \/ LowerLock(t) \/ DotDotRelock(t) \/ VptocnpLock(t) \/ VptocnpDoomed(t)

Fairness ==
    \A t \in Threads :
        /\ WF_vars(Continue(t))
        /\ SF_vars(LockSteps(t))
        /\ SF_vars(Unlock(t) \/ VputUser(t))

FairSpec == Spec /\ Fairness

-----------------------------------------------------------------------------
(* A mount has at most one alias of a lower vnode in the hash, although    *)
(* vnode creation is not serialized (tpt_nodeget, tpt_hashins).            *)
UniqueAlias ==
    \A u, v \in hash : data[u] = data[v] /\ mnt[u] = mnt[v] => u = v

(* The references to a lower vnode are those of the mounts rooted there,   *)
(* one per alias (VREFed once), and the spare ones that threads carry into *)
(* tpt_nodeget or out of tpt_reclaim.                                      *)
SpareLabels == {"vget", "lu_lock", "dd_lock", "dd_relock", "dd_put", "lu_check", "ng_get",
                "ng_upgrade", "ng_relock", "ng_check", "ng_new", "vc_walk", "vc_lock", "rc_rele"}
RootRefs(l) == {m \in Mounts : LowerRoot[m] = l /\ mstate[m] # "gone"}
Discarded(u) == \E t \in Threads : pc[t] = "dp_detach" /\ tgt[t] = u
AliasRefs(l) == {u \in Upper : data[u] = l /\ ~Discarded(u)}
SpareRefs(l) == {t \in Threads : pc[t] \in SpareLabels /\ low[t] = l}

UseCountExact ==
    \A l \in Lower : luse[l] = Cardinality(RootRefs(l)) + Cardinality(AliasRefs(l))
                                + Cardinality(SpareRefs(l))

(* "Since we have the lower node locked the tptfs node can not be in the   *)
(* process of recycling": what tpt_hashget and tpt_hashins find is alive.  *)
FoundIsAlive ==
    \A t \in Threads : pc[t] \in {"ng_get", "ng_hashins"} =>
        \A u \in Aliases(mp[t], low[t]) : ~udoomed[u] /\ u \in alloc

(* A vnode that tptfs_root, tpt_lookup or vn_lock returned as locked is    *)
(* locked through the lock its alias uses now.                             *)
ReturnedLocked ==
    \A t \in Threads :
        pc[t] = "locked" \/ (pc[t] = "putdir" /\ call[t] = "lookup" /\ up[t] # Null)
        => Holds(t, Vnlock(up[t]))

(* tpt_lookup and tpt_vptocnp return with the vnode they were called for   *)
(* locked again, also when it was reclaimed while it was unlocked and its  *)
(* lock is no longer the lower one.                                        *)
DirectoryStaysLocked ==
    \A t \in Threads : pc[t] = "putdir" => Holds(t, Vnlock(dir[t]))

(* A thread that is done, or only keeps a reference, has no vnode locked.  *)
NoStrayLock ==
    \A t \in Threads : pc[t] \in {"idle", "ref", "um_pick"} => \A k \in Vnodes : ~Holds(t, k)

(* What a caller is told is locked is locked, and nothing else is, through *)
(* every sleep in tpt_lock and every revoke and failure below.  The one    *)
(* exception is NodeLookupError's: the lower lookup failed, and the        *)
(* directory was reclaimed meanwhile.                                      *)
FailedBelow(t) == LowerFaults /\ call[t] = "lookup" /\ up[t] = Null /\ data[dir[t]] = Null
LocksMatch ==
    /\ ReturnedLocked /\ NoStrayLock
    /\ \A t \in Threads : pc[t] = "putdir" => Holds(t, Vnlock(dir[t])) \/ FailedBelow(t)

(* tpt_lock never sleeps on the lock of a lower vnode that can be recycled. *)
SleepsOnHeldLower ==
    \A t \in Threads : pc[t] = "lk_lower" => luse[low[t]] + lhold[low[t]] > 0

(* tpt_nodeget dereferences the mount's private data after insmntque1:     *)
(* the unmount that frees it has not finished then.  tpt_lookup's mount    *)
(* (read before a lower lookup that may let the directory be reclaimed) is *)
(* there all along.                                                        *)
NodegetMountAlive ==
    \A t \in Threads :
        pc[t] = "ng_hashins" \/ (pc[t] \in NodegetLabels /\ call[t] # "vptocnp")
        => mstate[mp[t]] # "gone"

(* No two threads wait for each other's vnode locks.                       *)
WaitsFor(t) ==
    CASE pc[t] \in {"vget", "ng_relock", "lu_lock", "dd_lock", "lk_lower", "vc_lock"} -> {low[t]}
      [] pc[t] = "dd_relock" -> {ldvp[t]}
      [] pc[t] \in {"lk_own", "dp_detach", "rc_detach"} -> {tgt[t]}
      [] OTHER -> {}
NoCrossWait ==
    \A s, t \in Threads : s # t =>
        ~((\E k \in WaitsFor(s) : Holds(t, k)) /\ (\E k \in WaitsFor(t) : Holds(s, k)))

(* No thread works on an alias that has been freed, or sleeps in tpt_lock  *)
(* on a lower vnode that can be recycled.                                  *)
NoUseAfterFree ==
    /\ \A t \in Threads : {up[t], dir[t], tgt[t]} \ {Null} \subseteq alloc
    /\ SleepsOnHeldLower

(* When every mount is gone and every thread is done, nothing is left:     *)
(* no alias, no reference and no hold on the lower file system.            *)
NothingLeft ==
    (\A m \in Mounts : mstate[m] = "gone") /\ (\A t \in Threads : pc[t] = "idle")
    => alloc = {} /\ hash = {} /\ \A l \in Lower : luse[l] = 0 /\ lhold[l] = 0

(* An alias is stacked only on a lower vnode that is not doomed, although  *)
(* the upgrade may let it be revoked after the hash was searched.          *)
NewAliasOnLiveLower ==
    \A t \in Threads : pc[t] \in {"ng_insmnt", "ng_hashins"} => ~ldoomed[low[t]]

(* The hash, the use counts, the shared locks and vflush together keep the *)
(* promises of AliasTable: tpt_nodeget returns the one alias of the table, *)
(* and an alias in use leaves it only in a forced unmount.                 *)
Table == INSTANCE AliasTable WITH
    alias <- {[mount |-> mnt[u], lower |-> data[u], node |-> u] : u \in hash},
    held <- [t \in Threads |-> {up[t], dir[t]} \ {Null}],
    phase <- [m \in Mounts |-> CASE mstate[m] = "force" -> "forced" [] mstate[m] = "gone" -> "gone"
                               [] OTHER -> "up"]

ImplementsAliasTable == Table!Spec

(* The shared lock of a vnode on the mount list is split only by a thread  *)
(* that has the lower lock exclusively and takes the private one too, so   *)
(* that nobody who sleeps in tpt_lock gets in on either side.              *)
SplitUnderBothLocks ==
    [][\A u \in Upper : mnt[u] # Null /\ data[u] # Null /\ data'[u] = Null =>
          \E t \in Threads : ex[data[u]] = t /\ ex'[u] = t]_vars

(* Every operation a thread begins comes to an end.                        *)
OperationsEnd ==
    \A t \in Threads : pc[t] \notin {"idle", "ref", "locked"} ~> pc[t] \in {"idle", "ref", "locked"}

(* A forced unmount finishes whatever the users of the mount do: vflush    *)
(* starts over when it meets a vnode that somebody else is reclaiming.     *)
ForcedUnmountEnds ==
    \A m \in Mounts : mstate[m] = "force" ~> mstate[m] = "gone"
============================================================================
