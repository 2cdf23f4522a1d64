----------------------------- MODULE TptNodeInv -----------------------------
(***************************************************************************)
(* The inductive invariant of the node layer: what every thread owns at    *)
(* every label, and how the counts and the hash follow from it.            *)
(***************************************************************************)
EXTENDS TptNode

(* A thread at one of these labels has an alias that nobody else was given *)
(* yet (a proto); is reclaiming one; releases one that it has locked.      *)
ProtoLabels == {"ng_insmnt", "ng_hashins", "dp_detach", "dp_fin"}
ReclaimLabels == {"rc_hash", "rc_detach", "rc_rele", "rc_fin"}
PutLabels == {"vf_put", "inact"} \cup ReclaimLabels
CreateLabels == NodegetLabels \cup {"dp_detach", "dp_fin"}
LookupLabels == {"lu_lock", "dd_lock", "dd_relock", "dd_put", "lu_check", "lu_move"}
VnLockLabels == LockLabels \cup {"vn_lock"}

MakesProto(t) == pc[t] \in ProtoLabels
Proto(u) == \E t \in Threads : MakesProto(t) /\ tgt[t] = u

(* A thread that keeps a hold on its target.                               *)
HasHold(t) ==
    \/ pc[t] \in PutLabels \cup {"vf_rele", "um_flush", "panic"}
    \/ pc[t] \in VnLockLabels /\ why[t] \in {"inact", "flush"}

Flushes(t) ==
    \/ pc[t] \in {"um_pick", "um_flush", "um_fin"}
    \/ pc[t] \in VnLockLabels \cup ReclaimLabels /\ why[t] = "flush"

-----------------------------------------------------------------------------
(* Which locals are set where, beyond LocalsOK.                            *)
UpInv(t) ==
    \/ pc[t] \in {"idle", "vget", "vf_rele", "um_pick", "um_flush", "um_fin", "vc_walk", "vc_lock",
                  "lu_err"} \cup NodegetLabels \cup LookupLabels
    \/ pc[t] \in VnLockLabels /\ why[t] \in {"dir", "inact", "flush"}
    \/ pc[t] \in ReclaimLabels /\ why[t] = "flush"
    \/ pc[t] \in PutLabels /\ call[t] = "root"
    => up[t] = Null

DirInv(t) ==
    \/ pc[t] \in {"idle", "vget", "locked", "ref", "vf_rele", "um_pick", "um_flush", "um_fin",
                  "vn_lock"} \cup PutLabels
    \/ pc[t] \in LockLabels /\ why[t] \notin {"dir", "cnp"}
    \/ pc[t] \in CreateLabels /\ call[t] = "root"
    => dir[t] = Null

TgtInv(t) ==
    /\ pc[t] \in {"idle", "vget", "locked", "ref", "um_pick", "um_fin", "vc_walk", "vc_lock", "vc_ret"}
                 \cup LookupLabels \cup (NodegetLabels \ ProtoLabels) => tgt[t] = Null
    /\ pc[t] \in {"lu_err", "putdir"} => tgt[t] \in {Null, dir[t]}
    /\ pc[t] \in VnLockLabels /\ why[t] = "user" => tgt[t] = up[t]
    /\ pc[t] \in LockLabels /\ why[t] \in {"dir", "cnp"} => tgt[t] = dir[t]

LowInv(t) ==
    /\ pc[t] \in {"idle", "locked", "ref", "lk_start", "vn_lock", "lu_err", "lu_move", "putdir", "vf_put",
                  "vf_rele", "inact", "rc_fin", "vc_ret", "um_pick", "um_flush", "um_fin", "panic"}
       => low[t] = Null
    /\ pc[t] \in {"vget", "lu_lock", "dd_lock", "dd_put", "lu_check", "rc_hash", "rc_detach", "rc_rele",
                  "vc_walk", "vc_lock", "lk_lower"} \cup CreateLabels
       => low[t] \in Lower

InLookup(t) == \/ pc[t] \in LookupLabels \cup {"lu_err"}
               \/ pc[t] \in LockLabels /\ why[t] = "dir"
LdvpInv(t) == IF InLookup(t) \/ pc[t] = "vc_walk" THEN ldvp[t] \in Lower ELSE ldvp[t] = Null

CallInv(t) ==
    /\ InLookup(t) => call[t] = "lookup"
    /\ pc[t] \in {"vc_walk", "vc_lock", "vc_ret"} \/ (pc[t] \in LockLabels /\ why[t] = "cnp")
       => call[t] = "vptocnp"
    /\ pc[t] = "putdir" => call[t] # "root"
    /\ pc[t] \in {"ng_upgrade", "ng_relock"} => call[t] # "lookup"
    /\ pc[t] = "vget" => low[t] = LowerRoot[mp[t]]

WhyInv(t) ==
    /\ pc[t] = "vn_lock" => why[t] \notin {"dir", "cnp"}
    /\ pc[t] = "inact" => why[t] = "inact"
    /\ pc[t] \in ReclaimLabels => why[t] \in {"inact", "flush"}
    /\ pc[t] \in {"um_pick", "um_flush", "um_fin"} => why[t] = "flush"

ModeInv(t) ==
    \/ pc[t] \in VnLockLabels /\ why[t] \in {"inact", "flush"}
    \/ pc[t] \in {"lu_lock", "dd_lock", "dd_relock"}
    \/ Flushes(t)
    => mode[t] = "X"

Locals(t) ==
    /\ UpInv(t) /\ DirInv(t) /\ TgtInv(t) /\ LowInv(t) /\ LdvpInv(t) /\ CallInv(t) /\ WhyInv(t)
    /\ ModeInv(t)

-----------------------------------------------------------------------------
(* The locks a thread has.                                                 *)
Owns(t, k) == ex[k] = t

CreateLocks(t) ==
    /\ pc[t] = "ng_get" => Holds(t, low[t])
    /\ pc[t] = "ng_get" /\ call[t] = "lookup" => Owns(t, low[t])
    /\ pc[t] = "ng_upgrade" => t \in sh[low[t]]
    /\ pc[t] \in {"ng_check", "ng_new", "ng_insmnt", "ng_hashins"} => Owns(t, low[t])
    /\ pc[t] \in {"dp_detach", "dp_fin"} /\ up[t] # Null
       => data[up[t]] = low[t] /\ Owns(t, low[t])
    /\ pc[t] = "dp_fin" => Owns(t, tgt[t])
    /\ pc[t] \in CreateLabels /\ call[t] = "lookup"
       => data[dir[t]] # Null /\ Owns(t, data[dir[t]])
    /\ pc[t] \in CreateLabels /\ call[t] = "lookup" => data[dir[t]] # low[t]

LookupLocks(t) ==
    /\ pc[t] = "lu_lock" => data[dir[t]] = ldvp[t] /\ Parent[low[t]] = ldvp[t] /\ low[t] # ldvp[t]
    /\ pc[t] = "dd_lock" \/ (pc[t] = "dd_relock" /\ low[t] # Null) => low[t] = Parent[ldvp[t]]
    /\ pc[t] \in {"lu_lock", "dd_put", "lu_check", "lu_move"} => Owns(t, ldvp[t])
    /\ pc[t] \in {"dd_put", "lu_check"} => Owns(t, low[t])
    /\ pc[t] = "dd_put" => low[t] # ldvp[t] /\ LowerFaults
    /\ pc[t] = "lu_check" /\ low[t] = ldvp[t] => ~udoomed[dir[t]]
    /\ pc[t] = "dd_relock" /\ low[t] # Null => Owns(t, low[t])
    /\ pc[t] = "lu_move" => udoomed[dir[t]]
    /\ pc[t] = "dd_relock" /\ ~LowerFaults => low[t] # Null
    /\ pc[t] \in {"lu_err", "putdir"} => Holds(t, Vnlock(dir[t])) \/ data[dir[t]] = Null
    /\ pc[t] = "lu_err" /\ ~LowerFaults => Holds(t, Vnlock(dir[t]))
    /\ pc[t] = "putdir" /\ (up[t] # Null \/ call[t] = "vptocnp" \/ ~LowerFaults)
       => Holds(t, Vnlock(dir[t]))

VnodeLocks(t) ==
    /\ pc[t] = "locked" => Holds(t, Vnlock(up[t]))
    /\ pc[t] = "vc_ret" /\ up[t] # Null => Holds(t, Vnlock(up[t]))
    /\ pc[t] \in PutLabels \cup {"putdir"} /\ call[t] = "lookup" /\ up[t] # Null
       => Holds(t, Vnlock(up[t]))
    /\ pc[t] = "vn_lock" => Holds(t, Vnlock(tgt[t]))
    /\ pc[t] = "vn_lock" /\ why[t] # "user" => Owns(t, Vnlock(tgt[t]))
    /\ pc[t] = "vf_put" => Holds(t, Vnlock(tgt[t]))
    /\ pc[t] \in {"inact", "um_flush"} => Owns(t, Vnlock(tgt[t])) /\ ~udoomed[tgt[t]]

ReclaimLocks(t) ==
    /\ pc[t] \in ReclaimLabels => udoomed[tgt[t]]
    /\ pc[t] \in {"rc_hash", "rc_detach"} => data[tgt[t]] = low[t]
    /\ pc[t] \in {"rc_hash", "rc_detach", "rc_rele"} => Owns(t, low[t])
    /\ pc[t] \in {"rc_detach", "rc_rele", "rc_fin"} => tgt[t] \notin hash
    /\ pc[t] \in {"rc_rele", "rc_fin"} => data[tgt[t]] = Null /\ Owns(t, tgt[t])

(* A sleeper in tpt_lock has seen the lower vnode that v_data had.         *)
SleepInv(t) ==
    /\ pc[t] = "lk_lower" => data[tgt[t]] \in {low[t], Null}
    /\ pc[t] = "lk_own" => data[tgt[t]] = Null
    /\ InLookup(t) \/ pc[t] = "vc_walk" => data[dir[t]] \in {ldvp[t], Null}

(* The two vnodes that a lookup releases one after the other have two locks. *)
TwoLocks(t) ==
    /\ pc[t] = "putdir" /\ call[t] = "lookup" /\ up[t] # Null /\ up[t] # dir[t]
       => data[up[t]] # Null /\ data[up[t]] # data[dir[t]]
    /\ pc[t] \in PutLabels /\ call[t] = "lookup" /\ up[t] # Null
       => data[up[t]] # Null /\ data[up[t]] # data[tgt[t]] /\ data[up[t]] # low[t]

(* tpt_nodeget works on a lower vnode that is not doomed, but for the time *)
(* it may give the lock up.                                                *)
LowerAlive(t) ==
    /\ pc[t] \in {"ng_get", "ng_upgrade", "ng_new", "ng_insmnt", "ng_hashins"} => ~ldoomed[low[t]]
    /\ pc[t] = "dd_relock" /\ low[t] # Null => ~ldoomed[low[t]]
    /\ pc[t] = "lu_check" /\ low[t] # ldvp[t] => ~ldoomed[low[t]]

Locking(t) ==
    /\ CreateLocks(t) /\ LookupLocks(t) /\ VnodeLocks(t) /\ ReclaimLocks(t)
    /\ SleepInv(t) /\ TwoLocks(t) /\ LowerAlive(t)

(* Nothing but what the label says is locked.                              *)
DirLock(t) == IF call[t] = "lookup" THEN {Vnlock(dir[t])} ELSE {}
UpLock(t) == IF call[t] = "lookup" /\ up[t] # Null THEN {Vnlock(up[t])} ELSE {}
MayHold(t) ==
    CASE pc[t] \in {"ng_get", "ng_upgrade", "ng_check", "ng_new", "ng_insmnt", "ng_hashins"}
           -> {low[t]} \cup DirLock(t)
      [] pc[t] = "ng_relock" -> DirLock(t)
      [] pc[t] = "dp_detach" -> (IF up[t] = Null THEN {} ELSE {low[t]}) \cup DirLock(t)
      [] pc[t] = "dp_fin" -> {tgt[t]} \cup (IF up[t] = Null THEN {} ELSE {low[t]}) \cup DirLock(t)
      [] pc[t] = "locked" -> {Vnlock(up[t])}
      [] pc[t] \in {"vn_lock", "um_flush"} -> {Vnlock(tgt[t])}
      [] pc[t] \in {"lu_lock", "lu_move"} -> {ldvp[t]}
      [] pc[t] = "dd_relock" -> {low[t]}
      [] pc[t] \in {"dd_put", "lu_check"} -> {low[t], ldvp[t]}
      [] pc[t] = "lu_err" -> IF Holds(t, Vnlock(dir[t])) THEN {Vnlock(dir[t])} ELSE Vnodes
      [] pc[t] = "putdir" -> IF Holds(t, Vnlock(dir[t])) THEN {Vnlock(dir[t])} \cup UpLock(t) ELSE Vnodes
      [] pc[t] \in {"vf_put", "inact"} -> {Vnlock(tgt[t])} \cup UpLock(t)
      [] pc[t] \in {"rc_hash", "rc_detach"} -> {low[t]} \cup UpLock(t)
      [] pc[t] = "rc_rele" -> {low[t], tgt[t]} \cup UpLock(t)
      [] pc[t] = "rc_fin" -> {tgt[t]} \cup UpLock(t)
      [] pc[t] = "vc_ret" -> IF up[t] = Null THEN {} ELSE {Vnlock(up[t])}
      [] pc[t] = "panic" -> Vnodes
      [] OTHER -> {}
NoOtherLock(t) == \A k \in Vnodes : Holds(t, k) => k \in MayHold(t)

-----------------------------------------------------------------------------
(* Protos: known to their creator, and to a vflush that sleeps for them.   *)
ProtoInv(t) ==
    MakesProto(t) =>
        /\ tgt[t] \notin hash /\ tgt[t] \notin deferred /\ ~udoomed[tgt[t]]
        /\ data[tgt[t]] = IF pc[t] = "dp_fin" THEN Null ELSE low[t]
        /\ mnt[tgt[t]] = IF pc[t] = "ng_hashins" \/ (pc[t] # "ng_insmnt" /\ up[t] # Null)
                         THEN mp[t] ELSE Null
        /\ \A s \in Threads :
              /\ up[s] # tgt[t] /\ dir[s] # tgt[t]
              /\ s # t /\ tgt[s] = tgt[t] => /\ pc[s] \in LockLabels /\ why[s] = "flush"
                                             /\ mnt[tgt[t]] # Null

(* Vnodes are allocated while anybody refers to them.                      *)
RefInv(t) == {up[t], dir[t], tgt[t]} \subseteq alloc \cup {Null}

LockInv == \A k \in Vnodes : ex[k] # NoThread => sh[k] = {}

AliasInv ==
    \A u \in Upper :
        /\ u \in hash => u \in alloc /\ data[u] # Null /\ mnt[u] # Null
        /\ u \in deferred => u \in alloc /\ ~udoomed[u]
        /\ u \notin alloc => /\ ~udoomed[u] /\ data[u] = Null /\ mnt[u] = Null
                           /\ uuse[u] = 0 /\ uhold[u] = 0
        /\ u \in alloc /\ data[u] = Null => udoomed[u] \/ Proto(u)
        /\ u \in alloc /\ data[u] # Null => mnt[u] # Null \/ Proto(u)
        /\ u \in alloc /\ udoomed[u] => uuse[u] + uhold[u] > 0

DoomedInv ==
    \A u \in Upper :
        /\ udoomed[u] /\ data[u] # Null
           => \E s \in Threads : pc[s] \in {"rc_hash", "rc_detach"} /\ tgt[s] = u
        /\ udoomed[u] /\ mnt[u] # Null => \E s \in Threads : pc[s] \in ReclaimLabels /\ tgt[s] = u
        /\ udoomed[u] /\ u \in hash => \E s \in Threads : pc[s] = "rc_hash" /\ tgt[s] = u

-----------------------------------------------------------------------------
(* The counts.                                                             *)
CountIn(D, f, x) == Cardinality({d \in D : f[d] = x})
Count(f, x) == CountIn(Threads, f, x)

ProtoOf == [t \in Threads |-> IF MakesProto(t) THEN tgt[t] ELSE Null]
HoldOf == [t \in Threads |-> IF HasHold(t) THEN tgt[t] ELSE Null]
SleepOf == [t \in Threads |-> IF pc[t] \in {"lk_lower", "lk_own"} THEN low[t] ELSE Null]
SpareOf == [t \in Threads |-> IF pc[t] \in SpareLabels THEN low[t] ELSE Null]
AliasOf == [u \in Upper |-> IF Discarded(u) THEN Null ELSE data[u]]
RootOf == [m \in Mounts |-> IF mstate[m] = "gone" THEN Null ELSE LowerRoot[m]]

UseExact == \A u \in Upper : uuse[u] = Count(up, u) + Count(dir, u) + Count(ProtoOf, u)
HoldExact == \A u \in Upper : uhold[u] = Count(HoldOf, u) + (IF u \in deferred THEN 1 ELSE 0)
LowerHoldExact == \A l \in Lower : lhold[l] = Count(SleepOf, l) + Count(ldvp, l)

-----------------------------------------------------------------------------
(* The mounts.                                                             *)
MountInv(t) ==
    /\ Flushes(t) => mp[t] \in Mounts /\ mstate[mp[t]] \in {"unmount", "force"}
    /\ pc[t] = "um_fin" => Listed(mp[t]) = {}
    /\ \A s \in Threads : Flushes(s) /\ Flushes(t) /\ mp[s] = mp[t] => s = t
    /\ pc[t] \in CreateLabels \cup {"vget"} /\ call[t] = "root" => mp[t] \in Mounts /\ mstate[mp[t]] = "mounted"
    /\ pc[t] \in CreateLabels \cup LookupLabels \cup {"vc_walk", "vc_lock"} => mp[t] \in Mounts
    /\ pc[t] \in CreateLabels /\ call[t] = "lookup" => mnt[dir[t]] = mp[t]
    /\ InLookup(t) => mnt[dir[t]] \in {mp[t], Null}

GoneInv == \A m \in Mounts : mstate[m] = "gone" => Listed(m) = {}

LowerInv == ~LowerFaults => \A l \in Lower : ~ldoomed[l]

(* What the refinement of AliasTable needs beyond NodeInv: a forced unmount *)
(* finds no vnode busy, vflush works on vnodes of its own mount, and an     *)
(* alias in use is reclaimed by a forced unmount only.                      *)
TableInv ==
    /\ \A m \in Mounts : mstate[m] = "force" => ~busy[m]
    /\ \A t \in Threads :
          /\ Flushes(t) /\ tgt[t] # Null => mnt[tgt[t]] \in {mp[t], Null}
          /\ pc[t] = "rc_hash" =>
                uuse[tgt[t]] = 0 \/ (why[t] = "flush" /\ mstate[mp[t]] = "force")

NodeInv ==
    /\ TypeOK /\ LockInv /\ AliasInv /\ DoomedInv /\ GoneInv /\ LowerInv
    /\ UseExact /\ HoldExact /\ LowerHoldExact /\ UseCountExact /\ UniqueAlias
    /\ \A t \in Threads : /\ Locals(t) /\ Locking(t) /\ NoOtherLock(t)
                          /\ ProtoInv(t) /\ RefInv(t) /\ MountInv(t)
=============================================================================
