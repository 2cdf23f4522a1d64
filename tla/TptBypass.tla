----------------------------- MODULE TptBypass -----------------------------
(***************************************************************************)
(* The vnode operations of tptfs that go through tpt_bypass, and the few   *)
(* that go around it (tpt_vnops.c).  TptNode is about how aliases come and *)
(* go; here an alias is live or reclaimed, and the question is what an     *)
(* operation does with the references and locks of its arguments when an   *)
(* alias is reclaimed between two of its steps.                            *)
(***************************************************************************)
EXTENDS Integers, FiniteSets

CONSTANTS
    Threads, Lower,
    Upper,          \* alias slots; a slot stands for one lower vnode of one mount
    Below,          \* [Upper -> Lower]
    Mount,          \* [Upper -> mount points]
    InitialLive,    \* slots with an alias at first
    Files,          \* slots of regular files, which are opened for writing
    Calls,          \* the calls each thread may make: records [op, args, mode]
    LowerUnlocks,   \* operations in which the lower layer lets go of its locks
    Null

Ops == {"read", "getattr", "setattr", "open", "create", "remove", "rmdir", "rename", "pgcache",
        "vput_pair", "vput_pair_unlock"}
VputPairs == {"vput_pair", "vput_pair_unlock"}

(* Operations on one vnode that callers make with LK_SHARED too; setattr   *)
(* stands for tpt_access here.  The others change a directory.             *)
SharedOps == {"read", "getattr", "setattr", "open"}
Modes == {"exclusive", "shared"}

ASSUME BypassConstants ==
    /\ Below \in [Upper -> Lower]
    /\ InitialLive \subseteq Upper /\ Files \subseteq Upper
    /\ \A t \in Threads : \A c \in Calls[t] :
          /\ c \in [op : Ops, args : [1 .. 4 -> Upper \cup {Null}], mode : Modes]
          /\ c.args[1] # Null
          /\ c.mode = "shared" => c.op \in SharedOps /\ c.args[2] = Null
          /\ c.op \in {"remove", "rename"} => c.args[2] # Null
          /\ IF c.op = "rename" THEN c.args[3] # Null ELSE c.args[3] = Null /\ c.args[4] = Null
          \* a directory and an entry of it, both locked, are two vnodes
          /\ c.op # "rename" /\ c.args[2] # Null => Below[c.args[1]] # Below[c.args[2]]
    /\ \A u \in Upper : Mount[u] # Null      \* NULL is the v_mount of a dead vnode
    /\ LowerUnlocks \subseteq Ops
    /\ Null \notin Upper \cup Lower
    /\ Upper \cap Lower = {}
    /\ IsFiniteSet(Threads) /\ IsFiniteSet(Upper) /\ IsFiniteSet(Lower)

VARIABLES
    st,             \* alias: none; live; reclaim: v_data is NULL; dead: v_op, v_mount too
    uuse, luse,     \* v_usecount of aliases and lower vnodes
    lock,           \* threads that have each lower lock and each alias' private lock
    wc, lwc,        \* v_writecount of aliases and lower vnodes
    obj,            \* aliases with a v_object
    pc, op, args,   \* thread: position, operation and its vnodes
    mode,           \* how the caller has them locked
    mapped,         \* indices of the arguments tpt_bypass mapped (old_vps)
    rest, err,      \* those not mapped back yet, error of the lower call
    spare,          \* lower vnode with a reference of this call
    up,             \* alias that the call returns
    wfile           \* file that the thread has open for writing

aliasVars == <<st, uuse, wc, obj>>
lowerVars == <<luse, lwc>>
callVars == <<op, args, mode>>
vars == <<aliasVars, lowerVars, lock, pc, callVars, mapped, rest, err, spare, up, wfile>>

NoArgs == [j \in 1 .. 4 |-> Null]

Init ==
    /\ st = [u \in Upper |-> IF u \in InitialLive THEN "live" ELSE "none"]
    /\ uuse = [u \in Upper |-> 0] /\ wc = [u \in Upper |-> 0] /\ obj = {}
    /\ luse = [l \in Lower |-> Cardinality({u \in InitialLive : Below[u] = l})]
    /\ lwc = [l \in Lower |-> 0]
    /\ lock = [k \in Lower \cup Upper |-> {}]
    /\ pc = [t \in Threads |-> "idle"]
    /\ op = [t \in Threads |-> "getattr"] /\ args = [t \in Threads |-> NoArgs]
    /\ mode = [t \in Threads |-> "exclusive"]
    /\ mapped = [t \in Threads |-> {}] /\ rest = [t \in Threads |-> {}]
    /\ err = [t \in Threads |-> FALSE]
    /\ spare = [t \in Threads |-> Null] /\ up = [t \in Threads |-> Null]
    /\ wfile = [t \in Threads |-> Null]

-----------------------------------------------------------------------------
Vnlock(u) == IF st[u] = "live" THEN Below[u] ELSE u
(* A reclaimer has the private lock until it is done.                      *)
Free(k) == lock[k] = {} /\ (k \in Upper => st[k] # "reclaim")
(* A lower lock can be had: exclusively if it is free, shared also if the  *)
(* others have it shared.                                                  *)
CanLock(m, l) == IF m = "shared" THEN \A s \in lock[l] : mode[s] = "shared" ELSE Free(l)

Given(a) == {j \in 1 .. 4 : a[j] # Null}
Slots(a, J) == {a[j] : j \in J}
(* The arguments that the caller has locked.                               *)
LockedArgs(o, a) ==
    Given(a) \cap (CASE o = "rename" -> {3, 4} [] o = "pgcache" -> {} [] OTHER -> {1, 2})
LowerLocks(t, J) == {Below[args[t][j]] : j \in LockedArgs(op[t], args[t]) \cap J}

Go(t, label) == pc' = [pc EXCEPT ![t] = label]
Take(t, K) == lock' = [k \in DOMAIN lock |-> IF k \in K THEN lock[k] \cup {t} ELSE lock[k]]
Drop(t, K) == lock' = [k \in DOMAIN lock |-> IF k \in K THEN lock[k] \ {t} ELSE lock[k]]

(* One use reference more or less for each argument in J that is u, or     *)
(* whose lower vnode is l.                                                 *)
Times(a, J, u) == Cardinality({j \in J : a[j] = u})
LowerTimes(a, J, l) == Cardinality({j \in J : a[j] # Null /\ Below[a[j]] = l})
Vref(a, J) == uuse' = [u \in Upper |-> uuse[u] + Times(a, J, u)]
Vrele(a, J) == uuse' = [u \in Upper |-> uuse[u] - Times(a, J, u)]
LowerVref(a, J) == luse' = [l \in Lower |-> luse[l] + LowerTimes(a, J, l)]
LowerVrele(a, J) == luse' = [l \in Lower |-> luse[l] - LowerTimes(a, J, l)]

(* The caller has looked its vnodes up, and locked those that the          *)
(* operation wants locked.                                                 *)
Call(t, c) ==
    LET K == {Below[u] : u \in Slots(c.args, LockedArgs(c.op, c.args))} IN
    /\ pc[t] = "idle"
    /\ \A u \in Slots(c.args, Given(c.args)) : st[u] = "live"
    /\ \A l \in K : CanLock(c.mode, l)
    /\ Take(t, K)
    /\ Vref(c.args, Given(c.args))
    /\ op' = [op EXCEPT ![t] = c.op] /\ args' = [args EXCEPT ![t] = c.args]
    /\ mode' = [mode EXCEPT ![t] = c.mode]
    /\ Go(t, IF c.op \in {"read", "getattr", "open", "create", "rmdir"} THEN "map" ELSE "pre")
    /\ UNCHANGED <<st, wc, obj, lowerVars, mapped, rest, err, spare, up, wfile>>

-----------------------------------------------------------------------------
(* What the operations do before tpt_bypass.                               *)
VMount(u) == IF st[u] = "dead" THEN Null ELSE Mount[u]

(* tpt_setattr, tpt_access, tpt_accessx: EROFS and the other refusals.     *)
Refuse(t) ==
    /\ pc[t] = "pre" /\ op[t] = "setattr"
    /\ Go(t, "ret")
    /\ UNCHANGED <<aliasVars, lowerVars, lock, callVars, mapped, rest, err, spare, up, wfile>>

Setattr(t) ==
    /\ pc[t] = "pre" /\ op[t] = "setattr"
    /\ Go(t, "map")
    /\ UNCHANGED <<aliasVars, lowerVars, lock, callVars, mapped, rest, err, spare, up, wfile>>

(* tpt_remove: a file that somebody else uses gets one more reference.     *)
Remove(t) ==
    LET vp == args[t][2] IN
    /\ pc[t] = "pre" /\ op[t] = "remove"
    /\ IF uuse[vp] > 1
       THEN spare' = [spare EXCEPT ![t] = Below[vp]] /\ luse' = [luse EXCEPT ![Below[vp]] = @ + 1]
       ELSE UNCHANGED <<spare, luse>>
    /\ Go(t, "map")
    /\ UNCHANGED <<aliasVars, lwc, lock, callVars, mapped, rest, err, up, wfile>>

(* fvp is not locked: v_mount is NULL once it has been reclaimed.          *)
CrossDevice(t) ==
    LET a == args[t] IN
    \/ VMount(a[2]) # VMount(a[3])
    \/ a[4] # Null /\ VMount(a[2]) # VMount(a[4])

(* tpt_rename, EXDEV: vput or vrele of all four.                           *)
RenameCross(t) ==
    /\ pc[t] = "pre" /\ op[t] = "rename" /\ CrossDevice(t)
    /\ Drop(t, {Vnlock(u) : u \in Slots(args[t], LockedArgs("rename", args[t]))})
    /\ Vrele(args[t], Given(args[t]))
    /\ Go(t, "ret")
    /\ UNCHANGED <<st, wc, obj, lowerVars, callVars, mapped, rest, err, spare, up, wfile>>

Rename(t) ==
    /\ pc[t] = "pre" /\ op[t] = "rename" /\ ~CrossDevice(t)
    /\ Go(t, "map")
    /\ UNCHANGED <<aliasVars, lowerVars, lock, callVars, mapped, rest, err, spare, up, wfile>>

-----------------------------------------------------------------------------
(* tpt_bypass.  Operations whose callee releases the arguments.            *)
WillRele(o) == IF o = "rename" THEN 1 .. 4 ELSE {}

(* An argument is mapped if it is the first or of our type; v_op changes   *)
(* only after v_data is gone.                                              *)
OfOurType(t, j) == j = 1 \/ st[args[t][j]] # "dead"

(* Mutation of MapFault: an absent tvp is not told apart.                  *)
MapFaultNull(t) ==
    /\ pc[t] = "map"
    /\ \/ op[t] = "rename" /\ args[t][4] = Null
       \/ \E j \in Given(args[t]) : OfOurType(t, j) /\ st[args[t][j]] # "live"
    /\ Go(t, "panic")
    /\ UNCHANGED <<aliasVars, lowerVars, lock, callVars, mapped, rest, err, spare, up, wfile>>

MapFault(t) ==          \* NULLVPTOLOWERVP of a vnode without v_data
    /\ pc[t] = "map"
    /\ \E j \in Given(args[t]) : OfOurType(t, j) /\ st[args[t][j]] # "live"
    /\ Go(t, "panic")
    /\ UNCHANGED <<aliasVars, lowerVars, lock, callVars, mapped, rest, err, spare, up, wfile>>

Map(t) ==
    LET J == {j \in Given(args[t]) : OfOurType(t, j)} IN
    /\ pc[t] = "map" /\ \A j \in J : st[args[t][j]] = "live"
    /\ mapped' = [mapped EXCEPT ![t] = J] /\ rest' = [rest EXCEPT ![t] = J]
    /\ LowerVref(args[t], J \cap WillRele(op[t]))
    /\ Go(t, "lower")
    /\ UNCHANGED <<aliasVars, lwc, lock, callVars, err, spare, up, wfile>>

(* VCALL: the lower layer may let go of the locks for a while.             *)
LowerUnlock(t) ==
    /\ pc[t] = "lower" /\ op[t] \in LowerUnlocks
    /\ Drop(t, LowerLocks(t, mapped[t]))
    /\ Go(t, "unlocked")
    /\ UNCHANGED <<aliasVars, lowerVars, callVars, mapped, rest, err, spare, up, wfile>>

LowerRelock(t) ==
    /\ pc[t] = "unlocked"
    /\ \A l \in LowerLocks(t, mapped[t]) : CanLock(mode[t], l)
    /\ Take(t, LowerLocks(t, mapped[t]))
    /\ Go(t, "lower")
    /\ UNCHANGED <<aliasVars, lowerVars, callVars, mapped, rest, err, spare, up, wfile>>

LowerDone(t, e) ==
    /\ pc[t] = "lower" /\ op[t] \notin {"create", "rename"}
    /\ err' = [err EXCEPT ![t] = e]
    /\ Go(t, "unmap")
    /\ UNCHANGED <<aliasVars, lowerVars, lock, callVars, mapped, rest, spare, up, wfile>>

(* The lower rename releases what it was given: lower vnodes, and an alias *)
(* that was not mapped.                                                    *)
LowerRename(t, e) ==
    /\ pc[t] = "lower" /\ op[t] = "rename"
    /\ LowerVrele(args[t], mapped[t])
    /\ Vrele(args[t], Given(args[t]) \ mapped[t])
    /\ Drop(t, LowerLocks(t, mapped[t]))
    /\ err' = [err EXCEPT ![t] = e]
    /\ Go(t, "unmap")
    /\ UNCHANGED <<st, wc, obj, lwc, callVars, mapped, rest, spare, up, wfile>>

(* A created vnode comes back referenced and locked.                       *)
LowerCreate(t, c) ==
    /\ pc[t] = "lower" /\ op[t] = "create"
    /\ luse[c] = 0 /\ Free(c)
    /\ \A s \in Threads : c \notin {Below[args[s][j]] : j \in mapped[s]}
    /\ luse' = [luse EXCEPT ![c] = 1]
    /\ Take(t, {c})
    /\ spare' = [spare EXCEPT ![t] = c]
    /\ Go(t, "unmap")
    /\ UNCHANGED <<aliasVars, lwc, callVars, mapped, rest, err, up, wfile>>

LowerCreateFails(t) ==
    /\ pc[t] = "lower" /\ op[t] = "create"
    /\ err' = [err EXCEPT ![t] = TRUE]
    /\ Go(t, "unmap")
    /\ UNCHANGED <<aliasVars, lowerVars, lock, callVars, mapped, rest, spare, up, wfile>>

-----------------------------------------------------------------------------
(* Restoring the arguments, one by one.  If the alias was reclaimed while  *)
(* the lower vnode was unlocked, the lock moves to the alias; VOP_ISLOCKED *)
(* asks for LK_EXCLUSIVE, so that a shared lock stays where it is.         *)
Split(t, j) ==
    LET u == args[t][j] IN
    t \in lock[Below[u]] /\ mode[t] = "exclusive" /\ Vnlock(u) # Below[u]

Released(t, j) == IF j \in WillRele(op[t]) THEN {j} ELSE {}

(* The loop goes through the arguments in order.                           *)
Turn(t) == CHOOSE j \in rest[t] : \A k \in rest[t] : j <= k
Advance(t) == rest' = [rest EXCEPT ![t] = @ \ {Turn(t)}]

Unmap(t) ==
    /\ pc[t] = "unmap" /\ rest[t] # {} /\ ~Split(t, Turn(t))
    /\ Vrele(args[t], Released(t, Turn(t)))
    /\ Advance(t)
    /\ UNCHANGED <<st, wc, obj, lowerVars, lock, pc, callVars, mapped, err, spare, up, wfile>>

(* Mutation of UnmapSplit: the lock is not moved.                          *)
UnmapSplitNot(t) ==
    /\ pc[t] = "unmap" /\ rest[t] # {} /\ Split(t, Turn(t))
    /\ Advance(t)
    /\ UNCHANGED <<aliasVars, lowerVars, lock, pc, callVars, mapped, err, spare, up, wfile>>

UnmapSplit(t) ==        \* VOP_UNLOCK(lvp)
    /\ pc[t] = "unmap" /\ rest[t] # {} /\ Split(t, Turn(t))
    /\ Drop(t, {Below[args[t][Turn(t)]]})
    /\ Go(t, "move")
    /\ UNCHANGED <<aliasVars, lowerVars, callVars, mapped, rest, err, spare, up, wfile>>

UnmapMove(t) ==         \* VOP_LOCK(old_vps[i])
    /\ pc[t] = "move" /\ Free(args[t][Turn(t)])
    /\ Take(t, {args[t][Turn(t)]})
    /\ Vrele(args[t], Released(t, Turn(t)))
    /\ Advance(t)
    /\ Go(t, "unmap")
    /\ UNCHANGED <<st, wc, obj, lowerVars, callVars, mapped, err, spare, up, wfile>>

Unmapped(t) ==
    /\ pc[t] = "unmap" /\ rest[t] = {}
    /\ Go(t, IF op[t] = "create" /\ ~err[t] THEN "nodeget" ELSE "post")
    /\ UNCHANGED <<aliasVars, lowerVars, lock, callVars, mapped, rest, err, spare, up, wfile>>

-----------------------------------------------------------------------------
(* tpt_nodeget as TptNode has it, for a lower vnode that the caller has    *)
(* locked and referenced: the alias there is, or a new one, or an error.   *)
AliasesOf(m, l) == {u \in Upper : st[u] = "live" /\ Below[u] = l /\ Mount[u] = m}
Empty(m, l) == {u \in Upper : st[u] = "none" /\ Below[u] = l /\ Mount[u] = m}

NodegetNoMount(t) ==    \* old_vps[0]->v_mount
    /\ pc[t] = "nodeget" /\ VMount(args[t][1]) = Null
    /\ Go(t, "panic")
    /\ UNCHANGED <<aliasVars, lowerVars, lock, callVars, mapped, rest, err, spare, up, wfile>>

NodegetNew(t, u) ==
    /\ pc[t] = "nodeget" /\ VMount(args[t][1]) # Null
    /\ AliasesOf(VMount(args[t][1]), spare[t]) = {}
    /\ u \in Empty(VMount(args[t][1]), spare[t])
    /\ st' = [st EXCEPT ![u] = "live"]
    /\ uuse' = [uuse EXCEPT ![u] = 1]
    /\ spare' = [spare EXCEPT ![t] = Null]
    /\ up' = [up EXCEPT ![t] = u]
    /\ Go(t, "post")
    /\ UNCHANGED <<wc, obj, lowerVars, lock, callVars, mapped, rest, err, wfile>>

NodegetFails(t) ==      \* vput(lowervp)
    /\ pc[t] = "nodeget" /\ VMount(args[t][1]) # Null
    /\ luse' = [luse EXCEPT ![spare[t]] = @ - 1]
    /\ Drop(t, {spare[t]})
    /\ spare' = [spare EXCEPT ![t] = Null]
    /\ Go(t, "post")
    /\ UNCHANGED <<aliasVars, lwc, callVars, mapped, rest, err, up, wfile>>

(* What the operations do after tpt_bypass.                                *)
FsidFault(t) ==         \* tpt_getattr, tpt_stat: ap->a_vp->v_mount
    /\ pc[t] = "post" /\ op[t] = "getattr" /\ ~err[t] /\ VMount(args[t][1]) = Null
    /\ Go(t, "panic")
    /\ UNCHANGED <<aliasVars, lowerVars, lock, callVars, mapped, rest, err, spare, up, wfile>>

(* Mutation of Finish: tpt_remove keeps its reference after an error.      *)
FinishKeeps(t) ==
    /\ pc[t] = "post"
    /\ ~(op[t] = "getattr" /\ ~err[t] /\ VMount(args[t][1]) = Null)
    /\ obj' = IF op[t] = "open" /\ ~err[t] THEN obj \cup {args[t][1]} ELSE obj
    /\ luse' = [l \in Lower |-> IF l = spare[t] /\ ~err[t] THEN luse[l] - 1 ELSE luse[l]]
    /\ spare' = [spare EXCEPT ![t] = Null]
    /\ Go(t, "ret")
    /\ UNCHANGED <<st, uuse, wc, lwc, lock, callVars, mapped, rest, err, up, wfile>>

(* tpt_open takes over the lower v_object; tpt_remove drops its reference. *)
Finish(t) ==
    /\ pc[t] = "post"
    /\ ~(op[t] = "getattr" /\ ~err[t] /\ VMount(args[t][1]) = Null)
    /\ obj' = IF op[t] = "open" /\ ~err[t] THEN obj \cup {args[t][1]} ELSE obj
    /\ luse' = [l \in Lower |-> IF l = spare[t] THEN luse[l] - 1 ELSE luse[l]]
    /\ spare' = [spare EXCEPT ![t] = Null]
    /\ Go(t, "ret")
    /\ UNCHANGED <<st, uuse, wc, lwc, lock, callVars, mapped, rest, err, up, wfile>>

-----------------------------------------------------------------------------
(* tpt_read_pgcache: without a lock, but with a reference taken under the  *)
(* interlock that covers v_data.                                           *)
PgcacheGone(t) ==
    /\ pc[t] = "pre" /\ op[t] = "pgcache" /\ st[args[t][1]] # "live"
    /\ Go(t, "ret")
    /\ UNCHANGED <<aliasVars, lowerVars, lock, callVars, mapped, rest, err, spare, up, wfile>>

Pgcache(t) ==
    LET l == Below[args[t][1]] IN
    /\ pc[t] = "pre" /\ op[t] = "pgcache" /\ st[args[t][1]] = "live"
    /\ luse' = [luse EXCEPT ![l] = @ + 1]
    /\ spare' = [spare EXCEPT ![t] = l]
    /\ Go(t, "pg")
    /\ UNCHANGED <<aliasVars, lwc, lock, callVars, mapped, rest, err, up, wfile>>

PgcacheDone(t) ==
    /\ pc[t] = "pg"
    /\ luse' = [luse EXCEPT ![spare[t]] = @ - 1]
    /\ spare' = [spare EXCEPT ![t] = Null]
    /\ Go(t, "ret")
    /\ UNCHANGED <<aliasVars, lwc, lock, callVars, mapped, rest, err, up, wfile>>

-----------------------------------------------------------------------------
(* tpt_vput_pair.  References for the lower layer to drop: dvp's always,   *)
(* vp's if it is to be released too; otherwise the lower layers of this    *)
(* model keep vp locked, so that the return to a reclaimed vp, which needs *)
(* a lower layer that unlocks it, does not arise.                          *)
PairRefs(t) ==
    Given(args[t]) \cap IF op[t] = "vput_pair_unlock" THEN {1, 2} ELSE {1}

VputPair(t) ==
    /\ pc[t] = "pre" /\ op[t] \in VputPairs
    /\ LowerVref(args[t], PairRefs(t))
    /\ Go(t, "pair")
    /\ UNCHANGED <<aliasVars, lwc, lock, callVars, mapped, rest, err, spare, up, wfile>>

LowerPair(t) ==
    /\ pc[t] = "pair"
    /\ LowerVrele(args[t], PairRefs(t))
    /\ Drop(t, LowerLocks(t, PairRefs(t)))
    /\ Go(t, "pair_back")
    /\ UNCHANGED <<aliasVars, lwc, callVars, mapped, rest, err, spare, up, wfile>>

PairDone(t) ==          \* vrele(vp) if it was released below, vrele(dvp)
    /\ pc[t] = "pair_back"
    /\ Vrele(args[t], PairRefs(t))
    /\ Go(t, "ret")
    /\ UNCHANGED <<st, wc, obj, lowerVars, lock, callVars, mapped, rest, err, spare, up, wfile>>

-----------------------------------------------------------------------------
(* The arguments that are still the caller's when the operation returns.   *)
Kept(t) ==
    CASE op[t] = "rename" -> {}
      [] op[t] \in VputPairs -> Given(args[t]) \ PairRefs(t)
      [] OTHER -> Given(args[t])

(* The vnodes that the caller has to unlock: those it locked and a vnode   *)
(* that was returned.                                                      *)
Unlocks(t) == Slots(args[t], Kept(t) \cap LockedArgs(op[t], args[t])) \cup ({up[t]} \ {Null})

(* tpt_unlock of a reclaimed alias unlocks its private lock (vop_stdunlock): *)
(* lockmgr goes down if the caller does not have it.                       *)
UnlockFault(t) ==
    /\ pc[t] = "ret" /\ \E u \in Unlocks(t) : t \notin lock[Vnlock(u)]
    /\ Go(t, "panic")
    /\ UNCHANGED <<aliasVars, lowerVars, lock, callVars, mapped, rest, err, spare, up, wfile>>

(* The caller unlocks them and releases its arguments.                     *)
Return(t) ==
    /\ pc[t] = "ret" /\ \A u \in Unlocks(t) : t \in lock[Vnlock(u)]
    /\ uuse' = [u \in Upper |-> uuse[u] - Times(args[t], Kept(t), u) - IF u = up[t] THEN 1 ELSE 0]
    /\ Drop(t, {Vnlock(u) : u \in Unlocks(t)})
    /\ op' = [op EXCEPT ![t] = "getattr"] /\ args' = [args EXCEPT ![t] = NoArgs]
    /\ mode' = [mode EXCEPT ![t] = "exclusive"]
    /\ mapped' = [mapped EXCEPT ![t] = {}]
    /\ err' = [err EXCEPT ![t] = FALSE] /\ up' = [up EXCEPT ![t] = Null]
    /\ Go(t, "idle")
    /\ UNCHANGED <<st, wc, obj, lowerVars, rest, spare, wfile>>

(* tpt_add_writecount by an open for writing, under the vnode's lock; the  *)
(* lower layer may refuse.                                                 *)
AddWritecount(t, u, e) ==
    /\ pc[t] = "idle" /\ wfile[t] = Null /\ st[u] = "live" /\ Free(Below[u])
    /\ IF e THEN UNCHANGED <<uuse, wc, lwc, wfile>>
       ELSE /\ wc' = [wc EXCEPT ![u] = @ + 1]
            /\ lwc' = [lwc EXCEPT ![Below[u]] = @ + 1]
            /\ uuse' = [uuse EXCEPT ![u] = @ + 1]
            /\ wfile' = [wfile EXCEPT ![t] = u]
    /\ UNCHANGED <<st, obj, luse, lock, pc, callVars, mapped, rest, err, spare, up>>

(* The close, on a live alias or on what is left of it.                    *)
SubWritecount(t) ==
    LET u == wfile[t] IN
    /\ pc[t] = "idle" /\ u # Null /\ Free(Vnlock(u))
    /\ wc' = [wc EXCEPT ![u] = @ - 1]
    /\ lwc' = IF st[u] = "live" THEN [lwc EXCEPT ![Below[u]] = @ - 1] ELSE lwc
    /\ uuse' = [uuse EXCEPT ![u] = @ - 1]
    /\ wfile' = [wfile EXCEPT ![t] = Null]
    /\ UNCHANGED <<st, obj, luse, lock, pc, callVars, mapped, rest, err, spare, up>>

-----------------------------------------------------------------------------
(* Mutation of Reclaim: the lower write count is not given back.           *)
ReclaimKeepsWriters(u) ==
    /\ st[u] = "live" /\ Free(Below[u]) /\ Free(u)
    /\ st' = [st EXCEPT ![u] = "reclaim"]
    /\ obj' = obj \ {u}
    /\ luse' = [luse EXCEPT ![Below[u]] = @ - 1]
    /\ UNCHANGED <<uuse, wc, lwc, lock, pc, callVars, mapped, rest, err, spare, up, wfile>>

(* tpt_reclaim, by a forced unmount or with the last reference, whenever   *)
(* nobody has the alias locked: v_data and v_object go, the write count is *)
(* given back, and the lower vnode is released; then v_op and v_mount go.  *)
Reclaim(u) ==
    /\ st[u] = "live" /\ Free(Below[u]) /\ Free(u)
    /\ st' = [st EXCEPT ![u] = "reclaim"]
    /\ obj' = obj \ {u}
    /\ luse' = [luse EXCEPT ![Below[u]] = @ - 1]
    /\ lwc' = [lwc EXCEPT ![Below[u]] = @ - wc[u]]
    /\ UNCHANGED <<uuse, wc, lock, pc, callVars, mapped, rest, err, spare, up, wfile>>

Reclaimed(u) ==
    /\ st[u] = "reclaim"
    /\ st' = [st EXCEPT ![u] = "dead"]
    /\ UNCHANGED <<uuse, wc, obj, lowerVars, lock, pc, callVars, mapped, rest, err, spare, up, wfile>>

Freed(u) ==             \* the last vdrop
    /\ st[u] = "dead" /\ uuse[u] = 0
    /\ st' = [st EXCEPT ![u] = "none"]
    /\ UNCHANGED <<uuse, wc, obj, lowerVars, lock, pc, callVars, mapped, rest, err, spare, up, wfile>>

(* Somebody looks the file up again.                                       *)
Lookup(u) ==
    /\ u \in Empty(Mount[u], Below[u]) /\ AliasesOf(Mount[u], Below[u]) = {} /\ Free(Below[u])
    /\ st' = [st EXCEPT ![u] = "live"]
    /\ luse' = [luse EXCEPT ![Below[u]] = @ + 1]
    /\ UNCHANGED <<uuse, wc, obj, lwc, lock, pc, callVars, mapped, rest, err, spare, up, wfile>>

-----------------------------------------------------------------------------
Before(t) == Refuse(t) \/ Setattr(t) \/ Remove(t) \/ RenameCross(t) \/ Rename(t)

Bypass(t) ==
    \/ MapFault(t) \/ Map(t) \/ LowerUnlock(t) \/ LowerRelock(t)
    \/ \E e \in BOOLEAN : LowerDone(t, e) \/ LowerRename(t, e)
    \/ \E c \in Lower : LowerCreate(t, c)
    \/ LowerCreateFails(t)
    \/ Unmap(t) \/ UnmapSplit(t) \/ UnmapMove(t) \/ Unmapped(t)
    \/ NodegetNoMount(t) \/ NodegetFails(t) \/ \E u \in Upper : NodegetNew(t, u)

Around(t) ==
    \/ PgcacheGone(t) \/ Pgcache(t) \/ PgcacheDone(t)
    \/ VputPair(t) \/ LowerPair(t) \/ PairDone(t)

Running == \A t \in Threads : pc[t] # "panic"
Stopped == ~Running /\ UNCHANGED vars

Next ==
    \/ /\ Running
       /\ \/ \E t \in Threads :
                \/ \E c \in Calls[t] : Call(t, c)
                \/ Before(t) \/ Bypass(t) \/ FsidFault(t) \/ Finish(t) \/ Around(t)
                \/ UnlockFault(t) \/ Return(t)
                \/ \E u \in Files, e \in BOOLEAN : AddWritecount(t, u, e)
                \/ SubWritecount(t)
          \/ \E u \in Upper : Reclaim(u) \/ Reclaimed(u) \/ Freed(u) \/ Lookup(u)
    \/ Stopped

Spec == Init /\ [][Next]_vars

-----------------------------------------------------------------------------
(* The arguments whose reference the call still has.                       *)
HeldArgs(t) ==
    CASE pc[t] = "idle" -> {}
      [] pc[t] = "ret" -> Kept(t)
      [] op[t] = "rename" /\ pc[t] \in {"unmap", "move"} -> rest[t]
      [] op[t] = "rename" /\ pc[t] = "post" -> {}
      [] OTHER -> Given(args[t])
UserRefs(u) ==
    {p \in Threads \X (1 .. 4) : p[2] \in HeldArgs(p[1]) /\ args[p[1]][p[2]] = u}

(* The arguments for which the lower call has a reference of its own.      *)
LentArgs(t) ==
    CASE op[t] = "rename" /\ pc[t] \in {"lower", "unlocked"} -> mapped[t]
      [] pc[t] = "pair" -> PairRefs(t)
      [] OTHER -> {}
LentRefs(l) ==
    {p \in Threads \X (1 .. 4) : p[2] \in LentArgs(p[1]) /\ Below[args[p[1]][p[2]]] = l}

(* No reference is lost or dropped twice, whatever the operation, the path *)
(* through it and the reclaims on the way: an alias' references are those  *)
(* of the calls and open files, a lower vnode's those of its live aliases  *)
(* and the ones that tpt_bypass, tpt_remove, tpt_read_pgcache and          *)
(* tpt_vput_pair add for the time of a call.                               *)
RefsExact ==
    Running =>
        /\ \A u \in Upper : uuse[u] = Cardinality(UserRefs(u))
                + Cardinality({t \in Threads : up[t] = u}) + Cardinality({t \in Threads : wfile[t] = u})
        /\ \A l \in Lower : luse[l] = Cardinality({u \in Upper : st[u] = "live" /\ Below[u] = l})
                + Cardinality({t \in Threads : spare[t] = l}) + Cardinality(LentRefs(l))

HasLocks(t) == {k \in Lower \cup Upper : t \in lock[k]} = {Vnlock(u) : u \in Unlocks(t)}

(* An operation returns with exactly the locks that its caller is going to *)
(* unlock, also if an argument was reclaimed while the lower layer had it  *)
(* unlocked.  This is claimed for exclusive locks, and for shared ones of  *)
(* an alias that is still live.                                            *)
LocksReturned ==
    \A t \in Threads :
        pc[t] = "ret" /\ (mode[t] = "exclusive" \/ \A u \in Unlocks(t) : st[u] = "live")
            => HasLocks(t)

(* The same for every lock, as the comment in tpt_bypass has it: "In this  *)
(* case we must move lock ownership from lower to upper (reclaimed)        *)
(* vnode" (tpt_vnops.c:305-307).  The code does so for exclusive locks     *)
(* only.                                                                   *)
LockOwnershipMoves == \A t \in Threads : pc[t] = "ret" => HasLocks(t)

(* A reclaimed alias keeps no share of the lower vnode's write count: what *)
(* a forced reclaim gives back is not given back again by the writers when *)
(* they close.                                                             *)
ReclaimComplete ==
    \A l \in Lower : lwc[l] =
        Cardinality({t \in Threads : wfile[t] # Null /\ Below[wfile[t]] = l /\ st[wfile[t]] = "live"})

(* The kernel goes down only over a vnode that was reclaimed while nobody  *)
(* had it locked for the operation: rename's source, which comes unlocked, *)
(* or an argument that the lower layer unlocked.  A caller with exclusive  *)
(* locks never goes down over one of them when it unlocks.                 *)
PanicOnlyAfterReclaim ==
    \A t \in Threads : pc[t] = "panic" =>
        \E j \in Given(args[t]) :
            /\ st[args[t][j]] # "live"
            /\ j \in LockedArgs(op[t], args[t]) => mapped[t] # {} /\ op[t] \in LowerUnlocks
=============================================================================
