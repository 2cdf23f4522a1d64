---------------------------- MODULE TptNodeSafety ---------------------------
(***************************************************************************)
(* NodeInv is an invariant of the node layer, for every number of threads, *)
(* vnodes and mounts, and the safety properties follow from it.            *)
(*                                                                         *)
(* The first part shows, action by action, what a thread relies on itself  *)
(* after each of its steps: which locals are set, which locks it has and   *)
(* which it has not, the proto it creates, the mount it works on.  In the  *)
(* second part a step of a thread t keeps the counts (CountsKept) and,     *)
(* because of ThreadStep alone, what another thread relies on (Neighbour   *)
(* and the lemmas after it).                                               *)
(***************************************************************************)
EXTENDS TptNodeSteps

(* The part of NodeInv that speaks of the locals and the locks of thread t. *)
SelfInv(t) == Locals(t) /\ Locking(t) /\ NoOtherLock(t) /\ ProtoInv(t) /\ MountInv(t)

(* An alias that a thread was given is no proto: it has its lower vnode    *)
(* until it is reclaimed, and is on a mount's list as long.                *)
Known(x) == /\ x \in Upper /\ x \in alloc
            /\ ~udoomed[x] => data[x] \in Lower
            /\ data[x] # Null => data[x] \in Lower /\ mnt[x] \in Mounts

(* What a thread holds by up or dir is Known, and so is the vnode it works *)
(* on unless it is creating it or sleeping for its lock.                   *)
LEMMA KnownAlias ==
    ASSUME NodeInv, NEW t \in Threads
    PROVE  /\ \A x \in {up[t], dir[t]} \ {Null} : Known(x)
           /\ ~MakesProto(t) /\ pc[t] \notin LockLabels /\ tgt[t] # Null => Known(tgt[t])
<1>1. TypeOK /\ AliasInv /\ RefInv(t) /\ \A s \in Threads : ProtoInv(s) BY DEF NodeInv
<1>2. ASSUME NEW x \in {up[t], dir[t], tgt[t]} \ {Null}, ~Proto(x) PROVE Known(x)
  <2>1. x \in Upper /\ x \in alloc BY <1>1, <1>2 DEF RefInv, TypeOK, ThreadOK
  <2> QED BY <1>1, <1>2, <2>1 DEF AliasInv, TypeOK, AliasOK, Known
<1>3. \A x \in {up[t], dir[t]} : ~Proto(x) BY <1>1 DEF Proto, ProtoInv
<1>4. ~MakesProto(t) /\ pc[t] \notin LockLabels => ~Proto(tgt[t])
      BY <1>1 DEF Proto, ProtoInv
<1> QED BY <1>2, <1>3, <1>4

(* What the thread relies on after a step of Vget.                          *)
LEMMA VgetSelf ==
    ASSUME NodeInv, TypeOK', NEW t \in Threads, VgetDone(t) \/ VgetDoomed(t)
    PROVE  SelfInv(t)'
<1> USE NodeConstants
<1>a. TypeOK /\ LockInv /\ AliasInv /\ LowerInv BY DEF NodeInv
<1>b. Locals(t) BY DEF NodeInv
<1>d. Locking(t) BY DEF NodeInv
<1>f. \A s \in Threads : ProtoInv(s) /\ RefInv(s) BY DEF NodeInv
<1>g. \A s \in Threads : MountInv(s) BY DEF NodeInv
<1>h. NoOtherLock(t) BY DEF NodeInv
<1>i. \A x \in {up[t], dir[t]} \ {Null} : Known(x) BY KnownAlias
<1>j. ~MakesProto(t) /\ pc[t] \notin LockLabels /\ tgt[t] # Null => Known(tgt[t])
      BY KnownAlias
<1> USE DEF LockLabels, NodegetLabels, ProtoLabels, ReclaimLabels, PutLabels,
       CreateLabels, LookupLabels, VnLockLabels, Go, lowerVars, aliasVars, lockVars,
       mountVars, argVars, TypeOK, ThreadOK, LocalsOK, AliasOK, LockOK, InLookup, Flushes,
       MakesProto, Owns, Holds, Vnlock, Vnodes, Locals, UpInv, DirInv, TgtInv, LowInv,
       LdvpInv, CallInv, WhyInv, ModeInv, Locking, CreateLocks, LookupLocks, VnodeLocks,
       ReclaimLocks, SleepInv, TwoLocks, LowerAlive
<1>1. CASE VgetDone(t)
  <2>1. pc'[t] = "ng_get" BY <1>1, <1>a DEF VgetDone
  <2>2. UpInv(t)' /\ DirInv(t)' /\ TgtInv(t)' /\ LowInv(t)'
        BY <1>1, <1>a, <1>b, <2>1 DEF VgetDone
  <2>3. LdvpInv(t)' /\ CallInv(t)' /\ WhyInv(t)' /\ ModeInv(t)'
        BY <1>1, <1>a, <1>b, <2>1 DEF VgetDone
  <2>4. LookupLocks(t)' /\ VnodeLocks(t)' /\ ReclaimLocks(t)' /\ SleepInv(t)' /\
        TwoLocks(t)' /\ ProtoInv(t)'
        BY <2>1 DEF ProtoInv
  <2>5. CreateLocks(t)'
        BY <1>1, <1>a, <1>b, <1>d, <1>f, <2>1 DEF VgetDone, Acquire, Free, ProtoInv,
           RefInv
  <2>6. LowerAlive(t)'
        BY <1>1, <1>a, <1>b, <1>d, <1>f, <2>1 DEF VgetDone, Acquire, Free, ProtoInv,
           RefInv
  <2>7. MountInv(t)'
        BY <1>1, <1>a, <1>b, <1>d, <1>g, <2>1 DEF VgetDone, Acquire, Free, MountInv,
           Listed, Refuses, RootBusy, AliasInv
  <2>8. NoOtherLock(t)'
        BY <1>1, <1>a, <1>b, <1>d, <1>h, <2>1 DEF VgetDone, Acquire, Free, NoOtherLock,
           MayHold, DirLock, UpLock, LockInv
  <2> QED BY <2>1, <2>2, <2>3, <2>4, <2>5, <2>6, <2>7, <2>8 DEF SelfInv
<1>2. CASE VgetDoomed(t)
  <2>1. pc'[t] = "idle" BY <1>2, <1>a DEF VgetDoomed
  <2>2. UpInv(t)' /\ DirInv(t)' /\ TgtInv(t)' /\ LowInv(t)'
        BY <1>2, <1>a, <1>b, <2>1 DEF VgetDoomed
  <2>3. LdvpInv(t)' /\ CallInv(t)' /\ WhyInv(t)' /\ ModeInv(t)'
        BY <1>2, <1>a, <1>b, <2>1 DEF VgetDoomed
  <2>4. CreateLocks(t)' /\ LookupLocks(t)' /\ VnodeLocks(t)' /\ ReclaimLocks(t)' /\
        SleepInv(t)' /\ TwoLocks(t)' /\ LowerAlive(t)' /\ ProtoInv(t)' /\ MountInv(t)'
        BY <2>1 DEF ProtoInv, MountInv
  <2>5. NoOtherLock(t)'
        BY <1>2, <1>a, <1>b, <1>d, <1>h, <2>1 DEF VgetDoomed, Free, LowerRele,
           NoOtherLock, MayHold, DirLock, UpLock, LockInv
  <2> QED BY <2>1, <2>2, <2>3, <2>4, <2>5 DEF SelfInv
<1> QED BY <1>1, <1>2

(* What the thread relies on after a step of Nodeget.                       *)
LEMMA NodegetSelf ==
    ASSUME NodeInv, TypeOK', NEW t \in Threads, Nodeget(t)
    PROVE  SelfInv(t)'
<1> USE NodeConstants
<1>a. TypeOK /\ LockInv /\ AliasInv /\ LowerInv BY DEF NodeInv
<1>b. Locals(t) BY DEF NodeInv
<1>d. Locking(t) BY DEF NodeInv
<1>f. \A s \in Threads : ProtoInv(s) /\ RefInv(s) BY DEF NodeInv
<1>g. \A s \in Threads : MountInv(s) BY DEF NodeInv
<1>h. NoOtherLock(t) BY DEF NodeInv
<1>i. \A x \in {up[t], dir[t]} \ {Null} : Known(x) BY KnownAlias
<1>j. ~MakesProto(t) /\ pc[t] \notin LockLabels /\ tgt[t] # Null => Known(tgt[t])
      BY KnownAlias
<1> USE DEF LockLabels, NodegetLabels, ProtoLabels, ReclaimLabels, PutLabels,
       CreateLabels, LookupLabels, VnLockLabels, Go, Rest, lowerVars, aliasVars, lockVars,
       mountVars, argVars, TypeOK, ThreadOK, LocalsOK, AliasOK, LockOK, InLookup, Flushes,
       MakesProto, Owns, Holds, Vnlock, Vnodes, Aliases, Locals, UpInv, DirInv, TgtInv,
       LowInv, LdvpInv, CallInv, WhyInv, ModeInv, Locking, CreateLocks, LookupLocks,
       VnodeLocks, ReclaimLocks, SleepInv, TwoLocks, LowerAlive
<1>1. CASE HashgetHit(t)
  <2>1. pc'[t] \in {"idle", "locked", "putdir", "ref", "vc_ret"}
        BY <1>1, <1>a DEF HashgetHit, NodegetReturn
  <2>2. UpInv(t)' /\ DirInv(t)' /\ TgtInv(t)' /\ LowInv(t)'
        BY <1>1, <1>a, <1>b, <2>1 DEF HashgetHit, NodegetReturn
  <2>3. LdvpInv(t)' /\ CallInv(t)' /\ WhyInv(t)' /\ ModeInv(t)'
        BY <1>1, <1>a, <1>b, <2>1 DEF HashgetHit, NodegetReturn
  <2>4. CreateLocks(t)' /\ ReclaimLocks(t)' /\ SleepInv(t)' /\ LowerAlive(t)' /\
        ProtoInv(t)' /\ MountInv(t)'
        BY <2>1 DEF ProtoInv, MountInv
  <2>5. LookupLocks(t)'
        BY <1>1, <1>a, <1>b, <1>d, <1>f, <2>1 DEF HashgetHit, LowerRele, NodegetReturn,
           ProtoInv, RefInv
  <2>6. VnodeLocks(t)'
        BY <1>1, <1>a, <1>b, <1>d, <1>f, <2>1 DEF HashgetHit, LowerRele, NodegetReturn,
           ProtoInv, RefInv
  <2>7. TwoLocks(t)'
        BY <1>1, <1>a, <1>b, <1>d, <1>f, <2>1 DEF HashgetHit, LowerRele, NodegetReturn,
           ProtoInv, RefInv
  <2>8. NoOtherLock(t)'
        BY <1>1, <1>a, <1>b, <1>d, <1>h, <2>1 DEF HashgetHit, LowerRele, NodegetReturn,
           NoOtherLock, MayHold, DirLock, UpLock, LockInv
  <2> QED BY <2>1, <2>2, <2>3, <2>4, <2>5, <2>6, <2>7, <2>8 DEF SelfInv
<1>2. CASE HashgetMiss(t)
  <2>1. pc'[t] \in {"ng_new", "ng_upgrade"} BY <1>2, <1>a DEF HashgetMiss
  <2>2. UpInv(t)' /\ DirInv(t)' /\ TgtInv(t)' /\ LowInv(t)'
        BY <1>2, <1>a, <1>b, <2>1 DEF HashgetMiss
  <2>3. LdvpInv(t)' /\ CallInv(t)' /\ WhyInv(t)' /\ ModeInv(t)'
        BY <1>2, <1>a, <1>b, <2>1, <1>d DEF HashgetMiss
  <2>4. LookupLocks(t)' /\ VnodeLocks(t)' /\ ReclaimLocks(t)' /\ SleepInv(t)' /\
        TwoLocks(t)' /\ ProtoInv(t)'
        BY <2>1 DEF ProtoInv
  <2>5. CreateLocks(t)'
        BY <1>2, <1>a, <1>b, <1>d, <1>f, <2>1 DEF HashgetMiss, ProtoInv, RefInv
  <2>6. LowerAlive(t)'
        BY <1>2, <1>a, <1>b, <1>d, <1>f, <2>1 DEF HashgetMiss, ProtoInv, RefInv
  <2>7. MountInv(t)'
        BY <1>2, <1>a, <1>b, <1>d, <1>g, <2>1 DEF HashgetMiss, MountInv, Listed, Refuses,
           RootBusy, AliasInv
  <2>8. NoOtherLock(t)'
        BY <1>2, <1>a, <1>b, <1>d, <1>h, <2>1 DEF HashgetMiss, NoOtherLock, MayHold,
           DirLock, UpLock, LockInv
  <2> QED BY <2>1, <2>2, <2>3, <2>4, <2>5, <2>6, <2>7, <2>8 DEF SelfInv
<1>3. CASE NodegetUpgrade(t)
  <2>1. pc'[t] \in {"ng_check", "ng_relock"} BY <1>3, <1>a DEF NodegetUpgrade
  <2>2. UpInv(t)' /\ DirInv(t)' /\ TgtInv(t)' /\ LowInv(t)'
        BY <1>3, <1>a, <1>b, <2>1 DEF NodegetUpgrade
  <2>3. LdvpInv(t)' /\ CallInv(t)' /\ WhyInv(t)' /\ ModeInv(t)'
        BY <1>3, <1>a, <1>b, <2>1 DEF NodegetUpgrade
  <2>4. LookupLocks(t)' /\ VnodeLocks(t)' /\ ReclaimLocks(t)' /\ SleepInv(t)' /\
        TwoLocks(t)' /\ LowerAlive(t)' /\ ProtoInv(t)'
        BY <2>1 DEF ProtoInv
  <2>5. CreateLocks(t)'
        BY <1>3, <1>a, <1>b, <1>d, <1>f, <2>1 DEF NodegetUpgrade, Release, Upgrade,
           ProtoInv, RefInv
  <2>6. MountInv(t)'
        BY <1>3, <1>a, <1>b, <1>d, <1>g, <2>1 DEF NodegetUpgrade, Release, Upgrade,
           MountInv, Listed, Refuses, RootBusy, AliasInv
  <2>7. NoOtherLock(t)'
        BY <1>3, <1>a, <1>b, <1>d, <1>h, <2>1 DEF NodegetUpgrade, Release, Upgrade,
           NoOtherLock, MayHold, DirLock, UpLock, LockInv
  <2> QED BY <2>1, <2>2, <2>3, <2>4, <2>5, <2>6, <2>7 DEF SelfInv
<1>4. CASE NodegetRelock(t)
  <2>1. pc'[t] = "ng_check" BY <1>4, <1>a DEF NodegetRelock
  <2>2. UpInv(t)' /\ DirInv(t)' /\ TgtInv(t)' /\ LowInv(t)'
        BY <1>4, <1>a, <1>b, <2>1 DEF NodegetRelock
  <2>3. LdvpInv(t)' /\ CallInv(t)' /\ WhyInv(t)' /\ ModeInv(t)'
        BY <1>4, <1>a, <1>b, <2>1 DEF NodegetRelock
  <2>4. LookupLocks(t)' /\ VnodeLocks(t)' /\ ReclaimLocks(t)' /\ SleepInv(t)' /\
        TwoLocks(t)' /\ LowerAlive(t)' /\ ProtoInv(t)'
        BY <2>1 DEF ProtoInv
  <2>5. CreateLocks(t)'
        BY <1>4, <1>a, <1>b, <1>d, <1>f, <2>1 DEF NodegetRelock, Acquire, Free, ProtoInv,
           RefInv
  <2>6. MountInv(t)'
        BY <1>4, <1>a, <1>b, <1>d, <1>g, <2>1 DEF NodegetRelock, Acquire, Free, MountInv,
           Listed, Refuses, RootBusy, AliasInv
  <2>7. NoOtherLock(t)'
        BY <1>4, <1>a, <1>b, <1>d, <1>h, <2>1 DEF NodegetRelock, Acquire, Free,
           NoOtherLock, MayHold, DirLock, UpLock, LockInv
  <2> QED BY <2>1, <2>2, <2>3, <2>4, <2>5, <2>6, <2>7 DEF SelfInv
<1>5. CASE NodegetDoomed(t)
  <2>1. pc'[t] \in {"idle", "locked", "putdir", "ref", "vc_ret"}
        BY <1>5, <1>a DEF NodegetDoomed, NodegetFail, NodegetReturn
  <2>2. UpInv(t)' /\ DirInv(t)' /\ TgtInv(t)' /\ LowInv(t)'
        BY <1>5, <1>a, <1>b, <2>1 DEF NodegetDoomed, NodegetFail, NodegetReturn
  <2>3. LdvpInv(t)' /\ CallInv(t)' /\ WhyInv(t)' /\ ModeInv(t)'
        BY <1>5, <1>a, <1>b, <2>1 DEF NodegetDoomed, NodegetFail, NodegetReturn
  <2>4. CreateLocks(t)' /\ ReclaimLocks(t)' /\ SleepInv(t)' /\ LowerAlive(t)' /\
        ProtoInv(t)' /\ MountInv(t)'
        BY <2>1 DEF ProtoInv, MountInv
  <2>5. LookupLocks(t)'
        BY <1>5, <1>a, <1>b, <1>d, <1>f, <2>1 DEF NodegetDoomed, NodegetFail, Release,
           LowerRele, NodegetReturn, ProtoInv, RefInv
  <2>6. VnodeLocks(t)'
        BY <1>5, <1>a, <1>b, <1>d, <1>f, <2>1 DEF NodegetDoomed, NodegetFail, Release,
           LowerRele, NodegetReturn, ProtoInv, RefInv
  <2>7. TwoLocks(t)'
        BY <1>5, <1>a, <1>b, <1>d, <1>f, <2>1 DEF NodegetDoomed, NodegetFail, Release,
           LowerRele, NodegetReturn, ProtoInv, RefInv
  <2>8. NoOtherLock(t)'
        BY <1>5, <1>a, <1>b, <1>d, <1>h, <2>1 DEF NodegetDoomed, NodegetFail, Release,
           LowerRele, NodegetReturn, NoOtherLock, MayHold, DirLock, UpLock, LockInv
  <2> QED BY <2>1, <2>2, <2>3, <2>4, <2>5, <2>6, <2>7, <2>8 DEF SelfInv
<1>6. CASE NodegetUpgraded(t)
  <2>1. pc'[t] = "ng_new" BY <1>6, <1>a DEF NodegetUpgraded
  <2>2. UpInv(t)' /\ DirInv(t)' /\ TgtInv(t)' /\ LowInv(t)'
        BY <1>6, <1>a, <1>b, <2>1 DEF NodegetUpgraded
  <2>3. LdvpInv(t)' /\ CallInv(t)' /\ WhyInv(t)' /\ ModeInv(t)'
        BY <1>6, <1>a, <1>b, <2>1 DEF NodegetUpgraded
  <2>4. LookupLocks(t)' /\ VnodeLocks(t)' /\ ReclaimLocks(t)' /\ SleepInv(t)' /\
        TwoLocks(t)' /\ ProtoInv(t)'
        BY <2>1 DEF ProtoInv
  <2>5. CreateLocks(t)'
        BY <1>6, <1>a, <1>b, <1>d, <1>f, <2>1 DEF NodegetUpgraded, ProtoInv, RefInv
  <2>6. LowerAlive(t)'
        BY <1>6, <1>a, <1>b, <1>d, <1>f, <2>1 DEF NodegetUpgraded, ProtoInv, RefInv
  <2>7. MountInv(t)'
        BY <1>6, <1>a, <1>b, <1>d, <1>g, <2>1 DEF NodegetUpgraded, MountInv, Listed,
           Refuses, RootBusy, AliasInv
  <2>8. NoOtherLock(t)'
        BY <1>6, <1>a, <1>b, <1>d, <1>h, <2>1 DEF NodegetUpgraded, NoOtherLock, MayHold,
           DirLock, UpLock, LockInv
  <2> QED BY <2>1, <2>2, <2>3, <2>4, <2>5, <2>6, <2>7, <2>8 DEF SelfInv
<1>7. CASE GetnewvnodeFail(t)
  <2>1. pc'[t] \in {"idle", "locked", "putdir", "ref", "vc_ret"}
        BY <1>7, <1>a DEF GetnewvnodeFail, NodegetFail, NodegetReturn
  <2>2. UpInv(t)' /\ DirInv(t)' /\ TgtInv(t)' /\ LowInv(t)'
        BY <1>7, <1>a, <1>b, <2>1 DEF GetnewvnodeFail, NodegetFail, NodegetReturn
  <2>3. LdvpInv(t)' /\ CallInv(t)' /\ WhyInv(t)' /\ ModeInv(t)'
        BY <1>7, <1>a, <1>b, <2>1 DEF GetnewvnodeFail, NodegetFail, NodegetReturn
  <2>4. CreateLocks(t)' /\ ReclaimLocks(t)' /\ SleepInv(t)' /\ LowerAlive(t)' /\
        ProtoInv(t)' /\ MountInv(t)'
        BY <2>1 DEF ProtoInv, MountInv
  <2>5. LookupLocks(t)'
        BY <1>7, <1>a, <1>b, <1>d, <1>f, <2>1 DEF GetnewvnodeFail, NodegetFail, Release,
           LowerRele, NodegetReturn, ProtoInv, RefInv
  <2>6. VnodeLocks(t)'
        BY <1>7, <1>a, <1>b, <1>d, <1>f, <2>1 DEF GetnewvnodeFail, NodegetFail, Release,
           LowerRele, NodegetReturn, ProtoInv, RefInv
  <2>7. TwoLocks(t)'
        BY <1>7, <1>a, <1>b, <1>d, <1>f, <2>1 DEF GetnewvnodeFail, NodegetFail, Release,
           LowerRele, NodegetReturn, ProtoInv, RefInv
  <2>8. NoOtherLock(t)'
        BY <1>7, <1>a, <1>b, <1>d, <1>h, <2>1 DEF GetnewvnodeFail, NodegetFail, Release,
           LowerRele, NodegetReturn, NoOtherLock, MayHold, DirLock, UpLock, LockInv
  <2> QED BY <2>1, <2>2, <2>3, <2>4, <2>5, <2>6, <2>7, <2>8 DEF SelfInv
<1>8. ASSUME NEW u \in Upper, Getnewvnode(t, u) PROVE SelfInv(t)'
  <2>1. pc'[t] = "ng_insmnt" BY <1>8, <1>a DEF Getnewvnode
  <2>2. UpInv(t)' /\ DirInv(t)' /\ TgtInv(t)' /\ LowInv(t)'
        BY <1>8, <1>a, <1>b, <2>1 DEF Getnewvnode
  <2>3. LdvpInv(t)' /\ CallInv(t)' /\ WhyInv(t)' /\ ModeInv(t)'
        BY <1>8, <1>a, <1>b, <2>1 DEF Getnewvnode
  <2>4. LookupLocks(t)' /\ VnodeLocks(t)' /\ ReclaimLocks(t)' /\ SleepInv(t)' /\
        TwoLocks(t)'
        BY <2>1
  <2>5. CreateLocks(t)'
        BY <1>8, <1>a, <1>b, <1>d, <1>f, <2>1 DEF Getnewvnode, ProtoInv, RefInv
  <2>6. LowerAlive(t)'
        BY <1>8, <1>a, <1>b, <1>d, <1>f, <2>1 DEF Getnewvnode, ProtoInv, RefInv
  <2>7. ProtoInv(t)'
        BY <1>8, <1>a, <1>b, <1>d, <1>f, <2>1 DEF Getnewvnode, ProtoInv, RefInv, AliasInv
  <2>8. MountInv(t)'
        BY <1>8, <1>a, <1>b, <1>d, <1>g, <2>1 DEF Getnewvnode, MountInv, Listed, Refuses,
           RootBusy, AliasInv
  <2>9. NoOtherLock(t)'
    <3>1. dir[t] # Null => dir[t] # u /\ Vnlock(dir[t])' = Vnlock(dir[t])
          BY <1>8, <1>a, <1>i DEF Getnewvnode, Known
    <3>2. DirLock(t)' = DirLock(t) BY <1>8, <1>a, <3>1, ZenonT(60) DEF Getnewvnode, DirLock
    <3>3. MayHold(t)' = MayHold(t) BY <1>8, <2>1, <3>2 DEF Getnewvnode, MayHold
    <3> QED BY <1>8, <1>h, <3>3 DEF Getnewvnode, NoOtherLock
  <2> QED BY <2>1, <2>2, <2>3, <2>4, <2>5, <2>6, <2>7, <2>8, <2>9 DEF SelfInv
<1>9. CASE InsmntqueFail(t)
  <2>1. pc'[t] = "dp_detach" BY <1>9, <1>a DEF InsmntqueFail
  <2>2. UpInv(t)' /\ DirInv(t)' /\ TgtInv(t)' /\ LowInv(t)'
        BY <1>9, <1>a, <1>b, <2>1 DEF InsmntqueFail, Listed
  <2>3. LdvpInv(t)' /\ CallInv(t)' /\ WhyInv(t)' /\ ModeInv(t)'
        BY <1>9, <1>a, <1>b, <2>1 DEF InsmntqueFail, Listed
  <2>4. LookupLocks(t)' /\ VnodeLocks(t)' /\ ReclaimLocks(t)' /\ SleepInv(t)' /\
        TwoLocks(t)' /\ LowerAlive(t)'
        BY <2>1
  <2>5. CreateLocks(t)'
        BY <1>9, <1>a, <1>b, <1>d, <1>f, <2>1 DEF InsmntqueFail, Release, LowerRele,
           Refuses, Listed, ProtoInv, RefInv
  <2>6. ProtoInv(t)'
        BY <1>9, <1>a, <1>b, <1>d, <1>f, <2>1 DEF InsmntqueFail, Release, LowerRele,
           Refuses, Listed, ProtoInv, RefInv, AliasInv
  <2>7. MountInv(t)'
        BY <1>9, <1>a, <1>b, <1>d, <1>g, <2>1 DEF InsmntqueFail, Release, LowerRele,
           Refuses, Listed, MountInv, RootBusy, AliasInv
  <2>8. NoOtherLock(t)'
        BY <1>9, <1>a, <1>b, <1>d, <1>h, <2>1 DEF InsmntqueFail, Release, LowerRele,
           Refuses, Listed, NoOtherLock, MayHold, DirLock, UpLock, LockInv
  <2> QED BY <2>1, <2>2, <2>3, <2>4, <2>5, <2>6, <2>7, <2>8 DEF SelfInv
<1>10. CASE Insmntque(t)
  <2>1. pc'[t] = "ng_hashins" BY <1>10, <1>a DEF Insmntque
  <2>2. UpInv(t)' /\ DirInv(t)' /\ TgtInv(t)' /\ LowInv(t)'
        BY <1>10, <1>a, <1>b, <2>1 DEF Insmntque, Listed
  <2>3. LdvpInv(t)' /\ CallInv(t)' /\ WhyInv(t)' /\ ModeInv(t)'
        BY <1>10, <1>a, <1>b, <2>1 DEF Insmntque, Listed
  <2>4. LookupLocks(t)' /\ VnodeLocks(t)' /\ ReclaimLocks(t)' /\ SleepInv(t)' /\
        TwoLocks(t)'
        BY <2>1
  <2>5. CreateLocks(t)'
        BY <1>10, <1>a, <1>b, <1>d, <1>f, <2>1 DEF Insmntque, Refuses, Listed, ProtoInv,
           RefInv
  <2>6. LowerAlive(t)'
        BY <1>10, <1>a, <1>b, <1>d, <1>f, <2>1 DEF Insmntque, Refuses, Listed, ProtoInv,
           RefInv
  <2>7. ProtoInv(t)'
        BY <1>10, <1>a, <1>b, <1>d, <1>f, <2>1 DEF Insmntque, Refuses, Listed, ProtoInv,
           RefInv, AliasInv
  <2>8. MountInv(t)'
        BY <1>10, <1>a, <1>b, <1>d, <1>g, <2>1 DEF Insmntque, Refuses, Listed, MountInv,
           RootBusy, AliasInv
  <2>9. NoOtherLock(t)'
        BY <1>10, <1>a, <1>b, <1>d, <1>h, <2>1 DEF Insmntque, Refuses, Listed,
           NoOtherLock, MayHold, DirLock, UpLock, LockInv
  <2> QED BY <2>1, <2>2, <2>3, <2>4, <2>5, <2>6, <2>7, <2>8, <2>9 DEF SelfInv
<1>11. CASE Hashins(t)
  <2>1. pc'[t] \in {"idle", "locked", "putdir", "ref", "vc_ret"}
        BY <1>11, <1>a DEF Hashins, NodegetReturn
  <2>2. UpInv(t)' /\ DirInv(t)' /\ TgtInv(t)' /\ LowInv(t)'
        BY <1>11, <1>a, <1>b, <2>1 DEF Hashins, NodegetReturn
  <2>3. LdvpInv(t)' /\ CallInv(t)' /\ WhyInv(t)' /\ ModeInv(t)'
        BY <1>11, <1>a, <1>b, <2>1 DEF Hashins, NodegetReturn
  <2>4. CreateLocks(t)' /\ ReclaimLocks(t)' /\ SleepInv(t)' /\ LowerAlive(t)' /\
        ProtoInv(t)' /\ MountInv(t)'
        BY <2>1 DEF ProtoInv, MountInv
  <2>5. LookupLocks(t)'
        BY <1>11, <1>a, <1>b, <1>d, <1>f, <2>1 DEF Hashins, NodegetReturn, ProtoInv,
           RefInv
  <2>6. VnodeLocks(t)'
    <3>1. up'[t] = tgt[t] /\ tgt[t] \in Upper /\ data[tgt[t]] = low[t] /\ low[t] \in Lower
          BY <1>11, <1>a, <1>b, <1>f DEF Hashins, NodegetReturn, ProtoInv
    <3>2. data' = data /\ ex' = ex /\ sh' = sh /\ ex[low[t]] = t
          BY <1>11, <1>d DEF Hashins
    <3>3. Holds(t, Vnlock(up[t]))' BY <3>1, <3>2, NodeConstants
    <3> QED BY <2>1, <3>1, <3>3
  <2>7. TwoLocks(t)'
        BY <1>11, <1>a, <1>b, <1>d, <1>f, <2>1 DEF Hashins, NodegetReturn, ProtoInv,
           RefInv
  <2>8. NoOtherLock(t)'
    <3> HIDE DEF Vnlock, Holds
    <3>1. up'[t] = tgt[t] /\ tgt[t] \in Upper /\ data[tgt[t]] = low[t] /\ low[t] \in Lower
          BY <1>11, <1>a, <1>b, <1>f DEF Hashins, NodegetReturn, ProtoInv
    <3>2. data' = data /\ ex' = ex /\ sh' = sh /\ call' = call /\ dir' = dir
          BY <1>11 DEF Hashins
    <3>3. Vnlock(up[t])' = low[t] BY <3>1, <3>2, NodeConstants DEF Vnlock
    <3>4. UpLock(t)' = (IF call[t] = "lookup" THEN {low[t]} ELSE {})
          BY <3>1, <3>2, <3>3, NodeConstants DEF UpLock
    <3>5. DirLock(t)' = DirLock(t) BY <3>2 DEF DirLock, Vnlock
    <3>6. pc[t] = "ng_hashins" /\ (call[t] = "lookup" => pc'[t] = "putdir") /\ (call[t] # "lookup" => pc'[t] \in {"vc_ret", "locked"})
          BY <1>11, <1>a, <3>1, NodeConstants DEF Hashins, NodegetReturn
    <3>7. call[t] = "lookup" => Holds(t, Vnlock(dir[t]))'
          BY <1>a, <1>b, <1>d, <3>2, <3>6 DEF Vnlock, Holds
    <3>8. MayHold(t) = {low[t]} \cup DirLock(t) BY <3>6 DEF MayHold
    <3>9. CASE call[t] = "lookup"
      <4>1. Vnlock(dir[t])' = Vnlock(dir[t]) BY <3>2 DEF Vnlock
      <4>2. MayHold(t)' = {Vnlock(dir[t])'} \cup UpLock(t)'
            BY <3>6, <3>7, <3>9 DEF MayHold
      <4> QED BY <1>h, <3>2, <3>4, <3>8, <3>9, <4>1, <4>2 DEF NoOtherLock, Holds, DirLock
    <3>10. CASE call[t] # "lookup"
      <4>1. up'[t] # Null BY <3>1, NodeConstants
      <4>2. MayHold(t)' = {Vnlock(up[t])'} BY <3>6, <3>10, <4>1 DEF MayHold
      <4> QED BY <1>h, <3>2, <3>3, <3>8, <3>10, <4>2 DEF NoOtherLock, Holds, DirLock
    <3> QED BY <3>9, <3>10
  <2> QED BY <2>1, <2>2, <2>3, <2>4, <2>5, <2>6, <2>7, <2>8 DEF SelfInv
<1>12. CASE HashinsDup(t)
  <2>1. pc'[t] = "dp_detach" BY <1>12, <1>a DEF HashinsDup
  <2>2. UpInv(t)' /\ DirInv(t)' /\ TgtInv(t)' /\ LowInv(t)'
        BY <1>12, <1>a, <1>b, <2>1 DEF HashinsDup
  <2>3. LdvpInv(t)' /\ CallInv(t)' /\ WhyInv(t)' /\ ModeInv(t)'
        BY <1>12, <1>a, <1>b, <2>1 DEF HashinsDup
  <2>4. LookupLocks(t)' /\ VnodeLocks(t)' /\ ReclaimLocks(t)' /\ SleepInv(t)' /\
        TwoLocks(t)' /\ LowerAlive(t)'
        BY <2>1
  <2>5. CreateLocks(t)'
        BY <1>12, <1>a, <1>b, <1>d, <1>f, <2>1 DEF HashinsDup, LowerRele, ProtoInv, RefInv
  <2>6. ProtoInv(t)'
        BY <1>12, <1>a, <1>b, <1>d, <1>f, <2>1 DEF HashinsDup, LowerRele, ProtoInv,
           RefInv, AliasInv
  <2>7. MountInv(t)'
        BY <1>12, <1>a, <1>b, <1>d, <1>g, <2>1 DEF HashinsDup, LowerRele, MountInv,
           Listed, Refuses, RootBusy, AliasInv
  <2>8. NoOtherLock(t)'
        BY <1>12, <1>a, <1>b, <1>d, <1>h, <2>1 DEF HashinsDup, LowerRele, NoOtherLock,
           MayHold, DirLock, UpLock, LockInv
  <2> QED BY <2>1, <2>2, <2>3, <2>4, <2>5, <2>6, <2>7, <2>8 DEF SelfInv
<1>13. CASE DestroyProtoDetach(t)
  <2>1. pc'[t] = "dp_fin" BY <1>13, <1>a DEF DestroyProtoDetach
  <2>2. UpInv(t)' /\ DirInv(t)' /\ TgtInv(t)' /\ LowInv(t)'
        BY <1>13, <1>a, <1>b, <2>1 DEF DestroyProtoDetach
  <2>3. LdvpInv(t)' /\ CallInv(t)' /\ WhyInv(t)' /\ ModeInv(t)'
        BY <1>13, <1>a, <1>b, <2>1 DEF DestroyProtoDetach
  <2>4. LookupLocks(t)' /\ VnodeLocks(t)' /\ ReclaimLocks(t)' /\ SleepInv(t)' /\
        TwoLocks(t)' /\ LowerAlive(t)'
        BY <2>1
  <2>5. CreateLocks(t)'
        BY <1>13, <1>a, <1>b, <1>d, <1>f, <2>1 DEF DestroyProtoDetach, Acquire, Free,
           ProtoInv, RefInv
  <2>6. ProtoInv(t)'
        BY <1>13, <1>a, <1>b, <1>d, <1>f, <2>1 DEF DestroyProtoDetach, Acquire, Free,
           ProtoInv, RefInv, AliasInv
  <2>7. MountInv(t)'
        BY <1>13, <1>a, <1>b, <1>d, <1>g, <2>1 DEF DestroyProtoDetach, Acquire, Free,
           MountInv, Listed, Refuses, RootBusy, AliasInv
  <2>8. NoOtherLock(t)'
    <3>1. tgt[t] \in Upper /\ dir[t] # tgt[t] /\ tgt' = tgt /\ low' = low /\ up' = up /\
          call' = call /\ dir' = dir
          BY <1>13, <1>a, <1>f DEF DestroyProtoDetach, ProtoInv
    <3>2. DirLock(t)' = DirLock(t) BY <1>13, <1>a, <3>1 DEF DestroyProtoDetach, DirLock
    <3>3. MayHold(t)' = MayHold(t) \cup {tgt[t]}
          BY <1>13, <2>1, <3>1, <3>2 DEF DestroyProtoDetach, MayHold
    <3>4. \A k \in Vnodes : Holds(t, k)' => Holds(t, k) \/ k = tgt[t]
          BY <1>13, <1>a DEF DestroyProtoDetach, Acquire
    <3> QED BY <1>h, <3>3, <3>4 DEF NoOtherLock
  <2> QED BY <2>1, <2>2, <2>3, <2>4, <2>5, <2>6, <2>7, <2>8 DEF SelfInv
<1>14. CASE DestroyProtoFin(t)
  <2>1. pc'[t] \in {"idle", "locked", "putdir", "ref", "vc_ret"}
        BY <1>14, <1>a DEF DestroyProtoFin, NodegetReturn
  <2>2. UpInv(t)' /\ DirInv(t)' /\ TgtInv(t)' /\ LowInv(t)'
        BY <1>14, <1>a, <1>b, <2>1 DEF DestroyProtoFin, NodegetReturn
  <2>3. LdvpInv(t)' /\ CallInv(t)' /\ WhyInv(t)' /\ ModeInv(t)'
        BY <1>14, <1>a, <1>b, <2>1 DEF DestroyProtoFin, NodegetReturn
  <2>4. CreateLocks(t)' /\ ReclaimLocks(t)' /\ SleepInv(t)' /\ LowerAlive(t)' /\
        ProtoInv(t)' /\ MountInv(t)'
        BY <2>1 DEF ProtoInv, MountInv
  <2>5. LookupLocks(t)'
        BY <1>14, <1>a, <1>b, <1>d, <1>f, <2>1 DEF DestroyProtoFin, Release,
           NodegetReturn, ProtoInv, RefInv
  <2>6. VnodeLocks(t)'
        BY <1>14, <1>a, <1>b, <1>d, <1>f, <2>1 DEF DestroyProtoFin, Release,
           NodegetReturn, ProtoInv, RefInv
  <2>7. TwoLocks(t)'
        BY <1>14, <1>a, <1>b, <1>d, <1>f, <2>1 DEF DestroyProtoFin, Release,
           NodegetReturn, ProtoInv, RefInv
  <2>8. NoOtherLock(t)'
        BY <1>14, <1>a, <1>b, <1>d, <1>h, <2>1 DEF DestroyProtoFin, Release,
           NodegetReturn, NoOtherLock, MayHold, DirLock, UpLock, LockInv
  <2> QED BY <2>1, <2>2, <2>3, <2>4, <2>5, <2>6, <2>7, <2>8 DEF SelfInv
<1> QED BY <1>1, <1>2, <1>3, <1>4, <1>5, <1>6, <1>7, <1>8, <1>9, <1>10, <1>11, <1>12,
      <1>13, <1>14 DEF Nodeget

(* What the thread relies on after a step of VnLock.                        *)
LEMMA VnLockSelf ==
    ASSUME NodeInv, TypeOK', NEW t \in Threads, VnLock(t)
    PROVE  SelfInv(t)'
<1> USE NodeConstants
<1>a. TypeOK /\ LockInv /\ AliasInv /\ LowerInv BY DEF NodeInv
<1>b. Locals(t) BY DEF NodeInv
<1>d. Locking(t) BY DEF NodeInv
<1>f. \A s \in Threads : ProtoInv(s) /\ RefInv(s) BY DEF NodeInv
<1>g. \A s \in Threads : MountInv(s) BY DEF NodeInv
<1>h. NoOtherLock(t) BY DEF NodeInv
<1>i. \A x \in {up[t], dir[t]} \ {Null} : Known(x) BY KnownAlias
<1>j. ~MakesProto(t) /\ pc[t] \notin LockLabels /\ tgt[t] # Null => Known(tgt[t])
      BY KnownAlias
<1> USE DEF LockLabels, NodegetLabels, ProtoLabels, ReclaimLabels, PutLabels,
       CreateLabels, LookupLabels, VnLockLabels, Go, Rest, lowerVars, aliasVars, lockVars,
       mountVars, argVars, TypeOK, ThreadOK, LocalsOK, AliasOK, LockOK, InLookup, Flushes,
       MakesProto, Owns, Holds, Vnlock, Vnodes, Locals, UpInv, DirInv, TgtInv, LowInv,
       LdvpInv, CallInv, WhyInv, ModeInv, Locking, CreateLocks, LookupLocks, VnodeLocks,
       ReclaimLocks, SleepInv, TwoLocks, LowerAlive
<1>1. CASE LockStart(t)
  <2>1. pc'[t] \in {"lk_lower", "lk_own"} BY <1>1, <1>a DEF LockStart
  <2>2. UpInv(t)' /\ DirInv(t)' /\ TgtInv(t)' /\ LowInv(t)'
        BY <1>1, <1>a, <1>b, <2>1 DEF LockStart
  <2>3. LdvpInv(t)' /\ CallInv(t)' /\ WhyInv(t)' /\ ModeInv(t)'
        BY <1>1, <1>a, <1>b, <2>1 DEF LockStart
  <2>4. CreateLocks(t)' /\ LookupLocks(t)' /\ VnodeLocks(t)' /\ ReclaimLocks(t)' /\
        TwoLocks(t)' /\ LowerAlive(t)' /\ ProtoInv(t)'
        BY <2>1 DEF ProtoInv
  <2>5. SleepInv(t)'
        BY <1>1, <1>a, <1>b, <1>d, <1>f, <2>1 DEF LockStart, ProtoInv, RefInv
  <2>6. MountInv(t)'
        BY <1>1, <1>a, <1>b, <1>d, <1>g, <2>1 DEF LockStart, MountInv, Listed, Refuses,
           RootBusy, AliasInv
  <2>7. NoOtherLock(t)'
        BY <1>1, <1>a, <1>b, <1>d, <1>h, <2>1 DEF LockStart, NoOtherLock, MayHold,
           DirLock, UpLock, LockInv
  <2> QED BY <2>1, <2>2, <2>3, <2>4, <2>5, <2>6, <2>7 DEF SelfInv
<1>2. CASE LockLower(t)
  <2>1. pc'[t] \in {"lu_err", "putdir", "vn_lock"}
        BY <1>2, <1>a DEF LockLower, LockGranted
  <2>2. UpInv(t)' /\ DirInv(t)' /\ TgtInv(t)' /\ LowInv(t)'
        BY <1>2, <1>a, <1>b, <2>1 DEF LockLower, LockGranted
  <2>3. LdvpInv(t)' /\ CallInv(t)' /\ WhyInv(t)' /\ ModeInv(t)'
        BY <1>2, <1>a, <1>b, <2>1 DEF LockLower, LockGranted
  <2>4. CreateLocks(t)' /\ ReclaimLocks(t)' /\ LowerAlive(t)' /\ ProtoInv(t)'
        BY <2>1 DEF ProtoInv
  <2>5. LookupLocks(t)'
        BY <1>2, <1>a, <1>b, <1>d, <1>f, <2>1 DEF LockLower, Acquire, Free, LockGranted,
           ProtoInv, RefInv
  <2>6. VnodeLocks(t)'
        BY <1>2, <1>a, <1>b, <1>d, <1>f, <2>1 DEF LockLower, Acquire, Free, LockGranted,
           ProtoInv, RefInv
  <2>7. SleepInv(t)'
        BY <1>2, <1>a, <1>b, <1>d, <1>f, <2>1 DEF LockLower, Acquire, Free, LockGranted,
           ProtoInv, RefInv
  <2>8. TwoLocks(t)'
        BY <1>2, <1>a, <1>b, <1>d, <1>f, <2>1 DEF LockLower, Acquire, Free, LockGranted,
           ProtoInv, RefInv
  <2>9. MountInv(t)'
        BY <1>2, <1>a, <1>b, <1>d, <1>g, <2>1 DEF LockLower, Acquire, Free, LockGranted,
           MountInv, Listed, Refuses, RootBusy, AliasInv
  <2>10. NoOtherLock(t)'
        BY <1>2, <1>a, <1>b, <1>d, <1>h, <2>1 DEF LockLower, Acquire, Free, LockGranted,
           NoOtherLock, MayHold, DirLock, UpLock, LockInv
  <2> QED BY <2>1, <2>2, <2>3, <2>4, <2>5, <2>6, <2>7, <2>8, <2>9, <2>10 DEF SelfInv
<1>3. CASE LockSwitched(t)
  <2>1. pc'[t] = "lk_own" BY <1>3, <1>a DEF LockSwitched
  <2>2. UpInv(t)' /\ DirInv(t)' /\ TgtInv(t)' /\ LowInv(t)'
        BY <1>3, <1>a, <1>b, <2>1 DEF LockSwitched
  <2>3. LdvpInv(t)' /\ CallInv(t)' /\ WhyInv(t)' /\ ModeInv(t)'
        BY <1>3, <1>a, <1>b, <2>1 DEF LockSwitched
  <2>4. CreateLocks(t)' /\ LookupLocks(t)' /\ VnodeLocks(t)' /\ ReclaimLocks(t)' /\
        TwoLocks(t)' /\ LowerAlive(t)' /\ ProtoInv(t)'
        BY <2>1 DEF ProtoInv
  <2>5. SleepInv(t)'
        BY <1>3, <1>a, <1>b, <1>d, <1>f, <2>1 DEF LockSwitched, Free, ProtoInv, RefInv
  <2>6. MountInv(t)'
        BY <1>3, <1>a, <1>b, <1>d, <1>g, <2>1 DEF LockSwitched, Free, MountInv, Listed,
           Refuses, RootBusy, AliasInv
  <2>7. NoOtherLock(t)'
        BY <1>3, <1>a, <1>b, <1>d, <1>h, <2>1 DEF LockSwitched, Free, NoOtherLock,
           MayHold, DirLock, UpLock, LockInv
  <2> QED BY <2>1, <2>2, <2>3, <2>4, <2>5, <2>6, <2>7 DEF SelfInv
<1>4. CASE LockOwn(t)
  <2>1. pc'[t] \in {"lu_err", "putdir", "vn_lock"} BY <1>4, <1>a DEF LockOwn, LockGranted
  <2>2. UpInv(t)' /\ DirInv(t)' /\ TgtInv(t)' /\ LowInv(t)'
        BY <1>4, <1>a, <1>b, <2>1 DEF LockOwn, LockGranted
  <2>3. LdvpInv(t)' /\ CallInv(t)' /\ WhyInv(t)' /\ ModeInv(t)'
        BY <1>4, <1>a, <1>b, <2>1 DEF LockOwn, LockGranted
  <2>4. CreateLocks(t)' /\ ReclaimLocks(t)' /\ LowerAlive(t)' /\ ProtoInv(t)'
        BY <2>1 DEF ProtoInv
  <2>5. LookupLocks(t)'
        BY <1>4, <1>a, <1>b, <1>d, <1>f, <2>1 DEF LockOwn, Acquire, Free, LockGranted,
           ProtoInv, RefInv
  <2>6. VnodeLocks(t)'
        BY <1>4, <1>a, <1>b, <1>d, <1>f, <2>1 DEF LockOwn, Acquire, Free, LockGranted,
           ProtoInv, RefInv
  <2>7. SleepInv(t)'
        BY <1>4, <1>a, <1>b, <1>d, <1>f, <2>1 DEF LockOwn, Acquire, Free, LockGranted,
           ProtoInv, RefInv
  <2>8. TwoLocks(t)'
        BY <1>4, <1>a, <1>b, <1>d, <1>f, <2>1 DEF LockOwn, Acquire, Free, LockGranted,
           ProtoInv, RefInv
  <2>9. MountInv(t)'
        BY <1>4, <1>a, <1>b, <1>d, <1>g, <2>1 DEF LockOwn, Acquire, Free, LockGranted,
           MountInv, Listed, Refuses, RootBusy, AliasInv
  <2>10. NoOtherLock(t)'
        BY <1>4, <1>a, <1>b, <1>d, <1>h, <2>1 DEF LockOwn, Acquire, Free, LockGranted,
           NoOtherLock, MayHold, DirLock, UpLock, LockInv
  <2> QED BY <2>1, <2>2, <2>3, <2>4, <2>5, <2>6, <2>7, <2>8, <2>9, <2>10 DEF SelfInv
<1>5. CASE VnLockDone(t)
  <2>1. pc'[t] \in {"inact", "locked", "um_flush"} BY <1>5, <1>a DEF VnLockDone
  <2>2. UpInv(t)' /\ DirInv(t)' /\ TgtInv(t)' /\ LowInv(t)'
        BY <1>5, <1>a, <1>b, <2>1 DEF VnLockDone
  <2>3. LdvpInv(t)' /\ CallInv(t)' /\ WhyInv(t)' /\ ModeInv(t)'
        BY <1>5, <1>a, <1>b, <2>1 DEF VnLockDone
  <2>4. CreateLocks(t)' /\ LookupLocks(t)' /\ ReclaimLocks(t)' /\ SleepInv(t)' /\
        LowerAlive(t)' /\ ProtoInv(t)'
        BY <2>1 DEF ProtoInv
  <2>5. VnodeLocks(t)'
        BY <1>5, <1>a, <1>b, <1>d, <1>f, <2>1 DEF VnLockDone, ProtoInv, RefInv
  <2>6. TwoLocks(t)'
        BY <1>5, <1>a, <1>b, <1>d, <1>f, <2>1 DEF VnLockDone, ProtoInv, RefInv
  <2>7. MountInv(t)'
        BY <1>5, <1>a, <1>b, <1>d, <1>g, <2>1 DEF VnLockDone, MountInv, Listed, Refuses,
           RootBusy, AliasInv
  <2>8. NoOtherLock(t)'
        BY <1>5, <1>a, <1>b, <1>d, <1>h, <2>1 DEF VnLockDone, NoOtherLock, MayHold,
           DirLock, UpLock, LockInv
  <2> QED BY <2>1, <2>2, <2>3, <2>4, <2>5, <2>6, <2>7, <2>8 DEF SelfInv
<1>6. CASE VnLockDoomed(t)
  <2>1. pc'[t] \in {"idle", "locked", "ref", "um_pick"} BY <1>6, <1>a DEF VnLockDoomed
  <2>2. UpInv(t)' /\ DirInv(t)' /\ TgtInv(t)' /\ LowInv(t)'
        BY <1>6, <1>a, <1>b, <2>1 DEF VnLockDoomed
  <2>3. LdvpInv(t)' /\ CallInv(t)' /\ WhyInv(t)' /\ ModeInv(t)'
        BY <1>6, <1>a, <1>b, <2>1 DEF VnLockDoomed
  <2>4. CreateLocks(t)' /\ LookupLocks(t)' /\ ReclaimLocks(t)' /\ SleepInv(t)' /\
        TwoLocks(t)' /\ LowerAlive(t)' /\ ProtoInv(t)'
        BY <2>1 DEF ProtoInv
  <2>5. VnodeLocks(t)'
        BY <1>6, <1>a, <1>b, <1>d, <1>f, <2>1 DEF VnLockDoomed, Release, Vdrop, ProtoInv,
           RefInv
  <2>6. MountInv(t)'
        BY <1>6, <1>a, <1>b, <1>d, <1>g, <2>1 DEF VnLockDoomed, Release, Vdrop, MountInv,
           Listed, Refuses, RootBusy, AliasInv
  <2>7. NoOtherLock(t)'
        BY <1>6, <1>a, <1>b, <1>d, <1>h, <2>1 DEF VnLockDoomed, Release, Vdrop,
           NoOtherLock, MayHold, DirLock, UpLock, LockInv
  <2> QED BY <2>1, <2>2, <2>3, <2>4, <2>5, <2>6, <2>7 DEF SelfInv
<1> QED BY <1>1, <1>2, <1>3, <1>4, <1>5, <1>6 DEF VnLock

(* What the thread relies on after a step of Put.                           *)
LEMMA PutSelf ==
    ASSUME NodeInv, TypeOK', NEW t \in Threads, Put(t)
    PROVE  SelfInv(t)'
<1> USE NodeConstants
<1>a. TypeOK /\ LockInv /\ AliasInv /\ LowerInv BY DEF NodeInv
<1>b. Locals(t) BY DEF NodeInv
<1>d. Locking(t) BY DEF NodeInv
<1>f. \A s \in Threads : ProtoInv(s) /\ RefInv(s) BY DEF NodeInv
<1>g. \A s \in Threads : MountInv(s) BY DEF NodeInv
<1>h. NoOtherLock(t) BY DEF NodeInv
<1>i. \A x \in {up[t], dir[t]} \ {Null} : Known(x) BY KnownAlias
<1>j. ~MakesProto(t) /\ pc[t] \notin LockLabels /\ tgt[t] # Null => Known(tgt[t])
      BY KnownAlias
<1> USE DEF LockLabels, NodegetLabels, ProtoLabels, ReclaimLabels, PutLabels,
       CreateLabels, LookupLabels, VnLockLabels, Go, Rest, lowerVars, lockVars, mountVars,
       argVars, TypeOK, ThreadOK, LocalsOK, AliasOK, LockOK, InLookup, Flushes,
       MakesProto, Owns, Holds, Vnlock, Vnodes, Locals, UpInv, DirInv, TgtInv, LowInv,
       LdvpInv, CallInv, WhyInv, ModeInv, Locking, CreateLocks, LookupLocks, VnodeLocks,
       ReclaimLocks, SleepInv, TwoLocks, LowerAlive
<1>1. CASE VputDir(t)
  <2>1. pc'[t] \in {"idle", "locked", "panic", "ref", "vf_put"}
        BY <1>1, <1>a DEF VputDir, Vput
  <2>2. UpInv(t)' /\ DirInv(t)' /\ TgtInv(t)' /\ LowInv(t)'
        BY <1>1, <1>a, <1>b, <2>1 DEF VputDir, Vput
  <2>3. LdvpInv(t)' /\ CallInv(t)' /\ WhyInv(t)' /\ ModeInv(t)'
        BY <1>1, <1>a, <1>b, <2>1 DEF VputDir, Vput
  <2>4. CreateLocks(t)' /\ LookupLocks(t)' /\ ReclaimLocks(t)' /\ SleepInv(t)' /\
        LowerAlive(t)' /\ ProtoInv(t)' /\ MountInv(t)'
        BY <2>1 DEF ProtoInv, MountInv
  <2>5. VnodeLocks(t)'
        BY <1>1, <1>a, <1>b, <1>d, <1>f, <2>1 DEF VputDir, Vput, Release, PutUse,
           ProtoInv, RefInv
  <2>6. TwoLocks(t)'
        BY <1>1, <1>a, <1>b, <1>d, <1>f, <2>1 DEF VputDir, Vput, Release, PutUse,
           ProtoInv, RefInv
  <2>7. NoOtherLock(t)'
        BY <1>1, <1>a, <1>b, <1>d, <1>h, <2>1 DEF VputDir, Vput, Release, PutUse,
           NoOtherLock, MayHold, DirLock, UpLock, LockInv
  <2> QED BY <2>1, <2>2, <2>3, <2>4, <2>5, <2>6, <2>7 DEF SelfInv
<1>2. CASE VreleDir(t)
  <2>1. pc'[t] = "locked" BY <1>2, <1>a DEF VreleDir
  <2>2. UpInv(t)' /\ DirInv(t)' /\ TgtInv(t)' /\ LowInv(t)'
        BY <1>2, <1>a, <1>b, <2>1 DEF VreleDir
  <2>3. LdvpInv(t)' /\ CallInv(t)' /\ WhyInv(t)' /\ ModeInv(t)'
        BY <1>2, <1>a, <1>b, <2>1 DEF VreleDir
  <2>4. CreateLocks(t)' /\ LookupLocks(t)' /\ ReclaimLocks(t)' /\ SleepInv(t)' /\
        TwoLocks(t)' /\ LowerAlive(t)' /\ ProtoInv(t)' /\ MountInv(t)'
        BY <2>1 DEF ProtoInv, MountInv
  <2>5. VnodeLocks(t)'
        BY <1>2, <1>a, <1>b, <1>d, <1>f, <2>1 DEF VreleDir, PutUse, ProtoInv, RefInv
  <2>6. NoOtherLock(t)'
        BY <1>2, <1>a, <1>b, <1>d, <1>h, <2>1 DEF VreleDir, PutUse, NoOtherLock, MayHold,
           DirLock, UpLock, LockInv
  <2> QED BY <2>1, <2>2, <2>3, <2>4, <2>5, <2>6 DEF SelfInv
<1>3. CASE VputFinal(t)
  <2>1. pc'[t] \in {"idle", "inact", "locked", "ref"} BY <1>3, <1>a DEF VputFinal
  <2>2. UpInv(t)' /\ DirInv(t)' /\ TgtInv(t)' /\ LowInv(t)'
        BY <1>3, <1>a, <1>b, <2>1 DEF VputFinal
  <2>3. LdvpInv(t)' /\ CallInv(t)' /\ WhyInv(t)' /\ ModeInv(t)'
        BY <1>3, <1>a, <1>b, <2>1 DEF VputFinal
  <2>4. CreateLocks(t)' /\ LookupLocks(t)' /\ ReclaimLocks(t)' /\ SleepInv(t)' /\
        LowerAlive(t)' /\ ProtoInv(t)' /\ MountInv(t)'
        BY <2>1 DEF ProtoInv, MountInv
  <2>5. VnodeLocks(t)'
    <3>1. up[t] # Null => up[t] \in Upper /\ Vnlock(up[t]) \in Vnodes BY <1>a
    <3>2. tgt[t] \in Upper /\ Vnlock(tgt[t]) \in Vnodes BY <1>3, <1>a DEF VputFinal
    <3>3. call[t] = "lookup" /\ up[t] # Null => Holds(t, Vnlock(up[t])) /\ Vnlock(up[t]) # Vnlock(tgt[t])
          BY <1>3, <1>a, <1>d, <3>1, <3>2 DEF VputFinal
    <3>4. \A k \in Vnodes \ {Vnlock(tgt[t])} : Holds(t, k) => Holds(t, k)'
          BY <1>3, <1>a, <3>2 DEF VputFinal, Release, Upgrade
    <3>5. up' = up /\ data' = data /\ call' = call BY <1>3 DEF VputFinal
    <3>6. pc'[t] = "locked" => call[t] = "lookup" /\ up[t] # Null
          BY <1>3, <1>a, <1>b, <2>1 DEF VputFinal
    <3>7. pc'[t] = "inact" => tgt'[t] = tgt[t] /\ ex'[Vnlock(tgt[t])] = t /\ ~udoomed'[tgt[t]]
          BY <1>3, <1>a, <3>2 DEF VputFinal, NoInactive, Upgrade, Release
    <3> QED BY <2>1, <3>1, <3>2, <3>3, <3>4, <3>5, <3>6, <3>7
  <2>6. TwoLocks(t)'
        BY <1>3, <1>a, <1>b, <1>d, <1>f, <2>1 DEF VputFinal, Release, Upgrade, Vdrop,
           Defer, NoInactive, WantRecycle, NullmFlags, ProtoInv, RefInv
  <2>7. NoOtherLock(t)'
        BY <1>3, <1>a, <1>b, <1>d, <1>h, <2>1 DEF VputFinal, Release, Upgrade, Vdrop,
           Defer, NoInactive, WantRecycle, NullmFlags, NoOtherLock, MayHold, DirLock,
           UpLock, LockInv
  <2> QED BY <2>1, <2>2, <2>3, <2>4, <2>5, <2>6, <2>7 DEF SelfInv
<1>4. CASE VreleFinal(t)
  <2>1. pc'[t] \in {"idle", "lk_start"} BY <1>4, <1>a DEF VreleFinal
  <2>2. UpInv(t)' /\ DirInv(t)' /\ TgtInv(t)' /\ LowInv(t)'
        BY <1>4, <1>a, <1>b, <2>1 DEF VreleFinal
  <2>3. LdvpInv(t)' /\ CallInv(t)' /\ WhyInv(t)' /\ ModeInv(t)'
        BY <1>4, <1>a, <1>b, <2>1 DEF VreleFinal
  <2>4. CreateLocks(t)' /\ LookupLocks(t)' /\ VnodeLocks(t)' /\ ReclaimLocks(t)' /\
        TwoLocks(t)' /\ LowerAlive(t)' /\ ProtoInv(t)'
        BY <2>1 DEF ProtoInv
  <2>5. SleepInv(t)'
        BY <1>4, <1>a, <1>b, <1>d, <1>f, <2>1 DEF VreleFinal, Vdrop, Defer, NoInactive,
           WantRecycle, NullmFlags, ProtoInv, RefInv
  <2>6. MountInv(t)'
        BY <1>4, <1>a, <1>b, <1>d, <1>g, <2>1 DEF VreleFinal, Vdrop, Defer, NoInactive,
           WantRecycle, NullmFlags, MountInv, Listed, Refuses, RootBusy, AliasInv
  <2>7. NoOtherLock(t)'
        BY <1>4, <1>a, <1>b, <1>d, <1>h, <2>1 DEF VreleFinal, Vdrop, Defer, NoInactive,
           WantRecycle, NullmFlags, NoOtherLock, MayHold, DirLock, UpLock, LockInv
  <2> QED BY <2>1, <2>2, <2>3, <2>4, <2>5, <2>6, <2>7 DEF SelfInv
<1>5. CASE Inactive(t)
  <2>1. pc'[t] \in {"idle", "locked", "rc_hash", "ref"} BY <1>5, <1>a DEF Inactive, Doom
  <2>2. UpInv(t)' /\ DirInv(t)' /\ TgtInv(t)' /\ LowInv(t)'
        BY <1>5, <1>a, <1>b, <2>1, <1>d, <1>j DEF Inactive, Doom, Known
  <2>3. LdvpInv(t)' /\ CallInv(t)' /\ WhyInv(t)' /\ ModeInv(t)'
        BY <1>5, <1>a, <1>b, <2>1 DEF Inactive, Doom
  <2>4. CreateLocks(t)' /\ LookupLocks(t)' /\ SleepInv(t)' /\ LowerAlive(t)' /\
        ProtoInv(t)'
        BY <2>1 DEF ProtoInv
  <2>5. VnodeLocks(t)'
        BY <1>5, <1>a, <1>b, <1>d, <1>f, <2>1, <1>j DEF Inactive, Release, Vdrop,
           WantRecycle, NullmFlags, Doom, ProtoInv, RefInv, Known
  <2>6. ReclaimLocks(t)'
        BY <1>5, <1>a, <1>b, <1>d, <1>f, <2>1, <1>j DEF Inactive, Release, Vdrop,
           WantRecycle, NullmFlags, Doom, ProtoInv, RefInv, Known
  <2>7. TwoLocks(t)'
        BY <1>5, <1>a, <1>b, <1>d, <1>f, <2>1 DEF Inactive, Release, Vdrop, WantRecycle,
           NullmFlags, Doom, ProtoInv, RefInv
  <2>8. MountInv(t)'
        BY <1>5, <1>a, <1>b, <1>d, <1>g, <2>1 DEF Inactive, Release, Vdrop, WantRecycle,
           NullmFlags, Doom, MountInv, Listed, Refuses, RootBusy, AliasInv
  <2>9. NoOtherLock(t)'
        BY <1>5, <1>a, <1>b, <1>d, <1>h, <2>1, <1>j DEF Inactive, Release, Vdrop,
           WantRecycle, NullmFlags, Doom, NoOtherLock, MayHold, DirLock, UpLock, LockInv,
           Known
  <2> QED BY <2>1, <2>2, <2>3, <2>4, <2>5, <2>6, <2>7, <2>8, <2>9 DEF SelfInv
<1> QED BY <1>1, <1>2, <1>3, <1>4, <1>5 DEF Put

(* What the thread relies on after a step of Reclaim.                       *)
LEMMA ReclaimSelf ==
    ASSUME NodeInv, TypeOK', NEW t \in Threads, Reclaim(t)
    PROVE  SelfInv(t)'
<1> USE NodeConstants
<1>a. TypeOK /\ LockInv /\ AliasInv /\ LowerInv BY DEF NodeInv
<1>b. Locals(t) BY DEF NodeInv
<1>d. Locking(t) BY DEF NodeInv
<1>f. \A s \in Threads : ProtoInv(s) /\ RefInv(s) BY DEF NodeInv
<1>g. \A s \in Threads : MountInv(s) BY DEF NodeInv
<1>h. NoOtherLock(t) BY DEF NodeInv
<1>i. \A x \in {up[t], dir[t]} \ {Null} : Known(x) BY KnownAlias
<1>j. ~MakesProto(t) /\ pc[t] \notin LockLabels /\ tgt[t] # Null => Known(tgt[t])
      BY KnownAlias
<1> USE DEF LockLabels, NodegetLabels, ProtoLabels, ReclaimLabels, PutLabels,
       CreateLabels, LookupLabels, VnLockLabels, Go, Rest, lowerVars, aliasVars, lockVars,
       mountVars, argVars, TypeOK, ThreadOK, LocalsOK, AliasOK, LockOK, InLookup, Flushes,
       MakesProto, Owns, Holds, Vnlock, Vnodes, Locals, UpInv, DirInv, TgtInv, LowInv,
       LdvpInv, CallInv, WhyInv, ModeInv, Locking, CreateLocks, LookupLocks, VnodeLocks,
       ReclaimLocks, SleepInv, TwoLocks, LowerAlive
<1>1. CASE ReclaimHashrem(t)
  <2>1. pc'[t] = "rc_detach" BY <1>1, <1>a DEF ReclaimHashrem
  <2>2. UpInv(t)' /\ DirInv(t)' /\ TgtInv(t)' /\ LowInv(t)'
        BY <1>1, <1>a, <1>b, <2>1 DEF ReclaimHashrem
  <2>3. LdvpInv(t)' /\ CallInv(t)' /\ WhyInv(t)' /\ ModeInv(t)'
        BY <1>1, <1>a, <1>b, <2>1 DEF ReclaimHashrem
  <2>4. CreateLocks(t)' /\ LookupLocks(t)' /\ SleepInv(t)' /\ LowerAlive(t)' /\
        ProtoInv(t)'
        BY <2>1 DEF ProtoInv
  <2>5. VnodeLocks(t)'
        BY <1>1, <1>a, <1>b, <1>d, <1>f, <2>1 DEF ReclaimHashrem, ProtoInv, RefInv
  <2>6. ReclaimLocks(t)'
        BY <1>1, <1>a, <1>b, <1>d, <1>f, <2>1 DEF ReclaimHashrem, ProtoInv, RefInv
  <2>7. TwoLocks(t)'
        BY <1>1, <1>a, <1>b, <1>d, <1>f, <2>1 DEF ReclaimHashrem, ProtoInv, RefInv
  <2>8. MountInv(t)'
        BY <1>1, <1>a, <1>b, <1>d, <1>g, <2>1 DEF ReclaimHashrem, MountInv, Listed,
           Refuses, RootBusy, AliasInv
  <2>9. NoOtherLock(t)'
        BY <1>1, <1>a, <1>b, <1>d, <1>h, <2>1 DEF ReclaimHashrem, NoOtherLock, MayHold,
           DirLock, UpLock, LockInv
  <2> QED BY <2>1, <2>2, <2>3, <2>4, <2>5, <2>6, <2>7, <2>8, <2>9 DEF SelfInv
<1>2. CASE ReclaimDetach(t)
  <2>1. pc'[t] = "rc_rele" BY <1>2, <1>a DEF ReclaimDetach
  <2>2. UpInv(t)' /\ DirInv(t)' /\ TgtInv(t)' /\ LowInv(t)'
        BY <1>2, <1>a, <1>b, <2>1 DEF ReclaimDetach
  <2>3. LdvpInv(t)' /\ CallInv(t)' /\ WhyInv(t)' /\ ModeInv(t)'
        BY <1>2, <1>a, <1>b, <2>1 DEF ReclaimDetach
  <2>4. CreateLocks(t)' /\ LookupLocks(t)' /\ SleepInv(t)' /\ LowerAlive(t)' /\
        ProtoInv(t)'
        BY <2>1 DEF ProtoInv
  <2>5. VnodeLocks(t)'
        BY <1>2, <1>a, <1>b, <1>d, <1>f, <2>1 DEF ReclaimDetach, Acquire, Free, ProtoInv,
           RefInv
  <2>6. ReclaimLocks(t)'
        BY <1>2, <1>a, <1>b, <1>d, <1>f, <2>1 DEF ReclaimDetach, Acquire, Free, ProtoInv,
           RefInv
  <2>7. TwoLocks(t)'
        BY <1>2, <1>a, <1>b, <1>d, <1>f, <2>1 DEF ReclaimDetach, Acquire, Free, ProtoInv,
           RefInv
  <2>8. MountInv(t)'
        BY <1>2, <1>a, <1>b, <1>d, <1>g, <2>1 DEF ReclaimDetach, Acquire, Free, MountInv,
           Listed, Refuses, RootBusy, AliasInv
  <2>9. NoOtherLock(t)'
        BY <1>2, <1>a, <1>b, <1>d, <1>h, <2>1 DEF ReclaimDetach, Acquire, Free,
           NoOtherLock, MayHold, DirLock, UpLock, LockInv
  <2> QED BY <2>1, <2>2, <2>3, <2>4, <2>5, <2>6, <2>7, <2>8, <2>9 DEF SelfInv
<1>3. CASE ReclaimRele(t)
  <2>1. pc'[t] = "rc_fin" BY <1>3, <1>a DEF ReclaimRele
  <2>2. UpInv(t)' /\ DirInv(t)' /\ TgtInv(t)' /\ LowInv(t)'
        BY <1>3, <1>a, <1>b, <2>1 DEF ReclaimRele
  <2>3. LdvpInv(t)' /\ CallInv(t)' /\ WhyInv(t)' /\ ModeInv(t)'
        BY <1>3, <1>a, <1>b, <2>1 DEF ReclaimRele
  <2>4. CreateLocks(t)' /\ LookupLocks(t)' /\ SleepInv(t)' /\ LowerAlive(t)' /\
        ProtoInv(t)'
        BY <2>1 DEF ProtoInv
  <2>5. VnodeLocks(t)'
        BY <1>3, <1>a, <1>b, <1>d, <1>f, <2>1 DEF ReclaimRele, Release, LowerRele,
           ProtoInv, RefInv
  <2>6. ReclaimLocks(t)'
        BY <1>3, <1>a, <1>b, <1>d, <1>f, <2>1 DEF ReclaimRele, Release, LowerRele,
           ProtoInv, RefInv
  <2>7. TwoLocks(t)'
        BY <1>3, <1>a, <1>b, <1>d, <1>f, <2>1 DEF ReclaimRele, Release, LowerRele,
           ProtoInv, RefInv
  <2>8. MountInv(t)'
        BY <1>3, <1>a, <1>b, <1>d, <1>g, <2>1 DEF ReclaimRele, Release, LowerRele,
           MountInv, Listed, Refuses, RootBusy, AliasInv
  <2>9. NoOtherLock(t)'
        BY <1>3, <1>a, <1>b, <1>d, <1>h, <2>1 DEF ReclaimRele, Release, LowerRele,
           NoOtherLock, MayHold, DirLock, UpLock, LockInv
  <2> QED BY <2>1, <2>2, <2>3, <2>4, <2>5, <2>6, <2>7, <2>8, <2>9 DEF SelfInv
<1>4. CASE ReclaimFin(t)
  <2>1. pc'[t] \in {"idle", "locked", "ref", "um_pick"} BY <1>4, <1>a DEF ReclaimFin
  <2>2. UpInv(t)' /\ DirInv(t)' /\ TgtInv(t)' /\ LowInv(t)'
        BY <1>4, <1>a, <1>b, <2>1 DEF ReclaimFin
  <2>3. LdvpInv(t)' /\ CallInv(t)' /\ WhyInv(t)' /\ ModeInv(t)'
        BY <1>4, <1>a, <1>b, <2>1 DEF ReclaimFin
  <2>4. CreateLocks(t)' /\ LookupLocks(t)' /\ ReclaimLocks(t)' /\ SleepInv(t)' /\
        TwoLocks(t)' /\ LowerAlive(t)' /\ ProtoInv(t)'
        BY <2>1 DEF ProtoInv
  <2>5. VnodeLocks(t)'
        BY <1>4, <1>a, <1>b, <1>d, <1>f, <2>1 DEF ReclaimFin, Release, Vdrop, ProtoInv,
           RefInv
  <2>6. MountInv(t)'
        BY <1>4, <1>a, <1>b, <1>d, <1>g, <2>1 DEF ReclaimFin, Release, Vdrop, MountInv,
           Listed, Refuses, RootBusy, AliasInv
  <2>7. NoOtherLock(t)'
        BY <1>4, <1>a, <1>b, <1>d, <1>h, <2>1 DEF ReclaimFin, Release, Vdrop, NoOtherLock,
           MayHold, DirLock, UpLock, LockInv
  <2> QED BY <2>1, <2>2, <2>3, <2>4, <2>5, <2>6, <2>7 DEF SelfInv
<1> QED BY <1>1, <1>2, <1>3, <1>4 DEF Reclaim

(* What the thread relies on after a step of Unmount.                       *)
LEMMA UnmountSelf ==
    ASSUME NodeInv, TypeOK', NEW t \in Threads, Unmount(t)
    PROVE  SelfInv(t)'
<1> USE NodeConstants
<1>a. TypeOK /\ LockInv /\ AliasInv /\ LowerInv BY DEF NodeInv
<1>b. Locals(t) BY DEF NodeInv
<1>d. Locking(t) BY DEF NodeInv
<1>f. \A s \in Threads : ProtoInv(s) /\ RefInv(s) BY DEF NodeInv
<1>g. \A s \in Threads : MountInv(s) BY DEF NodeInv
<1>h. NoOtherLock(t) BY DEF NodeInv
<1>i. \A x \in {up[t], dir[t]} \ {Null} : Known(x) BY KnownAlias
<1>j. ~MakesProto(t) /\ pc[t] \notin LockLabels /\ tgt[t] # Null => Known(tgt[t])
      BY KnownAlias
<1> USE DEF LockLabels, NodegetLabels, ProtoLabels, ReclaimLabels, PutLabels,
       CreateLabels, LookupLabels, VnLockLabels, Go, lowerVars, aliasVars, lockVars,
       mountVars, argVars, TypeOK, ThreadOK, LocalsOK, AliasOK, LockOK, InLookup, Flushes,
       MakesProto, Owns, Holds, Vnlock, Vnodes, Locals, UpInv, DirInv, TgtInv, LowInv,
       LdvpInv, CallInv, WhyInv, ModeInv, Locking, CreateLocks, LookupLocks, VnodeLocks,
       ReclaimLocks, SleepInv, TwoLocks, LowerAlive
<1>1. ASSUME NEW u \in Upper, FlushPick(t, u) PROVE SelfInv(t)'
  <2>1. pc'[t] = "lk_start" BY <1>1, <1>a DEF FlushPick
  <2>2. UpInv(t)' /\ DirInv(t)' /\ TgtInv(t)' /\ LowInv(t)'
        BY <1>1, <1>a, <1>b, <2>1 DEF FlushPick, Pending, Listed
  <2>3. LdvpInv(t)' /\ CallInv(t)' /\ WhyInv(t)' /\ ModeInv(t)'
        BY <1>1, <1>a, <1>b, <2>1 DEF FlushPick, Pending, Listed
  <2>4. CreateLocks(t)' /\ LookupLocks(t)' /\ VnodeLocks(t)' /\ ReclaimLocks(t)' /\
        TwoLocks(t)' /\ LowerAlive(t)' /\ ProtoInv(t)'
        BY <2>1 DEF ProtoInv
  <2>5. SleepInv(t)'
        BY <1>1, <1>a, <1>b, <1>d, <1>f, <2>1 DEF FlushPick, Pending, Listed, ProtoInv,
           RefInv
  <2>6. MountInv(t)'
        BY <1>1, <1>a, <1>b, <1>d, <1>g, <2>1 DEF FlushPick, Pending, Listed, MountInv,
           Refuses, RootBusy, AliasInv
  <2>7. NoOtherLock(t)'
        BY <1>1, <1>a, <1>b, <1>d, <1>h, <2>1 DEF FlushPick, Pending, Listed, NoOtherLock,
           MayHold, DirLock, UpLock, LockInv
  <2> QED BY <2>1, <2>2, <2>3, <2>4, <2>5, <2>6, <2>7 DEF SelfInv
<1>2. CASE FlushVnode(t)
  <2>1. pc'[t] \in {"rc_hash", "um_pick"} BY <1>2, <1>a DEF FlushVnode, Doom
  <2>2. UpInv(t)' /\ DirInv(t)' /\ TgtInv(t)' /\ LowInv(t)'
        BY <1>2, <1>a, <1>b, <2>1, <1>d, <1>j DEF FlushVnode, Doom, Known
  <2>3. LdvpInv(t)' /\ CallInv(t)' /\ WhyInv(t)' /\ ModeInv(t)'
        BY <1>2, <1>a, <1>b, <2>1 DEF FlushVnode, Doom
  <2>4. CreateLocks(t)' /\ LookupLocks(t)' /\ SleepInv(t)' /\ LowerAlive(t)' /\
        ProtoInv(t)'
        BY <2>1 DEF ProtoInv
  <2>5. VnodeLocks(t)'
        BY <1>2, <1>a, <1>b, <1>d, <1>f, <2>1, <1>j DEF FlushVnode, Release, Vdrop, Doom,
           ProtoInv, RefInv, Known
  <2>6. ReclaimLocks(t)'
        BY <1>2, <1>a, <1>b, <1>d, <1>f, <2>1, <1>j DEF FlushVnode, Release, Vdrop, Doom,
           ProtoInv, RefInv, Known
  <2>7. TwoLocks(t)'
        BY <1>2, <1>a, <1>b, <1>d, <1>f, <2>1 DEF FlushVnode, Release, Vdrop, Doom,
           ProtoInv, RefInv
  <2>8. MountInv(t)'
        BY <1>2, <1>a, <1>b, <1>d, <1>g, <2>1 DEF FlushVnode, Release, Vdrop, Doom,
           MountInv, Listed, Refuses, RootBusy, AliasInv
  <2>9. NoOtherLock(t)'
    <3>1. tgt[t] \in Upper /\ Vnlock(tgt[t]) = data[tgt[t]] /\ data[tgt[t]] \in Vnodes /\
          up[t] = Null /\ up'[t] = Null
          BY <1>2, <1>a, <1>b, <1>d, <1>j DEF FlushVnode, Known
    <3>2. \A k \in Vnodes : Holds(t, k) => k = data[tgt[t]]
          BY <1>2, <1>h, <3>1 DEF FlushVnode, NoOtherLock, MayHold
    <3>3. CASE pc'[t] = "rc_hash"
          BY <1>2, <1>a, <3>1, <3>2, <3>3 DEF FlushVnode, Doom, NoOtherLock, MayHold
    <3>4. CASE pc'[t] = "um_pick"
      <4>1. Release(t, data[tgt[t]]) BY <1>2, <3>1, <3>4 DEF FlushVnode, Doom
      <4>2. \A k \in Vnodes : ~Holds(t, k)' BY <1>a, <3>1, <3>2, <4>1 DEF Release, LockInv
      <4> QED BY <4>2 DEF NoOtherLock
    <3> QED BY <2>1, <3>3, <3>4
  <2> QED
      BY <2>1, <2>2, <2>3, <2>4, <2>5, <2>6, <2>7, <2>8, <2>9 DEF SelfInv
<1>3. CASE FlushAgain(t)
  <2>1. pc'[t] = "um_pick" BY <1>3, <1>a DEF FlushAgain
  <2>2. UpInv(t)' /\ DirInv(t)' /\ TgtInv(t)' /\ LowInv(t)'
        BY <1>3, <1>a, <1>b, <2>1 DEF FlushAgain, Listed, Pending
  <2>3. LdvpInv(t)' /\ CallInv(t)' /\ WhyInv(t)' /\ ModeInv(t)'
        BY <1>3, <1>a, <1>b, <2>1 DEF FlushAgain, Listed, Pending
  <2>4. CreateLocks(t)' /\ LookupLocks(t)' /\ VnodeLocks(t)' /\ ReclaimLocks(t)' /\
        SleepInv(t)' /\ TwoLocks(t)' /\ LowerAlive(t)' /\ ProtoInv(t)'
        BY <2>1 DEF ProtoInv
  <2>5. MountInv(t)'
        BY <1>3, <1>a, <1>b, <1>d, <1>g, <2>1 DEF FlushAgain, Listed, Pending, MountInv,
           Refuses, RootBusy, AliasInv
  <2>6. NoOtherLock(t)'
        BY <1>3, <1>a, <1>b, <1>d, <1>h, <2>1 DEF FlushAgain, Listed, Pending,
           NoOtherLock, MayHold, DirLock, UpLock, LockInv
  <2> QED BY <2>1, <2>2, <2>3, <2>4, <2>5, <2>6 DEF SelfInv
<1>4. CASE UnmountBusy(t)
  <2>1. pc'[t] = "idle" BY <1>4, <1>a DEF UnmountBusy
  <2>2. UpInv(t)' /\ DirInv(t)' /\ TgtInv(t)' /\ LowInv(t)'
        BY <1>4, <1>a, <1>b, <2>1 DEF UnmountBusy, Listed, Pending
  <2>3. LdvpInv(t)' /\ CallInv(t)' /\ WhyInv(t)' /\ ModeInv(t)'
        BY <1>4, <1>a, <1>b, <2>1 DEF UnmountBusy, Listed, Pending
  <2>4. CreateLocks(t)' /\ LookupLocks(t)' /\ VnodeLocks(t)' /\ ReclaimLocks(t)' /\
        SleepInv(t)' /\ TwoLocks(t)' /\ LowerAlive(t)' /\ ProtoInv(t)' /\ MountInv(t)'
        BY <2>1 DEF ProtoInv, MountInv
  <2>5. NoOtherLock(t)'
        BY <1>4, <1>a, <1>b, <1>d, <1>h, <2>1 DEF UnmountBusy, Listed, Pending,
           NoOtherLock, MayHold, DirLock, UpLock, LockInv
  <2> QED BY <2>1, <2>2, <2>3, <2>4, <2>5 DEF SelfInv
<1>5. CASE UnmountEmpty(t)
  <2>1. pc'[t] = "um_fin" BY <1>5, <1>a DEF UnmountEmpty
  <2>2. UpInv(t)' /\ DirInv(t)' /\ TgtInv(t)' /\ LowInv(t)'
        BY <1>5, <1>a, <1>b, <2>1 DEF UnmountEmpty, Listed
  <2>3. LdvpInv(t)' /\ CallInv(t)' /\ WhyInv(t)' /\ ModeInv(t)'
        BY <1>5, <1>a, <1>b, <2>1 DEF UnmountEmpty, Listed
  <2>4. CreateLocks(t)' /\ LookupLocks(t)' /\ VnodeLocks(t)' /\ ReclaimLocks(t)' /\
        SleepInv(t)' /\ TwoLocks(t)' /\ LowerAlive(t)' /\ ProtoInv(t)'
        BY <2>1 DEF ProtoInv
  <2>5. MountInv(t)'
        BY <1>5, <1>a, <1>b, <1>d, <1>g, <2>1 DEF UnmountEmpty, Listed, MountInv, Refuses,
           RootBusy, AliasInv
  <2>6. NoOtherLock(t)'
        BY <1>5, <1>a, <1>b, <1>d, <1>h, <2>1 DEF UnmountEmpty, Listed, NoOtherLock,
           MayHold, DirLock, UpLock, LockInv
  <2> QED BY <2>1, <2>2, <2>3, <2>4, <2>5, <2>6 DEF SelfInv
<1>6. CASE UnmountFin(t)
  <2>1. pc'[t] = "idle" BY <1>6, <1>a DEF UnmountFin
  <2>2. UpInv(t)' /\ DirInv(t)' /\ TgtInv(t)' /\ LowInv(t)'
        BY <1>6, <1>a, <1>b, <2>1 DEF UnmountFin
  <2>3. LdvpInv(t)' /\ CallInv(t)' /\ WhyInv(t)' /\ ModeInv(t)'
        BY <1>6, <1>a, <1>b, <2>1 DEF UnmountFin
  <2>4. CreateLocks(t)' /\ LookupLocks(t)' /\ VnodeLocks(t)' /\ ReclaimLocks(t)' /\
        SleepInv(t)' /\ TwoLocks(t)' /\ LowerAlive(t)' /\ ProtoInv(t)' /\ MountInv(t)'
        BY <2>1 DEF ProtoInv, MountInv
  <2>5. NoOtherLock(t)'
        BY <1>6, <1>a, <1>b, <1>d, <1>h, <2>1 DEF UnmountFin, LowerRele, NoOtherLock,
           MayHold, DirLock, UpLock, LockInv
  <2> QED BY <2>1, <2>2, <2>3, <2>4, <2>5 DEF SelfInv
<1> QED BY <1>1, <1>2, <1>3, <1>4, <1>5, <1>6 DEF Unmount

(* What the thread relies on after a step of LookupSteps.                   *)
LEMMA LookupStepsSelf ==
    ASSUME NodeInv, TypeOK', NEW t \in Threads, LookupSteps(t)
    PROVE  SelfInv(t)'
<1> USE NodeConstants
<1>a. TypeOK /\ LockInv /\ AliasInv /\ LowerInv BY DEF NodeInv
<1>b. Locals(t) BY DEF NodeInv
<1>d. Locking(t) BY DEF NodeInv
<1>f. \A s \in Threads : ProtoInv(s) /\ RefInv(s) BY DEF NodeInv
<1>g. \A s \in Threads : MountInv(s) BY DEF NodeInv
<1>h. NoOtherLock(t) BY DEF NodeInv
<1>i. \A x \in {up[t], dir[t]} \ {Null} : Known(x) BY KnownAlias
<1>j. ~MakesProto(t) /\ pc[t] \notin LockLabels /\ tgt[t] # Null => Known(tgt[t])
      BY KnownAlias
<1> USE DEF LockLabels, NodegetLabels, ProtoLabels, ReclaimLabels, PutLabels,
       CreateLabels, LookupLabels, VnLockLabels, Go, Rest, lowerVars, aliasVars, lockVars,
       mountVars, argVars, TypeOK, ThreadOK, LocalsOK, AliasOK, LockOK, InLookup, Flushes,
       MakesProto, Owns, Holds, Vnlock, Vnodes, Locals, UpInv, DirInv, TgtInv, LowInv,
       LdvpInv, CallInv, WhyInv, ModeInv, Locking, CreateLocks, LookupLocks, VnodeLocks,
       ReclaimLocks, SleepInv, TwoLocks, LowerAlive
<1>1. CASE LowerLock(t)
  <2>1. pc'[t] \in {"dd_relock", "lu_check", "lu_lock"} BY <1>1, <1>a DEF LowerLock
  <2>2. UpInv(t)' /\ DirInv(t)' /\ TgtInv(t)' /\ LowInv(t)'
        BY <1>1, <1>a, <1>b, <2>1 DEF LowerLock
  <2>3. LdvpInv(t)' /\ CallInv(t)' /\ WhyInv(t)' /\ ModeInv(t)'
        BY <1>1, <1>a, <1>b, <2>1 DEF LowerLock
  <2>4. CreateLocks(t)' /\ VnodeLocks(t)' /\ ReclaimLocks(t)' /\ TwoLocks(t)' /\
        ProtoInv(t)'
        BY <2>1 DEF ProtoInv
  <2>5. LookupLocks(t)'
        BY <1>1, <1>a, <1>b, <1>d, <1>f, <2>1 DEF LowerLock, Acquire, Free, ProtoInv,
           RefInv
  <2>6. SleepInv(t)'
        BY <1>1, <1>a, <1>b, <1>d, <1>f, <2>1 DEF LowerLock, Acquire, Free, ProtoInv,
           RefInv
  <2>7. LowerAlive(t)'
        BY <1>1, <1>a, <1>b, <1>d, <1>f, <2>1 DEF LowerLock, Acquire, Free, ProtoInv,
           RefInv
  <2>8. MountInv(t)'
        BY <1>1, <1>a, <1>b, <1>d, <1>g, <2>1 DEF LowerLock, Acquire, Free, MountInv,
           Listed, Refuses, RootBusy, AliasInv
  <2>9. NoOtherLock(t)'
        BY <1>1, <1>a, <1>b, <1>d, <1>h, <2>1 DEF LowerLock, Acquire, Free, NoOtherLock,
           MayHold, DirLock, UpLock, LockInv
  <2> QED BY <2>1, <2>2, <2>3, <2>4, <2>5, <2>6, <2>7, <2>8, <2>9 DEF SelfInv
<1>2. CASE LowerFail(t)
  <2>1. pc'[t] \in {"dd_relock", "lu_err", "lu_lock"} BY <1>2, <1>a DEF LowerFail
  <2>2. UpInv(t)' /\ DirInv(t)' /\ TgtInv(t)' /\ LowInv(t)'
        BY <1>2, <1>a, <1>b, <2>1 DEF LowerFail
  <2>3. LdvpInv(t)' /\ CallInv(t)' /\ WhyInv(t)' /\ ModeInv(t)'
        BY <1>2, <1>a, <1>b, <2>1 DEF LowerFail
  <2>4. CreateLocks(t)' /\ VnodeLocks(t)' /\ ReclaimLocks(t)' /\ TwoLocks(t)' /\
        ProtoInv(t)'
        BY <2>1 DEF ProtoInv
  <2>5. LookupLocks(t)'
        BY <1>2, <1>a, <1>b, <1>d, <1>f, <2>1 DEF LowerFail, LowerRele, ProtoInv, RefInv
  <2>6. SleepInv(t)'
        BY <1>2, <1>a, <1>b, <1>d, <1>f, <2>1 DEF LowerFail, LowerRele, ProtoInv, RefInv
  <2>7. LowerAlive(t)'
        BY <1>2, <1>a, <1>b, <1>d, <1>f, <2>1 DEF LowerFail, LowerRele, ProtoInv, RefInv
  <2>8. MountInv(t)'
        BY <1>2, <1>a, <1>b, <1>d, <1>g, <2>1 DEF LowerFail, LowerRele, MountInv, Listed,
           Refuses, RootBusy, AliasInv
  <2>9. NoOtherLock(t)'
        BY <1>2, <1>a, <1>b, <1>d, <1>h, <2>1 DEF LowerFail, LowerRele, NoOtherLock,
           MayHold, DirLock, UpLock, LockInv
  <2> QED BY <2>1, <2>2, <2>3, <2>4, <2>5, <2>6, <2>7, <2>8, <2>9 DEF SelfInv
<1>3. CASE DotDotRelock(t)
  <2>1. pc'[t] \in {"dd_put", "lu_check", "lu_err"} BY <1>3, <1>a DEF DotDotRelock
  <2>2. UpInv(t)' /\ DirInv(t)' /\ TgtInv(t)' /\ LowInv(t)'
        BY <1>3, <1>a, <1>b, <2>1 DEF DotDotRelock
  <2>3. LdvpInv(t)' /\ CallInv(t)' /\ WhyInv(t)' /\ ModeInv(t)'
        BY <1>3, <1>a, <1>b, <2>1 DEF DotDotRelock
  <2>4. CreateLocks(t)' /\ VnodeLocks(t)' /\ ReclaimLocks(t)' /\ TwoLocks(t)' /\
        ProtoInv(t)'
        BY <2>1 DEF ProtoInv
  <2>5. LookupLocks(t)'
        BY <1>3, <1>a, <1>b, <1>d, <1>f, <2>1 DEF DotDotRelock, Acquire, Free, ProtoInv,
           RefInv, LowerInv
  <2>6. SleepInv(t)'
        BY <1>3, <1>a, <1>b, <1>d, <1>f, <2>1 DEF DotDotRelock, Acquire, Free, ProtoInv,
           RefInv
  <2>7. LowerAlive(t)'
        BY <1>3, <1>a, <1>b, <1>d, <1>f, <2>1 DEF DotDotRelock, Acquire, Free, ProtoInv,
           RefInv
  <2>8. MountInv(t)'
        BY <1>3, <1>a, <1>b, <1>d, <1>g, <2>1 DEF DotDotRelock, Acquire, Free, MountInv,
           Listed, Refuses, RootBusy, AliasInv
  <2>9. NoOtherLock(t)'
        BY <1>3, <1>a, <1>b, <1>d, <1>h, <2>1 DEF DotDotRelock, Acquire, Free,
           NoOtherLock, MayHold, DirLock, UpLock, LockInv
  <2> QED BY <2>1, <2>2, <2>3, <2>4, <2>5, <2>6, <2>7, <2>8, <2>9 DEF SelfInv
<1>4. CASE DotDotPut(t)
  <2>1. pc'[t] = "lu_err" BY <1>4, <1>a DEF DotDotPut
  <2>2. UpInv(t)' /\ DirInv(t)' /\ TgtInv(t)' /\ LowInv(t)'
        BY <1>4, <1>a, <1>b, <2>1 DEF DotDotPut
  <2>3. LdvpInv(t)' /\ CallInv(t)' /\ WhyInv(t)' /\ ModeInv(t)'
        BY <1>4, <1>a, <1>b, <2>1 DEF DotDotPut
  <2>4. CreateLocks(t)' /\ VnodeLocks(t)' /\ ReclaimLocks(t)' /\ TwoLocks(t)' /\
        LowerAlive(t)' /\ ProtoInv(t)'
        BY <2>1 DEF ProtoInv
  <2>5. LookupLocks(t)'
        BY <1>4, <1>a, <1>b, <1>d, <1>f, <2>1 DEF DotDotPut, Release, LowerRele, ProtoInv,
           RefInv
  <2>6. SleepInv(t)'
        BY <1>4, <1>a, <1>b, <1>d, <1>f, <2>1 DEF DotDotPut, Release, LowerRele, ProtoInv,
           RefInv
  <2>7. MountInv(t)'
        BY <1>4, <1>a, <1>b, <1>d, <1>g, <2>1 DEF DotDotPut, Release, LowerRele, MountInv,
           Listed, Refuses, RootBusy, AliasInv
  <2>8. NoOtherLock(t)'
        BY <1>4, <1>a, <1>b, <1>d, <1>h, <2>1 DEF DotDotPut, Release, LowerRele,
           NoOtherLock, MayHold, DirLock, UpLock, LockInv
  <2> QED BY <2>1, <2>2, <2>3, <2>4, <2>5, <2>6, <2>7, <2>8 DEF SelfInv
<1>5. CASE LookupDoomed(t)
  <2>1. pc'[t] = "lu_move" BY <1>5, <1>a DEF LookupDoomed
  <2>2. UpInv(t)' /\ DirInv(t)' /\ TgtInv(t)' /\ LowInv(t)'
        BY <1>5, <1>a, <1>b, <2>1 DEF LookupDoomed
  <2>3. LdvpInv(t)' /\ CallInv(t)' /\ WhyInv(t)' /\ ModeInv(t)'
        BY <1>5, <1>a, <1>b, <2>1 DEF LookupDoomed
  <2>4. CreateLocks(t)' /\ VnodeLocks(t)' /\ ReclaimLocks(t)' /\ TwoLocks(t)' /\
        LowerAlive(t)' /\ ProtoInv(t)'
        BY <2>1 DEF ProtoInv
  <2>5. LookupLocks(t)'
        BY <1>5, <1>a, <1>b, <1>d, <1>f, <2>1 DEF LookupDoomed, Release, LowerRele,
           ProtoInv, RefInv
  <2>6. SleepInv(t)'
        BY <1>5, <1>a, <1>b, <1>d, <1>f, <2>1 DEF LookupDoomed, Release, LowerRele,
           ProtoInv, RefInv
  <2>7. MountInv(t)'
        BY <1>5, <1>a, <1>b, <1>d, <1>g, <2>1 DEF LookupDoomed, Release, LowerRele,
           MountInv, Listed, Refuses, RootBusy, AliasInv
  <2>8. NoOtherLock(t)'
        BY <1>5, <1>a, <1>b, <1>d, <1>h, <2>1 DEF LookupDoomed, Release, LowerRele,
           NoOtherLock, MayHold, DirLock, UpLock, LockInv
  <2> QED BY <2>1, <2>2, <2>3, <2>4, <2>5, <2>6, <2>7, <2>8 DEF SelfInv
<1>6. CASE LookupMove(t)
  <2>1. pc'[t] = "lk_start" BY <1>6, <1>a DEF LookupMove
  <2>2. UpInv(t)' /\ DirInv(t)' /\ TgtInv(t)' /\ LowInv(t)'
        BY <1>6, <1>a, <1>b, <2>1 DEF LookupMove
  <2>3. LdvpInv(t)' /\ CallInv(t)' /\ WhyInv(t)' /\ ModeInv(t)'
        BY <1>6, <1>a, <1>b, <2>1 DEF LookupMove
  <2>4. CreateLocks(t)' /\ LookupLocks(t)' /\ VnodeLocks(t)' /\ ReclaimLocks(t)' /\
        TwoLocks(t)' /\ LowerAlive(t)' /\ ProtoInv(t)'
        BY <2>1 DEF ProtoInv
  <2>5. SleepInv(t)'
        BY <1>6, <1>a, <1>b, <1>d, <1>f, <2>1 DEF LookupMove, Release, ProtoInv, RefInv
  <2>6. MountInv(t)'
        BY <1>6, <1>a, <1>b, <1>d, <1>g, <2>1 DEF LookupMove, Release, MountInv, Listed,
           Refuses, RootBusy, AliasInv
  <2>7. NoOtherLock(t)'
        BY <1>6, <1>a, <1>b, <1>d, <1>h, <2>1 DEF LookupMove, Release, NoOtherLock,
           MayHold, DirLock, UpLock, LockInv
  <2> QED BY <2>1, <2>2, <2>3, <2>4, <2>5, <2>6, <2>7 DEF SelfInv
<1>7. CASE LookupError(t)
  <2>1. pc'[t] = "putdir" BY <1>7, <1>a DEF LookupError
  <2>2. UpInv(t)' /\ DirInv(t)' /\ TgtInv(t)' /\ LowInv(t)'
        BY <1>7, <1>a, <1>b, <2>1 DEF LookupError
  <2>3. LdvpInv(t)' /\ CallInv(t)' /\ WhyInv(t)' /\ ModeInv(t)'
        BY <1>7, <1>a, <1>b, <2>1 DEF LookupError
  <2>4. CreateLocks(t)' /\ ReclaimLocks(t)' /\ SleepInv(t)' /\ LowerAlive(t)' /\
        ProtoInv(t)' /\ MountInv(t)'
        BY <2>1 DEF ProtoInv, MountInv
  <2>5. LookupLocks(t)'
        BY <1>7, <1>a, <1>b, <1>d, <1>f, <2>1 DEF LookupError, ProtoInv, RefInv
  <2>6. VnodeLocks(t)'
        BY <1>7, <1>a, <1>b, <1>d, <1>f, <2>1 DEF LookupError, ProtoInv, RefInv
  <2>7. TwoLocks(t)'
        BY <1>7, <1>a, <1>b, <1>d, <1>f, <2>1 DEF LookupError, ProtoInv, RefInv
  <2>8. NoOtherLock(t)'
        BY <1>7, <1>a, <1>b, <1>d, <1>h, <2>1 DEF LookupError, NoOtherLock, MayHold,
           DirLock, UpLock, LockInv
  <2> QED BY <2>1, <2>2, <2>3, <2>4, <2>5, <2>6, <2>7, <2>8 DEF SelfInv
<1>8. CASE LookupSelf(t)
  <2>1. pc'[t] \in {"idle", "locked", "putdir", "ref", "vc_ret"}
        BY <1>8, <1>a DEF LookupSelf, NodegetReturn
  <2>2. UpInv(t)' /\ DirInv(t)' /\ TgtInv(t)' /\ LowInv(t)'
        BY <1>8, <1>a, <1>b, <2>1 DEF LookupSelf, NodegetReturn
  <2>3. LdvpInv(t)' /\ CallInv(t)' /\ WhyInv(t)' /\ ModeInv(t)'
        BY <1>8, <1>a, <1>b, <2>1 DEF LookupSelf, NodegetReturn
  <2>4. CreateLocks(t)' /\ ReclaimLocks(t)' /\ SleepInv(t)' /\ LowerAlive(t)' /\
        ProtoInv(t)' /\ MountInv(t)'
        BY <2>1 DEF ProtoInv, MountInv
  <2>5. LookupLocks(t)'
        BY <1>8, <1>a, <1>b, <1>d, <1>f, <2>1, <1>i DEF LookupSelf, LowerRele,
           NodegetReturn, ProtoInv, RefInv, Known
  <2>6. VnodeLocks(t)'
        BY <1>8, <1>a, <1>b, <1>d, <1>f, <2>1, <1>i DEF LookupSelf, LowerRele,
           NodegetReturn, ProtoInv, RefInv, Known
  <2>7. TwoLocks(t)'
        BY <1>8, <1>a, <1>b, <1>d, <1>f, <2>1 DEF LookupSelf, LowerRele, NodegetReturn,
           ProtoInv, RefInv
  <2>8. NoOtherLock(t)'
        BY <1>8, <1>a, <1>b, <1>d, <1>h, <2>1, <1>i DEF LookupSelf, LowerRele,
           NodegetReturn, NoOtherLock, MayHold, DirLock, UpLock, LockInv, Known
  <2> QED BY <2>1, <2>2, <2>3, <2>4, <2>5, <2>6, <2>7, <2>8 DEF SelfInv
<1>9. CASE LookupNode(t)
  <2>1. pc'[t] = "ng_get" BY <1>9, <1>a DEF LookupNode
  <2>2. UpInv(t)' /\ DirInv(t)' /\ TgtInv(t)' /\ LowInv(t)'
        BY <1>9, <1>a, <1>b, <2>1 DEF LookupNode
  <2>3. LdvpInv(t)' /\ CallInv(t)' /\ WhyInv(t)' /\ ModeInv(t)'
        BY <1>9, <1>a, <1>b, <2>1 DEF LookupNode
  <2>4. LookupLocks(t)' /\ VnodeLocks(t)' /\ ReclaimLocks(t)' /\ SleepInv(t)' /\
        TwoLocks(t)' /\ ProtoInv(t)'
        BY <2>1 DEF ProtoInv
  <2>5. CreateLocks(t)'
        BY <1>9, <1>a, <1>b, <1>d, <1>f, <2>1, <1>i DEF LookupNode, ProtoInv, RefInv,
           Known
  <2>6. LowerAlive(t)'
        BY <1>9, <1>a, <1>b, <1>d, <1>f, <2>1 DEF LookupNode, ProtoInv, RefInv
  <2>7. MountInv(t)'
        BY <1>9, <1>a, <1>b, <1>d, <1>g, <2>1, <1>i DEF LookupNode, MountInv, Listed,
           Refuses, RootBusy, AliasInv, Known
  <2>8. NoOtherLock(t)'
        BY <1>9, <1>a, <1>b, <1>d, <1>h, <2>1, <1>i DEF LookupNode, NoOtherLock, MayHold,
           DirLock, UpLock, LockInv, Known
  <2> QED BY <2>1, <2>2, <2>3, <2>4, <2>5, <2>6, <2>7, <2>8 DEF SelfInv
<1> QED BY <1>1, <1>2, <1>3, <1>4, <1>5, <1>6, <1>7, <1>8, <1>9 DEF LookupSteps

(* What the thread relies on after a step of VptocnpSteps.                  *)
LEMMA VptocnpStepsSelf ==
    ASSUME NodeInv, TypeOK', NEW t \in Threads, VptocnpSteps(t)
    PROVE  SelfInv(t)'
<1> USE NodeConstants
<1>a. TypeOK /\ LockInv /\ AliasInv /\ LowerInv BY DEF NodeInv
<1>b. Locals(t) BY DEF NodeInv
<1>d. Locking(t) BY DEF NodeInv
<1>f. \A s \in Threads : ProtoInv(s) /\ RefInv(s) BY DEF NodeInv
<1>g. \A s \in Threads : MountInv(s) BY DEF NodeInv
<1>h. NoOtherLock(t) BY DEF NodeInv
<1>i. \A x \in {up[t], dir[t]} \ {Null} : Known(x) BY KnownAlias
<1>j. ~MakesProto(t) /\ pc[t] \notin LockLabels /\ tgt[t] # Null => Known(tgt[t])
      BY KnownAlias
<1> USE DEF LockLabels, NodegetLabels, ProtoLabels, ReclaimLabels, PutLabels,
       CreateLabels, LookupLabels, VnLockLabels, Go, lowerVars, aliasVars, lockVars,
       mountVars, argVars, TypeOK, ThreadOK, LocalsOK, AliasOK, LockOK, InLookup, Flushes,
       MakesProto, Owns, Holds, Vnlock, Vnodes, Locals, UpInv, DirInv, TgtInv, LowInv,
       LdvpInv, CallInv, WhyInv, ModeInv, Locking, CreateLocks, LookupLocks, VnodeLocks,
       ReclaimLocks, SleepInv, TwoLocks, LowerAlive
<1>1. CASE VptocnpParent(t)
  <2>1. pc'[t] = "vc_lock" BY <1>1, <1>a DEF VptocnpParent
  <2>2. UpInv(t)' /\ DirInv(t)' /\ TgtInv(t)' /\ LowInv(t)'
        BY <1>1, <1>a, <1>b, <2>1 DEF VptocnpParent
  <2>3. LdvpInv(t)' /\ CallInv(t)' /\ WhyInv(t)' /\ ModeInv(t)'
        BY <1>1, <1>a, <1>b, <2>1 DEF VptocnpParent
  <2>4. CreateLocks(t)' /\ LookupLocks(t)' /\ VnodeLocks(t)' /\ ReclaimLocks(t)' /\
        SleepInv(t)' /\ TwoLocks(t)' /\ LowerAlive(t)' /\ ProtoInv(t)'
        BY <2>1 DEF ProtoInv
  <2>5. MountInv(t)'
        BY <1>1, <1>a, <1>b, <1>d, <1>g, <2>1 DEF VptocnpParent, MountInv, Listed,
           Refuses, RootBusy, AliasInv
  <2>6. NoOtherLock(t)'
        BY <1>1, <1>a, <1>b, <1>d, <1>h, <2>1 DEF VptocnpParent, NoOtherLock, MayHold,
           DirLock, UpLock, LockInv
  <2> QED BY <2>1, <2>2, <2>3, <2>4, <2>5, <2>6 DEF SelfInv
<1>2. CASE VptocnpError(t)
  <2>1. pc'[t] = "lk_start" BY <1>2, <1>a DEF VptocnpError, VptocnpRelock
  <2>2. UpInv(t)' /\ DirInv(t)' /\ TgtInv(t)' /\ LowInv(t)'
        BY <1>2, <1>a, <1>b, <2>1 DEF VptocnpError, VptocnpRelock
  <2>3. LdvpInv(t)' /\ CallInv(t)' /\ WhyInv(t)' /\ ModeInv(t)'
        BY <1>2, <1>a, <1>b, <2>1 DEF VptocnpError, VptocnpRelock
  <2>4. CreateLocks(t)' /\ LookupLocks(t)' /\ VnodeLocks(t)' /\ ReclaimLocks(t)' /\
        TwoLocks(t)' /\ LowerAlive(t)' /\ ProtoInv(t)'
        BY <2>1 DEF ProtoInv
  <2>5. SleepInv(t)'
        BY <1>2, <1>a, <1>b, <1>d, <1>f, <2>1 DEF VptocnpError, LowerRele, VptocnpRelock,
           ProtoInv, RefInv
  <2>6. MountInv(t)'
        BY <1>2, <1>a, <1>b, <1>d, <1>g, <2>1 DEF VptocnpError, LowerRele, VptocnpRelock,
           MountInv, Listed, Refuses, RootBusy, AliasInv
  <2>7. NoOtherLock(t)'
        BY <1>2, <1>a, <1>b, <1>d, <1>h, <2>1 DEF VptocnpError, LowerRele, VptocnpRelock,
           NoOtherLock, MayHold, DirLock, UpLock, LockInv
  <2> QED BY <2>1, <2>2, <2>3, <2>4, <2>5, <2>6, <2>7 DEF SelfInv
<1>3. CASE VptocnpLock(t)
  <2>1. pc'[t] = "ng_get" BY <1>3, <1>a DEF VptocnpLock
  <2>2. UpInv(t)' /\ DirInv(t)' /\ TgtInv(t)' /\ LowInv(t)'
        BY <1>3, <1>a, <1>b, <2>1 DEF VptocnpLock
  <2>3. LdvpInv(t)' /\ CallInv(t)' /\ WhyInv(t)' /\ ModeInv(t)'
        BY <1>3, <1>a, <1>b, <2>1 DEF VptocnpLock
  <2>4. LookupLocks(t)' /\ VnodeLocks(t)' /\ ReclaimLocks(t)' /\ SleepInv(t)' /\
        TwoLocks(t)' /\ ProtoInv(t)'
        BY <2>1 DEF ProtoInv
  <2>5. CreateLocks(t)'
        BY <1>3, <1>a, <1>b, <1>d, <1>f, <2>1 DEF VptocnpLock, Acquire, Free, ProtoInv,
           RefInv
  <2>6. LowerAlive(t)'
        BY <1>3, <1>a, <1>b, <1>d, <1>f, <2>1 DEF VptocnpLock, Acquire, Free, ProtoInv,
           RefInv
  <2>7. MountInv(t)'
        BY <1>3, <1>a, <1>b, <1>d, <1>g, <2>1 DEF VptocnpLock, Acquire, Free, MountInv,
           Listed, Refuses, RootBusy, AliasInv
  <2>8. NoOtherLock(t)'
        BY <1>3, <1>a, <1>b, <1>d, <1>h, <2>1 DEF VptocnpLock, Acquire, Free, NoOtherLock,
           MayHold, DirLock, UpLock, LockInv
  <2> QED BY <2>1, <2>2, <2>3, <2>4, <2>5, <2>6, <2>7, <2>8 DEF SelfInv
<1>4. CASE VptocnpDoomed(t)
  <2>1. pc'[t] = "lk_start" BY <1>4, <1>a DEF VptocnpDoomed, VptocnpRelock
  <2>2. UpInv(t)' /\ DirInv(t)' /\ TgtInv(t)' /\ LowInv(t)'
        BY <1>4, <1>a, <1>b, <2>1 DEF VptocnpDoomed, VptocnpRelock
  <2>3. LdvpInv(t)' /\ CallInv(t)' /\ WhyInv(t)' /\ ModeInv(t)'
        BY <1>4, <1>a, <1>b, <2>1 DEF VptocnpDoomed, VptocnpRelock
  <2>4. CreateLocks(t)' /\ LookupLocks(t)' /\ VnodeLocks(t)' /\ ReclaimLocks(t)' /\
        TwoLocks(t)' /\ LowerAlive(t)' /\ ProtoInv(t)'
        BY <2>1 DEF ProtoInv
  <2>5. SleepInv(t)'
        BY <1>4, <1>a, <1>b, <1>d, <1>f, <2>1 DEF VptocnpDoomed, Free, LowerRele,
           VptocnpRelock, ProtoInv, RefInv
  <2>6. MountInv(t)'
        BY <1>4, <1>a, <1>b, <1>d, <1>g, <2>1 DEF VptocnpDoomed, Free, LowerRele,
           VptocnpRelock, MountInv, Listed, Refuses, RootBusy, AliasInv
  <2>7. NoOtherLock(t)'
        BY <1>4, <1>a, <1>b, <1>d, <1>h, <2>1 DEF VptocnpDoomed, Free, LowerRele,
           VptocnpRelock, NoOtherLock, MayHold, DirLock, UpLock, LockInv
  <2> QED BY <2>1, <2>2, <2>3, <2>4, <2>5, <2>6, <2>7 DEF SelfInv
<1>5. CASE VptocnpReturn(t)
  <2>1. pc'[t] = "lk_start" BY <1>5, <1>a DEF VptocnpReturn, VptocnpRelock
  <2>2. UpInv(t)' /\ DirInv(t)' /\ TgtInv(t)' /\ LowInv(t)'
        BY <1>5, <1>a, <1>b, <2>1 DEF VptocnpReturn, VptocnpRelock
  <2>3. LdvpInv(t)' /\ CallInv(t)' /\ WhyInv(t)' /\ ModeInv(t)'
        BY <1>5, <1>a, <1>b, <2>1 DEF VptocnpReturn, VptocnpRelock
  <2>4. CreateLocks(t)' /\ LookupLocks(t)' /\ VnodeLocks(t)' /\ ReclaimLocks(t)' /\
        TwoLocks(t)' /\ LowerAlive(t)' /\ ProtoInv(t)'
        BY <2>1 DEF ProtoInv
  <2>5. SleepInv(t)'
        BY <1>5, <1>a, <1>b, <1>d, <1>f, <2>1 DEF VptocnpReturn, Release, VptocnpRelock,
           ProtoInv, RefInv
  <2>6. MountInv(t)'
        BY <1>5, <1>a, <1>b, <1>d, <1>g, <2>1 DEF VptocnpReturn, Release, VptocnpRelock,
           MountInv, Listed, Refuses, RootBusy, AliasInv
  <2>7. NoOtherLock(t)'
        BY <1>5, <1>a, <1>b, <1>d, <1>h, <2>1 DEF VptocnpReturn, Release, VptocnpRelock,
           NoOtherLock, MayHold, DirLock, UpLock, LockInv
  <2> QED BY <2>1, <2>2, <2>3, <2>4, <2>5, <2>6, <2>7 DEF SelfInv
<1> QED BY <1>1, <1>2, <1>3, <1>4, <1>5 DEF VptocnpSteps

(* What the thread relies on after a step of Begin.                         *)
LEMMA BeginSelf ==
    ASSUME NodeInv, TypeOK', NEW t \in Threads, Begin(t)
    PROVE  SelfInv(t)'
<1> USE NodeConstants
<1>a. TypeOK /\ LockInv /\ AliasInv /\ LowerInv BY DEF NodeInv
<1>b. Locals(t) BY DEF NodeInv
<1>d. Locking(t) BY DEF NodeInv
<1>f. \A s \in Threads : ProtoInv(s) /\ RefInv(s) BY DEF NodeInv
<1>g. \A s \in Threads : MountInv(s) BY DEF NodeInv
<1>h. NoOtherLock(t) BY DEF NodeInv
<1>i. \A x \in {up[t], dir[t]} \ {Null} : Known(x) BY KnownAlias
<1>j. ~MakesProto(t) /\ pc[t] \notin LockLabels /\ tgt[t] # Null => Known(tgt[t])
      BY KnownAlias
<1> USE DEF LockLabels, NodegetLabels, ProtoLabels, ReclaimLabels, PutLabels,
       CreateLabels, LookupLabels, VnLockLabels, Go, Rest, lowerVars, aliasVars, lockVars,
       mountVars, argVars, TypeOK, ThreadOK, LocalsOK, AliasOK, LockOK, MountOK, InLookup,
       Flushes, MakesProto, Owns, Holds, Vnlock, Vnodes, Locals, UpInv, DirInv, TgtInv,
       LowInv, LdvpInv, CallInv, WhyInv, ModeInv, Locking, CreateLocks, LookupLocks,
       VnodeLocks, ReclaimLocks, SleepInv, TwoLocks, LowerAlive
<1>1. ASSUME NEW m \in Mounts, NEW md \in {"S", "X"}, Root(t, m, md) PROVE SelfInv(t)'
  <2>1. pc'[t] = "vget" BY <1>1, <1>a DEF Root
  <2>2. UpInv(t)' /\ DirInv(t)' /\ TgtInv(t)' /\ LowInv(t)'
        BY <1>1, <1>a, <1>b, <2>1 DEF Root
  <2>3. LdvpInv(t)' /\ CallInv(t)' /\ WhyInv(t)' /\ ModeInv(t)'
        BY <1>1, <1>a, <1>b, <2>1 DEF Root
  <2>4. CreateLocks(t)' /\ LookupLocks(t)' /\ VnodeLocks(t)' /\ ReclaimLocks(t)' /\
        SleepInv(t)' /\ TwoLocks(t)' /\ LowerAlive(t)' /\ ProtoInv(t)'
        BY <2>1 DEF ProtoInv
  <2>5. MountInv(t)'
        BY <1>1, <1>a, <1>b, <1>d, <1>g, <2>1 DEF Root, MountInv, Listed, Refuses,
           RootBusy, AliasInv
  <2>6. NoOtherLock(t)'
        BY <1>1, <1>a, <1>b, <1>d, <1>h, <2>1 DEF Root, NoOtherLock, MayHold, DirLock,
           UpLock, LockInv
  <2> QED BY <2>1, <2>2, <2>3, <2>4, <2>5, <2>6 DEF SelfInv
<1>2. CASE Unlock(t)
  <2>1. pc'[t] = "ref" BY <1>2, <1>a DEF Unlock
  <2>2. UpInv(t)' /\ DirInv(t)' /\ TgtInv(t)' /\ LowInv(t)'
        BY <1>2, <1>a, <1>b, <2>1 DEF Unlock
  <2>3. LdvpInv(t)' /\ CallInv(t)' /\ WhyInv(t)' /\ ModeInv(t)'
        BY <1>2, <1>a, <1>b, <2>1 DEF Unlock
  <2>4. CreateLocks(t)' /\ LookupLocks(t)' /\ VnodeLocks(t)' /\ ReclaimLocks(t)' /\
        SleepInv(t)' /\ TwoLocks(t)' /\ LowerAlive(t)' /\ ProtoInv(t)' /\ MountInv(t)'
        BY <2>1 DEF ProtoInv, MountInv
  <2>5. NoOtherLock(t)'
        BY <1>2, <1>a, <1>b, <1>d, <1>h, <2>1 DEF Unlock, Release, NoOtherLock, MayHold,
           DirLock, UpLock, LockInv
  <2> QED BY <2>1, <2>2, <2>3, <2>4, <2>5 DEF SelfInv
<1>3. CASE VputUser(t)
  <2>1. pc'[t] \in {"idle", "locked", "panic", "ref", "vf_put"}
        BY <1>3, <1>a DEF VputUser, Vput
  <2>2. UpInv(t)' /\ DirInv(t)' /\ TgtInv(t)' /\ LowInv(t)'
        BY <1>3, <1>a, <1>b, <2>1 DEF VputUser, Vput
  <2>3. LdvpInv(t)' /\ CallInv(t)' /\ WhyInv(t)' /\ ModeInv(t)'
        BY <1>3, <1>a, <1>b, <2>1 DEF VputUser, Vput
  <2>4. CreateLocks(t)' /\ LookupLocks(t)' /\ ReclaimLocks(t)' /\ SleepInv(t)' /\
        LowerAlive(t)' /\ ProtoInv(t)' /\ MountInv(t)'
        BY <2>1 DEF ProtoInv, MountInv
  <2>5. VnodeLocks(t)'
        BY <1>3, <1>a, <1>b, <1>d, <1>f, <2>1 DEF VputUser, Vput, Release, PutUse,
           ProtoInv, RefInv
  <2>6. TwoLocks(t)'
        BY <1>3, <1>a, <1>b, <1>d, <1>f, <2>1 DEF VputUser, Vput, Release, PutUse,
           ProtoInv, RefInv
  <2>7. NoOtherLock(t)'
        BY <1>3, <1>a, <1>b, <1>d, <1>h, <2>1 DEF VputUser, Vput, Release, PutUse,
           NoOtherLock, MayHold, DirLock, UpLock, LockInv
  <2> QED BY <2>1, <2>2, <2>3, <2>4, <2>5, <2>6, <2>7 DEF SelfInv
<1>4. CASE Vrele(t)
  <2>1. pc'[t] \in {"idle", "vf_rele"} BY <1>4, <1>a DEF Vrele
  <2>2. UpInv(t)' /\ DirInv(t)' /\ TgtInv(t)' /\ LowInv(t)'
        BY <1>4, <1>a, <1>b, <2>1 DEF Vrele
  <2>3. LdvpInv(t)' /\ CallInv(t)' /\ WhyInv(t)' /\ ModeInv(t)'
        BY <1>4, <1>a, <1>b, <2>1 DEF Vrele
  <2>4. CreateLocks(t)' /\ LookupLocks(t)' /\ VnodeLocks(t)' /\ ReclaimLocks(t)' /\
        SleepInv(t)' /\ TwoLocks(t)' /\ LowerAlive(t)' /\ ProtoInv(t)' /\ MountInv(t)'
        BY <2>1 DEF ProtoInv, MountInv
  <2>5. NoOtherLock(t)'
        BY <1>4, <1>a, <1>b, <1>d, <1>h, <2>1 DEF Vrele, PutUse, NoOtherLock, MayHold,
           DirLock, UpLock, LockInv
  <2> QED BY <2>1, <2>2, <2>3, <2>4, <2>5 DEF SelfInv
<1>5. ASSUME NEW md \in {"S", "X"}, Relock(t, md) PROVE SelfInv(t)'
  <2>1. pc'[t] = "lk_start" BY <1>5, <1>a DEF Relock
  <2>2. UpInv(t)' /\ DirInv(t)' /\ TgtInv(t)' /\ LowInv(t)'
        BY <1>5, <1>a, <1>b, <2>1 DEF Relock
  <2>3. LdvpInv(t)' /\ CallInv(t)' /\ WhyInv(t)' /\ ModeInv(t)'
        BY <1>5, <1>a, <1>b, <2>1 DEF Relock
  <2>4. CreateLocks(t)' /\ LookupLocks(t)' /\ VnodeLocks(t)' /\ ReclaimLocks(t)' /\
        TwoLocks(t)' /\ LowerAlive(t)' /\ ProtoInv(t)'
        BY <2>1 DEF ProtoInv
  <2>5. SleepInv(t)' BY <1>5, <1>a, <1>b, <1>d, <1>f, <2>1 DEF Relock, ProtoInv, RefInv
  <2>6. MountInv(t)'
        BY <1>5, <1>a, <1>b, <1>d, <1>g, <2>1 DEF Relock, MountInv, Listed, Refuses,
           RootBusy, AliasInv
  <2>7. NoOtherLock(t)'
        BY <1>5, <1>a, <1>b, <1>d, <1>h, <2>1 DEF Relock, NoOtherLock, MayHold, DirLock,
           UpLock, LockInv
  <2> QED BY <2>1, <2>2, <2>3, <2>4, <2>5, <2>6, <2>7 DEF SelfInv
<1>6. ASSUME NEW u \in Upper, DeferredInactive(t, u) PROVE SelfInv(t)'
  <2>1. pc'[t] = "lk_start" BY <1>6, <1>a DEF DeferredInactive
  <2>2. UpInv(t)' /\ DirInv(t)' /\ TgtInv(t)' /\ LowInv(t)'
        BY <1>6, <1>a, <1>b, <2>1 DEF DeferredInactive
  <2>3. LdvpInv(t)' /\ CallInv(t)' /\ WhyInv(t)' /\ ModeInv(t)'
        BY <1>6, <1>a, <1>b, <2>1 DEF DeferredInactive
  <2>4. CreateLocks(t)' /\ LookupLocks(t)' /\ VnodeLocks(t)' /\ ReclaimLocks(t)' /\
        TwoLocks(t)' /\ LowerAlive(t)' /\ ProtoInv(t)'
        BY <2>1 DEF ProtoInv
  <2>5. SleepInv(t)'
        BY <1>6, <1>a, <1>b, <1>d, <1>f, <2>1 DEF DeferredInactive, ProtoInv, RefInv
  <2>6. MountInv(t)'
        BY <1>6, <1>a, <1>b, <1>d, <1>g, <2>1 DEF DeferredInactive, MountInv, Listed,
           Refuses, RootBusy, AliasInv
  <2>7. NoOtherLock(t)'
        BY <1>6, <1>a, <1>b, <1>d, <1>h, <2>1 DEF DeferredInactive, NoOtherLock, MayHold,
           DirLock, UpLock, LockInv
  <2> QED BY <2>1, <2>2, <2>3, <2>4, <2>5, <2>6, <2>7 DEF SelfInv
<1>7. ASSUME NEW m \in Mounts, NEW force \in ForceFlags, UnmountStart(t, m, force) PROVE SelfInv(t)'
  <2>1. pc'[t] = "um_pick" BY <1>7, <1>a DEF UnmountStart
  <2>2. UpInv(t)' /\ DirInv(t)' /\ TgtInv(t)' /\ LowInv(t)'
        BY <1>7, <1>a, <1>b, <2>1 DEF UnmountStart
  <2>3. LdvpInv(t)' /\ CallInv(t)' /\ WhyInv(t)' /\ ModeInv(t)'
        BY <1>7, <1>a, <1>b, <2>1 DEF UnmountStart
  <2>4. CreateLocks(t)' /\ LookupLocks(t)' /\ VnodeLocks(t)' /\ ReclaimLocks(t)' /\
        SleepInv(t)' /\ TwoLocks(t)' /\ LowerAlive(t)' /\ ProtoInv(t)'
        BY <2>1 DEF ProtoInv
  <2>5. MountInv(t)'
    <3>1. \A s \in Threads : Flushes(s)' /\ mp'[s] = m => s = t
      <4>1. mp' = [mp EXCEPT ![t] = m] /\ pc' = [pc EXCEPT ![t] = "um_pick"] /\ mstate[m] = "mounted"
            /\ why' = [why EXCEPT ![t] = "flush"] /\ mp \in [Threads -> Mounts \cup {Null}]
            BY <1>7, <1>a DEF UnmountStart
      <4>2. \A s \in Threads \ {t} : Flushes(s)' <=> Flushes(s) BY <1>a, <4>1
      <4>3. \A s \in Threads : Flushes(s) => mstate[mp[s]] # "mounted" BY <1>g DEF MountInv
      <4> HIDE DEF Flushes
      <4> QED BY <4>1, <4>2, <4>3
    <3>2. mp'[t] = m /\ mstate'[m] \in {"unmount", "force"}
          BY <1>7, <1>a DEF UnmountStart
    <3> QED BY <1>7, <2>1, <3>1, <3>2 DEF UnmountStart, MountInv
  <2>6. NoOtherLock(t)'
        BY <1>7, <1>a, <1>b, <1>d, <1>h, <2>1 DEF UnmountStart, RootBusy, NoOtherLock,
           MayHold, DirLock, UpLock, LockInv
  <2> QED BY <2>1, <2>2, <2>3, <2>4, <2>5, <2>6 DEF SelfInv
<1>8. ASSUME NEW c \in Lower, LookupChild(t, c) PROVE SelfInv(t)'
  <2>1. pc'[t] = "lu_lock" BY <1>8, <1>a DEF LookupChild, LookupStart
  <2>2. UpInv(t)' /\ DirInv(t)' /\ TgtInv(t)' /\ LowInv(t)'
        BY <1>8, <1>a, <1>b, <2>1 DEF LookupChild, LookupStart
  <2>3. LdvpInv(t)' /\ CallInv(t)' /\ WhyInv(t)' /\ ModeInv(t)'
        BY <1>8, <1>a, <1>b, <2>1 DEF LookupChild, LookupStart
  <2>4. CreateLocks(t)' /\ VnodeLocks(t)' /\ ReclaimLocks(t)' /\ TwoLocks(t)' /\
        LowerAlive(t)' /\ ProtoInv(t)'
        BY <2>1 DEF ProtoInv
  <2>5. LookupLocks(t)'
        BY <1>8, <1>a, <1>b, <1>d, <1>f, <2>1 DEF LookupChild, LookupStart, ProtoInv,
           RefInv
  <2>6. SleepInv(t)'
        BY <1>8, <1>a, <1>b, <1>d, <1>f, <2>1 DEF LookupChild, LookupStart, ProtoInv,
           RefInv
  <2>7. MountInv(t)'
        BY <1>8, <1>a, <1>b, <1>d, <1>g, <2>1, <1>i DEF LookupChild, LookupStart,
           MountInv, Listed, Refuses, RootBusy, AliasInv, Known
  <2>8. NoOtherLock(t)'
        BY <1>8, <1>a, <1>b, <1>d, <1>h, <2>1 DEF LookupChild, LookupStart, NoOtherLock,
           MayHold, DirLock, UpLock, LockInv
  <2> QED BY <2>1, <2>2, <2>3, <2>4, <2>5, <2>6, <2>7, <2>8 DEF SelfInv
<1>9. CASE LookupDot(t)
  <2>1. pc'[t] = "lu_check" BY <1>9, <1>a DEF LookupDot, LookupStart
  <2>2. UpInv(t)' /\ DirInv(t)' /\ TgtInv(t)' /\ LowInv(t)'
        BY <1>9, <1>a, <1>b, <2>1 DEF LookupDot, LookupStart
  <2>3. LdvpInv(t)' /\ CallInv(t)' /\ WhyInv(t)' /\ ModeInv(t)'
        BY <1>9, <1>a, <1>b, <2>1 DEF LookupDot, LookupStart
  <2>4. CreateLocks(t)' /\ VnodeLocks(t)' /\ ReclaimLocks(t)' /\ TwoLocks(t)' /\
        ProtoInv(t)'
        BY <2>1 DEF ProtoInv
  <2>5. LookupLocks(t)'
    <3>1. ~udoomed[up[t]]
          BY <1>9, <1>a, <1>d DEF LookupDot, LookupStart, NodeInv, DoomedInv
    <3> QED
        BY <1>9, <1>a, <2>1, <3>1 DEF LookupDot, LookupStart
  <2>6. SleepInv(t)'
        BY <1>9, <1>a, <1>b, <1>d, <1>f, <2>1 DEF LookupDot, LookupStart, ProtoInv, RefInv
  <2>7. LowerAlive(t)'
        BY <1>9, <1>a, <1>b, <1>d, <1>f, <2>1 DEF LookupDot, LookupStart, ProtoInv, RefInv
  <2>8. MountInv(t)'
        BY <1>9, <1>a, <1>b, <1>d, <1>g, <2>1, <1>i DEF LookupDot, LookupStart, MountInv,
           Listed, Refuses, RootBusy, AliasInv, Known
  <2>9. NoOtherLock(t)'
        BY <1>9, <1>a, <1>b, <1>d, <1>h, <2>1 DEF LookupDot, LookupStart, NoOtherLock,
           MayHold, DirLock, UpLock, LockInv
  <2> QED
      BY <2>1, <2>2, <2>3, <2>4, <2>5, <2>6, <2>7, <2>8, <2>9 DEF SelfInv
<1>10. CASE LookupMissing(t)
  <2>1. pc'[t] = "lu_err" BY <1>10, <1>a DEF LookupMissing, LookupStart
  <2>2. UpInv(t)' /\ DirInv(t)' /\ TgtInv(t)' /\ LowInv(t)'
        BY <1>10, <1>a, <1>b, <2>1 DEF LookupMissing, LookupStart
  <2>3. LdvpInv(t)' /\ CallInv(t)' /\ WhyInv(t)' /\ ModeInv(t)'
        BY <1>10, <1>a, <1>b, <2>1 DEF LookupMissing, LookupStart
  <2>4. CreateLocks(t)' /\ VnodeLocks(t)' /\ ReclaimLocks(t)' /\ TwoLocks(t)' /\
        LowerAlive(t)' /\ ProtoInv(t)'
        BY <2>1 DEF ProtoInv
  <2>5. LookupLocks(t)'
        BY <1>10, <1>a, <1>b, <1>d, <1>f, <2>1 DEF LookupMissing, LookupStart, ProtoInv,
           RefInv
  <2>6. SleepInv(t)'
        BY <1>10, <1>a, <1>b, <1>d, <1>f, <2>1 DEF LookupMissing, LookupStart, ProtoInv,
           RefInv
  <2>7. MountInv(t)'
        BY <1>10, <1>a, <1>b, <1>d, <1>g, <2>1, <1>i DEF LookupMissing, LookupStart,
           MountInv, Listed, Refuses, RootBusy, AliasInv, Known
  <2>8. NoOtherLock(t)'
        BY <1>10, <1>a, <1>b, <1>d, <1>h, <2>1 DEF LookupMissing, LookupStart,
           NoOtherLock, MayHold, DirLock, UpLock, LockInv
  <2> QED BY <2>1, <2>2, <2>3, <2>4, <2>5, <2>6, <2>7, <2>8 DEF SelfInv
<1>11. CASE LookupDotDot(t)
  <2>1. pc'[t] = "dd_lock" BY <1>11, <1>a DEF LookupDotDot, LookupStart
  <2>2. UpInv(t)' /\ DirInv(t)' /\ TgtInv(t)' /\ LowInv(t)'
        BY <1>11, <1>a, <1>b, <2>1 DEF LookupDotDot, LookupStart, BelowRoot
  <2>3. LdvpInv(t)' /\ CallInv(t)' /\ WhyInv(t)' /\ ModeInv(t)'
        BY <1>11, <1>a, <1>b, <2>1 DEF LookupDotDot, LookupStart, BelowRoot
  <2>4. CreateLocks(t)' /\ VnodeLocks(t)' /\ ReclaimLocks(t)' /\ TwoLocks(t)' /\
        LowerAlive(t)' /\ ProtoInv(t)'
        BY <2>1 DEF ProtoInv
  <2>5. LookupLocks(t)'
        BY <1>11, <1>a, <1>b, <1>d, <1>f, <2>1 DEF LookupDotDot, Release, LookupStart,
           BelowRoot, ProtoInv, RefInv
  <2>6. SleepInv(t)'
        BY <1>11, <1>a, <1>b, <1>d, <1>f, <2>1 DEF LookupDotDot, Release, LookupStart,
           BelowRoot, ProtoInv, RefInv
  <2>7. MountInv(t)'
        BY <1>11, <1>a, <1>b, <1>d, <1>g, <2>1, <1>i DEF LookupDotDot, Release,
           LookupStart, BelowRoot, MountInv, Listed, Refuses, RootBusy, AliasInv, Known
  <2>8. NoOtherLock(t)'
        BY <1>11, <1>a, <1>b, <1>d, <1>h, <2>1 DEF LookupDotDot, Release, LookupStart,
           BelowRoot, NoOtherLock, MayHold, DirLock, UpLock, LockInv
  <2> QED BY <2>1, <2>2, <2>3, <2>4, <2>5, <2>6, <2>7, <2>8 DEF SelfInv
<1>12. CASE Vptocnp(t)
  <2>1. pc'[t] = "vc_walk" BY <1>12, <1>a DEF Vptocnp
  <2>2. UpInv(t)' /\ DirInv(t)' /\ TgtInv(t)' /\ LowInv(t)'
        BY <1>12, <1>a, <1>b, <2>1 DEF Vptocnp, BelowRoot
  <2>3. LdvpInv(t)' /\ CallInv(t)' /\ WhyInv(t)' /\ ModeInv(t)'
        BY <1>12, <1>a, <1>b, <2>1 DEF Vptocnp, BelowRoot
  <2>4. CreateLocks(t)' /\ LookupLocks(t)' /\ VnodeLocks(t)' /\ ReclaimLocks(t)' /\
        TwoLocks(t)' /\ LowerAlive(t)' /\ ProtoInv(t)'
        BY <2>1 DEF ProtoInv
  <2>5. SleepInv(t)'
        BY <1>12, <1>a, <1>b, <1>d, <1>f, <2>1 DEF Vptocnp, Release, BelowRoot, ProtoInv,
           RefInv
  <2>6. MountInv(t)'
        BY <1>12, <1>a, <1>b, <1>d, <1>g, <2>1, <1>i DEF Vptocnp, Release, BelowRoot,
           MountInv, Listed, Refuses, RootBusy, AliasInv, Known
  <2>7. NoOtherLock(t)'
        BY <1>12, <1>a, <1>b, <1>d, <1>h, <2>1 DEF Vptocnp, Release, BelowRoot,
           NoOtherLock, MayHold, DirLock, UpLock, LockInv
  <2> QED BY <2>1, <2>2, <2>3, <2>4, <2>5, <2>6, <2>7 DEF SelfInv
<1> QED
    BY <1>1, <1>2, <1>3, <1>4, <1>5, <1>6, <1>7, <1>8, <1>9, <1>10, <1>11, <1>12 DEF Begin

-----------------------------------------------------------------------------
(* What the others rely on, and the counts.                                *)

(* The counts stay exact: they follow the locals of the thread that steps. *)
LEMMA ThreadCount ==
    ASSUME NEW t \in Threads, NEW f, NEW g, \A s \in Threads \ {t} : g[s] = f[s], NEW x
    PROVE  /\ Count(g, x) = Count(f, x) + Is(g[t], x) - Is(f[t], x)
           /\ Count(f, x) \in Int
BY CountNat, CountMoves, NodeConstants DEF Count

(* A step of a thread keeps the equations between use and hold counts and  *)
(* the locals they count (vref, vrele, vhold, vdrop of one thread).        *)
LEMMA CountsKept ==
    ASSUME NodeInv, NEW t \in Threads, ThreadStep(t)
    PROVE  UseExact' /\ HoldExact' /\ LowerHoldExact'
<1>1. Alone(t) /\ UseStep(t) /\ HoldStep(t) /\ LowerHoldStep(t)
  BY DEF ThreadStep, CountSteps
<1>2. UseExact /\ HoldExact /\ LowerHoldExact BY DEF NodeInv
<1>a. \A s \in Threads \ {t} : ProtoOf'[s] = ProtoOf[s]
      BY <1>1 DEF Alone, ProtoOf, MakesProto
<1>b. \A s \in Threads \ {t} : HoldOf'[s] = HoldOf[s] BY <1>1 DEF Alone, HoldOf, HasHold
<1>c. \A s \in Threads \ {t} : SleepOf'[s] = SleepOf[s] BY <1>1 DEF Alone, SleepOf
<1>d. \A s \in Threads \ {t} : up'[s] = up[s] BY <1>1 DEF Alone
<1>e. \A s \in Threads \ {t} : dir'[s] = dir[s] BY <1>1 DEF Alone
<1>f. \A s \in Threads \ {t} : ldvp'[s] = ldvp[s] BY <1>1 DEF Alone
<1>4. ASSUME NEW u \in Upper PROVE uuse'[u] = Count(up', u) + Count(dir', u) + Count(ProtoOf', u)
  <2>1. Count(up', u) = Count(up, u) + Is(up'[t], u) - Is(up[t], u) /\
        Count(up, u) \in Int
    BY <1>d, ThreadCount
  <2>2. Count(dir', u) = Count(dir, u) + Is(dir'[t], u) - Is(dir[t], u) /\
        Count(dir, u) \in Int
    BY <1>e, ThreadCount
  <2>3. /\ Count(ProtoOf', u) = Count(ProtoOf, u) + Is(ProtoOf'[t], u) - Is(ProtoOf[t], u)
        /\ Count(ProtoOf, u) \in Int
    BY <1>a, ThreadCount
  <2>4. \A x : Is(x, u) \in Int BY DEF Is
  <2>5. uuse[u] = Count(up, u) + Count(dir, u) + Count(ProtoOf, u) BY <1>2 DEF UseExact
  <2> QED BY <1>1, <2>1, <2>2, <2>3, <2>4, <2>5 DEF UseStep
<1>5. ASSUME NEW u \in Upper
      PROVE  uhold'[u] = Count(HoldOf', u) + (IF u \in deferred' THEN 1 ELSE 0)
  <2>1. /\ Count(HoldOf', u) = Count(HoldOf, u) + Is(HoldOf'[t], u) - Is(HoldOf[t], u)
        /\ Count(HoldOf, u) \in Int
    BY <1>b, ThreadCount
  <2>2. \A x : Is(x, u) \in Int BY DEF Is
  <2>3. uhold[u] = Count(HoldOf, u) + (IF u \in deferred THEN 1 ELSE 0)
        BY <1>2 DEF HoldExact
  <2> QED BY <1>1, <2>1, <2>2, <2>3 DEF HoldStep
<1>6. ASSUME NEW l \in Lower PROVE lhold'[l] = Count(SleepOf', l) + Count(ldvp', l)
  <2>1. /\ Count(SleepOf', l) = Count(SleepOf, l) + Is(SleepOf'[t], l) - Is(SleepOf[t], l)
        /\ Count(SleepOf, l) \in Int
    BY <1>c, ThreadCount
  <2>2. Count(ldvp', l) = Count(ldvp, l) + Is(ldvp'[t], l) - Is(ldvp[t], l) /\
        Count(ldvp, l) \in Int
    BY <1>f, ThreadCount
  <2>3. \A x : Is(x, l) \in Int BY DEF Is
  <2>4. lhold[l] = Count(SleepOf, l) + Count(ldvp, l) BY <1>2 DEF LowerHoldExact
  <2> QED BY <1>1, <2>1, <2>2, <2>3, <2>4 DEF LowerHoldStep
<1> QED BY <1>4, <1>5, <1>6 DEF UseExact, HoldExact, LowerHoldExact, Count

(* The references to a lower vnode, written as counts of functions.        *)
LEMMA LowerUseCounts ==
    ASSUME NEW l \in Lower
    PROVE  /\ Cardinality(RootRefs(l)) = CountIn(Mounts, RootOf, l)
           /\ Cardinality(AliasRefs(l)) = CountIn(Upper, AliasOf, l)
           /\ Cardinality(SpareRefs(l)) = CountIn(Threads, SpareOf, l)
           /\ Cardinality(RootRefs(l)') = CountIn(Mounts, RootOf', l)
           /\ Cardinality(AliasRefs(l)') = CountIn(Upper, AliasOf', l)
           /\ Cardinality(SpareRefs(l)') = CountIn(Threads, SpareOf', l)
<1> USE NodeConstants
<1>1. RootRefs(l) = {m \in Mounts : RootOf[m] = l} BY DEF RootRefs, RootOf
<1>2. AliasRefs(l) = {u \in Upper : AliasOf[u] = l} BY DEF AliasRefs, AliasOf
<1>3. SpareRefs(l) = {t \in Threads : SpareOf[t] = l} BY DEF SpareRefs, SpareOf
<1>4. RootRefs(l)' = {m \in Mounts : RootOf'[m] = l} BY DEF RootRefs, RootOf
<1>5. AliasRefs(l)' = {u \in Upper : AliasOf'[u] = l} BY DEF AliasRefs, AliasOf
<1>6. SpareRefs(l)' = {t \in Threads : SpareOf'[t] = l} BY DEF SpareRefs, SpareOf
<1> QED BY <1>1, <1>2, <1>3, <1>4, <1>5, <1>6 DEF CountIn

(* A reference to a lower vnode that moves between a thread, an alias and  *)
(* a mount stays counted once.                                             *)
LEMMA LowerUseKept ==
    ASSUME NodeInv, NEW t \in Threads, ThreadStep(t)
    PROVE  UseCountExact'
<1> USE NodeConstants
<1>1. Alone(t) /\ LowerUseStep(t) BY DEF ThreadStep, CountSteps
<1>2. \A s \in Threads \ {t} : SpareOf'[s] = SpareOf[s] BY <1>1 DEF Alone, SpareOf
<1>3. ASSUME NEW l \in Lower
      PROVE  luse'[l] = Cardinality(RootRefs(l)') + Cardinality(AliasRefs(l)')
                                                 + Cardinality(SpareRefs(l)')
  <2> DEFINE r == CountIn(Mounts, RootOf, l)
             a == CountIn(Upper, AliasOf, l)
             p == CountIn(Threads, SpareOf, l)
             rr == CountIn(Mounts, RootOf', l)
             aa == CountIn(Upper, AliasOf', l)
             pp == CountIn(Threads, SpareOf', l)
  <2>1. luse[l] = r + a + p BY LowerUseCounts DEF NodeInv, UseCountExact
  <2>2. r \in Nat /\ a \in Nat /\ p \in Nat /\ rr \in Nat /\ aa \in Nat /\ pp \in Nat
        BY CountNat
  <2>3. pp = p + SpareMove(t, l) /\ SpareMove(t, l) \in Int
    <3>1. pp = p + Is(SpareOf'[t], l) - Is(SpareOf[t], l) BY <1>2, CountMoves
    <3>2. Is(SpareOf'[t], l) \in Int /\ Is(SpareOf[t], l) \in Int BY DEF Is
    <3> QED BY <2>2, <3>1, <3>2 DEF SpareMove
  <2> HIDE DEF r, a, p, rr, aa, pp
  <2>4. CASE AliasOf' = AliasOf /\ RootOf' = RootOf /\ luse'[l] = luse[l] + SpareMove(t, l)
    <3>1. rr = r /\ aa = a BY <2>4 DEF r, a, rr, aa
    <3>2. luse'[l] = rr + aa + pp BY <2>1, <2>2, <2>3, <2>4, <3>1
    <3> QED BY <3>2, LowerUseCounts DEF rr, aa, pp
  <2>5. ASSUME RootOf' = RootOf, NEW x \in Upper,
               \A u \in Upper \ {x} : AliasOf'[u] = AliasOf[u],
               luse'[l] = luse[l] + SpareMove(t, l) + Is(AliasOf'[x], l) - Is(AliasOf[x], l)
        PROVE  luse'[l] = Cardinality(RootRefs(l)') + Cardinality(AliasRefs(l)')
                                                   + Cardinality(SpareRefs(l)')
    <3>1. rr = r BY <2>5 DEF r, rr
    <3>2. aa = a + Is(AliasOf'[x], l) - Is(AliasOf[x], l) BY <2>5, CountMoves DEF a, aa
    <3>3. Is(AliasOf'[x], l) \in Int /\ Is(AliasOf[x], l) \in Int BY DEF Is
    <3>4. luse'[l] = rr + aa + pp BY <2>1, <2>2, <2>3, <2>5, <3>1, <3>2, <3>3
    <3> QED BY <3>4, LowerUseCounts DEF rr, aa, pp
  <2>6. ASSUME AliasOf' = AliasOf, NEW x \in Mounts,
               \A m \in Mounts \ {x} : RootOf'[m] = RootOf[m],
               luse'[l] = luse[l] + SpareMove(t, l) + Is(RootOf'[x], l) - Is(RootOf[x], l)
        PROVE  luse'[l] = Cardinality(RootRefs(l)') + Cardinality(AliasRefs(l)')
                                                   + Cardinality(SpareRefs(l)')
    <3>1. aa = a BY <2>6 DEF a, aa
    <3>2. rr = r + Is(RootOf'[x], l) - Is(RootOf[x], l) BY <2>6, CountMoves DEF r, rr
    <3>3. Is(RootOf'[x], l) \in Int /\ Is(RootOf[x], l) \in Int BY DEF Is
    <3>4. luse'[l] = rr + aa + pp BY <2>1, <2>2, <2>3, <2>6, <3>1, <3>2, <3>3
    <3> QED BY <3>4, LowerUseCounts DEF rr, aa, pp
  <2> QED BY <1>1, <2>4, <2>5, <2>6 DEF LowerUseStep
<1> QED BY <1>3 DEF UseCountExact

(* What is referred to is counted, so it is not free.                      *)
LEMMA RefsKept ==
    ASSUME NodeInv, NEW t \in Threads, ThreadStep(t), TypeOK', NEW s \in Threads, Locals(s)'
    PROVE  RefInv(s)'
<1> USE NodeConstants
<1>1. UseExact' /\ HoldExact' BY CountsKept
<1>2. \A u \in Upper : u \notin alloc' => uuse'[u] = 0 /\ uhold'[u] = 0
  BY DEF ThreadStep, CountSteps, CountStep
<1>3. ASSUME NEW u \in Upper, u \notin alloc'
      PROVE  up'[s] # u /\ dir'[s] # u /\ ProtoOf'[s] # u /\ HoldOf'[s] # u
  <2>1. /\ Count(up', u) \in Nat /\ (up'[s] = u => Count(up', u) >= 1)
        /\ Count(dir', u) \in Nat /\ (dir'[s] = u => Count(dir', u) >= 1)
        /\ Count(ProtoOf', u) \in Nat /\ (ProtoOf'[s] = u => Count(ProtoOf', u) >= 1)
        /\ Count(HoldOf', u) \in Nat /\ (HoldOf'[s] = u => Count(HoldOf', u) >= 1)
    BY CountNat DEF Count
  <2>2. uuse'[u] = Count(up', u) + Count(dir', u) + Count(ProtoOf', u)
    BY <1>1 DEF UseExact, Count
  <2>3. uhold'[u] = Count(HoldOf', u) + (IF u \in deferred' THEN 1 ELSE 0)
    BY <1>1 DEF HoldExact, Count
  <2> QED BY <1>2, <1>3, <2>1, <2>2, <2>3
<1>4. up'[s] \in Upper \cup {Null} /\ dir'[s] \in Upper \cup {Null} /\
      tgt'[s] \in Upper \cup {Null}
  BY DEF TypeOK, ThreadOK
<1>5. tgt'[s] = Null \/ tgt'[s] \in {up'[s], dir'[s], ProtoOf'[s], HoldOf'[s]}
  BY DEF TypeOK, ThreadOK, Labels, Locals, TgtInv, WhyInv, ProtoOf, MakesProto, HoldOf, HasHold,
     ProtoLabels, LookupLabels, NodegetLabels, VnLockLabels, LockLabels, PutLabels, ReclaimLabels
<1> QED BY <1>3, <1>4, <1>5 DEF RefInv

(* What a thread t can do to another thread s: nothing to its locks, and   *)
(* nothing to the vnode behind a lock that s has.                          *)
LEMMA Neighbour ==
    ASSUME NodeInv, NEW t \in Threads, ThreadStep(t), NEW s \in Threads, s # t
    PROVE  /\ \A k \in Vnodes : (ex'[k] = s <=> ex[k] = s) /\ (s \in sh'[k] <=> s \in sh[k])
           /\ \A x \in alloc : data'[x] \in {data[x], Null}
           /\ \A x \in alloc : Holds(s, Vnlock(x)) /\ ~(MakesProto(t) /\ tgt[t] = x)
                                 => data'[x] = data[x]
           /\ \A x \in alloc' : x \in alloc /\ udoomed[x] => udoomed'[x]
           /\ \A x \in {up[s], dir[s]} : ~(MakesProto(t) /\ tgt[t] = x)
           /\ ~(pc[s] \in LockLabels /\ why[s] = "flush") => ~(MakesProto(t) /\ tgt[t] = tgt[s])
<1> USE NodeConstants
<1>1. TypeOK /\ LockInv /\ AliasInv /\ Locals(t) /\ Locking(t) /\ ProtoInv(t)
      BY DEF NodeInv
<1>2. LockStep(t) /\ DataStep(t) /\ DoomStep(t) /\ AllocStep(t)
      BY DEF ThreadStep, AliasStep
<1>3. alloc \subseteq Upper BY <1>1 DEF TypeOK, AliasOK
<1>4. ASSUME NEW x \in alloc, Holds(s, Vnlock(x)), ~(MakesProto(t) /\ tgt[t] = x)
      PROVE  data'[x] = data[x]
  <2> SUFFICES ASSUME x = tgt[t], pc[t] = "rc_detach" PROVE FALSE
    BY <1>2, <1>3, <1>4 DEF DataStep, MakesProto, ProtoLabels
  <2>1. data[x] = low[t] /\ ex[low[t]] = t BY <1>1 DEF Locking, ReclaimLocks, Owns
  <2>2. low[t] \in Lower BY <1>1 DEF Locals, LowInv
  <2>3. Holds(s, low[t]) BY <1>4, <2>1, <2>2 DEF Vnlock
  <2>4. sh[low[t]] = {} BY <1>1, <2>1, <2>2 DEF LockInv, Vnodes
  <2> QED BY <2>1, <2>3, <2>4 DEF Holds
<1>5. \A x \in alloc : data'[x] \in {data[x], Null} BY <1>2, <1>3 DEF DataStep
<1>6. \A x \in alloc' : x \in alloc /\ udoomed[x] => udoomed'[x]
      BY <1>2, <1>3 DEF DoomStep
<1>7. \A k \in Vnodes : (ex'[k] = s <=> ex[k] = s) /\ (s \in sh'[k] <=> s \in sh[k])
  BY <1>2 DEF LockStep
<1>8. /\ \A x \in {up[s], dir[s]} : ~(MakesProto(t) /\ tgt[t] = x)
      /\ ~(pc[s] \in LockLabels /\ why[s] = "flush") => ~(MakesProto(t) /\ tgt[t] = tgt[s])
  BY <1>1 DEF ProtoInv
<1> QED BY <1>4, <1>5, <1>6, <1>7, <1>8

(* The locks another thread has, and what they protect, stay.              *)
LEMMA LockingKept ==
    ASSUME NodeInv, NEW t \in Threads, ThreadStep(t), NEW s \in Threads, s # t, RefInv(s)'
    PROVE  Locking(s)'
<1> USE NodeConstants
<1>1. TypeOK /\ LockInv /\ Locals(s) /\ Locking(s) /\ RefInv(s) /\ LocalsOK(s)
      BY DEF NodeInv,
      TypeOK
<1>2. /\ pc'[s] = pc[s] /\ call'[s] = call[s] /\ mp'[s] = mp[s] /\ low'[s] = low[s]
      /\ mode'[s] = mode[s] /\ up'[s] = up[s] /\ dir'[s] = dir[s] /\ ldvp'[s] = ldvp[s]
      /\ tgt'[s] = tgt[s] /\ why'[s] = why[s]
  BY DEF ThreadStep, Alone
<1>3. ldoomed' = ldoomed BY DEF ThreadStep
<1>4. /\ \A k \in Vnodes : (ex'[k] = s <=> ex[k] = s) /\ (s \in sh'[k] <=> s \in sh[k])
      /\ \A k \in Vnodes : Holds(s, k)' <=> Holds(s, k)
  BY Neighbour DEF Holds
<1>5. \A x \in alloc : data'[x] \in {data[x], Null} BY Neighbour
<1>6. ASSUME NEW x \in alloc, Holds(s, Vnlock(x)), ~(MakesProto(t) /\ tgt[t] = x)
      PROVE  data'[x] = data[x] /\ Vnlock(x)' = Vnlock(x) /\ Holds(s, Vnlock(x))'
             /\ (ex[Vnlock(x)] = s => ex'[Vnlock(x)] = s)
  <2>1. data'[x] = data[x] BY <1>6, Neighbour
  <2>2. Vnlock(x) \in Vnodes BY <1>1 DEF Vnlock, TypeOK, AliasOK, Vnodes
  <2> QED BY <1>4, <1>6, <2>1, <2>2 DEF Vnlock, Holds
<1>7. \A x \in alloc' : x \in alloc /\ udoomed[x] => udoomed'[x] BY Neighbour
<1>8. /\ \A x \in {up[s], dir[s]} : ~(MakesProto(t) /\ tgt[t] = x)
      /\ ~(pc[s] \in LockLabels /\ why[s] = "flush") => ~(MakesProto(t) /\ tgt[t] = tgt[s])
  BY Neighbour
<1>9. /\ up[s] # Null => up[s] \in alloc /\ up[s] \in alloc'
      /\ dir[s] # Null => dir[s] \in alloc /\ dir[s] \in alloc'
      /\ tgt[s] # Null => tgt[s] \in alloc /\ tgt[s] \in alloc'
      /\ alloc \subseteq Upper
  BY <1>1, <1>2 DEF RefInv, TypeOK, AliasOK
<1>10. /\ up[s] \in alloc /\ Holds(s, Vnlock(up[s])) =>
             /\ data'[up[s]] = data[up[s]] /\ Holds(s, Vnlock(up[s]))'
             /\ (ex[Vnlock(up[s])] = s => ex'[Vnlock(up[s])'] = s)
       /\ dir[s] \in alloc /\ Holds(s, Vnlock(dir[s])) =>
             /\ data'[dir[s]] = data[dir[s]] /\ Holds(s, Vnlock(dir[s]))'
             /\ (ex[Vnlock(dir[s])] = s => ex'[Vnlock(dir[s])'] = s)
       /\ tgt[s] \in alloc /\ Holds(s, Vnlock(tgt[s])) /\ ~(pc[s] \in LockLabels /\ why[s] = "flush") =>
             /\ data'[tgt[s]] = data[tgt[s]] /\ Holds(s, Vnlock(tgt[s]))'
             /\ (ex[Vnlock(tgt[s])] = s => ex'[Vnlock(tgt[s])'] = s)
  BY <1>2, <1>6, <1>8 DEF Vnlock, Holds
<1>11. low[s] \in Lower \cup {Null} /\ ldvp[s] \in Lower \cup {Null}
       BY <1>1 DEF TypeOK, ThreadOK
<1>12. CreateLocks(s)'
  BY <1>1, <1>2, <1>4, <1>9, <1>10, <1>11 DEF CreateLocks, Locking, Locals, LowInv, LocalsOK,
     CreateLabels, NodegetLabels, LockLabels, Vnodes, Owns, Holds, Vnlock
<1>13. LookupLocks(s)'
  <2>1. pc[s] = "lu_check" /\ low[s] = ldvp[s] => ~udoomed'[dir[s]]
    <3> SUFFICES ASSUME pc[s] = "lu_check", low[s] = ldvp[s], udoomed'[dir[s]] PROVE FALSE
      OBVIOUS
    <3>1. /\ dir[s] \in Upper /\ dir[s] \in alloc /\ ~udoomed[dir[s]]
          /\ ex[ldvp[s]] = s /\ data[dir[s]] \in {ldvp[s], Null}
      BY <1>1, <1>9 DEF LocalsOK, Locking, LookupLocks, SleepInv, InLookup, LookupLabels, Owns
    <3>2. data[dir[s]] = ldvp[s] /\ ldvp[s] # Null BY <3>1, KnownAlias DEF Known
    <3>3. DoomStep(t) BY DEF ThreadStep, AliasStep
    <3>4. tgt[t] = dir[s] /\ pc[t] \in {"inact", "um_flush", "dp_fin"}
          BY <3>1, <3>3 DEF DoomStep
    <3>5. pc[t] # "dp_fin" BY <1>8, <3>4 DEF MakesProto, ProtoLabels
    <3>6. ex[Vnlock(tgt[t])] = t BY <3>4, <3>5 DEF NodeInv, Locking, VnodeLocks, Owns
    <3> QED BY <3>1, <3>2, <3>4, <3>6 DEF Vnlock
  <2> QED
      BY <1>1, <1>2, <1>4, <1>5, <1>7, <1>9, <1>10, <1>11, <2>1 DEF LookupLocks, Locking,
        Locals, LowInv,
         LdvpInv, InLookup, LookupLabels, LocalsOK, Vnodes, Owns, Holds, Vnlock
<1>14. VnodeLocks(s)'
  <2>1. pc[s] \in {"inact", "um_flush"} => ~udoomed'[tgt[s]]
    <3> SUFFICES ASSUME pc[s] \in {"inact", "um_flush"}, udoomed'[tgt[s]] PROVE FALSE
      OBVIOUS
    <3>1. tgt[s] \in alloc /\ tgt[s] \in Upper /\ ~udoomed[tgt[s]] /\
          ex[Vnlock(tgt[s])] = s
      BY <1>1, <1>9 DEF LocalsOK, Locking, VnodeLocks, Owns
    <3>2. DoomStep(t) BY DEF ThreadStep, AliasStep
    <3>3. tgt[t] = tgt[s] /\ pc[t] \in {"inact", "um_flush", "dp_fin"}
      BY <3>1, <3>2 DEF DoomStep
    <3>4. pc[t] # "dp_fin" BY <1>8, <3>3 DEF MakesProto, ProtoLabels, LockLabels
    <3>5. ex[Vnlock(tgt[t])] = t BY <3>3, <3>4 DEF NodeInv, Locking, VnodeLocks, Owns
    <3> QED BY <3>1, <3>3, <3>5
  <2> QED BY <1>1, <1>2, <1>9, <1>10, <2>1 DEF VnodeLocks, Locking, LocalsOK, PutLabels,
        ReclaimLabels,
         LockLabels, Locals, WhyInv, Owns, Holds
<1>15. ReclaimLocks(s)'
  <2>1. pc[s] \in ReclaimLabels /\ tgt[s] \notin hash => tgt[s] \notin hash'
    <3>1. HashStep(t) BY DEF ThreadStep, AliasStep
    <3>2. pc[s] \in ReclaimLabels => tgt[s] \in Upper /\ pc[s] \notin LockLabels
      BY <1>1 DEF LocalsOK, ReclaimLabels, LockLabels
    <3> QED BY <1>8, <3>1, <3>2 DEF HashStep, MakesProto, ProtoLabels
  <2>2. pc[s] \in ReclaimLabels => tgt[s] \in alloc /\ tgt[s] \in alloc'
    BY <1>1, <1>9 DEF LocalsOK, ReclaimLabels
  <2> QED
      BY <1>1, <1>2, <1>4, <1>5, <1>7, <1>9, <1>10, <2>1, <2>2 DEF ReclaimLocks, Locking,
        LocalsOK,
         Locals, LowInv, ReclaimLabels, LockLabels, Owns, Holds, Vnlock, Vnodes
<1>16. SleepInv(s)'
  BY <1>1, <1>2, <1>5, <1>9, <1>11 DEF SleepInv, Locking, InLookup, LocalsOK, LookupLabels,
     LockLabels
<1>17. TwoLocks(s)'
  BY <1>1, <1>2, <1>5, <1>9, <1>10, <1>11 DEF TwoLocks, VnodeLocks, Locking, LocalsOK, PutLabels,
     ReclaimLabels
<1>18. LowerAlive(s)'
  BY <1>1, <1>2, <1>3 DEF LowerAlive, Locking
<1> QED BY <1>12, <1>13, <1>14, <1>15, <1>16, <1>17, <1>18 DEF Locking

(* Another thread has no lock but those its label says.                    *)
LEMMA NoOtherLockKept ==
    ASSUME NodeInv, NEW t \in Threads, ThreadStep(t), NEW s \in Threads, s # t
    PROVE  NoOtherLock(s)'
<1> USE NodeConstants
<1>1. TypeOK /\ LockInv /\ Locals(s) /\ Locking(s) /\ RefInv(s) /\ LocalsOK(s) /\
      NoOtherLock(s)
  BY DEF NodeInv, TypeOK
<1>2. /\ pc'[s] = pc[s] /\ call'[s] = call[s] /\ low'[s] = low[s]
      /\ up'[s] = up[s] /\ dir'[s] = dir[s] /\ ldvp'[s] = ldvp[s] /\ tgt'[s] = tgt[s]
  BY DEF ThreadStep, Alone
<1>3. \A k \in Vnodes : Holds(s, k)' <=> Holds(s, k) BY Neighbour DEF Holds
<1>4. \A x \in alloc : data'[x] \in {data[x], Null} BY Neighbour
<1>5. ASSUME NEW x \in alloc, Holds(s, Vnlock(x)), ~(MakesProto(t) /\ tgt[t] = x)
      PROVE  Vnlock(x)' = Vnlock(x) /\ Holds(s, Vnlock(x))'
  <2>1. data'[x] = data[x] BY <1>5, Neighbour
  <2>2. Vnlock(x) \in Vnodes BY <1>1 DEF Vnlock, TypeOK, AliasOK, Vnodes
  <2> QED BY <1>3, <1>5, <2>1, <2>2 DEF Vnlock
<1>6. /\ \A x \in {up[s], dir[s]} : ~(MakesProto(t) /\ tgt[t] = x)
      /\ ~(pc[s] \in LockLabels /\ why[s] = "flush") => ~(MakesProto(t) /\ tgt[t] = tgt[s])
  BY Neighbour
<1>7. /\ up[s] # Null => up[s] \in alloc
      /\ dir[s] # Null => dir[s] \in alloc
      /\ tgt[s] # Null => tgt[s] \in alloc
  BY <1>1 DEF RefInv
<1>8. /\ up[s] # Null /\ Holds(s, Vnlock(up[s])) => Vnlock(up[s])' = Vnlock(up[s])
      /\ dir[s] # Null /\ Holds(s, Vnlock(dir[s])) => Vnlock(dir[s])' = Vnlock(dir[s]) /\ Holds(s, Vnlock(dir[s]))'
      /\ tgt[s] # Null /\ Holds(s, Vnlock(tgt[s])) /\ pc[s] \notin LockLabels
         => Vnlock(tgt[s])' = Vnlock(tgt[s])
  BY <1>2, <1>5, <1>6, <1>7 DEF Vnlock
<1>9. DirLock(s)' = DirLock(s) \/ pc[s] \notin CreateLabels
  BY <1>1, <1>2, <1>8 DEF DirLock, CreateLocks, Locking, LocalsOK, CreateLabels, Owns, Holds, Vnlock
<1>10. UpLock(s)' = UpLock(s) \/ pc[s] \notin PutLabels \cup {"putdir"}
  BY <1>1, <1>2, <1>8 DEF UpLock, VnodeLocks, Locking
<1>11. pc[s] \in {"lu_err", "putdir"} => dir[s] # Null /\ (Vnlock(dir[s])' = Vnlock(dir[s]))

                                       /\ (Holds(s, Vnlock(dir[s]))' <=> Holds(s, Vnlock(dir[s])))
  <2> SUFFICES ASSUME pc[s] \in {"lu_err", "putdir"} PROVE dir[s] # Null /\ (Vnlock(dir[s])' = Vnlock(dir[s]))
                                       /\ (Holds(s, Vnlock(dir[s]))' <=> Holds(s, Vnlock(dir[s])))
    OBVIOUS
  <2>1. dir[s] # Null /\ dir[s] \in Upper /\ Vnlock(dir[s]) \in Vnodes
    BY <1>1 DEF LocalsOK, Vnlock, TypeOK, AliasOK, Vnodes
  <2>2. CASE Holds(s, Vnlock(dir[s])) BY <2>1, <2>2, <1>8
  <2>3. CASE data[dir[s]] = Null BY <1>2, <1>3, <1>4, <1>7, <2>1, <2>3 DEF Vnlock
  <2> QED BY <1>1, <2>2, <2>3 DEF Locking, LookupLocks
<1>12. ASSUME NEW k \in MayHold(s), k \in Vnodes PROVE k \in MayHold(s)'
  BY <1>1, <1>2, <1>8, <1>9, <1>10, <1>11, <1>12 DEF MayHold, Locking, VnodeLocks, LocalsOK,
     CreateLabels,
     NodegetLabels, PutLabels, ReclaimLabels, LockLabels, Owns, Holds
<1> QED BY <1>1, <1>3, <1>12 DEF NoOtherLock

(* The alias another thread is creating stays its own.                     *)
LEMMA ProtoKept ==
    ASSUME NodeInv, NEW t \in Threads, ThreadStep(t), NEW s \in Threads, s # t
    PROVE  ProtoInv(s)'
<1> USE NodeConstants
<1> SUFFICES ASSUME MakesProto(s)' PROVE ProtoInv(s)'
  BY DEF ProtoInv
<1>1. TypeOK /\ Locals(s) /\ Locking(s) /\ RefInv(s) /\ LocalsOK(s) /\ ProtoInv(s)
  BY DEF NodeInv, TypeOK
<1>2. \A r \in Threads \ {t} : /\ pc'[r] = pc[r] /\ low'[r] = low[r] /\ mp'[r] = mp[r]
                               /\ up'[r] = up[r] /\ dir'[r] = dir[r] /\ tgt'[r] = tgt[r]
                               /\ why'[r] = why[r]
  BY DEF ThreadStep, Alone
<1>3. MakesProto(s) /\ tgt[s] \in Upper /\ tgt[s] \in alloc
  BY <1>1, <1>2 DEF MakesProto, ProtoLabels, LocalsOK, RefInv
<1>4. /\ tgt[s] \notin hash /\ tgt[s] \notin deferred /\ ~udoomed[tgt[s]]
      /\ up[t] # tgt[s] /\ dir[t] # tgt[s]
      /\ tgt[t] = tgt[s] => /\ pc[t] \in LockLabels /\ why[t] = "flush"
                            /\ mnt[tgt[s]] # Null
  BY <1>1, <1>3 DEF ProtoInv
<1>5. AliasStep(t) /\ RefStep(t) /\ TgtStep(t) BY DEF ThreadStep
<1>6. /\ tgt[s] \notin hash' /\ tgt[s] \notin deferred' /\ ~udoomed'[tgt[s]]
      /\ data'[tgt[s]] = data[tgt[s]] /\ mnt'[tgt[s]] = mnt[tgt[s]]
  BY <1>3, <1>4, <1>5 DEF AliasStep, HashStep, DeferStep, DoomStep, DataStep, MntStep, LockLabels
<1>7. up'[t] # tgt[s] /\ dir'[t] # tgt[s]
  BY <1>3, <1>4, <1>5 DEF RefStep, Held, Aliases, LockLabels
<1>8. ASSUME tgt'[t] = tgt[s]
      PROVE  pc'[t] \in LockLabels /\ why'[t] = "flush" /\ mnt[tgt[s]] # Null
  <2>1. CASE pc[t] = "um_pick" /\ mnt[tgt'[t]] # Null /\ pc'[t] = "lk_start" /\ why'[t] = "flush"
    BY <1>8, <2>1 DEF LockLabels
  <2>2. CASE tgt'[t] = tgt[t] /\ pc'[t] \in LockLabels /\ why'[t] = why[t]
    BY <1>4, <1>8, <2>2
  <2>3. CASE tgt'[t] = tgt[t] /\ pc[t] = "lk_lower" /\ data[tgt[t]] # Null /\ ex[low[t]] = NoThread
    <3>1. low[t] = data[tgt[s]] BY <1>8, <2>3 DEF NodeInv, Locking, SleepInv
    <3>2. pc[s] # "dp_fin" /\ low[s] = data[tgt[s]] BY <1>1, <1>3, <1>8, <2>3 DEF ProtoInv
    <3>3. mnt[tgt[s]] # Null BY <1>4, <1>8, <2>3
    <3>4. ex[low[s]] = s
      BY <1>1, <1>3, <3>2, <3>3 DEF ProtoInv, MakesProto, ProtoLabels, Locking, CreateLocks, Owns
    <3> QED BY <2>3, <3>1, <3>2, <3>4
  <2>4. CASE tgt'[t] = tgt[t] /\ pc[t] = "lk_own" /\ ex[tgt[t]] = NoThread
    <3>1. data[tgt[s]] = Null BY <1>8, <2>4 DEF NodeInv, Locking, SleepInv
    <3>2. low[s] \in Lower
      BY <1>1, <1>3 DEF Locals, LowInv, MakesProto, ProtoLabels, CreateLabels, NodegetLabels
    <3>3. pc[s] = "dp_fin" BY <1>1, <1>3, <3>1, <3>2 DEF ProtoInv
    <3>4. ex[tgt[s]] = s BY <1>1, <3>3 DEF Locking, CreateLocks, Owns
    <3> QED BY <1>8, <2>4, <3>4
  <2>5. tgt[t] = tgt[s] => pc[t] \in LockLabels BY <1>4
  <2> QED BY <1>3, <1>4, <1>5, <1>8, <2>1, <2>2, <2>3, <2>4, <2>5 DEF TgtStep
<1>9. \A r \in Threads : /\ up'[r] # tgt[s] /\ dir'[r] # tgt[s]
                         /\ r # s /\ tgt'[r] = tgt[s] => /\ pc'[r] \in LockLabels /\ why'[r] = "flush"
                                                         /\ mnt[tgt[s]] # Null
  <2>1. ASSUME NEW r \in Threads, r # t
        PROVE  /\ up'[r] # tgt[s] /\ dir'[r] # tgt[s]
               /\ r # s /\ tgt'[r] = tgt[s] => /\ pc'[r] \in LockLabels /\ why'[r] = "flush"
                                               /\ mnt[tgt[s]] # Null
    BY <1>1, <1>2, <1>3, <2>1 DEF ProtoInv
  <2> QED BY <1>7, <1>8, <2>1
<1> QED BY <1>1, <1>2, <1>3, <1>6, <1>9 DEF ProtoInv

(* The mount another thread works on stays in the phase it relies on.      *)
LEMMA MountKept ==
    ASSUME NodeInv, NEW t \in Threads, ThreadStep(t), MountInv(t)', NEW s \in Threads, s # t
    PROVE  MountInv(s)'
<1> USE NodeConstants
<1>1. TypeOK /\ MountInv(s) /\ MountInv(t) /\ RefInv(s) /\ LocalsOK(s)
      BY DEF NodeInv, TypeOK
<1>2. \A r \in Threads \ {t} : /\ pc'[r] = pc[r] /\ call'[r] = call[r] /\ mp'[r] = mp[r]
                               /\ dir'[r] = dir[r] /\ why'[r] = why[r]
  BY DEF ThreadStep, Alone
<1>3. MountStep(t) /\ MntStep(t) BY DEF ThreadStep, AliasStep
<1>4. \A r \in Threads \ {t} : Flushes(r)' <=> Flushes(r) BY <1>2 DEF Flushes
<1>5. Flushes(s) => mp[s] \in Mounts /\ mstate'[mp[s]] \in {"unmount", "force"}
  BY <1>1, <1>3 DEF MountInv, MountStep, Flushes
<1>6. pc[s] = "um_fin" => Listed(mp[s])' = {}
  <2> SUFFICES ASSUME pc[s] = "um_fin", NEW u \in Upper, mnt'[u] = mp[s] PROVE FALSE
    BY <1>2 DEF Listed
  <2>1. Flushes(s) /\ mp[s] \in Mounts /\ mstate[mp[s]] \in {"unmount", "force"} /\
        Listed(mp[s]) = {}
    BY <1>1 DEF MountInv, Flushes
  <2>2. mnt[u] # mp[s] BY <2>1 DEF Listed
  <2>3. mp[s] = mp[t] /\ ~Refuses(mp[t]) BY <1>3, <2>1, <2>2 DEF MntStep
  <2> QED BY <2>1, <2>3 DEF Refuses
<1>7. \A r \in Threads : Flushes(r)' /\ Flushes(s)' /\ mp'[r] = mp'[s] => r = s
  <2>1. Flushes(t)' /\ Flushes(s)' /\ mp'[t] = mp'[s] => t = s BY DEF MountInv
  <2>2. \A r \in Threads \ {t} : Flushes(r)' /\ Flushes(s)' /\ mp'[r] = mp'[s] => r = s
    BY <1>1, <1>2, <1>4 DEF MountInv
  <2> QED BY <2>1, <2>2
<1>8. pc[s] \in CreateLabels \cup {"vget"} /\ call[s] = "root" => mp[s] \in Mounts /\ mstate'[mp[s]] = "mounted"
  <2> SUFFICES ASSUME pc[s] \in CreateLabels \cup {"vget"}, call[s] = "root"
               PROVE  mp[s] \in Mounts /\ mstate'[mp[s]] = "mounted"
    OBVIOUS
  <2>1. mp[s] \in Mounts /\ mstate[mp[s]] = "mounted" BY <1>1 DEF MountInv
  <2>2. RootBusy(mp[s]) BY <2>1 DEF RootBusy, CreateLabels
  <2> QED BY <1>1, <1>3, <2>1, <2>2 DEF MountStep, MountInv, Flushes
<1>9. dir[s] \in Upper /\ mnt'[dir[s]] # mnt[dir[s]] =>
         mnt'[dir[s]] = Null /\ data[dir[s]] = Null
  <2> SUFFICES ASSUME dir[s] \in Upper, mnt'[dir[s]] # mnt[dir[s]]
               PROVE  mnt'[dir[s]] = Null /\ data[dir[s]] = Null
    OBVIOUS
  <2>1. dir[s] = tgt[t] /\ pc[t] \in {"ng_insmnt", "dp_fin", "rc_fin"} BY <1>3 DEF MntStep
  <2>2. ~MakesProto(t) BY <2>1, Neighbour
  <2> QED
      BY <1>3, <2>1, <2>2 DEF MntStep, MakesProto, ProtoLabels, NodeInv, Locking, ReclaimLocks
<1>10. /\ pc[s] \in CreateLabels /\ call[s] = "lookup" => mnt'[dir[s]] = mp[s]
       /\ InLookup(s) => mnt'[dir[s]] \in {mp[s], Null}
  <2>1. pc[s] \in CreateLabels /\ call[s] = "lookup" => data[dir[s]] # Null
    BY DEF NodeInv, Locking, CreateLocks
  <2> QED BY <1>1, <1>9, <2>1 DEF MountInv, LocalsOK, InLookup, CreateLabels, LookupLabels
<1> QED BY <1>1, <1>2, <1>4, <1>5, <1>6, <1>7, <1>8, <1>10 DEF MountInv, InLookup

(* What the proofs about the shared state use of every thread.             *)
ThreadsInv ==
    \A s \in Threads : /\ Locals(s) /\ Locking(s) /\ NoOtherLock(s)
                       /\ ProtoInv(s) /\ RefInv(s) /\ MountInv(s)

(* A reclaimer that is not done keeps its vnode allocated.                 *)
LEMMA ReclaimerStays ==
    ASSUME NodeInv, NEW t \in Threads, ThreadStep(t), TypeOK', ThreadsInv',
           NEW u \in Upper, NEW s \in Threads, tgt[s] = u,
           pc[s] \in {"rc_hash", "rc_detach", "rc_rele"} \/ (pc[s] = "rc_fin" /\ s # t)
    PROVE  u \in alloc' /\ tgt'[s] = u /\ pc'[s] \in ReclaimLabels /\ (s # t => pc'[s] = pc[s])
<1>1. Alone(t) /\ StayStep(t) BY DEF ThreadStep
<1>2. tgt'[s] = u /\ pc'[s] \in ReclaimLabels /\ (s # t => pc'[s] = pc[s])
  BY <1>1 DEF Alone, StayStep, ReclaimLabels
<1> QED BY <1>2, NodeConstants DEF ThreadsInv, RefInv

(* An alias in the hash keeps its lower vnode and its mount.               *)
LEMMA HashedStays ==
    ASSUME NodeInv, NEW t \in Threads, ThreadStep(t), TypeOK', ThreadsInv', NEW u \in hash
    PROVE  u \in alloc' /\ data'[u] = data[u] /\ mnt'[u] = mnt[u]
<1> USE NodeConstants
<1>1. TypeOK /\ AliasInv /\ DoomedInv /\ Locking(t) /\ ProtoInv(t) BY DEF NodeInv
<1>2. AliasStep(t) BY DEF ThreadStep
<1>3. u \in Upper /\ u \in alloc BY <1>1 DEF TypeOK, AliasOK, AliasInv
<1>4. ~(MakesProto(t) /\ tgt[t] = u) BY <1>1 DEF ProtoInv
<1>5. ~(pc[t] \in {"rc_detach", "rc_rele", "rc_fin"} /\ tgt[t] = u) BY <1>1 DEF Locking,
      ReclaimLocks
<1>6. data'[u] = data[u]
      BY <1>2, <1>3, <1>4, <1>5 DEF AliasStep, DataStep, MakesProto, ProtoLabels
<1>7. mnt'[u] = mnt[u]
      BY <1>2, <1>3, <1>4, <1>5 DEF AliasStep, MntStep, MakesProto, ProtoLabels
<1>8. ASSUME u \notin alloc' PROVE FALSE
  <2>1. udoomed[u]
        BY <1>2, <1>3, <1>4, <1>8 DEF AliasStep, AllocStep, MakesProto, ProtoLabels
  <2>2. PICK s \in Threads : pc[s] = "rc_hash" /\ tgt[s] = u
        BY <1>1, <1>3, <2>1 DEF DoomedInv
  <2> QED BY <1>3, <1>8, <2>2, ReclaimerStays
<1> QED BY <1>6, <1>7, <1>8

(* What the hash links is a live alias with a lower vnode and a mount.     *)
LEMMA HashKept ==
    ASSUME NodeInv, NEW t \in Threads, ThreadStep(t), TypeOK', ThreadsInv', NEW u \in Upper, u \in hash'
    PROVE  /\ u \in alloc' /\ data'[u] # Null /\ mnt'[u] # Null
           /\ u \notin hash => /\ Aliases(mp[t], low[t]) = {} /\ ~udoomed[u] /\ ~udoomed'[u]
                               /\ data'[u] = low[t] /\ mnt'[u] = mp[t]
<1> USE NodeConstants
<1>1. TypeOK /\ AliasInv /\ Locals(t) /\ ProtoInv(t) /\ RefInv(t) /\ MountInv(t)
      BY DEF NodeInv
<1>2. AliasStep(t) BY DEF ThreadStep
<1>3. CASE u \in hash BY <1>1, <1>3, HashedStays DEF AliasInv
<1>4. CASE u \notin hash
  <2>1. u = tgt[t] /\ pc[t] = "ng_hashins" /\ Aliases(mp[t], low[t]) = {}
    BY <1>2, <1>4 DEF AliasStep, HashStep
  <2>2. data[u] = low[t] /\ mnt[u] = mp[t] /\ ~udoomed[u]
        BY <1>1, <2>1 DEF ProtoInv, MakesProto,
        ProtoLabels
  <2>3. low[t] \in Lower BY <1>1, <2>1 DEF Locals, LowInv, CreateLabels, NodegetLabels
  <2>4. mp[t] \in Mounts BY <1>1, <2>1 DEF MountInv, CreateLabels, NodegetLabels
  <2>5. u \in alloc BY <1>1, <2>1 DEF RefInv
  <2>6. data'[u] = data[u] /\ mnt'[u] = mnt[u]
    BY <1>2, <2>1, <2>5 DEF AliasStep, DataStep, MntStep
  <2>7. u \in alloc' BY <1>2, <2>1, <2>5, <2>2 DEF AliasStep, AllocStep
  <2>8. ~udoomed'[u] BY <1>2, <2>1, <2>2 DEF AliasStep, DoomStep
  <2> QED BY <2>1, <2>2, <2>3, <2>4, <2>6, <2>7, <2>8
<1> QED BY <1>3, <1>4

(* A creator stays one until its alias is hashed or gone.                  *)
LEMMA ProtoStays ==
    ASSUME NodeInv, NEW t \in Threads, ThreadStep(t), NEW u \in Upper, u \in alloc', u \notin hash',
           Proto(u) \/ u \notin alloc
    PROVE  Proto(u)' \/ (udoomed'[u] /\ data[u] = Null)
<1> USE NodeConstants
<1>1. CASE Proto(u)
  <2>1. PICK s \in Threads : MakesProto(s) /\ tgt[s] = u BY <1>1 DEF Proto
  <2>2. CASE s # t BY <2>1, <2>2 DEF ThreadStep, Alone, MakesProto, Proto
  <2>3. CASE s = t
    <3>1. StayStep(t) /\ ProtoInv(t) BY DEF ThreadStep, NodeInv
    <3>2. CASE pc[t] = "dp_fin" BY <2>1, <2>3, <3>1, <3>2 DEF StayStep, ProtoInv
    <3>3. CASE pc[t] # "dp_fin"
      <4>1. MakesProto(t)' /\ tgt'[t] = u
        BY <2>1, <2>3, <3>1, <3>3 DEF StayStep, MakesProto, ProtoLabels
      <4> QED BY <4>1 DEF Proto
    <3> QED BY <3>2, <3>3
  <2> QED BY <2>2, <2>3
<1>2. CASE u \notin alloc
  <2>1. TypeOK /\ AliasInv /\ RefInv(t) BY DEF NodeInv
  <2>2. pc[t] = "ng_new" /\ tgt'[t] = u BY <1>2 DEF ThreadStep, AliasStep, AllocStep
  <2>3. deferred \subseteq alloc BY <2>1 DEF AliasInv, TypeOK, AliasOK
  <2>4. pc'[t] = "ng_insmnt"
    BY <1>2, <2>1, <2>2, <2>3 DEF ThreadStep, TgtStep, RefInv
  <2>5. MakesProto(t)' BY <2>4 DEF MakesProto, ProtoLabels
  <2> QED BY <2>2, <2>5 DEF Proto
<1> QED BY <1>1, <1>2

(* Free, hashed and half made aliases are as AliasInv says.                *)
LEMMA AliasKept ==
    ASSUME NodeInv, NEW t \in Threads, ThreadStep(t), TypeOK', ThreadsInv'
    PROVE  AliasInv'
<1> USE NodeConstants
<1>1. TypeOK /\ AliasInv /\ DoomedInv /\ Locals(t) /\ Locking(t) /\ ProtoInv(t) /\
      RefInv(t) /\ MountInv(t)
  BY DEF NodeInv
<1>2. AliasStep(t) /\ StayStep(t) /\ CountStep BY DEF ThreadStep, CountSteps
<1>3. HoldExact' BY CountsKept
<1> SUFFICES ASSUME NEW u \in Upper
             PROVE  /\ u \in hash' => u \in alloc' /\ data'[u] # Null /\ mnt'[u] # Null
                    /\ u \in deferred' => u \in alloc' /\ ~udoomed'[u]
                    /\ u \notin alloc' => /\ ~udoomed'[u] /\ data'[u] = Null /\ mnt'[u] = Null
                                          /\ uuse'[u] = 0 /\ uhold'[u] = 0
                    /\ u \in alloc' /\ data'[u] = Null => udoomed'[u] \/ Proto(u)'
                    /\ u \in alloc' /\ data'[u] # Null => mnt'[u] # Null \/ Proto(u)'
                    /\ u \in alloc' /\ udoomed'[u] => uuse'[u] + uhold'[u] > 0
  BY DEF AliasInv
<1>4. u \in hash' => u \in alloc' /\ data'[u] # Null /\ mnt'[u] # Null BY HashKept
<1>5. u \in deferred' => u \in alloc' /\ ~udoomed'[u]
  <2> SUFFICES ASSUME u \in deferred' PROVE u \in alloc' /\ ~udoomed'[u]
    OBVIOUS
  <2>1. uhold'[u] = Count(HoldOf', u) + 1 BY <1>3 DEF HoldExact, Count
  <2>2. Count(HoldOf', u) \in Nat BY CountNat DEF Count
  <2>3. u \in alloc' BY <1>2, <2>1, <2>2 DEF CountStep
  <2>4. u \in deferred => ~udoomed[u] /\ u \in alloc BY <1>1 DEF AliasInv
  <2>5. pc[t] = "dp_fin" => tgt[t] \notin deferred
        BY <1>1 DEF ProtoInv, MakesProto, ProtoLabels
  <2> QED BY <1>2, <2>3, <2>4, <2>5 DEF AliasStep, DeferStep, DoomStep
<1>6. u \notin alloc' => /\ ~udoomed'[u] /\ data'[u] = Null /\ mnt'[u] = Null
                         /\ uuse'[u] = 0 /\ uhold'[u] = 0
  <2> SUFFICES ASSUME u \notin alloc' PROVE ~udoomed'[u] /\ data'[u] = Null /\ mnt'[u] = Null
    BY <1>2 DEF CountStep
  <2>1. CASE u \notin alloc
    <3>1. ~udoomed[u] /\ data[u] = Null /\ mnt[u] = Null /\ tgt[t] # u
          BY <1>1, <2>1 DEF AliasInv,
          RefInv
    <3>2. tgt'[t] # u BY DEF ThreadsInv, RefInv
    <3> QED BY <1>2, <2>1, <3>1, <3>2 DEF AliasStep, DoomStep, DataStep, MntStep
  <2>2. CASE u \in alloc
    <3>1. ~udoomed'[u] /\ u = tgt[t] /\ ((udoomed[u] /\ HasHold(t)) \/ pc[t] = "dp_fin")
      BY <1>2, <2>2 DEF AliasStep, AllocStep
    <3>2. CASE pc[t] = "dp_fin"
      <4>1. data[u] = Null BY <1>1, <3>1, <3>2 DEF ProtoInv, MakesProto, ProtoLabels
      <4> QED BY <1>2, <2>2, <3>1, <3>2, <4>1 DEF AliasStep, DataStep, StayStep
    <3>3. CASE udoomed[u] /\ HasHold(t)
      <4>1. pc[t] \notin {"ng_new", "ng_insmnt"}
        BY <3>3 DEF HasHold, PutLabels, ReclaimLabels, VnLockLabels, LockLabels
      <4>2. ASSUME data'[u] # Null PROVE FALSE
        <5>1. data[u] # Null BY <1>2, <2>2, <4>2 DEF AliasStep, DataStep
        <5>2. PICK s \in Threads : pc[s] \in {"rc_hash", "rc_detach"} /\ tgt[s] = u
          BY <1>1, <3>3, <5>1 DEF DoomedInv
        <5> QED BY <5>2, ReclaimerStays
      <4>3. ASSUME mnt'[u] # Null PROVE FALSE
        <5>1. mnt[u] # Null BY <1>2, <4>1, <4>3 DEF AliasStep, MntStep
        <5>2. PICK s \in Threads : pc[s] \in ReclaimLabels /\ tgt[s] = u
          BY <1>1, <3>3, <5>1 DEF DoomedInv
        <5>3. ~(s = t /\ pc[s] = "rc_fin") BY <1>2, <4>3, <5>2 DEF StayStep
        <5> QED BY <5>2, <5>3, ReclaimerStays DEF ReclaimLabels
      <4> QED BY <3>1, <4>2, <4>3
    <3> QED BY <3>1, <3>2, <3>3
  <2> QED BY <2>1, <2>2
<1>7. u \in alloc' /\ data'[u] = Null => udoomed'[u] \/ Proto(u)'
  <2> SUFFICES ASSUME u \in alloc', data'[u] = Null PROVE udoomed'[u] \/ Proto(u)'
    OBVIOUS
  <2>1. u \notin hash' BY <1>4
  <2>2. u \in alloc /\ udoomed[u] => udoomed'[u] BY <1>2 DEF AliasStep, DoomStep
  <2>3. CASE u \notin alloc \/ Proto(u) BY <2>1, <2>3, ProtoStays
  <2>4. CASE u \in alloc /\ ~Proto(u) /\ ~udoomed[u]
    <3>1. data[u] # Null BY <1>1, <2>4 DEF AliasInv
    <3>2. u = tgt[t] /\ pc[t] \in {"dp_detach", "rc_detach"}
      BY <1>2, <2>4, <3>1 DEF AliasStep, DataStep
    <3>3. pc[t] # "dp_detach" BY <2>4, <3>2 DEF Proto, MakesProto, ProtoLabels
    <3> QED BY <1>1, <2>4, <3>2, <3>3 DEF Locking, ReclaimLocks, ReclaimLabels
  <2> QED BY <2>2, <2>3, <2>4
<1>8. u \in alloc' /\ data'[u] # Null => mnt'[u] # Null \/ Proto(u)'
  <2> SUFFICES ASSUME u \in alloc', data'[u] # Null PROVE mnt'[u] # Null \/ Proto(u)'
    OBVIOUS
  <2>1. CASE u \in hash' BY <1>4, <2>1
  <2>2. CASE u \notin hash' /\ (u \notin alloc \/ Proto(u))
    <3>1. u \in alloc => data[u] # Null BY <1>2 DEF AliasStep, DataStep
    <3>2. u \in alloc => Proto(u)' BY <2>2, <3>1, ProtoStays
    <3>3. u \notin alloc => ~udoomed[u] /\ tgt[t] # u BY <1>1 DEF AliasInv, RefInv
    <3>4. u \notin alloc => ~udoomed'[u] BY <1>2, <3>3 DEF AliasStep, DoomStep
    <3> QED BY <2>2, <3>2, <3>4, ProtoStays
  <2>3. CASE u \in alloc /\ ~Proto(u)
    <3>1. data[u] # Null BY <1>2, <2>3 DEF AliasStep, DataStep
    <3>2. mnt[u] # Null BY <1>1, <2>3, <3>1 DEF AliasInv
    <3>3. ~(MakesProto(t) /\ tgt[t] = u) BY <2>3 DEF Proto
    <3>4. ~(pc[t] = "rc_fin" /\ tgt[t] = u) BY <1>1, <3>1 DEF Locking, ReclaimLocks
    <3> QED BY <1>2, <3>2, <3>3, <3>4 DEF AliasStep, MntStep, MakesProto, ProtoLabels
  <2> QED BY <2>1, <2>2, <2>3
<1>9. u \in alloc' /\ udoomed'[u] => uuse'[u] + uhold'[u] > 0 BY <1>2 DEF CountStep
<1> QED BY <1>4, <1>5, <1>6, <1>7, <1>8, <1>9

(* A doomed alias that is still linked somewhere has its reclaimer.        *)
LEMMA DoomedKept ==
    ASSUME NodeInv, NEW t \in Threads, ThreadStep(t), TypeOK', ThreadsInv'
    PROVE  DoomedInv'
<1> USE NodeConstants
<1>1. TypeOK /\ AliasInv /\ DoomedInv /\ Locking(t) /\ ProtoInv(t) /\ RefInv(t)
      BY DEF NodeInv
<1>2. AliasStep(t) /\ StayStep(t) BY DEF ThreadStep
<1> SUFFICES ASSUME NEW u \in Upper, udoomed'[u]
             PROVE  /\ data'[u] # Null => \E s \in Threads : pc'[s] \in {"rc_hash", "rc_detach"} /\ tgt'[s] = u
                    /\ mnt'[u] # Null => \E s \in Threads : pc'[s] \in ReclaimLabels /\ tgt'[s] = u
                    /\ u \in hash' => \E s \in Threads : pc'[s] = "rc_hash" /\ tgt'[s] = u
  BY DEF DoomedInv
<1>3. CASE ~udoomed[u] /\ pc[t] # "dp_fin"
  <2>1. pc'[t] = "rc_hash" /\ tgt'[t] = u BY <1>2, <1>3 DEF AliasStep, DoomStep
  <2> QED BY <2>1 DEF ReclaimLabels
<1>4. CASE ~udoomed[u] /\ pc[t] = "dp_fin"
  <2>1. u = tgt[t] BY <1>2, <1>4 DEF AliasStep, DoomStep
  <2>2. data[u] = Null /\ u \notin hash /\ u \in alloc
    BY <1>1, <1>4, <2>1 DEF ProtoInv, MakesProto, ProtoLabels, RefInv
  <2>3. data'[u] = Null /\ u \notin hash' /\ mnt'[u] = Null
    BY <1>2, <1>4, <2>1, <2>2 DEF AliasStep, DataStep, HashStep, StayStep
  <2> QED BY <2>3
<1>5. CASE udoomed[u]
  <2>1. u \in alloc BY <1>1, <1>5 DEF AliasInv
  <2>2. ~(MakesProto(t) /\ tgt[t] = u) BY <1>1, <1>5 DEF ProtoInv
  <2>3. data'[u] # Null => \E s \in Threads : pc'[s] \in {"rc_hash", "rc_detach"} /\ tgt'[s] = u
    <3> SUFFICES ASSUME data'[u] # Null
                 PROVE  \E s \in Threads : pc'[s] \in {"rc_hash", "rc_detach"} /\ tgt'[s] = u
      OBVIOUS
    <3>1. data[u] # Null BY <1>2, <2>1 DEF AliasStep, DataStep
    <3>2. PICK s \in Threads : pc[s] \in {"rc_hash", "rc_detach"} /\ tgt[s] = u
      BY <1>1, <1>5, <3>1 DEF DoomedInv
    <3>3. CASE s # t BY <3>2, <3>3 DEF ThreadStep, Alone
    <3>4. CASE s = t BY <1>2, <3>2, <3>4 DEF StayStep
    <3> QED BY <3>3, <3>4
  <2>4. mnt'[u] # Null => \E s \in Threads : pc'[s] \in ReclaimLabels /\ tgt'[s] = u
    <3> SUFFICES ASSUME mnt'[u] # Null
                 PROVE  \E s \in Threads : pc'[s] \in ReclaimLabels /\ tgt'[s] = u
      OBVIOUS
    <3>1. mnt[u] # Null BY <1>2, <2>2 DEF AliasStep, MntStep, MakesProto, ProtoLabels
    <3>2. PICK s \in Threads : pc[s] \in ReclaimLabels /\ tgt[s] = u BY <1>1, <1>5, <3>1
          DEF DoomedInv
    <3>3. CASE s # t BY <3>2, <3>3 DEF ThreadStep, Alone
    <3>4. CASE s = t BY <1>2, <3>2, <3>4 DEF StayStep, ReclaimLabels
    <3> QED BY <3>3, <3>4
  <2>5. u \in hash' => \E s \in Threads : pc'[s] = "rc_hash" /\ tgt'[s] = u
    <3> SUFFICES ASSUME u \in hash' PROVE \E s \in Threads : pc'[s] = "rc_hash" /\ tgt'[s] = u
      OBVIOUS
    <3>1. u \in hash BY <1>5, HashKept
    <3>2. PICK s \in Threads : pc[s] = "rc_hash" /\ tgt[s] = u
          BY <1>1, <1>5, <3>1 DEF DoomedInv
    <3>3. CASE s # t BY <3>2, <3>3 DEF ThreadStep, Alone
    <3>4. CASE s = t BY <1>2, <3>2, <3>4 DEF StayStep
    <3> QED BY <3>3, <3>4
  <2> QED BY <2>3, <2>4, <2>5
<1> QED BY <1>3, <1>4, <1>5

(* The mount list of an unmounted tptfs stays empty.                       *)
LEMMA GoneKept ==
    ASSUME NodeInv, NEW t \in Threads, ThreadStep(t)
    PROVE  GoneInv'
<1> USE NodeConstants
<1>1. GoneInv /\ MountInv(t) BY DEF NodeInv
<1>2. MntStep(t) /\ MountStep(t) BY DEF ThreadStep, AliasStep
<1> SUFFICES ASSUME NEW m \in Mounts, mstate'[m] = "gone", NEW u \in Upper, mnt'[u] = m PROVE FALSE
  BY DEF GoneInv, Listed
<1>3. CASE mstate[m] = "gone"
  <2>1. mnt[u] # m BY <1>1, <1>3 DEF GoneInv, Listed
  <2> QED BY <1>2, <1>3, <2>1 DEF MntStep, Refuses
<1>4. CASE mstate[m] # "gone"
  <2>1. pc[t] = "um_fin" /\ mp[t] = m BY <1>2, <1>4 DEF MountStep
  <2>2. mnt[u] # m BY <1>1, <2>1 DEF MountInv, Listed
  <2> QED BY <1>2, <2>1, <2>2 DEF MntStep
<1> QED BY <1>3, <1>4

(* A mount keeps at most one alias of a lower vnode in the hash.           *)
LEMMA UniqueKept ==
    ASSUME NodeInv, NEW t \in Threads, ThreadStep(t), TypeOK', ThreadsInv'
    PROVE  UniqueAlias'
<1>1. UniqueAlias /\ hash \subseteq Upper /\ hash' \subseteq Upper
      BY DEF NodeInv, TypeOK, AliasOK
<1>2. \A u \in hash : data'[u] = data[u] /\ mnt'[u] = mnt[u] BY HashedStays
<1>3. \A u \in hash' \ hash : /\ Aliases(mp[t], low[t]) = {}
                              /\ data'[u] = low[t] /\ mnt'[u] = mp[t] /\ u = tgt[t]
  <2>1. HashStep(t) BY DEF ThreadStep, AliasStep
  <2> QED BY <1>1, <2>1, HashKept DEF HashStep
<1> QED BY <1>1, <1>2, <1>3 DEF UniqueAlias, Aliases

-----------------------------------------------------------------------------
(* Every step of a thread keeps NodeInv.                                   *)
LEMMA ThreadKeeps ==
    ASSUME NodeInv, NEW t \in Threads, Continue(t) \/ Begin(t)
    PROVE  NodeInv'
<1>1. ThreadStep(t) BY EveryStep
<1>2. TypeOK'
  <2>1. TypeOK /\ Next BY DEF NodeInv, Next
  <2> QED BY <2>1, TypeStep
<1>3. SelfInv(t)'
  BY <1>2, VgetSelf, NodegetSelf, VnLockSelf, PutSelf, ReclaimSelf, UnmountSelf, LookupStepsSelf,
     VptocnpStepsSelf, BeginSelf DEF Continue
<1>4. ASSUME NEW s \in Threads PROVE Locals(s)'
  <2>1. CASE s = t BY <1>3, <2>1 DEF SelfInv
  <2>2. CASE s # t
    <3>1. Locals(s) /\ Alone(t) BY <1>1 DEF NodeInv, ThreadStep
    <3> QED
        BY <2>2, <3>1 DEF Alone, Locals, UpInv, DirInv, TgtInv, LowInv, LdvpInv, CallInv,
          WhyInv,
           ModeInv, InLookup, Flushes
  <2> QED BY <2>1, <2>2
<1>5. \A s \in Threads : RefInv(s)' BY <1>1, <1>2, <1>4, RefsKept
<1>6. \A s \in Threads : /\ Locking(s)' /\ NoOtherLock(s)' /\ ProtoInv(s)' /\ MountInv(s)'
  BY <1>1, <1>3, <1>5, LockingKept, NoOtherLockKept, ProtoKept, MountKept DEF SelfInv
<1>7. ThreadsInv' BY <1>4, <1>5, <1>6 DEF ThreadsInv
<1>8. AliasInv' /\ DoomedInv' /\ GoneInv' /\ UniqueAlias'
  BY <1>1, <1>2, <1>7, AliasKept, DoomedKept, GoneKept, UniqueKept
<1>9. LockInv' /\ LowerInv' BY <1>1 DEF ThreadStep, NodeInv, LowerInv
<1>10. UseExact' /\ HoldExact' /\ LowerHoldExact' /\ UseCountExact'
  BY <1>1, CountsKept, LowerUseKept
<1> QED BY <1>2, <1>7, <1>8, <1>9, <1>10 DEF NodeInv, ThreadsInv

(* So does a step that changes nothing but which lower vnodes are doomed,  *)
(* as long as no thread relies on one of them.                             *)
LEMMA OnlyDoomed ==
    ASSUME NodeInv, TypeOK', LowerInv', \A t \in Threads : LowerAlive(t)',
           UNCHANGED <<luse, lhold, aliasVars, lockVars, mountVars, argVars, pc, low, up, tgt>>
    PROVE  NodeInv'
<1> USE DEF aliasVars, lockVars, mountVars, argVars
<1>1. LockInv' /\ GoneInv' /\ UniqueAlias'
      BY DEF NodeInv, LockInv, GoneInv, Listed, UniqueAlias
<1>2. AliasInv' /\ DoomedInv' BY DEF NodeInv, AliasInv, DoomedInv, Proto, MakesProto
<1>3. UseExact' BY DEF NodeInv, UseExact, Count, CountIn, ProtoOf, MakesProto
<1>4. HoldExact' BY DEF NodeInv, HoldExact, Count, CountIn, HoldOf, HasHold
<1>5. LowerHoldExact' BY DEF NodeInv, LowerHoldExact, Count, CountIn, SleepOf
<1>6. UseCountExact'
      BY DEF NodeInv, UseCountExact, RootRefs, AliasRefs, SpareRefs, Discarded
<1>7. ASSUME NEW t \in Threads
      PROVE  (Locals(t) /\ Locking(t) /\ NoOtherLock(t) /\ ProtoInv(t) /\ RefInv(t) /\ MountInv(t))'
  <2>1. Locals(t)'
    BY DEF NodeInv, Locals, UpInv, DirInv, TgtInv, LowInv, LdvpInv, CallInv, WhyInv, ModeInv,
       InLookup, Flushes
  <2>2. (CreateLocks(t) /\ LookupLocks(t) /\ VnodeLocks(t))'
    BY DEF NodeInv, Locking, CreateLocks, LookupLocks, VnodeLocks, Owns, Holds, Vnlock
  <2>3. (ReclaimLocks(t) /\ SleepInv(t) /\ TwoLocks(t))'
    BY DEF NodeInv, Locking, ReclaimLocks, SleepInv, TwoLocks, Owns, InLookup
  <2>4. NoOtherLock(t)'
        BY DEF NodeInv, NoOtherLock, MayHold, DirLock, UpLock, Holds, Vnlock
  <2>5. ProtoInv(t)' /\ RefInv(t)' BY DEF NodeInv, ProtoInv, MakesProto, RefInv
  <2>6. MountInv(t)' BY DEF NodeInv, MountInv, Flushes, Listed, InLookup
  <2> QED BY <2>1, <2>2, <2>3, <2>4, <2>5, <2>6 DEF Locking
<1> QED BY <1>1, <1>2, <1>3, <1>4, <1>5, <1>6, <1>7 DEF NodeInv

(* A lower vnode is revoked under its lock, so nobody relies on it.        *)
LEMMA LowerKeeps ==
    ASSUME NodeInv, NEW l \in Lower, LowerRevoke(l) \/ LowerReuse(l)
    PROVE  NodeInv'
<1> USE NodeConstants
<1>1. TypeOK /\ LowerInv BY DEF NodeInv
<1>2. TypeOK'
  <2>1. Next BY DEF Next
  <2> QED BY <1>1, <2>1, TypeStep
<1>3. CASE LowerRevoke(l)
  <2>1. ASSUME NEW t \in Threads PROVE LowerAlive(t)'
    <3>1. LowerAlive(t) /\ CreateLocks(t) /\ LookupLocks(t) BY DEF NodeInv, Locking
    <3>2. ~Holds(t, l) BY <1>3 DEF LowerRevoke, Free, Holds
    <3>3. pc' = pc /\ low' = low /\ ldvp' = ldvp /\ \A k \in Lower \ {l} : ldoomed'[k] = ldoomed[k]
      BY <1>1, <1>3 DEF LowerRevoke, argVars, TypeOK, LowerOK
    <3>4. low[t] \in Lower \cup {Null} BY <1>1 DEF TypeOK, ThreadOK
    <3>5. Locals(t) BY DEF NodeInv
    <3> QED
        BY <3>1, <3>2, <3>3, <3>4, <3>5 DEF LowerAlive, CreateLocks, LookupLocks, Owns, Holds,
          Locals,
           LowInv, CreateLabels, NodegetLabels
  <2>2. LowerInv' BY <1>3 DEF LowerRevoke, LowerInv
  <2> QED BY <1>2, <1>3, <2>1, <2>2, OnlyDoomed DEF LowerRevoke
<1>4. CASE LowerReuse(l)
  <2>1. \A k \in Lower : ldoomed'[k] => ldoomed[k]
        BY <1>1, <1>4 DEF LowerReuse, TypeOK, LowerOK
  <2>2. ASSUME NEW t \in Threads PROVE LowerAlive(t)'
    <3>1. LowerAlive(t) /\ Locals(t) BY DEF NodeInv, Locking
    <3>2. low[t] \in Lower \cup {Null} BY <1>1 DEF TypeOK, ThreadOK
    <3>3. pc' = pc /\ low' = low /\ ldvp' = ldvp BY <1>4 DEF LowerReuse, argVars
    <3> QED
        BY <2>1, <3>1, <3>2, <3>3 DEF LowerAlive, Locals, LowInv, CreateLabels, NodegetLabels
  <2>3. LowerInv' BY <1>1, <2>1 DEF LowerInv
  <2> QED BY <1>2, <1>4, <2>2, <2>3, OnlyDoomed DEF LowerReuse
<1> QED BY <1>3, <1>4

(* Nothing is counted that no member has.                                  *)
LEMMA NoneCounted ==
    ASSUME NEW D, NEW f, NEW x, \A d \in D : f[d] # x
    PROVE  CountIn(D, f, x) = 0
<1>1. {d \in D : f[d] = x} = {} OBVIOUS
<1> QED BY <1>1, FS_EmptySet DEF CountIn

(* After the mounts NodeInv holds: no alias exists, nothing is locked, and *)
(* each lower root has the reference of its mounts.                        *)
LEMMA InitNode == Init => NodeInv
<1> SUFFICES ASSUME Init PROVE NodeInv
  OBVIOUS
<1> USE NodeConstants
<1>1. TypeOK BY InitType
<1>2. \A t \in Threads : /\ pc[t] = "idle" /\ up[t] = Null /\ dir[t] = Null /\ tgt[t] = Null
                         /\ low[t] = Null /\ ldvp[t] = Null
  BY DEF Init
<1>3. LockInv /\ GoneInv /\ LowerInv /\ UniqueAlias
  BY DEF Init, LockInv, GoneInv, Listed, LowerInv, UniqueAlias
<1>4. AliasInv /\ DoomedInv BY DEF Init, AliasInv, DoomedInv
<1>5. \A t \in Threads : ProtoOf[t] = Null /\ HoldOf[t] = Null /\ SleepOf[t] = Null /\ SpareOf[t] = Null
  BY <1>2 DEF ProtoOf, MakesProto, ProtoLabels, HoldOf, HasHold, PutLabels, ReclaimLabels,
     VnLockLabels,
     LockLabels, SleepOf, SpareOf, SpareLabels
<1>6. UseExact /\ HoldExact
  <2>1. ASSUME NEW u \in Upper
        PROVE  Count(up, u) = 0 /\ Count(dir, u) = 0 /\ Count(ProtoOf, u) = 0 /\ Count(HoldOf, u) = 0
    BY <1>2, <1>5, NoneCounted DEF Count
  <2> QED BY <2>1 DEF Init, UseExact, HoldExact
<1>7. LowerHoldExact
  <2>1. ASSUME NEW l \in Lower PROVE Count(SleepOf, l) = 0 /\ Count(ldvp, l) = 0
    BY <1>2, <1>5, NoneCounted DEF Count
  <2> QED BY <2>1 DEF Init, LowerHoldExact
<1>8. UseCountExact
  <2> SUFFICES ASSUME NEW l \in Lower
               PROVE  luse[l] = Cardinality(RootRefs(l)) + Cardinality(AliasRefs(l))
                                                         + Cardinality(SpareRefs(l))
    BY DEF UseCountExact
  <2>1. RootRefs(l) = {m \in Mounts : LowerRoot[m] = l} BY DEF Init, RootRefs
  <2>2. AliasRefs(l) = {} /\ SpareRefs(l) = {}
        BY <1>2 DEF Init, AliasRefs, SpareRefs, SpareLabels
  <2>3. luse[l] = Cardinality({m \in Mounts : LowerRoot[m] = l}) BY DEF Init
  <2>4. Cardinality({m \in Mounts : LowerRoot[m] = l}) \in Nat
        BY FS_Subset, FS_CardinalityType
  <2>5. Cardinality({}) = 0 BY FS_EmptySet
  <2> QED BY <2>1, <2>2, <2>3, <2>4, <2>5
<1>9. ASSUME NEW t \in Threads
      PROVE  Locals(t) /\ Locking(t) /\ NoOtherLock(t) /\ ProtoInv(t) /\ RefInv(t) /\ MountInv(t)
  <2>1. Locals(t)
    BY <1>2 DEF Locals, UpInv, DirInv, TgtInv, LowInv, LdvpInv, CallInv, WhyInv, ModeInv, InLookup,
       Flushes,
       LockLabels, VnLockLabels, NodegetLabels, CreateLabels, PutLabels, ReclaimLabels, LookupLabels
  <2>2. Locking(t)
    BY <1>2 DEF Locking, CreateLocks, LookupLocks, VnodeLocks, ReclaimLocks, SleepInv, TwoLocks,
       LowerAlive,
       InLookup, LockLabels, NodegetLabels, CreateLabels, PutLabels, ReclaimLabels, LookupLabels
  <2>3. NoOtherLock(t) BY <1>2 DEF Init, NoOtherLock, Holds
  <2>4. ProtoInv(t) /\ RefInv(t) BY <1>2 DEF ProtoInv, MakesProto, ProtoLabels, RefInv
  <2>5. \A s \in Threads : ~Flushes(s)
        BY <1>2 DEF Flushes, VnLockLabels, LockLabels, ReclaimLabels
  <2>6. MountInv(t)
    BY <1>2, <2>5 DEF MountInv, InLookup, LockLabels, NodegetLabels, CreateLabels, LookupLabels
  <2> QED BY <2>1, <2>2, <2>3, <2>4, <2>6
<1> QED BY <1>1, <1>3, <1>4, <1>6, <1>7, <1>8, <1>9 DEF NodeInv

(* NodeInv holds in every reachable state.                                 *)
THEOREM NodeInvariant == Spec => []NodeInv
<1>1. ASSUME NodeInv, [Next]_vars PROVE NodeInv'
  <2>1. TypeOK' BY <1>1, TypeStep DEF NodeInv
  <2>2. CASE UNCHANGED vars
    <3>1. LowerInv' /\ \A t \in Threads : LowerAlive(t)'
      BY <1>1, <2>2 DEF vars, lowerVars, argVars, NodeInv, Locking, LowerInv, LowerAlive
    <3> QED BY <1>1, <2>1, <2>2, <3>1, OnlyDoomed DEF vars, lowerVars
  <2>3. ASSUME NEW t \in Threads, Continue(t) \/ Begin(t) PROVE NodeInv'
    BY <1>1, <2>3, ThreadKeeps
  <2>4. ASSUME NEW l \in Lower, LowerRevoke(l) \/ LowerReuse(l) PROVE NodeInv'
    BY <1>1, <2>4, LowerKeeps
  <2> QED BY <1>1, <2>2, <2>3, <2>4 DEF Next, Terminated
<1> QED BY <1>1, InitNode, PTL DEF Spec

-----------------------------------------------------------------------------
(* Vnode creation in tpt_nodeget is not serialized, and yet a mount never  *)
(* has two aliases of one lower vnode in the hash.                         *)
THEOREM OneAlias == Spec => []UniqueAlias
<1>1. NodeInv => UniqueAlias BY DEF NodeInv
<1> QED BY <1>1, NodeInvariant, PTL

(* tpt_nodeget looks at VN_IS_DOOMED(lowervp) wherever the lower vnode may *)
(* have been revoked, so a new alias is stacked on a live one.             *)
THEOREM NewAliasAlive == Spec => []NewAliasOnLiveLower
<1>1. NodeInv => NewAliasOnLiveLower
      BY DEF NodeInv, Locking, LowerAlive, NewAliasOnLiveLower
<1> QED BY <1>1, NodeInvariant, PTL

(* With the lower vnode locked, what the hash finds is not being recycled: *)
(* a reclaimer that has not yet unlinked its alias has the lower lock.     *)
LEMMA FoundAlive ==
    ASSUME NodeInv, NEW t \in Threads, pc[t] \in {"ng_get", "ng_hashins"},
           NEW u \in Aliases(mp[t], low[t])
    PROVE  ~udoomed[u] /\ u \in alloc
<1>1. TypeOK /\ LockInv /\ AliasInv /\ DoomedInv /\ CreateLocks(t) /\ Locals(t)
    BY DEF NodeInv, Locking
<1>2. u \in hash /\ u \in Upper /\ data[u] = low[t] BY <1>1 DEF Aliases, TypeOK, AliasOK
<1>3. u \in alloc BY <1>1, <1>2 DEF AliasInv
<1>4. ASSUME udoomed[u] PROVE FALSE
  <2>1. PICK s \in Threads : pc[s] = "rc_hash" /\ tgt[s] = u
        BY <1>1, <1>2, <1>4 DEF DoomedInv
  <2>2. ex[low[t]] = s /\ low[t] \in Vnodes
    BY <1>1, <1>2, <2>1 DEF NodeInv, Locking, ReclaimLocks, Owns, Locals, LowInv, CreateLabels,
       NodegetLabels,
       Vnodes
  <2>3. Holds(t, low[t]) BY <1>1 DEF CreateLocks, Owns, Holds
  <2> QED BY <1>1, <2>1, <2>2, <2>3, NodeConstants DEF LockInv, Holds
<1> QED BY <1>3, <1>4

(* The comment in tpt_hashget and tpt_hashins is right: what they find is  *)
(* not being recycled.                                                     *)
THEOREM HashFindsLive == Spec => []FoundIsAlive
<1>1. NodeInv => FoundIsAlive BY FoundAlive DEF FoundIsAlive
<1> QED BY <1>1, NodeInvariant, PTL

(* v_usecount of a lower vnode is one per mount rooted there, one per      *)
(* alias and one per thread that carries a reference, at any moment: no    *)
(* error path of the layer leaks or drops one too many.                    *)
THEOREM ReferencesExact == Spec => []UseCountExact
<1>1. NodeInv => UseCountExact BY DEF NodeInv
<1> QED BY <1>1, NodeInvariant, PTL

(* No thread has an alias that was freed, or sleeps in tpt_lock for a      *)
(* lower vnode that may be recycled.                                       *)
THEOREM AliasesAlive == Spec => []NoUseAfterFree
<1>1. NodeInv => NoUseAfterFree
  <2> SUFFICES ASSUME NodeInv PROVE NoUseAfterFree
    OBVIOUS
  <2>1. \A t \in Threads : {up[t], dir[t], tgt[t]} \ {Null} \subseteq alloc
        BY DEF NodeInv, RefInv
  <2>2. ASSUME NEW t \in Threads, pc[t] = "lk_lower" PROVE luse[low[t]] + lhold[low[t]] > 0
    <3>1. low[t] \in Lower BY <2>2 DEF NodeInv, Locals, LowInv
    <3>2. Count(SleepOf, low[t]) \in Nat /\ Count(SleepOf, low[t]) >= 1
      BY <2>2, CountNat, NodeConstants DEF Count, SleepOf
    <3>3. Count(ldvp, low[t]) \in Nat BY CountNat, NodeConstants DEF Count
    <3>4. lhold[low[t]] = Count(SleepOf, low[t]) + Count(ldvp, low[t])
      BY <3>1 DEF NodeInv, LowerHoldExact
    <3>5. luse[low[t]] \in Nat
      <4>1. /\ CountIn(Mounts, RootOf, low[t]) \in Nat /\ CountIn(Upper, AliasOf, low[t]) \in Nat
            /\ CountIn(Threads, SpareOf, low[t]) \in Nat
        BY CountNat, NodeConstants
      <4> QED BY <3>1, <4>1, LowerUseCounts DEF NodeInv, UseCountExact
    <3> QED BY <3>2, <3>3, <3>4, <3>5
  <2> QED BY <2>1, <2>2 DEF NoUseAfterFree, SleepsOnHeldLower
<1> QED BY <1>1, NodeInvariant, PTL

(* tpt_nodeget reads the mount's private data only while it is there.      *)
THEOREM MountThere == Spec => []NodegetMountAlive
<1>1. NodeInv => NodegetMountAlive
  <2> SUFFICES ASSUME NodeInv, NEW t \in Threads, mstate[mp[t]] = "gone",
                      pc[t] = "ng_hashins" \/ (pc[t] \in NodegetLabels /\ call[t] # "vptocnp")
               PROVE  FALSE
    BY DEF NodegetMountAlive
  <2>1. TypeOK /\ GoneInv /\ MountInv(t) /\ ProtoInv(t) BY DEF NodeInv
  <2>2. mp[t] \in Mounts /\ Listed(mp[t]) = {}
    BY <2>1 DEF MountInv, GoneInv, CreateLabels, NodegetLabels
  <2>3. CASE pc[t] = "ng_hashins"
    BY <2>1, <2>2, <2>3 DEF ProtoInv, MakesProto, ProtoLabels, TypeOK, LocalsOK, Listed
  <2>4. CASE pc[t] \in NodegetLabels /\ call[t] = "root"
        BY <2>1, <2>4 DEF MountInv, CreateLabels
  <2>5. CASE pc[t] \in NodegetLabels /\ call[t] = "lookup"
    BY <2>1, <2>2, <2>5 DEF MountInv, CreateLabels, TypeOK, LocalsOK, Listed
  <2> QED BY <2>1, <2>3, <2>4, <2>5 DEF TypeOK, ThreadOK
<1> QED BY <1>1, NodeInvariant, PTL

(* When all mounts are gone and all threads are done, every alias is freed *)
(* and every reference and hold on the lower file system given back.       *)
THEOREM AllGivenBack == Spec => []NothingLeft
<1>1. NodeInv => NothingLeft
  <2> SUFFICES ASSUME NodeInv, \A m \in Mounts : mstate[m] = "gone", \A t \in Threads : pc[t] = "idle"
               PROVE  alloc = {} /\ hash = {} /\ \A l \in Lower : luse[l] = 0 /\ lhold[l] = 0
    BY DEF NothingLeft
  <2> USE NodeConstants
  <2>1. TypeOK /\ AliasInv /\ GoneInv BY DEF NodeInv
  <2>2. \A t \in Threads : up[t] = Null /\ dir[t] = Null /\ ldvp[t] = Null
    BY DEF NodeInv, Locals, UpInv, DirInv, LdvpInv, InLookup, LookupLabels, LockLabels
  <2>3. \A t \in Threads : ~MakesProto(t) /\ ~HasHold(t)
    BY DEF MakesProto, ProtoLabels, HasHold, PutLabels, ReclaimLabels, VnLockLabels, LockLabels
  <2>4. \A t \in Threads : ProtoOf[t] = Null /\ HoldOf[t] = Null /\ SleepOf[t] = Null
    BY <2>3 DEF ProtoOf, HoldOf, SleepOf
  <2>5. ASSUME NEW u \in alloc PROVE FALSE
    <3>1. u \in Upper BY <2>1 DEF TypeOK, AliasOK
    <3>2. mnt[u] = Null BY <2>1, <3>1 DEF GoneInv, Listed, TypeOK, AliasOK
    <3>3. ~Proto(u) BY <2>3 DEF Proto
    <3>4. udoomed[u] /\ uuse[u] + uhold[u] > 0 BY <2>1, <3>1, <3>2, <3>3 DEF AliasInv
    <3>5. u \notin deferred BY <2>1, <3>1, <3>4 DEF AliasInv
    <3>6. Count(up, u) = 0 /\ Count(dir, u) = 0 /\ Count(ProtoOf, u) = 0 /\
          Count(HoldOf, u) = 0
      BY <2>2, <2>4, <3>1, NoneCounted DEF Count
    <3>7. uuse[u] = 0 /\ uhold[u] = 0 BY <3>1, <3>5, <3>6 DEF NodeInv, UseExact, HoldExact
    <3> QED BY <3>4, <3>7
  <2>6. hash = {} BY <2>1, <2>5 DEF AliasInv, TypeOK, AliasOK
  <2>7. ASSUME NEW l \in Lower PROVE luse[l] = 0 /\ lhold[l] = 0
    <3>1. Count(SleepOf, l) = 0 /\ Count(ldvp, l) = 0 BY <2>2, <2>4, NoneCounted DEF Count
    <3>2. RootRefs(l) = {} BY DEF RootRefs
    <3>3. AliasRefs(l) = {} BY <2>1, <2>5 DEF AliasRefs, AliasInv
    <3>4. SpareRefs(l) = {} BY DEF SpareRefs, SpareLabels
    <3>5. Cardinality({}) = 0 BY FS_EmptySet
    <3>6. lhold[l] = Count(SleepOf, l) + Count(ldvp, l) BY DEF NodeInv, LowerHoldExact
    <3>7. luse[l] = Cardinality(RootRefs(l)) + Cardinality(AliasRefs(l)) + Cardinality(SpareRefs(l))
      BY DEF NodeInv, UseCountExact
    <3> QED BY <3>1, <3>2, <3>3, <3>4, <3>5, <3>6, <3>7
  <2> QED BY <2>5, <2>6, <2>7
<1> QED BY <1>1, NodeInvariant, PTL

(* A vnode that is returned as locked is locked through the lock its alias *)
(* uses now, a thread that has nothing locked has no lock left, and the    *)
(* directory is locked again when tpt_lookup or tpt_vptocnp returns        *)
(* (LocksMatch), with or without failures and revokes below.               *)
THEOREM LocksAllMatch == Spec => []LocksMatch
<1>1. NodeInv => ReturnedLocked BY DEF NodeInv, Locking, VnodeLocks, ReturnedLocked
<1>2. NodeInv => NoStrayLock BY DEF NodeInv, NoOtherLock, MayHold, NoStrayLock
<1>3. ASSUME NodeInv, NEW t \in Threads, pc[t] = "putdir"
      PROVE  Holds(t, Vnlock(dir[t])) \/ FailedBelow(t)
  <2>1. LookupLocks(t) BY <1>3 DEF NodeInv, Locking
  <2>2. call[t] \in {"lookup", "vptocnp"}
    <3>1. TypeOK /\ CallInv(t) BY <1>3 DEF NodeInv, Locals
    <3> QED BY <1>3, <3>1 DEF TypeOK, ThreadOK, CallInv
  <2> QED BY <1>3, <2>1, <2>2 DEF LookupLocks, FailedBelow
<1>4. NodeInv => LocksMatch BY <1>1, <1>2, <1>3 DEF LocksMatch
<1> QED BY <1>4, NodeInvariant, PTL

(* As long as the lower ".." does not fail, no directory is returned       *)
(* unlocked.  Without that hypothesis one is: see NodeLookupError.cfg.     *)
THEOREM DirectoryLocked == ASSUME ~LowerFaults PROVE Spec => []DirectoryStaysLocked
<1>1. NodeInv => DirectoryStaysLocked
      BY DEF NodeInv, Locking, LookupLocks, DirectoryStaysLocked
<1> QED BY <1>1, NodeInvariant, PTL

(* tpt_reclaim and tpt_destroy_proto split the lock that an alias on the   *)
(* mount list shares with its lower vnode only with both locks taken.      *)
THEOREM SplitSafe == Spec => SplitUnderBothLocks
<1>1. ASSUME NodeInv, [Next]_vars, NEW u \in Upper, mnt[u] # Null, data[u] # Null, data'[u] = Null
      PROVE  \E t \in Threads : ex[data[u]] = t /\ ex'[u] = t
  <2>1. PICK t \in Threads : Continue(t) \/ Begin(t)
    BY <1>1 DEF Next, Terminated, vars, aliasVars, LowerRevoke, LowerReuse
  <2>2. DataStep(t) BY <1>1, <2>1, EveryStep DEF ThreadStep, AliasStep
  <2>3. AliasInv /\ Locking(t) /\ ProtoInv(t) BY <1>1 DEF NodeInv
  <2>4. u = tgt[t] /\ pc[t] \in {"dp_detach", "rc_detach"} /\ ex'[u] = t
    BY <1>1, <2>2, <2>3 DEF DataStep, AliasInv
  <2>5. CASE pc[t] = "rc_detach" BY <2>3, <2>4, <2>5 DEF Locking, ReclaimLocks, Owns
  <2>6. CASE pc[t] = "dp_detach"
    BY <1>1, <2>3, <2>4, <2>6 DEF Locking, CreateLocks, Owns, ProtoInv, MakesProto, ProtoLabels
  <2> QED BY <2>4, <2>5, <2>6
<1>2. NodeInv /\ [Next]_vars =>
         \A u \in Upper : mnt[u] # Null /\ data[u] # Null /\ data'[u] = Null =>
            \E t \in Threads : ex[data[u]] = t /\ ex'[u] = t
  BY <1>1
<1> QED BY <1>2, NodeInvariant, PTL DEF Spec, SplitUnderBothLocks

(* No directory of the lower file system is its grandparent: it is a tree, *)
(* whose root may be its own parent.                                       *)
TreeShaped == \A a, b \in Lower : Parent[a] = b /\ Parent[b] = a => a = b

(* A thread that waits for a vnode lock has at most one lock then, of the  *)
(* parent or the child it comes from; so no two wait for each other, also  *)
(* when lower vnodes are revoked.                                          *)
THEOREM NoDeadlyEmbrace == ASSUME TreeShaped PROVE Spec => []NoCrossWait
<1>1. ASSUME NodeInv PROVE NoCrossWait
  <2> SUFFICES ASSUME NEW s \in Threads, NEW t \in Threads, s # t,
                      NEW i \in WaitsFor(s), Holds(t, i), NEW j \in WaitsFor(t), Holds(s, j)
               PROVE  FALSE
    BY DEF NoCrossWait
  <2> USE NodeConstants
  <2>1. TypeOK BY <1>1 DEF NodeInv
  <2> DEFINE Waits(r, k) ==
        \/ pc[r] \in {"dp_detach", "rc_detach"} /\ k \in Upper
        \/ pc[r] = "lu_lock" /\ k = low[r]
        \/ pc[r] = "dd_relock" /\ k = ldvp[r]
             Has(r, k) ==
        \/ pc[r] \in {"dp_detach", "rc_detach"} /\ k \in Lower
        \/ pc[r] = "lu_lock" /\ k = ldvp[r]
        \/ pc[r] = "dd_relock" /\ k = low[r] /\ low[r] # Null
  <2>2. ASSUME NEW r \in Threads, NEW k \in WaitsFor(r), NEW h \in Vnodes, Holds(r, h)
        PROVE  Waits(r, k) /\ Has(r, h)
    <3>1. Locals(r) /\ Locking(r) /\ NoOtherLock(r) /\ LocalsOK(r)
          BY <1>1 DEF NodeInv, TypeOK
    <3>2. h \in MayHold(r) BY <2>2, <3>1 DEF NoOtherLock
    <3>3. pc[r] \in {"lu_lock", "dd_relock", "dp_detach", "rc_detach"}
      BY <2>2, <3>1, <3>2 DEF WaitsFor, MayHold, DirLock, Locals, CallInv
    <3>4. Waits(r, k) BY <2>2, <3>1, <3>3 DEF WaitsFor, LocalsOK
    <3>5. CASE pc[r] \in {"lu_lock", "dd_relock"} BY <3>2, <3>4, <3>5 DEF MayHold, Vnodes
    <3>6. CASE pc[r] = "dp_detach"
      BY <2>1, <3>1, <3>2, <3>4, <3>6 DEF MayHold, DirLock, Vnlock, Locals, LowInv, Locking,
         CreateLocks, CreateLabels,
         TypeOK, AliasOK, LocalsOK
    <3>7. CASE pc[r] = "rc_detach"
      <4>1. low[r] \in Lower BY <3>1, <3>7 DEF Locals, LowInv
      <4>2. call[r] = "lookup" /\ up[r] # Null => up[r] \in Upper /\ data[up[r]] # Null
        BY <2>1, <3>1, <3>7 DEF Locking, TwoLocks, PutLabels, ReclaimLabels, TypeOK, ThreadOK
      <4> QED
          BY <2>1, <3>2, <3>4, <3>7, <4>1, <4>2 DEF MayHold, UpLock, Vnlock, TypeOK, AliasOK
    <3> QED BY <3>3, <3>4, <3>5, <3>6, <3>7
  <2>3. i \in Vnodes /\ j \in Vnodes
    BY <1>1, <2>1 DEF WaitsFor, NodeInv, Locals, LowInv, LdvpInv, InLookup, LookupLabels, TypeOK,
       LocalsOK,
       ThreadOK, LockLabels, CreateLabels, NodegetLabels, Vnodes
  <2>4. Waits(s, i) /\ Has(s, j) /\ Waits(t, j) /\ Has(t, i) BY <2>2, <2>3
  <2>5. \A r \in Threads : pc[r] \in {"lu_lock", "dd_relock"} =>
           /\ ldvp[r] \in Lower
           /\ pc[r] = "lu_lock" => low[r] \in Lower /\ Parent[low[r]] = ldvp[r] /\ low[r] # ldvp[r]
           /\ pc[r] = "dd_relock" /\ low[r] # Null =>
                 low[r] \in Lower /\ low[r] = Parent[ldvp[r]] /\ ex[low[r]] = r
    BY <1>1, <2>1 DEF NodeInv, Locals, LowInv, LdvpInv, InLookup, LookupLabels, Locking,
       LookupLocks, Owns, TypeOK,
       ThreadOK
  <2>6. pc[s] \in {"lu_lock", "dd_relock"} /\ pc[t] \in {"lu_lock", "dd_relock"}
    BY <2>4, <2>5
  <2> QED BY <2>4, <2>5, <2>6 DEF TreeShaped
<1> QED BY <1>1, NodeInvariant, PTL

-----------------------------------------------------------------------------
(* The refinement of AliasTable.                                           *)

(* An alias that nobody has, and that is doomed, is given to nobody.       *)
LEMMA UnusedStays ==
    ASSUME NodeInv, NodeInv', NEW t \in Threads, ThreadStep(t), NEW u \in Upper,
           uuse[u] = 0, udoomed'[u], pc[t] \in {"ng_get", "ng_hashins"} => udoomed[u]
    PROVE  uuse'[u] = 0
<1> USE NodeConstants
<1>1. \A s \in Threads : u \notin Held(s)
  BY OwnCounts DEF Held, Is
<1>2. ASSUME NEW s \in Threads PROVE u \notin Held(s)'
  <2>1. CASE s # t BY <1>1, <2>1 DEF ThreadStep, Alone, Held
  <2>2. CASE s = t
    <3>1. RefStep(t) BY DEF ThreadStep
    <3>2. pc[t] \in {"ng_get", "ng_hashins"} => u \notin Aliases(mp[t], low[t])
          BY FoundAlive
    <3>3. pc[t] = "ng_hashins" => u # tgt[t]
      BY DEF NodeInv, ProtoInv, MakesProto, ProtoLabels
    <3> QED BY <1>1, <2>2, <3>1, <3>2, <3>3 DEF RefStep
  <2> QED BY <2>1, <2>2
<1>3. \A s \in Threads : ProtoOf'[s] # u
  <2>1. \A s \in Threads : MakesProto(s)' => ~udoomed'[tgt'[s]] BY DEF NodeInv, ProtoInv
  <2> QED BY <2>1 DEF ProtoOf
<1>4. \A s \in Threads : up'[s] # u /\ dir'[s] # u BY <1>2 DEF Held
<1>5. Count(up', u) = 0 /\ Count(dir', u) = 0 /\ Count(ProtoOf', u) = 0
  BY <1>3, <1>4, NoneCounted DEF Count
<1>6. uuse'[u] = Count(up', u) + Count(dir', u) + Count(ProtoOf', u)
  BY DEF NodeInv, UseExact, Count
<1> QED BY <1>5, <1>6

(* TableInv is kept by every step of a thread.                             *)
LEMMA TableKept ==
    ASSUME NodeInv, NodeInv', TableInv, NEW t \in Threads, ThreadStep(t)
    PROVE  TableInv'
<1> USE NodeConstants
<1>1. MountStep(t) /\ MntStep(t) /\ FlushStep(t) /\ Alone(t) BY DEF ThreadStep, AliasStep
<1>2. TypeOK /\ TypeOK' BY DEF NodeInv
<1>3. \A m \in Mounts : mstate'[m] = "force" => ~busy'[m] BY <1>1 DEF TableInv, MountStep
<1>4. ASSUME NEW r \in Threads, Flushes(r)', tgt'[r] # Null PROVE mnt'[tgt'[r]] \in {mp'[r], Null}
  <2>1. tgt'[r] \in Upper BY <1>2, <1>4 DEF TypeOK, ThreadOK
  <2>2. CASE r # t
    <3>1. Flushes(r) /\ tgt[r] = tgt'[r] /\ mp[r] = mp'[r]
          BY <1>1, <1>4, <2>2 DEF Alone, Flushes
    <3>2. mnt[tgt[r]] \in {mp[r], Null} BY <1>4, <3>1 DEF TableInv
    <3>3. ~(tgt[r] = tgt[t] /\ pc[t] = "ng_insmnt")
      BY <2>2 DEF NodeInv, ProtoInv, MakesProto, ProtoLabels
    <3> QED BY <1>1, <2>1, <3>1, <3>2, <3>3 DEF MntStep
  <2>3. CASE r = t
    <3>1. CASE Flushes(t) /\ tgt'[t] = tgt[t] /\ mp'[t] = mp[t]
      <4>1. mnt[tgt[t]] \in {mp[t], Null} BY <1>4, <2>3, <3>1 DEF TableInv
      <4>2. pc[t] # "ng_insmnt"
            BY <3>1 DEF Flushes, VnLockLabels, LockLabels, ReclaimLabels
      <4> QED BY <1>1, <2>1, <2>3, <3>1, <4>1, <4>2 DEF MntStep
    <3>2. CASE pc[t] = "um_pick" /\ mnt[tgt'[t]] = mp'[t]
      BY <1>1, <2>1, <2>3, <3>2 DEF MntStep
    <3> QED BY <1>1, <1>4, <2>3, <3>1, <3>2 DEF FlushStep
  <2> QED BY <2>2, <2>3
<1>5. ASSUME NEW r \in Threads, pc'[r] = "rc_hash"
      PROVE  uuse'[tgt'[r]] = 0 \/ (why'[r] = "flush" /\ mstate'[mp'[r]] = "force")
  <2>1. tgt'[r] \in Upper BY <1>2, <1>5 DEF TypeOK, LocalsOK
  <2>2. udoomed'[tgt'[r]] BY <1>5 DEF NodeInv, Locking, ReclaimLocks, ReclaimLabels
  <2>3. CASE r # t
    <3>1. pc[r] = "rc_hash" /\ tgt[r] = tgt'[r] /\ mp[r] = mp'[r] /\ why[r] = why'[r]
      BY <1>1, <1>5, <2>3 DEF Alone
    <3>2. udoomed[tgt[r]] BY <3>1 DEF NodeInv, Locking, ReclaimLocks, ReclaimLabels
    <3>3. CASE uuse[tgt[r]] = 0 BY <2>1, <2>2, <3>1, <3>2, <3>3, UnusedStays
    <3>4. CASE why[r] = "flush" /\ mstate[mp[r]] = "force"
      <4>1. mp[r] \in Mounts /\ ~(Flushes(t) /\ mp[t] = mp[r])
        BY <2>3, <3>1, <3>4 DEF NodeInv, MountInv, Flushes, ReclaimLabels
      <4>2. ~(pc[t] \in {"um_pick", "um_fin"} /\ mp[t] = mp[r]) BY <4>1 DEF Flushes
      <4> QED BY <1>1, <3>1, <3>4, <4>1, <4>2 DEF MountStep
    <3> QED BY <3>1, <3>3, <3>4 DEF TableInv
  <2>4. CASE r = t
    <3>1. /\ pc[t] \in {"inact", "um_flush"} /\ tgt'[t] = tgt[t]
          /\ uuse[tgt[t]] = 0 \/ (why'[t] = "flush" /\ mstate[mp'[t]] = "force")
      BY <1>1, <1>5, <2>4 DEF FlushStep
    <3>2. CASE uuse[tgt[t]] = 0 BY <2>1, <2>2, <2>4, <3>1, <3>2, UnusedStays
    <3>3. CASE why'[t] = "flush" /\ mstate[mp'[t]] = "force"
      <4>1. Flushes(t)' BY <1>5, <2>4, <3>3 DEF Flushes, ReclaimLabels
      <4>2. mp'[t] \in Mounts BY <4>1 DEF NodeInv, MountInv
      <4> QED BY <1>1, <2>4, <3>1, <3>3, <4>2 DEF MountStep
    <3> QED BY <3>1, <3>2, <3>3
  <2> QED BY <2>3, <2>4
<1> QED BY <1>3, <1>4, <1>5 DEF TableInv

(* What the table of AliasTable is in TptNode.                             *)
TableAlias == {[mount |-> mnt[u], lower |-> data[u], node |-> u] : u \in hash}
TableHeld == [t \in Threads |-> {up[t], dir[t]} \ {Null}]
TablePhase == [m \in Mounts |-> CASE mstate[m] = "force" -> "forced" [] mstate[m] = "gone" -> "gone"
                                [] OTHER -> "up"]

(* One thread changes what it was given, and the entries of the table stay *)
(* as they are while they are in the hash.                                 *)
LEMMA TableParts ==
    ASSUME NodeInv, NodeInv', NEW t \in Threads, ThreadStep(t)
    PROVE  /\ TableHeld' = [TableHeld EXCEPT ![t] = Held(t)']
           /\ hash' = hash => TableAlias' = TableAlias
           /\ pc[t] \notin {"ng_hashins", "rc_hash"} => hash' = hash
           /\ mstate' = mstate => TablePhase' = TablePhase
           /\ pc[t] \notin {"idle", "um_pick", "um_fin"} => mstate' = mstate
<1>1. TypeOK /\ TypeOK' BY DEF NodeInv
<1>2. ThreadsInv' BY DEF NodeInv, ThreadsInv
<1>3. Alone(t) /\ HashStep(t) /\ MountStep(t) BY DEF ThreadStep, AliasStep
<1>4. TableHeld' = [TableHeld EXCEPT ![t] = Held(t)'] BY <1>3 DEF Alone, TableHeld, Held
<1>5. hash' = hash => TableAlias' = TableAlias
  <2>1. \A u \in hash : data'[u] = data[u] /\ mnt'[u] = mnt[u] BY <1>1, <1>2, HashedStays
  <2> QED BY <2>1 DEF TableAlias
<1>6. pc[t] \notin {"ng_hashins", "rc_hash"} => hash' = hash
  BY <1>1, <1>3 DEF TypeOK, AliasOK, HashStep
<1>7. mstate' = mstate => TablePhase' = TablePhase BY DEF TablePhase
<1>8. pc[t] \notin {"idle", "um_pick", "um_fin"} => mstate' = mstate
  BY <1>1, <1>3 DEF TypeOK, MountOK, MountStep
<1> QED BY <1>4, <1>5, <1>6, <1>7, <1>8

(* Nobody uses an alias whose use count is zero.                           *)
LEMMA UnusedUnheld ==
    ASSUME NodeInv, NEW u \in Upper, uuse[u] = 0, NEW t \in Threads
    PROVE  u \notin Held(t)
BY OwnCounts DEF Held, Is

(* A step of a thread is a step of the table, or leaves it as it is.       *)
LEMMA TableStep ==
    ASSUME NodeInv, NodeInv', TableInv, NEW t \in Threads, ThreadStep(t)
    PROVE  Table!Next \/ UNCHANGED <<TableAlias, TableHeld, TablePhase>>
<1> USE NodeConstants
<1>1. TypeOK /\ TypeOK' BY DEF NodeInv
<1>2. ThreadsInv' BY DEF NodeInv, ThreadsInv
<1>3. RefStep(t) /\ StayStep(t) /\ HashStep(t) /\ MountStep(t)
      BY DEF ThreadStep, AliasStep
<1>4. TableHeld[t] = Held(t) BY DEF TableHeld, Held
<1>5. Held(t)' = Held(t) => TableHeld' = TableHeld BY <1>4, TableParts DEF TableHeld
<1>6. CASE pc[t] \in {"ng_get", "ng_hashins"}
  <2>1. UNCHANGED TablePhase BY <1>6, TableParts
  <2>2. CASE Held(t)' = Held(t) /\ hash' = hash BY <1>5, <2>1, <2>2, TableParts
  <2>3. ASSUME NEW u \in Aliases(mp[t], low[t]), Held(t)' = Held(t) \cup {u}, hash' = hash
        PROVE  Table!Next
    <3> DEFINE e == [mount |-> mnt[u], lower |-> data[u], node |-> u]
    <3>1. e \in TableAlias BY DEF TableAlias, Aliases
    <3>2. UNCHANGED TableAlias BY <2>3, TableParts
    <3>3. TableHeld' = [TableHeld EXCEPT ![t] = TableHeld[t] \cup {e.node}] BY <1>4, <2>3,
          TableParts
    <3>4. Table!Find(t, e)
          BY <2>1, <3>1, <3>2, <3>3 DEF Table!Find, Table!Give, TableAlias,
          TableHeld, TablePhase
    <3> QED BY <3>1, <3>4 DEF Table!Next, TableAlias
  <2>4. CASE pc[t] = "ng_hashins" /\ hash' = hash \cup {tgt[t]} /\ Held(t)' = Held(t) \cup {tgt[t]}
    <3>a. tgt[t] \in Upper /\ low[t] \in Lower /\ mp[t] \in Mounts
      BY <1>1, <2>4 DEF NodeInv, TypeOK, LocalsOK, Locals, LowInv, MountInv, CreateLabels,
         NodegetLabels
    <3>b. PICK u \in Upper, l \in Lower, m \in Mounts : u = tgt[t] /\ l = low[t] /\ m = mp[t]
          BY <3>a
    <3>1. u \notin hash /\ mnt[u] = m
          BY <2>4, <3>b DEF NodeInv, ProtoInv, MakesProto, ProtoLabels
    <3>2. Aliases(m, l) = {} /\ data'[u] = l /\ mnt'[u] = m
      BY <1>1, <1>2, <2>4, <3>b, <3>1, HashKept
    <3>3. \A v \in hash : data'[v] = data[v] /\ mnt'[v] = mnt[v]
          BY <1>1, <1>2, HashedStays
    <3>4. TableAlias' = TableAlias \cup {[mount |-> m, lower |-> l, node |-> u]}
      BY <2>4, <3>b, <3>2, <3>3 DEF TableAlias
    <3>5. \A e \in TableAlias : ~(e.mount = m /\ e.lower = l) /\ e.node # u
      BY <3>1, <3>2 DEF TableAlias, Aliases
    <3>6. TablePhase[m] # "gone"
          BY <3>1, <1>1 DEF NodeInv, GoneInv, Listed, TablePhase, TypeOK,
          MountOK
    <3>7. TableHeld' = [TableHeld EXCEPT ![t] = TableHeld[t] \cup {u}]
          BY <1>4, <2>4, <3>b,
          TableParts
    <3>8. Table!Enter(t, m, l, u)
      BY <2>1, <3>4, <3>5, <3>6, <3>7 DEF Table!Enter, Table!Give, TableAlias, TableHeld, TablePhase
    <3> QED BY <3>8 DEF Table!Next
  <2>5. pc[t] = "ng_get" => hash' = hash BY TableParts
  <2> QED BY <1>3, <1>6, <2>2, <2>3, <2>4, <2>5 DEF RefStep
<1>7. CASE pc[t] = "rc_hash"
  <2>a. tgt[t] \in Upper BY <1>1, <1>7 DEF TypeOK, LocalsOK
  <2>b. PICK u \in Upper : u = tgt[t] BY <2>a
  <2>1. UNCHANGED TablePhase /\ UNCHANGED TableHeld
        BY <1>3, <1>5, <1>7, TableParts DEF RefStep
  <2>2. hash \subseteq Upper /\ hash' \subseteq Upper BY <1>1 DEF TypeOK, AliasOK
  <2>3. hash' = hash \ {u} BY <1>3, <1>7, <2>b, <2>2 DEF HashStep, StayStep
  <2>4. CASE u \notin hash BY <2>1, <2>3, <2>4, TableParts
  <2>5. CASE u \in hash
    <3>1. PICK e \in TableAlias : e = [mount |-> mnt[u], lower |-> data[u], node |-> u]
      BY <2>5 DEF TableAlias
    <3>2. \A v \in hash : data'[v] = data[v] /\ mnt'[v] = mnt[v]
          BY <1>1, <1>2, HashedStays
    <3>3. TableAlias' = TableAlias \ {e} BY <2>3, <3>1, <3>2 DEF TableAlias
    <3>4. TablePhase[e.mount] = "forced" \/ \A s \in Threads : e.node \notin TableHeld[s]
      <4>1. CASE uuse[u] = 0
        BY <3>1, <4>1, UnusedUnheld DEF TableHeld, Held
      <4>2. CASE why[t] = "flush" /\ mstate[mp[t]] = "force"
        <5>1. Flushes(t) BY <1>7, <4>2 DEF Flushes, ReclaimLabels
        <5>2. mnt[u] # Null BY <2>5 DEF NodeInv, AliasInv
        <5>3. mnt[u] = mp[t] /\ mp[t] \in Mounts
              BY <2>b, <5>1, <5>2, <2>a DEF TableInv, NodeInv,
              MountInv
        <5> QED BY <3>1, <4>2, <5>3 DEF TablePhase
      <4> QED BY <1>7, <2>b, <4>1, <4>2 DEF TableInv
    <3>5. Table!Leave(e) BY <2>1, <3>1, <3>3, <3>4 DEF Table!Leave, TableAlias, TableHeld,
          TablePhase
    <3> QED BY <3>1, <3>5 DEF Table!Next, TableAlias
  <2> QED BY <2>4, <2>5
<1>8. CASE pc[t] \in {"locked", "ref", "putdir"}
  <2>1. UNCHANGED TablePhase /\ UNCHANGED TableAlias BY <1>8, TableParts
  <2>2. CASE Held(t)' = Held(t) BY <1>5, <2>1, <2>2
  <2>3. ASSUME NEW u \in Held(t), Held(t)' = Held(t) \ {u} PROVE Table!Next
    <3>1. u \in Upper BY <1>1 DEF Held, TypeOK, ThreadOK
    <3>2. TableHeld' = [TableHeld EXCEPT ![t] = TableHeld[t] \ {u}]
          BY <1>4, <2>3, TableParts
    <3>3. Table!Drop(t, u)
          BY <1>4, <2>1, <3>2 DEF Table!Drop, TableAlias, TableHeld, TablePhase
    <3> QED BY <3>1, <3>3 DEF Table!Next
  <2> QED BY <1>3, <1>8, <2>2, <2>3 DEF RefStep
<1>9. CASE pc[t] \in {"idle", "um_pick", "um_fin"}
  <2>1. UNCHANGED TableHeld /\ UNCHANGED TableAlias
        BY <1>3, <1>5, <1>9, TableParts DEF RefStep
  <2>2. mstate \in [Mounts -> {"mounted", "unmount", "force", "gone"}] /\
        DOMAIN mstate' = Mounts
    BY <1>1 DEF TypeOK, MountOK
  <2>3. CASE \A m \in Mounts : mstate'[m] = mstate[m]
        BY <1>1, <2>1, <2>3, TableParts DEF TypeOK,
        MountOK
  <2>4. ASSUME NEW m \in Mounts, mstate'[m] # mstate[m]
        PROVE  Table!Next \/ UNCHANGED TablePhase
    <3>1. \A n \in Mounts \ {m} : mstate'[n] = mstate[n] BY <1>3, <2>4 DEF MountStep
    <3>2. CASE mstate[m] \in {"mounted", "unmount"} /\ mstate'[m] \in {"mounted", "unmount"}
      BY <3>1, <3>2 DEF TablePhase
    <3>3. CASE mstate[m] = "mounted" /\ mstate'[m] = "force"
      <4>1. TablePhase[m] = "up" /\ TablePhase' = [TablePhase EXCEPT ![m] = "forced"]
        BY <3>1, <3>3 DEF TablePhase
      <4>2. Table!Force(m)
            BY <2>1, <4>1 DEF Table!Force, TableAlias, TableHeld, TablePhase
      <4> QED BY <4>2 DEF Table!Next
    <3>4. CASE pc[t] = "um_fin" /\ mp[t] = m /\ mstate'[m] = "gone"
      <4>1. Listed(m) = {} /\ mstate[m] \in {"unmount", "force"}
        BY <3>4 DEF NodeInv, MountInv, Flushes
      <4>2. TablePhase[m] # "gone" /\ TablePhase' = [TablePhase EXCEPT ![m] = "gone"]
        BY <3>1, <3>4, <4>1 DEF TablePhase
      <4>3. \A e \in TableAlias : e.mount # m
            BY <1>1, <4>1 DEF TableAlias, Listed, TypeOK, AliasOK
      <4>4. Table!Go(m)
            BY <2>1, <4>2, <4>3 DEF Table!Go, TableAlias, TableHeld, TablePhase
      <4> QED BY <4>4 DEF Table!Next
    <3>5. pc[t] = "um_pick" /\ mp[t] = m => mstate[m] \in {"unmount", "force"}
          BY DEF NodeInv,
          MountInv, Flushes
    <3>6. mstate[m] = "force" => ~busy[m] BY DEF TableInv
    <3> QED BY <1>3, <2>4, <3>2, <3>3, <3>4, <3>5, <3>6 DEF MountStep
  <2> QED BY <2>1, <2>3, <2>4
<1>10. CASE pc[t] \notin {"ng_get", "ng_hashins", "rc_hash", "locked", "ref", "putdir", "idle", "um_pick", "um_fin"}
  BY <1>3, <1>5, <1>10, TableParts DEF RefStep
<1> QED BY <1>6, <1>7, <1>8, <1>9, <1>10

(* TableInv holds from the start.                                          *)
LEMMA InitTable == Init => TableInv /\ Table!Init
<1> SUFFICES ASSUME Init PROVE TableInv /\ Table!Init
  OBVIOUS
<1>1. TableInv BY DEF Init, TableInv, Flushes, VnLockLabels, LockLabels, ReclaimLabels
<1>2. Table!Init BY DEF Init, Table!Init
<1> QED BY <1>1, <1>2

(* The node layer implements AliasTable: tpt_nodeget returns the one alias *)
(* of the table, an alias in use leaves it in a forced unmount only, and a *)
(* mount goes with its last alias.                                         *)
THEOREM ImplementsTable == Spec => ImplementsAliasTable
<1> DEFINE tab == <<TableAlias, TableHeld, TablePhase>>
<1>1. ASSUME NodeInv, NodeInv', TableInv, [Next]_vars
      PROVE  TableInv' /\ (Table!Next \/ UNCHANGED tab)
  <2>1. ASSUME NEW t \in Threads, Continue(t) \/ Begin(t)
        PROVE  TableInv' /\ (Table!Next \/ UNCHANGED tab)
    <3>1. ThreadStep(t) BY <1>1, <2>1, EveryStep
    <3> QED BY <1>1, <3>1, TableKept, TableStep
  <2>2. CASE UNCHANGED <<luse, lhold, aliasVars, lockVars, mountVars, argVars, pc, low, up, tgt>>
    <3>1. TableInv'
      BY <1>1, <2>2 DEF aliasVars, mountVars, argVars, TableInv, Flushes
    <3>2. UNCHANGED tab
          BY <2>2 DEF aliasVars, mountVars, argVars, TableAlias, TableHeld, TablePhase
    <3> QED BY <3>1, <3>2
  <2> QED
      BY <1>1, <2>1, <2>2 DEF Next, Terminated, vars, lowerVars, LowerRevoke, LowerReuse
<1>2. ASSUME NodeInv, NodeInv', TableInv, [Next]_vars PROVE [Table!Next]_(Table!tableVars)
  BY <1>1, <1>2 DEF Table!tableVars, TableAlias, TableHeld, TablePhase
<1> QED
    BY <1>1, <1>2, InitTable, NodeInvariant, PTL DEF Spec, ImplementsAliasTable, Table!Spec
=============================================================================
