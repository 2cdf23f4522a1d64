---------------------------- MODULE TptNodeSteps ----------------------------
(***************************************************************************)
(* Proofs about TptNode, for every number of threads, vnodes and mounts.   *)
(* First its type correctness; then what one step of a thread does to what *)
(* the other threads rely on.  Each action of TptNode is shown to keep     *)
(* within these bounds, once, so that TptNodeSafety can argue from the     *)
(* bounds alone.                                                           *)
(***************************************************************************)
EXTENDS TptNodeInv, FiniteSetTheorems, TLAPS

(* Counting a reference down or up keeps the counters integers, whichever  *)
(* entry is counted.                                                       *)
LEMMA CountDown ==
    ASSUME NEW D, NEW f \in [D -> Int], NEW x
    PROVE  [f EXCEPT ![x] = @ - 1] \in [D -> Int]
<1>1. CASE x \in D
  <2>1. f[x] - 1 \in Int BY <1>1
  <2> QED BY <1>1, <2>1
<1>2. CASE x \notin D
  <2>1. [f EXCEPT ![x] = @ - 1] = f BY <1>2, Zenon
  <2> QED BY <2>1
<1> QED BY <1>1, <1>2

LEMMA CountUp ==
    ASSUME NEW D, NEW f \in [D -> Int], NEW x
    PROVE  [f EXCEPT ![x] = @ + 1] \in [D -> Int]
<1>1. CASE x \in D
  <2>1. f[x] + 1 \in Int BY <1>1
  <2> QED BY <1>1, <2>1
<1>2. CASE x \notin D
  <2>1. [f EXCEPT ![x] = @ + 1] = f BY <1>2, Zenon
  <2> QED BY <2>1
<1> QED BY <1>1, <1>2

(* tpt_nodeget and tpt_destroy_proto keep the types.                       *)
LEMMA NodegetType ==
    ASSUME TypeOK, NEW t \in Threads, Nodeget(t)
    PROVE  TypeOK'
<1> USE NodeConstants
<1>1. CASE HashgetHit(t)
  <2>1. LockOK' /\ MountOK' BY <1>1 DEF HashgetHit, lockVars, mountVars, TypeOK, LockOK, MountOK
  <2>2. LowerOK' BY <1>1, CountDown, CountUp DEF HashgetHit, LowerRele, TypeOK, LowerOK
  <2>3. AliasOK' BY <1>1, CountDown, CountUp DEF HashgetHit, Aliases, TypeOK, AliasOK, ThreadOK
  <2>4. ThreadOK' BY <1>1 DEF HashgetHit, Aliases, NodegetReturn, Go, Rest, argVars, TypeOK,
        AliasOK, ThreadOK, LocalsOK, LockLabels, Labels
  <2>5. ASSUME NEW s \in Threads PROVE LocalsOK(s)'
        BY <1>1 DEF HashgetHit, Aliases, NodegetReturn, Go, Rest, argVars, TypeOK, AliasOK,
        ThreadOK, LocalsOK, LockLabels, NodegetLabels
  <2> QED BY <2>1, <2>2, <2>3, <2>4, <2>5 DEF TypeOK
<1>2. CASE HashgetMiss(t)
  <2>1. LowerOK' /\ AliasOK' /\ LockOK' /\ MountOK' BY <1>2 DEF HashgetMiss, Aliases, lowerVars,
        aliasVars, lockVars, mountVars, TypeOK, LowerOK, AliasOK, LockOK, MountOK
  <2>2. ThreadOK' BY <1>2 DEF HashgetMiss, Go, Aliases, argVars, TypeOK, AliasOK, ThreadOK,
        LocalsOK, LockLabels, Labels
  <2>3. ASSUME NEW s \in Threads PROVE LocalsOK(s)'
        BY <1>2 DEF HashgetMiss, Go, Aliases, argVars, TypeOK, AliasOK, ThreadOK, LocalsOK,
        LockLabels, NodegetLabels
  <2> QED BY <2>1, <2>2, <2>3 DEF TypeOK
<1>3. CASE NodegetUpgrade(t)
  <2>1. LowerOK' /\ AliasOK' /\ MountOK' BY <1>3 DEF NodegetUpgrade, lowerVars, aliasVars,
        mountVars, TypeOK, LowerOK, AliasOK, MountOK
  <2>2. LockOK' BY <1>3 DEF NodegetUpgrade, Release, Upgrade, TypeOK, LockOK
  <2>3. ThreadOK' BY <1>3 DEF NodegetUpgrade, Go, argVars, TypeOK, AliasOK, ThreadOK, LocalsOK,
        LockLabels, Labels
  <2>4. ASSUME NEW s \in Threads PROVE LocalsOK(s)'
        BY <1>3 DEF NodegetUpgrade, Go, argVars, TypeOK, AliasOK, ThreadOK, LocalsOK, LockLabels,
        NodegetLabels
  <2> QED BY <2>1, <2>2, <2>3, <2>4 DEF TypeOK
<1>4. CASE NodegetRelock(t)
  <2>1. LowerOK' /\ AliasOK' /\ MountOK' BY <1>4 DEF NodegetRelock, lowerVars, aliasVars,
        mountVars, TypeOK, LowerOK, AliasOK, MountOK
  <2>2. LockOK' BY <1>4 DEF NodegetRelock, Acquire, TypeOK, LockOK
  <2>3. ThreadOK' BY <1>4 DEF NodegetRelock, Go, argVars, TypeOK, AliasOK, ThreadOK, LocalsOK,
        LockLabels, Labels
  <2>4. ASSUME NEW s \in Threads PROVE LocalsOK(s)'
        BY <1>4 DEF NodegetRelock, Go, argVars, TypeOK, AliasOK, ThreadOK, LocalsOK, LockLabels,
        NodegetLabels
  <2> QED BY <2>1, <2>2, <2>3, <2>4 DEF TypeOK
<1>5. CASE NodegetDoomed(t)
  <2>1. AliasOK' /\ MountOK' BY <1>5 DEF NodegetDoomed, NodegetFail, aliasVars, mountVars, TypeOK,
        AliasOK, MountOK
  <2>2. LowerOK' BY <1>5, CountDown DEF NodegetDoomed, NodegetFail, LowerRele, TypeOK, LowerOK
  <2>3. LockOK' BY <1>5 DEF NodegetDoomed, NodegetFail, Release, TypeOK, LockOK
  <2>4. ThreadOK' BY <1>5 DEF NodegetDoomed, NodegetFail, NodegetReturn, Go, Rest, argVars,
        TypeOK, AliasOK, ThreadOK, LocalsOK, LockLabels, Labels
  <2>5. ASSUME NEW s \in Threads PROVE LocalsOK(s)'
        BY <1>5 DEF NodegetDoomed, NodegetFail, NodegetReturn, Go, Rest, argVars, TypeOK, AliasOK,
        ThreadOK, LocalsOK, LockLabels, NodegetLabels
  <2> QED BY <2>1, <2>2, <2>3, <2>4, <2>5 DEF TypeOK
<1>6. CASE NodegetUpgraded(t)
  <2>1. LowerOK' /\ AliasOK' /\ LockOK' /\ MountOK' BY <1>6 DEF NodegetUpgraded, lowerVars,
        aliasVars, lockVars, mountVars, TypeOK, LowerOK, AliasOK, LockOK, MountOK
  <2>2. ThreadOK' BY <1>6 DEF NodegetUpgraded, Go, argVars, TypeOK, AliasOK, ThreadOK, LocalsOK,
        LockLabels, Labels
  <2>3. ASSUME NEW s \in Threads PROVE LocalsOK(s)'
        BY <1>6 DEF NodegetUpgraded, Go, argVars, TypeOK, AliasOK, ThreadOK, LocalsOK, LockLabels,
        NodegetLabels
  <2> QED BY <2>1, <2>2, <2>3 DEF TypeOK
<1>7. CASE GetnewvnodeFail(t)
  <2>1. AliasOK' /\ MountOK' BY <1>7 DEF GetnewvnodeFail, NodegetFail, aliasVars, mountVars,
        TypeOK, AliasOK, MountOK
  <2>2. LowerOK' BY <1>7, CountDown DEF GetnewvnodeFail, NodegetFail, LowerRele, TypeOK, LowerOK
  <2>3. LockOK' BY <1>7 DEF GetnewvnodeFail, NodegetFail, Release, TypeOK, LockOK
  <2>4. ThreadOK' BY <1>7 DEF GetnewvnodeFail, NodegetFail, NodegetReturn, Go, Rest, argVars,
        TypeOK, AliasOK, ThreadOK, LocalsOK, LockLabels, Labels
  <2>5. ASSUME NEW s \in Threads PROVE LocalsOK(s)'
        BY <1>7 DEF GetnewvnodeFail, NodegetFail, NodegetReturn, Go, Rest, argVars, TypeOK,
        AliasOK, ThreadOK, LocalsOK, LockLabels, NodegetLabels
  <2> QED BY <2>1, <2>2, <2>3, <2>4, <2>5 DEF TypeOK
<1>8. ASSUME NEW u \in Upper, Getnewvnode(t, u) PROVE TypeOK'
  <2>1. LowerOK' /\ LockOK' /\ MountOK' BY <1>8 DEF Getnewvnode, lowerVars, lockVars, mountVars,
        TypeOK, LowerOK, LockOK, MountOK
  <2>2. AliasOK' BY <1>8 DEF Getnewvnode, TypeOK, AliasOK, ThreadOK
  <2>3. ThreadOK' BY <1>8 DEF Getnewvnode, Go, argVars, TypeOK, AliasOK, ThreadOK, LocalsOK,
        LockLabels, Labels
  <2>4. ASSUME NEW s \in Threads PROVE LocalsOK(s)'
        BY <1>8 DEF Getnewvnode, Go, argVars, TypeOK, AliasOK, ThreadOK, LocalsOK, LockLabels,
        NodegetLabels
  <2> QED BY <2>1, <2>2, <2>3, <2>4 DEF TypeOK
<1>9. CASE InsmntqueFail(t)
  <2>1. AliasOK' /\ MountOK' BY <1>9 DEF InsmntqueFail, Listed, aliasVars, mountVars, TypeOK,
        AliasOK, MountOK
  <2>2. LowerOK' BY <1>9, CountDown DEF InsmntqueFail, LowerRele, TypeOK, LowerOK
  <2>3. LockOK' BY <1>9 DEF InsmntqueFail, Release, TypeOK, LockOK
  <2>4. ThreadOK' BY <1>9 DEF InsmntqueFail, Go, Listed, argVars, TypeOK, AliasOK, ThreadOK,
        LocalsOK, LockLabels, Labels
  <2>5. ASSUME NEW s \in Threads PROVE LocalsOK(s)'
        BY <1>9 DEF InsmntqueFail, Go, Listed, argVars, TypeOK, AliasOK, ThreadOK, LocalsOK,
        LockLabels, NodegetLabels
  <2> QED BY <2>1, <2>2, <2>3, <2>4, <2>5 DEF TypeOK
<1>10. CASE Insmntque(t)
  <2>1. LowerOK' /\ LockOK' /\ MountOK' BY <1>10 DEF Insmntque, lowerVars, lockVars, mountVars,
        TypeOK, LowerOK, LockOK, MountOK
  <2>2. AliasOK' BY <1>10 DEF Insmntque, Listed, TypeOK, AliasOK, ThreadOK
  <2>3. ThreadOK' BY <1>10 DEF Insmntque, Go, Listed, argVars, TypeOK, AliasOK, ThreadOK,
        LocalsOK, LockLabels, Labels
  <2>4. ASSUME NEW s \in Threads PROVE LocalsOK(s)'
        BY <1>10 DEF Insmntque, Go, Listed, argVars, TypeOK, AliasOK, ThreadOK, LocalsOK,
        LockLabels, NodegetLabels
  <2> QED BY <2>1, <2>2, <2>3, <2>4 DEF TypeOK
<1>11. CASE Hashins(t)
  <2>1. LowerOK' /\ LockOK' /\ MountOK' BY <1>11 DEF Hashins, lowerVars, lockVars, mountVars,
        TypeOK, LowerOK, LockOK, MountOK
  <2>2. AliasOK' BY <1>11 DEF Hashins, Aliases, TypeOK, AliasOK, ThreadOK, LocalsOK
  <2>3. ThreadOK' BY <1>11 DEF Hashins, Aliases, NodegetReturn, Go, Rest, argVars, TypeOK,
        AliasOK, ThreadOK, LocalsOK, LockLabels, Labels
  <2>4. ASSUME NEW s \in Threads PROVE LocalsOK(s)'
        BY <1>11 DEF Hashins, Aliases, NodegetReturn, Go, Rest, argVars, TypeOK, AliasOK,
        ThreadOK, LocalsOK, LockLabels, NodegetLabels
  <2> QED BY <2>1, <2>2, <2>3, <2>4 DEF TypeOK
<1>12. CASE HashinsDup(t)
  <2>1. LockOK' /\ MountOK' BY <1>12 DEF HashinsDup, lockVars, mountVars, TypeOK, LockOK, MountOK
  <2>2. LowerOK' BY <1>12, CountDown, CountUp DEF HashinsDup, LowerRele, TypeOK, LowerOK
  <2>3. AliasOK' BY <1>12, CountDown, CountUp DEF HashinsDup, Aliases, TypeOK, AliasOK, ThreadOK
  <2>4. ThreadOK' BY <1>12 DEF HashinsDup, Go, Aliases, argVars, TypeOK, AliasOK, ThreadOK,
        LocalsOK, LockLabels, Labels
  <2>5. ASSUME NEW s \in Threads PROVE LocalsOK(s)'
        BY <1>12 DEF HashinsDup, Go, Aliases, argVars, TypeOK, AliasOK, ThreadOK, LocalsOK,
        LockLabels, NodegetLabels
  <2> QED BY <2>1, <2>2, <2>3, <2>4, <2>5 DEF TypeOK
<1>13. CASE DestroyProtoDetach(t)
  <2>1. LowerOK' /\ MountOK' BY <1>13 DEF DestroyProtoDetach, lowerVars, mountVars, TypeOK,
        LowerOK, MountOK
  <2>2. AliasOK' BY <1>13 DEF DestroyProtoDetach, TypeOK, AliasOK, ThreadOK
  <2>3. LockOK' BY <1>13 DEF DestroyProtoDetach, Acquire, TypeOK, LockOK
  <2>4. ThreadOK' BY <1>13 DEF DestroyProtoDetach, Go, argVars, TypeOK, AliasOK, ThreadOK,
        LocalsOK, LockLabels, Labels
  <2>5. ASSUME NEW s \in Threads PROVE LocalsOK(s)'
        BY <1>13 DEF DestroyProtoDetach, Go, argVars, TypeOK, AliasOK, ThreadOK, LocalsOK,
        LockLabels, NodegetLabels
  <2> QED BY <2>1, <2>2, <2>3, <2>4, <2>5 DEF TypeOK
<1>14. CASE DestroyProtoFin(t)
  <2>1. LowerOK' /\ MountOK' BY <1>14 DEF DestroyProtoFin, lowerVars, mountVars, TypeOK, LowerOK,
        MountOK
  <2>2. AliasOK' BY <1>14, CountDown DEF DestroyProtoFin, TypeOK, AliasOK, ThreadOK
  <2>3. LockOK' BY <1>14 DEF DestroyProtoFin, Release, TypeOK, LockOK
  <2>4. ThreadOK' BY <1>14 DEF DestroyProtoFin, NodegetReturn, Go, Rest, argVars, TypeOK, AliasOK,
        ThreadOK, LocalsOK, LockLabels, Labels
  <2>5. ASSUME NEW s \in Threads PROVE LocalsOK(s)'
        BY <1>14 DEF DestroyProtoFin, NodegetReturn, Go, Rest, argVars, TypeOK, AliasOK, ThreadOK,
        LocalsOK, LockLabels, NodegetLabels
  <2> QED BY <2>1, <2>2, <2>3, <2>4, <2>5 DEF TypeOK
<1> QED BY <1>1, <1>2, <1>3, <1>4, <1>5, <1>6, <1>7, <1>8, <1>9, <1>10, <1>11, <1>12, <1>13, <1>14 DEF Nodeget

(* tpt_lock and its callers keep the types.                                *)
LEMMA VnLockType ==
    ASSUME TypeOK, NEW t \in Threads, VnLock(t)
    PROVE  TypeOK'
<1> USE NodeConstants
<1>1. CASE LockStart(t)
  <2>1. AliasOK' /\ LockOK' /\ MountOK' BY <1>1 DEF LockStart, aliasVars, lockVars, mountVars,
        TypeOK, AliasOK, LockOK, MountOK
  <2>2. LowerOK' BY <1>1, CountUp DEF LockStart, TypeOK, LowerOK
  <2>3. ThreadOK' BY <1>1 DEF LockStart, Go, argVars, TypeOK, AliasOK, ThreadOK, LocalsOK,
        LockLabels, Labels
  <2>4. ASSUME NEW s \in Threads PROVE LocalsOK(s)'
        BY <1>1 DEF LockStart, Go, argVars, TypeOK, AliasOK, ThreadOK, LocalsOK, LockLabels,
        NodegetLabels
  <2> QED BY <2>1, <2>2, <2>3, <2>4 DEF TypeOK
<1>2. CASE LockLower(t)
  <2>1. AliasOK' /\ MountOK' BY <1>2 DEF LockLower, aliasVars, mountVars, TypeOK, AliasOK, MountOK
  <2>2. LowerOK' BY <1>2, CountDown DEF LockLower, TypeOK, LowerOK
  <2>3. LockOK' BY <1>2 DEF LockLower, Acquire, TypeOK, LockOK
  <2>4. ThreadOK' BY <1>2 DEF LockLower, LockGranted, Go, argVars, TypeOK, AliasOK, ThreadOK,
        LocalsOK, LockLabels, Labels
  <2>5. ASSUME NEW s \in Threads PROVE LocalsOK(s)'
        BY <1>2 DEF LockLower, LockGranted, Go, argVars, TypeOK, AliasOK, ThreadOK, LocalsOK,
        LockLabels, NodegetLabels
  <2> QED BY <2>1, <2>2, <2>3, <2>4, <2>5 DEF TypeOK
<1>3. CASE LockSwitched(t)
  <2>1. LowerOK' /\ AliasOK' /\ LockOK' /\ MountOK' BY <1>3 DEF LockSwitched, lowerVars,
        aliasVars, lockVars, mountVars, TypeOK, LowerOK, AliasOK, LockOK, MountOK
  <2>2. ThreadOK' BY <1>3 DEF LockSwitched, Go, argVars, TypeOK, AliasOK, ThreadOK, LocalsOK,
        LockLabels, Labels
  <2>3. ASSUME NEW s \in Threads PROVE LocalsOK(s)'
        BY <1>3 DEF LockSwitched, Go, argVars, TypeOK, AliasOK, ThreadOK, LocalsOK, LockLabels,
        NodegetLabels
  <2> QED BY <2>1, <2>2, <2>3 DEF TypeOK
<1>4. CASE LockOwn(t)
  <2>1. AliasOK' /\ MountOK' BY <1>4 DEF LockOwn, aliasVars, mountVars, TypeOK, AliasOK, MountOK
  <2>2. LowerOK' BY <1>4, CountDown DEF LockOwn, TypeOK, LowerOK
  <2>3. LockOK' BY <1>4 DEF LockOwn, Acquire, TypeOK, LockOK
  <2>4. ThreadOK' BY <1>4 DEF LockOwn, LockGranted, Go, argVars, TypeOK, AliasOK, ThreadOK,
        LocalsOK, LockLabels, Labels
  <2>5. ASSUME NEW s \in Threads PROVE LocalsOK(s)'
        BY <1>4 DEF LockOwn, LockGranted, Go, argVars, TypeOK, AliasOK, ThreadOK, LocalsOK,
        LockLabels, NodegetLabels
  <2> QED BY <2>1, <2>2, <2>3, <2>4, <2>5 DEF TypeOK
<1>5. CASE VnLockDone(t)
  <2>1. LowerOK' /\ AliasOK' /\ LockOK' /\ MountOK' BY <1>5 DEF VnLockDone, lowerVars, aliasVars,
        lockVars, mountVars, TypeOK, LowerOK, AliasOK, LockOK, MountOK
  <2>2. ThreadOK' BY <1>5 DEF VnLockDone, Go, argVars, TypeOK, AliasOK, ThreadOK, LocalsOK,
        LockLabels, Labels
  <2>3. ASSUME NEW s \in Threads PROVE LocalsOK(s)'
        BY <1>5 DEF VnLockDone, Go, argVars, TypeOK, AliasOK, ThreadOK, LocalsOK, LockLabels,
        NodegetLabels
  <2> QED BY <2>1, <2>2, <2>3 DEF TypeOK
<1>6. CASE VnLockDoomed(t)
  <2>1. LowerOK' BY <1>6 DEF VnLockDoomed, lowerVars, TypeOK, LowerOK
  <2>2. AliasOK' BY <1>6, CountDown DEF VnLockDoomed, Vdrop, TypeOK, AliasOK, ThreadOK
  <2>3. LockOK' BY <1>6 DEF VnLockDoomed, Release, TypeOK, LockOK
  <2>4. MountOK' BY <1>6 DEF VnLockDoomed, TypeOK, MountOK
  <2>5. ThreadOK' BY <1>6 DEF VnLockDoomed, Go, Rest, argVars, TypeOK, AliasOK, ThreadOK,
        LocalsOK, LockLabels, Labels
  <2>6. ASSUME NEW s \in Threads PROVE LocalsOK(s)'
        BY <1>6 DEF VnLockDoomed, Go, Rest, argVars, TypeOK, AliasOK, ThreadOK, LocalsOK,
        LockLabels, NodegetLabels
  <2> QED BY <2>1, <2>2, <2>3, <2>4, <2>5, <2>6 DEF TypeOK
<1> QED BY <1>1, <1>2, <1>3, <1>4, <1>5, <1>6 DEF VnLock

(* The last release and inactive processing keep the types.                *)
LEMMA PutType ==
    ASSUME TypeOK, NEW t \in Threads, Put(t)
    PROVE  TypeOK'
<1> USE NodeConstants
<1>1. CASE VputDir(t)
  <2>1. LowerOK' /\ MountOK' BY <1>1 DEF VputDir, Vput, lowerVars, mountVars, TypeOK, LowerOK,
        MountOK
  <2>2. AliasOK' BY <1>1, CountDown, CountUp DEF VputDir, Vput, PutUse, TypeOK, AliasOK, ThreadOK
  <2>3. LockOK' BY <1>1 DEF VputDir, Vput, Release, lockVars, TypeOK, LockOK
  <2>4. ThreadOK' BY <1>1 DEF VputDir, Vput, Go, Rest, TypeOK, AliasOK, ThreadOK, LocalsOK,
        LockLabels, Labels
  <2>5. ASSUME NEW s \in Threads PROVE LocalsOK(s)'
        BY <1>1 DEF VputDir, Vput, Go, Rest, TypeOK, AliasOK, ThreadOK, LocalsOK, LockLabels,
        NodegetLabels
  <2> QED BY <2>1, <2>2, <2>3, <2>4, <2>5 DEF TypeOK
<1>2. CASE VreleDir(t)
  <2>1. LowerOK' /\ LockOK' /\ MountOK' BY <1>2 DEF VreleDir, lowerVars, lockVars, mountVars,
        TypeOK, LowerOK, LockOK, MountOK
  <2>2. AliasOK' BY <1>2, CountDown, CountUp DEF VreleDir, PutUse, TypeOK, AliasOK, ThreadOK
  <2>3. ThreadOK' BY <1>2 DEF VreleDir, Go, TypeOK, AliasOK, ThreadOK, LocalsOK, LockLabels,
        Labels
  <2>4. ASSUME NEW s \in Threads PROVE LocalsOK(s)'
        BY <1>2 DEF VreleDir, Go, TypeOK, AliasOK, ThreadOK, LocalsOK, LockLabels, NodegetLabels
  <2> QED BY <2>1, <2>2, <2>3, <2>4 DEF TypeOK
<1>3. CASE VputFinal(t)
  <2>1. LowerOK' /\ MountOK' BY <1>3 DEF VputFinal, lowerVars, mountVars, TypeOK, LowerOK, MountOK
  <2>2. AliasOK' BY <1>3, CountDown DEF VputFinal, Vdrop, Defer, TypeOK, AliasOK, ThreadOK
  <2>3. LockOK' BY <1>3 DEF VputFinal, Release, Upgrade, lockVars, TypeOK, LockOK
  <2>4. ThreadOK' BY <1>3 DEF VputFinal, Go, Rest, TypeOK, AliasOK, ThreadOK, LocalsOK,
        LockLabels, Labels
  <2>5. ASSUME NEW s \in Threads PROVE LocalsOK(s)'
        BY <1>3 DEF VputFinal, Go, Rest, TypeOK, AliasOK, ThreadOK, LocalsOK, LockLabels,
        NodegetLabels
  <2> QED BY <2>1, <2>2, <2>3, <2>4, <2>5 DEF TypeOK
<1>4. CASE VreleFinal(t)
  <2>1. LowerOK' /\ LockOK' /\ MountOK' BY <1>4 DEF VreleFinal, lowerVars, lockVars, mountVars,
        TypeOK, LowerOK, LockOK, MountOK
  <2>2. AliasOK' BY <1>4, CountDown DEF VreleFinal, Vdrop, Defer, TypeOK, AliasOK, ThreadOK
  <2>3. ThreadOK' BY <1>4 DEF VreleFinal, Go, TypeOK, AliasOK, ThreadOK, LocalsOK, LockLabels,
        Labels
  <2>4. ASSUME NEW s \in Threads PROVE LocalsOK(s)'
        BY <1>4 DEF VreleFinal, Go, TypeOK, AliasOK, ThreadOK, LocalsOK, LockLabels, NodegetLabels
  <2> QED BY <2>1, <2>2, <2>3, <2>4 DEF TypeOK
<1>5. CASE Inactive(t)
  <2>1. LowerOK' /\ MountOK' BY <1>5 DEF Inactive, lowerVars, mountVars, TypeOK, LowerOK, MountOK
  <2>2. AliasOK' BY <1>5, CountDown DEF Inactive, Vdrop, Doom, TypeOK, AliasOK, ThreadOK
  <2>3. LockOK' BY <1>5 DEF Inactive, Release, Doom, lockVars, TypeOK, LockOK
  <2>4. ThreadOK' BY <1>5 DEF Inactive, Go, Rest, Doom, argVars, TypeOK, AliasOK, ThreadOK,
        LocalsOK, LockLabels, Labels
  <2>5. ASSUME NEW s \in Threads PROVE LocalsOK(s)'
        BY <1>5 DEF Inactive, Go, Rest, Doom, argVars, TypeOK, AliasOK, ThreadOK, LocalsOK,
        LockLabels, NodegetLabels
  <2> QED BY <2>1, <2>2, <2>3, <2>4, <2>5 DEF TypeOK
<1> QED BY <1>1, <1>2, <1>3, <1>4, <1>5 DEF Put

(* tpt_reclaim keeps the types.                                            *)
LEMMA ReclaimType ==
    ASSUME TypeOK, NEW t \in Threads, Reclaim(t)
    PROVE  TypeOK'
<1> USE NodeConstants
<1>1. CASE ReclaimHashrem(t)
  <2>1. LowerOK' /\ LockOK' /\ MountOK' BY <1>1 DEF ReclaimHashrem, lowerVars, lockVars,
        mountVars, TypeOK, LowerOK, LockOK, MountOK
  <2>2. AliasOK' BY <1>1 DEF ReclaimHashrem, TypeOK, AliasOK, ThreadOK
  <2>3. ThreadOK' BY <1>1 DEF ReclaimHashrem, Go, argVars, TypeOK, AliasOK, ThreadOK, LocalsOK,
        LockLabels, Labels
  <2>4. ASSUME NEW s \in Threads PROVE LocalsOK(s)'
        BY <1>1 DEF ReclaimHashrem, Go, argVars, TypeOK, AliasOK, ThreadOK, LocalsOK, LockLabels,
        NodegetLabels
  <2> QED BY <2>1, <2>2, <2>3, <2>4 DEF TypeOK
<1>2. CASE ReclaimDetach(t)
  <2>1. LowerOK' /\ MountOK' BY <1>2 DEF ReclaimDetach, lowerVars, mountVars, TypeOK, LowerOK,
        MountOK
  <2>2. AliasOK' BY <1>2 DEF ReclaimDetach, TypeOK, AliasOK, ThreadOK
  <2>3. LockOK' BY <1>2 DEF ReclaimDetach, Acquire, TypeOK, LockOK
  <2>4. ThreadOK' BY <1>2 DEF ReclaimDetach, Go, argVars, TypeOK, AliasOK, ThreadOK, LocalsOK,
        LockLabels, Labels
  <2>5. ASSUME NEW s \in Threads PROVE LocalsOK(s)'
        BY <1>2 DEF ReclaimDetach, Go, argVars, TypeOK, AliasOK, ThreadOK, LocalsOK, LockLabels,
        NodegetLabels
  <2> QED BY <2>1, <2>2, <2>3, <2>4, <2>5 DEF TypeOK
<1>3. CASE ReclaimRele(t)
  <2>1. AliasOK' /\ MountOK' BY <1>3 DEF ReclaimRele, aliasVars, mountVars, TypeOK, AliasOK,
        MountOK
  <2>2. LowerOK' BY <1>3, CountDown DEF ReclaimRele, LowerRele, TypeOK, LowerOK
  <2>3. LockOK' BY <1>3 DEF ReclaimRele, Release, TypeOK, LockOK
  <2>4. ThreadOK' BY <1>3 DEF ReclaimRele, Go, argVars, TypeOK, AliasOK, ThreadOK, LocalsOK,
        LockLabels, Labels
  <2>5. ASSUME NEW s \in Threads PROVE LocalsOK(s)'
        BY <1>3 DEF ReclaimRele, Go, argVars, TypeOK, AliasOK, ThreadOK, LocalsOK, LockLabels,
        NodegetLabels
  <2> QED BY <2>1, <2>2, <2>3, <2>4, <2>5 DEF TypeOK
<1>4. CASE ReclaimFin(t)
  <2>1. LowerOK' /\ MountOK' BY <1>4 DEF ReclaimFin, lowerVars, mountVars, TypeOK, LowerOK,
        MountOK
  <2>2. AliasOK' BY <1>4, CountDown DEF ReclaimFin, Vdrop, TypeOK, AliasOK, ThreadOK
  <2>3. LockOK' BY <1>4 DEF ReclaimFin, Release, TypeOK, LockOK
  <2>4. ThreadOK' BY <1>4 DEF ReclaimFin, Go, Rest, argVars, TypeOK, AliasOK, ThreadOK, LocalsOK,
        LockLabels, Labels
  <2>5. ASSUME NEW s \in Threads PROVE LocalsOK(s)'
        BY <1>4 DEF ReclaimFin, Go, Rest, argVars, TypeOK, AliasOK, ThreadOK, LocalsOK,
        LockLabels, NodegetLabels
  <2> QED BY <2>1, <2>2, <2>3, <2>4, <2>5 DEF TypeOK
<1> QED BY <1>1, <1>2, <1>3, <1>4 DEF Reclaim

(* tptfs_unmount keeps the types.                                          *)
LEMMA UnmountType ==
    ASSUME TypeOK, NEW t \in Threads, Unmount(t)
    PROVE  TypeOK'
<1> USE NodeConstants
<1>1. ASSUME NEW u \in Upper, FlushPick(t, u) PROVE TypeOK'
  <2>1. LowerOK' /\ LockOK' BY <1>1 DEF FlushPick, lowerVars, lockVars, TypeOK, LowerOK, LockOK
  <2>2. AliasOK' BY <1>1, CountUp DEF FlushPick, Pending, Listed, TypeOK, AliasOK, ThreadOK
  <2>3. MountOK' BY <1>1 DEF FlushPick, TypeOK, MountOK
  <2>4. ThreadOK' BY <1>1 DEF FlushPick, Go, Pending, Listed, argVars, TypeOK, AliasOK, ThreadOK,
        LocalsOK, LockLabels, Labels
  <2>5. ASSUME NEW s \in Threads PROVE LocalsOK(s)'
        BY <1>1 DEF FlushPick, Go, Pending, Listed, argVars, TypeOK, AliasOK, ThreadOK, LocalsOK,
        LockLabels, NodegetLabels
  <2> QED BY <2>1, <2>2, <2>3, <2>4, <2>5 DEF TypeOK
<1>2. CASE FlushVnode(t)
  <2>1. LowerOK' BY <1>2 DEF FlushVnode, lowerVars, TypeOK, LowerOK
  <2>2. AliasOK' BY <1>2, CountDown DEF FlushVnode, Vdrop, Doom, TypeOK, AliasOK, ThreadOK
  <2>3. LockOK' BY <1>2 DEF FlushVnode, Release, Doom, lockVars, TypeOK, LockOK
  <2>4. MountOK' BY <1>2 DEF FlushVnode, TypeOK, MountOK
  <2>5. ThreadOK' BY <1>2 DEF FlushVnode, Go, Doom, argVars, TypeOK, AliasOK, ThreadOK, LocalsOK,
        LockLabels, Labels
  <2>6. ASSUME NEW s \in Threads PROVE LocalsOK(s)'
        BY <1>2 DEF FlushVnode, Go, Doom, argVars, TypeOK, AliasOK, ThreadOK, LocalsOK,
        LockLabels, NodegetLabels
  <2> QED BY <2>1, <2>2, <2>3, <2>4, <2>5, <2>6 DEF TypeOK
<1>3. CASE FlushAgain(t)
  <2>1. LowerOK' /\ AliasOK' /\ LockOK' BY <1>3 DEF FlushAgain, Listed, Pending, lowerVars,
        aliasVars, lockVars, TypeOK, LowerOK, AliasOK, LockOK
  <2>2. MountOK' BY <1>3 DEF FlushAgain, TypeOK, MountOK
  <2>3. ThreadOK' BY <1>3 DEF FlushAgain, Listed, Pending, argVars, TypeOK, AliasOK, ThreadOK,
        LocalsOK, LockLabels, Labels
  <2>4. ASSUME NEW s \in Threads PROVE LocalsOK(s)'
        BY <1>3 DEF FlushAgain, Listed, Pending, argVars, TypeOK, AliasOK, ThreadOK, LocalsOK,
        LockLabels, NodegetLabels
  <2> QED BY <2>1, <2>2, <2>3, <2>4 DEF TypeOK
<1>4. CASE UnmountBusy(t)
  <2>1. LowerOK' /\ AliasOK' /\ LockOK' BY <1>4 DEF UnmountBusy, Listed, Pending, lowerVars,
        aliasVars, lockVars, TypeOK, LowerOK, AliasOK, LockOK
  <2>2. MountOK' BY <1>4 DEF UnmountBusy, TypeOK, MountOK
  <2>3. ThreadOK' BY <1>4 DEF UnmountBusy, Go, Listed, Pending, argVars, TypeOK, AliasOK,
        ThreadOK, LocalsOK, LockLabels, Labels
  <2>4. ASSUME NEW s \in Threads PROVE LocalsOK(s)'
        BY <1>4 DEF UnmountBusy, Go, Listed, Pending, argVars, TypeOK, AliasOK, ThreadOK,
        LocalsOK, LockLabels, NodegetLabels
  <2> QED BY <2>1, <2>2, <2>3, <2>4 DEF TypeOK
<1>5. CASE UnmountEmpty(t)
  <2>1. LowerOK' /\ AliasOK' /\ LockOK' /\ MountOK' BY <1>5 DEF UnmountEmpty, Listed, lowerVars,
        aliasVars, lockVars, mountVars, TypeOK, LowerOK, AliasOK, LockOK, MountOK
  <2>2. ThreadOK' BY <1>5 DEF UnmountEmpty, Go, Listed, argVars, TypeOK, AliasOK, ThreadOK,
        LocalsOK, LockLabels, Labels
  <2>3. ASSUME NEW s \in Threads PROVE LocalsOK(s)'
        BY <1>5 DEF UnmountEmpty, Go, Listed, argVars, TypeOK, AliasOK, ThreadOK, LocalsOK,
        LockLabels, NodegetLabels
  <2> QED BY <2>1, <2>2, <2>3 DEF TypeOK
<1>6. CASE UnmountFin(t)
  <2>1. AliasOK' /\ LockOK' BY <1>6 DEF UnmountFin, aliasVars, lockVars, TypeOK, AliasOK, LockOK
  <2>2. LowerOK' BY <1>6, CountDown DEF UnmountFin, LowerRele, TypeOK, LowerOK
  <2>3. MountOK' BY <1>6 DEF UnmountFin, TypeOK, MountOK
  <2>4. ThreadOK' BY <1>6 DEF UnmountFin, Go, argVars, TypeOK, AliasOK, ThreadOK, LocalsOK,
        LockLabels, Labels
  <2>5. ASSUME NEW s \in Threads PROVE LocalsOK(s)'
        BY <1>6 DEF UnmountFin, Go, argVars, TypeOK, AliasOK, ThreadOK, LocalsOK, LockLabels,
        NodegetLabels
  <2> QED BY <2>1, <2>2, <2>3, <2>4, <2>5 DEF TypeOK
<1> QED BY <1>1, <1>2, <1>3, <1>4, <1>5, <1>6 DEF Unmount

(* tpt_lookup keeps the types.                                             *)
LEMMA LookupStepsType ==
    ASSUME TypeOK, NEW t \in Threads, LookupSteps(t)
    PROVE  TypeOK'
<1> USE NodeConstants
<1>1. CASE LowerLock(t)
  <2>1. LowerOK' /\ AliasOK' /\ MountOK' BY <1>1 DEF LowerLock, lowerVars, aliasVars, mountVars,
        TypeOK, LowerOK, AliasOK, MountOK
  <2>2. LockOK' BY <1>1 DEF LowerLock, Acquire, TypeOK, LockOK
  <2>3. ThreadOK' BY <1>1 DEF LowerLock, Go, argVars, TypeOK, AliasOK, ThreadOK, LocalsOK,
        LockLabels, Labels
  <2>4. ASSUME NEW s \in Threads PROVE LocalsOK(s)'
        BY <1>1 DEF LowerLock, Go, argVars, TypeOK, AliasOK, ThreadOK, LocalsOK, LockLabels,
        NodegetLabels
  <2> QED BY <2>1, <2>2, <2>3, <2>4 DEF TypeOK
<1>2. CASE LowerFail(t)
  <2>1. AliasOK' /\ LockOK' /\ MountOK' BY <1>2 DEF LowerFail, aliasVars, lockVars, mountVars,
        TypeOK, AliasOK, LockOK, MountOK
  <2>2. LowerOK' BY <1>2, CountDown DEF LowerFail, LowerRele, TypeOK, LowerOK
  <2>3. ThreadOK' BY <1>2 DEF LowerFail, Go, argVars, TypeOK, AliasOK, ThreadOK, LocalsOK,
        LockLabels, Labels
  <2>4. ASSUME NEW s \in Threads PROVE LocalsOK(s)'
        BY <1>2 DEF LowerFail, Go, argVars, TypeOK, AliasOK, ThreadOK, LocalsOK, LockLabels,
        NodegetLabels
  <2> QED BY <2>1, <2>2, <2>3, <2>4 DEF TypeOK
<1>3. CASE DotDotRelock(t)
  <2>1. LowerOK' /\ AliasOK' /\ MountOK' BY <1>3 DEF DotDotRelock, lowerVars, aliasVars,
        mountVars, TypeOK, LowerOK, AliasOK, MountOK
  <2>2. LockOK' BY <1>3 DEF DotDotRelock, Acquire, TypeOK, LockOK
  <2>3. ThreadOK' BY <1>3 DEF DotDotRelock, Go, argVars, TypeOK, AliasOK, ThreadOK, LocalsOK,
        LockLabels, Labels
  <2>4. ASSUME NEW s \in Threads PROVE LocalsOK(s)'
        BY <1>3 DEF DotDotRelock, Go, argVars, TypeOK, AliasOK, ThreadOK, LocalsOK, LockLabels,
        NodegetLabels
  <2> QED BY <2>1, <2>2, <2>3, <2>4 DEF TypeOK
<1>4. CASE DotDotPut(t)
  <2>1. AliasOK' /\ MountOK' BY <1>4 DEF DotDotPut, aliasVars, mountVars, TypeOK, AliasOK, MountOK
  <2>2. LowerOK' BY <1>4, CountDown DEF DotDotPut, LowerRele, TypeOK, LowerOK
  <2>3. LockOK' BY <1>4 DEF DotDotPut, Release, TypeOK, LockOK
  <2>4. ThreadOK' BY <1>4 DEF DotDotPut, Go, argVars, TypeOK, AliasOK, ThreadOK, LocalsOK,
        LockLabels, Labels
  <2>5. ASSUME NEW s \in Threads PROVE LocalsOK(s)'
        BY <1>4 DEF DotDotPut, Go, argVars, TypeOK, AliasOK, ThreadOK, LocalsOK, LockLabels,
        NodegetLabels
  <2> QED BY <2>1, <2>2, <2>3, <2>4, <2>5 DEF TypeOK
<1>5. CASE LookupDoomed(t)
  <2>1. AliasOK' /\ MountOK' BY <1>5 DEF LookupDoomed, aliasVars, mountVars, TypeOK, AliasOK,
        MountOK
  <2>2. LowerOK' BY <1>5, CountDown DEF LookupDoomed, LowerRele, TypeOK, LowerOK
  <2>3. LockOK' BY <1>5 DEF LookupDoomed, Release, TypeOK, LockOK
  <2>4. ThreadOK' BY <1>5 DEF LookupDoomed, Go, argVars, TypeOK, AliasOK, ThreadOK, LocalsOK,
        LockLabels, Labels
  <2>5. ASSUME NEW s \in Threads PROVE LocalsOK(s)'
        BY <1>5 DEF LookupDoomed, Go, argVars, TypeOK, AliasOK, ThreadOK, LocalsOK, LockLabels,
        NodegetLabels
  <2> QED BY <2>1, <2>2, <2>3, <2>4, <2>5 DEF TypeOK
<1>6. CASE LookupMove(t)
  <2>1. LowerOK' /\ AliasOK' /\ MountOK' BY <1>6 DEF LookupMove, lowerVars, aliasVars, mountVars,
        TypeOK, LowerOK, AliasOK, MountOK
  <2>2. LockOK' BY <1>6 DEF LookupMove, Release, TypeOK, LockOK
  <2>3. ThreadOK' BY <1>6 DEF LookupMove, Go, TypeOK, AliasOK, ThreadOK, LocalsOK, LockLabels,
        Labels
  <2>4. ASSUME NEW s \in Threads PROVE LocalsOK(s)'
        BY <1>6 DEF LookupMove, Go, TypeOK, AliasOK, ThreadOK, LocalsOK, LockLabels, NodegetLabels
  <2> QED BY <2>1, <2>2, <2>3, <2>4 DEF TypeOK
<1>7. CASE LookupError(t)
  <2>1. AliasOK' /\ LockOK' /\ MountOK' BY <1>7 DEF LookupError, aliasVars, lockVars, mountVars,
        TypeOK, AliasOK, LockOK, MountOK
  <2>2. LowerOK' BY <1>7, CountDown DEF LookupError, TypeOK, LowerOK
  <2>3. ThreadOK' BY <1>7 DEF LookupError, Go, TypeOK, AliasOK, ThreadOK, LocalsOK, LockLabels,
        Labels
  <2>4. ASSUME NEW s \in Threads PROVE LocalsOK(s)'
        BY <1>7 DEF LookupError, Go, TypeOK, AliasOK, ThreadOK, LocalsOK, LockLabels,
        NodegetLabels
  <2> QED BY <2>1, <2>2, <2>3, <2>4 DEF TypeOK
<1>8. CASE LookupSelf(t)
  <2>1. LockOK' /\ MountOK' BY <1>8 DEF LookupSelf, lockVars, mountVars, TypeOK, LockOK, MountOK
  <2>2. LowerOK' BY <1>8, CountDown, CountUp DEF LookupSelf, LowerRele, TypeOK, LowerOK
  <2>3. AliasOK' BY <1>8, CountDown, CountUp DEF LookupSelf, TypeOK, AliasOK, ThreadOK
  <2>4. ThreadOK' BY <1>8 DEF LookupSelf, NodegetReturn, Go, Rest, TypeOK, AliasOK, ThreadOK,
        LocalsOK, LockLabels, Labels
  <2>5. ASSUME NEW s \in Threads PROVE LocalsOK(s)'
        BY <1>8 DEF LookupSelf, NodegetReturn, Go, Rest, TypeOK, AliasOK, ThreadOK, LocalsOK,
        LockLabels, NodegetLabels
  <2> QED BY <2>1, <2>2, <2>3, <2>4, <2>5 DEF TypeOK
<1>9. CASE LookupNode(t)
  <2>1. AliasOK' /\ LockOK' /\ MountOK' BY <1>9 DEF LookupNode, aliasVars, lockVars, mountVars,
        TypeOK, AliasOK, LockOK, MountOK
  <2>2. LowerOK' BY <1>9, CountDown DEF LookupNode, TypeOK, LowerOK
  <2>3. ThreadOK' BY <1>9 DEF LookupNode, Go, TypeOK, AliasOK, ThreadOK, LocalsOK, LockLabels,
        Labels
  <2>4. ASSUME NEW s \in Threads PROVE LocalsOK(s)'
        BY <1>9 DEF LookupNode, Go, TypeOK, AliasOK, ThreadOK, LocalsOK, LockLabels, NodegetLabels
  <2> QED BY <2>1, <2>2, <2>3, <2>4 DEF TypeOK
<1> QED BY <1>1, <1>2, <1>3, <1>4, <1>5, <1>6, <1>7, <1>8, <1>9 DEF LookupSteps

(* tpt_vptocnp keeps the types.                                            *)
LEMMA VptocnpStepsType ==
    ASSUME TypeOK, NEW t \in Threads, VptocnpSteps(t)
    PROVE  TypeOK'
<1> USE NodeConstants
<1>1. CASE VptocnpParent(t)
  <2>1. AliasOK' /\ LockOK' /\ MountOK' BY <1>1 DEF VptocnpParent, aliasVars, lockVars, mountVars,
        TypeOK, AliasOK, LockOK, MountOK
  <2>2. LowerOK' BY <1>1, CountDown, CountUp DEF VptocnpParent, TypeOK, LowerOK
  <2>3. ThreadOK' BY <1>1 DEF VptocnpParent, Go, TypeOK, AliasOK, ThreadOK, LocalsOK, LockLabels,
        Labels
  <2>4. ASSUME NEW s \in Threads PROVE LocalsOK(s)'
        BY <1>1 DEF VptocnpParent, Go, TypeOK, AliasOK, ThreadOK, LocalsOK, LockLabels,
        NodegetLabels
  <2> QED BY <2>1, <2>2, <2>3, <2>4 DEF TypeOK
<1>2. CASE VptocnpError(t)
  <2>1. AliasOK' /\ LockOK' /\ MountOK' BY <1>2 DEF VptocnpError, aliasVars, lockVars, mountVars,
        TypeOK, AliasOK, LockOK, MountOK
  <2>2. LowerOK' BY <1>2, CountDown DEF VptocnpError, LowerRele, TypeOK, LowerOK
  <2>3. ThreadOK' BY <1>2 DEF VptocnpError, VptocnpRelock, Go, TypeOK, AliasOK, ThreadOK,
        LocalsOK, LockLabels, Labels
  <2>4. ASSUME NEW s \in Threads PROVE LocalsOK(s)'
        BY <1>2 DEF VptocnpError, VptocnpRelock, Go, TypeOK, AliasOK, ThreadOK, LocalsOK,
        LockLabels, NodegetLabels
  <2> QED BY <2>1, <2>2, <2>3, <2>4 DEF TypeOK
<1>3. CASE VptocnpLock(t)
  <2>1. LowerOK' /\ AliasOK' /\ MountOK' BY <1>3 DEF VptocnpLock, lowerVars, aliasVars, mountVars,
        TypeOK, LowerOK, AliasOK, MountOK
  <2>2. LockOK' BY <1>3 DEF VptocnpLock, Acquire, TypeOK, LockOK
  <2>3. ThreadOK' BY <1>3 DEF VptocnpLock, Go, argVars, TypeOK, AliasOK, ThreadOK, LocalsOK,
        LockLabels, Labels
  <2>4. ASSUME NEW s \in Threads PROVE LocalsOK(s)'
        BY <1>3 DEF VptocnpLock, Go, argVars, TypeOK, AliasOK, ThreadOK, LocalsOK, LockLabels,
        NodegetLabels
  <2> QED BY <2>1, <2>2, <2>3, <2>4 DEF TypeOK
<1>4. CASE VptocnpDoomed(t)
  <2>1. AliasOK' /\ LockOK' /\ MountOK' BY <1>4 DEF VptocnpDoomed, aliasVars, lockVars, mountVars,
        TypeOK, AliasOK, LockOK, MountOK
  <2>2. LowerOK' BY <1>4, CountDown DEF VptocnpDoomed, LowerRele, TypeOK, LowerOK
  <2>3. ThreadOK' BY <1>4 DEF VptocnpDoomed, VptocnpRelock, Go, TypeOK, AliasOK, ThreadOK,
        LocalsOK, LockLabels, Labels
  <2>4. ASSUME NEW s \in Threads PROVE LocalsOK(s)'
        BY <1>4 DEF VptocnpDoomed, VptocnpRelock, Go, TypeOK, AliasOK, ThreadOK, LocalsOK,
        LockLabels, NodegetLabels
  <2> QED BY <2>1, <2>2, <2>3, <2>4 DEF TypeOK
<1>5. CASE VptocnpReturn(t)
  <2>1. LowerOK' /\ AliasOK' /\ MountOK' BY <1>5 DEF VptocnpReturn, lowerVars, aliasVars,
        mountVars, TypeOK, LowerOK, AliasOK, MountOK
  <2>2. LockOK' BY <1>5 DEF VptocnpReturn, Release, lockVars, TypeOK, LockOK
  <2>3. ThreadOK' BY <1>5 DEF VptocnpReturn, VptocnpRelock, Go, TypeOK, AliasOK, ThreadOK,
        LocalsOK, LockLabels, Labels
  <2>4. ASSUME NEW s \in Threads PROVE LocalsOK(s)'
        BY <1>5 DEF VptocnpReturn, VptocnpRelock, Go, TypeOK, AliasOK, ThreadOK, LocalsOK,
        LockLabels, NodegetLabels
  <2> QED BY <2>1, <2>2, <2>3, <2>4 DEF TypeOK
<1> QED BY <1>1, <1>2, <1>3, <1>4, <1>5 DEF VptocnpSteps

(* Starting an operation keeps the types.                                  *)
LEMMA BeginType ==
    ASSUME TypeOK, NEW t \in Threads, Begin(t)
    PROVE  TypeOK'
<1> USE NodeConstants
<1>1. ASSUME NEW m \in Mounts, NEW md \in {"S", "X"}, Root(t, m, md) PROVE TypeOK'
  <2>1. AliasOK' /\ LockOK' /\ MountOK' BY <1>1 DEF Root, aliasVars, lockVars, mountVars, TypeOK,
        AliasOK, LockOK, MountOK
  <2>2. LowerOK' BY <1>1, CountUp DEF Root, TypeOK, LowerOK
  <2>3. ThreadOK' BY <1>1 DEF Root, Go, TypeOK, AliasOK, ThreadOK, LocalsOK, LockLabels, Labels
  <2>4. ASSUME NEW s \in Threads PROVE LocalsOK(s)'
        BY <1>1 DEF Root, Go, TypeOK, AliasOK, ThreadOK, LocalsOK, LockLabels, NodegetLabels
  <2> QED BY <2>1, <2>2, <2>3, <2>4 DEF TypeOK
<1>2. CASE Unlock(t)
  <2>1. LowerOK' /\ AliasOK' /\ MountOK' BY <1>2 DEF Unlock, lowerVars, aliasVars, mountVars,
        TypeOK, LowerOK, AliasOK, MountOK
  <2>2. LockOK' BY <1>2 DEF Unlock, Release, TypeOK, LockOK
  <2>3. ThreadOK' BY <1>2 DEF Unlock, Go, argVars, TypeOK, AliasOK, ThreadOK, LocalsOK,
        LockLabels, Labels
  <2>4. ASSUME NEW s \in Threads PROVE LocalsOK(s)'
        BY <1>2 DEF Unlock, Go, argVars, TypeOK, AliasOK, ThreadOK, LocalsOK, LockLabels,
        NodegetLabels
  <2> QED BY <2>1, <2>2, <2>3, <2>4 DEF TypeOK
<1>3. CASE VputUser(t)
  <2>1. LowerOK' /\ MountOK' BY <1>3 DEF VputUser, Vput, lowerVars, mountVars, TypeOK, LowerOK,
        MountOK
  <2>2. AliasOK' BY <1>3, CountDown, CountUp DEF VputUser, Vput, PutUse, TypeOK, AliasOK, ThreadOK
  <2>3. LockOK' BY <1>3 DEF VputUser, Vput, Release, lockVars, TypeOK, LockOK
  <2>4. ThreadOK' BY <1>3 DEF VputUser, Vput, Go, Rest, TypeOK, AliasOK, ThreadOK, LocalsOK,
        LockLabels, Labels
  <2>5. ASSUME NEW s \in Threads PROVE LocalsOK(s)'
        BY <1>3 DEF VputUser, Vput, Go, Rest, TypeOK, AliasOK, ThreadOK, LocalsOK, LockLabels,
        NodegetLabels
  <2> QED BY <2>1, <2>2, <2>3, <2>4, <2>5 DEF TypeOK
<1>4. CASE Vrele(t)
  <2>1. LowerOK' /\ LockOK' /\ MountOK' BY <1>4 DEF Vrele, lowerVars, lockVars, mountVars, TypeOK,
        LowerOK, LockOK, MountOK
  <2>2. AliasOK' BY <1>4, CountDown, CountUp DEF Vrele, PutUse, TypeOK, AliasOK, ThreadOK
  <2>3. ThreadOK' BY <1>4 DEF Vrele, Go, argVars, TypeOK, AliasOK, ThreadOK, LocalsOK, LockLabels,
        Labels
  <2>4. ASSUME NEW s \in Threads PROVE LocalsOK(s)'
        BY <1>4 DEF Vrele, Go, argVars, TypeOK, AliasOK, ThreadOK, LocalsOK, LockLabels,
        NodegetLabels
  <2> QED BY <2>1, <2>2, <2>3, <2>4 DEF TypeOK
<1>5. ASSUME NEW md \in {"S", "X"}, Relock(t, md) PROVE TypeOK'
  <2>1. LowerOK' /\ AliasOK' /\ LockOK' /\ MountOK' BY <1>5 DEF Relock, lowerVars, aliasVars,
        lockVars, mountVars, TypeOK, LowerOK, AliasOK, LockOK, MountOK
  <2>2. ThreadOK' BY <1>5 DEF Relock, Go, TypeOK, AliasOK, ThreadOK, LocalsOK, LockLabels, Labels
  <2>3. ASSUME NEW s \in Threads PROVE LocalsOK(s)'
        BY <1>5 DEF Relock, Go, TypeOK, AliasOK, ThreadOK, LocalsOK, LockLabels, NodegetLabels
  <2> QED BY <2>1, <2>2, <2>3 DEF TypeOK
<1>6. ASSUME NEW u \in Upper, DeferredInactive(t, u) PROVE TypeOK'
  <2>1. LowerOK' /\ LockOK' /\ MountOK' BY <1>6 DEF DeferredInactive, lowerVars, lockVars,
        mountVars, TypeOK, LowerOK, LockOK, MountOK
  <2>2. AliasOK' BY <1>6 DEF DeferredInactive, TypeOK, AliasOK, ThreadOK
  <2>3. ThreadOK' BY <1>6 DEF DeferredInactive, Go, TypeOK, AliasOK, ThreadOK, LocalsOK,
        LockLabels, Labels
  <2>4. ASSUME NEW s \in Threads PROVE LocalsOK(s)'
        BY <1>6 DEF DeferredInactive, Go, TypeOK, AliasOK, ThreadOK, LocalsOK, LockLabels,
        NodegetLabels
  <2> QED BY <2>1, <2>2, <2>3, <2>4 DEF TypeOK
<1>7. ASSUME NEW m \in Mounts, NEW force \in ForceFlags, UnmountStart(t, m, force) PROVE TypeOK'
  <2>1. LowerOK' /\ AliasOK' /\ LockOK' BY <1>7 DEF UnmountStart, lowerVars, aliasVars, lockVars,
        TypeOK, LowerOK, AliasOK, LockOK
  <2>2. MountOK' BY <1>7 DEF UnmountStart, TypeOK, MountOK
  <2>3. ThreadOK' BY <1>7 DEF UnmountStart, Go, TypeOK, AliasOK, ThreadOK, LocalsOK, LockLabels,
        Labels
  <2>4. ASSUME NEW s \in Threads PROVE LocalsOK(s)'
        BY <1>7 DEF UnmountStart, Go, TypeOK, AliasOK, ThreadOK, LocalsOK, LockLabels,
        NodegetLabels
  <2> QED BY <2>1, <2>2, <2>3, <2>4 DEF TypeOK
<1>8. ASSUME NEW c \in Lower, LookupChild(t, c) PROVE TypeOK'
  <2>1. AliasOK' /\ LockOK' /\ MountOK' BY <1>8 DEF LookupChild, LookupStart, aliasVars, lockVars,
        mountVars, TypeOK, AliasOK, LockOK, MountOK
  <2>2. LowerOK' BY <1>8, CountUp DEF LookupChild, LookupStart, TypeOK, LowerOK
  <2>3. ThreadOK' BY <1>8 DEF LookupChild, LookupStart, Go, TypeOK, AliasOK, ThreadOK, LocalsOK,
        LockLabels, Labels
  <2>4. ASSUME NEW s \in Threads PROVE LocalsOK(s)'
        BY <1>8 DEF LookupChild, LookupStart, Go, TypeOK, AliasOK, ThreadOK, LocalsOK, LockLabels,
        NodegetLabels
  <2> QED BY <2>1, <2>2, <2>3, <2>4 DEF TypeOK
<1>9. CASE LookupDot(t)
  <2>1. AliasOK' /\ LockOK' /\ MountOK' BY <1>9 DEF LookupDot, LookupStart, aliasVars, lockVars,
        mountVars, TypeOK, AliasOK, LockOK, MountOK
  <2>2. LowerOK' BY <1>9, CountUp DEF LookupDot, LookupStart, TypeOK, LowerOK
  <2>3. ThreadOK' BY <1>9 DEF LookupDot, LookupStart, Go, TypeOK, AliasOK, ThreadOK, LocalsOK,
        LockLabels, Labels
  <2>4. ASSUME NEW s \in Threads PROVE LocalsOK(s)'
        BY <1>9 DEF LookupDot, LookupStart, Go, TypeOK, AliasOK, ThreadOK, LocalsOK, LockLabels,
        NodegetLabels
  <2> QED BY <2>1, <2>2, <2>3, <2>4 DEF TypeOK
<1>10. CASE LookupMissing(t)
  <2>1. AliasOK' /\ LockOK' /\ MountOK' BY <1>10 DEF LookupMissing, LookupStart, aliasVars,
        lockVars, mountVars, TypeOK, AliasOK, LockOK, MountOK
  <2>2. LowerOK' BY <1>10, CountUp DEF LookupMissing, LookupStart, TypeOK, LowerOK
  <2>3. ThreadOK' BY <1>10 DEF LookupMissing, LookupStart, Go, TypeOK, AliasOK, ThreadOK,
        LocalsOK, LockLabels, Labels
  <2>4. ASSUME NEW s \in Threads PROVE LocalsOK(s)'
        BY <1>10 DEF LookupMissing, LookupStart, Go, TypeOK, AliasOK, ThreadOK, LocalsOK,
        LockLabels, NodegetLabels
  <2> QED BY <2>1, <2>2, <2>3, <2>4 DEF TypeOK
<1>11. CASE LookupDotDot(t)
  <2>1. AliasOK' /\ MountOK' BY <1>11 DEF LookupDotDot, LookupStart, aliasVars, mountVars, TypeOK,
        AliasOK, MountOK
  <2>2. LowerOK' BY <1>11, CountUp DEF LookupDotDot, LookupStart, TypeOK, LowerOK
  <2>3. LockOK' BY <1>11 DEF LookupDotDot, Release, TypeOK, LockOK
  <2>4. ThreadOK' BY <1>11 DEF LookupDotDot, LookupStart, Go, BelowRoot, TypeOK, AliasOK,
        ThreadOK, LocalsOK, LockLabels, Labels
  <2>5. ASSUME NEW s \in Threads PROVE LocalsOK(s)'
        BY <1>11 DEF LookupDotDot, LookupStart, Go, BelowRoot, TypeOK, AliasOK, ThreadOK,
        LocalsOK, LockLabels, NodegetLabels
  <2> QED BY <2>1, <2>2, <2>3, <2>4, <2>5 DEF TypeOK
<1>12. CASE Vptocnp(t)
  <2>1. AliasOK' /\ MountOK' BY <1>12 DEF Vptocnp, aliasVars, mountVars, TypeOK, AliasOK, MountOK
  <2>2. LowerOK' BY <1>12, CountUp DEF Vptocnp, TypeOK, LowerOK
  <2>3. LockOK' BY <1>12 DEF Vptocnp, Release, TypeOK, LockOK
  <2>4. ThreadOK' BY <1>12 DEF Vptocnp, Go, BelowRoot, TypeOK, AliasOK, ThreadOK, LocalsOK,
        LockLabels, Labels
  <2>5. ASSUME NEW s \in Threads PROVE LocalsOK(s)'
        BY <1>12 DEF Vptocnp, Go, BelowRoot, TypeOK, AliasOK, ThreadOK, LocalsOK, LockLabels,
        NodegetLabels
  <2> QED BY <2>1, <2>2, <2>3, <2>4, <2>5 DEF TypeOK
<1> QED BY <1>1, <1>2, <1>3, <1>4, <1>5, <1>6, <1>7, <1>8, <1>9, <1>10, <1>11, <1>12 DEF Begin

(* Every step keeps the types.                                             *)
LEMMA TypeStep ==
    ASSUME TypeOK, [Next]_vars
    PROVE  TypeOK'
<1>1. ASSUME NEW t \in Threads, Continue(t) PROVE TypeOK'
  <2>1. CASE VgetDone(t)
    <3>1. LowerOK' /\ AliasOK' /\ MountOK'
      BY <2>1 DEF VgetDone, lowerVars, aliasVars, mountVars, TypeOK, LowerOK, AliasOK, MountOK
    <3>2. LockOK' BY <2>1 DEF VgetDone, Acquire, TypeOK, LockOK
    <3>3. ThreadOK' BY <2>1 DEF VgetDone, Go, argVars, TypeOK, ThreadOK, Labels
    <3>4. ASSUME NEW s \in Threads PROVE LocalsOK(s)'
      BY <2>1 DEF VgetDone, Go, argVars, TypeOK, ThreadOK, LocalsOK, LockLabels, NodegetLabels
    <3> QED BY <3>1, <3>2, <3>3, <3>4 DEF TypeOK
  <2>2. CASE VgetDoomed(t)
    <3>1. AliasOK' /\ LockOK' /\ MountOK'
      BY <2>2 DEF VgetDoomed, aliasVars, lockVars, mountVars, TypeOK, AliasOK, LockOK, MountOK
    <3>2. LowerOK' BY <2>2, CountDown DEF VgetDoomed, LowerRele, TypeOK, LowerOK
    <3>3. ThreadOK' BY <2>2 DEF VgetDoomed, Go, argVars, TypeOK, ThreadOK, Labels
    <3>4. ASSUME NEW s \in Threads PROVE LocalsOK(s)'
      BY <2>2 DEF VgetDoomed, Go, argVars, TypeOK, ThreadOK, LocalsOK, LockLabels, NodegetLabels
    <3> QED BY <3>1, <3>2, <3>3, <3>4 DEF TypeOK
  <2> QED
    BY <1>1, <2>1, <2>2, NodegetType, VnLockType, PutType, ReclaimType, UnmountType,
       LookupStepsType, VptocnpStepsType DEF Continue
<1>2. ASSUME NEW t \in Threads, Begin(t) PROVE TypeOK'
  BY <1>2, BeginType
<1>3. ASSUME NEW l \in Lower, LowerRevoke(l) \/ LowerReuse(l) PROVE TypeOK'
  <2>1. UNCHANGED <<luse, lhold, aliasVars, lockVars, mountVars, argVars, pc, low, up, tgt>>
        /\ LowerOK'
    BY <1>3 DEF LowerRevoke, LowerReuse, TypeOK, LowerOK
  <2>2. AliasOK' /\ LockOK' /\ MountOK'
    BY <2>1 DEF aliasVars, lockVars, mountVars, TypeOK, AliasOK, LockOK, MountOK
  <2>3. ThreadOK' /\ \A s \in Threads : LocalsOK(s)'
    BY <2>1 DEF argVars, TypeOK, ThreadOK, LocalsOK
  <2> QED BY <2>1, <2>2, <2>3 DEF TypeOK
<1>4. CASE UNCHANGED vars
  BY <1>4 DEF vars, lowerVars, aliasVars, lockVars, mountVars, argVars, TypeOK, LowerOK, AliasOK,
      LockOK, MountOK, ThreadOK, LocalsOK
<1> QED BY <1>1, <1>2, <1>3, <1>4 DEF Next, Terminated

(* The initial state has its types.                                        *)
LEMMA InitType == Init => TypeOK
<1> SUFFICES ASSUME Init PROVE TypeOK
  OBVIOUS
<1> USE NodeConstants DEF Init
<1>1. \A l \in Lower : Cardinality({m \in Mounts : LowerRoot[m] = l}) \in Int
  BY FS_CardinalityType, FS_Subset
<1>2. LowerOK BY <1>1 DEF LowerOK
<1>3. AliasOK BY DEF AliasOK
<1>4. LockOK /\ MountOK BY DEF LockOK, MountOK
<1>5. ThreadOK BY DEF ThreadOK, Labels
<1>6. \A t \in Threads : LocalsOK(t) BY DEF LocalsOK, LockLabels, NodegetLabels
<1> QED BY <1>2, <1>3, <1>4, <1>5, <1>6 DEF TypeOK

(* TypeOK is inductive: a label of a thread determines which of its locals *)
(* are set (LocalsOK), which is what the vnode operations rely on when     *)
(* they follow them, and no operation leaves that discipline.              *)
THEOREM TypeCorrect == Spec => []TypeOK
BY InitType, TypeStep, PTL DEF Spec

-----------------------------------------------------------------------------
(* The bounds of a step.                                                   *)

Is(x, y) == IF x = y THEN 1 ELSE 0

(* A thread assigns its own locals only.                                   *)
Alone(t) ==
    \A s \in Threads \ {t} :
        /\ pc'[s] = pc[s] /\ call'[s] = call[s] /\ mp'[s] = mp[s] /\ low'[s] = low[s]
        /\ mode'[s] = mode[s] /\ up'[s] = up[s] /\ dir'[s] = dir[s] /\ ldvp'[s] = ldvp[s]
        /\ tgt'[s] = tgt[s] /\ why'[s] = why[s]

(* It neither takes nor drops another thread's locks.                      *)
LockStep(t) ==
    \A k \in Vnodes, s \in Threads \ {t} :
        (ex'[k] = s <=> ex[k] = s) /\ (s \in sh'[k] <=> s \in sh[k])

(* v_data is set in a new vnode, and cleared by its creator or reclaimer   *)
(* under the vnode's own lock.                                             *)
DataStep(t) ==
    \A u \in Upper :
        \/ data'[u] = data[u]
        \/ u \notin alloc /\ pc[t] = "ng_new" /\ tgt'[t] = u /\ data'[u] = low[t]
        \/ /\ u = tgt[t] /\ data'[u] = Null /\ pc[t] \in {"dp_detach", "rc_detach"}
           /\ ex[u] = NoThread /\ ex'[u] = t

MntStep(t) ==
    \A u \in Upper :
        \/ mnt'[u] = mnt[u]
        \/ u = tgt[t] /\ pc[t] = "ng_insmnt" /\ mnt'[u] = mp[t] /\ ~Refuses(mp[t])
        \/ u = tgt[t] /\ pc[t] \in {"dp_fin", "rc_fin"} /\ mnt'[u] = Null

HashStep(t) ==
    \A u \in Upper :
        \/ u \in hash' <=> u \in hash
        \/ u = tgt[t] /\ pc[t] = "ng_hashins" /\ u \in hash' /\ Aliases(mp[t], low[t]) = {}
        \/ u = tgt[t] /\ pc[t] = "rc_hash" /\ u \notin hash'

DoomStep(t) ==
    \A u \in Upper :
        \/ udoomed'[u] = udoomed[u]
        \/ /\ udoomed'[u] /\ u = tgt[t] /\ pc[t] \in {"inact", "um_flush"}
           /\ pc'[t] = "rc_hash" /\ tgt'[t] = u /\ u \notin deferred'
        \/ udoomed'[u] /\ u = tgt[t] /\ pc[t] = "dp_fin"
        \/ ~udoomed'[u] /\ u \in alloc /\ u \notin alloc'

(* A vnode is freed with the last use and hold, by who drops it.           *)
AllocStep(t) ==
    \A u \in Upper :
        \/ u \in alloc' <=> u \in alloc
        \/ u \notin alloc /\ u \in alloc' /\ pc[t] = "ng_new" /\ tgt'[t] = u
        \/ /\ u \in alloc /\ u \notin alloc' /\ ~udoomed'[u] /\ u = tgt[t]
           /\ (udoomed[u] /\ HasHold(t)) \/ pc[t] = "dp_fin"

DeferStep(t) ==
    \A u \in Upper : u \in deferred' =>
        u \in deferred \/ (u = tgt[t] /\ pc[t] \in {"vf_put", "vf_rele"} /\ ~udoomed'[u])

(* Use and hold counts follow the references of the thread.                *)
UseStep(t) ==
    \A u \in Upper :
        uuse'[u] = uuse[u] + Is(up'[t], u) - Is(up[t], u) + Is(dir'[t], u) - Is(dir[t], u)
                           + Is(ProtoOf'[t], u) - Is(ProtoOf[t], u)

HoldStep(t) ==
    \A u \in Upper :
        uhold'[u] = uhold[u] + Is(HoldOf'[t], u) - Is(HoldOf[t], u)
                             + (IF u \in deferred' THEN 1 ELSE 0) - (IF u \in deferred THEN 1 ELSE 0)

CountStep ==
    \A u \in Upper :
        /\ u \notin alloc' => uuse'[u] = 0 /\ uhold'[u] = 0
        /\ u \in alloc' /\ udoomed'[u] => uuse'[u] + uhold'[u] > 0

LowerHoldStep(t) ==
    \A l \in Lower :
        lhold'[l] = lhold[l] + Is(SleepOf'[t], l) - Is(SleepOf[t], l) + Is(ldvp'[t], l) - Is(ldvp[t], l)

(* The reference to a lower vnode goes between the thread, at most one     *)
(* alias and at most one mount.                                            *)
SpareMove(t, l) == Is(SpareOf'[t], l) - Is(SpareOf[t], l)
LowerUseStep(t) ==
    \/ /\ AliasOf' = AliasOf /\ RootOf' = RootOf
       /\ \A l \in Lower : luse'[l] = luse[l] + SpareMove(t, l)
    \/ /\ RootOf' = RootOf
       /\ \E x \in Upper :
             /\ \A u \in Upper \ {x} : AliasOf'[u] = AliasOf[u]
             /\ \A l \in Lower : luse'[l] = luse[l] + SpareMove(t, l)
                                              + Is(AliasOf'[x], l) - Is(AliasOf[x], l)
    \/ /\ AliasOf' = AliasOf
       /\ \E x \in Mounts :
             /\ \A m \in Mounts \ {x} : RootOf'[m] = RootOf[m]
             /\ \A l \in Lower : luse'[l] = luse[l] + SpareMove(t, l)
                                              + Is(RootOf'[x], l) - Is(RootOf[x], l)

(* The phase of a mount changes at the start and at the end of an unmount; *)
(* one that is forced never finds a vnode busy.                            *)
MountStep(t) ==
    \A m \in Mounts :
        /\ \/ mstate'[m] = mstate[m]
           \/ /\ mstate[m] = "mounted" /\ mstate'[m] \in {"unmount", "force"} /\ ~RootBusy(m)
              /\ pc[t] = "idle" /\ pc'[t] = "um_pick" /\ mp'[t] = m
           \/ /\ pc[t] = "um_pick" /\ mp[t] = m /\ mstate'[m] = "mounted" /\ pc'[t] = "idle"
              /\ mstate[m] = "unmount" \/ busy[m]
           \/ pc[t] = "um_fin" /\ mp[t] = m /\ mstate'[m] = "gone" /\ pc'[t] = "idle"
        /\ mstate'[m] = "force" /\ busy'[m] => mstate[m] = "force" /\ busy[m]

(* A thread is given the alias it finds in the hash or links there, and   *)
(* gives up one that it has.                                              *)
Held(t) == {up[t], dir[t]} \ {Null}
RefStep(t) ==
    \/ Held(t)' = Held(t) /\ (pc[t] = "ng_hashins" => hash' = hash)
    \/ /\ pc[t] \in {"ng_get", "ng_hashins"} /\ hash' = hash
       /\ \E u \in Aliases(mp[t], low[t]) : Held(t)' = Held(t) \cup {u}
    \/ pc[t] = "ng_hashins" /\ hash' = hash \cup {tgt[t]} /\ Held(t)' = Held(t) \cup {tgt[t]}
    \/ pc[t] \in {"locked", "ref", "putdir"} /\ \E u \in Held(t) : Held(t)' = Held(t) \ {u}

TgtStep(t) ==
    \/ tgt'[t] \in {Null, up[t], dir[t]} \cup deferred
    \/ pc[t] = "ng_new" /\ tgt'[t] \notin alloc /\ pc'[t] = "ng_insmnt"
    \/ pc[t] = "um_pick" /\ tgt'[t] \in Upper /\ mnt[tgt'[t]] # Null
       /\ pc'[t] = "lk_start" /\ why'[t] = "flush"
    \/ /\ tgt'[t] = tgt[t]
       /\ pc[t] \in LockLabels =>
             \/ pc'[t] \in LockLabels /\ why'[t] = why[t]
             \/ pc[t] = "lk_lower" /\ data[tgt[t]] # Null /\ ex[low[t]] = NoThread
             \/ pc[t] = "lk_own" /\ ex[tgt[t]] = NoThread

(* A creator and a reclaimer stay with their vnode until they are done.    *)
StayStep(t) ==
    /\ pc[t] \in {"ng_insmnt", "dp_detach"} => MakesProto(t)' /\ tgt'[t] = tgt[t]
    /\ pc[t] = "ng_hashins" =>
          tgt[t] \in hash' \/ (MakesProto(t)' /\ tgt'[t] = tgt[t])
    /\ pc[t] = "dp_fin" => udoomed'[tgt[t]] \/ tgt[t] \notin alloc'
    /\ pc[t] = "rc_hash" => pc'[t] = "rc_detach" /\ tgt'[t] = tgt[t] /\ tgt[t] \notin hash'
    /\ pc[t] = "rc_detach" => pc'[t] = "rc_rele" /\ tgt'[t] = tgt[t] /\ data'[tgt[t]] = Null
    /\ pc[t] = "rc_rele" => pc'[t] = "rc_fin" /\ tgt'[t] = tgt[t]
    /\ pc[t] \in {"dp_fin", "rc_fin"} => mnt'[tgt[t]] = Null

(* vflush takes its next vnode from the list of its mount; an alias in use *)
(* is doomed by a forced unmount only.                                     *)
FlushStep(t) ==
    /\ Flushes(t)' /\ tgt'[t] # Null =>
          \/ Flushes(t) /\ tgt'[t] = tgt[t] /\ mp'[t] = mp[t]
          \/ pc[t] = "um_pick" /\ mnt[tgt'[t]] = mp'[t]
    /\ pc'[t] = "rc_hash" =>
          /\ pc[t] \in {"inact", "um_flush"} /\ tgt'[t] = tgt[t]
          /\ uuse[tgt[t]] = 0 \/ (why'[t] = "flush" /\ mstate[mp'[t]] = "force")

AliasStep(t) == DataStep(t) /\ MntStep(t) /\ HashStep(t) /\ DoomStep(t) /\ AllocStep(t) /\ DeferStep(t)
CountSteps(t) == UseStep(t) /\ HoldStep(t) /\ CountStep /\ LowerHoldStep(t) /\ LowerUseStep(t)
ThreadStep(t) ==
    /\ Alone(t) /\ LockStep(t) /\ LockInv' /\ ldoomed' = ldoomed
    /\ AliasStep(t) /\ CountSteps(t) /\ MountStep(t)
    /\ RefStep(t) /\ TgtStep(t) /\ StayStep(t) /\ FlushStep(t)

-----------------------------------------------------------------------------
(* A count is a natural number, and counts at least each member.           *)
LEMMA CountNat ==
    ASSUME NEW D, IsFiniteSet(D), NEW f, NEW x
    PROVE  /\ CountIn(D, f, x) \in Nat
           /\ \A d \in D : f[d] = x => CountIn(D, f, x) >= 1
           /\ \A d, e \in D : f[d] = x /\ f[e] = x /\ CountIn(D, f, x) < 2 => d = e
<1> DEFINE S == {d \in D : f[d] = x}
<1>1. IsFiniteSet(S) /\ S \subseteq D BY FS_Subset
<1>2. Cardinality(S) \in Nat BY <1>1, FS_CardinalityType
<1>3. ASSUME NEW d \in D, f[d] = x PROVE Cardinality(S) >= 1
  <2>1. S # {} BY <1>3
  <2> QED BY <1>1, <1>2, <2>1, FS_EmptySet
<1>4. ASSUME NEW d \in D, NEW e \in D, f[d] = x, f[e] = x, Cardinality(S) < 2 PROVE d = e
  <2>1. d \in S /\ e \in S BY <1>4
  <2>2. IsFiniteSet(S \ {d}) /\ Cardinality(S \ {d}) = Cardinality(S) - 1
    BY <1>1, <2>1, FS_RemoveElement
  <2>3. Cardinality(S \ {d}) \in Nat BY <2>2, FS_CardinalityType
  <2>4. Cardinality(S \ {d}) = 0 BY <1>2, <1>4, <2>2, <2>3
  <2>5. S \ {d} = {} BY <2>2, <2>4, FS_EmptySet
  <2> QED BY <2>1, <2>5
<1> QED BY <1>2, <1>3, <1>4 DEF CountIn

(* Changing a function at one place moves one member of a count.           *)
LEMMA CountMoves ==
    ASSUME NEW D, IsFiniteSet(D), NEW f, NEW g, NEW x, NEW a \in D, \A d \in D \ {a} : g[d] = f[d]
    PROVE  CountIn(D, g, x) = CountIn(D, f, x) + Is(g[a], x) - Is(f[a], x)
<1> DEFINE S == {d \in D : f[d] = x}
           T == {d \in D : g[d] = x}
<1>1. IsFiniteSet(S) /\ IsFiniteSet(T) BY FS_Subset
<1>2. Cardinality(S) \in Nat /\ Cardinality(T) \in Nat BY <1>1, FS_CardinalityType
<1>3. S \ {a} = T \ {a} OBVIOUS
<1>4. Cardinality(S \ {a}) = Cardinality(S) - Is(f[a], x)
  <2>1. CASE f[a] = x BY <1>1, <2>1, FS_RemoveElement DEF Is
  <2>2. CASE f[a] # x
    <3>1. S \ {a} = S BY <2>2
    <3>2. Is(f[a], x) = 0 BY <2>2 DEF Is
    <3> HIDE DEF S, T
    <3> QED BY <1>2, <3>1, <3>2
  <2> QED BY <2>1, <2>2
<1>5. Cardinality(T \ {a}) = Cardinality(T) - Is(g[a], x)
  <2>1. CASE g[a] = x BY <1>1, <2>1, FS_RemoveElement DEF Is
  <2>2. CASE g[a] # x
    <3>1. T \ {a} = T BY <2>2
    <3>2. Is(g[a], x) = 0 BY <2>2 DEF Is
    <3> HIDE DEF S, T
    <3> QED BY <1>2, <3>1, <3>2
  <2> QED BY <2>1, <2>2
<1>6. Is(f[a], x) \in Int /\ Is(g[a], x) \in Int BY DEF Is
<1>7. Cardinality(T) = Cardinality(S) + Is(g[a], x) - Is(f[a], x)
  <2> HIDE DEF S, T
  <2> QED BY <1>2, <1>3, <1>4, <1>5, <1>6
<1> QED BY <1>7 DEF CountIn

(* What a thread refers to is counted.                                     *)
LEMMA OwnCounts ==
    ASSUME NodeInv, NEW t \in Threads, NEW u \in Upper
    PROVE  /\ uuse[u] \in Nat /\ uhold[u] \in Nat
           /\ uuse[u] >= Is(up[t], u) + Is(dir[t], u) + Is(ProtoOf[t], u)
           /\ uhold[u] >= Is(HoldOf[t], u) + (IF u \in deferred THEN 1 ELSE 0)
<1>1. IsFiniteSet(Threads) BY NodeConstants
<1>2. Count(up, u) \in Nat /\ Count(up, u) >= Is(up[t], u)
  BY <1>1, CountNat DEF Count, Is
<1>3. Count(dir, u) \in Nat /\ Count(dir, u) >= Is(dir[t], u)
  BY <1>1, CountNat DEF Count, Is
<1>4. Count(ProtoOf, u) \in Nat /\ Count(ProtoOf, u) >= Is(ProtoOf[t], u)
  BY <1>1, CountNat DEF Count, Is
<1>5. Count(HoldOf, u) \in Nat /\ Count(HoldOf, u) >= Is(HoldOf[t], u)
  BY <1>1, CountNat DEF Count, Is
<1>6. uuse[u] = Count(up, u) + Count(dir, u) + Count(ProtoOf, u) BY DEF NodeInv, UseExact
<1>7. uhold[u] = Count(HoldOf, u) + (IF u \in deferred THEN 1 ELSE 0)
      BY DEF NodeInv, HoldExact
<1>8. /\ Is(up[t], u) \in Nat /\ Is(dir[t], u) \in Nat /\ Is(ProtoOf[t], u) \in Nat
      /\ Is(HoldOf[t], u) \in Nat BY DEF Is
<1> QED BY <1>2, <1>3, <1>4, <1>5, <1>6, <1>7, <1>8

(* vget in tptfs_root keeps within ThreadStep.                              *)
LEMMA VgetStep ==
    ASSUME NodeInv, NEW t \in Threads, VgetDone(t) \/ VgetDoomed(t)
    PROVE  ThreadStep(t)
<1> USE NodeConstants
<1>a. TypeOK /\ LockInv /\ AliasInv /\ DoomedInv BY DEF NodeInv
<1>b. Locals(t) BY DEF NodeInv
<1>c. \A u \in Upper : /\ uuse[u] \in Nat /\ uhold[u] \in Nat
                        /\ uuse[u] >= Is(up[t], u) + Is(dir[t], u) + Is(ProtoOf[t], u)
                        /\ uhold[u] >= Is(HoldOf[t], u) + (IF u \in deferred THEN 1 ELSE 0)
  BY OwnCounts
<1>d. Locking(t) BY DEF NodeInv
<1>e. RefInv(t) BY DEF NodeInv
<1>f. \A s \in Threads : ProtoInv(s) /\ RefInv(s) BY DEF NodeInv
<1>g. MountInv(t) BY DEF NodeInv
<1> USE DEF LockLabels, NodegetLabels, ProtoLabels, ReclaimLabels, PutLabels,
       CreateLabels, LookupLabels, VnLockLabels, Go, lowerVars, aliasVars, lockVars,
       mountVars, argVars, TypeOK, ThreadOK, LocalsOK, InLookup, Flushes, Is, Locals
<1>1. CASE VgetDone(t)
  <2>1. Alone(t) BY <1>1, <1>a DEF VgetDone, Alone
  <2>2. LockStep(t) /\ LockInv' BY <1>1, <1>a DEF VgetDone, Acquire, Free, LockOK,
        LockInv, LockStep
  <2>3. ldoomed' = ldoomed BY <1>1 DEF VgetDone
  <2>4. AliasStep(t) BY <1>1 DEF VgetDone, AliasStep, DataStep, MntStep, HashStep,
        DoomStep, AllocStep, DeferStep
  <2>5. UseStep(t) BY <1>1, <1>a, <1>b DEF VgetDone, AliasOK, UpInv, DirInv, TgtInv,
        UseStep, ProtoOf, MakesProto
  <2>6. HoldStep(t) BY <1>1, <1>a, <1>b DEF VgetDone, AliasOK, WhyInv, TgtInv, HoldStep,
        HoldOf, HasHold
  <2>7. CountStep BY <1>1, <1>a DEF VgetDone, AliasInv, CountStep
  <2>8. LowerHoldStep(t) BY <1>1, <1>a, <1>b DEF VgetDone, LowerOK, LowInv, LdvpInv,
        LowerHoldStep, SleepOf
  <2>9. AliasOf' = AliasOf BY <1>1, <1>a, <2>1 DEF VgetDone, AliasOK, Alone, AliasOf,
        Discarded
  <2>10. RootOf' = RootOf BY <1>1, <1>a, <1>b DEF VgetDone, MountOK, RootOf
  <2>11. \A l \in Lower : luse'[l] = luse[l] + SpareMove(t, l) BY <1>1, <1>a, <1>b DEF
        VgetDone, LowerOK, LowInv, SpareMove, SpareOf, SpareLabels
  <2>12. LowerUseStep(t) BY <2>9, <2>10, <2>11 DEF LowerUseStep
  <2>13. MountStep(t) BY <1>1, <1>a DEF VgetDone, MountStep
  <2>14. RefStep(t) BY <1>1, <1>a, <1>b DEF VgetDone, UpInv, DirInv, RefStep, Held
  <2>15. TgtStep(t) BY <1>1, <1>a DEF VgetDone, Acquire, Free, TgtStep
  <2>16. StayStep(t) BY <1>1, <1>a DEF VgetDone, AliasOK, StayStep, MakesProto
  <2>17. FlushStep(t) BY <1>1, <1>a, <1>b DEF VgetDone, TgtInv, WhyInv, FlushStep
  <2> QED BY <2>1, <2>2, <2>3, <2>4, <2>5, <2>6, <2>7, <2>8, <2>9, <2>10, <2>11, <2>12,
        <2>13, <2>14, <2>15, <2>16, <2>17 DEF ThreadStep, CountSteps
<1>2. CASE VgetDoomed(t)
  <2>1. Alone(t) BY <1>2, <1>a DEF VgetDoomed, Alone
  <2>2. LockStep(t) /\ LockInv' /\ ldoomed' = ldoomed BY <1>2, <1>a DEF VgetDoomed,
        LockInv, LockStep
  <2>3. AliasStep(t) BY <1>2 DEF VgetDoomed, AliasStep, DataStep, MntStep, HashStep,
        DoomStep, AllocStep, DeferStep
  <2>4. UseStep(t) BY <1>2, <1>a, <1>b DEF VgetDoomed, AliasOK, UpInv, DirInv, TgtInv,
        UseStep, ProtoOf, MakesProto
  <2>5. HoldStep(t) BY <1>2, <1>a, <1>b DEF VgetDoomed, AliasOK, WhyInv, TgtInv, HoldStep,
        HoldOf, HasHold
  <2>6. CountStep BY <1>2, <1>a DEF VgetDoomed, AliasInv, CountStep
  <2>7. LowerHoldStep(t) BY <1>2, <1>a, <1>b DEF VgetDoomed, LowerOK, LowInv, LdvpInv,
        LowerHoldStep, SleepOf
  <2>8. AliasOf' = AliasOf BY <1>2, <1>a, <2>1 DEF VgetDoomed, AliasOK, Alone, AliasOf,
        Discarded
  <2>9. RootOf' = RootOf BY <1>2, <1>a, <1>b DEF VgetDoomed, MountOK, RootOf
  <2>10. \A l \in Lower : luse'[l] = luse[l] + SpareMove(t, l) BY <1>2, <1>a, <1>b, SMTT(30) DEF
        VgetDoomed, LowerRele, LowerOK, LowInv, SpareMove, SpareOf, SpareLabels
  <2>11. LowerUseStep(t) BY <2>8, <2>9, <2>10 DEF LowerUseStep
  <2>12. MountStep(t) BY <1>2, <1>a DEF VgetDoomed, MountStep
  <2>13. RefStep(t) BY <1>2, <1>a, <1>b DEF VgetDoomed, UpInv, DirInv, RefStep, Held
  <2>14. TgtStep(t) BY <1>2, <1>a DEF VgetDoomed, Free, TgtStep
  <2>15. StayStep(t) BY <1>2, <1>a DEF VgetDoomed, AliasOK, StayStep, MakesProto
  <2>16. FlushStep(t) BY <1>2, <1>a, <1>b DEF VgetDoomed, TgtInv, WhyInv, FlushStep
  <2> QED BY <2>1, <2>2, <2>3, <2>4, <2>5, <2>6, <2>7, <2>8, <2>9, <2>10, <2>11, <2>12,
        <2>13, <2>14, <2>15, <2>16 DEF ThreadStep, CountSteps
<1> QED BY <1>1, <1>2

(* tpt_nodeget and tpt_destroy_proto keep within ThreadStep.                *)
LEMMA NodegetStep ==
    ASSUME NodeInv, NEW t \in Threads, Nodeget(t)
    PROVE  ThreadStep(t)
<1> USE NodeConstants
<1>a. TypeOK /\ LockInv /\ AliasInv /\ DoomedInv BY DEF NodeInv
<1>b. Locals(t) BY DEF NodeInv
<1>c. \A u \in Upper : /\ uuse[u] \in Nat /\ uhold[u] \in Nat
                        /\ uuse[u] >= Is(up[t], u) + Is(dir[t], u) + Is(ProtoOf[t], u)
                        /\ uhold[u] >= Is(HoldOf[t], u) + (IF u \in deferred THEN 1 ELSE 0)
  BY OwnCounts
<1>d. Locking(t) BY DEF NodeInv
<1>e. RefInv(t) BY DEF NodeInv
<1>f. \A s \in Threads : ProtoInv(s) /\ RefInv(s) BY DEF NodeInv
<1>g. MountInv(t) BY DEF NodeInv
<1> USE DEF LockLabels, NodegetLabels, ProtoLabels, ReclaimLabels, PutLabels,
       CreateLabels, LookupLabels, VnLockLabels, Go, Rest, lowerVars, aliasVars, lockVars,
       mountVars, argVars, TypeOK, ThreadOK, LocalsOK, InLookup, Flushes, Is, Locals
<1>1. CASE HashgetHit(t)
  <2>1. Alone(t) BY <1>1, <1>a DEF HashgetHit, NodegetReturn, Alone
  <2>2. LockStep(t) /\ LockInv' /\ ldoomed' = ldoomed BY <1>1, <1>a DEF HashgetHit,
        LockInv, LockStep
  <2>3. AliasStep(t) BY <1>1 DEF HashgetHit, AliasStep, DataStep, MntStep, HashStep,
        DoomStep, AllocStep, DeferStep
  <2>4. UseStep(t) BY <1>1, <1>a, <1>b DEF HashgetHit, Aliases, NodegetReturn, AliasOK,
        UpInv, DirInv, TgtInv, UseStep, ProtoOf, MakesProto
  <2>5. HoldStep(t) BY <1>1, <1>a, <1>b DEF HashgetHit, NodegetReturn, AliasOK, WhyInv,
        TgtInv, HoldStep, HoldOf, HasHold
  <2>6. CountStep BY <1>1, <1>a, <1>b, <1>c, <1>e DEF HashgetHit, Aliases, AliasOK,
        WhyInv, RefInv, AliasInv, CountStep, HoldOf, ProtoOf, MakesProto, HasHold
  <2>7. LowerHoldStep(t) BY <1>1, <1>a, <1>b DEF HashgetHit, NodegetReturn, LowerOK,
        LowInv, LdvpInv, LowerHoldStep, SleepOf
  <2>8. AliasOf' = AliasOf BY <1>1, <1>a, <2>1 DEF HashgetHit, NodegetReturn, AliasOK,
        Alone, AliasOf, Discarded
  <2>9. RootOf' = RootOf BY <1>1, <1>a, <1>b DEF HashgetHit, MountOK, RootOf
  <2>10. \A l \in Lower : luse'[l] = luse[l] + SpareMove(t, l)
    <3>1. low[t] \in Lower /\ SpareOf[t] = low[t]
          BY <1>1, <1>a, <1>b DEF HashgetHit, LowInv, SpareOf, SpareLabels
    <3>2. SpareOf'[t] = Null
          BY <1>1, <1>a DEF HashgetHit, NodegetReturn, SpareOf, SpareLabels
    <3>3. luse' = [luse EXCEPT ![low[t]] = @ - 1] BY <1>1 DEF HashgetHit, LowerRele
    <3>4. luse \in [Lower -> Int] BY <1>a DEF LowerOK
    <3> QED BY <3>1, <3>2, <3>3, <3>4 DEF SpareMove
  <2>11. LowerUseStep(t) BY <2>8, <2>9, <2>10 DEF LowerUseStep
  <2>12. MountStep(t) BY <1>1, <1>a DEF HashgetHit, MountStep
  <2>13. RefStep(t) BY <1>1, <1>a, <1>b DEF HashgetHit, NodegetReturn, UpInv, DirInv,
        RefStep, Held
  <2>14. TgtStep(t) BY <1>1, <1>a DEF HashgetHit, NodegetReturn, TgtStep
  <2>15. StayStep(t) BY <1>1, <1>a DEF HashgetHit, NodegetReturn, AliasOK, StayStep,
        MakesProto
  <2>16. FlushStep(t) BY <1>1, <1>a, <1>b DEF HashgetHit, NodegetReturn, TgtInv, WhyInv,
        FlushStep
  <2> QED BY <2>1, <2>2, <2>3, <2>4, <2>5, <2>6, <2>7, <2>8, <2>9, <2>10, <2>11, <2>12,
        <2>13, <2>14, <2>15, <2>16 DEF ThreadStep, CountSteps
<1>2. CASE HashgetMiss(t)
  <2>1. Alone(t) BY <1>2, <1>a DEF HashgetMiss, Alone
  <2>2. LockStep(t) /\ LockInv' /\ ldoomed' = ldoomed BY <1>2, <1>a DEF HashgetMiss,
        LockInv, LockStep
  <2>3. AliasStep(t) BY <1>2 DEF HashgetMiss, AliasStep, DataStep, MntStep, HashStep,
        DoomStep, AllocStep, DeferStep
  <2>4. UseStep(t) BY <1>2, <1>a, <1>b DEF HashgetMiss, Aliases, AliasOK, UpInv, DirInv,
        TgtInv, UseStep, ProtoOf, MakesProto
  <2>5. HoldStep(t) BY <1>2, <1>a, <1>b DEF HashgetMiss, AliasOK, WhyInv, TgtInv,
        HoldStep, HoldOf, HasHold
  <2>6. CountStep BY <1>2, <1>a DEF HashgetMiss, AliasInv, CountStep
  <2>7. LowerHoldStep(t) BY <1>2, <1>a, <1>b DEF HashgetMiss, LowerOK, LowInv, LdvpInv,
        LowerHoldStep, SleepOf
  <2>8. AliasOf' = AliasOf BY <1>2, <1>a, <2>1 DEF HashgetMiss, AliasOK, Alone, AliasOf,
        Discarded
  <2>9. RootOf' = RootOf BY <1>2, <1>a, <1>b DEF HashgetMiss, MountOK, RootOf
  <2>10. \A l \in Lower : luse'[l] = luse[l] + SpareMove(t, l) BY <1>2, <1>a, <1>b DEF
        HashgetMiss, LowerOK, LowInv, SpareMove, SpareOf, SpareLabels
  <2>11. LowerUseStep(t) BY <2>8, <2>9, <2>10 DEF LowerUseStep
  <2>12. MountStep(t) BY <1>2, <1>a DEF HashgetMiss, MountStep
  <2>13. RefStep(t) BY <1>2, <1>a, <1>b DEF HashgetMiss, UpInv, DirInv, RefStep, Held
  <2>14. TgtStep(t) BY <1>2, <1>a DEF HashgetMiss, TgtStep
  <2>15. StayStep(t) BY <1>2, <1>a DEF HashgetMiss, AliasOK, StayStep, MakesProto
  <2>16. FlushStep(t) BY <1>2, <1>a, <1>b DEF HashgetMiss, TgtInv, WhyInv, FlushStep
  <2> QED BY <2>1, <2>2, <2>3, <2>4, <2>5, <2>6, <2>7, <2>8, <2>9, <2>10, <2>11, <2>12,
        <2>13, <2>14, <2>15, <2>16 DEF ThreadStep, CountSteps
<1>3. CASE NodegetUpgrade(t)
  <2>1. Alone(t) BY <1>3, <1>a DEF NodegetUpgrade, Alone
  <2>2. LockStep(t) /\ LockInv' BY <1>3, <1>a DEF NodegetUpgrade, Release, Upgrade,
        LockOK, LockInv, LockStep
  <2>3. ldoomed' = ldoomed BY <1>3 DEF NodegetUpgrade
  <2>4. AliasStep(t) BY <1>3 DEF NodegetUpgrade, AliasStep, DataStep, MntStep, HashStep,
        DoomStep, AllocStep, DeferStep
  <2>5. UseStep(t) BY <1>3, <1>a, <1>b DEF NodegetUpgrade, AliasOK, UpInv, DirInv, TgtInv,
        UseStep, ProtoOf, MakesProto
  <2>6. HoldStep(t) BY <1>3, <1>a, <1>b DEF NodegetUpgrade, AliasOK, WhyInv, TgtInv,
        HoldStep, HoldOf, HasHold
  <2>7. CountStep BY <1>3, <1>a DEF NodegetUpgrade, AliasInv, CountStep
  <2>8. LowerHoldStep(t) BY <1>3, <1>a, <1>b DEF NodegetUpgrade, LowerOK, LowInv, LdvpInv,
        LowerHoldStep, SleepOf
  <2>9. AliasOf' = AliasOf BY <1>3, <1>a, <2>1 DEF NodegetUpgrade, AliasOK, Alone,
        AliasOf, Discarded
  <2>10. RootOf' = RootOf BY <1>3, <1>a, <1>b DEF NodegetUpgrade, MountOK, RootOf
  <2>11. \A l \in Lower : luse'[l] = luse[l] + SpareMove(t, l) BY <1>3, <1>a, <1>b DEF
        NodegetUpgrade, LowerOK, LowInv, SpareMove, SpareOf, SpareLabels
  <2>12. LowerUseStep(t) BY <2>9, <2>10, <2>11 DEF LowerUseStep
  <2>13. MountStep(t) BY <1>3, <1>a DEF NodegetUpgrade, MountStep
  <2>14. RefStep(t) BY <1>3, <1>a, <1>b DEF NodegetUpgrade, UpInv, DirInv, RefStep, Held
  <2>15. TgtStep(t) BY <1>3, <1>a DEF NodegetUpgrade, Release, Upgrade, TgtStep
  <2>16. StayStep(t) BY <1>3, <1>a DEF NodegetUpgrade, AliasOK, StayStep, MakesProto
  <2>17. FlushStep(t) BY <1>3, <1>a, <1>b DEF NodegetUpgrade, TgtInv, WhyInv, FlushStep
  <2> QED BY <2>1, <2>2, <2>3, <2>4, <2>5, <2>6, <2>7, <2>8, <2>9, <2>10, <2>11, <2>12,
        <2>13, <2>14, <2>15, <2>16, <2>17 DEF ThreadStep, CountSteps
<1>4. CASE NodegetRelock(t)
  <2>1. Alone(t) BY <1>4, <1>a DEF NodegetRelock, Alone
  <2>2. LockStep(t) /\ LockInv' BY <1>4, <1>a DEF NodegetRelock, Acquire, Free, LockOK,
        LockInv, LockStep
  <2>3. ldoomed' = ldoomed BY <1>4 DEF NodegetRelock
  <2>4. AliasStep(t) BY <1>4 DEF NodegetRelock, AliasStep, DataStep, MntStep, HashStep,
        DoomStep, AllocStep, DeferStep
  <2>5. UseStep(t) BY <1>4, <1>a, <1>b DEF NodegetRelock, AliasOK, UpInv, DirInv, TgtInv,
        UseStep, ProtoOf, MakesProto
  <2>6. HoldStep(t) BY <1>4, <1>a, <1>b DEF NodegetRelock, AliasOK, WhyInv, TgtInv,
        HoldStep, HoldOf, HasHold
  <2>7. CountStep BY <1>4, <1>a DEF NodegetRelock, AliasInv, CountStep
  <2>8. LowerHoldStep(t) BY <1>4, <1>a, <1>b DEF NodegetRelock, LowerOK, LowInv, LdvpInv,
        LowerHoldStep, SleepOf
  <2>9. AliasOf' = AliasOf BY <1>4, <1>a, <2>1 DEF NodegetRelock, AliasOK, Alone, AliasOf,
        Discarded
  <2>10. RootOf' = RootOf BY <1>4, <1>a, <1>b DEF NodegetRelock, MountOK, RootOf
  <2>11. \A l \in Lower : luse'[l] = luse[l] + SpareMove(t, l) BY <1>4, <1>a, <1>b DEF
        NodegetRelock, LowerOK, LowInv, SpareMove, SpareOf, SpareLabels
  <2>12. LowerUseStep(t) BY <2>9, <2>10, <2>11 DEF LowerUseStep
  <2>13. MountStep(t) BY <1>4, <1>a DEF NodegetRelock, MountStep
  <2>14. RefStep(t) BY <1>4, <1>a, <1>b DEF NodegetRelock, UpInv, DirInv, RefStep, Held
  <2>15. TgtStep(t) BY <1>4, <1>a DEF NodegetRelock, Acquire, Free, TgtStep
  <2>16. StayStep(t) BY <1>4, <1>a DEF NodegetRelock, AliasOK, StayStep, MakesProto
  <2>17. FlushStep(t) BY <1>4, <1>a, <1>b DEF NodegetRelock, TgtInv, WhyInv, FlushStep
  <2> QED BY <2>1, <2>2, <2>3, <2>4, <2>5, <2>6, <2>7, <2>8, <2>9, <2>10, <2>11, <2>12,
        <2>13, <2>14, <2>15, <2>16, <2>17 DEF ThreadStep, CountSteps
<1>5. CASE NodegetDoomed(t)
  <2>1. Alone(t) BY <1>5, <1>a DEF NodegetDoomed, NodegetFail, NodegetReturn, Alone
  <2>2. LockStep(t) /\ LockInv' BY <1>5, <1>a DEF NodegetDoomed, NodegetFail, Release,
        NodegetReturn, LockOK, LockInv, LockStep
  <2>3. ldoomed' = ldoomed BY <1>5 DEF NodegetDoomed, NodegetFail
  <2>4. AliasStep(t) BY <1>5 DEF NodegetDoomed, NodegetFail, AliasStep, DataStep, MntStep,
        HashStep, DoomStep, AllocStep, DeferStep
  <2>5. UseStep(t) BY <1>5, <1>a, <1>b DEF NodegetDoomed, NodegetFail, NodegetReturn,
        AliasOK, UpInv, DirInv, TgtInv, UseStep, ProtoOf, MakesProto
  <2>6. HoldStep(t) BY <1>5, <1>a, <1>b DEF NodegetDoomed, NodegetFail, NodegetReturn,
        AliasOK, WhyInv, TgtInv, HoldStep, HoldOf, HasHold
  <2>7. CountStep BY <1>5, <1>a DEF NodegetDoomed, NodegetFail, AliasInv, CountStep
  <2>8. LowerHoldStep(t) BY <1>5, <1>a, <1>b DEF NodegetDoomed, NodegetFail,
        NodegetReturn, LowerOK, LowInv, LdvpInv, LowerHoldStep, SleepOf
  <2>9. AliasOf' = AliasOf BY <1>5, <1>a, <2>1 DEF NodegetDoomed, NodegetFail,
        NodegetReturn, AliasOK, Alone, AliasOf, Discarded
  <2>10. RootOf' = RootOf BY <1>5, <1>a, <1>b DEF NodegetDoomed, NodegetFail, MountOK,
        RootOf
  <2>11. \A l \in Lower : luse'[l] = luse[l] + SpareMove(t, l)
    <3>1. low[t] \in Lower /\ SpareOf[t] = low[t]
          BY <1>5, <1>a, <1>b DEF NodegetDoomed, NodegetFail, LowInv, SpareOf, SpareLabels
    <3>2. SpareOf'[t] = Null
          BY <1>5, <1>a DEF NodegetDoomed, NodegetFail, NodegetReturn, SpareOf,
             SpareLabels
    <3>3. luse' = [luse EXCEPT ![low[t]] = @ - 1] BY <1>5 DEF NodegetDoomed, NodegetFail,
          LowerRele
    <3>4. luse \in [Lower -> Int] BY <1>a DEF LowerOK
    <3> QED BY <3>1, <3>2, <3>3, <3>4 DEF SpareMove
  <2>12. LowerUseStep(t) BY <2>9, <2>10, <2>11 DEF LowerUseStep
  <2>13. MountStep(t) BY <1>5, <1>a DEF NodegetDoomed, NodegetFail, MountStep
  <2>14. RefStep(t) BY <1>5, <1>a, <1>b DEF NodegetDoomed, NodegetFail, NodegetReturn,
        UpInv, DirInv, RefStep, Held
  <2>15. TgtStep(t) BY <1>5, <1>a DEF NodegetDoomed, NodegetFail, Release, NodegetReturn,
        TgtStep
  <2>16. StayStep(t) BY <1>5, <1>a DEF NodegetDoomed, NodegetFail, NodegetReturn, AliasOK,
        StayStep, MakesProto
  <2>17. FlushStep(t) BY <1>5, <1>a, <1>b DEF NodegetDoomed, NodegetFail, NodegetReturn,
        TgtInv, WhyInv, FlushStep
  <2> QED BY <2>1, <2>2, <2>3, <2>4, <2>5, <2>6, <2>7, <2>8, <2>9, <2>10, <2>11, <2>12,
        <2>13, <2>14, <2>15, <2>16, <2>17 DEF ThreadStep, CountSteps
<1>6. CASE NodegetUpgraded(t)
  <2>1. Alone(t) BY <1>6, <1>a DEF NodegetUpgraded, Alone
  <2>2. LockStep(t) /\ LockInv' /\ ldoomed' = ldoomed BY <1>6, <1>a DEF NodegetUpgraded,
        LockInv, LockStep
  <2>3. AliasStep(t) BY <1>6 DEF NodegetUpgraded, AliasStep, DataStep, MntStep, HashStep,
        DoomStep, AllocStep, DeferStep
  <2>4. UseStep(t) BY <1>6, <1>a, <1>b DEF NodegetUpgraded, AliasOK, UpInv, DirInv,
        TgtInv, UseStep, ProtoOf, MakesProto
  <2>5. HoldStep(t) BY <1>6, <1>a, <1>b DEF NodegetUpgraded, AliasOK, WhyInv, TgtInv,
        HoldStep, HoldOf, HasHold
  <2>6. CountStep BY <1>6, <1>a DEF NodegetUpgraded, AliasInv, CountStep
  <2>7. LowerHoldStep(t) BY <1>6, <1>a, <1>b DEF NodegetUpgraded, LowerOK, LowInv,
        LdvpInv, LowerHoldStep, SleepOf
  <2>8. AliasOf' = AliasOf BY <1>6, <1>a, <2>1 DEF NodegetUpgraded, AliasOK, Alone,
        AliasOf, Discarded
  <2>9. RootOf' = RootOf BY <1>6, <1>a, <1>b DEF NodegetUpgraded, MountOK, RootOf
  <2>10. \A l \in Lower : luse'[l] = luse[l] + SpareMove(t, l) BY <1>6, <1>a, <1>b DEF
        NodegetUpgraded, LowerOK, LowInv, SpareMove, SpareOf, SpareLabels
  <2>11. LowerUseStep(t) BY <2>8, <2>9, <2>10 DEF LowerUseStep
  <2>12. MountStep(t) BY <1>6, <1>a DEF NodegetUpgraded, MountStep
  <2>13. RefStep(t) BY <1>6, <1>a, <1>b DEF NodegetUpgraded, UpInv, DirInv, RefStep, Held
  <2>14. TgtStep(t) BY <1>6, <1>a DEF NodegetUpgraded, TgtStep
  <2>15. StayStep(t) BY <1>6, <1>a DEF NodegetUpgraded, AliasOK, StayStep, MakesProto
  <2>16. FlushStep(t) BY <1>6, <1>a, <1>b DEF NodegetUpgraded, TgtInv, WhyInv, FlushStep
  <2> QED BY <2>1, <2>2, <2>3, <2>4, <2>5, <2>6, <2>7, <2>8, <2>9, <2>10, <2>11, <2>12,
        <2>13, <2>14, <2>15, <2>16 DEF ThreadStep, CountSteps
<1>7. CASE GetnewvnodeFail(t)
  <2>1. Alone(t) BY <1>7, <1>a DEF GetnewvnodeFail, NodegetFail, NodegetReturn, Alone
  <2>2. LockStep(t) /\ LockInv' BY <1>7, <1>a DEF GetnewvnodeFail, NodegetFail, Release,
        NodegetReturn, LockOK, LockInv, LockStep
  <2>3. ldoomed' = ldoomed BY <1>7 DEF GetnewvnodeFail, NodegetFail
  <2>4. AliasStep(t) BY <1>7 DEF GetnewvnodeFail, NodegetFail, AliasStep, DataStep,
        MntStep, HashStep, DoomStep, AllocStep, DeferStep
  <2>5. UseStep(t) BY <1>7, <1>a, <1>b DEF GetnewvnodeFail, NodegetFail, NodegetReturn,
        AliasOK, UpInv, DirInv, TgtInv, UseStep, ProtoOf, MakesProto
  <2>6. HoldStep(t) BY <1>7, <1>a, <1>b DEF GetnewvnodeFail, NodegetFail, NodegetReturn,
        AliasOK, WhyInv, TgtInv, HoldStep, HoldOf, HasHold
  <2>7. CountStep BY <1>7, <1>a DEF GetnewvnodeFail, NodegetFail, AliasInv, CountStep
  <2>8. LowerHoldStep(t) BY <1>7, <1>a, <1>b DEF GetnewvnodeFail, NodegetFail,
        NodegetReturn, LowerOK, LowInv, LdvpInv, LowerHoldStep, SleepOf
  <2>9. AliasOf' = AliasOf BY <1>7, <1>a, <2>1 DEF GetnewvnodeFail, NodegetFail,
        NodegetReturn, AliasOK, Alone, AliasOf, Discarded
  <2>10. RootOf' = RootOf BY <1>7, <1>a, <1>b DEF GetnewvnodeFail, NodegetFail, MountOK,
        RootOf
  <2>11. \A l \in Lower : luse'[l] = luse[l] + SpareMove(t, l)
    <3>1. low[t] \in Lower /\ SpareOf[t] = low[t]
          BY <1>7, <1>a, <1>b DEF GetnewvnodeFail, NodegetFail, LowInv, SpareOf,
             SpareLabels
    <3>2. SpareOf'[t] = Null
          BY <1>7, <1>a DEF GetnewvnodeFail, NodegetFail, NodegetReturn, SpareOf,
             SpareLabels
    <3>3. luse' = [luse EXCEPT ![low[t]] = @ - 1] BY <1>7 DEF GetnewvnodeFail,
          NodegetFail, LowerRele
    <3>4. luse \in [Lower -> Int] BY <1>a DEF LowerOK
    <3> QED BY <3>1, <3>2, <3>3, <3>4 DEF SpareMove
  <2>12. LowerUseStep(t) BY <2>9, <2>10, <2>11 DEF LowerUseStep
  <2>13. MountStep(t) BY <1>7, <1>a DEF GetnewvnodeFail, NodegetFail, MountStep
  <2>14. RefStep(t) BY <1>7, <1>a, <1>b DEF GetnewvnodeFail, NodegetFail, NodegetReturn,
        UpInv, DirInv, RefStep, Held
  <2>15. TgtStep(t) BY <1>7, <1>a DEF GetnewvnodeFail, NodegetFail, Release,
        NodegetReturn, TgtStep
  <2>16. StayStep(t) BY <1>7, <1>a DEF GetnewvnodeFail, NodegetFail, NodegetReturn,
        AliasOK, StayStep, MakesProto
  <2>17. FlushStep(t) BY <1>7, <1>a, <1>b DEF GetnewvnodeFail, NodegetFail, NodegetReturn,
        TgtInv, WhyInv, FlushStep
  <2> QED BY <2>1, <2>2, <2>3, <2>4, <2>5, <2>6, <2>7, <2>8, <2>9, <2>10, <2>11, <2>12,
        <2>13, <2>14, <2>15, <2>16, <2>17 DEF ThreadStep, CountSteps
<1>8. ASSUME NEW u \in Upper, Getnewvnode(t, u) PROVE ThreadStep(t)
  <2>1. Alone(t) BY <1>8, <1>a DEF Getnewvnode, Alone
  <2>2. LockStep(t) /\ LockInv' /\ ldoomed' = ldoomed BY <1>8, <1>a DEF Getnewvnode,
        LockInv, LockStep
  <2>3. MntStep(t) /\ HashStep(t) /\ DoomStep(t) /\ DeferStep(t) BY <1>8 DEF Getnewvnode,
        MntStep, HashStep, DoomStep, DeferStep
  <2>4. DataStep(t) BY <1>8, <1>a, <1>b, <1>e DEF Getnewvnode, RefInv, WhyInv, AliasOK,
        LockOK, DataStep, Vnodes
  <2>5. AllocStep(t) BY <1>8, <1>a, <1>b, <1>e DEF Getnewvnode, RefInv, WhyInv, AliasOK,
        LockOK, AllocStep, HasHold
  <2>6. AliasStep(t) BY <2>3, <2>4, <2>5 DEF AliasStep
  <2>7. UseStep(t)
    <3>1. uuse[u] = 0 /\ ProtoOf[t] = Null BY <1>8, <1>a DEF Getnewvnode, AliasInv,
          ProtoOf, MakesProto
    <3>2. ProtoOf'[t] = u BY <1>8, <1>a DEF Getnewvnode, ProtoOf, MakesProto
    <3> QED BY <1>8, <1>a, <3>1, <3>2 DEF Getnewvnode, AliasOK, UseStep
  <2>8. HoldStep(t) BY <1>8, <1>a, <1>b DEF Getnewvnode, AliasOK, WhyInv, TgtInv,
        HoldStep, HoldOf, HasHold
  <2>9. CountStep BY <1>8, <1>a, <1>b, <1>c, <1>e DEF Getnewvnode, AliasOK, WhyInv,
        RefInv, AliasInv, CountStep, HoldOf, ProtoOf, MakesProto, HasHold
  <2>10. LowerHoldStep(t) BY <1>8, <1>a, <1>b DEF Getnewvnode, LowerOK, LowInv, LdvpInv,
        LowerHoldStep, SleepOf
  <2>11. LowerUseStep(t)
    <3>1. RootOf' = RootOf BY <1>8 DEF Getnewvnode, RootOf
    <3>2. \A v \in Upper \ {u} : AliasOf'[v] = AliasOf[v]
          BY <1>8, <1>a, <2>1 DEF Getnewvnode, Alone, AliasOK, AliasOf, Discarded
    <3>3. \A l \in Lower : luse'[l] = luse[l] + SpareMove(t, l) + Is(AliasOf'[u], l) - Is(AliasOf[u], l)
      <4>1. AliasOf[u] = Null BY <1>8, <1>a DEF Getnewvnode, AliasInv, AliasOf
      <4>2. AliasOf'[u] = low[t]
          BY <1>8, <1>a, <1>f, <2>1 DEF Getnewvnode, Alone, AliasOK, RefInv, AliasOf,
             Discarded
      <4> QED BY <1>8, <1>a, <1>b, <4>1, <4>2 DEF Getnewvnode, LowerRele, LowerOK, LowInv,
            SpareMove, SpareOf, SpareLabels
    <3> QED BY <1>8, <1>a, <3>1, <3>2, <3>3 DEF Getnewvnode, LowerUseStep
  <2>12. MountStep(t) BY <1>8, <1>a DEF Getnewvnode, MountStep
  <2>13. RefStep(t) BY <1>8, <1>a, <1>b DEF Getnewvnode, UpInv, DirInv, RefStep, Held
  <2>14. TgtStep(t) BY <1>8, <1>a DEF Getnewvnode, TgtStep
  <2>15. StayStep(t) BY <1>8, <1>a DEF Getnewvnode, AliasOK, StayStep, MakesProto
  <2>16. FlushStep(t) BY <1>8, <1>a, <1>b DEF Getnewvnode, TgtInv, WhyInv, FlushStep
  <2> QED BY <2>1, <2>2, <2>3, <2>4, <2>5, <2>6, <2>7, <2>8, <2>9, <2>10, <2>11, <2>12,
        <2>13, <2>14, <2>15, <2>16 DEF ThreadStep, CountSteps
<1>9. CASE InsmntqueFail(t)
  <2>1. Alone(t) BY <1>9, <1>a DEF InsmntqueFail, Alone
  <2>2. LockStep(t) /\ LockInv' BY <1>9, <1>a DEF InsmntqueFail, Release, LockOK, LockInv,
        LockStep
  <2>3. ldoomed' = ldoomed BY <1>9 DEF InsmntqueFail
  <2>4. AliasStep(t) BY <1>9 DEF InsmntqueFail, AliasStep, DataStep, MntStep, HashStep,
        DoomStep, AllocStep, DeferStep
  <2>5. UseStep(t) BY <1>9, <1>a, <1>b DEF InsmntqueFail, AliasOK, UpInv, DirInv, TgtInv,
        UseStep, ProtoOf, MakesProto
  <2>6. HoldStep(t) BY <1>9, <1>a, <1>b DEF InsmntqueFail, AliasOK, WhyInv, TgtInv,
        HoldStep, HoldOf, HasHold
  <2>7. CountStep BY <1>9, <1>a DEF InsmntqueFail, AliasInv, CountStep
  <2>8. LowerHoldStep(t) BY <1>9, <1>a, <1>b DEF InsmntqueFail, LowerOK, LowInv, LdvpInv,
        LowerHoldStep, SleepOf
  <2>9. LowerUseStep(t)
    <3>1. RootOf' = RootOf BY <1>9 DEF InsmntqueFail, RootOf
    <3>2. \A v \in Upper \ {tgt[t]} : AliasOf'[v] = AliasOf[v]
          BY <1>9, <1>a, <2>1 DEF InsmntqueFail, Alone, AliasOK, AliasOf, Discarded
    <3>3. \A l \in Lower : luse'[l] = luse[l] + SpareMove(t, l) + Is(AliasOf'[tgt[t]], l) - Is(AliasOf[tgt[t]], l)
      <4>1. AliasOf[tgt[t]] = low[t]
          BY <1>9, <1>a, <1>f DEF InsmntqueFail, ProtoInv, MakesProto, AliasOf, Discarded
      <4>2. AliasOf'[tgt[t]] = Null BY <1>9, <1>a DEF InsmntqueFail, AliasOf, Discarded
      <4> QED BY <1>9, <1>a, <1>b, <4>1, <4>2 DEF InsmntqueFail, LowerRele, LowerOK,
            LowInv, SpareMove, SpareOf, SpareLabels
    <3> QED BY <1>9, <1>a, <3>1, <3>2, <3>3 DEF InsmntqueFail, LowerUseStep
  <2>10. MountStep(t) BY <1>9, <1>a DEF InsmntqueFail, MountStep
  <2>11. RefStep(t) BY <1>9, <1>a, <1>b DEF InsmntqueFail, UpInv, DirInv, RefStep, Held
  <2>12. TgtStep(t) BY <1>9, <1>a DEF InsmntqueFail, Release, Listed, TgtStep
  <2>13. StayStep(t) BY <1>9, <1>a DEF InsmntqueFail, AliasOK, StayStep, MakesProto
  <2>14. FlushStep(t) BY <1>9, <1>a, <1>b DEF InsmntqueFail, Listed, TgtInv, WhyInv,
        FlushStep
  <2> QED BY <2>1, <2>2, <2>3, <2>4, <2>5, <2>6, <2>7, <2>8, <2>9, <2>10, <2>11, <2>12,
        <2>13, <2>14 DEF ThreadStep, CountSteps
<1>10. CASE Insmntque(t)
  <2>1. Alone(t) BY <1>10, <1>a DEF Insmntque, Alone
  <2>2. LockStep(t) /\ LockInv' /\ ldoomed' = ldoomed BY <1>10, <1>a DEF Insmntque,
        LockInv, LockStep
  <2>3. DataStep(t) /\ HashStep(t) /\ DoomStep(t) /\ AllocStep(t) /\ DeferStep(t) BY <1>10
        DEF Insmntque, DataStep, HashStep, DoomStep, AllocStep, DeferStep
  <2>4. MntStep(t) BY <1>10, <1>a, <1>b, <1>e DEF Insmntque, RefInv, WhyInv, AliasOK,
        LockOK, MntStep
  <2>5. AliasStep(t) BY <2>3, <2>4 DEF AliasStep
  <2>6. UseStep(t) BY <1>10, <1>a, <1>b DEF Insmntque, AliasOK, UpInv, DirInv, TgtInv,
        UseStep, ProtoOf, MakesProto
  <2>7. HoldStep(t) BY <1>10, <1>a, <1>b DEF Insmntque, AliasOK, WhyInv, TgtInv, HoldStep,
        HoldOf, HasHold
  <2>8. CountStep BY <1>10, <1>a DEF Insmntque, AliasInv, CountStep
  <2>9. LowerHoldStep(t) BY <1>10, <1>a, <1>b DEF Insmntque, LowerOK, LowInv, LdvpInv,
        LowerHoldStep, SleepOf
  <2>10. AliasOf' = AliasOf BY <1>10, <1>a, <2>1 DEF Insmntque, AliasOK, Alone, AliasOf,
        Discarded
  <2>11. RootOf' = RootOf BY <1>10, <1>a, <1>b DEF Insmntque, MountOK, RootOf
  <2>12. \A l \in Lower : luse'[l] = luse[l] + SpareMove(t, l) BY <1>10, <1>a, <1>b DEF
        Insmntque, LowerOK, LowInv, SpareMove, SpareOf, SpareLabels
  <2>13. LowerUseStep(t) BY <2>10, <2>11, <2>12 DEF LowerUseStep
  <2>14. MountStep(t) BY <1>10, <1>a DEF Insmntque, MountStep
  <2>15. RefStep(t) BY <1>10, <1>a, <1>b DEF Insmntque, UpInv, DirInv, RefStep, Held
  <2>16. TgtStep(t) BY <1>10, <1>a DEF Insmntque, Listed, TgtStep
  <2>17. StayStep(t) BY <1>10, <1>a DEF Insmntque, AliasOK, StayStep, MakesProto
  <2>18. FlushStep(t) BY <1>10, <1>a, <1>b DEF Insmntque, Listed, TgtInv, WhyInv,
        FlushStep
  <2> QED BY <2>1, <2>2, <2>3, <2>4, <2>5, <2>6, <2>7, <2>8, <2>9, <2>10, <2>11, <2>12,
        <2>13, <2>14, <2>15, <2>16, <2>17, <2>18 DEF ThreadStep, CountSteps
<1>11. CASE Hashins(t)
  <2>1. Alone(t) BY <1>11, <1>a DEF Hashins, NodegetReturn, Alone
  <2>2. LockStep(t) /\ LockInv' /\ ldoomed' = ldoomed BY <1>11, <1>a DEF Hashins, LockInv,
        LockStep
  <2>3. DataStep(t) /\ MntStep(t) /\ DoomStep(t) /\ AllocStep(t) /\ DeferStep(t) BY <1>11
        DEF Hashins, DataStep, MntStep, DoomStep, AllocStep, DeferStep
  <2>4. HashStep(t) BY <1>11, <1>a, <1>b, <1>e DEF Hashins, NodegetReturn, RefInv, WhyInv,
        AliasOK, LockOK, HashStep
  <2>5. AliasStep(t) BY <2>3, <2>4 DEF AliasStep
  <2>6. UseStep(t) BY <1>11, <1>a, <1>b DEF Hashins, Aliases, NodegetReturn, AliasOK,
        UpInv, DirInv, TgtInv, UseStep, ProtoOf, MakesProto
  <2>7. HoldStep(t) BY <1>11, <1>a, <1>b DEF Hashins, NodegetReturn, AliasOK, WhyInv,
        TgtInv, HoldStep, HoldOf, HasHold
  <2>8. CountStep BY <1>11, <1>a DEF Hashins, AliasInv, CountStep
  <2>9. LowerHoldStep(t) BY <1>11, <1>a, <1>b DEF Hashins, NodegetReturn, LowerOK, LowInv,
        LdvpInv, LowerHoldStep, SleepOf
  <2>10. AliasOf' = AliasOf BY <1>11, <1>a, <2>1 DEF Hashins, NodegetReturn, AliasOK,
        Alone, AliasOf, Discarded
  <2>11. RootOf' = RootOf BY <1>11, <1>a, <1>b DEF Hashins, MountOK, RootOf
  <2>12. \A l \in Lower : luse'[l] = luse[l] + SpareMove(t, l) BY <1>11, <1>a, <1>b DEF
        Hashins, NodegetReturn, LowerOK, LowInv, SpareMove, SpareOf, SpareLabels
  <2>13. LowerUseStep(t) BY <2>10, <2>11, <2>12 DEF LowerUseStep
  <2>14. MountStep(t) BY <1>11, <1>a DEF Hashins, MountStep
  <2>15. RefStep(t) BY <1>11, <1>a, <1>b DEF Hashins, NodegetReturn, UpInv, DirInv,
        RefStep, Held
  <2>16. TgtStep(t) BY <1>11, <1>a DEF Hashins, NodegetReturn, TgtStep
  <2>17. StayStep(t) BY <1>11, <1>a DEF Hashins, NodegetReturn, AliasOK, StayStep,
        MakesProto
  <2>18. FlushStep(t) BY <1>11, <1>a, <1>b DEF Hashins, NodegetReturn, TgtInv, WhyInv,
        FlushStep
  <2> QED BY <2>1, <2>2, <2>3, <2>4, <2>5, <2>6, <2>7, <2>8, <2>9, <2>10, <2>11, <2>12,
        <2>13, <2>14, <2>15, <2>16, <2>17, <2>18 DEF ThreadStep, CountSteps
<1>12. CASE HashinsDup(t)
  <2>1. Alone(t) BY <1>12, <1>a DEF HashinsDup, Alone
  <2>2. LockStep(t) /\ LockInv' /\ ldoomed' = ldoomed BY <1>12, <1>a DEF HashinsDup,
        LockInv, LockStep
  <2>3. AliasStep(t) BY <1>12 DEF HashinsDup, AliasStep, DataStep, MntStep, HashStep,
        DoomStep, AllocStep, DeferStep
  <2>4. UseStep(t) BY <1>12, <1>a, <1>b DEF HashinsDup, Aliases, AliasOK, UpInv, DirInv,
        TgtInv, UseStep, ProtoOf, MakesProto
  <2>5. HoldStep(t) BY <1>12, <1>a, <1>b DEF HashinsDup, AliasOK, WhyInv, TgtInv,
        HoldStep, HoldOf, HasHold
  <2>6. CountStep BY <1>12, <1>a, <1>b, <1>c, <1>e DEF HashinsDup, Aliases, AliasOK,
        WhyInv, RefInv, AliasInv, CountStep, HoldOf, ProtoOf, MakesProto, HasHold
  <2>7. LowerHoldStep(t) BY <1>12, <1>a, <1>b DEF HashinsDup, LowerOK, LowInv, LdvpInv,
        LowerHoldStep, SleepOf
  <2>8. LowerUseStep(t)
    <3>1. RootOf' = RootOf BY <1>12 DEF HashinsDup, RootOf
    <3>2. \A v \in Upper \ {tgt[t]} : AliasOf'[v] = AliasOf[v]
          BY <1>12, <1>a, <2>1 DEF HashinsDup, Alone, AliasOK, AliasOf, Discarded
    <3>3. \A l \in Lower : luse'[l] = luse[l] + SpareMove(t, l) + Is(AliasOf'[tgt[t]], l) - Is(AliasOf[tgt[t]], l)
      <4>1. AliasOf[tgt[t]] = low[t]
          BY <1>12, <1>a, <1>f DEF HashinsDup, ProtoInv, MakesProto, AliasOf, Discarded
      <4>2. AliasOf'[tgt[t]] = Null BY <1>12, <1>a DEF HashinsDup, AliasOf, Discarded
      <4> QED BY <1>12, <1>a, <1>b, <4>1, <4>2 DEF HashinsDup, LowerRele, LowerOK, LowInv,
            SpareMove, SpareOf, SpareLabels
    <3> QED BY <1>12, <1>a, <3>1, <3>2, <3>3 DEF HashinsDup, LowerUseStep
  <2>9. MountStep(t) BY <1>12, <1>a DEF HashinsDup, MountStep
  <2>10. RefStep(t) BY <1>12, <1>a, <1>b DEF HashinsDup, UpInv, DirInv, RefStep, Held
  <2>11. TgtStep(t) BY <1>12, <1>a DEF HashinsDup, TgtStep
  <2>12. StayStep(t) BY <1>12, <1>a DEF HashinsDup, AliasOK, StayStep, MakesProto
  <2>13. FlushStep(t) BY <1>12, <1>a, <1>b DEF HashinsDup, TgtInv, WhyInv, FlushStep
  <2> QED BY <2>1, <2>2, <2>3, <2>4, <2>5, <2>6, <2>7, <2>8, <2>9, <2>10, <2>11, <2>12,
        <2>13 DEF ThreadStep, CountSteps
<1>13. CASE DestroyProtoDetach(t)
  <2>1. Alone(t) BY <1>13, <1>a DEF DestroyProtoDetach, Alone
  <2>2. LockStep(t) /\ LockInv' BY <1>13, <1>a DEF DestroyProtoDetach, Acquire, Free,
        LockOK, LockInv, LockStep
  <2>3. ldoomed' = ldoomed BY <1>13 DEF DestroyProtoDetach
  <2>4. MntStep(t) /\ HashStep(t) /\ DoomStep(t) /\ AllocStep(t) /\ DeferStep(t) BY <1>13
        DEF DestroyProtoDetach, MntStep, HashStep, DoomStep, AllocStep, DeferStep
  <2>5. DataStep(t) BY <1>13, <1>a, <1>b, <1>e DEF DestroyProtoDetach, Acquire, Free,
        RefInv, WhyInv, AliasOK, LockOK, DataStep, Vnodes
  <2>6. AliasStep(t) BY <2>4, <2>5 DEF AliasStep
  <2>7. UseStep(t) BY <1>13, <1>a, <1>b DEF DestroyProtoDetach, AliasOK, UpInv, DirInv,
        TgtInv, UseStep, ProtoOf, MakesProto
  <2>8. HoldStep(t) BY <1>13, <1>a, <1>b DEF DestroyProtoDetach, AliasOK, WhyInv, TgtInv,
        HoldStep, HoldOf, HasHold
  <2>9. CountStep BY <1>13, <1>a DEF DestroyProtoDetach, AliasInv, CountStep
  <2>10. LowerHoldStep(t) BY <1>13, <1>a, <1>b DEF DestroyProtoDetach, LowerOK, LowInv,
        LdvpInv, LowerHoldStep, SleepOf
  <2>11. AliasOf' = AliasOf BY <1>13, <1>a, <2>1 DEF DestroyProtoDetach, AliasOK, Alone,
        AliasOf, Discarded
  <2>12. RootOf' = RootOf BY <1>13, <1>a, <1>b DEF DestroyProtoDetach, MountOK, RootOf
  <2>13. \A l \in Lower : luse'[l] = luse[l] + SpareMove(t, l) BY <1>13, <1>a, <1>b DEF
        DestroyProtoDetach, LowerOK, LowInv, SpareMove, SpareOf, SpareLabels
  <2>14. LowerUseStep(t) BY <2>11, <2>12, <2>13 DEF LowerUseStep
  <2>15. MountStep(t) BY <1>13, <1>a DEF DestroyProtoDetach, MountStep
  <2>16. RefStep(t) BY <1>13, <1>a, <1>b DEF DestroyProtoDetach, UpInv, DirInv, RefStep,
        Held
  <2>17. TgtStep(t) BY <1>13, <1>a DEF DestroyProtoDetach, Acquire, Free, TgtStep
  <2>18. StayStep(t) BY <1>13, <1>a DEF DestroyProtoDetach, AliasOK, StayStep, MakesProto
  <2>19. FlushStep(t) BY <1>13, <1>a, <1>b DEF DestroyProtoDetach, TgtInv, WhyInv,
        FlushStep
  <2> QED BY <2>1, <2>2, <2>3, <2>4, <2>5, <2>6, <2>7, <2>8, <2>9, <2>10, <2>11, <2>12,
        <2>13, <2>14, <2>15, <2>16, <2>17, <2>18, <2>19 DEF ThreadStep, CountSteps
<1>14. CASE DestroyProtoFin(t)
  <2>1. Alone(t) BY <1>14, <1>a DEF DestroyProtoFin, NodegetReturn, Alone
  <2>2. LockStep(t) /\ LockInv' BY <1>14, <1>a DEF DestroyProtoFin, Release,
        NodegetReturn, LockOK, LockInv, LockStep
  <2>3. ldoomed' = ldoomed BY <1>14 DEF DestroyProtoFin
  <2>4. DataStep(t) /\ HashStep(t) /\ DeferStep(t) BY <1>14 DEF DestroyProtoFin, DataStep,
        HashStep, DeferStep
  <2>5. MntStep(t) BY <1>14, <1>a, <1>b, <1>e DEF DestroyProtoFin, NodegetReturn, RefInv,
        WhyInv, AliasOK, LockOK, MntStep
  <2>6. DoomStep(t) /\ AllocStep(t) /\ (udoomed'[tgt[t]] \/ tgt[t] \notin alloc')
    <3> DEFINE w == tgt[t]
               b == uuse[w] > 1 \/ uhold[w] > 0
    <3>1. w \in Upper /\ uuse[w] \in Nat /\ uuse[w] >= 1 /\ uhold[w] \in Nat
          BY <1>14, <1>a, <1>c DEF DestroyProtoFin, ProtoOf, MakesProto
    <3>2. udoomed' = [udoomed EXCEPT ![w] = b] BY <1>14 DEF DestroyProtoFin
    <3>3. /\ b => alloc' = alloc
          /\ ~b => alloc' = alloc \ {w}
          BY <1>14, <3>1 DEF DestroyProtoFin
    <3>4. w \in alloc BY <1>e, <3>1, NodeConstants DEF RefInv
    <3>5. pc[t] = "dp_fin" BY <1>14 DEF DestroyProtoFin
    <3>6. udoomed \in [Upper -> BOOLEAN] BY <1>a DEF AliasOK
    <3>7. \A u \in Upper \ {w} : udoomed'[u] = udoomed[u] BY <3>2, <3>6
    <3>8. udoomed'[w] = b BY <3>1, <3>2, <3>6, Zenon
    <3>9. (b /\ udoomed'[w] /\ alloc' = alloc) \/ (~b /\ ~udoomed'[w] /\
          alloc' = alloc \ {w})
          BY <3>3, <3>8, Zenon
    <3> HIDE DEF w, b
    <3>10. DoomStep(t) BY <3>4, <3>5, <3>7, <3>9 DEF DoomStep, w
    <3>11. AllocStep(t) BY <3>4, <3>5, <3>9 DEF AllocStep, w
    <3>12. udoomed'[w] \/ w \notin alloc' BY <3>9
    <3> QED BY <3>10, <3>11, <3>12 DEF w
  <2>7. AllocStep(t) BY <2>6
  <2>8. AliasStep(t) BY <2>4, <2>5, <2>6, <2>7 DEF AliasStep
  <2>9. UseStep(t) BY <1>14, <1>a, <1>b DEF DestroyProtoFin, NodegetReturn, AliasOK,
        UpInv, DirInv, TgtInv, UseStep, ProtoOf, MakesProto
  <2>10. HoldStep(t) BY <1>14, <1>a, <1>b DEF DestroyProtoFin, NodegetReturn, AliasOK,
        WhyInv, TgtInv, HoldStep, HoldOf, HasHold
  <2>11. CountStep BY <1>14, <1>a, <1>b, <1>c, <1>e DEF DestroyProtoFin, AliasOK, WhyInv,
        RefInv, AliasInv, CountStep, HoldOf, ProtoOf, MakesProto, HasHold
  <2>12. LowerHoldStep(t) BY <1>14, <1>a, <1>b DEF DestroyProtoFin, NodegetReturn,
        LowerOK, LowInv, LdvpInv, LowerHoldStep, SleepOf
  <2>13. AliasOf' = AliasOf BY <1>14, <1>a, <2>1 DEF DestroyProtoFin, NodegetReturn,
        AliasOK, Alone, AliasOf, Discarded
  <2>14. RootOf' = RootOf BY <1>14, <1>a, <1>b DEF DestroyProtoFin, MountOK, RootOf
  <2>15. \A l \in Lower : luse'[l] = luse[l] + SpareMove(t, l) BY <1>14, <1>a, <1>b DEF
        DestroyProtoFin, NodegetReturn, LowerOK, LowInv, SpareMove, SpareOf, SpareLabels
  <2>16. LowerUseStep(t) BY <2>13, <2>14, <2>15 DEF LowerUseStep
  <2>17. MountStep(t) BY <1>14, <1>a DEF DestroyProtoFin, MountStep
  <2>18. RefStep(t) BY <1>14, <1>a, <1>b DEF DestroyProtoFin, NodegetReturn, UpInv,
        DirInv, RefStep, Held
  <2>19. TgtStep(t) BY <1>14, <1>a DEF DestroyProtoFin, Release, NodegetReturn, TgtStep
  <2>20. StayStep(t)
    <3>1. tgt[t] \in Upper /\ tgt[t] \in alloc /\ pc[t] = "dp_fin" /\ pc'[t] # "dp_fin"
          BY <1>14, <1>a, <1>e DEF DestroyProtoFin, NodegetReturn, RefInv
    <3>2. mnt'[tgt[t]] = Null BY <1>14, <1>a, <3>1 DEF DestroyProtoFin, AliasOK
    <3> QED BY <3>1, <3>2, <2>6 DEF StayStep
  <2>21. FlushStep(t) BY <1>14, <1>a, <1>b DEF DestroyProtoFin, NodegetReturn, TgtInv,
        WhyInv, FlushStep
  <2> QED BY <2>1, <2>2, <2>3, <2>4, <2>5, <2>6, <2>7, <2>8, <2>9, <2>10, <2>11, <2>12,
        <2>13, <2>14, <2>15, <2>16, <2>17, <2>18, <2>19, <2>20, <2>21 DEF ThreadStep,
        CountSteps
<1> QED BY <1>1, <1>2, <1>3, <1>4, <1>5, <1>6, <1>7, <1>8, <1>9, <1>10, <1>11, <1>12,
      <1>13, <1>14 DEF Nodeget

(* tpt_lock and its callers keep within ThreadStep.                         *)
LEMMA VnLockStep ==
    ASSUME NodeInv, NEW t \in Threads, VnLock(t)
    PROVE  ThreadStep(t)
<1> USE NodeConstants
<1>a. TypeOK /\ LockInv /\ AliasInv /\ DoomedInv BY DEF NodeInv
<1>b. Locals(t) BY DEF NodeInv
<1>c. \A u \in Upper : /\ uuse[u] \in Nat /\ uhold[u] \in Nat
                        /\ uuse[u] >= Is(up[t], u) + Is(dir[t], u) + Is(ProtoOf[t], u)
                        /\ uhold[u] >= Is(HoldOf[t], u) + (IF u \in deferred THEN 1 ELSE 0)
  BY OwnCounts
<1>d. Locking(t) BY DEF NodeInv
<1>e. RefInv(t) BY DEF NodeInv
<1>f. \A s \in Threads : ProtoInv(s) /\ RefInv(s) BY DEF NodeInv
<1>g. MountInv(t) BY DEF NodeInv
<1> USE DEF LockLabels, NodegetLabels, ProtoLabels, ReclaimLabels, PutLabels,
       CreateLabels, LookupLabels, VnLockLabels, Go, Rest, lowerVars, aliasVars, lockVars,
       mountVars, argVars, TypeOK, ThreadOK, LocalsOK, InLookup, Flushes, Is, Locals
<1>1. CASE LockStart(t)
  <2>1. Alone(t) BY <1>1, <1>a DEF LockStart, Alone
  <2>2. LockStep(t) /\ LockInv' /\ ldoomed' = ldoomed BY <1>1, <1>a DEF LockStart,
        LockInv, LockStep
  <2>3. AliasStep(t) BY <1>1 DEF LockStart, AliasStep, DataStep, MntStep, HashStep,
        DoomStep, AllocStep, DeferStep
  <2>4. UseStep(t) BY <1>1, <1>a, <1>b DEF LockStart, AliasOK, UpInv, DirInv, TgtInv,
        UseStep, ProtoOf, MakesProto
  <2>5. HoldStep(t) BY <1>1, <1>a, <1>b DEF LockStart, AliasOK, WhyInv, TgtInv, HoldStep,
        HoldOf, HasHold
  <2>6. CountStep BY <1>1, <1>a DEF LockStart, AliasInv, CountStep
  <2>7. LowerHoldStep(t) BY <1>1, <1>a, <1>b DEF LockStart, LowerOK, LowInv, LdvpInv,
        LowerHoldStep, SleepOf
  <2>8. AliasOf' = AliasOf BY <1>1, <1>a, <2>1 DEF LockStart, AliasOK, Alone, AliasOf,
        Discarded
  <2>9. RootOf' = RootOf BY <1>1, <1>a, <1>b DEF LockStart, MountOK, RootOf
  <2>10. \A l \in Lower : luse'[l] = luse[l] + SpareMove(t, l)
    <3>1. SpareOf[t] = Null /\ SpareOf'[t] = Null
          BY <1>1, <1>a DEF LockStart, SpareOf, SpareLabels
    <3>2. luse \in [Lower -> Int] /\ luse' = luse BY <1>1, <1>a DEF LockStart, LowerOK
    <3> QED BY <3>1, <3>2 DEF SpareMove
  <2>11. LowerUseStep(t) BY <2>8, <2>9, <2>10 DEF LowerUseStep
  <2>12. MountStep(t) BY <1>1, <1>a DEF LockStart, MountStep
  <2>13. RefStep(t) BY <1>1, <1>a, <1>b DEF LockStart, UpInv, DirInv, RefStep, Held
  <2>14. TgtStep(t) BY <1>1, <1>a DEF LockStart, TgtStep
  <2>15. StayStep(t) BY <1>1, <1>a DEF LockStart, AliasOK, StayStep, MakesProto
  <2>16. FlushStep(t) BY <1>1, <1>a, <1>b DEF LockStart, TgtInv, WhyInv, FlushStep
  <2> QED BY <2>1, <2>2, <2>3, <2>4, <2>5, <2>6, <2>7, <2>8, <2>9, <2>10, <2>11, <2>12,
        <2>13, <2>14, <2>15, <2>16 DEF ThreadStep, CountSteps
<1>2. CASE LockLower(t)
  <2>1. Alone(t) BY <1>2, <1>a DEF LockLower, LockGranted, Alone
  <2>2. LockStep(t) /\ LockInv' BY <1>2, <1>a DEF LockLower, Acquire, Free, LockGranted,
        LockOK, LockInv, LockStep
  <2>3. ldoomed' = ldoomed BY <1>2 DEF LockLower
  <2>4. AliasStep(t) BY <1>2 DEF LockLower, AliasStep, DataStep, MntStep, HashStep,
        DoomStep, AllocStep, DeferStep
  <2>5. UseStep(t) BY <1>2, <1>a, <1>b DEF LockLower, LockGranted, AliasOK, UpInv, DirInv,
        TgtInv, UseStep, ProtoOf, MakesProto
  <2>6. HoldStep(t) BY <1>2, <1>a, <1>b DEF LockLower, LockGranted, AliasOK, WhyInv,
        TgtInv, HoldStep, HoldOf, HasHold
  <2>7. CountStep BY <1>2, <1>a DEF LockLower, AliasInv, CountStep
  <2>8. LowerHoldStep(t) BY <1>2, <1>a, <1>b DEF LockLower, LockGranted, LowerOK, LowInv,
        LdvpInv, LowerHoldStep, SleepOf
  <2>9. AliasOf' = AliasOf BY <1>2, <1>a, <2>1 DEF LockLower, LockGranted, AliasOK, Alone,
        AliasOf, Discarded
  <2>10. RootOf' = RootOf BY <1>2, <1>a, <1>b DEF LockLower, MountOK, RootOf
  <2>11. \A l \in Lower : luse'[l] = luse[l] + SpareMove(t, l) BY <1>2, <1>a, <1>b DEF
        LockLower, LockGranted, LowerOK, LowInv, SpareMove, SpareOf, SpareLabels
  <2>12. LowerUseStep(t) BY <2>9, <2>10, <2>11 DEF LowerUseStep
  <2>13. MountStep(t) BY <1>2, <1>a DEF LockLower, MountStep
  <2>14. RefStep(t) BY <1>2, <1>a, <1>b DEF LockLower, UpInv, DirInv, RefStep, Held
  <2>15. TgtStep(t) BY <1>2, <1>a DEF LockLower, Acquire, Free, LockGranted, TgtStep
  <2>16. StayStep(t) BY <1>2, <1>a DEF LockLower, LockGranted, AliasOK, StayStep,
        MakesProto
  <2>17. FlushStep(t) BY <1>2, <1>a, <1>b DEF LockLower, LockGranted, TgtInv, WhyInv,
        FlushStep
  <2> QED BY <2>1, <2>2, <2>3, <2>4, <2>5, <2>6, <2>7, <2>8, <2>9, <2>10, <2>11, <2>12,
        <2>13, <2>14, <2>15, <2>16, <2>17 DEF ThreadStep, CountSteps
<1>3. CASE LockSwitched(t)
  <2>1. Alone(t) BY <1>3, <1>a DEF LockSwitched, Alone
  <2>2. LockStep(t) /\ LockInv' /\ ldoomed' = ldoomed BY <1>3, <1>a DEF LockSwitched,
        LockInv, LockStep
  <2>3. AliasStep(t) BY <1>3 DEF LockSwitched, AliasStep, DataStep, MntStep, HashStep,
        DoomStep, AllocStep, DeferStep
  <2>4. UseStep(t) BY <1>3, <1>a, <1>b DEF LockSwitched, AliasOK, UpInv, DirInv, TgtInv,
        UseStep, ProtoOf, MakesProto
  <2>5. HoldStep(t) BY <1>3, <1>a, <1>b DEF LockSwitched, AliasOK, WhyInv, TgtInv,
        HoldStep, HoldOf, HasHold
  <2>6. CountStep BY <1>3, <1>a DEF LockSwitched, AliasInv, CountStep
  <2>7. LowerHoldStep(t) BY <1>3, <1>a, <1>b DEF LockSwitched, LowerOK, LowInv, LdvpInv,
        LowerHoldStep, SleepOf
  <2>8. AliasOf' = AliasOf BY <1>3, <1>a, <2>1 DEF LockSwitched, AliasOK, Alone, AliasOf,
        Discarded
  <2>9. RootOf' = RootOf BY <1>3, <1>a, <1>b DEF LockSwitched, MountOK, RootOf
  <2>10. \A l \in Lower : luse'[l] = luse[l] + SpareMove(t, l) BY <1>3, <1>a, <1>b DEF
        LockSwitched, LowerOK, LowInv, SpareMove, SpareOf, SpareLabels
  <2>11. LowerUseStep(t) BY <2>8, <2>9, <2>10 DEF LowerUseStep
  <2>12. MountStep(t) BY <1>3, <1>a DEF LockSwitched, MountStep
  <2>13. RefStep(t) BY <1>3, <1>a, <1>b DEF LockSwitched, UpInv, DirInv, RefStep, Held
  <2>14. TgtStep(t) BY <1>3, <1>a DEF LockSwitched, Free, TgtStep
  <2>15. StayStep(t) BY <1>3, <1>a DEF LockSwitched, AliasOK, StayStep, MakesProto
  <2>16. FlushStep(t) BY <1>3, <1>a, <1>b DEF LockSwitched, TgtInv, WhyInv, FlushStep
  <2> QED BY <2>1, <2>2, <2>3, <2>4, <2>5, <2>6, <2>7, <2>8, <2>9, <2>10, <2>11, <2>12,
        <2>13, <2>14, <2>15, <2>16 DEF ThreadStep, CountSteps
<1>4. CASE LockOwn(t)
  <2>1. Alone(t) BY <1>4, <1>a DEF LockOwn, LockGranted, Alone
  <2>2. LockStep(t) /\ LockInv' BY <1>4, <1>a DEF LockOwn, Acquire, Free, LockGranted,
        LockOK, LockInv, LockStep
  <2>3. ldoomed' = ldoomed BY <1>4 DEF LockOwn
  <2>4. AliasStep(t) BY <1>4 DEF LockOwn, AliasStep, DataStep, MntStep, HashStep,
        DoomStep, AllocStep, DeferStep
  <2>5. UseStep(t) BY <1>4, <1>a, <1>b DEF LockOwn, LockGranted, AliasOK, UpInv, DirInv,
        TgtInv, UseStep, ProtoOf, MakesProto
  <2>6. HoldStep(t) BY <1>4, <1>a, <1>b DEF LockOwn, LockGranted, AliasOK, WhyInv, TgtInv,
        HoldStep, HoldOf, HasHold
  <2>7. CountStep BY <1>4, <1>a DEF LockOwn, AliasInv, CountStep
  <2>8. LowerHoldStep(t) BY <1>4, <1>a, <1>b DEF LockOwn, LockGranted, LowerOK, LowInv,
        LdvpInv, LowerHoldStep, SleepOf
  <2>9. AliasOf' = AliasOf BY <1>4, <1>a, <2>1 DEF LockOwn, LockGranted, AliasOK, Alone,
        AliasOf, Discarded
  <2>10. RootOf' = RootOf BY <1>4, <1>a, <1>b DEF LockOwn, MountOK, RootOf
  <2>11. \A l \in Lower : luse'[l] = luse[l] + SpareMove(t, l) BY <1>4, <1>a, <1>b DEF
        LockOwn, LockGranted, LowerOK, LowInv, SpareMove, SpareOf, SpareLabels
  <2>12. LowerUseStep(t) BY <2>9, <2>10, <2>11 DEF LowerUseStep
  <2>13. MountStep(t) BY <1>4, <1>a DEF LockOwn, MountStep
  <2>14. RefStep(t) BY <1>4, <1>a, <1>b DEF LockOwn, UpInv, DirInv, RefStep, Held
  <2>15. TgtStep(t) BY <1>4, <1>a DEF LockOwn, Acquire, Free, LockGranted, TgtStep
  <2>16. StayStep(t) BY <1>4, <1>a DEF LockOwn, LockGranted, AliasOK, StayStep, MakesProto
  <2>17. FlushStep(t) BY <1>4, <1>a, <1>b DEF LockOwn, LockGranted, TgtInv, WhyInv,
        FlushStep
  <2> QED BY <2>1, <2>2, <2>3, <2>4, <2>5, <2>6, <2>7, <2>8, <2>9, <2>10, <2>11, <2>12,
        <2>13, <2>14, <2>15, <2>16, <2>17 DEF ThreadStep, CountSteps
<1>5. CASE VnLockDone(t)
  <2>1. Alone(t) BY <1>5, <1>a DEF VnLockDone, Alone
  <2>2. LockStep(t) /\ LockInv' /\ ldoomed' = ldoomed BY <1>5, <1>a DEF VnLockDone,
        LockInv, LockStep
  <2>3. AliasStep(t) BY <1>5 DEF VnLockDone, AliasStep, DataStep, MntStep, HashStep,
        DoomStep, AllocStep, DeferStep
  <2>4. UseStep(t) BY <1>5, <1>a, <1>b DEF VnLockDone, AliasOK, UpInv, DirInv, TgtInv,
        UseStep, ProtoOf, MakesProto
  <2>5. HoldStep(t) BY <1>5, <1>a, <1>b DEF VnLockDone, AliasOK, WhyInv, TgtInv, HoldStep,
        HoldOf, HasHold
  <2>6. CountStep BY <1>5, <1>a DEF VnLockDone, AliasInv, CountStep
  <2>7. LowerHoldStep(t) BY <1>5, <1>a, <1>b DEF VnLockDone, LowerOK, LowInv, LdvpInv,
        LowerHoldStep, SleepOf
  <2>8. AliasOf' = AliasOf BY <1>5, <1>a, <2>1 DEF VnLockDone, AliasOK, Alone, AliasOf,
        Discarded
  <2>9. RootOf' = RootOf BY <1>5, <1>a, <1>b DEF VnLockDone, MountOK, RootOf
  <2>10. \A l \in Lower : luse'[l] = luse[l] + SpareMove(t, l) BY <1>5, <1>a, <1>b DEF
        VnLockDone, LowerOK, LowInv, SpareMove, SpareOf, SpareLabels
  <2>11. LowerUseStep(t) BY <2>8, <2>9, <2>10 DEF LowerUseStep
  <2>12. MountStep(t) BY <1>5, <1>a DEF VnLockDone, MountStep
  <2>13. RefStep(t) BY <1>5, <1>a, <1>b DEF VnLockDone, UpInv, DirInv, RefStep, Held
  <2>14. TgtStep(t) BY <1>5, <1>a DEF VnLockDone, TgtStep
  <2>15. StayStep(t) BY <1>5, <1>a DEF VnLockDone, AliasOK, StayStep, MakesProto
  <2>16. FlushStep(t) BY <1>5, <1>a, <1>b DEF VnLockDone, TgtInv, WhyInv, FlushStep
  <2> QED BY <2>1, <2>2, <2>3, <2>4, <2>5, <2>6, <2>7, <2>8, <2>9, <2>10, <2>11, <2>12,
        <2>13, <2>14, <2>15, <2>16 DEF ThreadStep, CountSteps
<1>6. CASE VnLockDoomed(t)
  <2>1. Alone(t) BY <1>6, <1>a DEF VnLockDoomed, Alone
  <2>2. LockStep(t) /\ LockInv' BY <1>6, <1>a DEF VnLockDoomed, Release, LockOK, LockInv,
        LockStep
  <2>3. ldoomed' = ldoomed BY <1>6 DEF VnLockDoomed
  <2>4. DataStep(t) /\ MntStep(t) /\ HashStep(t) /\ DeferStep(t) BY <1>6 DEF VnLockDoomed,
        DataStep, MntStep, HashStep, DeferStep
  <2>5. DoomStep(t) BY <1>6, <1>a, <1>b, <1>e DEF VnLockDoomed, Vdrop, RefInv, WhyInv,
        AliasOK, LockOK, DoomStep
  <2>6. AllocStep(t) BY <1>6, <1>a, <1>b, <1>e DEF VnLockDoomed, Vdrop, RefInv, WhyInv,
        AliasOK, LockOK, AllocStep, HasHold
  <2>7. AliasStep(t) BY <2>4, <2>5, <2>6 DEF AliasStep
  <2>8. UseStep(t) BY <1>6, <1>a, <1>b DEF VnLockDoomed, AliasOK, UpInv, DirInv, TgtInv,
        UseStep, ProtoOf, MakesProto
  <2>9. HoldStep(t) BY <1>6, <1>a, <1>b DEF VnLockDoomed, Vdrop, AliasOK, WhyInv, TgtInv,
        HoldStep, HoldOf, HasHold
  <2>10. CountStep
    <3>1. tgt[t] \in Upper /\ tgt[t] \in alloc /\ (why[t] # "user" => HoldOf[t] = tgt[t])
          BY <1>6, <1>a, <1>b, <1>e DEF VnLockDoomed, RefInv, WhyInv, HoldOf, HasHold
    <3>2. /\ uuse' = uuse
          /\ \/ uhold' = uhold /\ alloc' = alloc /\ udoomed' = udoomed
             \/ why[t] # "user" /\ Vdrop(tgt[t])
          BY <1>6 DEF VnLockDoomed
    <3>3. why[t] # "user" => uhold[tgt[t]] >= 1 BY <1>c, <3>1
    <3>4. \A u \in Upper : uuse[u] \in Nat /\ uhold[u] \in Nat BY <1>c
    <3>5. AliasInv /\ uhold \in [Upper -> Int] /\ udoomed \in [Upper -> BOOLEAN]
          BY <1>a DEF AliasOK
    <3> QED BY <3>1, <3>2, <3>3, <3>4, <3>5 DEF Vdrop, AliasInv, CountStep
  <2>11. LowerHoldStep(t) BY <1>6, <1>a, <1>b DEF VnLockDoomed, LowerOK, LowInv, LdvpInv,
        LowerHoldStep, SleepOf
  <2>12. AliasOf' = AliasOf BY <1>6, <1>a, <2>1 DEF VnLockDoomed, AliasOK, Alone, AliasOf,
        Discarded
  <2>13. RootOf' = RootOf BY <1>6, <1>a, <1>b DEF VnLockDoomed, MountOK, RootOf
  <2>14. \A l \in Lower : luse'[l] = luse[l] + SpareMove(t, l) BY <1>6, <1>a, <1>b DEF
        VnLockDoomed, LowerOK, LowInv, SpareMove, SpareOf, SpareLabels
  <2>15. LowerUseStep(t) BY <2>12, <2>13, <2>14 DEF LowerUseStep
  <2>16. MountStep(t) BY <1>6, <1>a DEF VnLockDoomed, MountStep
  <2>17. RefStep(t) BY <1>6, <1>a, <1>b DEF VnLockDoomed, UpInv, DirInv, RefStep, Held
  <2>18. TgtStep(t) BY <1>6, <1>a DEF VnLockDoomed, Release, TgtStep
  <2>19. StayStep(t) BY <1>6, <1>a DEF VnLockDoomed, Vdrop, AliasOK, StayStep, MakesProto
  <2>20. FlushStep(t) BY <1>6, <1>a, <1>b DEF VnLockDoomed, TgtInv, WhyInv, FlushStep
  <2> QED BY <2>1, <2>2, <2>3, <2>4, <2>5, <2>6, <2>7, <2>8, <2>9, <2>10, <2>11, <2>12,
        <2>13, <2>14, <2>15, <2>16, <2>17, <2>18, <2>19, <2>20 DEF ThreadStep, CountSteps
<1> QED BY <1>1, <1>2, <1>3, <1>4, <1>5, <1>6 DEF VnLock

(* The last release and inactive processing keep within ThreadStep.         *)
LEMMA PutStep ==
    ASSUME NodeInv, NEW t \in Threads, Put(t)
    PROVE  ThreadStep(t)
<1> USE NodeConstants
<1>a. TypeOK /\ LockInv /\ AliasInv /\ DoomedInv BY DEF NodeInv
<1>b. Locals(t) BY DEF NodeInv
<1>c. \A u \in Upper : /\ uuse[u] \in Nat /\ uhold[u] \in Nat
                        /\ uuse[u] >= Is(up[t], u) + Is(dir[t], u) + Is(ProtoOf[t], u)
                        /\ uhold[u] >= Is(HoldOf[t], u) + (IF u \in deferred THEN 1 ELSE 0)
  BY OwnCounts
<1>d. Locking(t) BY DEF NodeInv
<1>e. RefInv(t) BY DEF NodeInv
<1>f. \A s \in Threads : ProtoInv(s) /\ RefInv(s) BY DEF NodeInv
<1>g. MountInv(t) BY DEF NodeInv
<1> USE DEF LockLabels, NodegetLabels, ProtoLabels, ReclaimLabels, PutLabels,
       CreateLabels, LookupLabels, VnLockLabels, Go, Rest, lowerVars, lockVars, mountVars,
       argVars, TypeOK, ThreadOK, LocalsOK, InLookup, Flushes, Is, Locals
<1>1. CASE VputDir(t)
  <2>1. Alone(t) BY <1>1, <1>a DEF VputDir, Vput, Alone
  <2>2. LockStep(t) /\ LockInv' BY <1>1, <1>a DEF VputDir, Vput, Release, LockOK, LockInv,
        LockStep
  <2>3. ldoomed' = ldoomed BY <1>1 DEF VputDir, Vput
  <2>4. AliasStep(t) BY <1>1 DEF VputDir, Vput, AliasStep, DataStep, MntStep, HashStep,
        DoomStep, AllocStep, DeferStep
  <2>5. UseStep(t)
    <3>1. dir[t] \in Upper /\ dir'[t] = Null /\ up' = up /\
          uuse' = [uuse EXCEPT ![dir[t]] = @ - 1]
          BY <1>1, <1>a DEF VputDir, Vput, PutUse
    <3>2. ProtoOf[t] = Null /\ ProtoOf'[t] = Null
          BY <1>1, <1>a DEF VputDir, Vput, ProtoOf, MakesProto
    <3> QED BY <1>a, <3>1, <3>2 DEF AliasOK, UseStep
  <2>6. HoldStep(t) BY <1>1, <1>a, <1>b DEF VputDir, Vput, PutUse, AliasOK, WhyInv,
        TgtInv, HoldStep, HoldOf, HasHold
  <2>7. CountStep BY <1>1, <1>a, <1>b, <1>c, <1>e DEF VputDir, Vput, PutUse, AliasOK,
        WhyInv, RefInv, AliasInv, CountStep, HoldOf, ProtoOf, MakesProto, HasHold
  <2>8. LowerHoldStep(t) BY <1>1, <1>a, <1>b DEF VputDir, Vput, LowerOK, LowInv, LdvpInv,
        LowerHoldStep, SleepOf
  <2>9. AliasOf' = AliasOf BY <1>1, <1>a, <2>1 DEF VputDir, Vput, AliasOK, Alone, AliasOf,
        Discarded
  <2>10. RootOf' = RootOf BY <1>1, <1>a, <1>b DEF VputDir, Vput, MountOK, RootOf
  <2>11. \A l \in Lower : luse'[l] = luse[l] + SpareMove(t, l) BY <1>1, <1>a, <1>b DEF
        VputDir, Vput, LowerOK, LowInv, SpareMove, SpareOf, SpareLabels
  <2>12. LowerUseStep(t) BY <2>9, <2>10, <2>11 DEF LowerUseStep
  <2>13. MountStep(t) BY <1>1, <1>a DEF VputDir, Vput, MountStep
  <2>14. RefStep(t)
    <3>1. dir[t] \in Held(t) /\ Held(t)' = Held(t) \ {dir[t]}
          BY <1>1, <1>a DEF VputDir, Held
    <3> QED BY <1>1, <3>1 DEF VputDir, RefStep
  <2>15. TgtStep(t) BY <1>1, <1>a DEF VputDir, Vput, Release, TgtStep
  <2>16. StayStep(t) BY <1>1, <1>a DEF VputDir, Vput, AliasOK, StayStep, MakesProto
  <2>17. FlushStep(t) BY <1>1, <1>a, <1>b DEF VputDir, Vput, TgtInv, WhyInv, FlushStep
  <2> QED BY <2>1, <2>2, <2>3, <2>4, <2>5, <2>6, <2>7, <2>8, <2>9, <2>10, <2>11, <2>12,
        <2>13, <2>14, <2>15, <2>16, <2>17 DEF ThreadStep, CountSteps
<1>2. CASE VreleDir(t)
  <2>1. Alone(t) BY <1>2, <1>a DEF VreleDir, Alone
  <2>2. LockStep(t) /\ LockInv' /\ ldoomed' = ldoomed BY <1>2, <1>a DEF VreleDir, LockInv,
        LockStep
  <2>3. AliasStep(t) BY <1>2 DEF VreleDir, AliasStep, DataStep, MntStep, HashStep,
        DoomStep, AllocStep, DeferStep
  <2>4. UseStep(t) BY <1>2, <1>a, <1>b DEF VreleDir, PutUse, AliasOK, UpInv, DirInv,
        TgtInv, UseStep, ProtoOf, MakesProto
  <2>5. HoldStep(t) BY <1>2, <1>a, <1>b, <1>c DEF VreleDir, PutUse, AliasOK, WhyInv,
        TgtInv, HoldStep, HoldOf, HasHold
  <2>6. CountStep BY <1>2, <1>a, <1>b, <1>c, <1>e DEF VreleDir, PutUse, AliasOK, WhyInv,
        RefInv, AliasInv, CountStep, HoldOf, ProtoOf, MakesProto, HasHold
  <2>7. LowerHoldStep(t) BY <1>2, <1>a, <1>b DEF VreleDir, LowerOK, LowInv, LdvpInv,
        LowerHoldStep, SleepOf
  <2>8. AliasOf' = AliasOf BY <1>2, <1>a, <2>1 DEF VreleDir, AliasOK, Alone, AliasOf,
        Discarded
  <2>9. RootOf' = RootOf BY <1>2, <1>a, <1>b DEF VreleDir, MountOK, RootOf
  <2>10. \A l \in Lower : luse'[l] = luse[l] + SpareMove(t, l) BY <1>2, <1>a, <1>b DEF
        VreleDir, LowerOK, LowInv, SpareMove, SpareOf, SpareLabels
  <2>11. LowerUseStep(t) BY <2>8, <2>9, <2>10 DEF LowerUseStep
  <2>12. MountStep(t) BY <1>2, <1>a DEF VreleDir, MountStep
  <2>13. RefStep(t) BY <1>2, <1>a, <1>b DEF VreleDir, UpInv, DirInv, RefStep, Held
  <2>14. TgtStep(t) BY <1>2, <1>a DEF VreleDir, TgtStep
  <2>15. StayStep(t) BY <1>2, <1>a DEF VreleDir, AliasOK, StayStep, MakesProto
  <2>16. FlushStep(t) BY <1>2, <1>a, <1>b DEF VreleDir, TgtInv, WhyInv, FlushStep
  <2> QED BY <2>1, <2>2, <2>3, <2>4, <2>5, <2>6, <2>7, <2>8, <2>9, <2>10, <2>11, <2>12,
        <2>13, <2>14, <2>15, <2>16 DEF ThreadStep, CountSteps
<1>3. CASE VputFinal(t)
  <2>1. Alone(t) BY <1>3, <1>a DEF VputFinal, Alone
  <2>2. LockStep(t) /\ LockInv' BY <1>3, <1>a DEF VputFinal, Release, Upgrade, LockOK,
        LockInv, LockStep
  <2>3. ldoomed' = ldoomed BY <1>3 DEF VputFinal
  <2>4. DataStep(t) /\ MntStep(t) /\ HashStep(t) BY <1>3 DEF VputFinal, DataStep, MntStep,
        HashStep
  <2>5. DoomStep(t) BY <1>3, <1>a, <1>b, <1>e DEF VputFinal, Vdrop, Defer, NoInactive,
        WantRecycle, NullmFlags, RefInv, WhyInv, AliasOK, LockOK, DoomStep
  <2>6. AllocStep(t) BY <1>3, <1>a, <1>b, <1>e DEF VputFinal, Vdrop, Defer, NoInactive,
        WantRecycle, NullmFlags, RefInv, WhyInv, AliasOK, LockOK, AllocStep, HasHold
  <2>7. DeferStep(t) BY <1>3, <1>a, <1>b, <1>e DEF VputFinal, Vdrop, Defer, NoInactive,
        WantRecycle, NullmFlags, RefInv, WhyInv, AliasOK, LockOK, DeferStep
  <2>8. AliasStep(t) BY <2>4, <2>5, <2>6, <2>7 DEF AliasStep
  <2>9. UseStep(t)
    <3>1. uuse' = uuse /\ up' = up /\ dir' = dir BY <1>3 DEF VputFinal
    <3>2. ~MakesProto(t) BY <1>3 DEF VputFinal, MakesProto, ProtoLabels
    <3>3. pc'[t] \notin ProtoLabels
          BY <1>3, <1>a, <1>b DEF VputFinal, ProtoLabels
    <3>4. ProtoOf[t] = Null /\ ProtoOf'[t] = Null BY <3>2, <3>3 DEF ProtoOf, MakesProto
    <3> QED BY <1>a, <3>1, <3>4 DEF AliasOK, UseStep, Is
  <2>10. HoldStep(t)
    <3>1. tgt[t] \in Upper /\ HoldOf[t] = tgt[t] BY <1>3, <1>a DEF VputFinal, HoldOf, HasHold
    <3>2. HoldOf'[t] = IF pc'[t] = "inact" THEN tgt[t] ELSE Null
          BY <1>3, <1>a DEF VputFinal, HoldOf, HasHold
    <3>3. \/ pc'[t] = "inact" /\ uhold' = uhold /\ deferred' = deferred
          \/ pc'[t] # "inact" /\ uhold' = [uhold EXCEPT ![tgt[t]] = @ - 1] /\ deferred' = deferred
          \/ /\ pc'[t] # "inact" /\ uhold' = uhold
             /\ tgt[t] \notin deferred /\ deferred' = deferred \cup {tgt[t]}
          BY <1>3, <1>a DEF VputFinal, Vdrop, Defer
    <3>4. uhold \in [Upper -> Int] /\ Null \notin Upper BY <1>a, NodeConstants DEF AliasOK
    <3> QED BY <3>1, <3>2, <3>3, <3>4 DEF HoldStep
  <2>11. CountStep BY <1>3, <1>a, <1>b, <1>c, <1>e DEF VputFinal, Vdrop, Defer, AliasOK,
        WhyInv, RefInv, AliasInv, CountStep, HoldOf, ProtoOf, MakesProto, HasHold
  <2>12. LowerHoldStep(t) BY <1>3, <1>a, <1>b DEF VputFinal, LowerOK, LowInv, LdvpInv,
        LowerHoldStep, SleepOf
  <2>13. AliasOf' = AliasOf BY <1>3, <1>a, <2>1 DEF VputFinal, AliasOK, Alone, AliasOf,
        Discarded
  <2>14. RootOf' = RootOf BY <1>3, <1>a, <1>b DEF VputFinal, MountOK, RootOf
  <2>15. \A l \in Lower : luse'[l] = luse[l] + SpareMove(t, l) BY <1>3, <1>a, <1>b DEF
        VputFinal, LowerOK, LowInv, SpareMove, SpareOf, SpareLabels
  <2>16. LowerUseStep(t) BY <2>13, <2>14, <2>15 DEF LowerUseStep
  <2>17. MountStep(t) BY <1>3, <1>a DEF VputFinal, MountStep
  <2>18. RefStep(t) BY <1>3, <1>a, <1>b DEF VputFinal, UpInv, DirInv, RefStep, Held
  <2>19. TgtStep(t) BY <1>3, <1>a DEF VputFinal, Release, Upgrade, TgtStep
  <2>20. StayStep(t) BY <1>3, <1>a DEF VputFinal, Vdrop, Defer, AliasOK, StayStep,
        MakesProto
  <2>21. FlushStep(t) BY <1>3, <1>a, <1>b DEF VputFinal, TgtInv, WhyInv, FlushStep
  <2> QED BY <2>1, <2>2, <2>3, <2>4, <2>5, <2>6, <2>7, <2>8, <2>9, <2>10, <2>11, <2>12,
        <2>13, <2>14, <2>15, <2>16, <2>17, <2>18, <2>19, <2>20, <2>21 DEF ThreadStep,
        CountSteps
<1>4. CASE VreleFinal(t)
  <2>1. Alone(t) BY <1>4, <1>a DEF VreleFinal, Alone
  <2>2. LockStep(t) /\ LockInv' /\ ldoomed' = ldoomed BY <1>4, <1>a DEF VreleFinal,
        LockInv, LockStep
  <2>3. DataStep(t) /\ MntStep(t) /\ HashStep(t) BY <1>4 DEF VreleFinal, DataStep,
        MntStep, HashStep
  <2>4. DoomStep(t) BY <1>4, <1>a, <1>b, <1>e DEF VreleFinal, Vdrop, Defer, NoInactive,
        WantRecycle, NullmFlags, RefInv, WhyInv, AliasOK, LockOK, DoomStep
  <2>5. AllocStep(t) BY <1>4, <1>a, <1>b, <1>e DEF VreleFinal, Vdrop, Defer, NoInactive,
        WantRecycle, NullmFlags, RefInv, WhyInv, AliasOK, LockOK, AllocStep, HasHold
  <2>6. DeferStep(t) BY <1>4, <1>a, <1>b, <1>e DEF VreleFinal, Vdrop, Defer, NoInactive,
        WantRecycle, NullmFlags, RefInv, WhyInv, AliasOK, LockOK, DeferStep
  <2>7. AliasStep(t) BY <2>3, <2>4, <2>5, <2>6 DEF AliasStep
  <2>8. UseStep(t) BY <1>4, <1>a, <1>b DEF VreleFinal, Defer, AliasOK, UpInv, DirInv,
        TgtInv, UseStep, ProtoOf, MakesProto
  <2>9. HoldStep(t) BY <1>4, <1>a, <1>b DEF VreleFinal, Vdrop, Defer, AliasOK, WhyInv,
        TgtInv, HoldStep, HoldOf, HasHold
  <2>10. CountStep BY <1>4, <1>a, <1>b, <1>c, <1>e DEF VreleFinal, Vdrop, Defer, AliasOK,
        WhyInv, RefInv, AliasInv, CountStep, HoldOf, ProtoOf, MakesProto, HasHold
  <2>11. LowerHoldStep(t) BY <1>4, <1>a, <1>b DEF VreleFinal, LowerOK, LowInv, LdvpInv,
        LowerHoldStep, SleepOf
  <2>12. AliasOf' = AliasOf BY <1>4, <1>a, <2>1 DEF VreleFinal, AliasOK, Alone, AliasOf,
        Discarded
  <2>13. RootOf' = RootOf BY <1>4, <1>a, <1>b DEF VreleFinal, MountOK, RootOf
  <2>14. \A l \in Lower : luse'[l] = luse[l] + SpareMove(t, l) BY <1>4, <1>a, <1>b DEF
        VreleFinal, LowerOK, LowInv, SpareMove, SpareOf, SpareLabels
  <2>15. LowerUseStep(t) BY <2>12, <2>13, <2>14 DEF LowerUseStep
  <2>16. MountStep(t) BY <1>4, <1>a DEF VreleFinal, MountStep
  <2>17. RefStep(t) BY <1>4, <1>a, <1>b DEF VreleFinal, UpInv, DirInv, RefStep, Held
  <2>18. TgtStep(t) BY <1>4, <1>a DEF VreleFinal, TgtStep
  <2>19. StayStep(t) BY <1>4, <1>a DEF VreleFinal, Vdrop, Defer, AliasOK, StayStep,
        MakesProto
  <2>20. FlushStep(t) BY <1>4, <1>a, <1>b DEF VreleFinal, TgtInv, WhyInv, FlushStep
  <2> QED BY <2>1, <2>2, <2>3, <2>4, <2>5, <2>6, <2>7, <2>8, <2>9, <2>10, <2>11, <2>12,
        <2>13, <2>14, <2>15, <2>16, <2>17, <2>18, <2>19, <2>20 DEF ThreadStep, CountSteps
<1>5. CASE Inactive(t)
  <2>1. Alone(t) BY <1>5, <1>a DEF Inactive, Doom, Alone
  <2>2. LockStep(t) /\ LockInv' BY <1>5, <1>a DEF Inactive, Release, Doom, LockOK,
        LockInv, LockStep
  <2>3. ldoomed' = ldoomed BY <1>5 DEF Inactive
  <2>4. DataStep(t) /\ MntStep(t) /\ HashStep(t) BY <1>5 DEF Inactive, DataStep, MntStep,
        HashStep
  <2>5. DoomStep(t) BY <1>5, <1>a, <1>b, <1>e DEF Inactive, Vdrop, WantRecycle,
        NullmFlags, Doom, RefInv, WhyInv, AliasOK, LockOK, DoomStep
  <2>6. AllocStep(t) BY <1>5, <1>a, <1>b, <1>e DEF Inactive, Vdrop, WantRecycle,
        NullmFlags, Doom, RefInv, WhyInv, AliasOK, LockOK, AllocStep, HasHold
  <2>7. DeferStep(t) BY <1>5, <1>a, <1>b, <1>e DEF Inactive, Vdrop, WantRecycle,
        NullmFlags, Doom, RefInv, WhyInv, AliasOK, LockOK, DeferStep
  <2>8. AliasStep(t) BY <2>4, <2>5, <2>6, <2>7 DEF AliasStep
  <2>9. UseStep(t) BY <1>5, <1>a, <1>b DEF Inactive, Doom, AliasOK, UpInv, DirInv, TgtInv,
        UseStep, ProtoOf, MakesProto
  <2>10. HoldStep(t) BY <1>5, <1>a, <1>b DEF Inactive, Vdrop, Doom, AliasOK, WhyInv,
        TgtInv, HoldStep, HoldOf, HasHold
  <2>11. CountStep BY <1>5, <1>a, <1>b, <1>c, <1>e DEF Inactive, Vdrop, Doom, AliasOK,
        WhyInv, RefInv, AliasInv, CountStep, HoldOf, ProtoOf, MakesProto, HasHold
  <2>12. LowerHoldStep(t) BY <1>5, <1>a, <1>b DEF Inactive, Doom, LowerOK, LowInv,
        LdvpInv, LowerHoldStep, SleepOf
  <2>13. AliasOf' = AliasOf BY <1>5, <1>a, <2>1 DEF Inactive, Doom, AliasOK, Alone,
        AliasOf, Discarded
  <2>14. RootOf' = RootOf BY <1>5, <1>a, <1>b DEF Inactive, MountOK, RootOf
  <2>15. \A l \in Lower : luse'[l] = luse[l] + SpareMove(t, l) BY <1>5, <1>a, <1>b DEF
        Inactive, Doom, LowerOK, LowInv, SpareMove, SpareOf, SpareLabels
  <2>16. LowerUseStep(t) BY <2>13, <2>14, <2>15 DEF LowerUseStep
  <2>17. MountStep(t) BY <1>5, <1>a DEF Inactive, MountStep
  <2>18. RefStep(t) BY <1>5, <1>a, <1>b DEF Inactive, UpInv, DirInv, RefStep, Held
  <2>19. TgtStep(t) BY <1>5, <1>a DEF Inactive, Release, Doom, TgtStep
  <2>20. StayStep(t) BY <1>5, <1>a DEF Inactive, Vdrop, Doom, AliasOK, StayStep,
        MakesProto
  <2>21. FlushStep(t) BY <1>5, <1>a, <1>b DEF Inactive, Doom, TgtInv, WhyInv, FlushStep
  <2> QED BY <2>1, <2>2, <2>3, <2>4, <2>5, <2>6, <2>7, <2>8, <2>9, <2>10, <2>11, <2>12,
        <2>13, <2>14, <2>15, <2>16, <2>17, <2>18, <2>19, <2>20, <2>21 DEF ThreadStep,
        CountSteps
<1> QED BY <1>1, <1>2, <1>3, <1>4, <1>5 DEF Put

(* tpt_reclaim keeps within ThreadStep.                                     *)
LEMMA ReclaimStep ==
    ASSUME NodeInv, NEW t \in Threads, Reclaim(t)
    PROVE  ThreadStep(t)
<1> USE NodeConstants
<1>a. TypeOK /\ LockInv /\ AliasInv /\ DoomedInv BY DEF NodeInv
<1>b. Locals(t) BY DEF NodeInv
<1>c. \A u \in Upper : /\ uuse[u] \in Nat /\ uhold[u] \in Nat
                        /\ uuse[u] >= Is(up[t], u) + Is(dir[t], u) + Is(ProtoOf[t], u)
                        /\ uhold[u] >= Is(HoldOf[t], u) + (IF u \in deferred THEN 1 ELSE 0)
  BY OwnCounts
<1>d. Locking(t) BY DEF NodeInv
<1>e. RefInv(t) BY DEF NodeInv
<1>f. \A s \in Threads : ProtoInv(s) /\ RefInv(s) BY DEF NodeInv
<1>g. MountInv(t) BY DEF NodeInv
<1> USE DEF LockLabels, NodegetLabels, ProtoLabels, ReclaimLabels, PutLabels,
       CreateLabels, LookupLabels, VnLockLabels, Go, Rest, lowerVars, aliasVars, lockVars,
       mountVars, argVars, TypeOK, ThreadOK, LocalsOK, InLookup, Flushes, Is, Locals
<1>1. CASE ReclaimHashrem(t)
  <2>1. Alone(t) BY <1>1, <1>a DEF ReclaimHashrem, Alone
  <2>2. LockStep(t) /\ LockInv' /\ ldoomed' = ldoomed BY <1>1, <1>a DEF ReclaimHashrem,
        LockInv, LockStep
  <2>3. DataStep(t) /\ MntStep(t) /\ DoomStep(t) /\ AllocStep(t) /\ DeferStep(t) BY <1>1
        DEF ReclaimHashrem, DataStep, MntStep, DoomStep, AllocStep, DeferStep
  <2>4. HashStep(t) BY <1>1, <1>a, <1>b, <1>e DEF ReclaimHashrem, RefInv, WhyInv, AliasOK,
        LockOK, HashStep
  <2>5. AliasStep(t) BY <2>3, <2>4 DEF AliasStep
  <2>6. UseStep(t) BY <1>1, <1>a, <1>b DEF ReclaimHashrem, AliasOK, UpInv, DirInv, TgtInv,
        UseStep, ProtoOf, MakesProto
  <2>7. HoldStep(t) BY <1>1, <1>a, <1>b DEF ReclaimHashrem, AliasOK, WhyInv, TgtInv,
        HoldStep, HoldOf, HasHold
  <2>8. CountStep BY <1>1, <1>a DEF ReclaimHashrem, AliasInv, CountStep
  <2>9. LowerHoldStep(t) BY <1>1, <1>a, <1>b DEF ReclaimHashrem, LowerOK, LowInv, LdvpInv,
        LowerHoldStep, SleepOf
  <2>10. AliasOf' = AliasOf BY <1>1, <1>a, <2>1 DEF ReclaimHashrem, AliasOK, Alone,
        AliasOf, Discarded
  <2>11. RootOf' = RootOf BY <1>1, <1>a, <1>b DEF ReclaimHashrem, MountOK, RootOf
  <2>12. \A l \in Lower : luse'[l] = luse[l] + SpareMove(t, l) BY <1>1, <1>a, <1>b DEF
        ReclaimHashrem, LowerOK, LowInv, SpareMove, SpareOf, SpareLabels
  <2>13. LowerUseStep(t) BY <2>10, <2>11, <2>12 DEF LowerUseStep
  <2>14. MountStep(t) BY <1>1, <1>a DEF ReclaimHashrem, MountStep
  <2>15. RefStep(t) BY <1>1, <1>a, <1>b DEF ReclaimHashrem, UpInv, DirInv, RefStep, Held
  <2>16. TgtStep(t) BY <1>1, <1>a DEF ReclaimHashrem, TgtStep
  <2>17. StayStep(t) BY <1>1, <1>a DEF ReclaimHashrem, AliasOK, StayStep, MakesProto
  <2>18. FlushStep(t) BY <1>1, <1>a, <1>b DEF ReclaimHashrem, TgtInv, WhyInv, FlushStep
  <2> QED BY <2>1, <2>2, <2>3, <2>4, <2>5, <2>6, <2>7, <2>8, <2>9, <2>10, <2>11, <2>12,
        <2>13, <2>14, <2>15, <2>16, <2>17, <2>18 DEF ThreadStep, CountSteps
<1>2. CASE ReclaimDetach(t)
  <2>1. Alone(t) BY <1>2, <1>a DEF ReclaimDetach, Alone
  <2>2. LockStep(t) /\ LockInv' BY <1>2, <1>a DEF ReclaimDetach, Acquire, Free, LockOK,
        LockInv, LockStep
  <2>3. ldoomed' = ldoomed BY <1>2 DEF ReclaimDetach
  <2>4. MntStep(t) /\ HashStep(t) /\ DoomStep(t) /\ AllocStep(t) /\ DeferStep(t) BY <1>2
        DEF ReclaimDetach, MntStep, HashStep, DoomStep, AllocStep, DeferStep
  <2>5. DataStep(t) BY <1>2, <1>a, <1>b, <1>e DEF ReclaimDetach, Acquire, Free, RefInv,
        WhyInv, AliasOK, LockOK, DataStep, Vnodes
  <2>6. AliasStep(t) BY <2>4, <2>5 DEF AliasStep
  <2>7. UseStep(t) BY <1>2, <1>a, <1>b DEF ReclaimDetach, AliasOK, UpInv, DirInv, TgtInv,
        UseStep, ProtoOf, MakesProto
  <2>8. HoldStep(t) BY <1>2, <1>a, <1>b DEF ReclaimDetach, AliasOK, WhyInv, TgtInv,
        HoldStep, HoldOf, HasHold
  <2>9. CountStep BY <1>2, <1>a DEF ReclaimDetach, AliasInv, CountStep
  <2>10. LowerHoldStep(t) BY <1>2, <1>a, <1>b DEF ReclaimDetach, LowerOK, LowInv, LdvpInv,
        LowerHoldStep, SleepOf
  <2>11. LowerUseStep(t)
    <3>1. RootOf' = RootOf BY <1>2 DEF ReclaimDetach, RootOf
    <3>2. \A v \in Upper \ {tgt[t]} : AliasOf'[v] = AliasOf[v]
          BY <1>2, <1>a, <2>1 DEF ReclaimDetach, Alone, AliasOK, AliasOf, Discarded
    <3>3. \A l \in Lower : luse'[l] = luse[l] + SpareMove(t, l) + Is(AliasOf'[tgt[t]], l) - Is(AliasOf[tgt[t]], l)
      <4>1. AliasOf[tgt[t]] = low[t]
          BY <1>2, <1>a, <1>d, <1>f DEF ReclaimDetach, Locking, ReclaimLocks, ProtoInv,
             MakesProto, AliasOf, Discarded
      <4>2. AliasOf'[tgt[t]] = Null BY <1>2, <1>a DEF ReclaimDetach, AliasOK, AliasOf,
            Discarded
      <4> QED BY <1>2, <1>a, <1>b, <4>1, <4>2 DEF ReclaimDetach, LowerRele, LowerOK,
            LowInv, SpareMove, SpareOf, SpareLabels
    <3> QED BY <1>2, <1>a, <3>1, <3>2, <3>3 DEF ReclaimDetach, LowerUseStep
  <2>12. MountStep(t) BY <1>2, <1>a DEF ReclaimDetach, MountStep
  <2>13. RefStep(t) BY <1>2, <1>a, <1>b DEF ReclaimDetach, UpInv, DirInv, RefStep, Held
  <2>14. TgtStep(t) BY <1>2, <1>a DEF ReclaimDetach, Acquire, Free, TgtStep
  <2>15. StayStep(t) BY <1>2, <1>a DEF ReclaimDetach, AliasOK, StayStep, MakesProto
  <2>16. FlushStep(t) BY <1>2, <1>a, <1>b DEF ReclaimDetach, TgtInv, WhyInv, FlushStep
  <2> QED BY <2>1, <2>2, <2>3, <2>4, <2>5, <2>6, <2>7, <2>8, <2>9, <2>10, <2>11, <2>12,
        <2>13, <2>14, <2>15, <2>16 DEF ThreadStep, CountSteps
<1>3. CASE ReclaimRele(t)
  <2>1. Alone(t) BY <1>3, <1>a DEF ReclaimRele, Alone
  <2>2. LockStep(t) /\ LockInv' BY <1>3, <1>a DEF ReclaimRele, Release, LockOK, LockInv,
        LockStep
  <2>3. ldoomed' = ldoomed BY <1>3 DEF ReclaimRele
  <2>4. AliasStep(t) BY <1>3 DEF ReclaimRele, AliasStep, DataStep, MntStep, HashStep,
        DoomStep, AllocStep, DeferStep
  <2>5. UseStep(t) BY <1>3, <1>a, <1>b DEF ReclaimRele, AliasOK, UpInv, DirInv, TgtInv,
        UseStep, ProtoOf, MakesProto
  <2>6. HoldStep(t) BY <1>3, <1>a, <1>b DEF ReclaimRele, AliasOK, WhyInv, TgtInv,
        HoldStep, HoldOf, HasHold
  <2>7. CountStep BY <1>3, <1>a DEF ReclaimRele, AliasInv, CountStep
  <2>8. LowerHoldStep(t) BY <1>3, <1>a, <1>b DEF ReclaimRele, LowerOK, LowInv, LdvpInv,
        LowerHoldStep, SleepOf
  <2>9. AliasOf' = AliasOf BY <1>3, <1>a, <2>1 DEF ReclaimRele, AliasOK, Alone, AliasOf,
        Discarded
  <2>10. RootOf' = RootOf BY <1>3, <1>a, <1>b DEF ReclaimRele, MountOK, RootOf
  <2>11. \A l \in Lower : luse'[l] = luse[l] + SpareMove(t, l) BY <1>3, <1>a, <1>b, SMTT(30) DEF
        ReclaimRele, LowerRele, LowerOK, LowInv, SpareMove, SpareOf, SpareLabels
  <2>12. LowerUseStep(t) BY <2>9, <2>10, <2>11 DEF LowerUseStep
  <2>13. MountStep(t) BY <1>3, <1>a DEF ReclaimRele, MountStep
  <2>14. RefStep(t) BY <1>3, <1>a, <1>b DEF ReclaimRele, UpInv, DirInv, RefStep, Held
  <2>15. TgtStep(t) BY <1>3, <1>a DEF ReclaimRele, Release, TgtStep
  <2>16. StayStep(t) BY <1>3, <1>a DEF ReclaimRele, AliasOK, StayStep, MakesProto
  <2>17. FlushStep(t) BY <1>3, <1>a, <1>b DEF ReclaimRele, TgtInv, WhyInv, FlushStep
  <2> QED BY <2>1, <2>2, <2>3, <2>4, <2>5, <2>6, <2>7, <2>8, <2>9, <2>10, <2>11, <2>12,
        <2>13, <2>14, <2>15, <2>16, <2>17 DEF ThreadStep, CountSteps
<1>4. CASE ReclaimFin(t)
  <2>1. Alone(t) BY <1>4, <1>a DEF ReclaimFin, Alone
  <2>2. LockStep(t) /\ LockInv' BY <1>4, <1>a DEF ReclaimFin, Release, LockOK, LockInv,
        LockStep
  <2>3. ldoomed' = ldoomed BY <1>4 DEF ReclaimFin
  <2>4. DataStep(t) /\ HashStep(t) /\ DeferStep(t) BY <1>4 DEF ReclaimFin, DataStep,
        HashStep, DeferStep
  <2>5. MntStep(t) BY <1>4, <1>a, <1>b, <1>e DEF ReclaimFin, RefInv, WhyInv, AliasOK,
        LockOK, MntStep
  <2>6. DoomStep(t) BY <1>4, <1>a, <1>b, <1>e DEF ReclaimFin, Vdrop, RefInv, WhyInv,
        AliasOK, LockOK, DoomStep
  <2>7. AllocStep(t) BY <1>4, <1>a, <1>b, <1>e DEF ReclaimFin, Vdrop, RefInv, WhyInv,
        AliasOK, LockOK, AllocStep, HasHold
  <2>8. AliasStep(t) BY <2>4, <2>5, <2>6, <2>7 DEF AliasStep
  <2>9. UseStep(t) BY <1>4, <1>a, <1>b DEF ReclaimFin, AliasOK, UpInv, DirInv, TgtInv,
        UseStep, ProtoOf, MakesProto
  <2>10. HoldStep(t) BY <1>4, <1>a, <1>b DEF ReclaimFin, Vdrop, AliasOK, WhyInv, TgtInv,
        HoldStep, HoldOf, HasHold
  <2>11. CountStep BY <1>4, <1>a, <1>b, <1>c, <1>e, SMTT(30) DEF ReclaimFin, Vdrop, AliasOK, WhyInv,
        RefInv, AliasInv, CountStep, HoldOf, ProtoOf, MakesProto, HasHold
  <2>12. LowerHoldStep(t) BY <1>4, <1>a, <1>b DEF ReclaimFin, LowerOK, LowInv, LdvpInv,
        LowerHoldStep, SleepOf
  <2>13. AliasOf' = AliasOf BY <1>4, <1>a, <2>1 DEF ReclaimFin, AliasOK, Alone, AliasOf,
        Discarded
  <2>14. RootOf' = RootOf BY <1>4, <1>a, <1>b DEF ReclaimFin, MountOK, RootOf
  <2>15. \A l \in Lower : luse'[l] = luse[l] + SpareMove(t, l) BY <1>4, <1>a, <1>b DEF
        ReclaimFin, LowerOK, LowInv, SpareMove, SpareOf, SpareLabels
  <2>16. LowerUseStep(t) BY <2>13, <2>14, <2>15 DEF LowerUseStep
  <2>17. MountStep(t) BY <1>4, <1>a DEF ReclaimFin, MountStep
  <2>18. RefStep(t) BY <1>4, <1>a, <1>b DEF ReclaimFin, UpInv, DirInv, RefStep, Held
  <2>19. TgtStep(t) BY <1>4, <1>a DEF ReclaimFin, Release, TgtStep
  <2>20. StayStep(t) BY <1>4, <1>a DEF ReclaimFin, Vdrop, AliasOK, StayStep, MakesProto
  <2>21. FlushStep(t) BY <1>4, <1>a, <1>b DEF ReclaimFin, TgtInv, WhyInv, FlushStep
  <2> QED BY <2>1, <2>2, <2>3, <2>4, <2>5, <2>6, <2>7, <2>8, <2>9, <2>10, <2>11, <2>12,
        <2>13, <2>14, <2>15, <2>16, <2>17, <2>18, <2>19, <2>20, <2>21 DEF ThreadStep,
        CountSteps
<1> QED BY <1>1, <1>2, <1>3, <1>4 DEF Reclaim

(* tptfs_unmount and vflush keep within ThreadStep.                         *)
LEMMA UnmountStep ==
    ASSUME NodeInv, NEW t \in Threads, Unmount(t)
    PROVE  ThreadStep(t)
<1> USE NodeConstants
<1>a. TypeOK /\ LockInv /\ AliasInv /\ DoomedInv BY DEF NodeInv
<1>b. Locals(t) BY DEF NodeInv
<1>c. \A u \in Upper : /\ uuse[u] \in Nat /\ uhold[u] \in Nat
                        /\ uuse[u] >= Is(up[t], u) + Is(dir[t], u) + Is(ProtoOf[t], u)
                        /\ uhold[u] >= Is(HoldOf[t], u) + (IF u \in deferred THEN 1 ELSE 0)
  BY OwnCounts
<1>d. Locking(t) BY DEF NodeInv
<1>e. RefInv(t) BY DEF NodeInv
<1>f. \A s \in Threads : ProtoInv(s) /\ RefInv(s) BY DEF NodeInv
<1>g. MountInv(t) BY DEF NodeInv
<1> USE DEF LockLabels, NodegetLabels, ProtoLabels, ReclaimLabels, PutLabels,
       CreateLabels, LookupLabels, VnLockLabels, Go, lowerVars, aliasVars, lockVars,
       mountVars, argVars, TypeOK, ThreadOK, LocalsOK, InLookup, Flushes, Is, Locals
<1>1. ASSUME NEW u \in Upper, FlushPick(t, u) PROVE ThreadStep(t)
  <2>1. Alone(t) BY <1>1, <1>a DEF FlushPick, Alone
  <2>2. LockStep(t) /\ LockInv' /\ ldoomed' = ldoomed
        BY <1>1, <1>a DEF FlushPick, LockInv, LockStep
  <2>3. AliasStep(t)
        BY <1>1 DEF FlushPick, AliasStep, DataStep, MntStep, HashStep, DoomStep,
           AllocStep, DeferStep
  <2>4. UseStep(t)
        BY <1>1, <1>a, <1>b DEF FlushPick, AliasOK, UpInv, DirInv, TgtInv, UseStep,
           ProtoOf, MakesProto
  <2>5. HoldStep(t)
        BY <1>1, <1>a, <1>b DEF FlushPick, AliasOK, WhyInv, TgtInv, HoldStep, HoldOf,
           HasHold
  <2>6. CountStep
    <3>1. u \in Upper /\ mnt[u] # Null /\ u \in alloc
          BY <1>1, <1>a, <1>g DEF FlushPick, Pending, Listed, MountInv, AliasInv
    <3> QED
        BY <1>1, <1>a, <1>c, <3>1 DEF FlushPick, AliasOK, AliasInv, CountStep
  <2>7. LowerHoldStep(t)
        BY <1>1, <1>a, <1>b DEF FlushPick, LowerOK, LowInv, LdvpInv, LowerHoldStep,
           SleepOf
  <2>8. AliasOf' = AliasOf
        BY <1>1, <1>a, <2>1 DEF FlushPick, AliasOK, Alone, AliasOf, Discarded
  <2>9. RootOf' = RootOf BY <1>1, <1>a, <1>b DEF FlushPick, MountOK, RootOf
  <2>10. \A l \in Lower : luse'[l] = luse[l] + SpareMove(t, l)
         BY <1>1, <1>a, <1>b DEF FlushPick, LowerOK, LowInv, SpareMove, SpareOf,
            SpareLabels
  <2>11. LowerUseStep(t) BY <2>8, <2>9, <2>10 DEF LowerUseStep
  <2>12. MountStep(t) BY <1>1, <1>a DEF FlushPick, MountStep
  <2>13. RefStep(t) BY <1>1, <1>a, <1>b DEF FlushPick, UpInv, DirInv, RefStep, Held
  <2>14. TgtStep(t)
    <3>1. u \in Upper /\ mnt[u] # Null /\ u \in alloc
          BY <1>1, <1>a, <1>g DEF FlushPick, Pending, Listed, MountInv, AliasInv
    <3> QED
        BY <1>1, <1>a, <1>c, <3>1 DEF FlushPick, TgtStep
  <2>15. StayStep(t) BY <1>1, <1>a DEF FlushPick, AliasOK, StayStep, MakesProto
  <2>16. FlushStep(t)
         BY <1>1, <1>a, <1>b DEF FlushPick, Pending, Listed, TgtInv, WhyInv, FlushStep
  <2> QED
      BY <2>1, <2>2, <2>3, <2>4, <2>5, <2>6, <2>7, <2>8, <2>9, <2>10, <2>11, <2>12, <2>13,
         <2>14, <2>15, <2>16 DEF ThreadStep, CountSteps
<1>2. CASE FlushVnode(t)
  <2>1. Alone(t) BY <1>2, <1>a DEF FlushVnode, Doom, Alone
  <2>2. LockStep(t) /\ LockInv'
        BY <1>2, <1>a, SMTT(30) DEF FlushVnode, Release, Doom, LockOK, LockInv, LockStep
  <2>3. ldoomed' = ldoomed BY <1>2 DEF FlushVnode
  <2>4. DataStep(t) /\ MntStep(t) /\ HashStep(t)
        BY <1>2 DEF FlushVnode, DataStep, MntStep, HashStep
  <2>5. DoomStep(t)
        BY <1>2, <1>a, <1>b, <1>e DEF FlushVnode, Vdrop, Doom, RefInv, WhyInv, AliasOK,
           LockOK, DoomStep
  <2>6. AllocStep(t)
        BY <1>2, <1>a, <1>b, <1>e DEF FlushVnode, Vdrop, Doom, RefInv, WhyInv, AliasOK,
           LockOK, AllocStep, HasHold
  <2>7. DeferStep(t)
        BY <1>2, <1>a, <1>b, <1>e DEF FlushVnode, Vdrop, Doom, RefInv, WhyInv, AliasOK,
           LockOK, DeferStep
  <2>8. AliasStep(t) BY <2>4, <2>5, <2>6, <2>7 DEF AliasStep
  <2>9. UseStep(t) BY <1>2, <1>a, <1>b DEF FlushVnode, Doom, AliasOK, UpInv, DirInv,
        TgtInv, UseStep, ProtoOf, MakesProto
  <2>10. HoldStep(t) BY <1>2, <1>a, <1>b DEF FlushVnode, Vdrop, Doom, AliasOK, WhyInv,
        TgtInv, HoldStep, HoldOf, HasHold
  <2>11. CountStep
         BY <1>2, <1>a, <1>b, <1>c, <1>e DEF FlushVnode, Vdrop, Doom, AliasOK, WhyInv,
            RefInv, AliasInv, CountStep, HoldOf, ProtoOf, MakesProto, HasHold
  <2>12. LowerHoldStep(t)
         BY <1>2, <1>a, <1>b DEF FlushVnode, Doom, LowerOK, LowInv, LdvpInv,
            LowerHoldStep, SleepOf
  <2>13. AliasOf' = AliasOf
         BY <1>2, <1>a, <2>1 DEF FlushVnode, Doom, AliasOK, Alone, AliasOf, Discarded
  <2>14. RootOf' = RootOf BY <1>2, <1>a, <1>b DEF FlushVnode, MountOK, RootOf
  <2>15. \A l \in Lower : luse'[l] = luse[l] + SpareMove(t, l)
         BY <1>2, <1>a, <1>b DEF FlushVnode, Doom, LowerOK, LowInv, SpareMove, SpareOf,
            SpareLabels
  <2>16. LowerUseStep(t) BY <2>13, <2>14, <2>15 DEF LowerUseStep
  <2>17. MountStep(t) BY <1>2, <1>a DEF FlushVnode, Doom, MountOK, MountStep
  <2>18. RefStep(t) BY <1>2, <1>a, <1>b DEF FlushVnode, UpInv, DirInv, RefStep, Held
  <2>19. TgtStep(t) BY <1>2, <1>a DEF FlushVnode, Release, Doom, TgtStep
  <2>20. StayStep(t)
         BY <1>2, <1>a DEF FlushVnode, Vdrop, Doom, AliasOK, StayStep, MakesProto
  <2>21. FlushStep(t) BY <1>2, <1>a, <1>b DEF FlushVnode, Doom, TgtInv, WhyInv, FlushStep
  <2> QED
      BY <2>1, <2>2, <2>3, <2>4, <2>5, <2>6, <2>7, <2>8, <2>9, <2>10, <2>11, <2>12, <2>13,
         <2>14, <2>15, <2>16, <2>17, <2>18, <2>19, <2>20, <2>21 DEF ThreadStep, CountSteps
<1>3. CASE FlushAgain(t)
  <2>1. Alone(t) BY <1>3, <1>a DEF FlushAgain, Alone
  <2>2. LockStep(t) /\ LockInv' /\ ldoomed' = ldoomed
        BY <1>3, <1>a DEF FlushAgain, LockInv, LockStep
  <2>3. AliasStep(t)
        BY <1>3 DEF FlushAgain, AliasStep, DataStep, MntStep, HashStep, DoomStep,
           AllocStep, DeferStep
  <2>4. UseStep(t)
        BY <1>3, <1>a, <1>b DEF FlushAgain, AliasOK, UpInv, DirInv, TgtInv, UseStep,
           ProtoOf, MakesProto
  <2>5. HoldStep(t)
        BY <1>3, <1>a, <1>b DEF FlushAgain, AliasOK, WhyInv, TgtInv, HoldStep, HoldOf,
           HasHold
  <2>6. CountStep BY <1>3, <1>a DEF FlushAgain, AliasInv, CountStep
  <2>7. LowerHoldStep(t)
        BY <1>3, <1>a, <1>b DEF FlushAgain, LowerOK, LowInv, LdvpInv, LowerHoldStep,
           SleepOf
  <2>8. AliasOf' = AliasOf
        BY <1>3, <1>a, <2>1 DEF FlushAgain, AliasOK, Alone, AliasOf, Discarded
  <2>9. RootOf' = RootOf BY <1>3, <1>a, <1>b DEF FlushAgain, MountOK, RootOf
  <2>10. \A l \in Lower : luse'[l] = luse[l] + SpareMove(t, l)
         BY <1>3, <1>a, <1>b DEF FlushAgain, LowerOK, LowInv, SpareMove, SpareOf,
            SpareLabels
  <2>11. LowerUseStep(t) BY <2>8, <2>9, <2>10 DEF LowerUseStep
  <2>12. MountStep(t) BY <1>3, <1>a DEF FlushAgain, MountStep
  <2>13. RefStep(t) BY <1>3, <1>a, <1>b DEF FlushAgain, UpInv, DirInv, RefStep, Held
  <2>14. TgtStep(t) BY <1>3, <1>a DEF FlushAgain, Listed, Pending, TgtStep
  <2>15. StayStep(t) BY <1>3, <1>a DEF FlushAgain, AliasOK, StayStep, MakesProto
  <2>16. FlushStep(t)
         BY <1>3, <1>a, <1>b DEF FlushAgain, Listed, Pending, TgtInv, WhyInv, FlushStep
  <2> QED
      BY <2>1, <2>2, <2>3, <2>4, <2>5, <2>6, <2>7, <2>8, <2>9, <2>10, <2>11, <2>12, <2>13,
         <2>14, <2>15, <2>16 DEF ThreadStep, CountSteps
<1>4. CASE UnmountBusy(t)
  <2>1. Alone(t) BY <1>4, <1>a DEF UnmountBusy, Alone
  <2>2. LockStep(t) /\ LockInv' /\ ldoomed' = ldoomed
        BY <1>4, <1>a DEF UnmountBusy, LockInv, LockStep
  <2>3. AliasStep(t)
        BY <1>4 DEF UnmountBusy, AliasStep, DataStep, MntStep, HashStep, DoomStep,
           AllocStep, DeferStep
  <2>4. UseStep(t)
        BY <1>4, <1>a, <1>b DEF UnmountBusy, AliasOK, UpInv, DirInv, TgtInv, UseStep,
           ProtoOf, MakesProto
  <2>5. HoldStep(t)
        BY <1>4, <1>a, <1>b DEF UnmountBusy, AliasOK, WhyInv, TgtInv, HoldStep, HoldOf,
           HasHold
  <2>6. CountStep BY <1>4, <1>a DEF UnmountBusy, AliasInv, CountStep
  <2>7. LowerHoldStep(t)
        BY <1>4, <1>a, <1>b DEF UnmountBusy, LowerOK, LowInv, LdvpInv, LowerHoldStep,
           SleepOf
  <2>8. AliasOf' = AliasOf
        BY <1>4, <1>a, <2>1 DEF UnmountBusy, AliasOK, Alone, AliasOf, Discarded
  <2>9. RootOf' = RootOf BY <1>4, <1>a, <1>g DEF UnmountBusy, MountInv, MountOK, RootOf
  <2>10. \A l \in Lower : luse'[l] = luse[l] + SpareMove(t, l) BY <1>4, <1>a, <1>b DEF
        UnmountBusy, LowerOK, LowInv, SpareMove, SpareOf, SpareLabels
  <2>11. LowerUseStep(t) BY <2>8, <2>9, <2>10 DEF LowerUseStep
  <2>12. MountStep(t) BY <1>4, <1>a DEF UnmountBusy, MountOK, MountStep
  <2>13. RefStep(t) BY <1>4, <1>a, <1>b DEF UnmountBusy, UpInv, DirInv, RefStep, Held
  <2>14. TgtStep(t) BY <1>4, <1>a DEF UnmountBusy, Listed, Pending, TgtStep
  <2>15. StayStep(t) BY <1>4, <1>a DEF UnmountBusy, AliasOK, StayStep, MakesProto
  <2>16. FlushStep(t)
         BY <1>4, <1>a, <1>b DEF UnmountBusy, Listed, Pending, TgtInv, WhyInv, FlushStep
  <2> QED
      BY <2>1, <2>2, <2>3, <2>4, <2>5, <2>6, <2>7, <2>8, <2>9, <2>10, <2>11, <2>12, <2>13,
         <2>14, <2>15, <2>16 DEF ThreadStep, CountSteps
<1>5. CASE UnmountEmpty(t)
  <2>1. Alone(t) BY <1>5, <1>a DEF UnmountEmpty, Alone
  <2>2. LockStep(t) /\ LockInv' /\ ldoomed' = ldoomed
        BY <1>5, <1>a DEF UnmountEmpty, LockInv, LockStep
  <2>3. AliasStep(t)
        BY <1>5 DEF UnmountEmpty, AliasStep, DataStep, MntStep, HashStep, DoomStep,
           AllocStep, DeferStep
  <2>4. UseStep(t)
        BY <1>5, <1>a, <1>b DEF UnmountEmpty, AliasOK, UpInv, DirInv, TgtInv, UseStep,
           ProtoOf, MakesProto
  <2>5. HoldStep(t)
        BY <1>5, <1>a, <1>b DEF UnmountEmpty, AliasOK, WhyInv, TgtInv, HoldStep, HoldOf,
           HasHold
  <2>6. CountStep BY <1>5, <1>a DEF UnmountEmpty, AliasInv, CountStep
  <2>7. LowerHoldStep(t)
        BY <1>5, <1>a, <1>b DEF UnmountEmpty, LowerOK, LowInv, LdvpInv, LowerHoldStep,
           SleepOf
  <2>8. AliasOf' = AliasOf
        BY <1>5, <1>a, <2>1 DEF UnmountEmpty, AliasOK, Alone, AliasOf, Discarded
  <2>9. RootOf' = RootOf BY <1>5, <1>a, <1>b DEF UnmountEmpty, MountOK, RootOf
  <2>10. \A l \in Lower : luse'[l] = luse[l] + SpareMove(t, l) BY <1>5, <1>a, <1>b DEF
        UnmountEmpty, LowerOK, LowInv, SpareMove, SpareOf, SpareLabels
  <2>11. LowerUseStep(t) BY <2>8, <2>9, <2>10 DEF LowerUseStep
  <2>12. MountStep(t) BY <1>5, <1>a DEF UnmountEmpty, MountStep
  <2>13. RefStep(t) BY <1>5, <1>a, <1>b DEF UnmountEmpty, UpInv, DirInv, RefStep, Held
  <2>14. TgtStep(t) BY <1>5, <1>a DEF UnmountEmpty, Listed, TgtStep
  <2>15. StayStep(t) BY <1>5, <1>a DEF UnmountEmpty, AliasOK, StayStep, MakesProto
  <2>16. FlushStep(t)
         BY <1>5, <1>a, <1>b DEF UnmountEmpty, Listed, TgtInv, WhyInv, FlushStep
  <2> QED
      BY <2>1, <2>2, <2>3, <2>4, <2>5, <2>6, <2>7, <2>8, <2>9, <2>10, <2>11, <2>12, <2>13,
         <2>14, <2>15, <2>16 DEF ThreadStep, CountSteps
<1>6. CASE UnmountFin(t)
  <2>1. Alone(t) BY <1>6, <1>a DEF UnmountFin, Alone
  <2>2. LockStep(t) /\ LockInv' /\ ldoomed' = ldoomed
        BY <1>6, <1>a DEF UnmountFin, LockInv, LockStep
  <2>3. AliasStep(t)
        BY <1>6 DEF UnmountFin, AliasStep, DataStep, MntStep, HashStep, DoomStep,
           AllocStep, DeferStep
  <2>4. UseStep(t)
        BY <1>6, <1>a, <1>b DEF UnmountFin, AliasOK, UpInv, DirInv, TgtInv, UseStep,
           ProtoOf, MakesProto
  <2>5. HoldStep(t)
        BY <1>6, <1>a, <1>b DEF UnmountFin, AliasOK, WhyInv, TgtInv, HoldStep, HoldOf,
           HasHold
  <2>6. CountStep BY <1>6, <1>a DEF UnmountFin, AliasInv, CountStep
  <2>7. LowerHoldStep(t) BY <1>6, <1>a, <1>b DEF UnmountFin, LowerOK, LowInv, LdvpInv,
        LowerHoldStep, SleepOf
  <2>8. AliasOf' = AliasOf
        BY <1>6, <1>a, <2>1 DEF UnmountFin, AliasOK, Alone, AliasOf, Discarded
  <2>9. LowerUseStep(t)
    <3>1. mp[t] \in Mounts /\ mstate[mp[t]] # "gone"
          BY <1>6, <1>g DEF UnmountFin, MountInv
    <3>2. \A m \in Mounts \ {mp[t]} : RootOf'[m] = RootOf[m]
          BY <1>6, <1>a DEF UnmountFin, MountOK, RootOf
    <3>3. RootOf[mp[t]] = LowerRoot[mp[t]] /\ RootOf'[mp[t]] = Null
          BY <1>6, <1>a, <3>1 DEF UnmountFin, MountOK, RootOf
    <3>4. SpareOf[t] = Null /\ SpareOf'[t] = Null
          BY <1>6, <1>a DEF UnmountFin, SpareOf, SpareLabels
    <3>5. luse' = [luse EXCEPT ![LowerRoot[mp[t]]] = @ - 1]
          BY <1>6 DEF UnmountFin, LowerRele
    <3>6. \A l \in Lower : luse'[l] = luse[l] + SpareMove(t, l) + Is(RootOf'[mp[t]], l) - Is(RootOf[mp[t]], l)
          BY <1>a, <3>1, <3>3, <3>4, <3>5 DEF LowerOK, SpareMove
    <3> QED BY <2>8, <3>1, <3>2, <3>6 DEF LowerUseStep
  <2>10. MountStep(t) BY <1>6, <1>a DEF UnmountFin, MountOK, MountStep
  <2>11. RefStep(t) BY <1>6, <1>a, <1>b DEF UnmountFin, UpInv, DirInv, RefStep, Held
  <2>12. TgtStep(t) BY <1>6, <1>a DEF UnmountFin, TgtStep
  <2>13. StayStep(t) BY <1>6, <1>a DEF UnmountFin, AliasOK, StayStep, MakesProto
  <2>14. FlushStep(t) BY <1>6, <1>a, <1>b DEF UnmountFin, TgtInv, WhyInv, FlushStep
  <2> QED
      BY <2>1, <2>2, <2>3, <2>4, <2>5, <2>6, <2>7, <2>8, <2>9, <2>10, <2>11, <2>12, <2>13,
         <2>14 DEF ThreadStep, CountSteps
<1> QED BY <1>1, <1>2, <1>3, <1>4, <1>5, <1>6 DEF Unmount

(* tpt_lookup keeps within ThreadStep.                                      *)
LEMMA LookupStepsStep ==
    ASSUME NodeInv, NEW t \in Threads, LookupSteps(t)
    PROVE  ThreadStep(t)
<1> USE NodeConstants
<1>a. TypeOK /\ LockInv /\ AliasInv /\ DoomedInv BY DEF NodeInv
<1>b. Locals(t) BY DEF NodeInv
<1>c. \A u \in Upper : /\ uuse[u] \in Nat /\ uhold[u] \in Nat
                        /\ uuse[u] >= Is(up[t], u) + Is(dir[t], u) + Is(ProtoOf[t], u)
                        /\ uhold[u] >= Is(HoldOf[t], u) + (IF u \in deferred THEN 1 ELSE 0)
  BY OwnCounts
<1>d. Locking(t) BY DEF NodeInv
<1>e. RefInv(t) BY DEF NodeInv
<1>f. \A s \in Threads : ProtoInv(s) /\ RefInv(s) BY DEF NodeInv
<1>g. MountInv(t) BY DEF NodeInv
<1> USE DEF LockLabels, NodegetLabels, ProtoLabels, ReclaimLabels, PutLabels,
       CreateLabels, LookupLabels, VnLockLabels, Go, Rest, lowerVars, aliasVars, lockVars,
       mountVars, argVars, TypeOK, ThreadOK, LocalsOK, InLookup, Flushes, Is, Locals
<1>1. CASE LowerLock(t)
  <2>1. Alone(t) BY <1>1, <1>a DEF LowerLock, Alone
  <2>2. LockStep(t) /\ LockInv' BY <1>1, <1>a DEF LowerLock, Acquire, Free, LockOK,
        LockInv, LockStep
  <2>3. ldoomed' = ldoomed BY <1>1 DEF LowerLock
  <2>4. AliasStep(t) BY <1>1 DEF LowerLock, AliasStep, DataStep, MntStep, HashStep,
        DoomStep, AllocStep, DeferStep
  <2>5. UseStep(t) BY <1>1, <1>a, <1>b DEF LowerLock, AliasOK, UpInv, DirInv, TgtInv,
        UseStep, ProtoOf, MakesProto
  <2>6. HoldStep(t) BY <1>1, <1>a, <1>b DEF LowerLock, AliasOK, WhyInv, TgtInv, HoldStep,
        HoldOf, HasHold
  <2>7. CountStep BY <1>1, <1>a DEF LowerLock, AliasInv, CountStep
  <2>8. LowerHoldStep(t) BY <1>1, <1>a, <1>b DEF LowerLock, LowerOK, LowInv, LdvpInv,
        LowerHoldStep, SleepOf
  <2>9. AliasOf' = AliasOf BY <1>1, <1>a, <2>1 DEF LowerLock, AliasOK, Alone, AliasOf,
        Discarded
  <2>10. RootOf' = RootOf BY <1>1, <1>a, <1>b DEF LowerLock, MountOK, RootOf
  <2>11. \A l \in Lower : luse'[l] = luse[l] + SpareMove(t, l) BY <1>1, <1>a, <1>b DEF
        LowerLock, LowerOK, LowInv, SpareMove, SpareOf, SpareLabels
  <2>12. LowerUseStep(t) BY <2>9, <2>10, <2>11 DEF LowerUseStep
  <2>13. MountStep(t) BY <1>1, <1>a DEF LowerLock, MountStep
  <2>14. RefStep(t) BY <1>1, <1>a, <1>b DEF LowerLock, UpInv, DirInv, RefStep, Held
  <2>15. TgtStep(t) BY <1>1, <1>a DEF LowerLock, Acquire, Free, TgtStep
  <2>16. StayStep(t) BY <1>1, <1>a DEF LowerLock, AliasOK, StayStep, MakesProto
  <2>17. FlushStep(t) BY <1>1, <1>a, <1>b DEF LowerLock, TgtInv, WhyInv, FlushStep
  <2> QED BY <2>1, <2>2, <2>3, <2>4, <2>5, <2>6, <2>7, <2>8, <2>9, <2>10, <2>11, <2>12,
        <2>13, <2>14, <2>15, <2>16, <2>17 DEF ThreadStep, CountSteps
<1>2. CASE LowerFail(t)
  <2>1. Alone(t) BY <1>2, <1>a DEF LowerFail, Alone
  <2>2. LockStep(t) /\ LockInv' /\ ldoomed' = ldoomed BY <1>2, <1>a DEF LowerFail,
        LockInv, LockStep
  <2>3. AliasStep(t) BY <1>2 DEF LowerFail, AliasStep, DataStep, MntStep, HashStep,
        DoomStep, AllocStep, DeferStep
  <2>4. UseStep(t) BY <1>2, <1>a, <1>b DEF LowerFail, AliasOK, UpInv, DirInv, TgtInv,
        UseStep, ProtoOf, MakesProto
  <2>5. HoldStep(t) BY <1>2, <1>a, <1>b DEF LowerFail, AliasOK, WhyInv, TgtInv, HoldStep,
        HoldOf, HasHold
  <2>6. CountStep BY <1>2, <1>a DEF LowerFail, AliasInv, CountStep
  <2>7. LowerHoldStep(t) BY <1>2, <1>a, <1>b DEF LowerFail, LowerOK, LowInv, LdvpInv,
        LowerHoldStep, SleepOf
  <2>8. AliasOf' = AliasOf BY <1>2, <1>a, <2>1 DEF LowerFail, AliasOK, Alone, AliasOf,
        Discarded
  <2>9. RootOf' = RootOf BY <1>2, <1>a, <1>b DEF LowerFail, MountOK, RootOf
  <2>10. \A l \in Lower : luse'[l] = luse[l] + SpareMove(t, l) BY <1>2, <1>a, <1>b DEF
        LowerFail, LowerRele, LowerOK, LowInv, SpareMove, SpareOf, SpareLabels
  <2>11. LowerUseStep(t) BY <2>8, <2>9, <2>10 DEF LowerUseStep
  <2>12. MountStep(t) BY <1>2, <1>a DEF LowerFail, MountStep
  <2>13. RefStep(t) BY <1>2, <1>a, <1>b DEF LowerFail, UpInv, DirInv, RefStep, Held
  <2>14. TgtStep(t) BY <1>2, <1>a DEF LowerFail, TgtStep
  <2>15. StayStep(t) BY <1>2, <1>a DEF LowerFail, AliasOK, StayStep, MakesProto
  <2>16. FlushStep(t) BY <1>2, <1>a, <1>b DEF LowerFail, TgtInv, WhyInv, FlushStep
  <2> QED BY <2>1, <2>2, <2>3, <2>4, <2>5, <2>6, <2>7, <2>8, <2>9, <2>10, <2>11, <2>12,
        <2>13, <2>14, <2>15, <2>16 DEF ThreadStep, CountSteps
<1>3. CASE DotDotRelock(t)
  <2>1. Alone(t) BY <1>3, <1>a DEF DotDotRelock, Alone
  <2>2. LockStep(t) /\ LockInv' BY <1>3, <1>a DEF DotDotRelock, Acquire, Free, LockOK,
        LockInv, LockStep
  <2>3. ldoomed' = ldoomed BY <1>3 DEF DotDotRelock
  <2>4. AliasStep(t) BY <1>3 DEF DotDotRelock, AliasStep, DataStep, MntStep, HashStep,
        DoomStep, AllocStep, DeferStep
  <2>5. UseStep(t) BY <1>3, <1>a, <1>b DEF DotDotRelock, AliasOK, UpInv, DirInv, TgtInv,
        UseStep, ProtoOf, MakesProto
  <2>6. HoldStep(t) BY <1>3, <1>a, <1>b DEF DotDotRelock, AliasOK, WhyInv, TgtInv,
        HoldStep, HoldOf, HasHold
  <2>7. CountStep BY <1>3, <1>a DEF DotDotRelock, AliasInv, CountStep
  <2>8. LowerHoldStep(t) BY <1>3, <1>a, <1>b DEF DotDotRelock, LowerOK, LowInv, LdvpInv,
        LowerHoldStep, SleepOf
  <2>9. AliasOf' = AliasOf BY <1>3, <1>a, <2>1 DEF DotDotRelock, AliasOK, Alone, AliasOf,
        Discarded
  <2>10. RootOf' = RootOf BY <1>3, <1>a, <1>b DEF DotDotRelock, MountOK, RootOf
  <2>11. \A l \in Lower : luse'[l] = luse[l] + SpareMove(t, l) BY <1>3, <1>a, <1>b DEF
        DotDotRelock, LowerOK, LowInv, SpareMove, SpareOf, SpareLabels
  <2>12. LowerUseStep(t) BY <2>9, <2>10, <2>11 DEF LowerUseStep
  <2>13. MountStep(t) BY <1>3, <1>a DEF DotDotRelock, MountStep
  <2>14. RefStep(t) BY <1>3, <1>a, <1>b DEF DotDotRelock, UpInv, DirInv, RefStep, Held
  <2>15. TgtStep(t) BY <1>3, <1>a DEF DotDotRelock, Acquire, Free, TgtStep
  <2>16. StayStep(t) BY <1>3, <1>a DEF DotDotRelock, AliasOK, StayStep, MakesProto
  <2>17. FlushStep(t) BY <1>3, <1>a, <1>b DEF DotDotRelock, TgtInv, WhyInv, FlushStep
  <2> QED BY <2>1, <2>2, <2>3, <2>4, <2>5, <2>6, <2>7, <2>8, <2>9, <2>10, <2>11, <2>12,
        <2>13, <2>14, <2>15, <2>16, <2>17 DEF ThreadStep, CountSteps
<1>4. CASE DotDotPut(t)
  <2>1. Alone(t) BY <1>4, <1>a DEF DotDotPut, Alone
  <2>2. LockStep(t) /\ LockInv' BY <1>4, <1>a DEF DotDotPut, Release, LockOK, LockInv,
        LockStep
  <2>3. ldoomed' = ldoomed BY <1>4 DEF DotDotPut
  <2>4. AliasStep(t) BY <1>4 DEF DotDotPut, AliasStep, DataStep, MntStep, HashStep,
        DoomStep, AllocStep, DeferStep
  <2>5. UseStep(t) BY <1>4, <1>a, <1>b DEF DotDotPut, AliasOK, UpInv, DirInv, TgtInv,
        UseStep, ProtoOf, MakesProto
  <2>6. HoldStep(t) BY <1>4, <1>a, <1>b DEF DotDotPut, AliasOK, WhyInv, TgtInv, HoldStep,
        HoldOf, HasHold
  <2>7. CountStep BY <1>4, <1>a DEF DotDotPut, AliasInv, CountStep
  <2>8. LowerHoldStep(t) BY <1>4, <1>a, <1>b DEF DotDotPut, LowerOK, LowInv, LdvpInv,
        LowerHoldStep, SleepOf
  <2>9. AliasOf' = AliasOf BY <1>4, <1>a, <2>1 DEF DotDotPut, AliasOK, Alone, AliasOf,
        Discarded
  <2>10. RootOf' = RootOf BY <1>4, <1>a, <1>b DEF DotDotPut, MountOK, RootOf
  <2>11. \A l \in Lower : luse'[l] = luse[l] + SpareMove(t, l) BY <1>4, <1>a, <1>b DEF
        DotDotPut, LowerRele, LowerOK, LowInv, SpareMove, SpareOf, SpareLabels
  <2>12. LowerUseStep(t) BY <2>9, <2>10, <2>11 DEF LowerUseStep
  <2>13. MountStep(t) BY <1>4, <1>a DEF DotDotPut, MountStep
  <2>14. RefStep(t) BY <1>4, <1>a, <1>b DEF DotDotPut, UpInv, DirInv, RefStep, Held
  <2>15. TgtStep(t) BY <1>4, <1>a DEF DotDotPut, Release, TgtStep
  <2>16. StayStep(t) BY <1>4, <1>a DEF DotDotPut, AliasOK, StayStep, MakesProto
  <2>17. FlushStep(t) BY <1>4, <1>a, <1>b DEF DotDotPut, TgtInv, WhyInv, FlushStep
  <2> QED BY <2>1, <2>2, <2>3, <2>4, <2>5, <2>6, <2>7, <2>8, <2>9, <2>10, <2>11, <2>12,
        <2>13, <2>14, <2>15, <2>16, <2>17 DEF ThreadStep, CountSteps
<1>5. CASE LookupDoomed(t)
  <2>1. Alone(t) BY <1>5, <1>a DEF LookupDoomed, Alone
  <2>2. LockStep(t) /\ LockInv' BY <1>5, <1>a DEF LookupDoomed, Release, LockOK, LockInv,
        LockStep
  <2>3. ldoomed' = ldoomed BY <1>5 DEF LookupDoomed
  <2>4. AliasStep(t) BY <1>5 DEF LookupDoomed, AliasStep, DataStep, MntStep, HashStep,
        DoomStep, AllocStep, DeferStep
  <2>5. UseStep(t) BY <1>5, <1>a, <1>b DEF LookupDoomed, AliasOK, UpInv, DirInv, TgtInv,
        UseStep, ProtoOf, MakesProto
  <2>6. HoldStep(t) BY <1>5, <1>a, <1>b DEF LookupDoomed, AliasOK, WhyInv, TgtInv,
        HoldStep, HoldOf, HasHold
  <2>7. CountStep BY <1>5, <1>a DEF LookupDoomed, AliasInv, CountStep
  <2>8. LowerHoldStep(t) BY <1>5, <1>a, <1>b DEF LookupDoomed, LowerOK, LowInv, LdvpInv,
        LowerHoldStep, SleepOf
  <2>9. AliasOf' = AliasOf BY <1>5, <1>a, <2>1 DEF LookupDoomed, AliasOK, Alone, AliasOf,
        Discarded
  <2>10. RootOf' = RootOf BY <1>5, <1>a, <1>b DEF LookupDoomed, MountOK, RootOf
  <2>11. \A l \in Lower : luse'[l] = luse[l] + SpareMove(t, l) BY <1>5, <1>a, <1>b, SMTT(30) DEF
        LookupDoomed, LowerRele, LowerOK, LowInv, SpareMove, SpareOf, SpareLabels
  <2>12. LowerUseStep(t) BY <2>9, <2>10, <2>11 DEF LowerUseStep
  <2>13. MountStep(t) BY <1>5, <1>a DEF LookupDoomed, MountStep
  <2>14. RefStep(t) BY <1>5, <1>a, <1>b DEF LookupDoomed, UpInv, DirInv, RefStep, Held
  <2>15. TgtStep(t) BY <1>5, <1>a DEF LookupDoomed, Release, TgtStep
  <2>16. StayStep(t) BY <1>5, <1>a DEF LookupDoomed, AliasOK, StayStep, MakesProto
  <2>17. FlushStep(t) BY <1>5, <1>a, <1>b DEF LookupDoomed, TgtInv, WhyInv, FlushStep
  <2> QED BY <2>1, <2>2, <2>3, <2>4, <2>5, <2>6, <2>7, <2>8, <2>9, <2>10, <2>11, <2>12,
        <2>13, <2>14, <2>15, <2>16, <2>17 DEF ThreadStep, CountSteps
<1>6. CASE LookupMove(t)
  <2>1. Alone(t) BY <1>6, <1>a DEF LookupMove, Alone
  <2>2. LockStep(t) /\ LockInv' BY <1>6, <1>a DEF LookupMove, Release, LockOK, LockInv,
        LockStep
  <2>3. ldoomed' = ldoomed BY <1>6 DEF LookupMove
  <2>4. AliasStep(t) BY <1>6 DEF LookupMove, AliasStep, DataStep, MntStep, HashStep,
        DoomStep, AllocStep, DeferStep
  <2>5. UseStep(t) BY <1>6, <1>a, <1>b DEF LookupMove, AliasOK, UpInv, DirInv, TgtInv,
        UseStep, ProtoOf, MakesProto
  <2>6. HoldStep(t) BY <1>6, <1>a, <1>b DEF LookupMove, AliasOK, WhyInv, TgtInv, HoldStep,
        HoldOf, HasHold
  <2>7. CountStep BY <1>6, <1>a DEF LookupMove, AliasInv, CountStep
  <2>8. LowerHoldStep(t) BY <1>6, <1>a, <1>b DEF LookupMove, LowerOK, LowInv, LdvpInv,
        LowerHoldStep, SleepOf
  <2>9. AliasOf' = AliasOf BY <1>6, <1>a, <2>1 DEF LookupMove, AliasOK, Alone, AliasOf,
        Discarded
  <2>10. RootOf' = RootOf BY <1>6, <1>a, <1>b DEF LookupMove, MountOK, RootOf
  <2>11. \A l \in Lower : luse'[l] = luse[l] + SpareMove(t, l) BY <1>6, <1>a, <1>b DEF
        LookupMove, LowerOK, LowInv, SpareMove, SpareOf, SpareLabels
  <2>12. LowerUseStep(t) BY <2>9, <2>10, <2>11 DEF LowerUseStep
  <2>13. MountStep(t) BY <1>6, <1>a DEF LookupMove, MountStep
  <2>14. RefStep(t) BY <1>6, <1>a, <1>b DEF LookupMove, UpInv, DirInv, RefStep, Held
  <2>15. TgtStep(t) BY <1>6, <1>a DEF LookupMove, Release, TgtStep
  <2>16. StayStep(t) BY <1>6, <1>a DEF LookupMove, AliasOK, StayStep, MakesProto
  <2>17. FlushStep(t) BY <1>6, <1>a, <1>b DEF LookupMove, TgtInv, WhyInv, FlushStep
  <2> QED BY <2>1, <2>2, <2>3, <2>4, <2>5, <2>6, <2>7, <2>8, <2>9, <2>10, <2>11, <2>12,
        <2>13, <2>14, <2>15, <2>16, <2>17 DEF ThreadStep, CountSteps
<1>7. CASE LookupError(t)
  <2>1. Alone(t) BY <1>7, <1>a DEF LookupError, Alone
  <2>2. LockStep(t) /\ LockInv' /\ ldoomed' = ldoomed BY <1>7, <1>a DEF LookupError,
        LockInv, LockStep
  <2>3. AliasStep(t) BY <1>7 DEF LookupError, AliasStep, DataStep, MntStep, HashStep,
        DoomStep, AllocStep, DeferStep
  <2>4. UseStep(t) BY <1>7, <1>a, <1>b DEF LookupError, AliasOK, UpInv, DirInv, TgtInv,
        UseStep, ProtoOf, MakesProto
  <2>5. HoldStep(t) BY <1>7, <1>a, <1>b DEF LookupError, AliasOK, WhyInv, TgtInv,
        HoldStep, HoldOf, HasHold
  <2>6. CountStep BY <1>7, <1>a DEF LookupError, AliasInv, CountStep
  <2>7. LowerHoldStep(t) BY <1>7, <1>a, <1>b DEF LookupError, LowerOK, LowInv, LdvpInv,
        LowerHoldStep, SleepOf
  <2>8. AliasOf' = AliasOf BY <1>7, <1>a, <2>1 DEF LookupError, AliasOK, Alone, AliasOf,
        Discarded
  <2>9. RootOf' = RootOf BY <1>7, <1>a, <1>b DEF LookupError, MountOK, RootOf
  <2>10. \A l \in Lower : luse'[l] = luse[l] + SpareMove(t, l) BY <1>7, <1>a, <1>b DEF
        LookupError, LowerOK, LowInv, SpareMove, SpareOf, SpareLabels
  <2>11. LowerUseStep(t) BY <2>8, <2>9, <2>10 DEF LowerUseStep
  <2>12. MountStep(t) BY <1>7, <1>a DEF LookupError, MountStep
  <2>13. RefStep(t) BY <1>7, <1>a, <1>b DEF LookupError, UpInv, DirInv, RefStep, Held
  <2>14. TgtStep(t) BY <1>7, <1>a DEF LookupError, TgtStep
  <2>15. StayStep(t) BY <1>7, <1>a DEF LookupError, AliasOK, StayStep, MakesProto
  <2>16. FlushStep(t) BY <1>7, <1>a, <1>b DEF LookupError, TgtInv, WhyInv, FlushStep
  <2> QED BY <2>1, <2>2, <2>3, <2>4, <2>5, <2>6, <2>7, <2>8, <2>9, <2>10, <2>11, <2>12,
        <2>13, <2>14, <2>15, <2>16 DEF ThreadStep, CountSteps
<1>8. CASE LookupSelf(t)
  <2>1. Alone(t) BY <1>8, <1>a DEF LookupSelf, NodegetReturn, Alone
  <2>2. LockStep(t) /\ LockInv' /\ ldoomed' = ldoomed BY <1>8, <1>a DEF LookupSelf,
        LockInv, LockStep
  <2>3. AliasStep(t) BY <1>8 DEF LookupSelf, AliasStep, DataStep, MntStep, HashStep,
        DoomStep, AllocStep, DeferStep
  <2>4. UseStep(t) BY <1>8, <1>a, <1>b DEF LookupSelf, NodegetReturn, AliasOK, UpInv,
        DirInv, TgtInv, UseStep, ProtoOf, MakesProto
  <2>5. HoldStep(t) BY <1>8, <1>a, <1>b DEF LookupSelf, NodegetReturn, AliasOK, WhyInv,
        TgtInv, HoldStep, HoldOf, HasHold
  <2>6. CountStep BY <1>8, <1>a, <1>b, <1>c, <1>e DEF LookupSelf, AliasOK, WhyInv, RefInv,
        AliasInv, CountStep, HoldOf, ProtoOf, MakesProto, HasHold
  <2>7. LowerHoldStep(t) BY <1>8, <1>a, <1>b DEF LookupSelf, NodegetReturn, LowerOK,
        LowInv, LdvpInv, LowerHoldStep, SleepOf
  <2>8. AliasOf' = AliasOf BY <1>8, <1>a, <2>1 DEF LookupSelf, NodegetReturn, AliasOK,
        Alone, AliasOf, Discarded
  <2>9. RootOf' = RootOf BY <1>8, <1>a, <1>b DEF LookupSelf, MountOK, RootOf
  <2>10. \A l \in Lower : luse'[l] = luse[l] + SpareMove(t, l)
    <3>1. low[t] \in Lower /\ SpareOf[t] = low[t]
          BY <1>8, <1>a, <1>b DEF LookupSelf, LowInv, SpareOf, SpareLabels
    <3>2. SpareOf'[t] = Null
          BY <1>8, <1>a DEF LookupSelf, NodegetReturn, SpareOf, SpareLabels
    <3>3. luse' = [luse EXCEPT ![low[t]] = @ - 1] BY <1>8 DEF LookupSelf, LowerRele
    <3>4. luse \in [Lower -> Int] BY <1>a DEF LowerOK
    <3> QED BY <3>1, <3>2, <3>3, <3>4 DEF SpareMove
  <2>11. LowerUseStep(t) BY <2>8, <2>9, <2>10 DEF LowerUseStep
  <2>12. MountStep(t) BY <1>8, <1>a DEF LookupSelf, MountStep
  <2>13. RefStep(t) BY <1>8, <1>a, <1>b DEF LookupSelf, NodegetReturn, UpInv, DirInv,
        RefStep, Held
  <2>14. TgtStep(t) BY <1>8, <1>a DEF LookupSelf, NodegetReturn, TgtStep
  <2>15. StayStep(t) BY <1>8, <1>a DEF LookupSelf, NodegetReturn, AliasOK, StayStep,
        MakesProto
  <2>16. FlushStep(t) BY <1>8, <1>a, <1>b DEF LookupSelf, NodegetReturn, TgtInv, WhyInv,
        FlushStep
  <2> QED BY <2>1, <2>2, <2>3, <2>4, <2>5, <2>6, <2>7, <2>8, <2>9, <2>10, <2>11, <2>12,
        <2>13, <2>14, <2>15, <2>16 DEF ThreadStep, CountSteps
<1>9. CASE LookupNode(t)
  <2>1. Alone(t) BY <1>9, <1>a DEF LookupNode, Alone
  <2>2. LockStep(t) /\ LockInv' /\ ldoomed' = ldoomed BY <1>9, <1>a DEF LookupNode,
        LockInv, LockStep
  <2>3. AliasStep(t) BY <1>9 DEF LookupNode, AliasStep, DataStep, MntStep, HashStep,
        DoomStep, AllocStep, DeferStep
  <2>4. UseStep(t) BY <1>9, <1>a, <1>b DEF LookupNode, AliasOK, UpInv, DirInv, TgtInv,
        UseStep, ProtoOf, MakesProto
  <2>5. HoldStep(t) BY <1>9, <1>a, <1>b DEF LookupNode, AliasOK, WhyInv, TgtInv, HoldStep,
        HoldOf, HasHold
  <2>6. CountStep BY <1>9, <1>a DEF LookupNode, AliasInv, CountStep
  <2>7. LowerHoldStep(t) BY <1>9, <1>a, <1>b DEF LookupNode, LowerOK, LowInv, LdvpInv,
        LowerHoldStep, SleepOf
  <2>8. AliasOf' = AliasOf BY <1>9, <1>a, <2>1 DEF LookupNode, AliasOK, Alone, AliasOf,
        Discarded
  <2>9. RootOf' = RootOf BY <1>9, <1>a, <1>b DEF LookupNode, MountOK, RootOf
  <2>10. \A l \in Lower : luse'[l] = luse[l] + SpareMove(t, l) BY <1>9, <1>a, <1>b DEF
        LookupNode, LowerOK, LowInv, SpareMove, SpareOf, SpareLabels
  <2>11. LowerUseStep(t) BY <2>8, <2>9, <2>10 DEF LowerUseStep
  <2>12. MountStep(t) BY <1>9, <1>a DEF LookupNode, MountStep
  <2>13. RefStep(t) BY <1>9, <1>a, <1>b DEF LookupNode, UpInv, DirInv, RefStep, Held
  <2>14. TgtStep(t) BY <1>9, <1>a DEF LookupNode, TgtStep
  <2>15. StayStep(t) BY <1>9, <1>a DEF LookupNode, AliasOK, StayStep, MakesProto
  <2>16. FlushStep(t) BY <1>9, <1>a, <1>b DEF LookupNode, TgtInv, WhyInv, FlushStep
  <2> QED BY <2>1, <2>2, <2>3, <2>4, <2>5, <2>6, <2>7, <2>8, <2>9, <2>10, <2>11, <2>12,
        <2>13, <2>14, <2>15, <2>16 DEF ThreadStep, CountSteps
<1> QED BY <1>1, <1>2, <1>3, <1>4, <1>5, <1>6, <1>7, <1>8, <1>9 DEF LookupSteps

(* tpt_vptocnp keeps within ThreadStep.                                     *)
LEMMA VptocnpStepsStep ==
    ASSUME NodeInv, NEW t \in Threads, VptocnpSteps(t)
    PROVE  ThreadStep(t)
<1> USE NodeConstants
<1>a. TypeOK /\ LockInv /\ AliasInv /\ DoomedInv BY DEF NodeInv
<1>b. Locals(t) BY DEF NodeInv
<1>c. \A u \in Upper : /\ uuse[u] \in Nat /\ uhold[u] \in Nat
                        /\ uuse[u] >= Is(up[t], u) + Is(dir[t], u) + Is(ProtoOf[t], u)
                        /\ uhold[u] >= Is(HoldOf[t], u) + (IF u \in deferred THEN 1 ELSE 0)
  BY OwnCounts
<1>d. Locking(t) BY DEF NodeInv
<1>e. RefInv(t) BY DEF NodeInv
<1>f. \A s \in Threads : ProtoInv(s) /\ RefInv(s) BY DEF NodeInv
<1>g. MountInv(t) BY DEF NodeInv
<1> USE DEF LockLabels, NodegetLabels, ProtoLabels, ReclaimLabels, PutLabels,
       CreateLabels, LookupLabels, VnLockLabels, Go, lowerVars, aliasVars, lockVars,
       mountVars, argVars, TypeOK, ThreadOK, LocalsOK, InLookup, Flushes, Is, Locals
<1>1. CASE VptocnpParent(t)
  <2>1. Alone(t) BY <1>1, <1>a DEF VptocnpParent, Alone
  <2>2. LockStep(t) /\ LockInv' /\ ldoomed' = ldoomed BY <1>1, <1>a DEF VptocnpParent,
        LockInv, LockStep
  <2>3. AliasStep(t) BY <1>1 DEF VptocnpParent, AliasStep, DataStep, MntStep, HashStep,
        DoomStep, AllocStep, DeferStep
  <2>4. UseStep(t) BY <1>1, <1>a, <1>b DEF VptocnpParent, AliasOK, UpInv, DirInv, TgtInv,
        UseStep, ProtoOf, MakesProto
  <2>5. HoldStep(t) BY <1>1, <1>a, <1>b DEF VptocnpParent, AliasOK, WhyInv, TgtInv,
        HoldStep, HoldOf, HasHold
  <2>6. CountStep BY <1>1, <1>a DEF VptocnpParent, AliasInv, CountStep
  <2>7. LowerHoldStep(t) BY <1>1, <1>a, <1>b DEF VptocnpParent, LowerOK, LowInv, LdvpInv,
        LowerHoldStep, SleepOf
  <2>8. AliasOf' = AliasOf BY <1>1, <1>a, <2>1 DEF VptocnpParent, AliasOK, Alone, AliasOf,
        Discarded
  <2>9. RootOf' = RootOf BY <1>1, <1>a, <1>b DEF VptocnpParent, MountOK, RootOf
  <2>10. \A l \in Lower : luse'[l] = luse[l] + SpareMove(t, l)
    <3>1. SpareOf[t] = low[t] /\ low[t] \in Lower /\ Parent[low[t]] \in Lower
          BY <1>1, <1>a, <1>b DEF VptocnpParent, AliasOK, LowInv, SpareOf, SpareLabels
    <3>2. SpareOf'[t] = Parent[low[t]]
          BY <1>1, <1>a DEF VptocnpParent, SpareOf, SpareLabels
    <3>3. luse' = [luse EXCEPT ![low[t]] = @ - 1, ![Parent[low[t]]] = @ + 1] BY <1>1 DEF
          VptocnpParent, LowerRele
    <3>4. luse \in [Lower -> Int] BY <1>a DEF LowerOK
    <3> QED BY <3>1, <3>2, <3>3, <3>4 DEF SpareMove
  <2>11. LowerUseStep(t) BY <2>8, <2>9, <2>10 DEF LowerUseStep
  <2>12. MountStep(t) BY <1>1, <1>a DEF VptocnpParent, MountStep
  <2>13. RefStep(t) BY <1>1, <1>a, <1>b DEF VptocnpParent, UpInv, DirInv, RefStep, Held
  <2>14. TgtStep(t) BY <1>1, <1>a DEF VptocnpParent, TgtStep
  <2>15. StayStep(t) BY <1>1, <1>a DEF VptocnpParent, AliasOK, StayStep, MakesProto
  <2>16. FlushStep(t) BY <1>1, <1>a, <1>b DEF VptocnpParent, TgtInv, WhyInv, FlushStep
  <2> QED BY <2>1, <2>2, <2>3, <2>4, <2>5, <2>6, <2>7, <2>8, <2>9, <2>10, <2>11, <2>12,
        <2>13, <2>14, <2>15, <2>16 DEF ThreadStep, CountSteps
<1>2. CASE VptocnpError(t)
  <2>1. Alone(t) BY <1>2, <1>a DEF VptocnpError, VptocnpRelock, Alone
  <2>2. LockStep(t) /\ LockInv' /\ ldoomed' = ldoomed BY <1>2, <1>a DEF VptocnpError,
        LockInv, LockStep
  <2>3. AliasStep(t) BY <1>2 DEF VptocnpError, AliasStep, DataStep, MntStep, HashStep,
        DoomStep, AllocStep, DeferStep
  <2>4. UseStep(t) BY <1>2, <1>a, <1>b DEF VptocnpError, VptocnpRelock, AliasOK, UpInv,
        DirInv, TgtInv, UseStep, ProtoOf, MakesProto
  <2>5. HoldStep(t) BY <1>2, <1>a, <1>b DEF VptocnpError, VptocnpRelock, AliasOK, WhyInv,
        TgtInv, HoldStep, HoldOf, HasHold
  <2>6. CountStep BY <1>2, <1>a DEF VptocnpError, AliasInv, CountStep
  <2>7. LowerHoldStep(t) BY <1>2, <1>a, <1>b DEF VptocnpError, VptocnpRelock, LowerOK,
        LowInv, LdvpInv, LowerHoldStep, SleepOf
  <2>8. AliasOf' = AliasOf BY <1>2, <1>a, <2>1 DEF VptocnpError, VptocnpRelock, AliasOK,
        Alone, AliasOf, Discarded
  <2>9. RootOf' = RootOf BY <1>2, <1>a, <1>b DEF VptocnpError, MountOK, RootOf
  <2>10. \A l \in Lower : luse'[l] = luse[l] + SpareMove(t, l)
    <3>1. SpareOf[t] = low[t] /\ low[t] \in Lower
          BY <1>2, <1>a, <1>b DEF VptocnpError, AliasOK, LowInv, SpareOf, SpareLabels
    <3>2. SpareOf'[t] = Null
          BY <1>2, <1>a DEF VptocnpError, VptocnpRelock, SpareOf, SpareLabels
    <3>3. luse' = [luse EXCEPT ![low[t]] = @ - 1] BY <1>2 DEF VptocnpError, LowerRele
    <3>4. luse \in [Lower -> Int] BY <1>a DEF LowerOK
    <3> QED BY <3>1, <3>2, <3>3, <3>4 DEF SpareMove
  <2>11. LowerUseStep(t) BY <2>8, <2>9, <2>10 DEF LowerUseStep
  <2>12. MountStep(t) BY <1>2, <1>a DEF VptocnpError, MountStep
  <2>13. RefStep(t) BY <1>2, <1>a, <1>b DEF VptocnpError, UpInv, DirInv, RefStep, Held
  <2>14. TgtStep(t) BY <1>2, <1>a DEF VptocnpError, VptocnpRelock, TgtStep
  <2>15. StayStep(t) BY <1>2, <1>a DEF VptocnpError, VptocnpRelock, AliasOK, StayStep,
        MakesProto
  <2>16. FlushStep(t) BY <1>2, <1>a, <1>b DEF VptocnpError, VptocnpRelock, TgtInv, WhyInv,
        FlushStep
  <2> QED BY <2>1, <2>2, <2>3, <2>4, <2>5, <2>6, <2>7, <2>8, <2>9, <2>10, <2>11, <2>12,
        <2>13, <2>14, <2>15, <2>16 DEF ThreadStep, CountSteps
<1>3. CASE VptocnpLock(t)
  <2>1. Alone(t) BY <1>3, <1>a DEF VptocnpLock, Alone
  <2>2. LockStep(t) /\ LockInv' BY <1>3, <1>a DEF VptocnpLock, Acquire, Free, LockOK,
        LockInv, LockStep
  <2>3. ldoomed' = ldoomed BY <1>3 DEF VptocnpLock
  <2>4. AliasStep(t) BY <1>3 DEF VptocnpLock, AliasStep, DataStep, MntStep, HashStep,
        DoomStep, AllocStep, DeferStep
  <2>5. UseStep(t) BY <1>3, <1>a, <1>b DEF VptocnpLock, AliasOK, UpInv, DirInv, TgtInv,
        UseStep, ProtoOf, MakesProto
  <2>6. HoldStep(t) BY <1>3, <1>a, <1>b DEF VptocnpLock, AliasOK, WhyInv, TgtInv,
        HoldStep, HoldOf, HasHold
  <2>7. CountStep BY <1>3, <1>a DEF VptocnpLock, AliasInv, CountStep
  <2>8. LowerHoldStep(t) BY <1>3, <1>a, <1>b DEF VptocnpLock, LowerOK, LowInv, LdvpInv,
        LowerHoldStep, SleepOf
  <2>9. AliasOf' = AliasOf BY <1>3, <1>a, <2>1 DEF VptocnpLock, AliasOK, Alone, AliasOf,
        Discarded
  <2>10. RootOf' = RootOf BY <1>3, <1>a, <1>b DEF VptocnpLock, MountOK, RootOf
  <2>11. \A l \in Lower : luse'[l] = luse[l] + SpareMove(t, l) BY <1>3, <1>a, <1>b DEF
        VptocnpLock, LowerOK, LowInv, SpareMove, SpareOf, SpareLabels
  <2>12. LowerUseStep(t) BY <2>9, <2>10, <2>11 DEF LowerUseStep
  <2>13. MountStep(t) BY <1>3, <1>a DEF VptocnpLock, MountStep
  <2>14. RefStep(t) BY <1>3, <1>a, <1>b DEF VptocnpLock, UpInv, DirInv, RefStep, Held
  <2>15. TgtStep(t) BY <1>3, <1>a DEF VptocnpLock, Acquire, Free, TgtStep
  <2>16. StayStep(t) BY <1>3, <1>a DEF VptocnpLock, AliasOK, StayStep, MakesProto
  <2>17. FlushStep(t) BY <1>3, <1>a, <1>b DEF VptocnpLock, TgtInv, WhyInv, FlushStep
  <2> QED BY <2>1, <2>2, <2>3, <2>4, <2>5, <2>6, <2>7, <2>8, <2>9, <2>10, <2>11, <2>12,
        <2>13, <2>14, <2>15, <2>16, <2>17 DEF ThreadStep, CountSteps
<1>4. CASE VptocnpDoomed(t)
  <2>1. Alone(t) BY <1>4, <1>a DEF VptocnpDoomed, VptocnpRelock, Alone
  <2>2. LockStep(t) /\ LockInv' /\ ldoomed' = ldoomed BY <1>4, <1>a DEF VptocnpDoomed,
        LockInv, LockStep
  <2>3. AliasStep(t) BY <1>4 DEF VptocnpDoomed, AliasStep, DataStep, MntStep, HashStep,
        DoomStep, AllocStep, DeferStep
  <2>4. UseStep(t) BY <1>4, <1>a, <1>b DEF VptocnpDoomed, VptocnpRelock, AliasOK, UpInv,
        DirInv, TgtInv, UseStep, ProtoOf, MakesProto
  <2>5. HoldStep(t) BY <1>4, <1>a, <1>b DEF VptocnpDoomed, VptocnpRelock, AliasOK, WhyInv,
        TgtInv, HoldStep, HoldOf, HasHold
  <2>6. CountStep BY <1>4, <1>a DEF VptocnpDoomed, AliasInv, CountStep
  <2>7. LowerHoldStep(t) BY <1>4, <1>a, <1>b DEF VptocnpDoomed, VptocnpRelock, LowerOK,
        LowInv, LdvpInv, LowerHoldStep, SleepOf
  <2>8. AliasOf' = AliasOf BY <1>4, <1>a, <2>1 DEF VptocnpDoomed, VptocnpRelock, AliasOK,
        Alone, AliasOf, Discarded
  <2>9. RootOf' = RootOf BY <1>4, <1>a, <1>b DEF VptocnpDoomed, MountOK, RootOf
  <2>10. \A l \in Lower : luse'[l] = luse[l] + SpareMove(t, l)
    <3>1. SpareOf[t] = low[t] /\ low[t] \in Lower
          BY <1>4, <1>a, <1>b DEF VptocnpDoomed, AliasOK, LowInv, SpareOf, SpareLabels
    <3>2. SpareOf'[t] = Null
          BY <1>4, <1>a DEF VptocnpDoomed, VptocnpRelock, SpareOf, SpareLabels
    <3>3. luse' = [luse EXCEPT ![low[t]] = @ - 1] BY <1>4 DEF VptocnpDoomed, LowerRele
    <3>4. luse \in [Lower -> Int] BY <1>a DEF LowerOK
    <3> QED BY <3>1, <3>2, <3>3, <3>4 DEF SpareMove
  <2>11. LowerUseStep(t) BY <2>8, <2>9, <2>10 DEF LowerUseStep
  <2>12. MountStep(t) BY <1>4, <1>a DEF VptocnpDoomed, MountStep
  <2>13. RefStep(t) BY <1>4, <1>a, <1>b DEF VptocnpDoomed, UpInv, DirInv, RefStep, Held
  <2>14. TgtStep(t) BY <1>4, <1>a DEF VptocnpDoomed, Free, VptocnpRelock, TgtStep
  <2>15. StayStep(t) BY <1>4, <1>a DEF VptocnpDoomed, VptocnpRelock, AliasOK, StayStep,
        MakesProto
  <2>16. FlushStep(t) BY <1>4, <1>a, <1>b DEF VptocnpDoomed, VptocnpRelock, TgtInv,
        WhyInv, FlushStep
  <2> QED BY <2>1, <2>2, <2>3, <2>4, <2>5, <2>6, <2>7, <2>8, <2>9, <2>10, <2>11, <2>12,
        <2>13, <2>14, <2>15, <2>16 DEF ThreadStep, CountSteps
<1>5. CASE VptocnpReturn(t)
  <2>1. Alone(t) BY <1>5, <1>a DEF VptocnpReturn, VptocnpRelock, Alone
  <2>2. LockStep(t) /\ LockInv' BY <1>5, <1>a DEF VptocnpReturn, Release, VptocnpRelock,
        LockOK, LockInv, LockStep
  <2>3. ldoomed' = ldoomed BY <1>5 DEF VptocnpReturn
  <2>4. AliasStep(t) BY <1>5 DEF VptocnpReturn, AliasStep, DataStep, MntStep, HashStep,
        DoomStep, AllocStep, DeferStep
  <2>5. UseStep(t) BY <1>5, <1>a, <1>b DEF VptocnpReturn, VptocnpRelock, AliasOK, UpInv,
        DirInv, TgtInv, UseStep, ProtoOf, MakesProto
  <2>6. HoldStep(t) BY <1>5, <1>a, <1>b DEF VptocnpReturn, VptocnpRelock, AliasOK, WhyInv,
        TgtInv, HoldStep, HoldOf, HasHold
  <2>7. CountStep BY <1>5, <1>a DEF VptocnpReturn, AliasInv, CountStep
  <2>8. LowerHoldStep(t) BY <1>5, <1>a, <1>b DEF VptocnpReturn, VptocnpRelock, LowerOK,
        LowInv, LdvpInv, LowerHoldStep, SleepOf
  <2>9. AliasOf' = AliasOf BY <1>5, <1>a, <2>1 DEF VptocnpReturn, VptocnpRelock, AliasOK,
        Alone, AliasOf, Discarded
  <2>10. RootOf' = RootOf BY <1>5, <1>a, <1>b DEF VptocnpReturn, MountOK, RootOf
  <2>11. \A l \in Lower : luse'[l] = luse[l] + SpareMove(t, l) BY <1>5, <1>a, <1>b DEF
        VptocnpReturn, VptocnpRelock, LowerOK, LowInv, SpareMove, SpareOf, SpareLabels
  <2>12. LowerUseStep(t) BY <2>9, <2>10, <2>11 DEF LowerUseStep
  <2>13. MountStep(t) BY <1>5, <1>a DEF VptocnpReturn, MountStep
  <2>14. RefStep(t) BY <1>5, <1>a, <1>b DEF VptocnpReturn, UpInv, DirInv, RefStep, Held
  <2>15. TgtStep(t) BY <1>5, <1>a DEF VptocnpReturn, Release, VptocnpRelock, TgtStep
  <2>16. StayStep(t) BY <1>5, <1>a DEF VptocnpReturn, VptocnpRelock, AliasOK, StayStep,
        MakesProto
  <2>17. FlushStep(t) BY <1>5, <1>a, <1>b DEF VptocnpReturn, VptocnpRelock, TgtInv,
        WhyInv, FlushStep
  <2> QED BY <2>1, <2>2, <2>3, <2>4, <2>5, <2>6, <2>7, <2>8, <2>9, <2>10, <2>11, <2>12,
        <2>13, <2>14, <2>15, <2>16, <2>17 DEF ThreadStep, CountSteps
<1> QED BY <1>1, <1>2, <1>3, <1>4, <1>5 DEF VptocnpSteps

(* Starting an operation keeps within ThreadStep.                           *)
LEMMA BeginStep ==
    ASSUME NodeInv, NEW t \in Threads, Begin(t)
    PROVE  ThreadStep(t)
<1> USE NodeConstants
<1>a. TypeOK /\ LockInv /\ AliasInv /\ DoomedInv BY DEF NodeInv
<1>b. Locals(t) BY DEF NodeInv
<1>c. \A u \in Upper : /\ uuse[u] \in Nat /\ uhold[u] \in Nat
                        /\ uuse[u] >= Is(up[t], u) + Is(dir[t], u) + Is(ProtoOf[t], u)
                        /\ uhold[u] >= Is(HoldOf[t], u) + (IF u \in deferred THEN 1 ELSE 0)
  BY OwnCounts
<1>d. Locking(t) BY DEF NodeInv
<1>e. RefInv(t) BY DEF NodeInv
<1>f. \A s \in Threads : ProtoInv(s) /\ RefInv(s) BY DEF NodeInv
<1>g. MountInv(t) BY DEF NodeInv
<1> USE DEF LockLabels, NodegetLabels, ProtoLabels, ReclaimLabels, PutLabels,
       CreateLabels, LookupLabels, VnLockLabels, Go, Rest, lowerVars, aliasVars, lockVars,
       mountVars, argVars, TypeOK, ThreadOK, LocalsOK, InLookup, Flushes, Is, Locals
<1>1. ASSUME NEW m \in Mounts, NEW md \in {"S", "X"}, Root(t, m, md) PROVE ThreadStep(t)
  <2>1. Alone(t) BY <1>1, <1>a DEF Root, Alone
  <2>2. LockStep(t) /\ LockInv' /\ ldoomed' = ldoomed
        BY <1>1, <1>a DEF Root, LockInv, LockStep
  <2>3. AliasStep(t) BY <1>1 DEF Root, AliasStep, DataStep, MntStep, HashStep, DoomStep,
        AllocStep, DeferStep
  <2>4. UseStep(t) BY <1>1, <1>a, <1>b DEF Root, AliasOK, UpInv, DirInv, TgtInv, UseStep,
        ProtoOf, MakesProto
  <2>5. HoldStep(t)
        BY <1>1, <1>a, <1>b DEF Root, AliasOK, WhyInv, TgtInv, HoldStep, HoldOf, HasHold
  <2>6. CountStep BY <1>1, <1>a DEF Root, AliasInv, CountStep
  <2>7. LowerHoldStep(t)
        BY <1>1, <1>a, <1>b DEF Root, LowerOK, LowInv, LdvpInv, LowerHoldStep, SleepOf
  <2>8. AliasOf' = AliasOf BY <1>1, <1>a, <2>1 DEF Root, AliasOK, Alone, AliasOf,
        Discarded
  <2>9. RootOf' = RootOf BY <1>1, <1>a, <1>b DEF Root, MountOK, RootOf
  <2>10. \A l \in Lower : luse'[l] = luse[l] + SpareMove(t, l)
    <3>1. SpareOf[t] = Null
          BY <1>1, <1>a, <1>b DEF Root, AliasOK, LowInv, SpareOf, SpareLabels
    <3>2. SpareOf'[t] = LowerRoot[m] BY <1>1, <1>a DEF Root, SpareOf, SpareLabels
    <3>3. luse' = [luse EXCEPT ![LowerRoot[m]] = @ + 1] BY <1>1 DEF Root, LowerRele
    <3> QED BY <3>1, <3>2, <3>3, <1>a DEF LowerOK, SpareMove
  <2>11. LowerUseStep(t) BY <2>8, <2>9, <2>10 DEF LowerUseStep
  <2>12. MountStep(t) BY <1>1, <1>a DEF Root, MountStep
  <2>13. RefStep(t) BY <1>1, <1>a, <1>b DEF Root, UpInv, DirInv, RefStep, Held
  <2>14. TgtStep(t) BY <1>1, <1>a DEF Root, TgtStep
  <2>15. StayStep(t) BY <1>1, <1>a DEF Root, AliasOK, StayStep, MakesProto
  <2>16. FlushStep(t) BY <1>1, <1>a, <1>b DEF Root, TgtInv, WhyInv, FlushStep
  <2> QED
      BY <2>1, <2>2, <2>3, <2>4, <2>5, <2>6, <2>7, <2>8, <2>9, <2>10, <2>11, <2>12, <2>13,
         <2>14, <2>15, <2>16 DEF ThreadStep, CountSteps
<1>2. CASE Unlock(t)
  <2>1. Alone(t) BY <1>2, <1>a DEF Unlock, Alone
  <2>2. LockStep(t) /\ LockInv'
        BY <1>2, <1>a DEF Unlock, Release, LockOK, LockInv, LockStep
  <2>3. ldoomed' = ldoomed BY <1>2 DEF Unlock
  <2>4. AliasStep(t)
        BY <1>2 DEF Unlock, AliasStep, DataStep, MntStep, HashStep, DoomStep, AllocStep,
           DeferStep
  <2>5. UseStep(t)
        BY <1>2, <1>a, <1>b DEF Unlock, AliasOK, UpInv, DirInv, TgtInv, UseStep, ProtoOf,
           MakesProto
  <2>6. HoldStep(t)
        BY <1>2, <1>a, <1>b DEF Unlock, AliasOK, WhyInv, TgtInv, HoldStep, HoldOf, HasHold
  <2>7. CountStep BY <1>2, <1>a DEF Unlock, AliasInv, CountStep
  <2>8. LowerHoldStep(t)
        BY <1>2, <1>a, <1>b DEF Unlock, LowerOK, LowInv, LdvpInv, LowerHoldStep, SleepOf
  <2>9. AliasOf' = AliasOf
        BY <1>2, <1>a, <2>1 DEF Unlock, AliasOK, Alone, AliasOf, Discarded
  <2>10. RootOf' = RootOf BY <1>2, <1>a, <1>b DEF Unlock, MountOK, RootOf
  <2>11. \A l \in Lower : luse'[l] = luse[l] + SpareMove(t, l)
         BY <1>2, <1>a, <1>b DEF Unlock, LowerOK, LowInv, SpareMove, SpareOf, SpareLabels
  <2>12. LowerUseStep(t) BY <2>9, <2>10, <2>11 DEF LowerUseStep
  <2>13. MountStep(t) BY <1>2, <1>a DEF Unlock, MountStep
  <2>14. RefStep(t) BY <1>2, <1>a, <1>b DEF Unlock, UpInv, DirInv, RefStep, Held
  <2>15. TgtStep(t) BY <1>2, <1>a DEF Unlock, Release, TgtStep
  <2>16. StayStep(t) BY <1>2, <1>a DEF Unlock, AliasOK, StayStep, MakesProto
  <2>17. FlushStep(t) BY <1>2, <1>a, <1>b DEF Unlock, TgtInv, WhyInv, FlushStep
  <2> QED
      BY <2>1, <2>2, <2>3, <2>4, <2>5, <2>6, <2>7, <2>8, <2>9, <2>10, <2>11, <2>12, <2>13,
         <2>14, <2>15, <2>16, <2>17 DEF ThreadStep, CountSteps
<1>3. CASE VputUser(t)
  <2>1. Alone(t) BY <1>3, <1>a DEF VputUser, Vput, Alone
  <2>2. LockStep(t) /\ LockInv'
        BY <1>3, <1>a DEF VputUser, Vput, Release, LockOK, LockInv, LockStep
  <2>3. ldoomed' = ldoomed BY <1>3 DEF VputUser, Vput
  <2>4. AliasStep(t)
        BY <1>3 DEF VputUser, Vput, AliasStep, DataStep, MntStep, HashStep, DoomStep,
           AllocStep, DeferStep
  <2>5. UseStep(t)
    <3>1. up[t] \in Upper /\ up'[t] = Null /\ dir' = dir /\
          uuse' = [uuse EXCEPT ![up[t]] = @ - 1]
          BY <1>3, <1>a DEF VputUser, Vput, PutUse
    <3>2. ProtoOf[t] = Null /\ ProtoOf'[t] = Null
          BY <1>3, <1>a DEF VputUser, Vput, ProtoOf, MakesProto
    <3> QED BY <1>a, <3>1, <3>2 DEF AliasOK, UseStep
  <2>6. HoldStep(t)
        BY <1>3, <1>a, <1>b DEF VputUser, Vput, PutUse, AliasOK, WhyInv, TgtInv, HoldStep,
           HoldOf, HasHold
  <2>7. CountStep
    <3>1. up[t] \in Upper /\ up[t] \in alloc
          BY <1>3, <1>a, <1>b, <1>e DEF VputUser, UpInv, RefInv
    <3>2. uuse[up[t]] >= 1 BY <1>c, <3>1
    <3>3. PutUse(up[t]) /\ udoomed' = udoomed /\ alloc' = alloc BY <1>3 DEF VputUser, Vput
    <3>4. \A u \in Upper : uuse[u] \in Nat /\ uhold[u] \in Nat BY <1>c
    <3>5. AliasInv /\ uuse \in [Upper -> Int] /\ uhold \in [Upper -> Int] BY <1>a DEF AliasOK
    <3> QED BY <3>1, <3>2, <3>3, <3>4, <3>5 DEF PutUse, AliasInv, CountStep
  <2>8. LowerHoldStep(t)
        BY <1>3, <1>a, <1>b DEF VputUser, Vput, LowerOK, LowInv, LdvpInv, LowerHoldStep,
           SleepOf
  <2>9. AliasOf' = AliasOf
        BY <1>3, <1>a, <2>1 DEF VputUser, Vput, AliasOK, Alone, AliasOf, Discarded
  <2>10. RootOf' = RootOf BY <1>3, <1>a, <1>b DEF VputUser, Vput, MountOK, RootOf
  <2>11. \A l \in Lower : luse'[l] = luse[l] + SpareMove(t, l)
         BY <1>3, <1>a, <1>b DEF VputUser, Vput, LowerOK, LowInv, SpareMove, SpareOf,
            SpareLabels
  <2>12. LowerUseStep(t) BY <2>9, <2>10, <2>11 DEF LowerUseStep
  <2>13. MountStep(t) BY <1>3, <1>a DEF VputUser, Vput, MountStep
  <2>14. RefStep(t) BY <1>3, <1>a, <1>b DEF VputUser, Vput, UpInv, DirInv, RefStep, Held
  <2>15. TgtStep(t) BY <1>3, <1>a DEF VputUser, Vput, Release, TgtStep
  <2>16. StayStep(t) BY <1>3, <1>a DEF VputUser, Vput, AliasOK, StayStep, MakesProto
  <2>17. FlushStep(t) BY <1>3, <1>a, <1>b DEF VputUser, Vput, TgtInv, WhyInv, FlushStep
  <2> QED
      BY <2>1, <2>2, <2>3, <2>4, <2>5, <2>6, <2>7, <2>8, <2>9, <2>10, <2>11, <2>12, <2>13,
         <2>14, <2>15, <2>16, <2>17 DEF ThreadStep, CountSteps
<1>4. CASE Vrele(t)
  <2>1. Alone(t) BY <1>4, <1>a DEF Vrele, Alone
  <2>2. LockStep(t) /\ LockInv' /\ ldoomed' = ldoomed BY <1>4, <1>a DEF Vrele, LockInv,
        LockStep
  <2>3. AliasStep(t) BY <1>4 DEF Vrele, AliasStep, DataStep, MntStep, HashStep, DoomStep,
        AllocStep, DeferStep
  <2>4. UseStep(t)
        BY <1>4, <1>a, <1>b DEF Vrele, PutUse, AliasOK, UpInv, DirInv, TgtInv, UseStep,
           ProtoOf, MakesProto
  <2>5. HoldStep(t)
        BY <1>4, <1>a, <1>b DEF Vrele, PutUse, AliasOK, WhyInv, TgtInv, HoldStep, HoldOf,
           HasHold
  <2>6. CountStep
        BY <1>4, <1>a, <1>b, <1>c, <1>e DEF Vrele, PutUse, AliasOK, WhyInv, RefInv,
           AliasInv, CountStep, HoldOf, ProtoOf, MakesProto, HasHold
  <2>7. LowerHoldStep(t)
        BY <1>4, <1>a, <1>b DEF Vrele, LowerOK, LowInv, LdvpInv, LowerHoldStep, SleepOf
  <2>8. AliasOf' = AliasOf
        BY <1>4, <1>a, <2>1 DEF Vrele, AliasOK, Alone, AliasOf, Discarded
  <2>9. RootOf' = RootOf BY <1>4, <1>a, <1>b DEF Vrele, MountOK, RootOf
  <2>10. \A l \in Lower : luse'[l] = luse[l] + SpareMove(t, l)
         BY <1>4, <1>a, <1>b DEF Vrele, LowerOK, LowInv, SpareMove, SpareOf, SpareLabels
  <2>11. LowerUseStep(t) BY <2>8, <2>9, <2>10 DEF LowerUseStep
  <2>12. MountStep(t) BY <1>4, <1>a DEF Vrele, MountStep
  <2>13. RefStep(t)
    <3>1. up[t] \in Held(t) /\ Held(t)' = Held(t) \ {up[t]}
          BY <1>4, <1>a, <1>b DEF Vrele, DirInv, Held
    <3> QED BY <1>4, <3>1 DEF Vrele, RefStep
  <2>14. TgtStep(t) BY <1>4, <1>a DEF Vrele, TgtStep
  <2>15. StayStep(t) BY <1>4, <1>a DEF Vrele, AliasOK, StayStep, MakesProto
  <2>16. FlushStep(t) BY <1>4, <1>a, <1>b DEF Vrele, TgtInv, WhyInv, FlushStep
  <2> QED
      BY <2>1, <2>2, <2>3, <2>4, <2>5, <2>6, <2>7, <2>8, <2>9, <2>10, <2>11, <2>12, <2>13,
         <2>14, <2>15, <2>16 DEF ThreadStep, CountSteps
<1>5. ASSUME NEW md \in {"S", "X"}, Relock(t, md) PROVE ThreadStep(t)
  <2>1. Alone(t) BY <1>5, <1>a DEF Relock, Alone
  <2>2. LockStep(t) /\ LockInv' /\ ldoomed' = ldoomed BY <1>5, <1>a DEF Relock, LockInv,
        LockStep
  <2>3. AliasStep(t)
        BY <1>5 DEF Relock, AliasStep, DataStep, MntStep, HashStep, DoomStep, AllocStep,
           DeferStep
  <2>4. UseStep(t)
        BY <1>5, <1>a, <1>b DEF Relock, AliasOK, UpInv, DirInv, TgtInv, UseStep, ProtoOf,
           MakesProto
  <2>5. HoldStep(t)
        BY <1>5, <1>a, <1>b DEF Relock, AliasOK, WhyInv, TgtInv, HoldStep, HoldOf, HasHold
  <2>6. CountStep BY <1>5, <1>a DEF Relock, AliasInv, CountStep
  <2>7. LowerHoldStep(t)
        BY <1>5, <1>a, <1>b DEF Relock, LowerOK, LowInv, LdvpInv, LowerHoldStep, SleepOf
  <2>8. AliasOf' = AliasOf
        BY <1>5, <1>a, <2>1 DEF Relock, AliasOK, Alone, AliasOf, Discarded
  <2>9. RootOf' = RootOf BY <1>5, <1>a, <1>b DEF Relock, MountOK, RootOf
  <2>10. \A l \in Lower : luse'[l] = luse[l] + SpareMove(t, l)
         BY <1>5, <1>a, <1>b DEF Relock, LowerOK, LowInv, SpareMove, SpareOf, SpareLabels
  <2>11. LowerUseStep(t) BY <2>8, <2>9, <2>10 DEF LowerUseStep
  <2>12. MountStep(t) BY <1>5, <1>a DEF Relock, MountStep
  <2>13. RefStep(t) BY <1>5, <1>a, <1>b DEF Relock, UpInv, DirInv, RefStep, Held
  <2>14. TgtStep(t) BY <1>5, <1>a DEF Relock, TgtStep
  <2>15. StayStep(t) BY <1>5, <1>a DEF Relock, AliasOK, StayStep, MakesProto
  <2>16. FlushStep(t) BY <1>5, <1>a, <1>b DEF Relock, TgtInv, WhyInv, FlushStep
  <2> QED
      BY <2>1, <2>2, <2>3, <2>4, <2>5, <2>6, <2>7, <2>8, <2>9, <2>10, <2>11, <2>12, <2>13,
         <2>14, <2>15, <2>16 DEF ThreadStep, CountSteps
<1>6. ASSUME NEW u \in Upper, DeferredInactive(t, u) PROVE ThreadStep(t)
  <2>1. Alone(t) BY <1>6, <1>a DEF DeferredInactive, Alone
  <2>2. LockStep(t) /\ LockInv' /\ ldoomed' = ldoomed BY <1>6, <1>a DEF DeferredInactive,
        LockInv, LockStep
  <2>3. DataStep(t) /\ MntStep(t) /\ HashStep(t) /\ DoomStep(t) /\ AllocStep(t)
        BY <1>6 DEF DeferredInactive, DataStep, MntStep, HashStep, DoomStep, AllocStep
  <2>4. DeferStep(t)
        BY <1>6, <1>a, <1>b, <1>e DEF DeferredInactive, RefInv, WhyInv, AliasOK, LockOK,
           DeferStep
  <2>5. AliasStep(t) BY <2>3, <2>4 DEF AliasStep
  <2>6. UseStep(t)
        BY <1>6, <1>a, <1>b DEF DeferredInactive, AliasOK, UpInv, DirInv, TgtInv, UseStep,
           ProtoOf, MakesProto
  <2>7. HoldStep(t)
        BY <1>6, <1>a, <1>b DEF DeferredInactive, AliasOK, WhyInv, TgtInv, HoldStep,
           HoldOf, HasHold
  <2>8. CountStep BY <1>6, <1>a DEF DeferredInactive, AliasInv, CountStep
  <2>9. LowerHoldStep(t)
        BY <1>6, <1>a, <1>b DEF DeferredInactive, LowerOK, LowInv, LdvpInv, LowerHoldStep,
           SleepOf
  <2>10. AliasOf' = AliasOf
         BY <1>6, <1>a, <2>1 DEF DeferredInactive, AliasOK, Alone, AliasOf, Discarded
  <2>11. RootOf' = RootOf BY <1>6, <1>a, <1>b DEF DeferredInactive, MountOK, RootOf
  <2>12. \A l \in Lower : luse'[l] = luse[l] + SpareMove(t, l) BY <1>6, <1>a, <1>b DEF
        DeferredInactive, LowerOK, LowInv, SpareMove, SpareOf, SpareLabels
  <2>13. LowerUseStep(t) BY <2>10, <2>11, <2>12 DEF LowerUseStep
  <2>14. MountStep(t) BY <1>6, <1>a DEF DeferredInactive, MountStep
  <2>15. RefStep(t)
         BY <1>6, <1>a, <1>b DEF DeferredInactive, UpInv, DirInv, RefStep, Held
  <2>16. TgtStep(t) BY <1>6, <1>a DEF DeferredInactive, TgtStep
  <2>17. StayStep(t) BY <1>6, <1>a DEF DeferredInactive, AliasOK, StayStep, MakesProto
  <2>18. FlushStep(t) BY <1>6, <1>a, <1>b DEF DeferredInactive, TgtInv, WhyInv, FlushStep
  <2> QED
      BY <2>1, <2>2, <2>3, <2>4, <2>5, <2>6, <2>7, <2>8, <2>9, <2>10, <2>11, <2>12, <2>13,
         <2>14, <2>15, <2>16, <2>17, <2>18 DEF ThreadStep, CountSteps
<1>7. ASSUME NEW m \in Mounts, NEW force \in ForceFlags, UnmountStart(t, m, force) PROVE ThreadStep(t)
  <2>1. Alone(t) BY <1>7, <1>a DEF UnmountStart, Alone
  <2>2. LockStep(t) /\ LockInv' /\ ldoomed' = ldoomed
        BY <1>7, <1>a DEF UnmountStart, LockInv, LockStep
  <2>3. AliasStep(t)
        BY <1>7 DEF UnmountStart, AliasStep, DataStep, MntStep, HashStep, DoomStep,
           AllocStep, DeferStep
  <2>4. UseStep(t)
        BY <1>7, <1>a, <1>b DEF UnmountStart, AliasOK, UpInv, DirInv, TgtInv, UseStep,
           ProtoOf, MakesProto
  <2>5. HoldStep(t) BY <1>7, <1>a, <1>b DEF UnmountStart, AliasOK, WhyInv, TgtInv,
        HoldStep, HoldOf, HasHold
  <2>6. CountStep BY <1>7, <1>a DEF UnmountStart, AliasInv, CountStep
  <2>7. LowerHoldStep(t)
        BY <1>7, <1>a, <1>b DEF UnmountStart, LowerOK, LowInv, LdvpInv, LowerHoldStep,
           SleepOf
  <2>8. AliasOf' = AliasOf
        BY <1>7, <1>a, <2>1 DEF UnmountStart, AliasOK, Alone, AliasOf, Discarded
  <2>9. RootOf' = RootOf BY <1>7, <1>a, <1>b DEF UnmountStart, MountOK, RootOf
  <2>10. \A l \in Lower : luse'[l] = luse[l] + SpareMove(t, l) BY <1>7, <1>a, <1>b DEF
        UnmountStart, LowerOK, LowInv, SpareMove, SpareOf, SpareLabels
  <2>11. LowerUseStep(t) BY <2>8, <2>9, <2>10 DEF LowerUseStep
  <2>12. MountStep(t) BY <1>7, <1>a DEF UnmountStart, RootBusy, MountOK, MountStep
  <2>13. RefStep(t) BY <1>7, <1>a, <1>b DEF UnmountStart, UpInv, DirInv, RefStep, Held
  <2>14. TgtStep(t) BY <1>7, <1>a DEF UnmountStart, TgtStep
  <2>15. StayStep(t) BY <1>7, <1>a DEF UnmountStart, AliasOK, StayStep, MakesProto
  <2>16. FlushStep(t) BY <1>7, <1>a, <1>b DEF UnmountStart, TgtInv, WhyInv, FlushStep
  <2> QED
      BY <2>1, <2>2, <2>3, <2>4, <2>5, <2>6, <2>7, <2>8, <2>9, <2>10, <2>11, <2>12, <2>13,
         <2>14, <2>15, <2>16 DEF ThreadStep, CountSteps
<1>8. ASSUME NEW c \in Lower, LookupChild(t, c) PROVE ThreadStep(t)
  <2>1. Alone(t) BY <1>8, <1>a DEF LookupChild, LookupStart, Alone
  <2>2. LockStep(t) /\ LockInv' /\ ldoomed' = ldoomed
        BY <1>8, <1>a DEF LookupChild, LookupStart, LockInv, LockStep
  <2>3. AliasStep(t) BY <1>8 DEF LookupChild, LookupStart, AliasStep, DataStep, MntStep,
        HashStep, DoomStep, AllocStep, DeferStep
  <2>4. UseStep(t)
        BY <1>8, <1>a, <1>b DEF LookupChild, LookupStart, AliasOK, UpInv, DirInv, TgtInv,
           UseStep, ProtoOf, MakesProto
  <2>5. HoldStep(t)
        BY <1>8, <1>a, <1>b DEF LookupChild, LookupStart, AliasOK, WhyInv, TgtInv,
           HoldStep, HoldOf, HasHold
  <2>6. CountStep BY <1>8, <1>a DEF LookupChild, LookupStart, AliasInv, CountStep
  <2>7. LowerHoldStep(t)
        BY <1>8, <1>a, <1>b DEF LookupChild, LookupStart, LowerOK, LowInv, LdvpInv,
           LowerHoldStep, SleepOf
  <2>8. AliasOf' = AliasOf
        BY <1>8, <1>a, <2>1 DEF LookupChild, LookupStart, AliasOK, Alone, AliasOf,
           Discarded
  <2>9. RootOf' = RootOf
        BY <1>8, <1>a, <1>b DEF LookupChild, LookupStart, MountOK, RootOf
  <2>10. \A l \in Lower : luse'[l] = luse[l] + SpareMove(t, l)
    <3>1. SpareOf[t] = Null
          BY <1>8, <1>a, <1>b DEF LookupChild, LookupStart, AliasOK, LowInv, SpareOf,
             SpareLabels
    <3>2. SpareOf'[t] = c
          BY <1>8, <1>a DEF LookupChild, LookupStart, SpareOf, SpareLabels
    <3>3. luse' = [luse EXCEPT ![c] = @ + 1]
          BY <1>8 DEF LookupChild, LookupStart, LowerRele
    <3> QED BY <3>1, <3>2, <3>3, <1>a DEF LowerOK, SpareMove
  <2>11. LowerUseStep(t) BY <2>8, <2>9, <2>10 DEF LowerUseStep
  <2>12. MountStep(t) BY <1>8, <1>a DEF LookupChild, LookupStart, MountStep
  <2>13. RefStep(t)
         BY <1>8, <1>a, <1>b DEF LookupChild, LookupStart, UpInv, DirInv, RefStep, Held
  <2>14. TgtStep(t) BY <1>8, <1>a DEF LookupChild, LookupStart, TgtStep
  <2>15. StayStep(t)
         BY <1>8, <1>a DEF LookupChild, LookupStart, AliasOK, StayStep, MakesProto
  <2>16. FlushStep(t)
         BY <1>8, <1>a, <1>b DEF LookupChild, LookupStart, TgtInv, WhyInv, FlushStep
  <2> QED
      BY <2>1, <2>2, <2>3, <2>4, <2>5, <2>6, <2>7, <2>8, <2>9, <2>10, <2>11, <2>12, <2>13,
         <2>14, <2>15, <2>16 DEF ThreadStep, CountSteps
<1>9. CASE LookupDot(t)
  <2>1. Alone(t) BY <1>9, <1>a DEF LookupDot, LookupStart, Alone
  <2>2. LockStep(t) /\ LockInv' /\ ldoomed' = ldoomed
        BY <1>9, <1>a DEF LookupDot, LookupStart, LockInv, LockStep
  <2>3. AliasStep(t)
        BY <1>9 DEF LookupDot, LookupStart, AliasStep, DataStep, MntStep, HashStep,
           DoomStep, AllocStep, DeferStep
  <2>4. UseStep(t)
        BY <1>9, <1>a, <1>b DEF LookupDot, LookupStart, AliasOK, UpInv, DirInv, TgtInv,
           UseStep, ProtoOf, MakesProto
  <2>5. HoldStep(t) BY <1>9, <1>a, <1>b DEF LookupDot, LookupStart, AliasOK, WhyInv,
        TgtInv, HoldStep, HoldOf, HasHold
  <2>6. CountStep BY <1>9, <1>a DEF LookupDot, LookupStart, AliasInv, CountStep
  <2>7. LowerHoldStep(t)
        BY <1>9, <1>a, <1>b DEF LookupDot, LookupStart, LowerOK, LowInv, LdvpInv,
           LowerHoldStep, SleepOf
  <2>8. AliasOf' = AliasOf
        BY <1>9, <1>a, <2>1 DEF LookupDot, LookupStart, AliasOK, Alone, AliasOf, Discarded
  <2>9. RootOf' = RootOf BY <1>9, <1>a, <1>b DEF LookupDot, LookupStart, MountOK, RootOf
  <2>10. \A l \in Lower : luse'[l] = luse[l] + SpareMove(t, l)
    <3> DEFINE d == data[up[t]]
    <3>1. up[t] \in Upper /\ d \in Lower
          BY <1>9, <1>a, <1>b DEF LookupDot, LookupStart, AliasOK, UpInv
    <3>2. SpareOf[t] = Null /\ SpareOf'[t] = d
          BY <1>9, <1>a DEF LookupDot, LookupStart, SpareOf, SpareLabels
    <3>3. luse' = [luse EXCEPT ![d] = @ + 1] BY <1>9 DEF LookupDot, LookupStart
    <3>4. luse \in [Lower -> Int] BY <1>a DEF LowerOK
    <3> QED BY <3>1, <3>2, <3>3, <3>4 DEF SpareMove
  <2>11. LowerUseStep(t) BY <2>8, <2>9, <2>10 DEF LowerUseStep
  <2>12. MountStep(t) BY <1>9, <1>a DEF LookupDot, LookupStart, MountStep
  <2>13. RefStep(t)
         BY <1>9, <1>a, <1>b DEF LookupDot, LookupStart, UpInv, DirInv, RefStep, Held
  <2>14. TgtStep(t) BY <1>9, <1>a DEF LookupDot, LookupStart, TgtStep
  <2>15. StayStep(t)
         BY <1>9, <1>a DEF LookupDot, LookupStart, AliasOK, StayStep, MakesProto
  <2>16. FlushStep(t)
         BY <1>9, <1>a, <1>b DEF LookupDot, LookupStart, TgtInv, WhyInv, FlushStep
  <2> QED
      BY <2>1, <2>2, <2>3, <2>4, <2>5, <2>6, <2>7, <2>8, <2>9, <2>10, <2>11, <2>12, <2>13,
         <2>14, <2>15, <2>16 DEF ThreadStep, CountSteps
<1>10. CASE LookupMissing(t)
  <2>1. Alone(t) BY <1>10, <1>a DEF LookupMissing, LookupStart, Alone
  <2>2. LockStep(t) /\ LockInv' /\ ldoomed' = ldoomed BY <1>10, <1>a DEF LookupMissing,
        LookupStart, LockInv, LockStep
  <2>3. AliasStep(t)
        BY <1>10 DEF LookupMissing, LookupStart, AliasStep, DataStep, MntStep, HashStep,
           DoomStep, AllocStep, DeferStep
  <2>4. UseStep(t)
        BY <1>10, <1>a, <1>b DEF LookupMissing, LookupStart, AliasOK, UpInv, DirInv,
           TgtInv, UseStep, ProtoOf, MakesProto
  <2>5. HoldStep(t)
        BY <1>10, <1>a, <1>b DEF LookupMissing, LookupStart, AliasOK, WhyInv, TgtInv,
           HoldStep, HoldOf, HasHold
  <2>6. CountStep BY <1>10, <1>a DEF LookupMissing, LookupStart, AliasInv, CountStep
  <2>7. LowerHoldStep(t)
        BY <1>10, <1>a, <1>b DEF LookupMissing, LookupStart, LowerOK, LowInv, LdvpInv,
           LowerHoldStep, SleepOf
  <2>8. AliasOf' = AliasOf
        BY <1>10, <1>a, <2>1 DEF LookupMissing, LookupStart, AliasOK, Alone, AliasOf,
           Discarded
  <2>9. RootOf' = RootOf
        BY <1>10, <1>a, <1>b DEF LookupMissing, LookupStart, MountOK, RootOf
  <2>10. \A l \in Lower : luse'[l] = luse[l] + SpareMove(t, l) BY <1>10, <1>a, <1>b DEF
        LookupMissing, LookupStart, LowerOK, LowInv, SpareMove, SpareOf, SpareLabels
  <2>11. LowerUseStep(t) BY <2>8, <2>9, <2>10 DEF LowerUseStep
  <2>12. MountStep(t) BY <1>10, <1>a DEF LookupMissing, LookupStart, MountStep
  <2>13. RefStep(t)
         BY <1>10, <1>a, <1>b DEF LookupMissing, LookupStart, UpInv, DirInv, RefStep, Held
  <2>14. TgtStep(t) BY <1>10, <1>a DEF LookupMissing, LookupStart, TgtStep
  <2>15. StayStep(t) BY <1>10, <1>a DEF LookupMissing, LookupStart, AliasOK, StayStep,
        MakesProto
  <2>16. FlushStep(t)
         BY <1>10, <1>a, <1>b DEF LookupMissing, LookupStart, TgtInv, WhyInv, FlushStep
  <2> QED
      BY <2>1, <2>2, <2>3, <2>4, <2>5, <2>6, <2>7, <2>8, <2>9, <2>10, <2>11, <2>12, <2>13,
         <2>14, <2>15, <2>16 DEF ThreadStep, CountSteps
<1>11. CASE LookupDotDot(t)
  <2>1. Alone(t) BY <1>11, <1>a DEF LookupDotDot, LookupStart, Alone
  <2>2. LockStep(t) /\ LockInv'
        BY <1>11, <1>a DEF LookupDotDot, Release, LookupStart, LockOK, LockInv, LockStep
  <2>3. ldoomed' = ldoomed BY <1>11 DEF LookupDotDot, LookupStart
  <2>4. AliasStep(t)
        BY <1>11 DEF LookupDotDot, LookupStart, AliasStep, DataStep, MntStep, HashStep,
           DoomStep, AllocStep, DeferStep
  <2>5. UseStep(t)
        BY <1>11, <1>a, <1>b DEF LookupDotDot, LookupStart, AliasOK, UpInv, DirInv,
           TgtInv, UseStep, ProtoOf, MakesProto
  <2>6. HoldStep(t)
        BY <1>11, <1>a, <1>b DEF LookupDotDot, LookupStart, AliasOK, WhyInv, TgtInv,
           HoldStep, HoldOf, HasHold
  <2>7. CountStep BY <1>11, <1>a DEF LookupDotDot, LookupStart, AliasInv, CountStep
  <2>8. LowerHoldStep(t)
        BY <1>11, <1>a, <1>b DEF LookupDotDot, LookupStart, LowerOK, LowInv, LdvpInv,
           LowerHoldStep, SleepOf
  <2>9. AliasOf' = AliasOf
        BY <1>11, <1>a, <2>1 DEF LookupDotDot, LookupStart, AliasOK, Alone, AliasOf,
           Discarded
  <2>10. RootOf' = RootOf
         BY <1>11, <1>a, <1>b DEF LookupDotDot, LookupStart, MountOK, RootOf
  <2>11. \A l \in Lower : luse'[l] = luse[l] + SpareMove(t, l) BY <1>11, <1>a, <1>b DEF
        LookupDotDot, LookupStart, LowerOK, LowInv, SpareMove, SpareOf, SpareLabels
  <2>12. LowerUseStep(t) BY <2>9, <2>10, <2>11 DEF LowerUseStep
  <2>13. MountStep(t) BY <1>11, <1>a DEF LookupDotDot, LookupStart, MountStep
  <2>14. RefStep(t) BY <1>11, <1>a, <1>b DEF LookupDotDot, LookupStart, UpInv, DirInv,
        RefStep, Held
  <2>15. TgtStep(t) BY <1>11, <1>a DEF LookupDotDot, Release, LookupStart, TgtStep
  <2>16. StayStep(t) BY <1>11, <1>a DEF LookupDotDot, LookupStart, AliasOK, StayStep,
        MakesProto
  <2>17. FlushStep(t)
         BY <1>11, <1>a, <1>b DEF LookupDotDot, LookupStart, TgtInv, WhyInv, FlushStep
  <2> QED
      BY <2>1, <2>2, <2>3, <2>4, <2>5, <2>6, <2>7, <2>8, <2>9, <2>10, <2>11, <2>12, <2>13,
         <2>14, <2>15, <2>16, <2>17 DEF ThreadStep, CountSteps
<1>12. CASE Vptocnp(t)
  <2>1. Alone(t) BY <1>12, <1>a DEF Vptocnp, Alone
  <2>2. LockStep(t) /\ LockInv'
        BY <1>12, <1>a DEF Vptocnp, Release, LockOK, LockInv, LockStep
  <2>3. ldoomed' = ldoomed BY <1>12 DEF Vptocnp
  <2>4. AliasStep(t)
        BY <1>12 DEF Vptocnp, AliasStep, DataStep, MntStep, HashStep, DoomStep, AllocStep,
           DeferStep
  <2>5. UseStep(t)
        BY <1>12, <1>a, <1>b DEF Vptocnp, AliasOK, UpInv, DirInv, TgtInv, UseStep,
           ProtoOf, MakesProto
  <2>6. HoldStep(t)
        BY <1>12, <1>a, <1>b DEF Vptocnp, AliasOK, WhyInv, TgtInv, HoldStep, HoldOf,
           HasHold
  <2>7. CountStep BY <1>12, <1>a DEF Vptocnp, AliasInv, CountStep
  <2>8. LowerHoldStep(t) BY <1>12, <1>a, <1>b DEF Vptocnp, LowerOK, LowInv, LdvpInv,
        LowerHoldStep, SleepOf
  <2>9. AliasOf' = AliasOf
        BY <1>12, <1>a, <2>1 DEF Vptocnp, AliasOK, Alone, AliasOf, Discarded
  <2>10. RootOf' = RootOf BY <1>12, <1>a, <1>b DEF Vptocnp, MountOK, RootOf
  <2>11. \A l \in Lower : luse'[l] = luse[l] + SpareMove(t, l)
    <3> DEFINE d == data[up[t]]
    <3>1. up[t] \in Upper /\ d \in Lower
          BY <1>12, <1>a, <1>b DEF Vptocnp, BelowRoot, AliasOK, UpInv
    <3>2. SpareOf[t] = Null /\ SpareOf'[t] = d
          BY <1>12, <1>a DEF Vptocnp, SpareOf, SpareLabels
    <3>3. luse' = [luse EXCEPT ![d] = @ + 1] BY <1>12 DEF Vptocnp
    <3>4. luse \in [Lower -> Int] BY <1>a DEF LowerOK
    <3> QED BY <3>1, <3>2, <3>3, <3>4 DEF SpareMove
  <2>12. LowerUseStep(t) BY <2>9, <2>10, <2>11 DEF LowerUseStep
  <2>13. MountStep(t) BY <1>12, <1>a DEF Vptocnp, MountStep
  <2>14. RefStep(t) BY <1>12, <1>a, <1>b DEF Vptocnp, UpInv, DirInv, RefStep, Held
  <2>15. TgtStep(t) BY <1>12, <1>a DEF Vptocnp, Release, TgtStep
  <2>16. StayStep(t) BY <1>12, <1>a DEF Vptocnp, AliasOK, StayStep, MakesProto
  <2>17. FlushStep(t) BY <1>12, <1>a, <1>b DEF Vptocnp, TgtInv, WhyInv, FlushStep
  <2> QED
      BY <2>1, <2>2, <2>3, <2>4, <2>5, <2>6, <2>7, <2>8, <2>9, <2>10, <2>11, <2>12, <2>13,
         <2>14, <2>15, <2>16, <2>17 DEF ThreadStep, CountSteps
<1> QED
    BY <1>1, <1>2, <1>3, <1>4, <1>5, <1>6, <1>7, <1>8, <1>9, <1>10, <1>11, <1>12 DEF Begin

(* Every step of a thread keeps within ThreadStep.                         *)
LEMMA EveryStep ==
    ASSUME NodeInv, NEW t \in Threads, Continue(t) \/ Begin(t)
    PROVE  ThreadStep(t)
BY VgetStep, NodegetStep, VnLockStep, PutStep, ReclaimStep, UnmountStep, LookupStepsStep,
   VptocnpStepsStep, BeginStep DEF Continue
=============================================================================
