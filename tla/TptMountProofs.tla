--------------------------- MODULE TptMountProofs ---------------------------
(***************************************************************************)
(* For any number of mount points and devices: a device has at most one    *)
(* mount, a failed mount leaves nothing behind, and the references to a    *)
(* device are exactly those of its mounts.                                 *)
(***************************************************************************)
EXTENDS TptMount, FiniteSetTheorems, TLAPS

Holding == {"opened", "read", "mounted"}

StateOK ==
    /\ phase \in [Mounts -> Phases] /\ dev \in [Mounts -> Devices \cup {None}]
    /\ refs \in [Devices -> Int] /\ locked \in [Devices -> Mounts \cup {None}]
    /\ consumer \in [Devices -> Mounts \cup {None}]
    /\ buf \in [Devices -> Mounts \cup {None}]
    /\ data \subseteq Mounts /\ super \subseteq Mounts
    /\ nullm_vfs \in [Mounts -> Mounts \cup {None}]
    /\ depth \in [Mounts -> 0 .. StackDepth]

(* A mount has a device from namei until it fails or is unmounted.         *)
DeviceInv == \A m \in Mounts : dev[m] # None <=> phase[m] \notin {"none", "gone"}

(* Who got past g_vfs_open owns the consumer of the device and no other,   *)
(* and who did not has got nothing yet.                                    *)
ConsumerInv ==
    \A m \in Mounts : phase[m] \in Holding => \A d \in Devices : consumer[d] = m <=> d = dev[m]

NothingYet ==
    \A m \in Mounts :
        /\ phase[m] \in {"none", "named", "failed"} => \A d \in Devices : consumer[d] # m
        /\ phase[m] \in {"none", "named", "failed", "opened"} => \A d \in Devices : buf[d] # m
        /\ phase[m] \notin {"mounted", "gone"} => m \notin data \cup super

LockInv ==
    \A m \in Mounts, d \in Devices : locked[d] = m => phase[m] = "named" /\ dev[m] = d

MountInv == StateOK /\ DeviceInv /\ ConsumerInv /\ NothingYet /\ LockInv

(* Nothing is mounted at first.                                            *)
LEMMA MountInit == Init => MountInv
BY MountConstants, SMT
   DEF Init, MountInv, StateOK, Phases, DeviceInv, ConsumerInv, Holding, NothingYet, LockInv

(* Every step keeps who owns what.                                         *)
LEMMA MountStep == MountInv /\ [Next]_vars => MountInv'
<1> SUFFICES ASSUME MountInv, [Next]_vars PROVE MountInv'
    OBVIOUS
<1> USE MountConstants DEF MountInv, StateOK, Phases, DeviceInv, ConsumerInv, Holding, NothingYet,
        LockInv, Goto, Vrele, Unlock
<1>1. ASSUME NEW m \in Mounts, NEW d \in Devices, MountName(m, d) PROVE MountInv'
    BY <1>1, SMT DEF MountName
<1>2. ASSUME NEW m \in Mounts, MountNotDisk(m) PROVE MountInv'
    BY <1>2, SMT DEF MountNotDisk
<1>3. ASSUME NEW m \in Mounts, MountOpen(m) PROVE MountInv'
    BY <1>3, SMT DEF MountOpen
<1>4. ASSUME NEW m \in Mounts, MountOpenFails(m) PROVE MountInv'
    BY <1>4, SMT DEF MountOpenFails
<1>5. ASSUME NEW m \in Mounts, MountRead(m) PROVE MountInv'
    BY <1>5, SMT DEF MountRead
<1>6. ASSUME NEW m \in Mounts, MountReadFails(m) PROVE MountInv'
    BY <1>6, SMT DEF MountReadFails
<1>7. ASSUME NEW m \in Mounts, MountDone(m) PROVE MountInv'
    BY <1>7, SMT DEF MountDone
<1>8. ASSUME NEW m \in Mounts, MountFailed(m) PROVE MountInv'
    BY <1>8, SMT DEF MountFailed
<1>9. ASSUME NEW m \in Mounts, Unmount(m) PROVE MountInv'
    BY <1>9, SMT DEF Unmount
<1>10. ASSUME NEW m \in Mounts, VfsCall(m) \/ VfsDelegate(m) PROVE MountInv'
    BY <1>10, SMT DEF VfsCall, VfsDelegate
<1>11. CASE Sync \/ UNCHANGED vars
    BY <1>11 DEF Sync, vars
<1> QED
    BY <1>1, <1>2, <1>3, <1>4, <1>5, <1>6, <1>7, <1>8, <1>9, <1>10, <1>11 DEF Next, Mounting

(* Two mounts of one device never both get past g_vfs_open.                *)
THEOREM DeviceIsExclusive == Spec => []OneMountPerDevice
<1>1. MountInv => OneMountPerDevice
    BY MountConstants, SMT
       DEF MountInv, StateOK, DeviceInv, ConsumerInv, Holding, OneMountPerDevice
<1> QED
    BY <1>1, MountInit, MountStep, PTL DEF Spec

(* A mount that failed holds no lock, consumer, buffer or memory.          *)
THEOREM FailureIsClean == Spec => []FailedMountClean
<1>1. MountInv => FailedMountClean
    BY SMT DEF MountInv, NothingYet, LockInv, FailedMountClean
<1> QED
    BY <1>1, MountInit, MountStep, PTL DEF Spec

-----------------------------------------------------------------------------
(* Counting a device's mounts when one of them starts or stops using it.   *)
LEMMA StartsUsing ==
    ASSUME NEW m \in Mounts, NEW d \in Devices, MountInv, dev[m] = None,
           dev' = [dev EXCEPT ![m] = d], NEW e \in Devices
    PROVE  Cardinality(Using(e)') = Cardinality(Using(e)) + (IF e = d THEN 1 ELSE 0)
<1>1. IsFiniteSet(Using(e)) /\ Cardinality(Using(e)) \in Nat
    BY MountConstants, FS_Subset, FS_CardinalityType DEF Using
<1>2. Using(e)' = IF e = d THEN Using(e) \cup {m} ELSE Using(e)
    BY MountConstants DEF Using, MountInv, StateOK
<1>3. m \notin Using(e)
    BY MountConstants DEF Using
<1> QED
    BY <1>1, <1>2, <1>3, FS_AddElement, SMTT(30)

LEMMA StopsUsing ==
    ASSUME NEW m \in Mounts, MountInv, dev[m] \in Devices,
           dev' = [dev EXCEPT ![m] = None], NEW e \in Devices
    PROVE  Cardinality(Using(e)') = Cardinality(Using(e)) - (IF e = dev[m] THEN 1 ELSE 0)
<1>1. IsFiniteSet(Using(e)) /\ Cardinality(Using(e)) \in Nat
    BY MountConstants, FS_Subset, FS_CardinalityType DEF Using
<1>2. Using(e)' = IF e = dev[m] THEN Using(e) \ {m} ELSE Using(e)
    BY MountConstants DEF Using, MountInv, StateOK
<1>3. e = dev[m] => m \in Using(e)
    BY DEF Using
<1>4. Cardinality(Using(e) \ {m}) = IF m \in Using(e) THEN Cardinality(Using(e)) - 1
                                                     ELSE Cardinality(Using(e))
    BY <1>1, FS_RemoveElement
<1> QED
    BY <1>1, <1>2, <1>3, <1>4, SMT

(* tptfs_mount and tptfs_unmount drop exactly the references they took.    *)
THEOREM RefsAreExact == Spec => []DeviceRefsExact
<1>1. Init => DeviceRefsExact
    <2> SUFFICES ASSUME Init, NEW d \in Devices PROVE refs[d] = Cardinality(Using(d))
        BY DEF DeviceRefsExact
    <2>1. Using(d) = {}
        BY MountConstants DEF Init, Using
    <2> QED
        BY <2>1, FS_EmptySet DEF Init
<1>2. MountInv /\ DeviceRefsExact /\ [Next]_vars => DeviceRefsExact'
    <2> SUFFICES ASSUME MountInv, DeviceRefsExact, [Next]_vars, NEW e \in Devices
                 PROVE  refs'[e] = Cardinality(Using(e)')
        BY DEF DeviceRefsExact
    <2>0. refs \in [Devices -> Int] /\ refs[e] = Cardinality(Using(e))
        BY DEF MountInv, StateOK, DeviceRefsExact
    <2>1. ASSUME NEW m \in Mounts, NEW d \in Devices, MountName(m, d)
          PROVE  refs'[e] = Cardinality(Using(e)')
        <3>1. dev[m] = None /\ dev' = [dev EXCEPT ![m] = d]
            BY <2>1 DEF MountName, MountInv, DeviceInv
        <3>2. refs' = [refs EXCEPT ![d] = @ + 1]
            BY <2>1 DEF MountName
        <3>3. Cardinality(Using(e)') = Cardinality(Using(e)) + (IF e = d THEN 1 ELSE 0)
            BY <3>1, StartsUsing
        <3> QED
            BY <2>0, <3>2, <3>3, SMT
    <2>2. ASSUME NEW m \in Mounts, MountNotDisk(m) \/ MountFailed(m) \/ Unmount(m)
          PROVE  refs'[e] = Cardinality(Using(e)')
        <3>1. dev[m] \in Devices /\ dev' = [dev EXCEPT ![m] = None]
            BY <2>2 DEF MountNotDisk, MountFailed, Unmount, MountInv, StateOK, DeviceInv
        <3>2. refs' = [refs EXCEPT ![dev[m]] = @ - 1]
            BY <2>2 DEF MountNotDisk, MountFailed, Unmount, Vrele
        <3>3. Cardinality(Using(e)') = Cardinality(Using(e)) - (IF e = dev[m] THEN 1 ELSE 0)
            BY <3>1, StopsUsing
        <3> QED
            BY <2>0, <3>1, <3>2, <3>3, SMT
    <2>3. ASSUME UNCHANGED <<dev, refs>>
          PROVE  refs'[e] = Cardinality(Using(e)')
        BY <2>0, <2>3 DEF Using
    <2> QED
        BY <2>1, <2>2, <2>3
        DEF Next, Mounting, MountOpen, MountOpenFails, MountRead, MountReadFails, MountDone,
            VfsCall, VfsDelegate, Sync, vars
<1> QED
    BY <1>1, <1>2, MountInit, MountStep, PTL DEF Spec
=============================================================================
