------------------------------ MODULE TptMount ------------------------------
(***************************************************************************)
(* Mounting and unmounting tptfs (tpt_vfsops.c), and what a mount takes    *)
(* from the rest of the kernel on the way: the device vnode's reference    *)
(* and lock, its geom consumer, the superblock's buffer and two            *)
(* allocations.  The vnodes of a mount are TptNode's subject; here they    *)
(* only decide whether an unmount succeeds.                                *)
(***************************************************************************)
EXTENDS Integers, FiniteSets

CONSTANTS
    Mounts,         \* mount points; each one is mounted at most once
    Devices,        \* vnodes that a "from" option may name
    Disks,          \* those that are disks
    None,
    StackDepth      \* bound on nested VFS calls: the kernel stack

ASSUME MountConstants ==
    /\ Disks \subseteq Devices
    /\ None \notin Mounts \cup Devices
    /\ StackDepth \in Nat \ {0}
    /\ IsFiniteSet(Mounts)

VARIABLES
    phase, dev,         \* per mount: progress of its mounting thread, devvp
    refs, locked,       \* per device: references taken here, lock owner
    consumer, buf,      \* per device: mount whose consumer, locked buffer it is
    data, super,        \* mounts with a tpt_mount (mnt_data), with a tptfs copy
    nullm_vfs,          \* per mount: the field, None before it is set
    depth               \* per mount: frames of a VFS call that is delegated

vars == <<phase, dev, refs, locked, consumer, buf, data, super, nullm_vfs, depth>>

(* none: not mounted, nor being mounted; gone: unmounted.                  *)
Phases == {"none", "named", "opened", "read", "failed", "mounted", "gone"}

Init ==
    /\ phase = [m \in Mounts |-> "none"] /\ dev = [m \in Mounts |-> None]
    /\ refs = [d \in Devices |-> 0] /\ locked = [d \in Devices |-> None]
    /\ consumer = [d \in Devices |-> None] /\ buf = [d \in Devices |-> None]
    /\ data = {} /\ super = {}
    /\ nullm_vfs = [m \in Mounts |-> None]
    /\ depth = [m \in Mounts |-> 0]

Goto(m, p) == phase' = [phase EXCEPT ![m] = p]
Vrele(d) == refs' = [refs EXCEPT ![d] = @ - 1]
Unlock(d) == locked' = [locked EXCEPT ![d] = None]

(* The kernel has died of a stack overflow: nothing moves any more.        *)
Overflown == \E m \in Mounts : depth[m] = StackDepth

-----------------------------------------------------------------------------
(* tptfs_mount: namei returns the device locked and referenced.  A mount   *)
(* of the root, a missing option or a failing namei leave nothing to undo. *)
MountName(m, d) ==
    /\ phase[m] = "none" /\ locked[d] = None /\ ~Overflown
    /\ refs' = [refs EXCEPT ![d] = @ + 1]
    /\ locked' = [locked EXCEPT ![d] = m]
    /\ dev' = [dev EXCEPT ![m] = d]
    /\ Goto(m, "named")
    /\ UNCHANGED <<consumer, buf, data, super, nullm_vfs, depth>>

MountNotDisk(m) ==      \* vput(devvp)
    /\ phase[m] = "named" /\ dev[m] \notin Disks /\ ~Overflown
    /\ Vrele(dev[m]) /\ Unlock(dev[m])
    /\ dev' = [dev EXCEPT ![m] = None]
    /\ Goto(m, "none")
    /\ UNCHANGED <<consumer, buf, data, super, nullm_vfs, depth>>

(* g_vfs_open: one consumer per device; it may fail for other reasons too. *)
MountOpen(m) ==
    LET d == dev[m] IN
    /\ phase[m] = "named" /\ d \in Disks /\ consumer[d] = None /\ ~Overflown
    /\ consumer' = [consumer EXCEPT ![d] = m]
    /\ Unlock(d)
    /\ Goto(m, "opened")
    /\ UNCHANGED <<dev, refs, buf, data, super, nullm_vfs, depth>>

(* Mutation of MountOpenFails: the error goes through the common exit.     *)
MountOpenFailsOut(m) ==
    /\ phase[m] = "named" /\ dev[m] \in Disks /\ ~Overflown
    /\ consumer' = [consumer EXCEPT ![dev[m]] = None]
    /\ Unlock(dev[m])
    /\ Goto(m, "failed")
    /\ UNCHANGED <<dev, refs, buf, data, super, nullm_vfs, depth>>

MountOpenFails(m) ==
    /\ phase[m] = "named" /\ dev[m] \in Disks /\ ~Overflown
    /\ Unlock(dev[m])
    /\ Goto(m, "failed")
    /\ UNCHANGED <<dev, refs, consumer, buf, data, super, nullm_vfs, depth>>

(* bread waits until nobody has the superblock's buffer locked; it returns *)
(* the buffer locked, or an error and no buffer.                           *)
MountRead(m) ==
    /\ phase[m] = "opened" /\ buf[dev[m]] = None /\ ~Overflown
    /\ buf' = [buf EXCEPT ![dev[m]] = m]
    /\ Goto(m, "read")
    /\ UNCHANGED <<dev, refs, locked, consumer, data, super, nullm_vfs, depth>>

(* Mutation of MountReadFails: the consumer is not closed.                 *)
MountReadFailsOpen(m) ==
    /\ phase[m] = "opened" /\ buf[dev[m]] = None /\ ~Overflown
    /\ Goto(m, "failed")
    /\ UNCHANGED <<dev, refs, locked, consumer, buf, data, super, nullm_vfs, depth>>

MountReadFails(m) ==    \* out: g_vfs_close(cp)
    /\ phase[m] = "opened" /\ buf[dev[m]] = None /\ ~Overflown
    /\ consumer' = [consumer EXCEPT ![dev[m]] = None]
    /\ Goto(m, "failed")
    /\ UNCHANGED <<dev, refs, locked, buf, data, super, nullm_vfs, depth>>

(* Mutation of MountDone: nullm_vfs stays unset.                           *)
MountDoneNoVfs(m) ==
    /\ phase[m] = "read" /\ ~Overflown
    /\ data' = data \cup {m} /\ super' = super \cup {m}
    /\ Goto(m, "mounted")
    /\ UNCHANGED <<dev, refs, locked, consumer, buf, nullm_vfs, depth>>

(* The two allocations, the copy of the superblock and the fields.         *)
MountDone(m) ==
    /\ phase[m] = "read" /\ ~Overflown
    /\ data' = data \cup {m} /\ super' = super \cup {m}
    /\ nullm_vfs' = [nullm_vfs EXCEPT ![m] = m]
    /\ Goto(m, "mounted")
    /\ UNCHANGED <<dev, refs, locked, consumer, buf, depth>>

(* Mutation of MountFailed: no vrele(devvp).                               *)
MountFailedKeeps(m) ==
    /\ phase[m] = "failed" /\ ~Overflown
    /\ dev' = [dev EXCEPT ![m] = None]
    /\ Goto(m, "none")
    /\ UNCHANGED <<refs, locked, consumer, buf, data, super, nullm_vfs, depth>>

MountFailed(m) ==       \* back in tptfs_mount: vrele(devvp)
    /\ phase[m] = "failed" /\ ~Overflown
    /\ Vrele(dev[m])
    /\ dev' = [dev EXCEPT ![m] = None]
    /\ Goto(m, "none")
    /\ UNCHANGED <<locked, consumer, buf, data, super, nullm_vfs, depth>>

(* Mutation of Unmount: the device is closed, but the buffer stays.        *)
UnmountCloses(m) ==
    /\ phase[m] = "mounted" /\ depth[m] = 0 /\ ~Overflown
    /\ Vrele(dev[m])
    /\ consumer' = [consumer EXCEPT ![dev[m]] = None]
    /\ data' = data \ {m}
    /\ dev' = [dev EXCEPT ![m] = None]
    /\ Goto(m, "gone")
    /\ UNCHANGED <<locked, buf, super, nullm_vfs, depth>>

(* tptfs_unmount with no vnode left: drop the device, free the tpt_mount.  *)
(* With vnodes left it fails and changes nothing here.                     *)
Unmount(m) ==
    /\ phase[m] = "mounted" /\ depth[m] = 0 /\ ~Overflown
    /\ Vrele(dev[m])
    /\ data' = data \ {m}
    /\ dev' = [dev EXCEPT ![m] = None]
    /\ Goto(m, "gone")
    /\ UNCHANGED <<locked, consumer, buf, super, nullm_vfs, depth>>

-----------------------------------------------------------------------------
(* tptfs_statfs, tptfs_quotactl, tptfs_vget, tptfs_fhtovp and              *)
(* tptfs_extattrctl ask nullm_vfs for the same operation first.            *)
VfsCall(m) ==
    /\ phase[m] = "mounted" /\ depth[m] = 0 /\ ~Overflown
    /\ depth' = [depth EXCEPT ![m] = 1]
    /\ UNCHANGED <<phase, dev, refs, locked, consumer, buf, data, super, nullm_vfs>>

VfsDelegate(m) ==
    /\ depth[m] \in 1 .. StackDepth - 1 /\ nullm_vfs[m] = m /\ ~Overflown
    /\ depth' = [depth EXCEPT ![m] = @ + 1]
    /\ UNCHANGED <<phase, dev, refs, locked, consumer, buf, data, super, nullm_vfs>>

(* A mount refused before it took anything (MNT_ROOTFS, no "from" option,  *)
(* a failing namei) and tptfs_sync change nothing, at any time.            *)
Sync == UNCHANGED vars

Mounting(m) ==
    \/ MountNotDisk(m) \/ MountOpen(m) \/ MountOpenFails(m) \/ MountRead(m)
    \/ MountReadFails(m) \/ MountDone(m) \/ MountFailed(m)

Next ==
    \/ \E m \in Mounts, d \in Devices : MountName(m, d)
    \/ \E m \in Mounts : Mounting(m) \/ Unmount(m) \/ VfsCall(m) \/ VfsDelegate(m)
    \/ Sync

Spec == Init /\ [][Next]_vars

(* A mount that has begun and a call that was made go on.                  *)
FairSpec == Spec /\ \A m \in Mounts : WF_vars(Mounting(m)) /\ WF_vars(VfsDelegate(m))

-----------------------------------------------------------------------------
Using(d) == {m \in Mounts : dev[m] = d}

(* Every reference to a device belongs to a mount that uses it or is being *)
(* made: no path through tptfs_mount and tptfs_unmount drops one too few   *)
(* or one too many.                                                        *)
DeviceRefsExact == \A d \in Devices : refs[d] = Cardinality(Using(d))

(* Two mounts of one device never get as far as reading it, however their  *)
(* steps interleave.                                                       *)
OneMountPerDevice ==
    \A m, n \in Mounts :
        m # n /\ dev[m] = dev[n] /\ phase[m] \in {"opened", "read", "mounted"}
        => phase[n] \notin {"opened", "read", "mounted"}

(* A mount that failed keeps nothing: no consumer, no buffer, no memory.   *)
FailedMountClean ==
    \A m \in Mounts : phase[m] = "none" =>
        /\ m \notin data \cup super
        /\ \A d \in Devices : m \notin {locked[d], consumer[d], buf[d]}

(* A mount that has its device comes to an end: it does not wait for the   *)
(* buffer of an earlier mount.                                             *)
MountEnds == \A m \in Mounts : phase[m] = "named" ~> phase[m] \in {"none", "mounted"} \/ Overflown

(* statfs and the other operations that a mount delegates never come back: *)
(* nullm_vfs is the mount itself, so the call repeats itself until the     *)
(* kernel stack is used up, here or in a call on another mount.            *)
DelegationOverflows == \A m \in Mounts : depth[m] > 0 ~> Overflown
=============================================================================
