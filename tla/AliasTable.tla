----------------------------- MODULE AliasTable -----------------------------
(***************************************************************************)
(* What the node layer of tptfs promises the rest of the kernel: a table   *)
(* from a mount and a lower vnode to one alias.  An alias that somebody    *)
(* was given stays in the table while it is used, unless its mount is      *)
(* forcibly unmounted, and a mount goes only with its last alias.  TptNode *)
(* implements this with a hash, use counts, shared locks and vflush.       *)
(***************************************************************************)
CONSTANTS Threads, Lower, Upper, Mounts

VARIABLES
    alias,      \* the table: entries [mount, lower, node]
    held,       \* [Threads -> the aliases a thread was given and has not released]
    phase       \* [Mounts -> "up", "forced" or "gone"]

tableVars == <<alias, held, phase>>

Init ==
    /\ alias = {}
    /\ held = [t \in Threads |-> {}]
    /\ phase = [m \in Mounts |-> "up"]

Give(t, u) == held' = [held EXCEPT ![t] = @ \cup {u}]

Find(t, e) ==           \* the lower vnode has an alias
    /\ e \in alias
    /\ Give(t, e.node)
    /\ UNCHANGED <<alias, phase>>

Enter(t, m, l, u) ==    \* it has none yet, and gets u
    /\ phase[m] # "gone"
    /\ \A e \in alias : ~(e.mount = m /\ e.lower = l) /\ e.node # u
    /\ alias' = alias \cup {[mount |-> m, lower |-> l, node |-> u]}
    /\ Give(t, u)
    /\ UNCHANGED phase

Drop(t, u) ==
    /\ u \in held[t]
    /\ held' = [held EXCEPT ![t] = @ \ {u}]
    /\ UNCHANGED <<alias, phase>>

Leave(e) ==
    /\ e \in alias
    /\ phase[e.mount] = "forced" \/ \A t \in Threads : e.node \notin held[t]
    /\ alias' = alias \ {e}
    /\ UNCHANGED <<held, phase>>

Force(m) ==
    /\ phase[m] = "up"
    /\ phase' = [phase EXCEPT ![m] = "forced"]
    /\ UNCHANGED <<alias, held>>

Go(m) ==
    /\ phase[m] # "gone" /\ \A e \in alias : e.mount # m
    /\ phase' = [phase EXCEPT ![m] = "gone"]
    /\ UNCHANGED <<alias, held>>

Next ==
    \/ \E t \in Threads, e \in alias : Find(t, e)
    \/ \E t \in Threads, m \in Mounts, l \in Lower, u \in Upper : Enter(t, m, l, u)
    \/ \E t \in Threads, u \in Upper : Drop(t, u)
    \/ \E e \in alias : Leave(e)
    \/ \E m \in Mounts : Force(m) \/ Go(m)

Spec == Init /\ [][Next]_tableVars
=============================================================================
