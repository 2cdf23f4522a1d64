---------------------------- MODULE MCTptBypass ----------------------------
(***************************************************************************)
(* A directory d with a file f, a file g that can be created, and an alias *)
(* of each.  One mount is enough for a cross-device rename: a reclaimed    *)
(* file has none.                                                          *)
(***************************************************************************)
EXTENDS TptBypass

CONSTANTS t1, d, f, g, ud, uf, ug, m1

Tree == [u \in Upper |-> CASE u = ud -> d [] u = ug -> g [] OTHER -> f]
Mounts == [u \in Upper |-> m1]

With(o, a) == [op |-> o, args |-> a, mode |-> "exclusive"]
Shared(o, u) == [op |-> o, args |-> <<u, Null, Null, Null>>, mode |-> "shared"]

(* Operations on a file, on a directory and an entry of it, and renames of *)
(* f to a new name, over g and to ".", and out of g, which is then an      *)
(* unlocked directory; a stat with a shared lock, and a read, for which    *)
(* tpt_bypass is all there is.                                             *)
AllCalls ==
    {With(o, <<u, Null, Null, Null>>) : o \in {"getattr", "setattr", "open", "pgcache"}, u \in {uf}}
    \cup {Shared(o, uf) : o \in {"read", "getattr"}}
    \cup {With("create", <<ud, Null, Null, Null>>)}
    \cup {With(o, <<ud, u, Null, Null>>) : o \in {"remove", "rmdir"}, u \in {uf}}
    \cup {With(o, <<ud, u, Null, Null>>) : o \in VputPairs, u \in {uf, Null}}
    \cup {With("rename", <<ud, uf, ud, u>>) : u \in {Null, ug, ud}}
    \cup {With("rename", <<ug, uf, ud, Null>>)}

(* One thread makes any call; the others remove, rename and read the file. *)
OneBusy ==
    [t \in Threads |->
        IF t = t1 THEN AllCalls
        ELSE {With("remove", <<ud, uf, Null, Null>>), With("rename", <<ud, uf, ud, Null>>),
              Shared("read", uf)}]
=============================================================================
