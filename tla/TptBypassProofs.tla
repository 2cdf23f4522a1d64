-------------------------- MODULE TptBypassProofs --------------------------
(***************************************************************************)
(* Proofs about TptBypass.  A step of a thread moves references between    *)
(* the counters and the thread, and takes or releases locks of its own     *)
(* (ThreadStep); it leads to a state in which the thread finds what it     *)
(* relies on (one lemma for each action), and leaves what the others rely  *)
(* on alone (OtherKept, ThreadKept).                                       *)
(***************************************************************************)
EXTENDS TptBypassInv, FiniteSetTheorems, TLAPS

(* A part of a finite set, and what is left.                               *)
LEMMA PartCard ==
    ASSUME NEW A, IsFiniteSet(A), NEW B \in SUBSET A
    PROVE  /\ IsFiniteSet(B) /\ IsFiniteSet(A \ B)
           /\ Cardinality(A) \in Nat /\ Cardinality(B) \in Nat /\ Cardinality(A \ B) \in Nat
           /\ Cardinality(A) = Cardinality(B) + Cardinality(A \ B)
           /\ B # {} => Cardinality(B) >= 1
<1>1. IsFiniteSet(B) /\ IsFiniteSet(A \ B) BY FS_Subset
<1>2. Cardinality(A) \in Nat /\ Cardinality(B) \in Nat /\ Cardinality(A \ B) \in Nat
  BY <1>1, FS_CardinalityType
<1>3. B \cup (A \ B) = A /\ B \cap (A \ B) = {} OBVIOUS
<1>4. Cardinality({}) = 0 BY FS_EmptySet
<1>5. Cardinality(A) = Cardinality(B) + Cardinality(A \ B)
  <2>1. Cardinality(B \cup (A \ B))
          = Cardinality(B) + Cardinality(A \ B) - Cardinality(B \cap (A \ B)) BY <1>1, FS_Union
  <2> QED BY <1>2, <1>3, <1>4, <2>1
<1>6. B # {} => Cardinality(B) >= 1 BY <1>1, <1>2, FS_EmptySet
<1> QED BY <1>1, <1>2, <1>5, <1>6

(* The row of a in a set of pairs, and the other rows.                     *)
Row(R, J, a) == {j \in J : <<a, j>> \in R}
OtherRows(R, a) == {p \in R : p[1] # a}

(* The pairs of one thread are counted by that row, the others apart.      *)
LEMMA RowCard ==
    ASSUME NEW D, NEW J, IsFiniteSet(D), IsFiniteSet(J), NEW R \in SUBSET (D \X J), NEW a \in D
    PROVE  /\ Cardinality(R) \in Nat /\ Cardinality(Row(R, J, a)) \in Nat
           /\ Cardinality(OtherRows(R, a)) \in Nat
           /\ Cardinality(R) = Cardinality(Row(R, J, a)) + Cardinality(OtherRows(R, a))
<1> DEFINE Ra == {p \in R : p[1] = a}
           Ja == Row(R, J, a)
<1>1. IsFiniteSet(D \X J) BY FS_Product
<1>2. IsFiniteSet(R) BY <1>1, FS_Subset
<1>3. IsFiniteSet(Ja) /\ Cardinality(Ja) \in Nat BY FS_Subset, FS_CardinalityType DEF Row
<1>4. Ra = {a} \X Ja BY DEF Row
<1>5. IsFiniteSet({a}) /\ Cardinality({a}) = 1 BY FS_Singleton
<1>6. Cardinality(Ra) = Cardinality(Ja)
  <2>1. Cardinality({a} \X Ja) = Cardinality({a}) * Cardinality(Ja)
    <3> HIDE DEF Ja
    <3> QED BY <1>3, <1>5, FS_Product
  <2> HIDE DEF Ra, Ja
  <2> QED BY <1>3, <1>4, <1>5, <2>1
<1>7. Ra \in SUBSET R /\ R \ Ra = OtherRows(R, a) BY DEF OtherRows
<1> HIDE DEF Ra
<1>8. /\ Cardinality(R) \in Nat /\ Cardinality(R \ Ra) \in Nat
      /\ Cardinality(R) = Cardinality(Ra) + Cardinality(R \ Ra) BY <1>2, <1>7, PartCard
<1> QED BY <1>3, <1>6, <1>7, <1>8

(* Changing one row of a set of pairs changes its cardinality by the row's.*)
LEMMA RowMoves ==
    ASSUME NEW D, NEW J, IsFiniteSet(D), IsFiniteSet(J), NEW R \in SUBSET (D \X J),
           NEW Q \in SUBSET (D \X J), NEW a \in D,
           \A d \in D \ {a}, j \in J : <<d, j>> \in Q <=> <<d, j>> \in R
    PROVE  /\ Cardinality(R) \in Nat
           /\ Cardinality(Row(R, J, a)) \in Nat /\ Cardinality(Row(Q, J, a)) \in Nat
           /\ Cardinality(Q) = Cardinality(R) + Cardinality(Row(Q, J, a)) - Cardinality(Row(R, J, a))
<1>1. /\ Cardinality(R) \in Nat /\ Cardinality(Row(R, J, a)) \in Nat
      /\ Cardinality(R) = Cardinality(Row(R, J, a)) + Cardinality(OtherRows(R, a)) BY RowCard
<1>2. /\ Cardinality(Q) \in Nat /\ Cardinality(Row(Q, J, a)) \in Nat
      /\ Cardinality(Q) = Cardinality(Row(Q, J, a)) + Cardinality(OtherRows(Q, a)) BY RowCard
<1>3. OtherRows(R, a) = OtherRows(Q, a)
  <2>1. ASSUME NEW p \in OtherRows(R, a) PROVE p \in OtherRows(Q, a)
    <3>1. PICK d \in D, j \in J : p = <<d, j>> BY DEF OtherRows
    <3> QED BY <3>1 DEF OtherRows
  <2>2. ASSUME NEW p \in OtherRows(Q, a) PROVE p \in OtherRows(R, a)
    <3>1. PICK d \in D, j \in J : p = <<d, j>> BY DEF OtherRows
    <3> QED BY <3>1 DEF OtherRows
  <2> QED BY <2>1, <2>2
<1>4. Cardinality(OtherRows(R, a)) \in Nat BY RowCard
<1> QED BY <1>1, <1>2, <1>3, <1>4

(* A set that changes in one member at most.                               *)
In(a, S) == IF a \in S THEN 1 ELSE 0

(* A set that changes in one member at most: its cardinality follows that  *)
(* member.                                                                 *)
LEMMA CountMoves ==
    ASSUME NEW D, IsFiniteSet(D), NEW A \in SUBSET D, NEW B \in SUBSET D, NEW a \in D,
           \A d \in D \ {a} : d \in B <=> d \in A
    PROVE  /\ Cardinality(A) \in Nat
           /\ Cardinality(B) = Cardinality(A) + In(a, B) - In(a, A)
<1>1. IsFiniteSet(A) /\ IsFiniteSet(B) BY FS_Subset
<1>2. Cardinality(A) \in Nat /\ Cardinality(B) \in Nat BY <1>1, FS_CardinalityType
<1>3. CASE a \in A /\ a \notin B
  <2>1. Cardinality(B) = Cardinality(A) - 1
    <3>1. B = A \ {a} BY <1>3
    <3> QED BY <1>1, <1>3, <3>1, FS_RemoveElement
  <2> QED BY <1>2, <1>3, <2>1 DEF In
<1>4. CASE a \notin A /\ a \in B
  <2>1. Cardinality(B) = Cardinality(A) + 1
    <3>1. B = A \cup {a} BY <1>4
    <3> QED BY <1>1, <1>4, <3>1, FS_AddElement
  <2> QED BY <1>2, <1>4, <2>1 DEF In
<1>5. CASE a \in A <=> a \in B
  <2>1. A = B BY <1>5
  <2> QED BY <1>2, <2>1 DEF In
<1> QED BY <1>3, <1>4, <1>5

-----------------------------------------------------------------------------
(* How often a vnode is among arguments.                                   *)

(* An operation has four arguments at most.                                *)
LEMMA FourFinite == IsFiniteSet(1 .. 4)
<1>1. 1 \in Int /\ 4 \in Int OBVIOUS
<1> QED BY <1>1, FS_Interval, Zenon

(* How often an alias is among arguments is a number.                      *)
LEMMA TimesNat ==
    ASSUME NEW a, NEW J \in SUBSET (1 .. 4), NEW u
    PROVE  Times(a, J, u) \in Nat
<1>1. IsFiniteSet({j \in J : a[j] = u}) BY FourFinite, FS_Subset
<1> QED BY <1>1, FS_CardinalityType DEF Times

(* The same for a lower vnode.                                             *)
LEMMA LowerTimesNat ==
    ASSUME NEW a, NEW J \in SUBSET (1 .. 4), NEW l
    PROVE  LowerTimes(a, J, l) \in Nat
<1>1. IsFiniteSet({j \in J : a[j] # Null /\ Below[a[j]] = l}) BY FourFinite, FS_Subset
<1> QED BY <1>1, FS_CardinalityType DEF LowerTimes

(* No argument, no reference.                                              *)
LEMMA TimesNone ==
    ASSUME NEW a, NEW u
    PROVE  Times(a, {}, u) = 0 /\ LowerTimes(a, {}, u) = 0
<1>1. {j \in {} : a[j] = u} = {} /\ {j \in {} : a[j] # Null /\ Below[a[j]] = u} = {} OBVIOUS
<1> QED BY <1>1, FS_EmptySet DEF Times, LowerTimes

(* References of arguments are added up.                                   *)
LEMMA TimesSplit ==
    ASSUME NEW a, NEW K \in SUBSET (1 .. 4), NEW J \in SUBSET K, NEW u
    PROVE  Times(a, K, u) = Times(a, J, u) + Times(a, K \ J, u)
<1> DEFINE A == {j \in K : a[j] = u}
           B == {j \in J : a[j] = u}
<1>1. IsFiniteSet(A) BY FourFinite, FS_Subset
<1>2. B \in SUBSET A /\ A \ B = {j \in K \ J : a[j] = u} OBVIOUS
<1> HIDE DEF A, B
<1>3. Cardinality(A) = Cardinality(B) + Cardinality(A \ B) BY <1>1, <1>2, PartCard
<1> QED BY <1>2, <1>3 DEF A, B, Times

(* A vnode that is not among the arguments.                                *)
LEMMA TimesZero ==
    ASSUME NEW a, NEW J, NEW u, \A j \in J : a[j] # u
    PROVE  Times(a, J, u) = 0
<1>1. {j \in J : a[j] = u} = {} OBVIOUS
<1> QED BY <1>1, FS_EmptySet DEF Times

-----------------------------------------------------------------------------
(* What the steps of a thread have in common.  They leave the locals of    *)
(* the others alone and neither take nor release their locks, and make     *)
(* aliases live only in an empty slot.                                     *)
Same(s) ==
    /\ pc'[s] = pc[s] /\ op'[s] = op[s] /\ args'[s] = args[s] /\ mode'[s] = mode[s]
    /\ mapped'[s] = mapped[s] /\ rest'[s] = rest[s] /\ err'[s] = err[s]
    /\ spare'[s] = spare[s] /\ up'[s] = up[s] /\ wfile'[s] = wfile[s]
Frame(t) == \A s \in Threads \ {t} : Same(s)
LockFrame(t) ==
    \A s \in Threads \ {t}, k \in Lower \cup Upper : s \in lock'[k] <=> s \in lock[k]

(* A step moves references between the counters and the thread.            *)
Is(v, x) == IF v = x THEN 1 ELSE 0
LiveOn(l) == {u \in Upper : st[u] = "live" /\ Below[u] = l}
UserStep(t) ==
    \A u \in Upper :
        uuse'[u] = uuse[u] + Times(args[t]', HeldArgs(t)', u) - Times(args[t], HeldArgs(t), u)
                    + Is(up'[t], u) - Is(up[t], u) + Is(wfile'[t], u) - Is(wfile[t], u)
LowerStep(t) ==
    \A l \in Lower :
        luse'[l] = luse[l] + Cardinality(LiveOn(l))' - Cardinality(LiveOn(l))
                    + Is(spare'[t], l) - Is(spare[t], l)
                    + LowerTimes(args[t]', LentArgs(t)', l) - LowerTimes(args[t], LentArgs(t), l)

(* The arguments a call holds or lends are argument positions.             *)
LEMMA HeldType ==
    ASSUME TypeOK, NEW t \in Threads
    PROVE  HeldArgs(t) \in SUBSET (1 .. 4) /\ LentArgs(t) \in SUBSET (1 .. 4)
BY DEF TypeOK, HeldArgs, LentArgs, Kept, Given, PairRefs

(* A call lends references of arguments that it has: NULL is never mapped. *)
LEMMA LentGiven ==
    ASSUME TypeOK, NEW t \in Threads, ThreadInv(t), NEW j \in LentArgs(t)
    PROVE  args[t][j] # Null
BY DEF TypeOK, ThreadInv, MapInv, InCall, LentArgs, Given, PairRefs

(* Holders of x in one of the threads' locals.                             *)
LEMMA HoldersMove ==
    ASSUME NEW f \in [Threads -> UNION {Upper, Lower, {Null}}],
           NEW g \in [Threads -> UNION {Upper, Lower, {Null}}], NEW t \in Threads, NEW x,
           \A s \in Threads \ {t} : g[s] = f[s]
    PROVE  /\ Cardinality({s \in Threads : f[s] = x}) \in Nat
           /\ Cardinality({s \in Threads : g[s] = x})
                = Cardinality({s \in Threads : f[s] = x}) + Is(g[t], x) - Is(f[t], x)
<1> DEFINE A == {s \in Threads : f[s] = x}
           B == {s \in Threads : g[s] = x}
<1>1. In(t, B) = Is(g[t], x) /\ In(t, A) = Is(f[t], x) BY DEF In, Is
<1>2. A \in SUBSET Threads /\ B \in SUBSET Threads /\ \A s \in Threads \ {t} : s \in B <=> s \in A
  OBVIOUS
<1> HIDE DEF A, B
<1>3. /\ Cardinality(A) \in Nat
      /\ Cardinality(B) = Cardinality(A) + In(t, B) - In(t, A)
  BY <1>2, CountMoves, BypassConstants
<1> QED BY <1>1, <1>3 DEF A, B

(* A step of t changes the references that the calls hold by those of t.   *)
LEMMA UserRefsMove ==
    ASSUME TypeOK, TypeOK', NEW t \in Threads, Frame(t), NEW u
    PROVE  /\ Cardinality(UserRefs(u)) \in Nat
           /\ Times(args[t]', HeldArgs(t)', u) \in Nat /\ Times(args[t], HeldArgs(t), u) \in Nat
           /\ Cardinality(UserRefs(u))' = Cardinality(UserRefs(u))
                + Times(args[t]', HeldArgs(t)', u) - Times(args[t], HeldArgs(t), u)
<1> DEFINE R == UserRefs(u)
           Q == UserRefs(u)'
           F == 1 .. 4
<1>1. R \in SUBSET (Threads \X F) /\ Q \in SUBSET (Threads \X F) BY DEF UserRefs
<1>2. /\ HeldArgs(t) \in SUBSET (1 .. 4) /\ HeldArgs(t)' \in SUBSET (1 .. 4)
  <2>1. HeldArgs(t) \in SUBSET (1 .. 4) BY HeldType
  <2>2. HeldArgs(t)' \in SUBSET (1 .. 4) BY DEF TypeOK, HeldArgs, Kept, Given, PairRefs
  <2> QED BY <2>1, <2>2
<1>3. Row(R, F, t) = {j \in HeldArgs(t) : args[t][j] = u} BY <1>2 DEF Row, UserRefs
<1>4. Row(Q, F, t) = {j \in HeldArgs(t)' : args'[t][j] = u} BY <1>2 DEF Row, UserRefs
<1>5. \A s \in Threads \ {t}, j \in F : <<s, j>> \in Q <=> <<s, j>> \in R
  <2> SUFFICES ASSUME NEW s \in Threads \ {t}, NEW j \in F
               PROVE  <<s, j>> \in Q <=> <<s, j>> \in R
    OBVIOUS
  <2>1. HeldArgs(s)' = HeldArgs(s) BY DEF Frame, Same, HeldArgs, Kept, PairRefs
  <2> QED BY <2>1 DEF UserRefs, Frame, Same
<1> HIDE DEF R, Q
<1>6. IsFiniteSet(F) /\ IsFiniteSet(Threads) BY FourFinite, BypassConstants
<1> HIDE DEF F
<1>7. /\ Cardinality(R) \in Nat
      /\ Cardinality(Row(R, F, t)) \in Nat /\ Cardinality(Row(Q, F, t)) \in Nat
  BY <1>1, <1>5, <1>6, RowMoves
<1>8. Cardinality(Q) = Cardinality(R) + Cardinality(Row(Q, F, t)) - Cardinality(Row(R, F, t))
  BY <1>1, <1>5, <1>6, RowMoves
<1> QED BY <1>3, <1>4, <1>7, <1>8 DEF R, Q, Times

(* The same for the references lent to the lower layer.                    *)
LEMMA LentRefsMove ==
    ASSUME TypeOK, TypeOK', NEW t \in Threads, Frame(t), NEW l,
           \A j \in LentArgs(t) : args[t][j] # Null, \A j \in LentArgs(t)' : args'[t][j] # Null
    PROVE  /\ Cardinality(LentRefs(l)) \in Nat
           /\ LowerTimes(args[t]', LentArgs(t)', l) \in Nat
           /\ LowerTimes(args[t], LentArgs(t), l) \in Nat
           /\ Cardinality(LentRefs(l))' = Cardinality(LentRefs(l))
                + LowerTimes(args[t]', LentArgs(t)', l) - LowerTimes(args[t], LentArgs(t), l)
<1> DEFINE R == LentRefs(l)
           Q == LentRefs(l)'
           F == 1 .. 4
<1>1. R \in SUBSET (Threads \X F) /\ Q \in SUBSET (Threads \X F) BY DEF LentRefs
<1>2. /\ LentArgs(t) \in SUBSET (1 .. 4) /\ LentArgs(t)' \in SUBSET (1 .. 4)
  <2>1. LentArgs(t) \in SUBSET (1 .. 4) BY HeldType
  <2>2. LentArgs(t)' \in SUBSET (1 .. 4) BY DEF TypeOK, LentArgs, Given, PairRefs
  <2> QED BY <2>1, <2>2
<1>3. Row(R, F, t) = {j \in LentArgs(t) : args[t][j] # Null /\ Below[args[t][j]] = l}
  BY <1>2 DEF Row, LentRefs
<1>4. Row(Q, F, t) = {j \in LentArgs(t)' : args'[t][j] # Null /\ Below[args'[t][j]] = l}
  BY <1>2 DEF Row, LentRefs
<1>5. \A s \in Threads \ {t}, j \in F : <<s, j>> \in Q <=> <<s, j>> \in R
  <2> SUFFICES ASSUME NEW s \in Threads \ {t}, NEW j \in F
               PROVE  <<s, j>> \in Q <=> <<s, j>> \in R
    OBVIOUS
  <2>1. LentArgs(s)' = LentArgs(s) BY DEF Frame, Same, LentArgs, PairRefs
  <2> QED BY <2>1 DEF LentRefs, Frame, Same
<1> HIDE DEF R, Q
<1>6. IsFiniteSet(F) /\ IsFiniteSet(Threads) BY FourFinite, BypassConstants
<1> HIDE DEF F
<1>7. /\ Cardinality(R) \in Nat
      /\ Cardinality(Row(R, F, t)) \in Nat /\ Cardinality(Row(Q, F, t)) \in Nat
  BY <1>1, <1>5, <1>6, RowMoves
<1>8. Cardinality(Q) = Cardinality(R) + Cardinality(Row(Q, F, t)) - Cardinality(Row(R, F, t))
  BY <1>1, <1>5, <1>6, RowMoves
<1> QED BY <1>3, <1>4, <1>7, <1>8 DEF R, Q, LowerTimes

(* The counters stay exact.                                                *)
LEMMA UserKept ==
    ASSUME TypeOK, TypeOK', RefInv, NEW t \in Threads, Frame(t), UserStep(t), NEW u \in Upper
    PROVE  /\ uuse'[u] = Cardinality(UserRefs(u))' + Cardinality({s \in Threads : up[s] = u})'
                + Cardinality({s \in Threads : wfile[s] = u})'
           /\ uuse'[u] >= 0
<1> DEFINE a == Cardinality(UserRefs(u))
           b == Cardinality({s \in Threads : up[s] = u})
           c == Cardinality({s \in Threads : wfile[s] = u})
           x == Times(args[t], HeldArgs(t), u)
           y == Times(args[t]', HeldArgs(t)', u)
<1>1. a \in Nat /\ x \in Nat /\ y \in Nat /\ a' = a + y - x BY UserRefsMove
<1>2. b \in Nat /\ b' = b + Is(up'[t], u) - Is(up[t], u)
  <2>1. /\ up \in [Threads -> UNION {Upper, Lower, {Null}}]
        /\ up' \in [Threads -> UNION {Upper, Lower, {Null}}]
        /\ \A s \in Threads \ {t} : up'[s] = up[s] BY DEF TypeOK, Frame, Same
  <2> QED BY <2>1, HoldersMove
<1>3. c \in Nat /\ c' = c + Is(wfile'[t], u) - Is(wfile[t], u)
  <2>1. /\ wfile \in [Threads -> UNION {Upper, Lower, {Null}}]
        /\ wfile' \in [Threads -> UNION {Upper, Lower, {Null}}]
        /\ \A s \in Threads \ {t} : wfile'[s] = wfile[s] BY DEF TypeOK, Frame, Same
  <2> QED BY <2>1, HoldersMove
<1>4. a' \in Nat /\ b' \in Nat /\ c' \in Nat
  <2>1. IsFiniteSet(Threads) /\ IsFiniteSet(Threads \X (1 .. 4))
    BY FourFinite, FS_Product, BypassConstants
  <2>2. IsFiniteSet(UserRefs(u)') BY <2>1, FS_Subset DEF UserRefs
  <2>3. IsFiniteSet({s \in Threads : up'[s] = u}) /\ IsFiniteSet({s \in Threads : wfile'[s] = u})
    BY <2>1, FS_Subset
  <2> QED BY <2>2, <2>3, FS_CardinalityType
<1>5. uuse[u] = a + b + c BY DEF RefInv
<1>6. uuse'[u] = uuse[u] + y - x + Is(up'[t], u) - Is(up[t], u) + Is(wfile'[t], u) - Is(wfile[t], u)
  BY DEF UserStep
<1> HIDE DEF a, b, c, x, y
<1>7. uuse'[u] = a' + b' + c' /\ uuse'[u] >= 0
  BY <1>1, <1>2, <1>3, <1>4, <1>5, <1>6 DEF Is
<1> QED BY <1>7 DEF a, b, c

(* The live aliases of a lower vnode can be counted.                       *)
LEMMA LiveFinite ==
    ASSUME NEW l
    PROVE  /\ IsFiniteSet(LiveOn(l)) /\ Cardinality(LiveOn(l)) \in Nat
           /\ IsFiniteSet(LiveOn(l)') /\ Cardinality(LiveOn(l))' \in Nat
<1>1. IsFiniteSet(LiveOn(l)) /\ IsFiniteSet(LiveOn(l)') BY FS_Subset, BypassConstants DEF LiveOn
<1> QED BY <1>1, FS_CardinalityType

(* v_usecount of a lower vnode stays exact in a step that moves a thread's *)
(* references along with the counter.                                      *)
LEMMA LowerKept ==
    ASSUME TypeOK, TypeOK', RefInv, NEW t \in Threads, Frame(t), LowerStep(t), NEW l \in Lower,
           \A j \in LentArgs(t) : args[t][j] # Null, \A j \in LentArgs(t)' : args'[t][j] # Null
    PROVE  luse'[l] = Cardinality({u \in Upper : st[u] = "live" /\ Below[u] = l})'
                + Cardinality({s \in Threads : spare[s] = l})' + Cardinality(LentRefs(l))'
<1> DEFINE a == Cardinality(LentRefs(l))
           b == Cardinality({s \in Threads : spare[s] = l})
           c == Cardinality(LiveOn(l))
           x == LowerTimes(args[t], LentArgs(t), l)
           y == LowerTimes(args[t]', LentArgs(t)', l)
<1>1. a \in Nat /\ x \in Nat /\ y \in Nat /\ a' = a + y - x BY LentRefsMove
<1>2. b \in Nat /\ b' = b + Is(spare'[t], l) - Is(spare[t], l)
  <2>1. /\ spare \in [Threads -> UNION {Upper, Lower, {Null}}]
        /\ spare' \in [Threads -> UNION {Upper, Lower, {Null}}]
        /\ \A s \in Threads \ {t} : spare'[s] = spare[s] BY DEF TypeOK, Frame, Same
  <2> QED BY <2>1, HoldersMove, ZenonT(60)
<1>3. c \in Nat /\ c' \in Nat BY LiveFinite
<1>4. luse[l] = c + b + a BY DEF RefInv, LiveOn
<1>5. luse'[l] = luse[l] + c' - c + Is(spare'[t], l) - Is(spare[t], l) + y - x BY DEF LowerStep
<1> HIDE DEF a, b, c, x, y
<1>6. luse'[l] = c' + b' + a' BY <1>1, <1>2, <1>3, <1>4, <1>5 DEF Is
<1> QED BY <1>6 DEF a, b, c, LiveOn

-----------------------------------------------------------------------------
(* A thread uses an alias that it holds a reference on.                    *)
Uses(s, u) ==
    (\E j \in HeldArgs(s) : args[s][j] = u) \/ up[s] = u \/ wfile[s] = u

(* An alias that a thread uses is counted, so that its slot is not empty.  *)
LEMMA UsedAlias ==
    ASSUME TypeOK, RefInv, NEW s \in Threads, NEW u \in Upper, Uses(s, u)
    PROVE  uuse[u] >= 1 /\ st[u] # "none"
<1> DEFINE A == UserRefs(u)
           B == {r \in Threads : up[r] = u}
           C == {r \in Threads : wfile[r] = u}
<1>1. IsFiniteSet(A) /\ IsFiniteSet(B) /\ IsFiniteSet(C)
  <2>1. IsFiniteSet(Threads) /\ IsFiniteSet(Threads \X (1 .. 4))
    BY FourFinite, FS_Product, BypassConstants
  <2> QED BY <2>1, FS_Subset DEF UserRefs
<1>2. A # {} \/ B # {} \/ C # {}
  <2>1. ASSUME NEW j \in HeldArgs(s), args[s][j] = u PROVE <<s, j>> \in A
    <3>1. j \in 1 .. 4 BY HeldType
    <3> QED BY <2>1, <3>1 DEF UserRefs
  <2> QED BY <2>1 DEF Uses
<1>3. uuse[u] = Cardinality(A) + Cardinality(B) + Cardinality(C) BY DEF RefInv
<1> HIDE DEF A, B, C
<1>4. Cardinality(A) \in Nat /\ Cardinality(B) \in Nat /\ Cardinality(C) \in Nat
  BY <1>1, FS_CardinalityType
<1>5. /\ A # {} => Cardinality(A) # 0
      /\ B # {} => Cardinality(B) # 0
      /\ C # {} => Cardinality(C) # 0 BY <1>1, FS_EmptySet
<1>6. uuse[u] >= 1 BY <1>2, <1>3, <1>4, <1>5
<1> QED BY <1>6 DEF RefInv, TypeOK

(* Aliases become live in an empty slot, and are reclaimed with the lower  *)
(* vnode's lock free.                                                      *)
StStep ==
    \A u \in Upper :
        /\ st[u] = "live" /\ st'[u] # "live" => lock[Below[u]] = {}
        /\ st[u] # "live" /\ st'[u] = "live" => st[u] = "none"

(* The loop that maps the arguments back is where it was.                  *)
LEMMA TurnSame ==
    ASSUME NEW s, rest'[s] = rest[s]
    PROVE  Turn(s)' = Turn(s)
BY DEF Turn

(* The loop goes to an argument that is not mapped back yet.               *)
LEMMA TurnIn ==
    ASSUME TypeOK, NEW s \in Threads, rest[s] # {}
    PROVE  Turn(s) \in rest[s] /\ Turn(s) \in 1 .. 4
<1>1. rest[s] \in SUBSET (1 .. 4) BY DEF TypeOK
<1>2. \E j \in rest[s] : \A k \in rest[s] : j <= k
  <2>1. CASE 1 \in rest[s] BY <1>1, <2>1
  <2>2. CASE 1 \notin rest[s] /\ 2 \in rest[s] BY <1>1, <2>2
  <2>3. CASE 1 \notin rest[s] /\ 2 \notin rest[s] /\ 3 \in rest[s] BY <1>1, <2>3
  <2>4. CASE 1 \notin rest[s] /\ 2 \notin rest[s] /\ 3 \notin rest[s] BY <1>1, <2>4
  <2> QED BY <2>1, <2>2, <2>3, <2>4
<1> QED BY <1>1, <1>2 DEF Turn

(* An argument that is locked through its alias is in a slot that is taken.*)
LEMMA SidesUsed ==
    ASSUME TypeOK, RefInv, NEW s \in Threads, ThreadInv(s), NEW j \in UpSide(s)
    PROVE  args[s][j] \in Upper /\ st[args[s][j]] # "none"
<1>1. j \in 1 .. 4 /\ j \in Given(args[s]) /\ j \in HeldArgs(s)
  BY DEF UpSide, HeldArgs, LockedArgs, Given, Kept, PairRefs, ThreadInv, CallInv, VputPairs
<1>2. args[s][j] \in Upper BY <1>1 DEF Given, TypeOK
<1> QED BY <1>1, <1>2, UsedAlias DEF Uses

(* What a thread relies on is kept by a step of another one, or of the     *)
(* forced unmount: locks are taken when free and released by their owner,  *)
(* and an alias is reclaimed only with its lower lock free.                *)
LEMMA OtherKept ==
    ASSUME TypeOK, TypeOK', RefInv, NEW s \in Threads, ThreadInv(s), pc[s] # "panic", Same(s), StStep,
           \A k \in Lower \cup Upper : s \in lock'[k] <=> s \in lock[k]
    PROVE  ThreadInv(s)'
<1>1. CallInv(s)' BY DEF ThreadInv, CallInv, Same
<1>2. /\ LowSide(s)' = LowSide(s) /\ UpSide(s)' = UpSide(s) /\ Turn(s)' = Turn(s)
  <2>1. Turn(s)' = Turn(s) BY TurnSame DEF Same
  <2>2. PairRefs(s)' = PairRefs(s) /\ Kept(s)' = Kept(s) BY DEF Same, PairRefs, Kept
  <2>3. LowSide(s)' = LowSide(s) BY <2>1, <2>2 DEF Same, LowSide
  <2>4. UpSide(s)' = UpSide(s) BY <2>2 DEF Same, UpSide
  <2> QED BY <2>1, <2>3, <2>4
<1>3. ASSUME NEW u \in Upper, Vnlock(u) \in Locks(s), st[u] # "none"
      PROVE  Vnlock(u)' = Vnlock(u) /\ (st[u] = "live" <=> st'[u] = "live")
  <2>1. s \in lock[Vnlock(u)]
    <3>1. Vnlock(u) \in Lower \cup Upper BY BypassConstants DEF Vnlock
    <3> QED BY <3>1, <1>3 DEF ThreadInv, LockInv
  <2>2. st[u] = "live" => st'[u] = "live"
    BY <2>1, BypassConstants DEF StStep, Vnlock
  <2> QED BY <1>3, <2>2 DEF StStep, Vnlock
<1>4. ASSUME NEW j \in UpSide(s)
      PROVE  Vnlock(args[s][j])' = Vnlock(args[s][j])
             /\ (st[args[s][j]] = "live" <=> st'[args[s][j]] = "live")
  <2>1. args[s][j] \in Upper /\ st[args[s][j]] # "none" BY SidesUsed
  <2>2. Vnlock(args[s][j]) \in Locks(s) BY DEF Locks
  <2>3. args'[s] = args[s] BY DEF Same
  <2>4. st[args[s][j]] = "live" <=> st'[args[s][j]] = "live" BY <1>3, <2>1, <2>2
  <2> QED BY <2>3, <2>4 DEF Vnlock
<1>5. ASSUME NEW j \in LowSide(s), args[s][j] \in Upper, st[args[s][j]] = "live"
      PROVE  st'[args[s][j]] = "live"
  <2>1. Below[args[s][j]] \in Locks(s) BY DEF Locks
  <2>2. s \in lock[Below[args[s][j]]] BY <1>5, <2>1, BypassConstants DEF ThreadInv, LockInv
  <2> QED BY <1>5, <2>2, BypassConstants DEF StStep
<1>6. up[s] # Null => Vnlock(up[s])' = Vnlock(up[s])
  <2> SUFFICES ASSUME up[s] # Null PROVE Vnlock(up[s])' = Vnlock(up[s]) OBVIOUS
  <2>1. up[s] \in Upper BY DEF TypeOK
  <2>2. st[up[s]] # "none" BY <2>1, UsedAlias DEF Uses
  <2>3. Vnlock(up[s]) \in Locks(s) BY DEF Locks
  <2>4. st[up[s]] = "live" <=> st'[up[s]] = "live" BY <1>3, <2>1, <2>2, <2>3
  <2>5. up'[s] = up[s] BY DEF Same
  <2> QED BY <2>4, <2>5 DEF Vnlock
<1>7. LockInv(s)'
  <2>1. Locks(s)' = Locks(s) BY <1>2, <1>4, <1>6 DEF Locks, Same
  <2> QED BY <2>1 DEF ThreadInv, LockInv, Same
<1>8. MapInv(s)'
  <2>1. ASSUME pc[s] = "move" PROVE st'[args[s][Turn(s)]] # "live"
    <3>1. rest[s] # {} /\ op[s] # "rename" /\ st[args[s][Turn(s)]] # "live"
          /\ rest[s] \subseteq mapped[s] /\ mapped[s] \subseteq Given(args[s])
      BY <2>1 DEF ThreadInv, MapInv, CallInv, InCall
    <3>2. Turn(s) \in rest[s] /\ Turn(s) \in 1 .. 4 BY <3>1, TurnIn
    <3>3. HeldArgs(s) = Given(args[s]) BY <2>1, <3>1 DEF HeldArgs
    <3>4. args[s][Turn(s)] \in Upper BY <3>1, <3>2 DEF Given, TypeOK
    <3>5. st[args[s][Turn(s)]] # "none" BY <3>1, <3>2, <3>3, <3>4, UsedAlias DEF Uses
    <3> QED BY <3>1, <3>4, <3>5 DEF StStep
  <2> QED BY <1>2, <2>1 DEF ThreadInv, MapInv, Same
<1>9. SpareInv(s)' BY DEF ThreadInv, SpareInv, Same
<1>10. LiveInv(s)'
  <2>1. ASSUME pc[s] \in {"pre", "map", "pair", "pair_back"}, NEW j \in LowSide(s)
        PROVE  st'[args[s][j]] = "live"
    <3>1. st[args[s][j]] = "live" BY <2>1 DEF ThreadInv, LiveInv
    <3>2. args[s][j] \in Upper BY <2>1 DEF LowSide, LockedArgs, Given, TypeOK
    <3> QED BY <1>5, <3>1, <3>2
  <2>2. ASSUME pc[s] \in InCall, op[s] \notin LowerUnlocks \cup {"rename"},
               NEW j \in LockedArgs(op[s], args[s])
        PROVE  st'[args[s][j]] = "live"
    <3>1. st[args[s][j]] = "live" BY <2>2 DEF ThreadInv, LiveInv
    <3>2. args[s][j] \in Upper BY <2>2 DEF LockedArgs, Given, TypeOK
    <3>3. pc[s] # "unlocked" BY <2>2 DEF ThreadInv, CallInv
    <3>4. pc[s] = "move" => j # Turn(s) BY <3>1 DEF ThreadInv, MapInv
    <3>5. mode[s] = "shared" => pc[s] \notin {"move", "nodeget"}
      BY DEF ThreadInv, CallInv, SharedOps
    <3>6. j \in LowSide(s) \/ j \in UpSide(s)
      BY <2>2, <3>3, <3>4, <3>5 DEF LowSide, UpSide, InCall, TypeOK, Modes
    <3> QED BY <1>4, <1>5, <3>1, <3>2, <3>6
  <2>3. ASSUME pc[s] = "ret", mode[s] = "shared", st'[args[s][1]] # "live"
        PROVE  mapped[s] # {} /\ op[s] \in LowerUnlocks
    <3>1. args[s][1] \in Upper /\ 1 \in LowSide(s)
      BY <2>3 DEF ThreadInv, CallInv, LowSide, LockedArgs, Given, SharedOps, TypeOK
    <3>2. st[args[s][1]] # "live" BY <1>5, <2>3, <3>1
    <3> QED BY <2>3, <3>2 DEF ThreadInv, LiveInv
  <2> QED BY <1>2, <2>1, <2>2, <2>3 DEF LiveInv, Same
<1>11. PanicInv(s)' BY DEF PanicInv, Same
<1> QED BY <1>1, <1>7, <1>8, <1>9, <1>10, <1>11 DEF ThreadInv

-----------------------------------------------------------------------------
(* A thread empties no slot, and takes no reference on an empty one.       *)
NoneStep ==
    \A u \in Upper : st'[u] = "none" => st[u] = "none" /\ uuse'[u] <= uuse[u]
ThreadStep(t) ==
    /\ Frame(t) /\ LockFrame(t) /\ StStep /\ NoneStep /\ UserStep(t) /\ LowerStep(t)

(* Steps that leave the references alone.                                  *)
LEMMA UserSame ==
    ASSUME TypeOK, NEW t \in Threads, UNCHANGED uuse, args'[t] = args[t], HeldArgs(t)' = HeldArgs(t),
           up'[t] = up[t], wfile'[t] = wfile[t]
    PROVE  UserStep(t)
<1> SUFFICES ASSUME NEW u \in Upper
             PROVE  uuse'[u] = uuse[u]
                      + Times(args[t]', HeldArgs(t)', u) - Times(args[t], HeldArgs(t), u)
                      + Is(up'[t], u) - Is(up[t], u) + Is(wfile'[t], u) - Is(wfile[t], u)
  BY DEF UserStep
<1>1. Times(args[t], HeldArgs(t), u) \in Nat BY HeldType, TimesNat
<1>2. uuse[u] \in Int BY DEF TypeOK
<1> QED BY <1>1, <1>2 DEF Is

(* The same for lower vnodes.                                              *)
LEMMA LowerSame ==
    ASSUME TypeOK, NEW t \in Threads, UNCHANGED <<luse, st>>, args'[t] = args[t],
           LentArgs(t)' = LentArgs(t), spare'[t] = spare[t]
    PROVE  LowerStep(t)
<1> SUFFICES ASSUME NEW l \in Lower
             PROVE  luse'[l] = luse[l] + Cardinality(LiveOn(l))' - Cardinality(LiveOn(l))
                      + Is(spare'[t], l) - Is(spare[t], l)
                      + LowerTimes(args[t]', LentArgs(t)', l) - LowerTimes(args[t], LentArgs(t), l)
  BY DEF LowerStep
<1>1. LowerTimes(args[t], LentArgs(t), l) \in Nat BY HeldType, LowerTimesNat
<1>2. luse[l] \in Int BY DEF TypeOK
<1>3. Cardinality(LiveOn(l))' = Cardinality(LiveOn(l)) BY DEF LiveOn
<1>4. Cardinality(LiveOn(l)) \in Nat BY LiveFinite
<1> QED BY <1>1, <1>2, <1>3, <1>4 DEF Is

(* Steps that change the label, and perhaps the error, and nothing else.   *)
Quiet(t) ==
    /\ UNCHANGED <<st, uuse, luse, lock, wc, lwc, obj, op, args, mode, mapped, rest, spare, up, wfile>>
    /\ pc' = [pc EXCEPT ![t] = pc'[t]] /\ pc'[t] \in Labels
    /\ err' = [err EXCEPT ![t] = err'[t]] /\ err'[t] \in BOOLEAN

(* Such a step moves no reference and no lock.                             *)
LEMMA QuietStep ==
    ASSUME TypeOK, NEW t \in Threads, Quiet(t),
           HeldArgs(t)' = HeldArgs(t), LentArgs(t)' = LentArgs(t)
    PROVE  TypeOK' /\ ThreadStep(t)
<1> USE DEF Quiet
<1>1. TypeOK'
  <2>1. pc' \in [Threads -> Labels] /\ err' \in [Threads -> BOOLEAN] BY DEF TypeOK
  <2> QED BY <2>1 DEF TypeOK
<1>2. Frame(t) BY DEF TypeOK, Frame, Same
<1>3. LockFrame(t) /\ StStep BY DEF LockFrame, StStep
<1>4. NoneStep BY DEF NoneStep, TypeOK
<1>5. UserStep(t) BY UserSame
<1>6. LowerStep(t) BY LowerSame
<1> QED BY <1>1, <1>2, <1>3, <1>4, <1>5, <1>6 DEF ThreadStep

(* A lock is exclusive or shared, and shared only in an operation on one   *)
(* vnode that changes no directory.                                        *)
LEMMA ModeOf ==
    ASSUME TypeOK, NEW t \in Threads, ThreadInv(t)
    PROVE  /\ mode[t] = "exclusive" \/ mode[t] = "shared"
           /\ op[t] \in {"create", "remove", "rmdir", "rename", "pgcache"} \cup VputPairs
                => mode[t] = "exclusive"
BY DEF TypeOK, Modes, ThreadInv, CallInv, SharedOps, VputPairs

(* tpt_setattr and tpt_access return an error before anything is mapped.   *)
LEMMA RefuseStep ==
    ASSUME TypeOK, NEW t \in Threads, ThreadInv(t), Refuse(t)
    PROVE  TypeOK' /\ ThreadStep(t) /\ ThreadInv(t)'
<1> USE DEF Refuse, Go, aliasVars, lowerVars, callVars
<1>1. pc'[t] = "ret" /\ Quiet(t) BY DEF Quiet, TypeOK, Labels
<1>2. HeldArgs(t)' = HeldArgs(t) /\ LentArgs(t)' = LentArgs(t)
  BY <1>1 DEF HeldArgs, LentArgs, Kept, VputPairs
<1>3. TypeOK' /\ ThreadStep(t) BY <1>1, <1>2, QuietStep
<1>4. CallInv(t)' /\ MapInv(t)' /\ SpareInv(t)' /\ PanicInv(t)'
  BY <1>1 DEF ThreadInv, CallInv, MapInv, SpareInv, PanicInv, VputPairs, InCall
<1> DEFINE J == LockedArgs(op[t], args[t])
<1>5. LowSide(t) = J /\ UpSide(t) = {} BY DEF LowSide, UpSide
<1>6. \A j \in J : st[args[t][j]] = "live" BY <1>5 DEF ThreadInv, LiveInv
<1>7. LiveInv(t)'
  <2>1. 1 \in J BY DEF ThreadInv, CallInv, LockedArgs, Given
  <2> QED BY <1>1, <1>6, <2>1 DEF LiveInv, InCall
<1>8. LockInv(t)'
  <2>1. CASE mode[t] = "shared"
    <3>1. LowSide(t)' = J /\ UpSide(t)' = {} BY <1>1, <2>1 DEF LowSide, UpSide
    <3>2. Locks(t)' = Locks(t) BY <1>1, <1>5, <3>1 DEF Locks, Vnlock
    <3> QED BY <1>1, <3>2 DEF ThreadInv, LockInv
  <2>2. CASE mode[t] = "exclusive"
    <3>1. LowSide(t)' = {} /\ UpSide(t)' = J
      BY <1>1, <2>2 DEF LowSide, UpSide, Kept, LockedArgs, VputPairs
    <3>2. Locks(t)' = Locks(t) BY <1>1, <1>5, <1>6, <3>1 DEF Locks, Vnlock
    <3> QED BY <1>1, <3>2 DEF ThreadInv, LockInv
  <2> QED BY <2>1, <2>2, ModeOf
<1> QED BY <1>3, <1>4, <1>7, <1>8 DEF ThreadInv

(* tpt_setattr goes on to tpt_bypass.                                      *)
LEMMA SetattrStep ==
    ASSUME TypeOK, NEW t \in Threads, ThreadInv(t), Setattr(t)
    PROVE  TypeOK' /\ ThreadStep(t) /\ ThreadInv(t)'
<1> USE DEF Setattr, Go, aliasVars, lowerVars, callVars
<1>1. pc'[t] = "map" /\ Quiet(t) BY DEF Quiet, TypeOK, Labels
<1>2. HeldArgs(t)' = HeldArgs(t) /\ LentArgs(t)' = LentArgs(t)
  BY <1>1 DEF HeldArgs, LentArgs, Kept, VputPairs
<1>3. TypeOK' /\ ThreadStep(t) BY <1>1, <1>2, QuietStep
<1>4. CallInv(t)' /\ MapInv(t)' /\ SpareInv(t)' /\ PanicInv(t)'
  BY <1>1 DEF ThreadInv, CallInv, MapInv, SpareInv, PanicInv, VputPairs, InCall
<1>5. LowSide(t)' = LowSide(t) /\ UpSide(t)' = UpSide(t) BY <1>1 DEF LowSide, UpSide
<1>6. LiveInv(t)' BY <1>1, <1>5 DEF ThreadInv, LiveInv, InCall
<1>7. LockInv(t)'
  <2>1. Locks(t)' = Locks(t) BY <1>1, <1>5 DEF Locks, Vnlock
  <2> QED BY <1>1, <2>1 DEF ThreadInv, LockInv
<1> QED BY <1>3, <1>4, <1>6, <1>7 DEF ThreadInv

(* tpt_rename goes on to tpt_bypass with its vnodes on one mount.          *)
LEMMA RenameStep ==
    ASSUME TypeOK, NEW t \in Threads, ThreadInv(t), Rename(t)
    PROVE  TypeOK' /\ ThreadStep(t) /\ ThreadInv(t)'
<1> USE DEF Rename, Go, aliasVars, lowerVars, callVars
<1>1. pc'[t] = "map" /\ Quiet(t) BY DEF Quiet, TypeOK, Labels
<1>2. HeldArgs(t)' = HeldArgs(t) /\ LentArgs(t)' = LentArgs(t)
  BY <1>1 DEF HeldArgs, LentArgs, Kept, VputPairs
<1>3. TypeOK' /\ ThreadStep(t) BY <1>1, <1>2, QuietStep
<1>4. CallInv(t)' /\ MapInv(t)' /\ SpareInv(t)' /\ PanicInv(t)'
  BY <1>1 DEF ThreadInv, CallInv, MapInv, SpareInv, PanicInv, VputPairs, InCall
<1>5. LowSide(t)' = LowSide(t) /\ UpSide(t)' = UpSide(t) BY <1>1 DEF LowSide, UpSide
<1>6. LiveInv(t)' BY <1>1, <1>5 DEF ThreadInv, LiveInv, InCall
<1>7. LockInv(t)'
  <2>1. Locks(t)' = Locks(t) BY <1>1, <1>5 DEF Locks, Vnlock
  <2> QED BY <1>1, <2>1 DEF ThreadInv, LockInv
<1> QED BY <1>3, <1>4, <1>6, <1>7 DEF ThreadInv

(* tpt_bypass meets a NULL v_data: not that of a locked argument.          *)
LEMMA MapFaultStep ==
    ASSUME TypeOK, NEW t \in Threads, ThreadInv(t), MapFault(t)
    PROVE  TypeOK' /\ ThreadStep(t) /\ ThreadInv(t)'
<1> USE DEF MapFault, Go, aliasVars, lowerVars, callVars
<1>1. pc'[t] = "panic" /\ Quiet(t) BY DEF Quiet, TypeOK, Labels
<1>2. HeldArgs(t)' = HeldArgs(t) /\ LentArgs(t)' = LentArgs(t)
  BY <1>1 DEF HeldArgs, LentArgs, Kept, VputPairs
<1>3. TypeOK' /\ ThreadStep(t) BY <1>1, <1>2, QuietStep
<1>4. CallInv(t)' /\ MapInv(t)' /\ SpareInv(t)' /\ LiveInv(t)'
  BY <1>1 DEF ThreadInv, CallInv, MapInv, SpareInv, LiveInv, VputPairs, InCall
<1>5. PanicInv(t)'
  <2>1. PICK j \in Given(args[t]) : st[args[t][j]] # "live" OBVIOUS
  <2>2. LowSide(t) = LockedArgs(op[t], args[t]) BY DEF LowSide
  <2>3. j \notin LockedArgs(op[t], args[t]) BY <2>1, <2>2 DEF ThreadInv, LiveInv
  <2> QED BY <1>1, <2>1, <2>3 DEF PanicInv
<1>6. LockInv(t)' BY <1>1 DEF LockInv
<1> QED BY <1>3, <1>4, <1>5, <1>6 DEF ThreadInv

(* tpt_bypass finds no mount for the vnode it created: the directory was   *)
(* reclaimed while the lower layer had it unlocked.                        *)
LEMMA NodegetNoMountStep ==
    ASSUME TypeOK, NEW t \in Threads, ThreadInv(t), NodegetNoMount(t)
    PROVE  TypeOK' /\ ThreadStep(t) /\ ThreadInv(t)'
<1> USE DEF NodegetNoMount, Go, aliasVars, lowerVars, callVars
<1>1. pc'[t] = "panic" /\ Quiet(t) BY DEF Quiet, TypeOK, Labels
<1>2. HeldArgs(t)' = HeldArgs(t) /\ LentArgs(t)' = LentArgs(t)
  BY <1>1 DEF HeldArgs, LentArgs, Kept, VputPairs, ThreadInv, CallInv
<1>3. TypeOK' /\ ThreadStep(t) BY <1>1, <1>2, QuietStep
<1>4. CallInv(t)' /\ MapInv(t)' /\ SpareInv(t)' /\ LiveInv(t)'
  BY <1>1 DEF ThreadInv, CallInv, MapInv, SpareInv, LiveInv, VputPairs, InCall
<1>5. PanicInv(t)'
  <2>1. 1 \in Given(args[t]) /\ args[t][1] \in Upper
    BY DEF ThreadInv, CallInv, Given, TypeOK
  <2>2. st[args[t][1]] # "live" BY <2>1, BypassConstants DEF VMount
  <2>3. 1 \in LockedArgs(op[t], args[t]) /\ op[t] = "create"
    BY <2>1 DEF LockedArgs, ThreadInv, CallInv
  <2>4. mapped[t] # {} /\ op[t] \in LowerUnlocks
    BY <2>2, <2>3 DEF ThreadInv, MapInv, LiveInv, InCall
  <2> QED BY <1>1, <2>1, <2>2, <2>4 DEF PanicInv
<1>6. LockInv(t)' BY <1>1 DEF LockInv
<1> QED BY <1>3, <1>4, <1>5, <1>6 DEF ThreadInv

(* tpt_getattr finds no mount: reclaimed during the lower call.            *)
LEMMA FsidFaultStep ==
    ASSUME TypeOK, NEW t \in Threads, ThreadInv(t), FsidFault(t)
    PROVE  TypeOK' /\ ThreadStep(t) /\ ThreadInv(t)'
<1> USE DEF FsidFault, Go, aliasVars, lowerVars, callVars
<1>1. pc'[t] = "panic" /\ Quiet(t) BY DEF Quiet, TypeOK, Labels
<1>2. HeldArgs(t)' = HeldArgs(t) /\ LentArgs(t)' = LentArgs(t)
  BY <1>1 DEF HeldArgs, LentArgs, Kept, VputPairs
<1>3. TypeOK' /\ ThreadStep(t) BY <1>1, <1>2, QuietStep
<1>4. CallInv(t)' /\ MapInv(t)' /\ SpareInv(t)' /\ LiveInv(t)'
  BY <1>1 DEF ThreadInv, CallInv, MapInv, SpareInv, LiveInv, VputPairs, InCall
<1>5. PanicInv(t)'
  <2>1. 1 \in Given(args[t]) /\ args[t][1] \in Upper
    BY DEF ThreadInv, CallInv, Given, TypeOK
  <2>2. st[args[t][1]] # "live" BY <2>1, BypassConstants DEF VMount
  <2>3. 1 \in LockedArgs(op[t], args[t]) /\ op[t] = "getattr"
    BY <2>1 DEF LockedArgs, ThreadInv, CallInv
  <2>4. mapped[t] # {} /\ op[t] \in LowerUnlocks
    BY <2>2, <2>3 DEF ThreadInv, MapInv, LiveInv, InCall
  <2> QED BY <1>1, <2>1, <2>2, <2>4 DEF PanicInv
<1>6. LockInv(t)' BY <1>1 DEF LockInv
<1> QED BY <1>3, <1>4, <1>5, <1>6 DEF ThreadInv

(* tpt_read_pgcache meets a reclaimed alias and gives up.                  *)
LEMMA PgcacheGoneStep ==
    ASSUME TypeOK, NEW t \in Threads, ThreadInv(t), PgcacheGone(t)
    PROVE  TypeOK' /\ ThreadStep(t) /\ ThreadInv(t)'
<1> USE DEF PgcacheGone, Go, aliasVars, lowerVars, callVars
<1>1. pc'[t] = "ret" /\ Quiet(t) BY DEF Quiet, TypeOK, Labels
<1>2. HeldArgs(t)' = HeldArgs(t) /\ LentArgs(t)' = LentArgs(t)
  BY <1>1 DEF HeldArgs, LentArgs, Kept, VputPairs
<1>3. TypeOK' /\ ThreadStep(t) BY <1>1, <1>2, QuietStep
<1>4. CallInv(t)' /\ MapInv(t)' /\ SpareInv(t)' /\ LiveInv(t)' /\ PanicInv(t)'
  BY <1>1 DEF ThreadInv, CallInv, MapInv, SpareInv, LiveInv, PanicInv, VputPairs, InCall, SharedOps
<1>5. LockInv(t)'
  <2>1. LowSide(t)' = LowSide(t) /\ UpSide(t)' = UpSide(t)
    BY <1>1 DEF LowSide, UpSide, LockedArgs
  <2>2. Locks(t)' = Locks(t) BY <1>1, <2>1 DEF Locks, Vnlock
  <2> QED BY <1>1, <2>2 DEF ThreadInv, LockInv
<1> QED BY <1>3, <1>4, <1>5 DEF ThreadInv

(* The lower operation returns.                                            *)
LEMMA LowerDoneStep ==
    ASSUME TypeOK, NEW t \in Threads, ThreadInv(t), NEW e \in BOOLEAN, LowerDone(t, e)
    PROVE  TypeOK' /\ ThreadStep(t) /\ ThreadInv(t)'
<1> USE DEF LowerDone, Go, aliasVars, lowerVars, callVars
<1>1. pc'[t] = "unmap" /\ Quiet(t) BY DEF Quiet, TypeOK, Labels
<1>2. HeldArgs(t)' = HeldArgs(t) /\ LentArgs(t)' = LentArgs(t)
  BY <1>1 DEF HeldArgs, LentArgs, Kept, VputPairs
<1>3. TypeOK' /\ ThreadStep(t) BY <1>1, <1>2, QuietStep
<1>4. CallInv(t)' /\ MapInv(t)' /\ SpareInv(t)' /\ LiveInv(t)' /\ PanicInv(t)'
  BY <1>1 DEF ThreadInv, CallInv, MapInv, SpareInv, LiveInv, PanicInv, VputPairs, InCall
<1>5. LockInv(t)'
  <2>1. LockedArgs(op[t], args[t]) \subseteq rest[t] BY DEF ThreadInv, MapInv, InCall
  <2>2. LowSide(t)' = LowSide(t) /\ UpSide(t)' = UpSide(t) BY <1>1, <2>1, ModeOf DEF LowSide, UpSide
  <2>3. Locks(t)' = Locks(t) BY <1>1, <2>2 DEF Locks, Vnlock
  <2> QED BY <1>1, <2>3 DEF ThreadInv, LockInv
<1> QED BY <1>3, <1>4, <1>5 DEF ThreadInv

(* The lower create fails.                                                 *)
LEMMA LowerCreateFailsStep ==
    ASSUME TypeOK, NEW t \in Threads, ThreadInv(t), LowerCreateFails(t)
    PROVE  TypeOK' /\ ThreadStep(t) /\ ThreadInv(t)'
<1> USE DEF LowerCreateFails, Go, aliasVars, lowerVars, callVars
<1>1. pc'[t] = "unmap" /\ err'[t] = TRUE /\ Quiet(t) BY DEF Quiet, TypeOK, Labels
<1>2. HeldArgs(t)' = HeldArgs(t) /\ LentArgs(t)' = LentArgs(t)
  BY <1>1 DEF HeldArgs, LentArgs, Kept, VputPairs
<1>3. TypeOK' /\ ThreadStep(t) BY <1>1, <1>2, QuietStep
<1>4. CallInv(t)' /\ MapInv(t)' /\ SpareInv(t)' /\ LiveInv(t)' /\ PanicInv(t)'
  BY <1>1 DEF ThreadInv, CallInv, MapInv, SpareInv, LiveInv, PanicInv, VputPairs, InCall
<1>5. LockInv(t)'
  <2>1. LockedArgs(op[t], args[t]) \subseteq rest[t] BY DEF ThreadInv, MapInv, InCall
  <2>2. LowSide(t)' = LowSide(t) /\ UpSide(t)' = UpSide(t) BY <1>1, <2>1, ModeOf DEF LowSide, UpSide
  <2>3. Locks(t)' = Locks(t) BY <1>1, <2>2 DEF Locks, Vnlock
  <2> QED BY <1>1, <2>3 DEF ThreadInv, LockInv
<1> QED BY <1>3, <1>4, <1>5 DEF ThreadInv

(* All arguments are mapped back.                                          *)
LEMMA UnmappedStep ==
    ASSUME TypeOK, NEW t \in Threads, ThreadInv(t), Unmapped(t)
    PROVE  TypeOK' /\ ThreadStep(t) /\ ThreadInv(t)'
<1> USE DEF Unmapped, Go, aliasVars, lowerVars, callVars
<1>1. pc'[t] = (IF op[t] = "create" /\ ~err[t] THEN "nodeget" ELSE "post") /\ Quiet(t)
  BY DEF Quiet, TypeOK, Labels
<1>2. HeldArgs(t)' = HeldArgs(t) /\ LentArgs(t)' = LentArgs(t)
  BY <1>1 DEF HeldArgs, LentArgs, Kept, VputPairs, ThreadInv, CallInv
<1>3. TypeOK' /\ ThreadStep(t) BY <1>1, <1>2, QuietStep
<1>4. CallInv(t)' /\ MapInv(t)' /\ SpareInv(t)' /\ LiveInv(t)' /\ PanicInv(t)'
  BY <1>1 DEF ThreadInv, CallInv, MapInv, SpareInv, LiveInv, PanicInv, VputPairs, InCall
<1>5. LockInv(t)'
  <2>1. LowSide(t)' = LowSide(t) /\ UpSide(t)' = UpSide(t)
    <3>1. CASE mode[t] = "shared"
      <4>1. pc'[t] = "post" BY <1>1, <3>1, ModeOf
      <4> QED BY <1>1, <3>1, <4>1 DEF LowSide, UpSide
    <3>2. CASE mode[t] = "exclusive" BY <1>1, <3>2 DEF LowSide, UpSide
    <3> QED BY <3>1, <3>2, ModeOf
  <2>2. Locks(t)' = Locks(t) BY <1>1, <2>1 DEF Locks, Vnlock
  <2> QED BY <1>1, <2>2 DEF ThreadInv, LockInv
<1> QED BY <1>3, <1>4, <1>5 DEF ThreadInv

-----------------------------------------------------------------------------
(* Taking and releasing locks.                                             *)

(* A thread takes locks that are free.                                     *)
LEMMA Taken ==
    ASSUME TypeOK, NEW t \in Threads, NEW K, Take(t, K)
    PROVE  /\ lock' \in [Lower \cup Upper -> SUBSET Threads] /\ LockFrame(t)
           /\ \A k \in Lower \cup Upper : t \in lock'[k] <=> t \in lock[k] \/ k \in K
BY BypassConstants DEF Take, LockFrame, TypeOK

(* A thread releases locks of its own only.                                *)
LEMMA Dropped ==
    ASSUME TypeOK, NEW t \in Threads, NEW K, Drop(t, K)
    PROVE  /\ lock' \in [Lower \cup Upper -> SUBSET Threads] /\ LockFrame(t)
           /\ \A k \in Lower \cup Upper : t \in lock'[k] <=> t \in lock[k] /\ k \notin K
BY BypassConstants DEF Drop, LockFrame, TypeOK

(* Counters stay integers.                                                 *)
LEMMA VrefType ==
    ASSUME TypeOK, NEW a, NEW J \in SUBSET (1 .. 4)
    PROVE  /\ Vref(a, J) \/ Vrele(a, J) => uuse' \in [Upper -> Int]
           /\ LowerVref(a, J) \/ LowerVrele(a, J) => luse' \in [Lower -> Int]
<1>1. \A u : Times(a, J, u) \in Nat /\ LowerTimes(a, J, u) \in Nat BY TimesNat, LowerTimesNat
<1>2. uuse \in [Upper -> Int] /\ luse \in [Lower -> Int] BY DEF TypeOK
<1> QED BY <1>1, <1>2 DEF Vref, Vrele, LowerVref, LowerVrele

(* A call begins: its vnodes are referenced and locked.                    *)
LEMMA CallStep ==
    ASSUME TypeOK, NEW t \in Threads, ThreadInv(t), NEW c \in Calls[t], Call(t, c)
    PROVE  TypeOK' /\ ThreadStep(t) /\ ThreadInv(t)'
<1> DEFINE a == c.args
           J == LockedArgs(c.op, a)
           K == {Below[u] : u \in Slots(a, J)}
<1> USE DEF Call, Go, lowerVars
<1>1. /\ c.op \in Ops /\ a \in [1 .. 4 -> Upper \cup {Null}] /\ a[1] # Null
      /\ c.op \in {"remove", "rename"} => a[2] # Null
      /\ IF c.op = "rename" THEN a[3] # Null ELSE a[3] = Null /\ a[4] = Null
      /\ c.op # "rename" /\ a[2] # Null => Below[a[1]] # Below[a[2]]
      /\ c.mode \in Modes /\ (c.mode = "shared" => c.op \in SharedOps /\ a[2] = Null)
  BY BypassConstants
<1>2. /\ pc'[t] \in {"map", "pre"} /\ op'[t] = c.op /\ args'[t] = a /\ mode'[t] = c.mode
      /\ pc'[t] = "pre" => c.op \notin {"read", "getattr", "open", "create", "rmdir"}
      /\ pc'[t] = "map" => c.op \in {"read", "getattr", "open", "create", "rmdir"}
  BY DEF TypeOK
<1>3. Given(a) \in SUBSET (1 .. 4) /\ J \in SUBSET Given(a)
  BY DEF Given, LockedArgs
<1>4. K \subseteq Lower BY <1>1, <1>3, BypassConstants DEF Slots, Given
<1>5. /\ lock' \in [Lower \cup Upper -> SUBSET Threads] /\ LockFrame(t)
      /\ \A k \in Lower \cup Upper : t \in lock'[k] <=> t \in lock[k] \/ k \in K
  <2>1. Take(t, K) OBVIOUS
  <2> QED BY <2>1, Taken
<1> HIDE DEF a
<1>6. TypeOK'
  <2>1. uuse' \in [Upper -> Int] BY <1>3, VrefType DEF a
  <2>2. pc' \in [Threads -> Labels] /\ op' \in [Threads -> Ops] BY <1>1 DEF TypeOK, Labels
  <2>3. args' \in [Threads -> [1 .. 4 -> Upper \cup {Null}]] BY <1>1 DEF TypeOK, a
  <2>4. mode' \in [Threads -> Modes] BY <1>1 DEF TypeOK
  <2> QED BY <1>5, <2>1, <2>2, <2>3, <2>4 DEF TypeOK
<1>7. Frame(t) BY DEF TypeOK, Frame, Same
<1>8. StStep BY DEF StStep
<1>9. HeldArgs(t) = {} /\ HeldArgs(t)' = Given(a) BY <1>2 DEF HeldArgs
<1>10. NoneStep
  <2> SUFFICES ASSUME NEW u \in Upper, st[u] = "none" PROVE uuse'[u] <= uuse[u] BY DEF NoneStep
  <2>1. \A j \in Given(a) : a[j] # u BY DEF Slots, a
  <2>2. Times(a, Given(a), u) = 0 BY <2>1, TimesZero
  <2>3. uuse'[u] = uuse[u] + Times(a, Given(a), u) BY DEF Vref, a
  <2>4. uuse[u] \in Int BY DEF TypeOK
  <2> QED BY <2>2, <2>3, <2>4
<1>11. UserStep(t)
  <2> SUFFICES ASSUME NEW u \in Upper
               PROVE  uuse'[u] = uuse[u]
                        + Times(args[t]', HeldArgs(t)', u) - Times(args[t], HeldArgs(t), u)
                        + Is(up'[t], u) - Is(up[t], u) + Is(wfile'[t], u) - Is(wfile[t], u)
    BY DEF UserStep
  <2>1. Times(a, Given(a), u) \in Nat BY <1>3, TimesNat
  <2>2. Times(args[t], {}, u) = 0 BY TimesNone
  <2>3. uuse'[u] = uuse[u] + Times(a, Given(a), u) BY DEF Vref, a
  <2>4. uuse[u] \in Int BY DEF TypeOK
  <2> QED BY <1>2, <1>9, <2>1, <2>2, <2>3, <2>4 DEF Is
<1>12. LowerStep(t)
  <2> SUFFICES ASSUME NEW l \in Lower
               PROVE  luse'[l] = luse[l] + Cardinality(LiveOn(l))' - Cardinality(LiveOn(l))
                      + Is(spare'[t], l) - Is(spare[t], l)
                      + LowerTimes(args[t]', LentArgs(t)', l) - LowerTimes(args[t], LentArgs(t), l)
    BY DEF LowerStep
  <2>1. LentArgs(t) = {} /\ LentArgs(t)' = {} BY <1>2 DEF LentArgs
  <2>2. LowerTimes(args[t], {}, l) = 0 /\ LowerTimes(args[t]', {}, l) = 0 BY TimesNone
  <2>3. Cardinality(LiveOn(l))' = Cardinality(LiveOn(l)) BY DEF LiveOn
  <2>4. Cardinality(LiveOn(l)) \in Nat BY LiveFinite
  <2>5. luse[l] \in Int BY DEF TypeOK
  <2> QED BY <2>1, <2>2, <2>3, <2>4, <2>5 DEF Is
<1>13. CallInv(t)' BY <1>1, <1>2 DEF CallInv, ThreadInv, VputPairs, Ops, SharedOps
<1>14. MapInv(t)' /\ SpareInv(t)' /\ PanicInv(t)'
  BY <1>2 DEF MapInv, SpareInv, PanicInv, InCall, ThreadInv, CallInv
<1>15. LowSide(t) = {} /\ UpSide(t) = {} /\ LowSide(t)' = J /\ UpSide(t)' = {}
  BY <1>2 DEF LowSide, UpSide
<1>16. LockInv(t)'
  <2>1. spare[t] = Null /\ up[t] = Null BY DEF ThreadInv, SpareInv, CallInv
  <2>2. Locks(t) = {} BY <1>15, <2>1 DEF Locks
  <2>3. Locks(t)' = K BY <1>2, <1>15, <2>1 DEF Locks, Slots
  <2> QED BY <1>5, <2>2, <2>3 DEF ThreadInv, LockInv
<1>17. LiveInv(t)'
  <2>1. \A j \in J : st[a[j]] = "live" BY <1>3 DEF Slots, a
  <2> QED BY <1>2, <1>15, <2>1 DEF LiveInv, InCall
<1> QED BY <1>5, <1>6, <1>7, <1>8, <1>10, <1>11, <1>12, <1>13, <1>14, <1>16, <1>17
    DEF ThreadStep, ThreadInv

(* Steps that release references of arguments, lend some to the lower      *)
(* call, get them back, or take a reference on a lower vnode.              *)
LEMMA UserReleased ==
    ASSUME TypeOK, NEW t \in Threads, NEW J \in SUBSET HeldArgs(t), Vrele(args[t], J),
           HeldArgs(t)' = HeldArgs(t) \ J, args'[t] = args[t], up'[t] = up[t],
           wfile'[t] = wfile[t], st' = st
    PROVE  uuse' \in [Upper -> Int] /\ UserStep(t) /\ NoneStep
<1>1. HeldArgs(t) \in SUBSET (1 .. 4) BY HeldType
<1>2. uuse' \in [Upper -> Int]
  <2>1. J \in SUBSET (1 .. 4) BY <1>1
  <2> QED BY <2>1, VrefType
<1>3. ASSUME NEW u \in Upper
      PROVE  /\ uuse'[u] = uuse[u]
                      + Times(args[t]', HeldArgs(t)', u) - Times(args[t], HeldArgs(t), u)
                      + Is(up'[t], u) - Is(up[t], u) + Is(wfile'[t], u) - Is(wfile[t], u)
             /\ uuse'[u] <= uuse[u]
  <2>1. Times(args[t], HeldArgs(t), u) = Times(args[t], J, u) + Times(args[t], HeldArgs(t) \ J, u)
    BY <1>1, TimesSplit
  <2>2. Times(args[t], J, u) \in Nat /\ Times(args[t], HeldArgs(t) \ J, u) \in Nat
    BY <1>1, TimesNat
  <2>3. uuse'[u] = uuse[u] - Times(args[t], J, u) BY DEF Vrele
  <2>4. uuse[u] \in Int BY DEF TypeOK
  <2> QED BY <2>1, <2>2, <2>3, <2>4 DEF Is
<1> QED BY <1>2, <1>3 DEF UserStep, NoneStep

(* References lent to the lower call and given back by it.                 *)
LEMMA LowerLent ==
    ASSUME TypeOK, NEW t \in Threads, NEW J \in SUBSET (1 .. 4), st' = st, args'[t] = args[t],
           spare'[t] = spare[t],
           \/ LowerVref(args[t], J) /\ LentArgs(t) = {} /\ LentArgs(t)' = J
           \/ LowerVrele(args[t], J) /\ LentArgs(t) = J /\ LentArgs(t)' = {}
    PROVE  luse' \in [Lower -> Int] /\ LowerStep(t)
<1>1. luse' \in [Lower -> Int] BY VrefType
<1>2. ASSUME NEW l \in Lower
      PROVE  luse'[l] = luse[l] + Cardinality(LiveOn(l))' - Cardinality(LiveOn(l))
                      + Is(spare'[t], l) - Is(spare[t], l)
                      + LowerTimes(args[t]', LentArgs(t)', l) - LowerTimes(args[t], LentArgs(t), l)
  <2>1. LowerTimes(args[t], {}, l) = 0 BY TimesNone
  <2>2. LowerTimes(args[t], J, l) \in Nat BY LowerTimesNat
  <2>3. Cardinality(LiveOn(l))' = Cardinality(LiveOn(l)) BY DEF LiveOn
  <2>4. Cardinality(LiveOn(l)) \in Nat BY LiveFinite
  <2>5. luse[l] \in Int BY DEF TypeOK
  <2>6. CASE LowerVref(args[t], J) /\ LentArgs(t) = {} /\ LentArgs(t)' = J
    <3>1. luse'[l] = luse[l] + LowerTimes(args[t], J, l) BY <2>6 DEF LowerVref
    <3> QED BY <2>1, <2>2, <2>3, <2>4, <2>5, <2>6, <3>1 DEF Is
  <2>7. CASE LowerVrele(args[t], J) /\ LentArgs(t) = J /\ LentArgs(t)' = {}
    <3>1. luse'[l] = luse[l] - LowerTimes(args[t], J, l) BY <2>7 DEF LowerVrele
    <3> QED BY <2>1, <2>2, <2>3, <2>4, <2>5, <2>7, <3>1 DEF Is
  <2> QED BY <2>6, <2>7
<1> QED BY <1>1, <1>2 DEF LowerStep

(* A reference on a lower vnode that the call takes or drops itself.       *)
LEMMA LowerSpare ==
    ASSUME TypeOK, NEW t \in Threads, st' = st, args'[t] = args[t], LentArgs(t) = {}, LentArgs(t)' = {},
           spare' \in [Threads -> Lower \cup {Null}],
           \A l \in Lower : luse'[l] = luse[l] + Is(spare'[t], l) - Is(spare[t], l)
    PROVE  LowerStep(t)
<1> SUFFICES ASSUME NEW l \in Lower
             PROVE  luse'[l] = luse[l] + Cardinality(LiveOn(l))' - Cardinality(LiveOn(l))
                      + Is(spare'[t], l) - Is(spare[t], l)
                      + LowerTimes(args[t]', LentArgs(t)', l) - LowerTimes(args[t], LentArgs(t), l)
  BY DEF LowerStep
<1>1. LowerTimes(args[t], {}, l) = 0 BY TimesNone
<1>2. Cardinality(LiveOn(l))' = Cardinality(LiveOn(l)) BY DEF LiveOn
<1>3. Cardinality(LiveOn(l)) \in Nat BY LiveFinite
<1>4. luse[l] \in Int BY DEF TypeOK
<1> QED BY <1>1, <1>2, <1>3, <1>4 DEF Is

(* Taking and dropping that reference moves the counter by one.            *)
LEMMA SpareCount ==
    ASSUME TypeOK, NEW t \in Threads, NEW v \in Lower,
           \/ luse' = [luse EXCEPT ![v] = @ + 1] /\ spare[t] = Null /\ spare'[t] = v
           \/ luse' = [luse EXCEPT ![v] = @ - 1] /\ spare[t] = v /\ spare'[t] = Null
    PROVE  /\ luse' \in [Lower -> Int]
           /\ \A l \in Lower : luse'[l] = luse[l] + Is(spare'[t], l) - Is(spare[t], l)
<1>1. luse \in [Lower -> Int] /\ Null \notin Lower BY BypassConstants DEF TypeOK
<1>2. luse' \in [Lower -> Int] BY <1>1
<1>3. ASSUME NEW l \in Lower PROVE luse'[l] = luse[l] + Is(spare'[t], l) - Is(spare[t], l)
  <2>1. CASE l = v BY <1>1, <2>1 DEF Is
  <2>2. CASE l # v BY <1>1, <2>2 DEF Is
  <2> QED BY <2>1, <2>2
<1> QED BY <1>2, <1>3

-----------------------------------------------------------------------------
(* tpt_remove keeps the lower vnode of a file that is in use.              *)
LEMMA RemoveStep ==
    ASSUME TypeOK, NEW t \in Threads, ThreadInv(t), Remove(t)
    PROVE  TypeOK' /\ ThreadStep(t) /\ ThreadInv(t)'
<1> USE DEF Remove, Go, aliasVars, lowerVars, callVars
<1>1. pc'[t] = "map" BY DEF TypeOK
<1>2. args[t][2] \in Upper /\ Below[args[t][2]] \in Lower
  BY BypassConstants DEF ThreadInv, CallInv, TypeOK
<1>3. spare[t] = Null BY DEF ThreadInv, SpareInv, InCall
<1>4. TypeOK'
  <2>1. luse' \in [Lower -> Int] BY <1>2 DEF TypeOK
  <2>2. spare' \in [Threads -> Lower \cup {Null}] BY <1>2 DEF TypeOK
  <2>3. pc' \in [Threads -> Labels] BY DEF TypeOK, Labels
  <2> QED BY <2>1, <2>2, <2>3 DEF TypeOK
<1>5. Frame(t) /\ LockFrame(t) /\ StStep
  BY DEF TypeOK, Frame, Same, LockFrame, StStep
<1>6. NoneStep BY DEF NoneStep, TypeOK
<1>7. UserStep(t)
  <2>1. HeldArgs(t)' = HeldArgs(t) BY <1>1 DEF HeldArgs
  <2> QED BY <2>1, UserSame
<1>8. LowerStep(t)
  <2>1. LentArgs(t) = {} /\ LentArgs(t)' = {} BY <1>1 DEF LentArgs
  <2>2. spare' \in [Threads -> Lower \cup {Null}] BY <1>4 DEF TypeOK
  <2>3. \A l \in Lower : luse'[l] = luse[l] + Is(spare'[t], l) - Is(spare[t], l)
    <3>1. CASE uuse[args[t][2]] > 1
      <4>1. /\ spare'[t] = Below[args[t][2]]
            /\ luse' = [luse EXCEPT ![Below[args[t][2]]] = @ + 1] BY <3>1 DEF TypeOK
      <4> QED BY <1>2, <1>3, <4>1, SpareCount
    <3>2. CASE ~(uuse[args[t][2]] > 1)
      <4>1. spare'[t] = spare[t] /\ luse' = luse BY <3>2
      <4> QED BY <4>1 DEF Is, TypeOK
    <3> QED BY <3>1, <3>2
  <2> QED BY <2>1, <2>2, <2>3, LowerSpare
<1>9. CallInv(t)' /\ MapInv(t)' /\ SpareInv(t)' /\ PanicInv(t)'
  BY <1>1 DEF ThreadInv, CallInv, MapInv, SpareInv, PanicInv, VputPairs, InCall
<1>10. LowSide(t)' = LowSide(t) /\ UpSide(t)' = UpSide(t) BY <1>1 DEF LowSide, UpSide
<1>11. LiveInv(t)' BY <1>1, <1>10 DEF ThreadInv, LiveInv, InCall
<1>12. LockInv(t)'
  <2>1. Locks(t)' = Locks(t) BY <1>1, <1>10 DEF Locks, Vnlock
  <2> QED BY <1>1, <2>1 DEF ThreadInv, LockInv
<1> QED BY <1>4, <1>5, <1>6, <1>7, <1>8, <1>9, <1>11, <1>12 DEF ThreadStep, ThreadInv

(* tpt_rename releases all four vnodes and returns EXDEV: those it unlocks *)
(* are live, since it has them locked.                                     *)
LEMMA RenameCrossStep ==
    ASSUME TypeOK, NEW t \in Threads, ThreadInv(t), RenameCross(t)
    PROVE  TypeOK' /\ ThreadStep(t) /\ ThreadInv(t)'
<1> DEFINE K == {Vnlock(u) : u \in Slots(args[t], LockedArgs("rename", args[t]))}
<1> USE DEF RenameCross, Go, lowerVars, callVars
<1>1. pc'[t] = "ret" /\ pc[t] = "pre" /\ op[t] = "rename" /\ op' = op /\ args' = args
  BY DEF TypeOK
<1>2. /\ lock' \in [Lower \cup Upper -> SUBSET Threads] /\ LockFrame(t)
      /\ \A k \in Lower \cup Upper : t \in lock'[k] <=> t \in lock[k] /\ k \notin K
  <2>1. Drop(t, K) OBVIOUS
  <2> QED BY <2>1, Dropped
<1>3. HeldArgs(t) = Given(args[t]) /\ HeldArgs(t)' = {}
  <2>1. Kept(t)' = {} BY <1>1 DEF Kept, VputPairs
  <2> QED BY <1>1, <2>1 DEF HeldArgs
<1>4. uuse' \in [Upper -> Int] /\ UserStep(t) /\ NoneStep
  <2>1. HeldArgs(t)' = HeldArgs(t) \ Given(args[t]) BY <1>3
  <2>2. Given(args[t]) \in SUBSET HeldArgs(t) BY <1>3
  <2> QED BY <2>1, <2>2, UserReleased
<1>5. LowerStep(t)
  <2>1. LentArgs(t)' = LentArgs(t) BY <1>1 DEF LentArgs
  <2> QED BY <2>1, LowerSame
<1>6. TypeOK'
  <2>1. pc' \in [Threads -> Labels] BY DEF TypeOK, Labels
  <2> QED BY <1>2, <1>4, <2>1 DEF TypeOK
<1>7. Frame(t) /\ StStep BY DEF TypeOK, Frame, Same, StStep
<1>8. CallInv(t)' /\ MapInv(t)' /\ SpareInv(t)' /\ PanicInv(t)' /\ LiveInv(t)'
  BY <1>1 DEF ThreadInv, CallInv, MapInv, SpareInv, PanicInv, LiveInv, VputPairs, InCall, SharedOps
<1>9. LockInv(t)'
  <2>1. LowSide(t) = LockedArgs(op[t], args[t]) /\ UpSide(t) = {} /\ LowSide(t)' = {} /\ UpSide(t)' = {}
    <3>1. Kept(t)' = {} BY <1>1 DEF Kept, VputPairs
    <3>2. mode[t] = "exclusive" BY <1>1, ModeOf
    <3> QED BY <1>1, <3>1, <3>2 DEF LowSide, UpSide
  <2>2. spare[t] = Null /\ up[t] = Null BY DEF ThreadInv, SpareInv, CallInv, InCall
  <2>3. \A j \in LowSide(t) : st[args[t][j]] = "live" BY DEF ThreadInv, LiveInv
  <2>4. Locks(t) \subseteq K BY <2>1, <2>2, <2>3 DEF Locks, Vnlock, Slots
  <2>5. Locks(t)' = {} BY <1>1, <2>1, <2>2 DEF Locks
  <2> QED BY <1>2, <2>4, <2>5 DEF ThreadInv, LockInv
<1> QED BY <1>2, <1>4, <1>5, <1>6, <1>7, <1>8, <1>9 DEF ThreadStep, ThreadInv

(* tpt_bypass maps the arguments. Those that are locked are live, so that  *)
(* they are of our type.                                                   *)
LEMMA MapStep ==
    ASSUME TypeOK, NEW t \in Threads, ThreadInv(t), Map(t)
    PROVE  TypeOK' /\ ThreadStep(t) /\ ThreadInv(t)'
<1> DEFINE J == {j \in Given(args[t]) : OfOurType(t, j)}
<1> USE DEF Map, Go, aliasVars, callVars
<1>1. pc'[t] = "lower" /\ mapped'[t] = J /\ rest'[t] = J /\ pc[t] = "map" BY DEF TypeOK
<1>2. J \in SUBSET (1 .. 4) BY DEF Given
<1>3. op[t] \notin VputPairs \cup {"pgcache"} BY DEF ThreadInv, CallInv
<1>4. luse' \in [Lower -> Int] /\ LowerStep(t)
  <2> DEFINE W == J \cap WillRele(op[t])
  <2>1. LentArgs(t) = {} /\ LentArgs(t)' = W
    BY <1>1, <1>2 DEF LentArgs, WillRele
  <2>2. W \in SUBSET (1 .. 4) /\ LowerVref(args[t], W) BY <1>2
  <2> HIDE DEF W
  <2> QED BY <2>1, <2>2, LowerLent
<1>5. TypeOK'
  <2>1. pc' \in [Threads -> Labels] /\ mapped' \in [Threads -> SUBSET (1 .. 4)]
        /\ rest' \in [Threads -> SUBSET (1 .. 4)] BY <1>2 DEF TypeOK, Labels
  <2> QED BY <1>4, <2>1 DEF TypeOK
<1>6. Frame(t) /\ LockFrame(t) /\ StStep
  BY DEF TypeOK, Frame, Same, LockFrame, StStep
<1>7. NoneStep BY DEF NoneStep, TypeOK
<1>8. UserStep(t)
  <2>1. HeldArgs(t)' = HeldArgs(t) BY <1>1 DEF HeldArgs
  <2> QED BY <2>1, UserSame
<1>9. CallInv(t)' /\ SpareInv(t)' /\ PanicInv(t)'
  BY <1>1 DEF ThreadInv, CallInv, SpareInv, PanicInv, VputPairs, InCall
<1>10. \A j \in LockedArgs(op[t], args[t]) : st[args[t][j]] = "live"
  <2>1. LowSide(t) = LockedArgs(op[t], args[t]) BY <1>1 DEF LowSide
  <2> QED BY <1>1, <2>1 DEF ThreadInv, LiveInv
<1>11. MapInv(t)'
  <2>1. LockedArgs(op[t], args[t]) \subseteq J BY <1>10 DEF LockedArgs, OfOurType
  <2>2. 1 \in J BY <1>1 DEF ThreadInv, CallInv, Given, OfOurType
  <2> QED BY <1>1, <2>1, <2>2 DEF MapInv, InCall
<1>12. LowSide(t)' = LowSide(t) /\ UpSide(t)' = UpSide(t) BY <1>1 DEF LowSide, UpSide
<1>13. LiveInv(t)' BY <1>1, <1>10 DEF LiveInv, InCall
<1>14. LockInv(t)'
  <2>1. Locks(t)' = Locks(t) BY <1>1, <1>12 DEF Locks, Vnlock
  <2> QED BY <1>1, <2>1 DEF ThreadInv, LockInv
<1> QED BY <1>4, <1>5, <1>6, <1>7, <1>8, <1>9, <1>11, <1>13, <1>14 DEF ThreadStep, ThreadInv

(* The lower layer lets go of the locks that it was given.                 *)
LEMMA LowerUnlockStep ==
    ASSUME TypeOK, NEW t \in Threads, ThreadInv(t), LowerUnlock(t)
    PROVE  TypeOK' /\ ThreadStep(t) /\ ThreadInv(t)'
<1> DEFINE K == LowerLocks(t, mapped[t])
<1> USE DEF LowerUnlock, Go, aliasVars, lowerVars, callVars
<1>1. pc'[t] = "unlocked" /\ pc[t] = "lower" BY DEF TypeOK
<1>2. /\ lock' \in [Lower \cup Upper -> SUBSET Threads] /\ LockFrame(t)
      /\ \A k \in Lower \cup Upper : t \in lock'[k] <=> t \in lock[k] /\ k \notin K
  <2>1. Drop(t, K) OBVIOUS
  <2> QED BY <2>1, Dropped
<1>3. TypeOK'
  <2>1. pc' \in [Threads -> Labels] BY DEF TypeOK, Labels
  <2> QED BY <1>2, <2>1 DEF TypeOK
<1>4. Frame(t) /\ StStep BY DEF TypeOK, Frame, Same, StStep
<1>5. NoneStep BY DEF NoneStep, TypeOK
<1>6. UserStep(t) /\ LowerStep(t)
  <2>1. HeldArgs(t)' = HeldArgs(t) /\ LentArgs(t)' = LentArgs(t) BY <1>1 DEF HeldArgs, LentArgs
  <2> QED BY <2>1, UserSame, LowerSame
<1>7. CallInv(t)' /\ MapInv(t)' /\ SpareInv(t)' /\ PanicInv(t)' /\ LiveInv(t)'
  BY <1>1 DEF ThreadInv, CallInv, MapInv, SpareInv, PanicInv, LiveInv, VputPairs, InCall
<1>8. LockInv(t)'
  <2>1. LowSide(t) = LockedArgs(op[t], args[t]) /\ UpSide(t) = {} /\ LowSide(t)' = {} /\ UpSide(t)' = {}
    BY <1>1 DEF LowSide, UpSide
  <2>2. (op[t] = "create" => spare[t] = Null) /\ up[t] = Null
    BY <1>1 DEF ThreadInv, SpareInv
  <2>3. LockedArgs(op[t], args[t]) \subseteq mapped[t] BY <1>1 DEF ThreadInv, MapInv, InCall
  <2>4. Locks(t) \subseteq K BY <2>1, <2>2, <2>3 DEF Locks, LowerLocks
  <2>5. Locks(t)' = {} BY <1>1, <2>1, <2>2 DEF Locks
  <2> QED BY <1>1, <1>2, <2>4, <2>5 DEF ThreadInv, LockInv
<1> QED BY <1>2, <1>3, <1>4, <1>5, <1>6, <1>7, <1>8 DEF ThreadStep, ThreadInv

(* It takes them again.                                                    *)
LEMMA LowerRelockStep ==
    ASSUME TypeOK, NEW t \in Threads, ThreadInv(t), LowerRelock(t)
    PROVE  TypeOK' /\ ThreadStep(t) /\ ThreadInv(t)'
<1> DEFINE K == LowerLocks(t, mapped[t])
<1> USE DEF LowerRelock, Go, aliasVars, lowerVars, callVars
<1>1. pc'[t] = "lower" /\ pc[t] = "unlocked" BY DEF TypeOK
<1>2. /\ lock' \in [Lower \cup Upper -> SUBSET Threads] /\ LockFrame(t)
      /\ \A k \in Lower \cup Upper : t \in lock'[k] <=> t \in lock[k] \/ k \in K
  <2>1. Take(t, K) OBVIOUS
  <2> QED BY <2>1, Taken
<1>3. TypeOK'
  <2>1. pc' \in [Threads -> Labels] BY DEF TypeOK, Labels
  <2> QED BY <1>2, <2>1 DEF TypeOK
<1>4. Frame(t) /\ StStep BY DEF TypeOK, Frame, Same, StStep
<1>5. NoneStep BY DEF NoneStep, TypeOK
<1>6. UserStep(t) /\ LowerStep(t)
  <2>1. HeldArgs(t)' = HeldArgs(t) /\ LentArgs(t)' = LentArgs(t) BY <1>1 DEF HeldArgs, LentArgs
  <2> QED BY <2>1, UserSame, LowerSame
<1>7. CallInv(t)' /\ MapInv(t)' /\ SpareInv(t)' /\ PanicInv(t)' /\ LiveInv(t)'
  BY <1>1 DEF ThreadInv, CallInv, MapInv, SpareInv, PanicInv, LiveInv, VputPairs, InCall
<1>8. LockInv(t)'
  <2>1. LowSide(t)' = LockedArgs(op[t], args[t]) /\ UpSide(t) = {} /\ LowSide(t) = {} /\ UpSide(t)' = {}
    BY <1>1 DEF LowSide, UpSide
  <2>2. (op[t] = "create" => spare[t] = Null) /\ up[t] = Null
    BY <1>1 DEF ThreadInv, SpareInv
  <2>3. LockedArgs(op[t], args[t]) \subseteq mapped[t] BY <1>1 DEF ThreadInv, MapInv, InCall
  <2>4. Locks(t)' = K BY <2>1, <2>2, <2>3 DEF Locks, LowerLocks
  <2>5. Locks(t) = {} BY <1>1, <2>1, <2>2 DEF Locks
  <2> QED BY <1>1, <1>2, <2>4, <2>5 DEF ThreadInv, LockInv
<1> QED BY <1>2, <1>3, <1>4, <1>5, <1>6, <1>7, <1>8 DEF ThreadStep, ThreadInv

(* The lower rename consumes the references and locks it was given; an     *)
(* alias that was not mapped is released by it, the others when they are   *)
(* mapped back.                                                            *)
LEMMA LowerRenameStep ==
    ASSUME TypeOK, NEW t \in Threads, ThreadInv(t), NEW e \in BOOLEAN, LowerRename(t, e)
    PROVE  TypeOK' /\ ThreadStep(t) /\ ThreadInv(t)'
<1> DEFINE K == LowerLocks(t, mapped[t])
<1> USE DEF LowerRename, Go, callVars
<1>1. pc'[t] = "unmap" /\ pc[t] = "lower" /\ op[t] = "rename" /\ op' = op /\ args' = args
  BY DEF TypeOK
<1>2. /\ lock' \in [Lower \cup Upper -> SUBSET Threads] /\ LockFrame(t)
      /\ \A k \in Lower \cup Upper : t \in lock'[k] <=> t \in lock[k] /\ k \notin K
  <2>1. Drop(t, K) OBVIOUS
  <2> QED BY <2>1, Dropped
<1>3. mapped[t] \in SUBSET (1 .. 4) /\ mapped[t] \subseteq Given(args[t]) /\ rest[t] = mapped[t]
  BY <1>1 DEF TypeOK, ThreadInv, MapInv, InCall
<1>4. luse' \in [Lower -> Int] /\ LowerStep(t)
  <2>1. LentArgs(t) = mapped[t] /\ LentArgs(t)' = {} BY <1>1 DEF LentArgs
  <2> QED BY <1>1, <1>3, <2>1, LowerLent
<1>5. uuse' \in [Upper -> Int] /\ UserStep(t) /\ NoneStep
  <2> DEFINE J == Given(args[t]) \ mapped[t]
  <2>1. HeldArgs(t) = Given(args[t]) BY <1>1 DEF HeldArgs
  <2>2. HeldArgs(t)' = mapped[t] BY <1>1, <1>3 DEF HeldArgs
  <2>3. J \in SUBSET HeldArgs(t) /\ HeldArgs(t)' = HeldArgs(t) \ J BY <1>3, <2>1, <2>2
  <2>4. Vrele(args[t], J) OBVIOUS
  <2> HIDE DEF J
  <2> QED BY <1>1, <2>3, <2>4, UserReleased
<1>6. TypeOK'
  <2>1. pc' \in [Threads -> Labels] /\ err' \in [Threads -> BOOLEAN] BY DEF TypeOK, Labels
  <2> QED BY <1>2, <1>4, <1>5, <2>1 DEF TypeOK
<1>7. Frame(t) /\ StStep BY DEF TypeOK, Frame, Same, StStep
<1>8. CallInv(t)' /\ MapInv(t)' /\ SpareInv(t)' /\ PanicInv(t)' /\ LiveInv(t)'
  BY <1>1 DEF ThreadInv, CallInv, MapInv, SpareInv, PanicInv, LiveInv, VputPairs, InCall
<1>9. LockInv(t)'
  <2>1. LowSide(t) = LockedArgs(op[t], args[t]) /\ UpSide(t) = {} /\ LowSide(t)' = {} /\ UpSide(t)' = {}
    BY <1>1, ModeOf DEF LowSide, UpSide
  <2>2. up[t] = Null BY <1>1 DEF ThreadInv, SpareInv
  <2>3. LockedArgs(op[t], args[t]) \subseteq mapped[t] BY <1>1 DEF ThreadInv, MapInv, InCall
  <2>4. Locks(t) \subseteq K BY <1>1, <2>1, <2>2, <2>3 DEF Locks, LowerLocks
  <2>5. Locks(t)' = {} BY <1>1, <2>1, <2>2 DEF Locks
  <2> QED BY <1>1, <1>2, <2>4, <2>5 DEF ThreadInv, LockInv
<1> QED BY <1>2, <1>4, <1>5, <1>6, <1>7, <1>8, <1>9 DEF ThreadStep, ThreadInv

(* The lower create returns a vnode that is locked and referenced.         *)
LEMMA LowerCreateStep ==
    ASSUME TypeOK, NEW t \in Threads, ThreadInv(t), NEW c \in Lower, LowerCreate(t, c)
    PROVE  TypeOK' /\ ThreadStep(t) /\ ThreadInv(t)'
<1> USE DEF LowerCreate, Go, aliasVars, callVars
<1>1. /\ pc'[t] = "unmap" /\ pc[t] = "lower" /\ op[t] = "create" /\ op' = op /\ args' = args
      /\ spare'[t] = c
  BY DEF TypeOK
<1>2. /\ lock' \in [Lower \cup Upper -> SUBSET Threads] /\ LockFrame(t)
      /\ \A k \in Lower \cup Upper : t \in lock'[k] <=> t \in lock[k] \/ k \in {c}
  <2>1. Take(t, {c}) OBVIOUS
  <2> QED BY <2>1, Taken
<1>3. spare[t] = Null /\ up[t] = Null BY <1>1 DEF ThreadInv, SpareInv
<1>4. /\ luse' \in [Lower -> Int]
      /\ \A l \in Lower : luse'[l] = luse[l] + Is(spare'[t], l) - Is(spare[t], l)
  <2>1. luse' = [luse EXCEPT ![c] = @ + 1] OBVIOUS
  <2> QED BY <1>1, <1>3, <2>1, SpareCount
<1>5. TypeOK'
  <2>1. pc' \in [Threads -> Labels] /\ spare' \in [Threads -> Lower \cup {Null}]
    BY DEF TypeOK, Labels
  <2> QED BY <1>2, <1>4, <2>1 DEF TypeOK
<1>6. LowerStep(t)
  <2>1. LentArgs(t) = {} /\ LentArgs(t)' = {} BY <1>1 DEF LentArgs
  <2>2. spare' \in [Threads -> Lower \cup {Null}] BY <1>5 DEF TypeOK
  <2> QED BY <1>1, <1>4, <2>1, <2>2, LowerSpare
<1>7. UserStep(t)
  <2>1. HeldArgs(t)' = HeldArgs(t) BY <1>1 DEF HeldArgs
  <2> QED BY <2>1, UserSame
<1>8. Frame(t) /\ StStep BY DEF TypeOK, Frame, Same, StStep
<1>9. NoneStep BY DEF NoneStep, TypeOK
<1>10. LockedArgs(op[t], args[t]) \subseteq mapped[t] /\ rest[t] = mapped[t]
  BY <1>1 DEF ThreadInv, MapInv, InCall
<1>11. CallInv(t)' /\ MapInv(t)' /\ PanicInv(t)' /\ LiveInv(t)'
  BY <1>1 DEF ThreadInv, CallInv, MapInv, PanicInv, LiveInv, VputPairs, InCall
<1>12. SpareInv(t)'
  <2>1. ~err[t] BY <1>1 DEF ThreadInv, CallInv
  <2>2. c \notin {Below[args[t][j]] : j \in LockedArgs(op[t], args[t])} BY <1>10
  <2>3. c # Null BY BypassConstants
  <2> QED BY <1>1, <1>3, <2>1, <2>2, <2>3 DEF SpareInv
<1>13. LockInv(t)'
  <2>1. LowSide(t)' = LowSide(t) /\ UpSide(t) = {} /\ UpSide(t)' = {}
    BY <1>1, <1>10, ModeOf DEF LowSide, UpSide
  <2>2. c # Null BY BypassConstants
  <2>3. Locks(t)' = Locks(t) \cup {c} BY <1>1, <1>3, <2>1, <2>2 DEF Locks
  <2> QED BY <1>1, <1>2, <2>3 DEF ThreadInv, LockInv
<1> QED BY <1>2, <1>5, <1>6, <1>7, <1>8, <1>9, <1>11, <1>12, <1>13 DEF ThreadStep, ThreadInv

(* An argument that needs no other lock is mapped back: it is live, or     *)
(* nothing is locked for it.                                               *)
LEMMA UnmapStep ==
    ASSUME TypeOK, NEW t \in Threads, ThreadInv(t), Unmap(t)
    PROVE  TypeOK' /\ ThreadStep(t) /\ ThreadInv(t)'
<1> DEFINE i == Turn(t)
           J == LockedArgs(op[t], args[t])
<1> USE DEF Unmap, Advance, lowerVars, callVars
<1>1. i \in rest[t] /\ i \in 1 .. 4 BY TurnIn
<1>2. rest'[t] = rest[t] \ {i} /\ pc'[t] = "unmap" /\ pc[t] = "unmap" /\ op' = op /\ args' = args
  BY DEF TypeOK
<1>3. rest[t] \in SUBSET (1 .. 4) /\ rest[t] \subseteq mapped[t] /\ mapped[t] \subseteq Given(args[t])
  BY <1>2 DEF TypeOK, ThreadInv, MapInv, InCall
<1> HIDE DEF i
<1>4. uuse' \in [Upper -> Int] /\ UserStep(t) /\ NoneStep
  <2> DEFINE R == Released(t, i)
  <2>1. Vrele(args[t], R) BY DEF i
  <2>2. op[t] = "rename" => HeldArgs(t) = rest[t] /\ HeldArgs(t)' = rest[t] \ {i} /\ R = {i}
    BY <1>1, <1>2 DEF HeldArgs, Released, WillRele
  <2>3. op[t] # "rename" => HeldArgs(t) = HeldArgs(t)' /\ R = {}
    BY <1>2 DEF HeldArgs, Released, WillRele
  <2>4. R \in SUBSET HeldArgs(t) /\ HeldArgs(t)' = HeldArgs(t) \ R BY <1>1, <2>2, <2>3
  <2> HIDE DEF R
  <2> QED BY <1>2, <2>1, <2>4, UserReleased
<1>5. LowerStep(t)
  <2>1. LentArgs(t)' = LentArgs(t) BY <1>2 DEF LentArgs
  <2> QED BY <1>2, <2>1, LowerSame
<1>6. TypeOK'
  <2>1. rest' \in [Threads -> SUBSET (1 .. 4)] BY <1>3 DEF TypeOK
  <2> QED BY <1>4, <2>1 DEF TypeOK
<1>7. Frame(t) /\ LockFrame(t) /\ StStep BY DEF TypeOK, Frame, Same, LockFrame, StStep
<1>8. CallInv(t)' /\ MapInv(t)' /\ SpareInv(t)' /\ PanicInv(t)' /\ LiveInv(t)'
  BY <1>2, <1>3 DEF ThreadInv, CallInv, MapInv, SpareInv, PanicInv, LiveInv, VputPairs, InCall
<1>9. LockInv(t)'
  <2>1. CASE op[t] = "rename"
    <3>1. LowSide(t)' = {} /\ UpSide(t) = {} /\ LowSide(t) = {} /\ UpSide(t)' = {}
      BY <1>2, <2>1, ModeOf DEF LowSide, UpSide
    <3>2. Locks(t)' = Locks(t) BY <1>2, <3>1 DEF Locks, Vnlock
    <3> QED BY <1>2, <3>2 DEF ThreadInv, LockInv
  <2>2. CASE op[t] # "rename" /\ mode[t] = "exclusive"
    <3>1. /\ LowSide(t) = J \cap rest[t] /\ LowSide(t)' = J \cap (rest[t] \ {i})
          /\ UpSide(t) = J \ rest[t] /\ UpSide(t)' = J \ (rest[t] \ {i})
      BY <1>2, <2>2 DEF LowSide, UpSide
    <3>2. i \in J => Vnlock(args[t][i]) = Below[args[t][i]]
      <4> SUFFICES ASSUME i \in J PROVE Vnlock(args[t][i]) = Below[args[t][i]] OBVIOUS
      <4>1. Below[args[t][i]] \in Locks(t) BY <1>1, <3>1 DEF Locks
      <4>2. Below[args[t][i]] \in Lower
        BY <1>1, <1>3, BypassConstants DEF Given, TypeOK
      <4>3. t \in lock[Below[args[t][i]]] BY <1>2, <4>1, <4>2 DEF ThreadInv, LockInv
      <4> QED BY <2>2, <4>3 DEF Split, i
    <3>3. Locks(t)' = Locks(t) BY <1>1, <1>2, <3>1, <3>2 DEF Locks, Vnlock
    <3> QED BY <1>2, <3>3 DEF ThreadInv, LockInv
  <2>3. CASE mode[t] = "shared"
    <3>1. LowSide(t) = J /\ LowSide(t)' = J /\ UpSide(t) = {} /\ UpSide(t)' = {}
      BY <1>2, <2>3 DEF LowSide, UpSide
    <3>2. Locks(t)' = Locks(t) BY <1>2, <3>1 DEF Locks, Vnlock
    <3> QED BY <1>2, <3>2 DEF ThreadInv, LockInv
  <2> QED BY <2>1, <2>2, <2>3, ModeOf
<1> QED BY <1>4, <1>5, <1>6, <1>7, <1>8, <1>9 DEF ThreadStep, ThreadInv

(* Both locks of an operation other than rename are of its first two       *)
(* arguments, which have different lower vnodes.                           *)
LEMMA TwoLocks ==
    ASSUME TypeOK, NEW t \in Threads, ThreadInv(t), pc[t] # "idle",
           op[t] # "rename", NEW i \in Given(args[t]), NEW j \in Given(args[t]), i # j
    PROVE  Below[args[t][i]] # Below[args[t][j]]
BY DEF ThreadInv, CallInv, Given

(* An argument was reclaimed while unlocked below: tpt_bypass unlocks the  *)
(* lower vnode, which is no other lock of this call.                       *)
LEMMA UnmapSplitStep ==
    ASSUME TypeOK, NEW t \in Threads, ThreadInv(t), UnmapSplit(t)
    PROVE  TypeOK' /\ ThreadStep(t) /\ ThreadInv(t)'
<1> DEFINE i == Turn(t)
           J == LockedArgs(op[t], args[t])
           v == Below[args[t][i]]
<1> USE DEF UnmapSplit, Go, aliasVars, lowerVars, callVars
<1>1. i \in rest[t] /\ i \in 1 .. 4 BY TurnIn
<1>2. /\ rest' = rest /\ pc'[t] = "move" /\ pc[t] = "unmap" /\ op' = op /\ args' = args
      /\ Turn(t)' = i
  BY TurnSame DEF TypeOK
<1>3. rest[t] \in SUBSET (1 .. 4) /\ rest[t] \subseteq mapped[t] /\ mapped[t] \subseteq Given(args[t])
  BY <1>2 DEF TypeOK, ThreadInv, MapInv, InCall
<1>4. args[t][i] \in Upper /\ v \in Lower BY <1>1, <1>3, BypassConstants DEF Given, TypeOK
<1>5. t \in lock[v] /\ mode[t] = "exclusive" /\ st[args[t][i]] # "live" BY DEF Split, Vnlock
<1>6. /\ lock' \in [Lower \cup Upper -> SUBSET Threads] /\ LockFrame(t)
      /\ \A k \in Lower \cup Upper : t \in lock'[k] <=> t \in lock[k] /\ k \notin {v}
  <2>1. Drop(t, {v}) OBVIOUS
  <2> QED BY <2>1, Dropped
<1> HIDE DEF i
<1>7. op[t] # "rename"
  <2>1. v \in Locks(t) BY <1>2, <1>4, <1>5 DEF ThreadInv, LockInv
  <2>2. up[t] = Null BY <1>2 DEF ThreadInv, SpareInv
  <2>3. op[t] = "rename" => LowSide(t) = {} /\ UpSide(t) = {} BY <1>2, <1>5 DEF LowSide, UpSide
  <2> QED BY <2>1, <2>2, <2>3 DEF Locks
<1>8. UserStep(t) /\ LowerStep(t)
  <2>1. HeldArgs(t)' = HeldArgs(t) /\ LentArgs(t)' = LentArgs(t)
    BY <1>2, <1>7 DEF HeldArgs, LentArgs
  <2> QED BY <1>2, <2>1, UserSame, LowerSame
<1>9. TypeOK'
  <2>1. pc' \in [Threads -> Labels] BY DEF TypeOK, Labels
  <2> QED BY <1>6, <2>1 DEF TypeOK
<1>10. Frame(t) /\ StStep BY DEF TypeOK, Frame, Same, StStep
<1>11. NoneStep BY DEF NoneStep, TypeOK
<1>12. CallInv(t)' /\ SpareInv(t)' /\ PanicInv(t)' /\ LiveInv(t)'
  BY <1>2, <1>5, <1>7 DEF ThreadInv, CallInv, SpareInv, PanicInv, LiveInv, VputPairs, InCall
<1>13. MapInv(t)' BY <1>2, <1>3, <1>5 DEF ThreadInv, MapInv, InCall
<1>14. LockInv(t)'
  <2>1. /\ LowSide(t) = J \cap rest[t] /\ LowSide(t)' = (J \cap rest[t]) \ {i}
        /\ UpSide(t) = J \ rest[t] /\ UpSide(t)' = J \ rest[t]
    BY <1>2, <1>5, <1>7 DEF LowSide, UpSide
  <2>2. up[t] = Null BY <1>2 DEF ThreadInv, SpareInv
  <2>3. J \subseteq Given(args[t]) /\ \A j \in J \ {i} : Below[args[t][j]] # v
    <3>1. J \subseteq Given(args[t]) BY DEF LockedArgs
    <3> QED BY <3>1, <1>1, <1>2, <1>3, <1>7, TwoLocks
  <2>4. i \in J
    BY <1>1, <1>2, <1>3, <1>7 DEF ThreadInv, CallInv, Given, LockedArgs
  <2>5. \A j \in J \ {i} : Vnlock(args[t][j]) # v
    <3>1. \A j \in J : args[t][j] \in Upper BY <2>3 DEF Given, TypeOK
    <3> QED BY <1>4, <2>3, <3>1, BypassConstants DEF Vnlock
  <2>6. op[t] = "create" => spare[t] # v
    BY <1>4, <2>4, BypassConstants DEF ThreadInv, SpareInv
  <2>7. Locks(t)' = Locks(t) \ {v}
    BY <1>1, <1>2, <2>1, <2>2, <2>3, <2>4, <2>5, <2>6 DEF Locks, Vnlock
  <2> QED BY <1>2, <1>6, <2>7 DEF ThreadInv, LockInv
<1> QED BY <1>6, <1>8, <1>9, <1>10, <1>11, <1>12, <1>13, <1>14 DEF ThreadStep, ThreadInv

(* It locks the alias instead.                                             *)
LEMMA UnmapMoveStep ==
    ASSUME TypeOK, NEW t \in Threads, ThreadInv(t), UnmapMove(t)
    PROVE  TypeOK' /\ ThreadStep(t) /\ ThreadInv(t)'
<1> DEFINE i == Turn(t)
           J == LockedArgs(op[t], args[t])
           u == args[t][i]
<1> USE DEF UnmapMove, Advance, Go, lowerVars, callVars
<1>1. rest[t] # {} /\ op[t] # "rename" /\ mode[t] = "exclusive" /\ st[u] # "live" BY DEF ThreadInv, MapInv, CallInv
<1>2. i \in rest[t] /\ i \in 1 .. 4 BY <1>1, TurnIn
<1>3. rest'[t] = rest[t] \ {i} /\ pc'[t] = "unmap" /\ pc[t] = "move" /\ op' = op /\ args' = args
  BY DEF TypeOK
<1>4. rest[t] \in SUBSET (1 .. 4) /\ rest[t] \subseteq mapped[t] /\ mapped[t] \subseteq Given(args[t])
  BY <1>3 DEF TypeOK, ThreadInv, MapInv, InCall
<1>5. u \in Upper BY <1>2, <1>4 DEF Given, TypeOK
<1>6. /\ lock' \in [Lower \cup Upper -> SUBSET Threads] /\ LockFrame(t)
      /\ \A k \in Lower \cup Upper : t \in lock'[k] <=> t \in lock[k] \/ k \in {u}
  <2>1. Take(t, {u}) OBVIOUS
  <2> QED BY <2>1, Taken
<1> HIDE DEF i
<1>7. uuse' \in [Upper -> Int] /\ UserStep(t) /\ NoneStep
  <2>1. Vrele(args[t], {}) BY <1>1 DEF i, Released, WillRele
  <2>2. {} \in SUBSET HeldArgs(t) /\ HeldArgs(t)' = HeldArgs(t) \ {}
    BY <1>1, <1>3 DEF HeldArgs
  <2> QED BY <1>3, <2>1, <2>2, UserReleased
<1>8. LowerStep(t)
  <2>1. LentArgs(t)' = LentArgs(t) BY <1>3 DEF LentArgs
  <2> QED BY <1>3, <2>1, LowerSame
<1>9. TypeOK'
  <2>1. pc' \in [Threads -> Labels] /\ rest' \in [Threads -> SUBSET (1 .. 4)]
    BY <1>4 DEF TypeOK, Labels
  <2> QED BY <1>6, <1>7, <2>1 DEF TypeOK
<1>10. Frame(t) /\ StStep BY DEF TypeOK, Frame, Same, StStep
<1>11. CallInv(t)' /\ MapInv(t)' /\ SpareInv(t)' /\ PanicInv(t)' /\ LiveInv(t)'
  BY <1>3, <1>4 DEF ThreadInv, CallInv, MapInv, SpareInv, PanicInv, LiveInv, VputPairs, InCall
<1>12. LockInv(t)'
  <2>1. /\ LowSide(t) = (J \cap rest[t]) \ {i} /\ LowSide(t)' = J \cap (rest[t] \ {i})
        /\ UpSide(t) = J \ rest[t] /\ UpSide(t)' = J \ (rest[t] \ {i})
    BY <1>1, <1>3 DEF LowSide, UpSide, i
  <2>2. i \in J
    BY <1>1, <1>2, <1>3, <1>4 DEF ThreadInv, CallInv, Given, LockedArgs
  <2>3. Locks(t)' = Locks(t) \cup {u} BY <1>1, <1>2, <1>3, <2>1, <2>2 DEF Locks, Vnlock
  <2> QED BY <1>3, <1>6, <2>3 DEF ThreadInv, LockInv
<1> QED BY <1>6, <1>7, <1>8, <1>9, <1>10, <1>11, <1>12 DEF ThreadStep, ThreadInv

(* An alias that becomes live, or is no longer.                            *)
LEMMA LiveMoves ==
    ASSUME TypeOK, NEW u \in Upper, NEW x, st' = [st EXCEPT ![u] = x], NEW l \in Lower
    PROVE  Cardinality(LiveOn(l))' = Cardinality(LiveOn(l))
              + Is(Below[u], l) * (Is(x, "live") - Is(st[u], "live"))
<1> DEFINE A == LiveOn(l)
           B == LiveOn(l)'
<1>1. A \in SUBSET Upper /\ B \in SUBSET Upper BY DEF LiveOn
<1>2. \A w \in Upper \ {u} : w \in B <=> w \in A BY DEF LiveOn, TypeOK
<1>3. /\ In(u, B) = (IF Below[u] = l /\ x = "live" THEN 1 ELSE 0)
      /\ In(u, A) = (IF Below[u] = l /\ st[u] = "live" THEN 1 ELSE 0)
  BY DEF LiveOn, In, TypeOK
<1> HIDE DEF A, B
<1>4. Cardinality(A) \in Nat BY <1>1, <1>2, CountMoves, BypassConstants
<1>5. Cardinality(B) = Cardinality(A) + In(u, B) - In(u, A)
  BY <1>1, <1>2, CountMoves, BypassConstants
<1>6. Cardinality(B) = Cardinality(A) + Is(Below[u], l) * (Is(x, "live") - Is(st[u], "live"))
  BY <1>3, <1>4, <1>5 DEF Is
<1> QED BY <1>6 DEF A, B

(* tpt_nodeget makes an alias of the created vnode: the reference and the  *)
(* lock go to it.                                                          *)
LEMMA NodegetNewStep ==
    ASSUME TypeOK, RefInv, NEW t \in Threads, ThreadInv(t), NEW u \in Upper, NodegetNew(t, u)
    PROVE  TypeOK' /\ ThreadStep(t) /\ ThreadInv(t)'
<1> DEFINE J == LockedArgs(op[t], args[t])
<1> USE DEF NodegetNew, Go, lowerVars, callVars
<1>1. /\ pc'[t] = "post" /\ pc[t] = "nodeget" /\ op' = op /\ args' = args
      /\ spare'[t] = Null /\ up'[t] = u
  BY DEF TypeOK
<1>2. op[t] = "create" /\ spare[t] # Null /\ up[t] = Null
  BY <1>1 DEF ThreadInv, CallInv, SpareInv
<1>3. st[u] = "none" /\ Below[u] = spare[t] /\ uuse[u] = 0 BY DEF Empty, RefInv
<1>4. HeldArgs(t) = Given(args[t]) /\ HeldArgs(t)' = Given(args[t]) /\ LentArgs(t) = {} /\ LentArgs(t)' = {}
  BY <1>1, <1>2 DEF HeldArgs, LentArgs
<1>5. TypeOK'
  <2>1. pc' \in [Threads -> Labels] /\ spare' \in [Threads -> Lower \cup {Null}]
        /\ up' \in [Threads -> Upper \cup {Null}] BY DEF TypeOK, Labels
  <2>2. st' \in [Upper -> {"none", "live", "reclaim", "dead"}] /\ uuse' \in [Upper -> Int]
    BY DEF TypeOK
  <2> QED BY <2>1, <2>2 DEF TypeOK
<1>6. Frame(t) /\ LockFrame(t) BY DEF TypeOK, Frame, Same, LockFrame
<1>7. StStep /\ NoneStep BY <1>3 DEF StStep, NoneStep, TypeOK
<1>8. UserStep(t)
  <2> SUFFICES ASSUME NEW w \in Upper
               PROVE  uuse'[w] = uuse[w]
                        + Times(args[t]', HeldArgs(t)', w) - Times(args[t], HeldArgs(t), w)
                        + Is(up'[t], w) - Is(up[t], w) + Is(wfile'[t], w) - Is(wfile[t], w)
    BY DEF UserStep
  <2>1. Times(args[t], Given(args[t]), w) \in Nat
    <3>1. Given(args[t]) \in SUBSET (1 .. 4) BY DEF Given
    <3> QED BY <3>1, TimesNat
  <2>2. uuse[w] \in Int /\ Null # w BY BypassConstants DEF TypeOK
  <2>3. uuse'[w] = uuse[w] + Is(u, w) BY <1>3, <2>2 DEF Is, TypeOK
  <2> QED BY <1>1, <1>2, <1>4, <2>1, <2>2, <2>3 DEF Is
<1>9. LowerStep(t)
  <2> SUFFICES ASSUME NEW l \in Lower
               PROVE  luse'[l] = luse[l] + Cardinality(LiveOn(l))' - Cardinality(LiveOn(l))
                      + Is(spare'[t], l) - Is(spare[t], l)
                      + LowerTimes(args[t]', LentArgs(t)', l) - LowerTimes(args[t], LentArgs(t), l)
    BY DEF LowerStep
  <2>1. Cardinality(LiveOn(l))' = Cardinality(LiveOn(l))
              + Is(Below[u], l) * (Is("live", "live") - Is(st[u], "live"))
    BY LiveMoves
  <2>2. LowerTimes(args[t], {}, l) = 0 BY TimesNone
  <2>3. Cardinality(LiveOn(l)) \in Nat BY LiveFinite
  <2>4. luse[l] \in Int /\ l # Null BY BypassConstants DEF TypeOK
  <2> QED BY <1>1, <1>3, <1>4, <2>1, <2>2, <2>3, <2>4 DEF Is
<1>10. CallInv(t)' /\ MapInv(t)' /\ SpareInv(t)' /\ PanicInv(t)'
  BY <1>1, <1>2 DEF ThreadInv, CallInv, MapInv, SpareInv, PanicInv, VputPairs, InCall
<1>11. LowSide(t) = {} /\ LowSide(t)' = {} /\ UpSide(t) = J /\ UpSide(t)' = J
  BY <1>1, <1>2, ModeOf DEF LowSide, UpSide
<1>12. \A j \in J : args[t][j] \in Upper /\ args[t][j] # u
  BY <1>3, <1>11, SidesUsed
<1>13. LiveInv(t)' BY <1>1, <1>11, <1>12 DEF ThreadInv, LiveInv, InCall, TypeOK
<1>14. LockInv(t)'
  <2>1. \A j \in J : (st[args[t][j]] = "live" <=> st'[args[t][j]] = "live") BY <1>12 DEF TypeOK
  <2>2. st'[u] = "live" /\ u # Null BY BypassConstants DEF TypeOK
  <2>3. Locks(t)' = Locks(t) BY <1>1, <1>2, <1>3, <1>11, <2>1, <2>2 DEF Locks, Vnlock
  <2> QED BY <1>1, <2>3 DEF ThreadInv, LockInv
<1> QED BY <1>5, <1>6, <1>7, <1>8, <1>9, <1>10, <1>13, <1>14 DEF ThreadStep, ThreadInv

(* tpt_nodeget fails: reference and lock of the created vnode go.          *)
LEMMA NodegetFailsStep ==
    ASSUME TypeOK, NEW t \in Threads, ThreadInv(t), NodegetFails(t)
    PROVE  TypeOK' /\ ThreadStep(t) /\ ThreadInv(t)'
<1> DEFINE J == LockedArgs(op[t], args[t])
<1> USE DEF NodegetFails, Go, aliasVars, callVars
<1>1. /\ pc'[t] = "post" /\ pc[t] = "nodeget" /\ op' = op /\ args' = args /\ spare'[t] = Null
  BY DEF TypeOK
<1>2. op[t] = "create" /\ spare[t] \in Lower /\ up[t] = Null
  BY <1>1 DEF ThreadInv, CallInv, SpareInv, TypeOK
<1>3. /\ lock' \in [Lower \cup Upper -> SUBSET Threads] /\ LockFrame(t)
      /\ \A k \in Lower \cup Upper : t \in lock'[k] <=> t \in lock[k] /\ k \notin {spare[t]}
  <2>1. Drop(t, {spare[t]}) OBVIOUS
  <2> QED BY <2>1, Dropped
<1>4. /\ luse' \in [Lower -> Int]
      /\ \A l \in Lower : luse'[l] = luse[l] + Is(spare'[t], l) - Is(spare[t], l)
  BY <1>1, <1>2, SpareCount
<1>5. TypeOK'
  <2>1. pc' \in [Threads -> Labels] /\ spare' \in [Threads -> Lower \cup {Null}]
    BY DEF TypeOK, Labels
  <2> QED BY <1>3, <1>4, <2>1 DEF TypeOK
<1>6. LowerStep(t)
  <2>1. LentArgs(t) = {} /\ LentArgs(t)' = {} BY <1>1, <1>2 DEF LentArgs
  <2>2. spare' \in [Threads -> Lower \cup {Null}] BY <1>5 DEF TypeOK
  <2> QED BY <1>1, <1>4, <2>1, <2>2, LowerSpare
<1>7. UserStep(t)
  <2>1. HeldArgs(t)' = HeldArgs(t) BY <1>1, <1>2 DEF HeldArgs
  <2> QED BY <1>1, <2>1, UserSame
<1>8. Frame(t) /\ StStep BY DEF TypeOK, Frame, Same, StStep
<1>9. NoneStep BY DEF NoneStep, TypeOK
<1>10. CallInv(t)' /\ MapInv(t)' /\ SpareInv(t)' /\ PanicInv(t)' /\ LiveInv(t)'
  BY <1>1, <1>2 DEF ThreadInv, CallInv, MapInv, SpareInv, PanicInv, LiveInv, VputPairs, InCall
<1>11. LockInv(t)'
  <2>1. LowSide(t) = {} /\ LowSide(t)' = {} /\ UpSide(t) = J /\ UpSide(t)' = J
    BY <1>1, <1>2, ModeOf DEF LowSide, UpSide
  <2>2. \A j \in J : args[t][j] \in Upper BY DEF LockedArgs, Given, TypeOK
  <2>3. \A j \in J : Below[args[t][j]] # spare[t]
    BY <1>1, <1>2, BypassConstants DEF ThreadInv, SpareInv
  <2>4. \A j \in J : Vnlock(args[t][j]) # spare[t]
    BY <1>2, <2>2, <2>3, BypassConstants DEF Vnlock
  <2>5. spare[t] # Null BY <1>2, BypassConstants
  <2>6. Locks(t)' = Locks(t) \ {spare[t]}
    BY <1>1, <1>2, <2>1, <2>4, <2>5 DEF Locks, Vnlock
  <2> QED BY <1>1, <1>3, <2>6 DEF ThreadInv, LockInv
<1> QED BY <1>3, <1>5, <1>6, <1>7, <1>8, <1>9, <1>10, <1>11 DEF ThreadStep, ThreadInv

(* The end of an operation: tpt_remove drops its reference, tpt_open takes *)
(* over the v_object.                                                      *)
LEMMA FinishStep ==
    ASSUME TypeOK, NEW t \in Threads, ThreadInv(t), Finish(t)
    PROVE  TypeOK' /\ ThreadStep(t) /\ ThreadInv(t)'
<1> DEFINE J == LockedArgs(op[t], args[t])
<1> USE DEF Finish, Go, callVars
<1>1. /\ pc'[t] = "ret" /\ pc[t] = "post" /\ op' = op /\ args' = args /\ spare'[t] = Null
  BY DEF TypeOK
<1>2. op[t] \notin VputPairs \cup {"pgcache"} /\ (op[t] = "create" => spare[t] = Null)
  BY <1>1 DEF ThreadInv, CallInv, SpareInv
<1>3. Kept(t)' = IF op[t] = "rename" THEN {} ELSE Given(args[t])
  BY <1>1, <1>2 DEF Kept
<1>4. luse' \in [Lower -> Int]
      /\ \A l \in Lower : luse'[l] = luse[l] + Is(spare'[t], l) - Is(spare[t], l)
  <2>1. luse' \in [Lower -> Int] BY DEF TypeOK
  <2>2. ASSUME NEW l \in Lower PROVE luse'[l] = luse[l] + Is(spare'[t], l) - Is(spare[t], l)
    <3>1. l # Null /\ luse[l] \in Int BY BypassConstants DEF TypeOK
    <3>2. luse'[l] = IF l = spare[t] THEN luse[l] - 1 ELSE luse[l] OBVIOUS
    <3> QED BY <1>1, <3>1, <3>2 DEF Is
  <2> QED BY <2>1, <2>2
<1>5. TypeOK'
  <2>1. pc' \in [Threads -> Labels] /\ spare' \in [Threads -> Lower \cup {Null}]
    BY DEF TypeOK, Labels
  <2>2. obj' \subseteq Upper
    <3>1. args[t][1] \in Upper BY <1>1 DEF ThreadInv, CallInv, TypeOK
    <3> QED BY <3>1 DEF TypeOK
  <2> QED BY <1>4, <2>1, <2>2 DEF TypeOK
<1>6. LowerStep(t)
  <2>1. LentArgs(t) = {} /\ LentArgs(t)' = {} BY <1>1 DEF LentArgs
  <2>2. spare' \in [Threads -> Lower \cup {Null}] BY <1>5 DEF TypeOK
  <2> QED BY <1>1, <1>4, <2>1, <2>2, LowerSpare
<1>7. UserStep(t)
  <2>1. HeldArgs(t)' = HeldArgs(t) BY <1>1, <1>3 DEF HeldArgs
  <2> QED BY <1>1, <2>1, UserSame
<1>8. Frame(t) /\ LockFrame(t) /\ StStep BY DEF TypeOK, Frame, LockFrame, Same, StStep
<1>9. NoneStep BY DEF NoneStep, TypeOK
<1>10. CallInv(t)' /\ MapInv(t)' /\ SpareInv(t)' /\ PanicInv(t)'
  BY <1>1, <1>2 DEF ThreadInv, CallInv, MapInv, SpareInv, PanicInv, VputPairs, InCall
<1>11. LiveInv(t)'
  <2> SUFFICES ASSUME mode[t] = "shared", st[args[t][1]] # "live"
               PROVE  mapped[t] # {} /\ op[t] \in LowerUnlocks
    BY <1>1 DEF LiveInv, InCall
  <2>1. op[t] \in SharedOps /\ 1 \in J
    BY <1>1 DEF ThreadInv, CallInv, LockedArgs, Given, SharedOps
  <2> QED BY <1>1, <2>1 DEF ThreadInv, MapInv, LiveInv, InCall, SharedOps
<1>12. LockInv(t)'
  <2>1. J \subseteq Given(args[t]) BY DEF LockedArgs
  <2>2. LowSide(t)' = LowSide(t) /\ UpSide(t)' = UpSide(t)
    <3>1. CASE mode[t] = "shared" BY <1>1, <3>1 DEF LowSide, UpSide
    <3>2. CASE mode[t] = "exclusive" BY <1>1, <1>3, <2>1, <3>2 DEF LowSide, UpSide
    <3> QED BY <3>1, <3>2, ModeOf
  <2>3. Locks(t)' = Locks(t) BY <1>1, <1>2, <2>2 DEF Locks, Vnlock
  <2> QED BY <1>1, <2>3 DEF ThreadInv, LockInv
<1> QED BY <1>5, <1>6, <1>7, <1>8, <1>9, <1>10, <1>11, <1>12 DEF ThreadStep, ThreadInv

(* tpt_read_pgcache takes a reference on the lower vnode without a lock.   *)
LEMMA PgcacheStep ==
    ASSUME TypeOK, NEW t \in Threads, ThreadInv(t), Pgcache(t)
    PROVE  TypeOK' /\ ThreadStep(t) /\ ThreadInv(t)'
<1> DEFINE l == Below[args[t][1]]
<1> USE DEF Pgcache, Go, aliasVars, callVars
<1>1. /\ pc'[t] = "pg" /\ pc[t] = "pre" /\ op[t] = "pgcache" /\ op' = op /\ args' = args
      /\ spare'[t] = l
  BY DEF TypeOK
<1>2. l \in Lower /\ l # Null BY <1>1, BypassConstants DEF ThreadInv, CallInv, TypeOK
<1>3. spare[t] = Null /\ up[t] = Null BY <1>1 DEF ThreadInv, SpareInv, InCall
<1>4. /\ luse' \in [Lower -> Int]
      /\ \A w \in Lower : luse'[w] = luse[w] + Is(spare'[t], w) - Is(spare[t], w)
  BY <1>1, <1>2, <1>3, SpareCount
<1>5. TypeOK'
  <2>1. pc' \in [Threads -> Labels] /\ spare' \in [Threads -> Lower \cup {Null}]
    BY <1>2 DEF TypeOK, Labels
  <2> QED BY <1>4, <2>1 DEF TypeOK
<1>6. LowerStep(t)
  <2>1. LentArgs(t) = {} /\ LentArgs(t)' = {} BY <1>1 DEF LentArgs
  <2>2. spare' \in [Threads -> Lower \cup {Null}] BY <1>5 DEF TypeOK
  <2> QED BY <1>1, <1>4, <2>1, <2>2, LowerSpare
<1>7. UserStep(t)
  <2>1. HeldArgs(t)' = HeldArgs(t) BY <1>1 DEF HeldArgs
  <2> QED BY <1>1, <2>1, UserSame
<1>8. Frame(t) /\ LockFrame(t) /\ StStep BY DEF TypeOK, Frame, LockFrame, Same, StStep
<1>9. NoneStep BY DEF NoneStep, TypeOK
<1>10. CallInv(t)' /\ MapInv(t)' /\ SpareInv(t)' /\ PanicInv(t)' /\ LiveInv(t)'
  BY <1>1, <1>2 DEF ThreadInv, CallInv, MapInv, SpareInv, PanicInv, LiveInv, VputPairs, InCall
<1>11. LockInv(t)'
  <2>1. LowSide(t) = {} /\ LowSide(t)' = {} /\ UpSide(t)' = {} /\ UpSide(t) = {}
    BY <1>1 DEF LowSide, UpSide, LockedArgs
  <2>2. Locks(t)' = Locks(t) BY <1>1, <1>3, <2>1 DEF Locks
  <2> QED BY <1>1, <2>2 DEF ThreadInv, LockInv
<1> QED BY <1>5, <1>6, <1>7, <1>8, <1>9, <1>10, <1>11 DEF ThreadStep, ThreadInv

(* tpt_read_pgcache drops it.                                              *)
LEMMA PgcacheDoneStep ==
    ASSUME TypeOK, NEW t \in Threads, ThreadInv(t), PgcacheDone(t)
    PROVE  TypeOK' /\ ThreadStep(t) /\ ThreadInv(t)'
<1> USE DEF PgcacheDone, Go, aliasVars, callVars
<1>1. /\ pc'[t] = "ret" /\ pc[t] = "pg" /\ op' = op /\ args' = args /\ spare'[t] = Null
  BY DEF TypeOK
<1>2. op[t] = "pgcache" /\ spare[t] \in Lower /\ up[t] = Null
  BY <1>1 DEF ThreadInv, CallInv, SpareInv, TypeOK
<1>3. Kept(t)' = Given(args[t]) BY <1>1, <1>2 DEF Kept, VputPairs
<1>4. /\ luse' \in [Lower -> Int]
      /\ \A w \in Lower : luse'[w] = luse[w] + Is(spare'[t], w) - Is(spare[t], w)
  BY <1>1, <1>2, SpareCount
<1>5. TypeOK'
  <2>1. pc' \in [Threads -> Labels] /\ spare' \in [Threads -> Lower \cup {Null}]
    BY DEF TypeOK, Labels
  <2> QED BY <1>4, <2>1 DEF TypeOK
<1>6. LowerStep(t)
  <2>1. LentArgs(t) = {} /\ LentArgs(t)' = {} BY <1>1 DEF LentArgs
  <2>2. spare' \in [Threads -> Lower \cup {Null}] BY <1>5 DEF TypeOK
  <2> QED BY <1>1, <1>4, <2>1, <2>2, LowerSpare
<1>7. UserStep(t)
  <2>1. HeldArgs(t)' = HeldArgs(t) BY <1>1, <1>2, <1>3 DEF HeldArgs
  <2> QED BY <1>1, <2>1, UserSame
<1>8. Frame(t) /\ LockFrame(t) /\ StStep BY DEF TypeOK, Frame, LockFrame, Same, StStep
<1>9. NoneStep BY DEF NoneStep, TypeOK
<1>10. CallInv(t)' /\ MapInv(t)' /\ SpareInv(t)' /\ PanicInv(t)' /\ LiveInv(t)'
  BY <1>1, <1>2 DEF ThreadInv, CallInv, MapInv, SpareInv, PanicInv, LiveInv, VputPairs, InCall, SharedOps
<1>11. LockInv(t)'
  <2>1. LowSide(t) = {} /\ LowSide(t)' = {} /\ UpSide(t)' = {} /\ UpSide(t) = {}
    BY <1>1, <1>2, ModeOf DEF LowSide, UpSide, LockedArgs
  <2>2. Locks(t)' = Locks(t) BY <1>1, <1>2, <2>1 DEF Locks
  <2> QED BY <1>1, <2>2 DEF ThreadInv, LockInv
<1> QED BY <1>5, <1>6, <1>7, <1>8, <1>9, <1>10, <1>11 DEF ThreadStep, ThreadInv

(* tpt_vput_pair takes references for the lower layer to drop.             *)
LEMMA VputPairStep ==
    ASSUME TypeOK, NEW t \in Threads, ThreadInv(t), VputPair(t)
    PROVE  TypeOK' /\ ThreadStep(t) /\ ThreadInv(t)'
<1> USE DEF VputPair, Go, aliasVars, callVars
<1>1. /\ pc'[t] = "pair" /\ pc[t] = "pre" /\ op[t] \in VputPairs /\ op' = op /\ args' = args
  BY DEF TypeOK
<1>2. PairRefs(t) \in SUBSET (1 .. 4) /\ PairRefs(t)' = PairRefs(t)
  BY <1>1 DEF PairRefs, Given
<1>3. luse' \in [Lower -> Int] /\ LowerStep(t)
  <2>1. LentArgs(t) = {} /\ LentArgs(t)' = PairRefs(t) BY <1>1, <1>2 DEF LentArgs, VputPairs
  <2> QED BY <1>1, <1>2, <2>1, LowerLent
<1>4. TypeOK'
  <2>1. pc' \in [Threads -> Labels] BY DEF TypeOK, Labels
  <2> QED BY <1>3, <2>1 DEF TypeOK
<1>5. UserStep(t)
  <2>1. HeldArgs(t)' = HeldArgs(t) BY <1>1 DEF HeldArgs
  <2> QED BY <1>1, <2>1, UserSame
<1>6. Frame(t) /\ LockFrame(t) /\ StStep BY DEF TypeOK, Frame, LockFrame, Same, StStep
<1>7. NoneStep BY DEF NoneStep, TypeOK
<1>8. CallInv(t)' /\ MapInv(t)' /\ SpareInv(t)' /\ PanicInv(t)'
  BY <1>1 DEF ThreadInv, CallInv, MapInv, SpareInv, PanicInv, VputPairs, InCall
<1>9. LowSide(t)' = LowSide(t) /\ UpSide(t)' = UpSide(t) BY <1>1 DEF LowSide, UpSide
<1>10. LiveInv(t)' BY <1>1, <1>9 DEF ThreadInv, LiveInv, InCall
<1>11. LockInv(t)'
  <2>1. Locks(t)' = Locks(t) BY <1>1, <1>9 DEF Locks, Vnlock
  <2> QED BY <1>1, <2>1 DEF ThreadInv, LockInv
<1> QED BY <1>3, <1>4, <1>5, <1>6, <1>7, <1>8, <1>10, <1>11 DEF ThreadStep, ThreadInv

(* The lower layer drops them, and the locks of these vnodes only.         *)
LEMMA LowerPairStep ==
    ASSUME TypeOK, NEW t \in Threads, ThreadInv(t), LowerPair(t)
    PROVE  TypeOK' /\ ThreadStep(t) /\ ThreadInv(t)'
<1> DEFINE J == LockedArgs(op[t], args[t])
           K == LowerLocks(t, PairRefs(t))
<1> USE DEF LowerPair, Go, aliasVars, callVars
<1>1. /\ pc'[t] = "pair_back" /\ pc[t] = "pair" /\ op' = op /\ args' = args
  BY DEF TypeOK
<1>2. op[t] \in VputPairs /\ op[t] # "rename" BY <1>1 DEF ThreadInv, CallInv, VputPairs
<1>3. /\ PairRefs(t) \in SUBSET (1 .. 4) /\ PairRefs(t) \subseteq Given(args[t])
      /\ PairRefs(t)' = PairRefs(t)
  BY <1>1 DEF PairRefs, Given
<1>4. /\ lock' \in [Lower \cup Upper -> SUBSET Threads] /\ LockFrame(t)
      /\ \A k \in Lower \cup Upper : t \in lock'[k] <=> t \in lock[k] /\ k \notin K
  <2>1. Drop(t, K) OBVIOUS
  <2> QED BY <2>1, Dropped
<1>5. luse' \in [Lower -> Int] /\ LowerStep(t)
  <2>1. LentArgs(t) = PairRefs(t) /\ LentArgs(t)' = {} BY <1>1, <1>2 DEF LentArgs
  <2> QED BY <1>1, <1>3, <2>1, LowerLent
<1>6. TypeOK'
  <2>1. pc' \in [Threads -> Labels] BY DEF TypeOK, Labels
  <2> QED BY <1>4, <1>5, <2>1 DEF TypeOK
<1>7. UserStep(t)
  <2>1. HeldArgs(t)' = HeldArgs(t) BY <1>1, <1>2 DEF HeldArgs
  <2> QED BY <1>1, <2>1, UserSame
<1>8. Frame(t) /\ StStep BY DEF TypeOK, Frame, Same, StStep
<1>9. NoneStep BY DEF NoneStep, TypeOK
<1>10. CallInv(t)' /\ MapInv(t)' /\ SpareInv(t)' /\ PanicInv(t)'
  BY <1>1, <1>2 DEF ThreadInv, CallInv, MapInv, SpareInv, PanicInv, VputPairs, InCall
<1>11. LowSide(t) = J /\ LowSide(t)' = J \ PairRefs(t) /\ UpSide(t) = {} /\ UpSide(t)' = {}
  BY <1>1, <1>3 DEF LowSide, UpSide
<1>12. LiveInv(t)' BY <1>1, <1>11 DEF ThreadInv, LiveInv, InCall
<1>13. LockInv(t)'
  <2>1. J \subseteq Given(args[t]) BY DEF LockedArgs
  <2>2. \A i \in J \cap PairRefs(t), j \in J \ PairRefs(t) : Below[args[t][i]] # Below[args[t][j]]
    BY <1>1, <1>2, <2>1, TwoLocks
  <2>3. up[t] = Null /\ op[t] # "create" BY <1>1, <1>2 DEF ThreadInv, SpareInv, VputPairs
  <2>4. Locks(t)' = Locks(t) \ K
    BY <1>1, <1>11, <2>2, <2>3 DEF Locks, LowerLocks
  <2> QED BY <1>1, <1>4, <2>4 DEF ThreadInv, LockInv
<1> QED BY <1>4, <1>5, <1>6, <1>7, <1>8, <1>9, <1>10, <1>12, <1>13 DEF ThreadStep, ThreadInv

(* tpt_vput_pair releases the aliases.                                     *)
LEMMA PairDoneStep ==
    ASSUME TypeOK, NEW t \in Threads, ThreadInv(t), PairDone(t)
    PROVE  TypeOK' /\ ThreadStep(t) /\ ThreadInv(t)'
<1> DEFINE J == LockedArgs(op[t], args[t])
<1> USE DEF PairDone, Go, lowerVars, callVars
<1>1. /\ pc'[t] = "ret" /\ pc[t] = "pair_back" /\ op' = op /\ args' = args
  BY DEF TypeOK
<1>2. op[t] \in VputPairs /\ op[t] # "rename" BY <1>1 DEF ThreadInv, CallInv, VputPairs
<1>3. /\ PairRefs(t) \subseteq Given(args[t]) /\ PairRefs(t)' = PairRefs(t)
      /\ Kept(t)' = Given(args[t]) \ PairRefs(t)
  BY <1>1, <1>2 DEF PairRefs, Kept, VputPairs
<1>4. uuse' \in [Upper -> Int] /\ UserStep(t) /\ NoneStep
  <2>1. HeldArgs(t) = Given(args[t]) /\ HeldArgs(t)' = Given(args[t]) \ PairRefs(t)
    BY <1>1, <1>2, <1>3 DEF HeldArgs
  <2> QED BY <1>1, <1>3, <2>1, UserReleased
<1>5. LowerStep(t)
  <2>1. LentArgs(t)' = LentArgs(t) BY <1>1, <1>2 DEF LentArgs
  <2> QED BY <1>1, <2>1, LowerSame
<1>6. TypeOK'
  <2>1. pc' \in [Threads -> Labels] BY DEF TypeOK, Labels
  <2> QED BY <1>4, <2>1 DEF TypeOK
<1>7. Frame(t) /\ LockFrame(t) /\ StStep BY DEF TypeOK, Frame, LockFrame, Same, StStep
<1>8. CallInv(t)' /\ MapInv(t)' /\ SpareInv(t)' /\ PanicInv(t)' /\ LiveInv(t)'
  BY <1>1, <1>2 DEF ThreadInv, CallInv, MapInv, SpareInv, PanicInv, LiveInv, VputPairs, InCall, SharedOps
<1>9. LockInv(t)'
  <2>1. J \subseteq Given(args[t]) BY DEF LockedArgs
  <2>2. LowSide(t) = J \ PairRefs(t) /\ LowSide(t)' = {} /\ UpSide(t) = {} /\ UpSide(t)' = J \ PairRefs(t)
    BY <1>1, <1>2, <1>3, <2>1, ModeOf DEF LowSide, UpSide
  <2>3. \A j \in LowSide(t) : st[args[t][j]] = "live" BY <1>1 DEF ThreadInv, LiveInv
  <2>4. Locks(t)' = Locks(t) BY <1>1, <2>2, <2>3 DEF Locks, Vnlock
  <2> QED BY <1>1, <2>4 DEF ThreadInv, LockInv
<1> QED BY <1>4, <1>5, <1>6, <1>7, <1>8, <1>9 DEF ThreadStep, ThreadInv

(* The caller unlocks and releases what is its own, and nothing of this    *)
(* call is left.                                                           *)
LEMMA ReturnStep ==
    ASSUME TypeOK, NEW t \in Threads, ThreadInv(t), Return(t)
    PROVE  TypeOK' /\ ThreadStep(t) /\ ThreadInv(t)'
<1> DEFINE J == LockedArgs(op[t], args[t])
           K == {Vnlock(u) : u \in Unlocks(t)}
<1> USE DEF Return, Go, lowerVars
<1>1. /\ pc'[t] = "idle" /\ pc[t] = "ret" /\ op'[t] = "getattr" /\ args'[t] = NoArgs
      /\ mapped'[t] = {} /\ err'[t] = FALSE /\ up'[t] = Null /\ mode'[t] = "exclusive"
  BY DEF TypeOK
<1>2. HeldArgs(t) = Kept(t) /\ HeldArgs(t)' = {} BY <1>1 DEF HeldArgs
<1>3. ASSUME NEW u \in Upper
      PROVE  /\ Times(args[t], Kept(t), u) \in Nat /\ uuse[u] \in Int
             /\ uuse'[u] = uuse[u] - Times(args[t], Kept(t), u) - Is(up[t], u)
  <2>1. Kept(t) \in SUBSET (1 .. 4) BY <1>2, HeldType
  <2>2. Times(args[t], Kept(t), u) \in Nat BY <2>1, TimesNat
  <2>3. uuse[u] \in Int BY DEF TypeOK
  <2>4. uuse'[u] = uuse[u] - Times(args[t], Kept(t), u) - IF u = up[t] THEN 1 ELSE 0 OBVIOUS
  <2> QED BY <2>2, <2>3, <2>4 DEF Is
<1>4. uuse' \in [Upper -> Int]
  <2>1. \A u \in Upper : uuse'[u] \in Int BY <1>3 DEF Is
  <2>2. uuse' = [u \in Upper |-> uuse'[u]] OBVIOUS
  <2> QED BY <2>1, <2>2
<1>5. UserStep(t) /\ NoneStep
  <2>1. ASSUME NEW u \in Upper
        PROVE  /\ uuse'[u] = uuse[u]
                        + Times(args[t]', HeldArgs(t)', u) - Times(args[t], HeldArgs(t), u)
                        + Is(up'[t], u) - Is(up[t], u) + Is(wfile'[t], u) - Is(wfile[t], u)
               /\ uuse'[u] <= uuse[u]
    <3>1. Times(args[t]', {}, u) = 0 BY TimesNone
    <3>2. u # Null BY BypassConstants
    <3> QED BY <1>1, <1>2, <1>3, <3>1, <3>2 DEF Is
  <2> QED BY <2>1 DEF UserStep, NoneStep
<1>6. LowerStep(t)
  <2> SUFFICES ASSUME NEW l \in Lower
               PROVE  luse'[l] = luse[l] + Cardinality(LiveOn(l))' - Cardinality(LiveOn(l))
                      + Is(spare'[t], l) - Is(spare[t], l)
                      + LowerTimes(args[t]', LentArgs(t)', l) - LowerTimes(args[t], LentArgs(t), l)
    BY DEF LowerStep
  <2>1. LentArgs(t) = {} /\ LentArgs(t)' = {} BY <1>1 DEF LentArgs
  <2>2. LowerTimes(args[t], {}, l) = 0 /\ LowerTimes(args[t]', {}, l) = 0 BY TimesNone
  <2>3. Cardinality(LiveOn(l))' = Cardinality(LiveOn(l)) BY DEF LiveOn
  <2>4. Cardinality(LiveOn(l)) \in Nat BY LiveFinite
  <2>5. luse[l] \in Int BY DEF TypeOK
  <2> QED BY <2>1, <2>2, <2>3, <2>4, <2>5 DEF Is
<1>7. /\ lock' \in [Lower \cup Upper -> SUBSET Threads] /\ LockFrame(t)
      /\ \A k \in Lower \cup Upper : t \in lock'[k] <=> t \in lock[k] /\ k \notin K
  <2>1. Drop(t, K) OBVIOUS
  <2> QED BY <2>1, Dropped
<1>8. TypeOK'
  <2>1. pc' \in [Threads -> Labels] /\ op' \in [Threads -> Ops]
        /\ mapped' \in [Threads -> SUBSET (1 .. 4)] /\ err' \in [Threads -> BOOLEAN]
        /\ up' \in [Threads -> Upper \cup {Null}] /\ mode' \in [Threads -> Modes]
    BY DEF TypeOK, Labels, Ops, Modes
  <2>2. args' \in [Threads -> [1 .. 4 -> Upper \cup {Null}]] BY DEF TypeOK, NoArgs
  <2> QED BY <1>4, <1>7, <2>1, <2>2 DEF TypeOK
<1>9. Frame(t) /\ StStep BY DEF TypeOK, Frame, Same, StStep
<1>10. spare[t] = Null BY <1>1 DEF ThreadInv, SpareInv, InCall
<1>11. CallInv(t)' /\ MapInv(t)' /\ SpareInv(t)' /\ PanicInv(t)' /\ LiveInv(t)'
  BY <1>1, <1>10 DEF ThreadInv, CallInv, MapInv, SpareInv, PanicInv, LiveInv, VputPairs, InCall
<1>12. LockInv(t)'
  <2>1. LowSide(t)' = {} /\ UpSide(t)' = {} BY <1>1 DEF LowSide, UpSide
  <2>2. Locks(t) \subseteq K
    <3>1. CASE mode[t] = "exclusive"
      <4>1. LowSide(t) = {} /\ UpSide(t) = J \cap Kept(t) BY <1>1, <3>1 DEF LowSide, UpSide
      <4> QED BY <1>10, <4>1 DEF Locks, Unlocks, Slots
    <3>2. CASE mode[t] = "shared"
      <4>1. LowSide(t) = J /\ UpSide(t) = {} /\ up[t] = Null /\ Kept(t) = Given(args[t])
        BY <1>1, <3>2 DEF LowSide, UpSide, Kept, VputPairs, ThreadInv, SpareInv, CallInv, SharedOps
      <4>2. J \subseteq Given(args[t]) BY DEF LockedArgs
      <4>3. \A j \in J : args[t][j] \in Upper /\ args[t][j] \in Unlocks(t)
        <5>1. ASSUME NEW j \in J PROVE args[t][j] \in Upper
          <6>1. j \in 1 .. 4 /\ args[t][j] # Null BY <4>2 DEF Given
          <6>2. args[t] \in [1 .. 4 -> Upper \cup {Null}] BY DEF TypeOK
          <6> HIDE DEF J
          <6> QED BY <6>1, <6>2
        <5>2. \A j \in J : j \in Kept(t) \cap J BY <4>1, <4>2
        <5> QED BY <5>1, <5>2 DEF Unlocks, Slots
      <4>4. Locks(t) = {Below[args[t][j]] : j \in J} BY <1>10, <4>1 DEF Locks
      <4>5. \A j \in J : Vnlock(args[t][j]) \in Locks(t)
        <5>1. \A j \in J : Vnlock(args[t][j]) \in Lower \cup Upper
          BY <4>3, BypassConstants DEF Vnlock
        <5> QED BY <1>1, <4>3, <5>1 DEF ThreadInv, LockInv
      <4>6. \A j \in J : Vnlock(args[t][j]) = Below[args[t][j]]
        BY <4>3, <4>4, <4>5, BypassConstants DEF Vnlock
      <4> QED BY <4>3, <4>4, <4>6
    <3> QED BY <3>1, <3>2, ModeOf
  <2>3. Locks(t)' = {} BY <1>1, <1>10, <2>1 DEF Locks
  <2> QED BY <1>1, <1>7, <2>2, <2>3 DEF ThreadInv, LockInv
<1> QED BY <1>5, <1>6, <1>7, <1>8, <1>9, <1>11, <1>12 DEF ThreadStep, ThreadInv

(* The caller does not have the lock it unlocks: it had a shared one, of   *)
(* an alias that was reclaimed while the lower layer had let go of it.     *)
LEMMA UnlockFaultStep ==
    ASSUME TypeOK, NEW t \in Threads, ThreadInv(t), UnlockFault(t)
    PROVE  TypeOK' /\ ThreadStep(t) /\ ThreadInv(t)'
<1> DEFINE J == LockedArgs(op[t], args[t])
<1> USE DEF UnlockFault, Go, aliasVars, lowerVars, callVars
<1>1. pc'[t] = "panic" /\ pc[t] = "ret" /\ Quiet(t) BY DEF Quiet, TypeOK, Labels
<1>2. PICK u \in Unlocks(t) : t \notin lock[Vnlock(u)] OBVIOUS
<1>3. u \in Upper BY DEF Unlocks, Slots, LockedArgs, Given, TypeOK
<1>4. Vnlock(u) \notin Locks(t)
  <2>1. Vnlock(u) \in Lower \cup Upper BY <1>3, BypassConstants DEF Vnlock
  <2> QED BY <1>1, <1>2, <2>1 DEF ThreadInv, LockInv
<1>5. PICK j \in J \cap Kept(t) : u = args[t][j]
  BY <1>2, <1>4 DEF Unlocks, Slots, Locks
<1>6. mode[t] = "shared"
  <2>1. mode[t] = "exclusive" => UpSide(t) = J \cap Kept(t) BY <1>1 DEF UpSide
  <2> QED BY <1>4, <1>5, <2>1 DEF Locks, TypeOK, Modes
<1>7. j = 1 /\ op[t] \in SharedOps
  BY <1>1, <1>5, <1>6 DEF ThreadInv, CallInv, LockedArgs, Given, SharedOps, TypeOK
<1>8. st[args[t][1]] # "live"
  <2>1. LowSide(t) = J BY <1>1, <1>6 DEF LowSide
  <2> QED BY <1>4, <1>5, <1>7, <2>1 DEF Locks, Vnlock
<1>9. mapped[t] # {} /\ op[t] \in LowerUnlocks BY <1>1, <1>6, <1>8 DEF ThreadInv, LiveInv
<1>10. HeldArgs(t)' = HeldArgs(t) /\ LentArgs(t)' = LentArgs(t)
  BY <1>1, <1>7 DEF HeldArgs, LentArgs, Kept, VputPairs, SharedOps
<1>11. TypeOK' /\ ThreadStep(t) BY <1>1, <1>10, QuietStep
<1>12. CallInv(t)' /\ MapInv(t)' /\ SpareInv(t)' /\ LiveInv(t)' /\ LockInv(t)'
  BY <1>1, <1>7 DEF ThreadInv, CallInv, MapInv, SpareInv, LiveInv, LockInv, VputPairs, SharedOps, InCall
<1>13. PanicInv(t)'
  <2>1. 1 \in Given(args[t]) BY <1>5, <1>7 DEF LockedArgs
  <2> QED BY <1>1, <1>8, <1>9, <2>1 DEF PanicInv
<1> QED BY <1>11, <1>12, <1>13 DEF ThreadInv

-----------------------------------------------------------------------------
(* Write counts.                                                           *)
Writes(s, l) == wfile[s] # Null /\ Below[wfile[s]] = l /\ st[wfile[s]] = "live"
Unit(b) == IF b THEN 1 ELSE 0

(* Write counts stay exact when a file is opened or closed.                *)
LEMMA WritersKept ==
    ASSUME TypeOK, TypeOK', WcInv, NEW t \in Threads, Frame(t), UNCHANGED st,
           \A u \in Upper : wc'[u] = wc[u] + Is(wfile'[t], u) - Is(wfile[t], u),
           \A l \in Lower : lwc'[l] = lwc[l] + Unit(Writes(t, l)') - Unit(Writes(t, l))
    PROVE  WcInv'
<1>1. ASSUME NEW u \in Upper PROVE wc'[u] = Cardinality({s \in Threads : wfile[s] = u})'
  <2>1. /\ wfile \in [Threads -> UNION {Upper, Lower, {Null}}]
        /\ wfile' \in [Threads -> UNION {Upper, Lower, {Null}}]
        /\ \A s \in Threads \ {t} : wfile'[s] = wfile[s] BY DEF TypeOK, Frame, Same
  <2> DEFINE c == Cardinality({s \in Threads : wfile[s] = u})
  <2>2. c \in Nat /\ c' = c + Is(wfile'[t], u) - Is(wfile[t], u) BY <2>1, HoldersMove
  <2>3. wc[u] = c BY DEF WcInv
  <2> HIDE DEF c
  <2>4. wc'[u] = c' BY <2>2, <2>3
  <2> QED BY <2>4 DEF c
<1>2. ASSUME NEW l \in Lower PROVE lwc'[l] = Cardinality({s \in Threads : Writes(s, l)})'
  <2> DEFINE A == {s \in Threads : Writes(s, l)}
             B == {s \in Threads : Writes(s, l)'}
  <2>1. A \in SUBSET Threads /\ B \in SUBSET Threads OBVIOUS
  <2>2. \A s \in Threads \ {t} : s \in B <=> s \in A BY DEF Frame, Same, Writes
  <2>3. In(t, B) = Unit(Writes(t, l)') /\ In(t, A) = Unit(Writes(t, l)) BY DEF In, Unit
  <2>4. lwc[l] = Cardinality(A) BY DEF WcInv, Writes
  <2> HIDE DEF A, B
  <2>5. Cardinality(A) \in Nat BY <2>1, <2>2, CountMoves, BypassConstants
  <2>6. Cardinality(B) = Cardinality(A) + In(t, B) - In(t, A)
    BY <2>1, <2>2, CountMoves, BypassConstants
  <2>7. lwc'[l] = Cardinality(B) BY <2>3, <2>4, <2>5, <2>6
  <2> QED BY <2>7 DEF B
<1> QED BY <1>1, <1>2 DEF WcInv, Writes

(* Write counts stay exact in the steps of calls: the alias of an open     *)
(* file is used, so that its slot is not empty.                            *)
LEMMA WritersSame ==
    ASSUME WcInv, UNCHANGED <<wc, lwc, wfile>>, TypeOK, RefInv, StStep, NoneStep,
           \A u \in Upper : st[u] = "live" => st'[u] = "live"
    PROVE  WcInv'
<1>1. ASSUME NEW s \in Threads, wfile[s] # Null
      PROVE  st'[wfile[s]] = "live" <=> st[wfile[s]] = "live"
  <2>1. wfile[s] \in Upper BY <1>1 DEF TypeOK
  <2>2. st[wfile[s]] # "none" BY <2>1, UsedAlias DEF Uses
  <2> QED BY <2>1, <2>2 DEF StStep
<1>2. ASSUME NEW l \in Lower
      PROVE  {s \in Threads : Writes(s, l)}' = {s \in Threads : Writes(s, l)}
  BY <1>1 DEF Writes
<1> QED BY <1>2 DEF WcInv, Writes

(* An open for writing, refused by the lower layer or not.                 *)
LEMMA AddWritecountStep ==
    ASSUME TypeOK, WcInv, NEW t \in Threads, ThreadInv(t), NEW u \in Files, NEW e \in BOOLEAN,
           AddWritecount(t, u, e)
    PROVE  TypeOK' /\ ThreadStep(t) /\ ThreadInv(t)' /\ WcInv'
<1> USE DEF AddWritecount, callVars
<1>1. u \in Upper /\ Below[u] \in Lower /\ u # Null BY BypassConstants
<1>2. HeldArgs(t)' = HeldArgs(t) /\ LentArgs(t)' = LentArgs(t)
  BY DEF HeldArgs, LentArgs, Kept, PairRefs
<1>3. LowerStep(t) BY <1>2, LowerSame
<1>4. TypeOK'
  <2>1. wc' \in [Upper -> Int] /\ uuse' \in [Upper -> Int] BY <1>1 DEF TypeOK
  <2>2. lwc' \in [Lower -> Int] /\ wfile' \in [Threads -> Upper \cup {Null}]
    BY <1>1 DEF TypeOK
  <2> QED BY <2>1, <2>2 DEF TypeOK
<1>5. Frame(t) /\ LockFrame(t) /\ StStep BY DEF TypeOK, Frame, LockFrame, Same, StStep
<1>6. NoneStep
  <2> SUFFICES ASSUME NEW w \in Upper, st[w] = "none" PROVE uuse'[w] <= uuse[w] BY DEF NoneStep
  <2>1. uuse[w] \in Int /\ w # u BY DEF TypeOK
  <2>2. uuse'[w] = uuse[w] BY <2>1 DEF TypeOK
  <2> QED BY <2>1, <2>2
<1>7. ThreadInv(t)'
  <2>1. Turn(t)' = Turn(t) BY TurnSame
  <2>2. CallInv(t)' /\ SpareInv(t)' /\ MapInv(t)' /\ PanicInv(t)'
    BY <2>1 DEF ThreadInv, CallInv, SpareInv, MapInv, PanicInv
  <2>3. LowSide(t)' = LowSide(t) /\ UpSide(t)' = UpSide(t) BY <2>1 DEF LowSide, UpSide
  <2>4. LiveInv(t)' BY <2>3 DEF ThreadInv, LiveInv
  <2>5. Locks(t)' = Locks(t) BY <2>3 DEF Locks, Vnlock
  <2>6. LockInv(t)' BY <2>5 DEF ThreadInv, LockInv
  <2> QED BY <2>2, <2>4, <2>6 DEF ThreadInv
<1>8. CASE e
  <2>1. UserStep(t) BY <1>2, <1>8, UserSame
  <2>2. WcInv' BY <1>8 DEF WcInv
  <2> QED BY <1>3, <1>4, <1>5, <1>6, <1>7, <2>1, <2>2 DEF ThreadStep
<1>9. CASE ~e
  <2>1. wfile'[t] = u /\ wfile[t] = Null BY <1>9 DEF TypeOK
  <2>2. UserStep(t)
    <3> SUFFICES ASSUME NEW w \in Upper
                 PROVE  uuse'[w] = uuse[w]
                        + Times(args[t]', HeldArgs(t)', w) - Times(args[t], HeldArgs(t), w)
                        + Is(up'[t], w) - Is(up[t], w) + Is(wfile'[t], w) - Is(wfile[t], w)
      BY DEF UserStep
    <3>1. Times(args[t], HeldArgs(t), w) \in Nat BY HeldType, TimesNat
    <3>2. uuse[w] \in Int /\ Null # w BY BypassConstants DEF TypeOK
    <3>3. uuse'[w] = uuse[w] + Is(u, w) BY <1>9, <3>2 DEF Is, TypeOK
    <3> QED BY <1>2, <2>1, <3>1, <3>2, <3>3 DEF Is
  <2>3. \A w \in Upper : wc'[w] = wc[w] + Is(wfile'[t], w) - Is(wfile[t], w)
    <3> SUFFICES ASSUME NEW w \in Upper
                 PROVE  wc'[w] = wc[w] + Is(wfile'[t], w) - Is(wfile[t], w)
      OBVIOUS
    <3>1. wc[w] \in Int /\ Null # w BY BypassConstants DEF TypeOK
    <3>2. wc'[w] = wc[w] + Is(u, w) BY <1>9, <3>1 DEF Is, TypeOK
    <3> QED BY <2>1, <3>1, <3>2 DEF Is
  <2>4. \A l \in Lower : lwc'[l] = lwc[l] + Unit(Writes(t, l)') - Unit(Writes(t, l))
    <3> SUFFICES ASSUME NEW l \in Lower
                 PROVE  lwc'[l] = lwc[l] + Unit(Writes(t, l)') - Unit(Writes(t, l))
      OBVIOUS
    <3>1. lwc[l] \in Int BY DEF TypeOK
    <3>2. ~Writes(t, l) /\ (Writes(t, l)' <=> Below[u] = l) BY <1>1, <2>1 DEF Writes
    <3>3. lwc'[l] = lwc[l] + Is(Below[u], l) BY <1>1, <1>9, <3>1 DEF Is, TypeOK
    <3> QED BY <3>1, <3>2, <3>3 DEF Unit, Is
  <2>5. WcInv' BY <1>4, <1>5, <2>3, <2>4, WritersKept
  <2> QED BY <1>3, <1>4, <1>5, <1>6, <1>7, <2>2, <2>5 DEF ThreadStep
<1> QED BY <1>8, <1>9

(* The close: a reclaimed alias has given its share back already.          *)
LEMMA SubWritecountStep ==
    ASSUME TypeOK, WcInv, NEW t \in Threads, ThreadInv(t), SubWritecount(t)
    PROVE  TypeOK' /\ ThreadStep(t) /\ ThreadInv(t)' /\ WcInv'
<1> DEFINE u == wfile[t]
<1> USE DEF SubWritecount, callVars
<1>1. u \in Upper /\ Below[u] \in Lower /\ u # Null BY BypassConstants DEF TypeOK
<1>2. HeldArgs(t)' = HeldArgs(t) /\ LentArgs(t)' = LentArgs(t)
  BY DEF HeldArgs, LentArgs, Kept, PairRefs
<1>3. LowerStep(t) BY <1>2, LowerSame
<1>4. TypeOK'
  <2>1. wc' \in [Upper -> Int] /\ uuse' \in [Upper -> Int] BY <1>1 DEF TypeOK
  <2>2. lwc' \in [Lower -> Int] /\ wfile' \in [Threads -> Upper \cup {Null}]
    BY <1>1 DEF TypeOK
  <2> QED BY <2>1, <2>2 DEF TypeOK
<1>5. Frame(t) /\ LockFrame(t) /\ StStep BY DEF TypeOK, Frame, LockFrame, Same, StStep
<1>6. NoneStep BY <1>1 DEF NoneStep, TypeOK
<1>7. ThreadInv(t)'
  <2>1. Turn(t)' = Turn(t) BY TurnSame
  <2>2. CallInv(t)' /\ SpareInv(t)' /\ MapInv(t)' /\ PanicInv(t)'
    BY <2>1 DEF ThreadInv, CallInv, SpareInv, MapInv, PanicInv
  <2>3. LowSide(t)' = LowSide(t) /\ UpSide(t)' = UpSide(t) BY <2>1 DEF LowSide, UpSide
  <2>4. LiveInv(t)' BY <2>3 DEF ThreadInv, LiveInv
  <2>5. Locks(t)' = Locks(t) BY <2>3 DEF Locks, Vnlock
  <2>6. LockInv(t)' BY <2>5 DEF ThreadInv, LockInv
  <2> QED BY <2>2, <2>4, <2>6 DEF ThreadInv
<1>8. wfile'[t] = Null BY DEF TypeOK
<1>9. UserStep(t)
  <2> SUFFICES ASSUME NEW w \in Upper
               PROVE  uuse'[w] = uuse[w]
                        + Times(args[t]', HeldArgs(t)', w) - Times(args[t], HeldArgs(t), w)
                        + Is(up'[t], w) - Is(up[t], w) + Is(wfile'[t], w) - Is(wfile[t], w)
    BY DEF UserStep
  <2>1. Times(args[t], HeldArgs(t), w) \in Nat BY HeldType, TimesNat
  <2>2. uuse[w] \in Int /\ Null # w BY BypassConstants DEF TypeOK
  <2>3. uuse'[w] = uuse[w] - Is(wfile[t], w) BY <2>2 DEF Is, TypeOK
  <2> QED BY <1>2, <1>8, <2>1, <2>2, <2>3 DEF Is
<1>10. \A w \in Upper : wc'[w] = wc[w] + Is(wfile'[t], w) - Is(wfile[t], w)
  <2> SUFFICES ASSUME NEW w \in Upper
               PROVE  wc'[w] = wc[w] + Is(wfile'[t], w) - Is(wfile[t], w)
    OBVIOUS
  <2>1. wc[w] \in Int /\ Null # w BY BypassConstants DEF TypeOK
  <2>2. wc'[w] = wc[w] - Is(wfile[t], w) BY <2>1 DEF Is, TypeOK
  <2> QED BY <1>8, <2>1, <2>2 DEF Is
<1>11. \A l \in Lower : lwc'[l] = lwc[l] + Unit(Writes(t, l)') - Unit(Writes(t, l))
  <2> SUFFICES ASSUME NEW l \in Lower
               PROVE  lwc'[l] = lwc[l] + Unit(Writes(t, l)') - Unit(Writes(t, l))
    OBVIOUS
  <2>1. lwc[l] \in Int BY DEF TypeOK
  <2>2. /\ ~(Writes(t, l)') /\ (Writes(t, l) <=> Below[wfile[t]] = l /\ st[wfile[t]] = "live")
    BY <1>1, <1>8 DEF Writes
  <2>3. CASE st[wfile[t]] = "live"
    <3>1. lwc'[l] = lwc[l] - Is(Below[wfile[t]], l) BY <1>1, <2>1, <2>3 DEF Is, TypeOK
    <3> QED BY <2>1, <2>2, <2>3, <3>1 DEF Unit, Is
  <2>4. CASE st[wfile[t]] # "live"
    BY <2>1, <2>2, <2>4 DEF Unit
  <2> QED BY <2>3, <2>4
<1>12. WcInv' BY <1>4, <1>5, <1>10, <1>11, WritersKept
<1> QED BY <1>3, <1>4, <1>5, <1>6, <1>7, <1>9, <1>12 DEF ThreadStep

-----------------------------------------------------------------------------
(* The steps of calls.  They leave the write counts alone, keep aliases    *)
(* live.                                                                   *)
CallKeeps ==
    /\ UNCHANGED <<wc, lwc, wfile>>
    /\ \A u \in Upper : st[u] = "live" => st'[u] = "live"
Moves(t) ==
    \/ \E c \in Calls[t] : Call(t, c)
    \/ Before(t) \/ Bypass(t) \/ FsidFault(t) \/ Finish(t) \/ Around(t)
    \/ UnlockFault(t) \/ Return(t)

(* Every step of a call keeps the types, moves references and locks as     *)
(* ThreadStep says, and reaches a state where the thread finds what it     *)
(* relies on.                                                              *)
LEMMA MovesStep ==
    ASSUME TypeOK, RefInv, NEW t \in Threads, ThreadInv(t), Moves(t)
    PROVE  TypeOK' /\ ThreadStep(t) /\ ThreadInv(t)' /\ CallKeeps
<1> USE DEF CallKeeps, aliasVars, lowerVars
<1>1. ASSUME NEW c \in Calls[t], Call(t, c)
       PROVE  TypeOK' /\ ThreadStep(t) /\ ThreadInv(t)' /\ CallKeeps
  BY <1>1, CallStep DEF Call
<1>2. ASSUME Refuse(t) PROVE TypeOK' /\ ThreadStep(t) /\ ThreadInv(t)' /\ CallKeeps
  BY <1>2, RefuseStep DEF Refuse
<1>3. ASSUME Setattr(t) PROVE TypeOK' /\ ThreadStep(t) /\ ThreadInv(t)' /\ CallKeeps
  BY <1>3, SetattrStep DEF Setattr
<1>4. ASSUME Remove(t) PROVE TypeOK' /\ ThreadStep(t) /\ ThreadInv(t)' /\ CallKeeps
  BY <1>4, RemoveStep DEF Remove
<1>5. ASSUME RenameCross(t) PROVE TypeOK' /\ ThreadStep(t) /\ ThreadInv(t)' /\ CallKeeps
  BY <1>5, RenameCrossStep DEF RenameCross
<1>6. ASSUME Rename(t) PROVE TypeOK' /\ ThreadStep(t) /\ ThreadInv(t)' /\ CallKeeps
  BY <1>6, RenameStep DEF Rename
<1>7. ASSUME MapFault(t) PROVE TypeOK' /\ ThreadStep(t) /\ ThreadInv(t)' /\ CallKeeps
  BY <1>7, MapFaultStep DEF MapFault
<1>8. ASSUME Map(t) PROVE TypeOK' /\ ThreadStep(t) /\ ThreadInv(t)' /\ CallKeeps
  BY <1>8, MapStep DEF Map
<1>9. ASSUME LowerUnlock(t) PROVE TypeOK' /\ ThreadStep(t) /\ ThreadInv(t)' /\ CallKeeps
  BY <1>9, LowerUnlockStep DEF LowerUnlock
<1>10. ASSUME LowerRelock(t) PROVE TypeOK' /\ ThreadStep(t) /\ ThreadInv(t)' /\ CallKeeps
  BY <1>10, LowerRelockStep DEF LowerRelock
<1>11. ASSUME NEW e \in BOOLEAN, LowerDone(t, e)
       PROVE  TypeOK' /\ ThreadStep(t) /\ ThreadInv(t)' /\ CallKeeps
  BY <1>11, LowerDoneStep DEF LowerDone
<1>12. ASSUME NEW e \in BOOLEAN, LowerRename(t, e)
       PROVE  TypeOK' /\ ThreadStep(t) /\ ThreadInv(t)' /\ CallKeeps
  BY <1>12, LowerRenameStep DEF LowerRename
<1>13. ASSUME NEW c \in Lower, LowerCreate(t, c)
       PROVE  TypeOK' /\ ThreadStep(t) /\ ThreadInv(t)' /\ CallKeeps
  BY <1>13, LowerCreateStep DEF LowerCreate
<1>14. ASSUME LowerCreateFails(t)
       PROVE  TypeOK' /\ ThreadStep(t) /\ ThreadInv(t)' /\ CallKeeps
  BY <1>14, LowerCreateFailsStep DEF LowerCreateFails
<1>15. ASSUME Unmap(t) PROVE TypeOK' /\ ThreadStep(t) /\ ThreadInv(t)' /\ CallKeeps
  BY <1>15, UnmapStep DEF Unmap
<1>16. ASSUME UnmapSplit(t) PROVE TypeOK' /\ ThreadStep(t) /\ ThreadInv(t)' /\ CallKeeps
  BY <1>16, UnmapSplitStep DEF UnmapSplit
<1>17. ASSUME UnmapMove(t) PROVE TypeOK' /\ ThreadStep(t) /\ ThreadInv(t)' /\ CallKeeps
  BY <1>17, UnmapMoveStep DEF UnmapMove
<1>18. ASSUME Unmapped(t) PROVE TypeOK' /\ ThreadStep(t) /\ ThreadInv(t)' /\ CallKeeps
  BY <1>18, UnmappedStep DEF Unmapped
<1>19. ASSUME NodegetNoMount(t)
       PROVE  TypeOK' /\ ThreadStep(t) /\ ThreadInv(t)' /\ CallKeeps
  BY <1>19, NodegetNoMountStep DEF NodegetNoMount
<1>20. ASSUME NodegetFails(t)
       PROVE  TypeOK' /\ ThreadStep(t) /\ ThreadInv(t)' /\ CallKeeps
  BY <1>20, NodegetFailsStep DEF NodegetFails
<1>21. ASSUME NEW u \in Upper, NodegetNew(t, u)
       PROVE  TypeOK' /\ ThreadStep(t) /\ ThreadInv(t)' /\ CallKeeps
  <2>1. TypeOK' /\ ThreadStep(t) /\ ThreadInv(t)' BY <1>21, NodegetNewStep
  <2>2. CallKeeps BY <1>21 DEF NodegetNew, TypeOK
  <2> QED BY <2>1, <2>2
<1>22. ASSUME FsidFault(t) PROVE TypeOK' /\ ThreadStep(t) /\ ThreadInv(t)' /\ CallKeeps
  BY <1>22, FsidFaultStep DEF FsidFault
<1>23. ASSUME Finish(t) PROVE TypeOK' /\ ThreadStep(t) /\ ThreadInv(t)' /\ CallKeeps
  <2>1. TypeOK' /\ ThreadStep(t) /\ ThreadInv(t)' BY <1>23, FinishStep
  <2>2. CallKeeps BY <1>23 DEF Finish
  <2> QED BY <2>1, <2>2
<1>24. ASSUME PgcacheGone(t) PROVE TypeOK' /\ ThreadStep(t) /\ ThreadInv(t)' /\ CallKeeps
  BY <1>24, PgcacheGoneStep DEF PgcacheGone
<1>25. ASSUME Pgcache(t) PROVE TypeOK' /\ ThreadStep(t) /\ ThreadInv(t)' /\ CallKeeps
  BY <1>25, PgcacheStep DEF Pgcache
<1>26. ASSUME PgcacheDone(t) PROVE TypeOK' /\ ThreadStep(t) /\ ThreadInv(t)' /\ CallKeeps
  BY <1>26, PgcacheDoneStep DEF PgcacheDone
<1>27. ASSUME VputPair(t) PROVE TypeOK' /\ ThreadStep(t) /\ ThreadInv(t)' /\ CallKeeps
  BY <1>27, VputPairStep DEF VputPair
<1>28. ASSUME LowerPair(t) PROVE TypeOK' /\ ThreadStep(t) /\ ThreadInv(t)' /\ CallKeeps
  BY <1>28, LowerPairStep DEF LowerPair
<1>29. ASSUME PairDone(t) PROVE TypeOK' /\ ThreadStep(t) /\ ThreadInv(t)' /\ CallKeeps
  BY <1>29, PairDoneStep DEF PairDone
<1>30. ASSUME Return(t) PROVE TypeOK' /\ ThreadStep(t) /\ ThreadInv(t)' /\ CallKeeps
  BY <1>30, ReturnStep DEF Return
<1>31. ASSUME UnlockFault(t) PROVE TypeOK' /\ ThreadStep(t) /\ ThreadInv(t)' /\ CallKeeps
  BY <1>31, UnlockFaultStep DEF UnlockFault
<1> QED
  BY <1>1, <1>2, <1>3, <1>4, <1>5, <1>6, <1>7, <1>8, <1>9, <1>10, <1>11, <1>12, <1>13, <1>14,
     <1>15, <1>16, <1>17, <1>18, <1>19, <1>20, <1>21, <1>22, <1>23, <1>24, <1>25, <1>26, <1>27,
     <1>28, <1>29, <1>30, <1>31
  DEF Moves, Before, Bypass, Around

(* A step of a thread keeps the counters exact, and what every thread      *)
(* relies on.                                                              *)
LEMMA ThreadKept ==
    ASSUME TypeOK, TypeOK', RefInv, Running, \A s \in Threads : ThreadInv(s), NEW t \in Threads,
           ThreadStep(t), ThreadInv(t)'
    PROVE  RefInv' /\ \A s \in Threads : ThreadInv(s)'
<1> USE DEF ThreadStep
<1>1. ASSUME NEW u \in Upper
      PROVE  /\ uuse'[u] = Cardinality(UserRefs(u))' + Cardinality({s \in Threads : up[s] = u})'
                + Cardinality({s \in Threads : wfile[s] = u})'
             /\ uuse'[u] >= 0
  BY UserKept
<1>2. ASSUME NEW u \in Upper, st'[u] = "none" PROVE uuse'[u] = 0
  <2>1. uuse'[u] <= uuse[u] /\ uuse[u] = 0 BY <1>2 DEF NoneStep, RefInv
  <2>2. uuse'[u] \in Int BY DEF TypeOK
  <2>3. uuse'[u] >= 0 BY <1>1
  <2> QED BY <2>1, <2>2, <2>3
<1>3. ASSUME NEW l \in Lower
      PROVE  luse'[l] = Cardinality({u \in Upper : st[u] = "live" /\ Below[u] = l})'
                + Cardinality({s \in Threads : spare[s] = l})' + Cardinality(LentRefs(l))'
  <2>1. \A j \in LentArgs(t) : args[t][j] # Null BY LentGiven
  <2>2. \A j \in LentArgs(t)' : args'[t][j] # Null
    BY DEF TypeOK, ThreadInv, MapInv, InCall, LentArgs, Given, PairRefs
  <2> QED BY <2>1, <2>2, LowerKept
<1>4. RefInv' BY <1>1, <1>2, <1>3 DEF RefInv
<1>5. ASSUME NEW s \in Threads PROVE ThreadInv(s)'
  <2>1. CASE s = t BY <2>1
  <2>2. CASE s # t
    <3>1. Same(s) /\ pc[s] # "panic" /\ StStep BY <2>2 DEF Frame, Running
    <3>2. \A k \in Lower \cup Upper : s \in lock'[k] <=> s \in lock[k] BY <2>2 DEF LockFrame
    <3> QED BY <3>1, <3>2, OtherKept
  <2> QED BY <2>1, <2>2
<1> QED BY <1>4, <1>5

-----------------------------------------------------------------------------
(* The steps of aliases: forced unmounts, lookups, the end of an alias.    *)
AliasStep ==
    /\ UNCHANGED <<uuse, lock, pc, op, args, mode, mapped, rest, err, spare, up, wfile>>
    /\ StStep
    /\ \A u \in Upper : st'[u] = "none" => uuse[u] = 0
    /\ \A l \in Lower :
          luse'[l] = luse[l] + Cardinality(LiveOn(l))' - Cardinality(LiveOn(l))

(* Steps of aliases keep the counters exact and what the threads rely on.  *)
LEMMA AliasKept ==
    ASSUME TypeOK, TypeOK', RefInv, Running, \A s \in Threads : ThreadInv(s), AliasStep
    PROVE  RefInv' /\ \A s \in Threads : ThreadInv(s)'
<1> USE DEF AliasStep
<1>1. ASSUME NEW s \in Threads PROVE ThreadInv(s)'
  <2>1. Same(s) /\ pc[s] # "panic" /\ StStep BY DEF Same, Running
  <2> QED BY <2>1, OtherKept
<1>2. ASSUME NEW u \in Upper PROVE UserRefs(u)' = UserRefs(u)
  BY DEF UserRefs, HeldArgs, Kept, PairRefs
<1>3. ASSUME NEW l \in Lower PROVE LentRefs(l)' = LentRefs(l)
  BY DEF LentRefs, LentArgs, PairRefs
<1>4. ASSUME NEW l \in Lower
      PROVE  luse'[l] = Cardinality({u \in Upper : st[u] = "live" /\ Below[u] = l})'
                + Cardinality({s \in Threads : spare[s] = l})' + Cardinality(LentRefs(l))'
  <2> DEFINE b == Cardinality({s \in Threads : spare[s] = l})
             c == Cardinality(LentRefs(l))
             a == Cardinality(LiveOn(l))
  <2>1. a \in Nat /\ a' \in Nat BY LiveFinite
  <2>2. b \in Nat /\ c \in Nat
    <3>1. IsFiniteSet(Threads) /\ IsFiniteSet(Threads \X (1 .. 4))
      BY FourFinite, FS_Product, BypassConstants
    <3>2. IsFiniteSet({s \in Threads : spare[s] = l}) /\ IsFiniteSet(LentRefs(l))
      BY <3>1, FS_Subset DEF LentRefs
    <3> QED BY <3>2, FS_CardinalityType
  <2>3. b' = b /\ c' = c BY <1>3
  <2>4. luse[l] = a + b + c BY DEF RefInv, LiveOn
  <2>5. luse'[l] = luse[l] + a' - a OBVIOUS
  <2> HIDE DEF a, b, c
  <2>6. luse'[l] = a' + b' + c' BY <2>1, <2>2, <2>3, <2>4, <2>5
  <2> QED BY <2>6 DEF a, b, c, LiveOn
<1>5. ASSUME NEW u \in Upper
      PROVE  uuse'[u] = Cardinality(UserRefs(u))' + Cardinality({s \in Threads : up[s] = u})'
                + Cardinality({s \in Threads : wfile[s] = u})'
  BY <1>2 DEF RefInv
<1> QED BY <1>1, <1>4, <1>5 DEF RefInv

(* tpt_reclaim gives back the lower reference, the write counts of all who *)
(* write, and the v_object.                                                *)
LEMMA ReclaimStep ==
    ASSUME TypeOK, RefInv, WcInv, NEW u \in Upper, Reclaim(u)
    PROVE  TypeOK' /\ AliasStep /\ WcInv'
<1> USE DEF Reclaim, callVars
<1>1. Below[u] \in Lower /\ st'[u] = "reclaim" BY BypassConstants DEF TypeOK
<1>2. wc \in [Upper -> Int] /\ wc[u] \in Int BY DEF TypeOK
<1>3. TypeOK'
  <2>1. st' \in [Upper -> {"none", "live", "reclaim", "dead"}] /\ obj' \subseteq Upper
    BY DEF TypeOK
  <2>2. luse' \in [Lower -> Int] /\ lwc' \in [Lower -> Int] BY <1>1, <1>2 DEF TypeOK
  <2> QED BY <2>1, <2>2 DEF TypeOK
<1>4. StStep BY <1>1 DEF StStep, Free, TypeOK
<1>5. ASSUME NEW w \in Upper, st'[w] = "none" PROVE uuse[w] = 0 BY <1>5 DEF RefInv, TypeOK
<1>6. ASSUME NEW l \in Lower
      PROVE  luse'[l] = luse[l] + Cardinality(LiveOn(l))' - Cardinality(LiveOn(l))
  <2>1. Cardinality(LiveOn(l))' = Cardinality(LiveOn(l))
              + Is(Below[u], l) * (Is("reclaim", "live") - Is(st[u], "live"))
    BY LiveMoves
  <2>2. Cardinality(LiveOn(l)) \in Nat /\ luse[l] \in Int BY LiveFinite DEF TypeOK
  <2>3. luse'[l] = luse[l] - Is(Below[u], l) BY <1>1, <2>2 DEF Is, TypeOK
  <2> QED BY <2>1, <2>2, <2>3 DEF Is
<1>7. ASSUME NEW l \in Lower PROVE lwc'[l] = Cardinality({s \in Threads : Writes(s, l)})'
  <2> DEFINE A == {s \in Threads : Writes(s, l)}
             B == {s \in Threads : wfile[s] = u}
  <2>1. lwc[l] = Cardinality(A) /\ wc[u] = Cardinality(B) BY DEF WcInv, Writes
  <2>2. CASE Below[u] # l
    <3>1. A' = A BY <2>2 DEF Writes, TypeOK
    <3>2. lwc'[l] = lwc[l] BY <2>2 DEF TypeOK
    <3> QED BY <2>1, <3>1, <3>2
  <2>3. CASE Below[u] = l
    <3>1. B \in SUBSET A /\ A' = A \ B
      <4>1. u # Null BY BypassConstants
      <4> QED BY <2>3, <4>1 DEF Writes, TypeOK
    <3>2. lwc'[l] = lwc[l] - wc[u] BY <1>1, <2>3 DEF TypeOK
    <3>3. IsFiniteSet(A)
      <4>1. IsFiniteSet(Threads) BY BypassConstants
      <4> QED BY <4>1, FS_Subset
    <3> HIDE DEF A, B
    <3>4. /\ Cardinality(A) \in Nat /\ Cardinality(B) \in Nat /\ Cardinality(A \ B) \in Nat
          /\ Cardinality(A) = Cardinality(B) + Cardinality(A \ B) BY <3>1, <3>3, PartCard
    <3>5. lwc'[l] = Cardinality(A') BY <2>1, <3>1, <3>2, <3>4
    <3> QED BY <3>5 DEF A
  <2> QED BY <2>2, <2>3
<1>8. WcInv' BY <1>7 DEF WcInv, Writes
<1> QED BY <1>3, <1>4, <1>5, <1>6, <1>8 DEF AliasStep

(* A reclaimed alias loses its mount, and goes with the last reference.    *)
LEMMA EndStep ==
    ASSUME TypeOK, RefInv, WcInv, NEW u \in Upper, Reclaimed(u) \/ Freed(u)
    PROVE  TypeOK' /\ AliasStep /\ WcInv'
<1> USE DEF Reclaimed, Freed, callVars, lowerVars
<1>1. PICK x \in {"dead", "none"} : st' = [st EXCEPT ![u] = x] /\ (x = "none" => uuse[u] = 0)
  OBVIOUS
<1>2. st[u] # "live" OBVIOUS
<1>3. TypeOK' BY <1>1 DEF TypeOK
<1>4. \A w \in Upper : st[w] = "live" <=> st'[w] = "live" BY <1>1, <1>2 DEF TypeOK
<1>5. StStep BY <1>4 DEF StStep
<1>6. \A w \in Upper : st'[w] = "none" => uuse[w] = 0 BY <1>1 DEF RefInv, TypeOK
<1>7. ASSUME NEW l \in Lower
      PROVE  luse'[l] = luse[l] + Cardinality(LiveOn(l))' - Cardinality(LiveOn(l))
  <2>1. LiveOn(l)' = LiveOn(l) BY <1>4 DEF LiveOn
  <2>2. Cardinality(LiveOn(l)) \in Nat /\ luse[l] \in Int BY LiveFinite DEF TypeOK
  <2> QED BY <2>1, <2>2
<1>8. WcInv'
  <2>1. ASSUME NEW l \in Lower
        PROVE  {s \in Threads : Writes(s, l)}' = {s \in Threads : Writes(s, l)}
    BY <1>4 DEF Writes, TypeOK
  <2> QED BY <2>1 DEF WcInv, Writes
<1> QED BY <1>3, <1>5, <1>6, <1>7, <1>8 DEF AliasStep

(* A file is looked up again.                                              *)
LEMMA LookupStep ==
    ASSUME TypeOK, RefInv, WcInv, NEW u \in Upper, Lookup(u)
    PROVE  TypeOK' /\ AliasStep /\ WcInv'
<1> USE DEF Lookup, callVars
<1>1. st[u] = "none" /\ Below[u] \in Lower BY BypassConstants DEF Empty
<1>2. TypeOK'
  <2>1. st' \in [Upper -> {"none", "live", "reclaim", "dead"}] /\ luse' \in [Lower -> Int]
    BY <1>1 DEF TypeOK
  <2> QED BY <2>1 DEF TypeOK
<1>3. StStep BY <1>1 DEF StStep, TypeOK
<1>4. \A w \in Upper : st[w] = "live" => st'[w] = "live" BY DEF TypeOK
<1>5. NoneStep /\ \A w \in Upper : st'[w] = "none" => uuse[w] = 0
  BY DEF NoneStep, RefInv, TypeOK
<1>6. ASSUME NEW l \in Lower
      PROVE  luse'[l] = luse[l] + Cardinality(LiveOn(l))' - Cardinality(LiveOn(l))
  <2>1. Cardinality(LiveOn(l))' = Cardinality(LiveOn(l))
              + Is(Below[u], l) * (Is("live", "live") - Is(st[u], "live"))
    BY LiveMoves
  <2>2. Cardinality(LiveOn(l)) \in Nat /\ luse[l] \in Int BY LiveFinite DEF TypeOK
  <2>3. luse'[l] = luse[l] + Is(Below[u], l) BY <1>1, <2>2 DEF Is, TypeOK
  <2> QED BY <1>1, <2>1, <2>2, <2>3 DEF Is
<1>7. WcInv' BY <1>3, <1>4, <1>5, WritersSame
<1> QED BY <1>2, <1>3, <1>5, <1>6, <1>7 DEF AliasStep

-----------------------------------------------------------------------------
(* The invariant holds at first.                                           *)
LEMMA InitHolds == Init => BypassInv
<1> SUFFICES ASSUME Init PROVE BypassInv OBVIOUS
<1> USE DEF Init
<1>1. \A S : S \in SUBSET Upper => IsFiniteSet(S) /\ Cardinality(S) \in Nat
  BY FS_Subset, FS_CardinalityType, BypassConstants
<1>2. \A u \in Upper : u # Null /\ \A l \in Lower : l # Null BY BypassConstants
<1>3. TypeOK
  <2>1. \A l \in Lower : Cardinality({u \in InitialLive : Below[u] = l}) \in Nat
    <3> SUFFICES ASSUME NEW l \in Lower
                 PROVE  Cardinality({u \in InitialLive : Below[u] = l}) \in Nat
      OBVIOUS
    <3>1. {u \in InitialLive : Below[u] = l} \in SUBSET Upper BY BypassConstants
    <3> QED BY <1>1, <3>1
  <2>2. luse \in [Lower -> Int] BY <2>1
  <2> QED BY <2>2 DEF TypeOK, Labels, Ops, Modes, NoArgs
<1>4. Cardinality({}) = 0 BY FS_EmptySet
<1>5. \A x : UserRefs(x) = {} /\ LentRefs(x) = {} BY DEF UserRefs, LentRefs, HeldArgs, LentArgs
<1>6. RefInv
  <2>1. ASSUME NEW u \in Upper
        PROVE  {t \in Threads : up[t] = u} = {} /\ {t \in Threads : wfile[t] = u} = {}
    BY <1>2
  <2>2. ASSUME NEW l \in Lower PROVE {t \in Threads : spare[t] = l} = {} BY BypassConstants
  <2>3. ASSUME NEW l \in Lower
        PROVE  luse[l] = Cardinality({u \in Upper : st[u] = "live" /\ Below[u] = l})
               /\ luse[l] \in Int
    <3>1. {u \in Upper : st[u] = "live" /\ Below[u] = l} = {u \in InitialLive : Below[u] = l}
      BY BypassConstants
    <3>2. luse[l] = Cardinality({u \in InitialLive : Below[u] = l}) OBVIOUS
    <3> QED BY <1>3, <3>1, <3>2 DEF TypeOK
  <2>4. \A u \in Upper : uuse[u] = Cardinality(UserRefs(u))
            + Cardinality({t \in Threads : up[t] = u}) + Cardinality({t \in Threads : wfile[t] = u})
    <3> SUFFICES ASSUME NEW u \in Upper
                 PROVE  uuse[u] = Cardinality(UserRefs(u)) + Cardinality({t \in Threads : up[t] = u})
                                   + Cardinality({t \in Threads : wfile[t] = u})
      OBVIOUS
    <3>1. /\ Cardinality(UserRefs(u)) = 0 /\ Cardinality({t \in Threads : up[t] = u}) = 0
          /\ Cardinality({t \in Threads : wfile[t] = u}) = 0 BY <1>4, <1>5, <2>1
    <3>2. uuse[u] = 0 OBVIOUS
    <3> QED BY ONLY <3>1, <3>2
  <2>5. \A l \in Lower : luse[l] = Cardinality({u \in Upper : st[u] = "live" /\ Below[u] = l})
            + Cardinality({t \in Threads : spare[t] = l}) + Cardinality(LentRefs(l))
    <3> SUFFICES ASSUME NEW l \in Lower
                 PROVE  luse[l] = Cardinality({u \in Upper : st[u] = "live" /\ Below[u] = l})
                                   + Cardinality({t \in Threads : spare[t] = l}) + Cardinality(LentRefs(l))
      OBVIOUS
    <3>1. Cardinality({t \in Threads : spare[t] = l}) = 0 /\ Cardinality(LentRefs(l)) = 0
      BY <1>4, <1>5, <2>2
    <3>2. luse[l] = Cardinality({u \in Upper : st[u] = "live" /\ Below[u] = l}) /\ luse[l] \in Int
      BY <2>3
    <3> QED BY ONLY <3>1, <3>2
  <2> QED BY <2>4, <2>5 DEF RefInv
<1>7. WcInv
  <2>1. ASSUME NEW u \in Upper PROVE {t \in Threads : wfile[t] = u} = {} BY <1>2
  <2>2. ASSUME NEW l \in Lower PROVE {t \in Threads : Writes(t, l)} = {} BY DEF Writes
  <2> QED BY <1>4, <2>1, <2>2 DEF WcInv, Writes
<1>8. ASSUME NEW t \in Threads PROVE ThreadInv(t)
  <2>1. pc[t] = "idle" /\ spare[t] = Null /\ up[t] = Null /\ op[t] = "getattr" /\ err[t] = FALSE
    OBVIOUS
  <2>2. CallInv(t) /\ MapInv(t) /\ SpareInv(t) /\ LiveInv(t) /\ PanicInv(t)
    BY <2>1 DEF CallInv, MapInv, SpareInv, LiveInv, PanicInv, VputPairs, InCall
  <2>3. LowSide(t) = {} /\ UpSide(t) = {} BY <2>1 DEF LowSide, UpSide
  <2>4. Locks(t) = {} BY <2>1, <2>3 DEF Locks
  <2>5. LockInv(t) BY <2>4, BypassConstants DEF LockInv
  <2> QED BY <2>2, <2>5 DEF ThreadInv
<1> QED BY <1>3, <1>6, <1>7, <1>8 DEF BypassInv

(* Every step keeps it.                                                    *)
LEMMA StepHolds == BypassInv /\ [Next]_vars => BypassInv'
<1> SUFFICES ASSUME BypassInv, [Next]_vars PROVE BypassInv' OBVIOUS
<1> USE DEF BypassInv
<1>1. CASE UNCHANGED vars
  <2>1. /\ UNCHANGED <<st, uuse, luse, lock, wc, lwc, obj, pc, op, args, mode, mapped, rest, err, spare, up, wfile>>
    BY <1>1 DEF vars, aliasVars, lowerVars, callVars
  <2>2. TypeOK' BY <2>1 DEF TypeOK
  <2>3. RefInv'
    <3>1. \A u \in Upper : UserRefs(u)' = UserRefs(u)
      BY <2>1 DEF UserRefs, HeldArgs, Kept, PairRefs
    <3>2. \A l \in Lower : LentRefs(l)' = LentRefs(l) BY <2>1 DEF LentRefs, LentArgs, PairRefs
    <3> QED BY <2>1, <3>1, <3>2 DEF RefInv
  <2>4. WcInv' BY <2>1 DEF WcInv
  <2>5. ASSUME NEW t \in Threads PROVE ThreadInv(t)'
    BY <2>1 DEF ThreadInv, CallInv, MapInv, SpareInv, LockInv, LiveInv, PanicInv, LowSide, UpSide,
       Locks, Vnlock, Turn, Kept, PairRefs
  <2> QED BY <2>2, <2>3, <2>4, <2>5
<1>2. ASSUME Running, NEW t \in Threads, Moves(t) PROVE BypassInv'
  <2>1. TypeOK' /\ ThreadStep(t) /\ ThreadInv(t)' /\ CallKeeps BY <1>2, MovesStep
  <2>2. RefInv' /\ \A s \in Threads : ThreadInv(s)' BY <1>2, <2>1, ThreadKept
  <2>3. WcInv' BY <2>1, WritersSame DEF CallKeeps, ThreadStep
  <2> QED BY <2>1, <2>2, <2>3
<1>3. ASSUME Running, NEW t \in Threads,
             (\E u \in Files, e \in BOOLEAN : AddWritecount(t, u, e)) \/ SubWritecount(t)
      PROVE  BypassInv'
  <2>1. TypeOK' /\ ThreadStep(t) /\ ThreadInv(t)' /\ WcInv'
    BY <1>3, AddWritecountStep, SubWritecountStep
  <2>2. RefInv' /\ \A s \in Threads : ThreadInv(s)' BY <1>3, <2>1, ThreadKept
  <2> QED BY <2>1, <2>2
<1>4. ASSUME Running, NEW u \in Upper, Reclaim(u) \/ Reclaimed(u) \/ Freed(u) \/ Lookup(u)
      PROVE  BypassInv'
  <2>1. TypeOK' /\ AliasStep /\ WcInv' BY <1>4, ReclaimStep, EndStep, LookupStep
  <2>2. RefInv' /\ \A s \in Threads : ThreadInv(s)' BY <1>4, <2>1, AliasKept
  <2> QED BY <2>1, <2>2
<1>5. CASE Stopped BY <1>1, <1>5 DEF Stopped
<1> QED BY <1>1, <1>2, <1>3, <1>4, <1>5 DEF Next, Moves

(* The inductive invariant of tpt_bypass and the operations around it, for *)
(* every number of threads, vnodes, mounts, every set of calls and every   *)
(* choice of operations in which the lower layer unlocks.                  *)
THEOREM Invariance == Spec => []BypassInv
<1>1. BypassInv /\ [Next]_vars => BypassInv' BY StepHolds
<1> QED BY InitHolds, <1>1, PTL DEF Spec

(* No path through an operation loses a reference or drops one twice       *)
(* (RefsExact): the counters of aliases and lower vnodes are what the      *)
(* calls, open files and live aliases account for, until the kernel goes   *)
(* down.                                                                   *)
THEOREM ReferencesExact == Spec => []RefsExact
<1>1. BypassInv => RefsExact BY DEF BypassInv, RefInv, RefsExact
<1> QED BY Invariance, <1>1, PTL

(* An operation returns with exactly the locks that its caller is going to *)
(* unlock (LocksReturned), whatever was reclaimed while the lower layer    *)
(* had let go of its locks; a shared lock only as long as the alias lives. *)
THEOREM CallerLocks == Spec => []LocksReturned
<1>1. BypassInv => LocksReturned
  <2> SUFFICES ASSUME BypassInv, NEW t \in Threads, pc[t] = "ret",
                      mode[t] = "exclusive" \/ \A u \in Unlocks(t) : st[u] = "live"
               PROVE  {k \in Lower \cup Upper : t \in lock[k]} = {Vnlock(u) : u \in Unlocks(t)}
    BY DEF LocksReturned, HasLocks
  <2> DEFINE J == LockedArgs(op[t], args[t])
  <2> USE DEF BypassInv
  <2>1. \A k \in Lower \cup Upper : t \in lock[k] <=> k \in Locks(t) BY DEF ThreadInv, LockInv
  <2>2. spare[t] = Null BY DEF ThreadInv, SpareInv, InCall
  <2>3. \A j \in J : args[t][j] \in Upper BY DEF LockedArgs, Given, TypeOK
  <2>4. mode[t] = "exclusive" => LowSide(t) = {} /\ UpSide(t) = J \cap Kept(t)
    BY DEF LowSide, UpSide
  <2>5. mode[t] = "shared" => LowSide(t) = J \cap Kept(t) /\ UpSide(t) = {} /\ up[t] = Null
    <3>1. mode[t] = "shared" => J \subseteq Kept(t) /\ up[t] = Null
      BY DEF ThreadInv, CallInv, SpareInv, SharedOps, VputPairs, Kept, LockedArgs
    <3> QED BY <3>1 DEF LowSide, UpSide
  <2>6. mode[t] \in {"exclusive", "shared"} BY DEF TypeOK, Modes
  <2>7. \A j \in J \cap Kept(t) : args[t][j] \in Unlocks(t) BY DEF Unlocks, Slots
  <2>8. Locks(t) = {Vnlock(u) : u \in Unlocks(t)}
    <3>1. CASE mode[t] = "exclusive"
      BY <2>2, <2>4, <3>1 DEF Locks, Unlocks, Slots
    <3>2. CASE mode[t] = "shared"
      <4>1. \A u \in Unlocks(t) : st[u] = "live" BY <3>2
      <4> QED BY <2>2, <2>5, <2>7, <3>2, <4>1 DEF Locks, Unlocks, Slots, Vnlock
    <3> QED BY <2>6, <3>1, <3>2
  <2>9. Locks(t) \subseteq Lower \cup Upper
    BY <2>2, <2>3, <2>4, <2>5, <2>6, BypassConstants DEF Locks, Vnlock, TypeOK
  <2> QED BY <2>1, <2>8, <2>9
<1> QED BY Invariance, <1>1, PTL

(* A reclaimed alias keeps no share of the write count of its lower vnode  *)
(* (ReclaimComplete): tpt_reclaim gives back what its writers added, and   *)
(* their closes do not give it back again, in any order of opens, closes   *)
(* and forced unmounts.                                                    *)
THEOREM ReclaimGivesBack == Spec => []ReclaimComplete
<1>1. BypassInv => ReclaimComplete BY DEF BypassInv, WcInv, ReclaimComplete
<1> QED BY Invariance, <1>1, PTL

(* An access through NULL is always due to a vnode that was reclaimed      *)
(* while nobody had it locked for the operation (PanicOnlyAfterReclaim):   *)
(* in any other use of tpt_bypass the kernel does not go down.             *)
THEOREM PanicCause == Spec => []PanicOnlyAfterReclaim
<1>1. BypassInv => PanicOnlyAfterReclaim
  BY DEF BypassInv, ThreadInv, PanicInv, PanicOnlyAfterReclaim
<1> QED BY Invariance, <1>1, PTL
=============================================================================
