-------------------------- MODULE InterruptsProofs --------------------------
(***************************************************************************)
(* What a print may rely on between intr_disable and intr_set_status, and  *)
(* where an interrupt returns to, for every screen, every set of prints    *)
(* and any number of ticks, exceptions and nested sections.                *)
(***************************************************************************)
EXTENDS Interrupts, SequenceTheorems, TLAPS

(* What these proofs use of a print in progress.                           *)
Kept == {"hit", "guard", "step"}

(* Both levels have a print, and the one that prints nothing has no guard. *)
FramesOK ==
    /\ DOMAIN frame = Levels
    /\ \A v \in Levels : Kept \subseteq DOMAIN frame[v]
    /\ \A v \in Levels : frame[v].step = "idle" => ~frame[v].guard

(* Nothing new fell into a print, and none became guarded.                 *)
PrintKept ==
    /\ FramesOK'
    /\ \A w \in Levels : (frame'[w].guard => frame[w].guard) /\ frame'[w].hit \subseteq frame[w].hit

(* put_char begins with the print as it is, but for ch and step.           *)
LEMMA PutCharKeeps ==
    ASSUME FramesOK, NEW v \in Levels, NEW f, NEW c, PutChar(v, f, c),
           Kept \subseteq DOMAIN f, f.guard = frame[v].guard, f.hit = frame[v].hit
    PROVE  PrintKept
<1> DEFINE g == [f EXCEPT !.ch = c, !.step = "get_hi"]
<1>1. Kept \subseteq DOMAIN g /\ g.guard = f.guard /\ g.hit = f.hit /\ g.step # "idle" BY DEF Kept
<1>2. frame' = [frame EXCEPT ![v] = g] BY DEF PutChar
<1> HIDE DEF g
<1> QED BY <1>1, <1>2 DEF PrintKept, FramesOK, Levels

(* A print that starts: nothing has fallen into it.                        *)
LEMMA StartedShape ==
    ASSUME NEW jobs, NEW guard
    PROVE  LET f == Started(jobs, guard) IN
           Kept \subseteq DOMAIN f /\ f.guard = guard /\ f.hit = {} /\ f.step # "idle"
<1> DEFINE j == Head(jobs)
           b == <<screen, Cursor>>
           s == IF j.kind = "int" THEN "fill" ELSE "next"
<1>1. Started(jobs, guard) = [NoPrint EXCEPT !.job = j, !.then = Tail(jobs), !.guard = guard, !.step = s,
                         !.text = j.text, !.num = j.num, !.edi = Digits - 1, !.before = b]
  BY DEF Started
<1>2. s # "idle" OBVIOUS
<1> HIDE DEF j, b, s
<1> QED BY <1>1, <1>2 DEF NoPrint, Kept

(* The state between two prints.                                           *)
LEMMA NoPrintShape == Kept \subseteq DOMAIN NoPrint /\ NoPrint.guard = FALSE /\ NoPrint.hit = {}
BY DEF NoPrint, Kept

(* A step of put_str, put_int or put_char keeps whether the print is       *)
(* guarded, and what fell into it (print.S).                               *)
LEMMA PrintStepKeeps ==
    ASSUME FramesOK, NEW v \in Levels, PrintStep(v)
    PROVE  PrintKept
<1> USE DEF FramesOK, Levels, Kept
<1>1. CASE FillDigit(v) BY <1>1 DEF FillDigit, PrintKept
<1>2. CASE SkipZero(v)
  <2>1. CASE \E c : PutChar(v, frame[v], c) BY <2>1, PutCharKeeps
  <2>2. CASE frame' = [frame EXCEPT ![v].edi = @ + 1] BY <2>2 DEF PrintKept
  <2> QED BY <1>2, <2>1, <2>2, Zenon DEF SkipZero
<1>3. CASE NextChar(v)
  <2> DEFINE f == [frame[v] EXCEPT !.text = Tail(@)]
  <2>1. CASE \E c : PutChar(v, frame[v], c) BY <2>1, PutCharKeeps
  <2>2. CASE PutChar(v, f, Head(frame[v].text))
    <3>1. Kept \subseteq DOMAIN f /\ f.guard = frame[v].guard /\ f.hit = frame[v].hit OBVIOUS
    <3> HIDE DEF f
    <3> QED BY <2>2, <3>1, PutCharKeeps
  <2> QED BY <1>3, <2>1, <2>2, Zenon DEF NextChar
<1>4. CASE Finish(v)
  <2> DEFINE f == Started(frame[v].then, frame[v].guard)
  <2>1. CASE frame' = [frame EXCEPT ![v] = f]
    <3>1. Kept \subseteq DOMAIN f /\ f.guard = frame[v].guard /\ f.hit = {} /\ f.step # "idle"
      BY StartedShape
    <3> HIDE DEF f
    <3> QED BY <2>1, <3>1 DEF PrintKept
  <2>2. CASE frame' = [frame EXCEPT ![v] = NoPrint] BY <2>2, NoPrintShape DEF PrintKept
  <2> QED BY <1>4, <2>1, <2>2, Zenon DEF Finish, Start
<1>5. CASE Select(v) BY <1>5 DEF Select, PrintKept
<1>6. CASE GetCursor(v) BY <1>6 DEF GetCursor, PrintKept
<1>7. CASE SetCursor(v) BY <1>7 DEF SetCursor, PrintKept
<1>8. CASE Write(v) BY <1>8 DEF Write, Moved, PrintKept
<1>9. CASE RollScreen(v) BY <1>9 DEF RollScreen, PrintKept
<1>10. CASE Cls(v) BY <1>10 DEF Cls, PrintKept
<1> QED BY <1>1, <1>2, <1>3, <1>4, <1>5, <1>6, <1>7, <1>8, <1>9, <1>10 DEF PrintStep

-----------------------------------------------------------------------------
(* While sections of intr_disable are open, the kernel runs with           *)
(* interrupts disabled, also after the interrupt that is being handled;    *)
(* and only the outermost section may enable them again.                   *)
SectionInv ==
    /\ olds # <<>> => IF at = "main" THEN ~intr ELSE ~saved
    /\ \A i \in 2 .. Len(olds) : ~olds[i]

(* A guarded print is in an open section, and no tick fell into it.        *)
GuardInv == frame["main"].guard => olds # <<>> /\ "tick" \notin frame["main"].hit

(* The interrupt flag and its saved values.                                *)
FlagTypes == intr \in BOOLEAN /\ saved \in BOOLEAN /\ olds \in Seq(BOOLEAN)

(* The inductive invariant for GuardedPrintIntact.                         *)
PrintInv == FramesOK /\ FlagTypes /\ SectionInv /\ GuardInv

(* It holds when the kernel starts.                                        *)
LEMMA InitPrint == Init => PrintInv
<1> SUFFICES ASSUME Init PROVE PrintInv OBVIOUS
<1>1. frame = [v \in Levels |-> NoPrint] /\ olds = <<>> BY DEF Init, ConsoleInit
<1>2. FramesOK /\ ~frame["main"].guard BY <1>1, NoPrintShape DEF FramesOK, Levels
<1>3. FlagTypes /\ SectionInv
  <2>1. intr \in BOOLEAN /\ saved \in BOOLEAN BY DEF Init
  <2>2. olds \in Seq(BOOLEAN) /\ Len(olds) = 0 BY <1>1
  <2> QED BY <1>1, <2>1, <2>2 DEF FlagTypes, SectionInv
<1> QED BY <1>2, <1>3 DEF PrintInv, GuardInv

(* Starting a print changes its own level only.                            *)
LEMMA StartKeeps ==
    ASSUME FramesOK, NEW v \in Levels, NEW jobs, NEW guard, Start(v, jobs, guard)
    PROVE  /\ FramesOK'
           /\ frame'[v].guard = guard /\ frame'[v].hit = {}
           /\ \A w \in Levels \ {v} : frame'[w] = frame[w]
<1> DEFINE f == Started(jobs, guard)
<1>1. Kept \subseteq DOMAIN f /\ f.guard = guard /\ f.hit = {} /\ f.step # "idle" BY StartedShape
<1>2. frame' = [frame EXCEPT ![v] = f] BY DEF Start
<1> HIDE DEF f
<1> QED BY <1>1, <1>2 DEF FramesOK, Levels

(* Taking an interrupt disables interrupts until it returns.               *)
LEMMA InterruptKeeps ==
    ASSUME PrintInv, NEW v, NEW code, NEW cause, Interrupt(v, code, cause), UNCHANGED olds,
           cause = "tick" => olds = <<>>
    PROVE  PrintInv'
<1>1. FramesOK' /\ FlagTypes' /\ frame'["main"].guard = frame["main"].guard
      /\ frame'["main"].hit \subseteq frame["main"].hit \union {cause}
  <2>1. FlagTypes' BY DEF PrintInv, FlagTypes, Interrupt
  <2>2. CASE frame' = [frame EXCEPT !["main"].hit = @ \union {cause}, !["main"].before = <<>>]
    BY <2>1, <2>2 DEF PrintInv, FramesOK, Levels, Kept
  <2>3. CASE frame' = frame BY <2>1, <2>3 DEF PrintInv, FramesOK
  <2> QED BY <2>2, <2>3, Zenon DEF Interrupt
<1>2. SectionInv' BY DEF PrintInv, SectionInv, Interrupt
<1>3. GuardInv' BY <1>1 DEF PrintInv, GuardInv
<1> QED BY <1>1, <1>2, <1>3 DEF PrintInv

(* intr_disable opens a section; what it returned is "off" in all but the  *)
(* outermost one.                                                          *)
LEMMA OpenSection ==
    ASSUME FlagTypes, SectionInv, at = "main", intr' = FALSE, olds' = Append(olds, intr),
           UNCHANGED <<at, saved>>
    PROVE  FlagTypes' /\ SectionInv'
<1>1. FlagTypes'
  <2>1. intr \in BOOLEAN /\ olds \in Seq(BOOLEAN) BY DEF FlagTypes
  <2>2. Append(olds, intr) \in Seq(BOOLEAN) BY <2>1, AppendProperties
  <2> QED BY <2>2 DEF FlagTypes
<1>2. Len(olds') = Len(olds) + 1 /\ Len(olds) \in Nat /\ olds'[Len(olds) + 1] = intr
      /\ \A i \in 1 .. Len(olds) : olds'[i] = olds[i]
  BY DEF FlagTypes
<1>3. olds # <<>> <=> Len(olds) # 0 BY DEF FlagTypes
<1>4. ASSUME NEW i \in 2 .. Len(olds') PROVE ~olds'[i]
  <2>1. CASE i <= Len(olds)
    <3>1. i \in 2 .. Len(olds) /\ i \in 1 .. Len(olds) BY <1>2, <2>1
    <3> QED BY <1>2, <3>1 DEF SectionInv
  <2>2. CASE i = Len(olds) + 1 BY <1>2, <1>3, <2>2 DEF SectionInv
  <2> QED BY <1>2, <2>1, <2>2
<1> QED BY <1>1, <1>4 DEF SectionInv

(* Every step keeps the invariant, one case per action.                    *)
LEMMA PrintInvStep == PrintInv /\ [Next]_vars => PrintInv'
<1> SUFFICES ASSUME PrintInv, [Next]_vars PROVE PrintInv' OBVIOUS
<1> USE DEF PrintInv
<1>m. "main" \in Levels /\ "intr" \in Levels BY DEF Levels
<1>1. CASE BootStep
  <2>1. FramesOK' /\ (frame'["main"].guard => frame["main"].guard /\ frame'["main"].hit = frame["main"].hit)
    BY <1>1, <1>m, StartKeeps DEF BootStep, FramesOK
  <2> QED BY <1>1, <2>1 DEF BootStep, cpuVars, FlagTypes, SectionInv, GuardInv
<1>2. CASE MainPrints
  <2>1. PrintKept BY <1>2, <1>m, PrintStepKeeps DEF MainPrints
  <2> QED BY <1>2, <2>1, <1>m DEF MainPrints, cpuVars, FlagTypes, SectionInv, GuardInv, PrintKept
<1>3. CASE VideoFault
  <2>1. Interrupt(13, TRUE, "fault") /\ UNCHANGED olds BY <1>3 DEF VideoFault
  <2>2. "fault" = "tick" => olds = <<>> OBVIOUS
  <2> QED BY <2>1, <2>2, InterruptKeeps, Zenon DEF PrintInv
<1>4. CASE Stub
  <2>1. FramesOK' /\ frame'["main"] = frame["main"]
    BY <1>4, <1>m, StartKeeps DEF Stub, FramesOK
  <2> QED BY <1>4, <2>1 DEF Stub, FlagTypes, SectionInv, GuardInv
<1>5. CASE HandlerPrints
  <2>1. PrintKept BY <1>5, <1>m, PrintStepKeeps DEF HandlerPrints
  <2> QED BY <1>5, <2>1, <1>m DEF HandlerPrints, cpuVars, FlagTypes, SectionInv, GuardInv, PrintKept
<1>6. CASE IntrExit
  BY <1>6 DEF IntrExit, consoleVars, FramesOK, FlagTypes, SectionInv, GuardInv
<1>7. CASE IntrDisable
  <2>1. intr' = FALSE /\ olds' = Append(olds, intr) /\ UNCHANGED <<frame, at, saved>> /\ at = "main"
    BY <1>7 DEF IntrDisable, KernelCode, Idle, Main, consoleVars
  <2>2. FlagTypes' /\ SectionInv' BY <2>1, OpenSection
  <2> QED BY <2>1, <2>2 DEF FramesOK, GuardInv, FlagTypes
<1>8. CASE IntrSetStatus
  <2>1. ~frame["main"].guard BY <1>8, <1>m DEF IntrSetStatus, KernelCode, Idle, Printing, FramesOK
  <2>2. olds' = SubSeq(olds, 1, Len(olds) - 1) /\ intr' = olds[Len(olds)]
    BY <1>8 DEF IntrSetStatus, Front, Last
  <2>3. olds # <<>> /\ at = "main" /\ at' = at /\ frame' = frame /\ saved' = saved
    BY <1>8 DEF IntrSetStatus, KernelCode, Idle, Main, consoleVars
  <2> QED BY <2>1, <2>2, <2>3 DEF FramesOK, FlagTypes, SectionInv, GuardInv
<1>9. CASE IntrEnable
  BY <1>9 DEF IntrEnable, consoleVars, FramesOK, FlagTypes, SectionInv, GuardInv
<1>10. CASE KernelPrint
  <2>1. FramesOK' /\ frame'["main"].guard = (olds # <<>>) /\ frame'["main"].hit = {}
    BY <1>10, <1>m, StartKeeps DEF KernelPrint
  <2> QED BY <1>10, <2>1 DEF KernelPrint, cpuVars, FlagTypes, SectionInv, GuardInv
<1>11. CASE PanicSpin
  <2>1. FramesOK' /\ frame'["main"].hit = {}
    BY <1>11, <1>m, StartKeeps DEF PanicSpin
  <2>2. intr' = FALSE /\ olds' = Append(olds, intr) /\ UNCHANGED <<at, saved>> /\ at = "main"
    BY <1>11 DEF PanicSpin, KernelCode, Idle, Main
  <2>3. FlagTypes' /\ SectionInv' BY <2>2, OpenSection
  <2> QED BY <2>1, <2>2, <2>3 DEF GuardInv, FlagTypes
<1>12. CASE Tick
  BY <1>12 DEF Tick, consoleVars, cpuVars, FramesOK, FlagTypes, SectionInv, GuardInv
<1>13. CASE Irq
  <2>1. olds = <<>> BY <1>13 DEF Irq, Main, SectionInv
  <2> QED BY <1>13, <2>1, InterruptKeeps DEF Irq
<1>14. CASE Exception BY <1>14, InterruptKeeps DEF Exception
<1>15. CASE UNCHANGED vars
  BY <1>15 DEF vars, consoleVars, cpuVars, FramesOK, FlagTypes, SectionInv, GuardInv
<1> QED BY <1>1, <1>2, <1>3, <1>4, <1>5, <1>6, <1>7, <1>8, <1>9, <1>10, <1>11, <1>12, <1>13, <1>14,
           <1>15 DEF Next, Cpu, Kernel

(* No clock interrupt falls into what is printed between intr_disable and  *)
(* the intr_set_status that closes the section, or by panic_spin           *)
(* (interrupt.c, debug.c).                                                 *)
THEOREM PrintGuarded == Spec => []GuardedPrintIntact
<1>1. PrintInv => GuardedPrintIntact BY DEF PrintInv, GuardInv, GuardedPrintIntact
<1> QED BY <1>1, InitPrint, PrintInvStep, PTL DEF Spec

-----------------------------------------------------------------------------
(* Start-up has done exactly the functions before its place in Boot.       *)
BootInv ==
    /\ stage \in 1 .. Len(Boot) + 1
    /\ \A i \in 1 .. Len(Boot) : Boot[i] \in done <=> i < stage

(* The vectors that arrive: those of exceptions and the clock's.           *)
Vectors == (0 .. 19) \union {32}

(* How many words lie above eip while an interrupt is handled; one too     *)
(* many after the stub of vector 0x0c, and only then does iretd go astray. *)
EntryInv ==
    /\ at \in {"main", "stub", "handler"}
    /\ at = "stub" => TableLoaded /\ vec \in Vectors /\ extra = IF vec \in PushesErrorCode THEN 1 ELSE 0
    /\ at = "handler" => vec \in Vectors /\ extra = IF vec = 12 THEN 2 ELSE 1
    /\ dead = "wild" => vec = 12

(* The inductive invariant for ReturnsWhereItCame.                         *)
ReturnInv == BootInv /\ EntryInv

(* It holds when the kernel starts.                                        *)
LEMMA InitReturn == Init => ReturnInv
BY DEF Init, ReturnInv, BootInv, EntryInv, Boot

(* With its table loaded the kernel has set the handlers and moved the     *)
(* clock's vector away from the exceptions.                                *)
LEMMA LoadedLast == ASSUME BootInv, TableLoaded PROVE HandlersSet /\ Base = 32
BY DEF BootInv, TableLoaded, HandlersSet, Base, Boot

(* The CPU enters a stub with as many words as its vector has.             *)
LEMMA EntryExact ==
    ASSUME ReturnInv, dead = "ok", NEW v \in Nat, NEW code, NEW cause,
           Interrupt(v, code, cause), UNCHANGED <<stage, done>>,
           TableLoaded => v \in Vectors \union {39} /\ (v # 39 => (code <=> v \in PushesErrorCode))
    PROVE  ReturnInv'
<1>1. BootInv' BY DEF ReturnInv, BootInv
<1>2. CASE at # "main" \/ ~TableLoaded
  <2>1. dead' \in {"reset", "overflow"} /\ UNCHANGED <<at, vec, extra>> BY <1>2 DEF Interrupt
  <2> QED BY <1>1, <2>1 DEF ReturnInv, EntryInv, TableLoaded
<1>3. CASE at = "main" /\ TableLoaded
  <2>1. at' = "stub" /\ dead' = "ok" /\ TableLoaded' /\ v \in Vectors \union {39}
    BY <1>3 DEF Interrupt, TableLoaded
  <2>2. vec' = (IF v < 33 THEN v ELSE 13) /\ extra' = IF code \/ v >= 33 THEN 1 ELSE 0
    BY <1>3 DEF Interrupt, IDT_DESC_CNT
  <2>3. vec' \in Vectors BY <2>1, <2>2 DEF Vectors
  <2>4. extra' = IF vec' \in PushesErrorCode THEN 1 ELSE 0
    BY <1>3, <2>1, <2>2 DEF Vectors, PushesErrorCode
  <2> QED BY <1>1, <2>1, <2>3, <2>4 DEF ReturnInv, EntryInv
<1> QED BY <1>1, <1>2, <1>3 DEF ReturnInv

(* Every step keeps the invariant, one case per action.                    *)
LEMMA ReturnStep == ReturnInv /\ [Next]_vars => ReturnInv'
<1> SUFFICES ASSUME ReturnInv, [Next]_vars PROVE ReturnInv' OBVIOUS
<1> USE DEF ReturnInv
<1>1. CASE BootStep
  <2>1. BootInv' BY <1>1 DEF BootStep, Running, BootInv, Boot
  <2>2. EntryInv' BY <1>1 DEF BootStep, Idle, Main, EntryInv, cpuVars
  <2> QED BY <2>1, <2>2
<1>2. CASE MainPrints BY <1>2 DEF MainPrints, BootInv, EntryInv, TableLoaded, cpuVars
<1>3. CASE VideoFault
  <2>1. UNCHANGED <<stage, done>> /\ dead = "ok" /\ Interrupt(13, TRUE, "fault")
    BY <1>3 DEF VideoFault
  <2>2. 13 \in Vectors /\ 13 \in PushesErrorCode BY DEF Vectors, PushesErrorCode
  <2> QED BY <2>1, <2>2, EntryExact
<1>4. CASE Stub
  <2>1. BootInv' /\ HandlersSet BY <1>4, LoadedLast DEF Stub, BootInv, EntryInv
  <2>2. dead' = "ok" /\ at' = "handler" /\ vec' = vec /\ vec \in Vectors
    BY <1>4, <2>1 DEF Stub, EntryInv
  <2>3. extra' = IF vec = 12 THEN 2 ELSE 1
    BY <1>4 DEF Stub, EntryInv, Vectors, PushesErrorCode, ERROR_CODE
  <2> QED BY <2>1, <2>2, <2>3 DEF EntryInv
<1>5. CASE HandlerPrints BY <1>5 DEF HandlerPrints, BootInv, EntryInv, TableLoaded, cpuVars
<1>6. CASE IntrExit BY <1>6 DEF IntrExit, BootInv, EntryInv
<1>7. CASE IntrDisable \/ IntrSetStatus \/ IntrEnable
  BY <1>7 DEF IntrDisable, IntrSetStatus, IntrEnable, BootInv, EntryInv, TableLoaded
<1>8. CASE KernelPrint BY <1>8 DEF KernelPrint, BootInv, EntryInv, TableLoaded, cpuVars
<1>9. CASE PanicSpin BY <1>9 DEF PanicSpin, BootInv, Boot, EntryInv, TableLoaded
<1>10. CASE Tick BY <1>10 DEF Tick, BootInv, EntryInv, TableLoaded, cpuVars
<1>11. CASE Irq
  <2>1. UNCHANGED <<stage, done>> /\ dead = "ok" BY <1>11 DEF Irq, Main
  <2>2. Base \in {8, 32} /\ (TableLoaded => Base = 32) BY LoadedLast DEF Base
  <2>3. 32 \in Vectors /\ 32 \notin PushesErrorCode BY DEF Vectors, PushesErrorCode
  <2>a. Base \in Nat /\ (TableLoaded => Base \in Vectors \union {39} /\ (FALSE <=> Base \in PushesErrorCode))
    BY <2>2, <2>3
  <2>b. Base + 7 \in Nat /\ (TableLoaded => Base + 7 \in Vectors \union {39} /\ Base + 7 = 39)
    BY <2>2
  <2>4. CASE Interrupt(Base, FALSE, "tick") BY <2>1, <2>a, <2>4, EntryExact, Zenon DEF ReturnInv
  <2>5. CASE Interrupt(Base + 7, FALSE, "tick") BY <2>1, <2>b, <2>5, EntryExact, Zenon DEF ReturnInv
  <2> QED BY <1>11, <2>4, <2>5 DEF Irq
<1>12. CASE Exception
  <2>1. UNCHANGED <<stage, done>> /\ dead = "ok" BY <1>12 DEF Exception, Main
  <2>2. PICK v \in Exceptions : Interrupt(v, v \in PushesErrorCode, "fault") BY <1>12 DEF Exception
  <2>3. v \in Nat /\ v \in Vectors /\ v # 39 BY InterruptConstants DEF Vectors
  <2> QED BY <2>1, <2>2, <2>3, EntryExact, Zenon DEF ReturnInv
<1>13. CASE UNCHANGED vars BY <1>13 DEF vars, BootInv, EntryInv, TableLoaded, cpuVars
<1> QED BY <1>1, <1>2, <1>3, <1>4, <1>5, <1>6, <1>7, <1>8, <1>9, <1>10, <1>11, <1>12, <1>13
        DEF Next, Cpu, Kernel

(* Every interrupt returns to the instruction it came from, but for those  *)
(* of vector 0x0c (kernel.S, interrupt.c).                                 *)
THEOREM InterruptsReturn == Spec => []ReturnsWhereItCame
<1>1. ReturnInv => ReturnsWhereItCame BY DEF ReturnInv, EntryInv, ReturnsWhereItCame
<1> QED BY <1>1, InitReturn, ReturnStep, PTL DEF Spec
=============================================================================
