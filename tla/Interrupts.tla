----------------------------- MODULE Interrupts -----------------------------
(***************************************************************************)
(* The interrupts of os-elephant: the start-up of the kernel               *)
(* (kernel/main.c, init.c, interrupt.c, device/timer.c), the entry stubs   *)
(* (kernel/kernel.S), the general handler, the interrupt flag's functions, *)
(* and panic_spin (kernel/debug.c), with the clock, the interrupt          *)
(* controller and the CPU around them, over the console.                   *)
(***************************************************************************)
EXTENDS Console, FiniteSets

CONSTANTS
    Prints,         \* what the kernel may print once it runs
    Exceptions,     \* vectors of the exceptions its instructions may raise
    MaxEvents,      \* bound on clock ticks and exceptions together
    MaxPrints,      \* bound on what the kernel prints once it runs
    MaxNest         \* bound on nested sections with interrupts disabled

(* Vectors 0 to 19 are the exceptions that exception_init names; the CPU   *)
(* raises no other.                                                        *)
ASSUME InterruptConstants ==
    {MaxEvents, MaxPrints, MaxNest} \subseteq Nat /\ Exceptions \subseteq 0 .. 19

VARIABLES
    stage,          \* position in Boot
    done,           \* what start-up has set up
    intr,           \* the interrupt flag of the CPU
    at,             \* what the CPU runs: "main", a "stub" or a "handler"
    vec, extra,     \* the vector taken; words between the registers and eip
    saved,          \* the interrupt flag the entry pushed
    pending, inservice,     \* the clock's line in the interrupt controller
    olds,           \* statuses that intr_disable returned, not yet set again
    dead,           \* "ok", or how the machine stopped
    events, prints  \* for the bounds

cpuVars == <<at, intr, vec, extra, saved, dead>>
clockVars == <<pending, inservice>>
countVars == <<events, prints>>
vars == <<consoleVars, stage, done, cpuVars, clockVars, olds, countVars>>

(* init_all: the functions in order, each with the message it ends with (a *)
(* newline stands for it).  mem_init is module KernelMemory; what main     *)
(* prints after init_all is one of Prints.                                 *)
Boot == << "init_all", "idt_desc_init", "exception_init", "pic_init", "lidt", "timer_init" >>
Running == stage > Len(Boot)
Message == <<Str(<<LF>>)>>

Init ==
    /\ ConsoleInit
    /\ stage = 1 /\ done = {} /\ at = "main"
    /\ intr \in BOOLEAN             \* whatever the firmware left
    /\ vec = 0 /\ extra = 0 /\ saved = FALSE
    /\ pending = FALSE /\ inservice = FALSE
    /\ olds = <<>> /\ dead = "ok"
    /\ events = 0 /\ prints = 0

Main == dead = "ok" /\ at = "main"
Idle == Main /\ ~Printing("main")

BootStepIdtFirst ==     \* mutant: lidt before pic_init
    /\ Idle /\ ~Running
    /\ stage' = stage + 1
    /\ done' = done \union {IF stage = 4 THEN "lidt" ELSE IF stage = 5 THEN "pic_init" ELSE Boot[stage]}
    /\ IF Boot[stage] = "exception_init" THEN UNCHANGED frame
       ELSE Start("main", Message, FALSE)
    /\ UNCHANGED <<screen, cursor, index, put_int_buffer, cpuVars, clockVars, olds, countVars>>

BootStep ==
    /\ Idle /\ ~Running
    /\ stage' = stage + 1
    /\ done' = done \union {Boot[stage]}
    /\ IF Boot[stage] = "exception_init" THEN UNCHANGED frame
       ELSE Start("main", Message, FALSE)
    /\ UNCHANGED <<screen, cursor, index, put_int_buffer, cpuVars, clockVars, olds, countVars>>

MainPrints ==
    /\ Main /\ PrintStep("main")
    /\ UNCHANGED <<stage, done, cpuVars, clockVars, olds, countVars>>

-----------------------------------------------------------------------------
(* interrupt.c: the functions on the interrupt flag, as any kernel code    *)
(* calls them.                                                             *)
KernelCode == Idle /\ Running /\ "panic" \notin done

IntrDisable ==
    /\ KernelCode /\ Len(olds) < MaxNest
    /\ intr' = FALSE
    /\ olds' = Append(olds, intr)
    /\ UNCHANGED <<consoleVars, stage, done, at, vec, extra, saved, dead, clockVars, countVars>>

IntrSetStatusOn ==      \* mutant: enables whatever the status was
    /\ KernelCode /\ olds # <<>>
    /\ intr' = TRUE
    /\ olds' = Front(olds)
    /\ UNCHANGED <<consoleVars, stage, done, at, vec, extra, saved, dead, clockVars, countVars>>

IntrSetStatus ==        \* status & INTR_ON ? intr_enable() : intr_disable()
    /\ KernelCode /\ olds # <<>>
    /\ intr' = Last(olds)
    /\ olds' = Front(olds)
    /\ UNCHANGED <<consoleVars, stage, done, at, vec, extra, saved, dead, clockVars, countVars>>

IntrEnable ==           \* outside any section of intr_disable
    /\ KernelCode /\ olds = <<>> /\ ~intr
    /\ intr' = TRUE
    /\ UNCHANGED <<consoleVars, stage, done, at, vec, extra, saved, dead, clockVars, olds, countVars>>

KernelPrint ==
    /\ KernelCode /\ prints < MaxPrints
    /\ \E jobs \in Prints : Start("main", jobs, olds # <<>>)
    /\ prints' = prints + 1
    /\ UNCHANGED <<screen, cursor, index, put_int_buffer, stage, done, cpuVars, clockVars, olds, events>>

PanicSpin ==            \* never returns: while(1)
    /\ KernelCode
    /\ intr' = FALSE
    /\ olds' = Append(olds, intr)
    /\ done' = done \union {"panic"}
    /\ Start("main", <<Str(<<"!">>), Hex(1)>>, TRUE)
    /\ UNCHANGED <<screen, cursor, index, put_int_buffer, stage, at, vec, extra, saved, dead,
                   clockVars, countVars>>

-----------------------------------------------------------------------------
(* The CPU takes vector v, pushing an error code if code.  Without a table *)
(* it resets; a fault of a handler runs the handler again, which faults    *)
(* again, until the stack is exhausted; a vector beyond the table is a     *)
(* general protection fault.                                               *)
IDT_DESC_CNT == 33
PushesErrorCode == {8, 10, 11, 12, 13, 14, 17}     \* the CPU pushes an error code

TableLoaded == {"idt_desc_init", "lidt"} \subseteq done
HandlersSet == "exception_init" \in done

Interrupt(v, code, cause) ==
    IF ~TableLoaded THEN
        /\ dead' = "reset"
        /\ UNCHANGED <<at, intr, vec, extra, saved, frame>>
    ELSE IF at # "main" THEN
        /\ dead' = "overflow"
        /\ UNCHANGED <<at, intr, vec, extra, saved, frame>>
    ELSE
        /\ at' = "stub"
        /\ vec' = IF v < IDT_DESC_CNT THEN v ELSE 13
        /\ extra' = IF code \/ v >= IDT_DESC_CNT THEN 1 ELSE 0
        /\ saved' = intr /\ intr' = FALSE      \* an interrupt gate
        /\ frame' = IF Printing("main") THEN [frame EXCEPT !["main"].hit = @ \union {cause}, !["main"].before = <<>>]
                     ELSE frame
        /\ UNCHANGED dead

Base == IF "pic_init" \in done THEN 32 ELSE 8      \* the firmware's choice is 8

Tick ==                 \* the clock's edge; one more while pending is lost
    /\ dead = "ok" /\ ~pending /\ events < MaxEvents
    /\ pending' = TRUE /\ events' = events + 1
    /\ UNCHANGED <<consoleVars, stage, done, cpuVars, inservice, olds, prints>>

Irq ==                  \* as IRQ0, or as IRQ7 when the line fell too early
    /\ Main /\ intr /\ pending /\ ~inservice
    /\ pending' = FALSE
    /\ \/ Interrupt(Base, FALSE, "tick") /\ inservice' = TRUE
       \/ Interrupt(Base + 7, FALSE, "tick") /\ UNCHANGED inservice
    /\ UNCHANGED <<screen, cursor, index, put_int_buffer, stage, done, olds, countVars>>

Exception ==            \* by an instruction of the kernel
    /\ Main /\ events < MaxEvents
    /\ \E v \in Exceptions : Interrupt(v, v \in PushesErrorCode, "fault")
    /\ events' = events + 1
    /\ UNCHANGED <<screen, cursor, index, put_int_buffer, stage, done, clockVars, olds, prints>>

VideoFault ==           \* put_char writes beyond the video segment
    /\ dead = "ok" /\ WriteFaults(IF at = "main" THEN "main" ELSE "intr")
    /\ Interrupt(13, TRUE, "fault")
    /\ UNCHANGED <<screen, cursor, index, put_int_buffer, stage, done, clockVars, olds, countVars>>

-----------------------------------------------------------------------------
(* kernel.S.  The stubs declared with ERROR_CODE push nothing; every other *)
(* one pushes a zero so that one word lies above eip.                      *)
ERROR_CODE == {8, 10, 11, 13, 14, 17, 24, 26, 27, 29, 30}

StubNoEoi ==            \* mutant: no EOI
    /\ dead = "ok" /\ at = "stub" /\ at' = "handler"
    /\ extra' = IF vec \in ERROR_CODE THEN extra ELSE extra + 1
    /\ Start("intr", <<Str(<<"v">>), Hex(vec), Str(<<LF>>)>>, FALSE)
    /\ UNCHANGED <<screen, cursor, index, put_int_buffer, stage, done, intr, vec, saved, dead,
                   clockVars, olds, countVars>>

Stub ==                 \* EOI, then general_intr_handler
    /\ dead = "ok" /\ at = "stub"
    /\ extra' = IF vec \in ERROR_CODE THEN extra ELSE extra + 1
    /\ inservice' = FALSE
    /\ IF HandlersSet
       THEN /\ at' = "handler"
            /\ Start("intr", <<Str(<<"v">>), Hex(vec), Str(<<LF>>)>>, FALSE)
            /\ UNCHANGED dead
       ELSE dead' = "wild" /\ UNCHANGED <<at, frame>>
    /\ UNCHANGED <<screen, cursor, index, put_int_buffer, stage, done, intr, vec, saved, pending,
                   olds, countVars>>

HandlerPrints ==
    /\ dead = "ok" /\ at = "handler" /\ PrintStep("intr")
    /\ UNCHANGED <<stage, done, cpuVars, clockVars, olds, countVars>>

IntrExit ==             \* intr_exit drops one word, then iretd
    /\ dead = "ok" /\ at = "handler" /\ ~Printing("intr")
    /\ IF extra = 1
       THEN at' = "main" /\ intr' = saved /\ vec' = 0 /\ extra' = 0 /\ saved' = FALSE /\ UNCHANGED dead
       ELSE dead' = "wild" /\ UNCHANGED <<at, intr, vec, extra, saved>>
    /\ UNCHANGED <<consoleVars, stage, done, clockVars, olds, countVars>>

Cpu == BootStep \/ MainPrints \/ VideoFault \/ Stub \/ HandlerPrints \/ IntrExit
Kernel == IntrDisable \/ IntrSetStatus \/ IntrEnable \/ KernelPrint \/ PanicSpin
Next == Cpu \/ Kernel \/ Tick \/ Irq \/ Exception

(* The CPU executes instructions, and takes a pending interrupt if it      *)
(* passes through states in which it may again and again.                  *)
Spec == Init /\ [][Next]_vars /\ WF_vars(Cpu) /\ SF_vars(Irq)

-----------------------------------------------------------------------------
(* A clock interrupt never falls into what is printed between intr_disable *)
(* and the intr_set_status that closes the section, however sections nest  *)
(* and whatever exceptions the printing raises; nor into what panic_spin   *)
(* prints (interrupt.c intr_disable, intr_set_status, debug.c).            *)
GuardedPrintIntact == frame["main"].guard => "tick" \notin frame["main"].hit

(* An interrupt returns to the instruction it came from.  The exceptions   *)
(* are those of vector 0x0c, whose stub pushes a zero on top of the error  *)
(* code: the order of pic_init and lidt, the table of stubs and the vector *)
(* range all agree otherwise (kernel.S, interrupt.c idt_init, pic_init).   *)
ReturnsWhereItCame == dead = "wild" => vec = 12

(* No clock interrupt is lost: a pending one is taken, unless interrupts   *)
(* stay disabled for good or the machine has stopped (the EOI of kernel.S, *)
(* the interrupt flag that iretd restores).                                *)
NoTickLost == pending ~> (~pending \/ dead # "ok" \/ [](~intr))

(* Every string and number is printed to its end, unless an interrupt or   *)
(* an exception fell into a print and the machine may stop, or the code    *)
(* faults for ever on a backspace at the top of the screen (print.S).      *)
PrintEnds ==
    \A v \in Levels : Printing(v) ~> (~Printing(v) \/ frame[v].hit # {} \/ dead # "ok")
=============================================================================
