------------------------------ MODULE TrapEntry ------------------------------
(***************************************************************************)
(* How cOS enters and leaves its interrupt and exception handlers:         *)
(* entry.sx, the IRQ stubs of interrupt.c, the gates trap.c and            *)
(* interrupt.c install, and the frame layout of linkage.h and ptrace.h.    *)
(*                                                                         *)
(* Every gate switches to IST 1 or IST 2, and both name the address        *)
(* 0xffff800000007c00: entries do not nest on one another's stack, they    *)
(* start again from its top.  ist[d] is the d-th quadword from that top;   *)
(* depth, in quadwords, is where rsp stands.  A word is a pair: whose it   *)
(* is, and which register (or other thing) of theirs it holds.             *)
(***************************************************************************)
EXTENDS Naturals, Sequences, SequencesExt

CONSTANTS
    Exceptions,   \* the exception vectors raised, of 0 .. 20 without 2 and 15
    IRQs          \* the hardware vectors raised, of 0x20 .. 0x37

ASSUME VectorAssumption ==
    /\ Exceptions \subseteq (0 .. 20) \ {2, 15}
    /\ IRQs \subseteq 32 .. 55

NMI == 2
WithErrorCode == {8, 10, 11, 12, 13, 14, 17}    \* those the CPU pushes one for (Intel SDM)

-----------------------------------------------------------------------------
(***************************************************************************)
(* The code.                                                               *)
(***************************************************************************)
\* The frame below rax, in the order error_code, nmi and SAVE_ALL push it.
General == <<"es", "ds", "rbp", "rdi", "rsi", "rdx", "rcx", "rbx",
             "r8", "r9", "r10", "r11", "r12", "r13", "r14", "r15">>
Regs == {"rax"} \cup {General[i] : i \in DOMAIN General}
CallerSaved == {"rax", "rcx", "rdx", "rsi", "rdi", "r8", "r9", "r10", "r11"}

CpuFrame(v) == <<"ss", "rsp", "rflags", "cs", "rip">>
                   \o (IF v \in WithErrorCode THEN <<"error">> ELSE <<>>)

\* divide_error and debug have stubs, but their gates name the C functions.
HasStub(v) == v \notin {0, 1}

\* The stubs of entry.sx that push no place holder for the error code.
NoPlaceholder == {8, 10, 11, 12, 13, 14, 17}

StubPushes_FallThrough(v) ==
    (CASE v = NMI             -> <<"rax", "rax", "rax">>
       [] v \in IRQs          -> <<"zero", "rax", "rax">>
       [] v \in NoPlaceholder -> <<"func", "rax">>
       [] OTHER               -> <<"zero", "func", "zero", "func", "rax">>) \o General
StubPushes_NoPlaceholderFor18(v) ==
    (CASE v = NMI                    -> <<"rax", "rax", "rax">>
       [] v \in IRQs                 -> <<"zero", "rax", "rax">>
       [] v \in NoPlaceholder \cup {18} -> <<"func", "rax">>
       [] OTHER                      -> <<"zero", "func", "rax">>) \o General

StubPushes(v) ==
    IF ~HasStub(v) THEN <<>>
    ELSE (CASE v = NMI             -> <<"rax", "rax", "rax">>
            [] v \in IRQs          -> <<"zero", "rax", "rax">>
            [] v \in NoPlaceholder -> <<"func", "rax">>
            [] OTHER               -> <<"zero", "func", "rax">>) \o General

\* RSETORE_ALL pops the frame in reverse; rsp then skips func and errcode.
RestorePops_Unreversed == General \o <<"rax">>
RestorePops == Reverse(General) \o <<"rax">>

\* 0x8E gates clear IF, 0x8F and 0xEF gates leave it.
ClearsIF_NmiOnly(v) == v = NMI
ClearsIF(v) == v \in IRQs \cup {NMI}

\* linkage.h, in quadwords above rsp.
FUNC == 17
ERRCODE == 18
RIP == 19

-----------------------------------------------------------------------------
VARIABLES
    running,   \* the contexts suspended and running, the running one last
    at,        \* per context: its phase and how far it is in it
    vector,    \* per context: the vector that entered it
    ist,       \* the words of the shared stack
    depth,     \* rsp, in words below the top of the shared stack
    regs,      \* what each general register holds
    IFlag,     \* the CPU's IF
    scene      \* history: per context, what it interrupted

vars == <<running, at, vector, ist, depth, regs, IFlag, scene>>

Handlers == {"exception", "nmi", "irq"}
Top == Last(running)
Phase(p, n) == [phase |-> p, n |-> n]
StackWords == 32

Own(c, what) == <<c, what>>
Zero == <<"const", "zero">>
KernelDS == <<"const", "0x10">>
Junk == <<"junk", "junk">>

\* What a push of `name` writes while context c runs.
Pushed(c, name) ==
    CASE name \in Regs    -> regs[name]
      [] name = "zero"    -> Zero
      [] name = "func"    -> <<"func", vector[c]>>
      [] name = "error"   -> <<"cpu", "error">>
      [] OTHER            -> Own(c, name)

AtOffset(o) == ist[depth - o]

Goto(c, p, n) == at' = [at EXCEPT ![c] = Phase(p, n)]

-----------------------------------------------------------------------------
(***************************************************************************)
(* The CPU delivers a vector: rsp moves to the top of the IST stack, the   *)
(* frame of the interrupted context is written there, IF follows the gate. *)
(***************************************************************************)
Kind(v) == IF v = NMI THEN "nmi" ELSE IF v \in IRQs THEN "irq" ELSE "exception"

Deliver(v) ==
    LET frame == CpuFrame(v)
        c == Kind(v)
    IN  /\ ist' = [d \in 1 .. StackWords |->
                      IF d \in DOMAIN frame
                      THEN IF frame[d] = "error" THEN <<"cpu", "error">> ELSE Own(Top, frame[d])
                      ELSE ist[d]]
        /\ depth' = Len(frame)
        /\ running' = Append(running, c)
        /\ vector' = [vector EXCEPT ![c] = v]
        /\ Goto(c, "stub", 0)
        /\ IFlag' = (IFlag /\ ~ClearsIF(v))
        /\ scene' = [scene EXCEPT ![c] = [of |-> Top, depth |-> depth, regs |-> regs, IFlag |-> IFlag]]
        /\ UNCHANGED regs

\* An exception of the code a task runs; faults inside handlers are left out.
Exception == Top = "task" /\ \E v \in Exceptions : Deliver(v)
IRQ == IFlag /\ \E v \in IRQs : Deliver(v)
NonMaskable == "nmi" \notin {running[i] : i \in DOMAIN running} /\ Deliver(NMI)

-----------------------------------------------------------------------------
(***************************************************************************)
(* The stubs, one push at a time.  Segment registers go through rax.       *)
(***************************************************************************)
Push ==
    LET c == Top
        n == at[c].n + 1
        pushes == StubPushes(vector[c])
    IN  /\ c \in Handlers /\ at[c].phase = "stub"
        /\ n <= Len(pushes)
        /\ ist' = [ist EXCEPT ![depth + 1] = Pushed(c, pushes[n])]
        /\ depth' = depth + 1
        /\ regs' = IF pushes[n] \in {"es", "ds"} THEN [regs EXCEPT !.rax = regs[pushes[n]]] ELSE regs
        /\ Goto(c, "stub", n)
        /\ UNCHANGED <<running, vector, IFlag, scene>>

\* The end of a stub: the handler's arguments (rsp in rdi; the error code, or
\* the vector of an IRQ, in rsi), the kernel's data segments, the return
\* address and the jump.  A gate with no stub arrives here with the registers
\* of whatever it interrupted.
Call ==
    LET c == Top
        v == vector[c]
    IN  /\ c \in Handlers /\ at[c].phase = "stub"
        /\ at[c].n = Len(StubPushes(v))
        /\ IF HasStub(v)
           THEN /\ regs' = [regs EXCEPT
                       !.rax = Zero, !.ds = KernelDS, !.es = KernelDS, !.rdi = Own(c, "rsp"),
                       !.rsi = IF c = "exception" THEN AtOffset(ERRCODE)
                               ELSE IF c = "nmi" THEN Zero ELSE <<"vector", v>>,
                       !.rdx = IF c = "exception" THEN AtOffset(FUNC) ELSE KernelDS]
                /\ ist' = [ist EXCEPT ![depth + 1] = Own(c, "return")]
                /\ depth' = depth + 1
           ELSE UNCHANGED <<regs, ist, depth>>
        /\ Goto(c, "handler", 0)
        /\ UNCHANGED <<running, vector, IFlag, scene>>

-----------------------------------------------------------------------------
(***************************************************************************)
(* The handlers.  Those of trap.c print and then loop for ever; do_IRQ     *)
(* reads the keyboard, acknowledges and returns.                           *)
(***************************************************************************)
CallPrintk ==
    LET c == Top
    IN  /\ c \in {"exception", "nmi"}
        /\ at[c].phase = "handler"
        /\ ist' = [ist EXCEPT ![depth + 1] = Own(c, "handler")]
        /\ depth' = depth + 1
        /\ regs' = [r \in Regs |-> IF r \in CallerSaved THEN Junk ELSE regs[r]]
        /\ Goto(c, "printing", 0)
        /\ UNCHANGED <<running, vector, IFlag, scene>>

\* color_printk returns to the address it finds.
PrintReturn ==
    LET c == Top
    IN  /\ c \in {"exception", "nmi"}
        /\ at[c].phase = "printing"
        /\ depth' = depth - 1
        /\ Goto(c, IF ist[depth] = Own(c, "handler") THEN "loop" ELSE "wild", 0)
        /\ UNCHANGED <<running, vector, ist, regs, IFlag, scene>>

\* do_IRQ calls io_in8 and io_out8, so one more word of the stack is written.
DoIRQ ==
    /\ Top = "irq"
    /\ at["irq"].phase = "handler"
    /\ ist' = [ist EXCEPT ![depth + 1] = Own("irq", "handler")]
    /\ depth' = depth - 1                  \* ret, to ret_from_intr
    /\ regs' = [r \in Regs |-> IF r \in CallerSaved THEN Junk ELSE regs[r]]
    /\ Goto("irq", "restore", 0)
    /\ UNCHANGED <<running, vector, IFlag, scene>>

-----------------------------------------------------------------------------
(***************************************************************************)
(* RSETORE_ALL, one pop at a time, and iretq.                              *)
(***************************************************************************)
Pop ==
    LET n == at["irq"].n + 1
    IN  /\ Top = "irq"
        /\ at["irq"].phase = "restore"
        /\ n <= Len(RestorePops)
        /\ regs' = IF RestorePops[n] \in {"es", "ds"}
                   THEN [regs EXCEPT ![RestorePops[n]] = ist[depth], !.rax = ist[depth]]
                   ELSE [regs EXCEPT ![RestorePops[n]] = ist[depth]]
        /\ depth' = depth - 1
        /\ Goto("irq", "restore", n)
        /\ UNCHANGED <<running, vector, ist, IFlag, scene>>

\* addq $0x10, %rsp; iretq: whose rip is on top of the stack runs next.
Skip_OneWord == 1
Skip == 2

Iret ==
    LET top == depth - Skip
        to  == ist[top][1]
    IN  /\ Top = "irq"
        /\ at["irq"].phase = "restore"
        /\ at["irq"].n = Len(RestorePops)
        /\ IF ist[top] = Own(to, "rip") /\ to \in {"task"} \cup Handlers
           THEN /\ running' = SubSeq(running, 1, Len(running) - 1)
                /\ depth' = scene["irq"].depth
                /\ IFlag' = scene["irq"].IFlag
                /\ UNCHANGED at
           ELSE /\ Goto("irq", "wild", 0)
                /\ UNCHANGED <<running, depth, IFlag>>
        /\ UNCHANGED <<vector, ist, regs, scene>>

-----------------------------------------------------------------------------
NoScene == [of |-> "none", depth |-> 0, regs |-> [r \in Regs |-> Junk], IFlag |-> FALSE]

\* Before init_interrupt's sti the kernel runs with IF clear, after it with IF set.
Init ==
    /\ running = <<"task">>
    /\ at = [c \in Handlers |-> Phase("none", 0)]
    /\ vector = [c \in Handlers |-> 0]
    /\ ist = [d \in 1 .. StackWords |-> Junk]
    /\ depth = 0
    /\ regs = [r \in Regs |-> Own("task", r)]
    /\ IFlag \in BOOLEAN
    /\ scene = [c \in Handlers |-> NoScene]

CpuStep == Push \/ Call \/ CallPrintk \/ PrintReturn \/ DoIRQ \/ Pop \/ Iret
Next == Exception \/ IRQ \/ NonMaskable \/ CpuStep

\* The CPU executes its next instruction.
Fairness == WF_vars(CpuStep)
Spec == Init /\ [][Next]_vars /\ Fairness

-----------------------------------------------------------------------------
TypeOK ==
    /\ running \in Seq({"task"} \cup Handlers)
    /\ at \in [Handlers -> [phase : {"none", "stub", "handler", "printing", "loop",
                                     "restore", "wild"}, n : 0 .. 20]]
    /\ vector \in [Handlers -> Exceptions \cup IRQs \cup {NMI, 0}]
    /\ DOMAIN ist = 1 .. StackWords
    /\ depth \in 0 .. 26      \* 24 words of frame and two of the handler
    /\ DOMAIN regs = Regs
    /\ IFlag \in BOOLEAN
    /\ \A c \in Handlers : scene[c].depth \in 0 .. 26

\* Where a handler starts it finds what error_code, nmi and SAVE_ALL prepared:
\* rsp as the first argument, the error code (0 where the CPU pushes none) or
\* the IRQ's vector as the second, and the interrupted rip at 0x98(rsp).  For
\* exceptions taken with interrupts disabled, as all are until sti.
ArgumentsOf(c) ==
    LET v == vector[c]
    IN  /\ regs.rdi = Own(c, "rsp")
        /\ regs.rsi = CASE c = "irq" -> <<"vector", v>>
                        [] c = "exception" /\ v \in WithErrorCode -> <<"cpu", "error">>
                        [] OTHER -> Zero
        /\ AtOffset(RIP + 1) = Own(scene[c].of, "rip")
        /\ c = "exception" => regs.rdx = <<"func", v>>

Starting(c) == Top = c /\ at[c].phase = "handler"

HandlersGetTheirFrame ==
    \A c \in Handlers :
        Starting(c) /\ HasStub(vector[c]) /\ ~(c = "exception" /\ scene[c].IFlag)
            => ArgumentsOf(c)

\* entry.sx:71 says "our error_handler is defined as void (*func)(uint64 rsp,
\* uint64 error_code)": every handler of trap.c is called with these.
EveryHandlerGetsItsFrame ==
    Starting("exception") /\ ~scene["exception"].IFlag => ArgumentsOf("exception")

\* The iretq of an IRQ goes back to the context it interrupted, wherever in its
\* stub or handler that was, with every register as it was.
IrqRestoresScene ==
    [][Iret => /\ Len(running') < Len(running)
               /\ Last(running') = scene["irq"].of
               /\ regs' = scene["irq"].regs]_vars

\* No handler is entered again while an entry of it is unfinished: it would
\* start from the top of the same stack.
NoReentry == IsInjective(running)

\* interrupt.c:38 calls SAVE_ALL the macro "to save the scene": a handler that
\* an IRQ interrupts finds its own stack when it goes on.
HandlerStackKept ==
    Top = "exception" /\ at["exception"].phase = "printing"
        => ist[depth] = Own("exception", "handler")

\* An IRQ handler is left: nothing in its path waits.
IrqCompletes == Top = "irq" ~> Top # "irq"
=============================================================================
