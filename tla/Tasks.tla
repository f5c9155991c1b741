-------------------------------- MODULE Tasks --------------------------------
(***************************************************************************)
(* Kernel threads in cOS: task.c with the list of lib.h and the frame of   *)
(* ptrace.h, on the pages of PageAllocator.                                *)
(*                                                                         *)
(* The program makes one thread: task_init calls kernel_thread(init, 10),  *)
(* do_fork lays its task_struct and a hand-written frame on a page of      *)
(* alloc_pages, switch_to changes stacks, and kernel_thread_func pops the  *)
(* frame into the registers.  None of these agree by construction: each    *)
(* counts words of a stack for itself.                                     *)
(*                                                                         *)
(* The stack of a task is the 32 KB its task_struct starts; a stack        *)
(* pointer is a task and how many words below the end of its 32 KB it is.  *)
(* A word is a pair, such as <<"init_task", "rbp">>: whose it is, and what.*)
(***************************************************************************)
EXTENDS PageAllocator, SequencesExt

Tasks == {"init_task", "thread"}

Zero == <<"const", "0">>
KERNEL_DS == <<"const", "KERNEL_DS">>
Function == <<"const", "init">>
Argument == <<"const", "10">>
Result == <<"init", "return value">>
KernelThreadFunc == <<"code", "kernel_thread_func">>
Label1 == <<"code", "1">>
Junk == <<"junk", "junk">>

\* The 2 MB pages head.sx maps to themselves at PAGE_OFFSET; the eight
\* entries behind them map the frame buffer, and there are no more.
RamPages == 0 .. 4
MappedPages == 0 .. 12

\* struct pt_regs, lowest address first.
PtRegs == <<"r15", "r14", "r13", "r12", "r11", "r10", "r9", "r8", "rbx", "rcx", "rdx", "rsi",
            "rdi", "rbp", "ds", "es", "rax", "func", "errcode", "rip", "cs", "rflags", "rsp", "ss">>
FrameWords == Len(PtRegs)

\* kernel_thread_func: the registers it pops, and the words its addq passes over.
Pops_NoRcx == SelectSeq(SubSeq(PtRegs, 1, 17), LAMBDA r : r # "rcx")
Pops == <<"r15", "r14", "r13", "r12", "r11", "r10", "r9", "r8", "rbx", "rcx", "rdx", "rsi",
          "rdi", "rbp", "ds", "es", "rax">>
PassedOver == 7

Regs == {Pops[i] : i \in DOMAIN Pops} \cup {"fs", "gs"}
CallerSaved == {"rax", "rcx", "rdx", "rsi", "rdi", "r8", "r9", "r10", "r11"}

VARIABLES
    pc,         \* where the running code is
    popped,     \* how many words kernel_thread_func has popped
    regs,       \* what the registers hold
    rsp,        \* [task, depth]
    stack,      \* per task: its words, by depth
    tcb,        \* per task: its task_struct and thread_struct
    tss_rsp0,   \* rsp0 of the TSS
    page,       \* the page the thread is on, or -1
    started     \* history: the registers as switch_to found them

allvars == <<vars, pc, popped, regs, rsp, stack, tcb, tss_rsp0, page, started>>

StackTop(t) == [task |-> t, depth |-> 0]
Below(p, n) == [p EXCEPT !.depth = @ + n]
Word(p) == stack[p.task][p.depth]
Depths == 1 .. FrameWords + 2

\* rsp & ~32767: at the very end of its stack a task would find its neighbour.
current == IF rsp.depth > 0 THEN rsp.task ELSE "none"

-----------------------------------------------------------------------------
(***************************************************************************)
(* do_fork.                                                                *)
(***************************************************************************)
\* p = alloc_pages(ZONE_NORMAL, 1, ...).  A NULL p is used like any other:
\* p->phy_addr is then two vectors of the BIOS, no address at all.
ForkFlags == {"PG_PTable_Maped", "PG_Active", "PG_Kernel"}

ASSUME ForkAssumption == ForkFlags \in FlagSets

Allocate ==
    /\ pc = "do_fork"
    /\ alloc_pages("ZONE_NORMAL", 1, ForkFlags)
    /\ IF call'.ret = "page"
       THEN \E p \in granted' : page' = p /\ pc' = IF p \in MappedPages THEN "struct" ELSE "fault"
       ELSE page' = page /\ pc' = "fault"
    /\ UNCHANGED <<popped, regs, rsp, stack, tcb, tss_rsp0, started>>

\* list_add_to_before(entry, new): the four assignments, in their order.
Ring(l, p, field, to) == [l EXCEPT ![p][field] = to]
list_add_to_before_NoPrevNext(l, entry, new) ==
    LET l1 == Ring(l, new, "next", entry)
        l2 == Ring(l1, new, "prev", l1[entry].prev)
    IN  Ring(l2, entry, "prev", new)

list_add_to_before(l, entry, new) ==
    LET l1 == Ring(l, new, "next", entry)
        l2 == Ring(l1, l1[entry].prev, "next", new)
        l3 == Ring(l2, new, "prev", l2[entry].prev)
    IN  Ring(l3, entry, "prev", new)

\* The task_struct: a copy of current's, put into the ring.
MakeStruct ==
    /\ pc = "struct"
    /\ LET copy == [tcb EXCEPT !["thread"].flags = tcb[current].flags,
                               !["thread"].pid = tcb[current].pid + 1,
                               !["thread"].state = "TASK_UNINTERRUPTIBLE",
                               !["thread"].prev = "thread", !["thread"].next = "thread"]
       IN  tcb' = list_add_to_before(copy, "init_task", "thread")
    /\ pc' = "thread"
    /\ UNCHANGED <<vars, popped, regs, rsp, stack, tss_rsp0, page, started>>

\* What kernel_thread put in its struct pt_regs.
Asked(field) ==
    CASE field = "rbx" -> Function
      [] field = "rdx" -> Argument
      [] field \in {"ds", "es", "ss"} -> KERNEL_DS
      [] field = "cs" -> <<"const", "KERNEL_CS">>
      [] field = "rflags" -> <<"const", "IF">>
      [] field = "rip" -> KernelThreadFunc
      [] OTHER -> Zero

FrameRsp_OneWordLow == Below(StackTop("thread"), FrameWords + 1)
FrameRsp == Below(StackTop("thread"), FrameWords)

\* The thread_struct and the frame.  fs and gs, like all of the thread_struct
\* that is not assigned, stay what the page held.
MakeThread ==
    /\ pc = "thread"
    /\ stack' = [stack EXCEPT !["thread"] =
          [d \in Depths |-> IF d <= FrameWords THEN Asked(PtRegs[FrameWords + 1 - d]) ELSE @[d]]]
    /\ tcb' = [tcb EXCEPT !["thread"].rsp0 = StackTop("thread"), !["thread"].rsp = FrameRsp,
                          !["thread"].rip = IF "PF_KTHREAD" \in tcb["thread"].flags
                                            THEN Asked("rip") ELSE <<"code", "ret_from_intr">>,
                          !["thread"].state = "TASK_RUNNING"]
    /\ pc' = "task_init"
    /\ UNCHANGED <<vars, popped, regs, rsp, tss_rsp0, page, started>>

-----------------------------------------------------------------------------
(***************************************************************************)
(* switch_to(current, list_next(current)).                                 *)
(***************************************************************************)
\* prev in rdi, next in rsi; pushq %rbp; pushq %rax; and rsp into prev's thread_struct.
SavedScene_Swapped == <<"rax", "rbp">>
SavedScene == <<"rbp", "rax">>
RestoredScene == <<"rax", "rbp">>      \* what label 1 pops

SwitchPush ==
    /\ pc = "task_init"
    /\ stack' = [stack EXCEPT ![rsp.task][rsp.depth + 1] = regs[SavedScene[1]],
                              ![rsp.task][rsp.depth + 2] = regs[SavedScene[2]]]
    /\ rsp' = Below(rsp, 2)
    /\ tcb' = [tcb EXCEPT !["init_task"].state = "TASK_RUNNING", ![current].rsp = Below(rsp, 2)]
    /\ regs' = [regs EXCEPT !.rdi = <<"task", current>>, !.rsi = <<"task", tcb[current].next>>]
    /\ started' = regs
    /\ pc' = "switch"
    /\ UNCHANGED <<vars, popped, tss_rsp0, page>>

\* rsp from next's thread_struct; label 1 into prev's rip; next's rip pushed,
\* for the ret of __switch_to.
SwitchStack ==
    LET prev == regs.rdi[2]
        next == regs.rsi[2]
        to   == tcb[next].rsp
    IN  /\ pc = "switch"
        /\ tcb' = [tcb EXCEPT ![prev].rip = Label1]
        /\ stack' = [stack EXCEPT ![to.task][to.depth + 1] = tcb'[next].rip]
        /\ rsp' = Below(to, 1)
        /\ pc' = "__switch_to"
        /\ UNCHANGED <<vars, popped, regs, tss_rsp0, page, started>>

\* __switch_to(prev, next): the TSS, then fs and gs; a selector that names no
\* descriptor faults.  Its ret takes the word on the stack; label 1 leads out of
\* task_init, back to kernel_start.
Loadable(selector) == selector # <<"page", "bad">>
TssRsp0(prev, next) == tcb[next].rsp0

__switch_to ==
    LET prev == regs.rdi[2]
        next == regs.rsi[2]
    IN  /\ pc = "__switch_to"
        /\ tss_rsp0' = TssRsp0(prev, next)
        /\ tcb' = [tcb EXCEPT ![prev].fs = regs.fs, ![prev].gs = regs.gs]
        /\ IF Loadable(tcb'[next].fs) /\ Loadable(tcb'[next].gs)
           THEN /\ regs' = [r \in Regs |->
                      CASE r = "fs" -> tcb'[next].fs
                        [] r = "gs" -> tcb'[next].gs
                        [] r \in CallerSaved -> Junk
                        [] OTHER -> regs[r]]
                /\ rsp' = Below(rsp, -1)
                /\ pc' = IF Word(rsp) = KernelThreadFunc THEN "kernel_thread_func" ELSE "kernel_start"
           ELSE pc' = "fault" /\ UNCHANGED <<regs, rsp>>
        /\ UNCHANGED <<vars, popped, stack, page, started>>

-----------------------------------------------------------------------------
(***************************************************************************)
(* kernel_thread_func, a pop at a time; ds and es go through rax.          *)
(***************************************************************************)
Pop ==
    /\ pc = "kernel_thread_func" /\ popped < Len(Pops)
    /\ LET r == Pops[popped + 1]
       IN  regs' = [regs EXCEPT ![r] = Word(rsp), !.rax = IF r \in {"rax", "ds", "es"} THEN Word(rsp) ELSE @]
    /\ rsp' = Below(rsp, -1)
    /\ popped' = popped + 1
    /\ UNCHANGED <<vars, pc, stack, tcb, tss_rsp0, page, started>>

\* addq $0x38, %rsp; movq %rdx, %rdi; callq *%rbx
CallFunction ==
    /\ pc = "kernel_thread_func" /\ popped = Len(Pops)
    /\ regs' = [regs EXCEPT !.rdi = regs.rdx]
    /\ rsp' = Below(rsp, 1 - PassedOver)
    /\ stack' = [stack EXCEPT ![rsp.task][rsp.depth + 1 - PassedOver] = <<"code", "do_exit">>]
    /\ pc' = IF regs.rbx = Function THEN "init" ELSE "fault"
    /\ UNCHANGED <<vars, popped, tcb, tss_rsp0, page, started>>

\* init returns; its result is do_exit's argument.
ExitCode == Result

InitReturns ==
    /\ pc = "init"
    /\ regs' = [r \in Regs |-> CASE r = "rdi" -> ExitCode
                                 [] r \in CallerSaved \ {"rdi"} -> Junk
                                 [] OTHER -> regs[r]]
    /\ pc' = "do_exit"
    /\ UNCHANGED <<vars, popped, rsp, stack, tcb, tss_rsp0, page, started>>

\* do_exit, kernel_start and the exception handlers end in while (1).
Loop == pc \in {"do_exit", "kernel_start", "fault"} /\ UNCHANGED allvars

-----------------------------------------------------------------------------
\* kernel_start has called init_memory and task_init; the TSS holds rsp0 of
\* init_task, whose list is a ring of one.
NoWords == [d \in Depths |-> Junk]
TaskInit ==
    /\ Init
    /\ pc = "do_fork"
    /\ regs = [r \in Regs |-> <<"init_task", r>>]
    /\ stack = [t \in Tasks |-> NoWords]
    /\ rsp = Below(StackTop("init_task"), 2)
    /\ \E fs, gs \in {<<"page", "null">>, <<"page", "bad">>} :
          tcb = [t \in Tasks |->
              [state |-> IF t = "init_task" THEN "TASK_UNINTERRUPTIBLE" ELSE "none",
               flags |-> IF t = "init_task" THEN {"PF_KTHREAD"} ELSE {},
               pid |-> 0, prev |-> t, next |-> t,
               rsp0 |-> StackTop(t), rsp |-> StackTop(t), rip |-> Junk,
               fs |-> IF t = "init_task" THEN KERNEL_DS ELSE fs,
               gs |-> IF t = "init_task" THEN KERNEL_DS ELSE gs]]
    /\ tss_rsp0 = StackTop("init_task")
    /\ page = -1 /\ popped = 0
    /\ started = regs

Run == \/ Allocate \/ MakeStruct \/ MakeThread
       \/ SwitchPush \/ SwitchStack \/ __switch_to
       \/ Pop \/ CallFunction \/ InitReturns
TaskNext == Run \/ Loop

\* The CPU executes the running task.
TaskSpec == TaskInit /\ [][TaskNext]_allvars /\ WF_allvars(Run)

-----------------------------------------------------------------------------
TaskTypeOK ==
    /\ TypeOK
    /\ DOMAIN regs = Regs
    /\ rsp \in [task : Tasks, depth : 0 .. FrameWords + 1]
    /\ \A t \in Tasks : DOMAIN stack[t] = Depths
    /\ \A t \in Tasks :
          /\ tcb[t].state \in {"none", "TASK_UNINTERRUPTIBLE", "TASK_RUNNING"}
          /\ tcb[t].pid \in {0, 1}
          /\ {tcb[t].prev, tcb[t].next} \subseteq Tasks
          /\ {tcb[t].rsp, tcb[t].rsp0} \subseteq [task : Tasks, depth : 0 .. FrameWords]
    /\ tss_rsp0 \in {StackTop(t) : t \in Tasks}
    /\ page \in Pages \cup {-1}

\* Where a thread's function starts it finds its argument, the kernel's data
\* segments, and a stack with nothing on it but its return address, which is the
\* one the TSS names: what kernel_thread, do_fork, switch_to and
\* kernel_thread_func each count for themselves comes out even.  What it returns
\* is what do_exit is given.
ThreadRunsAsAsked ==
    /\ pc = "init" =>
          /\ regs.rdi = Argument
          /\ regs.ds = KERNEL_DS /\ regs.es = KERNEL_DS
          /\ rsp = Below(StackTop("thread"), 1)
          /\ current = "thread" /\ tss_rsp0 = StackTop("thread")
          /\ Word(rsp) = <<"code", "do_exit">>
    /\ pc = "do_exit" => regs.rdi = Result

\* A task that was switched away from can go on: its stack holds, where its
\* thread_struct says, the two registers that label 1 pops, and the
\* thread_struct its fs, gs and rip.
SwitchedOut(t) == tcb[t].rip = Label1 /\ rsp.task # t /\ pc \notin {"__switch_to", "fault"}
SwitchedOutIsResumable ==
    \A t \in Tasks :
        SwitchedOut(t) =>
            LET saved == tcb[t].rsp
            IN  /\ saved.task = t
                /\ \A i \in DOMAIN RestoredScene :
                      stack[t][saved.depth + 1 - i] = started[RestoredScene[i]]
                /\ tcb[t].fs = started.fs /\ tcb[t].gs = started.gs

\* A task's structure and stack lie on a page that the allocator gave for it,
\* that is in use, and that is neither under the kernel nor its tables: nobody
\* else writes there.
TaskOnItsOwnPage ==
    tcb["thread"].state # "none" =>
        /\ page \in granted /\ page \notin KernelPages(mem)
        /\ page \in bits_map /\ page \in Pages /\ ~Fresh(page)

\* That page is RAM, not the frame buffer that head.sx maps behind ten megabytes.
TaskInRam == tcb["thread"].state # "none" => page \in RamPages

\* The thread that do_fork made running runs, and gets to do_exit, if the page
\* happened to hold selectors that can be loaded.
ThreadRuns ==
    (tcb["thread"].state = "TASK_RUNNING" /\ Loadable(tcb["thread"].fs) /\ Loadable(tcb["thread"].gs))
        ~> pc = "do_exit"
=============================================================================
