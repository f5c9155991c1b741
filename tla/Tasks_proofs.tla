---------------------------- MODULE Tasks_proofs ----------------------------
(***************************************************************************)
(* Tasks drives the page allocator as PageAllocator lets any caller drive  *)
(* it, so that what is proved of the allocator holds while threads start.  *)
(***************************************************************************)
EXTENDS Tasks, PageAllocator_proofs

\* do_fork's call is one of the calls of Next; nothing else of task.c touches
\* the allocator.
LEMMA TaskStep == TaskNext => [Next]_vars
<1> SUFFICES ASSUME TaskNext PROVE [Next]_vars
    OBVIOUS
<1>1. CASE Allocate
  <2>1. alloc_pages("ZONE_NORMAL", 1, ForkFlags)
      BY <1>1 DEF Allocate
  <2>2. "ZONE_NORMAL" \in ZoneSelects /\ 1 \in 1 .. W
      BY ConstantTypes DEF ZoneSelects
  <2> QED  BY <2>1, <2>2, ForkAssumption DEF Next
<1>2. CASE MakeStruct  BY <1>2 DEF MakeStruct
<1>3. CASE MakeThread  BY <1>3 DEF MakeThread
<1>4. CASE SwitchPush  BY <1>4 DEF SwitchPush
<1>5. CASE SwitchStack  BY <1>5 DEF SwitchStack
<1>6. CASE __switch_to  BY <1>6 DEF __switch_to
<1>7. CASE Pop  BY <1>7 DEF Pop
<1>8. CASE CallFunction  BY <1>8 DEF CallFunction
<1>9. CASE InitReturns  BY <1>9 DEF InitReturns
<1>10. CASE Loop  BY <1>10 DEF Loop, allvars
<1> QED
    BY <1>1, <1>2, <1>3, <1>4, <1>5, <1>6, <1>7, <1>8, <1>9, <1>10 DEF TaskNext, Run

\* Every behaviour of the tasks is one of the allocator's.
THEOREM TasksUseAllocator == TaskSpec => Spec
<1>1. TaskInit => Init
    BY DEF TaskInit
<1>2. [TaskNext]_allvars => [Next]_vars
  <2>1. UNCHANGED allvars => UNCHANGED vars
      BY DEF allvars
  <2> QED  BY <2>1, TaskStep
<1> QED  BY <1>1, <1>2, PTL DEF TaskSpec, Spec

\* So the zone counters and the bit map stay right while threads are made.
THEOREM TasksKeepCounters == TaskSpec => []CountersExact
BY TasksUseAllocator, CountersCorrect

-----------------------------------------------------------------------------
(***************************************************************************)
(* Where the allocator's search is right, a task owns the page it is on.   *)
(***************************************************************************)
\* What was granted belongs to a zone and is free no more.
GrantedInUse == granted \subseteq {p \in Pages : ZoneOf(mem, p) # 0 /\ ~Fresh(p)}

\* From the choice of the page on, it is one that was granted.
PageGranted ==
    (pc \notin {"do_fork", "fault"} \/ tcb["thread"].state # "none") => page \in granted

LEMMA StepGranted ==
    ASSUME OneWord, IInv, Owned, GrantedInUse, [Next]_vars
    PROVE  GrantedInUse' /\ granted \subseteq granted'
<1>1. mem' = mem
    BY DEF Next, alloc_pages, vars
<1>2. Pages' = Pages
    BY <1>1 DEF Pages
<1>3. GrantedInUse <=> granted \subseteq {p \in Pages : ZoneOf(mem, p) # 0} \ FreePages
    BY DEF GrantedInUse, FreePages
<1>4. GrantedInUse' <=> granted' \subseteq {p \in Pages : ZoneOf(mem, p) # 0} \ FreePages'
    BY <1>1, <1>2 DEF GrantedInUse, FreePages
<1>5. FreePages \subseteq {p \in Pages : ZoneOf(mem, p) # 0}
    BY DEF FreePages
<1>6. [Pool!PoolNext]_<<FreePages, granted>>
    BY StepOwned
<1>7. CASE UNCHANGED <<FreePages, granted>>
    BY <1>3, <1>4, <1>7
<1>8. CASE Pool!PoolNext
    BY <1>3, <1>4, <1>5, <1>8 DEF Pool!PoolNext, Pool!Take
<1> QED  BY <1>6, <1>7, <1>8

LEMMA StepPageGranted ==
    ASSUME PageGranted, [TaskNext]_allvars, granted \subseteq granted'
    PROVE  PageGranted'
<1>1. CASE Allocate
    BY <1>1 DEF Allocate, PageGranted
<1>2. CASE UNCHANGED allvars
    BY <1>2 DEF allvars, vars, PageGranted
<1>3. CASE MakeStruct
    BY <1>3 DEF MakeStruct, PageGranted
<1>4. CASE MakeThread
    BY <1>4 DEF MakeThread, PageGranted
<1>5. CASE SwitchPush
    BY <1>5 DEF SwitchPush, PageGranted
<1>6. CASE SwitchStack
    BY <1>6 DEF SwitchStack, PageGranted
<1>7. CASE __switch_to
    BY <1>7 DEF __switch_to, PageGranted
<1>8. CASE Pop
    BY <1>8 DEF Pop, PageGranted
<1>9. CASE CallFunction
    BY <1>9 DEF CallFunction, PageGranted
<1>10. CASE InitReturns
    BY <1>10 DEF InitReturns, PageGranted
<1> QED
    BY <1>1, <1>2, <1>3, <1>4, <1>5, <1>6, <1>7, <1>8, <1>9, <1>10 DEF TaskNext, Run, Loop

\* do_fork's task lies on a page no one else has, on every such machine.
THEOREM OneWordTaskOwnsPage == ASSUME OneWord PROVE TaskSpec => []TaskOnItsOwnPage
<1>1. TaskInit => GrantedInUse /\ PageGranted
  <2> SUFFICES ASSUME TaskInit PROVE GrantedInUse /\ PageGranted
      OBVIOUS
  <2>1. granted = {} /\ pc = "do_fork"
      BY DEF TaskInit, Init
  <2>2. tcb["thread"].state = "none"
    <3>1. "thread" \in Tasks /\ "thread" # "init_task"
        BY DEF Tasks
    <3> QED  BY <3>1 DEF TaskInit
  <2> QED  BY <2>1, <2>2 DEF GrantedInUse, PageGranted
<1>2. IInv /\ Owned /\ GrantedInUse /\ PageGranted /\ [TaskNext]_allvars /\ [Next]_vars
          => GrantedInUse' /\ PageGranted'
    BY StepGranted, StepPageGranted
<1>3. Owned /\ GrantedInUse /\ PageGranted => TaskOnItsOwnPage
    BY DEF Owned, NoDoubleGrant, GrantedInUse, PageGranted, TaskOnItsOwnPage
<1>4. IInv /\ Owned /\ [Next]_vars => Owned'
    BY StepOwned
<1>5. [TaskNext]_allvars => [Next]_vars
    BY TaskStep DEF allvars
<1> QED
    BY <1>1, <1>2, <1>3, <1>4, <1>5, TasksUseAllocator, SpecIInv, InitOwned, PTL DEF TaskSpec, Spec

-----------------------------------------------------------------------------
(***************************************************************************)
(* The thread's way from do_fork to do_exit.  The program runs it once and *)
(* straight through, so the invariant says, for each place in the code,    *)
(* what the registers, both stacks and both thread_structs hold there.     *)
(***************************************************************************)
OnOldStack == {"do_fork", "struct", "thread", "task_init"}
Switching == {"switch", "__switch_to"}
InThread == {"kernel_thread_func", "init", "do_exit"}
Places == OnOldStack \cup Switching \cup InThread \cup {"fault"}

Sp(t, d) == [task |-> t, depth |-> d]

IsTcb(l) ==
    /\ DOMAIN l = Tasks
    /\ \A t \in Tasks :
          l[t] = [state |-> l[t].state, flags |-> l[t].flags, pid |-> l[t].pid,
                  prev |-> l[t].prev, next |-> l[t].next, rsp0 |-> l[t].rsp0,
                  rsp |-> l[t].rsp, rip |-> l[t].rip, fs |-> l[t].fs, gs |-> l[t].gs]

TaskTyped ==
    /\ pc \in Places /\ popped \in 0 .. 17
    /\ regs = [r \in Regs |-> regs[r]]
    /\ rsp = Sp(rsp.task, rsp.depth) /\ rsp.task \in Tasks /\ rsp.depth \in 0 .. 25
    /\ DOMAIN stack = Tasks /\ \A t \in Tasks : DOMAIN stack[t] = Depths
    /\ IsTcb(tcb)
    /\ \A t \in Tasks :
          /\ tcb[t].state \in {"none", "TASK_UNINTERRUPTIBLE", "TASK_RUNNING"}
          /\ tcb[t].prev \in Tasks /\ tcb[t].next \in Tasks
          /\ tcb[t].rsp0 \in {StackTop("init_task"), StackTop("thread")}
          /\ tcb[t].rsp \in {StackTop("init_task"), StackTop("thread"),
                             Sp("init_task", 4), Sp("thread", 24)}
    /\ tcb["init_task"].pid = 0 /\ tcb["thread"].pid \in {0, 1}
    /\ tss_rsp0 \in {StackTop("init_task"), StackTop("thread")}

\* Where rsp stands.
RspInv ==
    /\ pc \in OnOldStack => rsp = Sp("init_task", 2)
    /\ pc = "switch" => rsp = Sp("init_task", 4)
    /\ pc = "__switch_to" => rsp = Sp("thread", 25)
    /\ pc = "kernel_thread_func" => rsp = Sp("thread", 24 - popped)
    /\ pc \in {"init", "do_exit"} => rsp = Sp("thread", 1)
    /\ pc \in OnOldStack \cup Switching => popped = 0

\* The ring, and the flag do_fork looks at.
RingInv ==
    /\ pc \in {"do_fork", "struct"} => /\ tcb["init_task"].prev = "init_task"
                                       /\ tcb["init_task"].next = "init_task"
                                       /\ tcb["init_task"].flags = {"PF_KTHREAD"}
    /\ pc \in {"thread", "task_init"} => tcb["init_task"].next = "thread"
    /\ pc = "thread" => tcb["thread"].flags = {"PF_KTHREAD"}

\* The new task's thread_struct and the frame below it.
ThreadInv ==
    /\ pc \in {"task_init"} \cup Switching \cup InThread =>
          /\ tcb["thread"].rsp = Sp("thread", 24) /\ tcb["thread"].rsp0 = StackTop("thread")
          /\ tcb["thread"].rip = KernelThreadFunc
    /\ pc \in {"task_init", "kernel_thread_func"} \cup Switching =>
          \A d \in 1 .. 24 : stack["thread"][d] = Asked(PtRegs[25 - d])
    /\ pc = "__switch_to" => stack["thread"][25] = KernelThreadFunc

\* What switch_to saved of the old task.
SwitchInv ==
    /\ pc \in Switching => /\ regs["rdi"] = <<"task", "init_task">> /\ regs["rsi"] = <<"task", "thread">>
                           /\ regs["fs"] = started["fs"] /\ regs["gs"] = started["gs"]
    /\ pc \in Switching \cup InThread => /\ tcb["init_task"].rsp = Sp("init_task", 4)
                                         /\ stack["init_task"][3] = started["rbp"]
                                         /\ stack["init_task"][4] = started["rax"]
    /\ pc \in InThread => /\ tcb["init_task"].fs = started["fs"] /\ tcb["init_task"].gs = started["gs"]
                          /\ tss_rsp0 = StackTop("thread")
    /\ tcb["thread"].rip # Label1
    /\ tcb["init_task"].rip = Label1 => pc \in {"__switch_to", "fault"} \cup InThread

\* What the thread finds in the registers.
PoppedInv ==
    /\ pc = "kernel_thread_func" => \A j \in 1 .. popped : regs[Pops[j]] = Asked(Pops[j])
    /\ pc = "init" => /\ regs["rdi"] = Argument /\ regs["ds"] = KERNEL_DS /\ regs["es"] = KERNEL_DS
                      /\ stack["thread"][1] = <<"code", "do_exit">>
    /\ pc = "do_exit" => regs["rdi"] = Result

TaskInv == TaskTyped /\ RspInv /\ RingInv /\ ThreadInv /\ SwitchInv /\ PoppedInv

-----------------------------------------------------------------------------
\* The two tables of registers.
LEMMA PtRegsIs ==
    /\ FrameWords = 24 /\ Depths = 1 .. 26 /\ Len(Pops) = 17 /\ DOMAIN Pops = 1 .. 17
    /\ \A j \in 1 .. 17 : Pops[j] = PtRegs[j] /\ Pops[j] \in Regs
    /\ \A j \in 1 .. 16 : Pops[j] # "rax"
    /\ \A j \in 1 .. 17 : Pops[j] \notin {"rip", "cs", "rflags", "ss", "fs", "gs"}
    /\ Pops[9] = "rbx" /\ Pops[11] = "rdx" /\ Pops[15] = "ds" /\ Pops[16] = "es" /\ Pops[17] = "rax"
    /\ \A i, j \in 1 .. 17 : Pops[i] = Pops[j] => i = j
<1>1. Len(PtRegs) = 24 /\ Len(Pops) = 17
  BY DEF PtRegs, Pops
<1>2. DOMAIN Pops = 1 .. 17
  BY DEF Pops
<1>3. \A j \in 1 .. 17 : Pops[j] = PtRegs[j]
  BY DEF PtRegs, Pops
<1>4. \A j \in 1 .. 16 : Pops[j] # "rax"
  BY DEF Pops
<1>5. \A j \in 1 .. 17 : Pops[j] \notin {"rip", "cs", "rflags", "ss", "fs", "gs"}
  BY DEF Pops
<1>6. Pops[9] = "rbx" /\ Pops[11] = "rdx" /\ Pops[15] = "ds" /\ Pops[16] = "es" /\ Pops[17] = "rax"
  BY DEF Pops
<1>7. \A i, j \in 1 .. 17 : Pops[i] = Pops[j] => i = j
  BY DEF Pops
<1> QED BY <1>1, <1>2, <1>3, <1>4, <1>5, <1>6, <1>7 DEF FrameWords, Depths, Regs

LEMMA RegsHave ==
    {"rax", "rbx", "rdx", "rsi", "rdi", "rbp", "ds", "es", "fs", "gs"} \subseteq Regs
<1>1. Pops[12] = "rsi" /\ Pops[13] = "rdi" /\ Pops[14] = "rbp"
  BY DEF Pops
<1> HIDE DEF Pops
<1>2. \A j \in 1 .. 17 : Pops[j] \in Regs
  BY PtRegsIs
<1>3. {Pops[9], Pops[11], Pops[12], Pops[13], Pops[14], Pops[15], Pops[16], Pops[17]} \subseteq Regs
  BY <1>2
<1>4. "fs" \in Regs /\ "gs" \in Regs
  BY DEF Regs
<1> QED BY <1>1, <1>3, <1>4, PtRegsIs

\* One assignment of list_add_to_before.
LEMMA RingIs ==
    ASSUME NEW l, IsTcb(l), NEW p \in Tasks, NEW field \in {"prev", "next"}, NEW to
    PROVE  /\ IsTcb(Ring(l, p, field, to)) /\ Ring(l, p, field, to)[p][field] = to
           /\ \A t \in Tasks : /\ t # p => Ring(l, p, field, to)[t] = l[t]
                               /\ \A f \in {"state", "flags", "pid", "prev", "next", "rsp0", "rsp",
                                          "rip", "fs", "gs"} :
                                    f # field => Ring(l, p, field, to)[t][f] = l[t][f]
<1> DEFINE r == [l[p] EXCEPT ![field] = to]
<1>1. Ring(l, p, field, to) = [l EXCEPT ![p] = r]
  BY DEF Ring
<1>2. /\ r = [state |-> r.state, flags |-> r.flags, pid |-> r.pid, prev |-> r.prev, next |-> r.next,
              rsp0 |-> r.rsp0, rsp |-> r.rsp, rip |-> r.rip, fs |-> r.fs, gs |-> r.gs]
      /\ r[field] = to
      /\ \A f \in {"state", "flags", "pid", "prev", "next", "rsp0", "rsp", "rip", "fs", "gs"} :
            f # field => r[f] = l[p][f]
  BY DEF IsTcb
<1> HIDE DEF r
<1> QED BY <1>1, <1>2 DEF IsTcb

LEMMA AllocateKeeps ==
    ASSUME TaskInv, Allocate
    PROVE  TaskInv'
<1>1. /\ pc = "do_fork" /\ pc' \in {"struct", "fault"}
      /\ UNCHANGED <<popped, regs, rsp, stack, tcb, tss_rsp0, started>>
  BY DEF Allocate
<1>2. TaskTyped'
  BY <1>1 DEF TaskInv, TaskTyped, Places, OnOldStack
<1>3. RspInv' /\ RingInv' /\ ThreadInv' /\ PoppedInv'
  BY <1>1 DEF TaskInv, RspInv, RingInv, ThreadInv, PoppedInv, OnOldStack, Switching, InThread
<1>4. SwitchInv'
  BY <1>1 DEF TaskInv, SwitchInv, Switching, InThread
<1> QED BY <1>2, <1>3, <1>4 DEF TaskInv

LEMMA MakeStructKeeps ==
    ASSUME TaskInv, MakeStruct
    PROVE  TaskInv'
<1> USE DEF Tasks
<1>1. /\ TaskTyped /\ IsTcb(tcb) /\ RspInv /\ RingInv /\ SwitchInv
      /\ rsp = Sp("init_task", 2) /\ current = "init_task"
  BY DEF TaskInv, TaskTyped, RspInv, MakeStruct, OnOldStack, current, Sp
<1> DEFINE copy == [tcb EXCEPT !["thread"].flags = tcb[current].flags,
                               !["thread"].pid = tcb[current].pid + 1,
                               !["thread"].state = "TASK_UNINTERRUPTIBLE",
                               !["thread"].prev = "thread", !["thread"].next = "thread"]
           l1 == Ring(copy, "thread", "next", "init_task")
           l2 == Ring(l1, l1["init_task"].prev, "next", "thread")
           l3 == Ring(l2, "thread", "prev", l2["init_task"].prev)
           l4 == Ring(l3, "init_task", "prev", "thread")
<1>2. /\ pc = "struct" /\ pc' = "thread" /\ tcb' = l4
      /\ UNCHANGED <<popped, regs, rsp, stack, tss_rsp0, started>>
  BY DEF MakeStruct, list_add_to_before
<1>3. /\ IsTcb(copy) /\ copy["init_task"] = tcb["init_task"]
      /\ copy["thread"].flags = tcb["init_task"].flags /\ copy["thread"].pid = tcb["init_task"].pid + 1
      /\ copy["thread"].state = "TASK_UNINTERRUPTIBLE"
      /\ \A f \in {"rsp0", "rsp", "rip", "fs", "gs"} : copy["thread"][f] = tcb["thread"][f]
  BY <1>1 DEF IsTcb
<1> HIDE DEF copy
<1>4. tcb["init_task"].prev = "init_task" /\ tcb["init_task"].flags = {"PF_KTHREAD"}
  BY <1>1, <1>2 DEF RingInv
<1>5. /\ IsTcb(l1) /\ l1["init_task"] = tcb["init_task"] /\ l1["thread"].next = "init_task"
      /\ \A f \in {"state", "flags", "pid", "prev", "rsp0", "rsp", "rip", "fs", "gs"} :
            l1["thread"][f] = copy["thread"][f]
  BY <1>3, RingIs
<1> HIDE DEF l1
<1>6. /\ IsTcb(l2) /\ l2["thread"] = l1["thread"] /\ l2["init_task"].next = "thread"
      /\ \A f \in {"state", "flags", "pid", "prev", "rsp0", "rsp", "rip", "fs", "gs"} :
            l2["init_task"][f] = tcb["init_task"][f]
  BY <1>4, <1>5, RingIs
<1> HIDE DEF l2
<1>7. /\ IsTcb(l3) /\ l3["init_task"] = l2["init_task"] /\ l3["thread"].prev = "init_task"
      /\ \A f \in {"state", "flags", "pid", "next", "rsp0", "rsp", "rip", "fs", "gs"} :
            l3["thread"][f] = l2["thread"][f]
  BY <1>4, <1>6, RingIs
<1> HIDE DEF l3
<1>8. /\ IsTcb(l4) /\ l4["thread"] = l3["thread"] /\ l4["init_task"].prev = "thread"
      /\ \A f \in {"state", "flags", "pid", "next", "rsp0", "rsp", "rip", "fs", "gs"} :
            l4["init_task"][f] = l3["init_task"][f]
  BY <1>7, RingIs
<1> HIDE DEF l4
<1>9. /\ IsTcb(tcb') /\ tcb'["init_task"].prev = "thread" /\ tcb'["init_task"].next = "thread"
      /\ tcb'["thread"].prev = "init_task" /\ tcb'["thread"].next = "init_task"
      /\ tcb'["thread"].flags = {"PF_KTHREAD"} /\ tcb'["thread"].pid = tcb["init_task"].pid + 1
      /\ tcb'["thread"].state = "TASK_UNINTERRUPTIBLE"
      /\ \A f \in {"state", "pid", "rsp0", "rsp", "rip"} : tcb'["init_task"][f] = tcb["init_task"][f]
      /\ \A f \in {"rsp0", "rsp", "rip"} : tcb'["thread"][f] = tcb["thread"][f]
  BY <1>2, <1>3, <1>4, <1>5, <1>6, <1>7, <1>8
<1>10. TaskTyped'
  BY <1>1, <1>2, <1>9 DEF TaskTyped, Places, OnOldStack
<1>11. RspInv' /\ RingInv'
  BY <1>1, <1>2, <1>9 DEF RspInv, RingInv, OnOldStack, Switching, InThread
<1>12. ThreadInv' /\ PoppedInv'
  BY <1>2 DEF ThreadInv, PoppedInv, Switching, InThread
<1>13. SwitchInv'
  BY <1>1, <1>2, <1>9 DEF SwitchInv, Switching, InThread
<1> QED BY <1>10, <1>11, <1>12, <1>13 DEF TaskInv

LEMMA MakeThreadKeeps ==
    ASSUME TaskInv, MakeThread
    PROVE  TaskInv'
<1> USE DEF Tasks
<1>1. TaskTyped /\ IsTcb(tcb) /\ RspInv /\ RingInv /\ SwitchInv
  BY DEF TaskInv, TaskTyped
<1> DEFINE rip == IF "PF_KTHREAD" \in tcb["thread"].flags THEN Asked("rip") ELSE <<"code", "ret_from_intr">>
           frame == [d \in Depths |-> IF d <= FrameWords THEN Asked(PtRegs[FrameWords + 1 - d])
                                      ELSE stack["thread"][d]]
<1>2. /\ pc = "thread" /\ pc' = "task_init"
      /\ stack' = [stack EXCEPT !["thread"] = frame]
      /\ tcb' = [tcb EXCEPT !["thread"].rsp0 = StackTop("thread"), !["thread"].rsp = FrameRsp,
                            !["thread"].rip = rip, !["thread"].state = "TASK_RUNNING"]
      /\ UNCHANGED <<popped, regs, rsp, tss_rsp0, started>>
  BY DEF MakeThread
<1>3. rip = KernelThreadFunc
  BY <1>1, <1>2 DEF RingInv, Asked
<1>4. FrameRsp = Sp("thread", 24)
  BY PtRegsIs DEF FrameRsp, Below, StackTop, Sp
<1>5. DOMAIN frame = Depths /\ \A d \in 1 .. 24 : frame[d] = Asked(PtRegs[25 - d])
  BY PtRegsIs
<1> HIDE DEF rip, frame
<1>6. /\ DOMAIN stack' = Tasks /\ (\A t \in Tasks : DOMAIN stack'[t] = Depths)
      /\ \A d \in 1 .. 24 : stack'["thread"][d] = Asked(PtRegs[25 - d])
  BY <1>1, <1>2, <1>5 DEF TaskTyped
<1>7. /\ IsTcb(tcb') /\ tcb'["init_task"] = tcb["init_task"]
      /\ tcb'["thread"].rsp0 = StackTop("thread") /\ tcb'["thread"].rsp = Sp("thread", 24)
      /\ tcb'["thread"].rip = KernelThreadFunc /\ tcb'["thread"].state = "TASK_RUNNING"
      /\ \A f \in {"pid", "prev", "next"} : tcb'["thread"][f] = tcb["thread"][f]
  <2> HIDE DEF StackTop, Sp, KernelThreadFunc
  <2>1. tcb' = [tcb EXCEPT !["thread"].rsp0 = StackTop("thread"), !["thread"].rsp = Sp("thread", 24),
                           !["thread"].rip = KernelThreadFunc, !["thread"].state = "TASK_RUNNING"]
    BY <1>2, <1>3, <1>4
  <2> QED BY <1>1, <2>1 DEF IsTcb
<1>8. TaskTyped'
  BY <1>1, <1>2, <1>6, <1>7 DEF TaskTyped, Places, OnOldStack
<1>9. RspInv' /\ RingInv'
  BY <1>1, <1>2, <1>7 DEF RspInv, RingInv, OnOldStack, Switching, InThread
<1>10. ThreadInv' /\ PoppedInv'
  BY <1>2, <1>6, <1>7 DEF ThreadInv, PoppedInv, Switching, InThread
<1>11. SwitchInv'
  <2>1. tcb'["thread"].rip # Label1
    <3>1. KernelThreadFunc # Label1
      BY DEF KernelThreadFunc, Label1
    <3> QED BY <1>7, <3>1
  <2>2. tcb'["init_task"].rip # Label1
    BY <1>1, <1>2, <1>7 DEF SwitchInv, InThread
  <2> QED BY <1>2, <2>1, <2>2 DEF SwitchInv, Switching, InThread
<1> QED BY <1>8, <1>9, <1>10, <1>11 DEF TaskInv

LEMMA SwitchPushKeeps ==
    ASSUME TaskInv, SwitchPush
    PROVE  TaskInv'
<1> USE DEF Tasks
<1>1. /\ TaskTyped /\ IsTcb(tcb) /\ RspInv /\ RingInv /\ ThreadInv /\ SwitchInv /\ pc = "task_init"
      /\ rsp = Sp("init_task", 2) /\ current = "init_task" /\ tcb["init_task"].next = "thread"
  BY DEF TaskInv, TaskTyped, RspInv, RingInv, SwitchPush, OnOldStack, current, Sp
<1>2. /\ pc' = "switch" /\ started' = regs
      /\ stack' = [stack EXCEPT !["init_task"][3] = regs["rbp"], !["init_task"][4] = regs["rax"]]
      /\ rsp' = Sp("init_task", 4)
      /\ tcb' = [tcb EXCEPT !["init_task"].state = "TASK_RUNNING", !["init_task"].rsp = Sp("init_task", 4)]
      /\ regs' = [regs EXCEPT !.rdi = <<"task", "init_task">>, !.rsi = <<"task", "thread">>]
      /\ UNCHANGED <<popped, tss_rsp0>>
  <2>1. Below(rsp, 2) = Sp("init_task", 4)
    BY <1>1 DEF Below, Sp
  <2>2. rsp.task = "init_task" /\ rsp.depth + 1 = 3 /\ rsp.depth + 2 = 4
    BY <1>1 DEF Sp
  <2>3. SavedScene[1] = "rbp" /\ SavedScene[2] = "rax"
    BY DEF SavedScene
  <2> HIDE DEF SavedScene
  <2> QED BY <1>1, <2>1, <2>2, <2>3 DEF SwitchPush
<1>3. DOMAIN stack = Tasks /\ \A t \in Tasks : DOMAIN stack[t] = 1 .. 26
  BY <1>1, PtRegsIs DEF TaskTyped
<1>4. /\ DOMAIN stack' = Tasks /\ (\A t \in Tasks : DOMAIN stack'[t] = Depths)
      /\ stack'["thread"] = stack["thread"]
      /\ stack'["init_task"][3] = regs["rbp"] /\ stack'["init_task"][4] = regs["rax"]
  BY <1>2, <1>3, PtRegsIs
<1>5. /\ IsTcb(tcb') /\ tcb'["thread"] = tcb["thread"]
      /\ tcb'["init_task"].state = "TASK_RUNNING" /\ tcb'["init_task"].rsp = Sp("init_task", 4)
      /\ \A f \in {"pid", "prev", "next", "rsp0", "rip"} : tcb'["init_task"][f] = tcb["init_task"][f]
  <2> HIDE DEF Sp
  <2> QED BY <1>1, <1>2 DEF IsTcb
<1>6. /\ regs' = [r \in Regs |-> regs'[r]] /\ regs'["rdi"] = <<"task", "init_task">>
      /\ regs'["rsi"] = <<"task", "thread">> /\ regs'["fs"] = regs["fs"] /\ regs'["gs"] = regs["gs"]
  <2>1. DOMAIN regs = Regs
    BY <1>1 DEF TaskTyped
  <2> QED BY <1>2, <2>1, RegsHave
<1>7. TaskTyped'
  <2>1. pc' \in Places /\ popped' \in 0 .. 17 /\ tss_rsp0' \in {StackTop("init_task"), StackTop("thread")}
    BY <1>1, <1>2 DEF TaskTyped, Places, Switching
  <2>2. rsp' = Sp(rsp'.task, rsp'.depth) /\ rsp'.task \in Tasks /\ rsp'.depth \in 0 .. 25
    BY <1>2 DEF Sp
  <2>3. ASSUME NEW t \in Tasks
        PROVE  /\ tcb'[t].state \in {"none", "TASK_UNINTERRUPTIBLE", "TASK_RUNNING"}
               /\ tcb'[t].prev \in Tasks /\ tcb'[t].next \in Tasks
               /\ tcb'[t].rsp0 \in {StackTop("init_task"), StackTop("thread")}
               /\ tcb'[t].rsp \in {StackTop("init_task"), StackTop("thread"),
                                   Sp("init_task", 4), Sp("thread", 24)}
    <3> HIDE DEF Sp, StackTop
    <3> QED BY <1>1, <1>5 DEF TaskTyped
  <2>4. tcb'["init_task"].pid = 0 /\ tcb'["thread"].pid \in {0, 1}
    BY <1>1, <1>5 DEF TaskTyped
  <2> HIDE DEF Sp, StackTop
  <2> QED BY <1>4, <1>5, <1>6, <2>1, <2>2, <2>3, <2>4 DEF TaskTyped
<1>8. RspInv' /\ RingInv'
  BY <1>1, <1>2 DEF RspInv, RingInv, OnOldStack, Switching, InThread
<1>9. ThreadInv' /\ PoppedInv'
  BY <1>1, <1>2, <1>4, <1>5 DEF ThreadInv, PoppedInv, Switching, InThread
<1>10. SwitchInv'
  <2>1. tcb["init_task"].rip # Label1
    BY <1>1 DEF SwitchInv, InThread
  <2>2. tcb'["init_task"].rip # Label1 /\ tcb'["thread"].rip # Label1
    BY <1>1, <1>5, <2>1 DEF SwitchInv
  <2> QED BY <1>2, <1>4, <1>5, <1>6, <2>2 DEF SwitchInv, Switching, InThread
<1> QED BY <1>7, <1>8, <1>9, <1>10 DEF TaskInv

LEMMA SwitchStackKeeps ==
    ASSUME TaskInv, SwitchStack
    PROVE  TaskInv'
<1> USE DEF Tasks
<1>1. /\ TaskTyped /\ IsTcb(tcb) /\ RspInv /\ ThreadInv /\ SwitchInv /\ pc = "switch"
      /\ regs.rdi[2] = "init_task" /\ regs.rsi[2] = "thread" /\ tcb["thread"].rsp = Sp("thread", 24)
      /\ tcb["thread"].rip = KernelThreadFunc
  <2>1. TaskTyped /\ IsTcb(tcb) /\ RspInv /\ ThreadInv /\ SwitchInv /\ pc = "switch"
    BY DEF TaskInv, TaskTyped, SwitchStack
  <2>2. regs.rdi = <<"task", "init_task">> /\ regs.rsi = <<"task", "thread">>
    BY <2>1 DEF SwitchInv, Switching
  <2>3. tcb["thread"].rsp = Sp("thread", 24) /\ tcb["thread"].rip = KernelThreadFunc
    BY <2>1 DEF ThreadInv, Switching
  <2> QED BY <2>1, <2>2, <2>3
<1>2. /\ pc' = "__switch_to" /\ tcb' = [tcb EXCEPT !["init_task"].rip = Label1]
      /\ stack' = [stack EXCEPT !["thread"][25] = tcb'["thread"].rip]
      /\ rsp' = Sp("thread", 25)
      /\ UNCHANGED <<popped, regs, tss_rsp0, started>>
  <2>1. Sp("thread", 24).task = "thread" /\ Sp("thread", 24).depth + 1 = 25
        /\ Below(Sp("thread", 24), 1) = Sp("thread", 25)
    BY DEF Sp, Below
  <2> HIDE DEF Sp
  <2> QED BY <1>1, <2>1 DEF SwitchStack
<1>3. /\ IsTcb(tcb') /\ tcb'["thread"] = tcb["thread"] /\ tcb'["init_task"].rip = Label1
      /\ \A f \in {"state", "pid", "prev", "next", "rsp0", "rsp"} :
            tcb'["init_task"][f] = tcb["init_task"][f]
  <2> HIDE DEF Label1
  <2> QED BY <1>1, <1>2 DEF IsTcb
<1>4. /\ DOMAIN stack' = Tasks /\ (\A t \in Tasks : DOMAIN stack'[t] = Depths)
      /\ stack'["init_task"] = stack["init_task"] /\ stack'["thread"][25] = KernelThreadFunc
      /\ \A d \in 1 .. 24 : stack'["thread"][d] = stack["thread"][d]
  <2>1. DOMAIN stack = Tasks /\ \A t \in Tasks : DOMAIN stack[t] = 1 .. 26
    BY <1>1, PtRegsIs DEF TaskTyped
  <2> HIDE DEF KernelThreadFunc
  <2> QED BY <1>1, <1>2, <1>3, <2>1, PtRegsIs
<1>5. TaskTyped'
  <2>1. pc' \in Places /\ popped' \in 0 .. 17 /\ regs' = [r \in Regs |-> regs'[r]]
    BY <1>1, <1>2 DEF TaskTyped, Places, Switching
  <2>2. rsp' = Sp(rsp'.task, rsp'.depth) /\ rsp'.task \in Tasks /\ rsp'.depth \in 0 .. 25
    BY <1>2 DEF Sp
  <2> HIDE DEF Sp, StackTop
  <2> QED BY <1>1, <1>2, <1>3, <1>4, <2>1, <2>2 DEF TaskTyped
<1>6. RspInv' /\ RingInv' /\ PoppedInv'
  BY <1>1, <1>2 DEF RspInv, RingInv, PoppedInv, OnOldStack, Switching, InThread
<1>7. ThreadInv'
  BY <1>1, <1>2, <1>3, <1>4 DEF ThreadInv, Switching, InThread
<1>8. SwitchInv'
  <2> HIDE DEF Label1
  <2> QED BY <1>1, <1>2, <1>3, <1>4 DEF SwitchInv, Switching, InThread
<1> QED BY <1>5, <1>6, <1>7, <1>8 DEF TaskInv

LEMMA __switch_toKeeps ==
    ASSUME TaskInv, __switch_to
    PROVE  TaskInv'
<1> USE DEF Tasks
<1>1. /\ TaskTyped /\ IsTcb(tcb) /\ RspInv /\ ThreadInv /\ SwitchInv /\ pc = "__switch_to"
      /\ regs.rdi[2] = "init_task" /\ regs.rsi[2] = "thread" /\ rsp = Sp("thread", 25)
      /\ popped = 0
  <2>1. TaskTyped /\ IsTcb(tcb) /\ RspInv /\ ThreadInv /\ SwitchInv /\ pc = "__switch_to"
    BY DEF TaskInv, TaskTyped, __switch_to
  <2>2. regs.rdi = <<"task", "init_task">> /\ regs.rsi = <<"task", "thread">>
    BY <2>1 DEF SwitchInv, Switching
  <2>3. rsp = Sp("thread", 25) /\ popped = 0
    BY <2>1 DEF RspInv, Switching
  <2> QED BY <2>1, <2>2, <2>3
<1>2. /\ tss_rsp0' = tcb["thread"].rsp0
      /\ tcb' = [tcb EXCEPT !["init_task"].fs = regs.fs, !["init_task"].gs = regs.gs]
      /\ UNCHANGED <<popped, stack, started>>
  BY <1>1 DEF __switch_to, TssRsp0
<1>3. \/ /\ pc' = "kernel_thread_func" /\ rsp' = Sp("thread", 24) /\ regs' = [r \in Regs |-> regs'[r]]
      \/ pc' = "fault" /\ rsp' = rsp /\ regs' = regs
  <2>1. Word(rsp) = KernelThreadFunc
    BY <1>1 DEF Word, ThreadInv, Sp
  <2>2. Below(rsp, -1) = Sp("thread", 24)
    BY <1>1 DEF Below, Sp
  <2> HIDE DEF Sp, KernelThreadFunc
  <2> QED BY <2>1, <2>2 DEF __switch_to
<1>4. /\ IsTcb(tcb') /\ tcb'["thread"] = tcb["thread"]
      /\ tcb'["init_task"].fs = regs["fs"] /\ tcb'["init_task"].gs = regs["gs"]
      /\ \A f \in {"state", "pid", "prev", "next", "rsp0", "rsp", "rip"} :
            tcb'["init_task"][f] = tcb["init_task"][f]
  BY <1>1, <1>2 DEF IsTcb
<1>5. tcb["thread"].rsp0 = StackTop("thread") /\ tcb["thread"].rip = KernelThreadFunc
  BY <1>1 DEF ThreadInv, Switching
<1>6. TaskTyped'
  <2>1. pc' \in Places /\ popped' \in 0 .. 17 /\ regs' = [r \in Regs |-> regs'[r]]
    BY <1>1, <1>2, <1>3 DEF TaskTyped, Places, InThread
  <2>2. rsp' = Sp(rsp'.task, rsp'.depth) /\ rsp'.task \in Tasks /\ rsp'.depth \in 0 .. 25
    BY <1>1, <1>3 DEF Sp
  <2> HIDE DEF Sp, StackTop
  <2> QED BY <1>1, <1>2, <1>4, <1>5, <2>1, <2>2 DEF TaskTyped
<1>7. RspInv'
  <2>1. 24 - popped' = 24
    BY <1>1, <1>2
  <2> QED BY <1>3, <2>1 DEF RspInv, OnOldStack, Switching
<1>8. RingInv'
  BY <1>3 DEF RingInv
<1>9. PoppedInv'
  <2>1. 1 .. popped' = {}
    BY <1>1, <1>2
  <2> QED BY <1>3, <2>1 DEF PoppedInv
<1>10. ThreadInv'
  BY <1>1, <1>2, <1>3, <1>4 DEF ThreadInv, Switching, InThread
<1>11. SwitchInv'
  <2> HIDE DEF Label1, Sp, StackTop
  <2>1. tcb["init_task"].rsp = Sp("init_task", 4) /\ stack["init_task"][3] = started["rbp"]
        /\ stack["init_task"][4] = started["rax"]
        /\ regs["fs"] = started["fs"] /\ regs["gs"] = started["gs"] /\ tcb["thread"].rip # Label1
    BY <1>1 DEF SwitchInv, Switching
  <2>2. pc' \in {"fault"} \cup InThread /\ pc' \notin Switching
    BY <1>3 DEF InThread, Switching
  <2>3. /\ tcb'["init_task"].rsp = Sp("init_task", 4) /\ stack'["init_task"][3] = started'["rbp"]
        /\ stack'["init_task"][4] = started'["rax"]
        /\ tcb'["init_task"].fs = started'["fs"] /\ tcb'["init_task"].gs = started'["gs"]
        /\ tcb'["thread"].rip # Label1 /\ tss_rsp0' = StackTop("thread")
    BY <1>2, <1>4, <1>5, <2>1
  <2> HIDE DEF InThread, Switching
  <2> QED BY <2>2, <2>3 DEF SwitchInv
<1> QED BY <1>6, <1>7, <1>8, <1>9, <1>10, <1>11 DEF TaskInv

LEMMA PopKeeps ==
    ASSUME TaskInv, Pop
    PROVE  TaskInv'
<1> USE DEF Tasks
<1> DEFINE n == popped + 1
           r == Pops[n]
<1>1. /\ TaskTyped /\ RspInv /\ ThreadInv /\ SwitchInv /\ PoppedInv /\ pc = "kernel_thread_func"
      /\ popped \in 0 .. 17 /\ popped < 17 /\ rsp = Sp("thread", 24 - popped)
      /\ regs = [i \in Regs |-> regs[i]]
  BY PtRegsIs DEF TaskInv, TaskTyped, RspInv, Pop
<1>2. /\ regs' = [regs EXCEPT ![r] = Word(rsp), !.rax = IF r \in {"rax", "ds", "es"} THEN Word(rsp) ELSE @]
      /\ rsp' = Below(rsp, -1) /\ popped' = n
      /\ UNCHANGED <<pc, stack, tcb, tss_rsp0, started>>
  BY DEF Pop
<1>3. n \in 1 .. 17 /\ 24 - popped \in 1 .. 24 /\ 25 - (24 - popped) = n /\ popped = n - 1
      /\ (24 - popped) + (-1) = 24 - n /\ 24 - n \in 0 .. 25
  BY <1>1
<1> HIDE DEF n
<1>4. r \in Regs /\ r = PtRegs[n] /\ (n # 17 => r # "rax")
  BY <1>3, PtRegsIs
<1>5. Word(rsp) = Asked(r)
  <2>1. Word(rsp) = stack["thread"][24 - popped]
    BY <1>1 DEF Word, Sp
  <2>2. stack["thread"][24 - popped] = Asked(PtRegs[25 - (24 - popped)])
    BY <1>1, <1>3 DEF ThreadInv
  <2> QED BY <1>3, <1>4, <2>1, <2>2
<1>6. rsp' = Sp("thread", 24 - n)
  BY <1>1, <1>2, <1>3 DEF Below, Sp
<1> HIDE DEF r
<1>7. /\ regs' = [i \in Regs |-> regs'[i]] /\ regs'[r] = Asked(r)
      /\ \A i \in Regs : i # r /\ i # "rax" => regs'[i] = regs[i]
  <2>1. DOMAIN regs = Regs /\ "rax" \in Regs
    BY <1>1, RegsHave
  <2>2. regs' = [[regs EXCEPT ![r] = Asked(r)]
                     EXCEPT !["rax"] = IF r \in {"rax", "ds", "es"} THEN Asked(r) ELSE @]
    BY <1>2, <1>5
  <2> QED BY <1>4, <2>1, <2>2
<1>8. TaskTyped'
  <2>1. rsp' = Sp(rsp'.task, rsp'.depth) /\ rsp'.task \in Tasks /\ rsp'.depth \in 0 .. 25
    BY <1>3, <1>6 DEF Sp
  <2>2. popped' \in 0 .. 17
    <3>1. \A k \in 1 .. 17 : k \in 0 .. 17
      OBVIOUS
    <3> QED BY <1>2, <1>3, <3>1
  <2> QED BY <1>1, <1>2, <1>7, <2>1, <2>2 DEF TaskTyped
<1>9. RspInv'
  BY <1>1, <1>2, <1>6 DEF RspInv, OnOldStack, Switching
<1>10. RingInv' /\ ThreadInv'
  BY <1>1, <1>2 DEF RingInv, ThreadInv, Switching, InThread
<1>11. SwitchInv'
  BY <1>1, <1>2 DEF SwitchInv, Switching, InThread
<1>12. PoppedInv'
  <2> SUFFICES ASSUME NEW j \in 1 .. n PROVE regs'[Pops[j]] = Asked(Pops[j])
    BY <1>1, <1>2 DEF PoppedInv
  <2>1. CASE j = n
    BY <1>7, <2>1 DEF r
  <2>2. CASE j # n
    <3>1. j \in 1 .. popped /\ j \in 1 .. 16 /\ j \in 1 .. 17
      BY <1>3, <2>2
    <3>2. Pops[j] \in Regs /\ Pops[j] # "rax" /\ Pops[j] # r
      BY <1>3, <2>2, <3>1, PtRegsIs DEF r
    <3>3. regs[Pops[j]] = Asked(Pops[j])
      BY <1>1, <3>1 DEF PoppedInv
    <3> QED BY <1>7, <3>2, <3>3
  <2> QED BY <2>1, <2>2
<1> QED BY <1>8, <1>9, <1>10, <1>11, <1>12 DEF TaskInv

LEMMA CallFunctionKeeps ==
    ASSUME TaskInv, CallFunction
    PROVE  TaskInv'
<1> USE DEF Tasks
<1>1. /\ TaskTyped /\ RspInv /\ ThreadInv /\ SwitchInv /\ PoppedInv /\ pc = "kernel_thread_func"
      /\ popped = 17 /\ rsp = Sp("thread", 7)
  BY PtRegsIs DEF TaskInv, TaskTyped, RspInv, CallFunction
<1>2. regs["rbx"] = Function /\ regs["rdx"] = Argument /\ regs["ds"] = KERNEL_DS /\ regs["es"] = KERNEL_DS
  <2>1. /\ regs[Pops[9]] = Asked(Pops[9]) /\ regs[Pops[11]] = Asked(Pops[11])
        /\ regs[Pops[15]] = Asked(Pops[15]) /\ regs[Pops[16]] = Asked(Pops[16])
    BY <1>1 DEF PoppedInv
  <2> QED BY <2>1, PtRegsIs DEF Asked
<1>3. /\ pc' = "init" /\ regs' = [regs EXCEPT !["rdi"] = Argument] /\ rsp' = Sp("thread", 1)
      /\ stack' = [stack EXCEPT !["thread"][1] = <<"code", "do_exit">>]
      /\ UNCHANGED <<popped, tcb, tss_rsp0, started>>
  <2>1. Below(rsp, 1 - PassedOver) = Sp("thread", 1)
    BY <1>1 DEF Below, Sp, PassedOver
  <2>2. rsp.task = "thread" /\ rsp.depth + 1 - PassedOver = 1
    BY <1>1 DEF Sp, PassedOver
  <2> HIDE DEF Sp, Function, Argument
  <2> QED BY <1>2, <2>1, <2>2 DEF CallFunction
<1>4. /\ DOMAIN stack' = Tasks /\ (\A t \in Tasks : DOMAIN stack'[t] = Depths)
      /\ stack'["init_task"] = stack["init_task"] /\ stack'["thread"][1] = <<"code", "do_exit">>
  <2>1. DOMAIN stack = Tasks /\ \A t \in Tasks : DOMAIN stack[t] = 1 .. 26
    BY <1>1, PtRegsIs DEF TaskTyped
  <2> QED BY <1>3, <2>1, PtRegsIs
<1>5. /\ regs' = [i \in Regs |-> regs'[i]] /\ regs'["rdi"] = Argument
      /\ regs'["ds"] = KERNEL_DS /\ regs'["es"] = KERNEL_DS
  <2>1. DOMAIN regs = Regs
    BY <1>1 DEF TaskTyped
  <2> HIDE DEF Argument, KERNEL_DS
  <2> QED BY <1>2, <1>3, <2>1, RegsHave
<1>6. TaskTyped'
  <2>1. rsp' = Sp(rsp'.task, rsp'.depth) /\ rsp'.task \in Tasks /\ rsp'.depth \in 0 .. 25
    BY <1>3 DEF Sp
  <2>2. pc' \in Places
    BY <1>3 DEF Places, InThread
  <2> QED BY <1>1, <1>3, <1>4, <1>5, <2>1, <2>2 DEF TaskTyped
<1>7. RspInv' /\ RingInv'
  BY <1>3 DEF RspInv, RingInv, OnOldStack, Switching
<1>8. ThreadInv'
  BY <1>1, <1>3 DEF ThreadInv, Switching, InThread
<1>9. SwitchInv'
  BY <1>1, <1>3, <1>4 DEF SwitchInv, Switching, InThread
<1>10. PoppedInv'
  BY <1>3, <1>4, <1>5 DEF PoppedInv
<1> QED BY <1>6, <1>7, <1>8, <1>9, <1>10 DEF TaskInv

LEMMA InitReturnsKeeps ==
    ASSUME TaskInv, InitReturns
    PROVE  TaskInv'
<1> USE DEF Tasks
<1>1. /\ TaskTyped /\ RspInv /\ ThreadInv /\ SwitchInv /\ pc = "init" /\ pc' = "do_exit"
      /\ UNCHANGED <<popped, rsp, stack, tcb, tss_rsp0, started>>
  BY DEF TaskInv, InitReturns
<1>2. regs' = [r \in Regs |-> regs'[r]] /\ regs'["rdi"] = Result
  <2> HIDE DEF Regs
  <2> QED BY RegsHave DEF InitReturns, ExitCode
<1>3. TaskTyped'
  BY <1>1, <1>2 DEF TaskTyped, Places, InThread
<1>4. RspInv' /\ RingInv'
  BY <1>1 DEF RspInv, RingInv, OnOldStack, Switching
<1>5. ThreadInv'
  BY <1>1 DEF ThreadInv, Switching, InThread
<1>6. SwitchInv'
  BY <1>1 DEF SwitchInv, Switching, InThread
<1>7. PoppedInv'
  BY <1>1, <1>2 DEF PoppedInv
<1> QED BY <1>3, <1>4, <1>5, <1>6, <1>7 DEF TaskInv

LEMMA TaskInitInv == TaskInit => TaskInv
<1> SUFFICES ASSUME TaskInit PROVE TaskInv
  OBVIOUS
<1> USE DEF Tasks
<1>1. /\ pc = "do_fork" /\ popped = 0 /\ regs = [r \in Regs |-> <<"init_task", r>>]
      /\ stack = [t \in Tasks |-> NoWords] /\ rsp = Sp("init_task", 2)
      /\ tss_rsp0 = StackTop("init_task")
  BY DEF TaskInit, Below, StackTop, Sp
<1>2. PICK fs \in {<<"page", "null">>, <<"page", "bad">>}, gs \in {<<"page", "null">>, <<"page", "bad">>} :
      tcb = [t \in Tasks |->
          [state |-> IF t = "init_task" THEN "TASK_UNINTERRUPTIBLE" ELSE "none",
           flags |-> IF t = "init_task" THEN {"PF_KTHREAD"} ELSE {},
           pid |-> 0, prev |-> t, next |-> t,
           rsp0 |-> StackTop(t), rsp |-> StackTop(t), rip |-> Junk,
           fs |-> IF t = "init_task" THEN KERNEL_DS ELSE fs,
           gs |-> IF t = "init_task" THEN KERNEL_DS ELSE gs]]
  BY DEF TaskInit
<1>3. IsTcb(tcb)
  BY <1>2 DEF IsTcb
<1>4. /\ tcb["init_task"].prev = "init_task" /\ tcb["init_task"].next = "init_task"
      /\ tcb["init_task"].flags = {"PF_KTHREAD"}
      /\ \A t \in Tasks : /\ tcb[t].rip = Junk /\ tcb[t].pid = 0 /\ tcb[t].prev = t /\ tcb[t].next = t
                          /\ tcb[t].rsp0 = StackTop(t) /\ tcb[t].rsp = StackTop(t)
                          /\ tcb[t].state \in {"none", "TASK_UNINTERRUPTIBLE", "TASK_RUNNING"}
  <2> HIDE DEF StackTop
  <2> QED BY <1>2
<1>5. TaskTyped
  <2>1. rsp = Sp(rsp.task, rsp.depth) /\ rsp.task \in Tasks /\ rsp.depth \in 0 .. 25
    BY <1>1 DEF Sp
  <2>2. \A t \in Tasks : DOMAIN stack[t] = Depths
    BY <1>1 DEF NoWords
  <2>3. regs = [r \in Regs |-> regs[r]]
    BY <1>1
  <2> HIDE DEF StackTop, Sp
  <2> QED BY <1>1, <1>3, <1>4, <2>1, <2>2, <2>3 DEF TaskTyped, Places, OnOldStack
<1>6. RspInv /\ RingInv
  BY <1>1, <1>4 DEF RspInv, RingInv, Switching, InThread
<1>7. ThreadInv /\ PoppedInv
  BY <1>1 DEF ThreadInv, PoppedInv, Switching, InThread
<1>8. SwitchInv
  <2>1. Junk # Label1
    BY DEF Junk, Label1
  <2> QED BY <1>1, <1>4, <2>1 DEF SwitchInv, Switching, InThread
<1> QED BY <1>5, <1>6, <1>7, <1>8 DEF TaskInv

LEMMA TaskStepInv == TaskInv /\ [TaskNext]_allvars => TaskInv'
<1> SUFFICES ASSUME TaskInv, [TaskNext]_allvars PROVE TaskInv'
  OBVIOUS
<1>1. CASE UNCHANGED allvars
  <2>1. TaskTyped'
    BY <1>1 DEF TaskInv, TaskTyped, IsTcb, allvars
  <2>2. RspInv' /\ RingInv' /\ ThreadInv' /\ PoppedInv'
    BY <1>1 DEF TaskInv, RspInv, RingInv, ThreadInv, PoppedInv, allvars
  <2>3. SwitchInv'
    BY <1>1 DEF TaskInv, SwitchInv, allvars
  <2> QED BY <2>1, <2>2, <2>3 DEF TaskInv
<1>2. CASE Loop
  BY <1>1, <1>2 DEF Loop
<1>3. CASE Run
  BY <1>3, AllocateKeeps, MakeStructKeeps, MakeThreadKeeps, SwitchPushKeeps, SwitchStackKeeps,
     __switch_toKeeps, PopKeeps, CallFunctionKeeps, InitReturnsKeeps DEF Run
<1> QED BY <1>1, <1>2, <1>3 DEF TaskNext

LEMMA TaskAlways == TaskSpec => []TaskInv
<1> QED BY TaskInitInv, TaskStepInv, PTL DEF TaskSpec

\* A page of the task is one of the machine's.
PageInv == granted \subseteq Pages /\ page \in Pages \cup {-1}

LEMMA PageAlways == TaskSpec => []PageInv
<1>1. TaskInit => PageInv
  BY DEF TaskInit, Init, PageInv
<1>2. PageInv /\ [TaskNext]_allvars => PageInv'
  <2> SUFFICES ASSUME PageInv, [TaskNext]_allvars PROVE PageInv'
    OBVIOUS
  <2>1. CASE Allocate
    <3>1. alloc_pages("ZONE_NORMAL", 1, ForkFlags) /\ (page' \in granted' \/ page' = page)
      BY <2>1 DEF Allocate
    <3>2. Pages' = Pages
      BY <3>1 DEF alloc_pages, Pages
    <3>3. granted' \subseteq Pages
      <4>1. CASE Refuse("ZONE_NORMAL", 1)
        BY <4>1 DEF Refuse, PageInv
      <4>2. CASE Grant("ZONE_NORMAL", 1, ForkFlags)
        <5>1. PICK run : /\ PageInitRun(run, ForkFlags)
                         /\ granted' = IF mode' = "up" THEN granted \cup run ELSE granted
          BY <4>2 DEF Grant
        <5>2. mode' = "up" => run \subseteq Pages
          BY <5>1 DEF PageInitRun, Bad
        <5> QED BY <5>1, <5>2 DEF PageInv
      <4> QED BY <3>1, <4>1, <4>2 DEF alloc_pages
    <3> QED BY <3>1, <3>2, <3>3 DEF PageInv
  <2>2. CASE ~Allocate
    <3>1. UNCHANGED <<mem, granted, page>>
      BY <2>2 DEF TaskNext, Run, MakeStruct, MakeThread, SwitchPush, SwitchStack, __switch_to, Pop,
                  CallFunction, InitReturns, Loop, allvars, vars
    <3> QED BY <3>1 DEF PageInv, Pages
  <2> QED BY <2>1, <2>2
<1> QED BY <1>1, <1>2, PTL DEF TaskSpec

-----------------------------------------------------------------------------
\* Every variable of task.c keeps its type, on every memory: rsp stays on one of
\* the two stacks and within the words do_fork and switch_to use of it.
THEOREM TaskTypeCorrect == TaskSpec => []TaskTypeOK
<1>1. ASSUME TaskInv, PageInv, TypeOK PROVE TaskTypeOK
  <2>1. TaskTyped
    BY <1>1 DEF TaskInv
  <2>2. DOMAIN regs = Regs
    BY <2>1 DEF TaskTyped
  <2>3. rsp \in [task : Tasks, depth : 0 .. FrameWords + 1]
    BY <2>1, PtRegsIs DEF TaskTyped, Sp
  <2>4. ASSUME NEW t \in Tasks
        PROVE  /\ tcb[t].state \in {"none", "TASK_UNINTERRUPTIBLE", "TASK_RUNNING"}
               /\ {tcb[t].prev, tcb[t].next} \subseteq Tasks
               /\ tcb[t].pid \in {0, 1}
    BY <2>1 DEF TaskTyped, Tasks
  <2>5. ASSUME NEW t \in Tasks
        PROVE  {tcb[t].rsp, tcb[t].rsp0} \subseteq [task : Tasks, depth : 0 .. FrameWords]
    <3>1. {StackTop("init_task"), StackTop("thread"), Sp("init_task", 4), Sp("thread", 24)}
              \subseteq [task : Tasks, depth : 0 .. FrameWords]
      BY PtRegsIs DEF StackTop, Sp, Tasks
    <3> HIDE DEF StackTop, Sp
    <3> QED BY <2>1, <3>1 DEF TaskTyped
  <2>6. tss_rsp0 \in {StackTop(t) : t \in Tasks}
    <3> HIDE DEF StackTop
    <3> QED BY <2>1 DEF TaskTyped, Tasks
  <2>7. \A t \in Tasks : DOMAIN stack[t] = Depths
    BY <2>1 DEF TaskTyped
  <2> QED BY <1>1, <2>2, <2>3, <2>4, <2>5, <2>6, <2>7 DEF TaskTypeOK, PageInv
<1> QED BY <1>1, TaskAlways, PageAlways, TasksUseAllocator, TypeCorrect, PTL

\* The words that kernel_thread, do_fork, switch_to and kernel_thread_func each
\* count for themselves come out even: the thread's function starts with its
\* argument, the kernel's segments and an empty stack of its own, and what it
\* returns is what do_exit is given.
THEOREM ThreadRunsRight == TaskSpec => []ThreadRunsAsAsked
<1>1. ASSUME TaskInv PROVE ThreadRunsAsAsked
  <2>1. ASSUME pc = "init"
        PROVE  /\ regs.rdi = Argument
               /\ regs.ds = KERNEL_DS /\ regs.es = KERNEL_DS
               /\ rsp = Below(StackTop("thread"), 1)
               /\ current = "thread" /\ tss_rsp0 = StackTop("thread")
               /\ Word(rsp) = <<"code", "do_exit">>
    <3>1. /\ rsp = Sp("thread", 1) /\ regs.rdi = Argument /\ regs.ds = KERNEL_DS /\ regs.es = KERNEL_DS
          /\ stack["thread"][1] = <<"code", "do_exit">>
      BY <1>1, <2>1 DEF TaskInv, RspInv, PoppedInv
    <3>2. tss_rsp0 = StackTop("thread")
      BY <1>1, <2>1 DEF TaskInv, SwitchInv, InThread
    <3>3. rsp.task = "thread" /\ rsp.depth = 1 /\ Sp("thread", 1) = Below(StackTop("thread"), 1)
      BY <3>1 DEF Sp, Below, StackTop
    <3> QED BY <3>1, <3>2, <3>3 DEF current, Word
  <2>2. pc = "do_exit" => regs.rdi = Result
    BY <1>1 DEF TaskInv, PoppedInv
  <2> QED BY <2>1, <2>2 DEF ThreadRunsAsAsked
<1> QED BY <1>1, TaskAlways, PTL

\* The task switch_to left can be gone on with: rbp, rax, fs and gs lie where
\* its thread_struct and label 1 look for them, whatever the new thread does.
THEOREM OldTaskResumable == TaskSpec => []SwitchedOutIsResumable
<1>1. ASSUME TaskInv PROVE SwitchedOutIsResumable
  <2> SUFFICES ASSUME NEW t \in Tasks, SwitchedOut(t)
               PROVE  /\ tcb[t].rsp.task = t
                      /\ \A i \in DOMAIN RestoredScene :
                            stack[t][tcb[t].rsp.depth + 1 - i] = started[RestoredScene[i]]
                      /\ tcb[t].fs = started.fs /\ tcb[t].gs = started.gs
    BY DEF SwitchedOutIsResumable
  <2>1. t = "init_task" /\ pc \in InThread
    BY <1>1 DEF TaskInv, SwitchInv, SwitchedOut, Tasks
  <2>2. /\ tcb[t].rsp = Sp("init_task", 4)
        /\ stack[t][3] = started["rbp"] /\ stack[t][4] = started["rax"]
        /\ tcb[t].fs = started["fs"] /\ tcb[t].gs = started["gs"]
    BY <1>1, <2>1 DEF TaskInv, SwitchInv
  <2>3. tcb[t].rsp.task = "init_task" /\ tcb[t].rsp.depth = 4
    BY <2>2 DEF Sp
  <2>4. DOMAIN RestoredScene = {1, 2} /\ RestoredScene[1] = "rax" /\ RestoredScene[2] = "rbp"
    BY DEF RestoredScene
  <2>5. ASSUME NEW i \in {1, 2}
        PROVE  stack[t][tcb[t].rsp.depth + 1 - i] = started[RestoredScene[i]]
    <3>1. 4 + 1 - 1 = 4 /\ 4 + 1 - 2 = 3
      OBVIOUS
    <3> QED BY <2>2, <2>3, <2>4, <3>1
  <2> QED BY <2>1, <2>2, <2>3, <2>4, <2>5
<1> QED BY <1>1, TaskAlways, PTL

-----------------------------------------------------------------------------
(***************************************************************************)
(* Which page the task gets.  No word of the bit map but the first is      *)
(* looked at, so this holds of machines beyond OneWord too.                *)
(***************************************************************************)
\* The machines the kernel is meant for: RAM from page 1 on, as the first megabyte
\* is rounded away; tables that end in one of the first four pages; and a page of
\* RAM behind them.
LowKernel ==
    /\ W >= 6
    /\ \A L \in Layouts :
          /\ L.zones[1].start = 1
          /\ L.kernel_last <= 3 /\ L.kernel_last + 1 < L.zones[1].end

Behind == mem.kernel_last + 1

\* do_fork's is the first call of alloc_pages; from then on the task is on the
\* page behind the tables, which no one was given before.
NothingTaken ==
    /\ granted = {} /\ tcb["thread"].state = "none"
    /\ 1 .. mem.kernel_last \subseteq bits_map /\ Behind \notin bits_map
    /\ attribute[Behind] = {}
OnPageBehind ==
    page = Behind /\ page \in granted /\ page \in bits_map /\ ~Fresh(page)
BehindInv ==
    /\ pc = "do_fork" => NothingTaken
    /\ (pc \notin {"do_fork", "fault"} \/ tcb["thread"].state # "none") => OnPageBehind

LEMMA BehindIs ==
    ASSUME LowKernel, IInv
    PROVE  /\ mem.kernel_last \in 0 .. 3 /\ Behind = mem.kernel_last + 1
           /\ Behind \in Pages /\ ZoneOf(mem, Behind) # 0
           /\ 1 \in DOMAIN mem.zones /\ mem.zones[1].start = 1 /\ mem.zones[1].end \in Nat
           /\ Behind < mem.zones[1].end /\ Behind \in ZonePages(mem.zones[1])
<1>1. mem \in Layouts
  BY DEF IInv, TypeOK
<1>2. /\ mem.zones \in Seq([start : Nat, end : Nat]) /\ mem.zones # <<>>
      /\ mem.npages \in Nat /\ mem.kernel_last \in PagesOf(mem)
  BY <1>1, LayoutTypes
<1>3. 1 \in DOMAIN mem.zones
  BY <1>2
<1>4. mem.zones[1].end \in Nat
  BY <1>1, <1>3, ZoneTypes
<1>5. /\ mem.zones[1].start = 1 /\ mem.kernel_last <= 3
      /\ mem.kernel_last + 1 < mem.zones[1].end
  BY <1>1 DEF LowKernel
<1>6. mem.kernel_last \in 0 .. 3
  BY <1>2, <1>5 DEF PagesOf
<1>7. Behind \in ZonePages(mem.zones[1]) /\ Behind # 0
  BY <1>4, <1>5, <1>6 DEF Behind, ZonePages
<1>8. Behind \in Pages /\ ZoneOf(mem, Behind) # 0
  BY <1>1, <1>3, <1>7, ZoneOfZonePage DEF Pages
<1> QED  BY <1>3, <1>4, <1>5, <1>6, <1>7, <1>8 DEF Behind

\* init_memory leaves the page behind the tables free, and those before it not.
LEMMA InitBehind == ASSUME LowKernel, TaskInit PROVE BehindInv
<1>1. IInv
  BY InitIInv DEF TaskInit
<1>2. PICK L \in Layouts : InitMemory(L)
  BY DEF TaskInit, Init
<1>3. mem = L
  BY <1>2 DEF InitMemory
<1>4. /\ bits_map = ((0 .. (BitmapEnd(mem) - 1)) \ FreedBits(mem)) \cup KernelPages(mem)
                       \cup {BitmapEnd(mem) + b : b \in mem.slack}
      /\ attribute = [p \in PagesOf(mem) |-> IF p \in KernelPages(mem) THEN KernelFlags ELSE {}]
  BY <1>2, <1>3 DEF InitMemory
<1>5. /\ mem.kernel_last \in 0 .. 3 /\ Behind = mem.kernel_last + 1
      /\ Behind \in Pages /\ 1 \in DOMAIN mem.zones /\ Behind \in ZonePages(mem.zones[1])
  BY <1>1, BehindIs
<1>6. Behind \notin KernelPages(mem) /\ 1 .. mem.kernel_last \subseteq KernelPages(mem)
  BY <1>5 DEF KernelPages
<1>7. attribute[Behind] = {}
  BY <1>4, <1>5, <1>6 DEF Pages
<1>8. Behind \in FreedBits(mem)
  BY <1>5 DEF FreedBits, Pages
<1>9. ASSUME NEW b \in mem.slack PROVE Behind # BitmapEnd(mem) + b
  <2>1. /\ BitmapEnd(mem) \in Nat /\ mem.npages <= BitmapEnd(mem)
        /\ mem.slack \subseteq 0 .. (W - 1) /\ mem.npages \in Nat /\ W \in Nat
    BY <1>3, BitmapCoversPages, LayoutTypes, ConstantTypes
  <2>2. b \in Nat /\ Behind < mem.npages
    BY <1>5, <1>9, <2>1 DEF Pages, PagesOf
  <2> QED  BY <1>5, <2>1, <2>2
<1>10. Behind \notin bits_map /\ 1 .. mem.kernel_last \subseteq bits_map
  BY <1>4, <1>6, <1>8, <1>9
<1>11. granted = {} /\ pc = "do_fork"
  BY DEF TaskInit, Init
<1>12. tcb["thread"].state = "none"
  BY DEF TaskInit, Tasks
<1> QED  BY <1>7, <1>10, <1>11, <1>12 DEF BehindInv, NothingTaken

\* A search for one page from page 1 on tests each page of the first word by itself.
LEMMA FirstHitIsBehind ==
    ASSUME LowKernel, IInv, NothingTaken
    PROVE  /\ <<1, Behind>> \in Hits(mem.zones[1], 1)
           /\ \A h \in Hits(mem.zones[1], 1) : Before(h, <<1, Behind>>) => h = <<1, Behind>>
<1> DEFINE z == mem.zones[1]
<1>1. /\ mem.kernel_last \in 0 .. 3 /\ Behind = mem.kernel_last + 1
      /\ z.start = 1 /\ z.end \in Nat /\ Behind < z.end
  BY BehindIs
<1>2. W \in Nat /\ W >= 6
  BY ConstantTypes DEF LowKernel
<1>3. 1 % W = 1
  BY <1>2
<1> HIDE DEF z
<1>4. 1 \in Steps(z) /\ \A j \in Steps(z) : j \in Nat /\ j >= 1
  BY <1>1 DEF Steps
<1>5. Offsets(1) = 1 .. (W - 2)
  BY <1>2, <1>3 DEF Offsets
<1>6. ASSUME NEW k \in 1 .. (W - 2) PROVE TestedPages(1, k, 1) = {k}
  <2>1. k # 0 /\ 1 - (1 % W) = 0 /\ k \in Int
    BY <1>2, <1>3, <1>6
  <2>2. TestedPages(1, k, 1) = (0 + k) .. (0 + k + 1 - 1)
    BY <2>1 DEF TestedPages
  <2>3. (0 + k) .. (0 + k + 1 - 1) = {k}
    BY <2>1
  <2> QED  BY <2>2, <2>3
<1>7. <<1, Behind>> \in Hits(z, 1)
  <2>1. Behind \in 1 .. (W - 2) /\ Behind \in 0 .. W - 1
    BY <1>1, <1>2
  <2>2. TestedPages(1, Behind, 1) \cap bits_map = {}
    BY <1>6, <2>1 DEF NothingTaken
  <2> QED  BY <1>4, <1>5, <2>1, <2>2 DEF Hits
<1>8. ASSUME NEW h \in Hits(z, 1), Before(h, <<1, Behind>>) PROVE h = <<1, Behind>>
  <2>1. PICK j \in Steps(z), k \in 0 .. W - 1 : h = <<j, k>>
    BY <1>8 DEF Hits
  <2>2. k \in Offsets(j) /\ TestedPages(j, k, 1) \cap bits_map = {}
    BY <1>8, <2>1 DEF Hits
  <2>3. j < 1 \/ (j = 1 /\ k <= Behind)
    BY <1>8, <2>1 DEF Before
  <2>4. j = 1 /\ k <= Behind
    BY <1>4, <2>3
  <2>5. k \in 1 .. (W - 2)
    BY <1>5, <2>2, <2>4
  <2>6. k \notin bits_map
    BY <1>6, <2>2, <2>4, <2>5
  <2>7. k \notin 1 .. mem.kernel_last
    BY <2>6 DEF NothingTaken
  <2>8. k = Behind
    BY <1>1, <1>2, <2>4, <2>5, <2>7
  <2> QED  BY <2>1, <2>4, <2>8
<1> QED  BY <1>7, <1>8 DEF z

\* So the page do_fork is given, if any, is the one behind the tables.
LEMMA AllocateBehind ==
    ASSUME LowKernel, IInv, BehindInv, Allocate
    PROVE  BehindInv'
<1>1. /\ pc = "do_fork" /\ tcb' = tcb /\ alloc_pages("ZONE_NORMAL", 1, ForkFlags)
      /\ IF call'.ret = "page"
         THEN \E p \in granted' : page' = p /\ pc' = IF p \in MappedPages THEN "struct" ELSE "fault"
         ELSE page' = page /\ pc' = "fault"
  BY DEF Allocate
<1>2. NothingTaken /\ tcb["thread"].state = "none" /\ granted = {}
  BY <1>1 DEF BehindInv, NothingTaken
<1>3. mem' = mem /\ (Refuse("ZONE_NORMAL", 1) \/ Grant("ZONE_NORMAL", 1, ForkFlags))
  BY <1>1 DEF alloc_pages
<1>4. Behind' = Behind
  BY <1>3 DEF Behind
<1>5. CASE call'.ret # "page"
  <2>1. pc' = "fault" /\ tcb'["thread"].state = "none"
    BY <1>1, <1>2, <1>5
  <2> QED  BY <2>1 DEF BehindInv
<1>6. CASE call'.ret = "page"
  <2>1. Grant("ZONE_NORMAL", 1, ForkFlags)
    BY <1>3, <1>6 DEF Refuse, Return
  <2>2. PICK i \in Candidates("ZONE_NORMAL", 1) : \E h \in Hits(mem.zones[i], 1) :
            /\ \A g \in Hits(mem.zones[i], 1) : Before(h, g)
            /\ LET p   == ReturnedPage(h[1], h[2])
                   run == p .. (p + 1 - 1)
               IN  /\ PageInitRun(run, ForkFlags)
                   /\ Return("ZONE_NORMAL", 1, IF mode' = "up" THEN "page" ELSE "none")
                   /\ granted' = IF mode' = "up" THEN granted \cup run ELSE granted
    BY <2>1 DEF Grant
  <2>3. i = 1
    BY DEF Candidates, ZoneRange
  <2>4. PICK h \in Hits(mem.zones[1], 1) :
            /\ \A g \in Hits(mem.zones[1], 1) : Before(h, g)
            /\ LET p   == ReturnedPage(h[1], h[2])
                   run == p .. (p + 1 - 1)
               IN  /\ PageInitRun(run, ForkFlags)
                   /\ Return("ZONE_NORMAL", 1, IF mode' = "up" THEN "page" ELSE "none")
                   /\ granted' = IF mode' = "up" THEN granted \cup run ELSE granted
    BY <2>2, <2>3
  <2>5. h = <<1, Behind>>
    BY <1>2, <2>4, FirstHitIsBehind
  <2>6. /\ mem.kernel_last \in 0 .. 3 /\ Behind = mem.kernel_last + 1
        /\ Behind \in Pages /\ ZoneOf(mem, Behind) # 0
    BY BehindIs
  <2>7. ReturnedPage(h[1], h[2]) = Behind
    BY <2>5, <2>6 DEF ReturnedPage
  <2>8. Behind .. (Behind + 1 - 1) = {Behind}
    BY <2>6
  <2>9. /\ PageInitRun({Behind}, ForkFlags)
        /\ Return("ZONE_NORMAL", 1, IF mode' = "up" THEN "page" ELSE "none")
        /\ granted' = IF mode' = "up" THEN granted \cup {Behind} ELSE granted
    BY <2>4, <2>7, <2>8
  <2>10. mode' = "up"
    BY <1>6, <2>9 DEF Return
  <2>11. granted' = {Behind}
    BY <1>2, <2>9, <2>10
  <2>12. page' = Behind
    BY <1>1, <1>6, <2>11
  <2>13. Done({Behind}) = {Behind}
    BY <2>6 DEF Done, Bad
  <2>14. Behind \in bits_map'
    <3>1. SetsBit(Behind, ForkFlags)
      BY <1>2 DEF SetsBit, Fresh, NothingTaken
    <3> QED  BY <2>9, <2>13, <3>1 DEF PageInitRun
  <2>15. ~Fresh(page)'
    <3>1. attribute'[Behind] = attribute[Behind] \cup ForkFlags
      BY <2>6, <2>9, <2>13 DEF PageInitRun
    <3> QED  BY <2>12, <3>1 DEF Fresh, ForkFlags
  <2>16. OnPageBehind'
    BY <1>4, <2>11, <2>12, <2>14, <2>15 DEF OnPageBehind
  <2>17. pc' # "do_fork"
    BY <1>1, <1>6
  <2> QED  BY <2>16, <2>17 DEF BehindInv
<1> QED  BY <1>5, <1>6

\* Everything after it leaves the allocator and the task's place alone.
LEMMA StepBehind ==
    ASSUME LowKernel, IInv, BehindInv, [TaskNext]_allvars
    PROVE  BehindInv'
<1>1. CASE Allocate
  BY <1>1, AllocateBehind
<1>2. CASE UNCHANGED allvars
  BY <1>2 DEF allvars, vars, BehindInv, NothingTaken, OnPageBehind, Behind, Fresh
<1>3. ASSUME pc \notin {"do_fork", "fault"}, pc' # "do_fork", UNCHANGED <<vars, page>>
      PROVE  BehindInv'
  BY <1>3 DEF vars, BehindInv, OnPageBehind, Behind, Fresh
<1>4. CASE MakeStruct  BY <1>3, <1>4 DEF MakeStruct
<1>5. CASE MakeThread  BY <1>3, <1>5 DEF MakeThread
<1>6. CASE SwitchPush  BY <1>3, <1>6 DEF SwitchPush
<1>7. CASE SwitchStack  BY <1>3, <1>7 DEF SwitchStack
<1>8. CASE __switch_to  BY <1>3, <1>8 DEF __switch_to
<1>9. CASE Pop  BY <1>3, <1>9 DEF Pop
<1>10. CASE CallFunction  BY <1>3, <1>10 DEF CallFunction
<1>11. CASE InitReturns  BY <1>3, <1>11 DEF InitReturns
<1> QED
  BY <1>1, <1>2, <1>4, <1>5, <1>6, <1>7, <1>8, <1>9, <1>10, <1>11 DEF TaskNext, Run, Loop

LEMMA BehindAlways == ASSUME LowKernel PROVE TaskSpec => [](IInv /\ BehindInv)
<1>1. TaskInit => BehindInv
  BY InitBehind
<1>2. IInv /\ BehindInv /\ [TaskNext]_allvars => BehindInv'
  BY StepBehind
<1> QED  BY <1>1, <1>2, TasksUseAllocator, SpecIInv, PTL DEF TaskSpec

\* There the thread is in RAM, not in the frame buffer that head.sx maps behind it.
THEOREM LowKernelTaskInRam == ASSUME LowKernel PROVE TaskSpec => []TaskInRam
<1>1. IInv /\ BehindInv => TaskInRam
  <2> SUFFICES ASSUME IInv, BehindInv, tcb["thread"].state # "none" PROVE page \in RamPages
    BY DEF TaskInRam
  <2>1. page = Behind
    BY DEF BehindInv, OnPageBehind
  <2>2. mem.kernel_last \in 0 .. 3 /\ Behind = mem.kernel_last + 1
    BY BehindIs
  <2> QED  BY <2>1, <2>2 DEF RamPages
<1> QED  BY <1>1, BehindAlways, PTL

\* And its page is its own, also on the machines whose later pages alloc_pages
\* would hand out twice: one thread does not get that far.
THEOREM LowKernelTaskOwnsPage == ASSUME LowKernel PROVE TaskSpec => []TaskOnItsOwnPage
<1>1. IInv /\ BehindInv => TaskOnItsOwnPage
  <2> SUFFICES ASSUME IInv, BehindInv, tcb["thread"].state # "none"
               PROVE  /\ page \in granted /\ page \notin KernelPages(mem)
                      /\ page \in bits_map /\ page \in Pages /\ ~Fresh(page)
    BY DEF TaskOnItsOwnPage
  <2>1. page = Behind /\ page \in granted /\ page \in bits_map /\ ~Fresh(page)
    BY DEF BehindInv, OnPageBehind
  <2>2. mem.kernel_last \in 0 .. 3 /\ Behind = mem.kernel_last + 1 /\ Behind \in Pages
    BY BehindIs
  <2> QED  BY <2>1, <2>2 DEF KernelPages
<1> QED  BY <1>1, BehindAlways, PTL

=============================================================================
