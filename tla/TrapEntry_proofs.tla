--------------------------- MODULE TrapEntry_proofs ---------------------------
(***************************************************************************)
(* What entering and leaving handlers keeps true, whatever vectors are     *)
(* raised and wherever in one another's stubs and handlers they arrive.    *)
(*                                                                         *)
(* Three facts carry the argument: an NMI handler never returns, so what   *)
(* lies under it no longer matters; an IRQ handler runs with IF clear, so  *)
(* only an NMI comes in between; and an exception handler that an IRQ may  *)
(* interrupt is promised nothing of its frame.                             *)
(***************************************************************************)
EXTENDS TrapEntry, SequenceTheorems, TLAPS

On(c) == \E i \in DOMAIN running : running[i] = c

\* The task, perhaps an exception of it, perhaps an IRQ, perhaps an NMI.
Rank(c) == CASE c = "task" -> 0 [] c = "exception" -> 1 [] c = "irq" -> 2 [] c = "nmi" -> 3
Shape(r) ==
    /\ r \in Seq({"task"} \cup Handlers) /\ r # <<>> /\ r[1] = "task"
    /\ \A i, j \in DOMAIN r : i < j => Rank(r[i]) < Rank(r[j])

Typed ==
    /\ Shape(running)
    /\ at \in [Handlers -> [phase : {"none", "stub", "handler", "printing", "loop",
                                     "restore", "wild"}, n : 0 .. 20]]
    /\ vector \in [Handlers -> Exceptions \cup IRQs \cup {NMI, 0}]
    /\ DOMAIN ist = 1 .. StackWords
    /\ regs = [r \in Regs |-> regs[r]]
    /\ IFlag \in BOOLEAN
    /\ DOMAIN scene = Handlers
    /\ \A c \in Handlers :
          /\ scene[c] = [of |-> scene[c].of, depth |-> scene[c].depth,
                         regs |-> scene[c].regs, IFlag |-> scene[c].IFlag]
          /\ scene[c].depth \in 0 .. 26 /\ scene[c].IFlag \in BOOLEAN
          /\ scene[c].regs = [r \in Regs |-> scene[c].regs[r]]

\* An unfinished entry is where its kind of stub and handler can be.
Entered(c) ==
    /\ vector[c] \in CASE c = "exception" -> Exceptions [] c = "irq" -> IRQs [] c = "nmi" -> {NMI}
    /\ at[c].phase \in IF c = "irq" THEN {"stub", "handler", "restore"}
                       ELSE {"stub", "handler", "printing", "loop", "wild"}
    /\ at[c].phase = "stub" => at[c].n <= Len(StubPushes(vector[c]))
    /\ at[c].phase = "restore" => at[c].n <= 17

EnteredInv == \A c \in Handlers : On(c) => Entered(c)

\* Where rsp stands while an entry for v runs, and while c does.
RspOf(v, phase, n) ==
    LET full == IF HasStub(v) THEN 25 ELSE 5
    IN  CASE phase = "stub" -> Len(CpuFrame(v)) + n
          [] phase = "restore" -> 24 - n
          [] phase = "printing" -> full + 1
          [] OTHER -> full
Rsp(c) == IF c = "task" THEN 0 ELSE RspOf(vector[c], at[c].phase, at[c].n)

RspInv == depth = Rsp(Top)

\* IF is clear in and above an IRQ or NMI handler, and above an exception that
\* was taken with IF clear.
MaskInv ==
    /\ IFlag => ~On("irq") /\ ~On("nmi")
    /\ On("exception") /\ ~scene["exception"].IFlag => ~IFlag /\ ~On("irq")

\* What an IRQ handler goes back to.
SceneInv ==
    Top = "irq" => /\ scene["irq"].of = running[Len(running) - 1]
                   /\ scene["irq"].depth = Rsp(scene["irq"].of)
                   /\ scene["irq"].IFlag

\* The frame of the running handler.
Kept(c) == HasStub(vector[c]) /\ ~(c = "exception" /\ scene[c].IFlag)
FrameInv ==
    \A c \in Handlers : Top = c /\ Kept(c) =>
        /\ at[c].phase \in {"stub", "handler", "restore"} => ist[5] = Own(scene[c].of, "rip")
        /\ c = "exception" /\ at[c].phase = "stub" =>
              IF vector[c] \in WithErrorCode
              THEN ist[6] = <<"cpu", "error">> /\ (at[c].n >= 1 => ist[7] = <<"func", vector[c]>>)
              ELSE /\ at[c].n >= 1 => ist[6] = Zero
                   /\ at[c].n >= 2 => ist[7] = <<"func", vector[c]>>
        /\ at[c].phase = "handler" =>
              /\ regs.rdi = Own(c, "rsp")
              /\ regs.rsi = CASE c = "irq" -> <<"vector", vector[c]>>
                              [] c = "exception" /\ vector[c] \in WithErrorCode -> <<"cpu", "error">>
                              [] OTHER -> Zero
              /\ c = "exception" => regs.rdx = <<"func", vector[c]>>

\* What SAVE_ALL has saved and RSETORE_ALL restored.
SavedInv ==
    Top = "irq" =>
        LET S == scene["irq"].regs
            p == at["irq"].phase
            n == at["irq"].n
            pushed(k) == p = "stub" => n >= k
        IN  /\ p = "stub" => /\ \A r \in Regs \ {"rax"} : regs[r] = S[r]
                             /\ n <= 3 => regs["rax"] = S["rax"]
            /\ pushed(3) => ist[8] = S["rax"]
            /\ \A j \in 1 .. 16 : pushed(3 + j) => ist[8 + j] = S[General[j]]
            /\ p = "restore" => \A j \in 1 .. n : regs[RestorePops[j]] = S[RestorePops[j]]

IInv == Typed /\ EnteredInv /\ RspInv /\ MaskInv /\ SceneInv /\ FrameInv /\ SavedInv

-----------------------------------------------------------------------------
(***************************************************************************)
(* The tables of the code.                                                 *)
(***************************************************************************)
Names == {"es", "ds", "rbp", "rdi", "rsi", "rdx", "rcx", "rbx",
          "r8", "r9", "r10", "r11", "r12", "r13", "r14", "r15"}

LEMMA GeneralIs ==
    /\ General \in Seq(Names) /\ Len(General) = 16 /\ DOMAIN General = 1 .. 16
    /\ \A i \in 1 .. 16 : General[i] \in Names
    /\ General[1] = "es" /\ General[2] = "ds" /\ \A i \in 3 .. 16 : General[i] \notin {"es", "ds"}
<1>1. General \in Seq(Names) /\ Len(General) = 16
  BY DEF General, Names
<1>2. DOMAIN General = 1 .. 16 /\ \A i \in 1 .. 16 : General[i] \in Names
  BY <1>1
<1>3. General[1] = "es" /\ General[2] = "ds"
  BY DEF General
<1>4. \A i \in 3 .. 16 : General[i] \notin {"es", "ds"}
  BY DEF General
<1> QED BY <1>1, <1>2, <1>3, <1>4

LEMMA RegsAre ==
    /\ Regs = {"rax"} \cup Names /\ "rax" \notin Names
    /\ \A r \in Names : \E i \in 1 .. 16 : General[i] = r
<1>1. \A r \in Names : \E i \in 1 .. 16 : General[i] = r
  <2>1. /\ General[1] = "es" /\ General[2] = "ds" /\ General[3] = "rbp" /\ General[4] = "rdi"
        /\ General[5] = "rsi" /\ General[6] = "rdx" /\ General[7] = "rcx" /\ General[8] = "rbx"
        /\ General[9] = "r8" /\ General[10] = "r9" /\ General[11] = "r10" /\ General[12] = "r11"
        /\ General[13] = "r12" /\ General[14] = "r13" /\ General[15] = "r14" /\ General[16] = "r15"
    BY DEF General
  <2> QED BY <2>1 DEF Names
<1>2. {General[i] : i \in DOMAIN General} = Names
  BY <1>1, GeneralIs
<1>3. "rax" \notin Names
  BY DEF Names
<1> QED BY <1>1, <1>2, <1>3 DEF Regs

\* Every stub brings the frame to the same 24 words.
Prefix(v) ==
    CASE v = NMI             -> <<"rax", "rax", "rax">>
      [] v \in IRQs          -> <<"zero", "rax", "rax">>
      [] v \in NoPlaceholder -> <<"func", "rax">>
      [] OTHER               -> <<"zero", "func", "rax">>
PrefixNames == {"rax", "zero", "func"}

LEMMA PrefixIs ==
    ASSUME NEW v
    PROVE  /\ Prefix(v) \in Seq(PrefixNames) /\ Len(Prefix(v)) \in {2, 3}
           /\ \A i \in 1 .. Len(Prefix(v)) : Prefix(v)[i] \in PrefixNames
           /\ HasStub(v) => StubPushes(v) = Prefix(v) \o General
           /\ ~HasStub(v) => StubPushes(v) = <<>>
<1>1. /\ <<"rax", "rax", "rax">> \in Seq(PrefixNames) /\ <<"zero", "rax", "rax">> \in Seq(PrefixNames)
      /\ <<"func", "rax">> \in Seq(PrefixNames) /\ <<"zero", "func", "rax">> \in Seq(PrefixNames)
  BY DEF PrefixNames
<1>2. \/ Prefix(v) = <<"rax", "rax", "rax">> \/ Prefix(v) = <<"zero", "rax", "rax">>
      \/ Prefix(v) = <<"func", "rax">> \/ Prefix(v) = <<"zero", "func", "rax">>
  BY DEF Prefix
<1>3. Prefix(v) \in Seq(PrefixNames) /\ Len(Prefix(v)) \in {2, 3}
  BY <1>1, <1>2
<1>4. \A i \in 1 .. Len(Prefix(v)) : Prefix(v)[i] \in PrefixNames
  BY <1>3
<1>5. /\ HasStub(v) => StubPushes(v) = Prefix(v) \o General
      /\ ~HasStub(v) => StubPushes(v) = <<>>
  BY DEF StubPushes, Prefix
<1> QED BY <1>3, <1>4, <1>5

LEMMA StubIs ==
    ASSUME NEW v, HasStub(v)
    PROVE  /\ Len(StubPushes(v)) = Len(Prefix(v)) + 16 /\ Len(Prefix(v)) \in {2, 3}
           /\ \A i \in 1 .. Len(Prefix(v)) : /\ StubPushes(v)[i] = Prefix(v)[i]
                                             /\ Prefix(v)[i] \in PrefixNames
           /\ \A j \in 1 .. 16 : StubPushes(v)[Len(Prefix(v)) + j] = General[j]
<1> DEFINE p == Prefix(v)
           S == PrefixNames \cup Names
<1>1. /\ p \in Seq(PrefixNames) /\ Len(p) \in {2, 3} /\ StubPushes(v) = p \o General
      /\ \A i \in 1 .. Len(p) : p[i] \in PrefixNames
  BY PrefixIs
<1> HIDE DEF p, S
<1>2. p \in Seq(S) /\ General \in Seq(S)
  BY <1>1, GeneralIs DEF S
<1>3. /\ Len(p \o General) = Len(p) + Len(General)
      /\ \A i \in 1 .. Len(p) + Len(General) :
            (p \o General)[i] = IF i <= Len(p) THEN p[i] ELSE General[i - Len(p)]
  BY <1>2, ConcatProperties
<1>4. \A i \in 1 .. Len(p) : StubPushes(v)[i] = p[i]
  BY <1>1, <1>3, GeneralIs
<1>5. \A j \in 1 .. 16 : StubPushes(v)[Len(p) + j] = General[j]
  <2> TAKE j \in 1 .. 16
  <2>1. Len(p) + j \in 1 .. Len(p) + Len(General) /\ ~(Len(p) + j <= Len(p)) /\ (Len(p) + j) - Len(p) = j
    BY <1>1, GeneralIs
  <2> QED BY <1>1, <1>3, <2>1
<1> QED BY <1>1, <1>3, <1>4, <1>5, GeneralIs DEF p

LEMMA CpuFrameIs ==
    ASSUME NEW v
    PROVE  /\ v \notin WithErrorCode => Len(CpuFrame(v)) = 5
           /\ v \in WithErrorCode => Len(CpuFrame(v)) = 6 /\ CpuFrame(v)[6] = "error"
           /\ DOMAIN CpuFrame(v) = 1 .. Len(CpuFrame(v)) /\ CpuFrame(v)[5] = "rip"
<1> DEFINE a == <<"ss", "rsp", "rflags", "cs", "rip">>
           b == IF v \in WithErrorCode THEN <<"error">> ELSE <<>>
           S == {"ss", "rsp", "rflags", "cs", "rip", "error"}
<1>1. a \in Seq(S) /\ Len(a) = 5 /\ a[5] = "rip"
  OBVIOUS
<1>2. b \in Seq(S) /\ (v \notin WithErrorCode => Len(b) = 0)
      /\ (v \in WithErrorCode => Len(b) = 1 /\ b[1] = "error")
  <2>1. <<"error">> \in Seq(S) /\ Len(<<"error">>) = 1 /\ <<"error">>[1] = "error"
    OBVIOUS
  <2>2. <<>> \in Seq(S) /\ Len(<<>>) = 0
    OBVIOUS
  <2> QED BY <2>1, <2>2
<1>3. CpuFrame(v) = a \o b
  BY DEF CpuFrame
<1> HIDE DEF a, b, S
<1>4. /\ a \o b \in Seq(S) /\ Len(a \o b) = Len(a) + Len(b)
      /\ \A i \in 1 .. Len(a) + Len(b) : (a \o b)[i] = IF i <= Len(a) THEN a[i] ELSE b[i - Len(a)]
  BY <1>1, <1>2, ConcatProperties
<1> QED BY <1>1, <1>2, <1>3, <1>4

\* 24 words, for every vector that has a stub.
LEMMA FrameIs24 ==
    ASSUME NEW v, HasStub(v)
    PROVE  Len(CpuFrame(v)) + Len(StubPushes(v)) = 24
<1>1. v \in WithErrorCode => Len(Prefix(v)) = 2
  <2>1. v \in WithErrorCode => v # NMI /\ v \notin IRQs /\ v \in NoPlaceholder
    BY VectorAssumption DEF WithErrorCode, NMI, NoPlaceholder
  <2>2. v \in WithErrorCode => Prefix(v) = <<"func", "rax">>
    BY <2>1 DEF Prefix
  <2> QED BY <2>2
<1>2. v \notin WithErrorCode => Len(Prefix(v)) = 3
  <2>1. v \notin WithErrorCode => \/ Prefix(v) = <<"rax", "rax", "rax">>
                                  \/ Prefix(v) = <<"zero", "rax", "rax">>
                                  \/ Prefix(v) = <<"zero", "func", "rax">>
    BY DEF Prefix, WithErrorCode, NoPlaceholder
  <2> QED BY <2>1
<1>3. Len(StubPushes(v)) = Len(Prefix(v)) + 16
  BY StubIs
<1>4. CASE v \in WithErrorCode
  <2>1. Len(CpuFrame(v)) = 6 /\ Len(Prefix(v)) = 2
    BY <1>1, <1>4, CpuFrameIs
  <2> QED BY <1>3, <2>1
<1>5. CASE v \notin WithErrorCode
  <2>1. Len(CpuFrame(v)) = 5 /\ Len(Prefix(v)) = 3
    BY <1>2, <1>5, CpuFrameIs
  <2> QED BY <1>3, <2>1
<1> QED BY <1>4, <1>5

LEMMA RestoreIs ==
    /\ Len(RestorePops) = 17 /\ RestorePops[17] = "rax"
    /\ \A n \in 1 .. 16 : RestorePops[n] = General[17 - n]
<1> DEFINE a == Reverse(General)
           b == <<"rax">>
<1>1. a \in Seq({"rax"} \cup Names) /\ Len(a) = 16 /\ \A n \in 1 .. 16 : a[n] = General[17 - n]
  <2>1. a = [i \in 1 .. 16 |-> General[(16 - i) + 1]]
    BY GeneralIs DEF Reverse
  <2>2. \A i \in 1 .. 16 : (16 - i) + 1 = 17 - i /\ 17 - i \in 1 .. 16
    OBVIOUS
  <2>3. \A i \in 1 .. 16 : General[(16 - i) + 1] \in {"rax"} \cup Names
    BY <2>2, GeneralIs
  <2> QED BY <2>1, <2>2, <2>3
<1>2. b \in Seq({"rax"} \cup Names) /\ Len(b) = 1 /\ b[1] = "rax"
  OBVIOUS
<1> DEFINE c == a \o b
<1>3. RestorePops = c
  BY DEF RestorePops
<1> HIDE DEF a, b
<1>4. /\ Len(c) = Len(a) + Len(b)
      /\ \A i \in 1 .. Len(a) + Len(b) : c[i] = IF i <= Len(a) THEN a[i] ELSE b[i - Len(a)]
  BY <1>1, <1>2, ConcatProperties
<1> HIDE DEF c
<1>5. Len(c) = 17 /\ c[17] = "rax" /\ \A n \in 1 .. 16 : c[n] = a[n]
  BY <1>1, <1>2, <1>4
<1> QED BY <1>1, <1>3, <1>5

LEMMA StubLength ==
    \A v : /\ Len(StubPushes(v)) \in 0 .. 19
           /\ HasStub(v) => Len(CpuFrame(v)) + Len(StubPushes(v)) = 24
           /\ ~HasStub(v) => Len(CpuFrame(v)) = 5 /\ Len(StubPushes(v)) = 0
           /\ Len(CpuFrame(v)) \in {5, 6}
<1> TAKE v
<1>1. ASSUME HasStub(v)
      PROVE  Len(StubPushes(v)) \in 0 .. 19 /\ Len(CpuFrame(v)) + Len(StubPushes(v)) = 24
  <2>1. Len(StubPushes(v)) = Len(Prefix(v)) + 16 /\ Len(Prefix(v)) \in {2, 3}
    BY <1>1, StubIs
  <2>2. Len(CpuFrame(v)) + Len(StubPushes(v)) = 24
    BY <1>1, FrameIs24
  <2>3. Len(StubPushes(v)) = 18 \/ Len(StubPushes(v)) = 19
    <3>1. \A a, b : a \in {2, 3} /\ b = a + 16 => b = 18 \/ b = 19
      OBVIOUS
    <3> QED BY <2>1, <3>1
  <2> QED BY <2>2, <2>3
<1>2. ASSUME ~HasStub(v) PROVE Len(CpuFrame(v)) = 5 /\ Len(StubPushes(v)) = 0
  <2>1. StubPushes(v) = <<>> /\ v \notin WithErrorCode
    BY <1>2 DEF StubPushes, HasStub, WithErrorCode
  <2> QED BY <2>1, CpuFrameIs
<1>3. Len(CpuFrame(v)) \in {5, 6}
  BY CpuFrameIs
<1> QED BY <1>1, <1>2, <1>3

-----------------------------------------------------------------------------
(***************************************************************************)
(* The stack of contexts.                                                  *)
(***************************************************************************)
LEMMA ShapeIs ==
    ASSUME Shape(running)
    PROVE  /\ Top \in {"task"} \cup Handlers /\ running[Len(running)] = Top
           /\ running \in Seq({"task"} \cup Handlers) /\ Len(running) \in Nat \ {0}
           /\ DOMAIN running = 1 .. Len(running)
           /\ \A d : On(d) => d \in {"task"} \cup Handlers /\ Rank(d) <= Rank(Top)
           /\ Top = "task" => Len(running) = 1
           /\ Top = "irq" => /\ Len(running) > 1
                             /\ running[Len(running) - 1] \in {"task", "exception"}
           /\ Top \in Handlers => On(Top)
<1>1. /\ running \in Seq({"task"} \cup Handlers) /\ Len(running) \in Nat \ {0}
      /\ DOMAIN running = 1 .. Len(running) /\ running[1] = "task"
      /\ \A i, j \in DOMAIN running : i < j => Rank(running[i]) < Rank(running[j])
  BY DEF Shape
<1>2. running[Len(running)] = Top
  BY DEF Top, Last
<1>3. \A i \in DOMAIN running : running[i] \in {"task"} \cup Handlers
  BY <1>1
<1>4. Top \in {"task"} \cup Handlers /\ On(Top)
  BY <1>1, <1>2, <1>3 DEF On
<1>5. \A c \in {"task"} \cup Handlers : Rank(c) \in 0 .. 3
  BY DEF Rank, Handlers
<1>6. ASSUME NEW d, On(d) PROVE d \in {"task"} \cup Handlers /\ Rank(d) <= Rank(Top)
  <2>1. PICK i \in DOMAIN running : running[i] = d
    BY <1>6 DEF On
  <2>2. i = Len(running) \/ i < Len(running)
    BY <1>1
  <2>3. i < Len(running) => Rank(d) < Rank(Top)
    BY <1>1, <1>2, <2>1
  <2>4. d \in {"task"} \cup Handlers
    BY <1>3, <2>1
  <2>5. Rank(d) \in 0 .. 3 /\ Rank(Top) \in 0 .. 3
    BY <1>4, <1>5, <2>4
  <2>6. i = Len(running) => d = Top
    BY <1>2, <2>1
  <2> QED BY <2>2, <2>3, <2>4, <2>5, <2>6
<1>7. ASSUME Len(running) > 1 PROVE Rank(running[Len(running) - 1]) < Rank(Top) /\ 0 < Rank(Top)
  <2>1. Len(running) - 1 \in DOMAIN running /\ Len(running) \in DOMAIN running /\ 1 \in DOMAIN running
    BY <1>1, <1>7
  <2>2. Rank(running[Len(running) - 1]) < Rank(Top)
    BY <1>1, <1>2, <2>1
  <2>3. Rank("task") < Rank(Top)
    BY <1>1, <1>2, <1>7, <2>1
  <2> QED BY <2>2, <2>3 DEF Rank
<1>8. Top = "task" => Len(running) = 1
  BY <1>1, <1>7 DEF Rank
<1>9. ASSUME Top = "irq" PROVE Len(running) > 1 /\ running[Len(running) - 1] \in {"task", "exception"}
  <2>1. Len(running) > 1
    BY <1>1, <1>2, <1>9
  <2>2. running[Len(running) - 1] \in {"task"} \cup Handlers
    BY <1>1, <1>3, <2>1
  <2> QED BY <1>7, <1>9, <2>1, <2>2 DEF Rank, Handlers
<1> QED BY <1>1, <1>2, <1>4, <1>6, <1>8, <1>9

LEMMA PushShape ==
    ASSUME Shape(running), NEW c \in Handlers, running' = Append(running, c),
           c = "exception" => Top = "task",
           c = "irq" => Top \in {"task", "exception"},
           c = "nmi" => ~On("nmi")
    PROVE  /\ Shape(running') /\ Top' = c
           /\ \A d : On(d)' <=> On(d) \/ d = c
           /\ running'[Len(running') - 1] = Top
<1>1. /\ running \in Seq({"task"} \cup Handlers) /\ Len(running) \in Nat \ {0}
      /\ running[Len(running)] = Top /\ Top \in {"task"} \cup Handlers
      /\ DOMAIN running = 1 .. Len(running)
      /\ \A d : On(d) => d \in {"task"} \cup Handlers /\ Rank(d) <= Rank(Top)
      /\ Top \in Handlers => On(Top)
  BY ShapeIs
<1>2. /\ running' \in Seq({"task"} \cup Handlers)
      /\ Len(running') = Len(running) + 1 /\ running'[Len(running) + 1] = c
      /\ \A i \in 1 .. Len(running) : running'[i] = running[i]
      /\ DOMAIN running' = 1 .. Len(running) + 1
  BY <1>1, AppendProperties
<1>3. Top' = c
  BY <1>2 DEF Top, Last
<1>4. running'[Len(running') - 1] = Top
  <2>1. Len(running') - 1 = Len(running) /\ Len(running) \in 1 .. Len(running)
    BY <1>1, <1>2
  <2> QED BY <1>1, <1>2, <2>1
<1>5. \A d : On(d)' <=> On(d) \/ d = c
  <2> TAKE d
  <2>1. On(d) => On(d)'
    BY <1>1, <1>2 DEF On
  <2>2. d = c => On(d)'
    BY <1>1, <1>2 DEF On
  <2>3. \A i \in DOMAIN running' : (i \in DOMAIN running /\ running'[i] = running[i]) \/ running'[i] = c
    BY <1>1, <1>2
  <2> QED BY <2>1, <2>2, <2>3 DEF On
<1>6. Rank(Top) < Rank(c)
  <2>1. Top # "nmi" \/ c # "nmi"
    BY <1>1 DEF Handlers
  <2> QED BY <1>1, <2>1 DEF Rank, Handlers
<1>7. ASSUME NEW i \in DOMAIN running', NEW j \in DOMAIN running', i < j
      PROVE  Rank(running'[i]) < Rank(running'[j])
  <2>1. i \in DOMAIN running /\ running'[i] = running[i]
    BY <1>1, <1>2, <1>7
  <2>2. CASE j \in DOMAIN running
    BY <1>1, <1>2, <1>7, <2>1, <2>2 DEF Shape
  <2>3. CASE j = Len(running) + 1
    <3>1. On(running[i])
      BY <2>1 DEF On
    <3>2. \A d \in {"task"} \cup Handlers : Rank(d) \in 0 .. 3
      BY DEF Rank, Handlers
    <3>3. Rank(running[i]) \in 0 .. 3 /\ Rank(Top) \in 0 .. 3 /\ Rank(c) \in 0 .. 3
      BY <1>1, <3>1, <3>2
    <3>4. Rank(running[i]) <= Rank(Top)
      BY <1>1, <3>1
    <3>5. running'[j] = c
      BY <1>2, <2>3
    <3> QED BY <1>6, <2>1, <3>3, <3>4, <3>5
  <2> QED BY <1>1, <1>2, <2>2, <2>3
<1>8. running' # <<>> /\ running'[1] = "task"
  BY <1>1, <1>2 DEF Shape
<1>9. Shape(running')
  BY <1>2, <1>7, <1>8 DEF Shape
<1> QED BY <1>3, <1>4, <1>5, <1>9

LEMMA PopShape ==
    ASSUME Shape(running), Top = "irq", running' = SubSeq(running, 1, Len(running) - 1)
    PROVE  /\ Shape(running') /\ Top' = running[Len(running) - 1]
           /\ Len(running') = Len(running) - 1
           /\ \A d : On(d)' => On(d) /\ d # "irq" /\ d # "nmi"
<1>1. /\ running \in Seq({"task"} \cup Handlers) /\ Len(running) \in Nat /\ Len(running) > 1
      /\ DOMAIN running = 1 .. Len(running) /\ running[1] = "task"
      /\ running[Len(running)] = "irq"
      /\ running[Len(running) - 1] \in {"task", "exception"}
  BY ShapeIs DEF Shape
<1> DEFINE n == Len(running) - 1
<1>2. n \in Nat \ {0} /\ \A i \in 1 .. n : running[i] \in {"task"} \cup Handlers /\ i \in DOMAIN running
  BY <1>1
<1> HIDE DEF n
<1>3. /\ SubSeq(running, 1, n) \in Seq({"task"} \cup Handlers)
      /\ Len(SubSeq(running, 1, n)) = IF 1 <= n THEN n - 1 + 1 ELSE 0
      /\ \A i \in 1 .. n - 1 + 1 : SubSeq(running, 1, n)[i] = running[1 + i - 1]
  BY <1>2, SubSeqProperties
<1>4. running' = SubSeq(running, 1, n)
  BY DEF n
<1>5. /\ running' \in Seq({"task"} \cup Handlers) /\ Len(running') = n /\ DOMAIN running' = 1 .. n
      /\ \A i \in 1 .. n : running'[i] = running[i]
  BY <1>2, <1>3, <1>4
<1>6. Top' = running[n]
  BY <1>2, <1>5 DEF Top, Last
<1>7. ASSUME NEW i \in DOMAIN running', NEW j \in DOMAIN running', i < j
      PROVE  Rank(running'[i]) < Rank(running'[j])
  BY <1>2, <1>5, <1>7 DEF Shape
<1>8. Shape(running')
  <2>1. 1 \in 1 .. n
    BY <1>2
  <2>2. running'[1] = running[1]
    BY <1>5, <2>1
  <2>3. running' # <<>>
    BY <1>2, <1>5
  <2> QED BY <1>1, <1>5, <1>7, <2>2, <2>3 DEF Shape
<1>9. ASSUME NEW d, On(d)' PROVE On(d) /\ d # "irq" /\ d # "nmi"
  <2>1. PICK i \in 1 .. n : running[i] = d /\ i \in DOMAIN running
    BY <1>2, <1>5, <1>9 DEF On
  <2>2. Rank(d) < Rank("irq")
    <3>1. Len(running) \in DOMAIN running /\ i < Len(running)
      BY <1>1, <1>2 DEF n
    <3> QED BY <1>1, <2>1, <3>1 DEF Shape
  <2> QED BY <2>1, <2>2 DEF On, Rank
<1> QED BY <1>5, <1>6, <1>8, <1>9 DEF n

-----------------------------------------------------------------------------
(***************************************************************************)
(* Delivery.                                                               *)
(***************************************************************************)
LEMMA RspBound ==
    ASSUME Typed, NEW c \in {"task"} \cup Handlers, c \in Handlers => Entered(c)
    PROVE  Rsp(c) \in 0 .. 26
<1>1. CASE c = "task"
  BY <1>1 DEF Rsp
<1>2. CASE c \in Handlers
  <2> DEFINE v == vector[c]
             n == at[c].n
  <2>1. n \in 0 .. 20
    BY <1>2 DEF Typed
  <2>2. /\ at[c].phase = "stub" => n <= Len(StubPushes(v))
        /\ at[c].phase = "restore" => n <= 17
    BY <1>2 DEF Entered
  <2>3. /\ Len(StubPushes(v)) \in 0 .. 19 /\ Len(CpuFrame(v)) \in {5, 6}
        /\ HasStub(v) => Len(CpuFrame(v)) + Len(StubPushes(v)) = 24
        /\ ~HasStub(v) => Len(CpuFrame(v)) = 5 /\ Len(StubPushes(v)) = 0
    BY StubLength
  <2>4. /\ Rsp(c) = RspOf(v, at[c].phase, n)
        /\ at[c].phase = "stub" => Rsp(c) = Len(CpuFrame(v)) + n
        /\ at[c].phase = "restore" => Rsp(c) = 24 - n
        /\ at[c].phase \notin {"stub", "restore"} => Rsp(c) \in {5, 6, 25, 26}
    BY <1>2 DEF Rsp, RspOf, Handlers
  <2> HIDE DEF v, n
  <2>5. CASE at[c].phase = "stub"
    <3>1. Len(CpuFrame(v)) = 5 \/ Len(CpuFrame(v)) = 6
      BY <2>3
    <3>2. Rsp(c) = Len(CpuFrame(v)) + n /\ n <= Len(StubPushes(v)) /\ Len(StubPushes(v)) \in Nat
      BY <2>2, <2>3, <2>4, <2>5
    <3>3. CASE HasStub(v)
      <4>1. Len(CpuFrame(v)) + Len(StubPushes(v)) = 24
        BY <2>3, <3>3
      <4>2. \A a, b, m \in Nat : a + b = 24 /\ m <= b => a + m \in 0 .. 26
        OBVIOUS
      <4>3. Len(CpuFrame(v)) \in Nat /\ n \in Nat
        BY <2>1, <3>1
      <4>4. Len(CpuFrame(v)) + n \in 0 .. 26
        BY <3>2, <4>1, <4>2, <4>3
      <4> QED BY <3>2, <4>4
    <3>4. CASE ~HasStub(v)
      <4>1. n = 0
        BY <2>1, <2>3, <3>2, <3>4
      <4> QED BY <3>1, <3>2, <4>1
    <3> QED BY <3>3, <3>4
  <2>6. CASE at[c].phase = "restore"
    BY <2>1, <2>2, <2>4, <2>6
  <2>7. CASE at[c].phase \notin {"stub", "restore"}
    BY <2>4, <2>7
  <2> QED BY <2>5, <2>6, <2>7
<1> QED BY <1>1, <1>2

\* What lies under the running context is as it was.
LEMMA RspSame ==
    ASSUME NEW c \in {"task"} \cup Handlers, c \in Handlers => at'[c] = at[c] /\ vector'[c] = vector[c]
    PROVE  Rsp(c)' = Rsp(c) /\ (c \in Handlers => (Entered(c)' <=> Entered(c)))
  BY DEF Rsp, Entered, Handlers

LEMMA KindIs ==
    /\ \A v \in Exceptions : Kind(v) = "exception" /\ ~ClearsIF(v) /\ v \notin IRQs /\ v # NMI
    /\ \A v \in IRQs : Kind(v) = "irq" /\ ClearsIF(v) /\ v # NMI /\ HasStub(v) /\ v \notin WithErrorCode
    /\ Kind(NMI) = "nmi" /\ ClearsIF(NMI) /\ HasStub(NMI) /\ NMI \notin WithErrorCode
    /\ NMI \notin IRQs
  BY VectorAssumption DEF Kind, ClearsIF, NMI, HasStub, WithErrorCode

LEMMA DeliverInv ==
    ASSUME IInv, NEW v, NEW c \in Handlers, c = Kind(v), Deliver(v),
           v \in CASE c = "exception" -> Exceptions [] c = "irq" -> IRQs [] c = "nmi" -> {NMI},
           c = "exception" => Top = "task",
           c = "irq" => IFlag,
           c = "nmi" => ~On("nmi")
    PROVE  IInv'
<1>1. Typed /\ EnteredInv /\ RspInv /\ MaskInv /\ SceneInv /\ FrameInv /\ SavedInv
  BY DEF IInv
<1>2. /\ Shape(running) /\ Top \in {"task"} \cup Handlers /\ (Top \in Handlers => On(Top))
      /\ \A d : On(d) => d \in {"task"} \cup Handlers /\ Rank(d) <= Rank(Top)
  BY <1>1, ShapeIs DEF Typed
<1> DEFINE frame == CpuFrame(v)
<1>3. /\ ist' = [d \in 1 .. StackWords |->
                    IF d \in DOMAIN frame
                    THEN IF frame[d] = "error" THEN <<"cpu", "error">> ELSE Own(Top, frame[d])
                    ELSE ist[d]]
      /\ depth' = Len(frame)
      /\ running' = Append(running, c)
      /\ vector' = [vector EXCEPT ![c] = v]
      /\ at' = [at EXCEPT ![c] = Phase("stub", 0)]
      /\ IFlag' = (IFlag /\ ~ClearsIF(v))
      /\ scene' = [scene EXCEPT ![c] = [of |-> Top, depth |-> depth, regs |-> regs, IFlag |-> IFlag]]
      /\ regs' = regs
  BY DEF Deliver, Goto
<1>4. /\ DOMAIN frame = 1 .. Len(frame) /\ Len(frame) \in {5, 6} /\ frame[5] = "rip"
      /\ v \in WithErrorCode => Len(frame) = 6 /\ frame[6] = "error"
  BY CpuFrameIs
<1> HIDE DEF frame
<1>5. /\ DOMAIN ist' = 1 .. StackWords /\ ist'[5] = Own(Top, "rip")
      /\ v \in WithErrorCode => ist'[6] = <<"cpu", "error">>
  <2>1. DOMAIN ist' = 1 .. StackWords
    BY <1>3
  <2>2. 5 \in 1 .. StackWords /\ 6 \in 1 .. StackWords /\ 5 \in DOMAIN frame
    BY <1>4 DEF StackWords
  <2>3. ist'[5] = Own(Top, "rip")
    BY <1>3, <1>4, <2>2
  <2>4. v \in WithErrorCode => 6 \in DOMAIN frame
    BY <1>4
  <2>5. v \in WithErrorCode => ist'[6] = <<"cpu", "error">>
    BY <1>3, <1>4, <2>2, <2>4
  <2> QED BY <2>1, <2>3, <2>5
<1>6. /\ at'[c] = Phase("stub", 0) /\ vector'[c] = v
      /\ scene'[c] = [of |-> Top, depth |-> depth, regs |-> regs, IFlag |-> IFlag]
      /\ DOMAIN scene' = Handlers
      /\ \A d \in Handlers \ {c} : at'[d] = at[d] /\ vector'[d] = vector[d] /\ scene'[d] = scene[d]
      /\ at'[c].phase = "stub" /\ at'[c].n = 0
      /\ scene'[c].of = Top /\ scene'[c].depth = depth /\ scene'[c].regs = regs
      /\ scene'[c].IFlag = IFlag
  BY <1>1, <1>3 DEF Typed, Phase
<1>7. /\ Shape(running') /\ Top' = c
      /\ \A d : On(d)' <=> On(d) \/ d = c
      /\ running'[Len(running') - 1] = Top
  <2>1. c = "irq" => Top \in {"task", "exception"}
    BY <1>1, <1>2 DEF MaskInv, Handlers
  <2> QED BY <1>2, <1>3, <2>1, PushShape
<1>8. depth \in 0 .. 26
  <2>1. Top \in Handlers => Entered(Top)
    BY <1>1, <1>2 DEF EnteredInv
  <2> QED BY <1>1, <1>2, <2>1, RspBound DEF RspInv
<1>9. Typed'
  <2>1. v \in Exceptions \cup IRQs \cup {NMI, 0}
    BY DEF Handlers
  <2>2. /\ at' \in [Handlers -> [phase : {"none", "stub", "handler", "printing", "loop",
                                          "restore", "wild"}, n : 0 .. 20]]
        /\ vector' \in [Handlers -> Exceptions \cup IRQs \cup {NMI, 0}]
    <3>1. Phase("stub", 0) \in [phase : {"none", "stub", "handler", "printing", "loop",
                                          "restore", "wild"}, n : 0 .. 20]
      BY DEF Phase
    <3> QED BY <1>1, <1>3, <2>1, <3>1 DEF Typed
  <2>3. regs' = [r \in Regs |-> regs'[r]] /\ IFlag' \in BOOLEAN
    <3>1. IFlag \in BOOLEAN
      BY <1>1 DEF Typed
    <3>2. (IFlag /\ ~ClearsIF(v)) \in BOOLEAN
      OBVIOUS
    <3>3. IFlag' \in BOOLEAN
      BY <1>3, <3>2, Zenon
    <3> QED BY <1>1, <1>3, <3>3 DEF Typed
  <2>4. ASSUME NEW d \in Handlers
        PROVE  /\ scene'[d] = [of |-> scene'[d].of, depth |-> scene'[d].depth,
                               regs |-> scene'[d].regs, IFlag |-> scene'[d].IFlag]
               /\ scene'[d].depth \in 0 .. 26 /\ scene'[d].IFlag \in BOOLEAN
               /\ scene'[d].regs = [r \in Regs |-> scene'[d].regs[r]]
    <3>1. CASE d = c
      BY <1>1, <1>6, <1>8, <3>1 DEF Typed
    <3>2. CASE d # c
      BY <1>1, <1>6, <3>2 DEF Typed
    <3> QED BY <3>1, <3>2
  <2> QED BY <1>5, <1>6, <1>7, <2>2, <2>3, <2>4 DEF Typed
<1>10. Entered(c)'
  <2>1. 0 <= Len(StubPushes(v))
    BY StubLength
  <2> QED BY <1>6, <2>1 DEF Entered
<1>11. \A d \in Handlers : d # c => Entered(d)' <=> Entered(d)
  BY <1>6, RspSame
<1>12. EnteredInv'
  BY <1>1, <1>7, <1>10, <1>11 DEF EnteredInv
<1>13. RspInv'
  <2>1. Rsp(c)' = Len(frame) + 0
    BY <1>6 DEF Rsp, RspOf, frame, Handlers
  <2> QED BY <1>3, <1>4, <1>7, <2>1 DEF RspInv
<1>14. MaskInv'
  <2>1. IFlag' => IFlag /\ c = "exception"
    BY <1>3, KindIs DEF Handlers
  <2>2. IFlag' => ~On("irq")' /\ ~On("nmi")'
    BY <1>1, <1>7, <2>1 DEF MaskInv
  <2>3. ASSUME On("exception")', ~scene'["exception"].IFlag PROVE ~IFlag' /\ ~On("irq")'
    <3>1. CASE c = "exception"
      <4>1. ~IFlag
        BY <1>6, <2>3, <3>1
      <4>2. Top = "task"
        BY <3>1
      <4>3. ~On("irq")
        BY <1>2, <4>2 DEF Rank
      <4> QED BY <1>3, <1>7, <3>1, <4>1, <4>3
    <3>2. CASE c # "exception"
      <4>1. On("exception") /\ ~scene["exception"].IFlag
        BY <1>6, <1>7, <2>3, <3>2 DEF Handlers
      <4>2. ~IFlag /\ ~On("irq")
        BY <1>1, <4>1 DEF MaskInv
      <4> QED BY <1>3, <1>7, <4>2
    <3> QED BY <3>1, <3>2
  <2> QED BY <2>2, <2>3 DEF MaskInv
<1>15. SceneInv'
  <2> SUFFICES ASSUME c = "irq"
               PROVE  /\ scene'["irq"].of = running'[Len(running') - 1]
                      /\ scene'["irq"].depth = Rsp(scene["irq"].of)'
                      /\ scene'["irq"].IFlag
    BY <1>7 DEF SceneInv
  <2>1. Top # "irq"
    BY <1>1, <1>2 DEF MaskInv, Handlers
  <2>2. Rsp(Top) = depth
    BY <1>1 DEF RspInv
  <2>3. \A t \in {"task"} \cup Handlers : t # "irq" => Rsp(t)' = Rsp(t)
    BY <1>6, RspSame
  <2>4. \A t \in {"task"} \cup Handlers : t = Top => Rsp(t)' = depth
    BY <2>1, <2>2, <2>3
  <2>5. PICK t \in {"task"} \cup Handlers : t = Top
    BY <1>2
  <2>6. scene'["irq"].of = t
    BY <1>6, <2>5
  <2>7. Rsp(scene["irq"].of)' = Rsp(t)'
    BY <2>6 DEF Rsp
  <2> QED BY <1>6, <1>7, <2>4, <2>5, <2>7
<1>16. FrameInv'
  <2>2. \A d \in Handlers : (Top' = d) => d = c
    BY <1>7
  <2>3. ist'[5] = Own(scene'[c].of, "rip")
    BY <1>5, <1>6
  <2> QED BY <1>5, <1>6, <2>2, <2>3 DEF FrameInv
<1>17. SavedInv'
  <2> SUFFICES ASSUME c = "irq" PROVE SavedInv'
    BY <1>7 DEF SavedInv
  <2>1. at'["irq"].phase = "stub" /\ at'["irq"].n = 0 /\ scene'["irq"].regs = regs'
    BY <1>3, <1>6
  <2> QED BY <2>1 DEF SavedInv
<1> QED BY <1>9, <1>12, <1>13, <1>14, <1>15, <1>16, <1>17 DEF IInv

-----------------------------------------------------------------------------
(***************************************************************************)
(* The running handler's own steps.                                        *)
(***************************************************************************)
Phases == {"none", "stub", "handler", "printing", "loop", "restore", "wild"}

LEMMA Inside ==
    ASSUME IInv, NEW c \in Handlers, c = Top, NEW p \in Phases, NEW n \in 0 .. 20, Goto(c, p, n),
           UNCHANGED <<running, vector, IFlag, scene>>,
           DOMAIN ist' = 1 .. StackWords, regs' = [r \in Regs |-> regs'[r]],
           p \in IF c = "irq" THEN {"stub", "handler", "restore"}
                 ELSE {"stub", "handler", "printing", "loop", "wild"},
           p = "stub" => n <= Len(StubPushes(vector[c])),
           p = "restore" => n <= 17,
           depth' = RspOf(vector[c], p, n)
    PROVE  /\ Typed' /\ EnteredInv' /\ RspInv' /\ MaskInv' /\ SceneInv'
           /\ Top' = c /\ at'[c].phase = p /\ at'[c].n = n
<1>1. Typed /\ EnteredInv /\ RspInv /\ MaskInv /\ SceneInv
  BY DEF IInv
<1>2. /\ at' = [at EXCEPT ![c] = Phase(p, n)] /\ at'[c] = Phase(p, n)
      /\ at'[c].phase = p /\ at'[c].n = n
      /\ \A d \in Handlers \ {c} : at'[d] = at[d]
  BY <1>1 DEF Goto, Typed, Phase
<1>3. Top' = c /\ \A d : On(d)' <=> On(d)
  BY DEF Top, On
<1>4. Typed'
  <2>1. Phase(p, n) \in [phase : Phases, n : 0 .. 20]
    BY DEF Phase
  <2>2. at' \in [Handlers -> [phase : Phases, n : 0 .. 20]]
    BY <1>1, <1>2, <2>1 DEF Typed, Phases
  <2> QED BY <1>1, <2>2 DEF Typed, Phases
<1>5. EnteredInv'
  <2>1. On(c) /\ Entered(c)
    <3>1. On(c)
      BY <1>1, ShapeIs DEF Typed
    <3> QED BY <1>1, <3>1 DEF EnteredInv
  <2>2. Entered(c)'
    BY <1>2, <2>1 DEF Entered
  <2>3. \A d \in Handlers : d # c => Entered(d)' <=> Entered(d)
    BY <1>2, RspSame
  <2> QED BY <1>1, <1>3, <2>2, <2>3 DEF EnteredInv
<1>6. RspInv'
  BY <1>2, <1>3 DEF RspInv, Rsp, Handlers
<1>7. MaskInv'
  BY <1>1, <1>3 DEF MaskInv
<1>8. SceneInv'
  <2> SUFFICES ASSUME c = "irq" PROVE SceneInv'
    BY <1>3 DEF SceneInv
  <2>1. /\ scene["irq"].of = running[Len(running) - 1]
        /\ scene["irq"].depth = Rsp(scene["irq"].of) /\ scene["irq"].IFlag
    BY <1>1 DEF SceneInv
  <2>2. PICK t \in {"task", "exception"} : t = scene["irq"].of
    BY <1>1, <2>1, ShapeIs DEF Typed
  <2>3. Rsp(t)' = Rsp(t)
    BY <1>2, <2>2, RspSame DEF Handlers
  <2>4. Rsp(scene["irq"].of)' = Rsp(t)' /\ Rsp(scene["irq"].of) = Rsp(t)
    BY <2>2 DEF Rsp
  <2> QED BY <2>1, <2>3, <2>4 DEF SceneInv
<1> QED BY <1>2, <1>3, <1>4, <1>5, <1>6, <1>7, <1>8

\* What is known of the running handler.
LEMMA TopIs ==
    ASSUME IInv, NEW c \in Handlers, c = Top
    PROVE  /\ Entered(c) /\ depth = RspOf(vector[c], at[c].phase, at[c].n)
           /\ at[c].n \in 0 .. 20 /\ DOMAIN ist = 1 .. StackWords
           /\ regs = [r \in Regs |-> regs[r]]
<1>1. Typed /\ EnteredInv /\ RspInv
  BY DEF IInv
<1>2. Entered(c)
  BY <1>1, ShapeIs DEF Typed, EnteredInv
<1>3. depth = RspOf(vector[c], at[c].phase, at[c].n)
  BY <1>1 DEF RspInv, Rsp, Handlers
<1> QED BY <1>1, <1>2, <1>3 DEF Typed

LEMMA CallPrintkInv ==
    ASSUME IInv, CallPrintk
    PROVE  IInv'
<1>1. PICK c \in Handlers : c = Top /\ c \in {"exception", "nmi"}
  BY DEF CallPrintk, Handlers
<1>2. /\ at[c].phase = "handler" /\ Goto(c, "printing", 0)
      /\ ist' = [ist EXCEPT ![depth + 1] = Own(c, "handler")] /\ depth' = depth + 1
      /\ regs' = [r \in Regs |-> IF r \in CallerSaved THEN Junk ELSE regs[r]]
      /\ UNCHANGED <<running, vector, IFlag, scene>>
  BY <1>1 DEF CallPrintk
<1>3. depth = RspOf(vector[c], at[c].phase, at[c].n) /\ DOMAIN ist = 1 .. StackWords
  BY <1>1, TopIs
<1>4. DOMAIN ist' = 1 .. StackWords /\ regs' = [r \in Regs |-> regs'[r]]
  BY <1>2, <1>3
<1>5. depth' = RspOf(vector[c], "printing", 0)
  BY <1>2, <1>3 DEF RspOf
<1>6. /\ Typed' /\ EnteredInv' /\ RspInv' /\ MaskInv' /\ SceneInv'
      /\ Top' = c /\ at'[c].phase = "printing" /\ at'[c].n = 0
  BY <1>1, <1>2, <1>4, <1>5, Inside DEF Phases
<1>7. FrameInv'
  BY <1>6 DEF FrameInv
<1>8. SavedInv'
  BY <1>1, <1>6 DEF SavedInv
<1> QED BY <1>6, <1>7, <1>8 DEF IInv

LEMMA PrintReturnInv ==
    ASSUME IInv, PrintReturn
    PROVE  IInv'
<1>1. PICK c \in Handlers : c = Top /\ c \in {"exception", "nmi"}
  BY DEF PrintReturn, Handlers
<1>2. PICK p \in {"loop", "wild"} :
          /\ at[c].phase = "printing" /\ Goto(c, p, 0) /\ depth' = depth - 1
          /\ UNCHANGED <<running, vector, ist, regs, IFlag, scene>>
  BY <1>1 DEF PrintReturn
<1>3. /\ depth = RspOf(vector[c], at[c].phase, at[c].n) /\ DOMAIN ist = 1 .. StackWords
      /\ regs = [r \in Regs |-> regs[r]]
  BY <1>1, TopIs
<1>4. depth' = RspOf(vector[c], p, 0)
  BY <1>2, <1>3 DEF RspOf
<1>5. DOMAIN ist' = 1 .. StackWords /\ regs' = [r \in Regs |-> regs'[r]]
  BY <1>2, <1>3
<1>6. /\ Typed' /\ EnteredInv' /\ RspInv' /\ MaskInv' /\ SceneInv'
      /\ Top' = c /\ at'[c].phase = p /\ at'[c].n = 0
  BY <1>1, <1>2, <1>4, <1>5, Inside DEF Phases
<1>7. FrameInv'
  BY <1>2, <1>6 DEF FrameInv
<1>8. SavedInv'
  BY <1>1, <1>6 DEF SavedInv
<1> QED BY <1>6, <1>7, <1>8 DEF IInv

LEMMA DoIRQInv ==
    ASSUME IInv, DoIRQ
    PROVE  IInv'
<1>1. PICK c \in Handlers : c = Top /\ c = "irq"
  BY DEF DoIRQ, Handlers
<1>2. /\ at[c].phase = "handler" /\ Goto(c, "restore", 0)
      /\ ist' = [ist EXCEPT ![depth + 1] = Own("irq", "handler")] /\ depth' = depth - 1
      /\ regs' = [r \in Regs |-> IF r \in CallerSaved THEN Junk ELSE regs[r]]
      /\ UNCHANGED <<running, vector, IFlag, scene>>
  BY <1>1 DEF DoIRQ
<1>3. /\ Entered(c) /\ depth = RspOf(vector[c], at[c].phase, at[c].n) /\ DOMAIN ist = 1 .. StackWords
  BY <1>1, TopIs
<1>4. HasStub(vector[c])
  BY <1>1, <1>3, KindIs DEF Entered
<1>5. depth = 25
  BY <1>2, <1>3, <1>4 DEF RspOf
<1>6. depth' = RspOf(vector[c], "restore", 0)
  BY <1>2, <1>5 DEF RspOf
<1>7. DOMAIN ist' = 1 .. StackWords /\ regs' = [r \in Regs |-> regs'[r]]
  BY <1>2, <1>3
<1>8. /\ Typed' /\ EnteredInv' /\ RspInv' /\ MaskInv' /\ SceneInv'
      /\ Top' = c /\ at'[c].phase = "restore" /\ at'[c].n = 0
  BY <1>1, <1>2, <1>6, <1>7, Inside DEF Phases
<1>9. \A d \in 1 .. 24 : ist'[d] = ist[d]
  BY <1>2, <1>3, <1>5 DEF StackWords
<1>10. FrameInv'
  <2>1. ist[5] = Own(scene[c].of, "rip")
    BY <1>1, <1>2, <1>4 DEF IInv, FrameInv, Kept
  <2>2. ist'[5] = Own(scene'[c].of, "rip")
    BY <1>2, <1>9, <2>1
  <2> QED BY <1>8, <2>2 DEF FrameInv
<1>11. SavedInv'
  <2> DEFINE S == scene["irq"].regs
  <2>1. ist[8] = S["rax"] /\ \A j \in 1 .. 16 : ist[8 + j] = S[General[j]]
    BY <1>1, <1>2 DEF IInv, SavedInv
  <2>2. ist'[8] = S["rax"] /\ \A j \in 1 .. 16 : ist'[8 + j] = S[General[j]]
    BY <1>9, <2>1
  <2> HIDE DEF S
  <2>3. S = scene'["irq"].regs
    BY <1>2 DEF S
  <2> QED BY <1>1, <1>8, <2>2, <2>3 DEF SavedInv
<1> QED BY <1>8, <1>10, <1>11 DEF IInv

LEMMA PopInv ==
    ASSUME IInv, Pop
    PROVE  IInv'
<1>1. PICK c \in Handlers : c = Top /\ c = "irq"
  BY DEF Pop, Handlers
<1> DEFINE n == at[c].n + 1
           name == RestorePops[n]
<1>2. /\ at[c].phase = "restore" /\ Goto(c, "restore", n) /\ n <= 17
      /\ regs' = IF name \in {"es", "ds"}
                 THEN [regs EXCEPT ![name] = ist[depth], !.rax = ist[depth]]
                 ELSE [regs EXCEPT ![name] = ist[depth]]
      /\ depth' = depth - 1
      /\ UNCHANGED <<running, vector, ist, IFlag, scene>>
  BY <1>1, RestoreIs DEF Pop
<1>3. /\ depth = RspOf(vector[c], at[c].phase, at[c].n) /\ DOMAIN ist = 1 .. StackWords
      /\ at[c].n \in 0 .. 20 /\ regs = [r \in Regs |-> regs[r]]
  BY <1>1, TopIs
<1>4. n \in 1 .. 17 /\ depth = 25 - n /\ n - 1 = at[c].n
  <2>1. PICK m \in 0 .. 20 : m = at[c].n
    BY <1>3
  <2>2. depth = 24 - m
    BY <1>2, <1>3, <2>1 DEF RspOf
  <2>3. n = m + 1 /\ n <= 17
    BY <1>2, <2>1
  <2> HIDE DEF n, name
  <2>4. n \in 1 .. 17
    BY <2>3
  <2>5. n - 1 = m
    BY <2>3
  <2>6. depth = 25 - n
    BY <2>2, <2>3
  <2> QED BY <2>1, <2>4, <2>5, <2>6
<1> HIDE DEF n
<1>5. name \in Regs /\ (name \in {"es", "ds"} => n < 17 /\ name # "rax")
  <2>1. CASE n = 17
    BY <2>1, RestoreIs, RegsAre
  <2>2. CASE n \in 1 .. 16
    <3>1. 17 - n \in 1 .. 16 /\ name = General[17 - n]
      BY <2>2, RestoreIs
    <3>2. name \in Names
      BY <3>1, GeneralIs
    <3> QED BY <2>2, <3>2, RegsAre
  <2> QED BY <1>4, <2>1, <2>2
<1>6. depth' = RspOf(vector[c], "restore", n)
  <2> HIDE DEF name
  <2>1. \A a \in 1 .. 17 : 25 - a - 1 = 24 - a
    OBVIOUS
  <2>2. depth' = 25 - n - 1
    BY <1>2, <1>4
  <2>3. depth' = 24 - n
    BY <1>4, <2>1, <2>2
  <2> QED BY <2>3 DEF RspOf
<1> DEFINE S == scene["irq"].regs
<1>7. /\ ist[8] = S["rax"] /\ (\A j \in 1 .. 16 : ist[8 + j] = S[General[j]])
      /\ \A j \in 1 .. n - 1 : regs[RestorePops[j]] = S[RestorePops[j]]
  BY <1>1, <1>2, <1>4 DEF IInv, SavedInv
<1>8. ist[depth] = S[name]
  <2>1. CASE n = 17
    BY <1>4, <1>7, <2>1, RestoreIs
  <2>2. CASE n \in 1 .. 16
    <3>1. 17 - n \in 1 .. 16 /\ name = General[17 - n] /\ depth = 8 + (17 - n)
      BY <1>4, <2>2, RestoreIs
    <3> QED BY <1>7, <3>1
  <2> QED BY <1>4, <2>1, <2>2
<1> HIDE DEF name
<1>9. /\ regs' = [r \in Regs |-> regs'[r]] /\ regs'[name] = S[name]
      /\ \A r \in Regs : r # name /\ r # "rax" => regs'[r] = regs[r]
  <2>1. DOMAIN regs = Regs /\ "rax" \in Regs
    BY <1>3, RegsAre
  <2>2. CASE name \in {"es", "ds"}
    <3>1. regs' = [[regs EXCEPT ![name] = ist[depth]] EXCEPT !["rax"] = ist[depth]]
      BY <1>2, <2>2
    <3>2. name # "rax"
      BY <1>5, <2>2
    <3> QED BY <1>5, <1>8, <2>1, <3>1, <3>2
  <2>3. CASE name \notin {"es", "ds"}
    <3>1. regs' = [regs EXCEPT ![name] = ist[depth]]
      BY <1>2, <2>3
    <3> QED BY <1>5, <1>8, <2>1, <3>1
  <2> QED BY <2>2, <2>3
<1>10. DOMAIN ist' = 1 .. StackWords /\ n \in 0 .. 20
  <2>1. n \in 0 .. 20
    BY <1>4
  <2> QED BY <1>2, <1>3, <2>1
<1>11. /\ Typed' /\ EnteredInv' /\ RspInv' /\ MaskInv' /\ SceneInv'
       /\ Top' = c /\ at'[c].phase = "restore" /\ at'[c].n = n
  BY <1>1, <1>2, <1>6, <1>9, <1>10, Inside DEF Phases
<1>12. FrameInv'
  <2>1. Kept(c)' <=> Kept(c)
    BY <1>2 DEF Kept
  <2>2. Kept(c) => ist[5] = Own(scene[c].of, "rip")
    BY <1>1, <1>2 DEF IInv, FrameInv
  <2>3. Kept(c)' => ist'[5] = Own(scene'[c].of, "rip")
    BY <1>2, <2>1, <2>2
  <2> QED BY <1>11, <2>3 DEF FrameInv
<1>13. ASSUME NEW j \in 1 .. n PROVE regs'[RestorePops[j]] = S[RestorePops[j]]
  <2>1. CASE j = n
    BY <1>9, <2>1 DEF name
  <2>2. CASE j # n
    <3>1. j \in 1 .. n - 1 /\ j \in 1 .. 16 /\ 17 - j \in 1 .. 16
      BY <1>4, <2>2
    <3>2. RestorePops[j] = General[17 - j] /\ General[17 - j] \in Names
      BY <3>1, RestoreIs, GeneralIs
    <3>3. RestorePops[j] \in Regs /\ RestorePops[j] # "rax"
      BY <3>2, RegsAre
    <3>4. regs[RestorePops[j]] = S[RestorePops[j]]
      BY <1>7, <3>1
    <3> QED BY <1>9, <3>3, <3>4
  <2> QED BY <2>1, <2>2
<1>14. SavedInv'
  <2> HIDE DEF S
  <2>1. S = scene'["irq"].regs
    BY <1>2 DEF S
  <2> QED BY <1>1, <1>2, <1>7, <1>11, <1>13, <2>1 DEF SavedInv
<1> QED BY <1>11, <1>12, <1>14 DEF IInv

\* Where the pushes of the stubs stand: the last of Prefix is word 8.
LEMMA PrefixOf ==
    /\ \A v \in IRQs : /\ Len(CpuFrame(v)) = 5 /\ Len(Prefix(v)) = 3
                       /\ Prefix(v)[1] = "zero" /\ Prefix(v)[2] = "rax" /\ Prefix(v)[3] = "rax"
    /\ \A v \in Exceptions : HasStub(v) =>
          IF v \in WithErrorCode
          THEN Len(CpuFrame(v)) = 6 /\ Len(Prefix(v)) = 2 /\ Prefix(v)[1] = "func"
          ELSE Len(CpuFrame(v)) = 5 /\ Len(Prefix(v)) = 3 /\ Prefix(v)[1] = "zero" /\ Prefix(v)[2] = "func"
<1>1. ASSUME NEW v \in IRQs
      PROVE  /\ Len(CpuFrame(v)) = 5 /\ Len(Prefix(v)) = 3
             /\ Prefix(v)[1] = "zero" /\ Prefix(v)[2] = "rax" /\ Prefix(v)[3] = "rax"
  <2>1. v # NMI /\ v \notin WithErrorCode /\ v \notin NoPlaceholder
    BY KindIs DEF WithErrorCode, NoPlaceholder
  <2>2. Prefix(v) = <<"zero", "rax", "rax">>
    BY <2>1 DEF Prefix
  <2> QED BY <2>1, <2>2, CpuFrameIs
<1>2. ASSUME NEW v \in Exceptions, HasStub(v), v \in WithErrorCode
      PROVE  Len(CpuFrame(v)) = 6 /\ Len(Prefix(v)) = 2 /\ Prefix(v)[1] = "func"
  <2>1. Prefix(v) = <<"func", "rax">>
    BY <1>2, KindIs DEF Prefix, WithErrorCode, NoPlaceholder
  <2> QED BY <1>2, <2>1, CpuFrameIs
<1>3. ASSUME NEW v \in Exceptions, HasStub(v), v \notin WithErrorCode
      PROVE  Len(CpuFrame(v)) = 5 /\ Len(Prefix(v)) = 3 /\ Prefix(v)[1] = "zero" /\ Prefix(v)[2] = "func"
  <2>1. Prefix(v) = <<"zero", "func", "rax">>
    BY <1>3, KindIs DEF Prefix, WithErrorCode, NoPlaceholder
  <2> QED BY <1>3, <2>1, CpuFrameIs
<1> QED BY <1>1, <1>2, <1>3

LEMMA PushedIs ==
    ASSUME NEW c \in Handlers
    PROVE  /\ \A r \in Regs : Pushed(c, r) = regs[r]
           /\ Pushed(c, "zero") = Zero /\ Pushed(c, "func") = <<"func", vector[c]>>
<1>1. "zero" \notin Regs /\ "func" \notin Regs /\ "error" \notin Regs
  BY RegsAre DEF Names
<1>2. ASSUME NEW r \in Regs PROVE Pushed(c, r) = regs[r]
  BY <1>1 DEF Pushed
<1>3. Pushed(c, "zero") = Zero
  BY <1>1 DEF Pushed
<1>4. Pushed(c, "func") = <<"func", vector[c]>>
  BY <1>1 DEF Pushed
<1> QED BY <1>2, <1>3, <1>4

LEMMA PushInv ==
    ASSUME IInv, Push
    PROVE  IInv'
<1>1. PICK c \in Handlers : c = Top
  BY DEF Push
<1> DEFINE v == vector[c]
           n == at[c].n + 1
           L == Len(CpuFrame(v))
           P == Len(Prefix(v))
           S == scene["irq"].regs
           name == StubPushes(v)[n]
<1>2. /\ at[c].phase = "stub" /\ n <= Len(StubPushes(v))
      /\ ist' = [ist EXCEPT ![depth + 1] = Pushed(c, name)] /\ depth' = depth + 1
      /\ regs' = IF name \in {"es", "ds"} THEN [regs EXCEPT !.rax = regs[name]] ELSE regs
      /\ Goto(c, "stub", n)
      /\ UNCHANGED <<running, vector, IFlag, scene>>
  BY <1>1 DEF Push
<1>3. /\ Entered(c) /\ depth = RspOf(v, "stub", at[c].n)
      /\ at[c].n \in 0 .. 20 /\ DOMAIN ist = 1 .. StackWords
      /\ regs = [r \in Regs |-> regs[r]]
  BY <1>1, <1>2, TopIs
<1>4. HasStub(v)
  <2>1. ~HasStub(v) => Len(StubPushes(v)) = 0
    BY StubLength
  <2>2. ~(n <= 0)
    BY <1>3
  <2> QED BY <1>2, <2>1, <2>2
<1>5. /\ Len(StubPushes(v)) = P + 16 /\ P \in {2, 3} /\ L \in {5, 6} /\ L + (P + 16) = 24
      /\ \A i \in 1 .. P : name = Prefix(v)[n] \/ n # i
      /\ \A j \in 1 .. 16 : n = P + j => name = General[j]
      /\ \A i \in 1 .. P : Prefix(v)[i] \in PrefixNames
  <2>1. /\ Len(StubPushes(v)) = P + 16 /\ P \in {2, 3} /\ L \in {5, 6}
        /\ \A i \in 1 .. P : StubPushes(v)[i] = Prefix(v)[i] /\ Prefix(v)[i] \in PrefixNames
        /\ \A j \in 1 .. 16 : StubPushes(v)[P + j] = General[j]
    BY <1>4, StubIs, StubLength
  <2>2. L + Len(StubPushes(v)) = 24
    BY <1>4, FrameIs24
  <2> HIDE DEF n, L, P, v
  <2> QED BY <2>1, <2>2 DEF name
<1>6. depth = L + at[c].n
  BY <1>3 DEF RspOf
<1>7. at[c].n = n - 1 /\ n \in 1 .. 21
  <2>1. at[c].n \in 0 .. 20
    BY <1>3
  <2>2. \A k \in 0 .. 20 : k = (k + 1) - 1 /\ k + 1 \in 1 .. 21
    OBVIOUS
  <2> QED BY <2>1, <2>2
<1>8. v \in CASE c = "exception" -> Exceptions [] c = "irq" -> IRQs [] c = "nmi" -> {NMI}
  BY <1>3 DEF Entered
<1> HIDE DEF n, name
<1>9. L + P = 8 /\ n \in 1 .. 19 /\ depth + 1 = L + n
  <2>1. n <= P + 16
    BY <1>2, <1>5
  <2>2. depth = L + (n - 1)
    BY <1>6, <1>7
  <2> HIDE DEF L, P, v
  <2>3. L + P = 8
    BY <1>5
  <2>4. n \in 1 .. 19
    BY <1>5, <1>7, <2>1
  <2>5. \A l, k \in Nat : l + (k - 1) + 1 = l + k
    OBVIOUS
  <2>6. L \in Nat /\ n \in Nat
    BY <1>5, <2>4
  <2> QED BY <2>2, <2>3, <2>4, <2>5, <2>6
<1>10. n <= P => name = Prefix(v)[n] /\ name \in PrefixNames /\ name \notin {"es", "ds"}
  <2> SUFFICES ASSUME n <= P PROVE name = Prefix(v)[n] /\ name \in PrefixNames /\ name \notin {"es", "ds"}
    OBVIOUS
  <2>1. P \in Nat /\ n \in Nat
    BY <1>5, <1>9
  <2> HIDE DEF P, v
  <2>2. n \in 1 .. P
    BY <1>9, <2>1
  <2>3. name = Prefix(v)[n] /\ Prefix(v)[n] \in PrefixNames
    BY <1>5, <2>2
  <2> QED BY <2>3 DEF PrefixNames
<1> HIDE DEF L, P
<1>11. /\ DOMAIN ist' = 1 .. StackWords
       /\ \A k \in 1 .. StackWords : k = L + n => ist'[k] = Pushed(c, name)
       /\ \A k \in 1 .. StackWords : k # L + n => ist'[k] = ist[k]
  BY <1>2, <1>3, <1>9
<1>12. /\ regs' = [r \in Regs |-> regs'[r]]
       /\ \A r \in Regs \ {"rax"} : regs'[r] = regs[r]
       /\ n <= P => regs' = regs
  <2> HIDE DEF v
  <2>1. CASE name \in {"es", "ds"}
    BY <1>2, <1>3, <1>10, <2>1
  <2>2. CASE name \notin {"es", "ds"}
    BY <1>2, <1>3, <2>2
  <2> QED BY <2>1, <2>2
<1>13. /\ Typed' /\ EnteredInv' /\ RspInv' /\ MaskInv' /\ SceneInv'
       /\ Top' = c /\ at'[c].phase = "stub" /\ at'[c].n = n
  <2>1. n \in 0 .. 20
    BY <1>9
  <2>2. depth' = RspOf(v, "stub", n)
    BY <1>2, <1>9 DEF RspOf, L
  <2> QED BY <1>1, <1>2, <1>11, <1>12, <2>1, <2>2, Inside DEF Phases
<1>14. FrameInv'
  <2>1. Kept(c)' <=> Kept(c)
    BY <1>2 DEF Kept
  <2>2. L + n > 5 /\ (L = 6 => L + n > 6) /\ 5 \in 1 .. StackWords /\ 6 \in 1 .. StackWords /\ 7 \in 1 .. StackWords
    BY <1>5, <1>9 DEF StackWords
  <2>3. Kept(c) => ist'[5] = Own(scene'[c].of, "rip")
    <3>1. Kept(c) => ist[5] = Own(scene[c].of, "rip")
      BY <1>1, <1>2 DEF IInv, FrameInv
    <3>2. 5 # L + n
      BY <2>2
    <3> QED BY <1>2, <1>11, <2>2, <3>1, <3>2
  <2>4. ASSUME Kept(c), c = "exception", v \in WithErrorCode
        PROVE  ist'[6] = <<"cpu", "error">> /\ (n >= 1 => ist'[7] = <<"func", v>>)
    <3>1. v \in Exceptions
      BY <1>8, <2>4
    <3>2. L = 6 /\ P = 2 /\ Prefix(v)[1] = "func"
      BY <1>4, <2>4, <3>1, PrefixOf DEF L, P
    <3>3. ist[6] = <<"cpu", "error">> /\ (n - 1 >= 1 => ist[7] = <<"func", v>>)
      BY <1>1, <1>2, <1>7, <2>4 DEF IInv, FrameInv
    <3>4. ist'[6] = ist[6]
      BY <1>9, <1>11, <2>2, <3>2
    <3>5. CASE n = 1
      <4>1. 7 = L + n /\ name = "func"
        BY <1>10, <3>2, <3>5
      <4> QED BY <1>11, <2>2, <3>3, <3>4, <4>1, PushedIs
    <3>6. CASE n # 1
      <4>1. 7 # L + n /\ n - 1 >= 1
        BY <1>9, <3>2, <3>6
      <4> QED BY <1>11, <2>2, <3>3, <3>4, <4>1
    <3> QED BY <3>5, <3>6
  <2>5. ASSUME Kept(c), c = "exception", v \notin WithErrorCode
        PROVE  (n >= 1 => ist'[6] = Zero) /\ (n >= 2 => ist'[7] = <<"func", v>>)
    <3>1. v \in Exceptions
      BY <1>8, <2>5
    <3>2. L = 5 /\ P = 3 /\ Prefix(v)[1] = "zero" /\ Prefix(v)[2] = "func"
      BY <1>4, <2>5, <3>1, PrefixOf DEF L, P
    <3>3. (n - 1 >= 1 => ist[6] = Zero) /\ (n - 1 >= 2 => ist[7] = <<"func", v>>)
      BY <1>1, <1>2, <1>7, <2>5 DEF IInv, FrameInv
    <3>4. CASE n = 1
      <4>1. 6 = L + n /\ name = "zero" /\ ~(n >= 2)
        BY <1>10, <3>2, <3>4
      <4> QED BY <1>11, <2>2, <4>1, PushedIs
    <3>5. CASE n = 2
      <4>1. 7 = L + n /\ 6 # L + n /\ name = "func" /\ n - 1 >= 1
        BY <1>10, <3>2, <3>5
      <4> QED BY <1>11, <2>2, <3>3, <4>1, PushedIs
    <3>6. CASE n > 2
      <4>1. 7 # L + n /\ 6 # L + n /\ n - 1 >= 2 /\ n - 1 >= 1
        BY <1>9, <3>2, <3>6
      <4> QED BY <1>11, <2>2, <3>3, <4>1
    <3> QED BY <1>9, <3>4, <3>5, <3>6
  <2>6. vector'[c] = v
    BY <1>2
  <2> QED BY <1>13, <2>1, <2>3, <2>4, <2>5, <2>6 DEF FrameInv
<1>15. SavedInv'
  <2> SUFFICES ASSUME c = "irq" PROVE SavedInv'
    BY <1>13 DEF SavedInv
  <2>1. v \in IRQs
    BY <1>8
  <2>2. L = 5 /\ P = 3 /\ Prefix(v)[1] = "zero" /\ Prefix(v)[2] = "rax" /\ Prefix(v)[3] = "rax"
    BY <2>1, PrefixOf DEF L, P
  <2>3. /\ \A r \in Regs \ {"rax"} : regs[r] = S[r]
        /\ n - 1 <= 3 => regs["rax"] = S["rax"]
        /\ n - 1 >= 3 => ist[8] = S["rax"]
        /\ \A j \in 1 .. 16 : n - 1 >= 3 + j => ist[8 + j] = S[General[j]]
    BY <1>1, <1>2, <1>7 DEF IInv, SavedInv
  <2>4. S = scene'["irq"].regs
    BY <1>2
  <2> HIDE DEF S, v
  <2>5. \A r \in Regs \ {"rax"} : regs'[r] = S[r]
    BY <1>12, <2>3
  <2>6. n <= 3 => regs'["rax"] = S["rax"]
    <3>1. n <= 3 => n - 1 <= 3
      BY <1>9
    <3> QED BY <1>12, <2>2, <2>3, <3>1
  <2>7. n >= 3 => ist'[8] = S["rax"]
    <3>1. 8 \in 1 .. StackWords
      BY DEF StackWords
    <3>2. CASE n = 3
      <4>1. 8 = L + n /\ name = "rax" /\ n - 1 <= 3
        BY <1>10, <2>2, <3>2
      <4>2. Pushed(c, name) = regs["rax"]
        BY <4>1, PushedIs, RegsAre
      <4> QED BY <1>11, <2>3, <3>1, <4>1, <4>2
    <3>3. CASE n > 3
      <4>1. 8 # L + n /\ n - 1 >= 3
        BY <1>9, <2>2, <3>3
      <4> QED BY <1>11, <2>3, <3>1, <4>1
    <3> QED BY <1>9, <3>2, <3>3
  <2>8. ASSUME NEW j \in 1 .. 16, n >= 3 + j PROVE ist'[8 + j] = S[General[j]]
    <3>1. 8 + j \in 1 .. StackWords
      BY DEF StackWords
    <3>2. CASE n = 3 + j
      <4>1. 8 + j = L + n /\ n = P + j
        BY <2>2, <3>2
      <4>2. name = General[j] /\ General[j] \in Names
        BY <1>5, <4>1, GeneralIs DEF P
      <4>3. General[j] \in Regs \ {"rax"}
        BY <4>2, RegsAre
      <4>4. Pushed(c, name) = S[General[j]]
        BY <2>3, <4>2, <4>3, PushedIs
      <4> QED BY <1>11, <3>1, <4>1, <4>4
    <3>3. CASE n > 3 + j
      <4>1. 8 + j # L + n /\ n - 1 >= 3 + j
        BY <1>9, <2>2, <3>3
      <4> QED BY <1>11, <2>3, <3>1, <4>1
    <3> QED BY <1>9, <2>8, <3>2, <3>3
  <2> QED BY <1>13, <2>4, <2>5, <2>6, <2>7, <2>8 DEF SavedInv
<1> QED BY <1>13, <1>14, <1>15 DEF IInv

LEMMA CallInv ==
    ASSUME IInv, Call
    PROVE  IInv'
<1>1. PICK c \in Handlers : c = Top
  BY DEF Call
<1> DEFINE v == vector[c]
           n == at[c].n
           S == scene["irq"].regs
           rsi == IF c = "exception" THEN AtOffset(ERRCODE)
                  ELSE IF c = "nmi" THEN Zero ELSE <<"vector", v>>
           rdx == IF c = "exception" THEN AtOffset(FUNC) ELSE KernelDS
<1>2. /\ at[c].phase = "stub" /\ n = Len(StubPushes(v))
      /\ HasStub(v) => /\ regs' = [regs EXCEPT !.rax = Zero, !.ds = KernelDS, !.es = KernelDS,
                                               !.rdi = Own(c, "rsp"), !.rsi = rsi, !.rdx = rdx]
                       /\ ist' = [ist EXCEPT ![depth + 1] = Own(c, "return")]
                       /\ depth' = depth + 1
      /\ ~HasStub(v) => UNCHANGED <<regs, ist, depth>>
      /\ Goto(c, "handler", 0)
      /\ UNCHANGED <<running, vector, IFlag, scene>>
  BY <1>1 DEF Call
<1>3. /\ Entered(c) /\ depth = RspOf(v, "stub", n) /\ n \in 0 .. 20
      /\ DOMAIN ist = 1 .. StackWords /\ regs = [r \in Regs |-> regs[r]]
  BY <1>1, <1>2, TopIs
<1>4. v \in CASE c = "exception" -> Exceptions [] c = "irq" -> IRQs [] c = "nmi" -> {NMI}
  BY <1>3 DEF Entered
<1>5. HasStub(v) => depth = 24
  BY <1>2, <1>3, FrameIs24 DEF RspOf
<1>6. ~HasStub(v) => depth = 5
  <2> SUFFICES ASSUME ~HasStub(v) PROVE depth = 5
    OBVIOUS
  <2>1. Len(CpuFrame(v)) = 5 /\ Len(StubPushes(v)) = 0
    BY StubLength
  <2> QED BY <1>2, <1>3, <2>1 DEF RspOf
<1>7. depth' = RspOf(v, "handler", 0)
  BY <1>2, <1>5, <1>6 DEF RspOf
<1>8. DOMAIN ist' = 1 .. StackWords /\ \A k \in 1 .. 24 : HasStub(v) => ist'[k] = ist[k]
  <2>1. ASSUME HasStub(v)
        PROVE  DOMAIN ist' = 1 .. StackWords /\ \A k \in 1 .. 24 : ist'[k] = ist[k]
    <3>1. ist' = [ist EXCEPT ![25] = Own(c, "return")] /\ DOMAIN ist = 1 .. StackWords
      BY <1>2, <1>3, <1>5, <2>1
    <3> QED BY <3>1
  <2>2. CASE ~HasStub(v)
    BY <1>2, <1>3, <2>2
  <2> QED BY <2>1, <2>2
<1> HIDE DEF rsi, rdx
<1>9. regs' = [r \in Regs |-> regs'[r]]
  <2>1. HasStub(v) => regs' = [r \in Regs |-> regs'[r]]
    BY <1>2, <1>3
  <2> QED BY <1>2, <1>3, <2>1
<1>10. HasStub(v) => regs'.rdi = Own(c, "rsp") /\ regs'.rsi = rsi /\ regs'.rdx = rdx
  <2>1. "rdi" \in Regs /\ "rsi" \in Regs /\ "rdx" \in Regs
    BY RegsAre DEF Names
  <2>2. DOMAIN regs = Regs
    BY <1>3
  <2> QED BY <1>2, <2>1, <2>2
<1>11. /\ Typed' /\ EnteredInv' /\ RspInv' /\ MaskInv' /\ SceneInv'
       /\ Top' = c /\ at'[c].phase = "handler" /\ at'[c].n = 0
  <2>1. "handler" \in IF c = "irq" THEN {"stub", "handler", "restore"}
                      ELSE {"stub", "handler", "printing", "loop", "wild"}
    OBVIOUS
  <2>2. "handler" \in Phases /\ 0 \in 0 .. 20 /\ "handler" # "stub" /\ "handler" # "restore"
    BY DEF Phases
  <2> QED BY <1>1, <1>2, <1>7, <1>8, <1>9, <2>1, <2>2, Inside
<1>12. FrameInv'
  <2> SUFFICES ASSUME Kept(c)'
               PROVE  /\ ist'[5] = Own(scene'[c].of, "rip")
                      /\ regs'.rdi = Own(c, "rsp")
                      /\ regs'.rsi = CASE c = "irq" -> <<"vector", v>>
                                       [] c = "exception" /\ v \in WithErrorCode -> <<"cpu", "error">>
                                       [] OTHER -> Zero
                      /\ c = "exception" => regs'.rdx = <<"func", v>>
    <3>1. vector'[c] = v
      BY <1>2
    <3> HIDE DEF v
    <3> QED BY <1>11, <3>1 DEF FrameInv
  <2>1. Kept(c) /\ HasStub(v)
    BY <1>2 DEF Kept
  <2>2. ist[5] = Own(scene[c].of, "rip")
    BY <1>1, <1>2, <2>1 DEF IInv, FrameInv
  <2>3. ist'[5] = Own(scene'[c].of, "rip")
    BY <1>2, <1>8, <2>1, <2>2
  <2>4. CASE c = "exception"
    <3>1. v \in Exceptions
      BY <1>4, <2>4
    <3>2. rsi = ist[6] /\ rdx = ist[7]
      BY <1>5, <2>1, <2>4 DEF rsi, rdx, AtOffset, ERRCODE, FUNC
    <3>3. /\ v \in WithErrorCode => ist[6] = <<"cpu", "error">> /\ (n >= 1 => ist[7] = <<"func", v>>)
          /\ v \notin WithErrorCode => (n >= 1 => ist[6] = Zero) /\ (n >= 2 => ist[7] = <<"func", v>>)
      BY <1>1, <1>2, <2>1, <2>4 DEF IInv, FrameInv
    <3>4. n >= 2
      <4>1. n = Len(Prefix(v)) + 16 /\ Len(Prefix(v)) \in {2, 3}
        BY <1>2, <2>1, StubIs
      <4> HIDE DEF n, v
      <4> QED BY <4>1
    <3>5. n >= 1
      BY <1>3, <3>4
    <3> HIDE DEF n, v
    <3> QED BY <1>10, <2>1, <2>3, <2>4, <3>2, <3>3, <3>4, <3>5
  <2>5. CASE c # "exception"
    <3>1. c = "irq" \/ c = "nmi"
      BY <2>5 DEF Handlers
    <3>2. rsi = CASE c = "irq" -> <<"vector", v>>
                  [] c = "exception" /\ v \in WithErrorCode -> <<"cpu", "error">>
                  [] OTHER -> Zero
      BY <3>1 DEF rsi
    <3> QED BY <1>10, <2>1, <2>3, <2>5, <3>2
  <2> QED BY <2>4, <2>5
<1>13. SavedInv'
  <2> SUFFICES ASSUME c = "irq" PROVE SavedInv'
    BY <1>11 DEF SavedInv
  <2>1. v \in IRQs
    BY <1>4
  <2>2. HasStub(v)
    BY <2>1, KindIs
  <2>3. n = 19
    <3>1. Len(CpuFrame(v)) = 5
      BY <2>1, PrefixOf
    <3>2. Len(CpuFrame(v)) + Len(StubPushes(v)) = 24 /\ n = Len(StubPushes(v))
      BY <1>2, <2>2, FrameIs24
    <3> HIDE DEF n, v
    <3> QED BY <1>3, <3>1, <3>2
  <2>4. ist[8] = S["rax"] /\ \A j \in 1 .. 16 : ist[8 + j] = S[General[j]]
    <3>1. /\ n >= 3 => ist[8] = S["rax"]
          /\ \A j \in 1 .. 16 : n >= 3 + j => ist[8 + j] = S[General[j]]
      BY <1>1, <1>2 DEF IInv, SavedInv
    <3>2. n >= 3 /\ \A j \in 1 .. 16 : n >= 3 + j
      BY <2>3
    <3> QED BY <3>1, <3>2
  <2>5. S = scene'["irq"].regs
    BY <1>2
  <2> HIDE DEF S
  <2>6. ist'[8] = S["rax"] /\ \A j \in 1 .. 16 : ist'[8 + j] = S[General[j]]
    BY <1>8, <2>2, <2>4
  <2> QED BY <1>11, <2>5, <2>6 DEF SavedInv
<1> QED BY <1>11, <1>12, <1>13 DEF IInv

\* The iretq always finds the rip it was entered with, and everything restored.
LEMMA IretGoesBack ==
    ASSUME IInv, Iret
    PROVE  /\ Top = "irq" /\ running' = SubSeq(running, 1, Len(running) - 1)
           /\ depth' = scene["irq"].depth /\ IFlag' = scene["irq"].IFlag
           /\ UNCHANGED <<at, vector, ist, regs, scene>>
           /\ scene["irq"].of \in {"task", "exception"}
           /\ scene["irq"].of = running[Len(running) - 1]
           /\ regs = scene["irq"].regs
<1>1. PICK c \in Handlers : c = Top /\ c = "irq"
  BY DEF Iret, Handlers
<1> DEFINE of == scene["irq"].of
           S == scene["irq"].regs
<1>2. at[c].phase = "restore" /\ at[c].n = 17
  BY <1>1, RestoreIs DEF Iret
<1>3. depth = 7
  <2>1. depth = RspOf(vector[c], at[c].phase, at[c].n)
    BY <1>1, TopIs
  <2> QED BY <1>2, <2>1 DEF RspOf
<1>4. HasStub(vector[c])
  BY <1>1, TopIs, KindIs DEF Entered
<1>5. ist[5] = Own(of, "rip")
  BY <1>1, <1>2, <1>4 DEF IInv, FrameInv, Kept
<1>6. of \in {"task", "exception"} /\ of = running[Len(running) - 1]
  BY <1>1, ShapeIs DEF IInv, Typed, SceneInv
<1>7. /\ running' = SubSeq(running, 1, Len(running) - 1)
      /\ depth' = scene["irq"].depth /\ IFlag' = scene["irq"].IFlag
      /\ UNCHANGED <<at, vector, ist, regs, scene>>
  <2>1. depth - Skip = 5
    BY <1>3 DEF Skip
  <2> HIDE DEF of
  <2>2. ist[5][1] = of /\ ist[5] = Own(ist[5][1], "rip")
    BY <1>5 DEF Own
  <2>3. ist[5][1] \in {"task"} \cup Handlers
    BY <1>6, <2>2 DEF Handlers
  <2> QED BY <2>1, <2>2, <2>3 DEF Iret
<1>8. regs = S
  <2>1. \A j \in 1 .. 17 : regs[RestorePops[j]] = S[RestorePops[j]]
    BY <1>1, <1>2 DEF IInv, SavedInv
  <2>2. regs = [r \in Regs |-> regs[r]] /\ S = [r \in Regs |-> S[r]]
    BY DEF IInv, Typed, Handlers
  <2> HIDE DEF S
  <2>3. ASSUME NEW r \in Regs PROVE regs[r] = S[r]
    <3>1. CASE r = "rax"
      BY <2>1, <3>1, RestoreIs
    <3>2. CASE r # "rax"
      <4>1. PICK i \in 1 .. 16 : General[i] = r
        BY <3>2, RegsAre
      <4>2. 17 - i \in 1 .. 16 /\ 17 - (17 - i) = i
        OBVIOUS
      <4>3. RestorePops[17 - i] = r
        BY <4>1, <4>2, RestoreIs
      <4> QED BY <2>1, <4>2, <4>3
    <3> QED BY <3>1, <3>2
  <2> QED BY <2>2, <2>3
<1> QED BY <1>1, <1>6, <1>7, <1>8

LEMMA IretInv ==
    ASSUME IInv, Iret
    PROVE  IInv'
<1>1. Typed /\ EnteredInv /\ RspInv /\ MaskInv /\ SceneInv
  BY DEF IInv
<1>2. /\ Top = "irq" /\ running' = SubSeq(running, 1, Len(running) - 1)
      /\ depth' = scene["irq"].depth /\ IFlag' = scene["irq"].IFlag
      /\ UNCHANGED <<at, vector, ist, regs, scene>>
  BY IretGoesBack
<1>3. PICK c \in {"task", "exception"} : c = scene["irq"].of /\ c = running[Len(running) - 1]
  BY IretGoesBack
<1>4. On("irq")
  BY <1>1, <1>2, ShapeIs DEF Typed, Handlers
<1>5. Shape(running') /\ Top' = c /\ \A d : On(d)' => On(d) /\ d # "irq" /\ d # "nmi"
  BY <1>1, <1>2, <1>3, PopShape DEF Typed
<1>6. On("exception") => scene["exception"].IFlag
  BY <1>1, <1>4 DEF MaskInv
<1>7. Typed'
  <2>1. IFlag' \in BOOLEAN
    <3>1. scene["irq"].IFlag \in BOOLEAN
      BY <1>1 DEF Typed, Handlers
    <3> QED BY <1>2, <3>1, Zenon
  <2> QED BY <1>1, <1>2, <1>5, <2>1 DEF Typed
<1>8. EnteredInv'
  <2>1. \A d \in Handlers : Entered(d)' <=> Entered(d)
    BY <1>2, RspSame
  <2> QED BY <1>1, <1>5, <2>1 DEF EnteredInv
<1>9. RspInv'
  <2>1. Rsp(c)' = Rsp(c)
    BY <1>2, RspSame DEF Handlers
  <2>2. depth' = Rsp(c)
    BY <1>1, <1>2, <1>3 DEF SceneInv
  <2>3. Rsp(Top)' = Rsp(c)'
    BY <1>5 DEF Rsp
  <2> QED BY <2>1, <2>2, <2>3 DEF RspInv
<1>10. MaskInv'
  <2>1. ~On("irq")' /\ ~On("nmi")'
    BY <1>5
  <2>2. On("exception")' => scene'["exception"].IFlag
    BY <1>2, <1>5, <1>6
  <2> QED BY <2>1, <2>2 DEF MaskInv
<1>11. SceneInv' /\ SavedInv'
  BY <1>5 DEF SceneInv, SavedInv
<1>12. FrameInv'
  <2>1. On(c)' \/ c = "task"
    <3>1. running' \in Seq({"task"} \cup Handlers) /\ running' # <<>>
      BY <1>5 DEF Shape
    <3>2. Len(running') \in DOMAIN running' /\ running'[Len(running')] = Top'
      BY <3>1 DEF Top, Last
    <3> QED BY <1>5, <3>2 DEF On
  <2>2. c \in Handlers => ~Kept(c)'
    <3>1. c \in Handlers => c = "exception" /\ On("exception")
      BY <1>5, <2>1 DEF Handlers
    <3> QED BY <1>2, <1>6, <3>1 DEF Kept
  <2> QED BY <1>5, <2>2 DEF FrameInv
<1> QED BY <1>7, <1>8, <1>9, <1>10, <1>11, <1>12 DEF IInv

-----------------------------------------------------------------------------
LEMMA InitInv == Init => IInv
<1> SUFFICES ASSUME Init PROVE IInv
  OBVIOUS
<1>1. /\ running = <<"task">> /\ at = [c \in Handlers |-> Phase("none", 0)]
      /\ vector = [c \in Handlers |-> 0] /\ ist = [d \in 1 .. StackWords |-> Junk] /\ depth = 0
      /\ regs = [r \in Regs |-> Own("task", r)] /\ IFlag \in BOOLEAN
      /\ scene = [c \in Handlers |-> NoScene]
  BY DEF Init
<1>2. running \in Seq({"task"} \cup Handlers) /\ Len(running) = 1 /\ running[1] = "task"
  BY <1>1
<1>3. Shape(running) /\ Top = "task" /\ \A d : On(d) => d = "task"
  <2>1. DOMAIN running = {1}
    BY <1>2
  <2>2. Shape(running)
    <3>1. \A i, j \in DOMAIN running : ~(i < j)
      BY <2>1
    <3>2. running # <<>>
      <4>1. DOMAIN <<>> = {}
        OBVIOUS
      <4> QED BY <2>1, <4>1
    <3> QED BY <1>2, <3>1, <3>2 DEF Shape
  <2>3. Top = "task"
    BY <1>2 DEF Top, Last
  <2>4. \A d : On(d) => d = "task"
    BY <1>2, <2>1 DEF On
  <2> QED BY <2>2, <2>3, <2>4
<1>4. Typed
  <2>1. Phase("none", 0) \in [phase : Phases, n : 0 .. 20]
    BY DEF Phase, Phases
  <2>2. at \in [Handlers -> [phase : Phases, n : 0 .. 20]]
    BY <1>1, <2>1
  <2>3. regs = [r \in Regs |-> regs[r]]
    BY <1>1
  <2>4. ASSUME NEW c \in Handlers
        PROVE  /\ scene[c] = [of |-> scene[c].of, depth |-> scene[c].depth,
                              regs |-> scene[c].regs, IFlag |-> scene[c].IFlag]
               /\ scene[c].depth \in 0 .. 26 /\ scene[c].IFlag \in BOOLEAN
               /\ scene[c].regs = [r \in Regs |-> scene[c].regs[r]]
    <3>1. scene[c] = NoScene
      BY <1>1
    <3> QED BY <3>1 DEF NoScene
  <2> QED BY <1>1, <1>3, <2>2, <2>3, <2>4 DEF Typed, Phases
<1>5. EnteredInv /\ RspInv /\ MaskInv /\ SceneInv /\ FrameInv /\ SavedInv
  BY <1>1, <1>3 DEF EnteredInv, RspInv, Rsp, MaskInv, SceneInv, FrameInv, SavedInv, Handlers
<1> QED BY <1>4, <1>5 DEF IInv

LEMMA StepInv == IInv /\ [Next]_vars => IInv'
<1> SUFFICES ASSUME IInv, [Next]_vars PROVE IInv'
  OBVIOUS
<1>1. CASE Exception
  <2>1. PICK v \in Exceptions : Deliver(v) /\ Top = "task"
    BY <1>1 DEF Exception
  <2>2. Kind(v) = "exception"
    BY KindIs
  <2> QED BY <2>1, <2>2, DeliverInv DEF Handlers
<1>2. CASE IRQ
  <2>1. PICK v \in IRQs : Deliver(v) /\ IFlag
    BY <1>2 DEF IRQ
  <2>2. Kind(v) = "irq"
    BY KindIs
  <2> QED BY <2>1, <2>2, DeliverInv DEF Handlers
<1>3. CASE NonMaskable
  <2>1. Deliver(NMI) /\ ~On("nmi") /\ Kind(NMI) = "nmi"
    BY <1>3, KindIs DEF NonMaskable, On
  <2> QED BY <2>1, DeliverInv DEF Handlers
<1>4. CASE UNCHANGED vars
  <2>1. Typed' /\ SavedInv'
    BY <1>4 DEF IInv, Typed, SavedInv, Top, vars
  <2>2. EnteredInv' /\ MaskInv'
    BY <1>4 DEF IInv, EnteredInv, Entered, MaskInv, On, vars
  <2>3. RspInv' /\ SceneInv'
    BY <1>4 DEF IInv, RspInv, Rsp, SceneInv, Top, vars
  <2>4. FrameInv'
    BY <1>4 DEF IInv, FrameInv, Kept, Top, vars
  <2> QED BY <2>1, <2>2, <2>3, <2>4 DEF IInv
<1>5. CASE CpuStep
  BY <1>5, PushInv, CallInv, CallPrintkInv, PrintReturnInv, DoIRQInv, PopInv, IretInv DEF CpuStep
<1> QED BY <1>1, <1>2, <1>3, <1>4, <1>5 DEF Next

LEMMA Always == Spec => []IInv
<1> QED BY InitInv, StepInv, PTL DEF Spec

-----------------------------------------------------------------------------
(***************************************************************************)
(* The theorems.                                                           *)
(***************************************************************************)
\* Every variable keeps its type; rsp stays within 26 words of the top of the
\* shared stack, whatever interrupts whatever.
THEOREM TypeCorrect == Spec => []TypeOK
<1>1. ASSUME IInv PROVE TypeOK
  <2>1. Typed /\ EnteredInv /\ RspInv
    BY <1>1 DEF IInv
  <2>2. /\ running \in Seq({"task"} \cup Handlers) /\ Top \in {"task"} \cup Handlers
        /\ Top \in Handlers => On(Top)
    BY <2>1, ShapeIs DEF Typed
  <2>3. depth \in 0 .. 26
    <3>1. PICK c \in {"task"} \cup Handlers : c = Top
      BY <2>2
    <3>2. c \in Handlers => Entered(c)
      BY <2>1, <2>2, <3>1 DEF EnteredInv
    <3>3. Rsp(c) \in 0 .. 26
      BY <2>1, <3>2, RspBound
    <3> QED BY <2>1, <3>1, <3>3 DEF RspInv
  <2>4. DOMAIN regs = Regs /\ \A c \in Handlers : scene[c].depth \in 0 .. 26
    <3>1. regs = [r \in Regs |-> regs[r]]
      BY <2>1 DEF Typed
    <3> HIDE DEF Regs
    <3>2. DOMAIN regs = Regs
      BY <3>1
    <3> QED BY <2>1, <3>2 DEF Typed
  <2> QED BY <2>1, <2>2, <2>3, <2>4 DEF TypeOK, Typed
<1> QED BY <1>1, Always, PTL

\* No handler is entered again while an entry of it is unfinished: a second
\* entry would write its frame over the first one's, on the one stack they share.
THEOREM NeverReentered == Spec => []NoReentry
<1>1. ASSUME IInv PROVE NoReentry
  <2>1. \A i, j \in DOMAIN running : i < j => Rank(running[i]) < Rank(running[j])
    BY <1>1 DEF IInv, Typed, Shape
  <2>2. /\ DOMAIN running = 1 .. Len(running) /\ Len(running) \in Nat
        /\ running \in Seq({"task"} \cup Handlers)
    BY <1>1, ShapeIs DEF IInv, Typed
  <2>3. \A d \in {"task"} \cup Handlers : Rank(d) \in 0 .. 3
    BY DEF Rank, Handlers
  <2>4. ASSUME NEW i \in DOMAIN running, NEW j \in DOMAIN running, running[i] = running[j]
        PROVE  i = j
    <3>1. i \in Nat /\ j \in Nat /\ running[i] \in {"task"} \cup Handlers
      BY <2>2
    <3>2. Rank(running[i]) \in 0 .. 3 /\ Rank(running[i]) = Rank(running[j])
      BY <2>3, <2>4, <3>1
    <3>3. ~(i < j) /\ ~(j < i)
      BY <2>1, <3>2
    <3> QED BY <3>1, <3>3
  <2> QED BY <2>4 DEF NoReentry, IsInjective
<1> QED BY <1>1, Always, PTL

\* Every handler starts with the arguments entry.sx and interrupt.c prepare and
\* with the rip it will return to at 0x98(rsp), for each of the vectors.
THEOREM FrameReachesTheHandler == Spec => []HandlersGetTheirFrame
<1>1. ASSUME IInv PROVE HandlersGetTheirFrame
  <2> SUFFICES ASSUME NEW c \in Handlers, Starting(c), HasStub(vector[c]),
                      ~(c = "exception" /\ scene[c].IFlag)
               PROVE  ArgumentsOf(c)
    BY DEF HandlersGetTheirFrame
  <2> DEFINE v == vector[c]
  <2>1. Top = c /\ at[c].phase = "handler" /\ Kept(c)
    BY DEF Starting, Kept
  <2>2. /\ ist[5] = Own(scene[c].of, "rip")
        /\ regs.rdi = Own(c, "rsp")
        /\ regs.rsi = CASE c = "irq" -> <<"vector", v>>
                        [] c = "exception" /\ v \in WithErrorCode -> <<"cpu", "error">>
                        [] OTHER -> Zero
        /\ c = "exception" => regs.rdx = <<"func", v>>
    BY <1>1, <2>1 DEF IInv, FrameInv
  <2>3. AtOffset(RIP + 1) = ist[5]
    <3>1. depth = RspOf(v, "handler", at[c].n)
      BY <1>1, <2>1, TopIs
    <3>2. depth = 25
      BY <3>1 DEF RspOf
    <3> QED BY <3>2 DEF AtOffset, RIP
  <2> HIDE DEF v
  <2>4. ArgumentsOf(c) <=> /\ regs.rdi = Own(c, "rsp")
                           /\ regs.rsi = CASE c = "irq" -> <<"vector", v>>
                                           [] c = "exception" /\ v \in WithErrorCode -> <<"cpu", "error">>
                                           [] OTHER -> Zero
                           /\ AtOffset(RIP + 1) = Own(scene[c].of, "rip")
                           /\ c = "exception" => regs.rdx = <<"func", v>>
    BY DEF ArgumentsOf, v
  <2> QED BY <2>2, <2>3, <2>4
<1> QED BY <1>1, Always, PTL

\* "Save the scene": the iretq of an IRQ goes back to the context it interrupted,
\* with every register as that context left it, even if that was between two
\* pushes of an exception's stub.
THEOREM SceneRestored == Spec => IrqRestoresScene
<1> DEFINE A == Iret => /\ Len(running') < Len(running)
                        /\ Last(running') = scene["irq"].of
                        /\ regs' = scene["irq"].regs
<1>1. ASSUME IInv, [Next]_vars PROVE [A]_vars
  <2> SUFFICES ASSUME Iret PROVE A
    OBVIOUS
  <2>1. /\ Top = "irq" /\ running' = SubSeq(running, 1, Len(running) - 1)
        /\ regs' = regs /\ regs = scene["irq"].regs /\ scene["irq"].of = running[Len(running) - 1]
    BY <1>1, IretGoesBack
  <2>2. Top' = running[Len(running) - 1] /\ Len(running') = Len(running) - 1 /\ Len(running) \in Nat
    BY <1>1, <2>1, PopShape, ShapeIs DEF IInv, Typed
  <2>3. Len(running') < Len(running)
    BY <2>2
  <2>4. Last(running') = scene["irq"].of
    BY <2>1, <2>2 DEF Top
  <2> QED BY <2>1, <2>3, <2>4
<1> QED BY <1>1, Always, PTL DEF Spec, IrqRestoresScene

=============================================================================
