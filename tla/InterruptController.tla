------------------------- MODULE InterruptController -------------------------
(***************************************************************************)
(* Hardware interrupts in cOS: init_interrupt and do_IRQ of interrupt.c,   *)
(* with the devices they program.  The two 8259A controllers, the keyboard *)
(* controller and the CPU's delivery of an interrupt are external; what    *)
(* they do is what the data sheets the code relies on say.                 *)
(*                                                                         *)
(* Every port access of the code is a step of its own, and between any two *)
(* of them the devices may act.  Kernel code other than init_interrupt     *)
(* touches none of this state.                                             *)
(***************************************************************************)
EXTENDS Naturals, Sequences, SequencesExt, FiniteSets

CONSTANTS
    Pins,       \* the interrupt inputs devices use, of 0 .. 15; 8 .. 15 are the slave's
    MaxKeys,    \* bound: scancodes the keyboard ever sends
    MaxNest     \* bound: handlers on the stack at once

KeyboardPin == 1
CascadePin == 2
SpuriousPin == 7

ASSUME PinAssumption ==
    /\ Pins \subseteq (0 .. 15) \ {CascadePin}
    /\ KeyboardPin \in Pins
    /\ MaxKeys \in Nat \ {0} /\ MaxNest \in Nat \ {0}

Chips == {"master", "slave"}

-----------------------------------------------------------------------------
(***************************************************************************)
(* The code: what init_interrupt writes, and do_IRQ.                       *)
(***************************************************************************)
Out(chip, port, value) == [chip |-> chip, port |-> port, value |-> value]

ICWs == << Out("master", "command", 17), Out("master", "data", 32),
           Out("master", "data", 4),     Out("master", "data", 1),
           Out("slave", "command", 17),  Out("slave", "data", 40),
           Out("slave", "data", 2),      Out("slave", "data", 1) >>
Sti == Out("cpu", "IF", 1)
OCW1s == << Out("master", "data", 253), Out("slave", "data", 255) >>

\* init_interrupt, once the gates are set: the writes, then sti.
InitWrites_StiEarly == ICWs \o <<Sti>> \o OCW1s
InitWrites_MaskAll == ICWs \o << Out("master", "data", 255), Out("slave", "data", 255), Sti >>
InitWrites_NoICW2 == SelectSeq(ICWs, LAMBDA w : w.value # 32) \o OCW1s \o <<Sti>>
InitWrites == ICWs \o OCW1s \o <<Sti>>

FirstGate == 32

\* do_IRQ reads the scancode of the keyboard's vector only.
ReadsPort60(nr) == nr = FirstGate + KeyboardPin

\* It then acknowledges at the master, whatever the vector.
EOI_UnlessKeyboard(nr) == IF nr = FirstGate + KeyboardPin THEN {} ELSE {"master"}
EOI(nr) == {"master"}

\* set_intr_gate: IF is clear while a handler runs.
GateClearsIF_Trap == FALSE
GateClearsIF == TRUE

-----------------------------------------------------------------------------
VARIABLES
    pic,        \* per chip: base vector, irr, isr, imr, and how many ICWs it has had
    line,       \* the inputs that are high
    queue,      \* scancodes inside the keyboard
    outbuf,     \* the output buffer behind port 0x60: <<>> or one scancode
    sent,       \* how many scancodes the keyboard has sent (they are 1, 2, ...)
    got,        \* the scancodes do_IRQ has read
    pc,         \* how many of InitWrites are done
    IFlag,      \* the CPU's IF
    calls,      \* the do_IRQs on the stack, outermost first
    deaf        \* history: the keyboard's input was high when ICW1 reset the edge sense

vars == <<pic, line, queue, outbuf, sent, got, pc, IFlag, calls, deaf>>
devices == <<queue, sent>>

\* -- The 8259A. -------------------------------------------------------------
Ready == 4
Highest(S) == CHOOSE i \in S : \A j \in S : i <= j
Weight == <<1, 2, 4, 8, 16, 32, 64, 128>>
Bits(v) == {i \in 0 .. 7 : (v \div Weight[i + 1]) % 2 = 1}

\* The requests a chip passes on: unmasked, above what it is serving.
Requests(c) == {i \in pic[c].irr \ pic[c].imr : \A j \in pic[c].isr : i < j}
Asks(c) == pic[c].icws = Ready /\ Requests(c) # {}

\* The chip after a write to one of its ports.
Command(p, value) ==
    IF value = 17 THEN [p EXCEPT !.icws = 1, !.imr = {}, !.irr = {}]
    ELSE [p EXCEPT !.isr = @ \ (IF @ = {} THEN {} ELSE {Highest(@)})]      \* 0x20
Data(p, value) ==
    CASE p.icws = 1 -> [p EXCEPT !.icws = 2, !.base = value]
      [] p.icws \in {2, 3} -> [p EXCEPT !.icws = @ + 1]
      [] OTHER -> [p EXCEPT !.imr = Bits(value)]
Written(p, port, value) == IF port = "command" THEN Command(p, value) ELSE Data(p, value)

\* A rising input latches a request, which its fall withdraws.
ChipOf(pin) == IF pin < 8 THEN "master" ELSE "slave"
Raise(pin) ==
    /\ pin \notin line
    /\ line' = line \cup {pin}
    /\ pic' = [pic EXCEPT ![ChipOf(pin)].irr = @ \cup {pin % 8}]
Lower(pin) ==
    /\ line' = line \ {pin}
    /\ pic' = [pic EXCEPT ![ChipOf(pin)].irr = @ \ {pin % 8}]

\* -- The devices. -----------------------------------------------------------
\* Devices other than the keyboard pulse: nothing ever attends to them.  The
\* slave's own request is the master's cascade input.
OtherDevice ==
    /\ \/ \E pin \in Pins \ {KeyboardPin} : Raise(pin)
       \/ \E pin \in line \ {KeyboardPin, CascadePin} : Lower(pin)
       \/ Asks("slave") /\ Raise(CascadePin)
       \/ ~Asks("slave") /\ CascadePin \in line /\ Lower(CascadePin)
    /\ UNCHANGED <<devices, outbuf, got, pc, IFlag, calls, deaf>>

KeyPressed ==
    /\ sent < MaxKeys
    /\ sent' = sent + 1
    /\ queue' = Append(queue, sent + 1)
    /\ UNCHANGED <<pic, line, outbuf, got, pc, IFlag, calls, deaf>>

\* The next scancode moves to the output buffer and the input rises.
KeyPresented ==
    /\ outbuf = <<>> /\ queue # <<>>
    /\ outbuf' = <<Head(queue)>>
    /\ queue' = Tail(queue)
    /\ Raise(KeyboardPin)
    /\ UNCHANGED <<sent, got, pc, IFlag, calls, deaf>>

-----------------------------------------------------------------------------
(***************************************************************************)
(* The CPU.  Enter(nr): through the gate of nr into its stub and do_IRQ.   *)
(***************************************************************************)
Enter(nr) ==
    /\ Len(calls) < MaxNest
    /\ calls' = Append(calls, [nr |-> nr, at |-> IF ReadsPort60(nr) THEN "read" ELSE "eoi"])
    /\ IFlag' = ~GateClearsIF
    /\ UNCHANGED <<line, devices, outbuf, got, pc, deaf>>

\* A chip answers INTA: its highest request goes into service.
Answer(c) == Highest(Requests(c))
InService(p, c) == [p EXCEPT ![c].irr = @ \ {Answer(c)}, ![c].isr = @ \cup {Answer(c)}]

\* For the cascade input the vector is the slave's.
Interrupt ==
    /\ IFlag /\ Asks("master")
    /\ IF Answer("master") # CascadePin
       THEN /\ pic' = InService(pic, "master")
            /\ Enter(pic["master"].base + Answer("master"))
       ELSE IF Asks("slave")
       THEN /\ pic' = InService(InService(pic, "master"), "slave")
            /\ Enter(pic["slave"].base + Answer("slave"))
       ELSE /\ pic' = InService(pic, "master")
            /\ Enter(pic["slave"].base + SpuriousPin)

\* A glitch: the input that asked is low again at INTA, and the master answers
\* with its input 7, latching nothing.
Spurious ==
    /\ IFlag /\ pic["master"].icws = Ready /\ ~Asks("master")
    /\ Enter(pic["master"].base + SpuriousPin)
    /\ UNCHANGED pic

\* The next write of init_interrupt, or its sti.
InitStep ==
    /\ calls = <<>> /\ pc < Len(InitWrites)
    /\ LET w == InitWrites[pc + 1]
       IN  IF w = Sti
           THEN IFlag' = TRUE /\ UNCHANGED <<pic, deaf>>
           ELSE /\ pic' = [pic EXCEPT ![w.chip] = Written(@, w.port, w.value)]
                /\ deaf' = (deaf \/ (w = ICWs[1] /\ KeyboardPin \in line))
                /\ UNCHANGED IFlag
    /\ pc' = pc + 1
    /\ UNCHANGED <<line, devices, outbuf, got, calls>>

At(stage) == calls # <<>> /\ Last(calls).at = stage
GoTo(stage) == calls' = [calls EXCEPT ![Len(calls)].at = stage]

\* x = io_in8(0x60): the buffer empties and the input falls.
ReadScancode ==
    /\ At("read")
    /\ outbuf' = <<>>
    /\ Lower(KeyboardPin)
    /\ got' = got \o outbuf
    /\ GoTo("eoi")
    /\ UNCHANGED <<devices, pc, IFlag, deaf>>

\* io_out8(0x20, 0x20)
Acknowledge ==
    /\ At("eoi")
    /\ pic' = [c \in Chips |-> IF c \in EOI(Last(calls).nr) THEN Written(pic[c], "command", 32) ELSE pic[c]]
    /\ GoTo("iret")
    /\ UNCHANGED <<line, devices, outbuf, got, pc, IFlag, deaf>>

\* ret_from_intr
Return ==
    /\ At("iret")
    /\ calls' = Front(calls)
    /\ IFlag' = TRUE
    /\ UNCHANGED <<pic, line, devices, outbuf, got, pc, deaf>>

-----------------------------------------------------------------------------
\* The loader's cli, the BIOS's controllers: vectors 8 and 0x70, and masks,
\* requests and scancodes as the machine happens to have left them.
Init ==
    /\ \E masked \in {{3, 4, 5, 6, 7}, {}}, high \in SUBSET (Pins \cap {0, KeyboardPin}) :
          /\ pic = [c \in Chips |->
                       [base |-> IF c = "master" THEN 8 ELSE 112, icws |-> Ready, isr |-> {},
                        irr |-> IF c = "master" THEN high ELSE {}, imr |-> masked]]
          /\ line = high
          /\ outbuf = IF KeyboardPin \in high THEN <<1>> ELSE <<>>
          /\ sent = IF KeyboardPin \in high THEN 1 ELSE 0
    /\ queue = <<>> /\ got = <<>>
    /\ pc = 0 /\ IFlag = FALSE /\ calls = <<>> /\ deaf = FALSE

Kernel == InitStep \/ ReadScancode \/ Acknowledge \/ Return
Devices == OtherDevice \/ KeyPressed \/ KeyPresented
Next == Kernel \/ Devices \/ Interrupt \/ Spurious

\* The CPU executes, and takes an interrupt that stays requested while IF is
\* set; the keyboard presents the scancodes it holds.
Fairness == WF_vars(Kernel) /\ WF_vars(Interrupt) /\ WF_vars(KeyPresented)
Spec == Init /\ [][Next]_vars /\ Fairness

-----------------------------------------------------------------------------
TypeOK ==
    /\ pic \in [Chips -> [base : {8, 32, 40, 112}, icws : 1 .. Ready, irr : SUBSET (0 .. 7),
                          isr : SUBSET (0 .. 7), imr : SUBSET (0 .. 7)]]
    /\ line \subseteq Pins \cup {CascadePin}
    /\ outbuf \in Seq(1 .. MaxKeys) /\ Len(outbuf) <= 1
    /\ queue \in Seq(1 .. MaxKeys) /\ got \in Seq(1 .. MaxKeys)
    /\ sent \in 0 .. MaxKeys
    /\ pc \in 0 .. Len(InitWrites)
    /\ IFlag \in BOOLEAN /\ deaf \in BOOLEAN
    /\ \A i \in DOMAIN calls : calls[i].at \in {"read", "eoi", "iret"}

\* The only interrupts the kernel ever takes are the keyboard's and the spurious
\* one: the timer and the slave, whose requests pile up while init_interrupt has
\* the masks open, never get through, and no vector falls among the exceptions.
OnlyKeyboardAndSpurious ==
    \A i \in DOMAIN calls : calls[i].nr \in {FirstGate + KeyboardPin, FirstGate + SpuriousPin}

\* When no handler is on the stack the master serves nothing: an input left in
\* service would shut out itself and everything below it for ever.
NothingLeftInService == calls = <<>> => pic["master"].isr = {}

\* do_IRQ acknowledges without saying which input.  The one it retires is its
\* own, and for a spurious interrupt none.
AcknowledgesItsOwn ==
    [][Acknowledge => pic'["master"].isr =
          pic["master"].isr \ {Last(calls).nr - pic["master"].base}
            /\ (Last(calls).nr # FirstGate + SpuriousPin =>
                  Last(calls).nr - pic["master"].base \in pic["master"].isr)]_vars

\* Every scancode is read, unless the keyboard's input was already high when
\* ICW1 reset the edge sense: then no edge, and no interrupt, ever follows.
EveryScancodeRead ==
    \A k \in 1 .. MaxKeys : sent >= k ~> (Len(got) >= k \/ deaf)
=============================================================================
