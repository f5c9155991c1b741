---------------------- MODULE InterruptController_proofs ----------------------
(***************************************************************************)
(* What init_interrupt and do_IRQ keep true whatever devices the machine   *)
(* has, however many keys are pressed and however deep handlers may nest.  *)
(***************************************************************************)
EXTENDS InterruptController, SequenceTheorems, TLAPS

ChipType == [base : {8, 32, 40, 112}, icws : 1 .. Ready, irr : SUBSET (0 .. 7),
             isr : SUBSET (0 .. 7), imr : SUBSET (0 .. 7)]
PicType == [Chips -> ChipType]

Writes == 11    \* of init_interrupt, its sti among them

\* What the writes made so far have done to the two controllers.
Setup ==
    LET m == pic["master"]
        s == pic["slave"]
    IN  /\ pc = 0 \/ pc >= 4 => m.icws = Ready
        /\ pc \in 1 .. 3 => m.icws = pc
        /\ pc >= 2 => m.base = 32
        /\ pc >= 9 => m.imr = Bits(253)
        /\ pc <= 4 \/ pc >= 8 => s.icws = Ready
        /\ pc \in 5 .. 7 => s.icws = pc - 4
        /\ pc >= 6 => s.base = 40
        /\ pc >= 10 => s.imr = Bits(255)

\* At most one do_IRQ is on the stack, with IF clear, and the master serves the
\* input it was entered for until the acknowledgement.
Serving ==
    LET isr == pic["master"].isr
    IN  /\ pic["slave"].isr = {}
        /\ IFlag => pc = Writes /\ calls = <<>>
        /\ \/ calls = <<>> /\ isr = {}
           \/ \E nr \in {33, 39}, at \in {"read", "eoi", "iret"} :
                /\ calls = <<[nr |-> nr, at |-> at]>>
                /\ pc = Writes
                /\ nr = 39 => at # "read" /\ isr = {}
                /\ nr = 33 => isr = IF at = "iret" THEN {} ELSE {1}

IInv == TypeOK /\ Setup /\ Serving

-----------------------------------------------------------------------------
(***************************************************************************)
(* The writes, one by one, and the masks they set.                         *)
(***************************************************************************)
LEMMA WritesAre ==
    /\ Len(InitWrites) = Writes
    /\ InitWrites[1] = Out("master", "command", 17)
    /\ InitWrites[2] = Out("master", "data", 32)
    /\ InitWrites[3] = Out("master", "data", 4)
    /\ InitWrites[4] = Out("master", "data", 1)
    /\ InitWrites[5] = Out("slave", "command", 17)
    /\ InitWrites[6] = Out("slave", "data", 40)
    /\ InitWrites[7] = Out("slave", "data", 2)
    /\ InitWrites[8] = Out("slave", "data", 1)
    /\ InitWrites[9] = Out("master", "data", 253)
    /\ InitWrites[10] = Out("slave", "data", 255)
    /\ InitWrites[11] = Sti
  BY DEF InitWrites, ICWs, OCW1s, Sti, Out, Writes

\* The master's mask leaves the keyboard only, the slave's nothing.
LEMMA MasksAre ==
    /\ Bits(253) = (0 .. 7) \ {KeyboardPin}
    /\ Bits(255) = 0 .. 7
    /\ \A v : Bits(v) \in SUBSET (0 .. 7)
  BY DEF Bits, Weight, KeyboardPin

\* Init leaves nothing in service and IF clear.
LEMMA InitIInv == Init => IInv
<1> SUFFICES ASSUME Init PROVE IInv
  OBVIOUS
<1> USE PinAssumption
<1>1. PICK masked \in {{3, 4, 5, 6, 7}, {}}, high \in SUBSET (Pins \cap {0, KeyboardPin}) :
        /\ pic = [c \in Chips |->
                     [base |-> IF c = "master" THEN 8 ELSE 112, icws |-> Ready, isr |-> {},
                      irr |-> IF c = "master" THEN high ELSE {}, imr |-> masked]]
        /\ line = high
        /\ outbuf = IF KeyboardPin \in high THEN <<1>> ELSE <<>>
        /\ sent = IF KeyboardPin \in high THEN 1 ELSE 0
  BY DEF Init
<1>2. pic \in PicType
  <2>1. masked \in SUBSET (0 .. 7) /\ high \in SUBSET (0 .. 7)
    BY DEF KeyboardPin
  <2>2. \A c \in Chips :
          [base |-> IF c = "master" THEN 8 ELSE 112, icws |-> Ready, isr |-> {},
           irr |-> IF c = "master" THEN high ELSE {}, imr |-> masked]
             \in ChipType
    BY <2>1 DEF Ready, ChipType
  <2> QED BY <1>1, <2>2 DEF PicType
<1>3. TypeOK
  <2>1. outbuf \in Seq(1 .. MaxKeys) /\ Len(outbuf) <= 1
    <3>1. 1 \in 1 .. MaxKeys
      OBVIOUS
    <3>2. <<1>> \in Seq(1 .. MaxKeys) /\ Len(<<1>>) = 1
      BY <3>1
    <3>3. <<>> \in Seq(1 .. MaxKeys) /\ Len(<<>>) = 0
      OBVIOUS
    <3>4. CASE KeyboardPin \in high
      BY <1>1, <3>2, <3>4
    <3>5. CASE KeyboardPin \notin high
      BY <1>1, <3>3, <3>5
    <3> QED BY <3>4, <3>5
  <2>2. queue \in Seq(1 .. MaxKeys) /\ got \in Seq(1 .. MaxKeys)
    BY DEF Init
  <2>3. sent \in 0 .. MaxKeys
    BY <1>1
  <2>4. line \subseteq Pins \cup {CascadePin}
    BY <1>1
  <2>5. pc \in 0 .. Len(InitWrites)
    <3>1. pc = 0 /\ Len(InitWrites) = 11
      BY WritesAre DEF Init, Writes
    <3> QED BY <3>1
  <2>7. IFlag \in BOOLEAN /\ deaf \in BOOLEAN
    BY DEF Init
  <2>6. \A i \in DOMAIN calls : calls[i].at \in {"read", "eoi", "iret"}
    BY DEF Init
  <2> QED BY <1>2, <2>1, <2>2, <2>3, <2>4, <2>5, <2>6, <2>7 DEF TypeOK, PicType, ChipType
<1>4. pc = 0 /\ IFlag = FALSE /\ calls = <<>>
  BY DEF Init
<1>5. Setup
  BY <1>1, <1>4 DEF Setup, Chips
<1>6. Serving
  BY <1>1, <1>4 DEF Serving, Chips
<1> QED BY <1>3, <1>5, <1>6 DEF IInv

-----------------------------------------------------------------------------
(***************************************************************************)
(* The devices touch requests only, which IInv leaves open.                *)
(***************************************************************************)
LEMMA RequestsOnly ==
    ASSUME Setup, Serving, UNCHANGED <<pc, IFlag, calls>>,
           \A c \in Chips : /\ pic'[c].icws = pic[c].icws /\ pic'[c].base = pic[c].base
                            /\ pic'[c].imr = pic[c].imr /\ pic'[c].isr = pic[c].isr
    PROVE  Setup' /\ Serving'
<1>1. "master" \in Chips /\ "slave" \in Chips
  BY DEF Chips
<1>2. Setup'
  BY <1>1 DEF Setup
<1>3. Serving'
  BY <1>1 DEF Serving
<1> QED BY <1>2, <1>3

\* What Raise and Lower do to the controllers.
LEMMA PinMoves ==
    ASSUME TypeOK, NEW pin \in 0 .. 15, pin \in Pins \cup {CascadePin}, Raise(pin) \/ Lower(pin)
    PROVE  /\ pic' \in PicType
           /\ line' \subseteq Pins \cup {CascadePin}
           /\ \A c \in Chips : /\ pic'[c].icws = pic[c].icws /\ pic'[c].base = pic[c].base
                               /\ pic'[c].imr = pic[c].imr /\ pic'[c].isr = pic[c].isr
<1>1. pic \in PicType /\ line \subseteq Pins \cup {CascadePin}
  BY DEF TypeOK, PicType, ChipType
<1>2. pin % 8 \in 0 .. 7 /\ ChipOf(pin) \in Chips
  BY DEF ChipOf, Chips
<1>3. PICK S \in SUBSET (0 .. 7) : pic' = [pic EXCEPT ![ChipOf(pin)].irr = S]
  <2>1. pic[ChipOf(pin)].irr \in SUBSET (0 .. 7)
    BY <1>1, <1>2 DEF PicType, ChipType
  <2>2. CASE Raise(pin)
    BY <1>2, <2>1, <2>2 DEF Raise
  <2>3. CASE Lower(pin)
    BY <1>2, <2>1, <2>3 DEF Lower
  <2> QED BY <2>2, <2>3
<1>4. line' \subseteq Pins \cup {CascadePin}
  BY <1>1 DEF Raise, Lower
<1>5. pic' \in PicType
  BY <1>1, <1>2, <1>3 DEF PicType, ChipType
<1>6. \A c \in Chips : /\ pic'[c].icws = pic[c].icws /\ pic'[c].base = pic[c].base
                       /\ pic'[c].imr = pic[c].imr /\ pic'[c].isr = pic[c].isr
  BY <1>1, <1>2, <1>3 DEF PicType, ChipType
<1> QED BY <1>4, <1>5, <1>6

\* A pulse on any input, a key pressed, a scancode presented.
LEMMA DevicesKeepIInv == IInv /\ Devices => IInv'
<1> SUFFICES ASSUME IInv, Devices PROVE IInv'
  OBVIOUS
<1> USE PinAssumption
<1>0. TypeOK /\ Setup /\ Serving
  BY DEF IInv
<1>t. pic \in PicType
  BY <1>0 DEF TypeOK, PicType, ChipType
<1>1. CASE OtherDevice
  <2>1. UNCHANGED <<queue, sent, outbuf, got, pc, IFlag, calls, deaf>>
    BY <1>1 DEF OtherDevice, devices
  <2>2. PICK pin \in Pins \cup {CascadePin} : Raise(pin) \/ Lower(pin)
    BY <1>0, <1>1 DEF OtherDevice, TypeOK
  <2>3. pin \in 0 .. 15
    BY DEF CascadePin
  <2>4. /\ pic' \in PicType
        /\ line' \subseteq Pins \cup {CascadePin}
        /\ Setup' /\ Serving'
    BY <1>0, <2>1, <2>2, <2>3, PinMoves, RequestsOnly
  <2>5. TypeOK'
    BY <1>0, <2>1, <2>4 DEF TypeOK, PicType, ChipType
  <2> QED BY <2>4, <2>5 DEF IInv
<1>2. CASE KeyPressed
  <2>1. /\ sent' = sent + 1 /\ sent < MaxKeys /\ queue' = Append(queue, sent + 1)
        /\ UNCHANGED <<pic, line, outbuf, got, pc, IFlag, calls, deaf>>
    BY <1>2 DEF KeyPressed
  <2>2. sent' \in 0 .. MaxKeys /\ sent + 1 \in 1 .. MaxKeys
    BY <1>0, <2>1 DEF TypeOK
  <2>3. queue' \in Seq(1 .. MaxKeys)
    BY <1>0, <2>1, <2>2, AppendProperties DEF TypeOK
  <2>4. Setup' /\ Serving'
    BY <1>0, <2>1, RequestsOnly
  <2>5. TypeOK'
    BY <1>0, <2>1, <2>2, <2>3 DEF TypeOK
  <2> QED BY <2>4, <2>5 DEF IInv
<1>3. CASE KeyPresented
  <2>1. /\ queue # <<>> /\ outbuf' = <<Head(queue)>> /\ queue' = Tail(queue)
        /\ Raise(KeyboardPin)
        /\ UNCHANGED <<sent, got, pc, IFlag, calls, deaf>>
    BY <1>3 DEF KeyPresented
  <2>2. queue \in Seq(1 .. MaxKeys)
    BY <1>0 DEF TypeOK
  <2>3. Head(queue) \in 1 .. MaxKeys /\ queue' \in Seq(1 .. MaxKeys)
    BY <2>1, <2>2, HeadTailProperties
  <2>4. outbuf' \in Seq(1 .. MaxKeys) /\ Len(outbuf') = 1
    BY <2>1, <2>3
  <2>5. /\ pic' \in PicType
        /\ line' \subseteq Pins \cup {CascadePin}
        /\ Setup' /\ Serving'
    <3>1. KeyboardPin \in 0 .. 15 /\ KeyboardPin \in Pins \cup {CascadePin}
      BY DEF KeyboardPin
    <3> QED BY <1>0, <2>1, <3>1, PinMoves, RequestsOnly
  <2>6. TypeOK'
    BY <1>0, <2>1, <2>3, <2>4, <2>5 DEF TypeOK, PicType, ChipType
  <2> QED BY <2>5, <2>6 DEF IInv
<1> QED BY <1>1, <1>2, <1>3 DEF Devices

-----------------------------------------------------------------------------
(***************************************************************************)
(* The CPU's steps.                                                        *)
(***************************************************************************)
\* What each kind of write of init_interrupt makes of a controller.
LEMMA WriteICW1 ==
    ASSUME NEW p \in ChipType
    PROVE  LET r == [p EXCEPT !.icws = 1, !.imr = {}, !.irr = {}]
           IN  Written(p, "command", 17) = r /\ r \in ChipType
<1>1. Written(p, "command", 17) = Command(p, 17)
  BY DEF Written
<1>2. Command(p, 17) = [p EXCEPT !.icws = 1, !.imr = {}, !.irr = {}]
  BY DEF Command
<1>3. [p EXCEPT !.icws = 1, !.imr = {}, !.irr = {}] \in ChipType
  <2>1. [p EXCEPT !.icws = 1, !.imr = {}, !.irr = {}] =
          [[[p EXCEPT !.icws = 1] EXCEPT !.imr = {}] EXCEPT !.irr = {}]
    OBVIOUS
  <2>2. \A q \in ChipType : [q EXCEPT !.icws = 1] \in ChipType
    BY DEF ChipType, Ready
  <2>3. \A q \in ChipType : [q EXCEPT !.imr = {}] \in ChipType
    BY DEF ChipType
  <2>4. \A q \in ChipType : [q EXCEPT !.irr = {}] \in ChipType
    BY DEF ChipType
  <2> QED BY <2>1, <2>2, <2>3, <2>4
<1> QED BY <1>1, <1>2, <1>3

LEMMA WriteICW2 ==
    ASSUME NEW p \in ChipType, p.icws = 1, NEW v \in {32, 40}
    PROVE  LET r == [p EXCEPT !.icws = 2, !.base = v]
           IN  Written(p, "data", v) = r /\ r \in ChipType
<1>1. Written(p, "data", v) = Data(p, v)
  BY DEF Written
<1>2. Data(p, v) = [p EXCEPT !.icws = 2, !.base = v]
  BY DEF Data
<1>3. [p EXCEPT !.icws = 2, !.base = v] \in ChipType
  <2>1. [p EXCEPT !.icws = 2, !.base = v] = [[p EXCEPT !.icws = 2] EXCEPT !.base = v]
    OBVIOUS
  <2>2. \A q \in ChipType : [q EXCEPT !.icws = 2] \in ChipType
    BY DEF ChipType, Ready
  <2>3. \A q \in ChipType : [q EXCEPT !.base = v] \in ChipType
    BY DEF ChipType
  <2> QED BY <2>1, <2>2, <2>3
<1> QED BY <1>1, <1>2, <1>3

LEMMA WriteICW34 ==
    ASSUME NEW p \in ChipType, p.icws \in {2, 3}, NEW v
    PROVE  LET r == [p EXCEPT !.icws = p.icws + 1]
           IN  Written(p, "data", v) = r /\ r \in ChipType
<1>1. Written(p, "data", v) = Data(p, v)
  BY DEF Written
<1>2. Data(p, v) = [p EXCEPT !.icws = p.icws + 1]
  BY DEF Data
<1> QED BY <1>1, <1>2 DEF ChipType, Ready

LEMMA WriteOCW1 ==
    ASSUME NEW p \in ChipType, p.icws = Ready, NEW v
    PROVE  LET r == [p EXCEPT !.imr = Bits(v)]
           IN  Written(p, "data", v) = r /\ r \in ChipType
<1>1. Written(p, "data", v) = Data(p, v)
  BY DEF Written
<1>2. Data(p, v) = [p EXCEPT !.imr = Bits(v)]
  BY DEF Data, Ready
<1> QED BY <1>1, <1>2, MasksAre DEF ChipType

\* The other controller is left alone.
LEMMA OneChip ==
    ASSUME pic \in PicType, NEW c \in Chips, NEW r \in ChipType, pic' = [pic EXCEPT ![c] = r]
    PROVE  pic' \in PicType /\ pic'[c] = r /\ \A d \in Chips \ {c} : pic'[d] = pic[d]
  BY DEF PicType

\* One write of init_interrupt.
LEMMA InitStepKeepsIInv == IInv /\ InitStep => IInv'
<1> SUFFICES ASSUME IInv, InitStep PROVE IInv'
  OBVIOUS
<1>0. TypeOK /\ Setup /\ Serving
  BY DEF IInv
<1>1. /\ calls = <<>> /\ pc < 11 /\ pc' = pc + 1
      /\ UNCHANGED <<line, queue, sent, outbuf, got, calls>>
  BY WritesAre DEF InitStep, Writes, devices
<1>2. pc \in 0 .. 10 /\ pc' \in 1 .. 11
  BY <1>0, <1>1, WritesAre DEF TypeOK, Writes
<1>3. pic \in PicType
  BY <1>0 DEF TypeOK, PicType, ChipType
<1>m. "master" \in Chips /\ "slave" \in Chips
  BY DEF Chips
<1> DEFINE w == InitWrites[pc + 1]
           m == pic["master"]
           s == pic["slave"]
<1>4. m \in ChipType /\ s \in ChipType
  BY <1>3, <1>m DEF PicType
<1>5. m.isr = {} /\ s.isr = {} /\ IFlag = FALSE
  BY <1>0, <1>1, <1>2 DEF Serving, Writes, TypeOK
<1>6. CASE pc = 10
  <2>1. w = Sti
    BY <1>6, WritesAre
  <2>2. IFlag' = TRUE /\ UNCHANGED <<pic, deaf>>
    BY <2>1 DEF InitStep
  <2>3. Setup'
    BY <1>0, <1>1, <1>6, <2>2 DEF Setup
  <2>4. Serving'
    BY <1>0, <1>1, <1>5, <1>6, <2>2 DEF Serving, Writes
  <2>5. TypeOK'
    BY <1>0, <1>1, <1>2, <2>2, WritesAre DEF TypeOK, Writes
  <2> QED BY <2>3, <2>4, <2>5 DEF IInv
<1>7. CASE pc # 10
  <2>0. pc \in 0 .. 9
    BY <1>2, <1>7
  <2>1. w # Sti
    BY <2>0, WritesAre DEF Out, Sti
  <2>2. /\ pic' = [pic EXCEPT ![w.chip] = Written(pic[w.chip], w.port, w.value)]
        /\ IFlag' = IFlag
        /\ deaf' = (deaf \/ (w = ICWs[1] /\ KeyboardPin \in line))
    BY <2>1 DEF InitStep
  <2>3. deaf' \in BOOLEAN
    BY <1>0, <2>2 DEF TypeOK
  <2>4. /\ pic' \in PicType
        /\ pic'["master"].isr = {} /\ pic'["slave"].isr = {}
        /\ Setup'
    <3>1. CASE pc = 0
      <4> DEFINE r == [m EXCEPT !.icws = 1, !.imr = {}, !.irr = {}]
      <4>1. w.chip = "master" /\ w.port = "command" /\ w.value = 17
        BY <3>1, WritesAre DEF Out
      <4>2. m.icws \in 1 .. Ready
        BY <1>0, <1>4, <3>1 DEF Setup, ChipType
      <4>3. Written(m, w.port, w.value) = r /\ r \in ChipType
        BY <1>4, <4>1, <4>2, WriteICW1
      <4>4. pic' = [pic EXCEPT !["master"] = r]
        BY <2>2, <4>1, <4>3
      <4>5. pic' \in PicType /\ pic'["master"] = r /\ pic'["slave"] = pic["slave"]
        <5> HIDE DEF r, m, s, w
        <5> QED BY <1>3, <1>m, <4>3, <4>4, OneChip DEF Chips
      <4> QED BY <1>0, <1>1, <1>4, <1>5, <3>1, <4>2, <4>5 DEF Setup, ChipType, Ready
    <3>2. CASE pc = 1
      <4> DEFINE r == [m EXCEPT !.icws = 2, !.base = 32]
      <4>1. w.chip = "master" /\ w.port = "data" /\ w.value = 32
        BY <3>2, WritesAre DEF Out
      <4>2. m.icws = 1
        BY <1>0, <1>4, <3>2 DEF Setup, ChipType
      <4>3. Written(m, w.port, w.value) = r /\ r \in ChipType
        BY <1>4, <4>1, <4>2, WriteICW2
      <4>4. pic' = [pic EXCEPT !["master"] = r]
        BY <2>2, <4>1, <4>3
      <4>5. pic' \in PicType /\ pic'["master"] = r /\ pic'["slave"] = pic["slave"]
        <5> HIDE DEF r, m, s, w
        <5> QED BY <1>3, <1>m, <4>3, <4>4, OneChip DEF Chips
      <4> QED BY <1>0, <1>1, <1>4, <1>5, <3>2, <4>2, <4>5 DEF Setup, ChipType, Ready
    <3>3. CASE pc \in {2, 3}
      <4> DEFINE r == [m EXCEPT !.icws = m.icws + 1]
      <4>1. w.chip = "master" /\ w.port = "data"
        BY <3>3, WritesAre DEF Out
      <4>2. m.icws = pc /\ m.icws \in {2, 3}
        BY <1>0, <1>4, <3>3 DEF Setup, ChipType
      <4>3. Written(m, w.port, w.value) = r /\ r \in ChipType
        BY <1>4, <4>1, <4>2, WriteICW34
      <4>4. pic' = [pic EXCEPT !["master"] = r]
        BY <2>2, <4>1, <4>3
      <4>5. pic' \in PicType /\ pic'["master"] = r /\ pic'["slave"] = pic["slave"]
        <5> HIDE DEF r, m, s, w
        <5> QED BY <1>3, <1>m, <4>3, <4>4, OneChip DEF Chips
      <4> QED BY <1>0, <1>1, <1>4, <1>5, <3>3, <4>2, <4>5 DEF Setup, ChipType, Ready
    <3>4. CASE pc = 4
      <4> DEFINE r == [s EXCEPT !.icws = 1, !.imr = {}, !.irr = {}]
      <4>1. w.chip = "slave" /\ w.port = "command" /\ w.value = 17
        BY <3>4, WritesAre DEF Out
      <4>2. s.icws \in 1 .. Ready
        BY <1>0, <1>4, <3>4 DEF Setup, ChipType
      <4>3. Written(s, w.port, w.value) = r /\ r \in ChipType
        BY <1>4, <4>1, <4>2, WriteICW1
      <4>4. pic' = [pic EXCEPT !["slave"] = r]
        BY <2>2, <4>1, <4>3
      <4>5. pic' \in PicType /\ pic'["slave"] = r /\ pic'["master"] = pic["master"]
        <5> HIDE DEF r, m, s, w
        <5> QED BY <1>3, <1>m, <4>3, <4>4, OneChip DEF Chips
      <4> QED BY <1>0, <1>1, <1>4, <1>5, <3>4, <4>2, <4>5 DEF Setup, ChipType, Ready
    <3>5. CASE pc = 5
      <4> DEFINE r == [s EXCEPT !.icws = 2, !.base = 40]
      <4>1. w.chip = "slave" /\ w.port = "data" /\ w.value = 40
        BY <3>5, WritesAre DEF Out
      <4>2. s.icws = 1
        BY <1>0, <1>4, <3>5 DEF Setup, ChipType
      <4>3. Written(s, w.port, w.value) = r /\ r \in ChipType
        BY <1>4, <4>1, <4>2, WriteICW2
      <4>4. pic' = [pic EXCEPT !["slave"] = r]
        BY <2>2, <4>1, <4>3
      <4>5. pic' \in PicType /\ pic'["slave"] = r /\ pic'["master"] = pic["master"]
        <5> HIDE DEF r, m, s, w
        <5> QED BY <1>3, <1>m, <4>3, <4>4, OneChip DEF Chips
      <4> QED BY <1>0, <1>1, <1>4, <1>5, <3>5, <4>2, <4>5 DEF Setup, ChipType, Ready
    <3>6. CASE pc \in {6, 7}
      <4> DEFINE r == [s EXCEPT !.icws = s.icws + 1]
      <4>1. w.chip = "slave" /\ w.port = "data"
        BY <3>6, WritesAre DEF Out
      <4>2. s.icws = pc - 4 /\ s.icws \in {2, 3}
        BY <1>0, <1>4, <3>6 DEF Setup, ChipType
      <4>3. Written(s, w.port, w.value) = r /\ r \in ChipType
        BY <1>4, <4>1, <4>2, WriteICW34
      <4>4. pic' = [pic EXCEPT !["slave"] = r]
        BY <2>2, <4>1, <4>3
      <4>5. pic' \in PicType /\ pic'["slave"] = r /\ pic'["master"] = pic["master"]
        <5> HIDE DEF r, m, s, w
        <5> QED BY <1>3, <1>m, <4>3, <4>4, OneChip DEF Chips
      <4> QED BY <1>0, <1>1, <1>4, <1>5, <3>6, <4>2, <4>5 DEF Setup, ChipType, Ready
    <3>7. CASE pc = 8
      <4> DEFINE r == [m EXCEPT !.imr = Bits(253)]
      <4>1. w.chip = "master" /\ w.port = "data" /\ w.value = 253
        BY <3>7, WritesAre DEF Out
      <4>2. m.icws = Ready
        BY <1>0, <1>4, <3>7 DEF Setup, ChipType
      <4>3. Written(m, w.port, w.value) = r /\ r \in ChipType
        <5>1. /\ Written(m, "data", 253) = [m EXCEPT !.imr = Bits(253)]
              /\ [m EXCEPT !.imr = Bits(253)] \in ChipType
          <6> HIDE DEF m, s, w
          <6> QED BY <1>4, <4>2, WriteOCW1
        <5> QED BY <4>1, <5>1
      <4>4. pic' = [pic EXCEPT !["master"] = r]
        BY <2>2, <4>1, <4>3
      <4>5. pic' \in PicType /\ pic'["master"] = r /\ pic'["slave"] = pic["slave"]
        <5> HIDE DEF r, m, s, w
        <5> QED BY <1>3, <1>m, <4>3, <4>4, OneChip DEF Chips
      <4> QED BY <1>0, <1>1, <1>4, <1>5, <3>7, <4>2, <4>5 DEF Setup, ChipType, Ready
    <3>8. CASE pc = 9
      <4> DEFINE r == [s EXCEPT !.imr = Bits(255)]
      <4>1. w.chip = "slave" /\ w.port = "data" /\ w.value = 255
        BY <3>8, WritesAre DEF Out
      <4>2. s.icws = Ready
        BY <1>0, <1>4, <3>8 DEF Setup, ChipType
      <4>3. Written(s, w.port, w.value) = r /\ r \in ChipType
        <5>1. /\ Written(s, "data", 255) = [s EXCEPT !.imr = Bits(255)]
              /\ [s EXCEPT !.imr = Bits(255)] \in ChipType
          <6> HIDE DEF m, s, w
          <6> QED BY <1>4, <4>2, WriteOCW1
        <5> QED BY <4>1, <5>1
      <4>4. pic' = [pic EXCEPT !["slave"] = r]
        BY <2>2, <4>1, <4>3
      <4>5. pic' \in PicType /\ pic'["slave"] = r /\ pic'["master"] = pic["master"]
        <5> HIDE DEF r, m, s, w
        <5> QED BY <1>3, <1>m, <4>3, <4>4, OneChip DEF Chips
      <4> QED BY <1>0, <1>1, <1>4, <1>5, <3>8, <4>2, <4>5 DEF Setup, ChipType, Ready
    <3> QED BY <2>0, <3>1, <3>2, <3>3, <3>4, <3>5, <3>6, <3>7, <3>8
  <2>5. Serving'
    BY <1>1, <1>5, <2>2, <2>4 DEF Serving
  <2>6. TypeOK'
    <3>1. pc' \in 0 .. Len(InitWrites)
      BY <1>2, WritesAre DEF Writes
    <3> QED BY <1>0, <1>1, <2>2, <2>3, <2>4, <3>1 DEF TypeOK, PicType, ChipType
  <2> QED BY <2>4, <2>5, <2>6 DEF IInv
<1> QED BY <1>6, <1>7

\* With only the keyboard's input unmasked the master can ask for nothing else.
LEMMA OnlyKeyboardAsks ==
    ASSUME IInv, pc = Writes
    PROVE  /\ Requests("master") \subseteq {KeyboardPin}
           /\ Asks("master") => Answer("master") = KeyboardPin
<1>1. pic["master"].imr = Bits(253)
  BY DEF IInv, Setup, Writes
<1>2. pic["master"].irr \in SUBSET (0 .. 7)
  BY DEF IInv, TypeOK, Chips
<1>3. Requests("master") \subseteq {KeyboardPin}
  BY <1>1, <1>2, MasksAre DEF Requests
<1>4. ASSUME Asks("master") PROVE Answer("master") = KeyboardPin
  <2>1. Requests("master") = {KeyboardPin}
    BY <1>3, <1>4 DEF Asks
  <2> QED BY <2>1 DEF Answer, Highest, KeyboardPin
<1> QED BY <1>3, <1>4

\* An interrupt, the keyboard's or a spurious one, finds the stack empty.
LEMMA CpuKeepsIInv == IInv /\ (Interrupt \/ Spurious) => IInv'
<1> SUFFICES ASSUME IInv, Interrupt \/ Spurious PROVE IInv'
  OBVIOUS
<1>0. TypeOK /\ Setup /\ Serving
  BY DEF IInv
<1>1. IFlag = TRUE
  BY <1>0 DEF Interrupt, Spurious, TypeOK
<1>2. pc = 11 /\ calls = <<>>
  BY <1>0, <1>1 DEF Serving, Writes
<1>3. pic \in PicType /\ pic["master"] \in ChipType /\ "master" \in Chips /\ "slave" \in Chips
  BY <1>0 DEF TypeOK, PicType, ChipType, Chips
<1>4. pic["master"].base = 32 /\ pic["master"].isr = {}
  BY <1>0, <1>2 DEF Setup, Serving
<1>5. ASSUME NEW nr \in {33, 39}, Enter(nr)
      PROVE  /\ calls' = <<[nr |-> nr, at |-> IF nr = 33 THEN "read" ELSE "eoi"]>>
             /\ IFlag' = FALSE
             /\ UNCHANGED <<line, queue, sent, outbuf, got, pc, deaf>>
  <2>1. /\ calls' = Append(calls, [nr |-> nr, at |-> IF ReadsPort60(nr) THEN "read" ELSE "eoi"])
        /\ IFlag' = FALSE
        /\ UNCHANGED <<line, queue, sent, outbuf, got, pc, deaf>>
    BY <1>5 DEF Enter, GateClearsIF, devices
  <2>2. ReadsPort60(nr) <=> nr = 33
    BY DEF ReadsPort60, FirstGate, KeyboardPin
  <2>3. \A e : Append(<<>>, e) = <<e>>
    OBVIOUS
  <2>4. calls' = <<[nr |-> nr, at |-> IF nr = 33 THEN "read" ELSE "eoi"]>>
    BY <1>2, <2>1, <2>2, <2>3
  <2> QED BY <2>1, <2>4
<1>6. ASSUME NEW nr \in {33, 39}, Enter(nr), pic' \in PicType, Setup', pic'["slave"].isr = {},
             pic'["master"].isr = IF nr = 33 THEN {1} ELSE {}
      PROVE  IInv'
  <2> DEFINE at == IF nr = 33 THEN "read" ELSE "eoi"
  <2>0. /\ at \in {"read", "eoi", "iret"} /\ calls' = <<[nr |-> nr, at |-> at]>>
        /\ IFlag' = FALSE /\ pc' = pc
    BY <1>5, <1>6
  <2>1. Serving'
    <3>1. nr = 39 => at # "read"
      OBVIOUS
    <3>2. at # "iret"
      OBVIOUS
    <3> HIDE DEF at
    <3> QED BY <1>2, <1>6, <2>0, <3>1, <3>2 DEF Serving, Writes
  <2>2. \A i \in DOMAIN calls' : calls'[i].at \in {"read", "eoi", "iret"}
    <3> HIDE DEF at
    <3> QED BY <2>0
  <2>3. TypeOK'
    BY <1>0, <1>5, <1>6, <2>2 DEF TypeOK, PicType, ChipType
  <2> QED BY <1>6, <2>1, <2>3 DEF IInv
<1>7. CASE Interrupt
  <2>1. Asks("master") /\ Answer("master") = KeyboardPin
    BY <1>2, <1>7, OnlyKeyboardAsks DEF Interrupt, Writes
  <2>2. pic' = InService(pic, "master") /\ Enter(33)
    BY <1>4, <1>7, <2>1 DEF Interrupt, KeyboardPin, CascadePin
  <2> DEFINE r == [pic["master"] EXCEPT !.irr = @ \ {1}, !.isr = @ \cup {1}]
  <2>3. pic' = [pic EXCEPT !["master"] = r]
    BY <2>1, <2>2 DEF InService, KeyboardPin
  <2>4. r \in ChipType
    <3>1. pic["master"].irr \in SUBSET (0 .. 7) /\ pic["master"].isr \in SUBSET (0 .. 7)
      BY <1>3 DEF ChipType
    <3>2. pic["master"].irr \ {1} \in SUBSET (0 .. 7) /\ pic["master"].isr \cup {1} \in SUBSET (0 .. 7)
      BY <3>1
    <3> QED BY <1>3, <3>2 DEF ChipType
  <2>5. pic' \in PicType /\ pic'["master"] = r /\ pic'["slave"] = pic["slave"]
    <3> HIDE DEF r
    <3> QED BY <1>3, <2>3, <2>4, OneChip DEF Chips
  <2>6. /\ r.icws = pic["master"].icws /\ r.base = 32
        /\ r.imr = pic["master"].imr /\ r.isr = {1}
    BY <1>3, <1>4 DEF ChipType
  <2>7. pc' = pc
    BY <1>5, <2>2
  <2>8. Setup'
    BY <1>0, <2>5, <2>6, <2>7 DEF Setup
  <2> QED BY <1>0, <1>6, <2>2, <2>5, <2>6, <2>8 DEF Serving
<1>8. CASE Spurious
  <2>1. Enter(39) /\ pic' = pic
    BY <1>4, <1>8 DEF Spurious, SpuriousPin
  <2>2. pc' = pc
    BY <1>5, <2>1
  <2>3. Setup'
    BY <1>0, <2>1, <2>2 DEF Setup
  <2> QED BY <1>0, <1>3, <1>4, <1>6, <2>1, <2>3 DEF Serving
<1> QED BY <1>7, <1>8

\* The one do_IRQ there is, at the given stage, and what GoTo makes of the stack.
LEMMA TheCall ==
    ASSUME IInv, NEW stage, At(stage)
    PROVE  \E nr \in {33, 39} :
             /\ calls = <<[nr |-> nr, at |-> stage]>>
             /\ Last(calls).nr = nr
             /\ pc = Writes /\ IFlag = FALSE
             /\ nr = 39 => stage # "read" /\ pic["master"].isr = {}
             /\ nr = 33 => pic["master"].isr = IF stage = "iret" THEN {} ELSE {1}
             /\ \A to : GoTo(to) => calls' = <<[nr |-> nr, at |-> to]>>
<1>1. Serving /\ IFlag \in BOOLEAN
  BY DEF IInv, TypeOK
<1>2. calls # <<>> /\ Last(calls).at = stage
  BY DEF At
<1>3. PICK nr \in {33, 39}, at \in {"read", "eoi", "iret"} :
        /\ calls = <<[nr |-> nr, at |-> at]>>
        /\ pc = Writes
        /\ nr = 39 => at # "read" /\ pic["master"].isr = {}
        /\ nr = 33 => pic["master"].isr = IF at = "iret" THEN {} ELSE {1}
  BY <1>1, <1>2 DEF Serving
<1>4. Len(calls) = 1 /\ Last(calls) = [nr |-> nr, at |-> at]
  BY <1>3 DEF Last
<1>5. at = stage
  BY <1>2, <1>4
<1>6. IFlag = FALSE
  BY <1>1, <1>2 DEF Serving
<1>7. ASSUME NEW to, GoTo(to) PROVE calls' = <<[nr |-> nr, at |-> to]>>
  <2>1. calls' = [calls EXCEPT ![1].at = to]
    BY <1>4, <1>7 DEF GoTo
  <2>2. calls' = <<[[nr |-> nr, at |-> at] EXCEPT !.at = to]>>
    BY <1>3, <2>1
  <2> QED BY <2>2
<1> QED BY <1>3, <1>4, <1>5, <1>6, <1>7

\* io_in8(0x60) leaves what the master serves alone.
LEMMA ReadKeepsIInv == IInv /\ ReadScancode => IInv'
<1> SUFFICES ASSUME IInv, ReadScancode PROVE IInv'
  OBVIOUS
<1>0. TypeOK /\ Setup /\ Serving
  BY DEF IInv
<1>1. PICK nr \in {33, 39} :
        /\ nr = 39 => "read" # "read"
        /\ pc = Writes /\ IFlag = FALSE
        /\ nr = 33 => pic["master"].isr = {1}
        /\ \A to : GoTo(to) => calls' = <<[nr |-> nr, at |-> to]>>
  BY TheCall DEF ReadScancode
<1>2. /\ outbuf' = <<>> /\ got' = got \o outbuf /\ Lower(KeyboardPin)
      /\ calls' = <<[nr |-> 33, at |-> "eoi"]>>
      /\ UNCHANGED <<queue, sent, pc, IFlag, deaf>>
  BY <1>1 DEF ReadScancode, devices
<1>3. /\ pic' \in PicType
      /\ line' \subseteq Pins \cup {CascadePin}
      /\ \A c \in Chips : /\ pic'[c].icws = pic[c].icws /\ pic'[c].base = pic[c].base
                          /\ pic'[c].imr = pic[c].imr /\ pic'[c].isr = pic[c].isr
  <2>1. KeyboardPin \in 0 .. 15 /\ KeyboardPin \in Pins \cup {CascadePin}
    BY PinAssumption DEF KeyboardPin
  <2> QED BY <1>0, <1>2, <2>1, PinMoves
<1>4. Setup'
  BY <1>0, <1>2, <1>3 DEF Setup, Chips
<1>5. Serving'
  <2>1. pic'["slave"].isr = {} /\ pic'["master"].isr = {1}
    BY <1>0, <1>1, <1>3 DEF Serving, Chips
  <2> QED BY <1>1, <1>2, <2>1 DEF Serving
<1>6. TypeOK'
  <2>1. outbuf' \in Seq(1 .. MaxKeys) /\ Len(outbuf') <= 1
    BY <1>2
  <2>2. got' \in Seq(1 .. MaxKeys)
    BY <1>0, <1>2, ConcatProperties DEF TypeOK
  <2>3. \A i \in DOMAIN calls' : calls'[i].at \in {"read", "eoi", "iret"}
    BY <1>2
  <2> QED BY <1>0, <1>2, <1>3, <2>1, <2>2, <2>3 DEF TypeOK, PicType, ChipType
<1> QED BY <1>4, <1>5, <1>6 DEF IInv

\* The EOI leaves the master with nothing in service.
LEMMA AcknowledgeRetires ==
    ASSUME IInv, Acknowledge
    PROVE  /\ pic' = [pic EXCEPT !["master"].isr = {}]
           /\ UNCHANGED <<line, queue, sent, outbuf, got, pc, IFlag, deaf>>
<1>0. pic \in PicType /\ pic["master"] \in ChipType
  BY DEF IInv, TypeOK, PicType, ChipType, Chips
<1>1. pic["master"].isr \in {{}, {1}}
  BY TheCall DEF Acknowledge
<1>2. pic' = [c \in Chips |-> IF c \in {"master"} THEN Written(pic[c], "command", 32) ELSE pic[c]]
  BY DEF Acknowledge, EOI
<1>3. Written(pic["master"], "command", 32) =
        [pic["master"] EXCEPT !.isr = @ \ (IF @ = {} THEN {} ELSE {Highest(@)})]
  BY DEF Written, Command
<1>4. Highest({1}) = 1
  BY DEF Highest
<1>5. Written(pic["master"], "command", 32) = [pic["master"] EXCEPT !.isr = {}]
  <2>1. CASE pic["master"].isr = {}
    BY <1>0, <1>3, <2>1 DEF ChipType
  <2>2. CASE pic["master"].isr = {1}
    BY <1>0, <1>3, <1>4, <2>2 DEF ChipType
  <2> QED BY <1>1, <2>1, <2>2
<1>6. pic' = [pic EXCEPT !["master"].isr = {}]
  BY <1>0, <1>2, <1>5 DEF PicType
<1> QED BY <1>6 DEF Acknowledge, devices

LEMMA AcknowledgeKeepsIInv == IInv /\ Acknowledge => IInv'
<1> SUFFICES ASSUME IInv, Acknowledge PROVE IInv'
  OBVIOUS
<1>0. TypeOK /\ Setup /\ Serving
  BY DEF IInv
<1>1. PICK nr \in {33, 39} :
        /\ pc = Writes /\ IFlag = FALSE
        /\ \A to : GoTo(to) => calls' = <<[nr |-> nr, at |-> to]>>
  BY TheCall DEF Acknowledge
<1>2. calls' = <<[nr |-> nr, at |-> "iret"]>>
  BY <1>1 DEF Acknowledge
<1>3. /\ pic' = [pic EXCEPT !["master"].isr = {}]
      /\ UNCHANGED <<line, queue, sent, outbuf, got, pc, IFlag, deaf>>
  BY AcknowledgeRetires
<1>4. pic \in PicType
  BY <1>0 DEF TypeOK, PicType, ChipType
<1>5. pic' \in PicType
  BY <1>3, <1>4 DEF PicType, ChipType, Chips
<1>6. Setup'
  BY <1>0, <1>3, <1>4 DEF Setup, PicType, ChipType, Chips
<1>7. Serving'
  <2>1. pic'["slave"].isr = {} /\ pic'["master"].isr = {}
    BY <1>0, <1>3, <1>4 DEF Serving, PicType, ChipType, Chips
  <2> QED BY <1>1, <1>2, <1>3, <2>1 DEF Serving
<1>8. TypeOK'
  <2>1. \A i \in DOMAIN calls' : calls'[i].at \in {"read", "eoi", "iret"}
    BY <1>2
  <2> QED BY <1>0, <1>3, <1>5, <2>1 DEF TypeOK, PicType, ChipType
<1> QED BY <1>6, <1>7, <1>8 DEF IInv

\* The iret empties the stack and sets IF.
LEMMA ReturnKeepsIInv == IInv /\ Return => IInv'
<1> SUFFICES ASSUME IInv, Return PROVE IInv'
  OBVIOUS
<1>0. TypeOK /\ Setup /\ Serving
  BY DEF IInv
<1>1. PICK nr \in {33, 39} :
        /\ calls = <<[nr |-> nr, at |-> "iret"]>>
        /\ pc = Writes
        /\ pic["master"].isr = {}
  BY TheCall DEF Return
<1>2. /\ calls' = Front(calls) /\ IFlag' = TRUE
      /\ UNCHANGED <<pic, line, queue, sent, outbuf, got, pc, deaf>>
  BY DEF Return, devices
<1>3. calls' = <<>>
  BY <1>1, <1>2 DEF Front
<1>4. Setup'
  BY <1>0, <1>2 DEF Setup
<1>5. Serving'
  BY <1>0, <1>1, <1>2, <1>3 DEF Serving
<1>6. TypeOK'
  BY <1>0, <1>2, <1>3 DEF TypeOK
<1> QED BY <1>4, <1>5, <1>6 DEF IInv

LEMMA IInvInductive == IInv /\ [Next]_vars => IInv'
<1> SUFFICES ASSUME IInv, [Next]_vars PROVE IInv'
  OBVIOUS
<1>1. CASE Kernel
  BY <1>1, InitStepKeepsIInv, ReadKeepsIInv, AcknowledgeKeepsIInv, ReturnKeepsIInv DEF Kernel
<1>2. CASE Devices
  BY <1>2, DevicesKeepIInv
<1>3. CASE Interrupt \/ Spurious
  BY <1>3, CpuKeepsIInv
<1>4. CASE UNCHANGED vars
  BY <1>4 DEF IInv, TypeOK, Setup, Serving, vars, devices
<1> QED BY <1>1, <1>2, <1>3, <1>4 DEF Next

-----------------------------------------------------------------------------
(***************************************************************************)
(* The theorems.                                                           *)
(***************************************************************************)
\* IInv holds of every reachable state of init_interrupt, do_IRQ and devices.
THEOREM IInvHolds == Spec => []IInv
<1>1. Init => IInv
  BY InitIInv
<1>2. IInv /\ [Next]_vars => IInv'
  BY IInvInductive
<1> QED BY <1>1, <1>2, PTL DEF Spec

\* The controllers and the keyboard stay within their types.
THEOREM TypeCorrect == Spec => []TypeOK
<1>1. IInv => TypeOK
  BY DEF IInv
<1> QED BY <1>1, IInvHolds, PTL

\* With any devices on the controllers, every do_IRQ on the stack was entered
\* for the keyboard's vector or the spurious one.
THEOREM KeyboardAndSpuriousOnly == Spec => []OnlyKeyboardAndSpurious
<1>1. IInv => OnlyKeyboardAndSpurious
  BY DEF IInv, Serving, OnlyKeyboardAndSpurious, FirstGate, KeyboardPin, SpuriousPin
<1> QED BY <1>1, IInvHolds, PTL

\* do_IRQ returns with nothing in service at the master.
THEOREM ServiceEnds == Spec => []NothingLeftInService
<1>1. IInv => NothingLeftInService
  BY DEF IInv, Serving, NothingLeftInService
<1> QED BY <1>1, IInvHolds, PTL

\* The unspecific EOI of do_IRQ retires the input it was entered for, and after
\* a spurious interrupt none.
THEOREM EOIRetiresItsOwn == Spec => AcknowledgesItsOwn
<1>1. ASSUME IInv, Acknowledge
      PROVE  /\ pic'["master"].isr = pic["master"].isr \ {Last(calls).nr - pic["master"].base}
             /\ Last(calls).nr # FirstGate + SpuriousPin =>
                  Last(calls).nr - pic["master"].base \in pic["master"].isr
  <2>0. At("eoi")
    BY <1>1 DEF Acknowledge
  <2>1. PICK nr \in {33, 39} :
          /\ Last(calls).nr = nr /\ pc = Writes
          /\ nr = 39 => "eoi" # "read" /\ pic["master"].isr = {}
          /\ nr = 33 => pic["master"].isr = IF "eoi" = "iret" THEN {} ELSE {1}
    BY <1>1, <2>0, TheCall
  <2>2. pic["master"].base = 32
    BY <1>1, <2>1 DEF IInv, Setup, Writes
  <2>3. pic'["master"].isr = {}
    BY <1>1, AcknowledgeRetires DEF IInv, TypeOK, Chips
  <2> QED BY <2>1, <2>2, <2>3 DEF FirstGate, SpuriousPin
<1>2. IInv /\ [Next]_vars => [Acknowledge =>
        /\ pic'["master"].isr = pic["master"].isr \ {Last(calls).nr - pic["master"].base}
        /\ Last(calls).nr # FirstGate + SpuriousPin =>
             Last(calls).nr - pic["master"].base \in pic["master"].isr]_vars
  BY <1>1
<1> QED BY <1>2, IInvHolds, PTL DEF Spec, AcknowledgesItsOwn

=============================================================================
