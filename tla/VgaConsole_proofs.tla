--------------------------- MODULE VgaConsole_proofs ---------------------------
(***************************************************************************)
(* Printing in rustOS never waits for a lock of a context it interrupted.  *)
(*                                                                         *)
(* The argument is the one a reader of the code would make: each place of  *)
(* each program is given what is known there of the locks held and of IF,  *)
(* by going through its operations once (Checked), and a lock is only ever *)
(* held where IF is known clear, so that no handler finds one taken.  What *)
(* is known of a place is then what holds whenever a context is there.     *)
(***************************************************************************)
EXTENDS VgaConsole, SequenceTheorems, FiniteSetTheorems, WellFoundedInduction, TLAPS

Mains == TestMains \cup {"kernel_main"}
PanicHandlers == {"panic", "test_panic_handler", "should_panic_handler"}
Handlers == {"timer", "key", "silentkey", "breakpoint", "double_fault"}

\* The operations after which a context goes on, or panics, and the others.
Ordinary ==
    {"disable", "enable", "restore", "lock", "unlock", "send", "eoi", "initialize", "read60",
     "write_volatile", "exit", "allocate", "assert", "panic", "int3", "overflow", "lib", "bin"}
Arguments ==
    {"", "lib", "bin", "PICS", "KEYBOARD", "SERIAL", Timer, Keyboard, Success, Failed,
     ".", "k", "B", "\n", "s", "t", "H", "i", "!", "m", "n", "p"}
Code == Seq([op : Ordinary \cup {"iret", "hlt"}, arg : Arguments])

\* What is known at a place: the locks its context may hold, whether IF is known
\* clear, and whether the last without_interrupts is known to have found it so.
Known(held, mask, kept) == [held |-> held, mask |-> mask, kept |-> kept]
KnownSet == [held : SUBSET Locks, mask : BOOLEAN, kept : BOOLEAN]

\* A test may panic inside test_println_output, with its WRITER locked and IF
\* clear; kernel_main with nothing locked and IF set.
StartOf(who) ==
    Known(IF who = "test_panic_handler" THEN WRITERS ELSE {},
          who # "panic",
          who \notin PanicHandlers)

HeldAfter(x, a) ==
    IF x.op = "lock" THEN a.held \cup {x.arg}
    ELSE IF x.op = "unlock" THEN a.held \ {x.arg}
    ELSE a.held
MaskAfter(x, a) ==
    IF x.op = "disable" THEN TRUE
    ELSE IF x.op = "enable" THEN FALSE
    ELSE IF x.op = "restore" THEN a.kept
    ELSE a.mask
After(x, a) ==
    Known(HeldAfter(x, a), MaskAfter(x, a), IF x.op = "disable" THEN a.mask ELSE a.kept)

\* b claims no more than a.
Covers(b, a) == a.held \subseteq b.held /\ (b.mask => a.mask) /\ (b.kept => a.kept)

\* A lock is held, and a handler runs, only with IF clear.
Safe(who, a) == (a.held # {} => a.mask) /\ (who \in Handlers => a.mask)

Allowed(who, x, a) ==
    /\ Safe(who, a)
    /\ x.op \in Ordinary
    /\ x.op \in {"lock", "unlock"} => x.arg \in Locks
    /\ x.op = "lock" => x.arg \notin a.held
    /\ x.op \in WRITERS => a.mask
    /\ x.op \in {"int3", "overflow"} => who \in Mains /\ a.held = {}
    /\ x.op \in {"allocate", "panic", "assert"} =>
           who \in Mains /\ Covers(StartOf(PanicHandler(who)), a)
    /\ x.op = "exit" => x.arg \in {Success, Failed}

\* The last operation of a program: it returns, stays or does not return.
Ends(who, x, a) ==
    /\ Safe(who, a)
    /\ \/ x.op = "iret" /\ who \in Handlers /\ a.held = {}
       \/ x.op = "hlt"
       \/ x.op = "panic" /\ Allowed(who, x, a)

\* Going through code takes what is known from a to b, and f is what is known at
\* each of its places.
Goes(who, code, f) ==
    /\ f \in [1 .. Len(code) + 1 -> KnownSet]
    /\ \A i \in 1 .. Len(code) : Allowed(who, code[i], f[i]) /\ f[i + 1] = After(code[i], f[i])
Checked(who, code, a, b) ==
    /\ code \in Code
    /\ \E f : Goes(who, code, f) /\ f[1] = a /\ f[Len(code) + 1] = b

\* What is known at each place of a whole program.
Annotates(who, code, f) ==
    /\ f \in [1 .. Len(code) -> KnownSet]
    /\ f[1] = StartOf(who)
    /\ \A i \in 1 .. Len(code) - 1 :
           Allowed(who, code[i], f[i]) /\ f[i + 1] = After(code[i], f[i])
    /\ Ends(who, code[Len(code)], f[Len(code)])
Runs(who, code) ==
    /\ code \in Code /\ Len(code) > 0
    /\ \E f : Annotates(who, code, f)

-----------------------------------------------------------------------------
(***************************************************************************)
(* Going through code, by how it is put together.                          *)
(***************************************************************************)
\* Two pieces, one after the other.
LEMMA Then ==
    ASSUME NEW who, NEW c, NEW d, NEW a, NEW m, NEW b,
           Checked(who, c, a, m), Checked(who, d, m, b)
    PROVE  Checked(who, c \o d, a, b)
<1>1. PICK f : Goes(who, c, f) /\ f[1] = a /\ f[Len(c) + 1] = m
    BY DEF Checked
<1>2. PICK g : Goes(who, d, g) /\ g[1] = m /\ g[Len(d) + 1] = b
    BY DEF Checked
<1>3. c \in Code /\ d \in Code /\ Len(c) \in Nat /\ Len(d) \in Nat
    BY LenProperties DEF Checked, Code
<1> DEFINE cd == c \o d
           h == [i \in 1 .. Len(c) + Len(d) + 1 |-> IF i <= Len(c) THEN f[i] ELSE g[i - Len(c)]]
<1>4. /\ cd \in Code
      /\ Len(cd) = Len(c) + Len(d)
      /\ \A i \in 1 .. Len(c) + Len(d) : cd[i] = IF i <= Len(c) THEN c[i] ELSE d[i - Len(c)]
    BY <1>3, ConcatProperties DEF Code
<1>5. h \in [1 .. Len(cd) + 1 -> KnownSet]
    BY <1>1, <1>2, <1>3, <1>4 DEF Goes
<1>6. ASSUME NEW i \in 1 .. Len(cd)
      PROVE  Allowed(who, cd[i], h[i]) /\ h[i + 1] = After(cd[i], h[i])
  <2>1. CASE i < Len(c)
    <3>1. i \in 1 .. Len(c) /\ cd[i] = c[i] /\ h[i] = f[i] /\ h[i + 1] = f[i + 1]
        BY <1>3, <1>4, <2>1
    <3> HIDE DEF h, cd
    <3> QED  BY <1>1, <3>1 DEF Goes
  <2>2. CASE i = Len(c)
    <3>1. i \in 1 .. Len(c) /\ cd[i] = c[i] /\ h[i] = f[i] /\ h[i + 1] = g[1]
        BY <1>3, <1>4, <2>2
    <3>2. f[i + 1] = g[1]
        BY <1>1, <1>2, <2>2
    <3> HIDE DEF h, cd
    <3> QED  BY <1>1, <3>1, <3>2 DEF Goes
  <2>3. CASE i > Len(c)
    <3> DEFINE j == i - Len(c)
    <3>1. j \in 1 .. Len(d) /\ cd[i] = d[j] /\ h[i] = g[j] /\ h[i + 1] = g[j + 1]
        BY <1>3, <1>4, <2>3
    <3> HIDE DEF h, cd, j
    <3> QED  BY <1>2, <3>1 DEF Goes
  <2> QED  BY <1>3, <1>4, <2>1, <2>2, <2>3
<1>7. h[1] = a /\ h[Len(cd) + 1] = b
  <2>1. h[1] = a
    <3>1. CASE Len(c) = 0
        BY <1>1, <1>2, <1>3, <3>1
    <3>2. CASE Len(c) > 0
        BY <1>1, <1>3, <3>2
    <3> QED  BY <1>3, <3>1, <3>2
  <2>2. h[Len(cd) + 1] = g[Len(d) + 1]
      BY <1>3, <1>4
  <2> QED  BY <1>2, <2>1, <2>2
<1> HIDE DEF h, cd
<1>8. Goes(who, cd, h)
    BY <1>5, <1>6 DEF Goes
<1>9. Checked(who, cd, a, b)
    BY <1>4, <1>7, <1>8 DEF Checked
<1> QED  BY <1>9 DEF cd

\* No operation.
LEMMA Nothing ==
    ASSUME NEW who, NEW a \in KnownSet
    PROVE  Checked(who, <<>>, a, a)
<1> DEFINE f == [i \in 1 .. 1 |-> a]
<1>1. <<>> \in Code /\ Len(<<>>) = 0
    BY DEF Code
<1>2. f \in [1 .. 1 -> KnownSet] /\ f[1] = a
    OBVIOUS
<1> HIDE DEF f
<1>3. Goes(who, <<>>, f)
    BY <1>1, <1>2 DEF Goes
<1> QED  BY <1>1, <1>2, <1>3 DEF Checked

\* One operation.
LEMMA One ==
    ASSUME NEW who, NEW op \in Ordinary, NEW arg \in Arguments, NEW a \in KnownSet,
           NEW b \in KnownSet,
           Allowed(who, [op |-> op, arg |-> arg], a),
           b = After([op |-> op, arg |-> arg], a)
    PROVE  Checked(who, Op(op, arg), a, b)
<1> DEFINE x == [op |-> op, arg |-> arg]
           f == [i \in 1 .. 2 |-> IF i = 1 THEN a ELSE b]
<1>1. <<x>> \in Code /\ Len(<<x>>) = 1 /\ <<x>>[1] = x
    BY DEF Code
<1>2. f \in [1 .. 2 -> KnownSet] /\ f[1] = a /\ f[2] = b
    OBVIOUS
<1>3. Op(op, arg) = <<x>>
    BY DEF Op
<1>4. Allowed(who, x, a) /\ b = After(x, a)
    OBVIOUS
<1> HIDE DEF x, f
<1>5. \A i \in 1 .. Len(<<x>>) : i = 1
    BY <1>1
<1>6. Goes(who, <<x>>, f)
    BY <1>1, <1>2, <1>4, <1>5 DEF Goes
<1> QED  BY <1>1, <1>2, <1>3, <1>6 DEF Checked

\* An operation that touches neither a lock nor IF, where all is safe.
LEMMA Plainly ==
    ASSUME NEW who, NEW op \in {"send", "eoi", "initialize", "read60", "write_volatile"},
           NEW arg \in Arguments, NEW a \in KnownSet, Safe(who, a)
    PROVE  Checked(who, Op(op, arg), a, a)
<1> DEFINE x == [op |-> op, arg |-> arg]
<1>1. op \in Ordinary
    BY DEF Ordinary
<1>2. x.op = op
    OBVIOUS
<1>3. /\ op # "lock" /\ op # "unlock" /\ op # "disable" /\ op # "enable" /\ op # "restore"
      /\ op \notin WRITERS /\ op # "int3" /\ op # "overflow" /\ op # "allocate"
      /\ op # "panic" /\ op # "assert" /\ op # "exit"
    BY DEF WRITERS
<1> HIDE DEF x
<1>4. Allowed(who, x, a)
    BY <1>1, <1>2, <1>3 DEF Allowed
<1>5. After(x, a) = a
    BY <1>2, <1>3 DEF After, Known, HeldAfter, MaskAfter, KnownSet
<1>6. Allowed(who, [op |-> op, arg |-> arg], a) /\ a = After([op |-> op, arg |-> arg], a)
    BY <1>4, <1>5 DEF x
<1> QED  BY <1>1, <1>6, One

\* A lock, what is done under it, and its release.
LEMMA Locking ==
    ASSUME NEW who, NEW l \in Locks, NEW body, NEW h \in SUBSET Locks, l \notin h,
           NEW k \in BOOLEAN,
           Checked(who, body, Known(h \cup {l}, TRUE, k), Known(h \cup {l}, TRUE, k))
    PROVE  Checked(who, Locked(l, body), Known(h, TRUE, k), Known(h, TRUE, k))
<1> DEFINE a == Known(h, TRUE, k)
           b == Known(h \cup {l}, TRUE, k)
           x == [op |-> "lock", arg |-> l]
           y == [op |-> "unlock", arg |-> l]
<1>1. a \in KnownSet /\ b \in KnownSet
    BY DEF Known, KnownSet
<1>2. /\ a.held = h /\ a.mask = TRUE /\ a.kept = k
      /\ b.held = h \cup {l} /\ b.mask = TRUE /\ b.kept = k
    BY DEF Known
<1>3. x.op = "lock" /\ x.arg = l /\ y.op = "unlock" /\ y.arg = l
    OBVIOUS
<1>4. l \in Arguments /\ "lock" \in Ordinary /\ "unlock" \in Ordinary
    BY DEF Arguments, Ordinary, Locks, WRITERS
<1>5. Allowed(who, x, a) /\ Allowed(who, y, b)
  <2> HIDE DEF a, b, x, y
  <2> QED  BY <1>2, <1>3, <1>4 DEF Allowed, Safe, WRITERS
<1>6. b = After(x, a)
  <2> HIDE DEF a, x
  <2> QED  BY <1>2, <1>3 DEF After, HeldAfter, MaskAfter
<1>7. a = After(y, b)
  <2>1. (h \cup {l}) \ {l} = h
      OBVIOUS
  <2> HIDE DEF b, y
  <2> QED  BY <1>2, <1>3, <2>1 DEF After, HeldAfter, MaskAfter
<1>8. Checked(who, Op("lock", l), a, b)
  <2> HIDE DEF a, b
  <2> QED  BY <1>1, <1>4, <1>5, <1>6, One DEF x
<1>9. Checked(who, Op("unlock", l), b, a)
  <2> HIDE DEF a, b
  <2> QED  BY <1>1, <1>4, <1>5, <1>7, One DEF y
<1> HIDE DEF a, b
<1>10. Checked(who, Op("lock", l) \o body, a, b)
    BY <1>8, Then DEF b
<1>11. Checked(who, Op("lock", l) \o body \o Op("unlock", l), a, a)
    BY <1>9, <1>10, Then
<1> QED  BY <1>11 DEF Locked, a

\* without_interrupts leaves IF as it was; what it keeps is that.
LEMMA Masking ==
    ASSUME NEW who, NEW body, NEW h \in SUBSET Locks, NEW m \in BOOLEAN, NEW k \in BOOLEAN,
           Safe(who, Known(h, m, k)),
           Checked(who, body, Known(h, TRUE, m), Known(h, TRUE, m))
    PROVE  Checked(who, without_interrupts(body), Known(h, m, k), Known(h, m, m))
<1> DEFINE a == Known(h, m, k)
           b == Known(h, TRUE, m)
           c == Known(h, m, m)
           x == [op |-> "disable", arg |-> ""]
           y == [op |-> "restore", arg |-> ""]
<1>1. a \in KnownSet /\ b \in KnownSet /\ c \in KnownSet
    BY DEF Known, KnownSet
<1>2. /\ a.held = h /\ a.mask = m /\ a.kept = k
      /\ b.held = h /\ b.mask = TRUE /\ b.kept = m
    BY DEF Known
<1>3. x.op = "disable" /\ y.op = "restore"
    OBVIOUS
<1>4. "" \in Arguments /\ "disable" \in Ordinary /\ "restore" \in Ordinary
    BY DEF Arguments, Ordinary
<1>5. Safe(who, a)
    OBVIOUS
<1>6. Allowed(who, x, a) /\ Allowed(who, y, b)
  <2> HIDE DEF a, b, x, y
  <2> QED  BY <1>2, <1>3, <1>4, <1>5 DEF Allowed, Safe, WRITERS
<1>7. b = After(x, a)
  <2> HIDE DEF a, x
  <2> QED  BY <1>2, <1>3 DEF After, HeldAfter, MaskAfter
<1>8. c = After(y, b)
  <2> HIDE DEF b, y
  <2> QED  BY <1>2, <1>3 DEF After, HeldAfter, MaskAfter
<1>9. Checked(who, Op("disable", ""), a, b)
  <2> HIDE DEF a, b
  <2> QED  BY <1>1, <1>4, <1>6, <1>7, One DEF x
<1>10. Checked(who, Op("restore", ""), b, c)
  <2> HIDE DEF b, c
  <2> QED  BY <1>1, <1>4, <1>6, <1>8, One DEF y
<1> HIDE DEF a, b, c
<1>11. Checked(who, Op("disable", "") \o body, a, b)
    BY <1>9, Then DEF b
<1>12. Checked(who, Op("disable", "") \o body \o Op("restore", ""), a, c)
    BY <1>10, <1>11, Then
<1> QED  BY <1>12 DEF without_interrupts, a, c

\* write_string, with IF clear.
LEMMA Writing ==
    ASSUME NEW who, NEW w \in WRITERS, NEW s \in Seq(Arguments), NEW a \in KnownSet, a.mask
    PROVE  Checked(who, Bytes(w, s), a, a)
<1> DEFINE code == Bytes(w, s)
           f == [i \in 1 .. Len(s) + 1 |-> a]
<1>1. Len(s) \in Nat /\ DOMAIN s = 1 .. Len(s) /\ \A i \in 1 .. Len(s) : s[i] \in Arguments
    BY LenProperties, ElementOfSeq
<1>2. w \in Ordinary
    BY DEF WRITERS, Ordinary
<1>3. code = [i \in 1 .. Len(s) |-> [op |-> w, arg |-> s[i]]]
    BY <1>1 DEF Bytes
<1>4. code \in Code
    BY <1>1, <1>2, <1>3, IsASeq DEF Code
<1>5. Len(code) = Len(s)
    BY <1>1, <1>3, <1>4, LenProperties DEF Code
<1>6. \A i \in 1 .. Len(s) : code[i].op = w
    BY <1>3
<1>7. f \in [1 .. Len(s) + 1 -> KnownSet] /\ \A i \in 1 .. Len(s) + 1 : f[i] = a
    OBVIOUS
<1> HIDE DEF code, f
<1>8. ASSUME NEW x, x.op = w
      PROVE  Allowed(who, x, a) /\ After(x, a) = a
  <2>1. Allowed(who, x, a)
      BY <1>2, <1>8 DEF Allowed, Safe, WRITERS
  <2>2. After(x, a) = a
      BY <1>8 DEF After, Known, HeldAfter, MaskAfter, KnownSet, WRITERS
  <2> QED  BY <2>1, <2>2
<1>9. Goes(who, code, f)
  <2>1. ASSUME NEW i \in 1 .. Len(code)
        PROVE  Allowed(who, code[i], f[i]) /\ f[i + 1] = After(code[i], f[i])
    <3>1. f[i] = a /\ f[i + 1] = a /\ code[i].op = w
        BY <1>1, <1>5, <1>6, <1>7
    <3> QED  BY <1>8, <3>1
  <2> QED  BY <1>5, <1>7, <2>1 DEF Goes
<1>10. f[1] = a /\ f[Len(code) + 1] = a
    BY <1>1, <1>5, <1>7
<1>11. Checked(who, code, a, a)
    BY <1>4, <1>9, <1>10 DEF Checked
<1> QED  BY <1>11 DEF code

-----------------------------------------------------------------------------
(***************************************************************************)
(* The functions the programs call.                                        *)
(***************************************************************************)
LEMMA KnownFields ==
    ASSUME NEW h \in SUBSET Locks, NEW m \in BOOLEAN, NEW k \in BOOLEAN
    PROVE  /\ Known(h, m, k) \in KnownSet
           /\ Known(h, m, k).held = h /\ Known(h, m, k).mask = m /\ Known(h, m, k).kept = k
BY DEF Known, KnownSet

LEMMA SafeMasked ==
    ASSUME NEW who, NEW h \in SUBSET Locks, NEW k \in BOOLEAN
    PROVE  Safe(who, Known(h, TRUE, k))
BY DEF Known, Safe

LEMMA Printing ==
    ASSUME NEW who, NEW w \in WRITERS, NEW s \in Seq(Arguments), NEW h \in SUBSET Locks, w \notin h,
           NEW m \in BOOLEAN, NEW k \in BOOLEAN, Safe(who, Known(h, m, k))
    PROVE  Checked(who, _print(w, s), Known(h, m, k), Known(h, m, m))
<1>1. w \in Locks /\ h \cup {w} \in SUBSET Locks
    BY DEF Locks
<1> DEFINE a == Known(h \cup {w}, TRUE, m)
           body == Locked(w, Bytes(w, s))
<1>2. a \in KnownSet /\ a.mask
    BY <1>1 DEF Known, KnownSet
<1>3. Checked(who, Bytes(w, s), a, a)
  <2> HIDE DEF a
  <2> QED  BY <1>2, Writing
<1>4. Checked(who, body, Known(h, TRUE, m), Known(h, TRUE, m))
    BY <1>1, <1>3, Locking
<1> HIDE DEF body
<1>5. Checked(who, without_interrupts(body), Known(h, m, k), Known(h, m, m))
    BY <1>4, Masking
<1> QED  BY <1>5 DEF _print, body

LEMMA SerialPrinting ==
    ASSUME NEW who, NEW h \in SUBSET Locks, "SERIAL" \notin h,
           NEW m \in BOOLEAN, NEW k \in BOOLEAN, Safe(who, Known(h, m, k))
    PROVE  Checked(who, serial_print, Known(h, m, k), Known(h, m, m))
<1>1. "SERIAL" \in Locks /\ h \cup {"SERIAL"} \in SUBSET Locks /\ "" \in Arguments
    BY DEF Locks, Arguments
<1> DEFINE a == Known(h \cup {"SERIAL"}, TRUE, m)
           op == Op("send", "")
           body == Locked("SERIAL", op)
<1>2. a \in KnownSet /\ Safe(who, a)
    BY <1>1 DEF Known, KnownSet, Safe
<1>3. Checked(who, op, a, a)
  <2> HIDE DEF a
  <2> QED  BY <1>1, <1>2, Plainly
<1> HIDE DEF op
<1>4. Checked(who, body, Known(h, TRUE, m), Known(h, TRUE, m))
    BY <1>1, <1>3, Locking
<1> HIDE DEF body
<1>5. Checked(who, without_interrupts(body), Known(h, m, k), Known(h, m, m))
    BY <1>4, Masking
<1> QED  BY <1>5 DEF serial_print, body, op

LEMMA Acknowledging ==
    ASSUME NEW who, NEW irq \in {Timer, Keyboard}, NEW h \in SUBSET Locks, "PICS" \notin h,
           NEW k \in BOOLEAN
    PROVE  Checked(who, EndOfInterrupt(irq), Known(h, TRUE, k), Known(h, TRUE, k))
<1>1. "PICS" \in Locks /\ h \cup {"PICS"} \in SUBSET Locks /\ irq \in Arguments
    BY DEF Locks, Arguments
<1> DEFINE a == Known(h \cup {"PICS"}, TRUE, k)
           op == Op("eoi", irq)
<1>2. a \in KnownSet /\ Safe(who, a)
    BY <1>1 DEF Known, KnownSet, Safe
<1>3. Checked(who, op, a, a)
  <2> HIDE DEF a
  <2> QED  BY <1>1, <1>2, Plainly
<1> HIDE DEF op
<1>4. Checked(who, Locked("PICS", op), Known(h, TRUE, k), Known(h, TRUE, k))
    BY <1>1, <1>3, Locking
<1> QED  BY <1>4 DEF EndOfInterrupt, op

\* init locks the PICs with IF still clear, and sets it last.
LEMMA Initializing ==
    ASSUME NEW who \in Mains
    PROVE  Checked(who, init, Known({}, TRUE, TRUE), Known({}, FALSE, TRUE))
<1>1. "PICS" \in Locks /\ {} \in SUBSET Locks /\ "PICS" \notin {} /\ "" \in Arguments
      /\ {} \cup {"PICS"} \in SUBSET Locks
    BY DEF Locks, Arguments
<1> DEFINE a == Known({} \cup {"PICS"}, TRUE, TRUE)
           op == Op("initialize", "")
           b == Known({}, TRUE, TRUE)
           c == Known({}, FALSE, TRUE)
           x == [op |-> "enable", arg |-> ""]
<1>2. a \in KnownSet /\ Safe(who, a)
    BY <1>1 DEF Known, KnownSet, Safe
<1>3. Checked(who, op, a, a)
  <2> HIDE DEF a
  <2> QED  BY <1>1, <1>2, Plainly
<1>4. Checked(who, Locked("PICS", op), b, b)
  <2> HIDE DEF op
  <2> QED  BY <1>1, <1>3, Locking
<1>5. b \in KnownSet /\ c \in KnownSet /\ b.held = {} /\ b.mask = TRUE /\ b.kept = TRUE
    BY DEF Known, KnownSet
<1>6. x.op = "enable" /\ "enable" \in Ordinary
    BY DEF Ordinary
<1>7. Allowed(who, x, b)
  <2> HIDE DEF x, b
  <2> QED  BY <1>5, <1>6 DEF Allowed, Safe, WRITERS
<1>8. c = After(x, b)
  <2> HIDE DEF x, b
  <2> QED  BY <1>5, <1>6 DEF After, HeldAfter, MaskAfter
<1>9. Checked(who, Op("enable", ""), b, c)
  <2> HIDE DEF b, c
  <2> QED  BY <1>1, <1>5, <1>6, <1>7, <1>8, One DEF x
<1> HIDE DEF op, b, c
<1>10. Checked(who, Locked("PICS", op) \o Op("enable", ""), b, c)
    BY <1>4, <1>9, Then
<1> QED  BY <1>10 DEF init, op, b, c

LEMMA RunningTest ==
    ASSUME NEW who, NEW body, NEW m \in BOOLEAN, NEW k \in BOOLEAN,
           Safe(who, Known({}, m, k)),
           Checked(who, body, Known({}, m, m), Known({}, m, m))
    PROVE  Checked(who, run_test(body), Known({}, m, k), Known({}, m, m))
<1>1. Safe(who, Known({}, m, m))
    BY DEF Safe, Known
<1>2. {} \in SUBSET Locks /\ "SERIAL" \notin {}
    OBVIOUS
<1>3. /\ Checked(who, serial_print, Known({}, m, k), Known({}, m, m))
      /\ Checked(who, serial_print, Known({}, m, m), Known({}, m, m))
    BY <1>1, <1>2, SerialPrinting
<1> DEFINE a == Known({}, m, k)
           b == Known({}, m, m)
<1> HIDE DEF a, b
<1>4. Checked(who, serial_print, a, b) /\ Checked(who, body, b, b) /\ Checked(who, serial_print, b, b)
    BY <1>3 DEF a, b
<1>5. Checked(who, serial_print \o body, a, b)
    BY <1>4, Then
<1>6. Checked(who, serial_print \o body \o serial_print, a, b)
    BY <1>4, <1>5, Then
<1> QED  BY <1>6 DEF run_test, a, b

LEMMA Exiting ==
    ASSUME NEW who, NEW exit_code \in {Success, Failed}, NEW a \in KnownSet, Safe(who, a)
    PROVE  Checked(who, exit_qemu(exit_code), a, a)
<1> DEFINE x == [op |-> "exit", arg |-> exit_code]
<1>1. exit_code \in Arguments /\ "exit" \in Ordinary
    BY DEF Arguments, Ordinary
<1>2. x.op = "exit" /\ x.arg = exit_code
    OBVIOUS
<1> HIDE DEF x
<1>3. Allowed(who, x, a)
    BY <1>1, <1>2 DEF Allowed, WRITERS
<1>4. a = After(x, a)
    BY <1>2 DEF After, Known, HeldAfter, MaskAfter, KnownSet
<1> QED  BY <1>1, <1>3, <1>4, One DEF x, exit_qemu

\* The assertion that may fail does so with only its WRITER locked.
LEMMA Asserting ==
    ASSUME NEW who \in {"lib_test_main", "bin_test_main"}, NEW w \in WRITERS, NEW k \in BOOLEAN
    PROVE  Checked(who, Op("assert", ""), Known({w}, TRUE, k), Known({w}, TRUE, k))
<1> DEFINE a == Known({w}, TRUE, k)
           b == StartOf("test_panic_handler")
           x == [op |-> "assert", arg |-> ""]
<1>1. a \in KnownSet /\ a.held = {w} /\ a.mask = TRUE /\ a.kept = k
    BY DEF Known, KnownSet, Locks
<1>2. b.held = WRITERS /\ b.mask = TRUE /\ b.kept = FALSE
    BY DEF Known, StartOf, PanicHandlers
<1>3. x.op = "assert" /\ "assert" \in Ordinary /\ "" \in Arguments
    BY DEF Ordinary, Arguments
<1>4. StartOf(PanicHandler(who)) = b
    BY DEF PanicHandler
<1>5. Covers(StartOf(PanicHandler(who)), a)
  <2> HIDE DEF a, b
  <2> QED  BY <1>1, <1>2, <1>4 DEF Covers
<1>6. who \in Mains
    BY DEF Mains, TestMains
<1> HIDE DEF x, a
<1>7. Allowed(who, x, a)
    BY <1>1, <1>3, <1>5, <1>6 DEF Allowed, Safe, WRITERS
<1>8. a = After(x, a)
    BY <1>1, <1>3 DEF After, Known, HeldAfter, MaskAfter, KnownSet
<1>9. Checked(who, Op("assert", ""), a, a)
    BY <1>1, <1>3, <1>7, <1>8, One DEF x
<1> QED  BY <1>9 DEF a

LEMMA TestingPrintln ==
    ASSUME NEW who \in {"lib_test_main", "bin_test_main"}, NEW w \in WRITERS,
           NEW m \in BOOLEAN, NEW k \in BOOLEAN
    PROVE  Checked(who, test_println_output(w), Known({}, m, k), Known({}, m, m))
<1> DEFINE s == <<"\n">> \o Line \o <<"\n">>
           a == Known({w}, TRUE, m)
           body == Bytes(w, s) \o Op("assert", "")
           locked == Locked(w, body)
<1>1. s \in Seq(Arguments)
  <2>1. <<"\n">> \in Seq(Arguments) /\ Line \in Seq(Arguments)
      BY DEF Arguments, Line
  <2> DEFINE t == <<"\n">> \o Line
  <2>2. t \in Seq(Arguments)
      BY <2>1, ConcatProperties
  <2> HIDE DEF t
  <2>3. t \o <<"\n">> \in Seq(Arguments)
      BY <2>1, <2>2, ConcatProperties
  <2> QED  BY <2>3 DEF t
<1>2. a \in KnownSet /\ a.mask /\ w \in Locks /\ {} \in SUBSET Locks /\ w \notin {}
      /\ {} \cup {w} = {w}
    BY DEF Known, KnownSet, Locks
<1> HIDE DEF s
<1>3. Checked(who, Bytes(w, s), a, a)
  <2> HIDE DEF a
  <2> QED  BY <1>1, <1>2, Writing
<1>4. Checked(who, Op("assert", ""), a, a)
    BY Asserting
<1>5. Checked(who, body, a, a)
  <2> HIDE DEF a
  <2> QED  BY <1>3, <1>4, Then
<1> HIDE DEF body
<1>6. Checked(who, locked, Known({}, TRUE, m), Known({}, TRUE, m))
    BY <1>2, <1>5, Locking
<1> HIDE DEF locked
<1>7. Safe(who, Known({}, m, k))
    BY DEF Safe, Known, Handlers
<1>8. Checked(who, without_interrupts(locked), Known({}, m, k), Known({}, m, m))
    BY <1>2, <1>6, <1>7, Masking
<1> QED  BY <1>8 DEF test_println_output, locked, body, s

\* A whole program: what was gone through, and the operation it ends with.
LEMMA Whole ==
    ASSUME NEW who, NEW code, NEW b, Checked(who, code, StartOf(who), b),
           NEW op \in Ordinary \cup {"iret", "hlt"}, NEW arg \in Arguments,
           Ends(who, [op |-> op, arg |-> arg], b)
    PROVE  Runs(who, code \o Op(op, arg))
<1> DEFINE x == [op |-> op, arg |-> arg]
           all == code \o <<x>>
<1>1. PICK f : Goes(who, code, f) /\ f[1] = StartOf(who) /\ f[Len(code) + 1] = b
    BY DEF Checked
<1>2. code \in Code /\ Len(code) \in Nat
    BY LenProperties DEF Checked, Code
<1>3. <<x>> \in Code /\ Len(<<x>>) = 1 /\ <<x>>[1] = x
    BY DEF Code
<1>4. /\ all \in Code /\ Len(all) = Len(code) + 1
      /\ \A i \in 1 .. Len(code) : all[i] = code[i]
      /\ all[Len(code) + 1] = x
  <2> DEFINE y == <<x>>
  <2>1. y \in Code /\ Len(y) = 1 /\ y[1] = x
      BY <1>3
  <2> HIDE DEF y, x
  <2> DEFINE z == code \o y
             Operations == [op : Ordinary \cup {"iret", "hlt"}, arg : Arguments]
  <2>2. z \in Code /\ Len(z) = Len(code) + 1
        /\ \A i \in 1 .. Len(code) + 1 : z[i] = IF i <= Len(code) THEN code[i] ELSE y[i - Len(code)]
    <3>1. Code = Seq(Operations)
        BY DEF Code
    <3> HIDE DEF Operations
    <3> QED  BY <1>2, <2>1, <3>1, ConcatProperties
  <2>3. all = z
      BY DEF y
  <2> HIDE DEF all, z
  <2>4. \A i \in 1 .. Len(code) : z[i] = code[i]
      BY <1>2, <2>2
  <2>5. z[Len(code) + 1] = x
    <3>1. Len(code) + 1 \in 1 .. Len(code) + 1 /\ ~(Len(code) + 1 <= Len(code))
          /\ (Len(code) + 1) - Len(code) = 1
        BY <1>2
    <3> QED  BY <2>1, <2>2, <3>1
  <2> QED  BY <2>2, <2>3, <2>4, <2>5
<1>5. Ends(who, x, b)
    OBVIOUS
<1>6. Op(op, arg) = <<x>>
    BY DEF Op
<1> HIDE DEF all, x
<1>7. f \in [1 .. Len(all) -> KnownSet]
    BY <1>1, <1>4 DEF Goes
<1>8. \A i \in 1 .. Len(all) - 1 : Allowed(who, all[i], f[i]) /\ f[i + 1] = After(all[i], f[i])
  <2> SUFFICES ASSUME NEW i \in 1 .. Len(all) - 1
               PROVE  Allowed(who, all[i], f[i]) /\ f[i + 1] = After(all[i], f[i])
      OBVIOUS
  <2>1. i \in 1 .. Len(code) /\ all[i] = code[i]
      BY <1>2, <1>4
  <2> QED  BY <1>1, <2>1 DEF Goes
<1>9. Ends(who, all[Len(all)], f[Len(all)])
    BY <1>1, <1>4, <1>5
<1>10. Annotates(who, all, f)
    BY <1>1, <1>7, <1>8, <1>9 DEF Annotates
<1>11. Len(all) > 0
    BY <1>2, <1>4
<1>12. Runs(who, all)
    BY <1>4, <1>10, <1>11 DEF Runs
<1> QED  BY <1>6, <1>12 DEF all

-----------------------------------------------------------------------------
(***************************************************************************)
(* The programs.                                                           *)
(***************************************************************************)
\* What each kind of program starts from, and where it may end.
LEMMA Starts ==
    /\ \A who \in Mains \cup Handlers : StartOf(who) = Known({}, TRUE, TRUE)
    /\ StartOf("panic") = Known({}, FALSE, FALSE)
    /\ StartOf("should_panic_handler") = Known({}, TRUE, FALSE)
    /\ StartOf("test_panic_handler") = Known(WRITERS, TRUE, FALSE)
BY DEF StartOf, Mains, TestMains, Handlers, PanicHandlers

LEMMA Returning ==
    ASSUME NEW who \in Handlers, NEW k \in BOOLEAN
    PROVE  Ends(who, [op |-> "iret", arg |-> ""], Known({}, TRUE, k))
BY DEF Ends, Safe, Known

LEMMA Halting ==
    ASSUME NEW who, NEW b, Safe(who, b)
    PROVE  Ends(who, [op |-> "hlt", arg |-> ""], b)
BY DEF Ends

\* Texts are sequences of the model's characters.
LEMMA Texts ==
    /\ <<".">> \in Seq(Arguments) /\ <<"k">> \in Seq(Arguments)
    /\ <<"B", "\n">> \in Seq(Arguments) /\ <<"H", "i", "!", "\n">> \in Seq(Arguments)
    /\ <<"m", "n", "\n">> \in Seq(Arguments) /\ <<"p", "\n">> \in Seq(Arguments)
<1>1. /\ "." \in Arguments /\ "k" \in Arguments /\ "B" \in Arguments /\ "\n" \in Arguments
      /\ "H" \in Arguments /\ "i" \in Arguments /\ "!" \in Arguments /\ "m" \in Arguments
      /\ "n" \in Arguments /\ "p" \in Arguments
    BY DEF Arguments
<1> QED  BY <1>1

LEMMA TimerRuns == Runs("timer", timer_interrupt_handler)
<1> DEFINE a == Known({}, TRUE, TRUE)
<1>1. "timer" \in Handlers /\ "lib" \in WRITERS /\ "lib" \notin {} /\ "PICS" \notin {}
      /\ {} \in SUBSET Locks /\ Timer \in {Timer, Keyboard}
    BY DEF Handlers, WRITERS
<1>2. Checked("timer", _print("lib", <<".">>), a, a)
    BY <1>1, Texts, SafeMasked, Printing
<1>3. Checked("timer", EndOfInterrupt(Timer), a, a)
    BY <1>1, Acknowledging
<1>4. Ends("timer", [op |-> "iret", arg |-> ""], a)
    BY <1>1, Returning
<1>5. StartOf("timer") = a
    BY <1>1, Starts
<1> HIDE DEF a
<1>6. Checked("timer", _print("lib", <<".">>) \o EndOfInterrupt(Timer), StartOf("timer"), a)
    BY <1>2, <1>3, <1>5, Then
<1>7. "iret" \in Ordinary \cup {"iret", "hlt"} /\ "" \in Arguments
    BY DEF Arguments
<1> QED  BY <1>4, <1>6, <1>7, Whole DEF timer_interrupt_handler

LEMMA BreakpointRuns == Runs("breakpoint", breakpoint_handler)
<1> DEFINE a == Known({}, TRUE, TRUE)
<1>1. "breakpoint" \in Handlers /\ "lib" \in WRITERS /\ "lib" \notin {} /\ {} \in SUBSET Locks
    BY DEF Handlers, WRITERS
<1>2. Checked("breakpoint", _print("lib", <<"B", "\n">>), a, a)
    BY <1>1, Texts, SafeMasked, Printing
<1>3. Ends("breakpoint", [op |-> "iret", arg |-> ""], a)
    BY <1>1, Returning
<1>4. StartOf("breakpoint") = a
    BY <1>1, Starts
<1> HIDE DEF a
<1>5. "iret" \in Ordinary \cup {"iret", "hlt"} /\ "" \in Arguments
    BY DEF Arguments
<1> QED  BY <1>2, <1>3, <1>4, <1>5, Whole DEF breakpoint_handler

\* The keyboard's handler prints and acknowledges with KEYBOARD locked.
LEMMA KeyboardRuns ==
    ASSUME NEW who \in {"key", "silentkey"}, NEW prints \in BOOLEAN
    PROVE  Runs(who, keyboard_interrupt_handler(prints))
<1> DEFINE a == Known({}, TRUE, TRUE)
           b == Known({} \cup {"KEYBOARD"}, TRUE, TRUE)
           echo == IF prints THEN _print("lib", <<"k">>) ELSE <<>>
           body == Op("read60", "") \o echo \o EndOfInterrupt(Keyboard)
<1>1. /\ who \in Handlers /\ "lib" \in WRITERS /\ "KEYBOARD" \notin {} /\ {} \in SUBSET Locks
      /\ Keyboard \in {Timer, Keyboard} /\ "KEYBOARD" \in Locks /\ "" \in Arguments
      /\ {} \cup {"KEYBOARD"} \in SUBSET Locks
      /\ "lib" \notin {} \cup {"KEYBOARD"} /\ "PICS" \notin {} \cup {"KEYBOARD"}
    BY DEF Handlers, WRITERS, Locks, Arguments
<1>2. b \in KnownSet /\ Safe(who, b)
    BY <1>1, KnownFields, SafeMasked
<1>3. Checked(who, Op("read60", ""), b, b)
  <2> HIDE DEF b
  <2> QED  BY <1>1, <1>2, Plainly
<1>4. Checked(who, echo, b, b)
  <2>1. CASE prints
    <3>1. Checked(who, _print("lib", <<"k">>), b, b)
        BY <1>1, Texts, SafeMasked, Printing
    <3> QED  BY <2>1, <3>1
  <2>2. CASE ~prints
    <3> HIDE DEF b
    <3>1. Checked(who, <<>>, b, b)
        BY <1>2, Nothing
    <3> QED  BY <2>2, <3>1
  <2> QED  BY <2>1, <2>2
<1>5. Checked(who, EndOfInterrupt(Keyboard), b, b)
    BY <1>1, Acknowledging
<1>6. Checked(who, body, b, b)
  <2> HIDE DEF b, echo
  <2> DEFINE first == Op("read60", "") \o echo
  <2>1. Checked(who, first, b, b)
      BY <1>3, <1>4, Then
  <2> HIDE DEF first
  <2>2. Checked(who, first \o EndOfInterrupt(Keyboard), b, b)
      BY <1>5, <2>1, Then
  <2> QED  BY <2>2 DEF first
<1> HIDE DEF body
<1>7. Checked(who, Locked("KEYBOARD", body), a, a)
    BY <1>1, <1>6, Locking
<1>8. Ends(who, [op |-> "iret", arg |-> ""], a)
    BY <1>1, Returning
<1>9. StartOf(who) = a
    BY <1>1, Starts
<1> HIDE DEF a
<1>10. "iret" \in Ordinary \cup {"iret", "hlt"}
    OBVIOUS
<1>11. Runs(who, Locked("KEYBOARD", body) \o Op("iret", ""))
    BY <1>1, <1>7, <1>8, <1>9, <1>10, Whole
<1> QED  BY <1>11 DEF keyboard_interrupt_handler, body, echo

LEMMA PanicRuns == Runs("panic", panic)
<1> DEFINE a == Known({}, FALSE, FALSE)
<1>1. "bin" \in WRITERS /\ "bin" \notin {} /\ {} \in SUBSET Locks
    BY DEF WRITERS
<1>2. Safe("panic", a)
    BY DEF Safe, Known, Handlers
<1>3. Checked("panic", _print("bin", <<"p", "\n">>), a, a)
    BY <1>1, <1>2, Texts, Printing
<1>4. Ends("panic", [op |-> "hlt", arg |-> ""], a)
    BY <1>2, Halting
<1>5. StartOf("panic") = a
    BY Starts
<1> HIDE DEF a
<1>6. "hlt" \in Ordinary \cup {"iret", "hlt"} /\ "" \in Arguments
    BY DEF Arguments
<1> QED  BY <1>3, <1>4, <1>5, <1>6, Whole DEF panic, hlt_loop

\* Whatever WRITER the test that failed left locked.
LEMMA TestPanicRuns == Runs("test_panic_handler", test_panic_handler)
<1> DEFINE who == "test_panic_handler"
           a == Known(WRITERS, TRUE, FALSE)
           b == Known(WRITERS, TRUE, TRUE)
<1>1. WRITERS \in SUBSET Locks /\ "SERIAL" \notin WRITERS
    BY DEF WRITERS, Locks
<1>2. Safe(who, a) /\ Safe(who, b) /\ a \in KnownSet /\ b \in KnownSet
    BY <1>1, KnownFields, SafeMasked
<1>3. Checked(who, serial_print, a, b) /\ Checked(who, serial_print, b, b)
    BY <1>1, <1>2, SerialPrinting
<1>4. Checked(who, exit_qemu(Failed), b, b)
  <2> HIDE DEF b
  <2> QED  BY <1>2, Exiting
<1>5. Ends(who, [op |-> "hlt", arg |-> ""], b)
    BY <1>2, Halting
<1>6. StartOf(who) = a
    BY Starts
<1> HIDE DEF a, b
<1> DEFINE c == serial_print \o serial_print
<1>7. Checked(who, c, a, b)
    BY <1>3, Then
<1> HIDE DEF c
<1>8. Checked(who, c \o exit_qemu(Failed), StartOf(who), b)
    BY <1>4, <1>6, <1>7, Then
<1>9. "hlt" \in Ordinary \cup {"iret", "hlt"} /\ "" \in Arguments
    BY DEF Arguments
<1> QED  BY <1>5, <1>8, <1>9, Whole DEF test_panic_handler, hlt_loop, c

LEMMA ShouldPanicHandlerRuns == Runs("should_panic_handler", should_panic_handler)
<1> DEFINE who == "should_panic_handler"
           a == Known({}, TRUE, FALSE)
           b == Known({}, TRUE, TRUE)
<1>1. {} \in SUBSET Locks /\ "SERIAL" \notin {}
    OBVIOUS
<1>2. Safe(who, a) /\ Safe(who, b) /\ a \in KnownSet /\ b \in KnownSet
    BY <1>1, KnownFields, SafeMasked
<1>3. Checked(who, serial_print, a, b)
    BY <1>1, <1>2, SerialPrinting
<1>4. Checked(who, exit_qemu(Success), b, b)
  <2> HIDE DEF b
  <2> QED  BY <1>2, Exiting
<1>5. Ends(who, [op |-> "hlt", arg |-> ""], b)
    BY <1>2, Halting
<1>6. StartOf(who) = a
    BY Starts
<1> HIDE DEF a, b
<1>7. Checked(who, serial_print \o exit_qemu(Success), StartOf(who), b)
    BY <1>3, <1>4, <1>6, Then
<1>8. "hlt" \in Ordinary \cup {"iret", "hlt"} /\ "" \in Arguments
    BY DEF Arguments
<1> QED  BY <1>5, <1>7, <1>8, Whole DEF should_panic_handler, hlt_loop

LEMMA DoubleFaultRuns == Runs("double_fault", test_double_fault_handler)
<1> DEFINE who == "double_fault"
           b == Known({}, TRUE, TRUE)
<1>1. {} \in SUBSET Locks /\ "SERIAL" \notin {} /\ who \in Handlers
    BY DEF Handlers
<1>2. Safe(who, b) /\ b \in KnownSet
    BY <1>1, KnownFields, SafeMasked
<1>3. Checked(who, serial_print, b, b)
    BY <1>1, <1>2, SerialPrinting
<1>4. Checked(who, exit_qemu(Success), b, b)
  <2> HIDE DEF b
  <2> QED  BY <1>2, Exiting
<1>5. Ends(who, [op |-> "hlt", arg |-> ""], b)
    BY <1>2, Halting
<1>6. StartOf(who) = b
    BY <1>1, Starts
<1> HIDE DEF b
<1>7. Checked(who, serial_print \o exit_qemu(Success), StartOf(who), b)
    BY <1>3, <1>4, <1>6, Then
<1>8. "hlt" \in Ordinary \cup {"iret", "hlt"} /\ "" \in Arguments
    BY DEF Arguments
<1> QED  BY <1>5, <1>7, <1>8, Whole DEF test_double_fault_handler, hlt_loop

\* An expect in create_example_mapping panics with IF set and nothing locked.
LEMMA KernelMainRuns == Runs("kernel_main", kernel_main)
<1> DEFINE who == "kernel_main"
           a == Known({}, TRUE, TRUE)
           b == Known({}, FALSE, TRUE)
           c == Known({}, FALSE, FALSE)
           x == [op |-> "allocate", arg |-> ""]
<1>1. /\ {} \in SUBSET Locks /\ "bin" \in WRITERS /\ "bin" \notin {} /\ who \in Mains
      /\ "" \in Arguments /\ "allocate" \in Ordinary
    BY DEF WRITERS, Mains, Arguments, Ordinary
<1>2. /\ a \in KnownSet /\ b \in KnownSet /\ c \in KnownSet
      /\ b.held = {} /\ b.mask = FALSE /\ b.kept = TRUE
    BY <1>1, KnownFields
<1>3. Safe(who, b) /\ Safe(who, c)
    BY DEF Safe, Known, Handlers
<1>4. Checked(who, init, a, b)
    BY <1>1, Initializing
<1>5. StartOf(PanicHandler(who)) = Known({}, FALSE, FALSE)
    BY Starts DEF PanicHandler
<1>6. Covers(StartOf(PanicHandler(who)), b)
  <2> HIDE DEF b
  <2> QED  BY <1>5, KnownFields, <1>1, <1>2 DEF Covers
<1>7. Allowed(who, x, b) /\ b = After(x, b)
  <2>1. x.op = "allocate"
      OBVIOUS
  <2> HIDE DEF x, b
  <2>2. Allowed(who, x, b)
      BY <1>1, <1>3, <1>6, <2>1 DEF Allowed, WRITERS
  <2>3. b = After(x, b)
      BY <1>2, <2>1 DEF After, Known, HeldAfter, MaskAfter, KnownSet
  <2> QED  BY <2>2, <2>3
<1>8. Checked(who, Op("allocate", ""), b, b)
  <2> HIDE DEF b
  <2> QED  BY <1>1, <1>2, <1>7, One DEF x
<1>9. Checked(who, Op("write_volatile", ""), b, b)
  <2> HIDE DEF b
  <2> QED  BY <1>1, <1>2, <1>3, Plainly
<1>10. Checked(who, _print("bin", <<"H", "i", "!", "\n">>), b, c)
    BY <1>1, <1>3, Texts, Printing
<1>11. Ends(who, [op |-> "hlt", arg |-> ""], c)
    BY <1>3, Halting
<1>12. StartOf(who) = a
    BY <1>1, Starts
<1> HIDE DEF a, b, c
<1> DEFINE d1 == Op("allocate", "") \o Op("allocate", "")
           d2 == d1 \o Op("allocate", "")
           d3 == init \o d2
           d4 == d3 \o Op("write_volatile", "")
           d5 == d4 \o _print("bin", <<"H", "i", "!", "\n">>)
<1>13. Checked(who, d1, b, b)
    BY <1>8, Then
<1>14. Checked(who, d2, b, b)
  <2> HIDE DEF d1
  <2> QED  BY <1>8, <1>13, Then
<1>15. Checked(who, d3, a, b)
  <2> HIDE DEF d2
  <2> QED  BY <1>4, <1>14, Then
<1>16. Checked(who, d4, a, b)
  <2> HIDE DEF d3
  <2> QED  BY <1>9, <1>15, Then
<1>17. Checked(who, d5, StartOf(who), c)
  <2> HIDE DEF d4
  <2> QED  BY <1>10, <1>12, <1>16, Then
<1>18. "hlt" \in Ordinary \cup {"iret", "hlt"} /\ "" \in Arguments
    BY DEF Arguments
<1>19. kernel_main = d5 \o Op("hlt", "")
    BY DEF kernel_main, create_example_mapping, hlt_loop
<1> HIDE DEF d5
<1> QED  BY <1>11, <1>17, <1>18, <1>19, Whole

LEMMA RunningTests ==
    ASSUME NEW who, NEW tests, NEW m \in BOOLEAN, NEW k \in BOOLEAN,
           Safe(who, Known({}, m, k)),
           Checked(who, tests, Known({}, m, m), Known({}, m, m))
    PROVE  Checked(who, test_runner(tests), Known({}, m, k), Known({}, m, m))
<1> DEFINE a == Known({}, m, k)
           b == Known({}, m, m)
<1>1. {} \in SUBSET Locks /\ "SERIAL" \notin {}
    OBVIOUS
<1>2. Safe(who, b)
    BY DEF Safe, Known
<1>3. b \in KnownSet
    BY <1>1, KnownFields
<1>4. Checked(who, serial_print, a, b)
    BY <1>1, SerialPrinting
<1>5. Checked(who, exit_qemu(Success), b, b)
  <2> HIDE DEF b
  <2> QED  BY <1>2, <1>3, Exiting
<1>6. Checked(who, tests, b, b)
    OBVIOUS
<1> HIDE DEF a, b
<1> DEFINE d == serial_print \o tests
<1>7. Checked(who, d, a, b)
    BY <1>4, <1>6, Then
<1> HIDE DEF d
<1>8. Checked(who, d \o exit_qemu(Success), a, b)
    BY <1>5, <1>7, Then
<1> QED  BY <1>8 DEF test_runner, a, b, d

LEMMA TestingPrint ==
    ASSUME NEW who \in Mains, NEW w \in WRITERS, NEW m \in BOOLEAN
    PROVE  Checked(who, run_test(test_print(w)), Known({}, m, m), Known({}, m, m))
<1>1. {} \in SUBSET Locks /\ w \notin {} /\ Safe(who, Known({}, m, m))
    BY DEF Safe, Known, Mains, TestMains, Handlers
<1>2. Checked(who, test_print(w), Known({}, m, m), Known({}, m, m))
    BY <1>1, Texts, Printing DEF test_print
<1> QED  BY <1>1, <1>2, RunningTest

LEMMA TestingPrintlnToo ==
    ASSUME NEW who \in {"lib_test_main", "bin_test_main"}, NEW w \in WRITERS, NEW m \in BOOLEAN
    PROVE  Checked(who, run_test(test_println_output(w)), Known({}, m, m), Known({}, m, m))
<1>1. Safe(who, Known({}, m, m))
    BY DEF Safe, Known, Handlers
<1>2. Checked(who, test_println_output(w), Known({}, m, m), Known({}, m, m))
    BY TestingPrintln
<1> QED  BY <1>1, <1>2, RunningTest

LEMMA Breaking ==
    ASSUME NEW who \in Mains, NEW m \in BOOLEAN
    PROVE  Checked(who, run_test(Op("int3", "")), Known({}, m, m), Known({}, m, m))
<1> DEFINE a == Known({}, m, m)
           x == [op |-> "int3", arg |-> ""]
<1>1. /\ {} \in SUBSET Locks /\ Safe(who, a) /\ "int3" \in Ordinary /\ "" \in Arguments
      /\ a \in KnownSet /\ a.held = {}
    BY DEF Safe, Known, KnownSet, Mains, TestMains, Handlers, Ordinary, Arguments
<1>2. x.op = "int3"
    OBVIOUS
<1>3. Allowed(who, x, a) /\ a = After(x, a)
  <2> HIDE DEF x, a
  <2>1. Allowed(who, x, a)
      BY <1>1, <1>2 DEF Allowed, WRITERS
  <2>2. a = After(x, a)
      BY <1>1, <1>2 DEF After, Known, HeldAfter, MaskAfter, KnownSet
  <2> QED  BY <2>1, <2>2
<1>4. Checked(who, Op("int3", ""), a, a)
  <2> HIDE DEF a
  <2> QED  BY <1>1, <1>3, One DEF x
<1> QED  BY <1>1, <1>4, RunningTest

LEMMA LibTestsRun == Runs("lib_test_main", lib_test_main)
<1> DEFINE who == "lib_test_main"
           a == Known({}, TRUE, TRUE)
           b == Known({}, FALSE, TRUE)
           c == Known({}, FALSE, FALSE)
           t1 == run_test(Op("int3", ""))
           t2 == run_test(test_print("lib"))
           t3 == run_test(test_println_output("lib"))
           t12 == t1 \o t2
           tests == t12 \o t3
<1>1. {} \in SUBSET Locks /\ "lib" \in WRITERS /\ who \in Mains
      /\ who \in {"lib_test_main", "bin_test_main"}
    BY DEF WRITERS, Mains, TestMains
<1>2. Safe(who, b) /\ Safe(who, c)
    BY DEF Safe, Known, Handlers
<1>3. Checked(who, init, a, b)
    BY <1>1, Initializing
<1>4. Checked(who, t1, c, c) /\ Checked(who, t2, c, c) /\ Checked(who, t3, c, c)
    BY <1>1, Breaking, TestingPrint, TestingPrintlnToo
<1>5. Checked(who, tests, c, c)
  <2> HIDE DEF t1, t2, t3, c
  <2>1. Checked(who, t12, c, c)
      BY <1>4, Then
  <2> HIDE DEF t12
  <2> QED  BY <1>4, <2>1, Then
<1> HIDE DEF tests
<1>6. Checked(who, test_runner(tests), b, c)
    BY <1>2, <1>5, RunningTests
<1>7. Ends(who, [op |-> "hlt", arg |-> ""], c)
    BY <1>2, Halting
<1>8. StartOf(who) = a
    BY <1>1, Starts
<1> HIDE DEF a, b, c
<1>9. Checked(who, init \o test_runner(tests), StartOf(who), c)
    BY <1>3, <1>6, <1>8, Then
<1>10. "hlt" \in Ordinary \cup {"iret", "hlt"} /\ "" \in Arguments
    BY DEF Arguments
<1>11. lib_test_main = init \o test_runner(tests) \o Op("hlt", "")
    BY DEF lib_test_main, hlt_loop, tests
<1> QED  BY <1>7, <1>9, <1>10, <1>11, Whole

LEMMA BinTestsRun == Runs("bin_test_main", bin_test_main)
<1> DEFINE who == "bin_test_main"
           a == Known({}, TRUE, TRUE)
           b == Known({}, FALSE, TRUE)
           c == Known({}, FALSE, FALSE)
           t1 == run_test(test_print("bin"))
           t2 == run_test(test_println_output("bin"))
           tests == t1 \o t2
<1>1. {} \in SUBSET Locks /\ "bin" \in WRITERS /\ who \in Mains
      /\ who \in {"lib_test_main", "bin_test_main"}
    BY DEF WRITERS, Mains, TestMains
<1>2. Safe(who, b) /\ Safe(who, c)
    BY DEF Safe, Known, Handlers
<1>3. Checked(who, init, a, b)
    BY <1>1, Initializing
<1>4. Checked(who, t1, c, c) /\ Checked(who, t2, c, c)
    BY <1>1, TestingPrint, TestingPrintlnToo
<1>5. Checked(who, tests, c, c)
  <2> HIDE DEF t1, t2, c
  <2> QED  BY <1>4, Then
<1> HIDE DEF tests
<1>6. Checked(who, test_runner(tests), b, c)
    BY <1>2, <1>5, RunningTests
<1>7. Ends(who, [op |-> "hlt", arg |-> ""], c)
    BY <1>2, Halting
<1>8. StartOf(who) = a
    BY <1>1, Starts
<1> HIDE DEF a, b, c
<1>9. Checked(who, init \o test_runner(tests), StartOf(who), c)
    BY <1>3, <1>6, <1>8, Then
<1>10. "hlt" \in Ordinary \cup {"iret", "hlt"} /\ "" \in Arguments
    BY DEF Arguments
<1>11. bin_test_main = init \o test_runner(tests) \o Op("hlt", "")
    BY DEF bin_test_main, hlt_loop, tests
<1> QED  BY <1>7, <1>9, <1>10, <1>11, Whole

\* The files of tests/ never set IF.
LEMMA BasicBootRuns == Runs("basic_boot", basic_boot)
<1> DEFINE who == "basic_boot"
           a == Known({}, TRUE, TRUE)
           tests == run_test(test_print("lib"))
<1>1. "lib" \in WRITERS /\ who \in Mains /\ {} \in SUBSET Locks
    BY DEF WRITERS, Mains, TestMains
<1>2. Safe(who, a)
    BY <1>1, SafeMasked
<1>3. Checked(who, tests, a, a)
    BY <1>1, TestingPrint
<1> HIDE DEF tests
<1>4. Checked(who, test_runner(tests), a, a)
    BY <1>2, <1>3, RunningTests
<1>5. Ends(who, [op |-> "hlt", arg |-> ""], a)
    BY <1>2, Halting
<1>6. StartOf(who) = a
    BY <1>1, Starts
<1> HIDE DEF a
<1>7. "hlt" \in Ordinary \cup {"iret", "hlt"} /\ "" \in Arguments
    BY DEF Arguments
<1>8. basic_boot = test_runner(tests) \o Op("hlt", "")
    BY DEF basic_boot, hlt_loop, tests
<1> QED  BY <1>4, <1>5, <1>6, <1>7, <1>8, Whole

\* The panics the two other tests are for: nothing is locked and IF is clear.
LEMMA Panicking ==
    ASSUME NEW who \in {"should_panic", "stack_overflow"}
    PROVE  Allowed(who, [op |-> "panic", arg |-> ""], Known({}, TRUE, TRUE))
<1> DEFINE a == Known({}, TRUE, TRUE)
           x == [op |-> "panic", arg |-> ""]
           b == StartOf(PanicHandler(who))
<1>1. a.held = {} /\ a.mask = TRUE /\ a.kept = TRUE
    BY DEF Known
<1>2. b.mask = TRUE
    BY Starts DEF PanicHandler, Known
<1>3. x.op = "panic" /\ "panic" \in Ordinary /\ who \in Mains
    BY DEF Ordinary, Mains, TestMains
<1> HIDE DEF x, a
<1>4. Covers(b, a)
  <2> HIDE DEF b
  <2> QED  BY <1>1, <1>2 DEF Covers
<1>5. Allowed(who, x, a)
    BY <1>1, <1>3, <1>4 DEF Allowed, Safe, WRITERS
<1> QED  BY <1>5 DEF x, a

LEMMA ShouldPanicRuns == Runs("should_panic", should_panic)
<1> DEFINE who == "should_panic"
           a == Known({}, TRUE, TRUE)
           x == [op |-> "panic", arg |-> ""]
<1>1. /\ who \in Mains /\ {} \in SUBSET Locks /\ "SERIAL" \notin {}
      /\ "panic" \in Ordinary /\ "" \in Arguments
      /\ "hlt" \in Ordinary \cup {"iret", "hlt"}
    BY DEF Mains, TestMains, Ordinary, Arguments
<1>2. Safe(who, a) /\ a \in KnownSet
    BY <1>1, SafeMasked, KnownFields
<1>3. Checked(who, serial_print, a, a)
    BY <1>1, <1>2, SerialPrinting
<1>4. Allowed(who, x, a)
    BY Panicking
<1>5. a = After(x, a)
  <2>1. x.op = "panic"
      OBVIOUS
  <2> HIDE DEF x, a
  <2> QED  BY <1>2, <2>1 DEF After, Known, HeldAfter, MaskAfter, KnownSet
<1>6. Checked(who, Op("panic", ""), a, a)
  <2> HIDE DEF a
  <2> QED  BY <1>1, <1>2, <1>4, <1>5, One DEF x
<1>7. Checked(who, exit_qemu(Failed), a, a) /\ Checked(who, exit_qemu(Success), a, a)
  <2> HIDE DEF a
  <2> QED  BY <1>2, Exiting
<1>8. Ends(who, [op |-> "hlt", arg |-> ""], a)
    BY <1>2, Halting
<1>9. StartOf(who) = a
    BY <1>1, Starts
<1> HIDE DEF a
<1> DEFINE d1 == serial_print \o should_fail
           d2 == d1 \o serial_print
           d3 == d2 \o exit_qemu(Failed)
           d4 == d3 \o exit_qemu(Success)
<1>10. Checked(who, should_fail, a, a)
    BY <1>3, <1>6, Then DEF should_fail
<1>11. Checked(who, d1, a, a)
    BY <1>3, <1>10, Then
<1>12. Checked(who, d2, a, a)
  <2> HIDE DEF d1
  <2> QED  BY <1>3, <1>11, Then
<1>13. Checked(who, d3, a, a)
  <2> HIDE DEF d2
  <2> QED  BY <1>7, <1>12, Then
<1>14. Checked(who, d4, StartOf(who), a)
  <2> HIDE DEF d3
  <2> QED  BY <1>7, <1>9, <1>13, Then
<1>15. should_panic = d4 \o Op("hlt", "")
    BY DEF should_panic, hlt_loop
<1> HIDE DEF d4
<1> QED  BY <1>1, <1>8, <1>14, <1>15, Whole

LEMMA StackOverflowRuns == Runs("stack_overflow", stack_overflow)
<1> DEFINE who == "stack_overflow"
           a == Known({}, TRUE, TRUE)
           x == [op |-> "overflow", arg |-> ""]
<1>1. /\ who \in Mains /\ {} \in SUBSET Locks /\ "SERIAL" \notin {}
      /\ "overflow" \in Ordinary /\ "" \in Arguments
      /\ "panic" \in Ordinary \cup {"iret", "hlt"}
    BY DEF Mains, TestMains, Ordinary, Arguments
<1>2. Safe(who, a) /\ a \in KnownSet /\ a.held = {}
    BY <1>1, SafeMasked, KnownFields
<1>3. Checked(who, serial_print, a, a)
    BY <1>1, <1>2, SerialPrinting
<1>4. Allowed(who, x, a) /\ a = After(x, a)
  <2>1. x.op = "overflow"
      OBVIOUS
  <2> HIDE DEF x, a
  <2>2. Allowed(who, x, a)
      BY <1>1, <1>2, <2>1 DEF Allowed, WRITERS
  <2>3. a = After(x, a)
      BY <1>2, <2>1 DEF After, Known, HeldAfter, MaskAfter, KnownSet
  <2> QED  BY <2>2, <2>3
<1>5. Checked(who, Op("overflow", ""), a, a)
  <2> HIDE DEF a
  <2> QED  BY <1>1, <1>2, <1>4, One DEF x
<1>6. Ends(who, [op |-> "panic", arg |-> ""], a)
    BY <1>2, Panicking DEF Ends
<1>7. StartOf(who) = a
    BY <1>1, Starts
<1> HIDE DEF a
<1>8. Checked(who, serial_print \o Op("overflow", ""), StartOf(who), a)
    BY <1>3, <1>5, <1>7, Then
<1> QED  BY <1>1, <1>6, <1>8, Whole DEF stack_overflow

\* Every program may be gone through.
LEMMA ProgramsRun ==
    /\ DOMAIN Program = Mains \cup PanicHandlers \cup Handlers
    /\ \A who \in DOMAIN Program : Runs(who, Program[who])
<1>1. DOMAIN Program = Mains \cup PanicHandlers \cup Handlers
    BY DEF Program, Mains, TestMains, PanicHandlers, Handlers
<1>2. /\ Program["kernel_main"] = kernel_main /\ Program["lib_test_main"] = lib_test_main
      /\ Program["bin_test_main"] = bin_test_main /\ Program["basic_boot"] = basic_boot
      /\ Program["should_panic"] = should_panic /\ Program["stack_overflow"] = stack_overflow
      /\ Program["panic"] = panic /\ Program["test_panic_handler"] = test_panic_handler
      /\ Program["should_panic_handler"] = should_panic_handler
      /\ Program["double_fault"] = test_double_fault_handler
      /\ Program["timer"] = timer_interrupt_handler
      /\ Program["key"] = keyboard_interrupt_handler(TRUE)
      /\ Program["silentkey"] = keyboard_interrupt_handler(FALSE)
      /\ Program["breakpoint"] = breakpoint_handler
    BY DEF Program
<1>3. Runs("key", keyboard_interrupt_handler(TRUE)) /\ Runs("silentkey", keyboard_interrupt_handler(FALSE))
    BY KeyboardRuns
<1>4. \A who \in Mains : Runs(who, Program[who])
    BY <1>2, KernelMainRuns, LibTestsRun, BinTestsRun, BasicBootRuns, ShouldPanicRuns,
       StackOverflowRuns DEF Mains, TestMains
<1>5. \A who \in PanicHandlers : Runs(who, Program[who])
    BY <1>2, PanicRuns, TestPanicRuns, ShouldPanicHandlerRuns DEF PanicHandlers
<1>6. \A who \in Handlers : Runs(who, Program[who])
    BY <1>2, <1>3, TimerRuns, BreakpointRuns, DoubleFaultRuns DEF Handlers
<1> QED  BY <1>1, <1>4, <1>5, <1>6

-----------------------------------------------------------------------------
(***************************************************************************)
(* The invariant: what is known at its place holds of every context.       *)
(***************************************************************************)
Ann(who) == CHOOSE f : Annotates(who, Program[who], f)
At(c) == Ann(c.who)[c.pc]

Contexts == [who : DOMAIN Program, pc : Nat, entered : BOOLEAN, kept : BOOLEAN]
Entries == [writer : WRITERS \cup {"page"}, byte : Arguments \cup {New}, who : DOMAIN Program, op : Nat]

\* A handler is entered over a main or what its panic made of it, and over no
\* other handler.
CallsInv ==
    /\ calls \in Seq(Contexts)
    /\ Len(calls) \in 1 .. 2
    /\ \A i \in 1 .. Len(calls) : calls[i].pc \in 1 .. Len(Program[calls[i].who])
    /\ calls[1].who \in Mains \cup PanicHandlers
    /\ Len(calls) = 2 => calls[2].who \in Handlers
    /\ \A i \in 1 .. Len(calls) : At(calls[i]).kept => ~calls[i].kept

\* IF is clear where it is known to be; what a handler interrupted held nothing,
\* and gets IF back as it had it.
MaskInv ==
    /\ IFlag \in BOOLEAN
    /\ At(calls[Len(calls)]).mask => ~IFlag
    /\ Len(calls) = 2 => /\ At(calls[1]).held = {}
                         /\ At(calls[1]).mask => ~calls[2].entered

OwnerInv ==
    /\ owner \in [Locks -> 0 .. 2]
    /\ \A l \in Locks :
           owner[l] # 0 => owner[l] = Len(calls) /\ l \in At(calls[Len(calls)]).held

\* Between two bytes of a print its context stays the innermost.
LogInv ==
    /\ log \in Seq(Entries)
    /\ PrintsAreWhole
    /\ Len(log) > 0 =>
           LET e == log[Len(log)]
           IN  Program[e.who][e.op + 1].op \in WRITERS =>
                   calls[Len(calls)].who = e.who /\ calls[Len(calls)].pc = e.op + 1

ScreenInv ==
    /\ DOMAIN screen = Rows /\ \A r \in Rows : DOMAIN screen[r] = Cols
    /\ col_pos \in [WRITERS -> 0 .. BUFFER_WIDTH]

DeviceInv ==
    /\ irr \subseteq {Timer, Keyboard} /\ isr \subseteq {Timer, Keyboard}
    /\ scancode \in BOOLEAN /\ deaf \in BOOLEAN
    /\ ticks \in 0 .. MaxTicks /\ keys \in 0 .. MaxKeys
    /\ ended \in {0, Status(Success), Status(Failed)}

IInv == CallsInv /\ MaskInv /\ OwnerInv /\ LogInv /\ ScreenInv /\ DeviceInv

LEMMA Annotation ==
    ASSUME NEW who \in DOMAIN Program
    PROVE  /\ Annotates(who, Program[who], Ann(who))
           /\ Program[who] \in Code
           /\ Len(Program[who]) \in Nat /\ Len(Program[who]) > 0
           /\ DOMAIN Program[who] = 1 .. Len(Program[who])
<1>1. Runs(who, Program[who])
    BY ProgramsRun
<1>2. \E f : Annotates(who, Program[who], f)
    BY <1>1 DEF Runs
<1>3. Annotates(who, Program[who], Ann(who))
    BY <1>2 DEF Ann
<1> QED  BY <1>1, <1>3, LenProperties DEF Runs, Code

\* At the place of a context: what is known of it is well formed and safe, and its
\* operation is allowed there or ends the program.
LEMMA Place ==
    ASSUME NEW c \in Contexts, c.pc \in 1 .. Len(Program[c.who])
    PROVE  /\ At(c) \in KnownSet
           /\ Safe(c.who, At(c))
           /\ Program[c.who][c.pc].arg \in Arguments
           /\ \/ Allowed(c.who, Program[c.who][c.pc], At(c))
              \/ Ends(c.who, Program[c.who][c.pc], At(c))
           /\ Program[c.who][c.pc].op \in Ordinary \ {"panic"} =>
                  /\ Allowed(c.who, Program[c.who][c.pc], At(c))
                  /\ c.pc + 1 \in 1 .. Len(Program[c.who])
                  /\ Ann(c.who)[c.pc + 1] = After(Program[c.who][c.pc], At(c))
<1> DEFINE who == c.who
           i == c.pc
           code == Program[who]
           f == Ann(who)
<1>1. who \in DOMAIN Program
    BY DEF Contexts
<1>2. /\ Annotates(who, code, f) /\ code \in Code /\ Len(code) \in Nat /\ Len(code) > 0
    BY <1>1, Annotation
<1>3. i \in 1 .. Len(code) /\ At(c) = f[i]
    BY DEF At
<1> HIDE DEF who, i, code, f
<1>4. f[i] \in KnownSet
    BY <1>2, <1>3 DEF Annotates
<1>5. code[i].arg \in Arguments
  <2>1. code[i] \in [op : Ordinary \cup {"iret", "hlt"}, arg : Arguments]
      BY <1>2, <1>3, ElementOfSeq DEF Code
  <2> QED  BY <2>1
<1>6. CASE i = Len(code)
  <2>1. Ends(who, code[i], f[i])
      BY <1>2, <1>6 DEF Annotates
  <2>2. code[i].op \notin Ordinary \ {"panic"}
      BY <2>1 DEF Ends, Ordinary
  <2> QED  BY <1>3, <1>4, <1>5, <2>1, <2>2 DEF Ends, who, i, code, f
<1>7. CASE i # Len(code)
  <2>1. i \in 1 .. Len(code) - 1 /\ i + 1 \in 1 .. Len(code)
      BY <1>2, <1>3, <1>7
  <2>2. Allowed(who, code[i], f[i]) /\ f[i + 1] = After(code[i], f[i])
      BY <1>2, <2>1 DEF Annotates
  <2> QED  BY <1>3, <1>4, <1>5, <2>1, <2>2 DEF Allowed, who, i, code, f
<1> QED  BY <1>6, <1>7

LEMMA StartPlace ==
    ASSUME NEW c, c.who \in DOMAIN Program, c.pc = 1
    PROVE  At(c) = StartOf(c.who) /\ c.pc \in 1 .. Len(Program[c.who])
BY Annotation DEF Annotates, At

\* The innermost context.
LEMMA MyPlace ==
    ASSUME CallsInv
    PROVE  /\ Len(calls) \in Nat /\ Me = calls[Len(calls)] /\ Me \in Contexts
           /\ Me.pc \in 1 .. Len(Program[Me.who])
           /\ Me.who \in DOMAIN Program
           /\ Len(calls) \in DOMAIN calls
<1>1. Len(calls) \in 1 .. Len(calls) /\ calls \in Seq(Contexts) /\ Len(calls) \in Nat
    BY DEF CallsInv
<1>2. Me = calls[Len(calls)]
    BY DEF Me, Last
<1>3. Me \in Contexts
    BY <1>1, <1>2, ElementOfSeq
<1>4. Me.pc \in 1 .. Len(Program[Me.who])
    BY <1>1, <1>2 DEF CallsInv
<1> QED  BY <1>1, <1>2, <1>3, <1>4, LenProperties DEF Contexts

\* The innermost context goes to another place, of its program or of its panic's.
LEMMA Moves ==
    ASSUME CallsInv, MaskInv, NEW c \in Contexts,
           calls' = [calls EXCEPT ![Len(calls)] = c],
           c.pc \in 1 .. Len(Program[c.who]),
           c.who = Me.who \/ (Me.who \in Mains /\ c.who \in PanicHandlers),
           c.entered = Me.entered,
           At(c).kept => ~c.kept,
           IFlag' \in BOOLEAN, At(c).mask => ~IFlag'
    PROVE  CallsInv' /\ MaskInv' /\ Len(calls') = Len(calls) /\ calls'[Len(calls)] = c
<1> DEFINE n == Len(calls)
<1>1. n \in 1 .. 2 /\ calls \in Seq(Contexts) /\ n \in 1 .. n /\ Me = calls[n]
    BY MyPlace DEF CallsInv
<1>2. calls' \in Seq(Contexts) /\ Len(calls') = n
    BY <1>1, ExceptSeq
<1>3. calls'[n] = c /\ \A i \in 1 .. n : i # n => calls'[i] = calls[i]
  <2>1. DOMAIN calls = 1 .. n
      BY <1>1, LenProperties
  <2> QED  BY <1>1, <2>1
<1>4. c.who \in Mains \cup PanicHandlers \/ n = 2
  <2>1. CASE n = 1
      BY <1>1, <2>1 DEF CallsInv
  <2> QED  BY <1>1, <2>1
<1>5. n = 2 => c.who \in Handlers
  <2>1. ~(\E h \in Handlers : h \in Mains)
      BY DEF Handlers, Mains, TestMains
  <2> QED  BY <1>1, <2>1 DEF CallsInv
<1> HIDE DEF n
<1>6. \A i \in 1 .. n : calls'[i] = c \/ calls'[i] = calls[i]
    BY <1>3
<1>7. CallsInv'
  <2>1. \A i \in 1 .. n : calls'[i].pc \in 1 .. Len(Program[calls'[i].who])
      BY <1>1, <1>6 DEF CallsInv, n
  <2>2. calls'[1].who \in Mains \cup PanicHandlers
    <3>1. CASE n = 1
        BY <1>3, <1>4, <3>1
    <3>2. CASE n = 2
        BY <1>1, <1>3, <3>2 DEF CallsInv
    <3> QED  BY <1>1, <3>1, <3>2
  <2>3. n = 2 => calls'[2].who \in Handlers
      BY <1>3, <1>5
  <2>4. \A i \in 1 .. n : At(calls'[i]).kept => ~calls'[i].kept
      BY <1>1, <1>6 DEF CallsInv, n
  <2> QED  BY <1>1, <1>2, <2>1, <2>2, <2>3, <2>4 DEF CallsInv
<1>8. MaskInv'
  <2>1. At(calls'[n]).mask => ~IFlag'
      BY <1>3
  <2>2. n = 2 => /\ At(calls'[1]).held = {}
                 /\ At(calls'[1]).mask => ~calls'[2].entered
    <3> SUFFICES ASSUME n = 2
                 PROVE  At(calls'[1]).held = {} /\ (At(calls'[1]).mask => ~calls'[2].entered)
        OBVIOUS
    <3>1. calls'[1] = calls[1] /\ calls'[2].entered = calls[2].entered
        BY <1>1, <1>3
    <3> QED  BY <3>1 DEF MaskInv, n
  <2> QED  BY <1>2, <2>1, <2>2 DEF MaskInv
<1> QED  BY <1>2, <1>3, <1>7, <1>8 DEF n

\* An operation, and on to the next of the same program.
LEMMA Continues ==
    ASSUME CallsInv, MaskInv, NEW k \in BOOLEAN, Step(k),
           Current.op \in Ordinary \ {"panic"},
           IFlag' \in BOOLEAN,
           MaskAfter(Current, At(Me)) => ~IFlag',
           (IF Current.op = "disable" THEN At(Me).mask ELSE At(Me).kept) => ~k
    PROVE  /\ CallsInv' /\ MaskInv' /\ Len(calls') = Len(calls)
           /\ At(calls'[Len(calls)]) = After(Current, At(Me))
           /\ calls'[Len(calls)].who = Me.who /\ calls'[Len(calls)].pc = Me.pc + 1
<1> DEFINE c == [Me EXCEPT !.pc = Me.pc + 1, !.kept = k]
<1>1. /\ Len(calls) \in Nat /\ Me = calls[Len(calls)] /\ Me \in Contexts
      /\ Me.pc \in 1 .. Len(Program[Me.who]) /\ Len(calls) \in DOMAIN calls
    BY MyPlace
<1>2. /\ c \in Contexts /\ c.who = Me.who /\ c.pc = Me.pc + 1 /\ c.kept = k
      /\ c.entered = Me.entered
  <2> DEFINE m == Me
             e == [m EXCEPT !.pc = m.pc + 1]
  <2>1. m \in Contexts /\ m.pc \in Nat /\ m = Me
      BY <1>1 DEF Contexts
  <2> HIDE DEF m
  <2>2. e \in Contexts /\ e.who = m.who /\ e.pc = m.pc + 1 /\ e.entered = m.entered
      BY <2>1 DEF Contexts
  <2>3. c = [e EXCEPT !.kept = k]
      BY DEF m
  <2> HIDE DEF e, c
  <2> QED  BY <2>1, <2>2, <2>3 DEF Contexts
<1>3. calls' = [calls EXCEPT ![Len(calls)] = c]
    BY DEF Step, Depth
<1> HIDE DEF c
<1>4. /\ Allowed(Me.who, Current, At(Me)) /\ Me.pc + 1 \in 1 .. Len(Program[Me.who])
      /\ Ann(Me.who)[Me.pc + 1] = After(Current, At(Me))
    BY <1>1, Place DEF Current
<1>5. At(c) = After(Current, At(Me))
    BY <1>2, <1>4 DEF At
<1>6. At(c).mask = MaskAfter(Current, At(Me))
      /\ At(c).kept = IF Current.op = "disable" THEN At(Me).mask ELSE At(Me).kept
    BY <1>5 DEF After, Known
<1>7. At(c).mask => ~IFlag'
    BY <1>6
<1>8. At(c).kept => ~c.kept
    BY <1>2, <1>6
<1>9. /\ CallsInv' /\ MaskInv' /\ Len(calls') = Len(calls) /\ calls'[Len(calls)] = c
    BY <1>2, <1>3, <1>4, <1>7, <1>8, Moves
<1> QED  BY <1>2, <1>5, <1>9

\* A panic, to the start of its handler's program.
LEMMA Panics ==
    ASSUME CallsInv, MaskInv, Panic, Current.op \in {"allocate", "panic", "assert"},
           UNCHANGED IFlag
    PROVE  /\ CallsInv' /\ MaskInv' /\ Len(calls') = Len(calls)
           /\ At(Me).held \subseteq At(calls'[Len(calls)]).held
<1> DEFINE c == [Me EXCEPT !.who = PanicHandler(Me.who), !.pc = 1]
<1>1. /\ Len(calls) \in Nat /\ Me = calls[Len(calls)] /\ Me \in Contexts
      /\ Me.pc \in 1 .. Len(Program[Me.who]) /\ Len(calls) \in DOMAIN calls
    BY MyPlace
<1>2. PanicHandler(Me.who) \in PanicHandlers
    BY DEF PanicHandler, PanicHandlers
<1>3. PanicHandler(Me.who) \in DOMAIN Program
    BY <1>2, ProgramsRun
<1>4. /\ c \in Contexts /\ c.who = PanicHandler(Me.who) /\ c.pc = 1 /\ c.kept = Me.kept
      /\ c.entered = Me.entered
    BY <1>1, <1>3 DEF Contexts
<1>5. calls' = [calls EXCEPT ![Len(calls)] = c]
    BY DEF Panic, Depth
<1> HIDE DEF c
<1>6. Allowed(Me.who, Current, At(Me))
  <2>1. Allowed(Me.who, Current, At(Me)) \/ Ends(Me.who, Current, At(Me))
      BY <1>1, Place DEF Current
  <2> QED  BY <2>1 DEF Ends
<1>7. Me.who \in Mains /\ Covers(StartOf(c.who), At(Me))
    BY <1>4, <1>6 DEF Allowed
<1>8. At(c) = StartOf(c.who) /\ c.pc \in 1 .. Len(Program[c.who])
    BY <1>3, <1>4, StartPlace
<1>9. (At(c).mask => At(Me).mask) /\ (At(c).kept => At(Me).kept) /\ At(Me).held \subseteq At(c).held
    BY <1>7, <1>8 DEF Covers
<1>10. (At(Me).mask => ~IFlag) /\ IFlag \in BOOLEAN
    BY <1>1 DEF MaskInv
<1>11. At(Me).kept => ~Me.kept
    BY <1>1 DEF CallsInv
<1>12. At(c).mask => ~IFlag'
    BY <1>9, <1>10
<1>13. At(c).kept => ~c.kept
    BY <1>4, <1>9, <1>11
<1>14. c.who \in PanicHandlers
    BY <1>2, <1>4
<1>15. IFlag' \in BOOLEAN
    BY <1>10
<1>16. /\ CallsInv' /\ MaskInv' /\ Len(calls') = Len(calls) /\ calls'[Len(calls)] = c
    BY <1>4, <1>5, <1>7, <1>8, <1>12, <1>13, <1>14, <1>15, Moves
<1> QED  BY <1>9, <1>16

\* A handler is entered where nothing is held, by a main that goes on later where
\* as little is held and IF is known no better.
LEMMA Enters ==
    ASSUME CallsInv, MaskInv, NEW who \in Handlers, NEW c \in Contexts,
           Len(calls) = 1,
           calls' = Append(<<c>>, Frame(who)), IFlag' = FALSE,
           c.who = Me.who, c.pc \in 1 .. Len(Program[c.who]),
           At(c).kept => ~c.kept,
           At(c).held = {}, At(c).mask => ~IFlag
    PROVE  CallsInv' /\ MaskInv' /\ Len(calls') = 2 /\ At(calls'[2]).held = {}
<1> DEFINE d == Frame(who)
<1>1. who \in DOMAIN Program
    BY ProgramsRun
<1>2. /\ d \in Contexts /\ d.who = who /\ d.pc = 1 /\ d.entered = IFlag /\ d.kept = FALSE
    BY <1>1 DEF Frame, Contexts, MaskInv
<1>3. At(d) = StartOf(who) /\ d.pc \in 1 .. Len(Program[d.who])
    BY <1>1, <1>2, StartPlace
<1>4. At(d).held = {}
    BY <1>3, Starts DEF Known
<1> HIDE DEF d
<1>5. /\ calls' \in Seq(Contexts) /\ Len(calls') = 2 /\ calls'[1] = c /\ calls'[2] = d
  <2> DEFINE z == <<c>>
  <2>1. z \in Seq(Contexts) /\ Len(z) = 1 /\ z[1] = c
      OBVIOUS
  <2>2. calls' = Append(z, d)
      BY DEF d
  <2> HIDE DEF z
  <2> QED  BY <1>2, <2>1, <2>2, AppendProperties
<1>6. c.who \in Mains \cup PanicHandlers
    BY MyPlace DEF CallsInv
<1>7. \A i \in 1 .. 2 : i = 1 \/ i = 2
    OBVIOUS
<1>8. CallsInv'
  <2>1. \A i \in 1 .. 2 : calls'[i].pc \in 1 .. Len(Program[calls'[i].who])
      BY <1>3, <1>5, <1>7
  <2>2. \A i \in 1 .. 2 : At(calls'[i]).kept => ~calls'[i].kept
      BY <1>2, <1>5, <1>7
  <2> QED  BY <1>2, <1>5, <1>6, <2>1, <2>2 DEF CallsInv
<1>9. MaskInv'
    BY <1>2, <1>5 DEF MaskInv
<1> QED  BY <1>4, <1>5, <1>8, <1>9

\* A handler returns to what it interrupted.
LEMMA Returns ==
    ASSUME CallsInv, MaskInv, Current.op = "iret", calls' = Front(calls), IFlag' = Me.entered
    PROVE  /\ CallsInv' /\ MaskInv' /\ Len(calls) = 2 /\ Len(calls') = 1
           /\ At(Me).held = {}
<1>1. /\ Len(calls) \in 1 .. 2 /\ calls \in Seq(Contexts) /\ Me = calls[Len(calls)]
      /\ Me \in Contexts /\ Me.pc \in 1 .. Len(Program[Me.who])
    BY MyPlace DEF CallsInv
<1>2. Me.who \in Handlers /\ At(Me).held = {}
  <2>1. Allowed(Me.who, Current, At(Me)) \/ Ends(Me.who, Current, At(Me))
      BY <1>1, Place DEF Current
  <2> QED  BY <2>1 DEF Allowed, Ends, Ordinary
<1>3. Len(calls) = 2
  <2>1. \A who \in Handlers : who \notin Mains \cup PanicHandlers
      BY DEF Handlers, Mains, TestMains, PanicHandlers
  <2> QED  BY <1>1, <1>2, <2>1 DEF CallsInv
<1>4. calls' \in Seq(Contexts) /\ Len(calls') = 1 /\ calls'[1] = calls[1]
  <2>1. calls' = SubSeq(calls, 1, 1)
      BY <1>3 DEF Front
  <2> DEFINE z == SubSeq(calls, 1, 1)
  <2>2. /\ z \in Seq(Contexts)
        /\ Len(z) = IF 1 <= 1 THEN 1 - 1 + 1 ELSE 0
        /\ \A i \in 1 .. 1 - 1 + 1 : z[i] = calls[1 + i - 1]
      BY <1>1, <1>3, SubSeqProperties
  <2> HIDE DEF z
  <2>3. Len(z) = 1 /\ z[1] = calls[1]
      BY <2>2
  <2> QED  BY <2>1, <2>2, <2>3 DEF z
<1>5. 1 \in 1 .. Len(calls) /\ \A i \in 1 .. 1 : i = 1
    BY <1>1
<1>6. CallsInv'
    BY <1>4, <1>5 DEF CallsInv
<1>7. MaskInv'
  <2>1. Me.entered \in BOOLEAN
      BY <1>1 DEF Contexts
  <2>2. At(calls[1]).mask => ~Me.entered
      BY <1>1, <1>3 DEF MaskInv
  <2>3. At(calls'[1]).mask => ~IFlag'
      BY <1>4, <2>2
  <2> QED  BY <1>4, <2>1, <2>3 DEF MaskInv
<1> QED  BY <1>2, <1>3, <1>4, <1>6, <1>7

\* The locks, when the innermost context changes and they do not.
LEMMA OwnerStays ==
    ASSUME OwnerInv, UNCHANGED owner, Me = calls[Len(calls)],
           \/ Len(calls') = Len(calls) /\ At(Me).held \subseteq At(calls'[Len(calls)]).held
           \/ At(Me).held = {}
    PROVE  OwnerInv'
<1>1. CASE Len(calls') = Len(calls) /\ At(Me).held \subseteq At(calls'[Len(calls)]).held
    BY <1>1 DEF OwnerInv
<1>2. CASE At(Me).held = {}
  <2>1. \A l \in Locks : owner[l] = 0
      BY <1>2 DEF OwnerInv
  <2> QED  BY <2>1 DEF OwnerInv
<1> QED  BY <1>1, <1>2

\* Nothing is written, and no context is between two bytes.
LEMMA LogStays ==
    ASSUME CallsInv, LogInv, UNCHANGED log, Current.op \notin WRITERS
    PROVE  LogInv'
<1> DEFINE e == log[Len(log)]
<1>1. Me = calls[Len(calls)]
    BY MyPlace
<1>2. Len(log) > 0 => Program[e.who][e.op + 1].op \notin WRITERS
    BY <1>1 DEF LogInv, Current
<1> HIDE DEF e
<1>3. PrintsAreWhole'
    BY DEF LogInv, PrintsAreWhole
<1> QED  BY <1>2, <1>3 DEF LogInv, e

\* The innermost context writes, and goes on.
LEMMA LogGrows ==
    ASSUME CallsInv, LogInv, NEW writer \in WRITERS \cup {"page"}, NEW byte \in Arguments \cup {New},
           Log(writer, byte),
           calls'[Len(calls')].who = Me.who, calls'[Len(calls')].pc = Me.pc + 1
    PROVE  LogInv'
<1> DEFINE d == [writer |-> writer, byte |-> byte, who |-> Me.who, op |-> Me.pc]
           n == Len(log)
<1>1. Me = calls[Len(calls)] /\ Me.who \in DOMAIN Program /\ Me.pc \in Nat
    BY MyPlace DEF Contexts
<1>2. d \in Entries /\ d.who = Me.who /\ d.op = Me.pc
    BY <1>1 DEF Entries
<1>3. log \in Seq(Entries) /\ n \in Nat
    BY LenProperties DEF LogInv
<1>4. log' = Append(log, d)
    BY DEF Log
<1> HIDE DEF d
<1>5. /\ log' \in Seq(Entries) /\ Len(log') = n + 1 /\ log'[n + 1] = d
      /\ \A i \in 1 .. n : log'[i] = log[i]
    BY <1>2, <1>3, <1>4, AppendProperties
<1>6. PrintsAreWhole'
  <2> SUFFICES ASSUME NEW i \in 1 .. Len(log') - 1,
                      Program[log'[i].who][log'[i].op + 1].op \in WRITERS
               PROVE  log'[i + 1].who = log'[i].who /\ log'[i + 1].op = log'[i].op + 1
      BY DEF PrintsAreWhole
  <2>1. i \in 1 .. n /\ log'[i] = log[i]
      BY <1>3, <1>5
  <2>2. CASE i = n
    <3>1. Program[log[n].who][log[n].op + 1].op \in WRITERS
        BY <2>1, <2>2
    <3>2. Me.who = log[n].who /\ Me.pc = log[n].op + 1
        BY <1>1, <1>3, <2>1, <2>2, <3>1 DEF LogInv
    <3>3. log'[i + 1] = d
        BY <1>5, <2>2
    <3> QED  BY <1>2, <2>1, <2>2, <3>2, <3>3
  <2>3. CASE i # n
    <3>1. i \in 1 .. Len(log) - 1 /\ i + 1 \in 1 .. n /\ log'[i + 1] = log[i + 1]
        BY <1>3, <1>5, <2>1, <2>3
    <3> QED  BY <2>1, <3>1 DEF LogInv, PrintsAreWhole
  <2> QED  BY <2>2, <2>3
<1> QED  BY <1>2, <1>5, <1>6 DEF LogInv

-----------------------------------------------------------------------------
(***************************************************************************)
(* The steps.                                                              *)
(***************************************************************************)
\* An operation that leaves IF alone.
LEMMA GoesOn ==
    ASSUME CallsInv, MaskInv, Continue, UNCHANGED IFlag,
           Current.op \in Ordinary \ {"panic", "disable", "enable", "restore"}
    PROVE  /\ CallsInv' /\ MaskInv' /\ Len(calls') = Len(calls)
           /\ At(calls'[Len(calls)]) = After(Current, At(Me))
           /\ calls'[Len(calls)].who = Me.who /\ calls'[Len(calls)].pc = Me.pc + 1
<1>1. Me = calls[Len(calls)] /\ Me \in Contexts /\ Len(calls) \in 1 .. Len(calls)
    BY MyPlace DEF CallsInv
<1>2. Me.kept \in BOOLEAN /\ (At(Me).kept => ~Me.kept)
    BY <1>1 DEF Contexts, CallsInv
<1>3. IFlag' \in BOOLEAN /\ (At(Me).mask => ~IFlag')
    BY <1>1 DEF MaskInv
<1>4. MaskAfter(Current, At(Me)) => ~IFlag'
    BY <1>3 DEF MaskAfter
<1>5. (IF Current.op = "disable" THEN At(Me).mask ELSE At(Me).kept) => ~Me.kept
    BY <1>2
<1>6. Current.op \in Ordinary \ {"panic"} /\ Step(Me.kept)
    BY DEF Continue
<1> QED  BY <1>2, <1>3, <1>4, <1>5, <1>6, Continues

\* The same, without a lock.
LEMMA GoesOnUnlocked ==
    ASSUME CallsInv, MaskInv, OwnerInv, Continue, UNCHANGED <<IFlag, owner>>,
           Current.op \in Ordinary \ {"panic", "disable", "enable", "restore", "lock", "unlock"}
    PROVE  CallsInv' /\ MaskInv' /\ OwnerInv'
<1>1. /\ CallsInv' /\ MaskInv' /\ Len(calls') = Len(calls)
      /\ At(calls'[Len(calls)]) = After(Current, At(Me))
    BY GoesOn
<1>2. After(Current, At(Me)).held = At(Me).held
    BY DEF After, Known, HeldAfter
<1>3. OwnerInv'
    BY <1>1, <1>2, MyPlace, OwnerStays
<1> QED  BY <1>1, <1>3

LEMMA DoingNow ==
    ASSUME NEW op, Doing(op)
    PROVE  Current.op = op
BY DEF Doing

\* What is done at a place is allowed there.
LEMMA DoingAllowed ==
    ASSUME CallsInv, Current.op \in Ordinary
    PROVE  /\ Allowed(Me.who, Current, At(Me)) /\ At(Me) \in KnownSet
           /\ Current.arg \in Arguments
<1>1. Me \in Contexts /\ Me.pc \in 1 .. Len(Program[Me.who])
    BY MyPlace
<1>2. /\ At(Me) \in KnownSet /\ Current.arg \in Arguments
      /\ Allowed(Me.who, Current, At(Me)) \/ Ends(Me.who, Current, At(Me))
    BY <1>1, Place DEF Current
<1>3. CASE Ends(Me.who, Current, At(Me))
    BY <1>2, <1>3 DEF Ends, Ordinary
<1> QED  BY <1>2, <1>3

\* write_byte leaves the buffer a buffer: it never writes past the last column.
LEMMA ScreenStep ==
    ASSUME ScreenInv, write_byte
    PROVE  ScreenInv'
<1>1. PICK w \in WRITERS :
          LET byte == Current.arg
              wrap == byte # "\n" /\ Wraps(w)
              s == IF byte = "\n" \/ wrap THEN new_line(screen) ELSE screen
              c == IF byte = "\n" \/ wrap THEN 0 ELSE col_pos[w]
          IN  IF byte = "\n"
              THEN screen' = s /\ col_pos' = [col_pos EXCEPT ![w] = c]
              ELSE /\ screen' = [s EXCEPT ![BUFFER_HEIGHT] =
                                     [k \in Cols \cup {c} |-> IF k = c THEN byte ELSE @[k]]]
                   /\ col_pos' = [col_pos EXCEPT ![w] = c + 1]
    BY DEF write_byte
<1> DEFINE byte == Current.arg
           wrap == byte # "\n" /\ Wraps(w)
           s == IF byte = "\n" \/ wrap THEN new_line(screen) ELSE screen
           c == IF byte = "\n" \/ wrap THEN 0 ELSE col_pos[w]
<1>2. BUFFER_HEIGHT \in Nat \ {0, 1} /\ BUFFER_WIDTH \in Nat \ {0, 1}
    BY BufferAssumption
<1>3. col_pos[w] \in 0 .. BUFFER_WIDTH
    BY DEF ScreenInv
<1>4. DOMAIN s = Rows /\ \A r \in Rows : DOMAIN s[r] = Cols
  <2>1. DOMAIN new_line(screen) = Rows
      BY DEF new_line
  <2>2. ASSUME NEW r \in Rows
        PROVE  DOMAIN new_line(screen)[r] = Cols
    <3>1. CASE r = BUFFER_HEIGHT
        BY <3>1 DEF new_line, clear_row
    <3>2. CASE r # BUFFER_HEIGHT
      <4>1. new_line(screen)[r] = screen[r + 1] /\ r + 1 \in Rows
          BY <1>2, <3>2 DEF new_line, Rows
      <4> QED  BY <4>1 DEF ScreenInv
    <3> QED  BY <3>1, <3>2
  <2> HIDE DEF byte, wrap
  <2>3. s = new_line(screen) \/ s = screen
      OBVIOUS
  <2> HIDE DEF s
  <2> QED  BY <2>1, <2>2, <2>3 DEF ScreenInv
<1>5. c \in Cols
    BY <1>2, <1>3 DEF Wraps, Cols
<1>6. c \in 0 .. BUFFER_WIDTH /\ c + 1 \in 0 .. BUFFER_WIDTH
  <2> HIDE DEF c
  <2> QED  BY <1>2, <1>5 DEF Cols
<1>7. IF byte = "\n"
      THEN screen' = s /\ col_pos' = [col_pos EXCEPT ![w] = c]
      ELSE /\ screen' = [s EXCEPT ![BUFFER_HEIGHT] =
                             [k \in Cols \cup {c} |-> IF k = c THEN byte ELSE @[k]]]
           /\ col_pos' = [col_pos EXCEPT ![w] = c + 1]
    BY <1>1
<1> HIDE DEF byte, s, c
<1>8. CASE byte = "\n"
    BY <1>4, <1>6, <1>7, <1>8 DEF ScreenInv
<1>9. CASE byte # "\n"
  <2> DEFINE row == [k \in Cols \cup {c} |-> IF k = c THEN byte ELSE s[BUFFER_HEIGHT][k]]
  <2>1. DOMAIN row = Cols
      BY <1>5
  <2>2. screen' = [s EXCEPT ![BUFFER_HEIGHT] = row]
      BY <1>7, <1>9
  <2> HIDE DEF row
  <2>3. DOMAIN screen' = Rows /\ \A r \in Rows : DOMAIN screen'[r] = Cols
      BY <1>4, <2>1, <2>2
  <2>4. col_pos' \in [WRITERS -> 0 .. BUFFER_WIDTH]
      BY <1>6, <1>7, <1>9 DEF ScreenInv
  <2> QED  BY <2>3, <2>4 DEF ScreenInv
<1> QED  BY <1>8, <1>9

LEMMA WriteStep ==
    ASSUME IInv, write_byte
    PROVE  IInv'
<1>1. PICK w \in WRITERS : /\ Doing(w) /\ Log(w, Current.arg) /\ Continue
                           /\ UNCHANGED <<IFlag, owner, devices, machine>>
    BY DEF write_byte
<1>2. Current.op = w /\ Current.op \in Ordinary
      /\ Current.op \in Ordinary \ {"panic", "disable", "enable", "restore", "lock", "unlock"}
    BY <1>1, DoingNow DEF WRITERS, Ordinary
<1>3. CallsInv' /\ MaskInv' /\ OwnerInv'
    BY <1>1, <1>2, GoesOnUnlocked DEF IInv
<1>4. LogInv'
  <2>1. /\ Len(calls') = Len(calls) /\ calls'[Len(calls)].who = Me.who
        /\ calls'[Len(calls)].pc = Me.pc + 1
      BY <1>1, <1>2, GoesOn DEF IInv
  <2>2. Current.arg \in Arguments
      BY <1>2, DoingAllowed DEF IInv
  <2> QED  BY <1>1, <2>1, <2>2, LogGrows DEF IInv
<1>5. ScreenInv'
    BY ScreenStep DEF IInv
<1>6. DeviceInv'
    BY <1>1 DEF IInv, DeviceInv, devices, machine
<1> QED  BY <1>3, <1>4, <1>5, <1>6 DEF IInv

\* What an operation that writes nothing, and one of no device, leaves alone.
LEMMA Quiet ==
    ASSUME IInv, UNCHANGED console, Current.op \notin WRITERS
    PROVE  LogInv' /\ ScreenInv'
<1>1. LogInv'
    BY LogStays DEF IInv, console
<1>2. ScreenInv'
    BY DEF IInv, ScreenInv, console
<1> QED  BY <1>1, <1>2

LEMMA Undisturbed ==
    ASSUME IInv, UNCHANGED devices, UNCHANGED ended
    PROVE  DeviceInv'
BY DEF IInv, DeviceInv, devices

\* The operations that neither write nor lock, by name.
LEMMA Names ==
    /\ \A op \in {"send", "assert", "allocate", "write_volatile", "initialize", "eoi", "read60",
                  "exit", "int3", "overflow"} :
           /\ op \in Ordinary /\ op \notin WRITERS
           /\ op \in Ordinary \ {"panic", "disable", "enable", "restore", "lock", "unlock"}
    /\ \A op \in {"lock", "unlock", "disable", "enable", "restore", "panic", "iret"} : op \notin WRITERS
    /\ \A op \in {"lock", "unlock"} : op \in Ordinary \ {"panic", "disable", "enable", "restore"}
    /\ \A op \in {"lock", "unlock", "disable", "enable", "restore"} : op \in Ordinary \ {"panic"}
    /\ "panic" \in Ordinary
BY DEF Ordinary, WRITERS

LEMMA LockStep ==
    ASSUME IInv, lock
    PROVE  IInv'
<1>1. Current.op = "lock" /\ Continue /\ UNCHANGED IFlag
    BY DoingNow DEF lock
<1>2. /\ CallsInv' /\ MaskInv' /\ Len(calls') = Len(calls)
      /\ At(calls'[Len(calls)]) = After(Current, At(Me))
    BY <1>1, Names, GoesOn DEF IInv
<1>3. Current.arg \in Locks
    BY <1>1, Names, DoingAllowed DEF Allowed, IInv
<1>4. At(calls'[Len(calls)]).held = At(Me).held \cup {Current.arg}
    BY <1>1, <1>2 DEF After, Known, HeldAfter
<1>5. Me = calls[Len(calls)] /\ Len(calls) \in 1 .. 2
    BY MyPlace DEF IInv, CallsInv
<1>6. OwnerInv'
  <2> DEFINE l == Current.arg
             n == Len(calls)
             h == At(Me).held
  <2>1. owner' = [owner EXCEPT ![l] = n]
      BY DEF lock, Depth
  <2>2. owner \in [Locks -> 0 .. 2] /\ \A x \in Locks : owner[x] # 0 => owner[x] = n /\ x \in h
      BY <1>5 DEF IInv, OwnerInv
  <2>3. n \in 0 .. 2 /\ l \in Locks
      BY <1>3, <1>5
  <2>4. Len(calls') = n /\ At(calls'[n]).held = h \cup {l}
      BY <1>2, <1>4
  <2> HIDE DEF l, n, h
  <2>5. owner' \in [Locks -> 0 .. 2]
      BY <2>1, <2>2, <2>3
  <2>6. \A x \in Locks : owner'[x] # 0 => owner'[x] = n /\ x \in h \cup {l}
      BY <2>1, <2>2, <2>3
  <2> QED  BY <2>4, <2>5, <2>6 DEF OwnerInv
<1>7. LogInv' /\ ScreenInv'
    BY <1>1, Names, Quiet DEF lock
<1>8. DeviceInv'
    BY Undisturbed DEF lock, machine
<1> QED  BY <1>2, <1>6, <1>7, <1>8 DEF IInv

LEMMA UnlockStep ==
    ASSUME IInv, unlock
    PROVE  IInv'
<1>1. Current.op = "unlock" /\ Continue /\ UNCHANGED IFlag
    BY DoingNow DEF unlock
<1>2. /\ CallsInv' /\ MaskInv' /\ Len(calls') = Len(calls)
      /\ At(calls'[Len(calls)]) = After(Current, At(Me))
    BY <1>1, Names, GoesOn DEF IInv
<1>3. At(calls'[Len(calls)]).held = At(Me).held \ {Current.arg}
    BY <1>1, <1>2 DEF After, Known, HeldAfter
<1>4. Me = calls[Len(calls)] /\ Current.arg \in Locks
  <2>1. Current.arg \in Locks
      BY <1>1, Names, DoingAllowed DEF Allowed, IInv
  <2> QED  BY <2>1, MyPlace DEF IInv
<1>5. OwnerInv'
  <2> DEFINE l == Current.arg
             n == Len(calls)
             h == At(Me).held
  <2>1. owner' = [owner EXCEPT ![l] = 0]
      BY DEF unlock
  <2>2. owner \in [Locks -> 0 .. 2] /\ \A x \in Locks : owner[x] # 0 => owner[x] = n /\ x \in h
      BY <1>4 DEF IInv, OwnerInv
  <2>3. l \in Locks /\ 0 \in 0 .. 2 /\ Len(calls') = n /\ At(calls'[n]).held = h \ {l}
      BY <1>2, <1>3, <1>4
  <2> HIDE DEF l, n, h
  <2>4. owner' \in [Locks -> 0 .. 2]
      BY <2>1, <2>2, <2>3
  <2>5. \A x \in Locks : owner'[x] # 0 => owner'[x] = n /\ x \in h \ {l}
      BY <2>1, <2>2
  <2> QED  BY <2>3, <2>4, <2>5 DEF OwnerInv
<1>6. LogInv' /\ ScreenInv'
    BY <1>1, Names, Quiet DEF unlock
<1>7. DeviceInv'
    BY Undisturbed DEF unlock, machine
<1> QED  BY <1>2, <1>5, <1>6, <1>7 DEF IInv

LEMMA DisableStep ==
    ASSUME IInv, disable
    PROVE  IInv'
<1>1. Current.op = "disable" /\ Step(IFlag) /\ IFlag' = FALSE
    BY DoingNow DEF disable
<1>2. Me = calls[Len(calls)] /\ IFlag \in BOOLEAN /\ (At(Me).mask => ~IFlag)
    BY MyPlace DEF IInv, MaskInv
<1>3. IFlag' \in BOOLEAN /\ (MaskAfter(Current, At(Me)) => ~IFlag')
    BY <1>1
<1>4. (IF Current.op = "disable" THEN At(Me).mask ELSE At(Me).kept) => ~IFlag
    BY <1>1, <1>2
<1>5. Current.op \in Ordinary \ {"panic"}
    BY <1>1, Names
<1>6. /\ CallsInv' /\ MaskInv' /\ Len(calls') = Len(calls)
      /\ At(calls'[Len(calls)]) = After(Current, At(Me))
    BY <1>1, <1>2, <1>3, <1>4, <1>5, Continues DEF IInv
<1>7. After(Current, At(Me)).held = At(Me).held
    BY <1>1 DEF After, Known, HeldAfter
<1>8. OwnerInv'
    BY <1>2, <1>6, <1>7, OwnerStays DEF IInv, disable
<1>9. LogInv' /\ ScreenInv'
    BY <1>1, Names, Quiet DEF disable
<1>10. DeviceInv'
    BY Undisturbed DEF disable, machine
<1> QED  BY <1>6, <1>8, <1>9, <1>10 DEF IInv

\* enable forgets what was known of IF; restore recalls what without_interrupts
\* kept.
LEMMA EnableStep ==
    ASSUME IInv, enable
    PROVE  IInv'
<1>1. /\ Doing("enable") \/ Doing("restore")
      /\ Continue /\ IFlag' = (Doing("enable") \/ Me.kept)
    BY DEF enable
<1>2. /\ Me = calls[Len(calls)] /\ Me \in Contexts /\ Len(calls) \in 1 .. Len(calls)
      /\ Me.pc \in 1 .. Len(Program[Me.who])
    BY MyPlace DEF IInv, CallsInv
<1>3. Me.kept \in BOOLEAN /\ (At(Me).kept => ~Me.kept)
    BY <1>2 DEF IInv, Contexts, CallsInv
<1>4. Current.op \in {"enable", "restore"}
    BY <1>1, DoingNow
<1>5. IFlag' \in BOOLEAN
  <2>1. Doing("enable") \in BOOLEAN
      BY DEF Doing
  <2> QED  BY <1>1, <1>3, <2>1
<1>6. MaskAfter(Current, At(Me)) => ~IFlag'
  <2>1. CASE Current.op = "enable"
      BY <2>1 DEF MaskAfter
  <2>2. CASE Current.op = "restore"
    <3>1. ~Doing("enable")
        BY <2>2 DEF Doing
    <3>2. MaskAfter(Current, At(Me)) = At(Me).kept
        BY <2>2 DEF MaskAfter
    <3> QED  BY <1>1, <1>3, <3>1, <3>2
  <2> QED  BY <1>4, <2>1, <2>2
<1>7. (IF Current.op = "disable" THEN At(Me).mask ELSE At(Me).kept) => ~Me.kept
    BY <1>3, <1>4
<1>8. Current.op \in Ordinary \ {"panic"} /\ Step(Me.kept)
    BY <1>1, <1>4, Names DEF Continue
<1>9. /\ CallsInv' /\ MaskInv' /\ Len(calls') = Len(calls)
      /\ At(calls'[Len(calls)]) = After(Current, At(Me))
    BY <1>3, <1>5, <1>6, <1>7, <1>8, Continues DEF IInv
<1>10. After(Current, At(Me)).held = At(Me).held
    BY <1>4 DEF After, Known, HeldAfter
<1>11. OwnerInv'
    BY <1>2, <1>9, <1>10, OwnerStays DEF IInv, enable
<1>12. LogInv' /\ ScreenInv'
    BY <1>4, Names, Quiet DEF enable
<1>13. DeviceInv'
    BY Undisturbed DEF enable, machine
<1> QED  BY <1>9, <1>11, <1>12, <1>13 DEF IInv

\* The operations that touch no lock, IF or buffer.
LEMMA Simple ==
    ASSUME IInv, Continue, UNCHANGED <<IFlag, owner>>, UNCHANGED console,
           Current.op \in {"send", "assert", "allocate", "initialize", "eoi", "read60", "exit"}
    PROVE  CallsInv' /\ MaskInv' /\ OwnerInv' /\ LogInv' /\ ScreenInv'
<1>1. CallsInv' /\ MaskInv' /\ OwnerInv'
    BY Names, GoesOnUnlocked DEF IInv
<1>2. LogInv' /\ ScreenInv'
    BY Names, Quiet
<1> QED  BY <1>1, <1>2

LEMMA PanicStep ==
    ASSUME IInv, Panic, UNCHANGED <<IFlag, owner>>, UNCHANGED console,
           Current.op \in {"allocate", "panic", "assert"}
    PROVE  CallsInv' /\ MaskInv' /\ OwnerInv' /\ LogInv' /\ ScreenInv'
<1>1. /\ CallsInv' /\ MaskInv' /\ Len(calls') = Len(calls)
      /\ At(Me).held \subseteq At(calls'[Len(calls)]).held
    BY Panics DEF IInv
<1>2. OwnerInv'
    BY <1>1, MyPlace, OwnerStays DEF IInv
<1>3. LogInv' /\ ScreenInv'
    BY Names, Quiet
<1> QED  BY <1>1, <1>2, <1>3

LEMMA PlainSteps ==
    ASSUME IInv, send \/ assert \/ panics \/ exit \/ allocate \/ initialize \/ eoi \/ read60
    PROVE  IInv'
<1>1. CASE send
  <2>1. Current.op = "send" /\ Continue /\ UNCHANGED <<IFlag, owner>> /\ UNCHANGED console
        /\ UNCHANGED devices /\ UNCHANGED ended
      BY <1>1, DoingNow DEF send, machine
  <2> QED  BY <2>1, Simple, Undisturbed DEF IInv
<1>2. CASE assert
  <2>1. Current.op = "assert" /\ UNCHANGED <<IFlag, owner>> /\ UNCHANGED console
        /\ UNCHANGED devices /\ UNCHANGED ended
      BY <1>2, DoingNow DEF assert, machine
  <2>2. Continue \/ Panic
      BY <1>2 DEF assert
  <2> QED  BY <2>1, <2>2, Simple, PanicStep, Undisturbed DEF IInv
<1>3. CASE panics
  <2>1. Current.op = "panic" /\ Panic /\ UNCHANGED <<IFlag, owner>> /\ UNCHANGED console
        /\ UNCHANGED devices /\ UNCHANGED ended
      BY <1>3, DoingNow DEF panics, machine
  <2> QED  BY <2>1, PanicStep, Undisturbed DEF IInv
<1>4. CASE exit
  <2>1. Current.op = "exit" /\ Continue /\ UNCHANGED <<IFlag, owner>> /\ UNCHANGED console
        /\ UNCHANGED devices /\ ended' = Status(Current.arg)
      BY <1>4, DoingNow DEF exit
  <2>2. Current.arg \in {Success, Failed}
      BY <2>1, Names, DoingAllowed DEF Allowed, IInv
  <2>3. DeviceInv'
      BY <2>1, <2>2 DEF IInv, DeviceInv, devices
  <2> QED  BY <2>1, <2>3, Simple DEF IInv
<1>5. CASE allocate
  <2>1. Current.op = "allocate" /\ UNCHANGED <<IFlag, owner>> /\ UNCHANGED console
        /\ UNCHANGED devices /\ UNCHANGED ended
      BY <1>5, DoingNow DEF allocate
  <2>2. Continue \/ Panic
      BY <1>5 DEF allocate
  <2> QED  BY <2>1, <2>2, Simple, PanicStep, Undisturbed DEF IInv
<1>6. CASE initialize
  <2>1. Current.op = "initialize" /\ Continue /\ UNCHANGED <<IFlag, owner>> /\ UNCHANGED console
      BY <1>6, DoingNow DEF initialize
  <2>2. DeviceInv'
      BY <1>6 DEF initialize, IInv, DeviceInv, machine
  <2> QED  BY <2>1, <2>2, Simple DEF IInv
<1>7. CASE eoi
  <2>1. Current.op = "eoi" /\ Continue /\ UNCHANGED <<IFlag, owner>> /\ UNCHANGED console
      BY <1>7, DoingNow DEF eoi
  <2>2. DeviceInv'
      BY <1>7 DEF eoi, IInv, DeviceInv, machine
  <2> QED  BY <2>1, <2>2, Simple DEF IInv
<1>8. CASE read60
  <2>1. Current.op = "read60" /\ Continue /\ UNCHANGED <<IFlag, owner>> /\ UNCHANGED console
      BY <1>8, DoingNow DEF read60
  <2>2. DeviceInv'
      BY <1>8 DEF read60, IInv, DeviceInv, machine
  <2> QED  BY <2>1, <2>2, Simple DEF IInv
<1> QED  BY <1>1, <1>2, <1>3, <1>4, <1>5, <1>6, <1>7, <1>8

\* The word of the mapped page that is a part of a row.
LEMMA VolatileStep ==
    ASSUME IInv, write_volatile
    PROVE  IInv'
<1>1. /\ Current.op = "write_volatile" /\ Continue /\ UNCHANGED <<IFlag, owner>>
      /\ Log("page", New) /\ UNCHANGED devices /\ UNCHANGED ended
      /\ UNCHANGED col_pos
    BY DoingNow DEF write_volatile, machine
<1>2. CallsInv' /\ MaskInv' /\ OwnerInv'
    BY <1>1, Names, GoesOnUnlocked DEF IInv
<1>3. LogInv'
  <2>1. /\ Len(calls') = Len(calls) /\ calls'[Len(calls)].who = Me.who
        /\ calls'[Len(calls)].pc = Me.pc + 1
      BY <1>1, Names, GoesOn DEF IInv
  <2>2. "page" \in WRITERS \cup {"page"} /\ New \in Arguments \cup {New}
      OBVIOUS
  <2> QED  BY <1>1, <2>1, <2>2, LogGrows DEF IInv
<1>4. ScreenInv'
  <2> DEFINE row == [k \in Cols |-> IF k + 1 \in DOMAIN New THEN New[k + 1] ELSE screen[NewRow][k]]
  <2>1. screen' = [screen EXCEPT ![NewRow] = row]
      BY DEF write_volatile
  <2>2. DOMAIN row = Cols
      OBVIOUS
  <2> HIDE DEF row
  <2>3. DOMAIN screen' = Rows /\ \A r \in Rows : DOMAIN screen'[r] = Cols
      BY <2>1, <2>2 DEF IInv, ScreenInv
  <2> QED  BY <1>1, <2>3 DEF IInv, ScreenInv
<1>5. DeviceInv'
    BY <1>1, Undisturbed
<1> QED  BY <1>2, <1>3, <1>4, <1>5 DEF IInv

\* Entering a handler: all locks are free, whoever is interrupted.
LEMMA EnterStep ==
    ASSUME IInv, NEW who \in Handlers, NEW c \in Contexts,
           Len(calls) = 1, At(Me).held = {},
           calls' = Append(<<c>>, Frame(who)), IFlag' = FALSE, UNCHANGED owner,
           c.who = Me.who, c.pc \in 1 .. Len(Program[c.who]),
           At(c).kept => ~c.kept, At(c).held = {}, At(c).mask => ~IFlag
    PROVE  CallsInv' /\ MaskInv' /\ OwnerInv'
<1>1. CallsInv' /\ MaskInv'
    BY Enters DEF IInv
<1>2. OwnerInv'
    BY MyPlace, OwnerStays DEF IInv
<1> QED  BY <1>1, <1>2

\* Where IF is set the innermost context is a main's, and holds nothing.
LEMMA Interruptible ==
    ASSUME IInv, IFlag
    PROVE  Len(calls) = 1 /\ At(Me).held = {} /\ Current.op \notin WRITERS
<1>1. /\ Me = calls[Len(calls)] /\ Me \in Contexts /\ Len(calls) \in 1 .. 2
      /\ Me.pc \in 1 .. Len(Program[Me.who])
    BY MyPlace DEF IInv, CallsInv
<1>2. ~At(Me).mask
    BY <1>1 DEF IInv, MaskInv
<1>3. Me.who \notin Handlers /\ At(Me).held = {}
    BY <1>1, <1>2, Place DEF Safe
<1>4. Len(calls) = 1
    BY <1>1, <1>3 DEF IInv, CallsInv
<1>5. Current.op \notin WRITERS
  <2> SUFFICES ASSUME Current.op \in WRITERS PROVE FALSE
      OBVIOUS
  <2>1. Current.op \in Ordinary
      BY DEF WRITERS, Ordinary
  <2>2. At(Me).mask
      BY <2>1, DoingAllowed DEF IInv, Allowed
  <2> QED  BY <1>2, <2>2
<1> QED  BY <1>3, <1>4, <1>5

LEMMA Alone ==
    ASSUME NEW s \in Seq(Contexts), Len(s) = 1
    PROVE  s = <<s[1]>>
<1> DEFINE t == <<s[1]>>
<1>1. s[1] \in Contexts
    BY ElementOfSeq
<1>2. t \in Seq(Contexts) /\ Len(t) = 1 /\ t[1] = s[1]
    BY <1>1
<1> HIDE DEF t
<1>3. \A i \in 1 .. Len(s) : s[i] = t[i]
    BY <1>2
<1>4. s = t
    BY <1>2, <1>3, SeqEqual
<1> QED  BY <1>4 DEF t

LEMMA InterruptStep ==
    ASSUME IInv, Interrupt
    PROVE  IInv'
<1>1. IFlag /\ UNCHANGED <<owner, console, scancode, ticks, keys, deaf>> /\ UNCHANGED ended
    BY DEF Interrupt, machine
<1>2. Len(calls) = 1 /\ At(Me).held = {} /\ Current.op \notin WRITERS
    BY <1>1, Interruptible
<1>3. /\ Me = calls[1] /\ Me \in Contexts /\ Me.pc \in 1 .. Len(Program[Me.who])
      /\ calls \in Seq(Contexts) /\ 1 \in 1 .. 1
    BY <1>2, MyPlace DEF IInv, CallsInv
<1>4. PICK who \in Handlers : Enter(who)
    BY DEF Interrupt, Handlers
<1>5. calls' = Append(<<Me>>, Frame(who)) /\ IFlag' = FALSE
  <2>1. calls = <<Me>>
      BY <1>2, <1>3, Alone
  <2> QED  BY <1>4, <2>1 DEF Enter
<1>6. At(Me).kept => ~Me.kept
    BY <1>2, <1>3 DEF IInv, CallsInv
<1>7. At(Me).mask => ~IFlag
    BY <1>2, <1>3 DEF IInv, MaskInv
<1>8. CallsInv' /\ MaskInv' /\ OwnerInv'
    BY <1>1, <1>2, <1>3, <1>5, <1>6, <1>7, EnterStep
<1>9. LogInv' /\ ScreenInv'
    BY <1>1, <1>2, Quiet
<1>10. DeviceInv'
  <2>1. irr' \subseteq {Timer, Keyboard} /\ isr' \subseteq {Timer, Keyboard}
      BY DEF IInv, DeviceInv, Interrupt
  <2> QED  BY <1>1, <2>1 DEF IInv, DeviceInv
<1> QED  BY <1>8, <1>9, <1>10 DEF IInv

\* A main that overflows its stack or executes int3 has no lock.
LEMMA Faulting ==
    ASSUME IInv, Current.op \in {"int3", "overflow"}
    PROVE  /\ Len(calls) = 1 /\ At(Me).held = {} /\ Me = calls[1]
           /\ (At(Me).kept => ~Me.kept) /\ (At(Me).mask => ~IFlag)
           /\ calls \in Seq(Contexts)
<1>1. /\ Me = calls[Len(calls)] /\ Len(calls) \in 1 .. 2 /\ calls \in Seq(Contexts)
      /\ Len(calls) \in 1 .. Len(calls)
    BY MyPlace DEF IInv, CallsInv
<1>2. Me.who \in Mains /\ At(Me).held = {}
    BY Names, DoingAllowed DEF IInv, Allowed
<1>3. Len(calls) = 1
  <2>1. \A who \in Handlers : who \notin Mains
      BY DEF Handlers, Mains, TestMains
  <2> QED  BY <1>1, <1>2, <2>1 DEF IInv, CallsInv
<1>4. At(Me).kept => ~Me.kept
    BY <1>1 DEF IInv, CallsInv
<1>5. At(Me).mask => ~IFlag
    BY <1>1 DEF IInv, MaskInv
<1> QED  BY <1>1, <1>2, <1>3, <1>4, <1>5

LEMMA OverflowStep ==
    ASSUME IInv, overflow
    PROVE  IInv'
<1>1. Current.op = "overflow" /\ Enter("double_fault") /\ UNCHANGED <<owner, console>>
      /\ UNCHANGED devices /\ UNCHANGED ended
    BY DoingNow DEF overflow, machine
<1>2. /\ Len(calls) = 1 /\ At(Me).held = {} /\ Me = calls[1]
      /\ (At(Me).kept => ~Me.kept) /\ (At(Me).mask => ~IFlag)
      /\ calls \in Seq(Contexts)
    BY <1>1, Faulting
<1>3. Me \in Contexts /\ Me.pc \in 1 .. Len(Program[Me.who])
    BY MyPlace DEF IInv
<1>4. calls' = Append(<<Me>>, Frame("double_fault")) /\ IFlag' = FALSE
  <2>1. calls = <<Me>>
      BY <1>2, Alone
  <2> QED  BY <1>1, <2>1 DEF Enter
<1>5. "double_fault" \in Handlers
    BY DEF Handlers
<1>6. CallsInv' /\ MaskInv' /\ OwnerInv'
    BY <1>1, <1>2, <1>3, <1>4, <1>5, EnterStep
<1>7. LogInv' /\ ScreenInv'
    BY <1>1, Names, Quiet
<1>8. DeviceInv'
    BY <1>1, Undisturbed
<1> QED  BY <1>6, <1>7, <1>8 DEF IInv

LEMMA BreakpointStep ==
    ASSUME IInv, int3
    PROVE  IInv'
<1> DEFINE c == [Me EXCEPT !.pc = Me.pc + 1]
<1>1. /\ Current.op = "int3" /\ UNCHANGED <<owner, console>>
      /\ UNCHANGED devices /\ UNCHANGED ended
    BY DoingNow DEF int3, machine
<1>2. /\ Len(calls) = 1 /\ At(Me).held = {} /\ Me = calls[1]
      /\ (At(Me).kept => ~Me.kept) /\ (At(Me).mask => ~IFlag)
      /\ calls \in Seq(Contexts)
    BY <1>1, Faulting
<1>3. Me \in Contexts /\ Me.pc \in 1 .. Len(Program[Me.who])
    BY MyPlace DEF IInv
<1>4. c \in Contexts /\ c.who = Me.who /\ c.pc = Me.pc + 1 /\ c.kept = Me.kept
    BY <1>3 DEF Contexts
<1>5. /\ Me.pc + 1 \in 1 .. Len(Program[Me.who])
      /\ Ann(Me.who)[Me.pc + 1] = After(Current, At(Me))
    BY <1>1, <1>3, Names, Place DEF Current
<1>6. calls' = Append(<<c>>, Frame("breakpoint")) /\ IFlag' = FALSE
  <2> DEFINE s == [calls EXCEPT ![1] = c]
  <2>1. calls' = Append(s, Frame("breakpoint")) /\ IFlag' = FALSE
      BY <1>2 DEF int3, Depth
  <2>2. s \in Seq(Contexts) /\ Len(s) = 1
    <3> HIDE DEF c
    <3>1. 1 \in 1 .. Len(calls) /\ calls \in Seq(Contexts) /\ c \in Contexts
        BY <1>2, <1>4
    <3>2. s \in Seq(Contexts) /\ Len(s) = Len(calls)
        BY ONLY <3>1, ExceptSeq
    <3> QED  BY <1>2, <3>2
  <2>3. s[1] = c
    <3>1. 1 \in DOMAIN calls
        BY <1>2, LenProperties
    <3> QED  BY <3>1
  <2> HIDE DEF s
  <2> QED  BY <2>1, <2>2, <2>3, Alone
<1> HIDE DEF c
<1>7. At(c) = After(Current, At(Me))
    BY <1>4, <1>5 DEF At
<1>8. At(c).held = At(Me).held /\ At(c).mask = At(Me).mask /\ At(c).kept = At(Me).kept
    BY <1>1, <1>7 DEF After, Known, HeldAfter, MaskAfter
<1>9. "breakpoint" \in Handlers
    BY DEF Handlers
<1>10. c.pc \in 1 .. Len(Program[c.who]) /\ (At(c).kept => ~c.kept) /\ At(c).held = {}
       /\ (At(c).mask => ~IFlag)
    BY <1>2, <1>4, <1>5, <1>8
<1>11. CallsInv' /\ MaskInv' /\ OwnerInv'
    BY <1>1, <1>2, <1>4, <1>6, <1>9, <1>10, EnterStep
<1>12. LogInv' /\ ScreenInv'
    BY <1>1, Names, Quiet
<1>13. DeviceInv'
    BY <1>1, Undisturbed
<1> QED  BY <1>11, <1>12, <1>13 DEF IInv

LEMMA ReturnStep ==
    ASSUME IInv, iret
    PROVE  IInv'
<1>1. /\ Current.op = "iret" /\ calls' = Front(calls) /\ IFlag' = Me.entered
      /\ UNCHANGED <<owner, console>> /\ UNCHANGED devices /\ UNCHANGED ended
    BY DoingNow DEF iret, machine
<1>2. CallsInv' /\ MaskInv' /\ At(Me).held = {}
    BY <1>1, Returns DEF IInv
<1>3. OwnerInv'
    BY <1>1, <1>2, MyPlace, OwnerStays DEF IInv
<1>4. LogInv' /\ ScreenInv'
    BY <1>1, Names, Quiet
<1>5. DeviceInv'
    BY <1>1, Undisturbed
<1> QED  BY <1>2, <1>3, <1>4, <1>5 DEF IInv

\* The devices' own steps, and a CPU that halts or is gone.
LEMMA Idle ==
    ASSUME IInv, UNCHANGED <<calls, IFlag, owner, console>>
    PROVE  CallsInv' /\ MaskInv' /\ OwnerInv' /\ LogInv' /\ ScreenInv'
<1>1. CallsInv'
    BY DEF IInv, CallsInv
<1>2. MaskInv'
    BY DEF IInv, MaskInv
<1>3. OwnerInv'
    BY DEF IInv, OwnerInv
<1>4. LogInv'
    BY DEF IInv, LogInv, PrintsAreWhole, console
<1>5. ScreenInv'
    BY DEF IInv, ScreenInv, console
<1> QED  BY <1>1, <1>2, <1>3, <1>4, <1>5

LEMMA DeviceSteps ==
    ASSUME IInv, Tick \/ KeyPresented \/ UNCHANGED vars
    PROVE  IInv'
<1>1. UNCHANGED <<calls, IFlag, owner, console>>
    BY DEF Tick, KeyPresented, vars, console
<1>2. CASE Tick
  <2>1. ticks + 1 \in 0 .. MaxTicks
      BY <1>2, BufferAssumption DEF Tick, IInv, DeviceInv
  <2>2. DeviceInv'
      BY <1>2, <2>1 DEF Tick, IInv, DeviceInv, machine
  <2> QED  BY <1>1, <2>2, Idle DEF IInv
<1>3. CASE KeyPresented
  <2>1. keys + 1 \in 0 .. MaxKeys
      BY <1>3, BufferAssumption DEF KeyPresented, IInv, DeviceInv
  <2>2. DeviceInv'
      BY <1>3, <2>1 DEF KeyPresented, IInv, DeviceInv, machine
  <2> QED  BY <1>1, <2>2, Idle DEF IInv
<1>4. CASE UNCHANGED vars
  <2>1. UNCHANGED devices /\ UNCHANGED ended
      BY <1>4 DEF vars, devices
  <2> QED  BY <1>1, <2>1, Idle, Undisturbed DEF IInv
<1> QED  BY <1>2, <1>3, <1>4

LEMMA Preserved ==
    ASSUME IInv, [Next]_vars
    PROVE  IInv'
<1>1. CASE Kernel
  <2>1. CASE write_byte  BY <2>1, WriteStep
  <2>2. CASE lock  BY <2>2, LockStep
  <2>3. CASE unlock  BY <2>3, UnlockStep
  <2>4. CASE disable  BY <2>4, DisableStep
  <2>5. CASE enable  BY <2>5, EnableStep
  <2>6. CASE send \/ assert \/ panics \/ exit \/ allocate \/ initialize \/ eoi \/ read60
      BY <2>6, PlainSteps
  <2>7. CASE write_volatile  BY <2>7, VolatileStep
  <2>8. CASE overflow  BY <2>8, OverflowStep
  <2>9. CASE int3  BY <2>9, BreakpointStep
  <2>10. CASE iret  BY <2>10, ReturnStep
  <2> QED
      BY <1>1, <2>1, <2>2, <2>3, <2>4, <2>5, <2>6, <2>7, <2>8, <2>9, <2>10 DEF Kernel
<1>2. CASE hlt
    BY <1>2, DeviceSteps DEF hlt
<1>3. CASE Interrupt
    BY <1>3, InterruptStep
<1>4. CASE Tick \/ KeyPresented
    BY <1>4, DeviceSteps
<1>5. CASE UNCHANGED vars
    BY <1>5, DeviceSteps
<1> QED  BY <1>1, <1>2, <1>3, <1>4, <1>5 DEF Next

LEMMA Initially ==
    ASSUME Init
    PROVE  IInv
<1>1. PICK boot \in Boots :
          calls = <<[who |-> boot.main, pc |-> 1, entered |-> FALSE, kept |-> FALSE]>>
    BY DEF Init
<1> DEFINE c == [who |-> boot.main, pc |-> 1, entered |-> FALSE, kept |-> FALSE]
<1>2. boot.main \in Mains
    BY BufferAssumption DEF Mains
<1>3. /\ c \in Contexts /\ c.who = boot.main /\ c.pc = 1 /\ ~c.kept
    BY <1>2, ProgramsRun DEF Contexts
<1>4. c.pc \in 1 .. Len(Program[c.who])
    BY <1>2, <1>3, ProgramsRun, StartPlace
<1>5. calls = <<c>>
    BY <1>1
<1> HIDE DEF c
<1>6. calls \in Seq(Contexts) /\ Len(calls) = 1 /\ calls[1] = c
    BY <1>3, <1>5
<1>7. CallsInv
  <2>1. \A i \in 1 .. 1 : i = 1
      OBVIOUS
  <2> QED  BY <1>2, <1>3, <1>4, <1>6, <2>1 DEF CallsInv
<1>8. MaskInv
  <2>1. IFlag = FALSE
      BY DEF Init
  <2>2. IFlag \in BOOLEAN /\ ~IFlag
      BY <2>1, Zenon
  <2>3. Len(calls) # 2
      BY <1>6
  <2> QED  BY <2>2, <2>3 DEF MaskInv
<1>9. OwnerInv
    BY DEF Init, OwnerInv
<1>10. LogInv
    BY DEF Init, LogInv, PrintsAreWhole
<1>11. ScreenInv
  <2>1. 0 \in 0 .. BUFFER_WIDTH
      BY BufferAssumption
  <2>2. DOMAIN screen = Rows /\ \A r \in Rows : DOMAIN screen[r] = Cols
      BY DEF Init, clear_row
  <2>3. col_pos \in [WRITERS -> 0 .. BUFFER_WIDTH]
      BY <2>1 DEF Init
  <2> QED  BY <2>2, <2>3 DEF ScreenInv
<1>12. DeviceInv
  <2>1. 0 \in 0 .. MaxTicks /\ 0 \in 0 .. MaxKeys
      BY BufferAssumption
  <2> QED  BY <2>1 DEF Init, DeviceInv
<1> QED  BY <1>7, <1>8, <1>9, <1>10, <1>11, <1>12 DEF IInv

THEOREM Invariant == Spec => []IInv
<1>1. Init => IInv
    BY Initially
<1>2. IInv /\ [Next]_vars => IInv'
    BY Preserved
<1> QED  BY <1>1, <1>2, PTL DEF Spec

-----------------------------------------------------------------------------
\* Every context is inside its program, at most one handler runs over the main, the
\* buffer and the columns of print! keep their shape, and QEMU exits only with a
\* status the crate has.
THEOREM TypeCorrect == Spec => []TypeOK
<1>1. IInv => TypeOK
  <2> SUFFICES ASSUME IInv PROVE TypeOK
      OBVIOUS
  <2>1. /\ calls \in Seq(Contexts) /\ Len(calls) \in 1 .. 2 /\ DOMAIN calls = 1 .. Len(calls)
      BY LenProperties DEF IInv, CallsInv
  <2>2. ASSUME NEW i \in DOMAIN calls
        PROVE  calls[i].who \in DOMAIN Program /\ calls[i].pc \in DOMAIN Program[calls[i].who]
    <3>1. calls[i] \in Contexts
        BY <2>1, ElementOfSeq
    <3>2. calls[i].who \in DOMAIN Program
        BY <3>1 DEF Contexts
    <3>3. calls[i].pc \in 1 .. Len(Program[calls[i].who])
        BY <2>1 DEF IInv, CallsInv
    <3> QED  BY <3>2, <3>3, Annotation
  <2>3. owner \in [Locks -> 0 .. Depth]
    <3>1. owner \in [Locks -> 0 .. 2] /\ \A l \in Locks : owner[l] = 0 \/ owner[l] = Len(calls)
        BY DEF IInv, OwnerInv
    <3>2. \A l \in Locks : owner[l] \in 0 .. Len(calls)
        BY <2>1, <3>1
    <3> QED  BY <3>1, <3>2 DEF Depth
  <2> QED  BY <2>1, <2>2, <2>3 DEF TypeOK, Depth, IInv, MaskInv, ScreenInv, DeviceInv
<1> QED  BY <1>1, Invariant, PTL

\* spin::Mutex::lock never spins: whichever of the WRITERs, PICS, KEYBOARD and
\* SERIAL a context locks, in whatever order interrupts, the breakpoint, the
\* double fault and panics come, it finds it free.
THEOREM LocksFoundFree == Spec => []NeverSpins
<1>1. IInv => NeverSpins
  <2> SUFFICES ASSUME IInv, Doing("lock") PROVE owner[Current.arg] = 0
      BY DEF NeverSpins
  <2>1. Current.op = "lock"
      BY DoingNow
  <2>2. Current.arg \in Locks /\ Current.arg \notin At(Me).held
      BY <2>1, Names, DoingAllowed DEF IInv, Allowed
  <2>3. Me = calls[Len(calls)]
      BY MyPlace DEF IInv
  <2> QED  BY <2>2, <2>3 DEF IInv, OwnerInv
<1> QED  BY <1>1, Invariant, PTL

\* A print! is written as a whole, with nothing of a handler's between its bytes.
THEOREM PrintsWhole == Spec => []PrintsAreWhole
<1>1. IInv => PrintsAreWhole
    BY DEF IInv, LogInv
<1> QED  BY <1>1, Invariant, PTL

-----------------------------------------------------------------------------
(***************************************************************************)
(* The lines of a log.  FoldLeft computes them by a function on the sets   *)
(* of the log's indices, which takes the highest index last: on 1 .. n it  *)
(* gives the lines of the first n entries.                                 *)
(***************************************************************************)
\* The natural numbers are well-founded.
LEMMA LeastNat ==
    ASSUME NEW T \in SUBSET Nat, T # {}
    PROVE  \E m \in T : \A k \in T : m <= k
<1> DEFINE R == OpToRel(<, Nat)
<1>1. IsWellFoundedOn(R, Nat)
  BY NatLessThanWellFounded
<1>2. \A x, y \in Nat : <<y, x>> \in R <=> y < x
  BY DEF OpToRel
<1> HIDE DEF R
<1>3. PICK m \in T : \A y \in T : ~(<<y, m>> \in R)
  BY <1>1, WFMin
<1>4. ASSUME NEW k \in T
      PROVE  m <= k
  <2>1. m \in Nat /\ k \in Nat
    OBVIOUS
  <2>2. ~(k < m)
    BY <1>2, <1>3, <2>1
  <2> QED
    BY <2>1, <2>2
<1> QED
  BY <1>4

\* A set of indices has a highest one, and one index less without it.
LEMMA Highest ==
    ASSUME NEW n \in Nat, NEW s \in SUBSET (1 .. n), s # {}
    PROVE  /\ Max(s) \in s
           /\ \A y \in s : y <= Max(s)
<1> DEFINE Above == {m \in Nat : \A y \in s : y <= m}
<1>1. n \in Above
    OBVIOUS
<1>2. PICK m \in Above : \A k \in Above : m <= k
  <2>1. Above \in SUBSET Nat /\ Above # {}
      BY <1>1
  <2> HIDE DEF Above
  <2> QED  BY <2>1, LeastNat
<1>3. m \in Nat /\ \A y \in s : y <= m
    OBVIOUS
<1>4. m \in s
  <2> SUFFICES ASSUME m \notin s PROVE FALSE
      OBVIOUS
  <2>1. \A y \in s : y \in Nat /\ y > 0 /\ y <= m /\ y # m
      BY <1>3
  <2>2. m > 0 /\ \A y \in s : y <= m - 1
    <3>1. m > 0
      <4>1. PICK y \in s : TRUE
          OBVIOUS
      <4> QED  BY <1>3, <2>1, <4>1
    <3>2. ASSUME NEW y \in s
          PROVE  y <= m - 1
      <4>1. y \in Nat /\ y <= m /\ y # m
          BY <2>1
      <4> QED  BY <1>3, <4>1
    <3> QED  BY <3>1, <3>2
  <2>3. m - 1 \in Above
      BY <1>3, <2>2
  <2>4. m <= m - 1
    <3> HIDE DEF Above
    <3> QED  BY <1>2, <2>3
  <2> QED  BY <1>3, <2>4
<1>5. \E x \in s : \A y \in s : x >= y
    BY <1>3, <1>4
<1>6. Max(s) \in s /\ \A y \in s : Max(s) >= y
    BY <1>5 DEF Max
<1> QED  BY <1>6

LinesOver(l, s, g) ==
    IF s = {} THEN << <<>> >> ELSE AddByte(g[s \ {Max(s)}], l[Max(s)].byte)
LinesFn(l, g) == g = [s \in SUBSET DOMAIN l |-> LinesOver(l, s, g)]

\* Such a function exists: one that is right for the sets of up to n indices gives
\* one that is right for those of n + 1.
LEMMA LinesFnExists ==
    ASSUME NEW l \in Seq(Entries)
    PROVE  \E g : LinesFn(l, g)
<1> DEFINE S == DOMAIN l
           Upto(n, g) == \A s \in SUBSET S : Cardinality(s) <= n => g[s] = LinesOver(l, s, g)
           Missing == {n \in Nat : ~ \E g : Upto(n, g)}
<1>1. S = 1 .. Len(l) /\ Len(l) \in Nat
    BY LenProperties
<1>2. IsFiniteSet(S) /\ Cardinality(S) \in Nat
    BY <1>1, FS_Interval, FS_CardinalityType
<1>3. \A s \in SUBSET S : IsFiniteSet(s) /\ Cardinality(s) \in Nat
    BY <1>2, FS_Subset, FS_CardinalityType
<1>4. Upto(0, [s \in SUBSET S |-> << <<>> >>])
  <2> SUFFICES ASSUME NEW s \in SUBSET S, Cardinality(s) <= 0
               PROVE  s = {}
      BY DEF LinesOver
  <2> QED  BY <1>3, FS_EmptySet
<1>5. ASSUME NEW n \in Nat, NEW g, Upto(n, g)
      PROVE  \E h : Upto(n + 1, h)
  <2> DEFINE h == [s \in SUBSET S |-> IF Cardinality(s) <= n THEN g[s] ELSE LinesOver(l, s, g)]
  <2>1. \A s \in SUBSET S : h[s] = LinesOver(l, s, g)
      BY <1>5
  <2>2. ASSUME NEW s \in SUBSET S, Cardinality(s) <= n + 1
        PROVE  h[s] = LinesOver(l, s, h)
    <3>1. CASE s = {}
        BY <2>1, <3>1 DEF LinesOver
    <3>2. CASE s # {}
      <4> DEFINE t == s \ {Max(s)}
      <4>1. Max(s) \in s
          BY <1>1, <3>2, Highest
      <4>2. t \in SUBSET S /\ Cardinality(t) = Cardinality(s) - 1
          BY <1>3, <4>1, FS_RemoveElement
      <4>3. Cardinality(t) <= n
          BY <1>3, <2>2, <4>2
      <4>4. h[t] = g[t]
          BY <4>2, <4>3
      <4> QED  BY <2>1, <3>2, <4>4 DEF LinesOver
    <3> QED  BY <3>1, <3>2
  <2>3. Upto(n + 1, h)
      BY <2>2
  <2> QED  BY <2>3
<1>6. Missing = {}
  <2> SUFFICES ASSUME Missing # {} PROVE FALSE
      OBVIOUS
  <2>1. PICK m \in Missing : \A k \in Missing : m <= k
      BY LeastNat
  <2>2. m # 0
      BY <1>4
  <2>3. m \in Nat /\ m - 1 \in Nat /\ m - 1 \notin Missing
    <3>1. m \in Nat
        OBVIOUS
    <3> HIDE DEF Missing
    <3> QED  BY <2>1, <2>2, <3>1
  <2>4. PICK g : Upto(m - 1, g)
      BY <2>3
  <2>5. \E h : Upto(m, h)
    <3> HIDE DEF Upto
    <3>1. \E h : Upto((m - 1) + 1, h)
        BY <1>5, <2>3, <2>4
    <3>2. (m - 1) + 1 = m
        BY <2>3
    <3> QED  BY <3>1, <3>2
  <2> QED  BY <2>5
<1>7. PICK g : Upto(Cardinality(S), g)
    BY <1>2, <1>6
<1>8. \A s \in SUBSET S : g[s] = LinesOver(l, s, g)
    BY <1>2, <1>7, FS_Subset
<1> DEFINE h == [s \in SUBSET S |-> g[s]]
<1>9. ASSUME NEW s \in SUBSET S
      PROVE  h[s] = LinesOver(l, s, h)
    BY <1>8 DEF LinesOver
<1>10. LinesFn(l, h)
    BY <1>9 DEF LinesFn
<1> QED  BY <1>10

LEMMA LinesOfDef ==
    ASSUME NEW l \in Seq(Entries)
    PROVE  \E g : LinesFn(l, g) /\ LinesOf(l) = g[DOMAIN l]
<1> DEFINE G == CHOOSE g : LinesFn(l, g)
<1>1. LinesOf(l) = G[DOMAIN l]
    BY DEF LinesOf, FoldLeft, MapThenFoldSet, LinesFn, LinesOver
<1>2. LinesFn(l, G)
    BY LinesFnExists
<1> QED  BY <1>1, <1>2

\* On the first k indices the function adds the byte of the k-th entry last.
LEMMA LinesPrefix ==
    ASSUME NEW l \in Seq(Entries), NEW g, LinesFn(l, g)
    PROVE  /\ g[1 .. 0] = << <<>> >>
           /\ \A k \in 1 .. Len(l) : g[1 .. k] = AddByte(g[1 .. k - 1], l[k].byte)
<1>1. DOMAIN l = 1 .. Len(l) /\ Len(l) \in Nat
    BY LenProperties
<1>2. \A s \in SUBSET (1 .. Len(l)) : g[s] = LinesOver(l, s, g)
    BY <1>1 DEF LinesFn
<1>3. 1 .. 0 = {}
    OBVIOUS
<1>4. ASSUME NEW k \in 1 .. Len(l)
      PROVE  g[1 .. k] = AddByte(g[1 .. k - 1], l[k].byte)
  <2>1. /\ 1 .. k \in SUBSET (1 .. Len(l)) /\ k \in 1 .. k
        /\ k \in Nat
      BY <1>1
  <2>2. Max(1 .. k) \in 1 .. k /\ \A y \in 1 .. k : y <= Max(1 .. k)
      BY <2>1, Highest
  <2>3. Max(1 .. k) = k
    <3>1. k <= Max(1 .. k)
        BY <2>1, <2>2
    <3> QED  BY <2>1, <2>2, <3>1
  <2>4. (1 .. k) \ {k} = 1 .. k - 1
      BY <2>1
  <2> QED  BY <1>2, <2>1, <2>3, <2>4 DEF LinesOver
<1> QED  BY <1>2, <1>3, <1>4 DEF LinesOver

LEMMA LinesOfNothing == LinesOf(<<>>) = << <<>> >>
<1>1. <<>> \in Seq(Entries) /\ DOMAIN <<>> = 1 .. 0
    OBVIOUS
<1>2. PICK g : LinesFn(<<>>, g) /\ LinesOf(<<>>) = g[DOMAIN <<>>]
    BY <1>1, LinesOfDef
<1> QED  BY <1>1, <1>2, LinesPrefix

\* What is written next is added to the lines there are.
LEMMA LinesOfMore ==
    ASSUME NEW l \in Seq(Entries), NEW e \in Entries
    PROVE  LinesOf(Append(l, e)) = AddByte(LinesOf(l), e.byte)
<1> DEFINE m == Append(l, e)
           n == Len(l)
<1>1. /\ m \in Seq(Entries) /\ Len(m) = n + 1 /\ n \in Nat /\ m[n + 1] = e
      /\ \A k \in 1 .. n : m[k] = l[k]
      /\ DOMAIN l = 1 .. n /\ DOMAIN m = 1 .. n + 1
    BY AppendProperties, LenProperties
<1> HIDE DEF m
<1>2. PICK g : LinesFn(l, g) /\ LinesOf(l) = g[DOMAIN l]
    BY LinesOfDef
<1>3. PICK h : LinesFn(m, h) /\ LinesOf(m) = h[DOMAIN m]
    BY <1>1, LinesOfDef
<1>4. /\ g[1 .. 0] = << <<>> >> /\ h[1 .. 0] = << <<>> >>
      /\ \A k \in 1 .. n : g[1 .. k] = AddByte(g[1 .. k - 1], l[k].byte)
      /\ \A k \in 1 .. n + 1 : h[1 .. k] = AddByte(h[1 .. k - 1], m[k].byte)
  <2>1. /\ g[1 .. 0] = << <<>> >>
        /\ \A k \in 1 .. n : g[1 .. k] = AddByte(g[1 .. k - 1], l[k].byte)
      BY <1>2, LinesPrefix
  <2> HIDE DEF n
  <2>2. /\ h[1 .. 0] = << <<>> >>
        /\ \A k \in 1 .. Len(m) : h[1 .. k] = AddByte(h[1 .. k - 1], m[k].byte)
      BY <1>1, <1>3, LinesPrefix
  <2> QED  BY <1>1, <2>1, <2>2
<1> DEFINE Differ == {k \in 0 .. n : g[1 .. k] # h[1 .. k]}
<1>5. Differ = {}
  <2> SUFFICES ASSUME Differ # {} PROVE FALSE
      OBVIOUS
  <2>1. PICK k \in Differ : \A j \in Differ : k <= j
    <3>1. Differ \in SUBSET Nat
        BY <1>1
    <3> HIDE DEF Differ
    <3> QED  BY <3>1, LeastNat
  <2>2. k \in 1 .. n /\ k \in 1 .. n + 1 /\ k - 1 \in 0 .. n
    <3>1. k \in 0 .. n /\ g[1 .. k] # h[1 .. k]
        OBVIOUS
    <3> HIDE DEF Differ, n
    <3>2. k # 0
        BY <1>4, <3>1
    <3> QED  BY <1>1, <3>1, <3>2
  <2>3. k - 1 \notin Differ
    <3>1. ~(k <= k - 1)
        BY <2>2
    <3> HIDE DEF Differ
    <3> QED  BY <2>1, <3>1
  <2>4. g[1 .. k - 1] = h[1 .. k - 1]
      BY <2>2, <2>3
  <2>5. g[1 .. k] = h[1 .. k]
      BY <1>1, <1>4, <2>2, <2>4
  <2> QED  BY <2>5
<1>6. g[1 .. n] = h[1 .. n]
    BY <1>1, <1>5
<1>7. n + 1 \in 1 .. n + 1 /\ (n + 1) - 1 = n
    BY <1>1
<1>8. h[1 .. n + 1] = AddByte(h[1 .. n], m[n + 1].byte)
    BY <1>4, <1>7
<1> QED  BY <1>1, <1>2, <1>3, <1>6, <1>8 DEF m

-----------------------------------------------------------------------------
(***************************************************************************)
(* What one WRITER has written is what the buffer shows.  The property     *)
(* speaks of a WRITER that has written; that the other's column is still 0 *)
(* when nothing has been written is what makes it inductive.               *)
(***************************************************************************)
ShownAs(line) == [c \in Cols |-> IF c + 1 \in DOMAIN line THEN line[c + 1] ELSE Blank]

Shows(lines, s, col) ==
    /\ lines \in Seq(Seq(Arguments)) /\ Len(lines) > 0
    /\ \A i \in 1 .. Len(lines) : Len(lines[i]) <= BUFFER_WIDTH
    /\ DOMAIN s = Rows /\ \A r \in Rows : s[r] = ShownAs(LineInRow(lines, r))
    /\ col = Len(Last(lines))

OnlyWriter(w) == \A i \in DOMAIN log : log[i].writer = w
ShowsInv == \A w \in WRITERS : OnlyWriter(w) => Shows(Lines, screen, col_pos[w])

\* Of some lines, the last one and those above it, and the rows they are in.
LEMMA Shown ==
    ASSUME NEW lines, NEW s, NEW col, Shows(lines, s, col)
    PROVE  /\ BUFFER_HEIGHT \in Nat /\ BUFFER_HEIGHT > 1
           /\ BUFFER_WIDTH \in Nat /\ BUFFER_WIDTH > 1
           /\ Len(lines) \in Nat /\ Len(lines) > 0
           /\ lines[Len(lines)] \in Seq(Arguments) /\ col = Len(lines[Len(lines)])
           /\ col \in Nat /\ col <= BUFFER_WIDTH
           /\ DOMAIN lines[Len(lines)] = 1 .. col
           /\ s[BUFFER_HEIGHT] = ShownAs(lines[Len(lines)])
<1>1. /\ BUFFER_HEIGHT \in Nat /\ BUFFER_HEIGHT > 1
      /\ BUFFER_WIDTH \in Nat /\ BUFFER_WIDTH > 1
    BY BufferAssumption
<1>2. Len(lines) \in Nat /\ Len(lines) > 0 /\ lines \in Seq(Seq(Arguments))
    BY LenProperties DEF Shows
<1>3. lines[Len(lines)] \in Seq(Arguments)
    BY <1>2, ElementOfSeq
<1>4. col = Len(lines[Len(lines)]) /\ Len(lines[Len(lines)]) <= BUFFER_WIDTH
    BY <1>2 DEF Shows, Last
<1>5. col \in Nat /\ DOMAIN lines[Len(lines)] = 1 .. col
    BY <1>3, <1>4, LenProperties
<1>6. s[BUFFER_HEIGHT] = ShownAs(lines[Len(lines)])
  <2>1. BUFFER_HEIGHT \in Rows
      BY <1>1 DEF Rows
  <2>2. Len(lines) - (BUFFER_HEIGHT - BUFFER_HEIGHT) = Len(lines)
      BY <1>1, <1>2
  <2>3. LineInRow(lines, BUFFER_HEIGHT) = lines[Len(lines)]
      BY <1>2, <2>2 DEF LineInRow
  <2> QED  BY <2>1, <2>3 DEF Shows
<1> QED  BY <1>1, <1>2, <1>3, <1>4, <1>5, <1>6

\* new_line is an empty line more.
LEMMA NewLineShown ==
    ASSUME NEW lines, NEW s, NEW col, Shows(lines, s, col)
    PROVE  Shows(Append(lines, <<>>), new_line(s), 0)
<1> DEFINE more == Append(lines, <<>>)
           n == Len(lines)
<1>1. /\ BUFFER_HEIGHT \in Nat /\ BUFFER_HEIGHT > 1 /\ BUFFER_WIDTH \in Nat
      /\ n \in Nat /\ n > 0
    BY Shown
<1>2. <<>> \in Seq(Arguments) /\ Len(<<>>) = 0
    OBVIOUS
<1>3. /\ more \in Seq(Seq(Arguments)) /\ Len(more) = n + 1 /\ more[n + 1] = <<>>
      /\ \A i \in 1 .. n : more[i] = lines[i]
    BY <1>2, AppendProperties DEF Shows
<1> HIDE DEF more
<1>4. \A i \in 1 .. Len(more) : Len(more[i]) <= BUFFER_WIDTH
  <2> SUFFICES ASSUME NEW i \in 1 .. Len(more)
               PROVE  Len(more[i]) <= BUFFER_WIDTH
      OBVIOUS
  <2>1. CASE i = n + 1
      BY <1>1, <1>2, <1>3, <2>1
  <2>2. CASE i # n + 1
    <3>1. i \in 1 .. n
        BY <1>1, <1>3, <2>2
    <3> QED  BY <1>3, <3>1 DEF Shows
  <2> QED  BY <2>1, <2>2
<1>5. ASSUME NEW r \in Rows
      PROVE  new_line(s)[r] = ShownAs(LineInRow(more, r))
  <2>1. r \in Nat /\ r > 0 /\ r <= BUFFER_HEIGHT
      BY <1>1 DEF Rows
  <2>2. CASE r = BUFFER_HEIGHT
    <3>1. Len(more) - (BUFFER_HEIGHT - r) = n + 1
        BY <1>1, <1>3, <2>2
    <3>2. LineInRow(more, r) = <<>>
        BY <1>1, <1>3, <3>1 DEF LineInRow
    <3>3. ShownAs(<<>>) = clear_row
        BY DEF ShownAs, clear_row
    <3> QED  BY <2>2, <3>2, <3>3 DEF new_line
  <2>3. CASE r # BUFFER_HEIGHT
    <3> DEFINE j == Len(more) - (BUFFER_HEIGHT - r)
    <3>1. /\ j = n - (BUFFER_HEIGHT - (r + 1)) /\ j \in Int
          /\ j > 0 => j \in 1 .. n
        BY <1>1, <1>3, <2>1, <2>3
    <3>2. LineInRow(more, r) = LineInRow(lines, r + 1)
      <4>1. LineInRow(more, r) = (IF j > 0 THEN more[j] ELSE <<>>)
          BY DEF LineInRow
      <4> HIDE DEF j
      <4>2. LineInRow(lines, r + 1) = (IF j > 0 THEN lines[j] ELSE <<>>)
          BY <3>1 DEF LineInRow
      <4> QED  BY <1>3, <3>1, <4>1, <4>2
    <3>3. r + 1 \in Rows
        BY <1>1, <2>1, <2>3 DEF Rows
    <3>4. new_line(s)[r] = s[r + 1]
        BY <2>3 DEF new_line
    <3> QED  BY <3>2, <3>3, <3>4 DEF Shows
  <2> QED  BY <2>2, <2>3
<1>6. DOMAIN new_line(s) = Rows
    BY DEF new_line
<1>7. 0 = Len(Last(more))
    BY <1>2, <1>3 DEF Last
<1>8. Len(more) > 0
    BY <1>1, <1>3
<1>9. Shows(more, new_line(s), 0)
    BY <1>3, <1>4, <1>5, <1>6, <1>7, <1>8 DEF Shows
<1> QED  BY <1>9 DEF more

\* A byte in the column the last line ends at is a byte more of that line.
ByteAdded(lines, byte) == [lines EXCEPT ![Len(lines)] = Append(@, byte)]
ByteWritten(s, c, byte) ==
    [s EXCEPT ![BUFFER_HEIGHT] = [k \in Cols \cup {c} |-> IF k = c THEN byte ELSE @[k]]]

LEMMA ByteShown ==
    ASSUME NEW lines, NEW s, NEW col, Shows(lines, s, col), col < BUFFER_WIDTH,
           NEW byte \in Arguments
    PROVE  Shows(ByteAdded(lines, byte), ByteWritten(s, col, byte), col + 1)
<1> DEFINE n == Len(lines)
           last == lines[n]
           longer == Append(last, byte)
           more == ByteAdded(lines, byte)
           row == [k \in Cols \cup {col} |-> IF k = col THEN byte ELSE s[BUFFER_HEIGHT][k]]
           t == ByteWritten(s, col, byte)
<1>1. /\ BUFFER_HEIGHT \in Nat /\ BUFFER_HEIGHT > 1
      /\ BUFFER_WIDTH \in Nat /\ BUFFER_WIDTH > 1
      /\ n \in Nat /\ n > 0 /\ last \in Seq(Arguments) /\ col = Len(last)
      /\ col \in Nat /\ DOMAIN last = 1 .. col
      /\ s[BUFFER_HEIGHT] = ShownAs(last)
    BY Shown
<1>2. lines \in Seq(Seq(Arguments)) /\ DOMAIN lines = 1 .. n /\ DOMAIN s = Rows
    BY LenProperties DEF Shows
<1>3. /\ longer \in Seq(Arguments) /\ Len(longer) = col + 1 /\ longer[col + 1] = byte
      /\ \A i \in 1 .. col : longer[i] = last[i]
      /\ DOMAIN longer = 1 .. col + 1
  <2> HIDE DEF last
  <2> QED  BY <1>1, AppendProperties, LenProperties
<1>4. more = [lines EXCEPT ![n] = longer]
    BY DEF ByteAdded
<1>5. t = [s EXCEPT ![BUFFER_HEIGHT] = row]
    BY DEF ByteWritten
<1>6. row = ShownAs(longer)
  <2>1. col \in Cols /\ Cols \cup {col} = Cols
      BY <1>1 DEF Cols
  <2>2. ASSUME NEW k \in Cols
        PROVE  row[k] = ShownAs(longer)[k]
    <3>1. k \in Nat
        BY <1>1 DEF Cols
    <3>2. ShownAs(longer)[k] = IF k + 1 \in DOMAIN longer THEN longer[k + 1] ELSE Blank
        BY DEF ShownAs
    <3>3. s[BUFFER_HEIGHT][k] = IF k + 1 \in DOMAIN last THEN last[k + 1] ELSE Blank
        BY <1>1 DEF ShownAs
    <3>4. row[k] = IF k = col THEN byte ELSE s[BUFFER_HEIGHT][k]
        OBVIOUS
    <3> HIDE DEF row, longer, last
    <3>5. CASE k = col
      <4>1. k + 1 \in DOMAIN longer /\ longer[k + 1] = byte
          BY <1>1, <1>3, <3>5
      <4> QED  BY <3>2, <3>4, <3>5, <4>1
    <3>6. CASE k # col
      <4>1. k + 1 \in 1 .. col + 1 <=> k + 1 \in 1 .. col
          BY <1>1, <3>1, <3>6
      <4>2. k + 1 \in 1 .. col => longer[k + 1] = last[k + 1]
          BY <1>3
      <4> QED  BY <1>1, <1>3, <3>2, <3>3, <3>4, <3>6, <4>1, <4>2
    <3> QED  BY <3>5, <3>6
  <2>3. DOMAIN row = Cols /\ row = [k \in Cols |-> row[k]]
      BY <2>1
  <2>4. ShownAs(longer) = [k \in Cols |-> ShownAs(longer)[k]]
      BY DEF ShownAs
  <2> HIDE DEF row, longer
  <2> QED  BY <2>2, <2>3, <2>4
<1> HIDE DEF longer, more, row, t
<1>7. /\ more \in Seq(Seq(Arguments)) /\ Len(more) = n /\ more[n] = longer
      /\ \A i \in 1 .. n : i # n => more[i] = lines[i]
  <2> HIDE DEF n
  <2>1. n \in 1 .. Len(lines)
      BY <1>1 DEF n
  <2> QED  BY <1>2, <1>3, <1>4, <2>1, ExceptSeq
<1>8. \A i \in 1 .. Len(more) : Len(more[i]) <= BUFFER_WIDTH
  <2>1. \A i \in 1 .. n : Len(lines[i]) <= BUFFER_WIDTH
      BY DEF Shows
  <2>2. Len(longer) <= BUFFER_WIDTH
      BY <1>1, <1>3
  <2> QED  BY <1>7, <2>1, <2>2
<1>9. BUFFER_HEIGHT \in Rows
    BY <1>1 DEF Rows
<1>10. DOMAIN t = Rows
    BY <1>2, <1>5
<1>11. ASSUME NEW r \in Rows
       PROVE  t[r] = ShownAs(LineInRow(more, r))
  <2>1. r \in Nat /\ r > 0 /\ r <= BUFFER_HEIGHT
      BY <1>1 DEF Rows
  <2> DEFINE j == n - (BUFFER_HEIGHT - r)
  <2>2. j \in Int /\ j <= n /\ (j = n <=> r = BUFFER_HEIGHT)
      BY <1>1, <2>1
  <2>3. /\ LineInRow(more, r) = (IF j > 0 THEN more[j] ELSE <<>>)
        /\ LineInRow(lines, r) = (IF j > 0 THEN lines[j] ELSE <<>>)
      BY <1>7 DEF LineInRow
  <2> HIDE DEF j
  <2>4. CASE r = BUFFER_HEIGHT
    <3>1. LineInRow(more, r) = longer
        BY <1>1, <1>7, <2>2, <2>3, <2>4
    <3>2. t[r] = row
        BY <1>2, <1>5, <1>9, <2>4
    <3> QED  BY <1>6, <3>1, <3>2
  <2>5. CASE r # BUFFER_HEIGHT
    <3>1. j > 0 => j \in 1 .. n /\ j # n
        BY <1>1, <2>2, <2>5
    <3>2. LineInRow(more, r) = LineInRow(lines, r)
        BY <1>7, <2>3, <3>1
    <3>3. t[r] = s[r]
        BY <1>2, <1>5, <2>5
    <3> QED  BY <3>2, <3>3 DEF Shows
  <2> QED  BY <2>4, <2>5
<1>12. col + 1 = Len(Last(more))
    BY <1>3, <1>7 DEF Last
<1>13. Shows(more, t, col + 1)
    BY <1>1, <1>7, <1>8, <1>10, <1>11, <1>12 DEF Shows
<1> QED  BY <1>13 DEF more, t

\* An entry more in the log: which WRITERs wrote all of it, and its lines.
LEMMA LogAppended ==
    ASSUME log \in Seq(Entries), NEW e \in Entries, log' = Append(log, e), NEW w, OnlyWriter(w)'
    PROVE  OnlyWriter(w) /\ w = e.writer /\ Lines' = AddByte(Lines, e.byte)
<1> DEFINE n == Len(log)
<1>1. /\ n \in Nat /\ DOMAIN log = 1 .. n
      /\ log' \in Seq(Entries) /\ Len(log') = n + 1 /\ log'[n + 1] = e
      /\ \A i \in 1 .. n : log'[i] = log[i]
    BY AppendProperties, LenProperties
<1>2. DOMAIN log' = 1 .. n + 1
    BY <1>1, LenProperties
<1>3. \A i \in 1 .. n + 1 : log'[i].writer = w
    BY <1>2 DEF OnlyWriter
<1>4. n + 1 \in 1 .. n + 1 /\ \A i \in 1 .. n : i \in 1 .. n + 1
    BY <1>1
<1>5. w = e.writer
    BY <1>1, <1>3, <1>4
<1>6. OnlyWriter(w)
    BY <1>1, <1>3, <1>4 DEF OnlyWriter
<1>7. Lines' = AddByte(Lines, e.byte)
    BY LinesOfMore DEF Lines
<1> QED  BY <1>5, <1>6, <1>7

\* A byte after a line that is full is a newline and the byte.
LEMMA WrapAdded ==
    ASSUME NEW lines \in Seq(Seq(Arguments)), NEW byte \in Arguments
    PROVE  Append(lines, <<byte>>) = ByteAdded(Append(lines, <<>>), byte)
<1> DEFINE n == Len(lines)
           empty == Append(lines, <<>>)
           more == Append(lines, <<byte>>)
<1>1. /\ <<>> \in Seq(Arguments) /\ <<byte>> \in Seq(Arguments)
      /\ Append(<<>>, byte) = <<byte>>
    OBVIOUS
<1>2. n \in Nat /\ n + 1 \in 1 .. n + 1
    BY LenProperties
<1>3. /\ empty \in Seq(Seq(Arguments)) /\ Len(empty) = n + 1 /\ empty[n + 1] = <<>>
      /\ \A i \in 1 .. n : empty[i] = lines[i]
    BY <1>1, AppendProperties
<1>4. /\ more \in Seq(Seq(Arguments)) /\ Len(more) = n + 1 /\ more[n + 1] = <<byte>>
      /\ \A i \in 1 .. n : more[i] = lines[i]
    BY <1>1, AppendProperties
<1> HIDE DEF empty, more
<1>5. ByteAdded(empty, byte) = [empty EXCEPT ![n + 1] = <<byte>>]
    BY <1>1, <1>3 DEF ByteAdded
<1>6. /\ ByteAdded(empty, byte) \in Seq(Seq(Arguments))
      /\ Len(ByteAdded(empty, byte)) = n + 1
      /\ \A i \in 1 .. n + 1 :
             ByteAdded(empty, byte)[i] = IF i = n + 1 THEN <<byte>> ELSE empty[i]
  <2> HIDE DEF n
  <2> QED  BY <1>1, <1>2, <1>3, <1>5, ExceptSeq
<1>7. ASSUME NEW i \in 1 .. n + 1
      PROVE  more[i] = ByteAdded(empty, byte)[i]
  <2>1. CASE i = n + 1
      BY <1>4, <1>6, <2>1
  <2>2. CASE i # n + 1
    <3>1. i \in 1 .. n
        BY <1>2, <2>2
    <3> QED  BY <1>3, <1>4, <1>6, <2>2, <3>1
  <2> QED  BY <2>1, <2>2
<1>8. more = ByteAdded(empty, byte)
  <2> HIDE DEF n
  <2> QED  BY <1>4, <1>6, <1>7, SeqEqual
<1> QED  BY <1>8 DEF more, empty

LEMMA WriteShown ==
    ASSUME IInv, ShowsInv, write_byte
    PROVE  ShowsInv'
<1>1. PICK w \in WRITERS :
          /\ Doing(w) /\ Log(w, Current.arg)
          /\ LET byte == Current.arg
                 wrap == byte # "\n" /\ Wraps(w)
                 s == IF byte = "\n" \/ wrap THEN new_line(screen) ELSE screen
                 c == IF byte = "\n" \/ wrap THEN 0 ELSE col_pos[w]
             IN  IF byte = "\n"
                 THEN screen' = s /\ col_pos' = [col_pos EXCEPT ![w] = c]
                 ELSE /\ screen' = [s EXCEPT ![BUFFER_HEIGHT] =
                                        [k \in Cols \cup {c} |-> IF k = c THEN byte ELSE @[k]]]
                      /\ col_pos' = [col_pos EXCEPT ![w] = c + 1]
    BY DEF write_byte
<1> DEFINE byte == Current.arg
           e == [writer |-> w, byte |-> byte, who |-> Me.who, op |-> Me.pc]
<1>2. Current.op = w /\ Current.op \in Ordinary
    BY <1>1, DoingNow DEF WRITERS, Ordinary
<1>3. byte \in Arguments
    BY <1>2, DoingAllowed DEF IInv
<1>4. Me.who \in DOMAIN Program /\ Me.pc \in Nat
    BY MyPlace DEF IInv, Contexts
<1>5. e \in Entries /\ e.writer = w /\ e.byte = byte
    BY <1>3, <1>4 DEF Entries
<1>6. log' = Append(log, e)
    BY <1>1 DEF Log
<1>7. log \in Seq(Entries) /\ col_pos \in [WRITERS -> 0 .. BUFFER_WIDTH]
    BY DEF IInv, LogInv, ScreenInv
<1> SUFFICES ASSUME NEW v \in WRITERS, OnlyWriter(v)'
             PROVE  Shows(Lines', screen', col_pos'[v])
    BY DEF ShowsInv, Shows, LineInRow, ShownAs
<1> HIDE DEF e
<1>8. OnlyWriter(v) /\ v = w /\ Lines' = AddByte(Lines, byte)
    BY <1>5, <1>6, <1>7, LogAppended
<1>9. Shows(Lines, screen, col_pos[w])
    BY <1>8 DEF ShowsInv
<1>10. /\ Lines \in Seq(Seq(Arguments))
       /\ BUFFER_WIDTH \in Nat /\ BUFFER_WIDTH > 1 /\ col_pos[w] \in Nat
       /\ col_pos[w] = Len(Last(Lines)) /\ col_pos[w] <= BUFFER_WIDTH
  <2>1. Lines \in Seq(Seq(Arguments)) /\ col_pos[w] = Len(Last(Lines))
      BY <1>9 DEF Shows
  <2> QED  BY <1>9, <2>1, Shown
<1>11. Shows(Append(Lines, <<>>), new_line(screen), 0)
    BY <1>9, NewLineShown
<1>12. CASE byte = "\n"
  <2>1. screen' = new_line(screen) /\ col_pos'[w] = 0
      BY <1>1, <1>7, <1>12
  <2>2. Lines' = Append(Lines, <<>>)
      BY <1>8, <1>12 DEF AddByte
  <2> QED  BY <1>8, <1>11, <2>1, <2>2
<1>13. CASE byte # "\n" /\ Wraps(w)
  <2>1. screen' = ByteWritten(new_line(screen), 0, byte)
      BY <1>1, <1>13 DEF ByteWritten
  <2>2. col_pos'[w] = 0 + 1
      BY <1>1, <1>7, <1>13
  <2>3. Len(Last(Lines)) = BUFFER_WIDTH
      BY <1>10, <1>13 DEF Wraps
  <2>4. Lines' = ByteAdded(Append(Lines, <<>>), byte)
      BY <1>3, <1>8, <1>10, <1>13, <2>3, WrapAdded DEF AddByte
  <2>5. 0 < BUFFER_WIDTH
      BY <1>10
  <2>6. Shows(Lines', screen', 0 + 1)
    <3> HIDE DEF byte
    <3> QED  BY <1>3, <1>11, <2>1, <2>4, <2>5, ByteShown
  <2> QED  BY <1>8, <2>2, <2>6
<1>14. CASE byte # "\n" /\ ~Wraps(w)
  <2>1. screen' = ByteWritten(screen, col_pos[w], byte)
      BY <1>1, <1>14 DEF ByteWritten
  <2>2. col_pos'[w] = col_pos[w] + 1
      BY <1>1, <1>7, <1>14
  <2>3. col_pos[w] < BUFFER_WIDTH
      BY <1>10, <1>14 DEF Wraps
  <2>4. Lines' = ByteAdded(Lines, byte)
      BY <1>8, <1>10, <1>14, <2>3 DEF AddByte, ByteAdded
  <2>5. Shows(Lines', screen', col_pos[w] + 1)
    <3> HIDE DEF byte
    <3> QED  BY <1>3, <1>9, <2>1, <2>3, <2>4, ByteShown
  <2> QED  BY <1>8, <2>2, <2>5
<1> QED  BY <1>12, <1>13, <1>14

\* The word through the mapped page is in the log under neither WRITER's name.
LEMMA VolatileShown ==
    ASSUME IInv, write_volatile
    PROVE  ShowsInv'
<1> DEFINE e == [writer |-> "page", byte |-> New, who |-> Me.who, op |-> Me.pc]
<1>1. Me.who \in DOMAIN Program /\ Me.pc \in Nat
    BY MyPlace DEF IInv, Contexts
<1>2. e \in Entries /\ e.writer = "page"
    BY <1>1 DEF Entries
<1>3. log' = Append(log, e) /\ log \in Seq(Entries)
    BY DEF write_volatile, Log, IInv, LogInv
<1> HIDE DEF e
<1>4. \A w \in WRITERS : w # "page"
    BY DEF WRITERS
<1>5. \A w \in WRITERS : ~OnlyWriter(w)'
    BY <1>2, <1>3, <1>4, LogAppended
<1> QED  BY <1>5 DEF ShowsInv

LEMMA InitShown ==
    ASSUME Init
    PROVE  ShowsInv
<1>1. Lines = << <<>> >> /\ col_pos = [w \in WRITERS |-> 0]
    BY LinesOfNothing DEF Init, Lines
<1>2. /\ << <<>> >> \in Seq(Seq(Arguments)) /\ Len(<< <<>> >>) = 1
      /\ << <<>> >>[1] = <<>> /\ Len(<<>>) = 0
    OBVIOUS
<1>3. BUFFER_HEIGHT \in Nat /\ BUFFER_WIDTH \in Nat
    BY BufferAssumption
<1>4. ASSUME NEW r \in Rows
      PROVE  screen[r] = ShownAs(LineInRow(Lines, r))
  <2>1. LineInRow(Lines, r) = <<>>
    <3>1. r \in Nat /\ r <= BUFFER_HEIGHT
        BY <1>3 DEF Rows
    <3>2. 1 - (BUFFER_HEIGHT - r) > 0 => 1 - (BUFFER_HEIGHT - r) = 1
        BY <1>3, <3>1
    <3> QED  BY <1>1, <1>2, <3>2 DEF LineInRow
  <2>2. ShownAs(<<>>) = clear_row
      BY DEF ShownAs, clear_row
  <2> QED  BY <2>1, <2>2 DEF Init
<1>5. DOMAIN screen = Rows
    BY DEF Init
<1>6. \A i \in 1 .. 1 : i = 1
    OBVIOUS
<1>7. 0 <= BUFFER_WIDTH
    BY <1>3
<1>8. ASSUME NEW w \in WRITERS
      PROVE  Shows(Lines, screen, col_pos[w])
  <2>1. col_pos[w] = 0
      BY <1>1
  <2>2. Len(Last(Lines)) = 0
      BY <1>1, <1>2 DEF Last
  <2>3. \A i \in 1 .. Len(Lines) : Len(Lines[i]) <= BUFFER_WIDTH
      BY <1>1, <1>2, <1>6, <1>7
  <2>4. Lines \in Seq(Seq(Arguments)) /\ Len(Lines) > 0
      BY <1>1, <1>2
  <2> QED  BY <1>4, <1>5, <2>1, <2>2, <2>3, <2>4 DEF Shows
<1> QED  BY <1>8 DEF ShowsInv

\* However lines wrap, and whatever interrupts what, the buffer of a single WRITER
\* shows the last lines of what it wrote, and its column is the end of them.
THEOREM ScreenIsLog == Spec => []ScreenShowsLog
<1>1. Init => ShowsInv
    BY InitShown
<1>2. IInv /\ ShowsInv /\ [Next]_vars => ShowsInv'
  <2> SUFFICES ASSUME IInv, ShowsInv, [Next]_vars PROVE ShowsInv'
      OBVIOUS
  <2>1. CASE write_byte
      BY <2>1, WriteShown
  <2>2. CASE write_volatile
      BY <2>2, VolatileShown
  <2>3. CASE UNCHANGED console
      BY <2>3 DEF ShowsInv, OnlyWriter, Lines, Shows, LineInRow, ShownAs, console
  <2>4. CASE Kernel
      BY <2>1, <2>2, <2>3, <2>4 DEF Kernel, lock, unlock, disable, enable, send, assert, panics,
             exit, allocate, overflow, int3, iret, initialize, eoi, read60, devices
  <2> QED  BY <2>3, <2>4 DEF Next, hlt, Interrupt, Tick, KeyPresented, vars, console
<1>3. ShowsInv => ScreenShowsLog
  <2> SUFFICES ASSUME ShowsInv, OneWriter PROVE ScreenShowsLog
      BY DEF ScreenShowsLog
  <2>1. PICK w \in WRITERS : OnlyWriter(w)
      BY DEF OneWriter, OnlyWriter
  <2>2. Shows(Lines, screen, col_pos[w])
      BY <2>1 DEF ShowsInv
  <2>3. \A r \in Rows : screen[r] = ShownAs(LineInRow(Lines, r))
      BY <2>2 DEF Shows
  <2>4. \A i \in DOMAIN log : col_pos[log[i].writer] = Len(Last(Lines))
      BY <2>1, <2>2 DEF Shows, OnlyWriter
  <2> QED  BY <2>3, <2>4 DEF ScreenShowsLog, ShownAs
<1> QED  BY <1>1, <1>2, <1>3, Invariant, PTL DEF Spec

-----------------------------------------------------------------------------
(***************************************************************************)
(* Two WRITERs and the page on one buffer.  The roll is computed as the    *)
(* lines were: on 1 .. n the function gives the roll of n entries.         *)
(***************************************************************************)
RollOver(l, s, g) ==
    IF s = {} THEN NewRoll ELSE Onto(g[s \ {Max(s)}], l[Max(s)])
RollFn(l, g) == g = [s \in SUBSET DOMAIN l |-> RollOver(l, s, g)]

\* Such a function exists: one that is right for the sets of up to n indices gives
\* one that is right for those of n + 1.
LEMMA RollFnExists ==
    ASSUME NEW l \in Seq(Entries)
    PROVE  \E g : RollFn(l, g)
<1> DEFINE S == DOMAIN l
           Upto(n, g) == \A s \in SUBSET S : Cardinality(s) <= n => g[s] = RollOver(l, s, g)
           Missing == {n \in Nat : ~ \E g : Upto(n, g)}
<1>1. S = 1 .. Len(l) /\ Len(l) \in Nat
    BY LenProperties
<1>2. IsFiniteSet(S) /\ Cardinality(S) \in Nat
    BY <1>1, FS_Interval, FS_CardinalityType
<1>3. \A s \in SUBSET S : IsFiniteSet(s) /\ Cardinality(s) \in Nat
    BY <1>2, FS_Subset, FS_CardinalityType
<1>4. Upto(0, [s \in SUBSET S |-> NewRoll])
  <2> SUFFICES ASSUME NEW s \in SUBSET S, Cardinality(s) <= 0
               PROVE  s = {}
      BY DEF RollOver
  <2> QED  BY <1>3, FS_EmptySet
<1>5. ASSUME NEW n \in Nat, NEW g, Upto(n, g)
      PROVE  \E h : Upto(n + 1, h)
  <2> DEFINE h == [s \in SUBSET S |-> IF Cardinality(s) <= n THEN g[s] ELSE RollOver(l, s, g)]
  <2>1. \A s \in SUBSET S : h[s] = RollOver(l, s, g)
      BY <1>5
  <2>2. ASSUME NEW s \in SUBSET S, Cardinality(s) <= n + 1
        PROVE  h[s] = RollOver(l, s, h)
    <3>1. CASE s = {}
        BY <2>1, <3>1 DEF RollOver
    <3>2. CASE s # {}
      <4> DEFINE t == s \ {Max(s)}
      <4>1. Max(s) \in s
          BY <1>1, <3>2, Highest
      <4>2. t \in SUBSET S /\ Cardinality(t) = Cardinality(s) - 1
          BY <1>3, <4>1, FS_RemoveElement
      <4>3. Cardinality(t) <= n
          BY <1>3, <2>2, <4>2
      <4>4. h[t] = g[t]
          BY <4>2, <4>3
      <4> QED  BY <2>1, <3>2, <4>4 DEF RollOver
    <3> QED  BY <3>1, <3>2
  <2>3. Upto(n + 1, h)
      BY <2>2
  <2> QED  BY <2>3
<1>6. Missing = {}
  <2> SUFFICES ASSUME Missing # {} PROVE FALSE
      OBVIOUS
  <2>1. PICK m \in Missing : \A k \in Missing : m <= k
      BY LeastNat
  <2>2. m # 0
      BY <1>4
  <2>3. m \in Nat /\ m - 1 \in Nat /\ m - 1 \notin Missing
    <3>1. m \in Nat
        OBVIOUS
    <3> HIDE DEF Missing
    <3> QED  BY <2>1, <2>2, <3>1
  <2>4. PICK g : Upto(m - 1, g)
      BY <2>3
  <2>5. \E h : Upto(m, h)
    <3> HIDE DEF Upto
    <3>1. \E h : Upto((m - 1) + 1, h)
        BY <1>5, <2>3, <2>4
    <3>2. (m - 1) + 1 = m
        BY <2>3
    <3> QED  BY <3>1, <3>2
  <2> QED  BY <2>5
<1>7. PICK g : Upto(Cardinality(S), g)
    BY <1>2, <1>6
<1>8. \A s \in SUBSET S : g[s] = RollOver(l, s, g)
    BY <1>2, <1>7, FS_Subset
<1> DEFINE h == [s \in SUBSET S |-> g[s]]
<1>9. ASSUME NEW s \in SUBSET S
      PROVE  h[s] = RollOver(l, s, h)
    BY <1>8 DEF RollOver
<1>10. RollFn(l, h)
    BY <1>9 DEF RollFn
<1> QED  BY <1>10

LEMMA RollOfDef ==
    ASSUME NEW l \in Seq(Entries)
    PROVE  \E g : RollFn(l, g) /\ RollOf(l) = g[DOMAIN l]
<1> DEFINE G == CHOOSE g : RollFn(l, g)
<1>1. RollOf(l) = G[DOMAIN l]
    BY DEF RollOf, FoldLeft, MapThenFoldSet, RollFn, RollOver
<1>2. RollFn(l, G)
    BY RollFnExists
<1> QED  BY <1>1, <1>2

\* On the first k indices the function puts the k-th entry onto the roll last.
LEMMA RollPrefix ==
    ASSUME NEW l \in Seq(Entries), NEW g, RollFn(l, g)
    PROVE  /\ g[1 .. 0] = NewRoll
           /\ \A k \in 1 .. Len(l) : g[1 .. k] = Onto(g[1 .. k - 1], l[k])
<1>1. DOMAIN l = 1 .. Len(l) /\ Len(l) \in Nat
    BY LenProperties
<1>2. \A s \in SUBSET (1 .. Len(l)) : g[s] = RollOver(l, s, g)
    BY <1>1 DEF RollFn
<1>3. 1 .. 0 = {}
    OBVIOUS
<1>4. ASSUME NEW k \in 1 .. Len(l)
      PROVE  g[1 .. k] = Onto(g[1 .. k - 1], l[k])
  <2>1. /\ 1 .. k \in SUBSET (1 .. Len(l)) /\ k \in 1 .. k
        /\ k \in Nat
      BY <1>1
  <2>2. Max(1 .. k) \in 1 .. k /\ \A y \in 1 .. k : y <= Max(1 .. k)
      BY <2>1, Highest
  <2>3. Max(1 .. k) = k
    <3>1. k <= Max(1 .. k)
        BY <2>1, <2>2
    <3> QED  BY <2>1, <2>2, <3>1
  <2>4. (1 .. k) \ {k} = 1 .. k - 1
      BY <2>1
  <2> QED  BY <1>2, <2>1, <2>3, <2>4 DEF RollOver
<1> QED  BY <1>2, <1>3, <1>4 DEF RollOver

LEMMA RollOfNothing == RollOf(<<>>) = NewRoll
<1>1. <<>> \in Seq(Entries) /\ DOMAIN <<>> = 1 .. 0
    OBVIOUS
<1>2. PICK g : RollFn(<<>>, g) /\ RollOf(<<>>) = g[DOMAIN <<>>]
    BY <1>1, RollOfDef
<1> QED  BY <1>1, <1>2, RollPrefix

\* What is written next goes onto the roll there is.
LEMMA RollOfMore ==
    ASSUME NEW l \in Seq(Entries), NEW e \in Entries
    PROVE  RollOf(Append(l, e)) = Onto(RollOf(l), e)
<1> DEFINE m == Append(l, e)
           n == Len(l)
<1>1. /\ m \in Seq(Entries) /\ Len(m) = n + 1 /\ n \in Nat /\ m[n + 1] = e
      /\ \A k \in 1 .. n : m[k] = l[k]
      /\ DOMAIN l = 1 .. n /\ DOMAIN m = 1 .. n + 1
    BY AppendProperties, LenProperties
<1> HIDE DEF m
<1>2. PICK g : RollFn(l, g) /\ RollOf(l) = g[DOMAIN l]
    BY RollOfDef
<1>3. PICK h : RollFn(m, h) /\ RollOf(m) = h[DOMAIN m]
    BY <1>1, RollOfDef
<1>4. /\ g[1 .. 0] = NewRoll /\ h[1 .. 0] = NewRoll
      /\ \A k \in 1 .. n : g[1 .. k] = Onto(g[1 .. k - 1], l[k])
      /\ \A k \in 1 .. n + 1 : h[1 .. k] = Onto(h[1 .. k - 1], m[k])
  <2>1. /\ g[1 .. 0] = NewRoll
        /\ \A k \in 1 .. n : g[1 .. k] = Onto(g[1 .. k - 1], l[k])
      BY <1>2, RollPrefix
  <2> HIDE DEF n
  <2>2. /\ h[1 .. 0] = NewRoll
        /\ \A k \in 1 .. Len(m) : h[1 .. k] = Onto(h[1 .. k - 1], m[k])
      BY <1>1, <1>3, RollPrefix
  <2> QED  BY <1>1, <2>1, <2>2
<1> DEFINE Differ == {k \in 0 .. n : g[1 .. k] # h[1 .. k]}
<1>5. Differ = {}
  <2> SUFFICES ASSUME Differ # {} PROVE FALSE
      OBVIOUS
  <2>1. PICK k \in Differ : \A j \in Differ : k <= j
    <3>1. Differ \in SUBSET Nat
        BY <1>1
    <3> HIDE DEF Differ
    <3> QED  BY <3>1, LeastNat
  <2>2. k \in 1 .. n /\ k \in 1 .. n + 1 /\ k - 1 \in 0 .. n
    <3>1. k \in 0 .. n /\ g[1 .. k] # h[1 .. k]
        OBVIOUS
    <3> HIDE DEF Differ, n
    <3>2. k # 0
        BY <1>4, <3>1
    <3> QED  BY <1>1, <3>1, <3>2
  <2>3. k - 1 \notin Differ
    <3>1. ~(k <= k - 1)
        BY <2>2
    <3> HIDE DEF Differ
    <3> QED  BY <2>1, <3>1
  <2>4. g[1 .. k - 1] = h[1 .. k - 1]
      BY <2>2, <2>3
  <2>5. g[1 .. k] = h[1 .. k]
      BY <1>1, <1>4, <2>2, <2>4
  <2> QED  BY <2>5
<1>6. g[1 .. n] = h[1 .. n]
    BY <1>1, <1>5
<1>7. n + 1 \in 1 .. n + 1 /\ (n + 1) - 1 = n
    BY <1>1
<1>8. h[1 .. n + 1] = Onto(h[1 .. n], m[n + 1])
    BY <1>4, <1>7
<1> QED  BY <1>1, <1>2, <1>3, <1>6, <1>8 DEF m

Cells == Arguments \cup {Blank} \cup {New[i] : i \in DOMAIN New}
RowsOf == [Cols -> Cells]

\* The buffer is the end of the roll, and each column is where that WRITER's own
\* lines end.
Lies(roll, s, col) ==
    /\ roll \in [rows : Seq(RowsOf), lines : [WRITERS -> Seq(Seq(Arguments))]]
    /\ Len(roll.rows) >= BUFFER_HEIGHT
    /\ DOMAIN s = Rows
    /\ \A r \in Rows : s[r] = roll.rows[Len(roll.rows) - BUFFER_HEIGHT + r]
    /\ \A w \in WRITERS : Len(roll.lines[w]) > 0 /\ Len(Last(roll.lines[w])) = col[w]
RollInv == Lies(Roll, screen, col_pos)

\* The end of a sequence of rows.
EndsIn(rows, s) ==
    /\ rows \in Seq(RowsOf) /\ Len(rows) >= BUFFER_HEIGHT /\ DOMAIN s = Rows
    /\ \A r \in Rows : s[r] = rows[Len(rows) - BUFFER_HEIGHT + r]

LEMMA Measures ==
    /\ BUFFER_HEIGHT \in Nat /\ BUFFER_HEIGHT > 1 /\ BUFFER_WIDTH \in Nat /\ BUFFER_WIDTH > 1
    /\ BUFFER_HEIGHT \in Rows /\ NewRow \in Rows
    /\ \A r \in Rows : r \in Nat /\ r > 0 /\ r <= BUFFER_HEIGHT
    /\ \A c \in Cols : c \in Nat /\ c < BUFFER_WIDTH
    /\ EmptyRow \in RowsOf /\ EmptyRow = clear_row
<1>1. /\ BUFFER_HEIGHT \in Nat /\ BUFFER_HEIGHT > 1 /\ BUFFER_WIDTH \in Nat /\ BUFFER_WIDTH > 1
      /\ NewRow \in 1 .. BUFFER_HEIGHT - 1
  BY BufferAssumption
<1>2. BUFFER_HEIGHT \in Rows /\ NewRow \in Rows
  BY <1>1 DEF Rows
<1>3. /\ \A r \in Rows : r \in Nat /\ r > 0 /\ r <= BUFFER_HEIGHT
      /\ \A c \in Cols : c \in Nat /\ c < BUFFER_WIDTH
  BY <1>1 DEF Rows, Cols
<1>4. EmptyRow \in RowsOf /\ EmptyRow = clear_row
  BY DEF EmptyRow, RowsOf, Cells, clear_row
<1> QED  BY <1>1, <1>2, <1>3, <1>4

\* new_line is an empty row more.
LEMMA RowAdded ==
    ASSUME NEW rows, NEW s, EndsIn(rows, s)
    PROVE  EndsIn(Append(rows, EmptyRow), new_line(s))
<1> DEFINE n == Len(rows)
           more == Append(rows, EmptyRow)
<1>1. rows \in Seq(RowsOf) /\ n \in Nat /\ n >= BUFFER_HEIGHT
    BY LenProperties DEF EndsIn
<1>2. /\ more \in Seq(RowsOf) /\ Len(more) = n + 1 /\ more[n + 1] = EmptyRow
      /\ \A i \in 1 .. n : more[i] = rows[i]
    BY <1>1, Measures, AppendProperties
<1> HIDE DEF more
<1>3. ASSUME NEW r \in Rows
      PROVE  new_line(s)[r] = more[Len(more) - BUFFER_HEIGHT + r]
  <2>1. r \in Nat /\ r > 0 /\ r <= BUFFER_HEIGHT /\ BUFFER_HEIGHT \in Nat
      BY Measures
  <2>2. CASE r = BUFFER_HEIGHT
    <3>1. Len(more) - BUFFER_HEIGHT + r = n + 1
        BY <1>1, <1>2, <2>1, <2>2
    <3> QED  BY <1>2, <2>2, <3>1, Measures DEF new_line
  <2>3. CASE r # BUFFER_HEIGHT
    <3>1. /\ Len(more) - BUFFER_HEIGHT + r = n - BUFFER_HEIGHT + (r + 1)
          /\ n - BUFFER_HEIGHT + (r + 1) \in 1 .. n
        BY <1>1, <1>2, <2>1, <2>3
    <3>2. r + 1 \in Rows
        BY <2>1, <2>3 DEF Rows
    <3>3. new_line(s)[r] = s[r + 1]
        BY <2>3 DEF new_line
    <3>4. s[r + 1] = rows[n - BUFFER_HEIGHT + (r + 1)]
        BY <3>2 DEF EndsIn
    <3> QED  BY <1>2, <3>1, <3>3, <3>4
  <2> QED  BY <2>2, <2>3
<1>4. DOMAIN new_line(s) = Rows
    BY DEF new_line
<1>5. Len(more) >= BUFFER_HEIGHT
    BY <1>1, <1>2, Measures
<1>6. EndsIn(more, new_line(s))
    BY <1>2, <1>3, <1>4, <1>5 DEF EndsIn
<1> QED  BY <1>6 DEF more

\* A row written over on the screen is one written over on the roll.
LEMMA RowReplaced ==
    ASSUME NEW rows, NEW s, EndsIn(rows, s), NEW q \in Rows, NEW row \in RowsOf
    PROVE  EndsIn([rows EXCEPT ![Len(rows) - BUFFER_HEIGHT + q] = row], [s EXCEPT ![q] = row])
<1> DEFINE n == Len(rows)
           i == n - BUFFER_HEIGHT + q
           more == [rows EXCEPT ![i] = row]
           t == [s EXCEPT ![q] = row]
<1>1. /\ rows \in Seq(RowsOf) /\ n \in Nat /\ n >= BUFFER_HEIGHT
      /\ BUFFER_HEIGHT \in Nat /\ q \in Nat /\ q > 0 /\ q <= BUFFER_HEIGHT
    BY LenProperties, Measures DEF EndsIn
<1>2. i \in 1 .. n
    BY <1>1
<1>3. /\ more \in Seq(RowsOf) /\ Len(more) = n
      /\ \A j \in 1 .. n : more[j] = IF j = i THEN row ELSE rows[j]
  <2> HIDE DEF i
  <2> QED  BY <1>1, <1>2, ExceptSeq
<1>4. DOMAIN t = Rows /\ \A r \in Rows : t[r] = IF r = q THEN row ELSE s[r]
    BY DEF EndsIn
<1> HIDE DEF more, t
<1>5. ASSUME NEW r \in Rows
      PROVE  t[r] = more[Len(more) - BUFFER_HEIGHT + r]
  <2>1. r \in Nat /\ r > 0 /\ r <= BUFFER_HEIGHT
      BY Measures
  <2>2. n - BUFFER_HEIGHT + r \in 1 .. n /\ (n - BUFFER_HEIGHT + r = i <=> r = q)
      BY <1>1, <2>1
  <2>3. s[r] = rows[n - BUFFER_HEIGHT + r]
      BY DEF EndsIn
  <2> HIDE DEF i
  <2> QED  BY <1>3, <1>4, <2>2, <2>3
<1>6. EndsIn(more, t)
    BY <1>1, <1>3, <1>4, <1>5 DEF EndsIn
<1> QED  BY <1>6 DEF more, t, i

\* One byte more: the lines, and where the last of them ends.
LEMMA BytesLine ==
    ASSUME NEW lines \in Seq(Seq(Arguments)), Len(lines) > 0, NEW byte \in Arguments
    PROVE  LET after == AddByte(lines, byte)
               col == Len(Last(lines))
           IN  /\ col \in Nat /\ after \in Seq(Seq(Arguments)) /\ Len(after) > 0
               /\ Len(lines) \in Nat
               /\ byte = "\n" => Len(after) = Len(lines) + 1 /\ Len(Last(after)) = 0
               /\ byte # "\n" /\ col = BUFFER_WIDTH =>
                      Len(after) = Len(lines) + 1 /\ Len(Last(after)) = 1
               /\ byte # "\n" /\ col # BUFFER_WIDTH =>
                      Len(after) = Len(lines) /\ Len(Last(after)) = col + 1
<1> DEFINE n == Len(lines)
           last == lines[n]
           after == AddByte(lines, byte)
<1>1. n \in Nat /\ n > 0 /\ n \in 1 .. n
    BY LenProperties
<1>2. last \in Seq(Arguments) /\ Last(lines) = last /\ Len(last) \in Nat
  <2>1. last \in Seq(Arguments)
    <3> HIDE DEF n
    <3> QED  BY <1>1, ElementOfSeq DEF n
  <2>2. Last(lines) = last
      BY DEF Last
  <2> HIDE DEF last
  <2> QED  BY <2>1, <2>2, LenProperties
<1>3. CASE byte = "\n"
  <2>1. after = Append(lines, <<>>)
      BY <1>3 DEF AddByte
  <2>2. <<>> \in Seq(Arguments) /\ Len(<<>>) = 0
      OBVIOUS
  <2>3. after \in Seq(Seq(Arguments)) /\ Len(after) = n + 1 /\ after[n + 1] = <<>>
      BY <2>1, <2>2, AppendProperties
  <2>4. Last(after) = <<>>
      BY <2>3 DEF Last
  <2> HIDE DEF after
  <2> QED  BY <1>1, <1>2, <1>3, <2>2, <2>3, <2>4 DEF after
<1>4. CASE byte # "\n" /\ Len(last) = BUFFER_WIDTH
  <2>1. after = Append(lines, <<byte>>)
      BY <1>2, <1>4 DEF AddByte
  <2>2. <<byte>> \in Seq(Arguments) /\ Len(<<byte>>) = 1
      OBVIOUS
  <2>3. after \in Seq(Seq(Arguments)) /\ Len(after) = n + 1 /\ after[n + 1] = <<byte>>
      BY <2>1, <2>2, AppendProperties
  <2>4. Last(after) = <<byte>>
      BY <2>3 DEF Last
  <2> HIDE DEF after
  <2> QED  BY <1>1, <1>2, <1>4, <2>2, <2>3, <2>4 DEF after
<1>5. CASE byte # "\n" /\ Len(last) # BUFFER_WIDTH
  <2>1. after = [lines EXCEPT ![n] = Append(last, byte)]
      BY <1>2, <1>5 DEF AddByte
  <2>2. Append(last, byte) \in Seq(Arguments) /\ Len(Append(last, byte)) = Len(last) + 1
    <3> HIDE DEF last
    <3> QED  BY <1>2, AppendProperties
  <2>3. after \in Seq(Seq(Arguments)) /\ Len(after) = n /\ after[n] = Append(last, byte)
    <3> HIDE DEF last, n, after
    <3>1. n \in 1 .. Len(lines)
        BY <1>1 DEF n
    <3> QED  BY <1>1, <2>1, <2>2, <3>1, ExceptSeq DEF n
  <2>4. Last(after) = Append(last, byte)
      BY <2>3 DEF Last
  <2> HIDE DEF after, last
  <2> QED  BY <1>1, <1>2, <1>5, <2>2, <2>3, <2>4 DEF after
<1> QED  BY <1>3, <1>4, <1>5

\* A byte put into the bottom row, on the screen and on the roll.
RowWith(row, len, byte) == [c \in Cols |-> IF c + 1 = len THEN byte ELSE row[c]]

LEMMA BytePut ==
    ASSUME NEW rows, NEW s, EndsIn(rows, s), NEW byte \in Arguments,
           NEW c \in Nat, c < BUFFER_WIDTH, NEW len, len = c + 1
    PROVE  EndsIn([rows EXCEPT ![Len(rows)] = RowWith(Last(rows), len, byte)],
                  ByteWritten(s, c, byte))
<1> DEFINE n == Len(rows)
           row == RowWith(Last(rows), len, byte)
<1>1. rows \in Seq(RowsOf) /\ n \in Nat /\ n >= BUFFER_HEIGHT /\ n \in 1 .. n
    BY LenProperties, Measures DEF EndsIn
<1>2. /\ BUFFER_HEIGHT \in Rows /\ BUFFER_HEIGHT \in Nat
      /\ n - BUFFER_HEIGHT + BUFFER_HEIGHT = n /\ Last(rows) = rows[n]
    BY <1>1, Measures DEF Last
<1>3. Last(rows) = s[BUFFER_HEIGHT] /\ Last(rows) \in RowsOf
  <2>1. rows[n] \in RowsOf
    <3> HIDE DEF n
    <3> QED  BY <1>1, ElementOfSeq DEF n
  <2>2. s[BUFFER_HEIGHT] = rows[n - BUFFER_HEIGHT + BUFFER_HEIGHT]
      BY <1>2 DEF EndsIn
  <2> QED  BY <1>2, <2>1, <2>2
<1>4. row \in RowsOf
  <2>1. byte \in Cells
      BY DEF Cells
  <2>2. \A k \in Cols : Last(rows)[k] \in Cells
      BY <1>3 DEF RowsOf
  <2> QED  BY <2>1, <2>2 DEF RowWith, RowsOf
<1>5. ByteWritten(s, c, byte) = [s EXCEPT ![BUFFER_HEIGHT] = row]
  <2>1. c \in Cols /\ Cols \cup {c} = Cols
      BY Measures DEF Cols
  <2>2. \A k \in Cols : k = c <=> k + 1 = len
      BY Measures
  <2>3. [k \in Cols \cup {c} |-> IF k = c THEN byte ELSE s[BUFFER_HEIGHT][k]] = row
      BY <1>3, <2>1, <2>2 DEF RowWith
  <2> HIDE DEF row
  <2> QED  BY <2>3 DEF ByteWritten
<1> HIDE DEF row
<1>6. EndsIn([rows EXCEPT ![n - BUFFER_HEIGHT + BUFFER_HEIGHT] = row], [s EXCEPT ![BUFFER_HEIGHT] = row])
    BY <1>2, <1>4, RowReplaced
<1> QED  BY <1>2, <1>5, <1>6 DEF row

LEMMA WriteOnRoll ==
    ASSUME IInv, RollInv, write_byte
    PROVE  RollInv'
<1>1. PICK w \in WRITERS :
          /\ Doing(w) /\ Log(w, Current.arg)
          /\ LET byte == Current.arg
                 wrap == byte # "\n" /\ Wraps(w)
                 s == IF byte = "\n" \/ wrap THEN new_line(screen) ELSE screen
                 c == IF byte = "\n" \/ wrap THEN 0 ELSE col_pos[w]
             IN  IF byte = "\n"
                 THEN screen' = s /\ col_pos' = [col_pos EXCEPT ![w] = c]
                 ELSE /\ screen' = [s EXCEPT ![BUFFER_HEIGHT] =
                                        [k \in Cols \cup {c} |-> IF k = c THEN byte ELSE @[k]]]
                      /\ col_pos' = [col_pos EXCEPT ![w] = c + 1]
    BY DEF write_byte
<1> DEFINE byte == Current.arg
           e == [writer |-> w, byte |-> byte, who |-> Me.who, op |-> Me.pc]
           roll == Roll
           before == roll.lines[w]
           after == AddByte(before, byte)
           col == Len(Last(before))
           rows == IF Len(after) = Len(before) THEN roll.rows ELSE Append(roll.rows, EmptyRow)
           len == Len(Last(after))
           put == [rows EXCEPT ![Len(rows)] = RowWith(Last(rows), len, byte)]
           new == IF byte = "\n" THEN rows ELSE put
           lines == [roll.lines EXCEPT ![w] = after]
<1>2. Current.op = w /\ Current.op \in Ordinary
    BY <1>1, DoingNow DEF WRITERS, Ordinary
<1>3. byte \in Arguments
    BY <1>2, DoingAllowed DEF IInv
<1>4. Me.who \in DOMAIN Program /\ Me.pc \in Nat
    BY MyPlace DEF IInv, Contexts
<1>5. e \in Entries /\ e.writer = w /\ e.byte = byte
    BY <1>3, <1>4 DEF Entries
<1>6. log' = Append(log, e)
    BY <1>1 DEF Log
<1>7. log \in Seq(Entries) /\ col_pos \in [WRITERS -> 0 .. BUFFER_WIDTH]
    BY DEF IInv, LogInv, ScreenInv
<1>8. Roll' = Onto(roll, e)
  <2> HIDE DEF e
  <2> QED  BY <1>5, <1>6, <1>7, RollOfMore DEF Roll
<1>9. Roll' = [rows |-> new, lines |-> lines]
  <2>1. w # "page"
      BY DEF WRITERS
  <2> HIDE DEF roll, e
  <2>2. Onto(roll, e) = [rows |-> new, lines |-> lines]
      BY <1>5, <2>1 DEF Onto, RowWith
  <2> QED  BY <1>8, <2>2
<1>10. /\ roll \in [rows : Seq(RowsOf), lines : [WRITERS -> Seq(Seq(Arguments))]]
       /\ EndsIn(roll.rows, screen)
       /\ \A v \in WRITERS : Len(roll.lines[v]) > 0 /\ Len(Last(roll.lines[v])) = col_pos[v]
    BY DEF RollInv, Lies, EndsIn
<1> HIDE DEF roll
<1>11. /\ before \in Seq(Seq(Arguments)) /\ Len(before) > 0 /\ col = col_pos[w]
       /\ roll.lines \in [WRITERS -> Seq(Seq(Arguments))]
    BY <1>10
<1> HIDE DEF byte, before
<1>12. /\ col \in Nat /\ after \in Seq(Seq(Arguments)) /\ Len(after) > 0 /\ Len(before) \in Nat
       /\ byte = "\n" => Len(after) = Len(before) + 1 /\ len = 0
       /\ byte # "\n" /\ col = BUFFER_WIDTH => Len(after) = Len(before) + 1 /\ len = 1
       /\ byte # "\n" /\ col # BUFFER_WIDTH => Len(after) = Len(before) /\ len = col + 1
    BY <1>3, <1>11, BytesLine
<1>13. /\ BUFFER_WIDTH \in Nat /\ BUFFER_WIDTH > 1 /\ col <= BUFFER_WIDTH
       /\ Wraps(w) <=> col = BUFFER_WIDTH
  <2>1. BUFFER_WIDTH \in Nat /\ BUFFER_WIDTH > 1 /\ col_pos[w] \in 0 .. BUFFER_WIDTH
      BY <1>7, Measures
  <2> QED  BY <1>11, <2>1 DEF Wraps
<1> HIDE DEF after, col, len
<1>14. /\ screen' = IF byte = "\n" THEN new_line(screen)
                    ELSE IF Wraps(w) THEN ByteWritten(new_line(screen), 0, byte)
                    ELSE ByteWritten(screen, col_pos[w], byte)
       /\ col_pos' = [col_pos EXCEPT ![w] = IF byte = "\n" THEN 0 ELSE IF Wraps(w) THEN 0 + 1
                                            ELSE col_pos[w] + 1]
  <2>1. CASE byte = "\n"
      BY <1>1, <2>1 DEF byte
  <2>2. CASE byte # "\n" /\ Wraps(w)
      BY <1>1, <2>2 DEF byte, ByteWritten
  <2>3. CASE byte # "\n" /\ ~Wraps(w)
      BY <1>1, <2>3 DEF byte, ByteWritten
  <2> QED  BY <2>1, <2>2, <2>3
<1>15. EndsIn(Append(roll.rows, EmptyRow), new_line(screen))
    BY <1>10, RowAdded
<1>16. EndsIn(new, screen') /\ len = col_pos'[w]
  <2>1. CASE byte = "\n"
    <3>1. rows = Append(roll.rows, EmptyRow) /\ new = rows /\ len = 0
        BY <1>12, <2>1
    <3> HIDE DEF new, rows
    <3> QED  BY <1>7, <1>14, <1>15, <2>1, <3>1
  <2>2. CASE byte # "\n" /\ Wraps(w)
    <3>1. rows = Append(roll.rows, EmptyRow) /\ new = put /\ len = 0 + 1
        BY <1>12, <1>13, <2>2
    <3>2. 0 \in Nat /\ 0 < BUFFER_WIDTH
        BY <1>13
    <3>3. EndsIn(rows, new_line(screen))
        BY <1>15, <3>1
    <3> HIDE DEF new, rows
    <3>4. EndsIn(put, ByteWritten(new_line(screen), 0, byte))
        BY <1>3, <3>1, <3>2, <3>3, BytePut
    <3> HIDE DEF put
    <3> QED  BY <1>7, <1>14, <2>2, <3>1, <3>4
  <2>3. CASE byte # "\n" /\ ~Wraps(w)
    <3>1. rows = roll.rows /\ new = put /\ len = col + 1
        BY <1>12, <1>13, <2>3
    <3>2. col \in Nat /\ col < BUFFER_WIDTH
        BY <1>12, <1>13, <2>3
    <3>3. EndsIn(rows, screen)
        BY <1>10, <3>1
    <3> HIDE DEF new, rows
    <3>4. EndsIn(put, ByteWritten(screen, col, byte))
        BY <1>3, <3>1, <3>2, <3>3, BytePut
    <3> HIDE DEF put
    <3> QED  BY <1>7, <1>11, <1>14, <2>3, <3>1, <3>4
  <2> QED  BY <2>1, <2>2, <2>3
<1> HIDE DEF new, rows
<1>17. \A v \in WRITERS : Len(lines[v]) > 0 /\ Len(Last(lines[v])) = col_pos'[v]
  <2>1. CASE lines[w] = after
    <3>1. ASSUME NEW v \in WRITERS, v # w
          PROVE  lines[v] = roll.lines[v] /\ col_pos'[v] = col_pos[v]
        BY <1>7, <1>11, <1>14, <3>1
    <3>2. Len(Last(after)) = col_pos'[w]
        BY <1>16 DEF len
    <3> HIDE DEF lines
    <3> QED  BY <1>10, <1>12, <2>1, <3>1, <3>2
  <2> QED  BY <1>11, <2>1
<1>18. lines \in [WRITERS -> Seq(Seq(Arguments))]
    BY <1>11, <1>12
<1> HIDE DEF lines
<1>19. /\ Roll' \in [rows : Seq(RowsOf), lines : [WRITERS -> Seq(Seq(Arguments))]]
       /\ Roll'.rows = new /\ Roll'.lines = lines
    BY <1>9, <1>16, <1>18 DEF EndsIn
<1>20. Lies(Roll', screen', col_pos')
    BY <1>16, <1>17, <1>19 DEF Lies, EndsIn
<1> QED  BY <1>20 DEF RollInv, Lies

LEMMA VolatileOnRoll ==
    ASSUME IInv, RollInv, write_volatile
    PROVE  RollInv'
<1> DEFINE e == [writer |-> "page", byte |-> New, who |-> Me.who, op |-> Me.pc]
           roll == Roll
           r == Len(roll.rows) - BUFFER_HEIGHT + NewRow
           row == OnPage(roll.rows[r])
           new == [roll.rows EXCEPT ![r] = row]
<1>1. Me.who \in DOMAIN Program /\ Me.pc \in Nat
    BY MyPlace DEF IInv, Contexts
<1>2. e \in Entries /\ e.writer = "page"
    BY <1>1 DEF Entries
<1>3. log' = Append(log, e) /\ log \in Seq(Entries)
    BY DEF write_volatile, Log, IInv, LogInv
<1>4. Roll' = [rows |-> new, lines |-> roll.lines]
  <2> HIDE DEF e
  <2>1. Roll' = Onto(roll, e)
      BY <1>2, <1>3, RollOfMore DEF Roll
  <2> HIDE DEF roll
  <2>2. Onto(roll, e) = [rows |-> new, lines |-> roll.lines]
      BY <1>2 DEF Onto
  <2> QED  BY <2>1, <2>2
<1>5. /\ roll \in [rows : Seq(RowsOf), lines : [WRITERS -> Seq(Seq(Arguments))]]
      /\ EndsIn(roll.rows, screen)
      /\ \A v \in WRITERS : Len(roll.lines[v]) > 0 /\ Len(Last(roll.lines[v])) = col_pos[v]
    BY DEF RollInv, Lies, EndsIn
<1> HIDE DEF roll
<1>6. NewRow \in Rows /\ roll.rows[r] = screen[NewRow]
    BY <1>5, Measures DEF EndsIn
<1>7. screen[NewRow] \in RowsOf
  <2>1. roll.rows \in Seq(RowsOf) /\ r \in 1 .. Len(roll.rows)
    <3>1. /\ Len(roll.rows) \in Nat /\ Len(roll.rows) >= BUFFER_HEIGHT /\ BUFFER_HEIGHT \in Nat
          /\ NewRow \in Nat /\ NewRow > 0 /\ NewRow <= BUFFER_HEIGHT
        BY <1>5, <1>6, Measures, LenProperties DEF EndsIn
    <3> QED  BY <1>5, <3>1
  <2> HIDE DEF r
  <2> QED  BY <1>6, <2>1, ElementOfSeq
<1>8. row \in RowsOf
  <2>1. row = OnPage(screen[NewRow])
      BY <1>6
  <2>2. \A c \in Cols : screen[NewRow][c] \in Cells
      BY <1>7 DEF RowsOf
  <2>3. \A i \in DOMAIN New : New[i] \in Cells
      BY DEF Cells
  <2>4. OnPage(screen[NewRow]) \in RowsOf
      BY <2>2, <2>3 DEF OnPage, RowsOf
  <2> QED  BY <2>1, <2>4
<1>9. screen' = [screen EXCEPT ![NewRow] = row] /\ UNCHANGED col_pos
    BY <1>6 DEF write_volatile, OnPage
<1> HIDE DEF row
<1>10. EndsIn(new, screen')
    BY <1>5, <1>6, <1>8, <1>9, RowReplaced
<1> HIDE DEF new
<1>11. /\ Roll' \in [rows : Seq(RowsOf), lines : [WRITERS -> Seq(Seq(Arguments))]]
       /\ Roll'.rows = new /\ Roll'.lines = roll.lines
    BY <1>4, <1>5, <1>10 DEF EndsIn
<1>12. Lies(Roll', screen', col_pos')
    BY <1>5, <1>9, <1>10, <1>11 DEF Lies, EndsIn
<1> QED  BY <1>12 DEF RollInv, Lies

LEMMA InitOnRoll ==
    ASSUME Init
    PROVE  RollInv
<1>1. /\ Roll = NewRoll /\ col_pos = [w \in WRITERS |-> 0]
      /\ screen = [r \in Rows |-> clear_row]
    BY RollOfNothing DEF Init, Roll
<1>2. /\ << <<>> >> \in Seq(Seq(Arguments)) /\ Len(<< <<>> >>) = 1
      /\ << <<>> >>[1] = <<>> /\ Len(<<>>) = 0
    OBVIOUS
<1>3. Last(<< <<>> >>) = <<>>
    BY <1>2 DEF Last
<1> DEFINE rows == [r \in Rows |-> EmptyRow]
<1>4. rows \in Seq(RowsOf) /\ Len(rows) = BUFFER_HEIGHT
  <2>1. Rows = 1 .. BUFFER_HEIGHT
      BY DEF Rows
  <2> QED  BY <2>1, Measures
<1>5. \A r \in Rows : screen[r] = rows[Len(rows) - BUFFER_HEIGHT + r]
  <2> SUFFICES ASSUME NEW r \in Rows PROVE screen[r] = rows[Len(rows) - BUFFER_HEIGHT + r]
      OBVIOUS
  <2>1. Len(rows) - BUFFER_HEIGHT + r = r
    <3> HIDE DEF rows
    <3> QED  BY <1>4, Measures
  <2> QED  BY <1>1, <2>1, Measures
<1> HIDE DEF rows
<1>6. NewRoll = [rows |-> rows, lines |-> [w \in WRITERS |-> << <<>> >>]]
    BY DEF NewRoll, rows
<1>7. \A w \in WRITERS : Len(NewRoll.lines[w]) > 0 /\ Len(Last(NewRoll.lines[w])) = col_pos[w]
    BY <1>1, <1>2, <1>3, <1>6
<1>8. NewRoll \in [rows : Seq(RowsOf), lines : [WRITERS -> Seq(Seq(Arguments))]] /\ NewRoll.rows = rows
    BY <1>2, <1>4, <1>6
<1>9. DOMAIN screen = Rows /\ Len(rows) >= BUFFER_HEIGHT
    BY <1>1, <1>4, Measures
<1> HIDE DEF NewRoll
<1> QED  BY <1>1, <1>5, <1>7, <1>8, <1>9 DEF RollInv, Lies

\* Two WRITERs with a column each, and the mapped page, on a buffer of any size: at
\* every moment, handlers and panics included, it is what their bytes leave when each
\* stands where its own WRITER's lines put it and the later covers the earlier
\* (vga_buffer.rs: Writer; main.rs: the second `mod vga_buffer`).
THEOREM ScreenIsRoll == Spec => []WritersOverlaid
<1>1. Init => RollInv
    BY InitOnRoll
<1>2. IInv /\ RollInv /\ [Next]_vars => RollInv'
  <2> SUFFICES ASSUME IInv, RollInv, [Next]_vars PROVE RollInv'
      OBVIOUS
  <2>1. CASE write_byte
      BY <2>1, WriteOnRoll
  <2>2. CASE write_volatile
      BY <2>2, VolatileOnRoll
  <2>3. CASE UNCHANGED console
      BY <2>3 DEF RollInv, Lies, Roll, console
  <2>4. CASE Kernel
      BY <2>1, <2>2, <2>3, <2>4 DEF Kernel, lock, unlock, disable, enable, send, assert, panics,
             exit, allocate, overflow, int3, iret, initialize, eoi, read60, devices
  <2> QED  BY <2>3, <2>4 DEF Next, hlt, Interrupt, Tick, KeyPresented, vars, console
<1>3. RollInv => WritersOverlaid
    BY DEF RollInv, Lies, WritersOverlaid
<1> QED  BY <1>1, <1>2, <1>3, Invariant, PTL DEF Spec

=============================================================================
