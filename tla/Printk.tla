-------------------------------- MODULE Printk --------------------------------
(***************************************************************************)
(* cOS/kernel/src/printk.c: color_printk, putchar, dump_bin and dump_hex,  *)
(* their one format buffer __buf and their one cursor Pos, none of them    *)
(* locked.                                                                 *)
(*                                                                         *)
(* An exception or NMI handler of trap.c prints and then loops for ever;   *)
(* do_IRQ prints and returns when debug.h sets INTERRUPT_DEBUG.  Either may *)
(* come between any two accesses a print makes to __buf and Pos, so a step *)
(* is one of those.  The accesses left to make for the character at hand   *)
(* are `todo`; the tests among them replace themselves by what they lead to. *)
(***************************************************************************)
EXTENDS PrintkFormat, FiniteSets

CONSTANTS
    XResolution, YResolution, XCharSize, YCharSize,
    TabStop,            \* 8
    Mapped,             \* pixels of video memory that head.sx maps
    BufSize,            \* of __buf, 4096
    Scripts,            \* what the kernel itself prints, see below
    HandlerCalls,       \* what a handler prints
    INTERRUPT_DEBUG

\* The rectangle of whole characters.
XChars == XResolution \div XCharSize
YChars == YResolution \div YCharSize

ASSUME ScreenAssumption ==
    /\ XResolution \in Nat /\ YResolution \in Nat /\ Mapped \in Nat /\ BufSize \in Nat
    /\ XCharSize \in Nat \ {0} /\ YCharSize \in Nat \ {0}
    /\ XChars \in Nat \ {0} /\ YChars \in Nat \ {0} /\ TabStop \in Nat \ {0}

BS == "BS"       \* the character '\b'
BinaryText(i) ==
    <<"0", "b">> \o [k \in 1 .. LongBits |-> DigitChars[1 + (((i % Pow2[LongBits]) \div Pow2[LongBits - k]) % 2)]]
HexFormat(i) ==      \* "%#016x": an int32, although i is a uint64
    <<[conv |-> "x", flags |-> {"SPECIAL", "ZEROPAD"}, width |-> 16, precision |-> None,
       long |-> FALSE, num |-> i]>>

\* A call is [fmt |-> f] for color_printk, [ch |-> c] for putchar, [bin |-> i]
\* and [hex |-> i] for the dumps.
Buffered(call) == {"fmt", "hex"} \cap DOMAIN call # {}
Text(call) ==
    CASE "fmt" \in DOMAIN call -> __vsprintf(call.fmt)
      [] "hex" \in DOMAIN call -> __vsprintf(HexFormat(call.hex))
      [] "bin" \in DOMAIN call -> BinaryText(call.bin)
      [] "ch" \in DOMAIN call -> <<call.ch>>

Prints == HandlerCalls \cup UNION {ToSet(s.prints) : s \in Scripts}

Calls == [fmt : Seq(Items)] \cup [hex : Int] \cup [bin : Int] \cup [ch : Chars]

\* color_printk of one number and nothing else.
OneNumber(call) ==
    "fmt" \in DOMAIN call /\ Len(call.fmt) = 1 /\ "num" \in DOMAIN call.fmt[1]

ASSUME CallAssumption ==
    /\ Prints \subseteq Calls
    /\ \A call \in Prints : OneNumber(call) => ArgumentFits(Plain(call.fmt[1]))

\* A script is what the kernel prints, where the cursor is when it begins, and
\* whether handlers can come in between.
ASSUME ScriptAssumption ==
    Scripts \subseteq [prints : Seq(Prints), x : 0 .. XChars - 1, y : 0 .. YChars - 1,
                       handlers : BOOLEAN]

VARIABLES
    script,     \* what the kernel has still to print
    handled,    \* the handlers that came
    calls,      \* the prints in progress, innermost last
    buf,        \* __buf
    Pos,        \* XPosition and YPosition
    fault,      \* "glyph": drawn outside the mapped video memory; "buffer": stored
                \* past the end of __buf; or "none"
    strayed     \* history: what led the cursor to where no test brings it back in time
                \*   "home": a '\b' in the first cell, which counts the last row in pixels
                \*   "edge": a print began while another's '\b' had X or Y at -1
                \*   "tab": a tab found the cursor beyond the stop it had computed

vars == <<script, handled, calls, buf, Pos, fault, strayed>>

Depth == Len(calls)
Me == calls[Depth]

\* text: what it is to print; n: characters stored in __buf, then count; reg: a
\* register; shown: history, what it drew; over: history, the prints that began
\* during this one, with how much of it was shown and stored then.
Frame(who, call) ==
    [who |-> who, call |-> call, text |-> Text(call),
     pc |-> IF Buffered(call) THEN "format" ELSE "print",
     n |-> 0, todo |-> <<>>, reg |-> 0, tab_cnt |-> 0, ch |-> NUL, shown |-> <<>>, over |-> {}]

StoredIn(f) == IF f.pc = "format" THEN f.n ELSE Len(f.text)
Covered(f, call) ==
    [f EXCEPT !.over = @ \cup {[call |-> call, shown |-> Len(f.shown), stored |-> StoredIn(f)]}]

Update(f) == calls' = [calls EXCEPT ![Depth] = f]
At(pc) == calls # <<>> /\ fault = "none" /\ Me.pc = pc

-----------------------------------------------------------------------------
(***************************************************************************)
(* Beginning a print.                                                      *)
(***************************************************************************)
Call ==
    /\ calls = <<>> /\ script.prints # <<>>
    /\ calls' = <<Frame("kernel", Head(script.prints))>>
    /\ script' = [script EXCEPT !.prints = Tail(@)]
    /\ UNCHANGED <<handled, buf, Pos, fault, strayed>>

\* Each handler once: exceptions in handlers are left out, and IRQ gates clear IF.
Handler(who) ==
    /\ script.handlers /\ fault = "none" /\ who \notin handled
    /\ who = "IRQ" => INTERRUPT_DEBUG
    /\ handled' = handled \cup {who}
    /\ \E call \in HandlerCalls :
           calls' = Append([i \in DOMAIN calls |-> Covered(calls[i], call)], Frame(who, call))
    /\ strayed' = strayed \cup (IF Pos.x < 0 \/ Pos.y < 0 THEN {"edge"} ELSE {})
    /\ UNCHANGED <<script, buf, Pos, fault>>

-----------------------------------------------------------------------------
(***************************************************************************)
(* color_printk: __vsprintf fills __buf, then its characters are printed.  *)
(***************************************************************************)
\* The count of characters to print, str - __buf.
Printed_UpToNul(f) ==
    IF Buffered(f.call) THEN Cardinality({k \in DOMAIN buf : \A j \in 1 .. k : buf[j] # NUL})
    ELSE Len(f.text)
Printed_WithNul(f) == Len(f.text) + (IF Buffered(f.call) THEN 1 ELSE 0)
Printed(f) == Len(f.text)

\* __vsprintf is not told how long __buf is; past its end lie other variables, and
\* what becomes of them is not modelled.
Overrun == Me.n >= BufSize
Format ==
    /\ At("format")
    /\ IF Overrun THEN fault' = "buffer" /\ UNCHANGED <<calls, buf>>
       ELSE LET n == Me.n + 1
                atEnd == n > Len(Me.text)
                c == IF atEnd THEN NUL ELSE Me.text[n]
            IN  /\ buf' = [k \in DOMAIN buf \cup {n} |-> IF k = n THEN c ELSE buf[k]]
                /\ Update(IF atEnd THEN [Me EXCEPT !.pc = "print", !.n = 0] ELSE [Me EXCEPT !.n = n])
                /\ UNCHANGED fault
    /\ UNCHANGED <<script, handled, Pos, strayed>>

\* The arguments of __putchar are evaluated from the last to the first: Y, then X.
Glyph == <<"loadY", "draw">>

NextChar ==
    /\ At("print") /\ Me.todo = <<>> /\ Me.n < Printed(Me)
    /\ LET n == Me.n + 1
           c == IF Buffered(Me.call) THEN buf[n] ELSE Me.text[n]
           wrap == <<"testX", "testY">>
       IN  Update([Me EXCEPT
               !.n = n, !.shown = Append(@, c),
               !.ch = IF c \in {BS, "\t"} THEN " " ELSE c,
               !.todo = CASE c = "\n" -> <<"loadY", "incY", "zeroX">> \o wrap
                          [] c = BS -> <<"loadX", "decX", "testLeft">> \o Glyph \o wrap
                          [] c = "\t" -> <<"loadX", "tab", "turn">> \o wrap
                          [] OTHER -> Glyph \o <<"loadX", "incX">> \o wrap])
    /\ UNCHANGED <<script, handled, buf, Pos, fault, strayed>>

\* The handlers of trap.c loop where the print returns to.
Return ==
    /\ At("print") /\ Me.todo = <<>> /\ Me.n >= Printed(Me)
    /\ IF Me.who = "trap" THEN Update([Me EXCEPT !.pc = "loop"])
       ELSE calls' = SubSeq(calls, 1, Depth - 1)
    /\ UNCHANGED <<script, handled, buf, Pos, fault, strayed>>

-----------------------------------------------------------------------------
(***************************************************************************)
(* __print_char.                                                           *)
(***************************************************************************)
Todo(op) == At("print") /\ Me.todo # <<>> /\ Head(Me.todo) = op
Go(ops, reg, cnt) == Update([Me EXCEPT !.todo = ops \o Tail(@), !.reg = reg, !.tab_cnt = cnt])
Then(ops, reg) == Go(ops, reg, Me.tab_cnt)
Done == Then(<<>>, Me.reg)

\* __putchar: the glyph's pixels, counted from the frame buffer's first.
FirstPixel(x, y) == XResolution * (y * YCharSize) + x * XCharSize
LastPixel(x, y) == FirstPixel(x, y + 1) - XResolution + XCharSize - 1

Draw ==
    /\ Todo("draw") /\ Done
    /\ fault' = IF FirstPixel(Pos.x, Me.reg) < 0 \/ LastPixel(Pos.x, Me.reg) >= Mapped
                THEN "glyph" ELSE "none"
    /\ UNCHANGED <<script, handled, buf, Pos, strayed>>

\* tab_cnt = ((X + 8) & ~(8 - 1)) - X, which reads X twice.
NextStop(x) == ((x + TabStop) \div TabStop) * TabStop
Tab ==
    /\ Todo("tab")
    /\ LET tab_cnt == NextStop(Me.reg) - Pos.x
       IN  /\ Go(<<>>, 0, tab_cnt)
           /\ strayed' = strayed \cup (IF tab_cnt < 0 THEN {"tab"} ELSE {})
    /\ UNCHANGED <<script, handled, buf, Pos, fault>>

\* while (tab_cnt--): a negative count goes on for 2^32 turns.
Turn ==
    /\ Todo("turn")
    /\ IF Me.tab_cnt = 0 THEN Done
       ELSE Go(Glyph \o <<"loadX", "incX", "turn">>, Me.reg, Me.tab_cnt - 1)
    /\ UNCHANGED <<script, handled, buf, Pos, fault, strayed>>

\* X++, X--, Y++ and Y-- are a load and a store.
Load ==
    /\ \/ Todo("loadX") /\ Then(<<>>, Pos.x)
       \/ Todo("loadY") /\ Then(<<>>, Pos.y)
    /\ UNCHANGED <<script, handled, buf, Pos, fault, strayed>>

\* The last column and row are given in pixels, not characters.
LastX == (XChars - 1) * XCharSize
LastY == (YChars - 1) * YCharSize

Store ==
    /\ \/ Todo("incX") /\ Pos' = [Pos EXCEPT !.x = Me.reg + 1]
       \/ Todo("decX") /\ Pos' = [Pos EXCEPT !.x = Me.reg - 1]
       \/ Todo("incY") /\ Pos' = [Pos EXCEPT !.y = Me.reg + 1]
       \/ Todo("decY") /\ Pos' = [Pos EXCEPT !.y = Me.reg - 1]
       \/ Todo("zeroX") /\ Pos' = [Pos EXCEPT !.x = 0]
       \/ Todo("zeroY") /\ Pos' = [Pos EXCEPT !.y = 0]
       \/ Todo("lastX") /\ Pos' = [Pos EXCEPT !.x = LastX]
       \/ Todo("lastY") /\ Pos' = [Pos EXCEPT !.y = LastY]
    /\ Done
    /\ UNCHANGED <<script, handled, buf, fault, strayed>>

\* XPosition >= XResolution / XCharSize: the next line; then
\* YPosition >= YResolution / YCharSize: the top.
Overflows_Late(p, chars) == p > chars
Overflows_Equal(p, chars) == p = chars
Overflows(p, chars) == p >= chars

Test ==
    /\ \/ Todo("testX") /\ Then(IF Overflows(Pos.x, XChars) THEN <<"loadY", "incY", "zeroX">> ELSE <<>>, 0)
       \/ Todo("testY") /\ Then(IF Overflows(Pos.y, YChars) THEN <<"zeroY">> ELSE <<>>, 0)
       \/ Todo("testLeft") /\ Then(IF Pos.x < 0 THEN <<"lastX", "loadY", "decY", "testTop">> ELSE <<>>, 0)
       \/ Todo("testTop") /\ Then(IF Pos.y < 0 THEN <<"lastY">> ELSE <<>>, 0)
    /\ strayed' = strayed \cup (IF Head(Me.todo) = "testTop" /\ Pos.y < 0 THEN {"home"} ELSE {})
    /\ UNCHANGED <<script, handled, buf, Pos, fault>>

-----------------------------------------------------------------------------
\* A handler's loop, the kernel's while (1), and a fault in a fault's report.
Stop ==
    /\ fault # "none" \/ At("loop") \/ (calls = <<>> /\ script.prints = <<>>)
    /\ UNCHANGED vars

Init ==
    /\ script \in Scripts
    /\ handled = {} /\ calls = <<>> /\ buf = <<>> /\ fault = "none" /\ strayed = {}
    /\ Pos = [x |-> script.x, y |-> script.y]

Next == \/ Call \/ (\E who \in {"trap", "IRQ"} : Handler(who))
        \/ Format \/ NextChar \/ Return \/ Draw \/ Tab \/ Turn \/ Load \/ Store \/ Test
        \/ Stop

Spec == Init /\ [][Next]_vars

-----------------------------------------------------------------------------
TypeOK ==
    /\ handled \subseteq {"trap", "IRQ"}
    /\ Depth <= Cardinality(handled) + 1
    /\ \A i \in DOMAIN calls :
          /\ calls[i].pc \in {"format", "print", "loop"}
          /\ calls[i].n \in 0 .. Len(calls[i].text)
          /\ calls[i].reg \in Int /\ calls[i].tab_cnt \in Int
    /\ Pos \in [x : Int, y : Int]
    /\ DOMAIN buf \subseteq 1 .. BufSize
    /\ fault \in {"none", "glyph", "buffer"} /\ strayed \subseteq {"home", "edge", "tab"}

Idle(i) == calls[i].todo = <<>>

\* When no print is in the middle of a character the cursor is on the screen,
\* whatever prints interrupted one another and between whichever accesses of
\* __print_char: the stale X or Y a print stores is again brought into the
\* rectangle by the tests that follow (printk.c:331-337).
CursorOnScreen ==
    (\A i \in DOMAIN calls : Idle(i)) => Pos.x \in 0 .. XChars - 1 /\ Pos.y \in 0 .. YChars - 1

\* __putchar has no check, and prints that interrupt one another draw below the
\* last row and past the end of a row; outside the mapped video memory they draw
\* only after a '\b' in the first cell (printk.c:306), a print that began in the
\* middle of another's '\b' at the left edge (printk.c:300, 304), or a print between
\* the two loads of a tab (printk.c:314) that left the cursor beyond its stop.
GlyphsInVideoMemory == fault = "glyph" => strayed # {}

\* o, a print that began during f, put its own text and NUL over f's k-th character,
\* which f had stored and not yet shown.
Overwrote(o, f, k) ==
    /\ Buffered(o.call) /\ Buffered(f.call)
    /\ k > o.shown /\ k <= o.stored /\ k <= Len(Text(o.call)) + 1
    /\ f.shown[k] = Append(Text(o.call), NUL)[k]

\* The buffer is shared, and a print shows its own text in it, as many characters as
\* that has, except where a print that began meanwhile put its text over what was
\* stored and not yet shown; never what an earlier print left in the buffer.  Only a
\* print whose own text does not fit runs past the buffer's end.
TextIsWhole ==
    /\ \A i \in DOMAIN calls :
          LET f == calls[i]
          IN  /\ Len(f.shown) <= Len(f.text)
              /\ f.pc = "loop" => Len(f.shown) = Len(f.text)
              /\ \A k \in DOMAIN f.shown :
                     f.shown[k] = f.text[k] \/ \E o \in f.over : Overwrote(o, f, k)
    /\ fault = "buffer" => Len(Me.text) >= BufSize

\* A conversion's text reads back as its argument, in the layout asked for, for
\* every conversion, flag, width and precision, at the limits of the widths.
\* %u, %o and %x of an int32 show it widened with its sign.
NumbersReadBack ==
    \A i \in DOMAIN calls :
        OneNumber(calls[i].call) =>
            LET c == Plain(calls[i].call.fmt[1])
                negative == c.conv \in {"d", "i"} /\ c.num < 0
            IN  ReadsAs(calls[i].text, c, negative, IF negative THEN -c.num ELSE c.num % Pow2[LongBits])
=============================================================================
