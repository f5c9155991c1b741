------------------------------ MODULE VgaConsole ------------------------------
(***************************************************************************)
(* Printing in rustOS: vga_buffer.rs, the handlers of interrupts.rs that   *)
(* print, and the locks they share, on the one CPU the kernel runs on.     *)
(*                                                                         *)
(* The code of each context is a sequence of operations; a step executes   *)
(* the next operation of the innermost context.  spin::Mutex::lock spins   *)
(* until the lock is free, so a context that waits for a lock of one it    *)
(* interrupted waits for ever.                                             *)
(*                                                                         *)
(* The binary declares `mod vga_buffer` again (main.rs), so there are two  *)
(* WRITERs, "lib" and "bin", each with its lock and its column, over one   *)
(* buffer at 0xb8000.  The binary also maps a page to that buffer and      *)
(* writes to it without either.                                            *)
(*                                                                         *)
(* Built for `cargo test`, the crate and each file of tests/ is a program  *)
(* of its own that tells QEMU its verdict through the port 0xf4.           *)
(***************************************************************************)
EXTENDS FrameAllocator, SequencesExt

CONSTANTS
    Boots,            \* the mains the crate may be built for, each with the memory
                      \*   map it may be given
    BUFFER_HEIGHT,
    BUFFER_WIDTH,
    NewRow,           \* the row 400 words into the page: 20 of 0 .. 24
    MaxTicks,         \* bound: timer ticks
    MaxKeys           \* bound: scancodes

TestMains == {"lib_test_main", "bin_test_main", "basic_boot", "should_panic", "stack_overflow"}

ASSUME BufferAssumption ==
    /\ Boots \subseteq [main : TestMains \cup {"kernel_main"}, map : MemoryMaps]
    /\ BUFFER_HEIGHT \in Nat \ {0, 1} /\ BUFFER_WIDTH \in Nat \ {0, 1}
    /\ NewRow \in 1 .. BUFFER_HEIGHT - 1
    /\ MaxTicks \in Nat /\ MaxKeys \in Nat

WRITERS == {"lib", "bin"}
Locks == WRITERS \cup {"PICS", "KEYBOARD", "SERIAL"}
Timer == 0        \* the PIC's inputs
Keyboard == 1

-----------------------------------------------------------------------------
(***************************************************************************)
(* The code.                                                               *)
(***************************************************************************)
Op(op, arg) == <<[op |-> op, arg |-> arg]>>
Locked(l, body) == Op("lock", l) \o body \o Op("unlock", l)

\* interrupts::without_interrupts: disable, and enable again if IF was set.
without_interrupts_Missing(body) == body
without_interrupts_Enables(body) == Op("disable", "") \o body \o Op("enable", "")
without_interrupts(body) == Op("disable", "") \o body \o Op("restore", "")

\* write_string, byte by byte.
Bytes(w, s) == [i \in DOMAIN s |-> [op |-> w, arg |-> s[i]]]

\* print! of the crate whose WRITER is w.
_print(w, s) == without_interrupts(Locked(w, Bytes(w, s)))

\* PICS.lock().notify_end_of_interrupt(irq)
EndOfInterrupt_Missing(irq) == <<>>
EndOfInterrupt(irq) == Locked("PICS", Op("eoi", irq))

timer_interrupt_handler ==
    _print("lib", <<".">>) \o EndOfInterrupt(Timer) \o Op("iret", "")

\* Only some scancodes complete a key that prints.
keyboard_interrupt_handler(prints) ==
    Locked("KEYBOARD",
           Op("read60", "") \o (IF prints THEN _print("lib", <<"k">>) ELSE <<>>)
               \o EndOfInterrupt(Keyboard))
        \o Op("iret", "")

breakpoint_handler == _print("lib", <<"B", "\n">>) \o Op("iret", "")

\* lib.rs init: the GDT and the IDT, then the PICs, then sti.
init == Locked("PICS", Op("initialize", "")) \o Op("enable", "")

\* hlt_loop
hlt_loop == Op("hlt", "")

\* test_println_output of the crate whose WRITER is w: a newline, the string and
\* a newline under one lock, and the assertion that the string is on its row.
Line == <<"s", "t">>
test_println_output(w) ==
    without_interrupts(Locked(w, Bytes(w, <<"\n">> \o Line \o <<"\n">>) \o Op("assert", "")))

\* serial_print!: a byte to the host is no state of the kernel's.
serial_print == without_interrupts(Locked("SERIAL", Op("send", "")))

\* The port of QEMU's isa-debug-exit device, and what a process that ends so
\* exits with.
Success == 16
Failed == 17
exit_qemu(exit_code) == Op("exit", exit_code)
Status(exit_code) == 2 * exit_code + 1

\* Testable::run and test_runner, which runs one after another.
run_test(body) == serial_print \o body \o serial_print
test_runner(tests) == serial_print \o tests \o exit_qemu(Success)

\* create_example_mapping: map_to makes three tables, and expect panics when
\* there is no frame for one; then the write to the page.
create_example_mapping == Op("allocate", "") \o Op("allocate", "") \o Op("allocate", "")
New == <<"N", "w">>

kernel_main ==
    init \o create_example_mapping \o Op("write_volatile", "")
        \o _print("bin", <<"H", "i", "!", "\n">>) \o hlt_loop

\* The tests: of the library, of the binary, and the three files of tests/.
\* Those do not call init, so that IF stays clear.
test_print(w) == _print(w, <<"m", "n", "\n">>)
lib_test_main ==
    init \o test_runner(run_test(Op("int3", "")) \o run_test(test_print("lib"))
                            \o run_test(test_println_output("lib"))) \o hlt_loop
bin_test_main ==
    init \o test_runner(run_test(test_print("bin")) \o run_test(test_println_output("bin"))) \o hlt_loop
basic_boot == test_runner(run_test(test_print("lib"))) \o hlt_loop

\* The runner of should_panic.rs, whose one test must not return.
should_fail_NoAssert == serial_print
should_fail == serial_print \o Op("panic", "")
should_panic ==
    serial_print \o should_fail \o serial_print \o exit_qemu(Failed) \o exit_qemu(Success) \o hlt_loop

stack_overflow == serial_print \o Op("overflow", "") \o Op("panic", "")

\* The panic handlers of main.rs, lib.rs and should_panic.rs, and the double
\* fault handler of stack_overflow.rs.
panic == _print("bin", <<"p", "\n">>) \o hlt_loop
test_panic_handler == serial_print \o serial_print \o exit_qemu(Failed) \o hlt_loop
should_panic_handler == serial_print \o exit_qemu(Success) \o hlt_loop
test_double_fault_handler == serial_print \o exit_qemu(Success) \o hlt_loop

PanicHandler(main) ==
    CASE main = "kernel_main" -> "panic"
      [] main = "should_panic" -> "should_panic_handler"
      [] OTHER -> "test_panic_handler"

Program ==
    [kernel_main |-> kernel_main, lib_test_main |-> lib_test_main, bin_test_main |-> bin_test_main,
     basic_boot |-> basic_boot, should_panic |-> should_panic, stack_overflow |-> stack_overflow,
     panic |-> panic, test_panic_handler |-> test_panic_handler,
     should_panic_handler |-> should_panic_handler, double_fault |-> test_double_fault_handler,
     timer |-> timer_interrupt_handler,
     key |-> keyboard_interrupt_handler(TRUE),
     silentkey |-> keyboard_interrupt_handler(FALSE),
     breakpoint |-> breakpoint_handler]

-----------------------------------------------------------------------------
VARIABLES
    calls,      \* the contexts on the stack, innermost last: who, next operation,
                \*   IF when it was entered, IF that without_interrupts found
    IFlag,      \* the CPU's IF
    owner,      \* per lock: depth of the context in calls that holds it, 0 if free
    screen,     \* the buffer: rows of characters, row BUFFER_HEIGHT the lowest
    col_pos,    \* per WRITER
    log,        \* history: every byte written, with its WRITER, context and operation
    irr, isr,   \* the PIC: inputs requested, inputs in service
    scancode,   \* whether the keyboard's output buffer is full
    ticks, keys,    \* how many there have been
    deaf,       \* history: the output buffer was full when ICW1 reset the edge sense
    ended       \* the status QEMU exited with, 0 while it runs

vars == <<calls, IFlag, owner, screen, col_pos, log, irr, isr, scancode, ticks, keys, deaf,
          ended, framevars>>
console == <<screen, col_pos, log>>
devices == <<irr, isr, scancode, ticks, keys, deaf>>
machine == <<ended, framevars>>

Rows == 1 .. BUFFER_HEIGHT
Cols == 0 .. BUFFER_WIDTH - 1
Blank == " "

Depth == Len(calls)
Me == Last(calls)
Current == Program[Me.who][Me.pc]
Doing(op) == Me.pc <= Len(Program[Me.who]) /\ Current.op = op

Frame(who) == [who |-> who, pc |-> 1, entered |-> IFlag, kept |-> FALSE]
Step(kept) == calls' = [calls EXCEPT ![Depth] = [Me EXCEPT !.pc = Me.pc + 1, !.kept = kept]]
Continue == Step(Me.kept)
\* A panic does not return, nor does it unlock what is locked or restore IF.
Panic == calls' = [calls EXCEPT ![Depth] = [Me EXCEPT !.who = PanicHandler(Me.who), !.pc = 1]]
Log(writer, byte) ==
    log' = Append(log, [writer |-> writer, byte |-> byte, who |-> Me.who, op |-> Me.pc])

-----------------------------------------------------------------------------
(***************************************************************************)
(* Writer.                                                                 *)
(***************************************************************************)
clear_row == [c \in Cols |-> Blank]

new_line_BottomUp(s) == [r \in Rows |-> IF r = BUFFER_HEIGHT THEN clear_row ELSE s[BUFFER_HEIGHT]]
new_line(s) == [r \in Rows |-> IF r = BUFFER_HEIGHT THEN clear_row ELSE s[r + 1]]

Wraps_Late(w) == col_pos[w] > BUFFER_WIDTH
Wraps_Either(w) == \E v \in {w} \cup WRITERS : col_pos[v] >= BUFFER_WIDTH
Wraps(w) == col_pos[w] >= BUFFER_WIDTH

write_byte ==
    \E w \in WRITERS :
        /\ Doing(w)
        /\ LET byte == Current.arg
               wrap == byte # "\n" /\ Wraps(w)
               s == IF byte = "\n" \/ wrap THEN new_line(screen) ELSE screen
               c == IF byte = "\n" \/ wrap THEN 0 ELSE col_pos[w]
           IN  IF byte = "\n"
               THEN screen' = s /\ col_pos' = [col_pos EXCEPT ![w] = c]
               ELSE /\ screen' = [s EXCEPT ![BUFFER_HEIGHT] =
                                      [k \in Cols \cup {c} |-> IF k = c THEN byte ELSE @[k]]]
                    /\ col_pos' = [col_pos EXCEPT ![w] = c + 1]
        /\ Log(w, Current.arg)
        /\ Continue
        /\ UNCHANGED <<IFlag, owner, devices, machine>>

-----------------------------------------------------------------------------
(***************************************************************************)
(* Locks and the interrupt flag.                                           *)
(***************************************************************************)
lock ==
    /\ Doing("lock") /\ owner[Current.arg] = 0
    /\ owner' = [owner EXCEPT ![Current.arg] = Depth]
    /\ Continue
    /\ UNCHANGED <<IFlag, console, devices, machine>>

unlock ==
    /\ Doing("unlock")
    /\ owner' = [owner EXCEPT ![Current.arg] = 0]
    /\ Continue
    /\ UNCHANGED <<IFlag, console, devices, machine>>

disable ==
    /\ Doing("disable")
    /\ IFlag' = FALSE
    /\ Step(IFlag)
    /\ UNCHANGED <<owner, console, devices, machine>>

enable ==
    /\ Doing("enable") \/ Doing("restore")
    /\ IFlag' = (Doing("enable") \/ Me.kept)
    /\ Continue
    /\ UNCHANGED <<owner, console, devices, machine>>

\* What serial_print! sends is not kept.
send == Doing("send") /\ Continue /\ UNCHANGED <<IFlag, owner, console, devices, machine>>

\* hlt_loop stays where it is; nothing runs when QEMU has exited.
hlt == (Doing("hlt") \/ ended # 0) /\ UNCHANGED vars

\* The loop over the row below which the newline was.
PrintlnOnItsLine == \A i \in DOMAIN Line : screen[BUFFER_HEIGHT - 1][i - 1] = Line[i]

assert ==
    /\ Doing("assert")
    /\ IF PrintlnOnItsLine THEN Continue ELSE Panic
    /\ UNCHANGED <<IFlag, owner, console, devices, machine>>

panics == Doing("panic") /\ Panic /\ UNCHANGED <<IFlag, owner, console, devices, machine>>

exit ==
    /\ Doing("exit")
    /\ ended' = Status(Current.arg)
    /\ Continue
    /\ UNCHANGED <<IFlag, owner, console, devices, framevars>>

-----------------------------------------------------------------------------
(***************************************************************************)
(* The example mapping.                                                    *)
(***************************************************************************)
allocate ==
    /\ Doing("allocate")
    /\ allocate_frame
    /\ IF Last(frames') # {} THEN Continue ELSE Panic
    /\ UNCHANGED <<IFlag, owner, console, devices, ended>>

\* One word of the page: as many cells as New has, whatever is printed meanwhile.
write_volatile ==
    /\ Doing("write_volatile")
    /\ screen' = [screen EXCEPT ![NewRow] =
                      [k \in Cols |-> IF k + 1 \in DOMAIN New THEN New[k + 1] ELSE @[k]]]
    /\ Log("page", New)
    /\ Continue
    /\ UNCHANGED <<IFlag, owner, col_pos, devices, machine>>

-----------------------------------------------------------------------------
(***************************************************************************)
(* Interrupts: set_handler_fn makes interrupt gates, which clear IF.       *)
(***************************************************************************)
Enter(who) == calls' = Append(calls, Frame(who)) /\ IFlag' = FALSE

Requests == {i \in irr : \A j \in isr : i < j}

Interrupt ==
    /\ IFlag /\ Requests # {}
    /\ LET i == IF Timer \in Requests THEN Timer ELSE Keyboard
       IN  /\ irr' = irr \ {i} /\ isr' = isr \cup {i}
           /\ Enter(IF i = Timer THEN "timer" ELSE "key")
              \/ (i = Keyboard /\ Enter("silentkey"))
    /\ UNCHANGED <<owner, console, scancode, ticks, keys, deaf, machine>>

\* The recursion meets the guard page; the page fault, which has no gate, a double
\* fault, which has one.
overflow ==
    /\ Doing("overflow")
    /\ Enter("double_fault")
    /\ UNCHANGED <<owner, console, devices, machine>>

\* int3, executed by the main context.
int3 ==
    /\ Doing("int3")
    /\ calls' = Append([calls EXCEPT ![Depth] = [Me EXCEPT !.pc = Me.pc + 1]], Frame("breakpoint"))
    /\ IFlag' = FALSE
    /\ UNCHANGED <<owner, console, devices, machine>>

iret ==
    /\ Doing("iret")
    /\ calls' = Front(calls)
    /\ IFlag' = Me.entered
    /\ UNCHANGED <<owner, console, devices, machine>>

\* ChainedPics::initialize: ICW1 forgets requests; the masks are kept.
initialize ==
    /\ Doing("initialize")
    /\ irr' = {} /\ deaf' = scancode
    /\ Continue
    /\ UNCHANGED <<IFlag, owner, console, isr, scancode, ticks, keys, machine>>

\* An unspecific EOI, whichever interrupt notify_end_of_interrupt names.
eoi ==
    /\ Doing("eoi")
    /\ isr' = {i \in isr : \E j \in isr : j < i}
    /\ Continue
    /\ UNCHANGED <<IFlag, owner, console, irr, scancode, ticks, keys, deaf, machine>>

read60 ==
    /\ Doing("read60")
    /\ scancode' = FALSE
    /\ Continue
    /\ UNCHANGED <<IFlag, owner, console, irr, isr, ticks, keys, deaf, machine>>

Tick ==
    /\ ticks < MaxTicks
    /\ ticks' = ticks + 1
    /\ irr' = irr \cup {Timer}
    /\ UNCHANGED <<calls, IFlag, owner, console, isr, scancode, keys, deaf, machine>>

KeyPresented ==
    /\ keys < MaxKeys /\ ~scancode
    /\ keys' = keys + 1 /\ scancode' = TRUE
    /\ irr' = irr \cup {Keyboard}
    /\ UNCHANGED <<calls, IFlag, owner, console, isr, ticks, deaf, machine>>

-----------------------------------------------------------------------------
\* The bootloader enters with IF clear and the screen as it left it.
Init ==
    /\ IFlag = FALSE
    /\ \E boot \in Boots :
           /\ calls = <<[who |-> boot.main, pc |-> 1, entered |-> FALSE, kept |-> FALSE]>>
           /\ mem_map = boot.map
    /\ owner = [l \in Locks |-> 0]
    /\ screen = [r \in Rows |-> clear_row]
    /\ col_pos = [w \in WRITERS |-> 0]
    /\ log = <<>>
    /\ irr = {} /\ isr = {} /\ scancode = FALSE /\ ticks = 0 /\ keys = 0 /\ deaf = FALSE
    /\ ended = 0
    /\ FrameInit

Kernel == /\ ended = 0
          /\ \/ write_byte \/ lock \/ unlock \/ disable \/ enable \/ send \/ assert \/ panics \/ exit
             \/ allocate \/ write_volatile \/ overflow \/ int3 \/ iret \/ initialize \/ eoi \/ read60
Next == Kernel \/ hlt \/ (ended = 0 /\ (Interrupt \/ Tick \/ KeyPresented))

\* The CPU executes, and takes an interrupt that stays requested while IF is set.
Fairness == WF_vars(Kernel) /\ WF_vars(ended = 0 /\ Interrupt)
Spec == Init /\ [][Next]_vars /\ Fairness

-----------------------------------------------------------------------------
TypeOK ==
    /\ \A i \in DOMAIN calls : calls[i].who \in DOMAIN Program
                              /\ calls[i].pc \in DOMAIN Program[calls[i].who]
    /\ Depth \in 1 .. 2     \* no handler runs with IF set
    /\ IFlag \in BOOLEAN
    /\ owner \in [Locks -> 0 .. Depth]
    /\ DOMAIN screen = Rows /\ \A r \in Rows : DOMAIN screen[r] = Cols
    /\ col_pos \in [WRITERS -> 0 .. BUFFER_WIDTH]
    /\ irr \subseteq {Timer, Keyboard} /\ isr \subseteq {Timer, Keyboard}
    /\ scancode \in BOOLEAN /\ deaf \in BOOLEAN
    /\ ticks \in 0 .. MaxTicks /\ keys \in 0 .. MaxKeys
    /\ ended \in {0, Status(Success), Status(Failed)}

\* A context that wants a lock finds it free.  Its holder could only be a
\* context it interrupted, which goes on when this one returns: never.
NeverSpins == Doing("lock") => owner[Current.arg] = 0

\* What a terminal would show: the last lines of everything written, a line
\* ending at a newline or when the next byte finds it full.
AddByte(lines, byte) ==
    IF byte = "\n" THEN Append(lines, <<>>)
    ELSE IF Len(Last(lines)) = BUFFER_WIDTH THEN Append(lines, <<byte>>)
    ELSE [lines EXCEPT ![Len(lines)] = Append(@, byte)]
LinesOf(l) == FoldLeft(LAMBDA acc, e : AddByte(acc, e.byte), << <<>> >>, l)
Lines == LinesOf(log)
LineInRow(lines, r) ==
    LET n == Len(lines) - (BUFFER_HEIGHT - r) IN IF n > 0 THEN lines[n] ELSE <<>>

\* As long as one WRITER writes, the buffer shows the end of what was written,
\* and its column is where that ends.
OneWriter == \E w \in WRITERS : \A i \in DOMAIN log : log[i].writer = w
ScreenShowsLog ==
    OneWriter =>
    LET lines == Lines
    IN  /\ \A r \in Rows :
              LET line == LineInRow(lines, r)
              IN  screen[r] = [c \in Cols |-> IF c + 1 \in DOMAIN line THEN line[c + 1] ELSE Blank]
        /\ \A i \in DOMAIN log : col_pos[log[i].writer] = Len(Last(lines))

\* The bytes of one print reach the buffer with none of another's between them,
\* whichever WRITERs the two use.
PrintsAreWhole ==
    \A i \in 1 .. Len(log) - 1 :
        LET following == Program[log[i].who][log[i].op + 1]
        IN  following.op \in WRITERS => log[i + 1].who = log[i].who /\ log[i + 1].op = log[i].op + 1

\* The two WRITERs and the mapped page on a roll of paper that moves on when either
\* WRITER begins a line; `lines` is what each would have written by itself.
EmptyRow == [c \in Cols |-> Blank]
OnPage(row) == [c \in Cols |-> IF c + 1 \in DOMAIN New THEN New[c + 1] ELSE row[c]]
Onto(roll, e) ==
    IF e.writer = "page"
    THEN LET r == Len(roll.rows) - BUFFER_HEIGHT + NewRow
         IN  [rows |-> [roll.rows EXCEPT ![r] = OnPage(@)], lines |-> roll.lines]
    ELSE LET before == roll.lines[e.writer]
             after == AddByte(before, e.byte)
             rows == IF Len(after) = Len(before) THEN roll.rows ELSE Append(roll.rows, EmptyRow)
             row == [c \in Cols |-> IF c + 1 = Len(Last(after)) THEN e.byte ELSE Last(rows)[c]]
         IN  [rows |-> IF e.byte = "\n" THEN rows ELSE [rows EXCEPT ![Len(rows)] = row],
              lines |-> [roll.lines EXCEPT ![e.writer] = after]]
NewRoll == [rows |-> [r \in Rows |-> EmptyRow], lines |-> [w \in WRITERS |-> << <<>> >>]]
RollOf(l) == FoldLeft(LAMBDA acc, e : Onto(acc, e), NewRoll, l)
Roll == RollOf(log)

\* However the prints of two WRITERs follow one another, the buffer is the end of that
\* roll: a byte stands in the column to which its own WRITER alone has come, in the row
\* where the newlines and full lines of both have left it, and only a later byte in
\* that place covers it (vga_buffer.rs:56-101, WRITER in the library and the binary).
WritersOverlaid ==
    \A r \in Rows : screen[r] = Roll.rows[Len(Roll.rows) - BUFFER_HEIGHT + r]

\* Every test program ends, and QEMU exits with 33, which Cargo.toml:27 takes for
\* success: no assertion fails and nothing waits for ever, whatever has been
\* printed before and whichever interrupts come, while the test that must panic
\* and the one that must overflow do, and only their handlers say so.
TestsPass ==
    calls[1].who \in TestMains ~> ended = 33

\* A scancode is read, unless it was there when ICW1 reset the edge sense.
EveryScancodeRead == scancode ~> (~scancode \/ deaf \/ ended # 0)
=============================================================================
