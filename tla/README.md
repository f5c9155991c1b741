# OSLib in TLA+

OSLib holds two small x86-64 kernels: **cOS**, written in C and assembly, which boots
from a FAT12 floppy under Bochs, and **rustOS** (crate `my_os`), which the `bootloader`
crate starts under QEMU. This directory holds TLA+ models of the parts whose correctness
depends on state, on order or on arithmetic, the TLC runs that check them, and proofs,
checked by TLAPS, about the page allocator and the tasks on its pages, the way from the
BIOS's memory map to that allocator, trap entry, the interrupt controllers and printk, and
about the frame allocator and the console of rustOS.

`PROJECT.json` lists the components, every run with its properties, for each property a
mutation of the model that breaks it, the source lines every definition stands for, the
findings, and the hazards the properties are for.

To check a run: `tlc -config <run>.cfg <module>.tla` with the run's module; to check the proofs:
`tlapm M.tla` for M in `PageAllocator_proofs`, `Tasks_proofs`, `MemoryMap_proofs`,
`TrapEntry_proofs`, `InterruptController_proofs`, `Printk_proofs`, `FrameAllocator_proofs` and
`VgaConsole_proofs`.

## 1. Inventory

### cOS

| component | state it keeps | operations | hard behaviour | correct when |
|---|---|---|---|---|
| boot sector and loader (`boot.asm`, `loader.asm`) | FAT and directory sectors in memory, destination pointers, the E820 records at 0x7e00, the VBE mode | search the root directory, follow the cluster chain, copy the kernel above 1 MB, query E820 and VBE, enter long mode | end-of-chain test, 64 KB wrap of the destination, E820 records left from an earlier use of the buffer | every cluster of the file is copied once, in order; the kernel is handed the records the BIOS returned |
| kernel head (`head.sx`) | page tables, GDT, IDT of `ignore_int` gates | straight-line set-up | only some 2 MB pages are mapped to themselves; others are the frame buffer | an address the kernel uses is mapped to what it means |
| physical memory (`memory.c`) | `bits_map`, `pages_struct`, `zones_struct` and their counters | `init_memory`, `alloc_pages`, `page_init` (`page_clean` has no caller) | two records of one fact, word-crossing search, counters per page and zone, faults in the middle | a page has one owner; records and counters agree |
| traps (`entry.sx`, `trap.c`, `gate.h`) | the frame on the IST stack, the registers | 20 exception entries, NMI, `RSETORE_ALL` | entries in the middle of entries, on one stack; hand-written frames | a handler gets the frame and arguments it declares; what is returned to is unchanged |
| interrupts (`interrupt.c`) | the 8259As, IF, the keyboard's buffer | `init_interrupt`, `do_IRQ` | devices act between any two port accesses; edges lost at ICW1; one EOI for all | only the keyboard's interrupts arrive, each is acknowledged, every scancode is read |
| tasks (`task.c`, `lib.h`) | task structures and kernel stacks on allocated pages, the task ring, the TSS | `do_fork`, `kernel_thread`, `switch_to`, `do_exit` | allocation failure, unmapped pages, uninitialised fields, hand-written frame pop | the ring is well formed; a task resumes where it left, with its own registers |
| printk (`printk.c`) | `Pos`, the shared format buffer | `color_printk` and its conversions | cursor wrap, number limits, reentry from handlers | text lands inside the screen; numbers are what was asked |

### rustOS

| component | state it keeps | operations | hard behaviour | correct when |
|---|---|---|---|---|
| console (`vga_buffer.rs`) | the buffer, a `WRITER` (lock, column) per crate | `print!`, `println!`, `new_line` | handlers print too; two `WRITER`s over one buffer | no self-deadlock; prints are whole; the screen shows the end of the output |
| interrupts (`interrupts.rs`, `lib.rs`) | `PICS`, `KEYBOARD` locks, IF | timer, keyboard, breakpoint, page- and double-fault handlers, `init` | handlers against `main` and one another | every interrupt is acknowledged, every scancode read |
| memory (`memory.rs`) | `next` of the frame allocator, page tables | `allocate_frame`, `create_example_mapping`, `translate_addr` | exhaustion, overlapping regions | no frame twice |
| serial, test runner (`serial.rs`, `lib.rs`, `tests/`) | `SERIAL` lock, QEMU's exit port | test start, end, panic, exit | a failed test must not end as a success | exit code matches the tests' outcome |
| GDT (`gdt.rs`), multiboot start (`boot/`) | static tables | loaded once | none | — |

How they interact: interrupts and exceptions preempt everything (shared registers, stack,
IF, PIC, console); tasks call the page allocator; the loader hands the E820 records to
`init_memory`; every part prints.

## 2. What is modelled

Nothing below is a transcription: control (guards, early returns, order, errors) is kept,
data is reduced to what the properties tell apart.

### Fat12, MemoryMap, Boot — `boot.asm`, `loader.asm`, the first half of `init_memory`

`Fat12` is both stages' way to a file, which is the same code twice: `SearchSector` reads one
sector of the root directory and takes the first entry with the name, `LoadCluster` reads a
cluster (to 0x10000, where `bx` wraps, or to 0x7e00 and from there to 1 MB), `NextCluster` is
`Func_GetFATEntry` with the test for 0xfff, `StartLoader` the jump. `Chs` is the conversion
`Func_ReadOneSector` makes; the drive's side of it (`DriveSector`) and the packing of FAT12
(`FatByte`) are external. A sector's data is named by its number, so that memory shows what was
read into it. A read that fails is asked again for ever: a failing read that succeeds later is a
stutter, and a sector in `bad` never does.

`MemoryMap` goes on at 0x7e00. `Int15` writes a record, `VbeInfo` overwrites the buffer from
0x8000, `Scan` is a turn of the loop that copies records (it keeps one, then stops by the look of
the next), `InitZone` a turn of the loop that makes zones, `EndOfStruct` the rest: where the
tables end. Addresses of records are in KB, the tables' in bytes. `e820` starts empty because
`memory_management_struct` is a zeroed global, to which the loop adds.

`Boot` composes them: the loader's buffer is what the last cluster of the kernel was read into
(`MemStructFromLoader`), and nothing marks where the records end in it.

`MemoryLayout` is what the two halves of `init_memory` share: the pages, the zones, and
`SaneLayout`, which the allocator's theorems assume and `LayoutIsSane` establishes.

### PagePool, PageAllocator — `cOS/kernel/src/memory.c`

`PagePool` is what an allocator promises: a request takes a run of consecutive free pages
or nothing, and a page that was taken is never taken again.

`PageAllocator` is the code. Its variables are the program's: `bits_map` (the set of set
bits), `attribute` and `ref_cnt` of every page, the three counters of every zone; `mem` is
the memory the machine has, `mode` records a fault, `call` the last result, and `granted`
and `regranted` are history. `InitMemory` is `init_memory` from the zones on, for the layouts
that `MemoryMap` computes: page 0 given to zone 0 without being
counted in it, the zones' bits flipped, the pages under the kernel initialised.
`alloc_pages` is one action per call: the zone range, the check of the free count, the
search by words (`Steps`, `Offsets`, `TestedPages`), the returned number (`ReturnedPage`)
and `page_init` of every page of the run, up to a fault.

Three details are modelled by what the build does. The shift by 64 for `k = 0` is undefined
in C; `gcc -O0`, which the Makefile asks for, emits `shlq %cl`, a shift by 0. The word
after `bits_map` is read and never initialised: `slack` is any value of it. The counters
are `uint64`: a count below zero is kept as its signed representative, and `EnoughFree`
compares it as the code does.

### Tasks — `task.c`, the list of `lib.h`, `ptrace.h`, on PageAllocator

`Tasks` extends `PageAllocator`: its state is the allocator's and that of the two tasks the
kernel has, `init_task` and the thread `task_init` makes. It is one path of code, so what
varies is the machine, the answer of `alloc_pages` and what the new page held; what can be
wrong is that `kernel_thread`, `do_fork`, `switch_to` and `kernel_thread_func` each count the
words of a hand-written frame for themselves. `Allocate` is `do_fork`'s call (the action
`alloc_pages` of `PageAllocator`), `MakeStruct` and `MakeThread` the rest of it with the four
assignments of `list_add_to_before` in their order; `SwitchPush`, `SwitchStack` and
`__switch_to` are the switch; `Pop` and `CallFunction` are `kernel_thread_func`, a word at a
time. A stack pointer is a task and a depth, a word says whose it is and what. `do_fork` with a
NULL page, a page that `head.sx` does not map, and a selector that cannot be loaded end in
`fault`, which is where the kernel's handlers loop. Label 1 of `switch_to` is never reached,
because `do_exit` does not switch back; `SwitchedOutIsResumable` says that it could be.

### TrapEntry — `entry.sx`, `trap.c`, `interrupt.c` (stubs), `linkage.h`, `gate.h`

One step per push, per pop, per hand-over, so that an interrupt arrives between any two of
them. `ist` is the stack both IST entries name (0xffff800000007c00): each entry starts
again at its top. A word is a pair (whose, what), which is all that the properties need of
an address. Deliveries (`Exception`, `IRQ`, `NonMaskable`) write the CPU's frame and clear
IF as the gate says; `Push` and `Call` are the stub; `CallPrintk`/`PrintReturn` are the
handlers of `trap.c`, which print and then loop; `DoIRQ`, `Pop`, `Iret` are the way back.
Exceptions inside handlers, and NMIs inside an NMI, are left out.

### InterruptController — `interrupt.c`

The code is three definitions: `InitWrites` (the port writes of `init_interrupt`, then
`sti`), `ReadsPort60` and `EOI` (what `do_IRQ` does for a vector). Each write, read,
acknowledgement and return is a step (`InitStep`, `ReadScancode`, `Acknowledge`, `Return`).
The 8259As (requests, service, masks, edge sense, cascade, spurious answers), the keyboard
and the pulsing devices are external and act between any two steps. `deaf` is history: the
keyboard's input was high when ICW1 reset the edge sense.

### PrintkFormat, Printk — `printk.c`

`PrintkFormat` is `__vsprintf` and `__number` as operators: sign, prefix, padding, precision,
the widths of the arguments (`va_arg`), negative widths and precisions from `*`. Numbers wrap at
`LongBits`; the most negative one is negated to itself and divided as unsigned, as in the code.
`ReadsAs` is the reference: it reads a text back, and is written without `__number`.

`Printk` is the print itself: `Format` fills the one `__buf` a character a step, `NextChar` takes
a character from it, and `todo` holds the accesses to `Pos` that `__print_char` still has to make
for it: a load and a store for each `++`, the tests in their order, Y and then X for the arguments
of `__putchar` (gcc evaluates them from the last), a tab's two loads of X (`Tab`) and its
`while (tab_cnt--)` (`Turn`). So `Handler` may come between any two of them: a handler of
`trap.c`, which prints and loops, or `do_IRQ` when `INTERRUPT_DEBUG` is set, which prints and
returns. `Draw` compares the first and the last pixel a glyph touches with the video memory that
`head.sx` maps. `__vsprintf` is not told how long `__buf` is; a store past its end (`Overrun`) ends
the model in `fault`, because what lies there, and what becomes of it, is not modelled.

Three histories serve the properties. `shown` is what a print drew. `over` is which prints began
during it, and how much of it was then stored and shown. `strayed` is what has led the cursor to
where no test brings it back in time: `home`, a `\b` in the first cell; `edge`, a print that began
while another's `\b` had X or Y at -1; `tab`, a print between a tab's two loads that left X beyond
the stop the tab had computed, so that `tab_cnt` is negative and its loop runs some 2^32 times.

### FrameAllocator, VgaConsole — `memory.rs`, `vga_buffer.rs`, `interrupts.rs`, `lib.rs`, `main.rs`, `serial.rs`, `tests/`

Each context's code is a sequence of operations (`timer_interrupt_handler`,
`keyboard_interrupt_handler`, `breakpoint_handler`, `kernel_main`, and the mains of the five
test programs); a step executes the innermost context's next one: take or release a lock,
disable or restore IF, write a byte, acknowledge, allocate a frame, send to the serial port, tell
QEMU the verdict. `lock` is enabled only when the lock is free, which is a spin. `WRITERS` are
two because `main.rs` declares `mod vga_buffer` again: the binary's `println!` uses a `WRITER` of
its own over the same buffer. `Boots` names the mains that may run, each with a memory map.

`FrameAllocator` is `BootInfoFrameAllocator`: `next`, and the usable frames of the map in its
order. `create_example_mapping` takes three for page tables, and panics when there is none left;
then the page's four characters are written to the buffer without a lock. The panic handlers of
the library, the binary and the tests, and the double fault handler of `stack_overflow.rs`, are
modelled; the page and double fault handlers of the kernel print and halt, and nothing in the
programs modelled faults there. Of the tests of the library `test_print_multi` is left out: it is
`test_print`'s call 64 times.

## 3. The runs

| run | instance | shows |
|---|---|---|
| `PageAllocator_oneword` | words of 8 bits, memories of 7 and 8 pages, both kinds of flags, references up to 3 | on a machine whose zone lies inside the first word: no double grant, no fault, refusals are honest, and the allocator implements `PagePool` |
| `PageAllocator_manywords` | a second word, a hole, memory from the 4 GB mark | the bit map, the page table and the counters agree with one another in every memory, also after the search has gone wrong |
| `PageAllocator_crossword` | as above | **violation**: beyond the first word a page is granted twice |
| `PageAllocator_freecount` | as oneword | **violation**: `page_free_cnt` is not "pages free" |
| `Tasks` | memories of 2 to 70 pages of 2 MB with the real word size, kernels that end in pages 0 to 3, loadable and bad selectors in the page | the thread runs as asked, on the stack its TSS names, and reaches `do_exit`; the task switched from is resumable; the page is the task's own and RAM |
| `TrapEntry_frames` | all 19 exception vectors, the keyboard's IRQ, NMI | frames, arguments, no reentry; an IRQ restores what it interrupted and is always left again |
| `TrapEntry_arguments` | exceptions 0, 3, 14, IRQs 1 and 7, NMI | **violation**: vectors 0 and 1 enter C functions without a stub |
| `TrapEntry_overlay` | same | **violation**: an IRQ writes over an exception handler's stack |
| `InterruptController` | timer, keyboard, one slave device; 3 scancodes; up to 3 handlers deep | only the keyboard's and spurious interrupts are taken; each EOI retires its own; every scancode is read, or the keyboard was deaf from the start |
| `VgaConsole` | 3x3 buffer, 3 ticks, 2 scancodes; the kernel's main with memory maps of no, too few and enough frames, and the five test programs | no self-deadlock, prints are whole, two `WRITER`s lie over one another as their own columns and common rows say, the screen shows the end of what one `WRITER` wrote, page tables get frames of their own, every scancode is read, every test program exits with success |
| `Printk` | a screen of 4 by 2 characters, tab stops of 2, `int32` of 4 and `int64` of 8 bits, a buffer of 18; every conversion, flag set, width and precision at the limits; texts that just fit the buffer and that do not; prints with every kind of character, `\b` and tab included, interrupted by one or two others that have them too | the cursor is on the screen between characters, whatever prints interrupted one another; glyphs stay in the mapped video memory unless the cursor `strayed`; every character a print shows is its own, or was put over it by a print that came meanwhile; only a text that does not fit overruns the buffer; numbers read back |
| `Boot` | the 1.44 MB geometry with the real sizes; eight floppies: files that straddle FAT sectors, fill 64 KB, wrap it, are missing, end in 0xff8, run in a circle, or lie on an unreadable sector; eight memory maps of 5 to 35 records, one with a BIOS error | a sound disk's files are loaded sector by sector; the kernel keeps the BIOS's map and nothing else; zones are RAM and a sane map gives a sane layout |

Why the bounds are enough. A word of 8 bits has every case of a word of 64: inside, at, and
across its end, with `k = 0` and without; `FourG` equals the word so that a small memory has
a zone there. `MaxRef` only bounds how often a shared page is referenced again. `Tasks` makes
one thread because the kernel does; its machines are a memory whose one page the allocator
refuses, one word, and more than one word, with every kernel end for which the next page is still
RAM. A kernel whose tables end at 8 MB or later, which takes more than 300 GB of memory, would put
the task into the frame buffer: `TaskInRam` does not speak of it. What a bad selector in the page
leads to is a step of the model, but `ThreadRuns` speaks of loadable ones only. In
`TrapEntry` at most three contexts can be on the stack, so nothing is cut. `TrapEntry_frames`
takes one IRQ because all 24 stubs come from one macro and differ in their number only.
Three scancodes put one in `do_IRQ`, one in the output buffer and one behind it. A buffer
of 3 by 3 wraps, scrolls and fills, and the three printed strings are longer, exactly as
long, and shorter than a row. Three ticks and two scancodes leave one of each pending
while another is served. The memory maps of `VgaConsole` are the ones that make the first, the
third, and no allocation fail.

In `Printk` an `int64` of 8 bits has its most negative number, and the widths asked for are
below, at and above what the number needs. Two prints with every kind of character start from the
cells that lead to a wrap, to the top, to a `\b` in the first cell and at the left edge, to a tab
stop inside a row and to one at its end, and each kind of handler comes once, at any access (some
1.3 million states): a third print would only find `Pos` where the second left it, because
exceptions inside handlers are left out. With tab stops of 2 a row of 4 has a stop inside it and
one at its end. 168 pixels of video memory are the screen and one row of characters and more for
the handlers; what `head.sx` maps is more than three times the screen of 1440 by 900. 18
characters hold `dump_hex`'s 16, the longest of the conversions, and its NUL.

`Boot` keeps the program's own sizes. `MaxClusters` (130) is one more than wraps 64 KB; it cuts
off only chains that never end. The maps have a record after the hole at 640 KB, RAM that
begins and ends inside a page, RAM too small for the kernel, records beyond 4 GB and beyond
25 and 32, a record of an unknown type, and the disks end in bytes that look like records
nowhere, at the seventh place, or everywhere.

Deadlock is checked except in `TrapEntry`, where the exception handlers loop for ever by
design, in `PageAllocator`'s runs of memories where the kernel may fault, and in `Boot`, where
the loader stops (`jmp $`) when a file or a record is missing.

Fairness. There is one CPU and it executes: weak fairness of the code's own steps. It takes
an interrupt that stays requested while IF is set: weak fairness of `Interrupt` (in rustOS as
long as QEMU has not been told to exit). The BIOS returns, and a sector that can be read is read
in the end: weak fairness of `Boot`'s steps. The
keyboard presents what it holds. No fairness is assumed of ticks, keys or glitches. The
bound on ticks stands for a timer slower than its handler.

## 4. Findings

1. `alloc_pages` tests the run that starts at the word boundary + k and returns `j + k - 1`.
   The two agree only if the search started one bit into a word, which is so exactly for
   the first word of the first zone. From the second word on, pages in use are returned.
2. `page_free_cnt` of zone 0 is one too small: page 0 is charged to it without being in it.
3. The gates of vectors 0 and 1 name `do_divide_error` and `do_debug` instead of the stubs
   `divide_error` and `debug`, so their `rsp` argument is whatever `rdi` held.
4. IST 1 and IST 2 name the same address. Exceptions keep IF, so an IRQ that arrives in an
   exception handler overwrites its frame and return addresses.

Behaviours a reader of the code may not expect, which nothing in the repository contradicts:

- a key pressed after the loader's `cli` and before ICW1 leaves the keyboard dead (the `deaf`
  case of `EveryScancodeRead`, also in rustOS);
- in the rustOS binary what one `WRITER` leaves on the bottom row is overwritten by the other;
- nothing ends the E820 list but the bytes behind it, which are the kernel file's: if they look
  like a record it is kept too, and a record of type 5 or of length 0 hides all that follow
  (the conditions of `MapHandedOver`). A 26th record is lost to the VBE information;
- a BIOS that ends its list with a carry stops the loader, whatever it read before;
- only 0xfff ends a file: a chain that ends in 0xff8, which FAT12 also allows, is followed to
  cluster 0xff8, whose sector the floppy does not have, and asked for for ever;
- `\b` in column 0 goes to a column and row counted in pixels; in the first cell of the screen
  it draws outside the mapped video memory. So does a print that comes while another's `\b` has X
  or Y at -1, below the frame buffer's first address, and one that comes between the two loads of
  X in `tab_cnt = ((X + 8) & ~7) - X` and leaves X beyond the stop. These are the three cases of
  `strayed` in `GlyphsInVideoMemory`. Nothing scrolls: the cursor goes back to the top;
- a text of 4096 characters or more, by its own length or by a width, is stored past the end of
  `__buf`; `if (!s) s = '\0'` for `%s` leaves a NULL argument NULL;
- `%u`, `%x` and `%o` of an `int32` show it widened with its sign, and `dump_hex` prints the
  low half of its argument only; prints that interrupt one another mix.

## 5. The proofs

`PageAllocator_proofs` proves about every memory that satisfies `LayoutAssumption` (zones
not empty, disjoint, inside the page table; the kernel's pages in some zone; any slack):

- `TypeCorrect`, `BitmapAgrees`, `CountersCorrect`: `TypeOK`, `BitmapAgreesWithPages` and
  `CountersExact` are invariants. None is inductive alone. Counting needs `page_using_cnt`
  to be the cardinality of the pages in use, which needs types and finiteness; the bit map
  needs that a page without a zone is never fresh-and-taken while the kernel runs. `IInv`
  is their conjunction with `KernelInUse` (a page under the kernel always has an attribute).
  The argument goes through `PageInitRun`: `RunFacts` splits a run into the pages done and
  the page that faults, `CountStep` adds cardinalities, `PageInitRunInv` shows that a run
  preserves each conjunct, and `NextIInv` that a call does.
- `LinksCorrect`: `LinksAreReferences` is an invariant. `page_init` adds one reference to one page
  and to its zone, whichever of its branches it takes, so what is left is that a sum in which one
  term is raised is raised as much (`SumRaised`), and that a sum over fresh pages is their number
  (`SumOfOnes`).
- `OneWordNoDoubleGrant`, `OneWordNeverHalts`, `OneWordImplementsPool`: under `OneWord`
  (every zone starts one page after a word boundary and ends before the last bit of that
  word) no page is granted twice, nothing faults, and `PageAllocator` refines `PagePool`
  (`free` is the set of fresh pages with a zone, `taken` is `granted`). The invariant is
  `Owned`: whatever was granted or is under the kernel has its bit set. The key lemma is
  `RunIsFree`: under `OneWord` the run returned is the run tested, and because the bit
  after each zone is never cleared (`LastBitUnowned`) a clear run lies inside the zone.
  The run `PageAllocator_crossword` shows that without `OneWord` the theorem is false.
- `OneWordRefusalHonest`: a NULL there means that no zone asked for has `number + 1` free pages
  in a row. A zone is passed over for one of two reasons. Its free count is below `number`: then
  so many pages of it are in use that a run of `number + 1` free ones does not fit
  (`RunIsCounted`; the one is page 0, which is counted without being in the zone's length). Or
  no test of the search hits: then no run is free, because the bits of a free run inside one word
  are one of the tests (`NoHitNoRun`).

`Tasks_proofs` carries this over to the tasks. `TasksUseAllocator`: every behaviour of `Tasks`
is one of `PageAllocator`, so that each theorem above holds while threads are made;
`TasksKeepCounters` is one instance. `OneWordTaskOwnsPage`: under `OneWord`
the new task lies on a page that was granted for it, is in use and is not under the kernel.
The invariant adds to `Owned` that granted pages have zones and are not fresh (`GrantedInUse`,
from the refinement of `PagePool`) and that the page is a granted one from its choice on
(`PageGranted`).

`TaskTypeCorrect`, `ThreadRunsRight` and `OldTaskResumable` follow the thread from `do_fork` to
`do_exit`, on every memory and with any selectors in its page. The program goes this way once and
straight through, so `TaskInv` says for each place what the registers, both stacks and both
`thread_struct`s hold there: in `kernel_thread_func`, say, that `rsp` is 24 - `popped` words deep,
that the words up to there are `kernel_thread`'s, and that what was popped is in its register. A
word counted wrongly anywhere breaks the step to the next place.

`LowKernelTaskInRam` and `LowKernelTaskOwnsPage` are about machines of any size (so beyond
`OneWord`) with RAM from page 1, tables that end in pages 0 to 3, and RAM behind them
(`LowKernel`, true of every machine of the run `Tasks`): `do_fork`'s is the first request, so it
finds what `init_memory` left, and a search for one page in the first word returns the page it
tests (`FirstHitIsBehind`): the task is on the page behind the tables, or `do_fork` has faulted.

`MemoryMap_proofs` is about every BIOS map (any number of records, any addresses), every content
of the buffer and every end of the kernel. `MapGivesSaneLayout`: zones are RAM only, and a map in
order with RAM under the kernel's tables gives a `SaneLayout`, which is what `LayoutAssumption`
asks of a layout. `LayoutIsSane` speaks of the end only; the invariant (`ZonesOfRecords`) says of
the loop half way that the zones are those of the records it is done with, all of them, and in
their order. Then disjointness comes from rounding inwards (`PagesInOrder`), the bound on `end`
from the last record's being last (`EndsInOrder`), and the kernel's pages have a zone because
zones are disjoint, so that the last that covers a page is the only one. `MapIsHandedOver`:
the invariant `Handing` says that the buffer holds the records read, the list the buffer's, and
that each record but the first was looked at before. `BootHandsMapOver` carries both over to the
booting machine: every behaviour of `Boot` is one of `MemoryMap`.

`FilesFollowed`, in the same module, is what `FilesLoaded` says but for fairness: on a disk whose
files are `Sound` the machine is never lost, never waits for a sector that cannot be read, and
when the loader has come to the end of KERNEL.BIN both files are in memory, cluster by cluster.
It holds for every such disk, with clusters in any order and sectors and tracks of any size, under
`GeometryAssumption` (the BPB's areas lie one behind the other, `SectorBalance` is the code's and
0xfff names no cluster) and `DiskAssumption`, that entries have 12 bits. `EntryIs` shows that the
word `Func_GetFATEntry` takes out of two sectors holds the entry, `ReadIs` that a sector's track,
head and place are the sector's, and `FileIs` that a file's clusters are those its entries lead to.
The invariant `CourseInv` says where in its file the copy is: which part of the directory is
searched, that the cluster at hand is the next one, and that those before it are in place.

`InterruptController_proofs` is about any devices on any inputs, any number of keys and any depth
of handlers. `KeyboardAndSpuriousOnly`, `ServiceEnds` and `EOIRetiresItsOwn` prove
`OnlyKeyboardAndSpurious`, `NothingLeftInService` and `AcknowledgesItsOwn`. The invariant says how
far `init_interrupt` has come in each controller (`Setup`: which initialisation word comes next,
the bases, the masks) and that at most one `do_IRQ` is on the stack, with IF clear, and the master
serves its input up to the EOI and nothing else (`Serving`). `OnlyKeyboardAsks` is the key lemma:
once the masks are written the keyboard is the only input that can ask, and IF is not set before.
The proofs rest on `PinAssumption` (the keyboard has its input, no device sits on the cascade's).

`TrapEntry_proofs` is about any set of vectors. `TypeCorrect` (`rsp` stays within 26 words of the
top, however entries interrupt one another), `NeverReentered`, `FrameReachesTheHandler` and
`SceneRestored` prove `TypeOK`, `NoReentry`, `HandlersGetTheirFrame` and `IrqRestoresScene`. They
rest on three facts. Contexts are on the stack in one order: the task, an exception, an IRQ, an NMI,
each at most once (`Shape`), because an IRQ clears IF, an NMI never returns and exceptions in
handlers are left out. Where `rsp` is follows from what the innermost has pushed or popped
(`RspInv`). And a frame on the shared stack is only promised to a context that nothing can
interrupt: `FrameInv` says nothing of an exception taken with IF set, whose frame an IRQ may
overwrite (finding 4), while IF is clear in and above an IRQ (`MaskInv`), so that what it saved is
there when it restores it (`SavedInv`).

`Printk_proofs` is about any screen, any character size and any scripts. `CursorStaysOnScreen`: a
store may put any stale column or row back, so no bound on `Pos` is invariant. What is: if `Pos.x`
is beyond the last column then some print, the innermost or one it interrupted, has still to test
it or to clear it, and so for the other three edges (`CursorInv`). It needs that the accesses of a
character come in an order in which every store is followed by its test (`InOrder`), and that a
negative value in a register was read while an interrupted print owed the test for it (`StaleInv`).
`TextStaysWhole` is about a buffer of any length and about every print, interrupted or not. `Keeps`
says, of each print in progress, that a character it has shown, or has in the buffer still to show,
is its own or was put there by a print of its `over`, at a place and time at which that print could
(`Overwrote`); `OverInv` that every print above it on the stack is in its `over`, so that whoever
stores is accounted for; `BufferInv` that the store past the end is by a print whose own text does
not fit. `TypeCorrect` bounds the prints in progress by the handlers that came.

`GlyphsStayInMemory` bounds how far stale cursors add up, to every side. As long as nothing has
`strayed`, X and Y are negative only at the two accesses of a `\b` that put them right, and nothing
loads them there (`LowWithin`). Upwards, a print that loads X or Y finds it on the screen, or as
far as a print it interrupted, or that interrupted it, may still take it (`XWithin`, `YWithin`,
with `Blanks` and `RisesY`: what the accesses left to make can still add). A tab's count may be
taken between a column left far out and one left at 0, so both bounds grow with the depth in the
stack (`XBound`, `YBound`), of which `Bounded` leaves three. The theorem supposes that the mapped
memory holds the pixel at the bounds of the third (`EnoughMemory`), as the kernel's does: 1.47 of
4.19 million. The run is stricter there: it shows, with 168 pixels mapped, that the rows and tab
stops the bounds allow each print are more than they can use.

`NumbersAreReadBack` is about every width, precision, set of flags, conversion and argument, and
about any byte in the rest of a format. `CallAssumption` asks of the scripts that a format is
made of such items (`Items`) and that a call of one number passes it a number of the type `va_arg`
reads, the most negative ones included; that every text is then a sequence of bytes (`CallIsText`)
and so fits the buffer's model is proved. The lemmas follow `__number` from the inside out: the
digits of a 64-bit magnitude, which number at most 64 in any base, read back as the magnitude
(`DigitsReadBack`, `LeadingZeros` for the precision's), blanks, sign, prefix, zeros and digits lie
where the flags ask for them and fill the width (`NumberParts`), and what `va_arg` reads, through
`Signed`, is the argument or its remainder by 2^64 (`ArgumentIs`, at the limits of both widths).
The invariant itself is small: a call that has its text has its format's (`Formatted`).

`VgaConsole_proofs` is about the fourteen programs of rustOS (six mains, five handlers, three panic
handlers), a screen and memory maps of any size, any number of ticks and keys. `LocksFoundFree`,
`PrintsWhole` and `TypeCorrect` prove `NeverSpins`, `PrintsAreWhole` and `TypeOK`. Each place of each program is given what is known there (`Known`):
the locks its context may hold, whether IF is known to be clear, and whether the enclosing
`without_interrupts` is known to have found it so. `Checked` is the rule for one operation after
another; a lock may be held only where IF is known clear, and handlers run with it clear
throughout. The lemmas `Locking`, `Masking`, `Printing`, `RunningTest` and their like check each
macro once, and `ProgramsRun` puts the fourteen together. The
invariant then says that the annotation is true: what a context may hold is what is held
(`OwnerInv`), and IF is clear wherever it is known to be (`MaskInv`). So whoever asks for a lock
is either the only context, or above one that holds nothing. For a panic the handler starts with
what the place of the panic held, which is why `test_panic_handler` is checked with both
`WRITERS` locked: it prints to the serial port only.

`ScreenIsLog` proves `ScreenShowsLog`. The lines of a log are those of the log before its last
byte, with that byte added (`LinesOfMore`), so each of `write_byte`'s steps is compared with one
`AddByte`: a byte in a row with room (`ByteShown`), a new line (`NewLineShown`), the two of them
when a byte finds the row full (`WrapAdded`). `ShowsInv` also says of a `WRITER` that has not
written yet that its column is 0, which `OneWriter` leaves out as long as the log is empty.

`ScreenIsRoll` proves `WritersOverlaid`, which has no such condition: with any number of `WRITER`s
over the buffer, and the page that the kernel maps and writes without one, a byte stands in the
column its own `WRITER` alone has come to, in the row where the lines of all of them have left the
paper. The roll is a fold over the log, so the roll of a log with one more byte is that of the log
with the byte put on it (`RollOfMore`); the invariant (`RollInv`) adds that each `WRITER`'s column
is the length of its own last line, and `WriteOnRoll` compares `write_byte`, with its wrap and its
scrolling, with the byte put on the roll.

`FrameAllocator_proofs` proves `AllocatorFramesDistinct` for every memory map whose usable
regions do not overlap: what was handed out are the first `next` usable frames, and no frame is
usable twice. `ConsoleUsesAllocator` and `ConsoleFramesDistinct` carry it over to `VgaConsole`.

The arithmetic of the proofs needs only the types that `ConstantTypes`, `FlagTypes` and
`LayoutTypes` take out of `LayoutAssumption`.

`LinksCorrect`, `ScreenIsLog`, `ScreenIsRoll` and `NumbersAreReadBack` need induction over data: over a set, the
log, the digits and the items of a format. The provers cannot apply the library's induction
theorems, which take an operator as a parameter, so each such lemma names the inputs for which its
claim fails and takes the smallest (`LeastNat`, `SmallestSet`, from the well-foundedness of `<`); the
step of the induction refutes it. That a recursive function exists at all is shown in the same way
(`RecursiveFcn`, `LinesFnExists`, `SumFnExists`), from one function for each shorter input.

Only model-checked: the liveness properties `FilesLoaded`, `EveryScancodeRead`, `ThreadRuns`,
`IrqCompletes` and `TestsPass`, because liveness under fairness is beyond the provers used. Every
invariant of a run that passes is stated by a theorem.

## 6. Not modelled, and what is left

- `page_clean` is static and has no caller; `translate_addr` and `EmptyFrameAllocator` likewise.
- From `boot.asm` and `loader.asm`: the VBE mode search (it picks a mode number and keeps no
  state the kernel reads but the frame buffer's address), A20, the GDTs and the mode switches.
- `main.c` is a list of calls; its order enters the initial states: the gates and the IST are set
  when `TrapEntry` starts, `init_memory` comes before `Tasks` makes its thread, and nothing
  interrupts the prints of `Printk` that come before `init_interrupt`.
- The page tables that `init_memory` clears (`g_cr3`), the contents of page tables in rustOS, the
  font, pixels and colours, cpuid, static tables, the multiboot files of rustOS (not in its cargo
  build), and the external crates beyond what the code uses of them.

Left to prove: `GlyphsInVideoMemory` for a video memory as tight as the run's.
