# A TLA+ model of kernull

kernull is a small x86_64 kernel in C and assembly: GRUB loads it, it builds its
page tables, a physical page allocator and a heap, installs interrupt handlers,
brings up the PS/2 controller and a keyboard driver, and then loops for ever
while interrupts do the work. This directory holds TLA+ modules that model its
stateful parts, TLC configurations that check them on small instances, and
TLAPS proofs of the most important invariants for every instance.

## 1. Inventory

### The parts of the system

| part | source | state | operations | model |
|---|---|---|---|---|
| keyboard driver, commands | `kernel/ps2_keyboard.c` 10-43, 83-151, 234-309 | command ring (`command_queue`, `next_command_idx`, `pending_commands`), `driver_state`, `kbd_scan_code_set` | `ps2_kbd_command_arg`, `queue_add`, `queue_discard`, `current_command`, `handle_next_command`, `keyboard_handler` | `KbdCommands` |
| keyboard driver, scan codes | `kernel/ps2_keyboard.c` 45-81, 153-231 | `ext0`, `ext1`, `released`, `is_pause`, `is_sysrq`, `scan_code_buf`, `scan_code_ptr`, `expect` | `handle_data` | `ScanCode` |
| 8042 controller | `kernel/ps2_8042.c` | none of its own; the hardware's buffers, configuration byte, ports and RAM | `ps2_init`, `ps2_data_read`, port enable/disable/write, `wait_*`, `kbd_int_handler` | `Ps2Init`; as the driver uses it in `KbdCommands` |
| heap | `kernel/kmalloc.c`, `sbrk` in `arch/x86_64/mm/mm.c` | `free_block_list`, block headers, `heap_end` | `kmalloc`, `kfree`, `split_block`, `coalesce_blocks`, `sbrk` | `Kmalloc` |
| page allocator | `arch/x86_64/mm/page_alloc.c` | bitmap `frames`, `nframes`, memory counters | `page_allocator_init`, `page_alloc`, `page_free`, `frame_*` | `PageAlloc` |
| paging | `arch/x86_64/mm/mm.c` | the tables | `mmu_init`, `map_addr`, `mmu_translate`, `mmu_get_page`, `mmu_get_page_deep`, `mmu_to_virt` | `Paging` |
| interrupt dispatch | `arch/x86_64/idt.c`, `irq.asm`, `pic.c` | gates, handler table, the two 8259s | `idt_init`, `irq_set_handler`, `isr_handler`, `irq_handler`, `pic_remap`, `irq_ack` | `Interrupts` |
| timer | `arch/x86_64/pit.c` | none | `pit_init`, `pit_interrupt` | `Interrupts` |
| VGA terminal | `arch/x86_64/vga_print.c` | cursor, colour, screen | `vga_putchar`, `scroll`, `vga_set_pos`, `vga_set_color`, `vga_terminal_initialize` | `Terminal` |
| `printk` | `kernel/printk.c` | none (a buffer on the stack) | `itoa`, `vprintk`, `printk` | `Printk` |
| string library | `kernel/string.c` | none | 15 functions on memory | `Strings` |
| Multiboot parser | `kernel/multiboot2_parser.c` | none | walk over tags and memory map | `Multiboot` |
| `kmain` | `arch/x86_64/kmain.c` | none | order of initialisation, two keyboard commands, two messages | `Boot`; inputs of `KbdCommands` and `Terminal` |
| GDT, boot assembly | `arch/x86_64/` | tables written once | straight-line initialisation | not modelled |

### How the parts interact

* `kmain` runs everything in order, enables interrupts, and calls
  `ps2_kbd_command_arg` twice. From then on there are two threads of control:
  `kmain`, and the IRQ1 handler, which interrupts it at any instruction, runs to
  completion with interrupts off, and shares the driver's variables with it.
  There is no lock and nothing is `volatile`; the driver disables port 1 of the
  controller for the length of its critical section.
* `kbd_int_handler` (8042) reads one byte and calls `keyboard_handler` back,
  which gives it to `handle_data` when the driver waits for nothing.
* `kmalloc` -> `sbrk` -> `page_alloc` and `map_addr` -> `page_alloc` again, for
  page tables, while `sbrk` holds a page that is allocated and not yet mapped.
* Both threads print: `kmain` with `printk`, the handler through `handle_data` and for an
  ECHO answer. They share the terminal's cursor, again without a lock.
* Every handler is called by `irq_handler`, which acknowledges the interrupt to one or both 8259s.
  Before `sti`, `ps2_init` talks to the controller by polling, and every answer it polls latches an IRQ1
  that is taken after the `sti`.
* `multiboot_get_memory_end` decides how much memory `mmu_init` and the page allocator believe in.
* `kmain` tells `mmu_init` where the kernel ends. It passes the value that lies in memory behind the image, where the
  linker's symbol `kernel_end` points, and not the symbol's address: nothing in the code sees to it that this is the end of the image.
* `mmu_init` reserves room for the bitmap that `page_allocator_init` then uses,
  and each of them computes its size in its own way.

### What is hard here, and what correctness means

* **Keyboard commands**: interleaving with the handler at every step of
  `queue_add`; stale register copies of `pending_commands`; acknowledgements
  that come early, late, refused or not at all; key presses taken for
  acknowledgements; a full ring; a byte that is written over another one. Correct means: the ring keeps its bounds, no
  pending command is overwritten, accepted commands go out once and in order,
  and the ring is worked off as long as no byte is lost.
* **Scan codes**: multi-byte sequences with common prefixes, lost bytes, table
  indices that are not checked. Correct means: every stroke gives its event and
  the decoder is back at its start afterwards.
* **Heap**: the arithmetic of splitting and coalescing, in bytes that nobody rounds, over long sequences of
  calls. Correct means: callers' memory is disjoint, headers are in mapped
  memory, nothing is lost.
* **Page allocator**: boundaries (last byte of the bitmap, full bitmap, 32-bit
  products) and units (frame numbers against addresses). Correct means: no
  frame has two owners, and the frames marked at boot have none.
* **Controller start-up**: answers, key bytes, bytes of a pointing device and time-outs in one output buffer, and a
  self-test that may undo what was configured. Correct means: the configuration is the one meant, no answer
  is left for the scan code decoder, the reset loop ends, key bytes are fetched afterwards.
* **Interrupt dispatch**: cascaded controllers, spurious interrupts, requests latched before anybody
  listens. Correct means: nothing stays in service when no handler runs.
* **Terminal**: two printers interleaved at every memory access. Correct means: stores stay on the screen, and text that is
  not interrupted is laid out as on paper.
* **Pure functions**: overlaps, signs, terminators, padding, the last byte. Correct means: they agree with a definition of the result.
* **Paging**: allocation inside allocation, and tables whose frames must never
  be given out as data. Correct means: the tables are a tree, a mapping touches
  one page, the look-ups agree.

`PROJECT.json` lists the hazards line by line with the properties about them.

## 2. The modules

Each module has the component's variables under the source's names, one action
per operation or per atomic step of it, the specification, and its properties
at the end. Definitions that begin with "Fault:" and carry a suffix
(`queue_add_OffByOne`) are plausible bugs, not part of any specification: they
are the mutations by which each property is shown to be able to fail.
`MC*.tla` give the constants their values, `*Proofs.tla` hold the theorems.

### KbdCommands

`ps2_kbd_command_arg` is a sequence of steps with a program counter `pc`, cut
wherever an interrupt makes a difference: disable port 1, check for room,
`queue_add` (room check and slot, then the counter), the test for
"first command", the write, the same for the follow-up query, enable port 1. The
interrupt handler is one step per byte, except that `ps2_data_read`, which polls
for the answer to the query, is a second step (`irqpc = "poll"`), because the
keyboard and the controller move on while it polls. `reg` is the compiler's copy of
`pending_commands`: the variable is not volatile, so each use chooses between the
copy and memory.

Every access to the controller waits for its input buffer first. `wait_input_buf` gives up after 64 polls and nobody looks at its
result, so `outb` may write over what the controller has not taken: the byte before is gone, and `lost` remembers it. A byte to the
keyboard and a command to the controller (port 1 on, port 1 off) go through the same buffer, so either can overwrite the other.

The controller (one-byte input and output buffers, latched IRQ1, port 1 on or off) and the
keyboard (takes bytes, answers with ACK, RESEND, an echo or its scan code set) are
external; they are modelled from what the driver expects of them. The controller takes a byte from its input buffer when the
keyboard has taken the one before (`CtrlTakes`), also while port 1 is off, as in `Ps2Init`; the keyboard gets it when port 1 is on. Five constants
describe the machine, since the code's bracket relies on it: `PromptIrq` (a
latched interrupt is taken at once), `WriteEnables` (a write to the keyboard turns
port 1 on again, as 8042s do), `PollTimeout` (64 polls may be too few for an answer), `InputTimeout` (they may be too few for the
controller to take the last byte), `PromptCommands` (a command is acted upon at once; otherwise in `CtrlObeys`, some steps later).
`LockMachine` is the machine on which the bracket is a lock: `PromptIrq`, `PromptCommands`, not `WriteEnables`.

`queue_discard`'s test for an empty ring and the "Corrupted state" branch of
`keyboard_handler` are unreachable: `BusyMeansPending` and `TypeOK` are that fact.

`CommandFifo` is the abstract specification: a bounded queue of commands started one at a time, each once and in
order. `ImplementsFifo` states that `KbdCommands` implements it, with the ring's slots (`Ring`) as the queue. The mapping
has to know two moments inside a call: between the stores of `queue_add` the slot is filled and not yet counted, and
before the byte is written (`pc = "send"`) the driver already claims to be waiting.

### ScanCode

One action per branch of `handle_data`, taken per byte. `Stroke` puts the bytes of
scan code set 2 of a key on the wire; `Lost` is a byte that `keyboard_handler` takes
for an answer to a command. The keycode tables are modelled at the bytes of nine keys
that between them take every branch: plain, the largest plain code (F7, 0x83), a
modifier whose code is also half of PrtSc, extended, PrtSc, Pause. Printed characters are left out.

### Kmalloc

In bytes, with the code's `sizeof(size_t)` of 8 and `sizeof(block_t)` of 16. The linked list is
the sequence of its blocks, because `next` pointers are read only along the list. One
action per branch of `kmalloc` (too much, empty list, first fit, unsatisfied) and of
`kfree` (empty list, one block, several). `want` and `wasted` are history.

No size is rounded in the code, and none in the model. A remainder of 17 to 23 bytes is therefore split off although its header
(size and `next`) does not fit: after `kmalloc(4076)` on an empty heap the `next` pointer of the remainder lies across `heap_end`, and when there is a
page behind it, on the size of the block there. What the code does from then on hangs on the bytes that were overwritten, so the model
stops: `HeadersInHeap`, which is violated there, is a guard of `Next`. `WholeWords`, requests that are multiples of 8, is what callers have to do to stay clear of
this; nothing in the code sees to it. The run `KmallocHeap` and all theorems are about whole words, and `MemoryTold` shows what happens otherwise.

Assumed of callers: they ask for something, free what they were given, once,
and write only what they were given.

### PageAlloc

The bitmap is the set of frames whose bit is set. 32- and 64-bit products wrap
(`W32`, `W64`). `first_free_frame` has no `return` at its end, so on a full bitmap it
yields any value of `Junk`. The last, partial byte of the bitmap is never cleared, so
`Init` chooses it. `page_free` passes a frame number where an address is
expected, and the model does the same. `first_free_page` is what the code passes: the value `kmain` read at `kernel_end`, rounded up. `Image`, the frames
that hold the kernel, is a parameter of its own, because the code does not connect the two: `ReservedKept` is about the frames that were marked at boot, `ImageKept` about
the image, and the second follows from the first only where the value does reach the end of the image.

### Paging

Composes `PageAlloc` (`PA == INSTANCE PageAlloc`, for the bitmap operators) with the
tables and with the loop of `sbrk`. A table is the frame that holds it, a virtual page
the tuple of its four indices. `mmu_init` is `Init`. `map_addr_in` threads the state
(bitmap and tables) through the four levels, so the allocations it makes happen in
the code's order. Frames are zero at boot, as emulators leave them. `kernel_end` is the value that `kmain` read. That it lies behind the image, so that the frames of the
static tables are marked, is the hypothesis `ImageMarked` of the theorems and of the run: where it does not hold, the tables may be handed out and overwritten, and none of the properties is claimed.

### Interrupts, Ps2Init, Boot

`Interrupts` is the handler table, dispatch and the two 8259s (external: requests, priorities, delivery, spurious
interrupts, non-specific end of interrupt). An interrupt is two steps, its handler and its acknowledgement.

`Ps2Init` is `ps2_init` access by access: `Script` lists the accesses in the order of the code, and there is an action per kind of
access. A wait ends when the buffer is ready or when the polls run out, be it because nothing would ever come (`Stuck`) or because the
answer is late (`MaxTimeouts`); then the access is made all the same, as in the code, where nobody looks at the result of
`wait_input_buf` and `wait_output_buf`: a write overwrites a byte that was not taken, a read returns the last byte again. The controller (input and output buffer, configuration
byte, ports, RAM), the keyboard and a pointing device are external.

`Boot` composes the two: `kmain` from its first line to the `sti`, interrupts of other devices, exceptions. `KbdCommands` begins in the states in which
`HandsOver` leaves the machine, with IRQ1 latched or not.

### Terminal, Printk

`Terminal` cuts `vga_putchar` at every access to the shared cursor, for each of the two threads; `row` and `col` are the registers the
cursor is loaded into. A comparison may use the register or memory again, as different builds do. At the end of a row the column is stored twice, `VGA_WIDTH` by the increment
(`StoreColumn`) and then 0 (`ResetColumn`), with a window between them; a compiler may also leave the first store out, and both are modelled. A scroll is one step, behind the store of row `VGA_HEIGHT`. A handler that begins in
one of these two windows finds the cursor off the screen: `raced` records it. `entry` is modelled with its sign extension: a character above 127 (`HighChars`) covers the colour with ones.
`Printk` has `itoa` on a buffer with the byte below it, and
`vprintk` as an operator from a format and its arguments to characters; `MCTerminal` uses it for the texts.

### Strings, Multiboot, Library

`Strings` and `Multiboot` are operators, translated loop by loop into recursive functions over the position reached. `Library` is a caller that makes
every call that keeps to the functions' preconditions, on every memory of a given size, and remembers the call, its result (`call`) and the memory `before` it; its properties compare
these with definitions that are no loops. Where a comment in the code says what a function is for and the function does something else, the comment is a property of its own
(`FindsEveryByte`, `Appends`, `OnlyDigits`, `MemoryEndHighest`), for the run `LibraryTold`.

### MCMemory

`Kmalloc`, `PageAlloc` and `Paging` side by side, small and without a connection, for the run `MemoryTold`.

## 3. The runs

| run | checks | bounds |
|---|---|---|
| `KbdLock` | `ImplementsFifo`, `ReadyMeansEmpty`, `WritesArrive`, `DriverDrains`, `AsksAfterSet`, `NoAnswerDecoded`, `ScanSetLearned` where disabling port 1 works as a lock, with a key pressed and a byte refused at any moment, polls timing out and writes going over each other | ring of 3, 3 calls of 3 kinds, 1 key, 1 RESEND |
| `KbdRace` | `TypeOK`, `BusyMeansPending`, `PendingKept` where nothing protects the driver: late interrupts and late commands, port 1 on again in the middle of a call, writes over each other, stale registers | ring of 2, 2 calls, 1 key, 1 RESEND |
| `KmallocHeap` | `TypeOK`, `HeadersInHeap`, `PayloadsDisjoint`, `NotFreeTwice`, `OrderedBehindHead`, `NothingLost` | pages of 32 bytes, heap of 128, requests of 8, 24, 48 and 104 bytes |
| `PageAllocLeak` | `TypeOK`, `NoSharedFrame`, `ReservedKept` | 19 frames, pages of 4 bytes, 4 entries, 6 allocations |
| `ScanTyping` | `InBuffer`, `InTables`, `Faithful`, `Resynchronised` | 4 strokes of 8 keys, 1 lost byte |
| `PagingMap` | `HighIdentity`, `TablesAreTree`, `MapsIsolated`, `LookupsAgree` | a boot that marked the static tables; tables of 4 entries, 40 frames, 18 heap pages, 3 virtual pages, 2 frames |
| `Boot` | `NothingInService`, `ConfigRight`, `HandsOver`, `BootFinishes`, `KeyboardServed` | 2 firmware configurations, 1 key, 1 byte of the pointing device, 1 RESEND, 1 late answer, a good or bad self-test that may reset the controller, 1 interrupt of IRQ0 or IRQ8, 2 bytes for the RAM |
| `Terminal` | `InScreen`, `ScreenShowsText` | screen of 2 by 2, 2 texts by kmain and 2 by the handler, 1 change of colour or position |
| `Library` | `SearchRight`, `CompareRight`, `StoreRight`, `ItoaRight`, `TagFound`, `MemoryEndReal` | 6 bytes of memory with 3 values (0, a letter, one above 127), numbers to 120, memory maps of up to 4 regions behind tags of 3 sizes |
| `KbdReenable`, `LibraryTold`, `MemoryTold` | each violates what comments of the source say: section 5 | as the run next to it, or smaller |

`LibraryTold` and `MemoryTold` check `SomeCommentHolds`, a disjunction of "always" formulas, one for each comment. A behaviour
that violates it violates each of them at some point, so that its one counterexample refutes all the comments.

Why the bounds are enough for the cases of interest:

* Rings of 2 and 3 fill up, wrap around and drop the follow-up query with 2 and 3 calls. The theorems cover all sizes.
  457,000 states in `KbdLock`, 1.3 million in `KbdRace`. A write may meet an input buffer that is still full.
* `Boot` has 459,000 states. One of each disturbance is enough to meet every access of `ps2_init` with it, and any two kinds together; IRQ8 is the slave's first line, IRQ0 outranks the keyboard.
* A screen of two lines scrolls with the second newline or the fourth character; three characters wrap, and two texts by each thread meet in every pair of accesses. One of the characters is above 127. 2.8 million states.
* Six bytes hold two overlapping or disjoint strings of length 0 to 2, and any one up to length 5. Sizes 13 and 9 are no multiples of 8; numbers up to 120 have one to three digits in base 10. 697,000 states.
* A heap of four pages of four words has blocks at page boundaries, remainders of nothing, of one word
  (not split), of two (not split) and of three (split), lists of several blocks, both coalescings of one
  `kfree`, and a request above `TotalMemory`. It has 33,000 states.
* 19 frames: 12 are reserved, 4 are free in whole bytes, 3 lie in the partial byte; 4 entries use the 4
  free frames up, and the leak of `page_free` makes the bitmap full with entries to spare. 366,000 states.
* Four strokes: a byte lost in the first leaves three whole strokes to see the decoder recover. 1.9 million states.
* 40 frames and 4-entry tables: the heap grows past its three static last-level tables, so `sbrk` has to have
  tables made while it holds a page; two of the virtual pages share tables `map_addr` makes. 19,000 states.

### Fairness

`KbdLock`, `KbdReenable` and `Boot` have liveness properties. In the keyboard runs weak fairness is assumed of
`ps2_kbd_command_arg` (a call that has begun goes on: nothing in it waits for ever, and
`kmain` is never preempted except by handlers that return), of `kbd_int_handler` (interrupts
are enabled, the PIC delivers what is latched, and the handler's polling is bounded), of
`PortReceive`, of `CtrlObeys \/ CtrlTakes` and of `Keyboard` (the hardware is not broken: the controller gets round to its input buffer, if only after the polls have run out). Nothing is assumed of callers and of
the user. In `Boot` it is assumed of `Kmain` (its waits are 64 polls each), of `Interrupt` and `irq_handler` (what is requested and enabled
is taken, and handlers return), and of the controller and the keyboard; not of the user, of other devices or of page faults. Other
devices interrupt finitely often (`MaxRaised`): the timer has 100 interrupts a second, each over in microseconds, and does not keep `kmain` from going on.

`DriverDrains` and `AsksAfterSet` except two things. One is `lost`: a write that went over another one. If the byte that was
overwritten belongs to a command, no acknowledgement ever comes and the driver waits for ever, because nothing in it times out; on a slow controller
`ps2_port1_enable` at the end of `ps2_kbd_command_arg` can do that to the command just sent. `WritesArrive` and `NothingOverwritten` (section 4)
say that it takes a slow controller. The other one is `Crossed`: a refused byte together with a key press or a late answer. The
wrong byte then acknowledges the command in place of the keyboard, the driver sends an argument where the
keyboard expects a command, and the two can go on refusing each other's byte for ever.

`LibraryTold` and `MemoryTold` check disjunctions of `[]`-formulas, which are violated by a finite prefix of their counterexamples;
their fairness only says that the callers go on.

The deadlock check is on in every run: the final loop of `kmain` (`KmainLoop`, `Quiet`, `Rest`) is an action.

## 4. What is proved

All theorems hold for every value of the constants that satisfies the modules' `ASSUME`s.

**KbdCommandsProofs**, for every ring size, set of commands, machine and interleaving:

* `TypeSafe` (`TypeOK`), from `IInv == TypeOK /\ RegInv`. `TypeOK` alone is not inductive: between
  kmain's load of `pending_commands` and its store the handler may run. `RegInv` says that meanwhile
  the handler can only have lowered the variable, so a copy is an upper bound of it, and a copy that passed the room check is below the size.
* `PendingSafe` (`PendingKept`): a consequence of `IInv` and of slot arithmetic (`FreeSlot`): while there is room, the slot at `next_command_idx` is none of the pending ones.
* `BusySafe` (`BusyMeansPending`), from `BInv`, which adds `FirstInv`: the value 1 in the register at the
  test for "first" is never stale, since it was written when the driver was ready, and a ready driver's handler does not touch the counter.
* `LockSafe` (`ReadyMeansEmpty`), for machines on which the bracket is a lock (`LockMachine`), from `LInv`: inside the
  bracket no interrupt is latched and no handler runs, and how far "ready" and "nothing pending" come apart at each point of the call.

**KmallocProofs**, for every page size, every set of requests in whole words (`WholeWords`, a hypothesis of all six theorems) and every bound of the heap:
`TypeSafe`, `HeadersSafe`, `NeverFreeTwice`, `PayloadsSafe`, all from
`HInv == TypeOK /\ NotFreeTwice /\ Laid /\ Served`. The delicate part is `Laid`: the first branch of `kmalloc` counts
the header into the block's size, so sizes are not exact, and a block may claim 8 bytes behind its own end. `Laid`
says that these are always the first ones of a page, so they are the size of another block and never part of what anybody was promised, and that sizes and addresses are whole words, so that a remainder above 16 bytes has at least 24;
splitting (`SplitLaid`), extending (`ExtendLaid`) and coalescing (`CoalesceLaid`) keep it so.

**PageAllocProofs**: `TypeSafe` for every machine, also where `nframes * PAGE_SIZE` wraps; `SharedSafe` and
`ReservedSafe` (`ReservedKept`) for machines below 4GiB (`Small`), from `PInv == TypeOK /\ (~full => Marked /\ Distinct /\ KernelMarked)`; `ImageSafe`, which adds the
hypothesis that every frame of the image lies below `first_free_page` and concludes `ImageKept`.
All say "until the bitmap was found full", and except the frames in `Clearable`, whose bits `page_free` clears by mistake;
with `CallsFree = FALSE`, which is how the kernel is today, `Clearable` is empty and the exception is gone.

**KbdCommandsProofs**, continued, for `LockMachine`: `RefinesFifo` (`ImplementsFifo`), the refinement of `CommandFifo`. The initial states map to the empty queue,
and with `FInv == LInv /\ BInv /\ CInv` every step maps to a step of the queue or to a stutter. `CInv` adds what the ring holds in the middle of a call: the slot in front of `next_command_idx` is the
command just stored, before it is counted and until its first byte is written. The lemmas about `Ring` say what storing, counting and discarding do to it, wrap-around included.

**KbdCommandsProofs**, the bytes between driver and keyboard, for the same machines and callers that pass command bytes (`CommandsOnly`: 0xED and above, as everything `kmain` passes; the keyboard would refuse another byte for ever):
`AnswersSafe` (`NoAnswerDecoded`), `ScanSetSafe` (`ScanSetLearned`) and `WritesSafe` (`WritesArrive`), from `PInv`, and `NothingOverwritten`: without `InputTimeout` nothing is ever lost. Its parts: `LinkInv`, while a command is started exactly one message is
on its way, the byte, its refusal, its acknowledgement or the scan code set, and while none is started there is no message, unless a byte was lost, when there may be none as well; `SetInv`, the driver knows the set, or a query stands
behind every SET_SCAN_SET of the ring or is about to be queued. It covers any number of refusals.

**KmallocProofs**, continued: `OrderSafe` (`OrderedBehindHead`) and `LosesNothing` (`NothingLost`), from `OInv == HInv /\ OrderedBehindHead /\ NothingLost`. The order is needed for nothing being
lost: `kfree` coalesces with the neighbours in the list, and swallows a block between the two only if the list is not ordered.

**ScanCodeProofs**, for any number of strokes of any of the modelled keys:

* `FaithfulSafe` (`Faithful`), for sets of keys without PageUp, and `BufferSafe` (`InBuffer`): from `FollowInv == TypeOK /\ Follows /\ EachDecoded`. `Follows` pairs what is left of the stroke on the wire with the state of the decoder, so each byte finds the flags its predecessors set.
* `ResyncSafe` (`Resynchronised`), for any number of lost bytes: from `RecoverInv`. `Bounded` says how full the buffer can be after how many whole strokes: a lost byte may merge strokes, and the merged one ends before the second whole stroke does.
* `TablesSafe` (`InTables`): from `TableInv`, the same pairing with Pause included, which runs through the middle of the table with wrong flags.

**TerminalProofs**: `ScreenSafe` (`InScreen`) for every screen of at least two rows and all texts, from `ScreenInv == TypeOK /\ ColumnInv /\ RowInv`: which rows and columns a thread may have in its registers at each access, and that a handler that did not begin in one of the two windows
leaves `kmain` with a cursor it can go on with (`Parked`).
`TextSafe` (`ScreenShowsText`), also for texts of any length, from `PictureInv`: for each access of `vga_putchar`, whether the last character is drawn, whether the screen is scrolled, and which of the cursor's coordinates have moved. The paper of the property is a count over everything printed,
but no induction over the text is needed: what is printed later does not move what was printed before (`PaperKept`), and the place of the next character follows from that of the last (`PaperStep`).

**BootProofs**:

* `ServiceSafe` (`NothingInService`), from `ServiceInv`: in the handler of a vector exactly that interrupt is in service, with IRQ2 for one of the slave, and nothing on the controller that named a spurious one. `EoiEnds` says what a non-specific end of interrupt does then.
* `ConfigSafe` (`ConfigRight`) and `HandOverSafe` (`HandsOver`), from `BootInv`, for every configuration byte, every string of at most 31 bytes (`StringAssumption`: the controller's RAM has no room for more; the code writes 6) and any number of keys, refusals and devices. `ScriptSteps` computes the accesses of `ps2_init` for a string of any length.
  `ConfigAt` gives, for each access, what the controller has in its buffers, its configuration and its pending argument; the argument that makes it work is that port 1 is off from the third access to the end of the RAM writes, so no key gets between a question and its answer.
  `AnswerAt` does the same for the reset: the keyboard holds keys and one RESEND, or its two-byte answer and keys behind it. That a wait ends with the buffer ready unless it is counted in `timeouts` is `TimeoutsAssumption`.

**PagingProofs**, for every number of entries of a table, every machine and any sequence of calls: `TreeSafe` (`TablesAreTree`), `HighMapSafe` (`HighIdentity`), `LookupsSafe` (`LookupsAgree`) and `IsolationSafe` (`MapsIsolated`). Each theorem names what it asks of the machine and of the callers:

* `ImageMarked`: the value at `kernel_end` lies behind the static tables (all four theorems; the code does not see to it). `Small`, less than 4GiB: the bitmap's bound is a product of 32 bits. `HighMapCovers`: the high map covers the memory (64GiB; only `HighMapSafe`). `HeapFits`: the heap stays in the region of its top-level entry (512GiB; only `IsolationSafe`).
* `KeepOffHighMap`: callers do not map over a large page, which `map_addr_in` would take for a table. `KeepOffKernel` (only `IsolationSafe`): nor over what `mmu_init` or `sbrk` map.
* `[][MemoryLasts]_vars`: before every step that is not a stutter there are 4 frames, for three tables and a page. On a full bitmap `page_alloc` hands out garbage.

`MCPaging` states all but the last as an `ASSUME`, so TLC evaluates them for the run; its states all satisfy `MemoryLasts`.
The invariant `TreeInv` says that there is a level for each frame (`Levels`: 4 for the top, 1 for the last tables, 0 for the rest) such that every entry of a table leads one level down (`Down`), no two to the same table (`Apart`), frames that are not marked are zero (`Clear`), pages of the heap have level 0, and the high map is as `mmu_init` made it. A new table is a frame
of level 0 that was not marked (`FreshFrame`), so raising its level keeps all of it (`GrownTree`); writing the last entry of a walk keeps it too (`WrittenTree`). `MapInv` adds what each page is mapped to. `map_addr_in` is the composition of three walks and a write, so the step is proved once per level (`LevelStep`).

**LibraryProofs**, for every memory, every argument that keeps to the functions' preconditions, all numbers of at most 20 digits (`NumberAssumption`: those of 64 bits) and all lists of tags that end with the only end tag and have at most one memory map (`InfoAssumption`):
`SearchSafe` (`strchr` and `strrchr` for characters below 128), `CompareSafe`, `StoreSafe` (`strcat` and `strncat` are not part of it), `ItoaSafe` (where the byte below the buffer is 0), `TagSafe` and `MemoryEndSafe`, the six invariants of `Library`, from `LibraryOK`, their conjunction with the type of the memory. The state is simple; the work is in the loops. A loop is a recursive function, for TLA+ a `CHOOSE` of a solution of its equation, so there are two things to show:

* that a solution exists. For the loops that go up to the first position of a set, `LoopExists` gives it once for all; for `strrchr`, the copies and the walk over the tags it is written down (`RetIs`, `CopyUpCopies`, `CopyDownCopies`, `FindTagIs`); for the places of the tags, the digits and the end of memory it is built for one position more at a time (`PlaceExists`, `WrittenExists`, `EndExists`).
* what every solution returns. The library's induction theorems take an operator as a parameter, which the provers do not instantiate, so induction is stated for sets (`Upwards`, `Downwards`), from the well-foundedness of `Nat`: the set of positions where the claim holds contains all of them.

The arguments: memmove's loop reads each byte before it overwrites it, since it moves away from the overlap; the stride `(size + 7) & ~7` leads from a place that is a multiple of 8 to the next one (`AlignedIs`); the value of the digits of `itoa` goes back through the quotients they came from (`ValueIs`), and the reversal puts digit `i` where digit `idx - 1 - i` was, the middle one and the terminator included (`BufferIs`).

A proof attempt changed a property: `InBuffer` used to allow any number of lost bytes. That held in the run, which loses one, but when extended keys lose their last byte four times in a row `scan_code_buf` is overrun too, so it now speaks of one.
`irq_set_handler` was rewritten as a function constructor and `Leaf` of `Paging` as a record constructor, which the provers understand. `strlen` now stops at the end of the memory (its callers pass strings that end before), since a recursion that leaves its domain has no value, and `strrchr` recurs over the position alone.

Only model-checked: every liveness property and `AsksAfterSet` (the prover does not reason about fairness or `ENABLED`). All invariants of the passing runs are proved. No module has a `RECURSIVE` operator.

## 5. Where the code and its comments disagree

| run | the code | the comment |
|---|---|---|
| `KbdReenable` | on a controller that enables port 1 when written to, the acknowledgements of SET_SCAN_SET arrive before the query is queued (`ps2_keyboard.c:110` before `:118`); the query then stays in the ring of a driver that is ready | `ps2_keyboard.c:113` |
| `LibraryTold` | `strchr` and `strrchr` compare a signed character with an unsigned one (`string.c:113`, `:186`): a byte above 127 is never found | `string.c:109`, `:181` |
| `LibraryTold` | `strcat` and `strncat` begin behind the terminator of `dest` (`string.c:83`, `:97`: `while (*dest++)`): the string at `dest` stays what it was | `string.c:78`, `:91` |
| `LibraryTold` | the reversal of `itoa` begins at the terminator and exchanges it with the byte below the buffer (`printk.c:26`), which is printed behind the number unless it is 0 | `printk.c:24` |
| `LibraryTold` | the walk over the memory map advances by `entry_size / 8` structures, so it visits every third entry (`multiboot2_parser.c:32`) | `kmain.c:26` |
| `MemoryTold` | `split_block` makes a block of a remainder of 17 to 23 bytes (`kmalloc.c:176`), whose `next` pointer then lies outside it, and at the end of the heap outside mapped memory | `kmalloc.c:13`, `:14` |
| `MemoryTold` | `kmain` passes the value stored at `kernel_end` (`kmain.c:30`), so `first_free_page` (`mm.c:261`) is not the page behind the image; with zeros there, all but the bitmap's bytes counts as free | `kmain.c:7` |
| `MemoryTold` | `map_addr_in` stores an address in the field for a frame number (`mm.c:75`) | `mm.c:53`, `:82` |

Four more, which the passing properties state around or no property is about:

* `kfree` links a block below the head behind the head when the list has two or more (`kmalloc.c:152`); `kmalloc.c:16` says that blocks are ordered by their addresses. `OrderedBehindHead` is what holds.
* `page_free` clears the bit of frame number >> 12 (`page_alloc.c:109`), so frame 0 for all of the first 4096 frames; `page_alloc.c:85` says it is always occupied. `NoSharedFrame` and `ReservedKept` except the frames `page_free` can clear.
* Pause is decoded as NumLock and leaves `expect` at 0 (`ps2_keyboard.c:196`), whatever `ps2_keyboard.c:172` says of the last byte check. `Faithful` is about what is typed before a Pause.
* `mm.c:224` says that the high map covers 128GiB; its 64 tables of 512 large pages of 2MiB cover 64GiB. `HighMapCovers` is about what the tables cover.

## 6. Other facts the models rest on

* `OrderedBehindHead` is what remains of the order of the free list. It keeps `kfree` from losing blocks, but a block
  next to the head and below it is not coalesced with it, so memory stays fragmented.
* A request below 8 bytes makes the remainder's header overlap the `next` pointer that `split_block` is about to
  read (`kmalloc.c:179`): one more case in which the model stops. A block that is not split is not cleared, whatever `kmalloc.c:15` says.
* A caller of a first-branch block whose whole size is used is not promised the surplus 8 bytes, but `size` announces it.
* When the page allocator is full, `page_alloc` marks and hands out a garbage frame (`page_alloc.c:86`): hence `full`.
* `total_memory` subtracts bytes from frames and wraps (`page_alloc.c:35`), so the sanity check of `kmalloc` hardly ever refuses; `Kmalloc` keeps the check with an arbitrary `TotalMemory`.
* The release of PrtSc is reported as a press (`ps2_keyboard.c:207`), and PageUp has PageDown's keycode (`:80`): the first is excepted in `Faithful`, the second key is left out of `ScanTyping`.
* One lost byte and a release of PrtSc, or several lost bytes and other keys, can carry the decoder past `scan_code_buf`, and F7 after the lost tail of an extended key reads behind `scan2_ext_to_keycode`: the exceptions of `InBuffer` and `InTables`.
* `mmu_init` sets more pages aside for the bitmap than `page_allocator_init` marks, so the last of them are also handed out; `TablesAreTree` shows that no table suffers.
* `strcmp` and `strncmp` return 0 when one string is a prefix of the other, and order bytes above 127 before the others; `strchr` and `strrchr` do not find the terminator; `strncpy` neither pads nor ends what it cuts. `memset`'s asm moves `rdi` without saying so, so a build may return the end.
* Numbers are printed right where the byte below the buffer of `itoa` is 0. A format that ends in `%` runs past its terminator.
* Between the store of row `VGA_HEIGHT` and the end of the scroll, and between the stores of `VGA_WIDTH` and of 0 to the column (`vga_print.c:73`, `:74`), a handler that prints writes behind the row or
  the screen, and leaves a row or a column that no comparison catches any more: the exception `raced` of `InScreen`. `InScreen` shows that there is no other such window.
* `entry` sign-extends a character above 127 over the colour (`vga_print.c:21`). `ScreenShowsText` says nothing about the colour of such a character.
* The driver has no way out when a byte it wrote is lost: `DriverDrains` and `AsksAfterSet` except it (section 3).
* A failed self-test leaves the keyboard without its handler (`ps2_8042.c:182`), and a byte of the pointing device behind the flush can be taken for the configuration: exceptions of `HandsOver` and `ConfigRight`. With IRQ12 enabled by a self-test that resets the controller, such a byte stays in the output buffer for ever and blocks the keyboard: the exception of `KeyboardServed`.
* An exception without a handler returns to the instruction that caused it (`idt.c:142`), for ever. `multiboot_get_memory_end` does not check that there is a memory map.
* The address of the parameter `kernel_end`, not its value, decides how many low tables `mmu_init` fills in (`mm.c:236`); `LOW_TABLES` is a parameter of `Paging`.
* `mmu_get_page` ignores large pages, so `LookupsAgree` is about pages outside the high map.

## 7. What is not modelled, and the plan

Not modelled: the boot assembly (straight-line code that runs once: CPU checks, first page tables, the switch to long mode) and the GDT (a constant table; its
loader is never called). In modelled parts: access flags, the TLB and `mmu_set_directory`, which `mmu_init` calls once with the
directory in use; the registers saved by the interrupt stubs; the port 2 functions of the 8042, which have no caller; the characters `handle_data` prints (they are the handler's texts in `Terminal`); the constants of headers that nobody uses.

Abstracted so that a hazard of section 1 is out of reach: page tables are zero when they are made, so that stale contents of a frame (`mm.c:67`) show nowhere; what `kmalloc` does
behind a header that was overwritten; what paging does where the image's tables were handed out.

Done: all modules of section 2; proofs about every modelled component.

Next, in this order:

1. Abstract specifications: a set of disjoint grants that `Kmalloc` implements; an ownership map for `PageAlloc`.
2. `Paging` with frames that are not zero at boot, and with a boot that did not mark the static tables.
