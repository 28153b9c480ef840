# Smetana in TLA+

Smetana is a small 32-bit x86 kernel: it boots from GRUB, sets up descriptor
tables and interrupts, and runs an interactive shell on the VGA text screen.
There is one thread, `kmain`, and there are interrupt handlers. This directory
holds TLA+ modules that model the kernel's logic, TLC configurations that check
them on small instances, and proofs, checked by TLAPS, of what matters most for
every value of the constants.

Paths below are relative to the repository; line numbers are in `PROJECT.json`,
which maps every definition of a module to the lines it stands for.

## The system

| component | state | operations | how it interacts |
|---|---|---|---|
| Interrupt path: `src/idt.c`, `src/isr.c`, `src/8259_pic.c`, `src/asm/irq.asm` | table of handlers, masks and in-service bits of the two 8259s, interrupt flag, frames on the stack | initialise the controllers, load the table, `sti`; enter, dispatch, end, return | calls a registered handler with interrupts disabled; cuts the main thread anywhere |
| Keyboard driver: `src/keyboard.c` | `g_ch`, `g_scan_code`, two modifiers, a line buffer and its position | handler for IRQ 1; `kb_getchar`, `kb_get_scancode`, `keyboard_read` | the handler writes globals the readers on the main thread poll and reset, without a lock |
| Line input: `getstr_bound` in `src/console.c`, loop of `kmain` | kmain's 255-byte buffer, write pointer | store a character, erase, run the command | calls `kb_getchar`; edits a second copy of the line the driver edits too |
| Text console: `src/console.c`, `src/vga.c` | VGA buffer, index into it, cursor of the program, cursor of the hardware, colours | put, newline with scroll, clear, two erasures, goto, page scroll, colours | `printf`, `announce` and the echo of the line input end here |
| Heap: `src/utils.c` | list of blocks in a fixed region | `malloc`, `free` | `fs_create_node` is the caller |
| Directory tree: `src/filesystem.c` | nodes with a name, a parent and an array of children; current directory | `fs_mkdir`, `fs_cd`, and `fs_path_to_node`, `fs_ls`, `fs_print_working_directory`, which read | called by the shell's commands |
| Prompt path: `get_current_path` in `src/kernel.c` | none | build a path in a buffer | climbs the tree |
| Shell commands: `kmain` | line, command and argument buffers, a copy of the colours | show the prompt, split the line, dispatch | calls everything above |
| Waver: `src/programs/waver.c` | density, time | draw a frame, poll a key | asks `keyboard_read` once a frame; started by the shell |
| Formatted output: `printf`, `announce`, `itoa` | a 32-byte buffer for the conversions of one call | print with `%d`, `%u`, `%x`, `%s`, a zero, a width | ends in the console |
| Exceptions: `src/isr.c`, `src/asm/exception.asm` | the structure its stubs push | reset the FPU and return (7 and 16), or print and stop | beside the interrupts, from any code |
| String library: `src/string.c` | `strtok`'s place | `strncpy`, `strtok`, `memmove`, ... | called by the others |
| Descriptor tables, port access, boot entry, VGA graphics | constant tables, device registers | straight-line code | at boot, and to draw |

`src/liner.c` and the `kernel.c` beside the Makefile's `src/kernel.c` are not
part of the build.

### What is hard

* **Interrupts against readers.** `kb_getchar` is `while (g_ch <= 0); c = g_ch;
  g_ch = 0; g_scan_code = 0;` and the handler may run between any two of these
  accesses, clearing or replacing `g_ch`.
* **Boot order.** Interrupts are enabled before the keyboard has a handler.
* **The return from an interrupt.** The stub enables interrupts before `iret`;
  the slave controller needs an end of interrupt of its own; a spurious
  interrupt has no in-service bit to clear.
* **Exceptions** bring an error code or not, come while an interrupt is being
  handled, and have to give a program back its flag, its stack and its registers.
* **Two copies of the line**, edited by different code from the same keys, and
  an unchecked pointer that goes backwards on a backspace.
* **The heap's arithmetic**: rounding that may wrap around, splitting when the
  rest is just too small, merging forwards only.
* **Names**: truncated when stored, not when looked up; equal names are allowed;
  `.`, `..` and `/` are special to `cd` and ordinary to `mkdir`.
* **The prompt's path** is built backwards by shifting bytes that overlap, in a
  buffer it may not fit in.
* **Colours**: the prompt sets four, saves them before and puts them back after
  the line; `announce` and the list of colours do so on their own.
* **Waver's poll**: once a frame, of a variable the handler clears at every key,
  loaded in one access and reset in the next.
* **Numbers**: the least int has no negation; conversions share a buffer.
* **The console's corners**: the last column of the last line, a tab across it,
  three notions of where the cursor is, a scroll that clears another line than
  the one it brings in.

Nothing is persisted and nothing is sent over a network, so there is no crash
recovery, and no message loss apart from a scan code nobody reads.
`PROJECT.json` lists each hazard at its line.

## Modules

| module | stands for | its theorems | its instance for TLC |
|---|---|---|---|
| `Interrupts` | boot order, 8259s, stub, dispatch, EOI, return | `InterruptsProofs` | `MCInterrupts` |
| `Exceptions` | exceptions beside them, EXTENDS `Interrupts` | `ExceptionsProofs` | `MCExceptions` |
| `Keyboard` | handler and readers of the driver, a user | `KeyboardProofs` | `MCKeyboard` |
| `TtyInput` | `getstr_bound` and kmain's loop, EXTENDS `Keyboard` | `TtyProofs` | `MCTtyInput` |
| `Waver` | `draw_wave`, started from there, EXTENDS `TtyInput` | `TtyProofs` | `MCWaver` |
| `Heap` | `malloc`, `free` | `HeapProofs` | `MCHeap` |
| `Allocator` | abstract: what callers of a heap are promised | | |
| `FileSystem` | directory tree, what the prompt path is | `FileSystemProofs` | `MCFileSystem` |
| `Shell` | kmain's loop over it, EXTENDS `FileSystem` | `ShellProofs` | `MCShell` |
| `Console` | text console | `ConsoleProofs` | `MCConsole` |
| `Terminal` | abstract: lines of text that scroll | | |
| `Printf` | formatted output, EXTENDS `Console` | `ConsoleProofs` | `MCPrintf` |

`Exceptions`, `Waver`, `Shell` and `Printf` are compositions: each has the
variables and the actions of the module it extends beside its own.
`Exceptions` is also shown to implement the specification of that module under
a refinement mapping, so that what is proved of it goes on to hold. The steps of
`Shell` on the tree are `FileSystem`'s actions as they stand; the run `shell`
checks the tree's properties again under the loop.

A name like `ClearChSkipped` or `SplitsTooEarly`, defined just before the
definition it resembles, is a faulty variant of that definition. No
specification uses it; `PROJECT.json` pairs each with the property that fails
when it takes the place of the original, so that no property is there in vain.

### Interrupts

Until `pic8259_init` has run, a line has the number the firmware gave it, which
is that of an exception; that no interrupt ever has one is part of `TypeOK`.
`boot` says how far `kmain` has come (`pic8259_init`, the rest of `idt_init`
with its `sti`, `console_init`, `keyboard_init`), one action each; kmain runs
only while no interrupt is being handled. `frames` is the stack of interrupts
being handled, each with the number its stub pushes and the step it is at:
dispatch, EOI to the slave, EOI to the master, `sti`, `iret`. `shadow` is the
processor's rule that `sti` takes effect one instruction late. The 8259s
(latched requests, in-service bits, priorities, cascade, masks left by the
firmware, spurious interrupts), the devices and the keyboard controller, whose
request line rises only when its output buffer fills, are external.

### Exceptions

`exc` is where the handling of an exception is, `stack` the words pushed for it,
each with the name of what was pushed, `regs` the registers. The processor
(external) pushes an error code or not; the stub's group of pushes, the C
handler, the restoring of registers, `sti` and `iret` are one action each, as
interrupts are disabled from the gate to the `sti`. Exceptions other than 7 and
16 happen anywhere, inside the handling of an interrupt as well, and end in
`"halted"`. 7 and 16 are raised by a program the shell runs (`int $0x10` in
`vga.c` ends as exception 16). `saved` is a history variable: flag and shadow at
the gate, which is what the interrupt path is mapped to meanwhile. The
structure's last two fields, `useresp` and `ss`, are in `REGISTERS` and never on
the stack, since the processor does not change its privilege. The
exceptions 17, 21, 29 and 30, whose error codes the stubs do not know, need user
mode or features that are off; entry 128 needs an `int 0x80` nobody executes.

### Keyboard

One action for the whole interrupt handler, with one disjunct per case of its
switches: it runs with interrupts disabled, and that it is not interrupted is
what `Interrupts` shows (`NoNesting`). The readers take one step per load or
store of `g_ch` and `g_scan_code`; the build is without optimisation, so each C
access is one instruction. The user and the controller's queue of scan codes
are external; `Patient` says whether the user waits until the last key was read
before touching the next one. `fresh` is a history variable: the character in
`g_ch` has not been loaded by a reader yet. The call of `console_backspace` in
the handler has no effect in the model: the repository nowhere defines that
function.

### TtyInput

Extends `Keyboard` by `getstr_bound`: its calls of `kb_getchar`, the three ways
it treats a character, and the loop of `kmain` around it, which clears the
buffer and runs a command. `line` is what the buffer holds below the write
pointer, `wp` the pointer relative to its start; they are kept apart because the
code moves the pointer without a lower bound. It has no upper bound either, and
`NeverBelowBuffer` says nothing of that end: a line of more than 254 characters
runs past kmain's buffer in the code.

### Waver

A line that names the program starts it. A frame is one call of
`keyboard_read`, whose accesses are `Keyboard`'s steps, and then `UseKey`.
Behaviours are followed until the program is left. Nothing is assumed of the
time a frame takes or of when keys are touched: the user of waver (`WaveUser`)
may touch one between the load of `g_ch` and its reset, and the next before the
last was read. Only a scan code that would wait behind another in the controller
is left out, as it would be handled no sooner than one touched later. The user
of the shell, who starts the program, waits (`Patient`).

`wanted` and `lost` are history variables: the density the user has asked for,
and how many of his plus and minus the next scan code, or the reset of `g_ch`,
took away before any reader had loaded them. `lost` is capped at
`MAX_DENSITY - 1`, the widest two densities can be apart; beyond it
`OffByLosses` says nothing a range does not.

### Heap

`blocks` is the list, a function from addresses to headers, `current` and
`request` are the locals of the call in progress. The loops of `malloc` and
`free` are taken one iteration per step, so that `SkipBlock`, `TakeBlock`,
`OutOfMemory`, `MergeNext` and `FreeReturns` are actions. Arithmetic on sizes is
modulo `WORD`, the model's 2^32. `live` is a history variable: what callers hold
and the sizes they asked for. `free` is called with pointers callers hold.

### FileSystem

`nodes` is the sequence of allocated nodes; a node's number is its place. Names
are sequences of characters because truncation and slashes matter. `Capacity`
stands for the heap: when it is reached `fs_mkdir` fails. A failing command
changes nothing in the code, and is not a step. `visited` is a history variable.
The functions that only read are operators: `fs_path_to_node`, whose `Walk` is
the loop over `strtok`, character by character, and `get_current_path` with its
break condition.

### Shell

`at` is the place in kmain's loop. `StartPrompt`, `Climb` (one iteration of
`get_current_path`, with `memmove` byte by byte over `temp`), `ShowPrompt`,
`ReadLine` and `RunCommand` are its steps. `color` is the pair of the console's
colours, `orig` kmain's copy, `original` that of `print_available_colors` and
`announce`, which set colours of their own, print in them, and put back what
they saved in a second step, `Restore`. Lines are sequences of characters in
which a word of the command language (`mkdir`, `RED`) counts as one character,
since only its end matters; blanks and the characters of names are their own.
The branch of `color <fg> <bg>` is modelled with the test the code makes, and is
never taken (see below). How a line comes from the
keyboard is `TtyInput`'s.

### Console

`con` is the buffer, the index, both cursors; the operations of `console.h` are
functions of it, and an action each. `Apis` selects the operations in use, since
some properties hold only as long as `console_ungetchar` is not called (nothing
in the kernel calls it). `Terminal` knows no screen, only lines of characters of
which the oldest scroll off: `Lines` is what of the buffer it is shown to be.

### Printf

`Take` is one turn of printf's loop, `Reading` where the loop is after so many
characters of the format; the buffer of 32 bytes goes from conversion to
conversion, as it does in the code. `itoa` works on an int of which there are
`WORD` values and keeps the terminator and the sign. `printf` and `announce` are
actions on the console beside all of its own. `Calls` are those programs make;
`CallsAssumption` has each conversion find an argument of its kind, which C
leaves to the caller. `MayCall` is a bound: a call that is not in `Often` is
made on a clear screen only.

## Runs

All runs that pass explore the whole state space of their instance; `printf`
follows only screens without numbers on them (its `CONSTRAINT`), and judges the
steps that print numbers. Deadlock is checked but
for `shell`, where the machine may be switched off, and `tty`, whose behaviours
end with waver.

| run | what is asked | instance |
|---|---|---|
| `irq` | `TypeOK`, `NoNesting`, `OwnBitsOnly`, `FrameFitsStruct`, `ProgramResumes`, `ImplementsInterrupts`, `KeyServed` | lines 0, 1, 4, 8, 12, of which 4 is masked; spurious 7 and 15; two scan codes held back; exceptions 2, 13, 16 |
| `irq_boot` (fails) | `KeyAnswered` | lines 0 and 1 |
| `kbd_eager` | `TypeOK`, `NoDuplicate`, `ModifiersTrack`, `EnterCommitsLine` | five keys, 3-byte buffer, two scan codes in the controller, `kb_getchar` and `keyboard_read`, a user who waits for nothing |
| `kbd_nul` (fails) | `GetcharReturnsChar` | three keys, such a user |
| `tty` | `NeverBelowBuffer`, `EditedLineIsTyped`, `GetcharReturnsChar`, `OffByLosses`, `CharReachesShell`, `EnterRunsCommand`, `EscLeavesWave` | five keys, 3-byte buffer, lines of two characters, a user who waits; in waver ESC and the key that prints + with shift, a user who does not; densities 1 and 2 |
| `tty_erase` (fails) | `ShellGetsEditedLine` | a letter, Enter, backspace |
| `heap` | `TypeOK`, `BlocksTile`, `LiveBlocks`, `NoneSkipped`, `CallsReturn`, `ImplementsAllocator` | 84 bytes, 12-byte headers, `WORD` 176, requests of 7, 24, 52 and 173 bytes |
| `shell` | `ShellTypeOK`, `TreeOK`, `VisitedReachable`, `PathLeadsBack`, `PathAsMeant`, `SplitAsTyped`, `MkdirEnterable` | 23 lines; names of at most two characters, two children, five nodes, a path buffer of seven bytes, commands of at most two characters |
| `fs_prompt_fits` (fails) | `PromptPathFits` | paths of seven bytes |
| `con_text` | `TypeOK`, `CursorAtIndex`, `BlankBelow`, `ImplementsTerminal` | 3 by 2 screen, ten items, letter, space, tab, line feed, NUL, a negative character, two colours |
| `printf` | `WritesOnScreen`, `NumbersReadBack`, `ConversionsApart` | 3 by 2 screen, every operation; every number of an 8-bit int in three conversions |
| `con_newline` (fails) | `NewLineCleared` | 2 by 2 screen, two colours |

### What the passing runs show

* `irq`: no interrupt is taken on top of another although the stub enables
  interrupts before it returns (take the one-instruction delay of `sti` away and
  `NoNesting` fails); the in-service bits are always exactly those of the
  interrupt being handled, so that each end of interrupt clears its own and a
  spurious one nobody's. No interrupt is taken under a number of the firmware's.
  Whatever an exception's stub pushes, the C code finds every value that is
  pushed under its name; a program that goes on after one has its place, its
  stack, its flag and every register but `eax`, of which `ProgramResumes` says
  nothing; the interrupt path does not notice. A scan code whose request comes
  after registration is read unless the kernel has stopped.
* `kbd_eager`: the handler never leaves its buffer; a key press is never read
  twice; the modifiers are the user's when the controller is drained; Enter
  leaves exactly the edited line as a C string, whatever longer lines were in
  the buffer before.
* `tty`: every character of the shell's user is returned by `kb_getchar`, itself
  and not a later one in its place, and none is 0; the shell's pointer never goes
  below its buffer, for the reason that the driver keeps every backspace to
  itself; the driver's line is always a subsequence of the shell's; Enter runs
  the command. In waver, whose user waits for nothing, the density differs from
  the one asked for by no more than the presses no reader has loaded, at the end
  of the range too: no press is counted twice, and one that is loaded is counted.
  An ESC that `keyboard_read` has still to load, and that no other key takes the
  place of, ends the program.
* `heap`: the blocks tile the heap at every step; the used blocks are those
  callers hold, each large enough unless its size wrapped around; `malloc`
  returns NULL only if no block of the list is large enough; every call returns;
  and what callers see is an `Allocator`.
* `shell`: the nodes are a tree, parents older than children, so loops that climb
  end; a directory the shell has been in stays reachable by the names it was
  entered by, although `mkdir` repeats names; a directory just made under a name
  that its parent had no child of, and that is neither cut off nor special, is
  the one that name enters; the path shifted together is the one meant, and if
  complete and of ordinary names leads back; a line is split at its first blank
  with nothing lost, or has its first word cut off and no argument.
* `con_text`, `printf`: index and both cursors agree and the screen is a
  scrolling terminal's, through wrapping, tabs, colours and bounded erasing;
  with every operation in any order nothing is written outside the screen. Every
  number of the small int reads back from the screen, as wide as asked for;
  conversions of one call do not see each other.

### What the failing runs show

Each checks a sentence of the source, from a comment or a text it prints, and is
listed as a finding.

* `irq_boot`: the interrupt of a key touched before `keyboard_init` is taken
  between `idt_init`'s `sti` and the registration of the handler: it is
  acknowledged, nobody reads the scan code, the controller's buffer stays full
  and the keyboard is dead. (A key touched before `pic8259_init` comes to the
  same: the initialisation forgets its request, and the buffer is full.)
* `kbd_nul`: between `kb_getchar`'s test and its load an interrupt clears
  `g_ch`; the "blocking character read" returns 0.
* `tty_erase`: an erased character is still in the shell's command.
* `fs_prompt_fits`: a path that passes the test of `get_current_path` takes one
  byte more than its caller's buffer, because of the leading slash.
* `con_newline`: the scroll clears the end of the buffer, not the new line,
  which keeps the colours of an earlier scroll.

Also seen in the source, without a run of its own:

* "restore all registers" (`exception.asm:60`) is not the last word: four lines
  on the stub loads `eax` from `cr0`, and a program that goes on after exception
  7 or 16 finds it there. `restore` of `Exceptions` does the same, and
  `ProgramResumes` leaves `eax` out.
* `useresp` and `ss` of the structure are not "pushed by the processor
  automatically" (`isr.h:16`), since no exception changes the privilege in this
  kernel; `print_registers` (`isr.c:99`) reads what lies behind the frame.
  `FrameFitsStruct` leaves the two out.
* The help text's "color <fg> <bg> - Set text color" (`kernel.c:194`) lists the
  colours and sets none: the first word of a line never contains the blank the
  branch of `kernel.c:223` looks for.
* "Press ESC to exit" (`kernel.c:218`) may take two presses: an ESC whose
  interrupt comes between `keyboard_read`'s load of `g_ch` and its reset
  (`keyboard.c:194-195`) is cleared unread. It is what `EscLeavesWave` excludes,
  and what `OffByLosses` counts of plus and minus.
* `console_ungetchar` across the start of a line puts the cursor one past the
  end of the line before (hence the restriction on `Apis` in `CursorNeverDrifts`
  and what rests on it; nothing leaves the screen all the same).
* Of directories of one name made in one parent only the first can be entered:
  `mkdir` does not refuse the name and `cd` takes the first that has it.
* `print_registers` passes four arguments to five conversions and its labels are
  shifted by one: what follows `cs=` is `ss`.
* There is no BIOS behind `int $0x10` in protected mode: `vga_init` reaches
  exception 16, and the video mode stays what it was.
* `%0nd` puts the zeros before the minus of a negative number.
* The driver's line keeps the keys pressed in waver, and the next command's
  Enter finds them there; only the shell's own line is used.

### Bounds, and why they are enough

* *Keys*: one per case of the handler's switches, and one that prints; a second
  printing key behaves the same. `tty` has a letter that prints two characters,
  with shift and without, so that order matters, and a tab, which the shell
  stores and the driver's line does not.
* *Readers*: the runs call `kb_getchar` and `keyboard_read`; `kb_get_scancode`,
  which nothing in the kernel calls, is modelled and covered by the theorems.
* *Scan codes in the controller* (`FIFO` 2): the handler can be late by a whole
  press and release, which is what loses or replaces a character.
* *Line buffer* 3 bytes: lines that fill it, overflow it, are erased to the
  start and followed by shorter ones.
* *`LineBound`* is the only bound on the shell's line; the code has none, and a
  line of 255 characters would leave kmain's buffer. That is a hazard listed
  without a property.
* *Heap*: three blocks with a header fit, which is what merging on the right, on
  the left and in the middle needs; the requests are one that rounds up, one
  that splits, one that takes a block whose rest is too small to split, and one
  that wraps around. `WORD` leaves room behind the end of the heap, as 2^32
  does, so that only the rounding of a request can wrap around.
* *Waver*: ESC, and the key that prints + while the shift key the user may have
  kept from the shell is held, and = without it. Densities 1 and 2, so that the
  end is reached and pressed against, and one key lost makes a difference; one
  `draw_wave` a behaviour. Minus and wider ranges are left to the theorem, which
  holds for any keys: together with the shell's they would be too many states
  for the liveness properties.
* *Lines of the shell*: `mkdir` and `cd` with every argument of the tree's, no
  argument, an empty line, one that begins with a blank, a first word of just
  the length that is kept and one that is cut off, each with and without an
  argument, colours with and without arguments, the end. A path of two
  directories fits the buffer, a third is cut off.
* *Numbers*: an 8-bit int has every corner of a 32-bit one: zero, the least one,
  one and more digits in both bases, widths smaller and larger than the text.
* *Exceptions*: one with an error code, one without, one that is handled.
* *Directory tree*: five nodes allow siblings of equal name, a full directory
  and depth three; the arguments hold the empty one, a name, a longer one, one
  that is cut off to it, and two special ones.
* *Screen* 3 by 2 (2 by 2): a tab is longer than a line, both lines can be full,
  every corner case of the cursor is reached; the buffer has items below the
  screen as the real one does.
* *Interrupt lines*: one above and two below the keyboard in priority, the first
  of the slave (number 40, the boundary in `pic8259_eoi`), both spurious lines.

### Fairness

Nothing is assumed of users and devices. Weak fairness of the handlers and of
the main thread's steps: there is one processor, it never stops, and interrupts
are enabled outside handlers. In `Interrupts` delivery of a request is strongly
fair, as the processor looks for requests before each instruction, and a device
asks again only after its last interrupt was answered; a request of higher
priority may still overtake any number of times in the model, until it is not
pending for once. `Heap`'s loops are weakly fair steps of the only thread. With
exceptions the same holds: their stubs go on, and the kernel's own code does
while no exception is being handled. Waver's steps are the main thread's. Safety
runs assume no fairness.

## Proofs

All theorems hold for every value of the constants that satisfies the
assumption of the module (`KeyboardAssumption`, `HeapAssumption`, ...), with the
extra hypotheses given here.

| theorem | says | argument |
|---|---|---|
| `NumbersMapped`, `HandlersDoNotNest`, `EndsOwnInterrupt` | `Interrupts` keeps `TypeOK`, `NoNesting`, `OwnBitsOnly` | `IntInv` adds `Gate`: while a frame exists the flag is clear or `sti` was the latest instruction, so nothing can be delivered, from a stack of one frame the bits follow step by step; and `Closed`: until the controllers have been initialised the flag is clear, so that no number is the firmware's |
| `NoNestingWithExceptions`, `FrameFits`, `ProgramGoesOn` | `Exceptions` keeps `NoNesting`, `FrameFitsStruct`, `ProgramResumes` | `ExcInv` adds to `IntInv`, with the flag the gate saved in place of the flag: nothing can be delivered while an exception is handled, and the stack holds, at each step of the stub, the words it should; below a handled exception lies a program with interrupts as they were |
| `ExceptionsUnnoticed` | `ExcSpec => ImplementsInterrupts` | under `ExcInv` every step of an exception is a stutter below, the last one because `eflags` brings back what was saved |
| `TypeCorrect` (`Keyboard`), `ReadAtMostOnce` | `Keyboard` keeps `TypeOK` and `NoDuplicate` | the ranges of the character tables bound `g_ch`; a non-zero `g_ch` outside the window between load and reset is fresh |
| `PatientGetchar` | a patient user's `kb_getchar` returns a character | while a reader is between test and load the controller is empty, so `g_ch` stays positive |
| `ModifiersFollowUser` | `Keyboard` keeps `ModifiersTrack` | `ModifiersInv`: the scan codes on their way take the driver's modifiers to the user's, one after the other; a handler takes the first, a user adds one at the end |
| `EnterCommitsTheLine` | `Spec => EnterCommitsLine` | the terminator goes to the position, and no character below it is 0: only printing characters are stored, and an erased one is above the position |
| `BufferSafe`, `WaverBufferSafe` | `TtyInput` keeps `NeverBelowBuffer`, alone and with waver beside it; nothing is said of the buffer's end | no 8 ever gets into `g_ch` or `c`; the only key that types one is backspace, which the handler treats apart |
| `WaverGetchar` | a patient user's `kb_getchar` returns a character in `Waver` too | `PatientWaverInv`: while the shell reads, a scan code is handled alone, while the reader spins and no character is unread |
| `WaverLosesNoMore` | `Waver` keeps `OffByLosses`, if the shell's user is patient; waver's may do what he likes | `DensityInv`: what the user wants is, but for `lost`, what the characters on their way, held, unread and in the controller, will make of the density. A step that drops one counts it, and one step of the density apart stays one apart at the ends of the range. That the keys which send plus and minus are those that show them takes `ModifiersInv` |
| `LinesAgree` | a patient user's `Waver` keeps `EditedLineIsTyped` | `EditInv`: the driver's line is a subsequence of the shell's with the character on its way put behind it; Enter empties the driver's line before the shell has seen it |
| `HeapTyped`, `HeapTiled`, `CallersOwnBlocks`, `NoSpuriousFailure` | `Heap` keeps `TypeOK`, `BlocksTile`, `LiveBlocks`, `NoneSkipped` | `HeapInv`: these three, the types, the multiples of 4, and where a call in progress stands in the list |
| `HeapImplementsAllocator` | `Spec => ImplementsAllocator` | under `HeapInv` a call that hands out a block is `Alloc`, a call of `free` is `Dealloc`, and every other step a stutter; blocks that do not overlap come from the tiling. The mapping leaves out pointers whose size wrapped around |
| `AlwaysTree`, `NeverShadowed` | `FileSystem` keeps `TreeOK`, `VisitedReachable` | `TreeInv`; `fs_mkdir` appends behind existing children, so the first child of a name stays the first |
| `MadeIsEnterable` | `FileSystem` keeps `MkdirEnterable`, which has no child of the name before | the first child that has the name is then the new one; a name without slashes that is not cut off is one step of a path |
| `PathsLeadBack` | `FileSystem` keeps `PathLeadsBack` | by induction on the numbers of nodes, parents before children: after the path of a node, `strtok`'s loop stands in that node with nothing begun, since a plain name adds one piece and its slash one step, which `VisitedReachable` says is the right one. The path may be cut by one character, its last slash |
| `LoopTyped`, `LinesSplit` | `Shell` keeps `ShellTypeOK`, `SplitAsTyped` | the break condition bounds `path_len`, and what is put back is one of the copies; a word ends before its first blank or at its limit |
| `PathShifted` | `Shell` keeps `PathAsMeant` | `Climbing`: `temp` starts with the names of as many nodes as were climbed. `memmove`, by induction on the bytes copied, moves a text whole although source and destination overlap, because it starts at the far end; where the loop stops is where the names stop fitting |
| `TypeCorrect` (`Console`), `StaysOnScreen` | `Console` keeps `TypeOK`, `WritesOnScreen`, whatever is called | `WithinInv`: the place to write at is never after the cursor, nor below its line, even when `console_ungetchar` has put the cursor one past a line |
| `CursorNeverDrifts` | `Console` keeps `CursorAtIndex`, if `console_ungetchar` is not used | `CursorInv`; a place of the screen is a line and a column in one way only |
| `NothingAfterCursor` | `Console` keeps `BlankBelow`, if neither it nor `console_gotoxy` is used | `BlankInv`: with nothing behind the cursor, a scroll brings in what is blank already |
| `ShowsWhatATerminalWould` | `Spec => ImplementsTerminal`, if neither of them nor `console_scroll` is used | `ShownInv`: row by row the buffer is the terminal's lines, blank behind them. A character is `Shown` at the end of the last line, wrapping included; a tab is four; erasing takes the last item of a line or the line |
| `FormattedStaysOnScreen` | `PrintSpec => []WritesOnScreen`, whatever is called | `ScreenInv`: the console stands where one `Within` stands. Where a character goes does not depend on colours, so the prefix of `announce` may be in some that texts never have |
| `WhatIsPrintedReadsBack` | `PrintSpec => NumbersReadBack` | the digits of `itoa`'s loop, read from the left, are what is left of the number turn by turn; the loop ends within ten turns for an int of up to 32 bits (`LoopEnds`), so that sign, digits and NUL fit printf's buffer; a text shorter than the screen is shown as it is |
| `HalvesPrintTheSame` | `PrintSpec => ConversionsApart` | `TakeGoes`: what `CString` finds after `itoa` is what `itoa` wrote, whatever was there, so a turn of the loop does not depend on the buffer; what is read from the second half follows what was read from the first |

`PathsLeadBack`, `PathShifted`, `LinesAgree` and the three of `Printf` need
induction over strings, paths and formats. The induction theorems of the library
take an operator and cannot be used, but the one over sets of numbers
(`SetInduction`) can: the statement becomes the set of the lengths, or of the
nodes, for which it holds. `FlattenFromLeft` and `Iterates` are the lemmas that
turn the community modules' folds and the recursive functions into steps it can
be used on.

Only model-checked, not proved:

* liveness (`KeyServed`, `CharReachesShell`, `EnterRunsCommand`, `CallsReturn`,
  `EscLeavesWave`) and whatever needs ENABLED, which TLAPS does not reach.

## Not modelled, and why

* Descriptor tables, ports, boot entry: constant tables or straight-line device
  code without state of the kernel's.
* Graphics, waver's picture included: writes to device memory no state of the
  kernel depends on.
* `kb_scan` polls the ports and is called by `src/liner.c` only; `getstr` is
  `getstr_bound` without the branch for backspace; `kb_getkey` is `kb_getchar`.
* The rest of the string library: `strncpy`, `strtok`, `memmove`, `memcpy`,
  `itoa`, `isalpha` and `upper` are modelled where used, comparisons are
  equality; `strstr`, `memcmp` and `lower` have no caller that matters.
* Commands that only print, and `cpuid`: one case of `Other`.
* `src/liner.c` and the second `kernel.c`: not built.
* The heap is not composed with the directory tree: `Capacity` stands for it.
  What a `malloc` promises the tree is `Allocator`.
* Lines longer than kmain's buffers: the code has no bound to state a property
  against. They are hazards listed without a property, and `NeverBelowBuffer`
  and its theorems do not exclude them.
* `malloc` failing inside `fs_mkdir` is a step that changes nothing, as in the
  code; that a failing `mkdir` leaves the tree alone is modelled, not shown.

## What is left

1. **Keyboard's handler refined**: `Interrupts` with the handler's accesses as
   steps, shown to implement the atomic one of `Keyboard`; `NoNesting` is what
   justifies the atomic one today.
2. **Descriptor tables**: the packing of the entries as arithmetic.
3. **The echo**: `TtyInput` with the console it echoes to, so that what the user
   sees is the line the shell gets.
