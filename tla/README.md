# Verification of k

TLA+ models of the teaching kernel `k` and of what runs beside it, checked with
TLC and proved about with TLAPS. Paths and lines refer to the repository.

The kernel is one CPU running one flow of control in ring 0. There are no
processes and no threads; what runs concurrently is the main flow, the handlers
of hardware interrupts, which cut it between any two instructions, and the
devices. So the models ask: what does a handler see of a main flow it cut, what
does the main flow see of the handlers it did not notice, and what do the
devices do meanwhile. `config.mk:1` builds with `-Os`, and no global shared with
a handler is `volatile`: where a loop waits for one, both builds the compiler
may make are modelled.

## The system

| component | state | operations | meets | what is hard |
|---|---|---|---|---|
| boot (`k/crt0.S`, `k/k.c`, `k/hal.c`) | none | `HAL_initialize`; one subsystem after the other is switched on by hand, as the repository's README describes | all drivers | the order of initialisation |
| interrupts (`idt.c`, `isr.c`, `isr_asm.S`, `irq.c`, `pic_8259.c`, `io_asm.S`) | IDT, `interrupt_handlers`, `IRQ_handlersMap`, the two 8259s, the interrupt flag | `init_ISR`, `init_IRQ`, `ISR_handler`, `IRQ_handler`, masks, EOI, `kernel_panic` | every driver registers here | requests at any moment, spurious ones, the cascade, EOIs that are not specific |
| timer (`timer.c`) | `ticks`, `freq_hz`, the table of periodic functions | `timer_handler`, `timer_register_function`, `sleep` | IRQ0 | a tick between two stores of a registration, the wrap of the counter, the hoisted load |
| keyboard (`keyboard.c`) | `key`, `ch`, caps lock and shift | `keyboard_handler`, `keyboard_getChar`, `keyboard_getScancode` | IRQ1; console (echo) | bytes between two accesses of a reader, bytes before the handler is there, the hoisted load |
| mouse (`mouse.c`) | packet bytes and their count, position | `init_mouse`, `set_mouse_rate`, `mouse_handler` | IRQ12, the 8042 it shares with the keyboard | polled replies with interrupts on, a timeout that is ignored, packets out of step |
| memory manager (`memory.c`, `list.c`) | the region list, slab caches | `memory_init`, `memory_reserve(_ex)`, `memory_release`, `cache_new`, `cache_alloc`, `cache_free` | its two halves call each other | recursion, a region looked at again after a call, failures that are not checked |
| console (`console.c`) | screen, index, cursor, saved pages | putchar, newline, scroll, ungetchar, printf | keyboard, mouse and timer print from their handlers | bounds of the screen and of the saved pages; a handler that prints inside a print |
| disk (`ide.c`) | channels, drives | `init_IDE`, `IDE_ATA_access`, read and write of sectors | IRQ14 and IRQ15, never registered | busy waiting, a drive that was not waited for, numbers split over registers, errors not looked at |
| graphics (`k/libvga.c`, `libs/libk/graphic.c`) | mode, font plane, frame buffer; images, animations | mode switch, drawing, loading | ROMs | what a mode switch destroys, clipping, failure in the middle of loading |
| sound (`libs/libk/sound.c`) | a melody | `load_sound`, `clear_sound` | ROMs | failure in the middle of loading |
| allocator of the ROMs (`libs/libk/malloc.c`) | chunks, bins, top and dv | `malloc`, `calloc`, `realloc`, `memalign`, `free`, several blocks at once | `sbrk` | merging with what lies before and behind, in every order of requests |
| printing (`libc/printf.c`, `console.c`) | none | `printf`, `console_printf`, `itoa` | ROMs, tools, kernel | widths, precisions, signs and the ends of the number range |
| ROM images (`tools/mkkfs`, `k/include/k/kfs.h`, `tools/mkksf`) | a file | writing of superblock, inodes, index and data blocks | the file system format | boundaries between direct and indirect blocks |
| games (`roms/*`) | positions, scores, lists of sprites | one frame of the loop | graphics, keyboard and mouse by system calls | rules that hold over many frames |
| serial line, GDT, TSS, system call stubs, the rest of libc | little or none | see `PROJECT.json` | | |

What makes each part correct, and the properties that say it, are in the
sections below.
`PROJECT.json` lists every hazard with its line.

## Interrupts — `Interrupts.tla`

*State.* `ip` is the position of the main flow in `Boot`, the sequence of port
writes and table writes that `init_ISR`, `init_IRQ`, `init_PIC_8259` and the
registrations of the drivers make; `frames` the handlers in progress with the
saved interrupt flag; `present` the gates of the IDT, `routed` and `handlers`
the two tables of function pointers; `icw`, `offset`, `irr`, `isr`, `imr` the
8259s.

*External.* The controllers are hardware and are modelled as the code uses
them: ICW1 clears a controller and starts its initialisation sequence, each
byte on the data port is the next ICW or else the mask, priorities are fixed
with the second controller on line 2, an EOI that is not specific retires the
highest line in service, and a request withdrawn too late becomes the
controller's lowest line without being in service. The firmware leaves any mask
(`imr` starts arbitrary) and its own vectors 8 and 112.

*Actions.* One per port access of the initialisation (`OutCommand`,
`OutData`), one per table that is filled, `enable_interrupts`,
`disable_interrupts`, `IRQ_set_mask`, `IRQ_clear_mask`, `disable_PIC`;
`Interrupt`, `SpuriousInterrupt`, `Exception` for the CPU; `Dispatch`,
`HandlerEoi` (the mouse handler's own EOI, `mouse.c:166`), `Eoi`, `Iret` for
the path through `IRQ_handler`. `Take` is the CPU's choice: no gate, a handler,
or `kernel_panic` for an exception nobody handles.

| run | bounds | shows |
|---|---|---|
| `interrupts` | lines 0, 1, 12, 14: two controllers, a second EOI, a line without driver | `ReadyWhenEnabled`: interrupts are never on before both controllers are initialised and every vector has a gate and a route. `RequestsNeverHalt`: no request ends in a panic or a triple fault. `NoNesting`. `InServiceIsHandled` and `EoiRetiresOwn`: neither the double EOI nor the EOI for a spurious request retires another handler's line or leaves one behind. `Served`: a request that is not masked is dispatched, if the lines above leave it a chance |
| `interrupts_mask` | lines 0, 1, 12 | finding: `pic_8259.c:32` says "Mask all interrupt", the code unmasks them |

`MaxFrames = 2` lets a second handler start if the code allowed it, so
`NoNesting` is not a bound. *Fairness.* Weak for the main flow and the handlers:
the CPU executes. Strong for `Interrupt`: the CPU takes an offered request at
the next instruction boundary, so a request that is offered again and again is
taken. Deadlock is not checked: a panic stops the machine, and that is its purpose.

*Proved* (`InterruptsProofs`), for any lines and drivers, from
`ConstantsAssumption`:

- `OneHandler == Spec => []NoNesting`. `NoNesting` alone is not inductive,
  since a second `Interrupt` needs the flag. `OneAtATime` adds that the flag is
  off while a handler runs, which is what an interrupt gate does and `iret`
  undoes only as the last frame leaves.
- `SetUpBeforeEnabled == Spec => []ReadyWhenEnabled`, by `SetUpSoFar`: boot is a
  straight line, so `ip` says which initialisation word each controller waits
  for, from which step on its vectors are mapped and its gates present, and that
  the flag is off before step 14. The property at `sti` alone says nothing of the
  steps that lead there. The lemma `BootTable` reads the steps off `Boot`.
- `NoneLeftInService == Spec => []InServiceIsHandled`, and `OwnRetired`,
  `OnlyExceptionsHalt` (the action properties `EoiRetiresOwn`,
  `RequestsNeverHalt`), by `NothingLeftInService`: what the controllers have in
  service is at most the line being handled, with its cascade, until the EOI is
  sent, and nothing afterwards. A request retired twice, or left behind, would
  need a line in service that is nobody's.
- `TypeCorrect`, of the `TypeOK` stated with the proofs.

## Timer — `Timer.tla`

*State.* `ticks`, `freq_hz`, and the table `functions`/`func_args` with
`current_index`, as in the code. A `u32` is two digits in base `Base`, so that
`memcpy` can be cut between its bytes and the counter wraps at `Word`.

*Actions.* `Tick` is the whole of `timer_handler`, in one step because an
interrupt gate runs it. `timer_register_function`, `StoreFunction`, `CopyLow`,
`CopyHigh`, `CopyUser` are the stores of a registration, in the order of the
code, with `Tick` between any two. `sleep`/`SleepReturn` are the busy wait, in
the build that reloads `ticks` and in the one that loads it once; `SleepReturn`
is the leaving of the loop.

| run | bounds | shows |
|---|---|---|
| `timer_table` | 2 slots, a word of 9 ticks, timeouts 0, 2, 5 | `NeverCallsNull`; `LatestRegistered`: the table holds the last registrations whole while the ring overwrites the oldest; `NeverLate` and `EvenlySpaced`: when functions are called, the wrap of the counter included |
| `drivers` | its timer: a word of 9, 2 ticks per second, both builds | `SleepsLongEnough`, but for an end beyond the wrap; `CallsEnd`: `sleep` returns in the build that reloads |
| `timer_milliseconds` | | finding: `timer.h:13` says milliseconds, the code counts ticks |

Two slots make the ring wrap, and a word of 9 makes the counter wrap inside
each timeout that does not divide it. The configurations have a `Freq` of 1 or
2 to keep the arguments of `sleep` inside the word; the finding uses 100 as
`init_timer` does. *Fairness.* Weak for `Tick` and the copy; strong for
`SleepReturn`, because the loop turns many times between two ticks and sees
every value of the counter.

*Proved* (`TimerProofs`), for any number of slots, any word and any functions:

- `TypeCorrect` and `NoNullCall`, by `IInv == TypeOK /\ FunctionFirst /\
  NeverCallsNull`. A tick may find a slot half written; `FunctionFirst` says a
  slot with a timeout that is not zero has its function, and that the function
  is stored before the first byte of the timeout.
- `CallsOnTime == Spec => []NeverLate` and `CallsEvenlySpaced == Spec =>
  EvenlySpaced`, by `InPhase`: `since[s]` is at most `ticks % timeout`, and
  equal to it once the slot has been called. `NeverLate` alone does not follow
  from itself because what decides a call is the counter, not the time since the
  last call. The lemma `ModStep` carries it: the next remainder is 0 or one more.
- `SleepIsLongEnough == Spec => SleepsLongEnough`, by `SleepCounts`: until the
  asked ticks have passed, the counter is `slept` ticks past the call, so a
  build that read it once left the loop at once or never. `SleepsAsAsked`, in
  `DriversProofs`, is the same of the instance in `Drivers`, which the run checks:
  it cites the theorem through an instance of `TimerProofs`.
- `LatestAreRegistered == Spec => []LatestRegistered`, by `Registered` (the k-th
  latest registration is in the k-th slot before the newest, unless that slot is
  being written) and `StoredSoFar` (what the stores made so far have put in the
  slot that is). The lemmas `Ring` and `Window` say that a new registration
  moves every other one back by a slot and takes the slot of the oldest.

Assumed: the constants' named assumptions only (at least one slot, base 2 or
more, timeouts that are words, NULL not a function).

## Keyboard — `Keyboard.tla`

*State.* `buffer`, `output`, `irq1`: the keyboard's own buffer, the output
buffer of the controller and its request, external; `caps_lock`,
`shift_pressed`, `key`, `ch`: the driver's globals; `pc`, `fn`, `seen`: the
reader and the register it holds. A byte is a key, up or down, with its number.

*Actions.* `keyboard_handler` is one step (`getKey` and the whole `switch`).
`Leave`, `TakeValue`, `ClearCh`, `ClearKey` are the accesses of a reader in the
order of the code, `init_IRQ` and `init_keyboard` the two moments of boot that
matter, `UnhandledIRQ` the answer of `IRQ_handler` between them.

| run | bounds | shows |
|---|---|---|
| `keyboard` | a symbol key and caps lock, 4 bytes, 2 held back, both readers and builds | `NeverPolls`: `getKey`, which polls with no timeout and interrupts off, always finds its byte. `Matched`, `InOrderOnce`: the handler between any two accesses of a reader neither mixes two bytes nor makes one come twice. `EveryKeyHandled`, unless a byte came before the handler was registered. `ReaderReturns` in the build that reloads |
| `drivers` | its keyboard: one key of each kind, all sequences of 4 presses and releases | `Typewriter`: the four flags and cases of the `switch` amount to a definition of shift and caps lock over the history of presses |
| `keyboard_loop` | 1 byte | finding: `keyboard.c:182` "Loop until a key is pressed"; with `-Os` the load is moved out of the loop and it never ends |
| `keyboard_scancode` | 2 bytes | finding: `keyboard.c:169` has the same comment; the function returns on a release too |

Two bytes held back are enough for one to arrive behind another while a reader
is in the middle; four typed reach every step of a reader twice. Four presses and
releases reach a shift, a caps lock and a character between them.
`EveryKeyHandled` excludes bytes typed before `init_keyboard`: nobody reads one
that is answered as unhandled, the output buffer stays full and no IRQ1 comes
again. *Fairness.* Weak for the controller, the CPU's interrupt, boot and the
reader; nobody has to type. In the hoisted build `Leave` compares the register,
so the reader stays at it: that is the build, not missing fairness.

*Proved* (`KeyboardProofs`), for any keys and any number of bytes:

- `ByteIsThere == Spec => []NeverPolls`, by `OnTheWay`: bytes are numbered
  without a gap from the handler through the output buffer to the keyboard,
  and IRQ1 is requested only while the output buffer is full.
- `InOrder == Spec => []InOrderOnce` and `SameByte == Spec => []Matched`, by
  `Fresh` on top of `OnTheWay`: `key` and `ch` hold the last byte handled or
  nothing; until the reader clears it, what it holds is newer than anything
  returned. `InOrderOnce` says nothing of the globals, so it is not inductive.

In `DriversProofs`, for any keys and any history: `TypesAsTold == Spec =>
[]Typewriter`, by `Decoded`. `Typewriter` compares characters with the history
of presses; `Decoded` says that the handler's two flags are what the history
says at its end, caps lock by the parity of its presses (`CapsCounted`) and shift
by the presses since the last character (`FlagsAfter`).

## Memory manager — `Memory.tla`, `Reservations.tla`

*State.* `regions` is the list `memory_map`, `cache` the slab caches by address
with their free lists in order, and `stack` the C call stack: an action is the
code between two calls, because `__cache_alloc`, `__memory_reserve_ex`,
`memory_split` and `cache_extend` call each other and read state again after
they return; the innermost frame is the last. `status` says how the kernel went
wrong, if it did.

*The memory map.* `BootAssumption` is what `memory_init` takes for granted: the
first zone is low memory, as long as `mem_lower` says, and a free zone that
starts at 1 MB has room for the kernel and the first caches. That is how GRUB
describes a PC. With a first zone of another length, or with only two zones,
`memory_init`'s own reservations would split or extend before the memory of the
caches is reserved.

*Client.* `memory_init` is never called by `k_main`: the module is checked
against any client that keeps to its interface, frees what it allocated and
releases what it reserved. Nothing here is concurrent, no handler allocates.

*Outcomes that end the model.* `NullSlab`: a reservation failed and nobody
looked (`memory.c:89`, `95`, `214`); the slab is put at address 0.
`StackOverflow`: with `metadata_cache` dry, extending it needs a block of it and
the calls nest without end. Both are reachable; the properties say exactly when
they may happen.

| run | bounds | shows |
|---|---|---|
| `memory` | the map GRUB reports in units of one struct; one client cache; size 2, one fixed address; stack of 14 frames | `Tiled`: regions tile the zones although a split reserves others on its way. `NoSharing`: slabs and grants are disjoint and reserved. `BlocksConserved`: no block is handed out twice or lost. `NothingLeaks`, but for the part in front of a reservation at an address. `FailsOnlyWhenFull`. `CallsReturn`: the recursion ends unless it began with at most one free `struct cache`, or memory was full. `ImplementsReservations` |

`Reservations` is what the manager promises its callers: a set of disjoint
ranges of usable memory, of which one is taken or given back at a time. `Abstract` maps the
reserved regions to it; splitting, slabs and the call stack are stutters.

The deepest chain outside a dry start is of 6 frames; `MaxDepth = 14`, more
than twice that, is where the model calls it an overflow. The 34 units of memory
extend each boot cache and the client's once, then run out of memory, or of
free structs before it. Addresses are unbounded integers: wrap at 2^32 and
zones above 4 GiB are not modelled. *Fairness.* Weak for the running call only; a
client need not call. Deadlock is not checked: the kernel really stops after the
two outcomes above.

*Proved* (`MemoryTheorems`, from the steps in `MemoryProofs` and its lemmas on
lists, slabs, regions and frames), for any memory map, any sizes, any client and
any depth of the stack that the three named assumptions admit:

- `AlwaysTiled == Spec => []Tiled`, `NeverShared == Spec => []NoSharing`,
  `FailsOnlyThen == Spec => []FailsOnlyWhenFull`;
- `Implements == Spec => ImplementsReservations`: every step takes one range that
  was free, gives one back, or leaves the set of reserved ranges alone;
- `NoneLost == Spec => []BlocksConserved`: every block of every slab is on that
  slab's freelist or in use for one thing, with the counts to match;
- `NoneLeaks == Spec => []NothingLeaks`: between calls what is reserved was asked
  for, by `memory_init`, a slab, the client or the boot loader (zones of type 2
  count as this code's `RESERVED`, `memory.c:184`).

None of these is inductive, since all depend on what the calls in progress still
mean to do with what they found before they called. `Inv`, in `MemoryInvariant`,
is, and its parts are the argument:

- `Sorted` and `Gapless` describe the list; `CachesOK`, `FreeBlocks` and
  `BusyBlocks` the slabs: a block is free or in use, for one thing.
- `Owned`: a slab, a grant and a frame that is making a slab each hold the whole
  of a reserved region, and no two hold the same one. So a region cannot be
  released or handed out under a slab that is not in its list yet.
- `StackOK`: each frame is the call its caller stands at, with the arguments it
  gave, and `Returned`: what was just returned is a block nobody uses or a range
  nobody holds, of the length the frame waits for.
- `Waiting` is the heart. `memory_split` looks at its region again after it has
  allocated a struct, which may have reserved other regions. While a split is in
  progress further out, its allocation either finds a block at once (`Served`),
  or goes round the circle reserve, split, allocate, on the same region and
  with nothing changed, until the stack is used up (`Circling`). A nested
  reservation that changes the region and then returns does not exist.
- `Booted` and `BootPhase` follow `memory_init`: before the boot caches' own
  memory is reserved no call of it needs another slab, because two structs for
  each zone were set aside.

`Inv` says that nothing is used twice, but not that everything is used:
`NoneLost` needs `AllPlaced` beside it. The blocks of all slabs are exactly those
on a freelist, those in use, and the one `Pending`, which `__cache_alloc` has
returned and the frame it returned to has not used yet. Every step moves a block
from one of the three to another or, for a new slab, adds blocks that are free.

`NoneLeaks` needs `Accounted`: a reserved range is one the boot loader reported,
one that is held, one of `memory_init`'s, the part in front of an address a
client asked for, or `Awaited`, the one the innermost frame is about to use. Its
other part, `Fronts`, is what the split in front of an address needs: called to
cut a region off there, it still does when its own allocation has come back.

## Composite runs — `Drivers`, `Libraries`, `Roms`

Parts that do not interact share a run: the variable `unit` says which instance
a behaviour is about, the variables of the others keep their initial values.
`drivers` has the disk, the mouse, the console, the decoding of keys and
`sleep()`; `libraries` the loaders, `mkkfs` and the VGA switches (`Libraries`), the
allocator and the pure functions (`MCLibraries`); `roms` the six games. The states of such a run are the sum,
not the product, of those of its parts, and every property is about one of them
or a conjunction over several. No interaction is lost: what one part does to
another is in the module itself (the keyboard's handler in `Mouse`, the prints
of the keyboard's and the mouse's handlers in `Console`).

`Drivers`, `Libraries` and `Roms` are parameterised, so that their properties can be
proved; `MCDrivers`, `MCRoms` and `MCLibraries.cfg` give the values. The assumptions of
`Roms` are those of the games, below; those of `Libraries`, that an animation has an
image, that a block holds a byte and that an inode and an index block each list a
block (`LoadersAssumption`, `BuilderAssumption`); those of `Drivers` are what the code fixes or
takes for granted: `DiskAssumption`, half a byte and the sectors of a track are
less than a byte, a count is a byte and a sector number four (16, 63 and 256 in
`ide.c`); `ConsoleAssumption`, a line of two characters or more that fits the
byte counting it with a tab to spare, and a pointer on the screen or just beyond
its edge (`mouse.c:146-153`); `KeyboardAssumption`, a key with a character is none
that the handler looks for first; `TimerAssumption`, two digits make a word and
there is a frequency.

## Disk — `Disk.tla`

*State.* The drives at the four positions are hardware: `kind`, what each sector
holds (`disk`), `status`, the command in progress (`job`), and the registers of
the two channels with the last two bytes written to each, which is how LBA48
gets 16 bits through a register of 8. `ide_devices` is the driver's table, `ide`
and `probed` where the driver is, `request`, `sent`, `memory`, `result` the call.

*Actions.* `Identify`, `Present`, `Polled`, `ReadIdentification` are
`init_IDE`; `Begin` the checks of the three ways in; `Issue`, `WriteSector`,
`ReadSector`, `Flush`, `Flushed`, `ReadDone`, `Return` the transfer between two
looks at a drive; `DriveReady` a drive that gets on in its own time, or fails.
The three addressing modes are functions from a sector number to
register bytes and back to what the drive understands.

| run | bounds | shows |
|---|---|---|
| `drivers` | two positions, two calls, registers of 2 bits, all three addressing modes, both builds | `DrivesFound`: every drive in order and at its own position. `OnlyAsked`: no call in any order changes a sector nobody asked to write. `Transferred`: a call that returns 0 has moved its sectors. `CallsEnd`, if drives end what they do |
| `ide_read` | one drive, one call | finding: reading writes |

`Byte = 4` and `Nibble = 2` make a sector number need four registers and a head,
`Lbas = {1, 97}` lies in the range of CHS and beyond it. The hypotheses of
`Transferred` are what the code lacks: a count of 0, a drive that fails
(`ide.c:587` does not look), a build that keeps `buffer` in EDI (`ide.c:502`).
*Fairness.* Weak for the driver's polls and for each drive: no wait in `ide.c`
has a timeout, so that drives answer is the assumption, not a consequence.

*Proved* (`DriversProofs`), for any drives of any size, any counts, sector numbers
and calls, and any sizes of a byte, half a byte and a track that `DiskAssumption`
admits, by the invariant `Steps`:

- `AllDrivesFound == Spec => []DrivesFound`, by `Found`. The table is built
  from what is seen in registers that two drives share; `Probed` says that from
  `IDENTIFY` on the channel leads to the drive that is probed, that no later
  drive was touched yet, and what each status means there: data come from an ATA
  drive, an error is a failure or an ATAPI drive that refused. `Listed` is the
  property for the positions passed so far.
- `NothingElseWritten == Spec => []OnlyAsked`, by `Granted`: the sectors a drive
  has yet to take are among those a write was asked for. That needs the address
  to survive the registers: `FourBytes`, `ThreeNumbers` and `Addressed` say that
  the bytes written are the sector number again, always in LBA48 and in CHS up to
  the last cylinder of 16 bits, and `RangeWithin` that a range which passed the
  check is one of these, although the sum in the check can wrap (`ide.c:549`). It
  holds whether drives fail or not.
- `SectorsArrive == Spec => []Transferred`, by `InTurn` and `Brought`. The loop
  never looks at what the drive has left to do: `Together` says that the drive of
  the call waits for, or is at, the sector the loop is at, and `Quiet` that every
  other one has nothing to ask for, and if it is still busy is the one its channel
  has selected, which is the one `busy_wait` looks at. So the command finds an idle
  drive and only the flush can be lost. `Brought` is the property for the sectors
  so far.

All hypotheses are those of the properties.

## Mouse — `Mouse.tla`

*State.* The 8042 and the two devices behind it (`input`, `target`, `port60`,
`obf`, `command_byte`, `irq`, `keyboard`, `mouse`, `reporting`), external;
`ip` in the list of port accesses that `init_mouse` makes, `mouse_cycle`,
`mouse_byte` and the position.

*Actions.* `MouseWait`, `Write`, `Read`, `IRQ_RegisterHandler` are an access to
a port by `init_mouse`; `mouse_handler`, `keyboard_handler` and `UnhandledIRQ`
run as soon as a byte raises their line; `TakeInput` and `Deliver` are the
controller, `PressKey` and `Move` the user.

In `drivers`: `InStep` says that an undisturbed initialisation ends with both
devices enabled and the handler registered, and that from then on every byte is
taken for what it is, and the pointer is where the packets put it. Its
hypothesis `Quietly` is not a convenience: the acknowledgements the code checks
are the keyboard's, read a second time from the port after its handler has eaten
them (`mouse.c:203`), so a key pressed, or an answer later than `mouse_wait`
waits (`mouse.c:34`), changes what is read. `CallsEnd` has `init_mouse` end all
the same, and no byte stuck in the output buffer. Two movements and one key reach
each byte of a packet and each step of the initialisation; `Slow` allows one late
answer. *Fairness.* Weak for the CPU and the controller.

*Proved* (`DriversProofs`), for any movements, keys and size of the screen:
`AlwaysInStep == Spec => []InStep`, by `MouseInv`. Until the registration
`Booting` says, for each of the thirty accesses of `Script`, whose the byte in
the output buffer can be (`Identifying`, `Configuring`, `Enabling`). From then on
`Running` holds: `Enabled`, and `OnTheWay`, a queue of the movements whose bytes
are in the mouse, in the output buffer or in the handler's array, and the path of
points they lead to, which ends where the user has moved to. Counting bytes alone
would not do: the property at the end of a packet depends on every byte still
to come.

## Console — `Console.tla`

*State.* `con`: the cells, `vga_index`, the cursor, the saved pages; `putting`
and `loaded`: where the main flow is in a character, and the value it has read
but not stored.

*Actions.* A character of the main flow is `LoadIndex`, `StoreIndex`, `LoadX`,
`StoreX`, a line end `Save`, `NewLine`; the handlers' prints `EchoKey` and
`DrawMouse` come between them in one step. `console_scroll`, `console_gotoxy`,
`console_ungetchar(_bound)` are whole.

In `drivers`: `CursorFollows`, the index and the cursor agree through every
function, unless a line fills the width or a handler printed inside a character,
which is what `console.c:127` leaves open. `PagesKept`: a screen cleared when
full is on its page, up to the last page there is; beyond it `console.c:80`
indexes past the array, and the model stops claiming anything. `CallsEnd`.
Lines of five characters, three prints, one interrupt, two pages.

*Proved* (`DriversProofs`), for any screen, any texts and any number of
interrupts: `CursorAlwaysFollows == Spec => []CursorFollows` and `PagesAreKept ==
Spec => []PagesKept`, by `ConsoleInv`. `Ahead` says how far the index is from the
cursor, which is not 0 inside a character; `InLine`, that what the main flow has
loaded is what is there unless a handler has printed since, which
`CursorFollows` excludes; `Saved`, that the pages up to the count are the screens
that were cleared. One lemma per function says what it does to a sound console.

## Libraries and tools — `Malloc`, `Resources`, `ImageFile`, `Vga`, `Format`, `Drawing`

*`Malloc`* is `dlmalloc` in units of 8 bytes, one action per request: `malloc`,
`calloc`, `realloc`, `realloc_in_place`, `free`, `malloc_trim` with all they do
to the bins, `dv`, `top` and the segment; `memalign`, which cuts a block at an
alignment out of a larger one and gives both ends back; `independent` (calloc
and comalloc), one chunk cut into blocks with or without the array of pointers
to them; `bulk_free`, which joins neighbours before it gives them back. A chunk has the tags the code reads and writes, including those of the
chunk behind it, so that a wrong merge shows. Tree bins are functions from the
path of a node to its chain.
*`Resources`* is `load_image`, `load_anim`, `load_sound` and their `clear`s, cut
at every call, each of which may fail. *`ImageFile`* is `mkkfs` writing block by
block. *`Vga`* is the two mode switches with the CRTC lock and the window that
holds the font in text mode and the picture in graphic mode. *`Format`*
(`printf`, `console_printf`, `itoa`) and *`Drawing`* (lines, rectangles, images,
texts, circles) are functions, compared with a definition of what they are for.

| run | bounds | shows |
|---|---|---|
| `libraries` | a heap of five pages of 8 units, 3 blocks: small and large requests and products that overflow (`malloc`), or blocks aligned to 4 units and bundles of two lengths (`memalign`); 3 objects; 2 data and 2 index blocks and file sizes at their boundaries; 5 switches; words of 8 bits; a screen of 7 by 6 | `HeapSound`: chunks tile the segment, tags and bins agree, no free chunk has a free neighbour, the program's blocks are as large as asked and at their alignment. `NoFitMissed`: a request fails only where nothing fits. `NothingLost`: no way out of a loader loses a block or a descriptor, and a pair of switches brings the text back. `FoundAgain`: files are read back through inode and index blocks. `AsDefined`: fields and pictures |

`NothingLost` names the one block the code does lose (`graphic.c:594`, the array
of an animation whose names could not be copied). `AsDefined` states the pixels
that lines up or to the left and images get: none (`graphic.c:326-351`), and
one row lower than y (`graphic.c:522`). No fairness: every call is one or
a few steps and none waits.

*Proved* (`LibrariesProofs`), for images of any height, animations of any length,
files of any number and size and any layout of inodes and index blocks:

- `LoadersLoseNothing == Spec => []NothingLost`. The property speaks of the moments
  when no call is in progress and is not inductive. `LoadersSound` divides what is
  allocated at every other moment: the blocks of finished objects (`Finished`), of the
  animation being loaded (`Partial`), of the image or melody being loaded
  (`Current`), and the array that is lost (`NoneStray`). `KeptApart` says that no
  two objects have a number in common and none has one yet to be given, so
  that an error path, which frees by number, frees nothing of a finished object.
  For the switches, `FontSomewhere`: in text mode the font is in the window, in
  graphic mode it is in the saved copy.
- `FilesFoundAgain == Spec => []FoundAgain`. `BuilderSound` says of an unfinished
  image: the inodes written so far, and the one in memory with the index block
  being filled, list blocks that hold the first parts of their files, each at its
  number (`InImage`, `Underway`, `Covers`); every block written
  belongs to one of them (`BlocksOwned`). `NextIsFree` has each new
  block go where none is. From this `BuilderMeans` reads the finished image back.
  That no block serves two purposes is not in the invariant: it follows from what the
  blocks hold, since no two parts of the files begin with the same byte
  (`FirstByte`, `SamePlace`) and no two places of an inode have the same number
  (`NumbersDiffer`).

## Games — `Pong`, `Yakanoid`, `Vaders`, `Hunter`, `Launcher`, `Skate`

Each has one variable, `game`, a record of what its `game_loop` keeps between
two frames, and two actions: `splash_screen`, which waits for its key, and
`game_loop`, a whole frame with its statements in their order, each part an
operator from one state to the next. A key (and a movement of the mouse) is
chosen anew in every frame, so that a run covers every way to play. What is
drawn, the sounds and the ticks waited for are left out.

| run | bounds | shows |
|---|---|---|
| `roms` | fields of about 13 by 12 to 40 by 30, 1 to 6 bricks or monsters, a park of 8 boxes | `RulesKept`. Pong: the ball never passes an edge, and where it touches one it is on its way back. Yakanoid: the score is worth the bricks gone. Vaders: who has won has shot all monsters and then the seine. Hunter: the score is the number of marked hits, no monster is both flying and hit. Skate: a crash costs the whole combination, points and count go together, on the ground all is paid. `RoundsEnd`. Launcher: a shot ends while there is gravity, whatever is done to angle and gravity on the way. Skate: a combination is decided. Vaders: a verdict stands, in a pause as well |

Lengths and speeds are constants of the modules, with the game's values beside
them; the runs shrink all of them together, so that the order of the events of
a frame, the overshoot of a step beyond an edge and the numbers of frames a
trick takes against a jump stay cases. Bounds: `Above` and
`stray` in `Yakanoid` (the field has no ceiling, and what is read or cleared outside the
array of bricks, `yakanoid.c:132-139`, may be anything: a ball that has cleared
something there is not followed), `Far`, `High` and `MaxGravity` in `Launcher`
(positions saturate; gravity turned below 0 would wrap, `perrod.c:132`),
`MaxWorth` in `Skate`. Exact rather than bounded: the place in the endless park is kept in its
first loop, timers as the time since, no further than they are compared with.
*Fairness.* Weak for the frames of `Launcher` and `Skate`: the loop waits for a
tick and goes on; nothing is assumed about the player.

*Proved* (`RomsProofs`): `RulesAlwaysKept == Spec => []RulesKept`, for fields of
every size, every speed and every number of bricks, monsters, flights and lives
that the assumptions of `Roms` admit, and whatever is pressed. `GameRules` has an
inductive invariant for each game, since none of the rules is one:

- `PongRules`: where the ball is beyond the side of a bar, its next step brings it
  back in front. Without it a ball that is turned would be turned again in the next
  frame and pass. It needs that the later speed is no less than the first, and
  while the ball waits it is in the middle.
- `YakanoidRules`: `BetweenSides` and `AboveFloor`, the place of the ball with its
  direction, and `YakanoidScore`. Between two parts of a frame the direction at the
  floor is the opposite one, hence `YakanoidPlay(g, dy)`. `WallStruck` counts the
  bricks gone when both ends of the ball strike one brick, two, or only one of them
  strikes; that the wall ends above the floor keeps one frame from turning the ball
  twice.
- `VadersRules`: the count of the dead is the number of monsters not alive, for
  which `FirstUnder` picks the monster a bullet meets, and shots and bullets are
  none or on the screen.
- `HunterRules`: no mark is ahead of the monster that flies, and the last one, that
  ends the game, is not gone where it came up; so a number that comes next is
  without a mark.
- `SkateRules`: within a frame the three parts of the rule do not all hold:
  `SkateCounts` holds between any two statements, `SkateLands` from the landing on
  and `SkatePays` only when the frame has paid.

The assumptions say what makes a field playable, and the values of all five games
satisfy them: the ball is served between the bars or sides and above the floor, a
bar and a ball fit the height, a monster comes up from behind the bush, a trick in
the air is worth no less than a slide. The shot of `Launcher` is only model-checked.

## Findings

| run | says | does |
|---|---|---|
| `timer_milliseconds` | `timer.h:13`: a timeout is in milliseconds | counts ticks, 10 ms each at 100 Hz |
| `interrupts_mask` | `pic_8259.c:32`: "Mask all interrupt" | writes 0 to the data port of the first controller, twice: its lines are unmasked, the second one's mask is not written |
| `keyboard_loop` | `keyboard.c:182`: "Loop until a key is pressed" | compiled with `-Os`, loops for ever |
| `keyboard_scancode` | `keyboard.c:169`: the same | a release ends the wait |
| `ide_read` | `ide.c:554`: "3: Read in PIO mode through Polling and IRQs" | passes `ATA_WRITE`: the sectors are overwritten |

## Proved, model-checked, not modelled

Proved for all values of the constants: the theorems named above, from the
assumptions the modules name. Only model-checked: liveness under fairness and
`ENABLED`, which the prover does not treat (`Served`, `EveryKeyHandled`,
`ReaderReturns`, `CallsReturn`, `CallsEnd`, `RoundsEnd`); the type invariant of
`Drivers`; the allocator and the pure functions (`HeapSound`, `NoFitMissed`,
`AsDefined`). What `Malloc`, `Format` and `Drawing` compute by recursive functions and folds stays with
TLC: the installed provers have no induction over data.

Not modelled, or left out of a model:

- a second CPU, which the kernel does not use; exceptions inside handlers; the
  arithmetic of the timer's divisor;
- `malloc.c`: everything `malloc-k.h` switches off (mmap, locks, footers,
  statistics, mspaces), a second segment after a foreign `sbrk`, parameters
  changed at run time; bundles whose lengths add up to more than a word, which
  `ialloc` does not test (`malloc.c:4998-5012`);
- `printf`'s `%n`, which stores through a pointer; the string and memory
  functions of libc, one loop each;
- fonts, palettes, colours and `draw_anim`'s clock; the missing files that end in
  a blue screen; in the games what is painted, skate's banner of tricks and its total score;
- `mkksf.c`, a loop over a text file; `gdt.c` and `tss.c`, tables of constants;
  `crt0.S`, `k.c` and the serial line; `exception.S`, which `isr_asm.S` replaces;
  `syscalls.c`, whose interrupt the kernel does not handle.

## Plan

Done: the interrupt path, timer, keyboard, memory manager; then the mouse with
the 8042, the console with its interrupted prints, the disk, the libraries of
the ROMs, the image builder and the rules of the games. Left:

1. `Kernel`: boot with timer, keyboard and mouse on one interrupt controller,
   each component's `Init` and handler instantiated, so that assumptions made
   about the others (a handler is one step, an IRQ has its byte) are theorems
   or invariants of one module.
2. Abstract specifications beside `Reservations`: a mailbox of one character
   that the keyboard implements, a byte stream per device that the 8042
   implements, a heap as a set of disjoint blocks that `Malloc` implements.
3. Theorems: the type invariant of `Drivers`; of `Malloc`, whose chunks are a
   function and whose bins are only walked: that the chunks tile the segment.
