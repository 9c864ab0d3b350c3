------------------------------ MODULE Drivers ------------------------------
(***************************************************************************)
(* The drivers side by side, one of which runs in each behaviour: the      *)
(* disk, the mouse, the console, the decoding of keys with nobody reading, *)
(* and sleep() with no timer function.                                     *)
(***************************************************************************)
EXTENDS Integers, Sequences

CONSTANTS
    \* Disk
    DiskByte, Nibble, SectorsPerTrack, Positions, Kinds, DiskSize, Counts, Lbas,
    Slots, Builds, Faults, MaxCalls,
    \* Mouse
    MouseWidth, MouseHeight, Moves, Hooked, MaxMoves, MaxKeys, Slow,
    \* Console
    VGA_TEXT_WIDTH, VGA_TEXT_HEIGHT, MAXIMUM_PAGES, CursorLimit, Pointers, Echoed,
    Strings, MaxPrints, MaxInterrupts,
    \* Keyboard
    Letters, Symbols, Mute, KeyBuffer, MaxTyped, NONE,
    \* Timer
    Base, Freq, Seconds

\* Digits of a byte and of half a byte, and sectors to a track, are 256, 16 and 63
\* in ide.c; a count is a byte and a sector number four of them.
ASSUME DiskAssumption ==
    /\ DiskByte \in Nat /\ Nibble \in 1..(DiskByte - 1) /\ SectorsPerTrack \in 1..(DiskByte - 1)
    /\ Kinds \subseteq {"ATA", "ATAPI", "none"} /\ DiskSize \in Nat
    /\ Counts \subseteq 0..(DiskByte - 1)
    /\ Lbas \subseteq 0..(DiskByte * DiskByte * (DiskByte * DiskByte) - 1)
    /\ Slots \subseteq Nat

\* A line has two characters or more, and fits the byte that counts them with a
\* tab to spare; the mouse keeps its pointer on the screen (mouse.c:146-153).
ASSUME ConsoleAssumption ==
    /\ VGA_TEXT_WIDTH \in Nat /\ VGA_TEXT_WIDTH >= 2
    /\ VGA_TEXT_HEIGHT \in Nat /\ VGA_TEXT_HEIGHT >= 1
    /\ MAXIMUM_PAGES \in Nat /\ MAXIMUM_PAGES >= 1
    /\ CursorLimit \in Nat /\ CursorLimit > VGA_TEXT_WIDTH + 4
    /\ CursorLimit > VGA_TEXT_HEIGHT
    /\ Pointers \subseteq (0..VGA_TEXT_WIDTH) \X (0..VGA_TEXT_HEIGHT)

\* A key with a character, or with none, is none of the keys the handler looks
\* for first (keyboard.c:111-127).
ASSUME KeyboardAssumption ==
    (Letters \cup Symbols \cup Mute) \cap {"caps", "shift", "enter"} = {}

\* As in timer.c: two digits make a word, and there is a frequency.
ASSUME TimerAssumption ==
    /\ Base \in Nat /\ Base >= 2
    /\ Freq \in Nat \ {0} /\ Seconds \subseteq Nat

VARIABLES
    unit,   \* the instance that runs
    \* Disk
    kind, disk, status, job, ports, ide_devices, ide, probed, request, sent,
    memory, result, calls, compiled, zero, failed, targets,
    \* Mouse
    input, target, port60, obf, command_byte, irq, keyboard, mouse, reporting,
    hooked, ip, config, registered, mouse_cycle, mouse_byte, mouse_x_pos,
    mouse_y_pos, moves, keys, disturbed, late, expected,
    \* Console
    con, text, putting, loaded, prints, interrupts, overlong, torn, scrolled, cleared,
    \* Keyboard
    boot, buffer, output, irq1, caps_lock, shift_pressed, key, ch, typed, early,
    handled, presses, reading, fn, taken, built, got,
    \* Timer
    ticks, freq_hz, irq0, sleeping, end, seen, build, since, asked, slept,
    call, current_index, functions, func_args, recent, fresh, fired

D == INSTANCE Disk WITH Byte <- DiskByte
M == INSTANCE Mouse WITH VGA_TEXT_WIDTH <- MouseWidth, VGA_TEXT_HEIGHT <- MouseHeight
C == INSTANCE Console WITH Keys <- Echoed
K == INSTANCE Keyboard WITH
    Special <- {"caps", "shift", "enter"}, Readers <- {}, Builds <- {"reload"},
    pc <- reading, seen <- taken, build <- built
T == INSTANCE Timer WITH
    Slots <- 1, Functions <- {}, Users <- {}, Timeouts <- {}, NULL <- NONE,
    Builds <- {"reload", "hoisted"}, pc <- sleeping

diskVars == <<kind, disk, status, job, ports, ide_devices, ide, probed, request,
              sent, memory, result, calls, compiled, zero, failed, targets>>
mouseVars == <<input, target, port60, obf, command_byte, irq, keyboard, mouse,
               reporting, hooked, ip, config, registered, mouse_cycle, mouse_byte,
               mouse_x_pos, mouse_y_pos, moves, keys, disturbed, late, expected>>
consoleVars == <<con, text, putting, loaded, prints, interrupts, overlong, torn,
                 scrolled, cleared>>
keyboardVars == <<boot, buffer, output, irq1, caps_lock, shift_pressed, key, ch,
                  typed, early, handled, presses, reading, fn, taken, built, got>>
timerVars == <<ticks, freq_hz, irq0, sleeping, end, seen, build, since, asked,
               slept, call, current_index, functions, func_args, recent, fresh, fired>>
vars == <<unit, diskVars, mouseVars, consoleVars, keyboardVars, timerVars>>

Init ==
    /\ unit \in {"disk", "mouse", "console", "keyboard", "timer"}
    /\ D!Init /\ M!Init /\ C!Init /\ K!Init /\ T!Init

Alone(name) ==
    /\ unit = name /\ UNCHANGED unit
    /\ IF name = "disk" THEN TRUE ELSE UNCHANGED diskVars
    /\ IF name = "mouse" THEN TRUE ELSE UNCHANGED mouseVars
    /\ IF name = "console" THEN TRUE ELSE UNCHANGED consoleVars
    /\ IF name = "keyboard" THEN TRUE ELSE UNCHANGED keyboardVars
    /\ IF name = "timer" THEN TRUE ELSE UNCHANGED timerVars

Next ==
    \/ Alone("disk") /\ D!Next
    \/ Alone("mouse") /\ M!Next
    \/ Alone("console") /\ C!Next
    \/ Alone("keyboard") /\ K!Next
    \/ Alone("timer") /\ T!Next

Spec == Init /\ [][Next]_vars

-----------------------------------------------------------------------------
\* Each variable keeps to its values.
TypeOK == D!TypeOK /\ M!TypeOK /\ C!TypeOK /\ K!TypeOK /\ T!TypeOK

\* What init_IDE finds: every drive, in order, at its own position
\* (ide.c:281-371).
DrivesFound == D!DrivesFound
\* What calls in any order may change: sectors a write was asked for
\* (ide.c:391-589).
OnlyAsked == D!OnlyAsked
\* What a call that returns 0 has done: brought the sectors where they were
\* asked for (ide.c:391-525).
Transferred == D!Transferred

\* An undisturbed init_mouse leaves both devices on and the handler registered,
\* and from then on bytes, packets and the pointer are in step
\* (mouse.c:125-241).
InStep == M!Initialised /\ M!InStep

\* The index and the cursor stay together, whatever is called in whatever
\* order and where a handler prints (console.c:24-217).
CursorFollows == C!CursorFollows
\* What was cleared from the screen is on its page (console.c:74-97).
PagesKept == C!PagesKept

\* The form of a character is what the keys before say (keyboard.c:109-156).
Typewriter == K!Typewriter

\* sleep() lets the asked ticks pass, short of the wrap (timer.c:89-90).
SleepsLongEnough ==
    [][unit = "timer" /\ T!SleepReturn => slept >= asked \/ seen + asked >= T!Word]_vars
=============================================================================
