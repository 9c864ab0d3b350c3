------------------------------ MODULE Keyboard ------------------------------
(***************************************************************************)
(* The keyboard driver, k/keyboard.c: the handler of IRQ1, which decodes a *)
(* byte into `key' and `ch', and the two functions that wait for them.     *)
(*                                                                         *)
(* The controller is hardware, modelled from how the code uses it: it      *)
(* holds one byte at a time in its output buffer, requests IRQ1 when it    *)
(* puts one there, and fetches the next from the keyboard once the buffer  *)
(* has been read.  The handler runs from an interrupt gate, so in one      *)
(* piece; the readers are cut at every access to `key' and `ch'.  A byte   *)
(* is [key, up, n]: a key, pressed or released, the n-th byte sent.  A     *)
(* character is [key, form, n], its form being the row of the table, its   *)
(* upper case or its alternate.                                            *)
(***************************************************************************)
EXTENDS Integers, Sequences, FiniteSets

CONSTANTS
    Letters, Symbols,  \* keys with a character, with and without upper case
    Mute,        \* keys whose character is 0: arrows, control, right shift
    Special,     \* those of {"caps", "shift", "enter"} that are typed
    Readers,     \* those of keyboard_getChar and keyboard_getScancode called
    Builds,      \* how the compiler reads the non-volatile globals while it
                 \* waits: "reload" at each use, "hoisted" once before the loop
    KeyBuffer,   \* bytes the keyboard itself holds back
    MaxTyped,    \* bound: bytes typed
    NONE         \* 0 in `key' and `ch', an empty output buffer

Keys == Letters \cup Symbols \cup Mute \cup Special
Byte == [key : Keys, up : BOOLEAN, n : 1..MaxTyped]
Char ==
    [key : Letters, form : {"plain", "upper"}, n : 1..MaxTyped]
    \cup [key : Symbols, form : {"plain", "alternate"}, n : 1..MaxTyped]
    \cup [key : {"enter"}, form : {"plain"}, n : 1..MaxTyped]

ASSUME KeysAssumption ==
    /\ Special \subseteq {"caps", "shift", "enter"}
    /\ Letters \cap (Symbols \cup Mute \cup Special) = {}
    /\ Symbols \cap (Mute \cup Special) = {} /\ Mute \cap Special = {}
ASSUME ReadersAssumption ==
    /\ Readers \subseteq {"keyboard_getChar", "keyboard_getScancode"}
    /\ Builds \subseteq {"reload", "hoisted"}
ASSUME NoneAssumption == NONE \notin Byte \cup Char
ASSUME BoundsAssumption == KeyBuffer \in Nat \ {0} /\ MaxTyped \in Nat

VARIABLES
    boot,           \* "cli", "sti" (init_IRQ is done), "registered"
    buffer,         \* bytes in the keyboard, oldest first
    output,         \* the controller's output buffer
    irq1,           \* IRQ1 requested
    caps_lock, shift_pressed,
    key, ch,        \* what the last byte was decoded to, until it is read
    pc, fn, seen,   \* the reader: where it is, which, and its register
    build,          \* which of Builds the kernel was compiled to
    \* History variables, read by the properties only.
    typed,          \* bytes sent by the keyboard
    early,          \* one of them before the handler was registered
    handled,        \* the last one the handler read
    presses,        \* keys whose press the handler decoded, in order
    got             \* bytes the readers returned, in order

device == <<buffer, output, irq1>>
driver == <<caps_lock, shift_pressed, key, ch>>
reader == <<pc, fn, seen, build>>
vars == <<boot, device, driver, reader, typed, early, handled, presses, got>>

Init ==
    /\ boot = "cli"
    /\ buffer = <<>> /\ output = NONE /\ irq1 = FALSE
    /\ caps_lock = FALSE /\ shift_pressed = FALSE
    /\ key = NONE /\ ch = NONE
    /\ pc = "idle" /\ fn = NONE /\ seen = NONE
    /\ build \in Builds
    /\ typed = 0 /\ early = FALSE /\ handled = 0
    /\ presses = <<>> /\ got = <<>>

-----------------------------------------------------------------------------
(* The keyboard and its controller.                                        *)

\* A key is pressed (or repeats) or released.
Type(k, up) ==
    /\ typed < MaxTyped /\ Len(buffer) < KeyBuffer
    /\ typed' = typed + 1
    /\ buffer' = Append(buffer, [key |-> k, up |-> up, n |-> typed'])
    /\ early' = (early \/ boot # "registered")
    /\ UNCHANGED <<boot, output, irq1, driver, reader, handled, presses, got>>

\* The output buffer is filled again only after it was read.
Send ==
    /\ output = NONE /\ buffer # <<>>
    /\ output' = Head(buffer)
    /\ buffer' = Tail(buffer)
    /\ irq1' = TRUE
    /\ UNCHANGED <<boot, driver, reader, typed, early, handled, presses, got>>

-----------------------------------------------------------------------------
(* Boot.  The first command to the interrupt controllers drops what was    *)
(* requested before.                                                       *)

init_IRQ ==
    /\ boot = "cli"
    /\ boot' = "sti"
    /\ irq1' = FALSE
    /\ UNCHANGED <<buffer, output, driver, reader, typed, early, handled,
                   presses, got>>

\* IRQ_handler finds no handler: it says so, and nobody reads the byte.
UnhandledIRQ ==
    /\ boot = "sti" /\ irq1
    /\ irq1' = FALSE
    /\ UNCHANGED <<boot, buffer, output, driver, reader, typed, early, handled,
                   presses, got>>

BugInitKeyboard ==
    /\ boot = "sti"
    /\ boot' = "registered"
    /\ output' = NONE
    /\ UNCHANGED <<buffer, irq1, driver, reader, typed, early, handled, presses, got>>
init_keyboard ==
    /\ boot = "sti"
    /\ boot' = "registered"
    /\ UNCHANGED <<device, driver, reader, typed, early, handled, presses, got>>

-----------------------------------------------------------------------------
(* The handler.                                                            *)

\* alternate_chars and toupper leave the other characters as they are.
alternate_chars(k) == IF k \in Symbols THEN "alternate" ELSE "plain"
toupper(k) == IF k \in Letters THEN "upper" ELSE "plain"

BugForm(k) ==
    IF shift_pressed /\ k \in Symbols THEN alternate_chars(k)
    ELSE IF caps_lock \/ shift_pressed THEN toupper(k) ELSE "plain"
Form(k) ==
    IF caps_lock THEN IF shift_pressed THEN alternate_chars(k) ELSE toupper(k)
    ELSE IF ~shift_pressed THEN "plain"
    ELSE IF k \in Letters THEN toupper(k) ELSE alternate_chars(k)

Character(byte, form) ==
    IF byte.key \in Mute THEN NONE
    ELSE [key |-> byte.key, form |-> form, n |-> byte.n]

Released ==
    /\ output.up
    /\ ch' = NONE
    /\ UNCHANGED <<caps_lock, shift_pressed, presses>>

Pressed(k) ==
    /\ ~output.up /\ output.key = k
    /\ presses' = Append(presses, k)

BugCapsLock ==
    /\ Pressed("caps")
    /\ caps_lock' = ~caps_lock
    /\ UNCHANGED <<shift_pressed, ch>>
CapsLock ==
    /\ Pressed("caps")
    /\ caps_lock' = ~caps_lock
    /\ ch' = NONE
    /\ UNCHANGED shift_pressed

Shift ==
    /\ Pressed("shift")
    /\ shift_pressed' = TRUE
    /\ ch' = NONE
    /\ UNCHANGED caps_lock

\* Enter, and tab, which differs in its character only.
Enter ==
    /\ Pressed("enter")
    /\ ch' = Character(output, "plain")
    /\ UNCHANGED <<caps_lock, shift_pressed>>

\* The default case: a character, and the end of the shift if caps is off.
OtherKey(k) ==
    /\ Pressed(k)
    /\ ch' = Character(output, Form(k))
    /\ shift_pressed' = (shift_pressed /\ caps_lock)
    /\ UNCHANGED caps_lock

BugGetKey == UNCHANGED output
\* getKey reads the byte; it would poll on for as long as there is none.
getKey == output # NONE /\ output' = NONE

keyboard_handler ==
    /\ boot = "registered" /\ irq1
    /\ irq1' = FALSE
    /\ getKey
    /\ key' = output
    /\ \/ Released \/ CapsLock \/ Shift \/ Enter
       \/ \E k \in Letters \cup Symbols \cup Mute : OtherKey(k)
    /\ handled' = output.n
    /\ UNCHANGED <<boot, buffer, reader, typed, early, got>>

-----------------------------------------------------------------------------
(* The readers: wait, take what is there, clear it and its counterpart.    *)

Awaited == IF fn = "keyboard_getChar" THEN ch ELSE key
unread == <<boot, device, caps_lock, shift_pressed, build, typed, early,
            handled, presses>>
Goto(from, to) == pc = from /\ pc' = to

Read(f) ==
    /\ boot = "registered" /\ Goto("idle", "wait")
    /\ fn' = f
    /\ seen' = IF f = "keyboard_getChar" THEN ch ELSE key
    /\ UNCHANGED <<unread, key, ch, got>>

BugLeave ==
    /\ Goto("wait", "take")
    /\ (IF build = "hoisted" THEN seen ELSE ch) # NONE
    /\ UNCHANGED <<unread, key, ch, fn, seen, got>>
\* `while (ch <= 0);' leaves the loop.
Leave ==
    /\ Goto("wait", "take")
    /\ (IF build = "hoisted" THEN seen ELSE Awaited) # NONE
    /\ UNCHANGED <<unread, key, ch, fn, seen, got>>

\* `c = ch': the register, or another load.
TakeValue ==
    /\ Goto("take", "clear ch")
    /\ seen' = IF build = "hoisted" THEN seen ELSE Awaited
    /\ UNCHANGED <<unread, key, ch, fn, got>>

BugClearCh ==
    /\ Goto("clear ch", "clear key")
    /\ ch' = IF fn = "keyboard_getChar" THEN NONE ELSE ch
    /\ UNCHANGED <<unread, key, fn, seen, got>>
ClearCh ==
    /\ Goto("clear ch", "clear key")
    /\ ch' = NONE
    /\ UNCHANGED <<unread, key, fn, seen, got>>

\* The last store, and the return.
ClearKey ==
    /\ Goto("clear key", "idle")
    /\ key' = NONE
    /\ seen' = NONE /\ fn' = NONE
    /\ got' = IF seen = NONE THEN got ELSE Append(got, seen.n)
    /\ UNCHANGED <<unread, ch>>

-----------------------------------------------------------------------------
ReaderStep == Leave \/ TakeValue \/ ClearCh \/ ClearKey
Interrupt == UnhandledIRQ \/ keyboard_handler

Next ==
    \/ \E k \in Keys, up \in BOOLEAN : Type(k, up)
    \/ Send \/ init_IRQ \/ init_keyboard \/ Interrupt
    \/ \E f \in Readers : Read(f)
    \/ ReaderStep

Spec == Init /\ [][Next]_vars

\* The controller and the CPU work; nobody has to type.
FairSpec ==
    /\ Spec /\ WF_vars(Send) /\ WF_vars(Interrupt)
    /\ WF_vars(init_IRQ \/ init_keyboard)
    /\ WF_vars(ReaderStep)

-----------------------------------------------------------------------------
(* Properties.                                                             *)

\* The type invariant.
TypeOK ==
    /\ boot \in {"cli", "sti", "registered"}
    /\ buffer \in Seq(Byte) /\ Len(buffer) <= KeyBuffer
    /\ output \in Byte \cup {NONE} /\ irq1 \in BOOLEAN
    /\ caps_lock \in BOOLEAN /\ shift_pressed \in BOOLEAN
    /\ key \in Byte \cup {NONE} /\ ch \in Char \cup {NONE}
    /\ pc \in {"idle", "wait", "take", "clear ch", "clear key"}
    /\ fn \in Readers \cup {NONE}
    /\ seen \in Byte \cup Char \cup {NONE}
    /\ build \in Builds
    /\ typed \in 0..MaxTyped /\ early \in BOOLEAN /\ handled \in 0..MaxTyped
    /\ presses \in Seq(Keys) /\ got \in Seq(1..MaxTyped)

\* An IRQ1 the driver handles always has its byte: getKey, which has no
\* timeout, never polls with interrupts off (keyboard.c:56-62).
NeverPolls == boot = "registered" /\ irq1 => output # NONE

\* `key' and `ch' never come from two different presses, though the handler
\* writes both and a reader clears them one after the other
\* (keyboard.c:100-102, 171-172, 184-185).
Matched == key # NONE /\ ch # NONE => key.n = ch.n

\* What the readers return follows the order of typing, and nothing is
\* returned twice, whichever of the two is called, and though the handler may
\* run between the load of a value and its clearing (keyboard.c:166-187).
InOrderOnce == \A i \in 1..(Len(got) - 1) : got[i] < got[i + 1]

\* Before the i-th press: is caps lock on, is a shift pending?
CapsOn(i) == Cardinality({j \in 1..(i - 1) : presses[j] = "caps"}) % 2 = 1
Consumes(i) == presses[i] \notin {"caps", "shift", "enter"} /\ ~CapsOn(i)
ShiftOn(i) == \E j \in 1..(i - 1) : /\ presses[j] = "shift"
                                    /\ \A k \in (j + 1)..(i - 1) : ~Consumes(k)

\* The character of a key is what the keys before it say: a letter is upper
\* case if either caps lock or a shift is on but not both, another character
\* is its alternate if a shift is on; a shift lasts until the next key that is
\* typed with caps lock off (keyboard.c:109-156).
Typewriter ==
    LET i == Len(presses)
    IN  ch # NONE /\ key # NONE =>
          ch.form = IF ch.key \in Letters /\ CapsOn(i) # ShiftOn(i) THEN "upper"
                    ELSE IF ch.key \in Symbols /\ ShiftOn(i) THEN "alternate"
                    ELSE "plain"

\* Every byte is handled in the end, provided none was sent before the
\* handler was registered.  One that was may stay in the output buffer, its
\* IRQ1 answered as unhandled or dropped by init_IRQ, and then no other byte
\* ever comes (keyboard.c:161-164, irq.c:19-33).
EveryKeyHandled ==
    \A n \in 1..MaxTyped : (typed >= n /\ ~early) ~> (handled >= n)

\* In a build that reloads `ch' and `key', no reader waits for good while
\* there is something for it (keyboard.c:169, 182).
ReaderReturns ==
    []<>~(pc = "wait" /\ Awaited # NONE /\ build = "reload")

\* "Loop until a key is pressed" (keyboard.c:182): keyboard_getChar does not
\* wait for good while there is a character, in any build.
LoopsUntilPressed ==
    []<>~(pc = "wait" /\ fn = "keyboard_getChar" /\ ch # NONE)

\* "Loop until a key is pressed" (keyboard.c:169): what keyboard_getScancode
\* returns is a press.
ScancodeIsPress ==
    pc \in {"clear ch", "clear key"} /\ fn = "keyboard_getScancode" /\ seen # NONE
        => ~seen.up
=============================================================================
