------------------------------- MODULE Mouse -------------------------------
(***************************************************************************)
(* The mouse driver, k/mouse.c: its polled initialisation, which shares    *)
(* the controller with the keyboard and its handler, and the handler of    *)
(* IRQ12, which puts packets of three bytes together.                      *)
(*                                                                         *)
(* The 8042 is hardware, modelled from how the code uses it: an input      *)
(* buffer for what the CPU writes (a second write before it is taken       *)
(* replaces the first), an output buffer with the byte of either device or *)
(* its own, which raises IRQ1 or IRQ12 and which port 0x60 goes on giving  *)
(* after it was read, and a command byte that says what is enabled.  The   *)
(* CPU takes an interrupt at once: before its next access to a port.       *)
(***************************************************************************)
EXTENDS Integers, Sequences

CONSTANTS
    VGA_TEXT_WIDTH, VGA_TEXT_HEIGHT,
    Moves,        \* movements of the mouse, each along one axis or both
    Hooked,       \* is keyboard_handler registered?
    MaxMoves, MaxKeys,  \* bounds: movements, keys typed
    Slow          \* may a device, as long as none was late, answer after
                  \* mouse_wait has given up? (a bound)

VARIABLES
    input,        \* the input buffer: a sequence of at most one write
    target,       \* what the next data byte is for: "keyboard", "mouse", "command"
    port60, obf, \* the output buffer, and whether it was not read yet
    command_byte, \* bit 0: IRQ1, 1: IRQ12, 4: keyboard off, 5: mouse off
    irq,          \* the request raised for the output buffer: 0 for none
    keyboard,     \* bytes the keyboard has to send
    mouse,        \* bytes the mouse has to send
    reporting,    \* is the mouse sending packets?
    hooked,       \* is keyboard_handler registered?
    ip, config,   \* init_mouse: where it is, and its variable
    registered,
    mouse_cycle, mouse_byte, mouse_x_pos, mouse_y_pos,
    \* History variables, read by the properties only.
    moves, keys,
    disturbed,    \* a key during the initialisation, or a packet before its end
    late,         \* the driver went on before a device had answered: it does not
                  \* wait for every answer, and mouse_wait gives up
    expected      \* where the packets sent put the pointer

controller == <<input, target, port60, obf, command_byte>>
devices == <<keyboard, mouse, reporting, hooked>>
handler == <<registered, mouse_cycle, mouse_byte, mouse_x_pos, mouse_y_pos>>
history == <<moves, keys, disturbed, late, expected>>
vars == <<controller, irq, devices, ip, config, handler, history>>

Bit(byte, n) == (byte \div 2 ^ n) % 2 = 1
Or2(byte) == IF Bit(byte, 1) THEN byte ELSE byte + 2

ACK == 250
\* The byte of a packet: which of the three, and the movement it tells.
Reply(byte) == [of |-> "reply", byte |-> byte]
Packet(move) == << [of |-> "status", byte |-> 8], [of |-> "x", byte |-> move[1]],
                   [of |-> "y", byte |-> move[2]] >>

-----------------------------------------------------------------------------
(* init_mouse and what it calls, one entry per access to a port.           *)

Wait(type) == <<[op |-> "mouse_wait", arg |-> type]>>
Out(port, data) == <<[op |-> port, arg |-> data]>>
In(check) == <<[op |-> "inb", arg |-> check]>>

mouse_write(data) == Wait(1) \o Out("0x64", 212) \o Wait(1) \o Out("0x60", data)
mouse_read(check) == Wait(0) \o In(check)

\* The rate is sent without the prefix for the mouse: to the keyboard.
set_mouse_rate(rate) == Out("0x60", 243) \o mouse_read("rate") \o Out("0x60", rate)

init_mouse ==
    Wait(1) \o Out("0x64", 168) \o Out("0x60", 242) \o mouse_read("any")
    \o set_mouse_rate(10)
    \o Wait(1) \o Out("0x64", 32) \o Wait(0) \o In("any")
    \o Wait(1) \o Out("0x64", 96) \o Wait(1) \o <<[op |-> "status", arg |-> 2]>>
    \o mouse_write(246) \o mouse_read("ack")
    \o mouse_write(244) \o mouse_read("ack")
    \o <<[op |-> "IRQ_RegisterHandler", arg |-> 12]>>

Done == Len(init_mouse) + 1

Init ==
    /\ input = <<>> /\ target = "keyboard"
    /\ port60 = Reply(0) /\ obf = FALSE
    /\ command_byte = 101        \* as the firmware leaves it: the mouse is off
    /\ irq = 0
    /\ keyboard = <<>> /\ mouse = <<>> /\ reporting = FALSE
    /\ hooked \in Hooked
    /\ ip = 1 /\ config = 0
    /\ registered = FALSE /\ mouse_cycle = 0 /\ mouse_byte = [n \in 0..2 |-> 0]
    /\ mouse_x_pos = 5 /\ mouse_y_pos = 2
    /\ moves = 0 /\ keys = 0 /\ disturbed = FALSE /\ late = FALSE
    /\ expected = <<5, 2>>

\* The main flow does its next access once no interrupt is to be taken.
At(op) == ip < Done /\ irq = 0 /\ init_mouse[ip].op = op
arg == init_mouse[ip].arg

\* A write to the controller: the mouse does not get one by itself.
Write ==
    /\ At("0x64") \/ At("0x60") \/ At("status")
    /\ input' = IF At("status") THEN <<[op |-> "0x60", arg |-> config]>>
                ELSE <<init_mouse[ip]>>
    /\ late' = (late \/ input # <<>> \/ keyboard # <<>> \/ mouse # <<>>)
    /\ ip' = ip + 1
    /\ UNCHANGED <<target, port60, obf, command_byte, irq, devices, config,
                   handler, moves, keys, disturbed, expected>>

Ready(type) == IF type = 0 THEN obf ELSE input = <<>>
Quiet == /\ input = <<>> /\ ~obf
         /\ keyboard = <<>> \/ Bit(command_byte, 4)
         /\ mouse = <<>> \/ Bit(command_byte, 5)

\* mouse_wait returns when the controller is ready, or has polled 100000
\* times: more than any device takes, unless Slow.
MouseWait ==
    /\ At("mouse_wait")
    /\ Ready(arg) \/ Quiet \/ (Slow /\ ~late)
    /\ late' = (late \/ ~(Ready(arg) \/ Quiet))
    /\ ip' = ip + 1
    /\ UNCHANGED <<controller, irq, devices, config, handler, moves, keys,
                   disturbed, expected>>

\* What init_mouse does with a byte it read: set_mouse_rate gives up without an
\* acknowledgement, and so does init_mouse in the end.
After(check, byte) ==
    IF check = "any" \/ byte = ACK THEN ip + 1 ELSE IF check = "rate" THEN ip + 2 ELSE Done

Read ==
    /\ At("inb")
    /\ obf' = FALSE
    /\ config' = Or2(port60.byte)
    /\ ip' = After(arg, port60.byte)
    /\ UNCHANGED <<input, target, port60, command_byte, irq, devices, handler, history>>

IRQ_RegisterHandler ==
    /\ At("IRQ_RegisterHandler")
    /\ registered' = TRUE
    /\ ip' = ip + 1
    /\ UNCHANGED <<controller, irq, devices, config, mouse_cycle, mouse_byte,
                   mouse_x_pos, mouse_y_pos, history>>

-----------------------------------------------------------------------------
(* The controller and the devices.                                         *)

\* What the keyboard answers to IDENTIFY, and to the sampling rate and its
\* parameter, which it takes for its own repeat rate.
KeyboardAnswer(byte) ==
    IF byte = 242 THEN <<Reply(ACK), Reply(171), Reply(65)>> ELSE <<Reply(ACK)>>

TakeInput ==
    /\ input # <<>>
    /\ input' = <<>>
    /\ LET w == Head(input)
           to == IF w.op = "0x64" THEN "controller" ELSE target
       IN  /\ target' = CASE w.op = "0x64" /\ w.arg = 212 -> "mouse"
                          [] w.op = "0x64" /\ w.arg = 96 -> "command"
                          [] OTHER -> "keyboard"
           /\ command_byte' = IF to = "command" THEN w.arg
                              ELSE IF to = "controller" /\ w.arg = 168 /\ Bit(command_byte, 5)
                              THEN command_byte - 32 ELSE command_byte
           /\ keyboard' = IF to = "keyboard" THEN keyboard \o KeyboardAnswer(w.arg)
                          ELSE IF to = "controller" /\ w.arg = 32
                          THEN <<Reply(command_byte)>> \o keyboard ELSE keyboard
           /\ mouse' = IF to = "mouse" THEN Append(mouse, Reply(ACK)) ELSE mouse
           /\ reporting' = (reporting \/ (to = "mouse" /\ w.arg = 244))
    /\ UNCHANGED <<port60, obf, irq, hooked, ip, config, handler, history>>

\* A byte reaches the output buffer and raises its request, if that is enabled.
Deliver ==
    /\ ~obf /\ input = <<>>
    /\ obf' = TRUE
    /\ \/ /\ keyboard # <<>> /\ ~Bit(command_byte, 4)
          /\ port60' = Head(keyboard) /\ keyboard' = Tail(keyboard)
          /\ irq' = IF Bit(command_byte, 0) THEN 1 ELSE 0
          /\ UNCHANGED mouse
       \/ /\ mouse # <<>> /\ ~Bit(command_byte, 5)
          /\ port60' = Head(mouse) /\ mouse' = Tail(mouse)
          /\ irq' = IF Bit(command_byte, 1) THEN 12 ELSE 0
          /\ UNCHANGED keyboard
    /\ UNCHANGED <<input, target, command_byte, reporting, hooked, ip, config,
                   handler, history>>

PressKey ==
    /\ keys < MaxKeys /\ keys' = keys + 1
    /\ keyboard' = Append(keyboard, [of |-> "key", byte |-> 30])
    /\ disturbed' = (disturbed \/ ip < Done)
    /\ UNCHANGED <<controller, irq, mouse, reporting, hooked, ip, config, handler,
                   moves, late, expected>>

\* What the handler makes of a position off the screen; `w' itself it keeps.
PutOnScreen(x, w) == IF x < 0 THEN 0 ELSE IF x > w THEN w - 1 ELSE x

\* The mouse moves: a packet.
Move(move) ==
    /\ reporting /\ moves < MaxMoves /\ moves' = moves + 1
    /\ mouse' = mouse \o Packet(move)
    /\ expected' = <<PutOnScreen(expected[1] + move[1], VGA_TEXT_WIDTH),
                  PutOnScreen(expected[2] - move[2], VGA_TEXT_HEIGHT)>>
    /\ disturbed' = (disturbed \/ ~registered)
    /\ UNCHANGED <<controller, irq, keyboard, reporting, hooked, ip, config,
                   handler, keys, late>>

-----------------------------------------------------------------------------
(* The interrupts.                                                         *)

\* Nobody reads the byte: IRQ_handler only says that it has no handler.
UnhandledIRQ ==
    /\ \/ irq = 1 /\ ~hooked
       \/ irq = 12 /\ ~registered
    /\ irq' = 0
    /\ UNCHANGED <<controller, devices, ip, config, handler, history>>

keyboard_handler ==
    /\ irq = 1 /\ hooked /\ obf
    /\ obf' = FALSE /\ irq' = 0
    /\ UNCHANGED <<input, target, port60, command_byte, devices, ip, config,
                   handler, history>>

BugCycle == IF mouse_cycle = 2 THEN 1 ELSE mouse_cycle + 1
NextCycle == (mouse_cycle + 1) % 3

\* The byte is kept; the third one moves the pointer.
mouse_handler ==
    /\ irq = 12 /\ registered
    /\ obf' = FALSE /\ irq' = 0
    /\ mouse_byte' = [mouse_byte EXCEPT ![mouse_cycle] = port60.byte]
    /\ mouse_cycle' = NextCycle
    /\ IF mouse_cycle = 2
       THEN /\ mouse_x_pos' = PutOnScreen(mouse_x_pos + mouse_byte[1], VGA_TEXT_WIDTH)
            /\ mouse_y_pos' = PutOnScreen(mouse_y_pos - port60.byte, VGA_TEXT_HEIGHT)
       ELSE UNCHANGED <<mouse_x_pos, mouse_y_pos>>
    /\ UNCHANGED <<input, target, port60, command_byte, devices, ip, config,
                   registered, history>>

-----------------------------------------------------------------------------
InitMouse == Write \/ MouseWait \/ Read \/ IRQ_RegisterHandler
Handle == UnhandledIRQ \/ keyboard_handler \/ mouse_handler
Hardware == TakeInput \/ Deliver

Next == InitMouse \/ Handle \/ Hardware \/ PressKey \/ \E m \in Moves : Move(m)

Spec == Init /\ [][Next]_vars

\* The CPU runs and the controller works; keys and movements need not come.
Fairness == WF_vars(InitMouse \/ Handle) /\ WF_vars(Hardware)
FairSpec == Spec /\ Fairness

-----------------------------------------------------------------------------
(* Properties.                                                             *)

\* The type invariant.
TypeOK ==
    /\ Len(input) <= 1 /\ target \in {"keyboard", "mouse", "command"}
    /\ obf \in BOOLEAN /\ irq \in {0, 1, 12} /\ command_byte \in 0..255
    /\ ip \in 1..Done /\ config \in 0..255
    /\ mouse_cycle \in 0..2
    /\ mouse_x_pos \in 0..VGA_TEXT_WIDTH /\ mouse_y_pos \in 0..VGA_TEXT_HEIGHT

\* What the initialisation needs to go well: the keyboard's handler to take the
\* answers it provokes from the keyboard, each of them to come before the
\* driver's next write, and nobody to touch a device meanwhile.
Quietly == hooked /\ ~disturbed /\ ~late

\* Then init_mouse ends with the handler registered and both devices on,
\* though the acknowledgements it checks first are the keyboard's, taken by
\* another handler and read a second time (mouse.c:190-241).
Initialised ==
    ip = Done /\ Quietly =>
        /\ registered /\ reporting
        /\ Bit(command_byte, 0) /\ Bit(command_byte, 1)
        /\ ~Bit(command_byte, 4) /\ ~Bit(command_byte, 5)

\* Then the handler, which has nothing to resynchronise it, takes each byte of
\* a packet for what it is, and the pointer is where the packets put it once
\* all have been handled (mouse.c:125-167).
InStep ==
    registered /\ Quietly =>
        /\ irq = 12 => port60.of = <<"status", "x", "y">>[mouse_cycle + 1]
        /\ mouse = <<>> /\ irq = 0 => <<mouse_x_pos, mouse_y_pos>> = expected

\* Then init_mouse ends, and no byte stays in the output buffer, where it would
\* silence both devices (mouse.c:28-48, 60-64).
NeverStuck == <>[](ip = Done) /\ [](Quietly => <>(~obf \/ ~Quietly))
=============================================================================
