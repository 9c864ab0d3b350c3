----------------------------- MODULE Interrupts -----------------------------
(***************************************************************************)
(* From a device's request line to its driver's handler and back: the IDT  *)
(* (k/idt.c), the dispatch of interrupts and exceptions (k/isr.c,          *)
(* k/isr_asm.S), the hardware requests (k/irq.c), the two 8259 interrupt   *)
(* controllers (k/pic_8259.c) and the CPU's interrupt flag (k/io_asm.S).   *)
(*                                                                         *)
(* The controllers are hardware, modelled from how the code drives them:   *)
(* an 8259 latches requests (irr), offers the CPU the one of the highest   *)
(* priority that is not masked (imr) and not behind one in service (isr),  *)
(* and drops the latter at an end-of-interrupt command.  Lines 8 to 15     *)
(* belong to the second controller and reach the CPU through line 2.       *)
(***************************************************************************)
EXTENDS Integers, Sequences, FiniteSets

CONSTANTS
    Lines,       \* lines a device is connected to, a subset of 0..15
    Drivers,     \* lines whose driver registers a handler, in boot order
    OwnEoi,      \* lines whose handler sends an end-of-interrupt itself
    MaxFrames    \* bound: interrupts handled inside one another

ASSUME LinesAssumption == Lines \subseteq (0..15) \ {2}
ASSUME DriversAssumption == Drivers \in Seq(Lines)
ASSUME OwnEoiAssumption == OwnEoi \subseteq Lines
ASSUME MaxFramesAssumption == MaxFrames \in Nat \ {0}

VARIABLES
    ip,        \* how far the main flow is in Boot
    eflags_IF, \* the interrupt flag of the CPU
    frames,    \* interrupts being handled, innermost first: [irq, at, flag]
    halted,    \* "no", "panic" (kernel_panic) or "fault" (no gate: triple fault)
    present,   \* the vectors whose gate is present in the IDT
    routed,    \* the vectors interrupt_handlers sends to IRQ_handler
    handlers,  \* the lines with an entry in IRQ_handlersMap
    icw,       \* per controller: the initialisation word it expects, 0 if none
    offset,    \* per controller: the vector of its first line
    irr, isr, imr,  \* requested, in-service and masked lines
    asked      \* history: requests since their line's handler last ran

software == <<present, routed, handlers>>
setup == <<icw, offset>>
vars == <<ip, eflags_IF, frames, halted, software, setup, irr, isr, imr, asked>>

PIC_REMAP_OFFSET == 32
Controller(line) == IF line < 8 THEN 1 ELSE 2
LinesOf(pic) == IF pic = 1 THEN 0..7 ELSE 8..15
Cascade == 2
MinOf(S) == CHOOSE x \in S : \A y \in S : x <= y

-----------------------------------------------------------------------------
(* The 8259s, as the kernel sees them.                                     *)

\* A line of this controller that may interrupt the CPU now.
Offered(pic, requests) ==
    {l \in (requests \cap LinesOf(pic)) \ imr :
        icw[pic] = 0 /\ \A s \in isr \cap LinesOf(pic) : l < s}

Requests ==
    IF Offered(2, irr) = {} THEN irr ELSE irr \cup {Cascade}

\* The vector of a request the controllers put on the bus, by line.
Vector(line) == offset[Controller(line)] + line - (IF line < 8 THEN 0 ELSE 8)

\* A non-specific EOI drops the in-service line of the highest priority.
Retired(pic, inService) ==
    LET mine == inService \cap LinesOf(pic)
    IN  IF mine = {} THEN inService ELSE inService \ {MinOf(mine)}

\* A device raises its line; a request already latched is not counted twice.
Raise(line) ==
    /\ irr' = irr \cup {line}
    /\ asked' = asked \cup {line}
    /\ UNCHANGED <<ip, eflags_IF, frames, halted, software, setup, isr, imr>>

\* A device takes back a request the CPU has not taken yet.
Withdraw(line) ==
    /\ line \in irr
    /\ irr' = irr \ {line}
    /\ asked' = asked \ {line}
    /\ UNCHANGED <<ip, eflags_IF, frames, halted, software, setup, isr, imr>>

-----------------------------------------------------------------------------
(* Boot: what HAL_initialize runs of these modules, one step per access to *)
(* a controller.                                                           *)

Command(pic) == [op |-> "command", pic |-> pic, value |-> 17]
Data(pic, value) == [op |-> "data", pic |-> pic, value |-> value]
Op(name) == [op |-> name, pic |-> 0, value |-> 0]
Hook(line) == [op |-> "IRQ_RegisterHandler", pic |-> 0, value |-> line]

BugInitPIC ==
    << Command(1), Command(2), Data(1, 8), Data(2, 112),
       Data(1, 4), Data(2, 2), Data(1, 1), Data(2, 1), Data(1, 0), Data(1, 0) >>
init_PIC_8259 ==
    << Command(1), Command(2),
       Data(1, PIC_REMAP_OFFSET), Data(2, PIC_REMAP_OFFSET + 8),
       Data(1, 4), Data(2, 2),
       Data(1, 1), Data(2, 1),
       Data(1, 0), Data(1, 0) >>

BugInitIRQ == init_PIC_8259 \o <<Op("sti"), Op("route")>>
init_IRQ == init_PIC_8259 \o <<Op("route"), Op("sti")>>

\* init_ISR, init_IRQ, init_timer (which runs timer_set_frequency between cli
\* and sti), then the drivers that register a handler.
Boot ==
    <<Op("init_ISR")>> \o init_IRQ \o <<Op("cli"), Op("sti")>>
    \o [i \in DOMAIN Drivers |-> Hook(Drivers[i])]

Init ==
    /\ ip = 1
    /\ eflags_IF = FALSE
    /\ frames = <<>>
    /\ halted = "no"
    /\ present = {} /\ routed = {} /\ handlers = {}
    /\ icw = [pic \in 1..2 |-> 0]
    /\ offset = [pic \in 1..2 |-> IF pic = 1 THEN 8 ELSE 112]
    /\ irr = {} /\ isr = {}
    /\ imr \in SUBSET Lines     \* whatever the firmware left
    /\ asked = {}

Running == frames = <<>> /\ halted = "no"
MainStep(op) == Running /\ ip \in DOMAIN Boot /\ Boot[ip].op = op /\ ip' = ip + 1
now == Boot[ip]

\* ICW1: the controller forgets everything and expects ICW2.
OutCommand ==
    /\ MainStep("command")
    /\ icw' = [icw EXCEPT ![now.pic] = 2]
    /\ irr' = irr \ LinesOf(now.pic)
    /\ isr' = isr \ LinesOf(now.pic)
    /\ imr' = imr \ LinesOf(now.pic)
    /\ asked' = asked \ LinesOf(now.pic)
    /\ UNCHANGED <<eflags_IF, frames, halted, software, offset>>

NextIcw(w) == IF w = 4 THEN 0 ELSE w + 1

\* A byte on the data port: the next ICW, or the mask when none is expected.
OutData ==
    /\ MainStep("data")
    /\ IF icw[now.pic] = 0
       THEN /\ imr' = (imr \ LinesOf(now.pic)) \cup
                        {l \in LinesOf(now.pic) : now.value = 255}
            /\ UNCHANGED setup
       ELSE /\ icw' = [icw EXCEPT ![now.pic] = NextIcw(@)]
            /\ offset' = IF icw[now.pic] = 2
                         THEN [offset EXCEPT ![now.pic] = now.value] ELSE offset
            /\ UNCHANGED imr
    /\ UNCHANGED <<eflags_IF, frames, halted, software, irr, isr, asked>>

\* The vectors that get an entry and, in isr_asm.S, a stub of their own.
ISR_InitializeEntries == 0..255

\* The loop of init_ISR makes every gate present, then 0x80's is not.
init_ISR ==
    /\ MainStep("init_ISR")
    /\ present' = ISR_InitializeEntries \ {128}
    /\ UNCHANGED <<eflags_IF, frames, halted, routed, handlers, setup,
                   irr, isr, imr, asked>>

\* The loop of init_IRQ: ISR_RegisterHandler for each of the 16 lines.
ISR_RegisterHandlers ==
    /\ MainStep("route")
    /\ routed' = PIC_REMAP_OFFSET..(PIC_REMAP_OFFSET + 15)
    /\ present' = present \cup routed'
    /\ UNCHANGED <<eflags_IF, frames, halted, handlers, setup,
                   irr, isr, imr, asked>>

enable_interrupts ==
    /\ MainStep("sti")
    /\ eflags_IF' = TRUE
    /\ UNCHANGED <<frames, halted, software, setup, irr, isr, imr, asked>>

disable_interrupts ==
    /\ MainStep("cli")
    /\ eflags_IF' = FALSE
    /\ UNCHANGED <<frames, halted, software, setup, irr, isr, imr, asked>>

IRQ_RegisterHandler ==
    /\ MainStep("IRQ_RegisterHandler")
    /\ handlers' = handlers \cup {now.value}
    /\ UNCHANGED <<eflags_IF, frames, halted, present, routed, setup,
                   irr, isr, imr, asked>>

\* Once booted, kernel code may mask a line and unmask it.
Booted == Running /\ ip > Len(Boot)
IRQ_set_mask(line) ==
    /\ Booted /\ imr' = imr \cup {line}
    /\ UNCHANGED <<ip, eflags_IF, frames, halted, software, setup, irr, isr, asked>>
IRQ_clear_mask(line) ==
    /\ Booted /\ imr' = imr \ {line}
    /\ UNCHANGED <<ip, eflags_IF, frames, halted, software, setup, irr, isr, asked>>
\* It masks the line of the second controller too; nothing gets through after
\* its first write, so its two writes are one step.
disable_PIC ==
    /\ Booted /\ imr' = 0..15
    /\ UNCHANGED <<ip, eflags_IF, frames, halted, software, setup, irr, isr, asked>>

-----------------------------------------------------------------------------
(* Interrupts and exceptions.                                              *)

BugGateIF == eflags_IF
\* The gates are interrupt gates: taking one turns interrupts off.
GateIF == FALSE

\* The cli of kernel_panic.
PanicIF == FALSE

\* The CPU takes a vector: to IRQ_handler by way of ISR_handler, to
\* kernel_panic if an exception has no handler, to a triple fault if there is
\* no gate.  An unhandled vector above 31 is only reported.
Take(vector, irq) ==
    /\ Len(frames) < MaxFrames
    /\ IF vector \notin present THEN
            /\ halted' = "fault" /\ eflags_IF' = FALSE
            /\ UNCHANGED frames
       ELSE IF vector \in routed THEN
            /\ frames' = <<[irq |-> irq, at |-> "IRQ_handler",
                            flag |-> eflags_IF]>> \o frames
            /\ eflags_IF' = GateIF
            /\ UNCHANGED halted
       ELSE IF vector < 32 THEN
            /\ halted' = "panic" /\ eflags_IF' = PanicIF
            /\ UNCHANGED frames
       ELSE UNCHANGED <<frames, eflags_IF, halted>>

\* The CPU acknowledges the request of the highest priority, through line 2 if
\* it is the second controller's.
Interrupt(line) ==
    LET first == IF line < 8 THEN line ELSE Cascade
    IN  /\ eflags_IF /\ halted # "fault"
        /\ line \in Offered(Controller(line), irr)
        /\ \A l \in Offered(Controller(line), irr) : line <= l
        /\ first \in Offered(1, Requests)
        /\ \A l \in Offered(1, Requests) : first <= l
        /\ isr' = isr \cup {first, line}
        /\ irr' = irr \ {line}
        /\ Take(Vector(line), line)
        /\ UNCHANGED <<ip, software, setup, imr, asked>>

\* The request was withdrawn after the CPU had seen it: the controller makes
\* up its lowest line, which is not in service.
SpuriousInterrupt(pic) ==
    /\ eflags_IF /\ halted # "fault"
    /\ icw[1] = 0 /\ icw[2] = 0
    /\ LET line == IF pic = 1 THEN 7 ELSE 15
       IN  /\ isr' = IF pic = 1 THEN isr ELSE isr \cup {Cascade}
           /\ Take(Vector(line), line)
    /\ UNCHANGED <<ip, software, setup, irr, imr, asked>>

\* An exception in the main flow: ISR_handler has no handler for any.
Exception ==
    /\ Running
    /\ IF 0 \in present THEN halted' = "panic" /\ eflags_IF' = PanicIF
                         ELSE halted' = "fault" /\ eflags_IF' = FALSE
    /\ UNCHANGED <<ip, frames, software, setup, irr, isr, imr, asked>>

InFrame(at) == frames # <<>> /\ Head(frames).at = at /\ halted = "no"
line_ == Head(frames).irq
Goto(at) ==
    frames' = <<[irq |-> line_, at |-> at, flag |-> Head(frames).flag]>>
              \o Tail(frames)

\* IRQ_handler: call the driver's handler, if there is one.
Dispatch ==
    /\ InFrame("IRQ_handler")
    /\ asked' = asked \ {line_}
    /\ Goto(IF line_ \in handlers \cap OwnEoi THEN "own_eoi" ELSE "eoi")
    /\ UNCHANGED <<ip, eflags_IF, halted, software, setup, irr, isr, imr>>

BugSendEoi(irq, inService) ==
    IF irq >= 8 THEN Retired(2, inService) ELSE Retired(1, inService)
\* send_PIC_EOI: the second controller first, for the lines that are its own.
send_PIC_EOI(irq, inService) ==
    Retired(1, IF irq >= 8 THEN Retired(2, inService) ELSE inService)

\* The handler of the mouse ends with an EOI of its own (mouse.c:166).
HandlerEoi ==
    /\ InFrame("own_eoi")
    /\ isr' = send_PIC_EOI(line_, isr)
    /\ Goto("eoi")
    /\ UNCHANGED <<ip, eflags_IF, halted, software, setup, irr, imr, asked>>

Eoi ==
    /\ InFrame("eoi")
    /\ isr' = send_PIC_EOI(line_, isr)
    /\ Goto("iret")
    /\ UNCHANGED <<ip, eflags_IF, halted, software, setup, irr, imr, asked>>

Iret ==
    /\ InFrame("iret")
    /\ eflags_IF' = Head(frames).flag
    /\ frames' = Tail(frames)
    /\ UNCHANGED <<ip, halted, software, setup, irr, isr, imr, asked>>

-----------------------------------------------------------------------------
Main == \/ init_ISR \/ OutCommand \/ OutData \/ ISR_RegisterHandlers
        \/ enable_interrupts \/ disable_interrupts \/ IRQ_RegisterHandler
Handle == Dispatch \/ HandlerEoi \/ Eoi \/ Iret

Next ==
    \/ Main \/ Handle \/ Exception \/ disable_PIC
    \/ \E pic \in 1..2 : SpuriousInterrupt(pic)
    \/ \E line \in Lines : Raise(line) \/ Withdraw(line) \/ Interrupt(line)
    \/ \E line \in Lines \cup {Cascade} : IRQ_set_mask(line) \/ IRQ_clear_mask(line)

Spec == Init /\ [][Next]_vars

\* The CPU runs, and takes a request the controllers offer at the next
\* instruction: before the device that raised it does anything else.
FairSpec ==
    /\ Spec /\ WF_vars(Main) /\ WF_vars(Handle)
    /\ \A line \in Lines : SF_vars(Interrupt(line))

-----------------------------------------------------------------------------
(* Properties.                                                             *)

\* Interrupts are never on before a request can find its way: both
\* controllers initialised, their vectors clear of the exceptions, and each
\* of these vectors present and sent to IRQ_handler (irq.c:41-53,
\* pic_8259.c:5-37).  In particular init_ISR and init_IRQ run before any sti.
ReadyWhenEnabled ==
    eflags_IF => /\ icw = [pic \in 1..2 |-> 0]
                 /\ \A line \in Lines :
                       /\ Vector(line) = PIC_REMAP_OFFSET + line
                       /\ Vector(line) \in present \cap routed

\* No request, spurious ones included, ends in a triple fault or a panic:
\* only an exception halts the machine.
RequestsNeverHalt == [][halted # halted' => Exception]_vars

\* A handler runs to its end before another one starts: drivers may treat
\* theirs as atomic (idt.c:8-17: interrupt gates).
NoNesting == Len(frames) <= 1

\* In service are only lines whose handler has yet to send its EOI: none is
\* left behind to block the lower ones, though IRQ_handler also answers
\* spurious requests with an EOI and the mouse handler sends a second one
\* (irq.c:33, mouse.c:166, pic_8259.c:84-89).
InServiceIsHandled ==
    isr \subseteq UNION {{f.irq} \cup (IF f.irq < 8 THEN {} ELSE {Cascade}) :
                          f \in {frames[i] : i \in {j \in DOMAIN frames :
                                                     frames[j].at # "iret"}}}

\* An EOI retires the request whose handler sends it and no other one.
EoiRetiresOwn ==
    [][Handle => isr \ isr' \subseteq {line_, Cascade}]_vars

Masked(line) == line \in imr \/ (line >= 8 /\ Cascade \in imr)

\* A request on a line that is not masked reaches IRQ_handler's dispatch,
\* provided the lines of higher priority leave it a chance.  IRQ_clear_mask
\* unmasks one line: one of the second controller stays masked as long as
\* line 2 is (pic_8259.c:58-82).
Above(line) == {l \in Lines : IF line < 8 THEN l < line
                              ELSE l < 2 \/ (l >= 8 /\ l < line)}
Served ==
    \A line \in Lines :
        []<>(Booted /\ irr \cap Above(line) = {}) =>
            ((Booted /\ line \in asked) ~> (line \notin asked \/ Masked(line)))

\* "Mask all interrupt" (pic_8259.c:32): after init_PIC_8259 every line is
\* masked until a driver asks for it.
AllMaskedAtFirst ==
    (ip \in DOMAIN Boot /\ Boot[ip].op = "route") => Lines \subseteq imr
=============================================================================
