-------------------------- MODULE InterruptsProofs --------------------------
(***************************************************************************)
(* Theorems about the dispatch of interrupts, for every set of lines, every *)
(* choice of drivers, of handlers that send an EOI of their own, and every *)
(* bound on the nesting.                                                   *)
(***************************************************************************)
EXTENDS Interrupts, SequenceTheorems, TLAPS

(***************************************************************************)
(* Handlers run one at a time.  NoNesting is not inductive: a handler must *)
(* also have been entered with interrupts off.                             *)
(***************************************************************************)

\* The lines of the two controllers, with or without a device.
AllLines == 0..15

Frame == [irq : AllLines, flag : BOOLEAN,
          at : {"IRQ_handler", "own_eoi", "eoi", "iret"}]

OneAtATime ==
    /\ frames \in Seq(Frame)
    /\ Len(frames) <= 1
    /\ eflags_IF \in BOOLEAN
    /\ frames # <<>> => ~eflags_IF

\* What the CPU does with a vector keeps it so: it took one, so interrupts
\* were on and nothing was being handled.
LEMMA OneAtATimeTake ==
    ASSUME OneAtATime, eflags_IF, NEW vector, NEW irq \in AllLines,
           Take(vector, irq)
    PROVE  OneAtATime'
<1>1. frames = <<>>
    BY DEF OneAtATime
<1>2. CASE UNCHANGED frames
    BY <1>1, <1>2 DEF OneAtATime, Take, PanicIF, GateIF
<1>3. CASE /\ frames' = <<[irq |-> irq, at |-> "IRQ_handler", flag |-> eflags_IF]>>
                        \o frames
           /\ eflags_IF' = GateIF
  <2> DEFINE f == [irq |-> irq, at |-> "IRQ_handler", flag |-> eflags_IF]
  <2>1. f \in Frame
      BY DEF Frame, OneAtATime
  <2>2. frames' = <<f>>
      BY <1>1, <1>3
  <2> HIDE DEF f
  <2>3. frames' \in Seq(Frame) /\ Len(frames') <= 1
      BY <2>1, <2>2
  <2>4. eflags_IF' \in BOOLEAN /\ ~eflags_IF'
      BY <1>3 DEF GateIF
  <2> QED BY <2>3, <2>4 DEF OneAtATime
<1> QED BY <1>2, <1>3 DEF Take

\* There is one frame, and a step of the handler that goes on keeps it.
LEMMA OneFrame ==
    ASSUME OneAtATime, frames # <<>>
    PROVE  /\ Head(frames) \in Frame /\ Tail(frames) = <<>>
           /\ \A at : Goto(at) =>
                frames' = <<[irq |-> line_, at |-> at, flag |-> Head(frames).flag]>>
<1>1. Head(frames) \in Frame /\ Tail(frames) \in Seq(Frame)
      /\ Len(frames) \in Nat /\ Len(Tail(frames)) = Len(frames) - 1
      /\ Len(Tail(frames)) \in Nat
    BY HeadTailProperties, LenProperties DEF OneAtATime
<1>2. Len(Tail(frames)) = 0
    BY <1>1 DEF OneAtATime
<1>3. Tail(frames) = <<>>
    BY <1>1, <1>2, EmptySeq
<1>4. ASSUME NEW at, Goto(at)
      PROVE  frames' = <<[irq |-> line_, at |-> at, flag |-> Head(frames).flag]>>
  <2> DEFINE f == [irq |-> line_, at |-> at, flag |-> Head(frames).flag]
  <2>1. frames' = <<f>> \o <<>>
      BY <1>3, <1>4 DEF Goto
  <2> HIDE DEF f
  <2>2. frames' = <<f>>
      BY <2>1
  <2> QED BY <2>2 DEF f
<1> QED BY <1>1, <1>3, <1>4

\* A handler's own steps keep its frame, until iret drops it.
LEMMA OneAtATimeHandle ==
    ASSUME OneAtATime, Handle
    PROVE  OneAtATime'
<1>1. frames # <<>>
    BY DEF Handle, Dispatch, HandlerEoi, Eoi, Iret, InFrame
<1>2. Head(frames) \in Frame /\ Tail(frames) = <<>>
    BY <1>1, OneFrame
<1>3. CASE Iret
  <2>1. frames' = <<>> /\ eflags_IF' = Head(frames).flag
      BY <1>2, <1>3 DEF Iret
  <2>2. Head(frames).flag \in BOOLEAN
      BY <1>2 DEF Frame
  <2>3. frames' \in Seq(Frame) /\ Len(frames') <= 1
      BY <2>1
  <2> QED BY <2>1, <2>2, <2>3 DEF OneAtATime
<1>4. CASE Dispatch \/ HandlerEoi \/ Eoi
  <2>1. PICK at \in {"own_eoi", "eoi", "iret"} : Goto(at)
      BY <1>4 DEF Dispatch, HandlerEoi, Eoi
  <2> DEFINE f == [irq |-> line_, at |-> at, flag |-> Head(frames).flag]
  <2>2. frames' = <<f>>
      BY <1>1, <2>1, OneFrame
  <2>3. f \in Frame
      BY <1>2 DEF Frame, line_
  <2> HIDE DEF f
  <2>4. frames' \in Seq(Frame) /\ Len(frames') <= 1
      BY <2>2, <2>3
  <2>5. UNCHANGED eflags_IF
      BY <1>4 DEF Dispatch, HandlerEoi, Eoi
  <2> QED BY <1>1, <2>4, <2>5 DEF OneAtATime
<1> QED BY <1>3, <1>4 DEF Handle

\* Every step keeps at most one handler running.
LEMMA OneAtATimeNext == OneAtATime /\ [Next]_vars => OneAtATime'
<1> SUFFICES ASSUME OneAtATime, [Next]_vars PROVE OneAtATime'
    OBVIOUS
<1>1. CASE Main
  <2>1. frames = <<>> /\ UNCHANGED frames
      BY <1>1 DEF Main, init_ISR, OutCommand, OutData, ISR_RegisterHandlers,
                  enable_interrupts, disable_interrupts, IRQ_RegisterHandler,
                  MainStep, Running
  <2>2. eflags_IF' \in BOOLEAN
      BY <1>1 DEF Main, init_ISR, OutCommand, OutData, ISR_RegisterHandlers,
                  enable_interrupts, disable_interrupts, IRQ_RegisterHandler,
                  OneAtATime
  <2> QED BY <2>1, <2>2 DEF OneAtATime
<1>2. CASE Handle
    BY <1>2, OneAtATimeHandle
<1>3. CASE Exception
    BY <1>3 DEF Exception, Running, PanicIF, OneAtATime
<1>4. CASE \E pic \in 1..2 : SpuriousInterrupt(pic)
  <2> PICK pic \in 1..2 : SpuriousInterrupt(pic)
      BY <1>4
  <2> DEFINE line == IF pic = 1 THEN 7 ELSE 15
  <2>1. line \in AllLines
      BY DEF AllLines
  <2>2. eflags_IF /\ Take(Vector(line), line)
      BY DEF SpuriousInterrupt
  <2> QED BY <2>1, <2>2, OneAtATimeTake
<1>5. CASE \E line \in Lines : Interrupt(line)
  <2> PICK line \in Lines : Interrupt(line)
      BY <1>5
  <2>1. line \in AllLines
      BY LinesAssumption DEF AllLines
  <2>2. eflags_IF /\ Take(Vector(line), line)
      BY DEF Interrupt
  <2> QED BY <2>1, <2>2, OneAtATimeTake
<1>6. CASE UNCHANGED <<frames, eflags_IF>>
    BY <1>6 DEF OneAtATime
<1>7. ASSUME NEW line, Raise(line) \/ Withdraw(line) \/ IRQ_set_mask(line)
                       \/ IRQ_clear_mask(line) \/ disable_PIC
      PROVE  UNCHANGED <<frames, eflags_IF>>
    BY <1>7 DEF Raise, Withdraw, IRQ_set_mask, IRQ_clear_mask, disable_PIC
<1>8. vars' = vars => UNCHANGED <<frames, eflags_IF>>
    BY DEF vars
<1> QED BY <1>1, <1>2, <1>3, <1>4, <1>5, <1>6, <1>7, <1>8 DEF Next

(***************************************************************************)
(* Nothing comes before its time.  Boot is a straight line, so where the   *)
(* main flow is in it says what the controllers and the IDT hold.          *)
(***************************************************************************)

\* The initialisation word this controller expects at this point of Boot.
Expected(pic, n) ==
    IF n \in (pic + 2)..(pic + 3) THEN 2
    ELSE IF n \in (pic + 4)..(pic + 5) THEN 3
    ELSE IF n \in (pic + 6)..(pic + 7) THEN 4
    ELSE 0

\* ReadyWhenEnabled, step by step of Boot.
SetUpSoFar ==
    /\ ip \in Nat \ {0}
    /\ icw \in [1..2 -> Nat] /\ \A pic \in 1..2 : icw[pic] = Expected(pic, ip)
    /\ offset \in [1..2 -> Nat]
    /\ ip >= 5 => offset[1] = PIC_REMAP_OFFSET
    /\ ip >= 6 => offset[2] = PIC_REMAP_OFFSET + 8
    /\ ip >= 13 =>
          PIC_REMAP_OFFSET..(PIC_REMAP_OFFSET + 15) \subseteq present \cap routed
    /\ eflags_IF \/ frames # <<>> => ip >= 14

\* The lines in service while a request is handled.
Held(line) == {line} \cup (IF line < 8 THEN {} ELSE {Cascade})

\* Those the running handler has yet to send an EOI for.
Unanswered ==
    IF frames = <<>> \/ Head(frames).at = "iret" THEN {}
    ELSE Held(line_)

\* InServiceIsHandled, for the one handler there is.
NothingLeftInService == isr \subseteq Unanswered

\* Every variable keeps to its values.
TypeOK ==
    /\ ip \in Nat \ {0}
    /\ eflags_IF \in BOOLEAN
    /\ frames \in Seq(Frame)
    /\ halted \in {"no", "panic", "fault"}
    /\ present \subseteq 0..255 /\ routed \subseteq 0..255 /\ handlers \subseteq Lines
    /\ icw \in [1..2 -> {0, 2, 3, 4}] /\ offset \in [1..2 -> Nat]
    /\ irr \subseteq Lines /\ isr \subseteq AllLines /\ imr \subseteq AllLines
    /\ asked \subseteq Lines

(***************************************************************************)
(* Boot, step by step.                                                     *)
(***************************************************************************)

Steps == [op : {"init_ISR", "command", "data", "route", "sti", "cli",
                "IRQ_RegisterHandler"},
          pic : 0..2, value : Nat]

\* r is s followed by t.
Joined(r, s, t, S) ==
    /\ r \in Seq(S)
    /\ Len(r) = Len(s) + Len(t)
    /\ \A i \in 1..Len(s) : r[i] = s[i]
    /\ \A i \in 1..Len(t) : r[Len(s) + i] = t[i]

\* Concatenation, without the case distinction on the index.
LEMMA JoinedConcat ==
    ASSUME NEW S, NEW s \in Seq(S), NEW t \in Seq(S)
    PROVE  Joined(s \o t, s, t, S)
<1> DEFINE r == s \o t
<1>1. /\ r \in Seq(S) /\ Len(r) = Len(s) + Len(t)
      /\ \A i \in 1..Len(s) + Len(t) :
            r[i] = IF i <= Len(s) THEN s[i] ELSE t[i - Len(s)]
    BY ConcatProperties, Zenon
<1> HIDE DEF r
<1>2. Len(s) \in Nat /\ Len(t) \in Nat
    BY SMT
<1>3. \A i \in 1..Len(t) : /\ Len(s) + i \in 1..Len(s) + Len(t)
                           /\ ~(Len(s) + i <= Len(s))
                           /\ Len(s) + i - Len(s) = i
    BY <1>2, SMT
<1>4. \A i \in 1..Len(s) : i \in 1..Len(s) + Len(t) /\ i <= Len(s)
    BY <1>2, SMT
<1>5. Joined(r, s, t, S)
    BY <1>1, <1>2, <1>3, <1>4 DEF Joined
<1> QED BY <1>5 DEF r

\* What HAL_initialize runs, in order: init_ISR, init_PIC_8259, the rest of
\* init_IRQ, the cli and sti of timer_set_frequency, then the drivers.
LEMMA BootTable ==
    /\ Len(Boot) = 15 + Len(Drivers)
    /\ Boot[1] = Op("init_ISR")
    /\ Boot[2] = Command(1) /\ Boot[3] = Command(2)
    /\ Boot[4] = Data(1, 32) /\ Boot[5] = Data(2, 40)
    /\ Boot[6] = Data(1, 4) /\ Boot[7] = Data(2, 2)
    /\ Boot[8] = Data(1, 1) /\ Boot[9] = Data(2, 1)
    /\ Boot[10] = Data(1, 0) /\ Boot[11] = Data(1, 0)
    /\ Boot[12] = Op("route") /\ Boot[13] = Op("sti")
    /\ Boot[14] = Op("cli") /\ Boot[15] = Op("sti")
    /\ \A i \in 1..Len(Drivers) : Boot[15 + i] = Hook(Drivers[i])
<1> DEFINE hooks == [i \in DOMAIN Drivers |-> Hook(Drivers[i])]
           exceptions == <<Op("init_ISR")>>
           pics == init_PIC_8259
           open == <<Op("route"), Op("sti")>>
           irqs == pics \o open
           tables == exceptions \o irqs
           timer == <<Op("cli"), Op("sti")>>
           shared == tables \o timer
<1>1. /\ hooks \in Seq(Steps) /\ Len(hooks) = Len(Drivers) /\ Len(Drivers) \in Nat
      /\ \A i \in 1..Len(Drivers) : hooks[i] = Hook(Drivers[i])
  <2>1. /\ Len(Drivers) \in Nat /\ DOMAIN Drivers = 1..Len(Drivers)
        /\ \A i \in DOMAIN Drivers : Drivers[i] \in Lines
      BY DriversAssumption
  <2>2. \A line \in Lines : Hook(line) \in Steps
      BY LinesAssumption DEF Hook, Steps
  <2>3. hooks \in [1..Len(Drivers) -> Steps]
      BY <2>1, <2>2
  <2> QED BY <2>1, <2>3
<1>2. pics = <<Command(1), Command(2), Data(1, 32), Data(2, 40), Data(1, 4),
               Data(2, 2), Data(1, 1), Data(2, 1), Data(1, 0), Data(1, 0)>>
  <2>1. PIC_REMAP_OFFSET = 32 /\ PIC_REMAP_OFFSET + 8 = 40
      BY SMT DEF PIC_REMAP_OFFSET
  <2> QED BY <2>1 DEF init_PIC_8259
<1>3. /\ Command(1) \in Steps /\ Command(2) \in Steps
      /\ \A p \in 1..2, v \in Nat : Data(p, v) \in Steps
      /\ Op("route") \in Steps /\ Op("init_ISR") \in Steps
      /\ Op("sti") \in Steps /\ Op("cli") \in Steps
    BY DEF Steps, Command, Data, Op
<1>4. pics \in Seq(Steps) /\ Len(pics) = 10
    BY <1>2, <1>3
<1>5. /\ exceptions \in Seq(Steps) /\ Len(exceptions) = 1
      /\ open \in Seq(Steps) /\ Len(open) = 2
      /\ timer \in Seq(Steps) /\ Len(timer) = 2
    BY <1>3
<1>6. /\ exceptions[1] = Op("init_ISR")
      /\ open[1] = Op("route") /\ open[2] = Op("sti")
      /\ timer[1] = Op("cli") /\ timer[2] = Op("sti")
    OBVIOUS
<1>7. /\ pics[1] = Command(1) /\ pics[2] = Command(2)
      /\ pics[3] = Data(1, 32) /\ pics[4] = Data(2, 40)
      /\ pics[5] = Data(1, 4) /\ pics[6] = Data(2, 2)
      /\ pics[7] = Data(1, 1) /\ pics[8] = Data(2, 1)
      /\ pics[9] = Data(1, 0) /\ pics[10] = Data(1, 0)
    BY <1>2
<1>8. Boot = shared \o hooks
    BY DEF Boot, init_IRQ
<1> HIDE DEF hooks, exceptions, pics, open, irqs, tables, timer, shared
<1>9. /\ irqs \in Seq(Steps) /\ Len(irqs) = 12 /\ \A i \in 1..10 : irqs[i] = pics[i]
      /\ irqs[11] = open[1] /\ irqs[12] = open[2]
  <2>1. Joined(irqs, pics, open, Steps)
      BY <1>4, <1>5, JoinedConcat, Zenon DEF irqs
  <2> QED BY <2>1, <1>4, <1>5, SMT DEF Joined
<1>10. /\ tables \in Seq(Steps) /\ Len(tables) = 13
       /\ tables[1] = exceptions[1] /\ \A i \in 1..12 : tables[1 + i] = irqs[i]
  <2>1. Joined(tables, exceptions, irqs, Steps)
      BY <1>9, <1>5, JoinedConcat, Zenon DEF tables
  <2> QED BY <2>1, <1>9, <1>5, SMT DEF Joined
<1>11. /\ shared \in Seq(Steps) /\ Len(shared) = 15
       /\ \A i \in 1..13 : shared[i] = tables[i]
       /\ shared[14] = timer[1] /\ shared[15] = timer[2]
  <2>1. Joined(shared, tables, timer, Steps)
      BY <1>10, <1>5, JoinedConcat, Zenon DEF shared
  <2> QED BY <2>1, <1>10, <1>5, SMT DEF Joined
<1>12. /\ Len(Boot) = 15 + Len(Drivers) /\ \A i \in 1..15 : Boot[i] = shared[i]
       /\ \A i \in 1..Len(Drivers) : Boot[15 + i] = hooks[i]
  <2>1. Joined(Boot, shared, hooks, Steps)
      BY <1>11, <1>1, <1>8, JoinedConcat, Zenon
  <2> QED BY <2>1, <1>11, <1>1, SMT DEF Joined
<1>13. /\ Boot[1] = exceptions[1] /\ \A i \in 1..10 : Boot[i + 1] = pics[i]
       /\ Boot[12] = open[1] /\ Boot[13] = open[2]
       /\ Boot[14] = timer[1] /\ Boot[15] = timer[2]
  <2>1. \A i \in 1..12 : i + 1 \in 1..13 /\ i + 1 \in 1..15 /\ i + 1 = 1 + i
      BY SMT
  <2>2. \A i \in 1..12 : Boot[i + 1] = irqs[i]
      BY <2>1, <1>10, <1>11, <1>12
  <2>3. /\ 11 + 1 = 12 /\ 12 + 1 = 13 /\ 11 \in 1..12 /\ 12 \in 1..12
        /\ 1 \in 1..13 /\ 1 \in 1..15 /\ 14 \in 1..15 /\ 15 \in 1..15
        /\ \A i \in 1..10 : i \in 1..12
      BY SMT
  <2>4. \A i \in 1..10 : Boot[i + 1] = pics[i]
      BY <2>2, <2>3, <1>9
  <2>5. Boot[12] = irqs[11] /\ Boot[13] = irqs[12]
      BY <2>2, <2>3
  <2> QED BY <2>3, <2>4, <2>5, <1>9, <1>10, <1>11, <1>12
<1>14. /\ Boot[2] = pics[1] /\ Boot[3] = pics[2] /\ Boot[4] = pics[3]
       /\ Boot[5] = pics[4] /\ Boot[6] = pics[5] /\ Boot[7] = pics[6]
       /\ Boot[8] = pics[7] /\ Boot[9] = pics[8] /\ Boot[10] = pics[9]
       /\ Boot[11] = pics[10]
    BY <1>13, SMT
<1> QED BY <1>1, <1>6, <1>7, <1>12, <1>13, <1>14, Zenon

\* The step of Boot the main flow is at.
LEMMA StepOfBoot ==
    ASSUME ip \in DOMAIN Boot
    PROVE  /\ ip = 1 => now = Op("init_ISR")
           /\ ip = 2 => now = Command(1)
           /\ ip = 3 => now = Command(2)
           /\ ip = 4 => now = Data(1, 32)
           /\ ip = 5 => now = Data(2, 40)
           /\ ip = 6 => now = Data(1, 4)
           /\ ip = 7 => now = Data(2, 2)
           /\ ip = 8 => now = Data(1, 1)
           /\ ip = 9 => now = Data(2, 1)
           /\ ip = 10 => now = Data(1, 0)
           /\ ip = 11 => now = Data(1, 0)
           /\ ip = 12 => now = Op("route")
           /\ ip = 13 => now = Op("sti")
           /\ ip = 14 => now = Op("cli")
           /\ ip = 15 => now = Op("sti")
           /\ ip \in 1..15 \/ (/\ ip \in Nat /\ ip > 15
                               /\ \E line \in Lines : now = Hook(line))
<1>1. Len(Drivers) \in Nat /\ \A i \in 1..Len(Drivers) : Drivers[i] \in Lines
    BY DriversAssumption
<1>2. ip \in 1..(15 + Len(Drivers))
    BY BootTable
<1>3. CASE ip > 15
  <2> DEFINE i == ip - 15
  <2>1. ip \in Nat /\ i \in 1..Len(Drivers) /\ ip = 15 + i /\ ~(ip \in 1..15)
      BY <1>1, <1>2, <1>3, SMT
  <2>2. now = Hook(Drivers[i]) /\ Drivers[i] \in Lines
      BY <1>1, <2>1, BootTable, Zenon DEF now
  <2>3. ip \notin {1, 2, 3, 4, 5, 6, 7, 8, 9, 10, 11, 12, 13, 14, 15}
      BY <1>3, <2>1, SMT
  <2> QED BY <1>3, <2>1, <2>2, <2>3, Zenon
<1>4. CASE ip <= 15
  <2>1. ip \in 1..15
      BY <1>1, <1>2, <1>4, SMT
  <2> QED BY <2>1, BootTable, Zenon DEF now
<1> QED BY <1>1, <1>2, <1>3, <1>4, SMT

\* A step of Boot brings the controllers and the IDT to where the next one
\* expects them.
LEMMA SetUpMain ==
    ASSUME SetUpSoFar, Main
    PROVE  SetUpSoFar'
<1>0. /\ ip \in DOMAIN Boot /\ ip' = ip + 1 /\ frames = <<>> /\ UNCHANGED frames
      /\ now.op \in {"init_ISR", "command", "data", "route", "sti", "cli",
                     "IRQ_RegisterHandler"}
    BY DEF Main, init_ISR, OutCommand, OutData, ISR_RegisterHandlers,
           enable_interrupts, disable_interrupts, IRQ_RegisterHandler, MainStep,
           Running, now
<1> USE DEF Op, Command, Data, Hook
<1>1. CASE init_ISR
  <2>1. ip = 1
      BY <1>0, <1>1, StepOfBoot, SMT DEF init_ISR, MainStep, now
  <2> QED BY <1>0, <1>1, <2>1, SMT DEF init_ISR, SetUpSoFar, Expected, setup
<1>2. CASE OutCommand
  <2>1. (ip = 2 /\ now.pic = 1) \/ (ip = 3 /\ now.pic = 2)
      BY <1>0, <1>2, StepOfBoot, SMT DEF OutCommand, MainStep, now
  <2> QED BY <1>0, <1>2, <2>1, SMT
             DEF OutCommand, SetUpSoFar, Expected, software
<1>3. CASE OutData
  <2>1. \/ ip = 4  /\ now.pic = 1 /\ now.value = 32
        \/ ip = 5  /\ now.pic = 2 /\ now.value = 40
        \/ ip = 6  /\ now.pic = 1
        \/ ip = 7  /\ now.pic = 2
        \/ ip = 8  /\ now.pic = 1
        \/ ip = 9  /\ now.pic = 2
        \/ ip \in {10, 11} /\ now.pic = 1
      BY <1>0, <1>3, StepOfBoot, SMT DEF OutData, MainStep, now
  <2> DEFINE w == icw[now.pic]
  <2>2. /\ ip \in {4, 5} => w = 2
        /\ ip \in {6, 7} => w = 3
        /\ ip \in {8, 9} => w = 4
        /\ ip \in {10, 11} => w = 0
      BY <2>1, SMT DEF SetUpSoFar, Expected
  <2> HIDE DEF w
  <2>3. CASE ip \in {10, 11}
    <3>1. UNCHANGED setup
        BY <1>3, <2>2, <2>3 DEF OutData, w
    <3> QED BY <1>0, <1>3, <2>3, <3>1, SMT
               DEF OutData, SetUpSoFar, Expected, software, setup
  <2>4. CASE ip \in {4, 5}
    <3>1. /\ icw' = [icw EXCEPT ![now.pic] = 3]
          /\ offset' = [offset EXCEPT ![now.pic] = now.value]
        BY <1>3, <2>2, <2>4, SMT DEF OutData, w, NextIcw
    <3> QED BY <1>0, <1>3, <2>1, <2>4, <3>1, SMT
               DEF OutData, SetUpSoFar, Expected, software, PIC_REMAP_OFFSET
  <2>5. CASE ip \in {6, 7, 8, 9}
    <3>1. /\ icw' = [icw EXCEPT ![now.pic] = IF w = 3 THEN 4 ELSE 0]
          /\ UNCHANGED offset
        BY <1>3, <2>2, <2>5, SMT DEF OutData, w, NextIcw
    <3> QED BY <1>0, <1>3, <2>1, <2>2, <2>5, <3>1, SMT
               DEF OutData, SetUpSoFar, Expected, software, PIC_REMAP_OFFSET
  <2> QED BY <2>1, <2>3, <2>4, <2>5
<1>4. CASE ISR_RegisterHandlers
  <2>1. ip = 12
      BY <1>0, <1>4, StepOfBoot, SMT DEF ISR_RegisterHandlers, MainStep, now
  <2> QED BY <1>0, <1>4, <2>1, SMT
             DEF ISR_RegisterHandlers, SetUpSoFar, Expected, setup
<1>5. CASE enable_interrupts
  <2>1. ip = 13 \/ ip = 15
      BY <1>0, <1>5, StepOfBoot, SMT DEF enable_interrupts, MainStep, now
  <2> QED BY <1>0, <1>5, <2>1, SMT
             DEF enable_interrupts, SetUpSoFar, Expected, setup, software
<1>6. CASE disable_interrupts
  <2>1. ip = 14
      BY <1>0, <1>6, StepOfBoot, SMT DEF disable_interrupts, MainStep, now
  <2> QED BY <1>0, <1>6, <2>1, SMT
             DEF disable_interrupts, SetUpSoFar, Expected, setup, software
<1>7. CASE IRQ_RegisterHandler
  <2>1. ip \in Nat /\ ip > 15
      BY <1>0, <1>7, StepOfBoot, SMT DEF IRQ_RegisterHandler, MainStep, now
  <2> QED BY <1>0, <1>7, <2>1, SMT
             DEF IRQ_RegisterHandler, SetUpSoFar, Expected, setup
<1> QED BY <1>1, <1>2, <1>3, <1>4, <1>5, <1>6, <1>7 DEF Main

\* Taking an interrupt and handling it happens after the setup, and keeps it.
LEMMA SetUpNext == SetUpSoFar /\ [Next]_vars => SetUpSoFar'
<1> SUFFICES ASSUME SetUpSoFar, [Next]_vars PROVE SetUpSoFar'
    OBVIOUS
<1>1. CASE Main
    BY <1>1, SetUpMain
<1>2. ASSUME UNCHANGED <<ip, icw, offset, present, routed>>,
             eflags_IF' \/ frames' # <<>> => eflags_IF \/ frames # <<>>
      PROVE  SetUpSoFar'
    BY <1>2 DEF SetUpSoFar
<1>3. CASE Handle
    BY <1>3, <1>2
       DEF Handle, Dispatch, HandlerEoi, Eoi, Iret, InFrame, software, setup
<1>4. CASE Exception
    BY <1>4, <1>2 DEF Exception, PanicIF, software, setup
<1>5. CASE \E pic \in 1..2 : SpuriousInterrupt(pic)
    BY <1>5, <1>2 DEF SpuriousInterrupt, software, setup
<1>6. CASE \E line \in Lines : Interrupt(line)
    BY <1>6, <1>2 DEF Interrupt, software, setup
<1>7. CASE \/ disable_PIC
           \/ \E line \in Lines : Raise(line) \/ Withdraw(line)
           \/ \E line \in Lines \cup {Cascade} :
                 IRQ_set_mask(line) \/ IRQ_clear_mask(line)
    BY <1>7, <1>2
       DEF Raise, Withdraw, IRQ_set_mask, IRQ_clear_mask, disable_PIC, software,
           setup
<1>8. CASE UNCHANGED vars
    BY <1>8, <1>2 DEF vars, software, setup
<1> QED BY <1>1, <1>3, <1>4, <1>5, <1>6, <1>7, <1>8 DEF Next

\* Before boot the tables are as SetUpSoFar has them at its first step.
LEMMA SetUpInit == Init => SetUpSoFar
    BY SMT DEF Init, SetUpSoFar, Expected

\* With interrupts on, the vector of every line is routed, spurious or not.
LEMMA VectorRouted ==
    ASSUME SetUpSoFar, eflags_IF, NEW line \in AllLines
    PROVE  /\ Vector(line) = PIC_REMAP_OFFSET + line
           /\ Vector(line) \in present \cap routed
<1>1. ip \in Nat /\ ip >= 14
    BY DEF SetUpSoFar
<1>2. offset[1] = 32 /\ offset[2] = 40
    BY <1>1, SMT DEF SetUpSoFar, PIC_REMAP_OFFSET
<1>3. Vector(line) = PIC_REMAP_OFFSET + line
    BY <1>2, SMT DEF Vector, Controller, AllLines, PIC_REMAP_OFFSET
<1>4. PIC_REMAP_OFFSET + line \in PIC_REMAP_OFFSET..(PIC_REMAP_OFFSET + 15)
    BY SMT DEF AllLines, PIC_REMAP_OFFSET
<1>5. PIC_REMAP_OFFSET..(PIC_REMAP_OFFSET + 15) \subseteq present \cap routed
    BY <1>1, SMT DEF SetUpSoFar
<1> QED BY <1>3, <1>4, <1>5

\* So an interrupt ends in IRQ_handler, and nowhere else.
LEMMA Taken ==
    ASSUME OneAtATime, SetUpSoFar, eflags_IF, NEW line \in AllLines,
           Take(Vector(line), line)
    PROVE  /\ frames = <<>> /\ UNCHANGED halted
           /\ frames' = <<[irq |-> line, at |-> "IRQ_handler", flag |-> eflags_IF]>>
<1>1. frames = <<>>
    BY DEF OneAtATime
<1>2. Vector(line) \in present \cap routed
    BY VectorRouted
<1> QED BY <1>1, <1>2 DEF Take

(***************************************************************************)
(* What is in service is what is being handled.                            *)
(***************************************************************************)

\* An EOI retires the only line of a controller that is in service.
LEMMA RetiredAlone ==
    ASSUME NEW pic \in 1..2, NEW line \in LinesOf(pic),
           NEW inService \in SUBSET AllLines,
           inService \cap LinesOf(pic) \subseteq {line}
    PROVE  Retired(pic, inService) = inService \ {line}
<1> DEFINE mine == inService \cap LinesOf(pic)
<1>1. CASE mine = {}
    BY <1>1 DEF Retired
<1>2. CASE mine = {line}
  <2>1. MinOf({line}) = line
    <3>1. line <= line
        BY SMT DEF LinesOf
    <3> QED BY <3>1 DEF MinOf
  <2> QED BY <1>2, <2>1 DEF Retired
<1> QED BY <1>1, <1>2

\* The EOI of a line leaves nothing in service, if only it was.
LEMMA EoiRetiresAll ==
    ASSUME NEW line \in AllLines,
           NEW inService \in SUBSET Held(line)
    PROVE  send_PIC_EOI(line, inService) = {}
<1>1. CASE line < 8
  <2>1. /\ line \in LinesOf(1) /\ ~(line >= 8)
        /\ inService \subseteq {line} /\ inService \subseteq AllLines
      BY <1>1, SMT DEF LinesOf, AllLines, Held
  <2>2. Retired(1, inService) = inService \ {line}
      BY <2>1, RetiredAlone
  <2> QED BY <2>1, <2>2 DEF send_PIC_EOI
<1>2. CASE line >= 8
  <2>1. /\ line \in LinesOf(2) /\ line \notin LinesOf(1)
        /\ Cascade \in LinesOf(1) /\ Cascade \notin LinesOf(2)
        /\ line \in AllLines /\ Cascade \in AllLines
        /\ ~(line < 8) /\ inService \subseteq {line, Cascade}
      BY <1>2, SMT DEF LinesOf, AllLines, Cascade, Held
  <2>2. Retired(2, inService) = inService \ {line}
      BY <2>1, RetiredAlone
  <2>3. Retired(1, inService \ {line}) = (inService \ {line}) \ {Cascade}
      BY <2>1, RetiredAlone
  <2> QED BY <1>2, <2>1, <2>2, <2>3 DEF send_PIC_EOI
<1> QED BY <1>1, <1>2, SMT DEF AllLines

\* The steps of a handler: its EOIs leave nothing in service.
LEMMA InServiceHandle ==
    ASSUME OneAtATime, NothingLeftInService, Handle
    PROVE  NothingLeftInService'
<1>1. frames # <<>>
    BY DEF Handle, Dispatch, HandlerEoi, Eoi, Iret, InFrame
<1>2. line_ \in AllLines
    BY <1>1, OneFrame DEF Frame, line_
<1>3. CASE Dispatch
  <2>1. PICK at \in {"own_eoi", "eoi"} : Goto(at)
      BY <1>3 DEF Dispatch
  <2> DEFINE f == [irq |-> line_, at |-> at, flag |-> Head(frames).flag]
  <2>2. frames' = <<f>>
      BY <1>1, <2>1, OneFrame
  <2>3. frames' # <<>> /\ Head(frames').irq = line_ /\ Head(frames').at # "iret"
      BY <2>2
  <2>4. Head(frames).at # "iret" /\ isr' = isr
      BY <1>3 DEF Dispatch, InFrame
  <2> QED BY <1>1, <2>3, <2>4 DEF NothingLeftInService, Unanswered, line_
<1>4. CASE HandlerEoi \/ Eoi
  <2>1. isr' = send_PIC_EOI(line_, isr) /\ Head(frames).at # "iret"
      BY <1>4 DEF HandlerEoi, Eoi, InFrame
  <2>2. isr \subseteq Held(line_)
      BY <1>1, <2>1 DEF NothingLeftInService, Unanswered
  <2>3. isr' = {}
      BY <1>2, <2>1, <2>2, EoiRetiresAll
  <2> QED BY <2>3 DEF NothingLeftInService
<1>5. CASE Iret
  <2>1. isr = {} /\ isr' = isr
      BY <1>5 DEF Iret, InFrame, NothingLeftInService, Unanswered
  <2> QED BY <2>1 DEF NothingLeftInService
<1> QED BY <1>3, <1>4, <1>5 DEF Handle

\* A request comes into service with the frame of its handler.
LEMMA InServiceNext ==
    ASSUME OneAtATime, SetUpSoFar, NothingLeftInService, [Next]_vars
    PROVE  NothingLeftInService'
<1>1. CASE Main
  <2>1. frames = <<>> /\ isr' \subseteq isr
      BY <1>1 DEF Main, init_ISR, OutCommand, OutData, ISR_RegisterHandlers,
                  enable_interrupts, disable_interrupts, IRQ_RegisterHandler,
                  MainStep, Running
  <2> QED BY <2>1 DEF NothingLeftInService, Unanswered
<1>2. CASE Handle
    BY <1>2, InServiceHandle
<1>3. ASSUME NEW line \in AllLines, eflags_IF, Take(Vector(line), line),
             isr' \subseteq isr \cup Held(line)
      PROVE  NothingLeftInService'
  <2>1. /\ frames = <<>>
        /\ frames' = <<[irq |-> line, at |-> "IRQ_handler", flag |-> eflags_IF]>>
      BY <1>3, Taken
  <2>2. isr = {}
      BY <2>1 DEF NothingLeftInService, Unanswered
  <2>3. frames' # <<>> /\ Head(frames').irq = line /\ Head(frames').at # "iret"
      BY <2>1
  <2> QED BY <1>3, <2>2, <2>3 DEF NothingLeftInService, Unanswered, line_
<1>4. CASE \E pic \in 1..2 : SpuriousInterrupt(pic)
  <2> PICK pic \in 1..2 : SpuriousInterrupt(pic)
      BY <1>4
  <2> DEFINE line == IF pic = 1 THEN 7 ELSE 15
  <2>1. line \in AllLines
      BY DEF AllLines
  <2>2. isr' \subseteq isr \cup Held(line)
      BY SMT DEF SpuriousInterrupt, Held
  <2>3. eflags_IF /\ Take(Vector(line), line)
      BY DEF SpuriousInterrupt
  <2> QED BY <1>3, <2>1, <2>2, <2>3
<1>5. CASE \E line \in Lines : Interrupt(line)
  <2> PICK line \in Lines : Interrupt(line)
      BY <1>5
  <2>1. line \in AllLines
      BY LinesAssumption DEF AllLines
  <2>2. isr' \subseteq isr \cup Held(line)
      BY DEF Interrupt, Held
  <2>3. eflags_IF /\ Take(Vector(line), line)
      BY DEF Interrupt
  <2> QED BY <1>3, <2>1, <2>2, <2>3
<1>6. CASE UNCHANGED <<frames, isr>>
    BY <1>6 DEF NothingLeftInService, Unanswered, line_
<1>7. ASSUME NEW line, Raise(line) \/ Withdraw(line) \/ IRQ_set_mask(line)
                       \/ IRQ_clear_mask(line) \/ disable_PIC \/ Exception
      PROVE  UNCHANGED <<frames, isr>>
    BY <1>7 DEF Raise, Withdraw, IRQ_set_mask, IRQ_clear_mask, disable_PIC,
                Exception
<1>8. vars' = vars => UNCHANGED <<frames, isr>>
    BY DEF vars
<1> QED BY <1>1, <1>2, <1>4, <1>5, <1>6, <1>7, <1>8 DEF Next

(***************************************************************************)
(* The invariant, and what it gives.                                       *)
(***************************************************************************)

\* The inductive invariant: each part leans on the ones before it.
IInv == OneAtATime /\ SetUpSoFar /\ NothingLeftInService

\* The three parts together hold in every reachable state.
LEMMA IInvAlways == Spec => []IInv
<1>1. Init => OneAtATime
  <2>1. <<>> \in Seq(Frame) /\ Len(<<>>) <= 1
      OBVIOUS
  <2> QED BY <2>1 DEF Init, OneAtATime
<1>2. Init => NothingLeftInService
    BY DEF Init, NothingLeftInService
<1>3. Init => IInv
    BY <1>1, <1>2, SetUpInit DEF IInv
<1>4. IInv /\ [Next]_vars => IInv'
    BY OneAtATimeNext, SetUpNext, InServiceNext DEF IInv
<1> QED BY <1>3, <1>4, PTL DEF Spec

\* At any time at most one handler is running: a driver's handler is never
\* interrupted by another one, nor by itself.
THEOREM OneHandler == Spec => []NoNesting
<1>1. IInv => NoNesting
    BY DEF IInv, OneAtATime, NoNesting
<1> QED BY <1>1, IInvAlways, PTL

\* Whatever the drivers and whatever the firmware left in the controllers: once
\* sti runs, and until the next cli, both controllers are initialised and the
\* vector of every line is present and leads to IRQ_handler.
THEOREM SetUpBeforeEnabled == Spec => []ReadyWhenEnabled
<1>1. IInv => ReadyWhenEnabled
  <2> SUFFICES ASSUME IInv, eflags_IF PROVE ReadyWhenEnabled!2
      BY DEF ReadyWhenEnabled
  <2>1. ip \in Nat /\ ip >= 14
      BY DEF IInv, SetUpSoFar
  <2>2. icw = [pic \in 1..2 |-> 0]
      BY <2>1, SMT DEF IInv, SetUpSoFar, Expected
  <2>3. \A line \in Lines : line \in AllLines
      BY LinesAssumption DEF AllLines
  <2> QED BY <2>2, <2>3, VectorRouted DEF IInv
<1> QED BY <1>1, IInvAlways, PTL

\* No line is left in service behind its handler, though spurious requests are
\* answered with an EOI and the handler of the mouse sends a second one.
THEOREM NoneLeftInService == Spec => []InServiceIsHandled
<1>1. IInv => InServiceIsHandled
  <2> SUFFICES ASSUME IInv PROVE InServiceIsHandled
      OBVIOUS
  <2>1. CASE frames = <<>> \/ Head(frames).at = "iret"
      BY <2>1 DEF IInv, NothingLeftInService, Unanswered, InServiceIsHandled
  <2>2. CASE frames # <<>> /\ Head(frames).at # "iret"
    <3>1. 1 \in DOMAIN frames /\ frames[1] = Head(frames)
        BY <2>2 DEF IInv, OneAtATime
    <3>2. Head(frames) \in {frames[i] : i \in {j \in DOMAIN frames :
                                                 frames[j].at # "iret"}}
        BY <2>2, <3>1
    <3>3. isr \subseteq {Head(frames).irq}
                        \cup (IF Head(frames).irq < 8 THEN {} ELSE {Cascade})
        BY <2>2 DEF IInv, NothingLeftInService, Unanswered, Held, line_
    <3> QED BY <3>2, <3>3 DEF InServiceIsHandled
  <2> QED BY <2>1, <2>2
<1> QED BY <1>1, IInvAlways, PTL

\* No EOI retires a request other than the one being handled: the second EOI of
\* the mouse handler and those of spurious requests hit nothing.
THEOREM OwnRetired == Spec => EoiRetiresOwn
<1>1. IInv /\ [Next]_vars => [Handle => isr \ isr' \subseteq {line_, Cascade}]_vars
  <2> SUFFICES ASSUME IInv, Handle PROVE isr \ isr' \subseteq {line_, Cascade}
      OBVIOUS
  <2>1. isr \subseteq {line_, Cascade}
    <3>1. Unanswered \subseteq {line_, Cascade}
        BY DEF Unanswered, Held
    <3> QED BY <3>1 DEF IInv, NothingLeftInService
  <2> QED BY <2>1
<1> QED BY <1>1, IInvAlways, PTL DEF Spec, EoiRetiresOwn

\* No hardware request, spurious ones included, panics or resets the machine.
THEOREM OnlyExceptionsHalt == Spec => RequestsNeverHalt
<1>1. IInv /\ [Next]_vars => [halted # halted' => Exception]_vars
  <2> SUFFICES ASSUME IInv, Next, halted # halted' PROVE Exception
      OBVIOUS
  <2>1. ~Main /\ ~Handle /\ ~disable_PIC
      BY DEF Main, init_ISR, OutCommand, OutData, ISR_RegisterHandlers,
             enable_interrupts, disable_interrupts, IRQ_RegisterHandler, Handle,
             Dispatch, HandlerEoi, Eoi, Iret, disable_PIC
  <2>2. \A line : /\ ~Raise(line) /\ ~Withdraw(line)
                  /\ ~IRQ_set_mask(line) /\ ~IRQ_clear_mask(line)
      BY DEF Raise, Withdraw, IRQ_set_mask, IRQ_clear_mask
  <2>3. \A line \in Lines : ~Interrupt(line)
    <3>1. \A line \in Lines : line \in AllLines
        BY LinesAssumption DEF AllLines
    <3> QED BY <3>1, Taken DEF Interrupt, IInv
  <2>4. \A pic \in 1..2 : ~SpuriousInterrupt(pic)
    <3>1. 7 \in AllLines /\ 15 \in AllLines
        BY DEF AllLines
    <3> QED BY <3>1, Taken DEF SpuriousInterrupt, IInv
  <2> QED BY <2>1, <2>2, <2>3, <2>4 DEF Next
<1> QED BY <1>1, IInvAlways, PTL DEF Spec, RequestsNeverHalt

\* The initial state is typed.
LEMMA TypeInit == Init => TypeOK
<1> SUFFICES ASSUME Init PROVE TypeOK
    OBVIOUS
<1>1. <<>> \in Seq(Frame)
    OBVIOUS
<1>2. imr \subseteq AllLines
    BY LinesAssumption DEF Init, AllLines
<1>3. icw \in [1..2 -> {0, 2, 3, 4}] /\ offset \in [1..2 -> Nat]
    BY SMT DEF Init
<1>4. ip \in Nat \ {0}
    BY SMT DEF Init
<1> QED BY <1>1, <1>2, <1>3, <1>4, Zenon DEF Init, TypeOK

\* What is not about the flow of Boot or of a handler.
LEMMA TypeNext ==
    ASSUME TypeOK, IInv, IInv', [Next]_vars
    PROVE  TypeOK'
<1>1. /\ ip' \in Nat \ {0} /\ eflags_IF' \in BOOLEAN /\ frames' \in Seq(Frame)
      /\ icw' \in [1..2 -> {0, 2, 3, 4}] /\ offset' \in [1..2 -> Nat]
  <2>1. \A pic \in 1..2 : icw'[pic] \in {0, 2, 3, 4}
      BY DEF IInv, SetUpSoFar, Expected
  <2> QED BY <2>1 DEF IInv, SetUpSoFar, OneAtATime
<1> DEFINE Rest == /\ halted \in {"no", "panic", "fault"}
                   /\ present \subseteq 0..255 /\ routed \subseteq 0..255
                   /\ handlers \subseteq Lines /\ irr \subseteq Lines
                   /\ isr \subseteq AllLines /\ imr \subseteq AllLines
                   /\ asked \subseteq Lines
<1>2. Rest'
  <2>1. CASE Main
    <3>1. CASE init_ISR
        BY <3>1 DEF init_ISR, ISR_InitializeEntries, TypeOK
    <3>2. CASE OutCommand
        BY <3>2 DEF OutCommand, software, TypeOK
    <3>3. CASE OutData
      <4>1. ip \in DOMAIN Boot
          BY <3>3 DEF OutData, MainStep
      <4>2. now.pic \in 1..2
          BY <3>3, <4>1, StepOfBoot, SMT
             DEF OutData, MainStep, Op, Command, Data, Hook, now
      <4>3. imr' \subseteq AllLines
        <5>1. LinesOf(now.pic) \subseteq AllLines
            BY <4>2, SMT DEF LinesOf, AllLines
        <5>2. CASE icw[now.pic] = 0
          <6>1. imr' \subseteq imr \cup LinesOf(now.pic)
              BY <3>3, <5>2 DEF OutData
          <6> QED BY <5>1, <6>1 DEF TypeOK
        <5>3. CASE icw[now.pic] # 0
            BY <3>3, <5>3 DEF OutData, TypeOK
        <5> QED BY <5>2, <5>3
      <4> QED BY <3>3, <4>3 DEF OutData, software, TypeOK
    <3>4. CASE ISR_RegisterHandlers
      <4>1. PIC_REMAP_OFFSET..(PIC_REMAP_OFFSET + 15) \subseteq 0..255
          BY SMT DEF PIC_REMAP_OFFSET
      <4> QED BY <3>4, <4>1 DEF ISR_RegisterHandlers, TypeOK
    <3>5. CASE enable_interrupts \/ disable_interrupts
        BY <3>5 DEF enable_interrupts, disable_interrupts, software, TypeOK
    <3>6. CASE IRQ_RegisterHandler
      <4>1. ip \in DOMAIN Boot
          BY <3>6 DEF IRQ_RegisterHandler, MainStep
      <4>2. now.value \in Lines
          BY <3>6, <4>1, StepOfBoot, SMT
             DEF IRQ_RegisterHandler, MainStep, Op, Command, Data, Hook, now
      <4> QED BY <3>6, <4>2 DEF IRQ_RegisterHandler, TypeOK
    <3> QED BY <2>1, <3>1, <3>2, <3>3, <3>4, <3>5, <3>6 DEF Main
  <2>2. CASE Handle
    <3>1. isr' \subseteq isr
        BY <2>2 DEF Handle, Dispatch, HandlerEoi, Eoi, Iret, send_PIC_EOI,
                    Retired
    <3> QED BY <2>2, <3>1
               DEF Handle, Dispatch, HandlerEoi, Eoi, Iret, software, TypeOK
  <2>3. CASE Exception
      BY <2>3 DEF Exception, software, TypeOK
  <2>4. CASE \E pic \in 1..2 : SpuriousInterrupt(pic)
    <3> PICK pic \in 1..2 : SpuriousInterrupt(pic)
        BY <2>4
    <3>1. isr' \subseteq AllLines
        BY SMT DEF SpuriousInterrupt, TypeOK, Cascade, AllLines
    <3>2. halted' \in {"no", "panic", "fault"}
        BY DEF SpuriousInterrupt, Take, TypeOK
    <3> QED BY <3>1, <3>2 DEF SpuriousInterrupt, software, TypeOK
  <2>5. CASE \E line \in Lines : Interrupt(line)
    <3> PICK line \in Lines : Interrupt(line)
        BY <2>5
    <3>1. line \in AllLines /\ Cascade \in AllLines
        BY LinesAssumption DEF AllLines, Cascade
    <3>2. isr' \subseteq AllLines /\ irr' \subseteq Lines
        BY <3>1 DEF Interrupt, TypeOK
    <3>3. halted' \in {"no", "panic", "fault"}
        BY DEF Interrupt, Take, TypeOK
    <3> QED BY <3>2, <3>3 DEF Interrupt, software, TypeOK
  <2>6. CASE disable_PIC \/ \E line \in Lines : Raise(line) \/ Withdraw(line)
    <3>1. CASE disable_PIC
        BY <3>1 DEF disable_PIC, software, TypeOK, AllLines
    <3>2. CASE \E line \in Lines : Raise(line) \/ Withdraw(line)
      <4> PICK line \in Lines : Raise(line) \/ Withdraw(line)
          BY <3>2
      <4>1. irr' \subseteq Lines /\ asked' \subseteq Lines
          BY DEF Raise, Withdraw, TypeOK
      <4> QED BY <4>1 DEF Raise, Withdraw, software, TypeOK
    <3> QED BY <2>6, <3>1, <3>2
  <2>7. CASE \E line \in Lines \cup {Cascade} :
                IRQ_set_mask(line) \/ IRQ_clear_mask(line)
    <3>1. \A line \in Lines \cup {Cascade} : line \in AllLines
        BY LinesAssumption DEF AllLines, Cascade
    <3> PICK line \in Lines \cup {Cascade} :
               IRQ_set_mask(line) \/ IRQ_clear_mask(line)
        BY <2>7
    <3>2. imr' \subseteq AllLines
        BY <3>1 DEF IRQ_set_mask, IRQ_clear_mask, TypeOK
    <3> QED BY <3>2 DEF IRQ_set_mask, IRQ_clear_mask, software, TypeOK
  <2>8. CASE UNCHANGED vars
      BY <2>8 DEF vars, software, TypeOK
  <2> QED BY <2>1, <2>2, <2>3, <2>4, <2>5, <2>6, <2>7, <2>8 DEF Next
<1> QED BY <1>1, <1>2 DEF TypeOK

\* Every variable keeps to its values: no step of Boot, of the controllers or of
\* a handler leaves the lines there are, the vectors of the IDT or the words an
\* 8259 can expect.
THEOREM TypeCorrect == Spec => []TypeOK
<1>1. TypeOK /\ IInv /\ IInv' /\ [Next]_vars => TypeOK'
    BY TypeNext
<1> QED BY <1>1, TypeInit, IInvAlways, PTL DEF Spec
=============================================================================
