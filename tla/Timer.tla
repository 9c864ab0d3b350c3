------------------------------- MODULE Timer -------------------------------
(***************************************************************************)
(* The PIT driver, k/timer.c: the tick counter, the table of periodic      *)
(* functions and the busy-wait sleep().                                    *)
(*                                                                         *)
(* One CPU runs the kernel's main flow; IRQ0 interrupts it between any two *)
(* of its stores.  timer_handler runs from an interrupt gate, so with      *)
(* interrupts off and in one piece: it is the single action Tick.  The     *)
(* main flow is cut at every store another party can see: the index, the   *)
(* function pointer, and the bytes memcpy copies one at a time.  The four  *)
(* bytes of a u32 timeout are abstracted to two digits in base Base, so a  *)
(* u32 is a number below Word and wraps there; the `user' pointer that     *)
(* follows is copied last, in one step.                                    *)
(***************************************************************************)
EXTENDS Integers, Sequences, FiniteSets

CONSTANTS
    Slots,      \* MAXIMUM_TIMER_FUNCTIONS (32 in timer.h)
    Base,       \* radix of the two digits that stand for the bytes of a u32
    Functions,  \* function pointers a caller registers (never NULL)
    Timeouts,   \* timeouts a caller registers
    Users,      \* values of the `user' pointer a caller registers
    NULL,       \* a slot's function pointer before it is first written
    Freq,       \* argument of timer_set_frequency (100 in init_timer)
    Seconds,    \* arguments of sleep()
    Builds      \* how the compiler reads the non-volatile `ticks' in sleep():
                \* "reload" on every turn of the loop, "hoisted" once before it

Word == Base * Base         \* 2^32 in the program

ASSUME SlotsAssumption == Slots \in Nat \ {0}
ASSUME BaseAssumption == Base \in Nat /\ Base >= 2
ASSUME TimeoutsAssumption == Timeouts \subseteq 0..(Word - 1)
ASSUME NullAssumption == NULL \notin Functions
ASSUME FreqAssumption == Freq \in Nat \ {0}
ASSUME SecondsAssumption == Seconds \subseteq Nat
ASSUME BuildsAssumption == Builds \subseteq {"reload", "hoisted"}

VARIABLES
    ticks,          \* u32 ticks
    freq_hz,        \* u16 freq_hz
    irq0,           \* timer_handler is the registered handler of IRQ0
    current_index,  \* timer_function_manager.current_index
    functions,      \* timer_function_manager.functions
    func_args,      \* timer_function_manager.func_args, as digits
    pc,             \* where the main flow is
    call,           \* the arguments of the timer_register_function in progress
    end,            \* sleep(): the tick it waits for
    seen,           \* sleep(): the value of `ticks' its register holds
    build,          \* which of Builds the kernel was compiled to
    \* History variables, read by the properties only.
    recent,         \* the last Slots registrations that returned, oldest first
    since,          \* per slot: ticks since it was installed or last called
    fresh,          \* the slots installed and not called since
    fired,          \* what the last tick called: a set of [slot, fn] records
    asked,          \* ticks the sleep() in progress was asked for
    slept           \* ticks that sleep() has seen pass

manager == <<current_index, functions, func_args>>
ghosts  == <<recent, since, fresh, fired, asked, slept>>
vars    == <<ticks, freq_hz, irq0, manager, pc, call, end, seen, build, ghosts>>

Slot == 0..(Slots - 1)
BugWrap(n) == n
Wrap(n) == n % Word         \* u32 arithmetic
Digits(n) == [lo |-> n % Base, hi |-> n \div Base]
Value(args) == args.lo + Base * args.hi

Init ==
    /\ ticks = 0 /\ freq_hz = 0 /\ irq0 = FALSE
    /\ current_index = 0
    /\ functions = [s \in Slot |-> NULL]
    /\ func_args = [s \in Slot |-> [lo |-> 0, hi |-> 0, user |-> NULL]]
    /\ pc = "boot"
    /\ call = [fn |-> NULL, timeout |-> 0, user |-> NULL]
    /\ end = 0 /\ seen = 0
    /\ build \in Builds
    /\ recent = <<>>
    /\ since = [s \in Slot |-> 0]
    /\ fresh = {}
    /\ fired = {}
    /\ asked = 0 /\ slept = 0

-----------------------------------------------------------------------------
(* Boot.                                                                   *)

\* timer_set_frequency: runs between cli and sti, so no tick sees it half done.
timer_set_frequency(freq) ==
    /\ pc = "boot"
    /\ freq_hz' = freq
    /\ pc' = "hook"
    /\ UNCHANGED <<ticks, irq0, manager, call, end, seen, build, ghosts>>

\* The second statement of init_timer; ticks raised before it are lost.
IRQ_RegisterHandler ==
    /\ pc = "hook"
    /\ irq0' = TRUE
    /\ pc' = "idle"
    /\ UNCHANGED <<ticks, freq_hz, manager, call, end, seen, build, ghosts>>

-----------------------------------------------------------------------------
(* The interrupt.                                                          *)

BugDueSkipsZero(t, timeout) == timeout # 0 /\ t % timeout = 0 /\ t # 0
BugDueOneEarly(t, timeout) == timeout # 0 /\ t % (timeout - 1) = 0
\* The test timer_handler makes on each slot.
Due(t, timeout) == timeout # 0 /\ t % timeout = 0

Saturate(n) == IF n > Word THEN Word ELSE n

\* timer_handler: count the tick, then call the due slots with their args.
Tick ==
    /\ irq0
    /\ ticks' = Wrap(ticks + 1)
    /\ LET due == {s \in Slot : Due(ticks', Value(func_args[s]))}
       IN  /\ fired' = {[slot |-> s, fn |-> functions[s]] : s \in due}
           /\ since' = [s \in Slot |-> IF s \in due \/ Value(func_args[s]) = 0
                                       THEN 0 ELSE Saturate(since[s] + 1)]
           /\ fresh' = fresh \ due
    /\ slept' = IF pc = "sleep" THEN Saturate(slept + 1) ELSE slept
    /\ UNCHANGED <<freq_hz, irq0, manager, pc, call, end, seen, build, recent,
                   asked>>

-----------------------------------------------------------------------------
(* timer_register_function, cut where an interrupt can see it half done.   *)

NextIndex(index) == (index + 1) % Slots

\* A NULL function or NULL args returns at once and changes nothing.
\* add_timer_function calls it with user = NULL.
timer_register_function(fn, timeout, user) ==
    /\ pc = "idle"
    /\ call' = [fn |-> fn, timeout |-> timeout, user |-> user]
    /\ current_index' = NextIndex(current_index)
    /\ pc' = "function"
    /\ UNCHANGED <<ticks, freq_hz, irq0, functions, func_args, end, seen,
                   build, ghosts>>

Goto(from, to) == pc = from /\ pc' = to

BugStoreFunction ==
    /\ Goto("function", "lo")
    /\ functions' = [functions EXCEPT ![NextIndex(current_index)] = call.fn]
    /\ UNCHANGED <<ticks, freq_hz, irq0, current_index, func_args, call, end,
                   seen, build, ghosts>>
StoreFunction ==
    /\ Goto("function", "lo")
    /\ functions' = [functions EXCEPT ![current_index] = call.fn]
    /\ UNCHANGED <<ticks, freq_hz, irq0, current_index, func_args, call, end,
                   seen, build, ghosts>>

untouched == <<ticks, freq_hz, irq0, current_index, functions, call, end, seen,
               build, fired, asked, slept>>

Old == func_args[current_index]
WriteArgs(lo, hi, user) ==
    func_args' = [func_args EXCEPT ![current_index] =
                     [lo |-> lo, hi |-> hi, user |-> user]]

\* memcpy, lowest byte first.
CopyLow ==
    /\ Goto("lo", "hi")
    /\ WriteArgs(Digits(call.timeout).lo, Old.hi, Old.user)
    /\ UNCHANGED <<untouched, recent, since, fresh>>

BugCopyHigh ==
    /\ Goto("hi", "user")
    /\ UNCHANGED <<untouched, func_args, recent, since, fresh>>
CopyHigh ==
    /\ Goto("hi", "user")
    /\ WriteArgs(Old.lo, Digits(call.timeout).hi, Old.user)
    /\ UNCHANGED <<untouched, recent, since, fresh>>

LastOf(seq) == IF Len(seq) <= Slots THEN seq ELSE Tail(seq)

\* The last byte: timer_register_function returns.
CopyUser ==
    /\ Goto("user", "idle")
    /\ WriteArgs(Old.lo, Old.hi, call.user)
    /\ recent' = LastOf(Append(recent, call))
    /\ since' = [since EXCEPT ![current_index] = 0]
    /\ fresh' = fresh \cup {current_index}
    /\ UNCHANGED untouched

-----------------------------------------------------------------------------
(* sleep.                                                                  *)

BugEndOf(sec) == Wrap(ticks + sec)
EndOf(sec) == Wrap(ticks + sec * freq_hz)

sleep(sec) ==
    /\ pc = "idle"
    /\ end' = EndOf(sec)
    /\ seen' = ticks
    /\ asked' = sec * freq_hz
    /\ slept' = 0
    /\ pc' = "sleep"
    /\ UNCHANGED <<ticks, freq_hz, irq0, manager, call, build, recent, since,
                   fresh, fired>>

\* `while (ticks < end);' leaves the loop.
SleepReturn ==
    /\ Goto("sleep", "idle")
    /\ (IF build = "reload" THEN ticks ELSE seen) >= end
    /\ end' = 0 /\ seen' = 0 /\ asked' = 0 /\ slept' = 0
    /\ UNCHANGED <<ticks, freq_hz, irq0, manager, call, build, recent, since,
                   fresh, fired>>

-----------------------------------------------------------------------------
Register == \E fn \in Functions, timeout \in Timeouts, user \in Users :
                timer_register_function(fn, timeout, user)
Copy == StoreFunction \/ CopyLow \/ CopyHigh \/ CopyUser
Sleep == \E sec \in Seconds : sleep(sec)

Next ==
    \/ timer_set_frequency(Freq)
    \/ IRQ_RegisterHandler
    \/ Tick
    \/ Register
    \/ Copy
    \/ Sleep
    \/ SleepReturn

Spec == Init /\ [][Next]_vars

\* The PIT keeps ticking and the CPU keeps running the main flow.  The loop of
\* sleep() turns many times between two ticks, so a tick at which its test
\* fails is always seen by it: strong fairness.
FairSpec == Spec /\ WF_vars(Tick) /\ WF_vars(Copy) /\ SF_vars(SleepReturn)

-----------------------------------------------------------------------------
Registration == [fn : Functions, timeout : Timeouts, user : Users]
Digit == 0..(Base - 1)
FuncArgs == [lo : Digit, hi : Digit, user : Users \cup {NULL}]

\* Every variable keeps to the values its C type or its role allows.
TypeOK ==
    /\ ticks \in 0..(Word - 1)
    /\ freq_hz \in {0, Freq}
    /\ irq0 \in BOOLEAN
    /\ current_index \in Slot
    /\ functions \in [Slot -> Functions \cup {NULL}]
    /\ func_args \in [Slot -> FuncArgs]
    /\ pc \in {"boot", "hook", "idle", "function", "lo", "hi", "user", "sleep"}
    /\ call \in Registration \cup {[fn |-> NULL, timeout |-> 0, user |-> NULL]}
    /\ end \in 0..(Word - 1)
    /\ seen \in 0..(Word - 1)
    /\ build \in Builds
    /\ recent \in Seq(Registration) /\ Len(recent) <= Slots
    /\ since \in [Slot -> 0..Word]
    /\ fresh \subseteq Slot
    /\ fired \subseteq [slot : Slot, fn : Functions \cup {NULL}]
    /\ asked \in Nat
    /\ slept \in 0..Word

Writing == pc \in {"function", "lo", "hi", "user"}
\* A slot no registration is writing at the moment.
Settled(s) == ~(Writing /\ s = current_index)

\* The handler never calls through a slot whose function is not there yet:
\* a tick between two stores of timer_register_function finds either a zero
\* timeout or the function already stored (timer.c:70-71).
NeverCallsNull == \A c \in fired : c.fn # NULL

\* Why: a slot with a non-zero timeout has its function, and a registration
\* copies the timeout only once the function is stored.  With TypeOK this is
\* inductive; TimerProofs proves NeverCallsNull from it.
FunctionFirst ==
    /\ Writing => call \in Registration
    /\ pc \in {"lo", "hi", "user"} => functions[current_index] # NULL
    /\ \A s \in Slot : Value(func_args[s]) # 0 => functions[s] # NULL

\* The table holds the latest Slots registrations, whole, each in its own
\* slot, the newest in the slot written last; a registration in progress
\* costs only the slot it overwrites (timer.c:68-71).
LatestRegistered ==
    LET newest == IF Writing THEN (current_index + Slots - 1) % Slots
                  ELSE current_index
        slotOf(k) == (newest + Slots - (Len(recent) - k)) % Slots
    IN  \A k \in 1..Len(recent) :
            Settled(slotOf(k)) =>
                /\ functions[slotOf(k)] = recent[k].fn
                /\ Value(func_args[slotOf(k)]) = recent[k].timeout
                /\ func_args[slotOf(k)].user = recent[k].user

\* A registered function is called at the latest `timeout' ticks after its
\* registration returned or after its previous call, the wrap of the tick
\* counter included (timer.c:49-56).
NeverLate ==
    \A s \in Slot : Value(func_args[s]) # 0 /\ Settled(s) =>
                     since[s] < Value(func_args[s])

\* Only the first call after a registration and the call at the wrap of the
\* tick counter may come early; any other comes exactly `timeout' ticks after
\* the previous one (timer.c:49-56).
EvenlySpaced ==
    [][\A s \in Slot :
          /\ Tick /\ Settled(s) /\ s \notin fresh /\ ticks' # 0
          /\ \E c \in fired' : c.slot = s
          => since[s] + 1 = Value(func_args[s])]_vars

\* `timeout' counts milliseconds (timer.h:13, and the message of function_1
\* in k.c:37): a function that was called before is called again
\* after that many milliseconds, at 1000 / freq_hz of them per tick.
CalledAfterMilliseconds ==
    [][\A s \in Slot :
          /\ Tick /\ Settled(s) /\ s \notin fresh /\ ticks' # 0
          /\ \E c \in fired' : c.slot = s
          => (since[s] + 1) * 1000 = Value(func_args[s]) * freq_hz]_vars

\* sleep() lets at least the asked ticks pass, unless their end lies beyond
\* the wrap of the tick counter, when it returns at once (timer.c:89-90).
SleepsLongEnough ==
    [][SleepReturn => slept >= asked \/ seen + asked >= Word]_vars

\* In a build that reloads `ticks', sleep() returns (timer.c:90).  In one that
\* hoists the load it is stuck: SleepReturn reads `seen'.
SleepReturns == pc = "sleep" /\ build = "reload" ~> pc # "sleep"
=============================================================================
