---------------------------- MODULE TimerProofs ----------------------------
(***************************************************************************)
(* Theorems about the PIT driver, for every number of slots, every word    *)
(* width and every set of functions, timeouts and user pointers.           *)
(***************************************************************************)
EXTENDS Timer, TLAPS

(***************************************************************************)
(* Arithmetic facts.                                                       *)
(***************************************************************************)

\* The wrap of a u32 stays in the range of a u32.
LEMMA WrapRange ==
    ASSUME NEW n \in Nat
    PROVE  Wrap(n) \in 0..(Word - 1)
<1>1. Word \in Nat \ {0}
    BY BaseAssumption, SMT DEF Word
<1> QED BY <1>1, SMT DEF Wrap

\* The two digits of a u32 are digits.
LEMMA DigitRange ==
    ASSUME NEW n \in 0..(Word - 1)
    PROVE  Digits(n).lo \in Digit /\ Digits(n).hi \in Digit
<1> DEFINE q == n \div Base
           r == n % Base
<1>1. Base \in Nat /\ Base >= 2 /\ n \in Nat /\ n < Base * Base
    BY BaseAssumption, SMT DEF Word
<1>2. q \in Int /\ r \in 0..(Base - 1) /\ n = Base * q + r
    BY <1>1, SMT
<1>3. q >= 0
    BY <1>1, <1>2, SMT
<1>4. q < Base
  <2>1. SUFFICES ASSUME q >= Base PROVE FALSE
      BY <1>1, <1>2, SMT
  <2>2. Base * q >= Base * Base
      BY <1>1, <1>2, <2>1, SMT
  <2> QED BY <1>1, <1>2, <2>2, SMT
<1> QED BY <1>1, <1>2, <1>3, <1>4 DEF Digits, Digit

\* The value of two digits is a natural number, zero only if both are.
LEMMA ValueRange ==
    ASSUME NEW args, args.lo \in Digit, args.hi \in Digit
    PROVE  Value(args) \in Nat
<1>1. Base \in Nat /\ args.lo \in Nat /\ args.hi \in Nat
    BY BaseAssumption, SMT DEF Digit
<1> QED BY <1>1, SMT DEF Value

\* The digits of a u32 add up to it.
LEMMA DigitsValue ==
    ASSUME NEW n \in 0..(Word - 1)
    PROVE  Digits(n).lo + Base * Digits(n).hi = n
<1>1. Base \in Nat /\ Base >= 2 /\ n \in Int
    BY BaseAssumption, SMT DEF Word
<1>2. (n % Base) + Base * (n \div Base) = n
    BY <1>1, SMT
<1> QED BY <1>2 DEF Digits

\* The index after the last one is the first one: an index stays a slot.
LEMMA NextIndexRange ==
    ASSUME NEW index \in Slot
    PROVE  NextIndex(index) \in Slot
BY SlotsAssumption, SMT DEF NextIndex, Slot

\* A remainder goes up by one from one number to the next, or from the last one
\* back to zero.
LEMMA ModStep ==
    ASSUME NEW t \in Nat, NEW v \in Nat, v # 0
    PROVE  /\ t % v \in 0..(v - 1) /\ t % v <= t
           /\ \/ (t + 1) % v = 0 /\ t % v = v - 1
              \/ (t + 1) % v = (t % v) + 1
<1> DEFINE q == t \div v
           r == t % v
           q1 == (t + 1) \div v
           r1 == (t + 1) % v
<1>1. q \in Int /\ r \in 0..(v - 1) /\ t = v * q + r
    BY SMT
<1>2. q1 \in Int /\ r1 \in 0..(v - 1) /\ t + 1 = v * q1 + r1
    BY SMT
<1> HIDE DEF q, r, q1, r1
<1>3. v * (q1 - q) = r + 1 - r1
    BY <1>1, <1>2, SMT
<1>4. q1 - q \in {0, 1}
  <2>1. ASSUME q1 - q >= 2 PROVE FALSE
    <3>1. v * (q1 - q) >= v * 2
        BY <2>1, <1>1, <1>2, SMT
    <3> QED BY <3>1, <1>1, <1>2, <1>3, SMT
  <2>2. ASSUME q1 - q <= -1 PROVE FALSE
    <3>1. v * (q1 - q) <= -v
        BY <2>2, <1>1, <1>2, SMT
    <3> QED BY <3>1, <1>1, <1>2, <1>3, SMT
  <2> QED BY <2>1, <2>2, <1>1, <1>2, SMT
<1>5. r1 = r + 1 \/ r1 = r + 1 - v
    BY <1>1, <1>2, <1>3, <1>4, SMT
<1>6. (r1 = 0 /\ r = v - 1) \/ r1 = r + 1
    BY <1>1, <1>2, <1>5, SMT
<1>7. q >= 0
  <2>1. ASSUME q <= -1 PROVE FALSE
    <3>1. v * q <= -v
        BY <2>1, <1>1, SMT
    <3> QED BY <3>1, <1>1, SMT
  <2> QED BY <2>1, <1>1, SMT
<1>8. v * q >= 0
    BY <1>1, <1>7, SMT
<1>9. r <= t
    BY <1>1, <1>8, SMT
<1> QED BY <1>1, <1>6, <1>9, SMT DEF r, r1

(***************************************************************************)
(* Type correctness, and a handler that never calls NULL.                  *)
(***************************************************************************)

IInv == TypeOK /\ FunctionFirst /\ NeverCallsNull

\* The initial state satisfies the invariant.
LEMMA IInvInit == Init => IInv
<1> SUFFICES ASSUME Init PROVE IInv
    OBVIOUS
<1> USE SlotsAssumption, BaseAssumption
<1>1. 0 \in Digit /\ 0 \in Slot /\ 0 \in 0..Word /\ 0 \in 0..(Word - 1)
    BY SMT DEF Digit, Slot, Word
<1>2. recent \in Seq(Registration) /\ Len(recent) <= Slots
    BY SMT DEF Init
<1>3. TypeOK
    BY <1>1, <1>2 DEF Init, TypeOK, FuncArgs
<1>4. \A s \in Slot : Value(func_args[s]) = 0
    BY SMT DEF Init, Value
<1>5. FunctionFirst /\ NeverCallsNull
    BY <1>4 DEF Init, FunctionFirst, NeverCallsNull, Writing
<1> QED BY <1>3, <1>5 DEF IInv

\* A tick leaves the table alone, and calls only slots FunctionFirst vouches for.
LEMMA IInvTick ==
    ASSUME IInv, Tick
    PROVE  IInv'
<1> USE DEF IInv
<1>0. Word \in Nat \ {0}
    BY BaseAssumption, SMT DEF Word
<1>1. ticks' \in 0..(Word - 1)
    BY WrapRange, SMT DEF Tick, TypeOK
<1>2. since' \in [Slot -> 0..Word]
  <2>1. \A s \in Slot : Saturate(since[s] + 1) \in 0..Word
      BY <1>0, SMT DEF Saturate, TypeOK
  <2> QED BY <2>1, <1>0 DEF Tick
<1>3. slept' \in 0..Word
    BY <1>0, SMT DEF Tick, TypeOK, Saturate
<1>4. fired' \subseteq [slot : Slot, fn : Functions \cup {NULL}]
    BY DEF Tick, TypeOK
<1>5. fresh' \subseteq Slot
    BY DEF Tick, TypeOK
<1>6. TypeOK'
    BY <1>1, <1>2, <1>3, <1>4, <1>5 DEF Tick, TypeOK, manager
<1>7. FunctionFirst'
    BY DEF Tick, FunctionFirst, manager, Writing, Value
<1>8. NeverCallsNull'
    BY DEF Tick, FunctionFirst, NeverCallsNull, Due
<1> QED BY <1>6, <1>7, <1>8

\* The four stores of a registration.
LEMMA IInvCopy ==
    ASSUME IInv, Copy
    PROVE  IInv'
<1> USE SlotsAssumption DEF IInv
<1>0. /\ current_index \in Slot
      /\ Digits(call.timeout).lo \in Digit /\ Digits(call.timeout).hi \in Digit
      /\ call \in Registration
      /\ call.fn # NULL
  <2>1. Writing
      BY DEF Copy, StoreFunction, CopyLow, CopyHigh, CopyUser, Goto, Writing
  <2>2. call \in Registration /\ call.timeout \in 0..(Word - 1)
      BY <2>1, TimeoutsAssumption DEF FunctionFirst, Registration
  <2> QED BY <2>2, DigitRange, NullAssumption DEF TypeOK, Registration
<1>1. CASE StoreFunction
  <2>1. TypeOK'
      BY <1>0, <1>1 DEF StoreFunction, Goto, TypeOK, ghosts, Registration
  <2>2. \A s \in Slot : functions[s] # NULL => functions'[s] # NULL
      BY <1>0, <1>1 DEF StoreFunction, TypeOK
  <2>3. FunctionFirst'
      BY <1>0, <1>1, <2>2 DEF StoreFunction, Goto, FunctionFirst, TypeOK, Value
  <2> QED BY <1>1, <2>1, <2>3 DEF StoreFunction, NeverCallsNull, ghosts
<1>2. CASE CopyLow \/ CopyHigh \/ CopyUser
  <2>1. func_args' \in [Slot -> FuncArgs]
    <3>1. Old \in FuncArgs
        BY <1>0 DEF Old, TypeOK
    <3>2. PICK lo \in Digit, hi \in Digit, user \in Users \cup {NULL} :
                 WriteArgs(lo, hi, user)
      <4>1. /\ Old.lo \in Digit /\ Old.hi \in Digit
            /\ Old.user \in Users \cup {NULL} /\ call.user \in Users \cup {NULL}
          BY <1>0, <3>1 DEF FuncArgs, Registration
      <4> QED BY <1>0, <1>2, <4>1 DEF CopyLow, CopyHigh, CopyUser
    <3>3. [lo |-> lo, hi |-> hi, user |-> user] \in FuncArgs
        BY DEF FuncArgs
    <3> QED BY <1>0, <3>2, <3>3 DEF WriteArgs, TypeOK
  <2>2. recent' \in Seq(Registration) /\ Len(recent') <= Slots
    <3>1. CASE UNCHANGED recent
        BY <3>1 DEF TypeOK
    <3>2. CASE recent' = LastOf(Append(recent, call))
      <4>1. /\ Append(recent, call) \in Seq(Registration)
            /\ Len(Append(recent, call)) = Len(recent) + 1
          BY <1>0 DEF TypeOK
      <4>2. /\ Tail(Append(recent, call)) \in Seq(Registration)
            /\ Len(Tail(Append(recent, call))) = Len(recent)
        <5>1. recent \in Seq(Registration) /\ Len(Append(recent, call)) > 0
            BY <4>1 DEF TypeOK
        <5>2. Append(recent, call) # <<>>
            BY <5>1, Len(<<>>) = 0
        <5> QED BY <4>1, <5>2 DEF TypeOK
      <4> QED BY <3>2, <4>1, <4>2 DEF LastOf, TypeOK
    <3> QED BY <1>2, <3>1, <3>2 DEF CopyLow, CopyHigh, CopyUser
  <2>3. since' \in [Slot -> 0..Word] /\ fresh' \subseteq Slot
    <3>1. 0 \in 0..Word
        BY BaseAssumption, SMT DEF Word
    <3> QED BY <1>0, <1>2, <3>1 DEF CopyLow, CopyHigh, CopyUser, TypeOK
  <2>4. TypeOK'
      BY <1>2, <2>1, <2>2, <2>3
         DEF CopyLow, CopyHigh, CopyUser, untouched, Goto, TypeOK
  <2>5. functions[current_index] # NULL
      BY <1>2 DEF CopyLow, CopyHigh, CopyUser, Goto, FunctionFirst
  <2>6. \A s \in Slot : s # current_index => func_args'[s] = func_args[s]
      BY <1>2 DEF CopyLow, CopyHigh, CopyUser, untouched, WriteArgs, Old, TypeOK
  <2>7. FunctionFirst'
      BY <1>0, <1>2, <2>5, <2>6
         DEF CopyLow, CopyHigh, CopyUser, untouched, WriteArgs, Old, Goto,
             FunctionFirst, Registration
  <2> QED BY <1>2, <2>4, <2>7
             DEF CopyLow, CopyHigh, CopyUser, untouched, NeverCallsNull
<1> QED BY <1>1, <1>2 DEF Copy

\* Every step keeps it.
LEMMA IInvNext == IInv /\ [Next]_vars => IInv'
<1> SUFFICES ASSUME IInv, [Next]_vars PROVE IInv'
    OBVIOUS
<1> USE DEF IInv
<1>1. CASE timer_set_frequency(Freq)
    BY <1>1 DEF timer_set_frequency, TypeOK, FunctionFirst, NeverCallsNull,
                Writing, Value, manager, ghosts
<1>2. CASE IRQ_RegisterHandler
    BY <1>2 DEF IRQ_RegisterHandler, TypeOK, FunctionFirst, NeverCallsNull,
                Writing, Value, manager, ghosts
<1>3. CASE Tick
    BY <1>3, IInvTick
<1>4. CASE Register
  <2> PICK fn \in Functions, timeout \in Timeouts, user \in Users :
             timer_register_function(fn, timeout, user)
      BY <1>4 DEF Register
  <2>1. call' \in Registration
      BY DEF timer_register_function, Registration
  <2>2. current_index' \in Slot
      BY NextIndexRange DEF timer_register_function, TypeOK
  <2>3. TypeOK'
      BY <2>1, <2>2 DEF timer_register_function, TypeOK, ghosts
  <2> QED BY <2>1, <2>3
             DEF timer_register_function, FunctionFirst, NeverCallsNull,
                 Writing, Value, ghosts
<1>5. CASE Copy
    BY <1>5, IInvCopy
<1>6. CASE Sleep
  <2> PICK sec \in Seconds : sleep(sec)
      BY <1>6 DEF Sleep
  <2>1. end' \in 0..(Word - 1) /\ asked' \in Nat
    <3>1. sec * freq_hz \in Nat
        BY SecondsAssumption, FreqAssumption, SMT DEF TypeOK
    <3>2. ticks + sec * freq_hz \in Nat
        BY <3>1, SMT DEF TypeOK
    <3> QED BY <3>1, <3>2, WrapRange DEF sleep, EndOf
  <2>2. slept' \in 0..Word
      BY BaseAssumption, SMT DEF sleep, Word
  <2>3. TypeOK'
      BY <2>1, <2>2 DEF sleep, TypeOK, manager
  <2> QED BY <2>3 DEF sleep, FunctionFirst, NeverCallsNull, Writing, Value,
                      manager
<1>7. CASE SleepReturn
    BY <1>7, BaseAssumption
       DEF SleepReturn, Goto, TypeOK, FunctionFirst, NeverCallsNull, Writing,
           Value, manager, ghosts, Word
<1>8. CASE UNCHANGED vars
    BY <1>8 DEF vars, TypeOK, FunctionFirst, NeverCallsNull, Writing, Value,
                manager, ghosts
<1> QED BY <1>1, <1>2, <1>3, <1>4, <1>5, <1>6, <1>7, <1>8 DEF Next

\* Every reachable state of the driver respects TypeOK: no store leaves the
\* slots of the manager, no value the width of a u32.
THEOREM TypeCorrect == Spec => []TypeOK
<1>1. IInv => TypeOK
    BY DEF IInv
<1> QED BY <1>1, IInvInit, IInvNext, PTL DEF Spec

\* timer_handler never calls a NULL function, wherever in the middle of a
\* registration the tick comes.
THEOREM NoNullCall == Spec => []NeverCallsNull
<1>1. IInv => NeverCallsNull
    BY DEF IInv
<1> QED BY <1>1, IInvInit, IInvNext, PTL DEF Spec

(***************************************************************************)
(* Calls on time.  Neither NeverLate nor EvenlySpaced is inductive: they   *)
(* bound `since' but do not tie it to the tick counter, which decides when *)
(* a slot is due.                                                          *)
(***************************************************************************)

\* A settled slot was last called no longer ago than the last tick that its
\* timeout divides, and then exactly, unless it was installed since.
InPhase ==
    \A s \in Slot : Value(func_args[s]) # 0 /\ Settled(s) =>
        /\ since[s] <= ticks % Value(func_args[s])
        /\ s \notin fresh => since[s] = ticks % Value(func_args[s])

\* The value of a slot's timeout is a natural number.
LEMMA TimeoutIsNat ==
    ASSUME TypeOK
    PROVE  \A s \in Slot : Value(func_args[s]) \in Nat
<1> TAKE s \in Slot
<1>1. func_args[s] \in FuncArgs
    BY DEF TypeOK
<1>2. func_args[s].lo \in Digit /\ func_args[s].hi \in Digit
    BY <1>1 DEF FuncArgs
<1> QED BY <1>2, ValueRange

\* No timeout is set yet.
LEMMA InPhaseInit == Init => InPhase
<1> SUFFICES ASSUME Init PROVE InPhase
    OBVIOUS
<1>1. \A s \in Slot : Value(func_args[s]) = 0
    BY BaseAssumption, SMT DEF Init, Value
<1> QED BY <1>1 DEF InPhase

\* A tick: a due slot starts again from 0, the remainder of any other goes up
\* by one as its `since' does.  At the wrap every slot is due.
LEMMA InPhaseTick ==
    ASSUME TypeOK, InPhase, Tick
    PROVE  InPhase'
<1> SUFFICES ASSUME NEW s \in Slot, Value(func_args[s]) # 0, Settled(s)
             PROVE  /\ since'[s] <= ticks' % Value(func_args[s])
                    /\ s \notin fresh' => since'[s] = ticks' % Value(func_args[s])
    BY DEF InPhase, Tick, manager, Settled, Writing, Value
<1> DEFINE v == Value(func_args[s])
<1>1. ticks \in Nat /\ Word \in Nat \ {0} /\ ticks < Word
    BY BaseAssumption, SMT DEF TypeOK, Word
<1>2. /\ v \in Nat /\ v # 0 /\ since[s] \in Nat /\ since[s] <= ticks % v
      /\ s \notin fresh => since[s] = ticks % v
    BY <1>1, TimeoutIsNat DEF TypeOK, InPhase
<1>3. ticks' = ticks + 1 \/ ticks' = 0
    BY <1>1, SMT DEF Tick, Wrap
<1>4. /\ since'[s] = IF Due(ticks', v) THEN 0 ELSE Saturate(since[s] + 1)
      /\ s \in fresh /\ ~Due(ticks', v) => s \in fresh'
  <2>1. since'[s] = IF Due(ticks', v) \/ v = 0 THEN 0 ELSE Saturate(since[s] + 1)
      BY DEF Tick
  <2>2. s \in fresh /\ ~Due(ticks', v) => s \in fresh'
      BY DEF Tick
  <2> QED BY <1>2, <2>1, <2>2
<1> HIDE DEF v
<1>5. CASE ticks' % v = 0
  <2>1. since'[s] = 0
      BY <1>2, <1>4, <1>5 DEF Due
  <2> QED BY <1>5, <2>1, SMT DEF v
<1>6. CASE ticks' % v # 0
  <2>1. 0 % v = 0
      BY <1>2, SMT
  <2>2. ticks' = ticks + 1
      BY <1>3, <1>6, <2>1
  <2>3. ticks' % v = (ticks % v) + 1 /\ ticks % v \in Nat /\ ticks % v <= ticks
    <3>1. /\ ticks % v \in 0..(v - 1) /\ ticks % v <= ticks
          /\ (ticks + 1) % v = 0 \/ (ticks + 1) % v = (ticks % v) + 1
        BY <1>1, <1>2, ModStep, Zenon
    <3>2. (ticks + 1) % v # 0
        BY <1>6, <2>2
    <3>3. ticks % v \in Nat
        BY <1>1, <1>2, SMT
    <3> QED BY <2>2, <3>1, <3>2, <3>3
  <2>4. since'[s] = since[s] + 1
    <3>1. since'[s] = Saturate(since[s] + 1)
        BY <1>4, <1>6 DEF Due
    <3> QED BY <1>1, <1>2, <2>3, <3>1, SMT DEF Saturate
  <2>5. s \notin fresh' => s \notin fresh
      BY <1>4, <1>6 DEF Due
  <2> QED BY <1>2, <2>3, <2>4, <2>5, SMT DEF v
<1> QED BY <1>5, <1>6

\* The stores of a registration touch the slot that is not settled, and its
\* return starts the slot from 0.
LEMMA InPhaseCopy ==
    ASSUME TypeOK, InPhase, Copy
    PROVE  InPhase'
<1>0. current_index \in Slot /\ ticks \in Nat /\ UNCHANGED <<ticks, current_index>>
    BY BaseAssumption, SMT
       DEF TypeOK, Copy, StoreFunction, CopyLow, CopyHigh, CopyUser, untouched,
           Word
<1>1. \A s \in Slot : s # current_index => func_args'[s] = func_args[s]
    BY DEF Copy, StoreFunction, CopyLow, CopyHigh, CopyUser, WriteArgs, TypeOK
<1>2. \A s \in Slot : s # current_index =>
            Settled(s) /\ since'[s] = since[s] /\ (s \in fresh' <=> s \in fresh)
    BY DEF Copy, StoreFunction, CopyLow, CopyHigh, CopyUser, Settled, TypeOK,
           ghosts
<1>3. \A s \in Slot : s # current_index /\ Value(func_args'[s]) # 0 =>
            /\ since'[s] <= ticks' % Value(func_args'[s])
            /\ s \notin fresh' => since'[s] = ticks' % Value(func_args'[s])
    BY <1>0, <1>1, <1>2 DEF InPhase
<1>4. CASE StoreFunction \/ CopyLow \/ CopyHigh
  <2>1. ~Settled(current_index)'
      BY <1>4 DEF StoreFunction, CopyLow, CopyHigh, Goto, Settled, Writing
  <2> QED BY <1>0, <1>3, <2>1 DEF InPhase, Value, Settled
<1>5. CASE CopyUser
  <2>1. since'[current_index] = 0 /\ current_index \in fresh'
      BY <1>0, <1>5 DEF CopyUser, TypeOK
  <2>2. Value(func_args'[current_index]) \in Nat
    <3>1. func_args[current_index] \in FuncArgs
        BY <1>0 DEF TypeOK
    <3>2. /\ func_args'[current_index].lo = func_args[current_index].lo
          /\ func_args'[current_index].hi = func_args[current_index].hi
        BY <1>0, <1>5 DEF CopyUser, WriteArgs, Old, TypeOK
    <3>3. Value(func_args'[current_index]) = Value(func_args[current_index])
        BY <3>2 DEF Value
    <3> QED BY <1>0, <3>3, TimeoutIsNat
  <2>3. \A v \in Nat : v # 0 => 0 <= ticks % v
      BY <1>0, SMT
  <2>4. Value(func_args'[current_index]) # 0 =>
            since'[current_index] <= ticks' % Value(func_args'[current_index])
      BY <1>0, <2>1, <2>2, <2>3
  <2> QED BY <1>0, <1>3, <2>1, <2>4 DEF InPhase, Value, Settled
<1> QED BY <1>4, <1>5 DEF Copy

\* Every step keeps each settled slot in phase with the ticks.
LEMMA InPhaseNext == TypeOK /\ InPhase /\ [Next]_vars => InPhase'
<1> SUFFICES ASSUME TypeOK, InPhase, [Next]_vars PROVE InPhase'
    OBVIOUS
<1> USE DEF InPhase, Settled, Writing, Value
<1>1. CASE timer_set_frequency(Freq)
    BY <1>1 DEF timer_set_frequency, manager, ghosts
<1>2. CASE IRQ_RegisterHandler
    BY <1>2 DEF IRQ_RegisterHandler, manager, ghosts
<1>3. CASE Tick
    BY <1>3, InPhaseTick
<1>4. CASE Register
    BY <1>4 DEF Register, timer_register_function, ghosts
<1>5. CASE Copy
    BY <1>5, InPhaseCopy
<1>6. CASE Sleep
    BY <1>6 DEF Sleep, sleep, manager
<1>7. CASE SleepReturn
    BY <1>7 DEF SleepReturn, Goto, manager, ghosts
<1>8. CASE UNCHANGED vars
    BY <1>8 DEF vars, manager, ghosts
<1> QED BY <1>1, <1>2, <1>3, <1>4, <1>5, <1>6, <1>7, <1>8 DEF Next

\* No call is late: the ticks since a slot was installed or called stay below
\* its timeout, whatever the timeout, and across the wrap of the tick counter.
THEOREM CallsOnTime == Spec => []NeverLate
<1>1. TypeOK /\ InPhase => NeverLate
  <2> SUFFICES ASSUME TypeOK, InPhase,
                      NEW s \in Slot, Value(func_args[s]) # 0, Settled(s)
               PROVE  since[s] < Value(func_args[s])
      BY DEF NeverLate
  <2>1. Value(func_args[s]) \in Nat
      BY TimeoutIsNat
  <2>2. since[s] <= ticks % Value(func_args[s])
      BY DEF InPhase
  <2>3. ticks \in Nat /\ since[s] \in Int
      BY BaseAssumption, SMT DEF TypeOK, Word
  <2>4. \A v \in Nat : v # 0 => ticks % v \in Int /\ ticks % v < v
      BY <2>3, SMT
  <2> DEFINE v == Value(func_args[s])
  <2>5. v \in Nat /\ v # 0 /\ since[s] <= ticks % v
      BY <2>1, <2>2
  <2> HIDE DEF v
  <2>6. since[s] < v
      BY <2>3, <2>4, <2>5, SMT
  <2> QED BY <2>6 DEF v
<1>2. IInv => TypeOK
    BY DEF IInv
<1> QED BY <1>1, <1>2, IInvInit, IInvNext, InPhaseInit, InPhaseNext, PTL
           DEF Spec

\* Only the first call after a registration, and the call at the wrap of the
\* tick counter, may come early: between any other two calls of a slot there
\* are exactly `timeout' ticks, whatever is registered meanwhile.
THEOREM CallsEvenlySpaced == Spec => EvenlySpaced
<1>1. TypeOK /\ InPhase /\ Tick =>
        \A s \in Slot : /\ Settled(s) /\ s \notin fresh /\ ticks' # 0
                        /\ \E c \in fired' : c.slot = s
                        => since[s] + 1 = Value(func_args[s])
  <2> SUFFICES ASSUME TypeOK, InPhase, Tick,
                      NEW s \in Slot, Settled(s), s \notin fresh, ticks' # 0,
                      NEW c \in fired', c.slot = s
               PROVE  since[s] + 1 = Value(func_args[s])
      OBVIOUS
  <2> DEFINE v == Value(func_args[s])
  <2>1. v # 0 /\ ticks' % v = 0
      BY DEF Tick, Due
  <2>2. ticks \in Nat /\ Word \in Nat \ {0} /\ ticks < Word
      BY BaseAssumption, SMT DEF TypeOK, Word
  <2>3. ticks' = ticks + 1
      BY <2>2, SMT DEF Tick, Wrap
  <2>4. v \in Nat /\ since[s] = ticks % v
      BY <2>1, TimeoutIsNat DEF InPhase
  <2> HIDE DEF v
  <2>5. ticks % v = v - 1
    <3>1. \/ (ticks + 1) % v = 0 /\ ticks % v = v - 1
          \/ (ticks + 1) % v = (ticks % v) + 1 /\ ticks % v \in 0..(v - 1)
        BY <2>1, <2>2, <2>4, ModStep, Zenon
    <3>2. (ticks + 1) % v = 0
        BY <2>1, <2>3
    <3>3. ticks % v \in 0..(v - 1) => (ticks % v) + 1 # 0
        BY <2>4, SMT
    <3> QED BY <3>1, <3>2, <3>3
  <2> QED BY <2>4, <2>5, SMT DEF v
<1>2. TypeOK /\ InPhase /\ [Next]_vars =>
        [\A s \in Slot :
            /\ Tick /\ Settled(s) /\ s \notin fresh /\ ticks' # 0
            /\ \E c \in fired' : c.slot = s
            => since[s] + 1 = Value(func_args[s])]_vars
    BY <1>1
<1>3. IInv => TypeOK
    BY DEF IInv
<1> QED BY <1>2, <1>3, IInvInit, IInvNext, InPhaseInit, InPhaseNext, PTL
           DEF Spec, EvenlySpaced

(***************************************************************************)
(* sleep().  Its promise speaks of its return alone; the invariant says    *)
(* where the tick counter is while the loop turns.                         *)
(***************************************************************************)

\* The counters sleep() compares are numbers.
LEMMA SleepRanges ==
    ASSUME TypeOK
    PROVE  /\ Word \in Nat \ {0} /\ ticks \in Nat /\ ticks < Word
           /\ asked \in Nat /\ seen \in Nat /\ slept \in Nat
BY BaseAssumption, SMT DEF TypeOK, Word

\* As long as the asked ticks have not passed, the counter has not wrapped
\* since the call and is `slept' ticks further.
SleepCounts ==
    pc = "sleep" =>
        /\ end = Wrap(seen + asked)
        /\ slept < asked /\ seen + asked < Word => ticks = seen + slept

\* Every step keeps the ticks slept those that sleep has seen go by.
LEMMA SleepCountsNext == TypeOK /\ SleepCounts /\ [Next]_vars => SleepCounts'
<1> SUFFICES ASSUME TypeOK, SleepCounts, [Next]_vars PROVE SleepCounts'
    OBVIOUS
<1>0. /\ Word \in Nat \ {0} /\ ticks \in Nat /\ ticks < Word
      /\ asked \in Nat /\ seen \in Nat /\ slept \in Nat
    BY SleepRanges
<1>1. CASE Tick
  <2>1. CASE pc = "sleep"
    <3>1. /\ ticks' = Wrap(ticks + 1) /\ slept' = Saturate(slept + 1)
          /\ UNCHANGED <<pc, end, seen, asked>>
        BY <1>1, <2>1 DEF Tick
    <3>2. ASSUME slept' < asked, seen + asked < Word
          PROVE  ticks' = seen + slept'
      <4>1. slept' = slept + 1
          BY <1>0, <3>1, <3>2, SMT DEF Saturate
      <4>2. ticks = seen + slept
          BY <1>0, <2>1, <3>2, <4>1, SMT DEF SleepCounts
      <4>3. Wrap(ticks + 1) = ticks + 1
          BY <1>0, <3>2, <4>1, <4>2, SMT DEF Wrap
      <4> QED BY <1>0, <3>1, <4>1, <4>2, <4>3, SMT
    <3> QED BY <2>1, <3>1, <3>2 DEF SleepCounts, Wrap
  <2> QED BY <1>1, <2>1 DEF Tick, SleepCounts
<1>2. CASE Sleep
  <2> PICK sec \in Seconds : sleep(sec)
      BY <1>2 DEF Sleep
  <2>1. end' = Wrap(ticks + sec * freq_hz) /\ seen' = ticks /\ ticks' = ticks
        /\ asked' = sec * freq_hz /\ slept' = 0
      BY DEF sleep, EndOf
  <2>2. end' = Wrap(seen' + asked')
      BY <2>1
  <2>3. ticks' = seen' + slept'
      BY <1>0, <2>1, SMT
  <2> QED BY <2>2, <2>3 DEF SleepCounts, Wrap
<1>3. CASE timer_set_frequency(Freq) \/ IRQ_RegisterHandler \/ SleepReturn
    BY <1>3 DEF timer_set_frequency, IRQ_RegisterHandler, SleepReturn, Goto,
                SleepCounts
<1>4. CASE Register \/ Copy
    BY <1>4 DEF Register, timer_register_function, Copy, StoreFunction, CopyLow,
                CopyHigh, CopyUser, Goto, SleepCounts
<1>5. CASE UNCHANGED vars
    BY <1>5 DEF vars, ghosts, SleepCounts, Wrap
<1> QED BY <1>1, <1>2, <1>3, <1>4, <1>5 DEF Next

\* sleep() does not return before the asked ticks have passed, whichever way the
\* compiler reads the counter, unless their end is past the wrap.
THEOREM SleepIsLongEnough == Spec => SleepsLongEnough
<1>1. TypeOK /\ SleepCounts /\ SleepReturn =>
        slept >= asked \/ seen + asked >= Word
  <2> SUFFICES ASSUME TypeOK, SleepCounts, SleepReturn,
                      slept < asked, seen + asked < Word
               PROVE  FALSE
    <3> HAVE TypeOK /\ SleepCounts /\ SleepReturn
    <3> QED BY SleepRanges, SMT
  <2>1. /\ Word \in Nat \ {0} /\ ticks \in Nat
        /\ asked \in Nat /\ seen \in Nat /\ slept \in Nat
      BY SleepRanges
  <2>2. end = seen + asked /\ ticks = seen + slept
      BY <2>1, SMT DEF SleepReturn, Goto, SleepCounts, Wrap
  <2>3. ticks >= end \/ seen >= end
      BY DEF SleepReturn
  <2> QED BY <2>1, <2>2, <2>3, SMT
<1>2. TypeOK /\ SleepCounts /\ [Next]_vars =>
        [SleepReturn => slept >= asked \/ seen + asked >= Word]_vars
    BY <1>1
<1>3. Init => SleepCounts
    BY DEF Init, SleepCounts
<1>4. IInv => TypeOK
    BY DEF IInv
<1> QED BY <1>2, <1>3, <1>4, IInvInit, IInvNext, SleepCountsNext, PTL
           DEF Spec, SleepsLongEnough

(***************************************************************************)
(* The table.  LatestRegistered alone says nothing of the slot a           *)
(* registration is writing: the invariant adds what is already stored.     *)
(***************************************************************************)

\* The slot written `age' registrations before the one in slot `newest'.
Place(newest, age) == (newest + Slots - age) % Slots
Previous(index) == (index + Slots - 1) % Slots

\* The slot of the last registration that returned.
Newest == IF Writing THEN Previous(current_index) ELSE current_index

Holds(s, r) ==
    /\ functions[s] = r.fn
    /\ Value(func_args[s]) = r.timeout
    /\ func_args[s].user = r.user

\* What a registration has stored so far.
StoredSoFar ==
    /\ pc \in {"lo", "hi", "user"} => functions[current_index] = call.fn
    /\ pc \in {"hi", "user"} =>
            func_args[current_index].lo = Digits(call.timeout).lo
    /\ pc = "user" => func_args[current_index].hi = Digits(call.timeout).hi

\* A remainder below twice the divisor.
LEMMA ModSmall ==
    ASSUME NEW n \in Nat, n < 2 * Slots
    PROVE  n % Slots = IF n < Slots THEN n ELSE n - Slots
<1> DEFINE q == n \div Slots
           r == n % Slots
<1>1. Slots \in Nat \ {0} /\ q \in Int /\ r \in 0..(Slots - 1) /\ n = Slots * q + r
    BY SlotsAssumption, SMT
<1> HIDE DEF q, r
<1>2. ASSUME q >= 2 PROVE FALSE
  <2>1. Slots * q >= Slots * 2
      BY <1>1, <1>2, SMT
  <2> QED BY <1>1, <2>1, SMT
<1>3. ASSUME q <= -1 PROVE FALSE
  <2>1. Slots * q <= -Slots
      BY <1>1, <1>3, SMT
  <2> QED BY <1>1, <2>1, SMT
<1>4. q = 0 \/ q = 1
    BY <1>1, <1>2, <1>3, SMT
<1>5. r = IF n < Slots THEN n ELSE n - Slots
    BY <1>1, <1>4, SMT
<1> QED BY <1>5 DEF r

\* Going around the ring: the next slot's previous slot is this one, the last
\* slot written is the newest, and the ages grow by one with each registration
\* without ever coming back to the newest slot.
LEMMA Ring ==
    ASSUME NEW s \in Slot
    PROVE  /\ NextIndex(s) \in Slot /\ Previous(s) \in Slot
           /\ Previous(NextIndex(s)) = s
           /\ Place(s, 0) = s
           /\ \A age \in 0..(Slots - 1) : Place(s, age) \in Slot
           /\ \A age \in 0..(Slots - 2) :
                 /\ Place(Previous(s), age) = Place(s, age + 1)
                 /\ Place(s, age + 1) # s
<1>0. Slots \in Nat \ {0} /\ s \in Nat /\ s < Slots
    BY SlotsAssumption, SMT DEF Slot
<1>1. NextIndex(s) = IF s + 1 < Slots THEN s + 1 ELSE 0
  <2> DEFINE n == s + 1
  <2>1. n \in Nat /\ n < 2 * Slots
      BY <1>0, SMT
  <2>2. NextIndex(s) = IF n < Slots THEN n ELSE n - Slots
      BY <2>1, ModSmall DEF NextIndex
  <2> QED BY <1>0, <2>2, SMT
<1>2. \A t \in Slot, age \in 0..(Slots - 1) :
        Place(t, age) = IF t < age THEN t + Slots - age ELSE t - age
  <2> TAKE t \in Slot, age \in 0..(Slots - 1)
  <2> DEFINE n == t + Slots - age
  <2>1. n \in Nat /\ n < 2 * Slots /\ t \in Nat /\ age \in Nat
      BY <1>0, SMT DEF Slot
  <2>2. Place(t, age) = IF n < Slots THEN n ELSE n - Slots
      BY <2>1, ModSmall DEF Place
  <2> QED BY <1>0, <2>1, <2>2, SMT
<1>3. \A t \in Slot : Previous(t) = IF t = 0 THEN Slots - 1 ELSE t - 1
  <2> TAKE t \in Slot
  <2> DEFINE n == t + Slots - 1
  <2>1. n \in Nat /\ n < 2 * Slots /\ t \in Nat
      BY <1>0, SMT DEF Slot
  <2>2. Previous(t) = IF n < Slots THEN n ELSE n - Slots
      BY <2>1, ModSmall DEF Previous
  <2> QED BY <1>0, <2>1, <2>2, SMT
<1>4. NextIndex(s) \in Slot /\ Previous(s) \in Slot
    BY <1>0, <1>1, <1>3, SMT DEF Slot
<1>5. Previous(NextIndex(s)) = s
    BY <1>0, <1>1, <1>3, <1>4, SMT
<1>6. Place(s, 0) = s
    BY <1>0, <1>2, SMT
<1>7. \A age \in 0..(Slots - 1) : Place(s, age) \in Slot
    BY <1>0, <1>2, SMT DEF Slot
<1>8. ASSUME NEW age \in 0..(Slots - 2)
      PROVE  /\ Place(Previous(s), age) = Place(s, age + 1)
             /\ Place(s, age + 1) # s
  <2>1. /\ age \in 0..(Slots - 1) /\ age + 1 \in 0..(Slots - 1)
        /\ age \in Nat
      BY <1>0, SMT
  <2>2. Place(s, age + 1) = IF s < age + 1 THEN s + Slots - (age + 1)
                                           ELSE s - (age + 1)
      BY <1>2, <2>1
  <2>3. Place(Previous(s), age) =
            IF Previous(s) < age THEN Previous(s) + Slots - age
                                 ELSE Previous(s) - age
      BY <1>2, <1>4, <2>1
  <2>4. Previous(s) = IF s = 0 THEN Slots - 1 ELSE s - 1
      BY <1>3
  <2> QED BY <1>0, <2>1, <2>2, <2>3, <2>4, SMT
<1> QED BY <1>4, <1>5, <1>6, <1>7, <1>8

\* The window of the last registrations: the new one comes last, and the others
\* keep their order, one further from the end.
LEMMA Window ==
    ASSUME NEW seq \in Seq(Registration), Len(seq) <= Slots, NEW r \in Registration,
           NEW k \in 1..Len(LastOf(Append(seq, r)))
    PROVE  LET new == LastOf(Append(seq, r))
           IN  /\ Len(new) \in 1..Slots
               /\ k = Len(new) => new[k] = r
               /\ k # Len(new) => \E j \in 1..Len(seq) :
                     new[k] = seq[j] /\ Len(new) - k = Len(seq) - j + 1
<1> DEFINE long == Append(seq, r)
           new == LastOf(long)
<1>1. /\ long \in Seq(Registration) /\ Len(long) = Len(seq) + 1 /\ Len(seq) \in Nat
      /\ long[Len(seq) + 1] = r /\ \A i \in 1..Len(seq) : long[i] = seq[i]
    OBVIOUS
<1>2. Slots \in Nat \ {0}
    BY SlotsAssumption
<1>3. /\ Len(Tail(long)) = Len(seq) /\ Len(seq) + 1 > 0
      /\ \A i \in 1..Len(seq) : Tail(long)[i] = long[i + 1]
    BY <1>1
<1> HIDE DEF long
<1>4. CASE Len(long) <= Slots
  <2>1. new = long
      BY <1>4 DEF LastOf
  <2>2. k \in 1..Len(seq) + 1
      BY <1>1, <2>1 DEF long
  <2>3. k # Len(seq) + 1 => k \in 1..Len(seq) /\ Len(seq) + 1 - k = Len(seq) - k + 1
      BY <1>1, <2>2, SMT
  <2>4. Len(seq) + 1 \in 1..Slots
      BY <1>1, <1>2, <1>4, SMT
  <2> HIDE DEF new
  <2> QED BY <1>1, <2>1, <2>2, <2>3, <2>4 DEF new, long
<1>5. CASE ~(Len(long) <= Slots)
  <2>1. new = Tail(long)
      BY <1>5 DEF LastOf
  <2>2. Len(seq) = Slots
      BY <1>1, <1>2, <1>5, SMT
  <2>3. k \in 1..Len(seq) /\ Len(new) = Len(seq)
      BY <1>3, <2>1 DEF long
  <2>4. new[k] = long[k + 1]
      BY <1>3, <2>1, <2>3
  <2>5. k # Len(seq) => k + 1 \in 1..Len(seq) /\ Len(seq) - k = Len(seq) - (k + 1) + 1
      BY <1>1, <2>3, SMT
  <2>6. Len(new) \in 1..Slots
      BY <1>2, <2>2, <2>3, SMT
  <2> HIDE DEF new
  <2> QED BY <1>1, <2>3, <2>4, <2>5, <2>6 DEF new, long
<1> QED BY <1>4, <1>5

\* LatestRegistered, in the terms of the ring.
Registered ==
    \A k \in 1..Len(recent) :
        LET s == Place(Newest, Len(recent) - k)
        IN  Settled(s) => Holds(s, recent[k])

\* What the run checks follows from what is registered.
LEMMA RegisteredIsLatest == Registered => LatestRegistered
BY Zenon DEF Registered, LatestRegistered, Place, Previous, Newest, Holds

Table == Registered /\ StoredSoFar

\* The table starts empty.
LEMMA TableInit == Init => Table
<1> SUFFICES ASSUME Init PROVE Table
    OBVIOUS
<1>1. Len(recent) = 0
    BY DEF Init
<1> QED BY <1>1 DEF Init, Table, Registered, StoredSoFar

\* What leaves the registrations, the ring and the settled slots alone.
LEMMA RegisteredKept ==
    ASSUME Registered, UNCHANGED <<recent, Newest>>,
           \A s \in Slot : Settled(s)' =>
                Settled(s) /\ functions'[s] = functions[s] /\ func_args'[s] = func_args[s],
           \A k \in 1..Len(recent) : Place(Newest, Len(recent) - k) \in Slot
    PROVE  Registered'
<1> SUFFICES ASSUME NEW k \in 1..Len(recent), Settled(Place(Newest, Len(recent) - k))'
             PROVE  Holds(Place(Newest, Len(recent) - k), recent[k])'
    BY DEF Registered
<1> QED BY DEF Registered, Holds, Value

\* The places of the window are slots of the ring.
LEMMA PlacesAreSlots ==
    ASSUME IInv
    PROVE  /\ current_index \in Slot /\ Newest \in Slot
           /\ \A k \in 1..Len(recent) : Place(Newest, Len(recent) - k) \in Slot
<1>1. current_index \in Slot /\ recent \in Seq(Registration) /\ Len(recent) <= Slots
    BY DEF IInv, TypeOK
<1>2. Newest \in Slot
    BY <1>1, Ring DEF Newest
<1>3. \A k \in 1..Len(recent) : Len(recent) - k \in 0..(Slots - 1)
    BY <1>1, SlotsAssumption, SMT
<1> QED BY <1>1, <1>2, <1>3, Ring

\* The stores before the last one: the slot they change is not settled.
LEMMA TableStore ==
    ASSUME IInv, Table, StoreFunction \/ CopyLow \/ CopyHigh
    PROVE  Table'
<1>0. current_index \in Slot
    BY PlacesAreSlots
<1>1. /\ Writing /\ Writing' /\ UNCHANGED <<current_index, recent, call>>
      /\ \A s \in Slot : s # current_index =>
            functions'[s] = functions[s] /\ func_args'[s] = func_args[s]
    BY DEF StoreFunction, CopyLow, CopyHigh, untouched, ghosts, Goto, Writing,
           WriteArgs, IInv, TypeOK
<1>2. Registered'
  <2>1. UNCHANGED Newest
      BY <1>1 DEF Newest
  <2>2. \A s : Settled(s)' => Settled(s) /\ s # current_index
      BY <1>1 DEF Settled
  <2> QED BY <1>1, <2>1, <2>2, PlacesAreSlots, RegisteredKept DEF Table
<1>3. StoredSoFar'
  <2>1. CASE StoreFunction
      BY <1>0, <2>1 DEF StoreFunction, Goto, StoredSoFar, IInv, TypeOK
  <2>2. CASE CopyLow
    <3>1. /\ pc' = "hi" /\ UNCHANGED <<functions, call, current_index>> 
          /\ functions[current_index] = call.fn
        BY <2>2 DEF CopyLow, Goto, untouched, Table, StoredSoFar
    <3>2. func_args'[current_index].lo = Digits(call.timeout).lo
        BY <1>0, <2>2 DEF CopyLow, WriteArgs, IInv, TypeOK
    <3> QED BY <3>1, <3>2 DEF StoredSoFar, Digits
  <2>3. CASE CopyHigh
    <3>1. /\ pc' = "user" /\ UNCHANGED <<functions, call, current_index>> 
          /\ functions[current_index] = call.fn
          /\ func_args[current_index].lo = Digits(call.timeout).lo
        BY <2>3 DEF CopyHigh, Goto, untouched, Table, StoredSoFar
    <3>2. /\ func_args'[current_index].hi = Digits(call.timeout).hi
          /\ func_args'[current_index].lo = func_args[current_index].lo
        BY <1>0, <2>3 DEF CopyHigh, WriteArgs, Old, IInv, TypeOK
    <3> QED BY <3>1, <3>2 DEF StoredSoFar, Digits
  <2> QED BY <2>1, <2>2, <2>3
<1> QED BY <1>2, <1>3 DEF Table

\* The last store: the registration takes its place in the window, the others
\* grow older by one, and the one that leaves the window has been overwritten.
LEMMA TableReturn ==
    ASSUME IInv, Table, CopyUser
    PROVE  Table'
<1>0. /\ current_index \in Slot /\ recent \in Seq(Registration)
      /\ Len(recent) <= Slots /\ pc = "user"
    BY DEF IInv, TypeOK, CopyUser, Goto
<1>1. call \in Registration
    BY <1>0 DEF IInv, FunctionFirst, Writing
<1>2. /\ recent' = LastOf(Append(recent, call)) /\ pc' = "idle"
      /\ UNCHANGED <<functions, current_index, call>>
    BY DEF CopyUser, untouched, Goto
<1>3. Newest = Previous(current_index) /\ Newest' = current_index
    BY <1>0, <1>2 DEF Newest, Writing
<1>4. \A s \in Slot : s # current_index => Settled(s) /\ func_args'[s] = func_args[s]
    BY <1>0 DEF CopyUser, WriteArgs, Settled, IInv, TypeOK
<1>5. Holds(current_index, call)'
  <2>1. /\ func_args'[current_index].lo = func_args[current_index].lo
        /\ func_args'[current_index].hi = func_args[current_index].hi
        /\ func_args'[current_index].user = call.user
      BY <1>0 DEF CopyUser, WriteArgs, Old, IInv, TypeOK
  <2>2. /\ func_args[current_index].lo = Digits(call.timeout).lo
        /\ func_args[current_index].hi = Digits(call.timeout).hi
        /\ functions[current_index] = call.fn
      BY <1>0 DEF Table, StoredSoFar
  <2>3. Digits(call.timeout).lo + Base * Digits(call.timeout).hi = call.timeout
    <3>1. call.timeout \in 0..(Word - 1)
        BY <1>1, TimeoutsAssumption DEF Registration
    <3> QED BY <3>1, DigitsValue
  <2> QED BY <1>2, <2>1, <2>2, <2>3 DEF Holds, Value
<1>6. Registered'
  <2> SUFFICES ASSUME NEW k \in 1..Len(recent')
               PROVE  Holds(Place(Newest, Len(recent) - k), recent[k])'
      BY DEF Registered
  <2>1. CASE k = Len(recent')
    <3>1. recent'[k] = call
        BY <1>0, <1>1, <1>2, <2>1, Window
    <3>2. Len(recent') - k = 0
        BY <1>0, <1>1, <1>2, <2>1, Window, SMT
    <3>3. Place(current_index, 0) = current_index
        BY <1>0, Ring
    <3> QED BY <1>2, <1>3, <1>5, <3>1, <3>2, <3>3
  <2>2. CASE k # Len(recent')
    <3>1. PICK j \in 1..Len(recent) : /\ recent'[k] = recent[j]
                                      /\ Len(recent') - k = Len(recent) - j + 1
        BY <1>0, <1>1, <1>2, <2>2, Window
    <3> DEFINE age == Len(recent) - j
               s == Place(Newest, age)
    <3>2. age \in 0..(Slots - 2) /\ age \in 0..(Slots - 1) /\ Len(recent') - k = age + 1
      <4>1. Len(recent') \in 1..Slots
          BY <1>0, <1>1, <1>2, Window
      <4>2. k \in 1..Len(recent') /\ j \in 1..Len(recent) /\ Len(recent) \in Nat
          BY <1>0
      <4> QED BY <3>1, <4>1, <4>2, SlotsAssumption, SMT
    <3>3. s = Place(current_index, age + 1) /\ s # current_index /\ s \in Slot
      <4>1. s = Place(current_index, age + 1) /\ s # current_index
          BY <1>0, <1>3, <3>2, Ring
      <4>2. s \in Slot
          BY <3>2, PlacesAreSlots, Ring
      <4> QED BY <4>1, <4>2
    <3>4. Holds(s, recent[j])
        BY <1>4, <3>3 DEF Table, Registered
    <3>5. Place(Newest', Len(recent') - k) = s
        BY <1>3, <3>2, <3>3
    <3> QED BY <1>2, <1>4, <3>1, <3>3, <3>4, <3>5 DEF Holds, Value
  <2> QED BY <2>1, <2>2
<1> QED BY <1>2, <1>6 DEF Table, StoredSoFar

\* Every step keeps the table's entries those registered last.
LEMMA TableNext == IInv /\ Table /\ [Next]_vars => Table'
<1> SUFFICES ASSUME IInv, Table, [Next]_vars PROVE Table'
    OBVIOUS
<1>0. ASSUME UNCHANGED <<recent, Newest, functions, func_args>>,
             \A s \in Slot : Settled(s)' => Settled(s)
      PROVE  Registered'
    BY <1>0, PlacesAreSlots, RegisteredKept DEF Table
<1>1. CASE Register
  <2> PICK fn \in Functions, timeout \in Timeouts, user \in Users :
             timer_register_function(fn, timeout, user)
      BY <1>1 DEF Register
  <2>1. /\ pc = "idle" /\ pc' = "function" /\ current_index' = NextIndex(current_index)
        /\ UNCHANGED <<recent, functions, func_args>>
      BY DEF timer_register_function, ghosts
  <2>2. Newest' = Newest
    <3>1. Newest = current_index /\ Newest' = Previous(current_index')
        BY <2>1 DEF Newest, Writing
    <3> QED BY <2>1, <3>1, PlacesAreSlots, Ring
  <2>3. \A s \in Slot : Settled(s)
      BY <2>1 DEF Settled, Writing
  <2> QED BY <1>0, <2>1, <2>2, <2>3 DEF Table, StoredSoFar
<1>2. CASE Copy
    BY <1>2, TableStore, TableReturn DEF Copy
<1>3. ASSUME UNCHANGED <<recent, functions, func_args, current_index>>,
             pc' = pc \/ (~Writing /\ ~Writing'), UNCHANGED call
      PROVE  Table'
  <2>1. UNCHANGED Newest /\ \A s \in Slot : Settled(s)' => Settled(s)
      BY <1>3 DEF Newest, Settled, Writing
  <2> QED BY <1>0, <1>3, <2>1 DEF Table, StoredSoFar, Writing, Digits
<1>4. CASE Tick
    BY <1>3, <1>4 DEF Tick, manager
<1>5. CASE timer_set_frequency(Freq) \/ IRQ_RegisterHandler
    BY <1>3, <1>5
       DEF timer_set_frequency, IRQ_RegisterHandler, manager, ghosts, Writing
<1>6. CASE Sleep \/ SleepReturn
    BY <1>3, <1>6 DEF Sleep, sleep, SleepReturn, Goto, manager, Writing
<1>7. CASE UNCHANGED vars
    BY <1>3, <1>7 DEF vars, manager, ghosts
<1> QED BY <1>1, <1>2, <1>4, <1>5, <1>6, <1>7 DEF Next

\* The table holds the latest registrations, as many as there are slots, each
\* whole and in a slot of its own: however many are made, the ring loses only
\* the oldest, and only once its slot is being written.
THEOREM LatestAreRegistered == Spec => []LatestRegistered
<1> QED BY IInvInit, IInvNext, TableInit, TableNext, RegisteredIsLatest, PTL
           DEF Spec, Table
=============================================================================
