--------------------------- MODULE KeyboardProofs ---------------------------
(***************************************************************************)
(* Theorems about the keyboard driver, for every set of keys, any number   *)
(* of bytes typed, both builds and both readers.                           *)
(***************************************************************************)
EXTENDS Keyboard, SequenceTheorems, TLAPS

(***************************************************************************)
(* The bytes on their way: numbered without a gap from the one the handler *)
(* reads next to the last one typed, and never an IRQ1 without its byte.   *)
(***************************************************************************)

Waiting == typed - Len(buffer)

OnTheWay ==
    /\ typed \in 0..MaxTyped /\ handled \in Nat
    /\ buffer \in Seq(Byte)
    /\ \A i \in 1..Len(buffer) : buffer[i].n = Waiting + i
    /\ output \in Byte \cup {NONE}
    /\ output = NONE => handled = Waiting
    /\ output # NONE => output.n = Waiting /\ handled = Waiting - 1
    /\ irq1 => output # NONE

\* Nothing is typed yet and nothing is on the way.
LEMMA OnTheWayInit == Init => OnTheWay
<1> SUFFICES ASSUME Init PROVE OnTheWay
    OBVIOUS
<1>1. buffer \in Seq(Byte) /\ Len(buffer) = 0
    BY EmptySeq DEF Init
<1>2. typed \in 0..MaxTyped /\ handled \in Nat /\ handled = typed
    BY BoundsAssumption, SMT DEF Init
<1>3. Waiting = 0 /\ handled = 0
  <2>1. typed = 0 /\ handled = 0
      BY DEF Init
  <2> QED BY <1>1, <2>1, SMT DEF Waiting
<1>4. 1..Len(buffer) = {}
    BY <1>1, SMT
<1> QED BY <1>1, <1>2, <1>3, <1>4 DEF Init, OnTheWay

\* A key typed joins the end of the controller's queue.
LEMMA OnTheWayType ==
    ASSUME OnTheWay, NEW k \in Keys, NEW up \in BOOLEAN, Type(k, up)
    PROVE  OnTheWay'
<1> DEFINE byte == [key |-> k, up |-> up, n |-> typed']
<1>1. typed' = typed + 1 /\ typed' \in 1..MaxTyped /\ typed \in Nat
    BY BoundsAssumption, SMT DEF Type, OnTheWay
<1>2. byte \in Byte /\ byte.n = typed'
    BY <1>1 DEF Byte
<1>3. buffer' = Append(buffer, byte)
    BY DEF Type
<1> HIDE DEF byte
<1>4. /\ buffer' \in Seq(Byte) /\ Len(buffer) \in Nat
      /\ Len(buffer') = Len(buffer) + 1
      /\ \A i \in 1..Len(buffer) : buffer'[i] = buffer[i]
      /\ buffer'[Len(buffer) + 1] = byte
    BY <1>2, <1>3, AppendProperties, LenProperties DEF OnTheWay
<1>5. Waiting' = Waiting
    BY <1>1, <1>4, SMT DEF Waiting
<1>6. \A i \in 1..Len(buffer') : buffer'[i].n = Waiting' + i
  <2> TAKE i \in 1..Len(buffer')
  <2>1. CASE i \in 1..Len(buffer)
      BY <1>4, <1>5, <2>1 DEF OnTheWay
  <2>2. CASE i = Len(buffer) + 1
    <3>1. Waiting' + i = typed'
        BY <1>1, <1>4, <1>5, <2>2, SMT DEF Waiting
    <3> QED BY <1>2, <1>4, <2>2, <3>1
  <2> QED BY <1>4, <2>1, <2>2, SMT
<1>7. typed' \in 0..MaxTyped
    BY <1>1, BoundsAssumption, SMT
<1> QED BY <1>4, <1>5, <1>6, <1>7 DEF Type, OnTheWay

\* The byte sent to the output port is the oldest one queued.
LEMMA OnTheWaySend ==
    ASSUME OnTheWay, Send
    PROVE  OnTheWay'
<1>1. /\ buffer # <<>> /\ buffer \in Seq(Byte) /\ typed \in Nat
      /\ UNCHANGED <<typed, handled>>
    BY BoundsAssumption, SMT DEF Send, OnTheWay
<1>2. /\ output' \in Byte /\ output' = buffer[1]
      /\ buffer' \in Seq(Byte) /\ Len(buffer') = Len(buffer) - 1
      /\ \A i \in 1..Len(buffer') : buffer'[i] = buffer[i + 1]
    BY <1>1, HeadTailProperties DEF Send
<1>3. Len(buffer) \in Nat /\ Len(buffer') \in Nat
    BY <1>1, <1>2, LenProperties
<1>4. Waiting' = Waiting + 1 /\ Waiting \in Int
    BY <1>1, <1>2, <1>3, SMT DEF Waiting
<1>5. output'.n = Waiting'
  <2>1. 1 \in 1..Len(buffer)
      BY <1>2, <1>3, SMT
  <2> QED BY <1>2, <1>4, <2>1 DEF OnTheWay
<1>6. \A i \in 1..Len(buffer') : buffer'[i].n = Waiting' + i
  <2> TAKE i \in 1..Len(buffer')
  <2>1. i + 1 \in 1..Len(buffer) /\ i \in Int
      BY <1>2, <1>3, SMT
  <2>2. buffer'[i].n = Waiting + (i + 1)
      BY <1>2, <2>1 DEF OnTheWay
  <2> QED BY <1>4, <2>1, <2>2, SMT
<1>7. output' # NONE
    BY <1>2, NoneAssumption
<1>8. handled' = Waiting' - 1
    BY <1>1, <1>4, SMT DEF Send, OnTheWay
<1> QED BY <1>1, <1>2, <1>5, <1>6, <1>7, <1>8 DEF OnTheWay

\* Every step keeps what is on the way in the order it was typed.
LEMMA OnTheWayNext == OnTheWay /\ [Next]_vars => OnTheWay'
<1> SUFFICES ASSUME OnTheWay, [Next]_vars PROVE OnTheWay'
    OBVIOUS
<1>1. CASE \E k \in Keys, up \in BOOLEAN : Type(k, up)
    BY <1>1, OnTheWayType
<1>2. CASE Send
    BY <1>2, OnTheWaySend
<1>3. CASE init_IRQ \/ UnhandledIRQ
    BY <1>3 DEF init_IRQ, UnhandledIRQ, OnTheWay, Waiting
<1>4. CASE keyboard_handler
  <2>1. /\ output # NONE /\ output' = NONE /\ ~irq1'
        /\ handled' = output.n /\ output \in Byte
        /\ UNCHANGED <<buffer, typed>>
      BY <1>4 DEF keyboard_handler, getKey, OnTheWay
  <2>2. handled' \in Nat /\ handled' = Waiting'
    <3>1. output.n \in Nat /\ output.n = Waiting
        BY <2>1, BoundsAssumption, SMT DEF Byte, OnTheWay
    <3> QED BY <2>1, <3>1 DEF Waiting
  <2> QED BY <2>1, <2>2 DEF OnTheWay, Waiting
<1>5. CASE UNCHANGED <<device, typed, handled>>
    BY <1>5 DEF device, OnTheWay, Waiting
<1>6. ASSUME init_keyboard \/ (\E f \in Readers : Read(f)) \/ ReaderStep
      PROVE  UNCHANGED <<device, typed, handled>>
    BY <1>6 DEF init_keyboard, Read, ReaderStep, Leave, TakeValue, ClearCh,
           ClearKey, unread, device
<1>7. vars' = vars => UNCHANGED <<device, typed, handled>>
    BY DEF vars, device
<1> QED BY <1>1, <1>2, <1>3, <1>4, <1>5, <1>6, <1>7 DEF Next, Interrupt

\* An IRQ1 the driver handles finds its byte: getKey never polls with
\* interrupts off.
THEOREM ByteIsThere == Spec => []NeverPolls
<1>1. OnTheWay => NeverPolls
    BY DEF OnTheWay, NeverPolls
<1> QED BY <1>1, OnTheWayInit, OnTheWayNext, PTL DEF Spec

(***************************************************************************)
(* What the readers get.                                                   *)
(***************************************************************************)

Last == IF got = <<>> THEN 0 ELSE got[Len(got)]

\* `key' and `ch' hold the last byte handled or nothing, and nothing once a
\* reader has returned it; the reader's register is ahead of what it returned.
Fresh ==
    /\ got \in Seq(Nat)
    /\ InOrderOnce
    /\ Last <= handled
    /\ key # NONE => key.n = handled
    /\ ch # NONE => ch.n = handled
    /\ pc # "clear key" /\ key # NONE => Last < handled
    /\ ch # NONE => Last < handled
    /\ seen # NONE => seen.n \in Nat /\ Last < seen.n /\ seen.n <= handled
    /\ pc = "clear key" /\ seen # NONE /\ ch # NONE => seen.n < handled

\* The last key returned is a number, 0 before the first.
LEMMA LastIsNat ==
    ASSUME got \in Seq(Nat)
    PROVE  Last \in Nat
<1>1. CASE got = <<>>
    BY <1>1 DEF Last
<1>2. CASE got # <<>>
  <2>1. Len(got) \in Nat /\ Len(got) # 0
      BY <1>2, EmptySeq
  <2>2. Len(got) \in 1..Len(got)
      BY <2>1, SMT
  <2>3. got[Len(got)] \in Nat
      BY <2>2, ElementOfSeq
  <2> QED BY <1>2, <2>3 DEF Last
<1> QED BY <1>1, <1>2

\* Nothing was seen or returned yet.
LEMMA FreshInit == Init => Fresh
<1> SUFFICES ASSUME Init PROVE Fresh
    OBVIOUS
<1>1. got \in Seq(Nat) /\ Len(got) = 0
    BY EmptySeq DEF Init
<1>2. InOrderOnce
  <2>1. 1..(Len(got) - 1) = {}
      BY <1>1, SMT
  <2> QED BY <2>1 DEF InOrderOnce
<1>3. Last <= handled
    BY SMT DEF Last, Init
<1> QED BY <1>1, <1>2, <1>3 DEF Fresh, Init

\* The handler writes the number of the byte it reads, or nothing.
LEMMA HandlerWrites ==
    ASSUME keyboard_handler
    PROVE  /\ key' = output /\ handled' = output.n
           /\ ch' # NONE => ch'.n = output.n
<1>1. \A form : Character(output, form) # NONE =>
                    Character(output, form).n = output.n
    BY DEF Character
<1>2. CASE Released \/ CapsLock \/ Shift
    BY <1>2 DEF keyboard_handler, Released, CapsLock, Shift
<1>3. CASE Enter
    BY <1>1, <1>3 DEF keyboard_handler, Enter
<1>4. CASE \E k \in Letters \cup Symbols \cup Mute : OtherKey(k)
    BY <1>1, <1>4 DEF keyboard_handler, OtherKey
<1> QED BY <1>2, <1>3, <1>4 DEF keyboard_handler

\* What the handler stores is newer than what was returned.
LEMMA FreshHandler ==
    ASSUME OnTheWay, Fresh, keyboard_handler
    PROVE  Fresh'
<1>1. UNCHANGED <<got, pc, seen>>
    BY DEF keyboard_handler, reader
<1>2. handled' = handled + 1 /\ handled \in Nat
  <2>1. output # NONE /\ output \in Byte
      BY DEF OnTheWay, keyboard_handler, getKey
  <2>2. output.n \in Nat /\ handled = output.n - 1
      BY <2>1, BoundsAssumption, SMT DEF OnTheWay, Byte
  <2> QED BY <2>2, HandlerWrites DEF OnTheWay
<1>3. Last' = Last /\ Last \in Nat
    BY <1>1, LastIsNat DEF Last, Fresh
<1>4. Last' < handled' /\ Last' <= handled'
  <2>1. Last <= handled
      BY DEF Fresh
  <2> QED BY <1>2, <1>3, <2>1
<1>5. seen # NONE => /\ seen.n \in Nat /\ Last < seen.n
                     /\ seen.n < handled' /\ seen.n <= handled'
  <2> SUFFICES ASSUME seen # NONE
               PROVE  /\ seen.n \in Nat /\ Last < seen.n
                      /\ seen.n < handled' /\ seen.n <= handled'
      OBVIOUS
  <2>1. seen.n \in Nat /\ Last < seen.n /\ seen.n <= handled
      BY DEF Fresh
  <2> QED BY <1>2, <2>1
<1>6. InOrderOnce' /\ got' \in Seq(Nat)
    BY <1>1 DEF Fresh, InOrderOnce
<1>7. (key' # NONE => key'.n = handled') /\ (ch' # NONE => ch'.n = handled')
    BY HandlerWrites
<1> QED BY <1>1, <1>3, <1>4, <1>5, <1>6, <1>7 DEF Fresh

\* A reader's return adds a number above the last one.
LEMMA FreshReturn ==
    ASSUME OnTheWay, Fresh, ClearKey
    PROVE  Fresh'
<1>0. /\ pc = "clear key" /\ pc' = "idle" /\ key' = NONE /\ seen' = NONE
      /\ UNCHANGED <<ch, handled>> /\ handled \in Nat /\ Last \in Nat
    BY LastIsNat DEF ClearKey, Goto, unread, OnTheWay, Fresh
<1>1. CASE seen = NONE
  <2>1. UNCHANGED got
      BY <1>1 DEF ClearKey
  <2> QED BY <1>0, <2>1 DEF Fresh, InOrderOnce, Last
<1>2. CASE seen # NONE
  <2> DEFINE n == seen.n
  <2>1. n \in Nat /\ Last < n /\ n <= handled /\ (ch # NONE => n < handled)
      BY <1>0, <1>2 DEF Fresh
  <2>2. got' = Append(got, n) /\ got \in Seq(Nat)
      BY <1>2 DEF ClearKey, Fresh
  <2> HIDE DEF n
  <2>3. /\ got' \in Seq(Nat) /\ Len(got') = Len(got) + 1 /\ Len(got) \in Nat
        /\ \A i \in 1..Len(got) : got'[i] = got[i]
        /\ got'[Len(got) + 1] = n
        /\ got' # <<>>
      BY <2>1, <2>2, AppendProperties, LenProperties
  <2>4. Last' = n
      BY <2>3 DEF Last
  <2>5. InOrderOnce'
    <3> SUFFICES ASSUME NEW i \in 1..Len(got)
                 PROVE  got'[i] < got'[i + 1]
      <4>1. 1..(Len(got') - 1) = 1..Len(got)
          BY <2>3, SMT
      <4> QED BY <4>1 DEF InOrderOnce
    <3>1. CASE i = Len(got)
      <4>1. got # <<>>
          BY <2>3, EmptySeq, SMT
      <4>2. Last = got[i]
          BY <3>1, <4>1 DEF Last
      <4> QED BY <2>1, <2>3, <3>1, <4>2
    <3>2. CASE i # Len(got)
      <4>1. i \in 1..(Len(got) - 1) /\ i + 1 \in 1..Len(got)
          BY <2>3, <3>2, SMT
      <4>2. got[i] < got[i + 1]
          BY <4>1 DEF Fresh, InOrderOnce
      <4> QED BY <2>3, <4>1, <4>2
    <3> QED BY <3>1, <3>2
  <2>6. Last' <= handled' /\ (ch' # NONE => Last' < handled')
      BY <1>0, <2>1, <2>4
  <2> QED BY <1>0, <2>3, <2>5, <2>6 DEF Fresh
<1> QED BY <1>1, <1>2

\* Every step keeps what getkey will return newer than what it returned.
LEMMA FreshNext == OnTheWay /\ Fresh /\ [Next]_vars => Fresh'
<1> SUFFICES ASSUME OnTheWay, Fresh, [Next]_vars PROVE Fresh'
    OBVIOUS
<1>0. handled \in Nat /\ Last \in Nat
    BY LastIsNat DEF OnTheWay, Fresh
<1>1. CASE keyboard_handler
    BY <1>1, FreshHandler
<1>2. CASE ClearKey
    BY <1>2, FreshReturn
<1>3. CASE ClearCh
    BY <1>3 DEF ClearCh, Goto, unread, Fresh, InOrderOnce, Last
<1>4. CASE (\E f \in Readers : Read(f)) \/ Leave \/ TakeValue
  <2>1. /\ pc # "clear key" /\ pc' # "clear key"
        /\ UNCHANGED <<got, handled, key, ch>>
        /\ seen' \in {seen, key, ch}
      BY <1>4 DEF Read, Leave, TakeValue, Goto, unread, Awaited
  <2>2. seen' # NONE => seen'.n \in Nat /\ Last < seen'.n /\ seen'.n <= handled
    <3>1. CASE seen' = seen
        BY <3>1 DEF Fresh
    <3>2. /\ key # NONE => key.n = handled /\ Last < handled
          /\ ch # NONE => ch.n = handled /\ Last < handled
        BY <2>1 DEF Fresh
    <3>3. CASE seen' \in {key, ch}
      <4>1. seen' # NONE => seen'.n = handled /\ Last < handled
          BY <3>2, <3>3, Zenon
      <4>2. handled <= handled
          BY <1>0
      <4> QED BY <1>0, <4>1, <4>2, Zenon
    <3> QED BY <2>1, <3>1, <3>3
  <2> QED BY <2>1, <2>2 DEF Fresh, InOrderOnce, Last
<1>5. CASE UNCHANGED <<got, handled, key, ch, pc, seen>>
    BY <1>5 DEF Fresh, InOrderOnce, Last
<1>6. ASSUME \/ \E k \in Keys, up \in BOOLEAN : Type(k, up)
             \/ Send \/ init_IRQ \/ init_keyboard \/ UnhandledIRQ
             \/ UNCHANGED vars
      PROVE  UNCHANGED <<got, handled, key, ch, pc, seen>>
    BY <1>6 DEF Type, Send, init_IRQ, init_keyboard, UnhandledIRQ, driver,
           reader, vars
<1> QED BY <1>1, <1>2, <1>3, <1>4, <1>5, <1>6
        DEF Next, Interrupt, ReaderStep

\* The readers return the presses and releases they see in the order of
\* typing, none of them twice.
THEOREM InOrder == Spec => []InOrderOnce
<1>1. Fresh => InOrderOnce
    BY DEF Fresh
<1> QED BY <1>1, OnTheWayInit, OnTheWayNext, FreshInit, FreshNext, PTL DEF Spec

\* `key' and `ch' belong to the same byte whenever both hold one.
THEOREM SameByte == Spec => []Matched
<1>1. Fresh => Matched
    BY DEF Fresh, Matched
<1> QED BY <1>1, OnTheWayInit, OnTheWayNext, FreshInit, FreshNext, PTL DEF Spec
=============================================================================
