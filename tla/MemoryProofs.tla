---------------------------- MODULE MemoryProofs ----------------------------
(***************************************************************************)
(* Every step of the memory manager keeps the invariant Inv.  First lemmas *)
(* about what the manager is built from: the operators on lists, the call  *)
(* stack, the ranges held, the slabs and their blocks, and the region      *)
(* list.  Then one lemma per action, Safe_ and its name, after the lemmas  *)
(* several of them need.                                                   *)
(***************************************************************************)
EXTENDS MemoryInvariant, TLAPS, FiniteSetTheorems, SequenceTheorems,
        WellFoundedInduction

\* What the assumptions say of the sizes and addresses of the boot caches.
LEMMA Constants ==
    /\ {CacheSize, MapSize, Nmemb, BlockSize, SlabSize, MapSlabSize} \subseteq Nat \ {0}
    /\ {LowMemory, KernelBase, KernelEnd, metadata_cache, memory_map_cache, MapSlab, BootLen} \subseteq Nat
    /\ metadata_cache + CacheSize + SlabSize = MapSlab
    /\ MapSlab + MapSlabSize = metadata_cache + BootLen
    /\ memory_map_cache = metadata_cache + CacheSize /\ memory_map_cache # metadata_cache
    /\ metadata_cache # NULL
    /\ SlabSize \div CacheSize = Nmemb
    /\ Len(Zones) \in Nat /\ Len(Zones) >= 3 /\ DOMAIN Zones = 1..Len(Zones)
<1>1. /\ {CacheSize, MapSize, Nmemb, BlockSize} \subseteq Nat \ {0}
      /\ {LowMemory, KernelBase, KernelEnd} \subseteq Nat /\ KernelBase < KernelEnd
    BY SizesAssumption, BootAssumption
<1>2. Len(Zones) \in Nat /\ Len(Zones) >= 3 /\ DOMAIN Zones = 1..Len(Zones)
    BY ZonesAssumption, BootAssumption
<1>3. SlabSize \in Nat \ {0}
    BY <1>1 DEF SlabSize
<1>4. MapSlabSize \in Nat \ {0}
  <2>1. 2 * Len(Zones) \in Nat \ {0}
      BY <1>2
  <2> QED BY <2>1, <1>1 DEF MapSlabSize
<1>5. (Nmemb + 1) * CacheSize = CacheSize + SlabSize
    BY <1>1 DEF SlabSize
<1>6. SlabSize \div CacheSize = Nmemb
    BY <1>1 DEF SlabSize
<1>7. BootLen = CacheSize + SlabSize + MapSlabSize
    BY <1>5 DEF BootLen, MapSlabSize
<1>8. MapSlab = KernelEnd + CacheSize + SlabSize
  <2>1. CacheSize + SlabSize \in Nat /\ KernelEnd \in Nat
      BY <1>1, <1>3
  <2> QED BY <1>5, <1>1, <1>3, <2>1 DEF MapSlab
<1>9. /\ MapSlab \in Nat /\ BootLen \in Nat
      /\ KernelEnd + CacheSize + SlabSize = MapSlab
      /\ MapSlab + MapSlabSize = KernelEnd + BootLen
  <2> HIDE DEF SlabSize, MapSlabSize
  <2> QED BY <1>1, <1>3, <1>4, <1>7, <1>8
<1>10. metadata_cache = KernelEnd /\ memory_map_cache = KernelEnd + CacheSize
    BY DEF metadata_cache, memory_map_cache
<1>11. KernelEnd # 0 /\ KernelEnd + CacheSize # KernelEnd /\ KernelEnd + CacheSize \in Nat
    BY <1>1
<1> QED
    BY <1>1, <1>2, <1>3, <1>4, <1>6, <1>9, <1>10, <1>11 DEF NULL

\* The first of some places is the least of them.
LEMMA FirstIn ==
    ASSUME NEW S \in SUBSET Nat, S # {}
    PROVE  First(S) \in S /\ \A j \in S : First(S) <= j
<1>1. PICK x \in S : \A y \in S : ~(<<y, x>> \in OpToRel(<, Nat))
    BY NatLessThanWellFounded, WFMin, Zenon
<1>2. OpToRel(<, Nat) = {ss \in Nat \X Nat : ss[1] < ss[2]}
    BY DEF OpToRel
<1>3. \A y \in S : <<y, x>> \in Nat \X Nat /\ <<y, x>>[1] = y /\ <<y, x>>[2] = x
    OBVIOUS
<1>4. \A y \in S : ~(y < x)
    BY <1>1, <1>2, <1>3
<1>5. \A y \in S : x <= y
    BY <1>4
<1> QED BY <1>5 DEF First

\* t is the list s of elements of S with a new one before the i-th.
InsertedAt(t, S, s, i, new) ==
    /\ t \in Seq(S) /\ Len(t) = Len(s) + 1 /\ DOMAIN t = 1..(Len(s) + 1)
    /\ \A k \in 1..(i - 1) : t[k] = s[k]
    /\ t[i] = new
    /\ \A k \in i..Len(s) : t[k + 1] = s[k]

\* list_insert puts one element in and keeps the others in order.
LEMMA Inserted ==
    ASSUME NEW S, NEW s \in Seq(S), NEW i \in 1..(Len(s) + 1), NEW new \in S
    PROVE  InsertedAt(InsertBefore(s, i, new), S, s, i, new)
<1> DEFINE t == InsertBefore(s, i, new)
<1>1. t \in [1..(Len(s) + 1) -> S]
    BY DEF InsertBefore
<1>2. t \in Seq(S) /\ Len(t) = Len(s) + 1 /\ DOMAIN t = 1..(Len(s) + 1)
    BY <1>1
<1>3. \A k \in 1..(Len(s) + 1) :
         t[k] = IF k < i THEN s[k] ELSE IF k = i THEN new ELSE s[k - 1]
    BY DEF InsertBefore
<1> HIDE DEF t
<1>4. \A k \in 1..(i - 1) : t[k] = s[k]
    BY <1>3
<1>5. t[i] = new
    BY <1>3
<1>6. ASSUME NEW k \in i..Len(s) PROVE t[k + 1] = s[k]
  <2>1. k + 1 \in 1..(Len(s) + 1) /\ ~(k + 1 < i) /\ k + 1 # i /\ (k + 1) - 1 = k
      OBVIOUS
  <2> QED BY <2>1, <1>3
<1>7. InsertedAt(t, S, s, i, new)
    BY <1>2, <1>4, <1>5, <1>6 DEF InsertedAt
<1> QED BY <1>7 DEF t

PrependedTo(t, S, s, new) ==
    /\ t \in Seq(S) /\ DOMAIN t = 1..(Len(s) + 1) /\ t[1] = new
    /\ \A k \in DOMAIN s : t[k + 1] = s[k]
    /\ \A k \in 2..(Len(s) + 1) : k - 1 \in DOMAIN s /\ t[k] = s[k - 1]

\* The same, in front of the list.
LEMMA Prepended ==
    ASSUME NEW S, NEW s \in Seq(S), NEW new \in S
    PROVE  PrependedTo(InsertBefore(s, 1, new), S, s, new)
<1> DEFINE t == InsertBefore(s, 1, new)
<1>1. 1 \in 1..(Len(s) + 1) /\ Len(s) \in Nat
    OBVIOUS
<1>2. InsertedAt(t, S, s, 1, new)
    BY <1>1, Inserted
<1> HIDE DEF t
<1>3. /\ t \in Seq(S) /\ DOMAIN t = 1..(Len(s) + 1) /\ t[1] = new
      /\ \A k \in 1..Len(s) : t[k + 1] = s[k]
    BY <1>2 DEF InsertedAt
<1>4. ASSUME NEW k \in 2..(Len(s) + 1)
      PROVE  k - 1 \in DOMAIN s /\ t[k] = s[k - 1]
  <2>1. k - 1 \in 1..Len(s) /\ (k - 1) + 1 = k
      BY <1>1
  <2> QED BY <2>1, <1>3
<1>5. PrependedTo(t, S, s, new)
    BY <1>3, <1>4 DEF PrependedTo
<1> QED BY <1>5 DEF t

-----------------------------------------------------------------------------
(* The stack.                                                              *)

\* The frames below the innermost one are those of before.
Below == \A i \in 1..(Len(stack) - 1) : stack'[i] = stack[i]

\* A call leaves the frames below alone, the caller at its new pc.
LEMMA CallEffect ==
    ASSUME stack \in Seq(Frame), stack # <<>>, NEW f \in Frame, NEW pc,
           [top EXCEPT !.pc = pc] \in Frame, Call(f, pc)
    PROVE  /\ stack' \in Seq(Frame) /\ Len(stack') = Len(stack) + 1 /\ stack' # <<>>
           /\ stack'[Len(stack) + 1] = f /\ top' = f
           /\ stack'[Len(stack)] = [top EXCEPT !.pc = pc]
           /\ Below
           /\ UNCHANGED <<ret, status>>
<1> DEFINE g == [top EXCEPT !.pc = pc]
           s == [stack EXCEPT ![Len(stack)] = g]
<1>1. Len(stack) \in Nat \ {0} /\ DOMAIN stack = 1..Len(stack)
    OBVIOUS
<1>2. s \in Seq(Frame) /\ Len(s) = Len(stack)
    BY <1>1
<1>3. stack' = Append(s, f)
    BY DEF Call, top
<1>4. /\ s[Len(stack)] = g
      /\ \A i \in 1..(Len(stack) - 1) : s[i] = stack[i]
    BY <1>1
<1> HIDE DEF s, g
<1>5. /\ stack' \in Seq(Frame) /\ Len(stack') = Len(stack) + 1
      /\ stack'[Len(stack) + 1] = f
      /\ \A i \in 1..Len(stack) : stack'[i] = s[i]
    BY <1>1, <1>2, <1>3
<1>6. stack' # <<>> /\ top' = f
    BY <1>1, <1>5 DEF top
<1>7. stack'[Len(stack)] = g /\ Below
    BY <1>1, <1>4, <1>5 DEF Below
<1>8. UNCHANGED <<ret, status>>
    BY DEF Call
<1> QED BY <1>5, <1>6, <1>7, <1>8 DEF g

\* A tail call replaces the innermost frame.
LEMMA TailCallEffect ==
    ASSUME stack \in Seq(Frame), stack # <<>>, NEW f \in Frame, TailCall(f)
    PROVE  /\ stack' \in Seq(Frame) /\ Len(stack') = Len(stack) /\ stack' # <<>>
           /\ stack'[Len(stack)] = f /\ top' = f
           /\ Below
           /\ UNCHANGED <<ret, status>>
BY DEF TailCall, top, Below

\* A return takes the innermost frame off.
LEMMA ReturnEffect ==
    ASSUME stack \in Seq(Frame), stack # <<>>, NEW value, Return(value)
    PROVE  /\ stack' \in Seq(Frame) /\ Len(stack') = Len(stack) - 1
           /\ Below
           /\ ret' = value /\ UNCHANGED status
           /\ Len(stack) > 1 => stack' # <<>> /\ top' = stack[Len(stack) - 1]
<1>1. Len(stack) \in Nat \ {0}
    OBVIOUS
<1>2. stack' = SubSeq(stack, 1, Len(stack) - 1) /\ ret' = value /\ UNCHANGED status
    BY DEF Return
<1>3. /\ stack' \in Seq(Frame) /\ Len(stack') = Len(stack) - 1
      /\ \A i \in 1..(Len(stack) - 1) : stack'[i] = stack[i]
  <2> DEFINE n == Len(stack) - 1
             s == SubSeq(stack, 1, n)
  <2>1. n \in Int /\ 1 \in Int /\ \A i \in 1..n : stack[i] \in Frame
      BY <1>1
  <2>2. s \in Seq(Frame) /\ (Len(s) = IF 1 <= n THEN n - 1 + 1 ELSE 0)
        /\ \A i \in 1..(n - 1 + 1) : s[i] = stack[1 + i - 1]
    <3> HIDE DEF n
    <3> QED BY <2>1, SubSeqProperties
  <2>3. stack' = s
      BY <1>2
  <2> HIDE DEF s
  <2> QED BY <1>1, <2>2, <2>3
<1>4. Len(stack) > 1 => stack' # <<>> /\ top' = stack[Len(stack) - 1]
    BY <1>1, <1>3 DEF top
<1> QED BY <1>2, <1>3, <1>4 DEF Below

\* What kind of frame it is decides its fields.
LEMMA FrameKinds ==
    ASSUME NEW f \in Frame
    PROVE  /\ f.fn = "__cache_alloc" => f \in AllocFrame
           /\ f.fn = "cache_extend" => f \in ExtendFrame
           /\ f.fn = "cache_new" => f \in NewFrame
           /\ f.fn = "__memory_reserve_ex" => f \in ReserveFrame
           /\ f.fn = "memory_split" => f \in SplitFrame
           /\ f.fn = "caller" => f \in CallerFrame
           /\ f.fn \in {"__cache_alloc", "cache_extend", "cache_new", "__memory_reserve_ex",
                        "memory_split", "caller"}
BY DEF Frame, AllocFrame, ExtendFrame, NewFrame, ReserveFrame, SplitFrame,
       CallerFrame

\* A frame that goes on somewhere else is the same frame.
Same(f, g) ==
    /\ g.fn = f.fn
    /\ f.fn = "__cache_alloc" => g.cache = f.cache /\ g.ext = f.ext
    /\ f.fn = "cache_extend" => /\ g.old = f.old /\ g.p = f.p /\ g.size = f.size
                                /\ g.bsize = f.bsize /\ g.ext = f.ext
    /\ f.fn = "cache_new" => g.p = f.p /\ g.size = f.size
    /\ f.fn = "__memory_reserve_ex" =>
         g.base = f.base /\ g.size = f.size /\ g.ext = f.ext
    /\ f.fn = "memory_split" => g.m = f.m /\ g.size = f.size
    /\ f.fn = "caller" => g.arg = f.arg /\ g.pc = f.pc

Places(fn) ==
    CASE fn = "__cache_alloc" -> {"try", "metadata_reserved", "reserve", "reserved"}
      [] fn \in {"cache_extend", "cache_new", "memory_split"} -> {"start", "got"}
      [] fn = "__memory_reserve_ex" -> {"start", "map_reserved", "scan", "front_split"}
      [] OTHER -> {}

\* A frame at another pc of its function is a frame like it.
LEMMA GoesOn ==
    ASSUME NEW f \in Frame, NEW pc \in Places(f.fn)
    PROVE  /\ [f EXCEPT !.pc = pc] \in Frame
           /\ Same(f, [f EXCEPT !.pc = pc])
           /\ [f EXCEPT !.pc = pc].pc = pc
<1>1. CASE f.fn = "__cache_alloc"
    BY <1>1, FrameKinds DEF Places, Frame, AllocFrame, Same
<1>2. CASE f.fn = "cache_extend"
    BY <1>2, FrameKinds DEF Places, Frame, ExtendFrame, Same
<1>3. CASE f.fn = "cache_new"
    BY <1>3, FrameKinds DEF Places, Frame, NewFrame, Same
<1>4. CASE f.fn = "__memory_reserve_ex"
    BY <1>4, FrameKinds DEF Places, Frame, ReserveFrame, Same
<1>5. CASE f.fn = "memory_split"
    BY <1>5, FrameKinds DEF Places, Frame, SplitFrame, Same
<1>6. CASE f.fn = "caller"
    BY <1>6 DEF Places
<1> QED BY <1>1, <1>2, <1>3, <1>4, <1>5, <1>6, FrameKinds

\* What is said of a frame, and of it as a callee, does not depend on its pc.
LEMMA SameIsAsGood ==
    ASSUME NEW f \in Frame, NEW g \in Frame, Same(f, g)
    PROVE  /\ FrameOK(f) => FrameOK(g)
           /\ HoldsRange(g) = HoldsRange(f)
           /\ HoldsRange(f) => g.p = f.p /\ g.size = f.size
           /\ \A h : Calls(f, h) => Calls(g, h)
<1>1. FrameOK(f) => FrameOK(g)
    BY DEF Same, FrameOK, Splittable
<1>2. HoldsRange(g) = HoldsRange(f) /\ (HoldsRange(f) => g.p = f.p /\ g.size = f.size)
    BY DEF Same, HoldsRange
<1>3. ASSUME NEW h, Calls(f, h)
      PROVE  Calls(g, h)
    BY <1>3 DEF Same, Calls, Delivers
<1> QED BY <1>1, <1>2, <1>3

\* No cache goes, nor changes its size.
CachesStay ==
    /\ DOMAIN cache \subseteq DOMAIN cache'
    /\ \A c \in DOMAIN cache : cache'[c].size = cache[c].size
    /\ caches \subseteq caches'

\* A frame stays well formed while the caches stay; a split, while its
\* region does.
LEMMA FrameStays ==
    ASSUME CachesStay, NEW f \in GoodFrames, f.fn = "memory_split" => Splittable(f)'
    PROVE  f \in GoodFrames'
BY DEF FrameOK, CachesStay, GoodFrames

\* A region stays fit for its split while no region changes.
LEMMA SplittableStays ==
    ASSUME UNCHANGED regions, NEW f, Splittable(f)
    PROVE  Splittable(f)'
BY DEF Splittable

\* A caller and its callee go on fitting together while the caches stay.
LEMMA CallsStays ==
    ASSUME CachesStay, NEW f, NEW g \in GoodFrames, <<f, g>> \in Links
    PROVE  <<f, g>> \in Links'
<1>1. f \in Frame /\ g \in Frame /\ Calls(f, g) /\ FrameOK(g)
    BY DEF Links, GoodFrames
<1>2. Calls(f, g)'
  <2>1. CASE g.fn = "__cache_alloc"
    <3>1. cache'[g.cache].size = cache[g.cache].size
        BY <1>1, <2>1 DEF FrameOK, CachesStay
    <3> QED BY <1>1, <2>1, <3>1 DEF Calls, Delivers
  <2>2. CASE g.fn = "caller"
    <3>1. CASE g.pc = "alloc"
      <4>1. f.fn # "caller" /\ g.pc # "start"
          BY <1>1 DEF Calls
      <4>2. f.fn = "__cache_alloc" /\ f.cache = g.arg /\ g.arg \in caches'
          BY <1>1, <2>2, <3>1 DEF Calls, CachesStay
      <4> QED BY <4>1, <4>2, <2>2, <3>1 DEF Calls
    <3>2. CASE g.pc # "alloc"
        BY <1>1, <2>2, <3>2 DEF Calls, Delivers
    <3> QED BY <3>1, <3>2
  <2>3. CASE g.fn \notin {"__cache_alloc", "caller"}
      BY <1>1, <2>3 DEF Calls, Delivers
  <2> QED BY <2>1, <2>2, <2>3
<1> QED BY <1>1, <1>2 DEF Links

\* The ways the stack changes keep it well formed.
LEMMA StackPushed ==
    ASSUME StackOK, stack # <<>>, CachesStay, UNCHANGED regions,
           NEW f \in GoodFrames, NEW pc \in Places(top.fn), Call(f, pc),
           Calls(f, [top EXCEPT !.pc = pc])
    PROVE  StackOK'
<1> DEFINE n == Len(stack)
           g == [top EXCEPT !.pc = pc]
<1>0. f \in Frame
    BY DEF GoodFrames
<1>1. n \in Nat \ {0} /\ DOMAIN stack = 1..n /\ stack \in Seq(Frame) /\ top \in Frame
      /\ top = stack[n] /\ top \in GoodFrames
    BY DEF StackOK, top
<1>2. g \in Frame /\ Same(top, g)
    BY <1>1, GoesOn
<1>3. /\ stack' \in Seq(Frame) /\ Len(stack') = n + 1 /\ DOMAIN stack' = 1..(n + 1)
      /\ stack'[n + 1] = f /\ stack'[n] = g /\ \A i \in 1..(n - 1) : stack'[i] = stack[i]
    BY <1>0, <1>1, <1>2, CallEffect DEF Below
<1>4. g \in GoodFrames /\ \A h : <<top, h>> \in Links => <<g, h>> \in Links
    BY <1>1, <1>2, SameIsAsGood DEF GoodFrames, Links
<1>5. <<f, g>> \in Links
    BY <1>0, <1>2 DEF Links
<1>6. \A h \in GoodFrames : h \in GoodFrames'
    BY FrameStays, SplittableStays DEF GoodFrames, FrameOK
<1> HIDE DEF g, n
<1>7. \A i \in DOMAIN stack' : stack'[i] \in GoodFrames
    BY <1>1, <1>3, <1>4 DEF StackOK
<1>8. \A i \in DOMAIN stack' : i + 1 \in DOMAIN stack' => <<stack'[i + 1], stack'[i]>> \in Links
  <2> SUFFICES ASSUME NEW i \in 1..n PROVE <<stack'[i + 1], stack'[i]>> \in Links
      BY <1>3, <1>1
  <2>1. CASE i = n
      BY <2>1, <1>3, <1>5
  <2>2. CASE i \in 1..(n - 1)
    <3>1. <<stack[i + 1], stack[i]>> \in Links
        BY <2>2, <1>1 DEF StackOK
    <3>2. CASE i = n - 1
        BY <3>1, <3>2, <2>2, <1>1, <1>3, <1>4
    <3>3. CASE i # n - 1
      <4>1. i + 1 \in 1..(n - 1)
          BY <3>3, <2>2, <1>1
      <4> QED BY <4>1, <3>1, <2>2, <1>3
    <3> QED BY <3>2, <3>3
  <2> QED BY <2>1, <2>2, <1>1
<1>9. stack'[1].fn = "caller"
  <2>1. CASE n = 1
      BY <2>1, <1>1, <1>2, <1>3 DEF StackOK, Same
  <2>2. CASE n > 1
      BY <2>2, <1>1, <1>3 DEF StackOK
  <2> QED BY <2>1, <2>2, <1>1
<1>10. \A i \in DOMAIN stack' : i + 1 \in DOMAIN stack' => <<stack'[i + 1], stack'[i]>> \in Links'
    BY <1>7, <1>8, CallsStays
<1> QED BY <1>3, <1>6, <1>7, <1>9, <1>10 DEF StackOK

\* A tail call keeps the stack in order, if what waited for the old frame
\* may wait for the new one.
LEMMA StackReplaced ==
    ASSUME StackOK, stack # <<>>, top.fn # "caller", CachesStay, UNCHANGED regions,
           NEW f \in GoodFrames, TailCall(f),
           \A h : <<top, h>> \in Links => <<f, h>> \in Links
    PROVE  StackOK'
<1> DEFINE n == Len(stack)
<1>0. f \in Frame
    BY DEF GoodFrames
<1>1. n \in Nat \ {0} /\ DOMAIN stack = 1..n /\ stack \in Seq(Frame)
      /\ top = stack[n] /\ n # 1
    BY DEF StackOK, top
<1>3. /\ stack' \in Seq(Frame) /\ Len(stack') = n /\ DOMAIN stack' = 1..n
      /\ stack'[n] = f /\ \A i \in 1..(n - 1) : stack'[i] = stack[i]
    BY <1>0, <1>1, TailCallEffect DEF Below
<1>6. \A h \in GoodFrames : h \in GoodFrames'
    BY FrameStays, SplittableStays DEF GoodFrames, FrameOK
<1> HIDE DEF n
<1>7. \A i \in DOMAIN stack' : stack'[i] \in GoodFrames
    BY <1>1, <1>3 DEF StackOK
<1>8. \A i \in DOMAIN stack' : i + 1 \in DOMAIN stack' => <<stack'[i + 1], stack'[i]>> \in Links
  <2> SUFFICES ASSUME NEW i \in 1..(n - 1) PROVE <<stack'[i + 1], stack'[i]>> \in Links
      BY <1>3, <1>1
  <2>1. <<stack[i + 1], stack[i]>> \in Links
      BY <1>1 DEF StackOK
  <2>2. CASE i = n - 1
      BY <2>1, <2>2, <1>1, <1>3
  <2>3. CASE i # n - 1
    <3>1. i + 1 \in 1..(n - 1)
        BY <2>3, <1>1
    <3> QED BY <2>1, <3>1, <1>3
  <2> QED BY <2>2, <2>3
<1>9. stack'[1].fn = "caller"
    BY <1>1, <1>3 DEF StackOK
<1>10. \A i \in DOMAIN stack' : i + 1 \in DOMAIN stack' => <<stack'[i + 1], stack'[i]>> \in Links'
    BY <1>7, <1>8, CallsStays
<1> QED BY <1>3, <1>6, <1>7, <1>9, <1>10 DEF StackOK

\* A return keeps the stack in order, if the regions of the splits in
\* progress stay fit for them.
LEMMA StackPopped ==
    ASSUME StackOK, stack # <<>>, CachesStay, NEW value, Return(value),
           \A f \in GoodFrames :
              f.fn = "memory_split" /\ (\E i \in 1..(Len(stack) - 1) : stack[i] = f)
                 => Splittable(f)'
    PROVE  StackOK'
<1> DEFINE n == Len(stack)
<1>1. n \in Nat \ {0} /\ DOMAIN stack = 1..n /\ stack \in Seq(Frame)
    BY DEF StackOK
<1>2. stack' \in Seq(Frame) /\ Len(stack') = n - 1 /\ Below
    BY <1>1, ReturnEffect
<1>3. /\ stack' \in Seq(Frame) /\ Len(stack') = n - 1 /\ DOMAIN stack' = 1..(n - 1)
      /\ \A i \in 1..(n - 1) : stack'[i] = stack[i]
    BY <1>1, <1>2 DEF Below
<1>7. \A i \in DOMAIN stack' : stack'[i] \in GoodFrames /\ stack'[i] \in GoodFrames'
  <2> SUFFICES ASSUME NEW i \in 1..(n - 1)
               PROVE  stack[i] \in GoodFrames /\ stack[i] \in GoodFrames'
      BY <1>3
  <2>1. stack[i] \in GoodFrames
      BY <1>1 DEF StackOK
  <2> QED BY <2>1, <1>1, FrameStays
<1> HIDE DEF n
<1>8. \A i \in DOMAIN stack' : i + 1 \in DOMAIN stack' => <<stack'[i + 1], stack'[i]>> \in Links
    BY <1>1, <1>3 DEF StackOK
<1>9. stack' # <<>> => stack'[1].fn = "caller"
    BY <1>1, <1>3 DEF StackOK
<1>10. \A i \in DOMAIN stack' : i + 1 \in DOMAIN stack' => <<stack'[i + 1], stack'[i]>> \in Links'
    BY <1>7, <1>8, CallsStays
<1> QED BY <1>3, <1>7, <1>9, <1>10 DEF StackOK

-----------------------------------------------------------------------------
(* Who holds which range.                                                  *)

\* Every held range is a slab's, a grant or a call's.
LEMMA HeldBy ==
    /\ \A c \in Grown : <<"slab", c, cache[c].base, cache[c].size>> \in Held
    /\ \A g \in grants : <<"grant", 0, g.base, g.size>> \in Held
    /\ \A i \in DOMAIN stack : HoldsRange(stack[i]) =>
          <<"frame", i, stack[i].p, stack[i].size>> \in Held
BY DEF Held

\* A step that takes no range and gives none of those that stay held back.
LEMMA OwnedKept ==
    ASSUME Owned, Held' \subseteq Held,
           \A h \in Held' : <<h[3], h[4]>> \in Ranges => <<h[3], h[4]>> \in Ranges'
    PROVE  Owned'
<1>1. \A h \in Held' : <<h[3], h[4]>> \in Ranges' /\ h[3] \notin {NULL, metadata_cache}
    BY DEF Owned
<1>2. \A h, k \in Held' : h[3] = k[3] => h = k
    BY DEF Owned
<1>3. metadata_cache' = metadata_cache
    BY DEF metadata_cache
<1> QED BY <1>1, <1>2, <1>3 DEF Owned

\* A step that takes a range nobody held.
LEMMA OwnedTaken ==
    ASSUME Owned, NEW h, <<h[3], h[4]>> \in Unheld,
           Held' \subseteq Held \cup {h}, Ranges' = Ranges
    PROVE  Owned'
<1>1. \A k \in Held' : <<k[3], k[4]>> \in Ranges' /\ k[3] \notin {NULL, metadata_cache}
    BY DEF Owned, Unheld
<1>2. \A j, k \in Held' : j[3] = k[3] => j = k
    BY DEF Owned, Unheld
<1>3. metadata_cache' = metadata_cache
    BY DEF metadata_cache
<1> QED BY <1>1, <1>2, <1>3 DEF Owned

\* A step that hands a range on.
LEMMA OwnedMoved ==
    ASSUME Owned, NEW h \in Held, NEW k, k[3] = h[3], k[4] = h[4],
           Held' \subseteq (Held \ {h}) \cup {k}, Ranges' = Ranges
    PROVE  Owned'
<1>1. \A j \in Held' : <<j[3], j[4]>> \in Ranges' /\ j[3] \notin {NULL, metadata_cache}
    BY DEF Owned
<1>2. \A i, j \in Held' : i[3] = j[3] => i = j
    BY DEF Owned
<1>3. metadata_cache' = metadata_cache
    BY DEF metadata_cache
<1> QED BY <1>1, <1>2, <1>3 DEF Owned

\* The frames that hold ranges are among those of before.
FramesKept ==
    \A i \in DOMAIN stack' : HoldsRange(stack'[i]) =>
        /\ i \in DOMAIN stack /\ HoldsRange(stack[i])
        /\ stack'[i].p = stack[i].p /\ stack'[i].size = stack[i].size
SlabsKept ==
    /\ DOMAIN cache' = DOMAIN cache
    /\ \A c \in DOMAIN cache : /\ cache'[c].base = cache[c].base
                               /\ cache'[c].size = cache[c].size

\* No range more is held if no slab, no grant and no frame is new.
LEMMA HeldKept ==
    ASSUME FramesKept, SlabsKept, grants' \subseteq grants
    PROVE  Held' \subseteq Held
<1> SUFFICES ASSUME NEW h \in Held' PROVE h \in Held
    OBVIOUS
<1>1. CASE \E c \in Grown' : h = <<"slab", c, cache'[c].base, cache'[c].size>>
  <2>1. PICK c \in Grown' : h = <<"slab", c, cache'[c].base, cache'[c].size>>
      BY <1>1
  <2>2. c \in Grown /\ cache'[c].base = cache[c].base /\ cache'[c].size = cache[c].size
      BY DEF Grown, SlabsKept, metadata_cache, memory_map_cache
  <2> QED BY <2>1, <2>2, HeldBy
<1>2. CASE \E g \in grants' : h = <<"grant", 0, g.base, g.size>>
    BY <1>2, HeldBy
<1>3. CASE \E i \in DOMAIN stack' : /\ HoldsRange(stack'[i])
                                    /\ h = <<"frame", i, stack'[i].p, stack'[i].size>>
    BY <1>3, HeldBy DEF FramesKept
<1> QED BY <1>1, <1>2, <1>3 DEF Held

\* A call of a function that holds no range makes no new holder.
LEMMA FramesOnCall ==
    ASSUME stack \in Seq(Frame), stack # <<>>, NEW f \in Frame,
           NEW pc \in Places(top.fn), Call(f, pc), ~HoldsRange(f)
    PROVE  FramesKept
<1> DEFINE n == Len(stack)
           g == [top EXCEPT !.pc = pc]
<1>1. n \in Nat \ {0} /\ DOMAIN stack = 1..n /\ top \in Frame /\ top = stack[n]
    BY DEF top
<1>2. g \in Frame /\ Same(top, g)
    BY <1>1, GoesOn
<1>3. /\ stack' \in Seq(Frame) /\ Len(stack') = n + 1 /\ DOMAIN stack' = 1..(n + 1)
      /\ stack'[n + 1] = f /\ stack'[n] = g /\ \A i \in 1..(n - 1) : stack'[i] = stack[i]
    BY <1>1, <1>2, CallEffect DEF Below
<1>4. HoldsRange(g) = HoldsRange(top) /\ (HoldsRange(top) => g.p = top.p /\ g.size = top.size)
    BY <1>1, <1>2, SameIsAsGood
<1> HIDE DEF n, g
<1> SUFFICES ASSUME NEW i \in 1..(n + 1), HoldsRange(stack'[i])
             PROVE  /\ i \in 1..n /\ HoldsRange(stack[i])
                    /\ stack'[i].p = stack[i].p /\ stack'[i].size = stack[i].size
    BY <1>1, <1>3 DEF FramesKept
<1>5. i # n + 1
    BY <1>3
<1>6. CASE i = n
    BY <1>1, <1>3, <1>4, <1>6
<1>7. CASE i \in 1..(n - 1)
    BY <1>1, <1>3, <1>7
<1> QED BY <1>1, <1>5, <1>6, <1>7

\* Nor does a tail call of one.
LEMMA FramesOnTailCall ==
    ASSUME stack \in Seq(Frame), stack # <<>>, NEW f \in Frame, TailCall(f), ~HoldsRange(f)
    PROVE  FramesKept
<1> DEFINE n == Len(stack)
<1>1. n \in Nat \ {0} /\ DOMAIN stack = 1..n
    OBVIOUS
<1>2. /\ stack' \in Seq(Frame) /\ Len(stack') = n /\ DOMAIN stack' = 1..n
      /\ stack'[n] = f /\ \A i \in 1..(n - 1) : stack'[i] = stack[i]
    BY <1>1, TailCallEffect DEF Below
<1> HIDE DEF n
<1> SUFFICES ASSUME NEW i \in 1..n, HoldsRange(stack'[i])
             PROVE  /\ HoldsRange(stack[i])
                    /\ stack'[i].p = stack[i].p /\ stack'[i].size = stack[i].size
    BY <1>1, <1>2 DEF FramesKept
<1>3. i \in 1..(n - 1)
    BY <1>1, <1>2
<1> QED BY <1>2, <1>3

\* Nor does a return.
LEMMA FramesOnReturn ==
    ASSUME stack \in Seq(Frame), stack # <<>>, NEW value, Return(value)
    PROVE  FramesKept /\ Len(stack) \notin DOMAIN stack'
<1>1. stack' \in Seq(Frame) /\ Len(stack') = Len(stack) - 1 /\ Below
    BY ReturnEffect
<1>2. Len(stack) \in Nat \ {0} /\ DOMAIN stack = 1..Len(stack)
      /\ DOMAIN stack' = 1..(Len(stack) - 1)
    BY <1>1
<1> QED BY <1>1, <1>2 DEF FramesKept, Below

-----------------------------------------------------------------------------
(* Regions and slabs.                                                      *)

LEMMA SameBase ==
    ASSUME Sorted, NEW i \in DOMAIN regions, NEW j \in DOMAIN regions,
           regions[i].base = regions[j].base
    PROVE  i = j
<1>1. regions[i] \in Region /\ regions[j] \in Region /\ i \in Nat /\ j \in Nat
    BY DEF Sorted
<1>2. /\ i < j => End(regions[i]) <= regions[j].base
      /\ j < i => End(regions[j]) <= regions[i].base
    BY DEF Sorted
<1> QED BY <1>1, <1>2 DEF End, Region

\* Two reserved regions have no byte in common.
LEMMA RangesApart ==
    ASSUME Sorted, NEW r \in Ranges, NEW s \in Ranges, r[1] # s[1]
    PROVE  /\ {r[1], r[2], s[1], s[2]} \subseteq Nat /\ r[2] > 0 /\ s[2] > 0
           /\ r[1] + r[2] <= s[1] \/ s[1] + s[2] <= r[1]
<1>1. PICK i \in DOMAIN regions : regions[i].base = r[1] /\ regions[i].size = r[2]
    BY DEF Ranges
<1>2. PICK j \in DOMAIN regions : regions[j].base = s[1] /\ regions[j].size = s[2]
    BY DEF Ranges
<1>3. regions[i] \in Region /\ regions[j] \in Region /\ i \in Nat /\ j \in Nat /\ i # j
    BY <1>1, <1>2 DEF Sorted
<1>4. i < j => End(regions[i]) <= regions[j].base
    BY DEF Sorted
<1>5. j < i => End(regions[j]) <= regions[i].base
    BY DEF Sorted
<1> QED BY <1>1, <1>2, <1>3, <1>4, <1>5 DEF End, Region

BootRange == <<metadata_cache, BootLen>> \in Ranges

\* The slabs of two caches have no byte in common.
LEMMA SlabsApart ==
    ASSUME Sorted, CachesOK, Owned, Grown = {} \/ BootRange,
           NEW c \in DOMAIN cache, NEW d \in DOMAIN cache, c # d
    PROVE  \/ cache[c].base + cache[c].size <= cache[d].base
           \/ cache[d].base + cache[d].size <= cache[c].base
<1>1. CASE c \in Grown /\ d \in Grown
  <2> DEFINE h == <<"slab", c, cache[c].base, cache[c].size>>
             k == <<"slab", d, cache[d].base, cache[d].size>>
  <2>1. h \in Held /\ k \in Held /\ h # k
      BY <1>1, HeldBy
  <2>2. /\ <<h[3], h[4]>> \in Ranges /\ <<k[3], k[4]>> \in Ranges /\ h[3] # k[3]
      BY <2>1 DEF Owned
  <2>3. <<cache[c].base, cache[c].size>> \in Ranges /\ <<cache[d].base, cache[d].size>> \in Ranges
        /\ cache[c].base # cache[d].base
      BY <2>2
  <2> QED BY <2>3, RangesApart
<1>2. ASSUME NEW a \in Grown, NEW b \in {metadata_cache, memory_map_cache}
      PROVE  \/ cache[a].base + cache[a].size <= cache[b].base
             \/ cache[b].base + cache[b].size <= cache[a].base
  <2> DEFINE h == <<"slab", a, cache[a].base, cache[a].size>>
  <2>1. h \in Held
      BY HeldBy
  <2>2. <<h[3], h[4]>> \in Ranges /\ h[3] # metadata_cache
      BY <2>1 DEF Owned
  <2>3. <<cache[a].base, cache[a].size>> \in Ranges /\ cache[a].base # metadata_cache
      BY <2>2
  <2>4. BootRange
      BY <1>2
  <2>5. /\ {cache[a].base, cache[a].size, metadata_cache, BootLen} \subseteq Nat
        /\ \/ cache[a].base + cache[a].size <= metadata_cache
           \/ metadata_cache + BootLen <= cache[a].base
      BY <2>3, <2>4, RangesApart DEF BootRange
  <2>8. /\ {CacheSize, SlabSize, MapSlab, MapSlabSize} \subseteq Nat
        /\ metadata_cache + CacheSize + SlabSize = MapSlab
        /\ MapSlab + MapSlabSize = metadata_cache + BootLen
      BY Constants
  <2>6. CASE b = metadata_cache
    <3>1. cache[b].base = metadata_cache + CacheSize /\ cache[b].size = SlabSize
        BY <2>6 DEF CachesOK
    <3> QED BY <2>5, <2>8, <3>1
  <2>7. CASE b = memory_map_cache
    <3>1. cache[b].base = MapSlab /\ cache[b].size = MapSlabSize
        BY <2>7 DEF CachesOK
    <3> QED BY <2>5, <2>8, <3>1
  <2> QED BY <2>6, <2>7
<1>3. CASE c \notin Grown /\ d \notin Grown
  <2>1. cache[metadata_cache].base + cache[metadata_cache].size <= cache[memory_map_cache].base
      BY Constants DEF CachesOK
  <2> QED BY <1>3, <2>1 DEF Grown
<1> QED BY <1>1, <1>2, <1>3 DEF Grown

\* A block lies in one slab only.
LEMMA OneSlab ==
    ASSUME Sorted, CachesOK, Owned, Grown = {} \/ BootRange,
           NEW c \in DOMAIN cache, NEW d \in DOMAIN cache, NEW b \in Nat,
           cache[c].base <= b, b < cache[c].base + cache[c].size,
           cache[d].base <= b, b < cache[d].base + cache[d].size
    PROVE  c = d
<1>1. {cache[c].base, cache[c].size, cache[d].base, cache[d].size} \subseteq Nat
    BY DEF CachesOK, CacheRec
<1> QED BY <1>1, SlabsApart

\* A block's first byte lies in its slab.
LEMMA InSlabIn ==
    ASSUME CachesOK, NEW c \in DOMAIN cache, NEW b \in Nat, InSlab(b, c)
    PROVE  cache[c].base <= b /\ b < cache[c].base + cache[c].size
<1>1. cache[c] \in CacheRec
    BY DEF CachesOK
<1> QED BY <1>1 DEF InSlab, CacheRec

-----------------------------------------------------------------------------
(* The slab caches.                                                        *)

\* The slabs of a cache: its own first, then those it was extended by.
Listed(c) ==
    /\ SlabsOf(c) \in Seq(DOMAIN cache)
    /\ DOMAIN SlabsOf(c) = 1..(Len(cache[c].slabs) + 1)
    /\ SlabsOf(c)[1] = c
    /\ \A i \in DOMAIN cache[c].slabs : SlabsOf(c)[i + 1] = cache[c].slabs[i]
    /\ Len(cache[c].slabs) \in Nat
    /\ DOMAIN cache[c].slabs = 1..Len(cache[c].slabs)
    /\ NonEmpty(c) \in SUBSET Nat

AllListed == \A c \in DOMAIN cache : Listed(c)

\* The list a cache is walked along is well formed.
LEMMA SlabsListed == CachesOK => AllListed
<1> SUFFICES ASSUME CachesOK, NEW c \in DOMAIN cache PROVE Listed(c)
    BY DEF AllListed
<1>1. cache[c] \in CacheRec /\ \A i \in DOMAIN cache[c].slabs : cache[c].slabs[i] \in DOMAIN cache
    BY DEF CachesOK
<1>2. cache[c].slabs \in Seq(DOMAIN cache)
    BY <1>1 DEF CacheRec
<1> DEFINE s == cache[c].slabs
<1>3. 1 \in 1..(Len(s) + 1) /\ s \in Seq(DOMAIN cache)
    BY <1>2
<1> HIDE DEF s
<1>4. /\ SlabsOf(c) \in Seq(DOMAIN cache)
      /\ DOMAIN SlabsOf(c) = 1..(Len(s) + 1)
      /\ SlabsOf(c)[1] = c
      /\ \A k \in DOMAIN s : SlabsOf(c)[k + 1] = s[k]
  <2> DEFINE S == DOMAIN cache
  <2>1. SlabsOf(c) = InsertBefore(s, 1, c)
      BY DEF SlabsOf, s
  <2>2. c \in S /\ s \in Seq(S)
      BY <1>3
  <2> HIDE DEF S
  <2>3. PrependedTo(SlabsOf(c), S, s, c)
      BY <2>1, <2>2, Prepended
  <2> QED BY <2>3 DEF S, PrependedTo
<1>5. NonEmpty(c) \subseteq DOMAIN SlabsOf(c)
    BY DEF NonEmpty
<1> QED BY <1>2, <1>3, <1>4, <1>5 DEF s, Listed

\* The slab __cache_alloc finds has a block to give.
LEMMA SlabFound ==
    ASSUME CachesOK, NEW c \in DOMAIN cache, NonEmpty(c) # {}
    PROVE  /\ First(NonEmpty(c)) \in DOMAIN SlabsOf(c)
           /\ SlabsOf(c)[First(NonEmpty(c))] \in DOMAIN cache
           /\ cache[SlabsOf(c)[First(NonEmpty(c))]].free # <<>>
<1>1. First(NonEmpty(c)) \in NonEmpty(c)
    BY SlabsListed, FirstIn DEF AllListed, Listed
<1> QED BY <1>1, SlabsListed DEF AllListed, Listed, NonEmpty

\* A cache with no free block is running out: __cache_alloc never finds
\* metadata_cache empty without having noticed.
LEMMA NoneLeft ==
    ASSUME NEW c, NonEmpty(c) = {}
    PROVE  RunningOut(c)
<1>1. \A i \in DOMAIN SlabsOf(c) : freelist_size(cache[SlabsOf(c)[i]]) = 0
    BY DEF NonEmpty, freelist_size
<1>2. \A i \in DOMAIN SlabsOf(c) : 1..freelist_size(cache[SlabsOf(c)[i]]) = {}
    BY <1>1
<1>3. Counted(c) = {}
    BY <1>2 DEF Counted
<1> QED BY <1>3, FS_EmptySet DEF RunningOut, cache_remaining

\* While memory_init runs no cache is extended.
LEMMA StructsLeft ==
    ASSUME CachesOK, cache[memory_map_cache].slabs = <<>>, Structs(1)
    PROVE  /\ NonEmpty(memory_map_cache) = {1} /\ First({1}) = 1
           /\ SlabsOf(memory_map_cache)[1] = memory_map_cache
           /\ Structs(2) => ~RunningOut(memory_map_cache)
<1> DEFINE c == memory_map_cache
           n == freelist_size(cache[c])
<1>1. c \in DOMAIN cache /\ cache[c] \in CacheRec
    BY DEF CachesOK
<1>2. DOMAIN SlabsOf(c) = {1} /\ SlabsOf(c)[1] = c
  <2>1. Len(cache[c].slabs) = 0
      OBVIOUS
  <2>2. DOMAIN SlabsOf(c) = 1..(Len(cache[c].slabs) + 1) /\ SlabsOf(c)[1] = c
      BY <1>1, SlabsListed DEF AllListed, Listed
  <2> QED BY <2>1, <2>2
<1>3. cache[c].free \in Seq(Nat) /\ Len(cache[c].free) >= 1
    BY <1>1 DEF Structs, CacheRec
<1>4. NonEmpty(c) = {1}
    BY <1>2, <1>3 DEF NonEmpty
<1>5. n = Len(cache[c].free) + 1
    BY <1>3 DEF freelist_size
<1>6. First({1}) = 1
    BY FirstIn
<1>7. ASSUME Structs(2)
      PROVE  ~RunningOut(c)
  <2>1. n \in Nat /\ n > 2
      BY <1>3, <1>5, <1>7 DEF Structs
  <2> HIDE DEF n
  <2>2. IsFiniteSet(1..n) /\ Cardinality(1..n) = n
      BY <2>1, FS_Interval
  <2>3. IsFiniteSet({1}) /\ Cardinality({1}) = 1
      BY FS_Singleton
  <2>4. Cardinality({1} \X (1..n)) = 1 * n
      BY <2>2, <2>3, FS_Product
  <2>5. Counted(c) = {1} \X (1..n)
      BY <1>2 DEF Counted, n
  <2> QED BY <2>1, <2>4, <2>5 DEF RunningOut, cache_remaining
<1> QED BY <1>2, <1>4, <1>6, <1>7

\* What cache_alloc and cache_free change is one freelist.
Changed(s, list) == cache' = [cache EXCEPT ![s].free = list]

\* A step that changes one freelist keeps the slabs where they are.
LEMMA FreelistChanged ==
    ASSUME CachesOK, NEW s \in DOMAIN cache, NEW list \in Seq(Nat), Changed(s, list)
    PROVE  /\ CachesOK' /\ SlabsKept
           /\ cache'[s].free = list
           /\ \A c \in DOMAIN cache \ {s} : cache'[c].free = cache[c].free
           /\ \A b, c : c \in DOMAIN cache => InSlab(b, c)' = InSlab(b, c)
           /\ \A c \in DOMAIN cache : SlabsOf(c)' = SlabsOf(c)
<1>1. /\ DOMAIN cache' = DOMAIN cache
      /\ \A c \in DOMAIN cache \ {s} : cache'[c] = cache[c]
      /\ cache'[s] = [cache[s] EXCEPT !.free = list]
    BY DEF Changed
<1>2. \A c \in DOMAIN cache : cache[c] \in CacheRec
    BY DEF CachesOK
<1>3. /\ cache'[s] \in CacheRec /\ cache'[s].free = list
      /\ cache'[s].base = cache[s].base /\ cache'[s].size = cache[s].size
      /\ cache'[s].bsize = cache[s].bsize /\ cache'[s].slabs = cache[s].slabs
    BY <1>1, <1>2 DEF CacheRec
<1>4. \A c \in DOMAIN cache :
          /\ cache'[c] \in CacheRec
          /\ cache'[c].base = cache[c].base /\ cache'[c].size = cache[c].size
          /\ cache'[c].bsize = cache[c].bsize /\ cache'[c].slabs = cache[c].slabs
    BY <1>1, <1>2, <1>3
<1>5. cache' \in [DOMAIN cache' -> CacheRec]
    BY <1>1, <1>4 DEF Changed
<1>6. CachesOK'
    BY <1>1, <1>4, <1>5 DEF CachesOK, metadata_cache, memory_map_cache, MapSlab
<1>7. SlabsKept
    BY <1>1, <1>4 DEF SlabsKept
<1>8. \A b, c : c \in DOMAIN cache => InSlab(b, c)' = InSlab(b, c)
    BY <1>4 DEF InSlab
<1>9. \A c \in DOMAIN cache : SlabsOf(c)' = SlabsOf(c)
    BY <1>4 DEF SlabsOf
<1> QED BY <1>1, <1>3, <1>6, <1>7, <1>8, <1>9

\* The freelists stay well formed if the new one is.
LEMMA FreelistReplaced ==
    ASSUME FreeBlocks, SlabsKept, NEW s \in DOMAIN cache, NEW list, BlocksOf(list, s),
           cache'[s].free = list,
           \A c \in DOMAIN cache \ {s} : cache'[c].free = cache[c].free,
           \A b, c : c \in DOMAIN cache => InSlab(b, c)' = InSlab(b, c)
    PROVE  FreeBlocks'
<1>1. ASSUME NEW c \in DOMAIN cache, NEW l, BlocksOf(l, c)
      PROVE  BlocksOf(l, c)'
    BY <1>1 DEF BlocksOf
<1> SUFFICES ASSUME NEW c \in DOMAIN cache PROVE BlocksOf(cache[c].free, c)'
    BY DEF FreeBlocks, SlabsKept
<1>2. CASE c = s
    BY <1>1, <1>2
<1>3. CASE c # s
  <2>1. BlocksOf(cache[c].free, c)
      BY DEF FreeBlocks
  <2> QED BY <1>1, <1>3, <2>1
<1> QED BY <1>2, <1>3

\* The slabs' bytes stay the same while bases and sizes do.
LEMMA BlocksStay ==
    ASSUME CachesOK, SlabsKept, \A b, c : c \in DOMAIN cache => InSlab(b, c)' = InSlab(b, c),
           \A c \in DOMAIN cache : SlabsOf(c)' = SlabsOf(c)
    PROVE  InSlabs' = InSlabs /\ \A c \in DOMAIN cache : InCache(c)' = InCache(c)
<1>1. InSlabs' = InSlabs
    BY DEF InSlabs, SlabsKept
<1>2. ASSUME NEW c \in DOMAIN cache PROVE InCache(c)' = InCache(c)
  <2>1. \A i \in DOMAIN SlabsOf(c) : SlabsOf(c)[i] \in DOMAIN cache
      BY SlabsListed DEF AllListed, Listed
  <2> QED BY <2>1 DEF InCache
<1> QED BY <1>1, <1>2

\* metadata_cache itself is in no slab.
LEMMA NotInSlab ==
    ASSUME Sorted, CachesOK, Owned, Grown = {} \/ BootRange,
           NEW c \in DOMAIN cache, NEW b \in Nat, InSlab(b, c)
    PROVE  b # metadata_cache
<1>1. /\ cache[c].base <= b /\ b < cache[c].base + cache[c].size
      /\ cache[c].base \in Nat /\ cache[c].size \in Nat \ {0}
    BY InSlabIn DEF CachesOK, CacheRec
<1>2. /\ {CacheSize, SlabSize, MapSlabSize} \subseteq Nat \ {0}
      /\ {metadata_cache, MapSlab, BootLen} \subseteq Nat
      /\ metadata_cache + CacheSize + SlabSize = MapSlab
      /\ MapSlab + MapSlabSize = metadata_cache + BootLen
    BY Constants
<1>3. CASE c \in Grown
  <2> DEFINE h == <<"slab", c, cache[c].base, cache[c].size>>
  <2>1. h \in Held
      BY <1>3, HeldBy
  <2>2. <<h[3], h[4]>> \in Ranges /\ h[3] # metadata_cache
      BY <2>1 DEF Owned
  <2>3. <<cache[c].base, cache[c].size>> \in Ranges /\ cache[c].base # metadata_cache
      BY <2>2
  <2>4. BootRange
      BY <1>3
  <2>5. \/ cache[c].base + cache[c].size <= metadata_cache
        \/ metadata_cache + BootLen <= cache[c].base
      BY <2>3, <2>4, RangesApart DEF BootRange
  <2> QED BY <1>1, <1>2, <2>5
<1>4. CASE c = metadata_cache
  <2>1. cache[c].base = metadata_cache + CacheSize
      BY <1>4 DEF CachesOK
  <2> QED BY <1>1, <1>2, <2>1
<1>5. CASE c = memory_map_cache
  <2>1. cache[c].base = MapSlab
      BY <1>5 DEF CachesOK
  <2> QED BY <1>1, <1>2, <2>1
<1> QED BY <1>3, <1>4, <1>5 DEF Grown

\* __cache_alloc: a free block becomes fresh.
LEMMA BlockTaken ==
    ASSUME Sorted, CachesOK, FreeBlocks, BusyBlocks, Owned, Grown = {} \/ BootRange,
           NEW c \in DOMAIN cache, NEW s \in DOMAIN cache,
           \E i \in DOMAIN SlabsOf(c) : s = SlabsOf(c)[i],
           cache[s].free # <<>>,
           cache' = [cache EXCEPT ![s].free = Tail(@)], UNCHANGED <<regions, objects>>
    PROVE  /\ CachesOK' /\ SlabsKept /\ FreeBlocks' /\ BusyBlocks'
           /\ Head(cache[s].free) \in Nat
           /\ Head(cache[s].free) \in Fresh' /\ Head(cache[s].free) \in InCache(c)'
<1> DEFINE list == Tail(cache[s].free)
           b == Head(cache[s].free)
<1>1. cache[s].free \in Seq(Nat)
    BY DEF CachesOK, CacheRec
<1>2. /\ list \in Seq(Nat) /\ DOMAIN list = 1..(Len(cache[s].free) - 1)
      /\ \A k \in DOMAIN list : list[k] = cache[s].free[k + 1]
      /\ b = cache[s].free[1] /\ b \in Nat /\ 1 \in DOMAIN cache[s].free
      /\ \A k \in DOMAIN list : k + 1 \in DOMAIN cache[s].free /\ k \in Nat \ {0}
    BY <1>1
<1>3. Changed(s, list)
    BY DEF Changed
<1> HIDE DEF list, b
<1>4. /\ CachesOK' /\ SlabsKept
      /\ cache'[s].free = list
      /\ \A d \in DOMAIN cache \ {s} : cache'[d].free = cache[d].free
      /\ \A x, d : d \in DOMAIN cache => InSlab(x, d)' = InSlab(x, d)
      /\ \A d \in DOMAIN cache : SlabsOf(d)' = SlabsOf(d)
    BY <1>2, <1>3, FreelistChanged
<1>5. InSlabs' = InSlabs /\ \A d \in DOMAIN cache : InCache(d)' = InCache(d)
    BY <1>4, BlocksStay
<1>6. DOMAIN cache' = DOMAIN cache
    BY <1>4 DEF SlabsKept
<1>7. FreeBlocks'
  <2>1. BlocksOf(list, s)
    <3>1. \A k \in DOMAIN list : InSlab(list[k], s)
        BY <1>2 DEF FreeBlocks, BlocksOf
    <3>2. ASSUME NEW k \in DOMAIN list, NEW l \in DOMAIN list, list[k] = list[l]
          PROVE  k = l
      <4>1. k + 1 \in DOMAIN cache[s].free /\ l + 1 \in DOMAIN cache[s].free
            /\ cache[s].free[k + 1] = cache[s].free[l + 1] /\ k \in Nat /\ l \in Nat
          BY <3>2, <1>2
      <4>2. k + 1 = l + 1
          BY <4>1 DEF FreeBlocks, BlocksOf
      <4> QED BY <4>1, <4>2
    <3> QED BY <3>1, <3>2 DEF BlocksOf
  <2> QED BY <2>1, <1>4, FreelistReplaced
<1>8. InSlab(b, s)
    BY <1>2 DEF FreeBlocks, BlocksOf
<1>9. Freelists' \subseteq Freelists \ {b}
  <2> SUFFICES ASSUME NEW x \in Freelists' PROVE x \in Freelists /\ x # b
      OBVIOUS
  <2>1. PICK d \in DOMAIN cache : \E k \in DOMAIN cache'[d].free : cache'[d].free[k] = x
      BY <1>6 DEF Freelists
  <2>2. PICK k \in DOMAIN cache'[d].free : cache'[d].free[k] = x
      BY <2>1
  <2>3. x \in Nat
      BY DEF Freelists
  <2>4. CASE d # s
    <3>1. k \in DOMAIN cache[d].free /\ cache[d].free[k] = x
        BY <2>2, <2>4, <1>4
    <3>2. InSlab(x, d)
        BY <3>1 DEF FreeBlocks, BlocksOf
    <3>3. x # b
      <4> SUFFICES ASSUME x = b PROVE FALSE
          OBVIOUS
      <4>1. /\ cache[d].base <= b /\ b < cache[d].base + cache[d].size
            /\ cache[s].base <= b /\ b < cache[s].base + cache[s].size
          BY <1>2, <1>8, <3>2, InSlabIn
      <4> QED BY <4>1, <2>4, <1>2, OneSlab
    <3> QED BY <2>3, <3>1, <3>3 DEF Freelists
  <2>5. CASE d = s
    <3>1. k \in DOMAIN list /\ list[k] = x
        BY <2>2, <2>5, <1>4
    <3>2. k + 1 \in DOMAIN cache[s].free /\ cache[s].free[k + 1] = x /\ k + 1 # 1
        BY <3>1, <1>2
    <3>3. x # b
        BY <3>2, <1>2 DEF FreeBlocks, BlocksOf
    <3> QED BY <2>3, <3>2, <3>3 DEF Freelists
  <2> QED BY <2>4, <2>5
<1>10. b \in Freelists /\ b \in InSlabs
    BY <1>2, <1>8 DEF Freelists, InSlabs
<1>11. Busy \subseteq Busy' /\ b \in Busy' /\ b \notin Busy
    BY <1>5, <1>9, <1>10 DEF Busy
<1>12. BusyBlocks'
  <2>1. /\ OfRegions' = OfRegions /\ OfObjects' = OfObjects /\ metadata_cache' = metadata_cache
        /\ objects' = objects
      BY DEF OfRegions, OfObjects, metadata_cache
  <2>2. /\ OfRegions' \subseteq Busy' \ DOMAIN cache'
        /\ DOMAIN cache' \ {metadata_cache'} \subseteq Busy'
        /\ OfObjects' \subseteq Busy' \ (DOMAIN cache' \cup OfRegions')
        /\ \A o, p \in objects' : o.at = p.at => o = p
      BY <2>1, <1>6, <1>11 DEF BusyBlocks
  <2>3. \A o \in objects' : o.cache \in DOMAIN cache' /\ o.at \in InCache(o.cache)'
    <3> SUFFICES ASSUME NEW o \in objects
                 PROVE  o.cache \in DOMAIN cache' /\ o.at \in InCache(o.cache)'
        BY <2>1
    <3>1. o.cache \in DOMAIN cache /\ o.at \in InCache(o.cache)
        BY DEF BusyBlocks
    <3> QED BY <3>1, <1>5, <1>6
  <2> QED BY <2>2, <2>3 DEF BusyBlocks
<1>13. b \in Fresh'
  <2>1. b # metadata_cache
      BY <1>2, <1>8, NotInSlab
  <2>2. b \notin DOMAIN cache /\ b \notin OfRegions /\ b \notin OfObjects
      BY <2>1, <1>11 DEF BusyBlocks
  <2>3. OfRegions' = OfRegions /\ OfObjects' = OfObjects
      BY DEF OfRegions, OfObjects
  <2> QED BY <2>2, <2>3, <1>6, <1>11 DEF Fresh
<1>14. b \in InCache(c)'
  <2>1. b \in InCache(c)
      BY <1>2, <1>8 DEF InCache
  <2> QED BY <2>1, <1>5
<1> QED BY <1>2, <1>4, <1>7, <1>12, <1>13, <1>14 DEF b

\* cache_free: an object of the client becomes a free block of its slab.
LEMMA BlockGiven ==
    ASSUME Sorted, CachesOK, FreeBlocks, BusyBlocks, Owned, Grown = {} \/ BootRange,
           NEW o \in objects, o.at \in Nat, cache_free(o.cache, o.at),
           objects' = objects \ {o}, UNCHANGED regions
    PROVE  CachesOK' /\ SlabsKept /\ FreeBlocks' /\ BusyBlocks'
<1> DEFINE c == o.cache
           p == o.at
           holding == {i \in DOMAIN SlabsOf(c) : Holds(SlabsOf(c)[i], p)}
           s == SlabsOf(c)[First(holding)]
           list == InsertBefore(cache[s].free, 1, p)
<1>1. c \in DOMAIN cache /\ p \in InCache(c) /\ p \in Nat /\ p \in OfObjects
      /\ p \in Busy /\ p \notin DOMAIN cache /\ p \notin OfRegions
    BY DEF BusyBlocks, OfObjects
<1>2. PICK i \in DOMAIN SlabsOf(c) : InSlab(p, SlabsOf(c)[i])
    BY <1>1 DEF InCache
<1>3. /\ SlabsOf(c)[i] \in DOMAIN cache /\ DOMAIN SlabsOf(c) \subseteq Nat
      /\ SlabsOf(c) \in Seq(DOMAIN cache)
    BY <1>1, SlabsListed DEF AllListed, Listed
<1>4. i \in holding /\ holding \in SUBSET Nat
    BY <1>1, <1>2, <1>3, InSlabIn DEF Holds
<1>5. First(holding) \in holding
    BY <1>4, FirstIn
<1>6. s \in DOMAIN cache /\ Holds(s, p)
    BY <1>3, <1>5
<1>7. s = SlabsOf(c)[i]
  <2>1. /\ cache[s].base <= p /\ p < cache[s].base + cache[s].size
      BY <1>6 DEF Holds
  <2>2. cache[SlabsOf(c)[i]].base <= p
        /\ p < cache[SlabsOf(c)[i]].base + cache[SlabsOf(c)[i]].size
      BY <1>1, <1>2, <1>3, InSlabIn
  <2> HIDE DEF s
  <2> QED BY <2>1, <2>2, <1>1, <1>3, <1>6, OneSlab
<1>8. InSlab(p, s)
    BY <1>2, <1>7
<1>9. Changed(s, list)
  <2>1. cache' = [cache EXCEPT ![s].free = InsertBefore(@, 1, p)]
      BY DEF cache_free
  <2> HIDE DEF s
  <2> QED BY <2>1 DEF Changed
<1>10. cache[s].free \in Seq(Nat)
  <2> HIDE DEF s
  <2> QED BY <1>6 DEF CachesOK, CacheRec
<1> HIDE DEF s, holding
<1>12. /\ list \in Seq(Nat) /\ list[1] = p /\ 1 \in DOMAIN list
       /\ \A k \in DOMAIN list \ {1} :
             /\ k \in Nat /\ k - 1 \in DOMAIN cache[s].free
             /\ list[k] = cache[s].free[k - 1]
  <2> DEFINE f == cache[s].free
  <2>1. f \in Seq(Nat) /\ p \in Nat /\ list = InsertBefore(f, 1, p)
      BY <1>1, <1>10
  <2> HIDE DEF f, p, list
  <2>2. PrependedTo(list, Nat, f, p)
      BY <2>1, Prepended
  <2>3. /\ list \in Seq(Nat) /\ DOMAIN list = 1..(Len(f) + 1) /\ list[1] = p
        /\ \A k \in 2..(Len(f) + 1) : k - 1 \in DOMAIN f /\ list[k] = f[k - 1]
      BY <2>2 DEF PrependedTo
  <2>4. 1 \in 1..(Len(f) + 1) /\ \A k \in 1..(Len(f) + 1) : k # 1 => k \in 2..(Len(f) + 1)
      BY <2>1
  <2> QED BY <2>3, <2>4 DEF f
<1> HIDE DEF list
<1>13. /\ CachesOK' /\ SlabsKept
       /\ cache'[s].free = list
       /\ \A d \in DOMAIN cache \ {s} : cache'[d].free = cache[d].free
       /\ \A x, d : d \in DOMAIN cache => InSlab(x, d)' = InSlab(x, d)
       /\ \A d \in DOMAIN cache : SlabsOf(d)' = SlabsOf(d)
    BY <1>6, <1>9, <1>12, FreelistChanged
<1>14. InSlabs' = InSlabs /\ \A d \in DOMAIN cache : InCache(d)' = InCache(d)
    BY <1>13, BlocksStay
<1>15. DOMAIN cache' = DOMAIN cache
    BY <1>13 DEF SlabsKept
<1>16. p \notin Freelists
    BY <1>1 DEF Busy
<1>17. FreeBlocks'
  <2>1. BlocksOf(list, s)
    <3>1. \A k \in DOMAIN list : InSlab(list[k], s)
        BY <1>6, <1>8, <1>12 DEF FreeBlocks, BlocksOf
    <3>2. \A k \in DOMAIN cache[s].free : cache[s].free[k] # p
        BY <1>1, <1>6, <1>16 DEF Freelists
    <3>3. ASSUME NEW k \in DOMAIN list, NEW l \in DOMAIN list, list[k] = list[l]
          PROVE  k = l
      <4>1. CASE k = 1 \/ l = 1
          BY <4>1, <3>2, <3>3, <1>12
      <4>2. CASE k # 1 /\ l # 1
        <5>1. /\ k - 1 \in DOMAIN cache[s].free /\ l - 1 \in DOMAIN cache[s].free
              /\ cache[s].free[k - 1] = cache[s].free[l - 1] /\ k \in Nat /\ l \in Nat
            BY <4>2, <3>3, <1>12
        <5>2. k - 1 = l - 1
            BY <5>1, <1>6 DEF FreeBlocks, BlocksOf
        <5> QED BY <5>1, <5>2
      <4> QED BY <4>1, <4>2
    <3> QED BY <3>1, <3>3 DEF BlocksOf
  <2> QED BY <2>1, <1>6, <1>13, FreelistReplaced
<1>18. Freelists' \subseteq Freelists \cup {p}
  <2> SUFFICES ASSUME NEW x \in Freelists', x # p PROVE x \in Freelists
      OBVIOUS
  <2>1. x \in Nat /\ \E d \in DOMAIN cache : \E k \in DOMAIN cache'[d].free :
                        cache'[d].free[k] = x
      BY <1>15 DEF Freelists
  <2>2. PICK d \in DOMAIN cache : \E k \in DOMAIN cache'[d].free : cache'[d].free[k] = x
      BY <2>1
  <2>3. PICK k \in DOMAIN cache'[d].free : cache'[d].free[k] = x
      BY <2>2
  <2>4. CASE d # s
      BY <2>1, <2>3, <2>4, <1>13 DEF Freelists
  <2>5. CASE d = s
    <3>1. k \in DOMAIN list /\ list[k] = x
        BY <2>3, <2>5, <1>13
    <3>2. k - 1 \in DOMAIN cache[s].free /\ cache[s].free[k - 1] = x
        BY <3>1, <1>12
    <3> QED BY <2>1, <3>2, <1>6 DEF Freelists
  <2> QED BY <2>4, <2>5
<1>19. Busy \ {p} \subseteq Busy'
    BY <1>14, <1>18 DEF Busy
<1>20. /\ OfRegions' = OfRegions /\ metadata_cache' = metadata_cache
       /\ OfObjects' \subseteq OfObjects \ {p}
    BY DEF OfRegions, OfObjects, metadata_cache, BusyBlocks
<1>21. BusyBlocks'
  <2>1. /\ OfRegions' \subseteq Busy' \ DOMAIN cache'
        /\ DOMAIN cache' \ {metadata_cache'} \subseteq Busy'
        /\ OfObjects' \subseteq Busy' \ (DOMAIN cache' \cup OfRegions')
        /\ \A q, r \in objects' : q.at = r.at => q = r
      BY <1>1, <1>15, <1>19, <1>20 DEF BusyBlocks
  <2>2. \A q \in objects' : q.cache \in DOMAIN cache' /\ q.at \in InCache(q.cache)'
    <3> SUFFICES ASSUME NEW q \in objects
                 PROVE  q.cache \in DOMAIN cache' /\ q.at \in InCache(q.cache)'
        OBVIOUS
    <3>1. q.cache \in DOMAIN cache /\ q.at \in InCache(q.cache)
        BY DEF BusyBlocks
    <3> QED BY <3>1, <1>14, <1>15
  <2> QED BY <2>1, <2>2 DEF BusyBlocks
<1> QED BY <1>13, <1>17, <1>21

\* The blocks cache_initialize makes lie in the slab, and are different.
LEMMA SlabBlocks ==
    ASSUME NEW p \in Nat, NEW size \in Nat, NEW bsize \in Nat \ {0},
           NEW i \in 1..(size \div bsize), NEW j \in 1..(size \div bsize)
    PROVE  /\ p + (i - 1) * bsize \in Nat
           /\ p <= p + (i - 1) * bsize
           /\ p + (i - 1) * bsize + bsize <= p + size
           /\ p + (i - 1) * bsize < p + size
           /\ p + (i - 1) * bsize = p + (j - 1) * bsize => i = j
<1> DEFINE q == size \div bsize
           a == (i - 1) * bsize
           b == (j - 1) * bsize
<1>1. q \in Nat /\ q * bsize <= size
    OBVIOUS
<1>2. i \in Nat /\ j \in Nat /\ i <= q /\ j <= q /\ i >= 1 /\ j >= 1
    BY <1>1
<1>3. a \in Nat /\ b \in Nat
  <2>1. i - 1 \in Nat /\ j - 1 \in Nat
      BY <1>2
  <2> QED BY <2>1
<1>4. a + bsize = i * bsize
    BY <1>2
<1>5. i * bsize <= q * bsize
    BY <1>1, <1>2
<1>6. a + bsize <= size
  <2> DEFINE x == i * bsize
             y == q * bsize
  <2>1. x \in Nat /\ y \in Nat
      BY <1>1, <1>2
  <2> HIDE DEF x, y, q, a
  <2> QED BY <1>1, <1>3, <1>4, <1>5, <2>1 DEF x, y
<1>7. a = b => i = j
  <2>1. CASE i < j
    <3>1. PICK d \in Nat : d >= 1 /\ j = i + d
      <4>1. j - i \in Nat /\ j - i >= 1 /\ j = i + (j - i)
          BY <2>1, <1>2
      <4> QED BY <4>1
    <3>2. b = a + d * bsize /\ d * bsize >= bsize
        BY <3>1, <1>2
    <3>3. d * bsize \in Nat
        BY <3>1
    <3> HIDE DEF a, b
    <3> QED BY <3>2, <3>3, <1>3
  <2>2. CASE j < i
    <3>1. PICK d \in Nat : d >= 1 /\ i = j + d
      <4>1. i - j \in Nat /\ i - j >= 1 /\ i = j + (i - j)
          BY <2>2, <1>2
      <4> QED BY <4>1
    <3>2. a = b + d * bsize /\ d * bsize >= bsize
        BY <3>1, <1>2
    <3>3. d * bsize \in Nat
        BY <3>1
    <3> HIDE DEF a, b
    <3> QED BY <3>2, <3>3, <1>3
  <2> QED BY <2>1, <2>2, <1>2
<1> HIDE DEF a, b
<1>8. /\ p + a \in Nat /\ p <= p + a /\ p + a + bsize <= p + size /\ p + a < p + size
      /\ p + a = p + b => i = j
    BY <1>3, <1>6, <1>7
<1> QED BY <1>8 DEF a, b

\* A range nobody has made a slab of has no byte in common with a slab.
LEMMA ApartFromSlabs ==
    ASSUME Sorted, CachesOK, Owned, BootRange, NEW r \in Ranges, r[1] # metadata_cache,
           \A d \in Grown : cache[d].base # r[1],
           NEW c \in DOMAIN cache
    PROVE  \/ cache[c].base + cache[c].size <= r[1]
           \/ r[1] + r[2] <= cache[c].base
<1>1. CASE c \in Grown
  <2> DEFINE h == <<"slab", c, cache[c].base, cache[c].size>>
  <2>1. h \in Held
      BY <1>1, HeldBy
  <2>2. <<h[3], h[4]>> \in Ranges
      BY <2>1 DEF Owned
  <2>3. <<cache[c].base, cache[c].size>> \in Ranges /\ cache[c].base # r[1]
      BY <2>2, <1>1
  <2> QED BY <2>3, RangesApart
<1>2. CASE c \notin Grown
  <2>1. /\ {r[1], r[2], metadata_cache, BootLen} \subseteq Nat
        /\ \/ r[1] + r[2] <= metadata_cache
           \/ metadata_cache + BootLen <= r[1]
      BY RangesApart DEF BootRange
  <2>2. /\ {CacheSize, SlabSize, MapSlab, MapSlabSize} \subseteq Nat
        /\ metadata_cache + CacheSize + SlabSize = MapSlab
        /\ MapSlab + MapSlabSize = metadata_cache + BootLen
      BY Constants
  <2>3. CASE c = metadata_cache
    <3>1. cache[c].base = metadata_cache + CacheSize /\ cache[c].size = SlabSize
        BY <2>3 DEF CachesOK
    <3> QED BY <2>1, <2>2, <3>1
  <2>4. CASE c = memory_map_cache
    <3>1. cache[c].base = MapSlab /\ cache[c].size = MapSlabSize
        BY <2>4 DEF CachesOK
    <3> QED BY <2>1, <2>2, <3>1
  <2> QED BY <1>2, <2>3, <2>4 DEF Grown
<1> QED BY <1>1, <1>2

\* cache' has a cache r more, on the slab of the given range; a cache may have
\* got more slabs.
Added(r, p, size, bsize) ==
    /\ DOMAIN cache' = DOMAIN cache \cup {r}
    /\ cache' \in [DOMAIN cache' -> CacheRec]
    /\ cache'[r] = Slab(p, size, bsize)
    /\ \A c \in DOMAIN cache :
          /\ cache'[c].base = cache[c].base /\ cache'[c].size = cache[c].size
          /\ cache'[c].bsize = cache[c].bsize /\ cache'[c].free = cache[c].free
          /\ \A i \in DOMAIN cache'[c].slabs : cache'[c].slabs[i] \in DOMAIN cache'
          /\ \A i \in DOMAIN cache[c].slabs : /\ i \in DOMAIN cache'[c].slabs
                                              /\ cache'[c].slabs[i] = cache[c].slabs[i]

\* A new slab on a range nobody held gives well-formed caches, and no block
\* of it is in use.
LEMMA SlabAdded ==
    ASSUME Sorted, CachesOK, FreeBlocks, BusyBlocks, Owned, BootRange,
           NEW r \in Fresh, NEW p \in Nat, NEW size \in Nat \ {0}, NEW bsize \in Nat \ {0},
           <<p, size>> \in Ranges, p # metadata_cache, \A d \in Grown : cache[d].base # p,
           Added(r, p, size, bsize), UNCHANGED <<regions, objects>>
    PROVE  CachesOK' /\ FreeBlocks' /\ BusyBlocks'
<1> DEFINE list == [i \in 1..(size \div bsize) |-> p + (i - 1) * bsize]
<1>1. /\ cache'[r].base = p /\ cache'[r].size = size /\ cache'[r].bsize = bsize
      /\ cache'[r].free = list /\ cache'[r].slabs = <<>>
    BY DEF Added, Slab
<1>2. r \notin DOMAIN cache /\ r \in Nat /\ r \in Busy
      /\ r \notin OfRegions /\ r \notin OfObjects
    BY DEF Fresh, Busy, InSlabs
<1>3. /\ DOMAIN cache' = DOMAIN cache \cup {r}
      /\ \A c \in DOMAIN cache :
            /\ cache'[c].base = cache[c].base /\ cache'[c].size = cache[c].size
            /\ cache'[c].bsize = cache[c].bsize /\ cache'[c].free = cache[c].free
    BY DEF Added
<1>4. \A i \in DOMAIN list : /\ list[i] \in Nat /\ p <= list[i] /\ list[i] + bsize <= p + size
                             /\ list[i] < p + size
    BY SlabBlocks
<1>5. ASSUME NEW i \in DOMAIN list, NEW j \in DOMAIN list, list[i] = list[j]
      PROVE  i = j
  <2>1. i \in 1..(size \div bsize) /\ j \in 1..(size \div bsize)
      OBVIOUS
  <2>2. list[i] = p + (i - 1) * bsize /\ list[j] = p + (j - 1) * bsize
      BY <2>1
  <2>3. p + (i - 1) * bsize = p + (j - 1) * bsize
      BY <2>2, <1>5
  <2> HIDE DEF list
  <2>4. p + (i - 1) * bsize = p + (j - 1) * bsize => i = j
      BY <2>1, SlabBlocks
  <2> QED BY <2>3, <2>4
<1> HIDE DEF list
<1>6. CachesOK'
  <2>1. cache' \in [DOMAIN cache' -> CacheRec]
      BY DEF Added
  <2>2. DOMAIN cache' \subseteq Nat /\ {metadata_cache, memory_map_cache} \subseteq DOMAIN cache'
      BY <1>2, <1>3 DEF CachesOK
  <2>3. \A c \in DOMAIN cache' : \A i \in DOMAIN cache'[c].slabs :
            cache'[c].slabs[i] \in DOMAIN cache'
      BY <1>1, <1>3 DEF Added
  <2>4. {metadata_cache, memory_map_cache} \subseteq DOMAIN cache
      BY DEF CachesOK
  <2>5. /\ cache'[metadata_cache].base = metadata_cache + CacheSize
        /\ cache'[metadata_cache].size = SlabSize
        /\ cache'[metadata_cache].bsize = CacheSize
        /\ cache'[memory_map_cache].base = MapSlab
        /\ cache'[memory_map_cache].size = MapSlabSize
      BY <1>3, <2>4 DEF CachesOK
  <2> QED BY <2>1, <2>2, <2>3, <2>5
             DEF CachesOK, metadata_cache, memory_map_cache, MapSlab
<1>7. \A b, c : c \in DOMAIN cache => InSlab(b, c)' = InSlab(b, c)
    BY <1>3 DEF InSlab
<1>8. FreeBlocks'
  <2> SUFFICES ASSUME NEW c \in DOMAIN cache' PROVE BlocksOf(cache[c].free, c)'
      BY DEF FreeBlocks
  <2>1. CASE c \in DOMAIN cache
    <3>1. BlocksOf(cache[c].free, c)
        BY <2>1 DEF FreeBlocks
    <3>2. cache'[c].free = cache[c].free
        BY <1>3, <2>1
    <3> QED BY <3>1, <3>2, <1>7, <2>1 DEF BlocksOf
  <2>2. CASE c = r
    <3>1. \A k \in DOMAIN cache'[c].free : InSlab(cache[c].free[k], c)'
        BY <2>2, <1>1, <1>4 DEF InSlab
    <3>2. \A k, l \in DOMAIN cache'[c].free : cache'[c].free[k] = cache'[c].free[l] => k = l
        BY <2>2, <1>1, <1>5
    <3> QED BY <3>1, <3>2 DEF BlocksOf
  <2> QED BY <1>3, <2>1, <2>2
<1>9. InSlabs \subseteq InSlabs'
    BY <1>3, <1>7 DEF InSlabs
<1>10. Freelists' \subseteq Freelists \cup {list[k] : k \in DOMAIN list}
  <2> SUFFICES ASSUME NEW x \in Freelists', x \notin {list[k] : k \in DOMAIN list}
               PROVE  x \in Freelists
      OBVIOUS
  <2>1. x \in Nat /\ \E c \in DOMAIN cache' : \E k \in DOMAIN cache'[c].free : cache'[c].free[k] = x
      BY DEF Freelists
  <2>2. PICK c \in DOMAIN cache' : \E k \in DOMAIN cache'[c].free : cache'[c].free[k] = x
      BY <2>1
  <2>3. c # r
      BY <2>2, <1>1
  <2>4. c \in DOMAIN cache /\ cache'[c].free = cache[c].free
      BY <2>3, <1>3
  <2> QED BY <2>1, <2>2, <2>4 DEF Freelists
<1>11. \A k \in DOMAIN list : list[k] \notin InSlabs
  <2> SUFFICES ASSUME NEW k \in DOMAIN list, NEW c \in DOMAIN cache, InSlab(list[k], c)
               PROVE  FALSE
      BY DEF InSlabs
  <2>1. /\ cache[c].base <= list[k] /\ list[k] < cache[c].base + cache[c].size
      BY <1>4, InSlabIn
  <2>2. /\ \/ cache[c].base + cache[c].size <= p
           \/ p + size <= cache[c].base
    <3> DEFINE q == <<p, size>>
    <3>1. q \in Ranges /\ q[1] = p /\ q[2] = size
        OBVIOUS
    <3> HIDE DEF q
    <3> QED BY <3>1, ApartFromSlabs
  <2>3. cache[c].base \in Nat /\ cache[c].size \in Nat
      BY DEF CachesOK, CacheRec
  <2> QED BY <2>1, <2>2, <2>3, <1>4
<1>12. Busy \subseteq Busy'
    BY <1>9, <1>10, <1>11 DEF Busy
<1>13. \A c \in DOMAIN cache : InCache(c) \subseteq InCache(c)'
  <2> SUFFICES ASSUME NEW c \in DOMAIN cache, NEW b \in InCache(c) PROVE b \in InCache(c)'
      OBVIOUS
  <2>1. b \in Nat
      BY DEF InCache
  <2>2. PICK i \in DOMAIN SlabsOf(c) : InSlab(b, SlabsOf(c)[i])
      BY DEF InCache
  <2>3. /\ DOMAIN SlabsOf(c) = 1..(Len(cache[c].slabs) + 1) /\ SlabsOf(c)[1] = c
        /\ \A k \in DOMAIN cache[c].slabs : SlabsOf(c)[k + 1] = cache[c].slabs[k]
        /\ SlabsOf(c) \in Seq(DOMAIN cache)
        /\ Len(cache[c].slabs) \in Nat /\ DOMAIN cache[c].slabs = 1..Len(cache[c].slabs)
      BY SlabsListed DEF AllListed, Listed
  <2>4. /\ DOMAIN SlabsOf(c)' = 1..(Len(cache'[c].slabs) + 1) /\ SlabsOf(c)'[1] = c
        /\ \A k \in DOMAIN cache'[c].slabs : SlabsOf(c)'[k + 1] = cache'[c].slabs[k]
        /\ Len(cache'[c].slabs) \in Nat /\ DOMAIN cache'[c].slabs = 1..Len(cache'[c].slabs)
    <3>1. AllListed'
        BY <1>6, SlabsListed, PTL
    <3>2. Listed(c)'
        BY <1>3, <3>1 DEF AllListed
    <3> QED BY <3>2 DEF Listed
  <2>5. i \in DOMAIN SlabsOf(c)' /\ SlabsOf(c)'[i] = SlabsOf(c)[i]
    <3>1. CASE i = 1
        BY <3>1, <2>3, <2>4
    <3>2. CASE i # 1
      <4>1. i - 1 \in DOMAIN cache[c].slabs /\ i = (i - 1) + 1
          BY <3>2, <2>3
      <4>2. i - 1 \in DOMAIN cache'[c].slabs /\ cache'[c].slabs[i - 1] = cache[c].slabs[i - 1]
          BY <4>1 DEF Added
      <4> QED BY <4>1, <4>2, <2>3, <2>4
    <3> QED BY <3>1, <3>2
  <2>6. SlabsOf(c)[i] \in DOMAIN cache
      BY <2>3
  <2>7. InSlab(b, SlabsOf(c)[i])'
    <3> DEFINE d == SlabsOf(c)[i]
    <3>1. d \in DOMAIN cache /\ InSlab(b, d) /\ d = SlabsOf(c)'[i]
        BY <2>2, <2>5, <2>6
    <3> HIDE DEF d
    <3> QED BY <3>1, <1>3 DEF InSlab
  <2> QED BY <2>1, <2>5, <2>7 DEF InCache
<1>14. BusyBlocks'
  <2>1. OfRegions' = OfRegions /\ OfObjects' = OfObjects /\ metadata_cache' = metadata_cache
      BY DEF OfRegions, OfObjects, metadata_cache
  <2>2. /\ OfRegions' \subseteq Busy' \ DOMAIN cache'
        /\ DOMAIN cache' \ {metadata_cache'} \subseteq Busy'
        /\ OfObjects' \subseteq Busy' \ (DOMAIN cache' \cup OfRegions')
        /\ \A o, q \in objects' : o.at = q.at => o = q
      BY <2>1, <1>2, <1>3, <1>12 DEF BusyBlocks
  <2>3. \A o \in objects' : o.cache \in DOMAIN cache' /\ o.at \in InCache(o.cache)'
    <3> SUFFICES ASSUME NEW o \in objects
                 PROVE  o.cache \in DOMAIN cache' /\ o.at \in InCache(o.cache)'
        OBVIOUS
    <3>1. o.cache \in DOMAIN cache /\ o.at \in InCache(o.cache)
        BY DEF BusyBlocks
    <3> QED BY <3>1, <1>3, <1>13
  <2> QED BY <2>2, <2>3 DEF BusyBlocks
<1> QED BY <1>6, <1>8, <1>14

-----------------------------------------------------------------------------
(* How the list of regions changes.                                        *)

LEMMA ZoneFields ==
    ASSUME NEW z \in DOMAIN Zones
    PROVE  Zones[z].base \in Nat /\ Zones[z].size \in Nat \ {0} /\ Zones[z].type \in Nat
<1> DEFINE Zone == [base : Nat, size : Nat \ {0}, type : Nat]
<1>1. Zones \in Seq(Zone)
    BY ZonesAssumption
<1> HIDE DEF Zone
<1>2. Zones[z] \in Zone
    BY <1>1
<1> QED BY <1>2 DEF Zone

\* A region is not empty.
LEMMA RegionEnds ==
    ASSUME NEW r \in Region
    PROVE  r.base \in Nat /\ r.size \in Nat /\ End(r) \in Nat /\ r.base < End(r)
<1>1. r.base \in Nat /\ r.size \in Nat \ {0}
    BY DEF Region
<1> QED BY <1>1 DEF End

\* The types of a region's fields.
LEMMA RegionFields ==
    ASSUME Sorted, NEW i \in DOMAIN regions
    PROVE  /\ regions[i].at \in Nat /\ regions[i].base \in Nat
           /\ regions[i].size \in Nat \ {0} /\ regions[i].type \in Nat
           /\ DOMAIN regions = 1..Len(regions) /\ Len(regions) \in Nat /\ i \in Nat
<1>1. regions \in Seq(Region)
    BY DEF Sorted
<1>2. regions[i] \in Region
    BY <1>1
<1>3. DOMAIN regions = 1..Len(regions) /\ Len(regions) \in Nat /\ i \in Nat
    BY <1>1
<1> QED BY <1>2, <1>3 DEF Region

\* A region is reserved whole, or released.
LEMMA Retyped ==
    ASSUME Sorted, Gapless, NEW i \in DOMAIN regions, NEW t \in Nat,
           t = Free => Usable(regions[i]),
           regions' = [regions EXCEPT ![i].type = t]
    PROVE  /\ Sorted' /\ Gapless' /\ OfRegions' = OfRegions
           /\ DOMAIN regions' = DOMAIN regions
           /\ \A j \in DOMAIN regions : j # i => regions'[j] = regions[j]
           /\ regions'[i] = [regions[i] EXCEPT !.type = t]
           /\ \A r \in Ranges : r[1] # regions[i].base => r \in Ranges'
           /\ t = Reserved /\ Usable(regions[i]) =>
                 <<regions[i].base, regions[i].size>> \in Ranges'
           /\ t = Reserved => Ranges \subseteq Ranges'
<1>1. /\ DOMAIN regions' = DOMAIN regions
      /\ \A j \in DOMAIN regions : j # i => regions'[j] = regions[j]
      /\ regions'[i] = [regions[i] EXCEPT !.type = t]
    OBVIOUS
<1>2. \A j \in DOMAIN regions : regions[j] \in Region
    BY DEF Sorted
<1>3. /\ regions'[i] \in Region /\ regions'[i].type = t /\ regions'[i].at = regions[i].at
      /\ regions'[i].base = regions[i].base /\ regions'[i].size = regions[i].size
    BY <1>1, <1>2 DEF Region
<1>4. \A j \in DOMAIN regions :
         /\ regions'[j] \in Region /\ regions'[j].at = regions[j].at
         /\ regions'[j].base = regions[j].base /\ regions'[j].size = regions[j].size
         /\ End(regions'[j]) = End(regions[j])
         /\ Usable(regions'[j]) = Usable(regions[j])
         /\ \A z : Inside(regions'[j], z) = Inside(regions[j], z)
    BY <1>1, <1>2, <1>3 DEF End, Usable, Inside
<1>5. regions' \in Seq(Region)
  <2>1. regions \in Seq(Region)
      BY DEF Sorted
  <2> QED BY <2>1, <1>2, <1>3
<1>6. Sorted'
  <2>1. \A j \in DOMAIN regions' : regions'[j].type = Free => Usable(regions'[j])
      BY <1>1, <1>3, <1>4 DEF Sorted
  <2>2. \A j, k \in DOMAIN regions' : j < k => End(regions'[j]) <= regions'[k].base
      BY <1>1, <1>4 DEF Sorted
  <2>3. \A j, k \in DOMAIN regions' : regions'[j].at = regions'[k].at => j = k
      BY <1>1, <1>4 DEF Sorted
  <2> QED BY <1>5, <2>1, <2>2, <2>3 DEF Sorted, Usable, Inside, End
<1>7. Gapless'
    BY <1>1, <1>4 DEF Gapless, End, Inside
<1>8. OfRegions' = OfRegions
    BY <1>1, <1>4 DEF OfRegions
<1>9. ASSUME NEW r \in Ranges, r[1] # regions[i].base
      PROVE  r \in Ranges'
  <2>1. PICK j \in DOMAIN regions : /\ regions[j].base = r[1] /\ regions[j].size = r[2]
                                    /\ regions[j].type = Reserved /\ Usable(regions[j])
      BY DEF Ranges
  <2>2. regions'[j] = regions[j] /\ j \in DOMAIN regions' /\ r \in Nat \X Nat
      BY <2>1, <1>1, <1>9 DEF Ranges
  <2> QED BY <2>1, <2>2 DEF Ranges, Usable, Inside, End
<1>10. ASSUME t = Reserved, Usable(regions[i])
       PROVE  <<regions[i].base, regions[i].size>> \in Ranges'
  <2>1. <<regions[i].base, regions[i].size>> \in Nat \X Nat
      BY <1>2 DEF Region
  <2>2. Usable(regions'[i])
      BY <1>10, <1>4
  <2> QED BY <2>1, <2>2, <1>1, <1>3, <1>10 DEF Ranges, Usable, Inside, End
<1>11. ASSUME t = Reserved, NEW r \in Ranges
       PROVE  r \in Ranges'
  <2>1. PICK j \in DOMAIN regions : /\ regions[j].base = r[1] /\ regions[j].size = r[2]
                                    /\ regions[j].type = Reserved /\ Usable(regions[j])
      BY DEF Ranges
  <2>2. r \in Nat \X Nat /\ regions'[j].type = Reserved
      BY <2>1, <1>1, <1>3, <1>11 DEF Ranges
  <2>3. Usable(regions'[j])
      BY <2>1, <1>4
  <2> QED BY <2>1, <2>2, <2>3, <1>1, <1>4 DEF Ranges, Usable, Inside, End
<1> QED BY <1>1, <1>6, <1>7, <1>8, <1>9, <1>10, <1>11

\* A list with one element replaced by two.
ReplacedIn(t, S, s, i, a, b) ==
    /\ t \in Seq(S) /\ Len(t) = Len(s) + 1 /\ DOMAIN t = 1..(Len(s) + 1)
    /\ \A k \in 1..(i - 1) : t[k] = s[k]
    /\ t[i] = a /\ t[i + 1] = b
    /\ \A k \in (i + 1)..Len(s) : t[k + 1] = s[k]

\* What memory_split makes of the list: two elements in place of one.
LEMMA Replaced ==
    ASSUME NEW S, NEW s \in Seq(S), NEW i \in 1..Len(s), NEW a \in S, NEW b \in S
    PROVE  ReplacedIn(InsertBefore([s EXCEPT ![i] = b], i, a), S, s, i, a, b)
<1> DEFINE u == [s EXCEPT ![i] = b]
           t == InsertBefore(u, i, a)
<1>1. Len(s) \in Nat /\ i \in Nat /\ i >= 1 /\ i <= Len(s)
    OBVIOUS
<1>2. /\ u \in Seq(S) /\ Len(u) = Len(s) /\ u[i] = b
      /\ \A k \in 1..Len(s) : k # i => u[k] = s[k]
    BY <1>1
<1> HIDE DEF u
<1>3. i \in 1..(Len(u) + 1)
    BY <1>1, <1>2
<1>4. InsertedAt(t, S, u, i, a)
    BY <1>2, <1>3, Inserted
<1> HIDE DEF t
<1>5. /\ t \in Seq(S) /\ Len(t) = Len(u) + 1 /\ DOMAIN t = 1..(Len(u) + 1)
      /\ \A k \in 1..(i - 1) : t[k] = u[k]
      /\ t[i] = a
      /\ \A k \in i..Len(u) : t[k + 1] = u[k]
    BY <1>4 DEF InsertedAt
<1>6. \A k \in 1..(i - 1) : t[k] = s[k]
    BY <1>1, <1>2, <1>5
<1>7. t[i + 1] = b
    BY <1>1, <1>2, <1>5
<1>8. \A k \in (i + 1)..Len(s) : t[k + 1] = s[k]
    BY <1>1, <1>2, <1>5
<1>9. ReplacedIn(t, S, s, i, a, b)
    BY <1>2, <1>5, <1>6, <1>7, <1>8 DEF ReplacedIn
<1> QED BY <1>9 DEF t, u

\* The two parts of a region are its front and the rest, with no gap.
LEMMA Parts ==
    ASSUME NEW m \in Region, NEW size \in Nat \ {0}, size < m.size, NEW at \in Nat
    PROVE  LET front == Front(at, m, size)
               rest == Rest(m, size)
           IN  /\ front \in Region /\ rest \in Region
               /\ front.at = at /\ front.base = m.base /\ front.size = size
               /\ front.type = Reserved
               /\ rest.at = m.at /\ rest.base = m.base + size /\ rest.size = m.size - size
               /\ rest.type = m.type
               /\ End(front) = rest.base /\ End(rest) = End(m) /\ rest.base > m.base
               /\ End(front) <= End(m) /\ End(m) \in Nat /\ m.base < End(m)
<1> DEFINE front == Front(at, m, size)
           rest == Rest(m, size)
<1>1. /\ m.at \in Nat /\ m.base \in Nat /\ m.size \in Nat \ {0} /\ m.type \in Nat
      /\ m = [at |-> m.at, base |-> m.base, size |-> m.size, type |-> m.type]
    BY DEF Region
<1>2. rest = [at |-> m.at, base |-> m.base + size, size |-> m.size - size, type |-> m.type]
  <2>1. rest = [[m EXCEPT !.size = m.size - size] EXCEPT !.base = m.base + size]
      BY <1>1 DEF Rest, Region
  <2> HIDE DEF rest
  <2> QED BY <1>1, <2>1 DEF Region
<1>3. front = [at |-> at, base |-> m.base, size |-> size, type |-> Reserved]
    BY DEF Front
<1>4. m.base + size \in Nat /\ m.size - size \in Nat \ {0}
    BY <1>1
<1>5. front \in Region /\ rest \in Region
    BY <1>1, <1>2, <1>3, <1>4 DEF Region, Reserved
<1>6. /\ front.at = at /\ front.base = m.base /\ front.size = size /\ front.type = Reserved
      /\ rest.at = m.at /\ rest.base = m.base + size /\ rest.size = m.size - size
      /\ rest.type = m.type
    BY <1>2, <1>3
<1> HIDE DEF front, rest
<1>7. /\ End(front) = rest.base /\ End(rest) = End(m) /\ rest.base > m.base
      /\ End(front) <= End(m) /\ End(m) \in Nat /\ m.base < End(m)
    BY <1>1, <1>6 DEF End
<1> QED BY <1>5, <1>6, <1>7 DEF front, rest

\* memory_split: a region is cut in two.
LEMMA Cut ==
    ASSUME Sorted, Gapless, NEW i \in DOMAIN regions, regions[i].type = Free,
           NEW size \in Nat \ {0}, size < regions[i].size,
           NEW at \in Nat, at \notin OfRegions,
           regions' = InsertBefore([regions EXCEPT ![i] = Rest(regions[i], size)], i,
                                   Front(at, regions[i], size))
    PROVE  /\ Sorted' /\ Gapless' /\ OfRegions' = OfRegions \cup {at}
           /\ Ranges \subseteq Ranges'
           /\ <<regions[i].base, size>> \in Ranges'
           /\ Len(regions') = Len(regions) + 1
           /\ \A k \in 1..(i - 1) : regions'[k] = regions[k]
           /\ regions'[i] = Front(at, regions[i], size)
           /\ regions'[i + 1] = Rest(regions[i], size)
           /\ \A k \in (i + 1)..Len(regions) : regions'[k + 1] = regions[k]
<1> DEFINE m == regions[i]
           front == Front(at, m, size)
           rest == Rest(m, size)
           n == Len(regions)
<1>1. /\ n \in Nat /\ DOMAIN regions = 1..n /\ i \in 1..n
      /\ regions \in Seq(Region) /\ m \in Region
    BY RegionFields DEF Sorted
<1>2. /\ front \in Region /\ rest \in Region
      /\ front.at = at /\ front.base = m.base /\ front.size = size /\ front.type = Reserved
      /\ rest.at = m.at /\ rest.base = m.base + size /\ rest.size = m.size - size
      /\ rest.type = Free
      /\ End(front) = rest.base /\ End(rest) = End(m) /\ rest.base > m.base
      /\ End(front) <= End(m) /\ End(m) \in Nat /\ m.base < End(m)
  <2> HIDE DEF m
  <2>1. m.type = Free /\ size < m.size
      BY DEF m
  <2> QED BY <1>1, <2>1, Parts
<1> HIDE DEF front, rest
<1>3. regions' = InsertBefore([regions EXCEPT ![i] = rest], i, front)
    BY DEF front, rest
<1>4. /\ regions' \in Seq(Region) /\ Len(regions') = n + 1 /\ DOMAIN regions' = 1..(n + 1)
      /\ \A k \in 1..(i - 1) : regions'[k] = regions[k]
      /\ regions'[i] = front /\ regions'[i + 1] = rest
      /\ \A k \in (i + 1)..n : regions'[k + 1] = regions[k]
  <2>1. regions \in Seq(Region) /\ i \in 1..Len(regions) /\ front \in Region /\ rest \in Region
      BY <1>1, <1>2
  <2>2. ReplacedIn(regions', Region, regions, i, front, rest)
      BY <2>1, <1>3, Replaced
  <2> QED BY <2>2 DEF ReplacedIn
<1>5. regions[i] = m
    OBVIOUS
<1> HIDE DEF n, m
<1>6. \A k \in 1..(n + 1) : \/ k \in 1..(i - 1) \/ k = i \/ k = i + 1
                            \/ k - 1 \in (i + 1)..n /\ k = (k - 1) + 1
    BY <1>1
\* Where a region of the new list was in the old one.
<1> DEFINE old(k) == IF k <= i THEN k ELSE k - 1
<1>8. \A k \in 1..(n + 1) :
         /\ old(k) \in 1..n
         /\ regions[old(k)].base <= regions'[k].base
         /\ End(regions'[k]) <= End(regions[old(k)])
         /\ k \notin {i, i + 1} => regions'[k] = regions[old(k)]
  <2> SUFFICES ASSUME NEW k \in 1..(n + 1)
               PROVE  /\ old(k) \in 1..n
                      /\ regions[old(k)].base <= regions'[k].base
                      /\ End(regions'[k]) <= End(regions[old(k)])
                      /\ k \notin {i, i + 1} => regions'[k] = regions[old(k)]
      OBVIOUS
  <2>1. old(k) \in 1..n
      BY <1>1
  <2>2. regions[old(k)] \in Region
      BY <2>1, <1>1
  <2>3. CASE k = i
    <3>1. old(k) = i
        BY <2>3, <1>1
    <3> HIDE DEF old
    <3>2. m.base \in Nat
        BY <1>1 DEF Region
    <3> QED BY <3>1, <3>2, <2>1, <2>3, <1>2, <1>4, <1>5
  <2>4. CASE k = i + 1
    <3>1. old(k) = i
        BY <2>4, <1>1
    <3> HIDE DEF old
    <3>2. m.base \in Nat /\ rest.base \in Nat
        BY <1>1, <1>2 DEF Region
    <3> QED BY <3>1, <3>2, <2>1, <2>4, <1>2, <1>4, <1>5
  <2>5. CASE k \notin {i, i + 1}
    <3>1. regions'[k] = regions[old(k)]
      <4>1. CASE k \in 1..(i - 1)
        <5>1. old(k) = k
            BY <4>1, <1>1
        <5> QED BY <5>1, <4>1, <1>4
      <4>2. CASE k - 1 \in (i + 1)..n
        <5>1. k = (k - 1) + 1 /\ old(k) = k - 1
            BY <4>2, <1>1
        <5> HIDE DEF old
        <5> QED BY <4>2, <5>1, <1>4
      <4> QED BY <4>1, <4>2, <2>5, <1>6
    <3> HIDE DEF old
    <3>2. End(regions[old(k)]) \in Nat /\ regions[old(k)].base \in Nat
        BY <2>2 DEF End, Region
    <3> QED BY <3>1, <3>2, <2>1
  <2> QED BY <2>3, <2>4, <2>5
<1> HIDE DEF old
<1>9. regions'[i].at = at /\ \A k \in 1..(n + 1) : k # i => regions'[k].at = regions[old(k)].at
  <2>1. ASSUME NEW k \in 1..(n + 1), k # i
        PROVE  regions'[k].at = regions[old(k)].at
    <3>1. CASE k = i + 1
      <4>1. old(k) = i
          BY <3>1, <1>1 DEF old
      <4> QED BY <3>1, <4>1, <1>2, <1>4, <1>5
    <3>2. CASE k # i + 1
        BY <2>1, <3>2, <1>8
    <3> QED BY <3>1, <3>2
  <2> QED BY <2>1, <1>2, <1>4
<1>10. \A k, l \in 1..(n + 1) :
          /\ k < l => old(k) < old(l) \/ (k = i /\ l = i + 1)
          /\ k # i /\ l # i /\ old(k) = old(l) => k = l
    BY <1>1 DEF old
<1>11. /\ Usable(front) /\ Usable(rest)
       /\ \A z \in DOMAIN Zones :
             Inside(m, Zones[z]) => Inside(front, Zones[z]) /\ Inside(rest, Zones[z])
  <2>1. Usable(m)
      BY <1>1 DEF Sorted, m
  <2>2. ASSUME NEW z \in DOMAIN Zones, Inside(m, Zones[z])
        PROVE  Inside(front, Zones[z]) /\ Inside(rest, Zones[z])
    <3>1. Zones[z].base \in Nat /\ Zones[z].size \in Nat
        BY ZoneFields
    <3>2. End(Zones[z]) \in Nat
        BY <3>1 DEF End
    <3>3. m.base \in Nat /\ rest.base \in Nat
        BY <1>1, <1>2, RegionEnds
    <3> QED BY <2>2, <3>1, <3>2, <3>3, <1>2 DEF Inside
  <2> QED BY <2>1, <2>2 DEF Usable
<1>12. \A k \in 1..(n + 1) : regions'[k].type = Free => Usable(regions'[k])
  <2> SUFFICES ASSUME NEW k \in 1..(n + 1), regions'[k].type = Free
               PROVE  Usable(regions'[k])
      OBVIOUS
  <2>1. CASE k = i
      BY <2>1, <1>2, <1>4 DEF Reserved, Free
  <2>2. CASE k = i + 1
      BY <2>2, <1>4, <1>11
  <2>3. CASE k \notin {i, i + 1}
      BY <2>3, <1>1, <1>8 DEF Sorted
  <2> QED BY <2>1, <2>2, <2>3
<1>13. Sorted'
  <2>1. ASSUME NEW k \in 1..(n + 1), NEW l \in 1..(n + 1), k < l
        PROVE  End(regions'[k]) <= regions'[l].base
    <3>1. CASE k = i /\ l = i + 1
      <4>1. rest.base \in Nat
          BY <1>2, RegionEnds
      <4> QED BY <3>1, <4>1, <1>2, <1>4
    <3>2. CASE old(k) < old(l)
      <4>1. End(regions[old(k)]) <= regions[old(l)].base
          BY <3>2, <1>1, <1>8 DEF Sorted
      <4>2. /\ regions[old(k)] \in Region /\ regions[old(l)] \in Region
            /\ regions'[k] \in Region /\ regions'[l] \in Region
          BY <1>1, <1>4, <1>8
      <4>3. /\ End(regions[old(k)]) \in Nat /\ regions[old(l)].base \in Nat
            /\ End(regions'[k]) \in Nat /\ regions'[l].base \in Nat
          BY <4>2, RegionEnds
      <4>4. /\ End(regions'[k]) <= End(regions[old(k)])
            /\ regions[old(l)].base <= regions'[l].base
          BY <1>8
      <4> QED BY <4>1, <4>3, <4>4
    <3> QED BY <2>1, <3>1, <3>2, <1>10
  <2>2. ASSUME NEW k \in 1..(n + 1), NEW l \in 1..(n + 1), regions'[k].at = regions'[l].at
        PROVE  k = l
    <3>1. \A j \in 1..n : regions[j].at # at
        BY <1>1 DEF OfRegions
    <3>2. CASE k = i \/ l = i
        BY <2>2, <3>1, <3>2, <1>8, <1>9
    <3>3. CASE k # i /\ l # i
      <4>1. old(k) = old(l)
        <5>1. regions[old(k)].at = regions[old(l)].at /\ old(k) \in 1..n /\ old(l) \in 1..n
            BY <2>2, <3>3, <1>8, <1>9
        <5> QED BY <5>1, <1>1 DEF Sorted
      <4> QED BY <3>3, <4>1, <1>10
    <3> QED BY <3>2, <3>3
  <2> QED BY <2>1, <2>2, <1>4, <1>12 DEF Sorted, Usable, Inside, End
\* Where a region of the old list starts in the new one.
<1> DEFINE new(j) == IF j <= i THEN j ELSE j + 1
<1>14. \A j \in 1..n : new(j) \in 1..(n + 1) /\ regions'[new(j)].base = regions[j].base
  <2> SUFFICES ASSUME NEW j \in 1..n
               PROVE  new(j) \in 1..(n + 1) /\ regions'[new(j)].base = regions[j].base
      OBVIOUS
  <2>1. new(j) \in 1..(n + 1)
      BY <1>1
  <2>2. CASE j \in 1..(i - 1)
    <3>1. new(j) = j
        BY <2>2, <1>1
    <3> QED BY <2>1, <2>2, <3>1, <1>4
  <2>3. CASE j = i
    <3>1. new(j) = i
        BY <2>3, <1>1
    <3> QED BY <2>1, <2>3, <3>1, <1>2, <1>4, <1>5
  <2>4. CASE j \in (i + 1)..n
    <3>1. new(j) = j + 1
        BY <2>4, <1>1
    <3> QED BY <2>1, <2>4, <3>1, <1>4
  <2> QED BY <2>2, <2>3, <2>4, <1>1
<1> HIDE DEF new
<1>15. Gapless'
  <2>1. \A z \in DOMAIN Zones : \E k \in 1..(n + 1) : regions'[k].base = Zones[z].base
    <3> SUFFICES ASSUME NEW z \in DOMAIN Zones
                 PROVE  \E k \in 1..(n + 1) : regions'[k].base = Zones[z].base
        OBVIOUS
    <3>1. PICK j \in 1..n : regions[j].base = Zones[z].base
        BY <1>1 DEF Gapless
    <3> QED BY <3>1, <1>14
  <2>2. ASSUME NEW k \in 1..(n + 1)
        PROVE  \E z \in DOMAIN Zones : Inside(regions'[k], Zones[z])
    <3>1. PICK z \in DOMAIN Zones : Inside(regions[old(k)], Zones[z])
        BY <1>1, <1>8 DEF Gapless
    <3>2. CASE k \in {i, i + 1}
      <4>1. regions[old(k)] = m
          BY <3>2, <1>1, <1>5 DEF old
      <4> QED BY <3>1, <3>2, <4>1, <1>4, <1>11
    <3>3. CASE k \notin {i, i + 1}
        BY <3>1, <3>3, <1>8
    <3> QED BY <3>2, <3>3
  <2>3. ASSUME NEW k \in 1..(n + 1)
        PROVE  \/ \E z \in DOMAIN Zones : End(regions'[k]) = End(Zones[z])
               \/ k + 1 \in 1..(n + 1) /\ regions'[k + 1].base = End(regions'[k])
    <3>1. CASE k = i
      <4>1. k + 1 \in 1..(n + 1)
          BY <3>1, <1>1
      <4> QED BY <3>1, <4>1, <1>2, <1>4
    <3>2. CASE k # i
      <4>1. End(regions'[k]) = End(regions[old(k)]) /\ old(k) \in 1..n
        <5>1. CASE k = i + 1
          <6>1. old(k) = i
              BY <5>1, <1>1 DEF old
          <6> QED BY <5>1, <6>1, <1>1, <1>2, <1>4, <1>5
        <5>2. CASE k # i + 1
            BY <3>2, <5>2, <1>8
        <5> QED BY <5>1, <5>2
      <4>2. CASE \E z \in DOMAIN Zones : End(regions[old(k)]) = End(Zones[z])
          BY <4>1, <4>2
      <4>3. CASE /\ old(k) + 1 \in 1..n
                 /\ regions[old(k) + 1].base = End(regions[old(k)])
        <5>1. new(old(k) + 1) = k + 1
            BY <3>2, <4>3, <1>1 DEF old, new
        <5>2. /\ new(old(k) + 1) \in 1..(n + 1)
              /\ regions'[new(old(k) + 1)].base = regions[old(k) + 1].base
            BY <4>3, <1>14
        <5> QED BY <4>1, <4>3, <5>1, <5>2
      <4> QED BY <4>1, <4>2, <4>3, <1>1 DEF Gapless
    <3> QED BY <3>1, <3>2
  <2> QED BY <2>1, <2>2, <2>3, <1>4 DEF Gapless, Inside, End
<1>16. \A j \in 1..n : j # i => \E k \in 1..(n + 1) : regions'[k] = regions[j]
  <2> SUFFICES ASSUME NEW j \in 1..n, j # i
               PROVE  \E k \in 1..(n + 1) : regions'[k] = regions[j]
      OBVIOUS
  <2>1. CASE j \in 1..(i - 1)
    <3>1. j \in 1..(n + 1)
        BY <1>1
    <3> QED BY <2>1, <3>1, <1>4
  <2>2. CASE j \in (i + 1)..n
    <3>1. j + 1 \in 1..(n + 1)
        BY <1>1
    <3> QED BY <2>2, <3>1, <1>4
  <2>3. j \in 1..(i - 1) \/ j \in (i + 1)..n
      BY <1>1
  <2> QED BY <2>1, <2>2, <2>3
<1>17. OfRegions' = OfRegions \cup {at}
  <2>1. ASSUME NEW k \in 1..(n + 1) PROVE regions'[k].at \in OfRegions \cup {at}
    <3>1. CASE k = i
        BY <3>1, <1>9
    <3>2. CASE k # i
      <4>1. regions'[k].at = regions[old(k)].at /\ old(k) \in DOMAIN regions
          BY <3>2, <1>1, <1>8, <1>9
      <4> QED BY <4>1 DEF OfRegions
    <3> QED BY <3>1, <3>2
  <2>2. at \in OfRegions'
      BY <1>1, <1>4, <1>9 DEF OfRegions
  <2>3. ASSUME NEW j \in 1..n PROVE regions[j].at \in OfRegions'
    <3>1. CASE j = i
      <4>1. regions'[i + 1].at = regions[i].at /\ i + 1 \in 1..(n + 1)
          BY <1>1, <1>2, <1>4, <1>5
      <4> QED BY <3>1, <4>1, <1>4 DEF OfRegions
    <3>2. CASE j # i
        BY <3>2, <1>4, <1>16 DEF OfRegions
    <3> QED BY <3>1, <3>2
  <2>4. OfRegions' \subseteq OfRegions \cup {at}
      BY <2>1, <1>4 DEF OfRegions
  <2>5. OfRegions \subseteq OfRegions'
      BY <2>3, <1>1 DEF OfRegions
  <2> QED BY <2>2, <2>4, <2>5
<1>18. Ranges \subseteq Ranges'
  <2> SUFFICES ASSUME NEW r \in Ranges PROVE r \in Ranges'
      OBVIOUS
  <2>1. PICK j \in 1..n : /\ regions[j].base = r[1] /\ regions[j].size = r[2]
                          /\ regions[j].type = Reserved /\ Usable(regions[j])
      BY <1>1 DEF Ranges
  <2>2. j # i
      BY <2>1, <1>5 DEF m, Reserved, Free
  <2>3. PICK k \in 1..(n + 1) : regions'[k] = regions[j]
      BY <2>2, <1>16
  <2>4. r \in Nat \X Nat
      BY DEF Ranges
  <2>5. /\ k \in DOMAIN regions' /\ regions'[k].base = r[1] /\ regions'[k].size = r[2]
        /\ regions'[k].type = Reserved /\ Usable(regions'[k])
      BY <2>1, <2>3, <1>4
  <2> QED BY <2>4, <2>5 DEF Ranges, Usable, Inside, End
<1>19. <<m.base, size>> \in Ranges'
  <2>1. <<m.base, size>> \in Nat \X Nat
      BY <1>1 DEF Region
  <2>2. /\ i \in DOMAIN regions' /\ regions'[i].base = m.base /\ regions'[i].size = size
        /\ regions'[i].type = Reserved /\ Usable(regions'[i])
      BY <1>1, <1>2, <1>4, <1>11
  <2> QED BY <2>1, <2>2 DEF Ranges, Usable, Inside, End
<1> QED BY <1>1, <1>4, <1>5, <1>13, <1>15, <1>17, <1>18, <1>19
           DEF n, m, front, rest

-----------------------------------------------------------------------------
(* The inductive invariant, and what a step leaves as it was.              *)


Quiet == UNCHANGED <<regions, cache, grants, caches, objects>>

\* What is said of the regions holds on while they stay the same.
LEMMA QuietRegions ==
    ASSUME UNCHANGED regions
    PROVE  /\ Sorted => Sorted'
           /\ Gapless => Gapless'
           /\ Ranges' = Ranges /\ OfRegions' = OfRegions
<1>1. Sorted => Sorted'
    BY DEF Sorted, Usable, Inside, End
<1>2. Gapless => Gapless'
    BY DEF Gapless, Inside, End
<1>3. Ranges' = Ranges
    BY DEF Ranges, Usable, Inside, End
<1>4. OfRegions' = OfRegions
    BY DEF OfRegions
<1> QED BY <1>1, <1>2, <1>3, <1>4

\* What is said of the caches holds on while they stay the same.
LEMMA QuietCaches ==
    ASSUME UNCHANGED cache
    PROVE  /\ CachesOK => CachesOK'
           /\ FreeBlocks => FreeBlocks'
           /\ InSlabs' = InSlabs /\ Freelists' = Freelists /\ Busy' = Busy
           /\ \A c : InCache(c)' = InCache(c) /\ NonEmpty(c)' = NonEmpty(c)
                     /\ SlabsOf(c)' = SlabsOf(c)
           /\ Grown' = Grown /\ SlabsKept
           /\ \A n : Structs(n)' = Structs(n)
<1>1. CachesOK => CachesOK'
    BY DEF CachesOK, metadata_cache, memory_map_cache, MapSlab
<1>2. FreeBlocks => FreeBlocks'
    BY DEF FreeBlocks, BlocksOf, InSlab
<1>3. InSlabs' = InSlabs
    BY DEF InSlabs, InSlab
<1>4. Freelists' = Freelists
    BY DEF Freelists
<1>5. Busy' = Busy
    BY <1>3, <1>4 DEF Busy
<1>6. \A c : SlabsOf(c)' = SlabsOf(c)
    BY DEF SlabsOf
<1>7. \A c : InCache(c)' = InCache(c)
    BY <1>6 DEF InCache, InSlab
<1>8. \A c : NonEmpty(c)' = NonEmpty(c)
    BY <1>6 DEF NonEmpty
<1>9. Grown' = Grown /\ SlabsKept
    BY DEF Grown, SlabsKept, metadata_cache, memory_map_cache
<1>10. \A n : Structs(n)' = Structs(n)
    BY DEF Structs, memory_map_cache
<1> QED BY <1>1, <1>2, <1>3, <1>4, <1>5, <1>6, <1>7, <1>8, <1>9, <1>10

\* A step of the stack alone keeps the memory in order.
LEMMA QuietMemory ==
    ASSUME MemoryOK, Quiet
    PROVE  /\ MemoryOK' /\ Fresh' = Fresh /\ CachesStay
           /\ BootRange' = BootRange
<1>1. UNCHANGED regions /\ UNCHANGED cache /\ UNCHANGED objects /\ UNCHANGED caches
    BY DEF Quiet
<1>2. OfObjects' = OfObjects
    BY <1>1 DEF OfObjects
<1>3. BusyBlocks'
  <2>1. /\ OfRegions' = OfRegions /\ Busy' = Busy /\ \A c : InCache(c)' = InCache(c)
      BY <1>1, QuietRegions, QuietCaches
  <2>2. /\ OfRegions' \subseteq Busy' \ DOMAIN cache'
        /\ DOMAIN cache' \ {metadata_cache'} \subseteq Busy'
        /\ OfObjects' \subseteq Busy' \ (DOMAIN cache' \cup OfRegions')
        /\ \A o, p \in objects' : o.at = p.at => o = p
      BY <1>1, <1>2, <2>1 DEF MemoryOK, BusyBlocks, metadata_cache
  <2>3. \A o \in objects' : o.cache \in DOMAIN cache' /\ o.at \in InCache(o.cache)'
    <3> SUFFICES ASSUME NEW o \in objects
                 PROVE  o.cache \in DOMAIN cache' /\ o.at \in InCache(o.cache)'
        BY <1>1
    <3>1. o.cache \in DOMAIN cache /\ o.at \in InCache(o.cache)
        BY DEF MemoryOK, BusyBlocks
    <3> QED BY <3>1, <2>1, <1>1
  <2> QED BY <2>2, <2>3 DEF BusyBlocks
<1>4. Fresh' = Fresh
    BY <1>1, <1>2, QuietRegions, QuietCaches DEF Fresh
<1>5. CachesStay
    BY <1>1 DEF CachesStay
<1>6. BootRange' = BootRange
  <2>1. Ranges' = Ranges
      BY <1>1, QuietRegions
  <2> QED BY <2>1 DEF BootRange, metadata_cache, BootLen
<1> QED BY <1>1, <1>3, <1>4, <1>5, <1>6, QuietRegions, QuietCaches DEF MemoryOK

\* The caller is at the bottom of the stack and nowhere else.
LEMMA Bottom ==
    ASSUME StackOK, stack # <<>>
    PROVE  /\ Len(stack) \in Nat /\ Len(stack) >= 1 /\ DOMAIN stack = 1..Len(stack)
           /\ stack \in Seq(Frame) /\ top \in Frame /\ top \in GoodFrames
           /\ top = stack[Len(stack)]
           /\ stack[1].fn = "caller"
           /\ \A i \in 2..Len(stack) : /\ stack[i].fn # "caller"
                                       /\ <<stack[i], stack[i - 1]>> \in Links
           /\ top.fn # "caller" => Len(stack) >= 2
           /\ top.fn = "caller" => Len(stack) = 1
<1>1. /\ Len(stack) \in Nat /\ Len(stack) >= 1 /\ DOMAIN stack = 1..Len(stack)
      /\ stack \in Seq(Frame) /\ top = stack[Len(stack)]
      /\ stack[1].fn = "caller"
    BY DEF StackOK, top
<1>2. top \in Frame /\ top \in GoodFrames
    BY <1>1 DEF StackOK
<1>3. ASSUME NEW i \in 2..Len(stack)
      PROVE  stack[i].fn # "caller" /\ <<stack[i], stack[i - 1]>> \in Links
  <2>1. i - 1 \in DOMAIN stack /\ i \in DOMAIN stack /\ (i - 1) + 1 = i
      BY <1>1
  <2>2. <<stack[i], stack[i - 1]>> \in Links
      BY <2>1 DEF StackOK
  <2> QED BY <2>2 DEF Links, Calls
<1>4. top.fn # "caller" => Len(stack) >= 2
    BY <1>1
<1>5. top.fn = "caller" => Len(stack) = 1
  <2>1. Len(stack) # 1 => Len(stack) \in 2..Len(stack)
      BY <1>1
  <2> QED BY <2>1, <1>1, <1>3
<1> QED BY <1>1, <1>2, <1>3, <1>4, <1>5

\* What memory_init is doing.
BootTop ==
    \/ Len(stack) = 1 /\ top.fn = "caller" /\ top.pc = "boot"
    \/ Len(stack) = 2 /\ top \in {LowMemoryCall, KernelCall, CachesCall} /\ Structs(2)
    \/ Len(stack) = 2 /\ top.fn = "memory_split" /\ (top.pc = "start" => Structs(2))
    \/ /\ Len(stack) = 3 /\ top = Alloc(memory_map_cache, FALSE) /\ Structs(2)
       /\ stack[2].fn = "memory_split"

\* During memory_init there is nothing but the two boot caches, and the calls
\* in progress are those of the three reservations.
LEMMA BootSteps ==
    ASSUME StackOK, BootPhase, Booting
    PROVE  /\ BootTop
           /\ cache[memory_map_cache].slabs = <<>>
           /\ Grown = {} /\ grants = {} /\ caches = {} /\ objects = {}
<1>1. /\ cache[memory_map_cache].slabs = <<>>
      /\ Grown = {} /\ grants = {} /\ caches = {} /\ objects = {}
    BY DEF BootPhase, Grown
<1>2. Structs(3) => Structs(2)
    BY DEF Structs
<1>3. stack # <<>> /\ stack[1].pc = "boot"
    BY DEF Booting, Last
<1>4. ASSUME Len(stack) = 1
      PROVE  BootTop
    BY <1>3, <1>4, Bottom DEF BootTop, top
<1>5. ASSUME NEW call \in {KernelCall, CachesCall}, NEW n, Structs(n) => Structs(2),
             Serving(call, n)
      PROVE  BootTop
  <2>1. CASE Len(stack) = 2 /\ top = call /\ Structs(n)
      BY <1>5, <2>1 DEF BootTop
  <2>2. CASE \E i \in DOMAIN regions :
                Len(stack) = 2 /\ top = Split(regions[i].at, call.size) /\ Structs(n)
      BY <1>5, <2>2 DEF BootTop, Split
  <2>3. CASE \E i \in DOMAIN regions :
                /\ Len(stack) = 3 /\ top = Alloc(memory_map_cache, FALSE) /\ Structs(n)
                /\ stack[2] = [Split(regions[i].at, call.size) EXCEPT !.pc = "got"]
      BY <1>5, <2>3 DEF BootTop, Split
  <2>4. CASE \E i \in DOMAIN regions :
                /\ Len(stack) = 2
                /\ top = [Split(regions[i].at, call.size) EXCEPT !.pc = "got"]
      BY <2>4 DEF BootTop, Split
  <2> QED BY <1>5, <2>1, <2>2, <2>3, <2>4 DEF Serving
<1>6. BootTop
  <2>1. CASE Len(stack) = 2 /\ top = LowMemoryCall /\ Structs(3)
      BY <2>1, <1>2 DEF BootTop
  <2>2. CASE Serving(KernelCall, 3)
      BY <2>2, <1>2, <1>5
  <2>3. CASE Serving(CachesCall, 2)
      BY <2>3, <1>5
  <2> QED BY <1>4, <2>1, <2>2, <2>3 DEF BootPhase
<1> QED BY <1>1, <1>6

\* While memory_init runs nothing is extended and no client calls.
LEMMA NotBooting ==
    ASSUME StackOK, CachesOK, BootPhase, stack # <<>>,
           \/ top.fn \in {"cache_extend", "cache_new"}
           \/ top.fn = "__cache_alloc" /\ (top.pc # "try" \/ NonEmpty(top.cache) = {})
           \/ top.fn = "__memory_reserve_ex" /\ top.pc # "start"
           \/ top.fn = "__memory_reserve_ex" /\ RunningOut(memory_map_cache)
           \/ top.fn = "caller" /\ top.pc # "boot"
    PROVE  ~Booting
<1> SUFFICES ASSUME Booting PROVE FALSE
    OBVIOUS
<1>1. BootTop /\ cache[memory_map_cache].slabs = <<>>
    BY BootSteps
<1>2. Structs(2) => NonEmpty(memory_map_cache) # {} /\ ~RunningOut(memory_map_cache)
  <2>1. Structs(2) => Structs(1)
      BY DEF Structs
  <2> QED BY <2>1, <1>1, StructsLeft
<1>3. CASE top = Alloc(memory_map_cache, FALSE) /\ Structs(2)
    BY <1>2, <1>3 DEF Alloc
<1>4. CASE top \in {LowMemoryCall, KernelCall, CachesCall} /\ Structs(2)
    BY <1>2, <1>4 DEF LowMemoryCall, KernelCall, CachesCall, Reserve
<1> QED BY <1>1, <1>3, <1>4 DEF BootTop


\* Every range held after a step is a slab's, a grant or a frame's.
LEMMA HeldWithin ==
    ASSUME NEW X,
           \A c \in Grown' : <<"slab", c, cache'[c].base, cache'[c].size>> \in X,
           \A g \in grants' : <<"grant", 0, g.base, g.size>> \in X,
           \A i \in DOMAIN stack' : HoldsRange(stack'[i]) =>
              <<"frame", i, stack'[i].p, stack'[i].size>> \in X
    PROVE  Held' \subseteq X
<1> SUFFICES ASSUME NEW h \in Held' PROVE h \in X
    OBVIOUS
<1>1. CASE \E c \in Grown' : h = <<"slab", c, cache'[c].base, cache'[c].size>>
    BY <1>1
<1>2. CASE \E g \in grants' : h = <<"grant", 0, g.base, g.size>>
    BY <1>2
<1>3. CASE \E i \in DOMAIN stack' : /\ HoldsRange(stack'[i])
                                    /\ h = <<"frame", i, stack'[i].p, stack'[i].size>>
    BY <1>3
<1> QED BY <1>1, <1>2, <1>3 DEF Held

\* A call: what every one of them leaves in order.
LEMMA Pushes ==
    ASSUME Inv, Quiet, stack # <<>>, Len(stack) <= MaxDepth, top.fn # "caller",
           NEW f \in GoodFrames, NEW pc \in Places(top.fn), Call(f, pc),
           Calls(f, [top EXCEPT !.pc = pc]),
           HoldsRange(f) => <<f.p, f.size>> \in Unheld
    PROVE  /\ Plain' /\ MemoryOK' /\ Owned' /\ StackOK' /\ ClientOK' /\ Booted'
           /\ stack' # <<>> /\ top' = f /\ Len(stack') = Len(stack) + 1
           /\ Booting' = Booting /\ Last' = Last
           /\ stack'[Len(stack)].fn = top.fn /\ Below
<1> DEFINE n == Len(stack)
           g == [top EXCEPT !.pc = pc]
<1>1. /\ n \in Nat /\ n >= 2 /\ DOMAIN stack = 1..n
      /\ stack \in Seq(Frame) /\ top \in Frame /\ top = stack[n]
    BY Bottom DEF Inv
<1>2. g \in Frame /\ Same(top, g)
    BY <1>1, GoesOn
<1>3. f \in Frame
    BY DEF GoodFrames
<1>4. /\ stack' \in Seq(Frame) /\ Len(stack') = n + 1 /\ DOMAIN stack' = 1..(n + 1)
      /\ stack'[n + 1] = f /\ stack'[n] = g /\ stack' # <<>> /\ top' = f
      /\ Below /\ \A i \in 1..(n - 1) : stack'[i] = stack[i]
      /\ UNCHANGED <<ret, status>>
    BY <1>1, <1>2, <1>3, CallEffect DEF Below
<1>5. MemoryOK' /\ CachesStay
    BY QuietMemory DEF Inv
<1>6. StackOK'
  <2>1. UNCHANGED regions
      BY DEF Quiet
  <2> QED BY <1>5, <2>1, StackPushed DEF Inv
<1>7. stack'[1] = stack[1] /\ g.fn = top.fn
    BY <1>1, <1>2, <1>4 DEF Same
<1>8. Booting' = Booting /\ Last' = Last
    BY <1>4, <1>7 DEF Booting, Last
<1>9. Plain'
  <2>1. n + 1 <= MaxDepth + 1
      BY <1>1, SizesAssumption
  <2> QED BY <2>1, <1>4 DEF Inv, Plain
<1>10. ClientOK'
    BY <1>4, <1>7 DEF Inv, ClientOK, Quiet
<1>11. Booted'
    BY <1>8, QuietRegions
       DEF Inv, Booted, LowDone, Quiet, metadata_cache, BootLen
<1>12. Owned'
  <2> DEFINE h == <<"frame", n + 1, f.p, f.size>>
  <2>1. HoldsRange(g) = HoldsRange(top) /\ (HoldsRange(top) => g.p = top.p /\ g.size = top.size)
      BY <1>1, <1>2, SameIsAsGood
  <2>2. Grown' = Grown /\ cache' = cache /\ grants' = grants /\ Ranges' = Ranges
      BY QuietCaches, QuietRegions DEF Quiet
  <2>3. \A c \in Grown' : <<"slab", c, cache'[c].base, cache'[c].size>> \in Held
      BY <2>2, HeldBy
  <2>4. \A r \in grants' : <<"grant", 0, r.base, r.size>> \in Held
      BY <2>2, HeldBy
  <2>5. \A i \in 1..n : HoldsRange(stack'[i]) =>
           <<"frame", i, stack'[i].p, stack'[i].size>> \in Held
    <3> SUFFICES ASSUME NEW i \in 1..n, HoldsRange(stack'[i])
                 PROVE  <<"frame", i, stack'[i].p, stack'[i].size>> \in Held
        OBVIOUS
    <3>1. HoldsRange(stack[i]) /\ stack'[i].p = stack[i].p /\ stack'[i].size = stack[i].size
      <4>1. CASE i = n
          BY <4>1, <2>1, <1>1, <1>4
      <4>2. CASE i # n
        <5>1. i \in 1..(n - 1)
            BY <4>2, <1>1
        <5> QED BY <5>1, <1>4
      <4> QED BY <4>1, <4>2
    <3> QED BY <3>1, <1>1, HeldBy
  <2>6. CASE HoldsRange(f)
    <3> DEFINE X == Held \cup {h}
    <3>1. \A i \in DOMAIN stack' : HoldsRange(stack'[i]) =>
             <<"frame", i, stack'[i].p, stack'[i].size>> \in X
      <4>1. \A i \in 1..(n + 1) : i \in 1..n \/ i = n + 1
          BY <1>1
      <4> QED BY <4>1, <2>5, <1>4
    <3>2. Held' \subseteq X
      <4>1. \A c \in Grown' : <<"slab", c, cache'[c].base, cache'[c].size>> \in X
          BY <2>3
      <4>2. \A r \in grants' : <<"grant", 0, r.base, r.size>> \in X
          BY <2>4
      <4> HIDE DEF X
      <4> QED BY <3>1, <4>1, <4>2, HeldWithin
    <3>3. <<h[3], h[4]>> \in Unheld
        BY <2>6
    <3> HIDE DEF h
    <3> QED BY <3>2, <3>3, <2>2, OwnedTaken DEF Inv
  <2>7. CASE ~HoldsRange(f)
    <3>1. \A i \in DOMAIN stack' : HoldsRange(stack'[i]) =>
             <<"frame", i, stack'[i].p, stack'[i].size>> \in Held
      <4>1. \A i \in 1..(n + 1) : i \in 1..n \/ i = n + 1
          BY <1>1
      <4> QED BY <4>1, <2>5, <2>7, <1>4
    <3>2. Held' \subseteq Held
        BY <2>3, <2>4, <3>1, HeldWithin
    <3> QED BY <3>2, <2>2, OwnedKept DEF Inv
  <2> QED BY <2>6, <2>7
<1> QED BY <1>1, <1>4, <1>5, <1>6, <1>7, <1>8, <1>9, <1>10, <1>11, <1>12

\* `return f(...)'.
LEMMA Tails ==
    ASSUME Inv, Quiet, stack # <<>>, top.fn # "caller",
           NEW f \in GoodFrames, TailCall(f), ~HoldsRange(f),
           \A h : <<top, h>> \in Links => <<f, h>> \in Links
    PROVE  /\ Plain' /\ MemoryOK' /\ Owned' /\ StackOK' /\ ClientOK' /\ Booted'
           /\ stack' # <<>> /\ top' = f /\ Len(stack') = Len(stack)
           /\ Booting' = Booting /\ Last' = Last
           /\ Below
<1> DEFINE n == Len(stack)
<1>1. /\ n \in Nat /\ n >= 2 /\ DOMAIN stack = 1..n
      /\ stack \in Seq(Frame) /\ top \in Frame /\ top = stack[n]
    BY Bottom DEF Inv
<1>2. f \in Frame
    BY DEF GoodFrames
<1>3. /\ stack' \in Seq(Frame) /\ Len(stack') = n /\ DOMAIN stack' = 1..n
      /\ stack'[n] = f /\ stack' # <<>> /\ top' = f
      /\ Below /\ \A i \in 1..(n - 1) : stack'[i] = stack[i]
      /\ UNCHANGED <<ret, status>>
    BY <1>1, <1>2, TailCallEffect DEF Below
<1>4. MemoryOK' /\ CachesStay
    BY QuietMemory DEF Inv
<1>5. StackOK'
  <2>1. UNCHANGED regions
      BY DEF Quiet
  <2> QED BY <1>4, <2>1, StackReplaced DEF Inv
<1>6. stack'[1] = stack[1]
    BY <1>1, <1>3
<1>7. Booting' = Booting /\ Last' = Last
    BY <1>3, <1>6 DEF Booting, Last
<1>8. Plain'
    BY <1>3 DEF Inv, Plain
<1>9. ClientOK'
    BY <1>3, <1>6 DEF Inv, ClientOK, Quiet
<1>10. Booted'
    BY <1>7, QuietRegions
       DEF Inv, Booted, LowDone, Quiet, metadata_cache, BootLen
<1>11. Owned'
  <2>1. FramesKept
      BY <1>1, <1>2, FramesOnTailCall
  <2>2. SlabsKept /\ grants' = grants /\ Ranges' = Ranges
      BY QuietCaches, QuietRegions DEF Quiet
  <2> QED BY <2>1, <2>2, HeldKept, OwnedKept DEF Inv
<1> QED BY <1>1, <1>3, <1>4, <1>5, <1>6, <1>7, <1>8, <1>9, <1>10, <1>11

\* A return: what becomes of the stack.
LEMMA Returns ==
    ASSUME StackOK, stack # <<>>, top.fn # "caller", NEW value, Return(value)
    PROVE  /\ stack' # <<>> /\ Len(stack') = Len(stack) - 1 /\ Len(stack) \in Nat
           /\ Len(stack) >= 2 /\ DOMAIN stack' = 1..(Len(stack) - 1)
           /\ top' = stack[Len(stack) - 1] /\ <<top, stack[Len(stack) - 1]>> \in Links
           /\ top' \in GoodFrames
           /\ Below /\ ret' = value /\ UNCHANGED status
           /\ Booting' = Booting /\ Last' = Last
           /\ FramesKept
           /\ stack' \in Seq(Frame)
<1>1. /\ Len(stack) \in Nat /\ Len(stack) >= 2 /\ DOMAIN stack = 1..Len(stack)
      /\ stack \in Seq(Frame) /\ top = stack[Len(stack)]
    BY Bottom
<1>2. /\ stack' \in Seq(Frame) /\ Len(stack') = Len(stack) - 1 /\ Below
      /\ ret' = value /\ UNCHANGED status
      /\ stack' # <<>> /\ top' = stack[Len(stack) - 1]
  <2>1. /\ stack' \in Seq(Frame) /\ Len(stack') = Len(stack) - 1 /\ Below
        /\ ret' = value /\ UNCHANGED status
        /\ Len(stack) > 1 => stack' # <<>> /\ top' = stack[Len(stack) - 1]
      BY <1>1, ReturnEffect
  <2>2. Len(stack) > 1
      BY <1>1
  <2> QED BY <2>1, <2>2
<1>3. FramesKept
    BY <1>1, FramesOnReturn
<1>4. DOMAIN stack' = 1..(Len(stack) - 1)
    BY <1>1, <1>2
<1>5. <<top, stack[Len(stack) - 1]>> \in Links
  <2>1. Len(stack) \in 2..Len(stack)
      BY <1>1
  <2> QED BY <2>1, <1>1, Bottom
<1>6. top' \in GoodFrames
  <2>1. Len(stack) - 1 \in DOMAIN stack
      BY <1>1
  <2> QED BY <2>1, <1>2 DEF StackOK
<1>7. stack'[1] = stack[1]
    BY <1>1, <1>2 DEF Below
<1>8. Booting' = Booting /\ Last' = Last
    BY <1>2, <1>7 DEF Booting, Last
<1> QED BY <1>1, <1>2, <1>3, <1>4, <1>5, <1>6, <1>8

-----------------------------------------------------------------------------
(* Calls.                                                                  *)

\* The frames the code makes.
LEMMA MadeFrames ==
    ASSUME CachesOK
    PROVE  /\ \A c \in DOMAIN cache, ext \in BOOLEAN : Alloc(c, ext) \in GoodFrames
           /\ \A c \in DOMAIN cache, p \in Nat, size, bsize \in Nat \ {0}, ext \in BOOLEAN :
                Extend(c, p, size, bsize, ext) \in GoodFrames
           /\ \A p \in Nat, size \in Nat \ {0} : New(p, size) \in GoodFrames
           /\ \A base \in Nat, size \in Nat \ {0} : Reserve(base, size, FALSE) \in GoodFrames
           /\ Reserve(NULL, SlabSize, TRUE) \in GoodFrames
<1>1. DOMAIN cache \subseteq Nat
    BY DEF CachesOK
<1>2. \A c \in DOMAIN cache, ext \in BOOLEAN : Alloc(c, ext) \in GoodFrames
    BY <1>1 DEF Alloc, GoodFrames, FrameOK, Frame, AllocFrame
<1>3. \A c \in DOMAIN cache, p \in Nat, size, bsize \in Nat \ {0}, ext \in BOOLEAN :
         Extend(c, p, size, bsize, ext) \in GoodFrames
    BY <1>1 DEF Extend, GoodFrames, FrameOK, Frame, ExtendFrame
<1>4. \A p \in Nat, size \in Nat \ {0} : New(p, size) \in GoodFrames
    BY DEF New, GoodFrames, FrameOK, Frame, NewFrame
<1>5. \A base \in Nat, size \in Nat \ {0} : Reserve(base, size, FALSE) \in GoodFrames
    BY DEF Reserve, GoodFrames, FrameOK, Frame, ReserveFrame
<1>6. Reserve(NULL, SlabSize, TRUE) \in GoodFrames
  <2>1. SlabSize \in Nat \ {0} /\ NULL \in Nat
      BY Constants DEF NULL
  <2> HIDE DEF SlabSize
  <2> QED BY <2>1 DEF Reserve, GoodFrames, FrameOK, Frame, ReserveFrame
<1> QED BY <1>2, <1>3, <1>4, <1>5, <1>6

\* Who can be running while a split waits.
LEMMA NotSplitting ==
    ASSUME Waiting,
           ~(top.fn = "__cache_alloc" /\ top.pc = "try"),
           ~(top.fn \in {"__memory_reserve_ex", "memory_split"} /\ top.pc = "start")
    PROVE  ~Splitting
BY DEF Waiting, Served, Circling, Alloc, Reserve, Split

\* What waits after a call waited before, but for the caller itself.
LEMMA SplittingPushed ==
    ASSUME StackOK, stack # <<>>, StackOK', Len(stack') = Len(stack) + 1, Below,
           stack'[Len(stack)].fn = top.fn, Splitting'
    PROVE  Splitting \/ top.fn = "memory_split"
<1> DEFINE n == Len(stack)
<1>1. n \in Nat /\ n >= 1 /\ DOMAIN stack = 1..n
    BY Bottom
<1>2. DOMAIN stack' = 1..(n + 1)
    BY <1>1 DEF StackOK
<1>3. PICK i \in DOMAIN stack' : i # Len(stack') /\ stack'[i].fn = "memory_split"
    BY DEF Splitting
<1>4. CASE i = n
    BY <1>3, <1>4
<1>5. CASE i # n
  <2>1. i \in 1..(n - 1)
      BY <1>1, <1>2, <1>3, <1>5
  <2>2. stack[i].fn = "memory_split"
      BY <2>1, <1>3 DEF Below
  <2> QED BY <2>1, <2>2, <1>1 DEF Splitting
<1> QED BY <1>4, <1>5

\* A step that calls nothing starts no split further out.
LEMMA SplittingKept ==
    ASSUME StackOK, stack # <<>>, stack' \in Seq(Frame), Len(stack') <= Len(stack),
           Below, Splitting'
    PROVE  Splitting
<1> DEFINE n == Len(stack)
<1>1. n \in Nat /\ n >= 1 /\ DOMAIN stack = 1..n
    BY Bottom
<1>2. DOMAIN stack' = 1..Len(stack') /\ Len(stack') \in Nat
    BY <1>1
<1>3. PICK i \in DOMAIN stack' : i # Len(stack') /\ stack'[i].fn = "memory_split"
    BY DEF Splitting
<1>4. i \in 1..(n - 1)
    BY <1>1, <1>2, <1>3
<1>5. stack[i].fn = "memory_split"
    BY <1>3, <1>4 DEF Below
<1> QED BY <1>1, <1>4, <1>5 DEF Splitting

\* What a scan of the list finds depends on the regions alone.
LEMMA QuietFit ==
    ASSUME UNCHANGED regions
    PROVE  TightFit' = TightFit /\ FirstFit' = FirstFit
           /\ \A b, s : Hits(b, s)' = Hits(b, s)
BY DEF TightFit, FirstFit, Hits, Fits, Covers

\* A call is starting: nothing has been returned to it.
LEMMA Starting ==
    ASSUME NEW f, top' = f, f.fn # "caller", f.pc \in {"start", "try"},
           f.fn = "memory_split" =>
              \/ NonEmpty(memory_map_cache)' # {}
              \/ TightFit' /\ f = Split((FirstFit').at, SlabSize)
    PROVE  Returned'
<1> SUFFICES ASSUME stack' # <<>> PROVE Returned'
    BY DEF Returned
<1> QED BY DEF Returned, Split, SlabSize

\* A call that is no part of memory_init and splits no region.
LEMMA Pushed ==
    ASSUME Inv, Quiet, stack # <<>>, Len(stack) <= MaxDepth, ~Booting,
           top.fn \notin {"caller", "memory_split"},
           NEW f \in GoodFrames, f.fn \notin {"caller", "memory_split"},
           f.pc \in {"start", "try"},
           NEW pc \in Places(top.fn), Call(f, pc), Calls(f, [top EXCEPT !.pc = pc]),
           HoldsRange(f) => <<f.p, f.size>> \in Unheld,
           Splitting =>
              /\ NonEmpty(memory_map_cache) = {} /\ TightFit
              /\ f \in {Reserve(NULL, SlabSize, TRUE), Reserve(NULL, MapSlabSize, FALSE)}
    PROVE  Inv'
<1>1. /\ Plain' /\ MemoryOK' /\ Owned' /\ StackOK' /\ ClientOK' /\ Booted'
      /\ stack' # <<>> /\ top' = f /\ Len(stack') = Len(stack) + 1
      /\ Booting' = Booting /\ stack'[Len(stack)].fn = top.fn /\ Below
    BY Pushes
<1>2. Returned'
    BY <1>1, Starting
<1>3. Waiting'
  <2>1. UNCHANGED regions /\ UNCHANGED cache
      BY DEF Quiet
  <2>2. TightFit' = TightFit /\ NonEmpty(memory_map_cache)' = NonEmpty(memory_map_cache)
      BY <2>1, QuietFit, QuietCaches
  <2>3. Splitting' => Splitting
      BY <1>1, SplittingPushed DEF Inv
  <2>4. ASSUME Splitting'
        PROVE  Circling'
      BY <2>2, <2>3, <2>4, <1>1 DEF Circling, Reserve, SlabSize, MapSlabSize
  <2> QED BY <2>4 DEF Waiting
<1>4. BootPhase'
    BY <1>1 DEF BootPhase
<1> QED BY <1>1, <1>2, <1>3, <1>4 DEF Inv

\* What is known of the frame that runs.
LEMMA Running ==
    ASSUME Inv, stack # <<>>
    PROVE  /\ top \in Frame /\ FrameOK(top)
           /\ top.fn = "__cache_alloc" =>
                top \in AllocFrame /\ top.cache \in DOMAIN cache /\ top.ext \in BOOLEAN
           /\ top.fn = "cache_extend" =>
                /\ top \in ExtendFrame /\ top.old \in DOMAIN cache /\ top.ext \in BOOLEAN
                /\ top.p \in Nat /\ top.size \in Nat \ {0} /\ top.bsize \in Nat \ {0}
           /\ top.fn = "cache_new" => top.p \in Nat /\ top.size \in Nat \ {0}
           /\ top.fn = "__memory_reserve_ex" =>
                /\ top \in ReserveFrame
                /\ top.base \in Nat /\ top.size \in Nat \ {0} /\ top.ext \in BOOLEAN
                /\ top.ext => top.base = NULL /\ top.size = SlabSize
           /\ top.fn = "memory_split" =>
                top \in SplitFrame /\ top.size \in Nat \ {0} /\ Splittable(top)
<1>1. top \in Frame /\ FrameOK(top)
    BY Bottom DEF Inv, GoodFrames
<1>2. /\ top.fn = "__cache_alloc" => top \in AllocFrame
      /\ top.fn = "cache_extend" => top \in ExtendFrame
      /\ top.fn = "cache_new" => top \in NewFrame
      /\ top.fn = "__memory_reserve_ex" => top \in ReserveFrame
      /\ top.fn = "memory_split" => top \in SplitFrame
    BY <1>1, FrameKinds
<1>3. \A f \in AllocFrame : f.ext \in BOOLEAN
    BY DEF AllocFrame
<1>4. \A f \in ExtendFrame :
         f.p \in Nat /\ f.size \in Nat \ {0} /\ f.bsize \in Nat \ {0} /\ f.ext \in BOOLEAN
    BY DEF ExtendFrame
<1>5. \A f \in NewFrame : f.p \in Nat /\ f.size \in Nat \ {0}
    BY DEF NewFrame
<1>6. \A f \in ReserveFrame : f.base \in Nat /\ f.size \in Nat \ {0} /\ f.ext \in BOOLEAN
    BY DEF ReserveFrame
<1>7. \A f \in SplitFrame : f.size \in Nat \ {0}
    BY DEF SplitFrame
<1> QED BY <1>1, <1>2, <1>3, <1>4, <1>5, <1>6, <1>7 DEF FrameOK

\* The record a frame is after the call it makes.
LEMMA Resumed ==
    ASSUME NEW f \in Frame, NEW pc \in Places(f.fn)
    PROVE  LET g == [f EXCEPT !.pc = pc]
           IN  /\ g.fn = f.fn /\ g.pc = pc
               /\ f.fn = "__cache_alloc" => g.cache = f.cache
BY GoesOn DEF Same

\* The types of a cache's fields.
LEMMA CacheFields ==
    ASSUME CachesOK, NEW c \in DOMAIN cache
    PROVE  /\ cache[c].base \in Nat /\ cache[c].size \in Nat \ {0}
           /\ cache[c].bsize \in Nat \ {0} /\ cache[c].free \in Seq(Nat)
           /\ metadata_cache \in DOMAIN cache /\ memory_map_cache \in DOMAIN cache
BY DEF CachesOK, CacheRec

\* __cache_alloc reserves a slab for metadata_cache first.
LEMMA Safe_AllocExtendMetadata ==
    ASSUME Inv, AllocExtendMetadata
    PROVE  Inv'
<1> DEFINE f == Reserve(NULL, SlabSize, TRUE)
           g == [top EXCEPT !.pc = "metadata_reserved"]
<1>1. /\ stack # <<>> /\ Len(stack) <= MaxDepth /\ top.fn = "__cache_alloc" /\ top.pc = "try"
      /\ NonEmpty(top.cache) = {} /\ Quiet
      /\ Call(Reserve(NULL, cache[metadata_cache].size, TRUE), "metadata_reserved")
    BY DEF AllocExtendMetadata, At, Quiet, client
<1>2. f \in GoodFrames
    BY MadeFrames DEF Inv, MemoryOK
<1>3. Call(f, "metadata_reserved")
    BY <1>1 DEF Inv, MemoryOK, CachesOK
<1>4. "metadata_reserved" \in Places(top.fn)
    BY <1>1 DEF Places
<1>5. g.fn = "__cache_alloc" /\ g.pc = "metadata_reserved"
    BY <1>1, <1>4, Running, Resumed
<1>6. /\ f.fn = "__memory_reserve_ex" /\ f.pc = "start" /\ f.size = SlabSize
      /\ ~HoldsRange(f)
    BY DEF Reserve, HoldsRange
<1>7. ~Booting
    BY <1>1, NotBooting DEF Inv, MemoryOK
<1>8. Splitting => NonEmpty(memory_map_cache) = {} /\ TightFit
    BY <1>1 DEF Inv, Waiting, Served, Circling, Alloc, Reserve, Split
<1> HIDE DEF f, g
<1>9. Calls(f, g)
    BY <1>5, <1>6 DEF Calls, Delivers
<1> QED BY <1>1, <1>2, <1>3, <1>4, <1>6, <1>7, <1>8, <1>9, Pushed DEF f, g

\* The range reserved for metadata_cache passes to cache_extend.
LEMMA Safe_AllocMetadataReserved ==
    ASSUME Inv, AllocMetadataReserved
    PROVE  Inv'
<1> DEFINE f == Extend(metadata_cache, ret, SlabSize, CacheSize, TRUE)
           g == [top EXCEPT !.pc = "reserve"]
<1>1. /\ stack # <<>> /\ Len(stack) <= MaxDepth /\ top.fn = "__cache_alloc"
      /\ top.pc = "metadata_reserved" /\ Quiet /\ ret # NULL
    BY DEF AllocMetadataReserved, At, Quiet, client
<1>2. Call(f, "reserve")
    BY DEF AllocMetadataReserved, Inv, MemoryOK, CachesOK
<1>3. f \in GoodFrames
  <2>1. SlabSize \in Nat \ {0} /\ CacheSize \in Nat \ {0} /\ ret \in Nat
      BY Constants DEF Inv, Plain
  <2>2. metadata_cache \in DOMAIN cache
      BY DEF Inv, MemoryOK, CachesOK
  <2> HIDE DEF SlabSize
  <2> QED BY <2>1, <2>2, MadeFrames DEF Inv, MemoryOK
<1>4. "reserve" \in Places(top.fn)
    BY <1>1 DEF Places
<1>5. g.fn = "__cache_alloc" /\ g.pc = "reserve"
    BY <1>1, <1>4, Running, Resumed
<1>6. f.fn = "cache_extend" /\ f.pc = "start" /\ f.p = ret /\ f.size = SlabSize
    BY DEF Extend
<1>7. <<f.p, f.size>> \in Unheld
    BY <1>1, <1>6 DEF Inv, Returned
<1>8. ~Booting
    BY <1>1, NotBooting DEF Inv, MemoryOK
<1>9. ~Splitting
    BY <1>1, NotSplitting DEF Inv
<1> HIDE DEF f, g
<1>10. Calls(f, g)
    BY <1>5, <1>6 DEF Calls
<1> QED BY <1>1, <1>2, <1>3, <1>4, <1>6, <1>7, <1>8, <1>9, <1>10, Pushed
           DEF f, g

\* __cache_alloc reserves a slab for its own cache.
LEMMA Safe_AllocReserve ==
    ASSUME Inv, AllocReserve
    PROVE  Inv'
<1> DEFINE f == Reserve(NULL, cache[top.cache].size, FALSE)
           g == [top EXCEPT !.pc = "reserved"]
<1>1. /\ stack # <<>> /\ Len(stack) <= MaxDepth /\ top.fn = "__cache_alloc"
      /\ Quiet /\ Call(f, "reserved")
      /\ (top.pc = "try" /\ NonEmpty(top.cache) = {}) \/ top.pc = "reserve"
    BY DEF AllocReserve, At, Quiet, client
<1>2. top.cache \in DOMAIN cache /\ cache[top.cache].size \in Nat \ {0}
    BY <1>1, Running, CacheFields DEF Inv, MemoryOK
<1>3. f \in GoodFrames
    BY <1>2, MadeFrames DEF Inv, MemoryOK, NULL
<1>4. "reserved" \in Places(top.fn)
    BY <1>1 DEF Places
<1>5. g.fn = "__cache_alloc" /\ g.pc = "reserved" /\ g.cache = top.cache
    BY <1>1, <1>4, Running, Resumed
<1>6. /\ f.fn = "__memory_reserve_ex" /\ f.pc = "start" /\ f.size = cache[top.cache].size
      /\ ~HoldsRange(f)
    BY DEF Reserve, HoldsRange
<1>7. ~Booting
    BY <1>1, NotBooting DEF Inv, MemoryOK
<1>8. Splitting => /\ NonEmpty(memory_map_cache) = {} /\ TightFit
                   /\ f = Reserve(NULL, MapSlabSize, FALSE)
  <2>1. ASSUME Splitting
        PROVE  /\ NonEmpty(memory_map_cache) = {} /\ TightFit /\ top.cache = memory_map_cache
      BY <1>1, <2>1 DEF Inv, Waiting, Served, Circling, Alloc, Reserve, Split
  <2>2. cache[memory_map_cache].size = MapSlabSize
      BY DEF Inv, MemoryOK, CachesOK
  <2> QED BY <2>1, <2>2
<1> HIDE DEF f, g
<1>9. Calls(f, g)
    BY <1>5, <1>6 DEF Calls, Delivers
<1> QED BY <1>1, <1>3, <1>4, <1>6, <1>7, <1>8, <1>9, Pushed DEF f, g

\* The range reserved passes to cache_extend.
LEMMA Safe_AllocReserved ==
    ASSUME Inv, AllocReserved
    PROVE  Inv'
<1> DEFINE c == cache[top.cache]
           f == Extend(top.cache, ret, c.size, c.bsize, FALSE)
           g == [top EXCEPT !.pc = "try"]
<1>1. /\ stack # <<>> /\ Len(stack) <= MaxDepth /\ top.fn = "__cache_alloc"
      /\ top.pc = "reserved" /\ Quiet /\ ret # NULL /\ Call(f, "try")
    BY DEF AllocReserved, At, Quiet, client
<1>2. /\ top.cache \in DOMAIN cache /\ c.size \in Nat \ {0} /\ c.bsize \in Nat \ {0}
      /\ ret \in Nat
    BY <1>1, Running, CacheFields DEF Inv, MemoryOK, Plain
<1>3. f \in GoodFrames
    BY <1>2, MadeFrames DEF Inv, MemoryOK
<1>4. "try" \in Places(top.fn)
    BY <1>1 DEF Places
<1>5. g.fn = "__cache_alloc" /\ g.pc = "try"
    BY <1>1, <1>4, Running, Resumed
<1>6. f.fn = "cache_extend" /\ f.pc = "start" /\ f.p = ret /\ f.size = c.size
    BY DEF Extend
<1>7. <<f.p, f.size>> \in Unheld
    BY <1>1, <1>6 DEF Inv, Returned
<1>8. ~Booting
    BY <1>1, NotBooting DEF Inv, MemoryOK
<1>9. ~Splitting
    BY <1>1, NotSplitting DEF Inv
<1> HIDE DEF f, g
<1>10. Calls(f, g)
    BY <1>5, <1>6 DEF Calls
<1> QED BY <1>1, <1>3, <1>4, <1>6, <1>7, <1>8, <1>9, <1>10, Pushed DEF f, g

\* cache_extend and cache_new ask for a struct cache.
Extends ==
    /\ At("cache_extend", "start")
    /\ Call(Alloc(metadata_cache, top.ext), "got")
    /\ UNCHANGED <<regions, cache, client>>
Creates ==
    /\ At("cache_new", "start")
    /\ Call(Alloc(metadata_cache, FALSE), "got")
    /\ UNCHANGED <<regions, cache, client>>

\* cache_extend and cache_new ask for a struct cache.
LEMMA Safe_Extends ==
    ASSUME Inv, Extends \/ Creates
    PROVE  Inv'
<1>1. PICK ext \in BOOLEAN :
         /\ stack # <<>> /\ Len(stack) <= MaxDepth
         /\ top.fn \in {"cache_extend", "cache_new"} /\ top.pc = "start" /\ Quiet
         /\ Call(Alloc(metadata_cache, ext), "got")
  <2>1. CASE Extends
    <3>1. /\ stack # <<>> /\ Len(stack) <= MaxDepth
          /\ top.fn = "cache_extend" /\ top.pc = "start" /\ Quiet
          /\ Call(Alloc(metadata_cache, top.ext), "got")
        BY <2>1 DEF Extends, At, Quiet, client
    <3>2. top.ext \in BOOLEAN
        BY <3>1, Running
    <3> QED BY <3>1, <3>2
  <2>2. CASE Creates
      BY <2>2 DEF Creates, At, Quiet, client
  <2> QED BY <2>1, <2>2
<1> DEFINE f == Alloc(metadata_cache, ext)
           g == [top EXCEPT !.pc = "got"]
<1>2. metadata_cache \in DOMAIN cache
    BY DEF Inv, MemoryOK, CachesOK
<1>3. f \in GoodFrames
    BY <1>2, MadeFrames DEF Inv, MemoryOK
<1>4. "got" \in Places(top.fn)
    BY <1>1 DEF Places
<1>5. g.fn = top.fn /\ g.pc = "got"
    BY <1>1, <1>4, Running, Resumed
<1>6. /\ f.fn = "__cache_alloc" /\ f.pc = "try" /\ f.cache = metadata_cache
      /\ ~HoldsRange(f)
    BY DEF Alloc, HoldsRange
<1>7. ~Booting
    BY <1>1, NotBooting DEF Inv, MemoryOK
<1>8. ~Splitting
    BY <1>1, NotSplitting DEF Inv
<1>9. Call(f, "got")
    BY <1>1
<1> HIDE DEF f, g
<1>10. Calls(f, g)
    BY <1>1, <1>5, <1>6 DEF Calls
<1> QED BY <1>1, <1>3, <1>4, <1>6, <1>7, <1>8, <1>9, <1>10, Pushed DEF f, g

\* __memory_reserve_ex sees to memory_map_cache first.
LEMMA Safe_ReserveExtendMap ==
    ASSUME Inv, ReserveExtendMap
    PROVE  Inv'
<1> DEFINE f == Reserve(NULL, SlabSize, TRUE)
           g == [top EXCEPT !.pc = "map_reserved"]
<1>1. /\ stack # <<>> /\ Len(stack) <= MaxDepth /\ top.fn = "__memory_reserve_ex"
      /\ top.pc = "start" /\ RunningOut(memory_map_cache) /\ ~top.ext
      /\ Quiet /\ Call(f, "map_reserved")
    BY DEF ReserveExtendMap, At, Quiet, client, SlabSize
<1>2. f \in GoodFrames
    BY MadeFrames DEF Inv, MemoryOK
<1>3. "map_reserved" \in Places(top.fn)
    BY <1>1 DEF Places
<1>4. g.fn = "__memory_reserve_ex" /\ g.pc = "map_reserved"
    BY <1>1, <1>3, Running, Resumed
<1>5. /\ f.fn = "__memory_reserve_ex" /\ f.pc = "start" /\ f.size = SlabSize
      /\ ~HoldsRange(f)
    BY DEF Reserve, HoldsRange
<1>6. ~Booting
    BY <1>1, NotBooting DEF Inv, MemoryOK
<1>7. Splitting => NonEmpty(memory_map_cache) = {} /\ TightFit
    BY <1>1 DEF Inv, Waiting, Served, Circling, Alloc, Reserve, Split
<1> HIDE DEF f, g
<1>8. Calls(f, g)
    BY <1>4, <1>5 DEF Calls, Delivers
<1> QED BY <1>1, <1>2, <1>3, <1>5, <1>6, <1>7, <1>8, Pushed DEF f, g

\* The range reserved for memory_map_cache passes to cache_extend.
LEMMA Safe_ReserveMapReserved ==
    ASSUME Inv, ReserveMapReserved
    PROVE  Inv'
<1> DEFINE f == Extend(memory_map_cache, ret, SlabSize, CacheSize, FALSE)
           g == [top EXCEPT !.pc = "scan"]
<1>1. /\ stack # <<>> /\ Len(stack) <= MaxDepth /\ top.fn = "__memory_reserve_ex"
      /\ top.pc = "map_reserved" /\ ret # NULL /\ Quiet /\ Call(f, "scan")
    BY DEF ReserveMapReserved, At, Quiet, client, SlabSize
<1>2. f \in GoodFrames
  <2>1. SlabSize \in Nat \ {0} /\ CacheSize \in Nat \ {0} /\ ret \in Nat
      BY Constants DEF Inv, Plain
  <2>2. memory_map_cache \in DOMAIN cache
      BY DEF Inv, MemoryOK, CachesOK
  <2> HIDE DEF SlabSize
  <2> QED BY <2>1, <2>2, MadeFrames DEF Inv, MemoryOK
<1>3. "scan" \in Places(top.fn)
    BY <1>1 DEF Places
<1>4. g.fn = "__memory_reserve_ex" /\ g.pc = "scan"
    BY <1>1, <1>3, Running, Resumed
<1>5. /\ f.fn = "cache_extend" /\ f.pc = "start" /\ f.p = ret /\ f.size = SlabSize
      /\ f.old = memory_map_cache /\ f.bsize = CacheSize
    BY DEF Extend
<1>6. <<f.p, f.size>> \in Unheld
    BY <1>1, <1>5 DEF Inv, Returned
<1>7. ~Booting
    BY <1>1, NotBooting DEF Inv, MemoryOK
<1>8. ~Splitting
    BY <1>1, NotSplitting DEF Inv
<1> HIDE DEF f, g
<1>9. Calls(f, g)
    BY <1>4, <1>5 DEF Calls
<1> QED BY <1>1, <1>2, <1>3, <1>5, <1>6, <1>7, <1>8, <1>9, Pushed DEF f, g

\* __memory_reserve_ex starts again once the part in front is off.
LEMMA Safe_ReserveAgain ==
    ASSUME Inv, ReserveAgain
    PROVE  Inv'
<1> DEFINE f == Reserve(top.base, top.size, FALSE)
<1>1. /\ stack # <<>> /\ top.fn = "__memory_reserve_ex" /\ top.pc = "front_split"
      /\ Quiet /\ TailCall(f)
    BY DEF ReserveAgain, At, Quiet, client
<1>2. top \in Frame /\ top.base \in Nat /\ top.size \in Nat \ {0}
    BY <1>1, Running
<1>3. f \in GoodFrames
    BY <1>2, MadeFrames DEF Inv, MemoryOK
<1>4. /\ f.fn = "__memory_reserve_ex" /\ f.pc = "start" /\ f.size = top.size
      /\ f.base = top.base /\ ~HoldsRange(f)
    BY DEF Reserve, HoldsRange
<1> HIDE DEF f
<1>5. \A h : Calls(top, h) => Calls(f, h)
    BY <1>1, <1>4 DEF Calls, Delivers
<1>6. \A h : <<top, h>> \in Links => <<f, h>> \in Links
    BY <1>2, <1>3, <1>5 DEF Links, GoodFrames
<1>7. /\ Plain' /\ MemoryOK' /\ Owned' /\ StackOK' /\ ClientOK' /\ Booted'
      /\ stack' # <<>> /\ top' = f /\ Len(stack') = Len(stack)
      /\ Booting' = Booting /\ Below
    BY <1>1, <1>3, <1>4, <1>6, Tails
<1>8. ~Booting /\ ~Splitting
    BY <1>1, NotBooting, NotSplitting DEF Inv, MemoryOK
<1>9. Returned'
    BY <1>4, <1>7, Starting
<1>10. Waiting'
  <2>1. stack' \in Seq(Frame) /\ Len(stack') <= Len(stack)
      BY <1>1, <1>7, Bottom DEF Inv, StackOK
  <2>2. ~Splitting'
      BY <1>1, <1>7, <1>8, <2>1, SplittingKept DEF Inv
  <2> QED BY <2>2 DEF Waiting
<1>11. BootPhase'
    BY <1>7, <1>8 DEF BootPhase
<1> QED BY <1>7, <1>9, <1>10, <1>11 DEF Inv

\* Where memory_init is when its reservation runs.
BootServing ==
    \/ Last.arg = <<CachesCall>> /\ Serving(KernelCall, 3)
    \/ Last.arg = <<>> /\ Serving(CachesCall, 2)

\* The reservations of memory_init do not change.
LEMMA BootCalls ==
    /\ LowMemoryCall' = LowMemoryCall /\ KernelCall' = KernelCall /\ CachesCall' = CachesCall
    /\ metadata_cache' = metadata_cache /\ memory_map_cache' = memory_map_cache
    /\ BootLen' = BootLen /\ BootEnd' = BootEnd
    /\ KernelCall.base = KernelBase /\ KernelCall.size = KernelEnd - KernelBase
    /\ CachesCall.base = KernelEnd /\ CachesCall.size = BootLen
    /\ LowMemoryCall.base = NULL /\ LowMemoryCall.size = LowMemory
    /\ \A call \in {LowMemoryCall, KernelCall, CachesCall} :
          call.fn = "__memory_reserve_ex" /\ call.pc = "start" /\ ~call.ext
BY DEF LowMemoryCall, KernelCall, CachesCall, Reserve, metadata_cache,
       memory_map_cache, BootLen, BootEnd

\* A split during memory_init is that of its second or third reservation.
LEMMA BootIsServing ==
    ASSUME StackOK, BootPhase, Booting, top.fn \in {"memory_split", "__cache_alloc"}
    PROVE  BootServing
<1>1. Len(stack) # 1 /\ top # LowMemoryCall
    BY Bottom, BootCalls DEF Booting
<1> QED BY <1>1 DEF BootPhase, BootServing

\* A step within a reservation of memory_init.
LEMMA BootStillServing ==
    ASSUME BootPhase, Booting, BootServing', Last' = Last,
           DOMAIN cache' = DOMAIN cache,
           cache'[memory_map_cache].slabs = cache[memory_map_cache].slabs,
           UNCHANGED <<grants, caches, objects>>
    PROVE  BootPhase'
<1>1. /\ DOMAIN cache' = {metadata_cache', memory_map_cache'}
      /\ cache'[memory_map_cache'].slabs = <<>>
      /\ grants' = {} /\ caches' = {} /\ objects' = {}
    BY BootCalls DEF BootPhase
<1> QED BY <1>1 DEF BootPhase, BootServing

\* The call of memory_init is cut off: the steps of its split.
Cutting(call, i) == [Split(regions[i].at, call.size) EXCEPT !.pc = "got"]

\* memory_split asks for its struct memory_map during memory_init.
LEMMA SplitServes ==
    ASSUME NEW call \in {KernelCall, CachesCall}, NEW n, Serving(call, n), Quiet,
           top.fn = "memory_split", top.pc = "start", Len(stack) \in Nat,
           top = stack[Len(stack)],
           Len(stack') = Len(stack) + 1, top' = Alloc(memory_map_cache, FALSE),
           stack'[Len(stack)] = [top EXCEPT !.pc = "got"]
    PROVE  Serving(call, n)'
<1>1. top # call
    BY BootCalls
<1>2. top # Alloc(memory_map_cache, FALSE)
    BY DEF Alloc
<1>3. \A i : top # Cutting(call, i)
    BY DEF Cutting, Split
<1>4. PICK i \in DOMAIN regions :
         /\ RoomAt(i, call.base) /\ Len(stack) = 2
         /\ top = Split(regions[i].at, call.size) /\ Structs(n)
    BY <1>1, <1>2, <1>3 DEF Serving, Cutting
<1>5. LowDone
    BY DEF Serving
<1>6. regions' = regions /\ cache' = cache
    BY DEF Quiet
<1>7. LowDone' /\ RoomAt(i, call.base)' /\ Structs(n)'
    BY <1>4, <1>5, <1>6, BootCalls
       DEF LowDone, RoomAt, Structs, End, memory_map_cache
<1>8. /\ i \in DOMAIN regions' /\ Len(stack') = 3
      /\ stack'[2] = [Split(regions'[i].at, call.size) EXCEPT !.pc = "got"]
    BY <1>4, <1>6
<1> QED BY <1>7, <1>8 DEF Serving, Alloc, Split, memory_map_cache

SplitStarts ==
    /\ At("memory_split", "start")
    /\ Call(Alloc(memory_map_cache, FALSE), "got")
    /\ UNCHANGED <<regions, cache, client>>

\* memory_split asks for a struct memory_map: its region stays fit for the
\* split, since the call for the struct is served at once or never returns.
LEMMA Safe_SplitStarts ==
    ASSUME Inv, SplitStarts
    PROVE  Inv'
<1> DEFINE f == Alloc(memory_map_cache, FALSE)
           g == [top EXCEPT !.pc = "got"]
           n == Len(stack)
<1>1. /\ stack # <<>> /\ Len(stack) <= MaxDepth /\ top.fn = "memory_split"
      /\ top.pc = "start" /\ Quiet /\ Call(f, "got")
    BY DEF SplitStarts, At, Quiet, client
<1>2. f \in GoodFrames
    BY MadeFrames DEF Inv, MemoryOK, CachesOK
<1>3. "got" \in Places(top.fn)
    BY <1>1 DEF Places
<1>4. g \in Frame /\ g.fn = "memory_split" /\ g.pc = "got"
    BY <1>1, <1>3, Running, Resumed, GoesOn
<1>5. /\ f.fn = "__cache_alloc" /\ f.pc = "try" /\ f.cache = memory_map_cache
      /\ ~f.ext /\ ~HoldsRange(f)
    BY DEF Alloc, HoldsRange
<1> HIDE DEF f, g
<1>6. Calls(f, g)
    BY <1>4, <1>5 DEF Calls
<1>7. /\ Plain' /\ MemoryOK' /\ Owned' /\ StackOK' /\ ClientOK' /\ Booted'
      /\ stack' # <<>> /\ top' = f /\ Len(stack') = n + 1
      /\ Booting' = Booting /\ Last' = Last /\ Below
    BY <1>1, <1>2, <1>3, <1>5, <1>6, Pushes DEF g
<1>8. Returned'
    BY <1>5, <1>7, Starting
<1>9. n \in Nat /\ n >= 1 /\ DOMAIN stack = 1..n /\ top = stack[n] /\ stack \in Seq(Frame)
    BY <1>1, Bottom DEF Inv
<1>10. stack'[n] = g
    BY <1>1, <1>2, <1>4, <1>9, CallEffect DEF GoodFrames, g
<1>11. /\ TightFit' = TightFit /\ FirstFit' = FirstFit
       /\ NonEmpty(memory_map_cache)' = NonEmpty(memory_map_cache)
  <2>1. UNCHANGED regions /\ UNCHANGED cache
      BY <1>1 DEF Quiet
  <2> QED BY <2>1, QuietFit, QuietCaches
<1>12. Waiting'
  <2>1. \/ NonEmpty(memory_map_cache) # {} /\ ~Splitting
        \/ NonEmpty(memory_map_cache) = {} /\ TightFit
    <3>1. Splitting => NonEmpty(memory_map_cache) = {} /\ TightFit
      <4>1. Served => top.fn = "__cache_alloc"
          BY DEF Served, Alloc
      <4>2. Circling => NonEmpty(memory_map_cache) = {} /\ TightFit
          BY DEF Circling
      <4> QED BY <1>1, <4>1, <4>2 DEF Inv, Waiting
    <3>2. NonEmpty(memory_map_cache) # {} \/ TightFit
        BY <1>1 DEF Inv, Returned
    <3> QED BY <3>1, <3>2
  <2>2. CASE NonEmpty(memory_map_cache) # {} /\ ~Splitting
    <3>1. DOMAIN stack' = 1..(n + 1)
        BY <1>7, <1>9 DEF StackOK
    <3>2. \A i \in DOMAIN stack' : i < n + 1 - 1 => stack'[i].fn # "memory_split"
        BY <2>2, <3>1, <1>7, <1>9 DEF Splitting, Below
    <3> QED BY <2>2, <3>2, <1>7, <1>11
               DEF Waiting, Served, f, Alloc, memory_map_cache
  <2>3. CASE NonEmpty(memory_map_cache) = {} /\ TightFit
      BY <2>3, <1>7, <1>11 DEF Waiting, Circling, f, Alloc, memory_map_cache
  <2> QED BY <2>1, <2>2, <2>3
<1>13. BootPhase'
  <2>1. CASE ~Booting
      BY <2>1, <1>7 DEF BootPhase
  <2>2. CASE Booting
    <3>1. BootServing
        BY <1>1, <2>2, BootIsServing DEF Inv
    <3>2. \A call \in {KernelCall, CachesCall} : \A k : Serving(call, k) => Serving(call, k)'
        BY <1>1, <1>7, <1>9, <1>10, SplitServes DEF f, g
    <3>3. Last'.arg = Last.arg
        BY <1>7
    <3>4. BootServing'
        BY <3>1, <3>2, <3>3, BootCalls DEF BootServing
    <3>5. DOMAIN cache' = DOMAIN cache
          /\ cache'[memory_map_cache].slabs = cache[memory_map_cache].slabs
          /\ UNCHANGED <<grants, caches, objects>>
        BY <1>1 DEF Quiet
    <3> QED BY <2>2, <3>4, <3>5, <1>7, BootStillServing DEF Inv
  <2> QED BY <2>1, <2>2
<1> QED BY <1>7, <1>8, <1>12, <1>13 DEF Inv

-----------------------------------------------------------------------------
(* Reservations.                                                           *)

LEMMA FirstHit ==
    ASSUME Sorted, NEW base, NEW size, Hits(base, size) # {}
    PROVE  LET i == First(Hits(base, size))
           IN  /\ i \in Hits(base, size) /\ i \in DOMAIN regions
               /\ \A j \in Hits(base, size) : i <= j
               /\ regions[i].type = Free
               /\ Fits(regions[i], base, size) \/ Covers(regions[i], base)
<1> DEFINE hits == Hits(base, size)
<1>1. hits \in SUBSET Nat
    BY DEF Hits, Sorted
<1> HIDE DEF hits
<1>2. First(hits) \in hits /\ \A j \in hits : First(hits) <= j
    BY <1>1, FirstIn DEF hits
<1> QED BY <1>2 DEF hits, Hits

\* A free region is nobody's, and its range can be given to someone.
LEMMA RangeIsUnheld ==
    ASSUME Sorted, Owned, LowDone, BootRange,
           NEW i \in DOMAIN regions, regions[i].type = Free, NEW size,
           Held' \subseteq Held, <<regions[i].base, size>> \in Ranges'
    PROVE  <<regions[i].base, size>> \in Unheld' /\ regions[i].base # NULL
<1> DEFINE b == regions[i].base
<1>1. \A r \in Ranges : r[1] # b
  <2> SUFFICES ASSUME NEW r \in Ranges, r[1] = b PROVE FALSE
      OBVIOUS
  <2>1. PICK j \in DOMAIN regions : regions[j].base = r[1] /\ regions[j].type = Reserved
      BY DEF Ranges
  <2>2. i = j
      BY <2>1, SameBase
  <2> QED BY <2>1, <2>2 DEF Reserved, Free
<1>2. b # metadata_cache
  <2>1. <<metadata_cache, BootLen>>[1] # b
      BY <1>1 DEF BootRange
  <2> QED BY <2>1
<1>3. b # NULL
  <2>1. 1 \in DOMAIN regions
      BY RegionFields
  <2>2. b = NULL => i = 1
      BY <2>1, SameBase DEF LowDone
  <2> QED BY <2>2 DEF LowDone, Reserved, Free
<1>4. \A h \in Held' : h[3] # b
  <2>1. \A h \in Held : <<h[3], h[4]>>[1] # b
      BY <1>1 DEF Owned
  <2> QED BY <2>1
<1> HIDE DEF b
<1>5. <<b, size>> \in Unheld'
    BY <1>2, <1>3, <1>4 DEF Unheld, NULL, metadata_cache, b
<1> QED BY <1>3, <1>5 DEF b

\* What a reservation that returns leaves in order.
LEMMA RangeReturned ==
    ASSUME Inv, stack # <<>>, ~Splitting,
           top.fn \in {"__memory_reserve_ex", "memory_split"},
           NEW value \in Nat, Return(value), UNCHANGED <<cache, grants, caches, objects>>,
           Sorted', Gapless', BusyBlocks', Ranges \subseteq Ranges', LowDone => LowDone',
           ~Booting /\ value # NULL =>
              \E i \in DOMAIN regions : /\ regions[i].type = Free /\ regions[i].base = value
                                        /\ <<value, top.size>> \in Ranges',
           ~Booting /\ value = NULL =>
              /\ top.fn = "__memory_reserve_ex"
              /\ top.base = NULL => \A i \in DOMAIN regions' :
                                       regions'[i].type = Free => regions'[i].size < top.size
    PROVE  /\ Plain' /\ MemoryOK' /\ Owned' /\ StackOK' /\ Waiting' /\ Returned'
           /\ ClientOK' /\ Booted'
           /\ Booting' = Booting /\ Last' = Last /\ Len(stack') = Len(stack) - 1
           /\ top' = stack[Len(stack) - 1]
<1> DEFINE n == Len(stack)
           g == stack[n - 1]
<1>1. /\ stack' # <<>> /\ Len(stack') = n - 1 /\ n \in Nat /\ n >= 2
      /\ DOMAIN stack' = 1..(n - 1) /\ top' = g /\ <<top, g>> \in Links
      /\ Below /\ ret' = value /\ UNCHANGED status
      /\ Booting' = Booting /\ Last' = Last /\ FramesKept /\ stack' \in Seq(Frame)
    BY Returns DEF Inv
<1>2. CachesOK' /\ FreeBlocks' /\ SlabsKept
    BY QuietCaches DEF Inv, MemoryOK
<1>3. MemoryOK'
    BY <1>2 DEF MemoryOK
<1>4. Plain'
  <2>1. ret' \in Nat /\ status' \in {"ok", "null slab", "overflow"}
      BY <1>1 DEF Inv, Plain
  <2>2. n <= MaxDepth + 1 /\ MaxDepth \in Nat
      BY SizesAssumption DEF Inv, Plain
  <2>3. Len(stack') <= MaxDepth + 1
      BY <1>1, <2>2
  <2> QED BY <2>1, <2>3 DEF Plain
<1>5. Held' \subseteq Held
    BY <1>1, <1>2, HeldKept
<1>6. Owned'
    BY <1>5, OwnedKept DEF Inv
<1>7. CachesStay
    BY DEF CachesStay
<1>8. StackOK'
  <2>1. \A i \in 1..(n - 1) : stack[i].fn # "memory_split"
      BY <1>1, Bottom DEF Inv, Splitting
  <2> QED BY <2>1, <1>7, StackPopped DEF Inv
<1>9. Waiting'
  <2>1. Len(stack') <= Len(stack)
      BY <1>1
  <2>2. ~Splitting'
      BY <1>1, <2>1, SplittingKept DEF Inv
  <2> QED BY <2>2 DEF Waiting
<1>10. ClientOK'
  <2>1. stack'[1] = stack[1]
      BY <1>1 DEF Last
  <2> QED BY <2>1 DEF Inv, ClientOK
<1>11. Booted'
  <2>1. BootRange => BootRange'
      BY DEF BootRange, metadata_cache, BootLen
  <2> QED BY <1>1, <2>1 DEF Inv, Booted, BootRange
<1>12. Returned'
  <2>1. Calls(top, g)
      BY <1>1 DEF Links
  <2>2. CASE Booting
    <3>1. n = 2
        BY <2>2, <1>1, BootSteps DEF Inv, BootTop, Alloc
    <3>2. g.pc = "boot" /\ g.fn = "caller"
        BY <2>2, <3>1, Bottom DEF Booting, Last, Inv
    <3> QED BY <3>2, <1>1 DEF Returned
  <2>3. CASE ~Booting
    <3>1. value # NULL => <<value, top.size>> \in Unheld'
        BY <2>3, <1>5, RangeIsUnheld DEF Inv, MemoryOK, Booted, BootRange
    <3>2. g \in Frame /\ top \in Frame
        BY <1>1 DEF Links
    <3>3. /\ g.fn = "__cache_alloc" => g.pc \in {"try", "metadata_reserved", "reserve", "reserved"}
          /\ g.fn \in {"cache_extend", "cache_new", "memory_split"} => g.pc \in {"start", "got"}
          /\ g.fn = "__memory_reserve_ex" =>
                g.pc \in {"start", "map_reserved", "scan", "front_split"}
          /\ g.fn = "caller" => g.pc \in {"boot", "reserve", "new", "alloc"}
        BY <3>2, FrameKinds
           DEF AllocFrame, ExtendFrame, NewFrame, ReserveFrame, SplitFrame,
               CallerFrame
    <3>4. /\ g.fn \in {"__cache_alloc", "__memory_reserve_ex", "caller"}
          /\ g.pc # "got" /\ g.pc # "scan" /\ g.pc # "new" /\ g.pc # "alloc"
          /\ g.pc \in {"metadata_reserved", "map_reserved"} => top.size = SlabSize
          /\ g.pc = "reserved" => g.fn = "__cache_alloc" /\ top.size = cache[g.cache].size
          /\ g.fn = "caller" /\ g.pc = "reserve" =>
                /\ g.arg \in [base : Nat, size : Nat \ {0}] /\ top.size = g.arg.size
                /\ top.fn = "__memory_reserve_ex" => top.base = g.arg.base
        BY <2>1, <3>2, <3>3, FrameKinds DEF Calls, Delivers
    <3>5. /\ g.fn = "__cache_alloc" /\ g.pc = "metadata_reserved" /\ value # NULL =>
                <<value, SlabSize>> \in Unheld'
          /\ g.fn = "__cache_alloc" /\ g.pc = "reserved" /\ value # NULL =>
                <<value, cache[g.cache].size>> \in Unheld'
          /\ g.pc = "map_reserved" /\ value # NULL => <<value, SlabSize>> \in Unheld'
        BY <3>1, <3>4
    <3>6. g.fn = "caller" /\ g.pc = "reserve" =>
             /\ value # NULL => <<value, g.arg.size>> \in Unheld'
             /\ value = NULL /\ g.arg.base = NULL =>
                   \A i \in DOMAIN regions' :
                      regions'[i].type = Free => regions'[i].size < g.arg.size
        BY <3>1, <3>4, <2>3
    <3> HIDE DEF g
    <3>7. cache' = cache /\ SlabSize' = SlabSize
        BY DEF SlabSize
    <3> QED BY <1>1, <3>4, <3>5, <3>6, <3>7 DEF Returned
  <2> QED BY <2>2, <2>3
<1> QED BY <1>1, <1>3, <1>4, <1>6, <1>8, <1>9, <1>10, <1>11, <1>12

\* The zones come in order.
LEMMA ZonesApart ==
    ASSUME NEW i \in DOMAIN Zones, NEW j \in DOMAIN Zones, i < j
    PROVE  Zones[i].base + Zones[i].size <= Zones[j].base
<1> DEFINE end == Zones[i].base + Zones[i].size
           S == {k \in DOMAIN Zones : i < k /\ Zones[k].base < end}
<1>1. DOMAIN Zones = 1..Len(Zones) /\ Len(Zones) \in Nat
    BY Constants
<1>2. end \in Nat /\ \A k \in DOMAIN Zones : Zones[k].base \in Nat
    BY ZoneFields
<1>3. S \in SUBSET Nat
    BY <1>1
<1>4. \A k \in DOMAIN Zones :
         k + 1 \in DOMAIN Zones => Zones[k].base + Zones[k].size <= Zones[k + 1].base
  <2>1. \A k \in 1..(Len(Zones) - 1) : Zones[k].base + Zones[k].size <= Zones[k + 1].base
      BY ZonesAssumption
  <2>2. \A k \in DOMAIN Zones : k + 1 \in DOMAIN Zones => k \in 1..(Len(Zones) - 1)
      BY <1>1
  <2> QED BY <2>1, <2>2
<1>5. S = {}
  <2> SUFFICES ASSUME S # {} PROVE FALSE
      OBVIOUS
  <2> DEFINE k == First(S)
  <2>1. k \in S /\ \A l \in S : k <= l
    <3> HIDE DEF S
    <3> QED BY <1>3, FirstIn
  <2> HIDE DEF k
  <2>2. k \in DOMAIN Zones /\ i < k /\ Zones[k].base < end
      BY <2>1
  <2>3. k - 1 \in DOMAIN Zones /\ (k - 1) + 1 = k /\ k - 1 < k
      BY <1>1, <2>2
  <2>4. Zones[k - 1].base + Zones[k - 1].size <= Zones[k].base
      BY <1>4, <2>2, <2>3
  <2>5. k - 1 # i
      BY <2>2, <2>4, <1>2
  <2>6. k - 1 \notin S
      BY <2>1, <2>3, <1>1
  <2>7. end <= Zones[k - 1].base
      BY <2>2, <2>3, <2>5, <2>6, <1>1, <1>2
  <2>8. Zones[k - 1].base \in Nat /\ Zones[k - 1].size \in Nat
      BY <2>3, ZoneFields
  <2>9. Zones[k].base \in Nat
      BY <2>2, <1>2
  <2> HIDE DEF end
  <2> QED BY <2>2, <2>4, <2>7, <2>8, <2>9, <1>2
<1> QED BY <1>2, <1>5

\* The kernel lies above low memory, and has room for the first caches.
LEMMA KernelZone ==
    /\ KernelBase \in Nat /\ KernelEnd \in Nat /\ BootLen \in Nat /\ BootEnd \in Nat
    /\ KernelBase > 0 /\ KernelBase < KernelEnd /\ KernelEnd + BootLen < BootEnd
    /\ NULL \in Nat /\ NULL = 0
    /\ \E z \in 2..Len(Zones) : /\ Zones[z].base = KernelBase /\ Zones[z].type = Free
                                /\ BootEnd = End(Zones[z])
<1> DEFINE Fine(z) == /\ Zones[z].base = KernelBase /\ Zones[z].type = Free
                      /\ KernelEnd + BootLen < KernelBase + Zones[z].size
           z == CHOOSE z \in 2..Len(Zones) : Fine(z)
<1>1. \E y \in 2..Len(Zones) : Fine(y)
    BY BootAssumption
<1>2. z \in 2..Len(Zones) /\ Fine(z)
    BY <1>1
<1>3. BootEnd = KernelBase + Zones[z].size
    BY DEF BootEnd
<1>10. /\ Zones[z].base = KernelBase /\ Zones[z].type = Free
       /\ KernelEnd + BootLen < KernelBase + Zones[z].size
    BY <1>2
<1> HIDE DEF z, Fine
<1>4. 1 \in DOMAIN Zones /\ z \in DOMAIN Zones /\ 1 < z
  <2>1. Len(Zones) \in Nat /\ Len(Zones) >= 3 /\ DOMAIN Zones = 1..Len(Zones)
      BY Constants
  <2> QED BY <1>2, <2>1
<1>5. Zones[1].base + Zones[1].size <= Zones[z].base
    BY <1>4, ZonesApart
<1>6. /\ Zones[1].base \in Nat /\ Zones[1].size \in Nat \ {0}
      /\ Zones[z].base \in Nat /\ Zones[z].size \in Nat
    BY <1>4, ZoneFields
<1>7. KernelBase > 0
    BY <1>5, <1>6, <1>10
<1>8. KernelBase < KernelEnd
    BY BootAssumption
<1>9. KernelBase \in Nat /\ KernelEnd \in Nat /\ BootLen \in Nat
    BY Constants
<1>11. BootEnd \in Nat /\ KernelEnd + BootLen < BootEnd /\ BootEnd = End(Zones[z])
    BY <1>3, <1>6, <1>9, <1>10 DEF End
<1> QED BY <1>2, <1>7, <1>8, <1>9, <1>10, <1>11 DEF NULL

\* memory_init reserves low memory first, and from then on it is reserved.
LEMMA BootLow ==
    ASSUME Inv, stack # <<>>, top.fn = "__memory_reserve_ex", top.base = NULL, Booting
    PROVE  /\ Last.arg = <<KernelCall, CachesCall>> /\ Room(KernelBase) /\ Structs(3)
           /\ Len(stack) = 2 /\ top = LowMemoryCall
           /\ regions[1].base = NULL /\ regions[1].size = LowMemory /\ regions[1].type = Free
<1>1. Len(stack) # 1
    BY Bottom DEF Inv
<1>2. top # KernelCall /\ top # CachesCall
    BY BootCalls, KernelZone
<1>3. ~Serving(KernelCall, 3) /\ ~Serving(CachesCall, 2)
  <2>1. \A call, n : Serving(call, n) =>
           top = call \/ top.fn \in {"memory_split", "__cache_alloc"}
    <3>1. \A m, size : /\ Split(m, size).fn = "memory_split"
                       /\ [Split(m, size) EXCEPT !.pc = "got"].fn = "memory_split"
        BY DEF Split
    <3>2. Alloc(memory_map_cache, FALSE).fn = "__cache_alloc"
        BY DEF Alloc
    <3> QED BY <3>1, <3>2 DEF Serving
  <2> QED BY <1>2, <2>1
<1> QED BY <1>1, <1>3 DEF Inv, BootPhase

\* A scan for a given size stops at a region it fits.
LEMMA FitsAnywhere ==
    ASSUME Inv, stack # <<>>, top.fn = "__memory_reserve_ex", top.base = NULL,
           Hits(top.base, top.size) # {}
    PROVE  Fits(regions[First(Hits(top.base, top.size))], top.base, top.size)
<1> DEFINE hits == Hits(top.base, top.size)
           i == First(hits)
<1>1. /\ i \in hits /\ i \in DOMAIN regions /\ \A j \in hits : i <= j
      /\ regions[i].type = Free
      /\ Fits(regions[i], top.base, top.size) \/ Covers(regions[i], top.base)
    BY FirstHit DEF Inv, MemoryOK
<1>2. top.size \in Nat
    BY Running
<1> HIDE DEF i
<1>3. /\ regions[i].base \in Nat /\ regions[i].size \in Nat
      /\ DOMAIN regions = 1..Len(regions) /\ Len(regions) \in Nat
    BY <1>1, RegionFields DEF Inv, MemoryOK
<1>4. 1 \in DOMAIN regions
    BY <1>1, <1>3
<1>5. CASE Booting
  <2>1. /\ regions[1].base = NULL /\ regions[1].size = top.size
        /\ regions[1].type = Free
      BY <1>5, BootLow, BootCalls
  <2>2. 1 \in hits
      BY <1>2, <1>4, <2>1 DEF Hits, Fits
  <2>3. i = 1
      BY <1>1, <1>3, <2>2
  <2> QED BY <1>2, <2>1, <2>3 DEF Fits, i
<1>6. CASE ~Booting
  <2>1. LowDone
      BY <1>6 DEF Inv, Booted
  <2>2. regions[i].base = NULL => i = 1
      BY <1>1, <1>4, <2>1, SameBase DEF LowDone, Inv, MemoryOK
  <2>3. regions[i].base # NULL
      BY <1>1, <2>1, <2>2 DEF LowDone, Reserved, Free
  <2>4. ~Covers(regions[i], top.base)
      BY <1>3, <2>3 DEF Covers, NULL
  <2> QED BY <1>1, <2>4 DEF i
<1> QED BY <1>5, <1>6

\* What a call that scans the list has behind it.
LEMMA Scans ==
    ASSUME Inv, Scanning
    PROVE  /\ stack # <<>> /\ Len(stack) <= MaxDepth
           /\ top.fn = "__memory_reserve_ex" /\ top.pc \in {"start", "scan"}
           /\ top.base \in Nat /\ top.size \in Nat \ {0}
           /\ Splitting => /\ NonEmpty(memory_map_cache) = {} /\ TightFit
                           /\ top.base = NULL /\ top.size = SlabSize
           /\ NonEmpty(memory_map_cache) # {} \/ (top.base = NULL /\ top.size = SlabSize)
<1>1. /\ stack # <<>> /\ Len(stack) <= MaxDepth /\ top.fn = "__memory_reserve_ex"
      /\ \/ top.pc = "scan"
         \/ top.pc = "start" /\ ~(RunningOut(memory_map_cache) /\ ~top.ext)
    BY DEF Scanning, At
<1>2. /\ top.base \in Nat /\ top.size \in Nat \ {0}
      /\ top.ext => top.base = NULL /\ top.size = SlabSize
    BY <1>1, Running
<1>3. NonEmpty(memory_map_cache) # {} \/ (top.base = NULL /\ top.size = SlabSize)
  <2>1. CASE top.pc = "scan"
      BY <1>1, <2>1 DEF Inv, Returned
  <2>2. CASE top.pc = "start"
      BY <1>1, <1>2, <2>2, NoneLeft
  <2> QED BY <1>1, <2>1, <2>2
<1>4. Splitting => NonEmpty(memory_map_cache) = {} /\ TightFit
  <2>1. Served => top.fn = "__cache_alloc"
      BY DEF Served, Alloc
  <2>2. Circling => NonEmpty(memory_map_cache) = {} /\ TightFit
      BY DEF Circling
  <2> QED BY <1>1, <2>1, <2>2 DEF Inv, Waiting
<1> QED BY <1>1, <1>2, <1>3, <1>4

\* What memory_init reserves is there, in front of a free region.
LEMMA BootScans ==
    ASSUME Inv, stack # <<>>, top.fn = "__memory_reserve_ex", top.base # NULL, Booting
    PROVE  LET hits == Hits(top.base, top.size)
           IN  /\ BootServing /\ top \in {KernelCall, CachesCall} /\ Len(stack) = 2
               /\ hits # {} /\ RoomAt(First(hits), top.base)
               /\ ~Fits(regions[First(hits)], top.base, top.size)
               /\ top.base + top.size < BootEnd
<1>1. Len(stack) # 1
    BY Bottom DEF Inv
<1>2. top # LowMemoryCall
    BY BootCalls
<1>3. BootServing
    BY <1>1, <1>2 DEF Inv, BootPhase, BootServing
<1>4. /\ top \in {KernelCall, CachesCall} /\ Len(stack) = 2 /\ Room(top.base)
  <2>1. \A call, n : Serving(call, n) =>
           \/ Len(stack) = 2 /\ top = call /\ Room(call.base)
           \/ top.fn \in {"memory_split", "__cache_alloc"}
    <3>1. \A m, size : /\ Split(m, size).fn = "memory_split"
                       /\ [Split(m, size) EXCEPT !.pc = "got"].fn = "memory_split"
        BY DEF Split
    <3>2. Alloc(memory_map_cache, FALSE).fn = "__cache_alloc"
        BY DEF Alloc
    <3> QED BY <3>1, <3>2 DEF Serving
  <2> QED BY <1>3, <2>1 DEF BootServing
<1>5. PICK i \in DOMAIN regions : RoomAt(i, top.base)
    BY <1>4 DEF Room
<1> DEFINE hits == Hits(top.base, top.size)
<1>6. /\ regions[i].base = top.base /\ regions[i].type = Free /\ End(regions[i]) = BootEnd
      /\ top.base \in Nat /\ regions[i].base \in Nat /\ regions[i].size \in Nat \ {0}
    BY <1>5, RegionFields, Running DEF RoomAt, Inv, MemoryOK
<1>7. i \in hits
    BY <1>6 DEF Hits, Covers
<1>8. \A j \in hits : j = i
  <2> SUFFICES ASSUME NEW j \in hits, j # i PROVE FALSE
      OBVIOUS
  <2>1. j \in DOMAIN regions /\ Covers(regions[j], top.base)
      BY DEF Hits, Fits
  <2>2. /\ regions[j].base \in Nat /\ regions[j].size \in Nat \ {0}
        /\ i \in Nat /\ j \in Nat
      BY <2>1, RegionFields DEF Inv, MemoryOK
  <2>3. /\ i < j => End(regions[i]) <= regions[j].base
        /\ j < i => End(regions[j]) <= regions[i].base
      BY <2>1 DEF Inv, MemoryOK, Sorted
  <2> QED BY <2>1, <2>2, <2>3, <1>6 DEF Covers, End
<1>9. First(hits) = i
  <2>1. First(hits) \in hits
      BY <1>7, FirstHit DEF Inv, MemoryOK
  <2> QED BY <1>8, <2>1
<1>10. top.base + top.size < BootEnd
  <2>1. /\ KernelBase \in Nat /\ KernelEnd \in Nat /\ BootLen \in Nat /\ BootEnd \in Nat
        /\ KernelBase < KernelEnd /\ KernelEnd + BootLen < BootEnd
      BY KernelZone
  <2>2. CASE top = KernelCall
    <3>1. top.base = KernelBase /\ top.size = KernelEnd - KernelBase
        BY <2>2, BootCalls
    <3> QED BY <2>1, <3>1
  <2>3. CASE top = CachesCall
    <3>1. top.base = KernelEnd /\ top.size = BootLen
        BY <2>3, BootCalls
    <3> QED BY <2>1, <3>1
  <2> QED BY <1>4, <2>2, <2>3
<1>11. ~Fits(regions[i], top.base, top.size)
    BY DEF Fits
<1> QED BY <1>3, <1>4, <1>5, <1>7, <1>9, <1>10, <1>11

\* The scan finds no region, or one in which there is no room.
LEMMA ScanFails ==
    ASSUME Inv, Scanning, Return(NULL), Quiet,
           LET hits == Hits(top.base, top.size)
               m == regions[First(hits)]
           IN  \/ hits = {}
               \/ ~Fits(m, top.base, top.size) /\ top.base + top.size >= m.base + m.size
    PROVE  Inv'
<1> DEFINE hits == Hits(top.base, top.size)
           m == regions[First(hits)]
<1>1. /\ stack # <<>> /\ top.fn = "__memory_reserve_ex"
      /\ top.base \in Nat /\ top.size \in Nat \ {0}
    BY Scans
<1>2. top.base = NULL => hits = {}
    BY <1>1, FitsAnywhere
<1>3. ~Splitting
  <2>1. ASSUME Splitting
        PROVE  FALSE
    <3>1. TightFit /\ top.base = NULL /\ top.size = SlabSize
        BY <2>1, Scans
    <3>2. hits = {}
        BY <1>2, <3>1
    <3> QED BY <3>1, <3>2 DEF TightFit
  <2> QED BY <2>1
<1>4. ~Booting
  <2>1. ASSUME Booting, top.base = NULL
        PROVE  FALSE
    <3>1. /\ regions[1].base = NULL /\ regions[1].size = top.size /\ regions[1].type = Free
        BY <1>1, <2>1, BootLow, BootCalls
    <3>2. 1 \in DOMAIN regions
      <4>1. PICK k \in DOMAIN regions : TRUE
          BY <1>1, <2>1, BootLow DEF Room
      <4> QED BY <4>1, RegionFields DEF Inv, MemoryOK
    <3>3. 1 \in hits
        BY <1>1, <2>1, <3>1, <3>2 DEF Hits, Fits
    <3> QED BY <1>2, <2>1, <3>3
  <2>2. ASSUME Booting, top.base # NULL
        PROVE  FALSE
    <3>1. hits # {} /\ RoomAt(First(hits), top.base) /\ top.base + top.size < BootEnd
        BY <1>1, <2>2, BootScans
    <3>2. m.base + m.size = BootEnd
        BY <3>1 DEF RoomAt, End
    <3>3. BootEnd \in Nat
        BY KernelZone
    <3> QED BY <1>1, <3>1, <3>2, <3>3
  <2> QED BY <2>1, <2>2
<1>5. MemoryOK'
    BY QuietMemory DEF Inv
<1>6. Ranges' = Ranges
    BY QuietRegions DEF Quiet
<1>7. LowDone => LowDone'
    BY DEF LowDone, Quiet
<1>8. top.base = NULL => \A i \in DOMAIN regions' :
         regions'[i].type = Free => regions'[i].size < top.size
  <2> SUFFICES ASSUME top.base = NULL, NEW i \in DOMAIN regions, regions[i].type = Free
               PROVE  regions[i].size < top.size
      BY DEF Quiet
  <2>1. ~(regions[i].size >= top.size)
      BY <1>2 DEF Hits, Fits
  <2>2. regions[i].size \in Nat
      BY RegionFields DEF Inv, MemoryOK
  <2> QED BY <1>1, <2>1, <2>2
<1>9. UNCHANGED <<cache, grants, caches, objects>> /\ NULL \in Nat
    BY DEF Quiet, NULL
<1>10. /\ Plain' /\ MemoryOK' /\ Owned' /\ StackOK' /\ Waiting' /\ Returned'
       /\ ClientOK' /\ Booted' /\ Booting' = Booting
  <2> DEFINE v == NULL
  <2>1. Return(v) /\ v \in Nat
      BY <1>9
  <2>2. Sorted' /\ Gapless' /\ BusyBlocks' /\ Ranges \subseteq Ranges'
      BY <1>5, <1>6 DEF MemoryOK
  <2>3. ~(v # NULL)
      OBVIOUS
  <2> HIDE DEF v
  <2> QED BY <1>1, <1>3, <1>7, <1>8, <1>9, <2>1, <2>2, <2>3, RangeReturned
<1>11. BootPhase'
    BY <1>4, <1>10 DEF BootPhase
<1> QED BY <1>10, <1>11 DEF Inv

\* The call goes on as a split of the region found.
LEMMA SplitTakesOver ==
    ASSUME NEW f, f.fn = "memory_split", f.size = top.size, top.fn = "__memory_reserve_ex",
           NEW h, Calls(top, h)
    PROVE  Calls(f, h)
BY DEF Calls, Delivers

\* A split of a free region, of less than the whole of it, is well formed.
LEMMA SplitIsGood ==
    ASSUME Sorted, NEW i \in DOMAIN regions, regions[i].type = Free,
           NEW size \in Nat \ {0}, size < regions[i].size
    PROVE  /\ Split(regions[i].at, size) \in GoodFrames
           /\ ~HoldsRange(Split(regions[i].at, size))
<1>1. regions[i].at \in Nat
    BY RegionFields
<1> DEFINE f == Split(regions[i].at, size)
<1>2. f \in Frame /\ f.fn = "memory_split" /\ f.m = regions[i].at /\ f.size = size
    BY <1>1 DEF Split, Frame, SplitFrame
<1> HIDE DEF f
<1>3. Splittable(f)
    BY <1>2 DEF Splittable
<1>4. f \in GoodFrames
    BY <1>2, <1>3 DEF GoodFrames, FrameOK
<1>5. ~HoldsRange(f)
    BY <1>2 DEF HoldsRange
<1> QED BY <1>4, <1>5 DEF f

\* The scan of a reservation of memory_init finds its region.
LEMMA ScanServes ==
    ASSUME NEW call \in {KernelCall, CachesCall}, NEW n, Serving(call, n), Quiet, top = call,
           Len(stack) = 2, Len(stack') = 2, NEW i \in DOMAIN regions, RoomAt(i, call.base),
           top' = Split(regions[i].at, call.size)
    PROVE  Serving(call, n)'
<1>1. \A m, size : /\ Split(m, size).fn = "memory_split"
                   /\ [Split(m, size) EXCEPT !.pc = "got"].fn = "memory_split"
    BY DEF Split
<1>2. Alloc(memory_map_cache, FALSE).fn = "__cache_alloc"
    BY DEF Alloc
<1>3. LowDone /\ Structs(n)
  <2>1. top.fn = "__memory_reserve_ex"
      BY BootCalls
  <2>2. top # Alloc(memory_map_cache, FALSE)
      BY <1>2, <2>1
  <2>3. \A m, size : top # Split(m, size) /\ top # [Split(m, size) EXCEPT !.pc = "got"]
      BY <1>1, <2>1
  <2> QED BY <2>2, <2>3 DEF Serving
<1>4. regions' = regions /\ cache' = cache
    BY DEF Quiet
<1>5. LowDone' /\ RoomAt(i, call.base)' /\ Structs(n)'
    BY <1>3, <1>4, BootCalls DEF LowDone, RoomAt, Structs, End, memory_map_cache
<1> QED BY <1>4, <1>5 DEF Serving, Split

\* The scan finds a region to cut the range off.
LEMMA ScanSplits ==
    ASSUME Inv, Scanning, Quiet, Hits(top.base, top.size) # {},
           LET i == First(Hits(top.base, top.size))
           IN  /\ TailCall(Split(regions[i].at, top.size))
               /\ top.size < regions[i].size
               /\ \/ Fits(regions[i], top.base, top.size)
                  \/ ~Fits(regions[i], top.base, top.size) /\ top.base = regions[i].base
    PROVE  Inv'
<1> DEFINE hits == Hits(top.base, top.size)
           i == First(hits)
           f == Split(regions[i].at, top.size)
<1>1. /\ stack # <<>> /\ top.fn = "__memory_reserve_ex" /\ top \in Frame
      /\ top.base \in Nat /\ top.size \in Nat \ {0}
    BY Scans, Running
<1>2. /\ i \in DOMAIN regions /\ regions[i].type = Free
      /\ f \in GoodFrames /\ ~HoldsRange(f)
    BY <1>1, FirstHit, SplitIsGood DEF Inv, MemoryOK
<1>3. f.fn = "memory_split" /\ f.size = top.size /\ f.pc = "start"
    BY DEF Split
<1> HIDE DEF f
<1>4. \A h : <<top, h>> \in Links => <<f, h>> \in Links
    BY <1>1, <1>2, <1>3, SplitTakesOver DEF Links, GoodFrames
<1>5. TailCall(f)
    BY DEF f
<1>6. /\ Plain' /\ MemoryOK' /\ Owned' /\ StackOK' /\ ClientOK' /\ Booted'
      /\ stack' # <<>> /\ top' = f /\ Len(stack') = Len(stack)
      /\ Booting' = Booting /\ Last' = Last /\ Below
    BY <1>1, <1>2, <1>4, <1>5, Tails
<1>7. /\ TightFit' = TightFit /\ FirstFit' = FirstFit
      /\ NonEmpty(memory_map_cache)' = NonEmpty(memory_map_cache)
  <2>1. UNCHANGED regions /\ UNCHANGED cache
      BY DEF Quiet
  <2> QED BY <2>1, QuietFit, QuietCaches
<1>8. top.base = NULL /\ top.size = SlabSize =>
         TightFit /\ f = Split(FirstFit.at, SlabSize)
  <2> SUFFICES ASSUME top.base = NULL, top.size = SlabSize
               PROVE  TightFit /\ f = Split(FirstFit.at, SlabSize)
      OBVIOUS
  <2>1. Fits(regions[i], NULL, SlabSize)
      BY <1>1, FitsAnywhere
  <2>2. regions[i] = FirstFit
      BY DEF FirstFit
  <2>3. FirstFit.size # SlabSize
      BY <1>1, <1>2, <2>2
  <2> QED BY <2>1, <2>2, <2>3 DEF TightFit, f
<1>9. Returned'
    BY <1>3, <1>6, <1>7, <1>8, Scans, Starting
<1>10. Waiting'
  <2>1. stack' \in Seq(Frame) /\ Len(stack') <= Len(stack)
      BY <1>1, <1>6, Bottom DEF Inv, StackOK
  <2>2. ASSUME Splitting'
        PROVE  Circling'
    <3>1. Splitting
        BY <1>1, <1>6, <2>1, <2>2, SplittingKept DEF Inv
    <3>2. NonEmpty(memory_map_cache) = {} /\ top.base = NULL /\ top.size = SlabSize
        BY <3>1, Scans
    <3> QED BY <3>2, <1>6, <1>7, <1>8 DEF Circling, Split, SlabSize
  <2> QED BY <2>2 DEF Waiting
<1>11. BootPhase'
  <2>1. CASE ~Booting
      BY <2>1, <1>6 DEF BootPhase
  <2>2. CASE Booting /\ top.base = NULL
    <3>1. /\ regions[1].base = NULL /\ regions[1].size = top.size /\ regions[1].type = Free
        BY <1>1, <2>2, BootLow, BootCalls
    <3>2. 1 \in DOMAIN regions
        BY <1>2, RegionFields DEF Inv, MemoryOK
    <3>3. 1 \in hits
        BY <1>1, <2>2, <3>1, <3>2 DEF Hits, Fits
    <3>4. i <= 1 /\ i \in Nat /\ i >= 1
        BY <3>3, <1>2, FirstHit, RegionFields DEF Inv, MemoryOK
    <3>5. i = 1
        BY <3>4
    <3> QED BY <1>1, <3>1, <3>5
  <2>3. CASE Booting /\ top.base # NULL
    <3>1. /\ BootServing /\ top \in {KernelCall, CachesCall} /\ Len(stack) = 2
          /\ RoomAt(i, top.base)
        BY <1>1, <2>3, BootScans
    <3>2. \A call \in {KernelCall, CachesCall} : \A n : Serving(call, n) => top = call
      <4>1. \A m, size : /\ Split(m, size).fn = "memory_split"
                         /\ [Split(m, size) EXCEPT !.pc = "got"].fn = "memory_split"
          BY DEF Split
      <4>2. Alloc(memory_map_cache, FALSE).fn = "__cache_alloc"
          BY DEF Alloc
      <4> QED BY <1>1, <4>1, <4>2 DEF Serving
    <3>3. \A call \in {KernelCall, CachesCall} : \A n : Serving(call, n) => Serving(call, n)'
        BY <3>1, <3>2, <1>2, <1>6, ScanServes DEF f
    <3>4. Last'.arg = Last.arg
        BY <1>6
    <3>5. BootServing'
        BY <3>1, <3>3, <3>4, BootCalls DEF BootServing
    <3>6. /\ DOMAIN cache' = DOMAIN cache
          /\ cache'[memory_map_cache].slabs = cache[memory_map_cache].slabs
          /\ UNCHANGED <<grants, caches, objects>>
        BY DEF Quiet
    <3> QED BY <2>3, <3>5, <3>6, <1>6, BootStillServing DEF Inv
  <2> QED BY <2>1, <2>2, <2>3
<1> QED BY <1>6, <1>9, <1>10, <1>11 DEF Inv

\* The scan finds a region with a part in front to cut off.
LEMMA ScanSplitsFront ==
    ASSUME Inv, Scanning, Quiet, Hits(top.base, top.size) # {},
           LET i == First(Hits(top.base, top.size))
               m == regions[i]
           IN  /\ ~Fits(m, top.base, top.size)
               /\ top.base + top.size < m.base + m.size /\ top.base # m.base
               /\ Call(Split(m.at, top.base - m.base), "front_split")
    PROVE  Inv'
<1> DEFINE hits == Hits(top.base, top.size)
           i == First(hits)
           m == regions[i]
           size == top.base - m.base
           f == Split(m.at, size)
           g == [top EXCEPT !.pc = "front_split"]
<1>1. /\ stack # <<>> /\ top.fn = "__memory_reserve_ex" /\ top \in Frame
      /\ Len(stack) <= MaxDepth
      /\ top.base \in Nat /\ top.size \in Nat \ {0}
    BY Scans, Running
<1>2. top.base # NULL
    BY <1>1, FitsAnywhere
<1>3. /\ i \in DOMAIN regions /\ m.type = Free /\ Covers(m, top.base)
      /\ m.base \in Nat /\ m.size \in Nat \ {0}
    BY <1>2, FirstHit, RegionFields DEF Inv, MemoryOK, Fits
<1>4. size \in Nat \ {0} /\ size < m.size
  <2>1. top.base # m.base
      OBVIOUS
  <2> HIDE DEF m
  <2> QED BY <1>1, <1>3, <2>1 DEF Covers
<1>5. f \in GoodFrames /\ ~HoldsRange(f)
  <2> HIDE DEF i, size
  <2> QED BY <1>3, <1>4, SplitIsGood DEF Inv, MemoryOK
<1>6. f.fn = "memory_split" /\ f.size = size /\ f.pc = "start"
    BY DEF Split
<1>7. "front_split" \in Places(top.fn)
    BY <1>1 DEF Places
<1>8. g.fn = "__memory_reserve_ex" /\ g.pc = "front_split"
    BY <1>1, <1>7, Resumed
<1>9. Call(f, "front_split")
    OBVIOUS
<1>10. ~Booting
  <2>1. ASSUME Booting
        PROVE  FALSE
    <3>1. RoomAt(i, top.base)
        BY <1>1, <1>2, <2>1, BootScans
    <3> QED BY <3>1 DEF RoomAt
  <2> QED BY <2>1
<1>11. ~Splitting /\ NonEmpty(memory_map_cache) # {}
    BY <1>2, Scans
<1> HIDE DEF f, g, hits, i, m, size
<1>12. Calls(f, g)
    BY <1>6, <1>8 DEF Calls
<1>13. /\ Plain' /\ MemoryOK' /\ Owned' /\ StackOK' /\ ClientOK' /\ Booted'
       /\ stack' # <<>> /\ top' = f /\ Len(stack') = Len(stack) + 1
       /\ Booting' = Booting /\ stack'[Len(stack)].fn = top.fn /\ Below
    BY <1>1, <1>5, <1>7, <1>9, <1>12, Pushes DEF g
<1>14. NonEmpty(memory_map_cache)' # {}
    BY <1>11, QuietCaches DEF Quiet
<1>15. Returned'
    BY <1>6, <1>13, <1>14, Starting
<1>16. ~Splitting'
    BY <1>1, <1>11, <1>13, SplittingPushed DEF Inv
<1>17. Waiting' /\ BootPhase'
    BY <1>10, <1>13, <1>16 DEF Waiting, BootPhase
<1> QED BY <1>13, <1>15, <1>17 DEF Inv

\* The scan finds a region of exactly the size.
LEMMA ScanTakes ==
    ASSUME Inv, Scanning, UNCHANGED <<cache, grants, caches, objects>>,
           Hits(top.base, top.size) # {},
           LET i == First(Hits(top.base, top.size))
               m == regions[i]
           IN  /\ Fits(m, top.base, top.size) /\ m.size = top.size
               /\ regions' = [regions EXCEPT ![i].type = Reserved]
               /\ Return(m.base)
    PROVE  Inv'
<1> DEFINE hits == Hits(top.base, top.size)
           i == First(hits)
           m == regions[i]
<1>1. /\ stack # <<>> /\ top.fn = "__memory_reserve_ex"
      /\ top.base \in Nat /\ top.size \in Nat \ {0}
    BY Scans
<1>2. /\ i \in DOMAIN regions /\ m.type = Free /\ m.base \in Nat /\ i \in Nat /\ i >= 1
      /\ \A j \in hits : i <= j
    BY FirstHit, RegionFields DEF Inv, MemoryOK
<1>3. m.size = top.size /\ Return(m.base) /\ top.base = NULL
      /\ regions' = [regions EXCEPT ![i].type = Reserved]
    BY DEF Fits
<1> HIDE DEF i
<1>4. Usable(m)
    BY <1>2 DEF Inv, MemoryOK, Sorted
<1>5. /\ Sorted' /\ Gapless' /\ OfRegions' = OfRegions
      /\ DOMAIN regions' = DOMAIN regions
      /\ \A j \in DOMAIN regions : j # i => regions'[j] = regions[j]
      /\ regions'[i] = [m EXCEPT !.type = Reserved]
      /\ <<m.base, m.size>> \in Ranges' /\ Ranges \subseteq Ranges'
  <2>1. Reserved \in Nat /\ (Reserved = Free => Usable(m))
      BY DEF Reserved, Free
  <2> DEFINE t == Reserved
  <2>2. t \in Nat /\ (t = Free => Usable(regions[i])) /\ t = Reserved
        /\ regions' = [regions EXCEPT ![i].type = t]
      BY <2>1, <1>3
  <2> HIDE DEF t
  <2> QED BY <1>2, <1>4, <2>2, Retyped DEF Inv, MemoryOK
<1>6. BusyBlocks'
  <2>1. OfObjects' = OfObjects
      BY DEF OfObjects
  <2>2. Busy' = Busy /\ \A c : InCache(c)' = InCache(c)
      BY QuietCaches
  <2>3. /\ OfRegions' \subseteq Busy' \ DOMAIN cache'
        /\ DOMAIN cache' \ {metadata_cache'} \subseteq Busy'
        /\ OfObjects' \subseteq Busy' \ (DOMAIN cache' \cup OfRegions')
        /\ \A o, p \in objects' : o.at = p.at => o = p
      BY <1>5, <2>1, <2>2 DEF Inv, MemoryOK, BusyBlocks, metadata_cache
  <2>4. \A o \in objects' : o.cache \in DOMAIN cache' /\ o.at \in InCache(o.cache)'
    <3> SUFFICES ASSUME NEW o \in objects
                 PROVE  o.cache \in DOMAIN cache' /\ o.at \in InCache(o.cache)'
        OBVIOUS
    <3>1. o.cache \in DOMAIN cache /\ o.at \in InCache(o.cache)
        BY DEF Inv, MemoryOK, BusyBlocks
    <3> QED BY <3>1, <2>2
  <2> QED BY <2>3, <2>4 DEF BusyBlocks
<1>7. LowDone => i # 1 /\ LowDone'
  <2>1. LowDone => i # 1
      BY <1>2 DEF LowDone, Reserved, Free
  <2>2. 1 \in DOMAIN regions
      BY <1>2, RegionFields DEF Inv, MemoryOK
  <2> QED BY <1>5, <2>1, <2>2 DEF LowDone
<1>8. ~Splitting
  <2>1. ASSUME Splitting
        PROVE  FALSE
    <3>1. TightFit /\ top.base = NULL /\ top.size = SlabSize
        BY <2>1, Scans
    <3>2. FirstFit = m
        BY <3>1 DEF FirstFit, i
    <3> QED BY <3>1, <3>2, <1>3 DEF TightFit
  <2> QED BY <2>1
<1>9. ~Booting => m.base # NULL
  <2>1. ASSUME ~Booting
        PROVE  m.base # NULL
    <3>1. LowDone /\ 1 \in DOMAIN regions
        BY <2>1, <1>2, RegionFields DEF Inv, Booted, MemoryOK
    <3>2. m.base = NULL => i = 1
        BY <3>1, <1>2, SameBase DEF LowDone, Inv, MemoryOK
    <3> QED BY <3>1, <3>2, <1>7
  <2> QED BY <2>1
<1>10. /\ Plain' /\ MemoryOK' /\ Owned' /\ StackOK' /\ Waiting' /\ Returned'
       /\ ClientOK' /\ Booted' /\ Booting' = Booting /\ Last' = Last
       /\ Len(stack') = Len(stack) - 1 /\ top' = stack[Len(stack) - 1]
  <2> DEFINE v == m.base
  <2>1. Return(v) /\ v \in Nat /\ (~Booting => v # NULL)
      BY <1>2, <1>3, <1>9
  <2>2. \E j \in DOMAIN regions : /\ regions[j].type = Free /\ regions[j].base = v
                                  /\ <<v, top.size>> \in Ranges'
      BY <1>2, <1>3, <1>5
  <2> HIDE DEF v
  <2> QED BY <1>1, <1>5, <1>6, <1>7, <1>8, <2>1, <2>2, RangeReturned
<1>11. BootPhase'
  <2>1. CASE ~Booting
      BY <2>1, <1>10 DEF BootPhase
  <2>2. CASE Booting
    <3>1. /\ Last.arg = <<KernelCall, CachesCall>> /\ Room(KernelBase) /\ Structs(3)
          /\ Len(stack) = 2
          /\ regions[1].base = NULL /\ regions[1].size = top.size /\ regions[1].type = Free
        BY <1>1, <1>3, <2>2, BootLow, BootCalls
    <3>2. 1 \in DOMAIN regions
        BY <1>2, RegionFields DEF Inv, MemoryOK
    <3>3. 1 \in hits
        BY <1>1, <1>3, <3>1, <3>2 DEF Hits, Fits
    <3>4. i = 1
        BY <1>2, <3>3
    <3>5. LowDone'
      <4>1. m \in Region
          BY <1>2 DEF Inv, MemoryOK, Sorted
      <4>2. [m EXCEPT !.type = Reserved].base = m.base
            /\ [m EXCEPT !.type = Reserved].type = Reserved
          BY <4>1 DEF Region
      <4> QED BY <1>5, <3>1, <3>4, <4>2 DEF LowDone, Reserved
    <3>6. Room(KernelBase)'
      <4>1. PICK k \in DOMAIN regions : RoomAt(k, KernelBase)
          BY <3>1 DEF Room
      <4>2. k # 1
          BY <3>1, <4>1, KernelZone DEF RoomAt
      <4>3. regions'[k] = regions[k]
          BY <1>5, <3>4, <4>2
      <4>4. RoomAt(k, KernelBase)'
          BY <4>1, <4>3, BootCalls DEF RoomAt, End
      <4> QED BY <4>1, <4>4, <1>5 DEF Room
    <3>7. Structs(3)' /\ Len(stack') = 1 /\ Last'.arg = <<KernelCall', CachesCall'>>
        BY <1>10, <3>1, BootCalls DEF Structs, memory_map_cache
    <3>8. /\ DOMAIN cache' = {metadata_cache', memory_map_cache'}
          /\ cache'[memory_map_cache'].slabs = <<>>
          /\ grants' = {} /\ caches' = {} /\ objects' = {}
        BY <2>2, BootCalls DEF Inv, BootPhase
    <3> QED BY <3>5, <3>6, <3>7, <3>8 DEF BootPhase
  <2> QED BY <2>1, <2>2
<1> QED BY <1>10, <1>11 DEF Inv

\* The scan of the list, in all its outcomes.
LEMMA Safe_ReserveScan ==
    ASSUME Inv, ReserveScan
    PROVE  Inv'
<1> DEFINE hits == Hits(top.base, top.size)
           i == First(hits)
           m == regions[i]
<1>1. Scanning /\ UNCHANGED <<cache, grants, caches, objects>>
    BY DEF ReserveScan, client
<1>2. UNCHANGED regions => Quiet
    BY <1>1 DEF Quiet
<1>3. /\ m.base \in Nat \/ hits = {}
      /\ hits # {} => m.size \in Nat
      /\ top.base \in Nat /\ top.size \in Nat
    BY <1>1, Scans, FirstHit, RegionFields DEF Inv, MemoryOK
<1>4. CASE hits = {} /\ Return(NULL) /\ UNCHANGED regions
    BY <1>1, <1>2, <1>4, ScanFails
<1>5. CASE /\ hits # {} /\ Fits(m, top.base, top.size) /\ m.size = top.size
           /\ regions' = [regions EXCEPT ![i].type = Reserved]
           /\ Return(m.base)
    BY <1>1, <1>5, ScanTakes
<1>6. CASE /\ hits # {} /\ Fits(m, top.base, top.size) /\ m.size # top.size
           /\ TailCall(Split(m.at, top.size)) /\ UNCHANGED regions
  <2>1. top.size < m.size
      BY <1>3, <1>6 DEF Fits
  <2> QED BY <1>1, <1>2, <1>6, <2>1, ScanSplits
<1>7. CASE /\ hits # {} /\ ~Fits(m, top.base, top.size)
           /\ top.base + top.size >= m.base + m.size
           /\ Return(NULL) /\ UNCHANGED regions
    BY <1>1, <1>2, <1>7, ScanFails
<1>8. CASE /\ hits # {} /\ ~Fits(m, top.base, top.size)
           /\ top.base + top.size < m.base + m.size
           /\ IF top.base = m.base THEN TailCall(Split(m.at, top.size))
              ELSE Call(Split(m.at, top.base - m.base), "front_split")
           /\ UNCHANGED regions
  <2>1. CASE top.base = m.base
    <3>1. top.size < m.size
        BY <1>3, <1>8, <2>1
    <3> QED BY <1>1, <1>2, <1>8, <2>1, <3>1, ScanSplits
  <2>2. CASE top.base # m.base
      BY <1>1, <1>2, <1>8, <2>2, ScanSplitsFront
  <2> QED BY <2>1, <2>2
<1> QED BY <1>4, <1>5, <1>6, <1>7, <1>8 DEF ReserveScan

SplitReturns ==
    /\ At("memory_split", "got")
    /\ LET i == CHOOSE i \in DOMAIN regions : regions[i].at = top.m
           m == regions[i]
       IN  /\ regions' = InsertBefore([regions EXCEPT ![i] = Rest(m, top.size)],
                                      i, Front(ret, m, top.size))
           /\ Return(m.base)
    /\ UNCHANGED <<cache, client>>

\* memory_init has cut off what it asked for.
LEMMA BootCuts ==
    ASSUME Inv, stack # <<>>, top.fn = "memory_split", top.pc = "got", Booting
    PROVE  \E call \in {KernelCall, CachesCall}, i \in DOMAIN regions :
              /\ LowDone /\ RoomAt(i, call.base) /\ top.m = regions[i].at
              /\ top.size = call.size /\ Len(stack) = 2
              /\ call = KernelCall => Last.arg = <<CachesCall>> /\ Structs(2)
              /\ call = CachesCall => Last.arg = <<>>
<1>1. BootServing
    BY BootIsServing DEF Inv
<1>2. ASSUME NEW call \in {KernelCall, CachesCall}, NEW n, Serving(call, n)
      PROVE  \E i \in DOMAIN regions :
                /\ LowDone /\ RoomAt(i, call.base) /\ top.m = regions[i].at
                /\ top.size = call.size /\ Len(stack) = 2 /\ Structs(n - 1)
  <2>1. top # call
      BY BootCalls
  <2>2. top # Alloc(memory_map_cache, FALSE)
      BY DEF Alloc
  <2>3. \A m, size : top # Split(m, size)
      BY DEF Split
  <2>4. \A m, size : /\ [Split(m, size) EXCEPT !.pc = "got"].m = m
                     /\ [Split(m, size) EXCEPT !.pc = "got"].size = size
      BY DEF Split
  <2>5. LowDone /\ \E i \in DOMAIN regions :
           /\ RoomAt(i, call.base) /\ Len(stack) = 2 /\ Structs(n - 1)
           /\ top = [Split(regions[i].at, call.size) EXCEPT !.pc = "got"]
      BY <1>2, <2>1, <2>2, <2>3 DEF Serving
  <2>6. PICK i \in DOMAIN regions :
           /\ RoomAt(i, call.base) /\ Len(stack) = 2 /\ Structs(n - 1)
           /\ top = [Split(regions[i].at, call.size) EXCEPT !.pc = "got"]
      BY <2>5
  <2>7. top.m = regions[i].at /\ top.size = call.size
      BY <2>4, <2>6
  <2> QED BY <2>5, <2>6, <2>7
<1>3. KernelCall # CachesCall
  <2>1. KernelCall.base < CachesCall.base /\ KernelCall.base \in Nat
      BY BootCalls, KernelZone
  <2> QED BY <2>1
<1>4. CASE Last.arg = <<CachesCall>> /\ Serving(KernelCall, 3)
  <2>1. PICK i \in DOMAIN regions :
           /\ LowDone /\ RoomAt(i, KernelCall.base) /\ top.m = regions[i].at
           /\ top.size = KernelCall.size /\ Len(stack) = 2 /\ Structs(3 - 1)
      BY <1>2, <1>4
  <2>2. 3 - 1 = 2
      OBVIOUS
  <2> QED BY <1>3, <1>4, <2>1, <2>2
<1>5. CASE Last.arg = <<>> /\ Serving(CachesCall, 2)
    BY <1>2, <1>3, <1>5
<1> QED BY <1>1, <1>4, <1>5 DEF BootServing

\* memory_split cuts the region it was given before the allocation.
LEMMA Safe_SplitReturns ==
    ASSUME Inv, SplitReturns
    PROVE  Inv'
<1>1. /\ stack # <<>> /\ top.fn = "memory_split" /\ top.pc = "got"
      /\ UNCHANGED <<cache, grants, caches, objects>>
    BY DEF SplitReturns, At, client
<1>2. top.size \in Nat \ {0} /\ Splittable(top)
    BY <1>1, Running
<1>3. PICK i \in DOMAIN regions : /\ regions[i].at = top.m /\ regions[i].type = Free
                                  /\ top.size < regions[i].size
    BY <1>2 DEF Splittable
<1>4. \A j \in DOMAIN regions : regions[j].at = top.m => j = i
    BY <1>3 DEF Inv, MemoryOK, Sorted
<1> DEFINE m == regions[i]
           size == top.size
<1>5. /\ regions' = InsertBefore([regions EXCEPT ![i] = Rest(m, size)], i, Front(ret, m, size))
      /\ Return(m.base)
    BY <1>3, <1>4 DEF SplitReturns
<1>6. ret \in Fresh /\ ret \in Nat
    BY <1>1 DEF Inv, Returned, Plain
<1>7. ret \notin OfRegions /\ ret \notin DOMAIN cache /\ ret \notin OfObjects /\ ret \in Busy
    BY <1>6 DEF Fresh
<1>8. /\ Sorted' /\ Gapless' /\ OfRegions' = OfRegions \cup {ret}
      /\ Ranges \subseteq Ranges'
      /\ <<m.base, size>> \in Ranges'
      /\ Len(regions') = Len(regions) + 1
      /\ \A k \in 1..(i - 1) : regions'[k] = regions[k]
      /\ regions'[i + 1] = Rest(m, size)
  <2> HIDE DEF size
  <2> QED BY <1>2, <1>3, <1>5, <1>6, <1>7, Cut DEF Inv, MemoryOK, size
<1>9. /\ m \in Region /\ m.base \in Nat /\ m.size \in Nat
      /\ DOMAIN regions = 1..Len(regions) /\ Len(regions) \in Nat
    BY RegionFields DEF Inv, MemoryOK, Sorted
<1>10. BusyBlocks'
  <2>1. OfObjects' = OfObjects
      BY <1>1 DEF OfObjects
  <2>2. Busy' = Busy /\ \A c : InCache(c)' = InCache(c)
      BY <1>1, QuietCaches
  <2>3. /\ OfRegions' \subseteq Busy' \ DOMAIN cache'
        /\ DOMAIN cache' \ {metadata_cache'} \subseteq Busy'
        /\ OfObjects' \subseteq Busy' \ (DOMAIN cache' \cup OfRegions')
        /\ \A o, p \in objects' : o.at = p.at => o = p
      BY <1>1, <1>7, <1>8, <2>1, <2>2
         DEF Inv, MemoryOK, BusyBlocks, metadata_cache
  <2>4. \A o \in objects' : o.cache \in DOMAIN cache' /\ o.at \in InCache(o.cache)'
    <3> SUFFICES ASSUME NEW o \in objects
                 PROVE  o.cache \in DOMAIN cache' /\ o.at \in InCache(o.cache)'
        BY <1>1
    <3>1. o.cache \in DOMAIN cache /\ o.at \in InCache(o.cache)
        BY DEF Inv, MemoryOK, BusyBlocks
    <3> QED BY <1>1, <3>1, <2>2
  <2> QED BY <2>3, <2>4 DEF BusyBlocks
<1>11. LowDone => i # 1 /\ LowDone'
  <2>1. LowDone => i # 1
      BY <1>3 DEF LowDone, Reserved, Free
  <2>2. i # 1 => 1 \in 1..(i - 1)
      BY <1>9
  <2> QED BY <1>8, <2>1, <2>2 DEF LowDone
<1>12. ~Splitting
    BY <1>1, NotSplitting DEF Inv
<1>13. ~Booting => m.base # NULL
  <2>1. ASSUME ~Booting
        PROVE  m.base # NULL
    <3>1. LowDone /\ 1 \in DOMAIN regions
        BY <2>1, <1>9 DEF Inv, Booted
    <3>2. m.base = NULL => i = 1
        BY <3>1, SameBase DEF LowDone, Inv, MemoryOK
    <3> QED BY <3>1, <3>2, <1>11
  <2> QED BY <2>1
<1>14. /\ Plain' /\ MemoryOK' /\ Owned' /\ StackOK' /\ Waiting' /\ Returned'
       /\ ClientOK' /\ Booted' /\ Booting' = Booting /\ Last' = Last
       /\ Len(stack') = Len(stack) - 1 /\ top' = stack[Len(stack) - 1]
  <2> DEFINE v == m.base
  <2>1. Return(v) /\ v \in Nat /\ (~Booting => v # NULL)
      BY <1>5, <1>9, <1>13
  <2>2. \E j \in DOMAIN regions : /\ regions[j].type = Free /\ regions[j].base = v
                                  /\ <<v, top.size>> \in Ranges'
      BY <1>3, <1>8
  <2> HIDE DEF v
  <2> QED BY <1>1, <1>8, <1>10, <1>11, <1>12, <2>1, <2>2, RangeReturned
<1>15. BootPhase'
  <2>1. CASE ~Booting
      BY <2>1, <1>14 DEF BootPhase
  <2>2. CASE Booting
    <3>1. PICK call \in {KernelCall, CachesCall}, k \in DOMAIN regions :
              /\ LowDone /\ RoomAt(k, call.base) /\ top.m = regions[k].at
              /\ size = call.size /\ Len(stack) = 2
              /\ call = KernelCall => Last.arg = <<CachesCall>> /\ Structs(2)
              /\ call = CachesCall => Last.arg = <<>>
        BY <1>1, <2>2, BootCuts
    <3>2. RoomAt(i, call.base) /\ LowDone'
        BY <3>1, <1>4, <1>11
    <3>3. m.base = call.base /\ End(m) = BootEnd
        BY <3>2 DEF RoomAt
    <3>4. Len(stack') = 1 /\ Last'.arg = Last.arg
        BY <3>1, <1>14
    <3>5. /\ DOMAIN cache' = {metadata_cache', memory_map_cache'}
          /\ cache'[memory_map_cache'].slabs = <<>>
          /\ grants' = {} /\ caches' = {} /\ objects' = {}
        BY <1>1, <2>2, BootCalls DEF Inv, BootPhase
    <3>6. CASE call = KernelCall
      <4>1. m.base = KernelBase /\ size = KernelEnd - KernelBase
          BY <3>1, <3>3, <3>6, BootCalls
      <4>2. /\ Rest(m, size).base = m.base + size /\ Rest(m, size).type = m.type
            /\ End(Rest(m, size)) = End(m)
        <5> HIDE DEF size, m
        <5> QED BY <1>2, <1>3, <1>6, <1>9, Parts DEF size, m
      <4>3. Rest(m, size).base = KernelEnd
          BY <4>1, <4>2, KernelZone
      <4>4. i + 1 \in DOMAIN regions'
          BY <1>8, <1>9 DEF Sorted
      <4>5. RoomAt(i + 1, KernelEnd)'
          BY <1>3, <1>8, <3>3, <4>2, <4>3, BootCalls DEF RoomAt, End
      <4>6. Room(KernelEnd)' /\ Structs(2)' /\ Last'.arg = <<CachesCall'>>
          BY <1>1, <3>1, <3>4, <3>6, <4>4, <4>5, BootCalls
             DEF Room, Structs, memory_map_cache
      <4> QED BY <3>2, <3>4, <3>5, <4>6 DEF BootPhase
    <3>7. CASE call = CachesCall
      <4>1. m.base = metadata_cache /\ size = BootLen
          BY <3>1, <3>3, <3>7, BootCalls DEF metadata_cache
      <4>2. <<metadata_cache', BootLen'>> \in Ranges'
          BY <4>1, <1>8, BootCalls
      <4> QED BY <3>1, <3>2, <3>4, <3>5, <3>7, <4>2 DEF BootPhase
    <3> QED BY <3>6, <3>7
  <2> QED BY <2>1, <2>2
<1> QED BY <1>14, <1>15 DEF Inv

-----------------------------------------------------------------------------
(* Returns of __cache_alloc, cache_extend and cache_new.                   *)

\* The first caches are there when another is made.
LEMMA BootRangeThere ==
    ASSUME Inv
    PROVE  /\ Grown = {} \/ BootRange
           /\ ~Booting => LowDone /\ BootRange
BY BootSteps DEF Inv, Booted, BootRange

\* What a return to the caller leaves in order whatever it returns.
LEMMA ReturnKeeps ==
    ASSUME Inv, stack # <<>>, top.fn # "caller", NEW value \in Nat, Return(value),
           UNCHANGED <<regions, grants, caches, objects>>, CachesStay
    PROVE  /\ Plain' /\ StackOK' /\ ClientOK' /\ Booted'
           /\ stack' # <<>> /\ Len(stack') = Len(stack) - 1
           /\ Len(stack) \in Nat /\ Len(stack) >= 2
           /\ top' = stack[Len(stack) - 1]
           /\ <<top, stack[Len(stack) - 1]>> \in Links
           /\ ret' = value /\ Booting' = Booting /\ Last' = Last /\ FramesKept
           /\ Splitting' => Splitting
<1> DEFINE n == Len(stack)
           g == stack[n - 1]
<1>1. /\ stack' # <<>> /\ Len(stack') = n - 1 /\ n \in Nat /\ n >= 2
      /\ DOMAIN stack' = 1..(n - 1) /\ top' = g /\ <<top, g>> \in Links
      /\ Below /\ ret' = value /\ UNCHANGED status
      /\ Booting' = Booting /\ Last' = Last /\ FramesKept /\ stack' \in Seq(Frame)
    BY Returns DEF Inv
<1>2. Plain'
  <2>1. ret' \in Nat /\ status' \in {"ok", "null slab", "overflow"}
      BY <1>1 DEF Inv, Plain
  <2>2. n <= MaxDepth + 1 /\ MaxDepth \in Nat
      BY SizesAssumption DEF Inv, Plain
  <2>3. Len(stack') <= MaxDepth + 1
      BY <1>1, <2>2
  <2> QED BY <2>1, <2>3 DEF Plain
<1>3. StackOK'
  <2>1. \A f \in GoodFrames : f.fn = "memory_split" => Splittable(f)'
      BY SplittableStays DEF GoodFrames, FrameOK
  <2> QED BY <2>1, StackPopped DEF Inv
<1>4. ClientOK'
  <2>1. stack'[1] = stack[1]
      BY <1>1 DEF Last
  <2> QED BY <2>1 DEF Inv, ClientOK, CachesStay
<1>5. Booted'
    BY <1>1, QuietRegions DEF Inv, Booted, LowDone, metadata_cache, BootLen
<1>6. Splitting' => Splitting
  <2>1. Len(stack') <= n
      BY <1>1
  <2> QED BY <1>1, <2>1, SplittingKept DEF Inv
<1> QED BY <1>1, <1>2, <1>3, <1>4, <1>5, <1>6

\* Who is waiting for a block, and what for.
LEMMA BlockFor ==
    ASSUME NEW f \in Frame, NEW g \in Frame, Calls(f, g), f.fn = "__cache_alloc"
    PROVE  \/ g.fn \in {"cache_extend", "cache_new", "memory_split"} /\ g.pc = "got"
           \/ g.fn = "caller" /\ g.pc = "alloc" /\ f.cache = g.arg /\ g.arg \in caches
<1>1. /\ g.fn = "__cache_alloc" => g.pc \in {"try", "metadata_reserved", "reserve", "reserved"}
      /\ g.fn \in {"cache_extend", "cache_new", "memory_split"} => g.pc \in {"start", "got"}
      /\ g.fn = "__memory_reserve_ex" =>
            g.pc \in {"start", "map_reserved", "scan", "front_split"}
      /\ g.fn = "caller" => g.pc \in {"boot", "reserve", "new", "alloc"}
      /\ g.fn \in {"__cache_alloc", "cache_extend", "cache_new", "__memory_reserve_ex",
                   "memory_split", "caller"}
    BY FrameKinds DEF AllocFrame, ExtendFrame, NewFrame, ReserveFrame,
                      SplitFrame, CallerFrame
<1> QED BY <1>1 DEF Calls, Delivers

\* The struct memory_map for a split of memory_init is there.
LEMMA BlockServes ==
    ASSUME NEW call \in {KernelCall, CachesCall}, NEW n \in {2, 3}, Serving(call, n),
           UNCHANGED regions, CachesOK, top.fn = "__cache_alloc",
           cache[memory_map_cache].slabs = <<>>,
           NonEmpty(top.cache) # {},
           LET s == SlabsOf(top.cache)[First(NonEmpty(top.cache))]
           IN  cache' = [cache EXCEPT ![s].free = Tail(@)],
           Len(stack) \in Nat, Len(stack') = Len(stack) - 1, top' = stack[Len(stack) - 1]
    PROVE  Serving(call, n)'
<1>1. \A m, size : /\ Split(m, size).fn = "memory_split"
                   /\ [Split(m, size) EXCEPT !.pc = "got"].fn = "memory_split"
    BY DEF Split
<1>2. top # call
    BY BootCalls
<1>3. LowDone /\ \E i \in DOMAIN regions :
         /\ RoomAt(i, call.base)
         /\ Len(stack) = 3 /\ top = Alloc(memory_map_cache, FALSE) /\ Structs(n)
         /\ stack[2] = [Split(regions[i].at, call.size) EXCEPT !.pc = "got"]
  <2>1. \A m, size : /\ top # Split(m, size)
                     /\ top # [Split(m, size) EXCEPT !.pc = "got"]
      BY <1>1
  <2> QED BY <1>2, <2>1 DEF Serving
<1>4. PICK i \in DOMAIN regions :
         /\ RoomAt(i, call.base)
         /\ Len(stack) = 3 /\ top = Alloc(memory_map_cache, FALSE) /\ Structs(n)
         /\ stack[2] = [Split(regions[i].at, call.size) EXCEPT !.pc = "got"]
    BY <1>3
<1>5. top.cache = memory_map_cache
    BY <1>4 DEF Alloc
<1>6. Structs(1)
    BY <1>4 DEF Structs
<1>7. SlabsOf(top.cache)[First(NonEmpty(top.cache))] = memory_map_cache
    BY <1>5, <1>6, StructsLeft
<1>8. Structs(n - 1)'
  <2> DEFINE c == memory_map_cache
  <2>1. c \in DOMAIN cache /\ cache[c].free \in Seq(Nat) /\ Len(cache[c].free) >= n
    <3>1. c \in DOMAIN cache
        BY DEF CachesOK
    <3> QED BY <1>4, <3>1, CacheFields DEF Structs
  <2>2. cache' = [cache EXCEPT ![c].free = Tail(@)]
      BY <1>7
  <2> HIDE DEF c
  <2>3. cache[c] \in CacheRec
      BY <2>1 DEF CachesOK
  <2>4. cache'[c].free = Tail(cache[c].free)
      BY <2>1, <2>2, <2>3 DEF CacheRec
  <2>5. Len(Tail(cache[c].free)) >= n - 1
      BY <2>1
  <2> QED BY <2>4, <2>5 DEF Structs, c, memory_map_cache
<1>9. LowDone' /\ RoomAt(i, call.base)'
    BY <1>3, <1>4, BootCalls DEF LowDone, RoomAt, End
<1>10. Len(stack') = 2 /\ top' = stack[2]
    BY <1>4
<1>11. i \in DOMAIN regions' /\ regions'[i].at = regions[i].at
    OBVIOUS
<1> QED BY <1>4, <1>8, <1>9, <1>10, <1>11 DEF Serving, Split

\* __cache_alloc takes a block that nobody has.
LEMMA Safe_AllocBlock ==
    ASSUME Inv, AllocBlock
    PROVE  Inv'
<1> DEFINE s == SlabsOf(top.cache)[First(NonEmpty(top.cache))]
           value == Head(cache[s].free)
           g == stack[Len(stack) - 1]
<1>1. /\ stack # <<>> /\ top.fn = "__cache_alloc" /\ top.pc = "try"
      /\ NonEmpty(top.cache) # {}
      /\ cache' = [cache EXCEPT ![s].free = Tail(@)] /\ Return(value)
      /\ UNCHANGED <<regions, grants, caches, objects>>
    BY DEF AllocBlock, At, client
<1>2. top \in Frame
    BY <1>1, Running
<1>13. PICK c \in DOMAIN cache : c = top.cache
    BY <1>1, Running
<1>3. /\ s \in DOMAIN cache /\ cache[s].free # <<>>
      /\ \E i \in DOMAIN SlabsOf(c) : s = SlabsOf(c)[i]
    BY <1>1, <1>13, SlabFound DEF Inv, MemoryOK
<1>4. /\ CachesOK' /\ SlabsKept /\ FreeBlocks' /\ BusyBlocks'
      /\ value \in Nat /\ value \in Fresh' /\ value \in InCache(c)'
  <2>1. Grown = {} \/ BootRange
      BY BootRangeThere
  <2> HIDE DEF s
  <2> QED BY <1>1, <1>3, <2>1, BlockTaken DEF Inv, MemoryOK
<1>5. MemoryOK'
    BY <1>1, <1>4, QuietRegions DEF Inv, MemoryOK
<1>6. CachesStay
    BY <1>1, <1>4 DEF CachesStay, SlabsKept
<1>7. value \in Nat /\ Return(value)
    BY <1>1, <1>4
<1> HIDE DEF value
<1>8. /\ Plain' /\ StackOK' /\ ClientOK' /\ Booted'
      /\ stack' # <<>> /\ Len(stack') = Len(stack) - 1
      /\ Len(stack) \in Nat /\ Len(stack) >= 2 /\ top' = g
      /\ <<top, g>> \in Links
      /\ ret' = value /\ Booting' = Booting /\ Last' = Last /\ FramesKept
      /\ Splitting' => Splitting
    BY <1>1, <1>6, <1>7, ReturnKeeps
<1>9. Owned'
  <2>1. Held' \subseteq Held
      BY <1>1, <1>4, <1>8, HeldKept
  <2> QED BY <1>1, <2>1, QuietRegions, OwnedKept DEF Inv
<1>10. Returned'
  <2>1. \/ g.fn \in {"cache_extend", "cache_new", "memory_split"} /\ g.pc = "got"
        \/ g.fn = "caller" /\ g.pc = "alloc" /\ c = g.arg /\ g.arg \in caches
      BY <1>1, <1>8, <1>13, BlockFor DEF Links
  <2> HIDE DEF g
  <2>2. /\ top'.pc \in {"got", "alloc"} /\ ret' \in Fresh'
        /\ top'.fn = "caller" => top'.pc = "alloc"
        /\ top'.pc = "alloc" => top'.fn = "caller" /\ top'.arg = c /\ c \in caches'
      BY <1>1, <1>4, <1>8, <2>1
  <2>3. top'.pc = "alloc" => ret' \in InCache(c)'
      BY <1>4, <1>8
  <2> QED BY <2>2, <2>3 DEF Returned
<1>11. Waiting'
  <2>1. ASSUME Splitting'
        PROVE  FALSE
    <3>1. Splitting
        BY <1>8, <2>1
    <3>2. ~Circling
        BY <1>1 DEF Circling, Alloc, Reserve, Split
    <3>3. \A i \in DOMAIN stack : i < Len(stack) - 1 => stack[i].fn # "memory_split"
        BY <3>1, <3>2 DEF Inv, Waiting, Served
    <3>4. /\ DOMAIN stack' = 1..(Len(stack) - 1) /\ DOMAIN stack = 1..Len(stack)
          /\ \A i \in 1..(Len(stack) - 1) : stack'[i] = stack[i]
        BY <1>1, <1>7, Returns, Bottom DEF Inv, Below
    <3> QED BY <2>1, <3>3, <3>4, <1>8 DEF Splitting
  <2> QED BY <2>1 DEF Waiting
<1>12. BootPhase'
  <2>1. CASE ~Booting
      BY <2>1, <1>8 DEF BootPhase
  <2>2. CASE Booting
    <3>1. BootServing /\ cache[memory_map_cache].slabs = <<>>
        BY <1>1, <2>2, BootIsServing, BootSteps DEF Inv
    <3>2. \A call \in {KernelCall, CachesCall} : \A n \in {2, 3} :
             Serving(call, n) => Serving(call, n)'
        BY <1>1, <1>8, <3>1, BlockServes DEF Inv, MemoryOK
    <3>3. Last'.arg = Last.arg
        BY <1>8
    <3>4. BootServing'
        BY <3>1, <3>2, <3>3, BootCalls DEF BootServing
    <3>5. /\ DOMAIN cache' = DOMAIN cache
          /\ cache'[memory_map_cache].slabs = cache[memory_map_cache].slabs
      <4>1. /\ memory_map_cache \in DOMAIN cache /\ cache[s] \in CacheRec
          BY <1>3, CacheFields DEF Inv, MemoryOK, CachesOK
      <4> HIDE DEF s
      <4> QED BY <1>1, <4>1 DEF CacheRec
    <3> QED BY <1>1, <2>2, <3>4, <3>5, <1>8, BootStillServing DEF Inv
  <2> QED BY <2>1, <2>2
<1> QED BY <1>5, <1>8, <1>9, <1>10, <1>11, <1>12 DEF Inv

\* A cache is made of the range a call holds: the range is its slab's now.
LEMMA SlabReturned ==
    ASSUME Inv, stack # <<>>, top.fn \in {"cache_extend", "cache_new"}, top.pc = "got",
           NEW r, r = ret, NEW p, p = top.p, NEW size, size = top.size,
           NEW bsize \in Nat \ {0}, Added(r, p, size, bsize),
           NEW value \in Nat, Return(value), UNCHANGED <<regions, grants, caches, objects>>
    PROVE  /\ Plain' /\ MemoryOK' /\ Owned' /\ StackOK' /\ Waiting'
           /\ ClientOK' /\ Booted' /\ BootPhase'
           /\ top' = stack[Len(stack) - 1] /\ <<top, stack[Len(stack) - 1]>> \in Links
           /\ ret' = value
<1> DEFINE n == Len(stack)
           g == stack[n - 1]
           h == <<"frame", n, p, size>>
           k == <<"slab", r, p, size>>
<1>1. r \in Fresh /\ r \in Nat
    BY DEF Inv, Returned, Plain
<1>2. p \in Nat /\ size \in Nat \ {0}
    BY Running
<1>3. ~Booting /\ ~Splitting
    BY NotBooting, NotSplitting DEF Inv, MemoryOK
<1>4. BootRange
    BY <1>3, BootRangeThere
<1>5. h \in Held
  <2>1. n \in DOMAIN stack /\ top = stack[n]
      BY Bottom DEF Inv
  <2> QED BY <2>1, HeldBy DEF HoldsRange
<1>6. <<p, size>> \in Ranges /\ p \notin {NULL, metadata_cache}
  <2>1. <<h[3], h[4]>> \in Ranges /\ h[3] \notin {NULL, metadata_cache}
      BY <1>5 DEF Inv, Owned
  <2> QED BY <2>1
<1>7. \A d \in Grown : cache[d].base # p
  <2> SUFFICES ASSUME NEW d \in Grown, cache[d].base = p PROVE FALSE
      OBVIOUS
  <2> DEFINE j == <<"slab", d, cache[d].base, cache[d].size>>
  <2>1. j \in Held /\ j[3] = h[3] /\ j # h
      BY HeldBy
  <2> QED BY <2>1, <1>5 DEF Inv, Owned
<1>8. CachesOK' /\ FreeBlocks' /\ BusyBlocks'
    BY <1>1, <1>2, <1>4, <1>6, <1>7, SlabAdded DEF Inv, MemoryOK
<1>9. MemoryOK'
    BY <1>8, QuietRegions DEF Inv, MemoryOK
<1>10. /\ DOMAIN cache' = DOMAIN cache \cup {r}
       /\ cache'[r].base = p /\ cache'[r].size = size
       /\ \A c \in DOMAIN cache : /\ cache'[c].base = cache[c].base
                                  /\ cache'[c].size = cache[c].size
    BY DEF Added, Slab
<1>11. CachesStay
    BY <1>10 DEF CachesStay
<1>12. /\ Plain' /\ StackOK' /\ ClientOK' /\ Booted'
       /\ Len(stack') = n - 1 /\ n \in Nat /\ n >= 2 /\ top' = g
       /\ <<top, g>> \in Links
       /\ ret' = value /\ Booting' = Booting /\ FramesKept
       /\ Splitting' => Splitting
    BY <1>11, ReturnKeeps
<1>13. Owned'
  <2> DEFINE X == (Held \ {h}) \cup {k}
  <2>1. \A c \in Grown' : <<"slab", c, cache'[c].base, cache'[c].size>> \in X
    <3> SUFFICES ASSUME NEW c \in Grown'
                 PROVE  <<"slab", c, cache'[c].base, cache'[c].size>> \in X
        OBVIOUS
    <3>1. CASE c = r
        BY <3>1, <1>10
    <3>2. CASE c # r
      <4>1. c \in Grown
          BY <3>2, <1>10, BootCalls DEF Grown
      <4>2. c \in DOMAIN cache
          BY <4>1 DEF Grown
      <4>3. <<"slab", c, cache[c].base, cache[c].size>> \in Held
          BY <4>1, HeldBy
      <4> QED BY <4>2, <4>3, <1>10
    <3> QED BY <3>1, <3>2
  <2>2. \A q \in grants' : <<"grant", 0, q.base, q.size>> \in X
    <3>1. \A q \in grants : <<"grant", 0, q.base, q.size>> \in Held
        BY HeldBy
    <3> QED BY <3>1
  <2>3. \A i \in DOMAIN stack' : HoldsRange(stack'[i]) =>
           <<"frame", i, stack'[i].p, stack'[i].size>> \in X
    <3> SUFFICES ASSUME NEW i \in DOMAIN stack', HoldsRange(stack'[i])
                 PROVE  <<"frame", i, stack'[i].p, stack'[i].size>> \in X
        OBVIOUS
    <3>1. /\ i \in DOMAIN stack /\ HoldsRange(stack[i])
          /\ stack'[i].p = stack[i].p /\ stack'[i].size = stack[i].size
        BY <1>12 DEF FramesKept
    <3>2. i # n
      <4>1. DOMAIN stack' = 1..Len(stack')
          BY <1>12 DEF StackOK
      <4> QED BY <4>1, <1>12
    <3>3. <<"frame", i, stack[i].p, stack[i].size>> \in Held
        BY <3>1, HeldBy
    <3> QED BY <3>1, <3>2, <3>3
  <2>4. Held' \subseteq X
    <3> HIDE DEF X
    <3> QED BY <2>1, <2>2, <2>3, HeldWithin
  <2>5. k[3] = h[3] /\ k[4] = h[4] /\ Ranges' = Ranges
      BY QuietRegions
  <2> HIDE DEF h, k
  <2> QED BY <2>4, <2>5, <1>5, OwnedMoved DEF Inv
<1>14. Waiting' /\ BootPhase'
    BY <1>3, <1>12 DEF Waiting, BootPhase
<1> QED BY <1>9, <1>12, <1>13, <1>14

\* The record of a new cache is one.
LEMMA SlabRec ==
    ASSUME NEW p \in Nat, NEW size \in Nat \ {0}, NEW bsize \in Nat \ {0}
    PROVE  Slab(p, size, bsize) \in CacheRec
<1> DEFINE q == size \div bsize
           list == [i \in 1..q |-> p + (i - 1) * bsize]
<1>1. q \in Nat
    OBVIOUS
<1>2. \A i \in 1..q : p + (i - 1) * bsize \in Nat
    BY SlabBlocks
<1>3. list \in Seq(Nat)
  <2> HIDE DEF q
  <2> QED BY <1>1, <1>2
<1>4. Slab(p, size, bsize) = [base |-> p, size |-> size, bsize |-> bsize,
                              slabs |-> <<>>, free |-> list]
    BY DEF Slab
<1>5. <<>> \in Seq(Nat)
    OBVIOUS
<1> HIDE DEF list
<1> QED BY <1>3, <1>4, <1>5 DEF CacheRec

NewReturns ==
    /\ At("cache_new", "got")
    /\ cache' = Extended(cache, ret, Slab(top.p, top.size, BlockSize))
    /\ Return(ret)
    /\ UNCHANGED <<regions, client>>

\* cache_new adds a cache.
LEMMA NewAdds ==
    ASSUME Inv, NewReturns
    PROVE  Added(ret, top.p, top.size, BlockSize)
<1>1. /\ stack # <<>> /\ top.fn = "cache_new" /\ top.pc = "got"
      /\ ret \in Fresh /\ ret \in Nat /\ top.p \in Nat /\ top.size \in Nat \ {0}
      /\ BlockSize \in Nat \ {0}
    BY Running, Constants DEF NewReturns, At, client, Inv, Returned, Plain
<1>2. PICK r \in Nat, p \in Nat, size \in Nat \ {0} : r = ret /\ p = top.p /\ size = top.size
    BY <1>1
<1> DEFINE slab == Slab(p, size, BlockSize)
<1>3. slab \in CacheRec
    BY <1>1, SlabRec
<1>4. cache' = Extended(cache, r, slab)
    BY <1>2 DEF NewReturns
<1>5. r \notin DOMAIN cache
    BY <1>1, <1>2 DEF Fresh
<1> HIDE DEF slab
<1>6. /\ DOMAIN cache' = DOMAIN cache \cup {r} /\ cache'[r] = slab
      /\ \A c \in DOMAIN cache : cache'[c] = cache[c]
      /\ cache' \in [DOMAIN cache' -> CacheRec]
    BY <1>3, <1>4, <1>5 DEF Extended, Inv, MemoryOK, CachesOK
<1>7. Added(r, p, size, BlockSize)
  <2>1. \A c \in DOMAIN cache : \A i \in DOMAIN cache[c].slabs : cache[c].slabs[i] \in DOMAIN cache
      BY DEF Inv, MemoryOK, CachesOK
  <2> QED BY <1>6, <2>1 DEF Added, slab
<1> QED BY <1>2, <1>7

\* cache_new makes a cache of the client's range.
LEMMA Safe_NewReturns ==
    ASSUME Inv, NewReturns
    PROVE  Inv'
<1>1. /\ stack # <<>> /\ top.fn = "cache_new" /\ top.pc = "got"
      /\ UNCHANGED <<regions, grants, caches, objects>>
      /\ ret \in Fresh /\ ret \in Nat /\ top.p \in Nat /\ top.size \in Nat \ {0}
      /\ BlockSize \in Nat \ {0}
    BY Running, Constants DEF NewReturns, At, client, Inv, Returned, Plain
<1>2. PICK r \in Nat, p \in Nat, size \in Nat \ {0} : r = ret /\ p = top.p /\ size = top.size
    BY <1>1
<1>3. Return(r)
    BY <1>2 DEF NewReturns
<1>4. Added(r, p, size, BlockSize)
    BY <1>2, NewAdds
<1>5. /\ Plain' /\ MemoryOK' /\ Owned' /\ StackOK' /\ Waiting'
      /\ ClientOK' /\ Booted' /\ BootPhase'
      /\ top' = stack[Len(stack) - 1] /\ <<top, stack[Len(stack) - 1]>> \in Links
      /\ ret' = r
    BY <1>1, <1>2, <1>3, <1>4, SlabReturned
<1>6. Returned'
  <2> DEFINE g == stack[Len(stack) - 1]
  <2>1. g \in Frame /\ Calls(top, g) /\ top' = g
      BY <1>5 DEF Links
  <2> HIDE DEF g
  <2>2. /\ g.fn = "__cache_alloc" => g.pc \in {"try", "metadata_reserved", "reserve", "reserved"}
        /\ g.fn \in {"cache_extend", "cache_new", "memory_split"} => g.pc \in {"start", "got"}
        /\ g.fn = "__memory_reserve_ex" =>
              g.pc \in {"start", "map_reserved", "scan", "front_split"}
        /\ g.fn = "caller" => g.pc \in {"boot", "reserve", "new", "alloc"}
        /\ g.fn \in {"__cache_alloc", "cache_extend", "cache_new", "__memory_reserve_ex",
                     "memory_split", "caller"}
      BY <2>1, FrameKinds
         DEF AllocFrame, ExtendFrame, NewFrame, ReserveFrame, SplitFrame,
             CallerFrame
  <2>3. g.fn = "caller" /\ g.pc = "new"
      BY <1>1, <2>1, <2>2 DEF Calls, Delivers
  <2>4. r \in DOMAIN cache'
      BY <1>4 DEF Added
  <2> QED BY <1>5, <2>1, <2>3, <2>4 DEF Returned
<1> QED BY <1>5, <1>6 DEF Inv

ExtendReturns ==
    /\ At("cache_extend", "got")
    /\ cache' = [Extended(cache, ret, Slab(top.p, top.size, top.bsize))
                    EXCEPT ![top.old].slabs = Append(@, ret)]
    /\ Return(NULL)
    /\ UNCHANGED <<regions, client>>

\* Whom cache_extend returns to.
LEMMA ExtendFor ==
    ASSUME NEW f \in Frame, NEW g \in Frame, Calls(f, g), f.fn = "cache_extend"
    PROVE  \/ g.fn = "__cache_alloc" /\ g.pc \in {"try", "reserve"}
           \/ /\ g.fn = "__memory_reserve_ex" /\ g.pc = "scan"
              /\ f.old = memory_map_cache /\ f.size = SlabSize /\ f.bsize = CacheSize
<1>1. /\ g.fn = "__cache_alloc" => g.pc \in {"try", "metadata_reserved", "reserve", "reserved"}
      /\ g.fn \in {"cache_extend", "cache_new", "memory_split"} => g.pc \in {"start", "got"}
      /\ g.fn = "__memory_reserve_ex" =>
            g.pc \in {"start", "map_reserved", "scan", "front_split"}
      /\ g.fn = "caller" => g.pc \in {"boot", "reserve", "new", "alloc"}
      /\ g.fn \in {"__cache_alloc", "cache_extend", "cache_new", "__memory_reserve_ex",
                   "memory_split", "caller"}
    BY FrameKinds DEF AllocFrame, ExtendFrame, NewFrame, ReserveFrame,
                      SplitFrame, CallerFrame
<1> QED BY <1>1 DEF Calls, Delivers

\* A cache that has a slab with a free block is not empty.
NewSlabsFound ==
    \A c \in DOMAIN cache, r \in DOMAIN cache : \A i \in DOMAIN cache[c].slabs :
       cache[c].slabs[i] = r /\ cache[r].free # <<>> => NonEmpty(c) # {}

\* A cache whose list ends with a new slab has a free block.
LEMMA NewSlabFound == CachesOK => NewSlabsFound
<1> SUFFICES ASSUME CachesOK, NEW c \in DOMAIN cache, NEW r \in DOMAIN cache,
                    NEW i \in DOMAIN cache[c].slabs, cache[c].slabs[i] = r,
                    cache[r].free # <<>>
             PROVE  NonEmpty(c) # {}
    BY DEF NewSlabsFound
<1>1. /\ DOMAIN SlabsOf(c) = 1..(Len(cache[c].slabs) + 1)
      /\ SlabsOf(c)[i + 1] = cache[c].slabs[i]
      /\ Len(cache[c].slabs) \in Nat /\ DOMAIN cache[c].slabs = 1..Len(cache[c].slabs)
    BY SlabsListed DEF AllListed, Listed
<1>2. i + 1 \in DOMAIN SlabsOf(c)
    BY <1>1
<1> QED BY <1>1, <1>2 DEF NonEmpty

\* cache_extend adds a cache too, and the old one has it in its list.
LEMMA ExtendAdds ==
    ASSUME Inv, ExtendReturns
    PROVE  /\ Added(ret, top.p, top.size, top.bsize)
           /\ \E i \in DOMAIN cache'[top.old].slabs : cache'[top.old].slabs[i] = ret
<1>1. /\ stack # <<>> /\ top.fn = "cache_extend" /\ top.pc = "got"
      /\ ret \in Fresh /\ ret \in Nat /\ top.p \in Nat /\ top.size \in Nat \ {0}
      /\ top.bsize \in Nat \ {0} /\ top.old \in DOMAIN cache
    BY Running DEF ExtendReturns, At, client, Inv, Returned, Plain
<1>2. PICK r \in Nat, p \in Nat, size \in Nat \ {0}, bsize \in Nat \ {0}, o \in DOMAIN cache :
         r = ret /\ p = top.p /\ size = top.size /\ bsize = top.bsize /\ o = top.old
    BY <1>1
<1> DEFINE slab == Slab(p, size, bsize)
           old == cache[o]
           more == [old EXCEPT !.slabs = Append(@, r)]
<1>3. slab \in CacheRec
    BY SlabRec
<1>4. cache' = [Extended(cache, r, slab) EXCEPT ![o].slabs = Append(@, r)]
    BY <1>2 DEF ExtendReturns
<1>5. r \notin DOMAIN cache /\ o # r
    BY <1>1, <1>2 DEF Fresh
<1>6. /\ old \in CacheRec /\ old.slabs \in Seq(Nat)
      /\ cache \in [DOMAIN cache -> CacheRec]
      /\ \A c \in DOMAIN cache : \A i \in DOMAIN cache[c].slabs : cache[c].slabs[i] \in DOMAIN cache
    BY DEF Inv, MemoryOK, CachesOK, CacheRec
<1>7. /\ more \in CacheRec /\ more.slabs = Append(old.slabs, r)
      /\ more.base = old.base /\ more.size = old.size /\ more.bsize = old.bsize
      /\ more.free = old.free
  <2> DEFINE longer == Append(old.slabs, r)
  <2>1. longer \in Seq(Nat) /\ more = [old EXCEPT !.slabs = longer]
      BY <1>6
  <2> HIDE DEF longer, old, more
  <2>2. more \in CacheRec /\ more.slabs = longer
        /\ more.base = old.base /\ more.size = old.size /\ more.bsize = old.bsize
        /\ more.free = old.free
      BY <1>6, <2>1 DEF CacheRec
  <2> QED BY <2>2 DEF longer
<1> HIDE DEF slab
<1>8. cache' = [c \in DOMAIN cache \cup {r} |->
                   IF c = o THEN more ELSE IF c = r THEN slab ELSE cache[c]]
    BY <1>4, <1>5 DEF Extended
<1> HIDE DEF more, old
<1>9. /\ DOMAIN cache' = DOMAIN cache \cup {r} /\ cache'[r] = slab /\ cache'[o] = more
      /\ \A c \in DOMAIN cache : c # o => cache'[c] = cache[c]
      /\ cache' \in [DOMAIN cache' -> CacheRec]
    BY <1>3, <1>5, <1>6, <1>7, <1>8
<1>10. /\ DOMAIN old.slabs = 1..Len(old.slabs) /\ Len(old.slabs) \in Nat
       /\ DOMAIN more.slabs = 1..(Len(old.slabs) + 1)
       /\ more.slabs[Len(old.slabs) + 1] = r
       /\ \A i \in DOMAIN old.slabs : i \in DOMAIN more.slabs /\ more.slabs[i] = old.slabs[i]
       /\ \A i \in DOMAIN more.slabs : i \in DOMAIN old.slabs \/ i = Len(old.slabs) + 1
    BY <1>6, <1>7
<1>11. Added(r, p, size, bsize)
  <2>1. \A c \in DOMAIN cache :
           /\ cache'[c].base = cache[c].base /\ cache'[c].size = cache[c].size
           /\ cache'[c].bsize = cache[c].bsize /\ cache'[c].free = cache[c].free
      BY <1>7, <1>9 DEF old
  <2>2. \A c \in DOMAIN cache :
           \A i \in DOMAIN cache'[c].slabs : cache'[c].slabs[i] \in DOMAIN cache'
    <3>1. \A i \in DOMAIN more.slabs : more.slabs[i] \in DOMAIN cache'
        BY <1>6, <1>9, <1>10 DEF old
    <3> QED BY <3>1, <1>6, <1>9
  <2>3. \A c \in DOMAIN cache :
           \A i \in DOMAIN cache[c].slabs : /\ i \in DOMAIN cache'[c].slabs
                                            /\ cache'[c].slabs[i] = cache[c].slabs[i]
      BY <1>9, <1>10 DEF old
  <2> QED BY <1>9, <2>1, <2>2, <2>3 DEF Added, slab
<1>12. /\ Len(old.slabs) + 1 \in DOMAIN cache'[o].slabs
       /\ cache'[o].slabs[Len(old.slabs) + 1] = r
    BY <1>9, <1>10
<1> QED BY <1>2, <1>11, <1>12

\* cache_extend makes a slab of the range and appends it to the cache.
LEMMA Safe_ExtendReturns ==
    ASSUME Inv, ExtendReturns
    PROVE  Inv'
<1>1. /\ stack # <<>> /\ top.fn = "cache_extend" /\ top.pc = "got"
      /\ UNCHANGED <<regions, grants, caches, objects>>
      /\ ret \in Fresh /\ ret \in Nat /\ top.p \in Nat /\ top.size \in Nat \ {0}
      /\ top.bsize \in Nat \ {0} /\ top.old \in DOMAIN cache
    BY Running DEF ExtendReturns, At, client, Inv, Returned, Plain
<1>2. PICK r \in Nat, p \in Nat, size \in Nat \ {0}, bsize \in Nat \ {0}, o \in DOMAIN cache :
         r = ret /\ p = top.p /\ size = top.size /\ bsize = top.bsize /\ o = top.old
    BY <1>1
<1>3. Return(NULL)
    BY DEF ExtendReturns
<1>4. /\ Added(r, p, size, bsize)
      /\ \E i \in DOMAIN cache'[o].slabs : cache'[o].slabs[i] = r
    BY <1>2, ExtendAdds
<1>5. /\ Plain' /\ MemoryOK' /\ Owned' /\ StackOK' /\ Waiting'
      /\ ClientOK' /\ Booted' /\ BootPhase'
      /\ top' = stack[Len(stack) - 1] /\ <<top, stack[Len(stack) - 1]>> \in Links
      /\ ret' = NULL
  <2>1. NULL \in Nat
      BY DEF NULL
  <2> QED BY <1>1, <1>2, <1>3, <1>4, <2>1, SlabReturned
<1>6. Returned'
  <2> DEFINE g == stack[Len(stack) - 1]
  <2>1. g \in Frame /\ top \in Frame /\ Calls(top, g) /\ top' = g
      BY <1>5 DEF Links
  <2> HIDE DEF g
  <2>2. \/ g.fn = "__cache_alloc" /\ g.pc \in {"try", "reserve"}
        \/ /\ g.fn = "__memory_reserve_ex" /\ g.pc = "scan"
           /\ o = memory_map_cache /\ size = SlabSize /\ bsize = CacheSize
      BY <1>1, <1>2, <2>1, ExtendFor
  <2>3. CASE g.fn = "__cache_alloc" /\ g.pc \in {"try", "reserve"}
      BY <2>1, <2>3 DEF Returned
  <2>4. CASE /\ g.fn = "__memory_reserve_ex" /\ g.pc = "scan"
             /\ o = memory_map_cache /\ size = SlabSize /\ bsize = CacheSize
    <3>1. Nmemb \in Nat \ {0} /\ SlabSize \div CacheSize = Nmemb
        BY Constants
    <3>2. cache'[r].free # <<>>
      <4>1. cache'[r].free = [i \in 1..Nmemb |-> p + (i - 1) * CacheSize]
          BY <1>4, <2>4, <3>1 DEF Added, Slab
      <4>2. 1 \in DOMAIN cache'[r].free
          BY <3>1, <4>1
      <4> QED BY <4>2
    <3>3. CachesOK'
        BY <1>5 DEF MemoryOK
    <3>4. o \in DOMAIN cache' /\ r \in DOMAIN cache'
        BY <1>4 DEF Added
    <3>5. NewSlabsFound'
        BY <3>3, NewSlabFound, PTL
    <3>6. NonEmpty(o)' # {}
        BY <1>4, <3>2, <3>4, <3>5 DEF NewSlabsFound
    <3>7. NonEmpty(memory_map_cache)' # {}
        BY <2>4, <3>6 DEF memory_map_cache
    <3> QED BY <2>1, <2>4, <3>7 DEF Returned
  <2> QED BY <2>2, <2>3, <2>4
<1> QED BY <1>5, <1>6 DEF Inv

-----------------------------------------------------------------------------
(* The kernel's own calls and the client's.                                *)

\* A call from outside: a stack of two frames.
Enters(f, op, arg) == stack' = <<Caller(op, arg), f>>

\* What holds when a caller has called into an idle kernel.
LEMMA Entered ==
    ASSUME Inv, UNCHANGED <<regions, cache, ret, status, caches, objects>>,
           NEW f \in GoodFrames, f.fn \notin {"caller", "memory_split"},
           f.pc \in {"start", "try"},
           NEW op \in {"boot", "reserve", "new", "alloc"}, NEW arg \in Arg,
           Enters(f, op, arg), Calls(f, Caller(op, arg))
    PROVE  /\ Plain' /\ MemoryOK' /\ StackOK' /\ Waiting' /\ Returned'
           /\ stack' # <<>> /\ Len(stack') = 2 /\ DOMAIN stack' = 1..2
           /\ top' = f /\ stack'[2] = f
           /\ Last'.pc = op /\ Last'.arg = arg /\ ~HoldsRange(stack'[1])
           /\ SlabsKept /\ Ranges' = Ranges
<1> DEFINE g == Caller(op, arg)
<1>1. /\ g \in Frame /\ g.fn = "caller" /\ g.pc = op /\ g.arg = arg /\ FrameOK(g)
      /\ ~HoldsRange(g)
  <2>1. Dry \in BOOLEAN
      BY DEF Dry
  <2>2. g.fn = "caller" /\ g.pc = op /\ g.arg = arg /\ g.dry = Dry
      BY DEF Caller
  <2>3. g = [fn |-> "caller", pc |-> op, arg |-> arg, dry |-> Dry]
      BY DEF Caller
  <2> HIDE DEF g
  <2>4. g \in CallerFrame
      BY <2>1, <2>3 DEF CallerFrame
  <2> QED BY <2>2, <2>4 DEF Frame, FrameOK, HoldsRange
<1>2. f \in Frame /\ g \in GoodFrames
    BY <1>1 DEF GoodFrames
<1>3. stack' = <<g, f>> /\ Calls(f, g)
    BY DEF Enters
<1> HIDE DEF g
<1>4. /\ stack' \in Seq(Frame) /\ stack' # <<>> /\ Len(stack') = 2 /\ DOMAIN stack' = 1..2
      /\ stack'[1] = g /\ stack'[2] = f
    BY <1>1, <1>2, <1>3
<1>5. top' = f
    BY <1>4 DEF top
<1>6. Plain'
  <2>1. MaxDepth \in Nat /\ 2 <= MaxDepth + 1
      BY SizesAssumption
  <2> QED BY <2>1, <1>4 DEF Inv, Plain
<1>7. CachesOK' /\ FreeBlocks' /\ SlabsKept /\ CachesStay
    BY QuietCaches DEF Inv, MemoryOK, CachesStay
<1>8. Sorted' /\ Gapless' /\ Ranges' = Ranges /\ OfRegions' = OfRegions
    BY QuietRegions DEF Inv, MemoryOK
<1>9. BusyBlocks'
  <2>1. Busy' = Busy /\ (\A c : InCache(c)' = InCache(c)) /\ OfObjects' = OfObjects
      BY QuietCaches DEF OfObjects
  <2>2. \A o \in objects' : o.cache \in DOMAIN cache' /\ o.at \in InCache(o.cache)'
    <3> SUFFICES ASSUME NEW o \in objects
                 PROVE  o.cache \in DOMAIN cache' /\ o.at \in InCache(o.cache)'
        OBVIOUS
    <3>1. o.cache \in DOMAIN cache /\ o.at \in InCache(o.cache)
        BY DEF Inv, MemoryOK, BusyBlocks
    <3> QED BY <3>1, <2>1
  <2>3. /\ OfRegions' \subseteq Busy' \ DOMAIN cache'
        /\ DOMAIN cache' \ {metadata_cache'} \subseteq Busy'
        /\ OfObjects' \subseteq Busy' \ (DOMAIN cache' \cup OfRegions')
        /\ \A o, p \in objects' : o.at = p.at => o = p
      BY <2>1, <1>8, BootCalls DEF Inv, MemoryOK, BusyBlocks
  <2> QED BY <2>2, <2>3 DEF BusyBlocks
<1>10. MemoryOK'
    BY <1>7, <1>8, <1>9 DEF MemoryOK
<1>11. f \in GoodFrames' /\ g \in GoodFrames'
    BY <1>1, <1>2, <1>7, FrameStays
<1>12. <<f, g>> \in Links'
  <2> DEFINE l == <<f, g>>
  <2>1. l \in Frame \X Frame /\ l[1] = f /\ l[2] = g
      BY <1>1, <1>2
  <2> HIDE DEF l
  <2>2. l \in Links
      BY <1>3, <2>1 DEF Links
  <2> QED BY <1>2, <1>7, <2>2, CallsStays DEF l
<1>13. StackOK'
    BY <1>1, <1>4, <1>11, <1>12 DEF StackOK
<1>14. Returned'
    BY <1>5, Starting
<1>15. Waiting'
  <2>1. ~Splitting'
      BY <1>1, <1>4 DEF Splitting
  <2> QED BY <2>1 DEF Waiting
<1> QED BY <1>1, <1>4, <1>5, <1>6, <1>7, <1>8, <1>10, <1>13, <1>14, <1>15
           DEF Last

\* memory_init makes its next reservation, or is done.
LEMMA BootAlone ==
    ASSUME Inv, stack # <<>>, top.fn = "caller", top.pc = "boot"
    PROVE  /\ Booting /\ top = Last /\ Len(stack) = 1 /\ LowDone
           /\ \/ Last.arg = <<KernelCall, CachesCall>> /\ Room(KernelBase) /\ Structs(3)
              \/ Last.arg = <<CachesCall>> /\ Room(KernelEnd) /\ Structs(2)
              \/ Last.arg = <<>> /\ BootRange
<1>1. Len(stack) = 1 /\ top = Last
    BY Bottom DEF Inv, Last
<1>2. Booting
    BY <1>1 DEF Booting
<1>3. \A call, n : ~Serving(call, n)
    BY <1>1 DEF Serving
<1> QED BY <1>1, <1>2, <1>3 DEF Inv, BootPhase, BootRange

\* A call of memory_init takes its place on the stack.
LEMMA BootEnters ==
    ASSUME Inv, Booting, LowDone, UNCHANGED <<regions, cache, ret, status, client>>,
           NEW call \in {KernelCall, CachesCall}, NEW arg \in Arg, NEW n,
           Enters(call, "boot", arg), Room(call.base), Structs(n)
    PROVE  /\ Plain' /\ MemoryOK' /\ Owned' /\ StackOK' /\ Waiting' /\ Returned'
           /\ ClientOK' /\ Booted' /\ Booting'
           /\ Last'.arg = arg /\ Serving(call, n)'
           /\ DOMAIN cache' = {metadata_cache', memory_map_cache'}
           /\ cache'[memory_map_cache'].slabs = <<>>
           /\ grants' = {} /\ caches' = {} /\ objects' = {}
<1>1. UNCHANGED <<regions, cache, ret, status, caches, objects, grants>>
    BY DEF client
<1>2. call \in GoodFrames /\ call.fn = "__memory_reserve_ex" /\ call.pc = "start"
  <2>1. KernelEnd - KernelBase \in Nat \ {0}
      BY KernelZone
  <2>2. BootLen \in Nat \ {0} /\ metadata_cache \in Nat /\ KernelBase \in Nat
    <3>1. BootLen \in Nat /\ metadata_cache \in Nat /\ MapSlab \in Nat
          /\ CacheSize \in Nat \ {0} /\ SlabSize \in Nat /\ MapSlabSize \in Nat
        BY Constants
    <3>2. metadata_cache + CacheSize + SlabSize = MapSlab
          /\ MapSlab + MapSlabSize = metadata_cache + BootLen
        BY Constants
    <3>3. BootLen # 0
        BY <3>1, <3>2
    <3> QED BY <3>1, <3>3, KernelZone
  <2>3. KernelCall \in GoodFrames
      BY <2>1, <2>2, MadeFrames DEF KernelCall, Inv, MemoryOK
  <2>4. CachesCall \in GoodFrames
      BY <2>2, MadeFrames DEF CachesCall, Inv, MemoryOK
  <2> QED BY <2>3, <2>4, BootCalls
<1>3. Calls(call, Caller("boot", arg))
    BY <1>2 DEF Calls, Caller
<1>4. /\ Plain' /\ MemoryOK' /\ StackOK' /\ Waiting' /\ Returned'
      /\ stack' # <<>> /\ Len(stack') = 2 /\ DOMAIN stack' = 1..2
      /\ top' = call /\ stack'[2] = call
      /\ Last'.pc = "boot" /\ Last'.arg = arg /\ ~HoldsRange(stack'[1])
      /\ SlabsKept /\ Ranges' = Ranges
    BY <1>1, <1>2, <1>3, Entered
<1>5. Booting' /\ Booted'
    BY <1>4 DEF Booting, Booted
<1>6. Owned'
  <2>1. FramesKept
    <3>1. \A i \in DOMAIN stack' : ~HoldsRange(stack'[i])
        BY <1>2, <1>4 DEF HoldsRange
    <3> QED BY <3>1 DEF FramesKept
  <2> QED BY <1>1, <1>4, <2>1, HeldKept, OwnedKept DEF Inv
<1>7. ClientOK'
    BY <1>1, <1>4 DEF Inv, ClientOK, Last
<1>8. Serving(call, n)'
  <2>1. LowDone' /\ Room(call.base)' /\ Structs(n)'
    <3>1. LowDone' /\ Structs(n)'
        BY <1>1, QuietCaches DEF LowDone
    <3>2. PICK i \in DOMAIN regions : RoomAt(i, call.base)
        BY DEF Room
    <3>3. RoomAt(i, call.base)' /\ i \in DOMAIN regions'
        BY <1>1, <3>2, BootCalls DEF RoomAt, End
    <3> QED BY <3>1, <3>3 DEF Room
  <2> QED BY <2>1, <1>4 DEF Serving
<1>9. /\ DOMAIN cache' = {metadata_cache', memory_map_cache'}
      /\ cache'[memory_map_cache'].slabs = <<>>
      /\ grants' = {} /\ caches' = {} /\ objects' = {}
    BY <1>1, BootCalls DEF Inv, BootPhase
<1> QED BY <1>4, <1>5, <1>6, <1>7, <1>8, <1>9

\* The kernel is up: memory_init has nothing left to reserve.
LEMMA BackToIdle ==
    ASSUME Inv, UNCHANGED <<ret, status, regions, cache>>, stack' = <<>>,
           LowDone, BootRange
    PROVE  /\ Plain' /\ StackOK' /\ Waiting' /\ Returned' /\ Booted' /\ BootPhase'
           /\ FramesKept
<1>1. stack' \in Seq(Frame) /\ Len(stack') = 0 /\ DOMAIN stack' = {}
    OBVIOUS
<1>2. Plain'
  <2>1. Len(stack') <= MaxDepth + 1
      BY <1>1, SizesAssumption
  <2>2. ret' \in Nat /\ status' \in {"ok", "null slab", "overflow"}
      BY DEF Inv, Plain
  <2> QED BY <2>1, <2>2 DEF Plain
<1>3. StackOK'
    BY <1>1 DEF StackOK
<1>4. Waiting' /\ Returned' /\ BootPhase'
    BY <1>1 DEF Waiting, Splitting, Returned, BootPhase, Booting
<1>5. Booted'
    BY QuietRegions, BootCalls DEF Booted, LowDone, BootRange
<1> QED BY <1>1, <1>2, <1>3, <1>4, <1>5 DEF FramesKept

\* memory_init makes its next reservation, or is done.
LEMMA Safe_memory_init ==
    ASSUME Inv, memory_init
    PROVE  Inv'
<1>1. /\ stack # <<>> /\ top.fn = "caller" /\ top.pc = "boot"
      /\ UNCHANGED <<regions, cache, ret, status, client>>
      /\ top.arg = <<>> => stack' = <<>>
      /\ top.arg # <<>> => Enters(Head(top.arg), "boot", Tail(top.arg))
    BY DEF memory_init, At, Enters
<1>2. /\ Booting /\ top = Last /\ Len(stack) = 1 /\ LowDone
      /\ \/ Last.arg = <<KernelCall, CachesCall>> /\ Room(KernelBase) /\ Structs(3)
         \/ Last.arg = <<CachesCall>> /\ Room(KernelEnd) /\ Structs(2)
         \/ Last.arg = <<>> /\ BootRange
    BY <1>1, BootAlone
<1>3. <<CachesCall>> \in Arg /\ <<>> \in Arg
  <2>1. CachesCall \in ReserveFrame
    <3>1. metadata_cache \in Nat /\ BootLen \in Nat
        BY Constants
    <3>2. BootLen # 0
      <4>1. metadata_cache + CacheSize + SlabSize = MapSlab
            /\ MapSlab + MapSlabSize = metadata_cache + BootLen
          BY Constants
      <4>2. BootLen \in Nat /\ metadata_cache \in Nat /\ MapSlab \in Nat
            /\ CacheSize \in Nat \ {0} /\ SlabSize \in Nat /\ MapSlabSize \in Nat
          BY Constants
      <4> QED BY <4>1, <4>2
    <3> QED BY <3>1, <3>2 DEF CachesCall, Reserve, ReserveFrame
  <2>2. <<CachesCall>> \in Seq(ReserveFrame) /\ <<>> \in Seq(ReserveFrame)
      BY <2>1
  <2> QED BY <2>2 DEF Arg
<1>4. CASE Last.arg = <<KernelCall, CachesCall>> /\ Room(KernelBase) /\ Structs(3)
  <2>1. Enters(KernelCall, "boot", <<CachesCall>>)
    <3>1. top.arg = <<KernelCall, CachesCall>>
        BY <1>2, <1>4
    <3>2. top.arg # <<>> /\ Head(top.arg) = KernelCall /\ Tail(top.arg) = <<CachesCall>>
        BY <3>1
    <3> QED BY <3>2, <1>1
  <2>2. KernelCall.base = KernelBase
      BY BootCalls
  <2>3. /\ Plain' /\ MemoryOK' /\ Owned' /\ StackOK' /\ Waiting' /\ Returned'
        /\ ClientOK' /\ Booted' /\ Booting'
        /\ Last'.arg = <<CachesCall>> /\ Serving(KernelCall, 3)'
        /\ DOMAIN cache' = {metadata_cache', memory_map_cache'}
        /\ cache'[memory_map_cache'].slabs = <<>>
        /\ grants' = {} /\ caches' = {} /\ objects' = {}
      BY <1>1, <1>2, <1>3, <1>4, <2>1, <2>2, BootEnters
  <2>4. BootPhase'
      BY <2>3, BootCalls DEF BootPhase
  <2> QED BY <2>3, <2>4 DEF Inv
<1>5. CASE Last.arg = <<CachesCall>> /\ Room(KernelEnd) /\ Structs(2)
  <2>1. Enters(CachesCall, "boot", <<>>)
    <3>1. top.arg = <<CachesCall>>
        BY <1>2, <1>5
    <3>2. top.arg # <<>> /\ Head(top.arg) = CachesCall /\ Tail(top.arg) = <<>>
        BY <3>1
    <3> QED BY <3>2, <1>1
  <2>2. CachesCall.base = KernelEnd
      BY BootCalls
  <2>3. /\ Plain' /\ MemoryOK' /\ Owned' /\ StackOK' /\ Waiting' /\ Returned'
        /\ ClientOK' /\ Booted' /\ Booting'
        /\ Last'.arg = <<>> /\ Serving(CachesCall, 2)'
        /\ DOMAIN cache' = {metadata_cache', memory_map_cache'}
        /\ cache'[memory_map_cache'].slabs = <<>>
        /\ grants' = {} /\ caches' = {} /\ objects' = {}
      BY <1>1, <1>2, <1>3, <1>5, <2>1, <2>2, BootEnters
  <2>4. BootPhase'
      BY <2>3, BootCalls DEF BootPhase
  <2> QED BY <2>3, <2>4 DEF Inv
<1>6. CASE Last.arg = <<>> /\ BootRange
  <2>1. stack' = <<>> /\ Quiet
      BY <1>1, <1>2, <1>6 DEF Quiet, client
  <2>2. /\ Plain' /\ StackOK' /\ Waiting' /\ Returned' /\ Booted' /\ BootPhase'
        /\ FramesKept
      BY <1>1, <1>2, <1>6, <2>1, BackToIdle
  <2>3. MemoryOK' /\ Ranges' = Ranges /\ SlabsKept /\ grants' = grants
      BY <2>1, QuietMemory, QuietRegions, QuietCaches DEF Inv, Quiet
  <2>4. Owned'
      BY <2>2, <2>3, HeldKept, OwnedKept DEF Inv
  <2>5. ClientOK'
      BY <2>1 DEF Inv, ClientOK, Quiet
  <2> QED BY <2>2, <2>3, <2>4, <2>5 DEF Inv
<1> QED BY <1>2, <1>4, <1>5, <1>6

\* Nothing but status changes when the kernel goes wrong.
Breaks ==
    /\ status' \in {"ok", "null slab", "overflow"}
    /\ UNCHANGED <<regions, cache, stack, ret, client>>

\* Going wrong changes nothing else.
LEMMA Safe_Breaks ==
    ASSUME Inv, Breaks
    PROVE  Inv'
<1>1. Quiet /\ UNCHANGED stack /\ UNCHANGED ret /\ UNCHANGED regions /\ UNCHANGED cache
      /\ UNCHANGED <<grants, caches, objects>>
    BY DEF Breaks, Quiet, client
<1>2. MemoryOK' /\ CachesStay /\ Fresh' = Fresh
    BY <1>1, QuietMemory DEF Inv
<1>3. Plain'
    BY <1>1 DEF Inv, Plain, Breaks
<1>4. /\ Ranges' = Ranges /\ SlabsKept /\ FramesKept /\ Held' = Held
      /\ \A c : NonEmpty(c)' = NonEmpty(c) /\ InCache(c)' = InCache(c)
    BY <1>1, QuietRegions, QuietCaches
       DEF FramesKept, Held, Grown, metadata_cache, memory_map_cache
<1>5. Owned'
    BY <1>4, OwnedKept DEF Inv
<1>6. Unheld' = Unheld
    BY <1>4 DEF Unheld, metadata_cache
<1>7. top' = top /\ Last' = Last /\ Booting' = Booting /\ Splitting' = Splitting
    BY <1>1 DEF top, Last, Booting, Splitting
<1>8. TightFit' = TightFit /\ FirstFit' = FirstFit
    BY <1>1, QuietFit
<1>9. StackOK'
  <2>1. \A f \in GoodFrames : f \in GoodFrames'
      BY <1>1, <1>2, FrameStays, SplittableStays DEF GoodFrames, FrameOK
  <2>2. \A f : \A g \in GoodFrames : <<f, g>> \in Links => <<f, g>> \in Links'
      BY <1>2, CallsStays
  <2> QED BY <1>1, <2>1, <2>2 DEF Inv, StackOK
<1>10. Waiting'
  <2>1. Served' = Served
      BY <1>1, <1>4, <1>7 DEF Served, Alloc, memory_map_cache
  <2>2. Circling' = Circling
      BY <1>4, <1>7, <1>8
         DEF Circling, Alloc, Reserve, Split, memory_map_cache, SlabSize,
             MapSlabSize
  <2> QED BY <2>1, <2>2, <1>7 DEF Inv, Waiting
<1>11. Returned'
    BY <1>1, <1>2, <1>4, <1>6, <1>7, <1>8
       DEF Inv, Returned, Split, SlabSize, memory_map_cache
<1>12. ClientOK' /\ Booted'
    BY <1>1, <1>4, <1>7
       DEF Inv, ClientOK, Booted, LowDone, metadata_cache, BootLen
<1>13. BootPhase'
  <2>1. \A call \in {KernelCall, CachesCall}, n \in {2, 3} : Serving(call, n)' = Serving(call, n)
      BY <1>1, <1>7, QuietCaches
         DEF Serving, LowDone, Room, RoomAt, Structs, End, BootEnd, Alloc,
             Split, memory_map_cache
  <2> QED BY <1>1, <1>4, <1>7, <2>1, BootCalls
             DEF Inv, BootPhase, Room, RoomAt, Structs, End, LowDone
<1> QED BY <1>2, <1>3, <1>5, <1>9, <1>10, <1>11, <1>12, <1>13 DEF Inv

\* Before a client calls.
LEMMA ClientIdle ==
    ASSUME Inv, stack = <<>>
    PROVE  ~Booting /\ LowDone /\ BootRange
<1>1. ~Booting
    BY DEF Booting
<1> QED BY <1>1, BootRangeThere

\* A client's call that takes no range along.
LEMMA ClientEnters ==
    ASSUME Inv, stack = <<>>, UNCHANGED <<regions, cache, ret, status, client>>,
           NEW f \in GoodFrames, f.fn \in {"__memory_reserve_ex", "__cache_alloc"},
           f.pc \in {"start", "try"},
           NEW op \in {"reserve", "alloc"}, NEW arg \in Arg,
           Enters(f, op, arg), Calls(f, Caller(op, arg))
    PROVE  Inv'
<1>1. UNCHANGED <<regions, cache, ret, status, grants, caches, objects>>
    BY DEF client
<1>2. /\ Plain' /\ MemoryOK' /\ StackOK' /\ Waiting' /\ Returned'
      /\ stack' # <<>> /\ DOMAIN stack' = 1..2 /\ stack'[2] = f
      /\ Last'.pc = op /\ ~HoldsRange(stack'[1])
      /\ SlabsKept /\ Ranges' = Ranges
    BY <1>1, Entered
<1>3. ~Booting' /\ LowDone /\ BootRange
    BY <1>2, ClientIdle DEF Booting
<1>4. Booted' /\ BootPhase'
    BY <1>1, <1>2, <1>3, BootCalls DEF Booted, BootPhase, LowDone, BootRange
<1>5. Owned'
  <2>1. FramesKept
    <3>1. \A i \in DOMAIN stack' : ~HoldsRange(stack'[i])
        BY <1>2 DEF HoldsRange
    <3> QED BY <3>1 DEF FramesKept
  <2> QED BY <1>1, <1>2, <2>1, HeldKept, OwnedKept DEF Inv
<1>6. ClientOK'
    BY <1>1, <1>2 DEF Inv, ClientOK, Last
<1> QED BY <1>2, <1>4, <1>5, <1>6 DEF Inv

\* A client reserves a range.
LEMMA Safe_ClientReserves ==
    ASSUME Inv, ClientReserves
    PROVE  Inv'
<1>1. PICK base \in Bases \cup {NULL}, size \in Sizes :
         ClientCall(Reserve(base, size, FALSE), "reserve", [base |-> base, size |-> size])
    BY DEF ClientReserves
<1> DEFINE f == Reserve(base, size, FALSE)
           arg == [base |-> base, size |-> size]
<1>2. /\ stack = <<>> /\ UNCHANGED <<regions, cache, ret, status, client>>
      /\ Enters(f, "reserve", arg)
    BY <1>1 DEF ClientCall, Idle, Enters
<1>3. base \in Nat /\ size \in Nat \ {0}
    BY SizesAssumption DEF NULL
<1>4. f \in GoodFrames
    BY <1>3, MadeFrames DEF Inv, MemoryOK
<1>5. /\ f.fn = "__memory_reserve_ex" /\ f.pc = "start" /\ f.base = base /\ f.size = size
      /\ arg.base = base /\ arg.size = size
    BY DEF Reserve
<1>6. arg \in [base : Nat, size : Nat \ {0}]
    BY <1>3
<1>7. arg \in Arg
    BY <1>6 DEF Arg
<1> HIDE DEF f, arg
<1>8. Calls(f, Caller("reserve", arg))
    BY <1>5, <1>6 DEF Calls, Delivers, Caller
<1> QED BY <1>2, <1>4, <1>5, <1>7, <1>8, ClientEnters

\* A client allocates from a cache of its own.
LEMMA Safe_ClientAllocates ==
    ASSUME Inv, ClientAllocates
    PROVE  Inv'
<1>1. PICK c \in caches : ClientCall(Alloc(c, FALSE), "alloc", c)
    BY DEF ClientAllocates
<1> DEFINE f == Alloc(c, FALSE)
<1>2. /\ stack = <<>> /\ UNCHANGED <<regions, cache, ret, status, client>>
      /\ Enters(f, "alloc", c)
    BY <1>1 DEF ClientCall, Idle, Enters
<1>3. c \in DOMAIN cache /\ c \in Nat
    BY DEF Inv, ClientOK, MemoryOK, CachesOK
<1>4. f \in GoodFrames
    BY <1>3, MadeFrames DEF Inv, MemoryOK
<1>5. f.fn = "__cache_alloc" /\ f.pc = "try" /\ f.cache = c
    BY DEF Alloc
<1>6. c \in Arg
    BY <1>3 DEF Arg
<1> HIDE DEF f
<1>7. Calls(f, Caller("alloc", c))
    BY <1>5 DEF Calls, Caller
<1> QED BY <1>2, <1>4, <1>5, <1>6, <1>7, ClientEnters

\* A range the client reserved goes to the cache it creates.
LEMMA Safe_ClientCreates ==
    ASSUME Inv, ClientCreates
    PROVE  Inv'
<1>1. PICK g \in grants :
         /\ Cardinality(caches) < MaxCaches
         /\ stack = <<>> /\ stack' = <<Caller("new", g), New(g.base, g.size)>>
         /\ grants' = grants \ {g}
         /\ UNCHANGED <<regions, cache, ret, status, caches, objects>>
    BY DEF ClientCreates, Idle
<1> DEFINE f == New(g.base, g.size)
           h == <<"grant", 0, g.base, g.size>>
           k == <<"frame", 2, g.base, g.size>>
<1>2. g \in [base : Nat, size : Nat \ {0}]
    BY DEF Inv, ClientOK
<1>3. g.base \in Nat /\ g.size \in Nat \ {0}
    BY <1>2
<1>4. g \in Arg
    BY <1>2 DEF Arg
<1>5. f \in GoodFrames
    BY <1>3, MadeFrames DEF Inv, MemoryOK
<1>6. f.fn = "cache_new" /\ f.pc = "start" /\ f.p = g.base /\ f.size = g.size
    BY DEF New
<1>7. Enters(f, "new", g)
    BY <1>1 DEF Enters
<1> HIDE DEF f
<1>8. Calls(f, Caller("new", g))
    BY <1>6 DEF Calls, Caller
<1>9. /\ Plain' /\ MemoryOK' /\ StackOK' /\ Waiting' /\ Returned'
      /\ stack' # <<>> /\ DOMAIN stack' = 1..2 /\ stack'[2] = f
      /\ Last'.pc = "new" /\ ~HoldsRange(stack'[1])
      /\ SlabsKept /\ Ranges' = Ranges
    BY <1>1, <1>4, <1>5, <1>6, <1>7, <1>8, Entered
<1>10. ~Booting' /\ LowDone /\ BootRange
    BY <1>1, <1>9, ClientIdle DEF Booting
<1>11. Booted' /\ BootPhase'
    BY <1>1, <1>9, <1>10, BootCalls DEF Booted, BootPhase, LowDone, BootRange
<1>12. ClientOK'
    BY <1>1, <1>9 DEF Inv, ClientOK
<1>13. Owned'
  <2> DEFINE X == (Held \ {h}) \cup {k}
  <2>1. h \in Held
      BY HeldBy
  <2>2. \A c \in Grown' : <<"slab", c, cache'[c].base, cache'[c].size>> \in X
    <3>1. Grown' = Grown
        BY <1>1, QuietCaches
    <3>2. \A c \in Grown : <<"slab", c, cache[c].base, cache[c].size>> \in Held
        BY HeldBy
    <3> QED BY <1>1, <3>1, <3>2
  <2>3. \A q \in grants' : <<"grant", 0, q.base, q.size>> \in X
    <3> SUFFICES ASSUME NEW q \in grants' PROVE <<"grant", 0, q.base, q.size>> \in X
        OBVIOUS
    <3>1. q \in grants /\ q # g
        BY <1>1
    <3>2. <<"grant", 0, q.base, q.size>> \in Held
        BY <3>1, HeldBy
    <3>3. q \in [base : Nat, size : Nat \ {0}]
        BY <3>1 DEF Inv, ClientOK
    <3>4. q.base # g.base \/ q.size # g.size
        BY <1>2, <3>1, <3>3
    <3> QED BY <3>2, <3>4
  <2>4. \A i \in DOMAIN stack' : HoldsRange(stack'[i]) =>
           <<"frame", i, stack'[i].p, stack'[i].size>> \in X
      BY <1>6, <1>9
  <2>5. Held' \subseteq X
    <3> HIDE DEF X
    <3> QED BY <2>2, <2>3, <2>4, HeldWithin
  <2>6. k[3] = h[3] /\ k[4] = h[4]
      OBVIOUS
  <2> HIDE DEF h, k
  <2> QED BY <1>9, <2>1, <2>5, <2>6, OwnedMoved DEF Inv
<1> QED BY <1>9, <1>11, <1>12, <1>13 DEF Inv

\* The call a client made has returned to it.
LEMMA ClientBack ==
    ASSUME Inv, stack # <<>>, top.fn = "caller", top.pc # "boot", stack' = <<>>,
           UNCHANGED <<regions, cache, ret, status>>
    PROVE  /\ Plain' /\ StackOK' /\ Waiting' /\ Returned' /\ Booted' /\ BootPhase'
           /\ CachesOK' /\ FreeBlocks' /\ Sorted' /\ Gapless'
           /\ SlabsKept /\ Ranges' = Ranges /\ OfRegions' = OfRegions
           /\ Grown' = Grown /\ Busy' = Busy /\ (\A c : InCache(c)' = InCache(c))
           /\ FramesKept
<1>1. ~Booting
    BY Bottom DEF Inv, Booting, Last, top
<1>2. LowDone /\ BootRange
    BY <1>1, BootRangeThere
<1>3. /\ Plain' /\ StackOK' /\ Waiting' /\ Returned' /\ Booted' /\ BootPhase'
      /\ FramesKept
    BY <1>2, BackToIdle
<1> QED BY <1>3, QuietRegions, QuietCaches DEF Inv, MemoryOK

\* A client gets what it asked for: a range, a cache or a block.
LEMMA Safe_ClientGets ==
    ASSUME Inv, ClientGets
    PROVE  Inv'
<1>1. /\ stack # <<>> /\ top.fn = "caller" /\ top.pc \in {"reserve", "new", "alloc"}
      /\ stack' = <<>> /\ UNCHANGED <<regions, cache, ret, status>>
    BY DEF ClientGets, At
<1>2. /\ Plain' /\ StackOK' /\ Waiting' /\ Returned' /\ Booted' /\ BootPhase'
      /\ CachesOK' /\ FreeBlocks' /\ Sorted' /\ Gapless'
      /\ SlabsKept /\ Ranges' = Ranges /\ OfRegions' = OfRegions
      /\ Grown' = Grown /\ Busy' = Busy /\ (\A c : InCache(c)' = InCache(c))
      /\ FramesKept
    BY <1>1, ClientBack
<1>3. DOMAIN cache' = DOMAIN cache /\ stack' = <<>>
    BY <1>1
<1>4. ASSUME UNCHANGED objects
      PROVE  MemoryOK'
  <2>1. OfObjects' = OfObjects
      BY <1>4 DEF OfObjects
  <2>2. \A o \in objects' : o.cache \in DOMAIN cache' /\ o.at \in InCache(o.cache)'
    <3> SUFFICES ASSUME NEW o \in objects
                 PROVE  o.cache \in DOMAIN cache' /\ o.at \in InCache(o.cache)'
        BY <1>4
    <3>1. o.cache \in DOMAIN cache /\ o.at \in InCache(o.cache)
        BY DEF Inv, MemoryOK, BusyBlocks
    <3> QED BY <3>1, <1>1, <1>2
  <2>3. BusyBlocks'
      BY <1>1, <1>2, <1>4, <2>1, <2>2, BootCalls DEF Inv, MemoryOK, BusyBlocks
  <2> QED BY <1>2, <2>3 DEF MemoryOK
<1>5. ASSUME grants' \subseteq grants
      PROVE  Owned'
    BY <1>2, <1>5, HeldKept, OwnedKept DEF Inv
<1>6. CASE /\ top.pc = "reserve"
           /\ grants' = grants \cup
                 (IF ret = NULL THEN {} ELSE {[base |-> ret, size |-> top.arg.size]})
           /\ UNCHANGED <<caches, objects>>
  <2>1. /\ top.arg \in [base : Nat, size : Nat \ {0}] /\ ret \in Nat
        /\ ret # NULL => <<ret, top.arg.size>> \in Unheld
      BY <1>1, <1>6 DEF Inv, Returned, Plain
  <2> DEFINE b == ret
             size == top.arg.size
             g == [base |-> b, size |-> size]
             h == <<"grant", 0, b, size>>
  <2>2. g \in [base : Nat, size : Nat \ {0}] /\ g.base = b /\ g.size = size
      BY <2>1
  <2>3. ClientOK'
      BY <1>3, <1>6, <2>2 DEF Inv, ClientOK
  <2>4. Owned'
    <3>1. CASE ret = NULL
        BY <1>5, <1>6, <3>1
    <3>2. CASE ret # NULL
      <4>1. grants' = grants \cup {g}
          BY <1>6, <3>2
      <4> HIDE DEF g
      <4> DEFINE X == Held \cup {h}
      <4>2. \A c \in Grown' : <<"slab", c, cache'[c].base, cache'[c].size>> \in X
          BY <1>1, <1>2, HeldBy
      <4>3. \A q \in grants' : <<"grant", 0, q.base, q.size>> \in X
        <5>1. \A q \in grants : <<"grant", 0, q.base, q.size>> \in Held
            BY HeldBy
        <5> QED BY <4>1, <5>1, <2>2
      <4>4. \A i \in DOMAIN stack' : HoldsRange(stack'[i]) =>
               <<"frame", i, stack'[i].p, stack'[i].size>> \in X
          BY <1>3
      <4>5. Held' \subseteq X
        <5> HIDE DEF X
        <5> QED BY <4>2, <4>3, <4>4, HeldWithin
      <4>6. <<h[3], h[4]>> \in Unheld
          BY <2>1, <3>2
      <4> HIDE DEF h
      <4> QED BY <4>5, <4>6, <1>2, OwnedTaken DEF Inv
    <3> QED BY <3>1, <3>2
  <2>5. MemoryOK'
      BY <1>4, <1>6
  <2> QED BY <1>2, <2>3, <2>4, <2>5 DEF Inv
<1>7. CASE /\ top.pc = "new" /\ caches' = caches \cup {ret}
           /\ UNCHANGED <<grants, objects>>
  <2>1. ret \in DOMAIN cache
      BY <1>1, <1>7 DEF Inv, Returned
  <2>2. IsFiniteSet(caches) /\ Cardinality(caches) < MaxCaches /\ Cardinality(caches) \in Nat
    <3>1. stack[1].pc = "new"
        BY <1>1, <1>7, Bottom DEF Inv, top
    <3> QED BY <1>1, <3>1, FS_CardinalityType DEF Inv, ClientOK
  <2>3. MaxCaches \in Nat
      BY SizesAssumption
  <2>4. IsFiniteSet(caches') /\ Cardinality(caches') <= MaxCaches
    <3>1. /\ IsFiniteSet(caches \cup {ret})
          /\ Cardinality(caches \cup {ret}) =
                IF ret \in caches THEN Cardinality(caches) ELSE Cardinality(caches) + 1
        BY <2>2, FS_AddElement
    <3> QED BY <1>7, <2>2, <2>3, <3>1
  <2>5. ClientOK'
      BY <1>1, <1>3, <1>7, <2>1, <2>4 DEF Inv, ClientOK
  <2> QED BY <1>2, <1>4, <1>5, <1>7, <2>5 DEF Inv
<1>8. CASE /\ top.pc = "alloc"
           /\ objects' = objects \cup {[cache |-> top.arg, at |-> ret]}
           /\ UNCHANGED <<grants, caches>>
  <2>1. ret \in Fresh /\ ret \in InCache(top.arg) /\ top.arg \in caches /\ ret \in Nat
      BY <1>1, <1>8 DEF Inv, Returned, Plain
  <2>2. PICK c \in caches, b \in Nat : c = top.arg /\ b = ret
      BY <2>1
  <2> DEFINE o == [cache |-> c, at |-> b]
  <2>3. o \in [cache : caches, at : Nat] /\ o.cache = c /\ o.at = b
      BY <2>2
  <2>4. objects' = objects \cup {o}
      BY <1>8, <2>2
  <2> HIDE DEF o
  <2>5. ClientOK'
      BY <1>1, <1>3, <1>8, <2>3, <2>4 DEF Inv, ClientOK
  <2>6. OfObjects' = OfObjects \cup {b}
      BY <2>3, <2>4 DEF OfObjects
  <2>7. b \in Busy /\ b \notin DOMAIN cache /\ b \notin OfRegions /\ b \notin OfObjects
      BY <2>1, <2>2 DEF Fresh
  <2>8. \A p \in objects' : p.cache \in DOMAIN cache' /\ p.at \in InCache(p.cache)'
    <3> SUFFICES ASSUME NEW p \in objects \cup {o}
                 PROVE  p.cache \in DOMAIN cache' /\ p.at \in InCache(p.cache)'
        BY <2>4
    <3>1. p.cache \in DOMAIN cache /\ p.at \in InCache(p.cache)
      <4>1. CASE p = o
          BY <4>1, <2>1, <2>2, <2>3 DEF Inv, ClientOK
      <4>2. CASE p \in objects
          BY <4>2 DEF Inv, MemoryOK, BusyBlocks
      <4> QED BY <4>1, <4>2
    <3> QED BY <3>1, <1>1, <1>2
  <2>9. \A p, q \in objects' : p.at = q.at => p = q
    <3>1. \A p \in objects : p.at # b
        BY <2>7 DEF OfObjects
    <3>2. \A p, q \in objects : p.at = q.at => p = q
        BY DEF Inv, MemoryOK, BusyBlocks
    <3> QED BY <2>3, <2>4, <3>1, <3>2
  <2>10. BusyBlocks'
      BY <1>1, <1>2, <2>6, <2>7, <2>8, <2>9, BootCalls
         DEF Inv, MemoryOK, BusyBlocks
  <2>11. MemoryOK'
      BY <1>2, <2>10 DEF MemoryOK
  <2> QED BY <1>2, <1>5, <1>8, <2>5, <2>11 DEF Inv
<1> QED BY <1>6, <1>7, <1>8 DEF ClientGets, At

\* While no call is in progress.
LEMMA StaysIdle ==
    ASSUME Inv, stack = <<>>, UNCHANGED <<stack, ret, status>>,
           LowDone => LowDone', BootRange => BootRange'
    PROVE  /\ Plain' /\ StackOK' /\ Waiting' /\ Returned' /\ Booted' /\ BootPhase'
           /\ FramesKept
<1>1. stack' \in Seq(Frame) /\ Len(stack') = 0 /\ DOMAIN stack' = {}
    OBVIOUS
<1>2. Plain'
    BY DEF Inv, Plain
<1>3. StackOK'
    BY <1>1 DEF StackOK
<1>4. Waiting' /\ Returned' /\ BootPhase'
    BY <1>1 DEF Waiting, Splitting, Returned, BootPhase, Booting
<1>5. Booted'
    BY ClientIdle, BootCalls DEF Booted, BootRange
<1> QED BY <1>1, <1>2, <1>3, <1>4, <1>5 DEF FramesKept

\* A client frees a block: it goes back to the slab it came from.
LEMMA Safe_ClientFrees ==
    ASSUME Inv, ClientFrees
    PROVE  Inv'
<1>1. PICK o \in objects : cache_free(o.cache, o.at) /\ objects' = objects \ {o}
    BY DEF ClientFrees
<1>2. stack = <<>> /\ UNCHANGED <<regions, stack, ret, status, grants, caches>>
    BY DEF ClientFrees, Idle
<1>3. o.at \in Nat
    BY DEF Inv, ClientOK
<1>4. LowDone /\ BootRange
    BY <1>2, ClientIdle
<1>5. CachesOK' /\ SlabsKept /\ FreeBlocks' /\ BusyBlocks'
    BY <1>1, <1>2, <1>3, <1>4, BlockGiven DEF Inv, MemoryOK
<1>6. Sorted' /\ Gapless' /\ Ranges' = Ranges
    BY <1>2, QuietRegions DEF Inv, MemoryOK
<1>7. LowDone' /\ BootRange'
    BY <1>2, <1>4, <1>6, BootCalls DEF LowDone, BootRange
<1>8. /\ Plain' /\ StackOK' /\ Waiting' /\ Returned' /\ Booted' /\ BootPhase'
      /\ FramesKept
    BY <1>2, <1>7, StaysIdle
<1>9. Owned'
    BY <1>2, <1>5, <1>6, <1>8, HeldKept, OwnedKept DEF Inv
<1>10. ClientOK'
  <2>1. caches' \subseteq DOMAIN cache'
      BY <1>2, <1>5 DEF SlabsKept, Inv, ClientOK
  <2> QED BY <1>1, <1>2, <2>1 DEF Inv, ClientOK
<1> QED BY <1>5, <1>6, <1>8, <1>9, <1>10 DEF Inv, MemoryOK

\* memory_release finds the region of the grant.
LEMMA GrantFound ==
    ASSUME Inv, stack = <<>>, NEW g \in grants
    PROVE  LET at == {i \in DOMAIN regions : regions[i].base = g.base}
               i == First(at)
           IN  /\ i \in DOMAIN regions /\ regions[i].base = g.base
               /\ regions[i].type = Reserved /\ Usable(regions[i])
               /\ g.base \notin {NULL, metadata_cache}
               /\ \A h \in Held : h[3] = g.base => h = <<"grant", 0, g.base, g.size>>
<1> DEFINE at == {i \in DOMAIN regions : regions[i].base = g.base}
           h == <<"grant", 0, g.base, g.size>>
<1>1. h \in Held /\ h[3] = g.base /\ h[4] = g.size
    BY HeldBy
<1>2. /\ <<h[3], h[4]>> \in Ranges /\ h[3] \notin {NULL, metadata_cache}
      /\ \A k \in Held : h[3] = k[3] => h = k
    BY <1>1 DEF Inv, Owned
<1>3. <<g.base, g.size>> \in Ranges /\ g.base \notin {NULL, metadata_cache}
      /\ \A k \in Held : k[3] = g.base => k = h
    BY <1>1, <1>2
<1> HIDE DEF h
<1>4. PICK j \in DOMAIN regions : /\ regions[j].base = g.base /\ regions[j].type = Reserved
                                  /\ Usable(regions[j])
  <2> DEFINE r == <<g.base, g.size>>
  <2>1. r \in Ranges /\ r[1] = g.base
      BY <1>3
  <2> HIDE DEF r
  <2> QED BY <2>1 DEF Ranges
<1>5. at = {j}
    BY <1>4, SameBase DEF Inv, MemoryOK
<1>6. First({j}) = j
  <2>1. j \in Nat
      BY <1>4, RegionFields DEF Inv, MemoryOK
  <2>2. {j} \in SUBSET Nat /\ {j} # {}
      BY <2>1
  <2>3. First({j}) \in {j}
      BY <2>2, FirstIn
  <2> QED BY <2>3
<1> QED BY <1>3, <1>4, <1>5, <1>6 DEF h

\* A client releases a range: nobody else holds the region.
LEMMA Safe_ClientReleases ==
    ASSUME Inv, ClientReleases
    PROVE  Inv'
<1>1. PICK g \in grants : memory_release(g.base) /\ grants' = grants \ {g}
    BY DEF ClientReleases
<1>2. stack = <<>> /\ UNCHANGED <<cache, stack, ret, status, caches, objects>>
    BY DEF ClientReleases, Idle
<1> DEFINE i == First({j \in DOMAIN regions : regions[j].base = g.base})
           b == g.base
<1>3. /\ i \in DOMAIN regions /\ regions[i].base = b
      /\ regions[i].type = Reserved /\ Usable(regions[i])
      /\ b \notin {NULL, metadata_cache}
      /\ \A h \in Held : h[3] = b => h = <<"grant", 0, g.base, g.size>>
    BY <1>2, GrantFound
<1>4. regions' = [regions EXCEPT ![i].type = Free]
    BY <1>1 DEF memory_release
<1> HIDE DEF i, b
<1>5. /\ Sorted' /\ Gapless' /\ OfRegions' = OfRegions
      /\ \A j \in DOMAIN regions : j # i => regions'[j] = regions[j]
      /\ \A r \in Ranges : r[1] # b => r \in Ranges'
  <2>1. Free \in Nat /\ Free # Reserved
      BY DEF Free, Reserved
  <2> QED BY <1>3, <1>4, <2>1, Retyped DEF Inv, MemoryOK
<1>6. LowDone /\ BootRange
    BY <1>2, ClientIdle
<1>7. LowDone' /\ BootRange'
  <2>1. i # 1 /\ 1 \in DOMAIN regions
    <3>1. 1 \in DOMAIN regions
        BY <1>3, RegionFields DEF Inv, MemoryOK
    <3> QED BY <1>3, <1>6, <3>1 DEF LowDone
  <2>2. LowDone'
      BY <1>5, <1>6, <2>1 DEF LowDone
  <2>3. BootRange'
    <3> DEFINE r == <<metadata_cache, BootLen>>
    <3>1. r \in Ranges /\ r[1] # b
        BY <1>3, <1>6 DEF BootRange
    <3> HIDE DEF r
    <3>2. r \in Ranges'
        BY <1>5, <3>1
    <3> QED BY <3>2, BootCalls DEF r, BootRange
  <2> QED BY <2>2, <2>3
<1>8. /\ Plain' /\ StackOK' /\ Waiting' /\ Returned' /\ Booted' /\ BootPhase'
      /\ FramesKept
    BY <1>2, <1>7, StaysIdle
<1>9. CachesOK' /\ FreeBlocks' /\ SlabsKept /\ Busy' = Busy /\ (\A c : InCache(c)' = InCache(c))
      /\ Grown' = Grown
    BY <1>2, QuietCaches DEF Inv, MemoryOK
<1>10. BusyBlocks'
  <2>1. OfObjects' = OfObjects
      BY <1>2 DEF OfObjects
  <2>2. \A o \in objects' : o.cache \in DOMAIN cache' /\ o.at \in InCache(o.cache)'
    <3> SUFFICES ASSUME NEW o \in objects
                 PROVE  o.cache \in DOMAIN cache' /\ o.at \in InCache(o.cache)'
        BY <1>2
    <3>1. o.cache \in DOMAIN cache /\ o.at \in InCache(o.cache)
        BY DEF Inv, MemoryOK, BusyBlocks
    <3> QED BY <3>1, <1>2, <1>9
  <2> QED BY <1>2, <1>5, <1>9, <2>1, <2>2, BootCalls
             DEF Inv, MemoryOK, BusyBlocks
<1>11. Owned'
  <2>1. Held' \subseteq Held
      BY <1>1, <1>8, <1>9, HeldKept
  <2>2. \A h \in Held' : h[3] # b
    <3> DEFINE X == {h \in Held : h[3] # b}
    <3>1. \A c \in Grown' : <<"slab", c, cache'[c].base, cache'[c].size>> \in X
      <4> SUFFICES ASSUME NEW c \in Grown
                   PROVE  <<"slab", c, cache[c].base, cache[c].size>> \in X
          BY <1>2, <1>9
      <4> DEFINE h == <<"slab", c, cache[c].base, cache[c].size>>
      <4>1. h \in Held /\ h # <<"grant", 0, g.base, g.size>>
          BY HeldBy
      <4>2. h[3] # b
          BY <1>3, <4>1
      <4> QED BY <4>1, <4>2
    <3>2. \A q \in grants' : <<"grant", 0, q.base, q.size>> \in X
      <4> SUFFICES ASSUME NEW q \in grants' PROVE <<"grant", 0, q.base, q.size>> \in X
          OBVIOUS
      <4> DEFINE h == <<"grant", 0, q.base, q.size>>
      <4>1. q \in grants /\ q # g
          BY <1>1
      <4>2. h \in Held
          BY <4>1, HeldBy
      <4>3. q \in [base : Nat, size : Nat \ {0}] /\ g \in [base : Nat, size : Nat \ {0}]
          BY <4>1 DEF Inv, ClientOK
      <4>4. q.base # g.base \/ q.size # g.size
          BY <4>1, <4>3
      <4>5. h # <<"grant", 0, g.base, g.size>>
          BY <4>4
      <4>6. h[3] # b
          BY <1>3, <4>2, <4>5
      <4> QED BY <4>2, <4>6
    <3>3. \A k \in DOMAIN stack' : HoldsRange(stack'[k]) =>
             <<"frame", k, stack'[k].p, stack'[k].size>> \in X
        BY <1>2
    <3>4. Held' \subseteq X
      <4> HIDE DEF X
      <4> QED BY <3>1, <3>2, <3>3, HeldWithin
    <3> QED BY <3>4
  <2>3. \A h \in Held' : <<h[3], h[4]>> \in Ranges => <<h[3], h[4]>> \in Ranges'
    <3> SUFFICES ASSUME NEW h \in Held', <<h[3], h[4]>> \in Ranges
                 PROVE  <<h[3], h[4]>> \in Ranges'
        OBVIOUS
    <3> DEFINE r == <<h[3], h[4]>>
    <3>1. r \in Ranges /\ r[1] # b
        BY <2>2
    <3> HIDE DEF r
    <3>2. r \in Ranges'
        BY <1>5, <3>1
    <3> QED BY <3>2 DEF r
  <2> QED BY <2>1, <2>3, OwnedKept DEF Inv
<1>12. ClientOK'
    BY <1>1, <1>2 DEF Inv, ClientOK
<1> QED BY <1>5, <1>8, <1>9, <1>10, <1>11, <1>12 DEF Inv, MemoryOK
=============================================================================
