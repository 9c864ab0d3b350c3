-------------------------- MODULE MemoryInvariant ---------------------------
(***************************************************************************)
(* The invariant the memory manager keeps, in parts: what the region list  *)
(* and the slabs look like, who holds which range and which block, what    *)
(* the frames on the stack wait for, and how far memory_init has got.  The *)
(* properties of Memory follow from it; the hard parts are those about the *)
(* calls in progress, which use what they found out before they called.    *)
(***************************************************************************)
EXTENDS Memory

\* What a boot cache's slab takes.
SlabSize == Nmemb * CacheSize
MapSlabSize == 2 * Len(Zones) * MapSize

-----------------------------------------------------------------------------
(* The region list.                                                        *)

Region == [at : Nat, base : Nat, size : Nat \ {0}, type : Nat]
\* Memory the boot loader reported as free.
Usable(r) == \E z \in DOMAIN Zones : Zones[z].type = Free /\ Inside(r, Zones[z])

\* The list is in order of address, each struct memory_map on it once, and what
\* is free is usable.
Sorted ==
    /\ regions \in Seq(Region)
    /\ \A i, j \in DOMAIN regions : i < j => End(regions[i]) <= regions[j].base
    /\ \A i, j \in DOMAIN regions : regions[i].at = regions[j].at => i = j
    /\ \A i \in DOMAIN regions : regions[i].type = Free => Usable(regions[i])

\* The regions fill the zones.
Gapless ==
    /\ \A z \in DOMAIN Zones : \E i \in DOMAIN regions : regions[i].base = Zones[z].base
    /\ \A i \in DOMAIN regions :
          /\ \E z \in DOMAIN Zones : Inside(regions[i], Zones[z])
          /\ \/ \E z \in DOMAIN Zones : End(regions[i]) = End(Zones[z])
             \/ i + 1 \in DOMAIN regions /\ regions[i + 1].base = End(regions[i])

\* The ranges that are reserved regions of usable memory.
Ranges ==
    {r \in Nat \X Nat :
        \E i \in DOMAIN regions : /\ regions[i].base = r[1] /\ regions[i].size = r[2]
                                  /\ regions[i].type = Reserved /\ Usable(regions[i])}

-----------------------------------------------------------------------------
(* The slabs and their blocks.                                             *)

\* The caches and slabs made after memory_init's two.
Grown == DOMAIN cache \ {metadata_cache, memory_map_cache}
CacheRec == [base : Nat, size : Nat \ {0}, bsize : Nat \ {0}, free : Seq(Nat), slabs : Seq(Nat)]
\* The slab lists refer to slabs that exist; the boot caches are where they are.
CachesOK ==
    /\ cache \in [DOMAIN cache -> CacheRec]
    /\ DOMAIN cache \subseteq Nat
    /\ {metadata_cache, memory_map_cache} \subseteq DOMAIN cache
    /\ \A c \in DOMAIN cache : \A i \in DOMAIN cache[c].slabs : cache[c].slabs[i] \in DOMAIN cache
    /\ cache[metadata_cache].base = metadata_cache + CacheSize
    /\ cache[metadata_cache].size = SlabSize
    /\ cache[metadata_cache].bsize = CacheSize
    /\ cache[memory_map_cache].base = MapSlab
    /\ cache[memory_map_cache].size = MapSlabSize

\* The block b lies in the slab of c.
InSlab(b, c) ==
    cache[c].base <= b /\ b + cache[c].bsize <= cache[c].base + cache[c].size
\* Addresses in a slab of the cache c.
InCache(c) == {b \in Nat : \E i \in DOMAIN SlabsOf(c) : InSlab(b, SlabsOf(c)[i])}
\* Addresses in slabs, those on freelists, those in use; what is not free is busy.
InSlabs == {b \in Nat : \E c \in DOMAIN cache : InSlab(b, c)}
Freelists == {b \in Nat : \E c \in DOMAIN cache : \E k \in DOMAIN cache[c].free : cache[c].free[k] = b}
OfRegions == {regions[i].at : i \in DOMAIN regions}
OfObjects == {o.at : o \in objects}
Busy == InSlabs \ Freelists

\* A list of blocks of the slab of c, each of them once.
BlocksOf(list, c) ==
    /\ \A k \in DOMAIN list : InSlab(list[k], c)
    /\ \A k, l \in DOMAIN list : list[k] = list[l] => k = l
\* A freelist holds blocks of its own slab, each of them once.
FreeBlocks == \A c \in DOMAIN cache : BlocksOf(cache[c].free, c)
\* What is in use is on no freelist and used for one thing only: a region's struct,
\* a struct cache, or an object, which lies in a slab of the cache it came from.
BusyBlocks ==
    /\ OfRegions \subseteq Busy \ DOMAIN cache
    /\ DOMAIN cache \ {metadata_cache} \subseteq Busy
    /\ OfObjects \subseteq Busy \ (DOMAIN cache \cup OfRegions)
    /\ \A o \in objects : o.cache \in DOMAIN cache /\ o.at \in InCache(o.cache)
    /\ \A o, p \in objects : o.at = p.at => o = p
\* Blocks nobody has yet.
Fresh == Busy \ (DOMAIN cache \cup OfRegions \cup OfObjects)

-----------------------------------------------------------------------------
(* The reserved ranges and who holds them.                                 *)

\* Who holds which range: a slab, a grant of the client, or a call that is
\* making a slab of it, each with its base and its size.
HoldsRange(f) == f.fn \in {"cache_extend", "cache_new"}
Held ==
    {<<"slab", c, cache[c].base, cache[c].size>> : c \in Grown}
    \cup {<<"grant", 0, g.base, g.size>> : g \in grants}
    \cup {<<"frame", i, stack[i].p, stack[i].size>> :
             i \in {j \in DOMAIN stack : HoldsRange(stack[j])}}

\* Ranges nobody has yet.
Unheld ==
    {r \in Ranges : r[1] \notin {NULL, metadata_cache} /\ \A h \in Held : h[3] # r[1]}

\* Who holds a range holds the whole of a reserved region, and nobody else does.
Owned ==
    /\ \A h \in Held : <<h[3], h[4]>> \in Ranges /\ h[3] \notin {NULL, metadata_cache}
    /\ \A h, k \in Held : h[3] = k[3] => h = k

-----------------------------------------------------------------------------
(* The stack.                                                              *)

\* The frames of each function.
AllocFrame == [fn : {"__cache_alloc"}, pc : {"try", "metadata_reserved", "reserve", "reserved"},
               cache : Nat, ext : BOOLEAN]
ExtendFrame == [fn : {"cache_extend"}, pc : {"start", "got"}, old : Nat, p : Nat,
                size : Nat \ {0}, bsize : Nat \ {0}, ext : BOOLEAN]
NewFrame == [fn : {"cache_new"}, pc : {"start", "got"}, p : Nat, size : Nat \ {0}]
ReserveFrame == [fn : {"__memory_reserve_ex"},
                 pc : {"start", "map_reserved", "scan", "front_split"},
                 base : Nat, size : Nat \ {0}, ext : BOOLEAN]
SplitFrame == [fn : {"memory_split"}, pc : {"start", "got"}, m : Nat, size : Nat \ {0}]
Arg == [base : Nat, size : Nat \ {0}] \cup Seq(ReserveFrame) \cup Nat
CallerFrame == [fn : {"caller"}, pc : {"boot", "reserve", "new", "alloc"}, arg : Arg,
                dry : BOOLEAN]
Frame == AllocFrame \cup ExtendFrame \cup NewFrame \cup ReserveFrame \cup SplitFrame \cup CallerFrame

\* The region memory_split was called with is free and larger than the part.
Splittable(f) ==
    \E i \in DOMAIN regions : /\ regions[i].at = f.m /\ regions[i].type = Free
                              /\ f.size < regions[i].size
\* What a frame refers to is there.
FrameOK(f) ==
    /\ f.fn = "__cache_alloc" => f.cache \in DOMAIN cache
    /\ f.fn = "cache_extend" => f.old \in DOMAIN cache
    /\ f.fn = "__memory_reserve_ex" /\ f.ext => f.base = NULL /\ f.size = SlabSize
    /\ f.fn = "memory_split" => Splittable(f)

\* f, called by g, is the function g called where it stands, with the arguments g
\* gave it: what f returns is what g waits for.
Delivers(f, size) == f.fn \in {"__memory_reserve_ex", "memory_split"} /\ f.size = size
Calls(f, g) ==
    /\ f.fn # "caller" /\ g.pc # "start"
    /\ g.fn = "__cache_alloc" =>
          /\ g.pc \in {"try", "reserve"} => f.fn = "cache_extend"
          /\ g.pc = "metadata_reserved" => Delivers(f, SlabSize)
          /\ g.pc = "reserved" => Delivers(f, cache[g.cache].size)
    /\ g.fn \in {"cache_extend", "cache_new"} =>
          f.fn = "__cache_alloc" /\ f.cache = metadata_cache
    /\ g.fn = "__memory_reserve_ex" =>
          /\ g.pc = "map_reserved" => Delivers(f, SlabSize)
          /\ g.pc = "scan" => /\ f.fn = "cache_extend" /\ f.old = memory_map_cache
                              /\ f.size = SlabSize /\ f.bsize = CacheSize
          /\ g.pc = "front_split" => f.fn = "memory_split"
    /\ g.fn = "memory_split" =>
          f.fn = "__cache_alloc" /\ f.cache = memory_map_cache /\ ~f.ext
    /\ g.fn = "caller" =>
          /\ g.pc = "boot" => f.fn \in {"__memory_reserve_ex", "memory_split"}
          /\ g.pc = "reserve" => /\ g.arg \in [base : Nat, size : Nat \ {0}]
                                 /\ Delivers(f, g.arg.size)
                                 /\ f.fn = "__memory_reserve_ex" => f.base = g.arg.base
          /\ g.pc = "new" => f.fn = "cache_new"
          /\ g.pc = "alloc" => /\ f.fn = "__cache_alloc" /\ f.cache = g.arg
                               /\ g.arg \in caches
\* The stack is a chain of such calls, from the caller up.
GoodFrames == {f \in Frame : FrameOK(f)}
Links == {l \in Frame \X Frame : Calls(l[1], l[2])}
StackOK ==
    /\ stack \in Seq(Frame)
    /\ \A i \in DOMAIN stack : stack[i] \in GoodFrames
    /\ \A i \in DOMAIN stack : i + 1 \in DOMAIN stack => <<stack[i + 1], stack[i]>> \in Links
    /\ stack # <<>> => stack[1].fn = "caller"

\* The first region a slab for the bookkeeping is cut off, and that it would
\* not use it up.
FirstFit == regions[First(Hits(NULL, SlabSize))]
TightFit ==
    /\ Hits(NULL, SlabSize) # {} /\ Fits(FirstFit, NULL, SlabSize)
    /\ FirstFit.size # SlabSize

\* A call further out is about to split a region.
Splitting == \E i \in DOMAIN stack : i # Len(stack) /\ stack[i].fn = "memory_split"

\* It gets its struct memory_map at once; or the call for it has found none,
\* and only goes round a circle until the stack is used up.
Served ==
    /\ top = Alloc(memory_map_cache, FALSE) /\ NonEmpty(memory_map_cache) # {}
    /\ \A i \in DOMAIN stack : i < Len(stack) - 1 => stack[i].fn # "memory_split"
Circling ==
    /\ NonEmpty(memory_map_cache) = {} /\ TightFit
    /\ top \in {Alloc(memory_map_cache, FALSE), Reserve(NULL, SlabSize, TRUE),
                Reserve(NULL, MapSlabSize, FALSE), Split(FirstFit.at, SlabSize)}
Waiting == Splitting => Served \/ Circling

\* The types of what is neither memory nor stack.
Plain ==
    /\ ret \in Nat
    /\ status \in {"ok", "null slab", "overflow"}
    /\ Len(stack) <= MaxDepth + 1

\* The value just returned is what the innermost frame takes it for: a block or a
\* range nobody has.
Returned ==
    stack # <<>> =>
      /\ top.pc = "got" => ret \in Fresh
      /\ top.fn = "__cache_alloc" /\ top.pc = "metadata_reserved" /\ ret # NULL =>
            <<ret, SlabSize>> \in Unheld
      /\ top.fn = "__cache_alloc" /\ top.pc = "reserved" /\ ret # NULL =>
            <<ret, cache[top.cache].size>> \in Unheld
      /\ top.pc = "map_reserved" /\ ret # NULL => <<ret, SlabSize>> \in Unheld
      /\ top.pc = "scan" => NonEmpty(memory_map_cache) # {}
      /\ top.fn = "caller" /\ top.pc = "reserve" =>
            /\ top.arg \in [base : Nat, size : Nat \ {0}]
            /\ ret # NULL => <<ret, top.arg.size>> \in Unheld
            /\ ret = NULL /\ top.arg.base = NULL =>
                  \A i \in DOMAIN regions : regions[i].type = Free => regions[i].size < top.arg.size
      /\ top.fn = "caller" /\ top.pc = "new" => ret \in DOMAIN cache
      /\ top.fn = "caller" /\ top.pc = "alloc" =>
            ret \in Fresh \cap InCache(top.arg) /\ top.arg \in caches
      /\ top.fn = "memory_split" /\ top.pc = "start" =>
            \/ NonEmpty(memory_map_cache) # {}
            \/ TightFit /\ top = Split(FirstFit.at, SlabSize)

\* What the client holds exists.
ClientOK ==
    /\ caches \subseteq DOMAIN cache
    /\ IsFiniteSet(caches) /\ Cardinality(caches) <= MaxCaches
    /\ stack # <<>> /\ stack[1].pc = "new" => Cardinality(caches) < MaxCaches
    /\ grants \subseteq [base : Nat, size : Nat \ {0}]
    /\ objects \subseteq [cache : caches, at : Nat]

-----------------------------------------------------------------------------
(* memory_init.                                                            *)

Last == stack[1]
Booting == stack # <<>> /\ Last.pc = "boot"
LowDone == regions[1].base = NULL /\ regions[1].type = Reserved
\* Where the zone the kernel is loaded in ends, and that what is left of it begins
\* at base.
BootEnd == LET z == CHOOSE z \in 2..Len(Zones) :
                      /\ Zones[z].base = KernelBase /\ Zones[z].type = Free
                      /\ KernelEnd + BootLen < KernelBase + Zones[z].size
           IN KernelBase + Zones[z].size
RoomAt(i, base) == regions[i].base = base /\ regions[i].type = Free /\ End(regions[i]) = BootEnd
Room(base) == \E i \in DOMAIN regions : RoomAt(i, base)
Structs(n) == Len(cache[memory_map_cache].free) >= n

\* Afterwards low memory and the boot slabs are reserved for good.
Booted == ~Booting => LowDone /\ <<metadata_cache, BootLen>> \in Ranges

\* The second or third reservation is under way and cuts its region off in front,
\* with a struct memory_map to spare: n of them before the split takes one.
Serving(call, n) ==
    /\ LowDone
    /\ \/ /\ Len(stack) = 2 /\ top = call /\ Room(call.base) /\ Structs(n)
       \/ /\ \E i \in DOMAIN regions :
             /\ RoomAt(i, call.base)
             /\ \/ Len(stack) = 2 /\ top = Split(regions[i].at, call.size) /\ Structs(n)
                \/ /\ Len(stack) = 3 /\ top = Alloc(memory_map_cache, FALSE) /\ Structs(n)
                   /\ stack[2] = [Split(regions[i].at, call.size) EXCEPT !.pc = "got"]
                \/ /\ Len(stack) = 2 /\ Structs(n - 1)
                   /\ top = [Split(regions[i].at, call.size) EXCEPT !.pc = "got"]

\* How far memory_init has got: its calls never need a slab more.
BootPhase ==
    Booting =>
      /\ DOMAIN cache = {metadata_cache, memory_map_cache}
      /\ cache[memory_map_cache].slabs = <<>>
      /\ grants = {} /\ caches = {} /\ objects = {}
      /\ \/ /\ Last.arg = <<KernelCall, CachesCall>> /\ Room(KernelBase) /\ Structs(3)
            /\ \/ /\ Len(stack) = 2 /\ top = LowMemoryCall
                  /\ regions[1].base = NULL /\ regions[1].size = LowMemory /\ regions[1].type = Free
               \/ Len(stack) = 1 /\ LowDone
         \/ Last.arg = <<CachesCall>> /\ Serving(KernelCall, 3)
         \/ Last.arg = <<CachesCall>> /\ Len(stack) = 1 /\ LowDone /\ Room(KernelEnd) /\ Structs(2)
         \/ Last.arg = <<>> /\ Serving(CachesCall, 2)
         \/ Last.arg = <<>> /\ Len(stack) = 1 /\ LowDone /\ <<metadata_cache, BootLen>> \in Ranges

-----------------------------------------------------------------------------
(* Where every block is.                                                   *)

\* The blocks of the slab of c, and those of all slabs.
BlocksIn(c) ==
    {cache[c].base + i * cache[c].bsize : i \in 0..(cache[c].size \div cache[c].bsize - 1)}
AllBlocks == UNION {BlocksIn(c) : c \in DOMAIN cache}

\* A block __cache_alloc has returned and its caller has not used yet.
Expecting ==
    /\ stack # <<>>
    /\ \/ top.pc = "got"
       \/ top.fn = "caller" /\ top.pc = "alloc"
Pending == IF Expecting THEN {ret} ELSE {}

\* On a freelist, in use, or on the way from the one to the other.
Placed == Freelists \cup OfRegions \cup (DOMAIN cache \ {metadata_cache}) \cup OfObjects \cup Pending

\* Every block is somewhere, and nothing else is anywhere.
AllPlaced ==
    /\ AllBlocks = Placed
    /\ IsFiniteSet(DOMAIN cache) /\ IsFiniteSet(objects)

-----------------------------------------------------------------------------
(* Whom every reserved range is for.                                       *)

\* The range of a region, and those of all reserved regions: what Reservations
\* calls taken.
Ranged(r) == [base |-> r.base, size |-> r.size]
Taken == {Ranged(r) : r \in RegionsOf(Reserved)}

\* The boot loader reported it with the type this code gives what it reserves.
Reported(r) ==
    \E z \in DOMAIN Zones : /\ Zones[z].type = Reserved
                            /\ Zones[z].base = r.base /\ Zones[z].size = r.size
\* The innermost frame is about to use the range that begins at ret.
Awaited ==
    /\ stack # <<>>
    /\ \/ top.fn = "__cache_alloc" /\ top.pc \in {"metadata_reserved", "reserved"}
       \/ top.fn = "__memory_reserve_ex" /\ top.pc = "map_reserved"
       \/ top.fn = "caller" /\ top.pc = "reserve"
\* Among the holders H is one of the range at b.
InHands(H, b, size) == \E h \in H : h[3] = b /\ h[4] = size
AskedFor(r) ==
    \/ Reported(r) \/ InHands(Held, r.base, r.size)
    \/ r.base \in {NULL, KernelBase, metadata_cache}
    \/ End(r) \in Bases
    \/ Awaited /\ r.base = ret

\* f, called to cut a region off in front of base, still does.
CutsFront(f, base) ==
    \E i \in DOMAIN regions : regions[i].at = f.m /\ regions[i].base + f.size = base
\* After memory_init an address asked for is one of the client's.
FrontOK(i) ==
    stack[i].fn = "__memory_reserve_ex" =>
        /\ stack[i].base \in {NULL} \cup Bases
        /\ stack[i].pc = "front_split" =>
              /\ stack[i].base \in Bases
              /\ i + 1 \in DOMAIN stack => CutsFront(stack[i + 1], stack[i].base)
Fronts == ~Booting => \A i \in DOMAIN stack : FrontOK(i)

\* No range is reserved for nobody.
Accounted == (\A r \in Taken : AskedFor(r)) /\ Fronts

-----------------------------------------------------------------------------
MemoryOK == Sorted /\ Gapless /\ CachesOK /\ FreeBlocks /\ BusyBlocks

\* The inductive invariant.
Inv ==
    /\ Plain /\ MemoryOK /\ Owned
    /\ StackOK /\ Waiting /\ Returned
    /\ ClientOK /\ Booted /\ BootPhase
=============================================================================
