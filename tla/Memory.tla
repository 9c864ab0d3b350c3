------------------------------- MODULE Memory -------------------------------
(***************************************************************************)
(* The physical memory manager, k/memory.c: the list of memory regions and *)
(* the slab caches its own bookkeeping lives in.                           *)
(*                                                                         *)
(* The two halves call each other.  Splitting a region needs a struct      *)
(* memory_map, allocated from memory_map_cache; a cache that has run out   *)
(* reserves a region for a new slab, which may split one, and needs a      *)
(* struct cache, allocated from metadata_cache, which may itself have run  *)
(* out.  So the calls in progress are state: `stack' holds one record per  *)
(* C frame, and every action is the code between two calls.                *)
(*                                                                         *)
(* Nothing here runs concurrently: no interrupt handler allocates.  The    *)
(* client is any kernel code that respects the interface: it frees what it *)
(* allocated and releases what it reserved, once.                          *)
(***************************************************************************)
EXTENDS Integers, Sequences, FiniteSets

CONSTANTS
    Zones,       \* the multiboot memory map: a sequence of [base, size, type]
    LowMemory,   \* info->mem_lower * 1024
    KernelBase,  \* 0x100000
    KernelEnd,   \* last_loaded_addr
    CacheSize,   \* sizeof(struct cache)
    MapSize,     \* sizeof(struct memory_map)
    Nmemb,       \* BASE_METADATA_CACHE_NMEMB, and the literal 10 of an extension
    BlockSize,   \* the block size of the client's caches
    MaxCaches,   \* bound: caches the client creates
    Sizes,       \* sizes the client reserves
    Bases,       \* addresses the client asks for by memory_reserve_ex
    MaxDepth     \* bound: C frames the kernel stack holds

ASSUME ZonesAssumption ==
    /\ Zones \in Seq([base : Nat, size : Nat \ {0}, type : Nat]) /\ Zones # <<>>
    /\ \A i \in 1..(Len(Zones) - 1) :
          Zones[i].base + Zones[i].size <= Zones[i + 1].base
ASSUME SizesAssumption ==
    /\ {LowMemory, KernelBase, KernelEnd} \subseteq Nat
    /\ {CacheSize, MapSize, Nmemb, BlockSize} \subseteq Nat \ {0}
    /\ Sizes \cup Bases \subseteq Nat \ {0}
    /\ MaxCaches \in Nat /\ MaxDepth \in Nat \ {0}
NULL == 0
Free == 0       \* type of a free region
Reserved == 2   \* type of a region this code reserved

metadata_cache == KernelEnd
memory_map_cache == KernelEnd + CacheSize
MapSlab == KernelEnd + (Nmemb + 1) * CacheSize
BootLen == (Nmemb + 1) * CacheSize + 2 * Len(Zones) * MapSize

\* The memory of a PC as GRUB describes it: low memory is a zone of its own, and
\* another starts at 1 MB, with room for the kernel and the first caches.
ASSUME BootAssumption ==
    /\ Len(Zones) >= 3
    /\ Zones[1] = [base |-> NULL, size |-> LowMemory, type |-> Free]
    /\ KernelBase < KernelEnd
    /\ \E z \in 2..Len(Zones) :
          /\ Zones[z].base = KernelBase /\ Zones[z].type = Free
          /\ KernelEnd + BootLen < KernelBase + Zones[z].size

VARIABLES
    regions,  \* the list memory_map: a sequence of [at, base, size, type],
              \* `at' being the address of the struct memory_map itself
    cache,    \* struct cache, by address: [base, size, bsize, free, slabs]
    stack,    \* the C call stack, innermost frame last
    ret,      \* the value the last call returned
    status,   \* "ok", or how the kernel went wrong: see Crash below
    \* What the client holds.
    grants,   \* reserved ranges: a set of [base, size]
    caches,   \* addresses of the caches it created
    objects   \* allocated blocks: a set of [cache, at]

client == <<grants, caches, objects>>
vars == <<regions, cache, stack, ret, status, client>>

-----------------------------------------------------------------------------
(* Frames.                                                                 *)

Alloc(c, ext) == [fn |-> "__cache_alloc", pc |-> "try", cache |-> c, ext |-> ext]
Extend(c, p, size, bsize, ext) ==
    [fn |-> "cache_extend", pc |-> "start", old |-> c, p |-> p, size |-> size,
     bsize |-> bsize, ext |-> ext]
New(p, size) == [fn |-> "cache_new", pc |-> "start", p |-> p, size |-> size]
Reserve(base, size, ext) ==
    [fn |-> "__memory_reserve_ex", pc |-> "start", base |-> base,
     size |-> size, ext |-> ext]
Split(m, size) == [fn |-> "memory_split", pc |-> "start", m |-> m, size |-> size]

top == stack[Len(stack)]
At(fn, pc) ==
    /\ status = "ok" /\ stack # <<>> /\ Len(stack) <= MaxDepth
    /\ top.fn = fn /\ top.pc = pc

\* The innermost frame calls f and goes on at pc.
Call(f, pc) ==
    /\ stack' = Append([stack EXCEPT ![Len(stack)].pc = pc], f)
    /\ UNCHANGED <<ret, status>>
\* `return f(...)': f takes the frame's place.
TailCall(f) ==
    /\ stack' = [stack EXCEPT ![Len(stack)] = f]
    /\ UNCHANGED <<ret, status>>
Return(value) ==
    /\ stack' = SubSeq(stack, 1, Len(stack) - 1)
    /\ ret' = value
    /\ UNCHANGED status

-----------------------------------------------------------------------------
(* Slab caches.                                                            *)

\* list_insert: s with one element more, before its i-th.
InsertBefore(s, i, new) ==
    [k \in 1..(Len(s) + 1) |-> IF k < i THEN s[k] ELSE IF k = i THEN new ELSE s[k - 1]]

\* What a walk along a list stops at: the first of some places.
First(places) == CHOOSE i \in places : \A j \in places : i <= j

\* f with a value at one more place.
Extended(f, at, value) ==
    [x \in DOMAIN f \cup {at} |-> IF x = at THEN value ELSE f[x]]

\* cache_initialize: the blocks of the slab, in order of address.
Slab(p, size, bsize) ==
    [base |-> p, size |-> size, bsize |-> bsize, slabs |-> <<>>,
     free |-> [i \in 1..(size \div bsize) |-> p + (i - 1) * bsize]]

\* freelist_size: counts one more than there are, unless there are none.
freelist_size(c) == IF c.free = <<>> THEN 0 ELSE Len(c.free) + 1

\* All slabs of a cache, its own first, and those with a free block.
SlabsOf(c) == InsertBefore(cache[c].slabs, 1, c)
NonEmpty(c) == {i \in DOMAIN SlabsOf(c) : cache[SlabsOf(c)[i]].free # <<>>}

\* cache_remaining adds up what freelist_size returns for each slab.
Counted(c) ==
    UNION {{i} \X (1..freelist_size(cache[SlabsOf(c)[i]])) : i \in DOMAIN SlabsOf(c)}
cache_remaining(c) == Cardinality(Counted(c))

BugRunningOut(c) == cache_remaining(c) <= 1
RunningOut(c) == cache_remaining(c) <= 2

\* __cache_alloc finds a block in the first slab that has one.
AllocBlock ==
    /\ At("__cache_alloc", "try")
    /\ NonEmpty(top.cache) # {}
    /\ LET s == SlabsOf(top.cache)[First(NonEmpty(top.cache))]
       IN  /\ cache' = [cache EXCEPT ![s].free = Tail(@)]
           /\ Return(Head(cache[s].free))
    /\ UNCHANGED <<regions, client>>

\* It finds none: first extend metadata_cache if that runs out too.
AllocExtendMetadata ==
    /\ At("__cache_alloc", "try")
    /\ NonEmpty(top.cache) = {}
    /\ RunningOut(metadata_cache) /\ ~top.ext
    /\ Call(Reserve(NULL, cache[metadata_cache].size, TRUE), "metadata_reserved")
    /\ UNCHANGED <<regions, cache, client>>

\* cache_extend with the region just reserved.
AllocMetadataReserved ==
    /\ At("__cache_alloc", "metadata_reserved") /\ ret # NULL
    /\ LET m == cache[metadata_cache]
       IN  Call(Extend(metadata_cache, ret, m.size, m.bsize, TRUE), "reserve")
    /\ UNCHANGED <<regions, cache, client>>

\* Then reserve a slab for this cache.
AllocReserve ==
    /\ \/ /\ At("__cache_alloc", "try")
          /\ NonEmpty(top.cache) = {}
          /\ ~(RunningOut(metadata_cache) /\ ~top.ext)
       \/ At("__cache_alloc", "reserve")
    /\ Call(Reserve(NULL, cache[top.cache].size, FALSE), "reserved")
    /\ UNCHANGED <<regions, cache, client>>

\* goto try_alloc, once the slab is in.
AllocReserved ==
    /\ At("__cache_alloc", "reserved") /\ ret # NULL
    /\ LET c == cache[top.cache]
       IN  Call(Extend(top.cache, ret, c.size, c.bsize, FALSE), "try")
    /\ UNCHANGED <<regions, cache, client>>

cache_extend ==
    \/ /\ At("cache_extend", "start")
       /\ Call(Alloc(metadata_cache, top.ext), "got")
       /\ UNCHANGED <<regions, cache, client>>
    \/ /\ At("cache_extend", "got")
       /\ cache' = [Extended(cache, ret, Slab(top.p, top.size, top.bsize))
                       EXCEPT ![top.old].slabs = Append(@, ret)]
       /\ Return(NULL)
       /\ UNCHANGED <<regions, client>>

cache_new ==
    \/ /\ At("cache_new", "start")
       /\ Call(Alloc(metadata_cache, FALSE), "got")
       /\ UNCHANGED <<regions, cache, client>>
    \/ /\ At("cache_new", "got")
       /\ cache' = Extended(cache, ret, Slab(top.p, top.size, BlockSize))
       /\ Return(ret)
       /\ UNCHANGED <<regions, client>>

BugHolds(s, p) == cache[s].base <= p /\ p <= cache[s].base + cache[s].size
Holds(s, p) == cache[s].base <= p /\ p < cache[s].base + cache[s].size

\* cache_free: back to the first slab whose range holds the block.
cache_free(c, p) ==
    LET holding == {i \in DOMAIN SlabsOf(c) : Holds(SlabsOf(c)[i], p)}
    IN  cache' = [cache EXCEPT ![SlabsOf(c)[First(holding)]].free = InsertBefore(@, 1, p)]

-----------------------------------------------------------------------------
(* Regions.                                                                *)

\* The two parts of a region m that is split: a new reserved one, whose
\* struct memory_map is at `at', and what is left of m.
Front(at, m, size) == [at |-> at, base |-> m.base, size |-> size, type |-> Reserved]
BugRest(m, size) == [m EXCEPT !.size = @ - size]
Rest(m, size) == [m EXCEPT !.size = @ - size, !.base = @ + size]

\* memory_split: cut `size' bytes off the front of the region at m.  The
\* region is looked at again only after the new struct memory_map is there.
memory_split ==
    \/ /\ At("memory_split", "start")
       /\ Call(Alloc(memory_map_cache, FALSE), "got")
       /\ UNCHANGED <<regions, cache, client>>
    \/ /\ At("memory_split", "got")
       /\ LET i == CHOOSE i \in DOMAIN regions : regions[i].at = top.m
              m == regions[i]
          IN  /\ regions' = InsertBefore([regions EXCEPT ![i] = Rest(m, top.size)],
                                         i, Front(ret, m, top.size))
              /\ Return(m.base)
       /\ UNCHANGED <<cache, client>>

\* __memory_reserve_ex: first see that a split will find a struct memory_map.
ReserveExtendMap ==
    /\ At("__memory_reserve_ex", "start")
    /\ RunningOut(memory_map_cache) /\ ~top.ext
    /\ Call(Reserve(NULL, Nmemb * CacheSize, TRUE), "map_reserved")
    /\ UNCHANGED <<regions, cache, client>>

BugReserveMapReserved ==
    /\ At("__memory_reserve_ex", "map_reserved") /\ ret # NULL
    /\ Call(Extend(memory_map_cache, ret, (Nmemb - 1) * CacheSize, CacheSize, FALSE),
            "scan")
    /\ UNCHANGED <<regions, cache, client>>
ReserveMapReserved ==
    /\ At("__memory_reserve_ex", "map_reserved") /\ ret # NULL
    /\ Call(Extend(memory_map_cache, ret, Nmemb * CacheSize, CacheSize, FALSE),
            "scan")
    /\ UNCHANGED <<regions, cache, client>>

Fits(m, base, size) == base = NULL /\ m.size >= size
BugCovers(m, base) == base < m.base + m.size
Covers(m, base) == m.base <= base /\ base < m.base + m.size

\* The regions at which the scan of the list stops.
BugHits(base, size) ==
    {i \in DOMAIN regions : \/ Fits(regions[i], base, size)
                            \/ regions[i].type = Free /\ Covers(regions[i], base)}
Hits(base, size) ==
    {i \in DOMAIN regions : /\ regions[i].type = Free
                            /\ \/ Fits(regions[i], base, size)
                               \/ Covers(regions[i], base)}

Scanning ==
    \/ At("__memory_reserve_ex", "scan")
    \/ /\ At("__memory_reserve_ex", "start")
       /\ ~(RunningOut(memory_map_cache) /\ ~top.ext)

ReserveScan ==
    /\ Scanning
    /\ LET base == top.base
           size == top.size
           hits == Hits(base, size)
           i == First(hits)
           m == regions[i]
       IN  \/ /\ hits = {}
              /\ Return(NULL)
              /\ UNCHANGED regions
           \/ /\ hits # {} /\ Fits(m, base, size) /\ m.size = size
              /\ regions' = [regions EXCEPT ![i].type = Reserved]
              /\ Return(m.base)
           \/ /\ hits # {} /\ Fits(m, base, size) /\ m.size # size
              /\ TailCall(Split(m.at, size))
              /\ UNCHANGED regions
           \/ /\ hits # {} /\ ~Fits(m, base, size)
              /\ base + size >= m.base + m.size
              /\ Return(NULL)
              /\ UNCHANGED regions
           \/ /\ hits # {} /\ ~Fits(m, base, size)
              /\ base + size < m.base + m.size
              /\ IF base = m.base THEN TailCall(Split(m.at, size))
                 ELSE Call(Split(m.at, base - m.base), "front_split")
              /\ UNCHANGED regions
    /\ UNCHANGED <<cache, client>>

\* The part in front is off: start again with what the caller asked for.
ReserveAgain ==
    /\ At("__memory_reserve_ex", "front_split")
    /\ TailCall(Reserve(top.base, top.size, FALSE))
    /\ UNCHANGED <<regions, cache, client>>

\* memory_release: the first region that starts at p is free again.
memory_release(p) ==
    LET at == {i \in DOMAIN regions : regions[i].base = p}
    IN  /\ at # {}
        /\ regions' = [regions EXCEPT ![First(at)].type = Free]

-----------------------------------------------------------------------------
(* memory_init: the state after its loop over the zones, then its three    *)
(* reservations.                                                           *)

\* Whoever called; dry: at most one struct cache was free at the time.
Dry == cache_remaining(metadata_cache) - Cardinality(NonEmpty(metadata_cache)) <= 1
Caller(op, arg) == [fn |-> "caller", pc |-> op, arg |-> arg, dry |-> Dry]

LowMemoryCall == Reserve(NULL, LowMemory, FALSE)
KernelCall == Reserve(KernelBase, KernelEnd - KernelBase, FALSE)
CachesCall == Reserve(metadata_cache, BootLen, FALSE)

Init ==
    LET metadata == Slab(metadata_cache + CacheSize, Nmemb * CacheSize, CacheSize)
        maps == Slab(MapSlab, 2 * Len(Zones) * MapSize, MapSize)
    IN  /\ regions = [i \in DOMAIN Zones |->
                         [at |-> maps.free[i], base |-> Zones[i].base,
                          size |-> Zones[i].size, type |-> Zones[i].type]]
        /\ cache = [c \in {metadata_cache, memory_map_cache} |->
                       IF c = metadata_cache THEN [metadata EXCEPT !.free = Tail(@)]
                       ELSE [maps EXCEPT !.free = SubSeq(@, Len(Zones) + 1, Len(@))]]
        /\ stack = <<Caller("boot", <<KernelCall, CachesCall>>), LowMemoryCall>>
        /\ ret = NULL
        /\ status = "ok"
        /\ grants = {} /\ caches = {} /\ objects = {}

memory_init ==
    /\ At("caller", "boot")
    /\ IF top.arg = <<>> THEN stack' = <<>>
       ELSE stack' = <<Caller("boot", Tail(top.arg)), Head(top.arg)>>
    /\ UNCHANGED <<regions, cache, ret, status, client>>

-----------------------------------------------------------------------------
(* The client, between two calls of it.                                    *)

Idle == status = "ok" /\ stack = <<>>

ClientCall(f, op, arg) ==
    /\ Idle
    /\ stack' = <<Caller(op, arg), f>>
    /\ UNCHANGED <<regions, cache, ret, status, client>>

ClientReserves ==
    \E base \in Bases \cup {NULL}, size \in Sizes :
        ClientCall(Reserve(base, size, FALSE), "reserve",
                   [base |-> base, size |-> size])
\* A cache takes the range over.
ClientCreates ==
    \E g \in grants :
        /\ Cardinality(caches) < MaxCaches
        /\ Idle
        /\ stack' = <<Caller("new", g), New(g.base, g.size)>>
        /\ grants' = grants \ {g}
        /\ UNCHANGED <<regions, cache, ret, status, caches, objects>>
ClientAllocates ==
    \E c \in caches : ClientCall(Alloc(c, FALSE), "alloc", c)

ClientGets ==
    /\ \/ /\ At("caller", "reserve")
          /\ grants' = grants \cup
                 (IF ret = NULL THEN {} ELSE {[base |-> ret, size |-> top.arg.size]})
          /\ UNCHANGED <<caches, objects>>
       \/ /\ At("caller", "new")
          /\ caches' = caches \cup {ret}
          /\ UNCHANGED <<grants, objects>>
       \/ /\ At("caller", "alloc")
          /\ objects' = objects \cup {[cache |-> top.arg, at |-> ret]}
          /\ UNCHANGED <<grants, caches>>
    /\ stack' = <<>>
    /\ UNCHANGED <<regions, cache, ret, status>>

ClientReleases ==
    /\ Idle
    /\ \E g \in grants : /\ memory_release(g.base)
                         /\ grants' = grants \ {g}
    /\ UNCHANGED <<cache, stack, ret, status, caches, objects>>

ClientFrees ==
    /\ Idle
    /\ \E o \in objects : /\ cache_free(o.cache, o.at)
                          /\ objects' = objects \ {o}
    /\ UNCHANGED <<regions, stack, ret, status, grants, caches>>

-----------------------------------------------------------------------------
(* Where the code goes wrong for good.  It checks neither: a slab at       *)
(* address 0 when the reservation for it failed, and the end of the stack  *)
(* when the two halves call each other without end.  What happens after    *)
(* either is not modelled.                                                 *)

NullSlab ==
    /\ \/ At("__cache_alloc", "metadata_reserved")
       \/ At("__cache_alloc", "reserved")
       \/ At("__memory_reserve_ex", "map_reserved")
    /\ ret = NULL
    /\ status' = "null slab"
    /\ UNCHANGED <<regions, cache, stack, ret, client>>

StackOverflow ==
    /\ status = "ok" /\ Len(stack) > MaxDepth
    /\ status' = "overflow"
    /\ UNCHANGED <<regions, cache, stack, ret, client>>

\* What runs by itself once a call has been made.
Kernel ==
    \/ memory_init \/ ClientGets
    \/ AllocBlock \/ AllocExtendMetadata \/ AllocMetadataReserved
    \/ AllocReserve \/ AllocReserved
    \/ cache_extend \/ cache_new
    \/ ReserveExtendMap \/ ReserveMapReserved \/ ReserveScan \/ ReserveAgain
    \/ memory_split
    \/ NullSlab \/ StackOverflow

Next ==
    \/ Kernel
    \/ ClientReserves \/ ClientCreates \/ ClientAllocates
    \/ ClientReleases \/ ClientFrees

Spec == Init /\ [][Next]_vars

\* The CPU goes on with the code it is in; a client need not call.
FairSpec == Spec /\ WF_vars(Kernel)

-----------------------------------------------------------------------------
(* Properties.                                                             *)

\* The type invariant: every list, slab and frame is well formed, and every
\* frame refers to a cache and to a region that exist.
TypeOK ==
    /\ \A i \in DOMAIN regions :
          regions[i] \in [at : Nat, base : Nat, size : Nat, type : Nat]
    /\ {metadata_cache, memory_map_cache} \subseteq DOMAIN cache
    /\ \A c \in DOMAIN cache :
          /\ {cache[c].base, cache[c].size} \subseteq Nat /\ cache[c].bsize > 0
          /\ \A i \in DOMAIN cache[c].free :
                /\ cache[c].base <= cache[c].free[i]
                /\ cache[c].free[i] + cache[c].bsize <= cache[c].base + cache[c].size
          /\ \A i \in DOMAIN cache[c].slabs : cache[c].slabs[i] \in DOMAIN cache
    /\ \A i \in DOMAIN stack :
          /\ stack[i].fn = "__cache_alloc" => stack[i].cache \in DOMAIN cache
          /\ stack[i].fn = "cache_extend" => stack[i].old \in DOMAIN cache
          /\ stack[i].fn = "memory_split" =>
                \E j \in DOMAIN regions : regions[j].at = stack[i].m
    /\ Len(stack) <= MaxDepth + 1
    /\ ret \in Nat
    /\ status \in {"ok", "null slab", "overflow"}
    /\ caches \subseteq DOMAIN cache /\ Cardinality(caches) <= MaxCaches
    /\ \A o \in objects : o.cache \in caches

End(r) == r.base + r.size
Disjoint(r, s) == End(r) <= s.base \/ End(s) <= r.base
Inside(r, s) == s.base <= r.base /\ End(r) <= End(s)
Slabs == {[base |-> cache[c].base, size |-> cache[c].size] : c \in DOMAIN cache}
RegionsOf(type) == {regions[i] : i \in {j \in DOMAIN regions : regions[j].type = type}}

\* Everything is well formed, and the regions tile the zones, in order, none
\* empty, with no gap and no overlap, even when splitting one region had to
\* reserve another on the way (memory_split, memory.c:197-208, uses a region
\* found before it allocates).
Tiled ==
    LET starts == {r.base : r \in {regions[i] : i \in DOMAIN regions}}
        zone(r) == {z \in DOMAIN Zones : Inside(r, Zones[z])}
    IN  /\ TypeOK
        /\ regions[1].base = Zones[1].base
        /\ \A z \in DOMAIN Zones : Zones[z].base \in starts
        /\ \A i \in DOMAIN regions :
              /\ regions[i].size > 0
              /\ zone(regions[i]) # {}
              /\ \/ \E z \in DOMAIN Zones : End(regions[i]) = End(Zones[z])
                 \/ i < Len(regions) /\ regions[i + 1].base = End(regions[i])
              /\ i < Len(regions) => End(regions[i]) <= regions[i + 1].base

\* Slabs and granted ranges never overlap: no block of the bookkeeping or of
\* a client's cache is ever in memory someone else was given.  Between calls
\* each of them lies in a reserved region.
NoSharing ==
    /\ \A r, s \in Slabs \cup grants : r # s => Disjoint(r, s)
    /\ Idle => \A s \in Slabs \cup grants :
                   \E r \in RegionsOf(Reserved) : Inside(s, r)

\* Blocks handed out and not given back: of the region list, of the caches
\* themselves, of the client.
Used == {regions[i].at : i \in DOMAIN regions}
        \cup (DOMAIN cache \ {metadata_cache})
        \cup {o.at : o \in objects}

\* Between calls every block of every slab is either in use or on that slab's
\* freelist, once: none is handed out twice and none is lost
\* (memory.c:75-85, 106-129).
BlocksConserved ==
    Idle =>
      /\ Cardinality(Used) = Len(regions) + Cardinality(DOMAIN cache) - 1
                             + Cardinality(objects)
      /\ \A c \in DOMAIN cache :
           LET all == {cache[c].base + i * cache[c].bsize :
                          i \in 0..(cache[c].size \div cache[c].bsize - 1)}
               free == {cache[c].free[i] : i \in DOMAIN cache[c].free}
           IN  /\ Cardinality(free) = Len(cache[c].free)
               /\ free \cap Used = {}
               /\ all = free \cup (Used \cap all)

\* Between calls, what is reserved was asked for: by memory_init, for a slab, by
\* the client, or by the boot loader, whose types less one share the numbers of
\* this code's (memory.c:184).  The exception is the part in front of a
\* reservation at a given address, which memory_reserve_ex marks reserved too and
\* nobody can release (memory.c:233-236).
NothingLeaks ==
    Idle =>
      \A r \in RegionsOf(Reserved) :
          \/ r.base \in {Zones[1].base, KernelBase, metadata_cache}
          \/ \E s \in Slabs \cup grants : s.base = r.base /\ s.size = r.size
          \/ \E z \in DOMAIN Zones : /\ Zones[z].type = Reserved
                                    /\ Zones[z].base = r.base /\ Zones[z].size = r.size
          \/ End(r) \in Bases

\* A reservation anywhere fails only if no free region is large enough
\* (memory.c:219-243).
FailsOnlyWhenFull ==
    At("caller", "reserve") /\ ret = NULL /\ top.arg.base = NULL =>
        \A r \in RegionsOf(Free) : r.size < top.arg.size

\* An operation returns, unless memory for a slab runs out or it started with
\* at most one free struct cache, when metadata_cache is extended neither when
\* it is empty nor before another cache is (memory.c:75, 88): the loop of
\* __cache_alloc and the mutual recursion come to an end (memory.c:72-99,
\* 210-244).
CallsReturn ==
    (stack # <<>> /\ ~stack[1].dry) ~> (Idle \/ status = "null slab")

\* The reserved regions, seen without their bookkeeping, are the ranges of
\* Reservations: the manager implements what it promises.
Abstract ==
    INSTANCE Reservations WITH
        taken <- {[base |-> r.base, size |-> r.size] : r \in RegionsOf(Reserved)}
ImplementsReservations == Abstract!Spec
=============================================================================
