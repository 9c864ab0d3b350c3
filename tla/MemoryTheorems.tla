--------------------------- MODULE MemoryTheorems ---------------------------
(***************************************************************************)
(* The invariant Inv holds of the states memory_init starts from and in    *)
(* every reachable state.  What follows: the properties of the manager,    *)
(* and that it implements Reservations.  Two need an invariant more: that  *)
(* no block is lost AllPlaced, that no range is Accounted, at the end.     *)
(***************************************************************************)
EXTENDS MemoryProofs

-----------------------------------------------------------------------------
(* The initial states.                                                     *)

\* What cache_initialize makes of a slab.
Blocks(list, p, size, bsize, n) ==
    /\ list \in Seq(Nat) /\ Len(list) = n /\ DOMAIN list = 1..n
    /\ \A i \in 1..n : /\ list[i] \in Nat /\ p <= list[i]
                       /\ list[i] + bsize <= p + size /\ list[i] < p + size
    /\ \A i, j \in 1..n : list[i] = list[j] => i = j
    /\ n > 0 => list[1] = p

\* cache_initialize makes as many blocks as fit, in order.
LEMMA SlabMade ==
    ASSUME NEW p \in Nat, NEW size \in Nat \ {0}, NEW bsize \in Nat \ {0}
    PROVE  Blocks(Slab(p, size, bsize).free, p, size, bsize, size \div bsize)
<1> DEFINE n == size \div bsize
           list == [i \in 1..n |-> p + (i - 1) * bsize]
<1>1. n \in Nat
    OBVIOUS
<1>2. \A i \in 1..n : /\ p + (i - 1) * bsize \in Nat
                      /\ p <= p + (i - 1) * bsize
                      /\ p + (i - 1) * bsize + bsize <= p + size
                      /\ p + (i - 1) * bsize < p + size
    BY SlabBlocks
<1>3. \A i, j \in 1..n : p + (i - 1) * bsize = p + (j - 1) * bsize => i = j
    BY SlabBlocks
<1>4. Slab(p, size, bsize).free = list
    BY DEF Slab
<1>5. p + (1 - 1) * bsize = p
    OBVIOUS
<1> HIDE DEF n
<1>6. list \in Seq(Nat) /\ Len(list) = n /\ DOMAIN list = 1..n
    BY <1>1, <1>2
<1>7. /\ \A i \in 1..n : /\ list[i] \in Nat /\ p <= list[i]
                         /\ list[i] + bsize <= p + size /\ list[i] < p + size
      /\ \A i, j \in 1..n : list[i] = list[j] => i = j
    BY <1>2, <1>3
<1>8. n > 0 => list[1] = p
    BY <1>1, <1>5
<1> HIDE DEF list
<1> QED BY <1>4, <1>6, <1>7, <1>8 DEF Blocks, n

\* The two caches memory_init has made, and the list it has built.
Made(a, b, n) ==
    /\ Blocks(a, metadata_cache + CacheSize, SlabSize, CacheSize, Nmemb)
    /\ Blocks(b, MapSlab, MapSlabSize, MapSize, 2 * n)
    /\ a = Slab(metadata_cache + CacheSize, SlabSize, CacheSize).free
    /\ b = Slab(MapSlab, MapSlabSize, MapSize).free
    /\ n = Len(Zones)
    /\ DOMAIN regions = 1..n /\ regions \in Seq(Region)
    /\ \A i \in 1..n : regions[i] = [at |-> b[i], base |-> Zones[i].base,
                                     size |-> Zones[i].size, type |-> Zones[i].type]
    /\ cache = [c \in {metadata_cache, memory_map_cache} |->
                   IF c = metadata_cache
                   THEN [base |-> metadata_cache + CacheSize, size |-> SlabSize,
                         bsize |-> CacheSize, slabs |-> <<>>, free |-> Tail(a)]
                   ELSE [base |-> MapSlab, size |-> MapSlabSize, bsize |-> MapSize,
                         slabs |-> <<>>, free |-> SubSeq(b, n + 1, 2 * n)]]

\* What memory_init's loop over the zones leaves.
LEMMA InitMakes ==
    ASSUME Init
    PROVE  \E a, b : Made(a, b, Len(Zones))
<1> DEFINE n == Len(Zones)
           p == metadata_cache + CacheSize
           metadata == Slab(p, SlabSize, CacheSize)
           maps == Slab(MapSlab, MapSlabSize, MapSize)
           a == metadata.free
           b == maps.free
<1>1. /\ p \in Nat /\ SlabSize \in Nat \ {0} /\ CacheSize \in Nat \ {0}
      /\ MapSlab \in Nat /\ MapSlabSize \in Nat \ {0} /\ MapSize \in Nat \ {0}
      /\ SlabSize \div CacheSize = Nmemb
      /\ n \in Nat /\ DOMAIN Zones = 1..n
    BY Constants
<1>2. MapSlabSize \div MapSize = 2 * n
  <2> DEFINE m == 2 * n
  <2>1. m \in Nat /\ MapSlabSize = m * MapSize
      BY <1>1 DEF MapSlabSize
  <2> HIDE DEF m
  <2>2. MapSlabSize \div MapSize = m
      BY <1>1, <2>1
  <2> QED BY <2>2 DEF m
<1>3. Blocks(a, p, SlabSize, CacheSize, Nmemb) /\ Blocks(b, MapSlab, MapSlabSize, MapSize, 2 * n)
  <2> HIDE DEF p
  <2> QED BY <1>1, <1>2, SlabMade
<1>4. /\ [metadata EXCEPT !.free = Tail(@)] =
            [base |-> p, size |-> SlabSize, bsize |-> CacheSize, slabs |-> <<>>, free |-> Tail(a)]
      /\ [maps EXCEPT !.free = SubSeq(@, n + 1, Len(@))] =
            [base |-> MapSlab, size |-> MapSlabSize, bsize |-> MapSize, slabs |-> <<>>,
             free |-> SubSeq(b, n + 1, Len(b))]
  <2>1. \A q, size, bsize, list :
           [Slab(q, size, bsize) EXCEPT !.free = list] =
              [base |-> q, size |-> size, bsize |-> bsize, slabs |-> <<>>, free |-> list]
    <3>1. \A q, size, bsize, slabs, free, list :
             [[base |-> q, size |-> size, bsize |-> bsize, slabs |-> slabs, free |-> free]
                 EXCEPT !.free = list] =
                [base |-> q, size |-> size, bsize |-> bsize, slabs |-> slabs, free |-> list]
        OBVIOUS
    <3>2. \A q, size, bsize : \E free :
             Slab(q, size, bsize) =
                [base |-> q, size |-> size, bsize |-> bsize, slabs |-> <<>>, free |-> free]
        BY DEF Slab
    <3> QED BY <3>1, <3>2
  <2> QED BY <2>1
<1>5. Len(b) = 2 * n
    BY <1>3 DEF Blocks
<1>6. /\ regions = [i \in 1..n |-> [at |-> b[i], base |-> Zones[i].base,
                                    size |-> Zones[i].size, type |-> Zones[i].type]]
      /\ cache = [c \in {metadata_cache, memory_map_cache} |->
                    IF c = metadata_cache THEN [metadata EXCEPT !.free = Tail(@)]
                    ELSE [maps EXCEPT !.free = SubSeq(@, n + 1, Len(@))]]
    BY <1>1 DEF Init, SlabSize, MapSlabSize
<1>7. \A i \in 1..n : [at |-> b[i], base |-> Zones[i].base,
                       size |-> Zones[i].size, type |-> Zones[i].type] \in Region
  <2> SUFFICES ASSUME NEW i \in 1..n
               PROVE  [at |-> b[i], base |-> Zones[i].base,
                       size |-> Zones[i].size, type |-> Zones[i].type] \in Region
      OBVIOUS
  <2>1. Zones[i].base \in Nat /\ Zones[i].size \in Nat \ {0} /\ Zones[i].type \in Nat
      BY <1>1, ZoneFields
  <2>2. b \in Seq(Nat) /\ i \in DOMAIN b
      BY <1>1, <1>3 DEF Blocks
  <2>3. b[i] \in Nat
      BY <2>2
  <2> QED BY <2>1, <2>3 DEF Region
<1>9. a = Slab(p, SlabSize, CacheSize).free /\ b = Slab(MapSlab, MapSlabSize, MapSize).free
    OBVIOUS
<1> HIDE DEF a, b, metadata, maps, n
<1>8. regions \in Seq(Region) /\ DOMAIN regions = 1..n
  <2>1. DOMAIN regions = 1..n /\ \A i \in 1..n : regions[i] \in Region
      BY <1>6, <1>7
  <2>2. regions = [i \in 1..n |-> regions[i]]
      BY <1>6
  <2> QED BY <1>1, <2>1, <2>2
<1>10. Made(a, b, n)
    BY <1>3, <1>4, <1>5, <1>6, <1>8, <1>9 DEF Made, p, n
<1> QED BY <1>10 DEF n

\* One region per zone, in order.
LEMMA MadeRegions ==
    ASSUME NEW a, NEW b, NEW n, Made(a, b, n)
    PROVE  /\ Sorted /\ Gapless
           /\ \A i \in DOMAIN Zones : /\ i \in DOMAIN regions /\ regions[i].at = b[i]
                                      /\ regions[i].base = Zones[i].base
                                      /\ regions[i].size = Zones[i].size
                                      /\ regions[i].type = Zones[i].type
<1>1. n \in Nat /\ n = Len(Zones) /\ DOMAIN Zones = 1..n /\ DOMAIN regions = 1..n
    BY Constants DEF Made
<1>2. \A i \in 1..n : /\ regions[i].at = b[i] /\ regions[i].base = Zones[i].base
                      /\ regions[i].size = Zones[i].size /\ regions[i].type = Zones[i].type
                      /\ End(regions[i]) = End(Zones[i])
    BY DEF Made, End
<1>3. \A i \in 1..n : /\ Zones[i].base \in Nat /\ Zones[i].size \in Nat \ {0}
                      /\ End(Zones[i]) \in Nat
    BY <1>1, ZoneFields DEF End
<1>4. \A i \in 1..n : Inside(regions[i], Zones[i])
    BY <1>2, <1>3 DEF Inside
<1>5. \A i, j \in 1..n : i < j => End(regions[i]) <= regions[j].base
    BY <1>1, <1>2, ZonesApart DEF End
<1>6. \A i, j \in 1..n : b[i] = b[j] => i = j
  <2>1. Blocks(b, MapSlab, MapSlabSize, MapSize, 2 * n)
      BY DEF Made
  <2>2. \A i \in 1..n : i \in 1..(2 * n)
      BY <1>1
  <2> QED BY <2>1, <2>2 DEF Blocks
<1>7. Sorted
  <2>1. regions \in Seq(Region)
      BY DEF Made
  <2> QED BY <1>1, <1>2, <1>4, <1>5, <1>6, <2>1 DEF Sorted, Usable
<1>8. Gapless
    BY <1>1, <1>2, <1>4 DEF Gapless
<1> QED BY <1>1, <1>2, <1>7, <1>8

CachesMade(a, b, n) ==
    /\ n \in Nat /\ n >= 3 /\ n = Len(Zones)
    /\ DOMAIN cache = {metadata_cache, memory_map_cache}
    /\ cache[metadata_cache].free = Tail(a)
    /\ DOMAIN cache[metadata_cache].free = 1..(Nmemb - 1)
    /\ \A k \in 1..(Nmemb - 1) : cache[metadata_cache].free[k] = a[k + 1]
    /\ cache[memory_map_cache].base = MapSlab
    /\ cache[memory_map_cache].size = MapSlabSize
    /\ cache[memory_map_cache].bsize = MapSize
    /\ cache[memory_map_cache].slabs = <<>>
    /\ Len(cache[memory_map_cache].free) = n
    /\ DOMAIN cache[memory_map_cache].free = 1..n
    /\ \A k \in 1..n : cache[memory_map_cache].free[k] = b[n + k]

\* The two boot caches, next to each other.
LEMMA MadeCaches ==
    ASSUME NEW a, NEW b, NEW n, Made(a, b, n)
    PROVE  CachesOK /\ CachesMade(a, b, n)
<1> DEFINE p == metadata_cache + CacheSize
           rest == SubSeq(b, n + 1, 2 * n)
           first == [base |-> p, size |-> SlabSize, bsize |-> CacheSize, slabs |-> <<>>,
                     free |-> Tail(a)]
           second == [base |-> MapSlab, size |-> MapSlabSize, bsize |-> MapSize,
                      slabs |-> <<>>, free |-> rest]
<1>1. /\ p \in Nat /\ SlabSize \in Nat \ {0} /\ CacheSize \in Nat \ {0}
      /\ MapSlab \in Nat /\ MapSlabSize \in Nat \ {0} /\ MapSize \in Nat \ {0}
      /\ Nmemb \in Nat \ {0} /\ metadata_cache \in Nat /\ memory_map_cache \in Nat
      /\ metadata_cache # memory_map_cache
      /\ n \in Nat /\ n >= 3 /\ n = Len(Zones)
    BY Constants DEF Made
<1>2. /\ Blocks(a, p, SlabSize, CacheSize, Nmemb) /\ Blocks(b, MapSlab, MapSlabSize, MapSize, 2 * n)
      /\ cache = [c \in {metadata_cache, memory_map_cache} |->
                    IF c = metadata_cache THEN first ELSE second]
    BY DEF Made
<1>3. /\ a \in Seq(Nat) /\ Len(a) = Nmemb
    BY <1>2 DEF Blocks
<1>4. /\ Tail(a) \in Seq(Nat) /\ DOMAIN Tail(a) = 1..(Nmemb - 1)
      /\ \A k \in 1..(Nmemb - 1) : Tail(a)[k] = a[k + 1]
    BY <1>1, <1>3
<1>5. /\ rest \in Seq(Nat) /\ Len(rest) = n /\ \A k \in 1..n : rest[k] = b[n + k]
  <2> DEFINE m1 == n + 1
             m2 == 2 * n
  <2>1. m1 \in Int /\ m2 \in Int /\ m1 <= m2 /\ m2 - m1 + 1 = n
      BY <1>1
  <2>2. \A k \in m1..m2 : b[k] \in Nat
    <3>1. b \in Seq(Nat) /\ DOMAIN b = 1..m2
        BY <1>2 DEF Blocks
    <3>2. \A k \in m1..m2 : k \in 1..m2
        BY <1>1
    <3>3. \A k \in 1..m2 : b[k] \in Nat
        BY <1>2 DEF Blocks
    <3> QED BY <3>2, <3>3
  <2> HIDE DEF m1, m2
  <2>3. /\ SubSeq(b, m1, m2) \in Seq(Nat)
        /\ Len(SubSeq(b, m1, m2)) = IF m1 <= m2 THEN m2 - m1 + 1 ELSE 0
        /\ \A i \in 1..(m2 - m1 + 1) : SubSeq(b, m1, m2)[i] = b[m1 + i - 1]
      BY <2>1, <2>2, SubSeqProperties
  <2>4. \A k \in 1..n : m1 + k - 1 = n + k
      BY <1>1 DEF m1
  <2>5. rest = SubSeq(b, m1, m2)
      BY DEF m1, m2
  <2> HIDE DEF rest
  <2> QED BY <2>1, <2>3, <2>4, <2>5
<1> HIDE DEF rest
<1>6. first \in CacheRec /\ second \in CacheRec
  <2>1. <<>> \in Seq(Nat)
      OBVIOUS
  <2> QED BY <1>1, <1>4, <1>5, <2>1 DEF CacheRec
<1>7. /\ first.base = p /\ first.size = SlabSize /\ first.bsize = CacheSize
      /\ first.slabs = <<>> /\ first.free = Tail(a)
      /\ second.base = MapSlab /\ second.size = MapSlabSize /\ second.bsize = MapSize
      /\ second.slabs = <<>> /\ second.free = rest
    OBVIOUS
<1> HIDE DEF first, second
<1>8. /\ DOMAIN cache = {metadata_cache, memory_map_cache}
      /\ cache[metadata_cache] = first /\ cache[memory_map_cache] = second
      /\ cache \in [DOMAIN cache -> CacheRec]
    BY <1>1, <1>2, <1>6
<1>9. CachesOK
    BY <1>1, <1>7, <1>8 DEF CachesOK
<1>10. DOMAIN rest = 1..n
    BY <1>5
<1> QED BY <1>1, <1>4, <1>5, <1>7, <1>8, <1>9, <1>10 DEF CachesMade

\* The struct memory_maps of the zones and memory_map_cache are in use, the
\* other blocks of the boot slabs free.
LEMMA MadeBlocks ==
    ASSUME NEW a, NEW b, NEW n, Made(a, b, n), objects = {}
    PROVE  FreeBlocks /\ BusyBlocks
<1> DEFINE p == metadata_cache + CacheSize
<1>1. /\ p \in Nat /\ p = memory_map_cache /\ SlabSize \in Nat \ {0} /\ CacheSize \in Nat \ {0}
      /\ MapSlab \in Nat /\ MapSlabSize \in Nat \ {0} /\ MapSize \in Nat \ {0}
      /\ Nmemb \in Nat \ {0} /\ metadata_cache \in Nat /\ p + SlabSize = MapSlab
      /\ metadata_cache # memory_map_cache /\ metadata_cache < p /\ p < MapSlab
      /\ n = Len(Zones) /\ DOMAIN Zones = 1..n
  <2>1. /\ CacheSize \in Nat \ {0} /\ SlabSize \in Nat \ {0} /\ metadata_cache \in Nat
        /\ MapSlab \in Nat /\ MapSlabSize \in Nat \ {0} /\ MapSize \in Nat \ {0}
        /\ Nmemb \in Nat \ {0} /\ p + SlabSize = MapSlab /\ p = memory_map_cache
        /\ metadata_cache # memory_map_cache /\ DOMAIN Zones = 1..Len(Zones)
      BY Constants
  <2>2. n = Len(Zones)
      BY DEF Made
  <2> QED BY <2>1, <2>2
<1>2. /\ CachesOK /\ DOMAIN cache = {metadata_cache, memory_map_cache}
      /\ n \in Nat /\ n >= 3
      /\ cache[memory_map_cache].base = MapSlab /\ cache[memory_map_cache].bsize = MapSize
      /\ cache[memory_map_cache].size = MapSlabSize
      /\ \A k \in 1..n : cache[memory_map_cache].free[k] = b[n + k]
      /\ \A k \in 1..(Nmemb - 1) : cache[metadata_cache].free[k] = a[k + 1]
      /\ DOMAIN cache[metadata_cache].free = 1..(Nmemb - 1)
      /\ DOMAIN cache[memory_map_cache].free = 1..n
  <2>1. CachesOK /\ CachesMade(a, b, n)
      BY MadeCaches
  <2> QED BY <2>1 DEF CachesMade
<1>3. /\ cache[metadata_cache].base = p /\ cache[metadata_cache].size = SlabSize
      /\ cache[metadata_cache].bsize = CacheSize
    BY <1>2 DEF CachesOK
<1>4. /\ a \in Seq(Nat) /\ DOMAIN a = 1..Nmemb /\ a[1] = p
      /\ \A i \in 1..Nmemb : p <= a[i] /\ a[i] + CacheSize <= p + SlabSize /\ a[i] < p + SlabSize
      /\ \A i, j \in 1..Nmemb : a[i] = a[j] => i = j
  <2>1. Blocks(a, p, SlabSize, CacheSize, Nmemb)
      BY DEF Made
  <2> HIDE DEF p
  <2> QED BY <1>1, <2>1 DEF Blocks
<1>5. /\ \A i \in 1..(2 * n) : /\ b[i] \in Nat /\ MapSlab <= b[i]
                               /\ b[i] + MapSize <= MapSlab + MapSlabSize
                               /\ b[i] < MapSlab + MapSlabSize
      /\ \A i, j \in 1..(2 * n) : b[i] = b[j] => i = j
  <2>1. Blocks(b, MapSlab, MapSlabSize, MapSize, 2 * n)
      BY DEF Made
  <2> QED BY <2>1 DEF Blocks
<1>6. \A i \in 1..Nmemb : a[i] \in Nat
  <2>1. Blocks(a, p, SlabSize, CacheSize, Nmemb)
      BY DEF Made
  <2> QED BY <2>1 DEF Blocks
<1> HIDE DEF p
<1>7. /\ \A x : InSlab(x, metadata_cache) <=> p <= x /\ x + CacheSize <= p + SlabSize
      /\ \A x : InSlab(x, memory_map_cache) <=>
                   MapSlab <= x /\ x + MapSize <= MapSlab + MapSlabSize
    BY <1>2, <1>3 DEF InSlab
<1>8. /\ \A k \in 1..(Nmemb - 1) : k + 1 \in 1..Nmemb
      /\ \A k \in 1..n : n + k \in 1..(2 * n) /\ k \in 1..(2 * n)
      /\ \A k, l \in 1..n : n + k # l
      /\ \A k, l \in 1..n : n + k = n + l => k = l
      /\ \A k, l \in 1..(Nmemb - 1) : k + 1 = l + 1 => k = l
      /\ \A k \in 1..(Nmemb - 1) : k + 1 # 1
      /\ 1 \in 1..Nmemb
    BY <1>1, <1>2
<1>9. FreeBlocks
  <2>1. BlocksOf(cache[metadata_cache].free, metadata_cache)
      BY <1>2, <1>4, <1>7, <1>8 DEF BlocksOf
  <2>2. BlocksOf(cache[memory_map_cache].free, memory_map_cache)
    <3> DEFINE free == cache[memory_map_cache].free
    <3>1. DOMAIN free = 1..n /\ \A k \in 1..n : free[k] = b[n + k]
        BY <1>2
    <3> HIDE DEF free
    <3>2. \A k \in DOMAIN free : InSlab(free[k], memory_map_cache)
        BY <1>5, <1>7, <1>8, <3>1
    <3>3. \A k, l \in DOMAIN free : free[k] = free[l] => k = l
      <4>1. \A k, l \in 1..n : b[n + k] = b[n + l] => n + k = n + l
          BY <1>5, <1>8
      <4> QED BY <1>8, <3>1, <4>1
    <3> QED BY <3>2, <3>3 DEF BlocksOf, free
  <2> QED BY <1>2, <2>1, <2>2 DEF FreeBlocks
<1>10. \A x \in Freelists : \/ \E k \in 1..(Nmemb - 1) : x = a[k + 1]
                            \/ \E k \in 1..n : x = b[n + k]
  <2> SUFFICES ASSUME NEW x \in Freelists
               PROVE  \/ \E k \in 1..(Nmemb - 1) : x = a[k + 1]
                      \/ \E k \in 1..n : x = b[n + k]
      OBVIOUS
  <2>1. PICK c \in {metadata_cache, memory_map_cache} :
           \E k \in DOMAIN cache[c].free : cache[c].free[k] = x
      BY <1>2 DEF Freelists
  <2>2. CASE c = metadata_cache
      BY <1>2, <2>1, <2>2
  <2>3. CASE c = memory_map_cache
      BY <1>2, <2>1, <2>3
  <2> QED BY <2>1, <2>2, <2>3
<1>11. OfRegions \subseteq Busy \ DOMAIN cache
  <2> SUFFICES ASSUME NEW i \in 1..n
               PROVE  regions[i].at \in Busy \ DOMAIN cache
    <3>1. DOMAIN regions = 1..n
        BY DEF Made
    <3> QED BY <3>1 DEF OfRegions
  <2>1. regions[i].at = b[i] /\ i \in 1..(2 * n) /\ b[i] \in Nat
    <3>1. regions[i].at = b[i]
        BY <1>1, MadeRegions
    <3>2. i \in 1..(2 * n)
        BY <1>8
    <3> QED BY <3>1, <3>2, <1>5
  <2>2. b[i] \in InSlabs
      BY <1>2, <1>5, <1>7, <2>1 DEF InSlabs
  <2>3. b[i] \notin Freelists
    <3>1. \A k \in 1..(Nmemb - 1) : b[i] # a[k + 1]
      <4>1. MapSlab <= b[i]
          BY <1>5, <2>1
      <4>2. \A k \in 1..Nmemb : a[k] \in Nat /\ a[k] < MapSlab
          BY <1>1, <1>4, <1>6
      <4>3. \A k \in 1..Nmemb : b[i] # a[k]
          BY <1>1, <2>1, <4>1, <4>2
      <4> QED BY <1>8, <4>3
    <3>2. \A k \in 1..n : b[i] # b[n + k]
        BY <1>5, <1>8, <2>1
    <3> QED BY <1>10, <3>1, <3>2
  <2>4. b[i] # metadata_cache /\ b[i] # memory_map_cache
      BY <1>1, <1>5, <2>1
  <2> QED BY <1>2, <2>1, <2>2, <2>3, <2>4 DEF Busy
<1>12. DOMAIN cache \ {metadata_cache} \subseteq Busy
  <2>1. p \in InSlabs
      BY <1>1, <1>2, <1>4, <1>7, <1>8 DEF InSlabs
  <2>2. p \notin Freelists
    <3>1. \A k \in 1..(Nmemb - 1) : p # a[k + 1]
        BY <1>4, <1>8
    <3>2. \A k \in 1..n : p # b[n + k]
        BY <1>1, <1>5, <1>6, <1>8
    <3> QED BY <1>10, <3>1, <3>2
  <2> QED BY <1>1, <1>2, <2>1, <2>2 DEF Busy
<1>13. OfObjects = {}
    BY DEF OfObjects
<1> QED BY <1>9, <1>11, <1>12, <1>13 DEF BusyBlocks

\* The manager starts with what memory_init and its first call need.
LEMMA Initially ==
    ASSUME Init
    PROVE  Inv
<1> DEFINE boot == Caller("boot", <<KernelCall, CachesCall>>)
<1>1. /\ stack = <<boot, LowMemoryCall>> /\ ret = NULL /\ status = "ok"
      /\ grants = {} /\ caches = {} /\ objects = {}
    BY DEF Init
<1>2. PICK a, b : Made(a, b, Len(Zones))
    BY InitMakes
<1>3. /\ Sorted /\ Gapless
      /\ \A i \in DOMAIN Zones : /\ i \in DOMAIN regions
                                 /\ regions[i].base = Zones[i].base
                                 /\ regions[i].size = Zones[i].size
                                 /\ regions[i].type = Zones[i].type
    BY <1>2, MadeRegions
<1>4. /\ CachesOK /\ DOMAIN cache = {metadata_cache, memory_map_cache}
      /\ cache[memory_map_cache].slabs = <<>>
      /\ Len(cache[memory_map_cache].free) >= 3
    BY <1>2, MadeCaches DEF CachesMade
<1>5. MemoryOK
    BY <1>1, <1>2, <1>3, <1>4, MadeBlocks DEF MemoryOK
<1>6. /\ Zones[1].base = NULL /\ Zones[1].size = LowMemory /\ Zones[1].type = Free
      /\ LowMemory \in Nat \ {0} /\ 1 \in DOMAIN Zones
  <2>1. 1 \in DOMAIN Zones
      BY Constants
  <2>2. Zones[1] = [base |-> NULL, size |-> LowMemory, type |-> Free]
      BY BootAssumption
  <2>3. Zones[1].size \in Nat \ {0}
      BY <2>1, ZoneFields
  <2> QED BY <2>1, <2>2, <2>3
<1>7. LowMemoryCall \in GoodFrames /\ LowMemoryCall.fn = "__memory_reserve_ex"
      /\ LowMemoryCall.pc = "start"
  <2>1. NULL \in Nat
      BY DEF NULL
  <2> QED BY <1>4, <1>6, <2>1, MadeFrames, BootCalls DEF LowMemoryCall
<1>8. /\ boot.fn = "caller" /\ boot.pc = "boot" /\ boot.arg = <<KernelCall, CachesCall>>
      /\ boot \in GoodFrames
  <2>1. KernelCall \in ReserveFrame /\ CachesCall \in ReserveFrame
    <3>1. KernelEnd - KernelBase \in Nat \ {0} /\ KernelBase \in Nat
        BY KernelZone
    <3>2. metadata_cache \in Nat /\ BootLen \in Nat \ {0}
      <4>1. metadata_cache + CacheSize + SlabSize = MapSlab
            /\ MapSlab + MapSlabSize = metadata_cache + BootLen
          BY Constants
      <4>2. BootLen \in Nat /\ metadata_cache \in Nat /\ MapSlab \in Nat
            /\ CacheSize \in Nat \ {0} /\ SlabSize \in Nat /\ MapSlabSize \in Nat
          BY Constants
      <4> QED BY <4>1, <4>2
    <3> QED BY <3>1, <3>2 DEF KernelCall, CachesCall, Reserve, ReserveFrame
  <2> DEFINE arg == <<KernelCall, CachesCall>>
  <2>2. arg \in Arg
      BY <2>1 DEF Arg
  <2> HIDE DEF arg
  <2>3. boot = [fn |-> "caller", pc |-> "boot", arg |-> arg, dry |-> Dry]
      BY DEF Caller, arg
  <2>4. Dry \in BOOLEAN
      BY DEF Dry
  <2>5. boot \in CallerFrame
      BY <2>2, <2>3, <2>4 DEF CallerFrame
  <2>6. boot.fn = "caller" /\ boot.pc = "boot" /\ boot.arg = arg
      BY <2>3
  <2> HIDE DEF boot
  <2> QED BY <2>5, <2>6 DEF GoodFrames, FrameOK, Frame, arg
<1> HIDE DEF boot
<1>9. /\ stack \in Seq(Frame) /\ stack # <<>> /\ Len(stack) = 2 /\ DOMAIN stack = 1..2
      /\ stack[1] = boot /\ stack[2] = LowMemoryCall /\ top = LowMemoryCall /\ Last = boot
    BY <1>1, <1>7, <1>8 DEF top, Last, GoodFrames
<1>10. Plain
  <2>1. MaxDepth \in Nat \ {0}
      BY SizesAssumption
  <2> QED BY <1>1, <1>9, <2>1 DEF Plain, NULL
<1>11. StackOK
  <2>1. Calls(LowMemoryCall, boot)
      BY <1>7, <1>8 DEF Calls
  <2> DEFINE l == <<LowMemoryCall, boot>>
  <2>2. l \in Frame \X Frame /\ l[1] = LowMemoryCall /\ l[2] = boot
      BY <1>7, <1>8 DEF GoodFrames
  <2> HIDE DEF l
  <2>3. l \in Links
      BY <2>1, <2>2 DEF Links
  <2> QED BY <1>7, <1>8, <1>9, <2>3 DEF StackOK, l
<1>12. Owned
  <2>1. \A i \in DOMAIN stack : ~HoldsRange(stack[i])
      BY <1>7, <1>8, <1>9 DEF HoldsRange
  <2>2. Grown = {}
      BY <1>4 DEF Grown
  <2>3. Held = {}
      BY <1>1, <2>1, <2>2 DEF Held
  <2> QED BY <2>3 DEF Owned
<1>13. Waiting
    BY <1>8, <1>9 DEF Waiting, Splitting
<1>14. Returned
    BY <1>7, <1>9 DEF Returned
<1>15. ClientOK
  <2>1. MaxCaches \in Nat
      BY SizesAssumption
  <2>2. IsFiniteSet(caches) /\ Cardinality(caches) <= MaxCaches
      BY <1>1, <2>1, FS_EmptySet
  <2> QED BY <1>1, <1>8, <1>9, <2>2 DEF ClientOK
<1>16. Booting /\ Booted
    BY <1>8, <1>9 DEF Booting, Booted
<1>17. BootPhase
  <2>1. Room(KernelBase)
    <3>1. PICK z \in 2..Len(Zones) : /\ Zones[z].base = KernelBase /\ Zones[z].type = Free
                                     /\ BootEnd = End(Zones[z])
        BY KernelZone
    <3>2. z \in DOMAIN Zones
        BY <3>1, Constants
    <3> QED BY <1>3, <3>1, <3>2 DEF Room, RoomAt, End
  <2>2. Structs(3)
      BY <1>4 DEF Structs
  <2>3. regions[1].base = NULL /\ regions[1].size = LowMemory /\ regions[1].type = Free
      BY <1>3, <1>6
  <2> QED BY <1>1, <1>4, <1>8, <1>9, <2>1, <2>2, <2>3 DEF BootPhase
<1> QED BY <1>5, <1>10, <1>11, <1>12, <1>13, <1>14, <1>15, <1>16, <1>17 DEF Inv

-----------------------------------------------------------------------------
(* Every step keeps the invariant.                                         *)

LEMMA StepsKeep ==
    ASSUME Inv, Next
    PROVE  Inv'
<1>1. CASE memory_init
    BY <1>1, Safe_memory_init
<1>2. CASE ClientGets
    BY <1>2, Safe_ClientGets
<1>3. CASE AllocBlock
    BY <1>3, Safe_AllocBlock
<1>4. CASE AllocExtendMetadata
    BY <1>4, Safe_AllocExtendMetadata
<1>5. CASE AllocMetadataReserved
    BY <1>5, Safe_AllocMetadataReserved
<1>6. CASE AllocReserve
    BY <1>6, Safe_AllocReserve
<1>7. CASE AllocReserved
    BY <1>7, Safe_AllocReserved
<1>8. CASE cache_extend
  <2>1. Extends \/ ExtendReturns
      BY <1>8 DEF cache_extend, Extends, ExtendReturns
  <2> QED BY <2>1, Safe_Extends, Safe_ExtendReturns
<1>9. CASE cache_new
  <2>1. Creates \/ NewReturns
      BY <1>9 DEF cache_new, Creates, NewReturns
  <2> QED BY <2>1, Safe_Extends, Safe_NewReturns
<1>10. CASE ReserveExtendMap
    BY <1>10, Safe_ReserveExtendMap
<1>11. CASE ReserveMapReserved
    BY <1>11, Safe_ReserveMapReserved
<1>12. CASE ReserveScan
    BY <1>12, Safe_ReserveScan
<1>13. CASE ReserveAgain
    BY <1>13, Safe_ReserveAgain
<1>14. CASE memory_split
  <2>1. SplitStarts \/ SplitReturns
      BY <1>14 DEF memory_split, SplitStarts, SplitReturns
  <2> QED BY <2>1, Safe_SplitStarts, Safe_SplitReturns
<1>15. CASE NullSlab
  <2>1. Breaks
      BY <1>15 DEF NullSlab, Breaks
  <2> QED BY <2>1, Safe_Breaks
<1>16. CASE StackOverflow
  <2>1. Breaks
      BY <1>16 DEF StackOverflow, Breaks
  <2> QED BY <2>1, Safe_Breaks
<1>17. CASE ClientReserves
    BY <1>17, Safe_ClientReserves
<1>18. CASE ClientCreates
    BY <1>18, Safe_ClientCreates
<1>19. CASE ClientAllocates
    BY <1>19, Safe_ClientAllocates
<1>20. CASE ClientReleases
    BY <1>20, Safe_ClientReleases
<1>21. CASE ClientFrees
    BY <1>21, Safe_ClientFrees
<1> QED
    BY <1>1, <1>2, <1>3, <1>4, <1>5, <1>6, <1>7, <1>8, <1>9, <1>10, <1>11, 
       <1>12, <1>13, 
       <1>14, <1>15, <1>16, <1>17, <1>18, <1>19, <1>20, <1>21 DEF Next, Kernel

\* Inv is an inductive invariant.
LEMMA Inductive == Inv /\ [Next]_vars => Inv'
<1>1. ASSUME Inv, UNCHANGED vars
      PROVE  Inv'
  <2>1. Breaks
      BY <1>1 DEF vars, Breaks, Inv, Plain
  <2> QED BY <1>1, <2>1, Safe_Breaks
<1> QED BY <1>1, StepsKeep

\* Inv holds in every reachable state.
LEMMA Always == Spec => []Inv
BY Initially, Inductive, PTL DEF Spec

-----------------------------------------------------------------------------
(* What the invariant says.                                                *)

LEMMA WellFormed ==
    ASSUME Inv
    PROVE  TypeOK
<1>1. \A i \in DOMAIN regions : regions[i] \in [at : Nat, base : Nat, size : Nat, type : Nat]
  <2>1. \A r \in Region : r \in [at : Nat, base : Nat, size : Nat, type : Nat]
      BY DEF Region
  <2>2. \A i \in DOMAIN regions : regions[i] \in Region
      BY DEF Inv, MemoryOK, Sorted
  <2> QED BY <2>1, <2>2
<1>2. {metadata_cache, memory_map_cache} \subseteq DOMAIN cache
    BY DEF Inv, MemoryOK, CachesOK
<1>3. \A c \in DOMAIN cache :
         /\ {cache[c].base, cache[c].size} \subseteq Nat /\ cache[c].bsize > 0
         /\ \A i \in DOMAIN cache[c].free :
               /\ cache[c].base <= cache[c].free[i]
               /\ cache[c].free[i] + cache[c].bsize <= cache[c].base + cache[c].size
         /\ \A i \in DOMAIN cache[c].slabs : cache[c].slabs[i] \in DOMAIN cache
  <2> SUFFICES ASSUME NEW c \in DOMAIN cache
               PROVE  /\ {cache[c].base, cache[c].size} \subseteq Nat /\ cache[c].bsize > 0
                      /\ \A i \in DOMAIN cache[c].free :
                            /\ cache[c].base <= cache[c].free[i]
                            /\ cache[c].free[i] + cache[c].bsize
                                  <= cache[c].base + cache[c].size
                      /\ \A i \in DOMAIN cache[c].slabs : cache[c].slabs[i] \in DOMAIN cache
      OBVIOUS
  <2>1. {cache[c].base, cache[c].size} \subseteq Nat /\ cache[c].bsize > 0
      BY CacheFields DEF Inv, MemoryOK
  <2>2. \A i \in DOMAIN cache[c].free :
           /\ cache[c].base <= cache[c].free[i]
           /\ cache[c].free[i] + cache[c].bsize <= cache[c].base + cache[c].size
      BY DEF Inv, MemoryOK, FreeBlocks, BlocksOf, InSlab
  <2>3. \A i \in DOMAIN cache[c].slabs : cache[c].slabs[i] \in DOMAIN cache
      BY DEF Inv, MemoryOK, CachesOK
  <2> QED BY <2>1, <2>2, <2>3
<1>4. \A i \in DOMAIN stack :
         /\ stack[i].fn = "__cache_alloc" => stack[i].cache \in DOMAIN cache
         /\ stack[i].fn = "cache_extend" => stack[i].old \in DOMAIN cache
         /\ stack[i].fn = "memory_split" =>
               \E j \in DOMAIN regions : regions[j].at = stack[i].m
    BY DEF Inv, StackOK, GoodFrames, FrameOK, Splittable
<1>5. /\ Len(stack) <= MaxDepth + 1 /\ ret \in Nat
      /\ status \in {"ok", "null slab", "overflow"}
    BY DEF Inv, Plain
<1>6. /\ caches \subseteq DOMAIN cache /\ Cardinality(caches) <= MaxCaches
      /\ \A o \in objects : o.cache \in caches
    BY DEF Inv, ClientOK
<1> QED BY <1>1, <1>2, <1>3, <1>4, <1>5, <1>6 DEF TypeOK

\* The invariant says that the regions tile the zones.
LEMMA Tiles ==
    ASSUME Inv
    PROVE  Tiled
<1> DEFINE starts == {r.base : r \in {regions[i] : i \in DOMAIN regions}}
           zone(r) == {z \in DOMAIN Zones : Inside(r, Zones[z])}
<1>1. \A z \in DOMAIN Zones : Zones[z].base \in starts
  <2> SUFFICES ASSUME NEW z \in DOMAIN Zones PROVE Zones[z].base \in starts
      OBVIOUS
  <2>1. PICK i \in DOMAIN regions : regions[i].base = Zones[z].base
      BY DEF Inv, MemoryOK, Gapless
  <2> QED BY <2>1
<1>2. /\ 1 \in DOMAIN Zones /\ 1 \in DOMAIN regions
      /\ DOMAIN regions = 1..Len(regions) /\ Len(regions) \in Nat
  <2>1. 1 \in DOMAIN Zones
      BY Constants
  <2>2. PICK i \in DOMAIN regions : regions[i].base = Zones[1].base
      BY <2>1 DEF Inv, MemoryOK, Gapless
  <2>3. DOMAIN regions = 1..Len(regions) /\ Len(regions) \in Nat
      BY <2>2, RegionFields DEF Inv, MemoryOK
  <2> QED BY <2>1, <2>2, <2>3
<1>3. regions[1].base = Zones[1].base
  <2>1. PICK i \in DOMAIN regions : regions[i].base = Zones[1].base
      BY <1>2 DEF Inv, MemoryOK, Gapless
  <2>2. PICK z \in DOMAIN Zones : Inside(regions[1], Zones[z])
      BY <1>2 DEF Inv, MemoryOK, Gapless
  <2>3. Zones[1].base <= Zones[z].base
    <3>1. DOMAIN Zones = 1..Len(Zones) /\ Len(Zones) \in Nat
        BY Constants
    <3>2. /\ Zones[1].base \in Nat /\ Zones[1].size \in Nat
          /\ Zones[z].base \in Nat /\ Zones[z].size \in Nat
        BY <1>2, ZoneFields
    <3>3. CASE z = 1
        BY <3>2, <3>3
    <3>4. CASE z # 1
      <4>1. 1 < z
          BY <3>1, <3>4
      <4>2. Zones[1].base + Zones[1].size <= Zones[z].base
          BY <4>1, <1>2, ZonesApart
      <4> QED BY <3>2, <4>2
    <3> QED BY <3>3, <3>4
  <2>4. /\ Zones[1].base \in Nat /\ Zones[z].base \in Nat
        /\ regions[1].base \in Nat /\ regions[1].size \in Nat
        /\ regions[i].base \in Nat
      BY <1>2, ZoneFields, RegionFields DEF Inv, MemoryOK
  <2>5. Zones[z].base <= regions[1].base
      BY <2>2 DEF Inside
  <2>6. CASE i = 1
      BY <2>1, <2>6
  <2>7. CASE i # 1
    <3>1. End(regions[1]) <= regions[i].base
        BY <1>2, <2>7 DEF Inv, MemoryOK, Sorted
    <3> QED BY <2>1, <2>3, <2>4, <2>5, <3>1 DEF End
  <2> QED BY <2>6, <2>7
<1>4. \A i \in DOMAIN regions :
         /\ regions[i].size > 0
         /\ zone(regions[i]) # {}
         /\ \/ \E z \in DOMAIN Zones : End(regions[i]) = End(Zones[z])
            \/ i < Len(regions) /\ regions[i + 1].base = End(regions[i])
         /\ i < Len(regions) => End(regions[i]) <= regions[i + 1].base
  <2> SUFFICES ASSUME NEW i \in DOMAIN regions
               PROVE  /\ regions[i].size > 0
                      /\ zone(regions[i]) # {}
                      /\ \/ \E z \in DOMAIN Zones : End(regions[i]) = End(Zones[z])
                         \/ i < Len(regions) /\ regions[i + 1].base = End(regions[i])
                      /\ i < Len(regions) => End(regions[i]) <= regions[i + 1].base
      OBVIOUS
  <2>1. regions[i].size > 0
      BY RegionFields DEF Inv, MemoryOK
  <2>2. zone(regions[i]) # {}
      BY DEF Inv, MemoryOK, Gapless
  <2>3. i + 1 \in DOMAIN regions <=> i < Len(regions)
      BY <1>2
  <2>4. \/ \E z \in DOMAIN Zones : End(regions[i]) = End(Zones[z])
        \/ i < Len(regions) /\ regions[i + 1].base = End(regions[i])
      BY <2>3 DEF Inv, MemoryOK, Gapless
  <2>5. i < Len(regions) => End(regions[i]) <= regions[i + 1].base
    <3>1. i < i + 1
        BY <1>2
    <3> QED BY <2>3, <3>1 DEF Inv, MemoryOK, Sorted
  <2> QED BY <2>1, <2>2, <2>4, <2>5
<1> QED BY <1>1, <1>3, <1>4, WellFormed DEF Tiled

\* The slabs and the granted ranges that are somebody's region.
Given(r) == <<r.base, r.size>> \in Ranges /\ r.base # metadata_cache

\* Every slab made later and every grant is one region of its own.
LEMMA SlabsGiven ==
    ASSUME Inv
    PROVE  /\ \A c \in Grown : Given([base |-> cache[c].base, size |-> cache[c].size])
           /\ \A g \in grants : Given([base |-> g.base, size |-> g.size])
           /\ \A c \in Grown : \A g \in grants : cache[c].base # g.base
           /\ \A g, h \in grants : g.base = h.base => g = h
<1>1. /\ \A h \in Held : <<h[3], h[4]>> \in Ranges /\ h[3] # metadata_cache
      /\ \A h, k \in Held : h[3] = k[3] => h = k
    BY DEF Inv, Owned
<1>2. ASSUME NEW c \in Grown
      PROVE  Given([base |-> cache[c].base, size |-> cache[c].size])
  <2> DEFINE h == <<"slab", c, cache[c].base, cache[c].size>>
  <2>1. h \in Held
      BY HeldBy
  <2>2. <<h[3], h[4]>> \in Ranges /\ h[3] # metadata_cache
      BY <1>1, <2>1
  <2> QED BY <2>2 DEF Given
<1>3. ASSUME NEW g \in grants
      PROVE  Given([base |-> g.base, size |-> g.size])
  <2> DEFINE h == <<"grant", 0, g.base, g.size>>
  <2>1. h \in Held
      BY HeldBy
  <2>2. <<h[3], h[4]>> \in Ranges /\ h[3] # metadata_cache
      BY <1>1, <2>1
  <2> QED BY <2>2 DEF Given
<1>4. ASSUME NEW c \in Grown, NEW g \in grants
      PROVE  cache[c].base # g.base
  <2> DEFINE h == <<"slab", c, cache[c].base, cache[c].size>>
             k == <<"grant", 0, g.base, g.size>>
  <2>1. h \in Held /\ k \in Held /\ h # k
      BY HeldBy
  <2>2. h[3] # k[3]
      BY <1>1, <2>1
  <2> QED BY <2>2
<1>5. ASSUME NEW g \in grants, NEW q \in grants, g.base = q.base
      PROVE  g = q
  <2> DEFINE h == <<"grant", 0, g.base, g.size>>
             k == <<"grant", 0, q.base, q.size>>
  <2>1. h \in Held /\ k \in Held /\ h[3] = k[3]
      BY <1>5, HeldBy
  <2>2. h = k
      BY <1>1, <2>1
  <2>3. g.size = q.size
      BY <2>2
  <2>4. g \in [base : Nat, size : Nat \ {0}] /\ q \in [base : Nat, size : Nat \ {0}]
      BY DEF Inv, ClientOK
  <2> QED BY <1>5, <2>3, <2>4
<1> QED BY <1>2, <1>3, <1>4, <1>5

\* Slabs and grants are apart, whatever call is in progress.
LEMMA Apart ==
    ASSUME Inv
    PROVE  \A r, s \in Slabs \cup grants : r # s => Disjoint(r, s)
<1>1. Sorted /\ CachesOK /\ Owned
    BY DEF Inv, MemoryOK
<1>2. /\ \A c \in Grown : Given([base |-> cache[c].base, size |-> cache[c].size])
      /\ \A g \in grants : Given(g)
      /\ \A c \in Grown : \A g \in grants : cache[c].base # g.base
      /\ \A g, h \in grants : g.base = h.base => g = h
    BY SlabsGiven DEF Given
<1>3. Grown = {} \/ BootRange
    BY BootRangeThere
<1>4. ASSUME NEW c \in DOMAIN cache, NEW g \in grants
      PROVE  \/ cache[c].base + cache[c].size <= g.base
             \/ g.base + g.size <= cache[c].base
  <2> DEFINE r == <<g.base, g.size>>
  <2>1. BootRange
    <3>1. ~Booting
        BY <1>4 DEF Inv, BootPhase
    <3> QED BY <3>1, BootRangeThere
  <2>2. r \in Ranges /\ r[1] = g.base /\ r[2] = g.size /\ r[1] # metadata_cache
      BY <1>2, <1>4 DEF Given
  <2>3. \A d \in Grown : cache[d].base # r[1]
      BY <1>2, <1>4, <2>2
  <2> HIDE DEF r
  <2> QED BY <1>1, <1>4, <2>1, <2>2, <2>3, ApartFromSlabs
<1>5. ASSUME NEW g \in grants, NEW h \in grants, g # h
      PROVE  g.base + g.size <= h.base \/ h.base + h.size <= g.base
  <2> DEFINE r == <<g.base, g.size>>
             s == <<h.base, h.size>>
  <2>1. r \in Ranges /\ r[1] = g.base /\ r[2] = g.size
      BY <1>2, <1>5 DEF Given
  <2>2. s \in Ranges /\ s[1] = h.base /\ s[2] = h.size /\ r[1] # s[1]
      BY <1>2, <1>5 DEF Given
  <2> HIDE DEF r, s
  <2> QED BY <1>1, <2>1, <2>2, RangesApart
<1>6. ASSUME NEW c \in DOMAIN cache, NEW d \in DOMAIN cache, c # d
      PROVE  \/ cache[c].base + cache[c].size <= cache[d].base
             \/ cache[d].base + cache[d].size <= cache[c].base
    BY <1>1, <1>3, <1>6, SlabsApart
<1> DEFINE slab(c) == [base |-> cache[c].base, size |-> cache[c].size]
<1>7. \A c \in DOMAIN cache : \A g \in grants : Disjoint(slab(c), g) /\ Disjoint(g, slab(c))
    BY <1>4 DEF Disjoint, End
<1>8. \A g, h \in grants : g # h => Disjoint(g, h)
    BY <1>5 DEF Disjoint, End
<1>9. \A c, d \in DOMAIN cache : slab(c) # slab(d) => Disjoint(slab(c), slab(d))
  <2> SUFFICES ASSUME NEW c \in DOMAIN cache, NEW d \in DOMAIN cache, slab(c) # slab(d)
               PROVE  Disjoint(slab(c), slab(d))
      OBVIOUS
  <2>1. c # d
      OBVIOUS
  <2> QED BY <1>6, <2>1 DEF Disjoint, End
<1>10. \A r \in Slabs : \E c \in DOMAIN cache : r = slab(c)
    BY DEF Slabs
<1> HIDE DEF slab
<1> QED BY <1>7, <1>8, <1>9, <1>10

\* Between calls what a range covers is reserved.
LEMMA Covered ==
    ASSUME Inv, NEW s, NEW r \in Ranges, {s.base, s.size} \subseteq Nat,
           r[1] <= s.base, s.base + s.size <= r[1] + r[2]
    PROVE  \E q \in RegionsOf(Reserved) : Inside(s, q)
<1>1. PICK i \in DOMAIN regions : /\ regions[i].base = r[1] /\ regions[i].size = r[2]
                                  /\ regions[i].type = Reserved
    BY DEF Ranges
<1>2. regions[i] \in RegionsOf(Reserved)
    BY <1>1 DEF RegionsOf
<1> QED BY <1>1, <1>2 DEF Inside, End

\* The invariant says that no two of them share memory.
LEMMA Shares ==
    ASSUME Inv
    PROVE  NoSharing
<1>1. \A r, s \in Slabs \cup grants : r # s => Disjoint(r, s)
    BY Apart
<1>2. ASSUME Idle, NEW s \in Slabs \cup grants
      PROVE  \E q \in RegionsOf(Reserved) : Inside(s, q)
  <2>1. BootRange
      BY <1>2, ClientIdle DEF Idle
  <2>2. /\ \A c \in Grown : Given([base |-> cache[c].base, size |-> cache[c].size])
        /\ \A g \in grants : Given(g)
      BY SlabsGiven DEF Given
  <2>3. CASE s \in grants
    <3> DEFINE r == <<s.base, s.size>>
    <3>1. r \in Ranges /\ r[1] = s.base /\ r[2] = s.size
        BY <2>2, <2>3 DEF Given
    <3>2. {s.base, s.size} \subseteq Nat
        BY <2>3 DEF Inv, ClientOK
    <3> HIDE DEF r
    <3> QED BY <3>1, <3>2, Covered
  <2>4. CASE s \in Slabs
    <3>1. PICK c \in DOMAIN cache : s = [base |-> cache[c].base, size |-> cache[c].size]
        BY <2>4 DEF Slabs
    <3>2. {s.base, s.size} \subseteq Nat /\ s.base = cache[c].base /\ s.size = cache[c].size
        BY <3>1, CacheFields DEF Inv, MemoryOK
    <3>3. CASE c \in Grown
      <4> DEFINE r == <<s.base, s.size>>
      <4>1. r \in Ranges /\ r[1] = s.base /\ r[2] = s.size
          BY <2>2, <3>1, <3>3 DEF Given
      <4> HIDE DEF r
      <4> QED BY <3>2, <4>1, Covered
    <3>4. CASE c \in {metadata_cache, memory_map_cache}
      <4> DEFINE r == <<metadata_cache, BootLen>>
      <4>1. r \in Ranges /\ r[1] = metadata_cache /\ r[2] = BootLen
          BY <2>1 DEF BootRange
      <4> HIDE DEF r
      <4>2. /\ {CacheSize, SlabSize, MapSlab, MapSlabSize, metadata_cache, BootLen} \subseteq Nat
            /\ metadata_cache + CacheSize + SlabSize = MapSlab
            /\ MapSlab + MapSlabSize = metadata_cache + BootLen
          BY Constants
      <4>3. \/ s.base = metadata_cache + CacheSize /\ s.size = SlabSize
            \/ s.base = MapSlab /\ s.size = MapSlabSize
          BY <3>2, <3>4 DEF Inv, MemoryOK, CachesOK
      <4>4. metadata_cache <= s.base /\ s.base + s.size <= metadata_cache + BootLen
          BY <4>2, <4>3
      <4> QED BY <3>2, <4>1, <4>4, Covered
    <3> QED BY <3>3, <3>4 DEF Grown
  <2> QED BY <2>3, <2>4
<1> QED BY <1>1, <1>2 DEF NoSharing

\* The invariant says that a reservation anywhere fails only when it must.
LEMMA FailsWhenFull ==
    ASSUME Inv
    PROVE  FailsOnlyWhenFull
<1> SUFFICES ASSUME At("caller", "reserve"), ret = NULL, top.arg.base = NULL,
                    NEW r \in RegionsOf(Free)
             PROVE  r.size < top.arg.size
    BY DEF FailsOnlyWhenFull
<1>1. PICK i \in DOMAIN regions : r = regions[i] /\ regions[i].type = Free
    BY DEF RegionsOf
<1>2. stack # <<>> /\ top.fn = "caller" /\ top.pc = "reserve"
    BY DEF At
<1> QED BY <1>1, <1>2 DEF Inv, Returned

-----------------------------------------------------------------------------
(* The reserved regions are a set of ranges that grows by one range or     *)
(* shrinks by one: the refinement.                                         *)

\* What is taken is what some region says.
TakenAre ==
    /\ \A x \in Taken : \E i \in DOMAIN regions :
          regions[i].type = Reserved /\ x = Ranged(regions[i])
    /\ \A i \in DOMAIN regions : regions[i].type = Reserved => Ranged(regions[i]) \in Taken

\* What is taken is what some reserved region says.
LEMMA TakenFrom == TakenAre
BY DEF TakenAre, Taken, RegionsOf

\* One region starts at an address, so a free one is not taken.
LEMMA FreeNotTaken ==
    ASSUME Sorted, NEW i \in DOMAIN regions, regions[i].type = Free, NEW x \in Taken
    PROVE  x.base # regions[i].base
<1>1. PICK j \in DOMAIN regions : regions[j].type = Reserved /\ x = Ranged(regions[j])
    BY TakenFrom DEF TakenAre
<1>2. x.base = regions[j].base
    BY <1>1 DEF Ranged
<1>3. i # j
    BY <1>1 DEF Free, Reserved
<1> QED BY <1>2, <1>3, SameBase

\* A region more that is reserved takes its range.
LEMMA TakesOne ==
    ASSUME Sorted', NEW k \in DOMAIN regions', regions'[k].type = Reserved,
           Usable(regions'[k]), \A x \in Taken : x.base # regions'[k].base,
           Taken' = Taken \cup {Ranged(regions'[k])}
    PROVE  Abstract!Next
<1> DEFINE m == regions'[k]
           r == Ranged(m)
<1>1. m \in Region /\ DOMAIN regions' \subseteq Nat
    BY DEF Sorted
<1>2. r.base = m.base /\ r.size = m.size /\ m.base \in Nat /\ m.size \in Nat \ {0}
    BY <1>1 DEF Ranged, Region
<1>3. r \in Taken' \ Taken
    BY <1>2
<1>4. \E i \in DOMAIN Zones : Zones[i].type = 0 /\ Abstract!Inside(r, Zones[i])
  <2>1. PICK i \in DOMAIN Zones : Zones[i].type = Free /\ Inside(m, Zones[i])
      BY DEF Usable
  <2> QED BY <1>2, <2>1 DEF Inside, End, Abstract!Inside, Abstract!End, Free
<1>5. ASSUME NEW s \in Taken
      PROVE  Abstract!Disjoint(r, s)
  <2>1. PICK j \in DOMAIN regions' : s = Ranged(regions'[j])
    <3>1. s \in Taken'
        OBVIOUS
    <3>2. TakenAre'
        BY TakenFrom, PTL
    <3> QED BY <3>1, <3>2 DEF TakenAre
  <2>2. s.base = regions'[j].base /\ s.size = regions'[j].size
      BY <2>1 DEF Ranged
  <2>3. j # k
      BY <1>5, <2>2
  <2>4. j < k => End(regions'[j]) <= m.base
      BY DEF Sorted
  <2>5. k < j => End(m) <= regions'[j].base
      BY DEF Sorted
  <2>6. j < k \/ k < j
      BY <1>1, <2>3
  <2> HIDE DEF m
  <2> QED BY <1>2, <2>2, <2>4, <2>5, <2>6
             DEF End, Abstract!Disjoint, Abstract!End
<1> HIDE DEF r, m
<1>6. r.size > 0 /\ Taken' = Taken \cup {r}
    BY <1>2 DEF r, m
<1>7. \E x \in Taken' \ Taken : /\ x.size > 0
                               /\ \E i \in DOMAIN Zones : Zones[i].type = 0 /\ Abstract!Inside(x, Zones[i])
                               /\ \A s \in Taken : Abstract!Disjoint(x, s)
                               /\ Taken' = Taken \cup {x}
    BY <1>3, <1>4, <1>5, <1>6
<1> QED BY <1>7 DEF Abstract!Next, Abstract!Take, Taken, Ranged

\* A region that is released gives its range back.
LEMMA GivesOne ==
    ASSUME NEW r \in Taken, Taken' = Taken \ {r}
    PROVE  Abstract!Next
<1>1. r \in Taken \ Taken'
    OBVIOUS
<1>2. \E x \in Taken \ Taken' : Taken' = Taken \ {x}
    BY <1>1
<1> QED BY <1>2 DEF Abstract!Next, Abstract!GiveBack, Taken, Ranged

\* Before a reservation, what is taken are the reserved zones.
LEMMA StartsTaken ==
    ASSUME Init
    PROVE  Abstract!Init
<1>1. PICK a, b : Made(a, b, Len(Zones))
    BY InitMakes
<1>2. /\ DOMAIN regions = DOMAIN Zones
      /\ \A i \in DOMAIN Zones : /\ regions[i].base = Zones[i].base
                                 /\ regions[i].size = Zones[i].size
                                 /\ regions[i].type = Zones[i].type
  <2>1. DOMAIN regions = 1..Len(Zones)
      BY <1>1 DEF Made
  <2>2. DOMAIN Zones = 1..Len(Zones)
      BY Constants
  <2>3. \A i \in DOMAIN Zones : /\ regions[i].base = Zones[i].base
                               /\ regions[i].size = Zones[i].size
                               /\ regions[i].type = Zones[i].type
      BY <1>1, MadeRegions
  <2> QED BY <2>1, <2>2, <2>3
<1> DEFINE reserved == {j \in DOMAIN Zones : Zones[j].type = 2}
<1>3. \A i \in DOMAIN Zones : Ranged(regions[i]) = Abstract!Range(Zones[i])
    BY <1>2 DEF Ranged, Abstract!Range
<1>4. Taken = {Ranged(regions[i]) : i \in reserved}
    BY <1>2 DEF Taken, RegionsOf, Reserved
<1>5. Taken = {Abstract!Range(Zones[i]) : i \in reserved}
    BY <1>3, <1>4
<1> QED BY <1>5 DEF Abstract!Init, Taken, Ranged

\* The scan reserves a region that fits exactly.
LEMMA ScanTakesOne ==
    ASSUME Inv, Sorted', ReserveScan, regions' # regions
    PROVE  /\ Abstract!Next
           /\ \E r : /\ Return(r.base) /\ Taken' = Taken \cup {r}
                     /\ r.base = regions[First(Hits(top.base, top.size))].base
<1> DEFINE hits == Hits(top.base, top.size)
           i == First(hits)
<1>1. /\ hits # {} /\ regions' = [regions EXCEPT ![i].type = Reserved]
      /\ Return(regions[i].base)
    BY DEF ReserveScan
<1>2. i \in DOMAIN regions /\ regions[i].type = Free
    BY <1>1, FirstHit DEF ReserveScan, Inv, MemoryOK
<1> HIDE DEF i
<1>3. regions[i] \in Region /\ regions \in Seq(Region) /\ Usable(regions[i])
    BY <1>2 DEF Inv, MemoryOK, Sorted
<1>4. /\ DOMAIN regions' = DOMAIN regions
      /\ regions'[i] = [regions[i] EXCEPT !.type = Reserved]
      /\ \A j \in DOMAIN regions : j # i => regions'[j] = regions[j]
    BY <1>1, <1>2, <1>3
<1>5. /\ regions'[i].type = Reserved /\ regions'[i].base = regions[i].base
      /\ regions'[i].size = regions[i].size
    BY <1>3, <1>4 DEF Region
<1>6. Usable(regions'[i])
    BY <1>3, <1>5 DEF Usable, Inside, End
<1>7. \A x \in Taken : x.base # regions'[i].base
    BY <1>2, <1>5, FreeNotTaken DEF Inv, MemoryOK
<1>8. Taken' = Taken \cup {Ranged(regions'[i])}
  <2>1. TakenAre /\ TakenAre'
      BY TakenFrom, PTL
  <2>2. \A j \in DOMAIN regions :
           /\ j # i => regions'[j] = regions[j]
           /\ regions[j].type = Reserved => j # i
      BY <1>2, <1>4 DEF Free, Reserved
  <2>3. ASSUME NEW x \in Taken'
        PROVE  x \in Taken \cup {Ranged(regions'[i])}
      BY <1>4, <2>1, <2>2, <2>3 DEF TakenAre
  <2>4. ASSUME NEW x \in Taken
        PROVE  x \in Taken'
      BY <1>4, <2>1, <2>2, <2>4 DEF TakenAre
  <2>5. Ranged(regions'[i]) \in Taken'
      BY <1>2, <1>4, <1>5, <2>1 DEF TakenAre
  <2> QED BY <2>3, <2>4, <2>5
<1>9. Return(Ranged(regions'[i]).base) /\ Ranged(regions'[i]).base = regions[i].base
    BY <1>1, <1>5 DEF Ranged
<1>10. Abstract!Next
    BY <1>2, <1>4, <1>5, <1>6, <1>7, <1>8, TakesOne
<1> QED BY <1>8, <1>9, <1>10 DEF i

\* A split reserves what it cuts off.
LEMMA SplitTakesOne ==
    ASSUME Inv, Sorted', SplitReturns
    PROVE  /\ Abstract!Next
           /\ \E r : /\ Return(r.base) /\ Taken' = Taken \cup {r} /\ r.size = top.size
                     /\ \E i \in DOMAIN regions : /\ regions[i].at = top.m
                                                  /\ regions[i].base = r.base
<1>1. stack # <<>> /\ top.fn = "memory_split" /\ top.pc = "got"
    BY DEF SplitReturns, At
<1>2. top.size \in Nat \ {0} /\ Splittable(top)
    BY <1>1, Running
<1>3. PICK i \in DOMAIN regions : /\ regions[i].at = top.m /\ regions[i].type = Free
                                  /\ top.size < regions[i].size
    BY <1>2 DEF Splittable
<1>4. \A j \in DOMAIN regions : regions[j].at = top.m => j = i
    BY <1>3 DEF Inv, MemoryOK, Sorted
<1> DEFINE m == regions[i]
           size == top.size
           n == Len(regions)
           front == Front(ret, m, size)
           rest == Rest(m, size)
<1>5. regions' = InsertBefore([regions EXCEPT ![i] = rest], i, front)
    BY <1>3, <1>4 DEF SplitReturns
<1>6. /\ n \in Nat /\ DOMAIN regions = 1..n /\ i \in 1..n /\ regions \in Seq(Region)
      /\ m \in Region /\ Usable(m)
    BY <1>3, RegionFields DEF Inv, MemoryOK, Sorted
<1>7. ret \in Nat
    BY DEF Inv, Plain
<1>8. /\ front \in Region /\ rest \in Region /\ front.base = m.base /\ front.size = size
      /\ front.type = Reserved /\ rest.type = m.type /\ End(front) <= End(m)
  <2> HIDE DEF m
  <2>1. m \in Region /\ size < m.size
      BY <1>3, <1>6 DEF m
  <2> QED BY <1>2, <1>7, <2>1, Parts
<1>9. m.type = Free
    BY <1>3
<1> HIDE DEF front, rest, m
<1>10. /\ DOMAIN regions' = 1..(n + 1)
       /\ \A k \in 1..(i - 1) : regions'[k] = regions[k]
       /\ regions'[i] = front /\ regions'[i + 1] = rest
       /\ \A k \in (i + 1)..n : regions'[k + 1] = regions[k]
  <2>1. ReplacedIn(regions', Region, regions, i, front, rest)
      BY <1>5, <1>6, <1>8, Replaced
  <2> QED BY <2>1 DEF ReplacedIn
<1>11. i \in DOMAIN regions' /\ Usable(regions'[i]) /\ regions'[i].type = Reserved
  <2>1. PICK z \in DOMAIN Zones : Zones[z].type = Free /\ Inside(m, Zones[z])
      BY <1>6 DEF Usable
  <2>2. Zones[z].base \in Nat /\ Zones[z].size \in Nat
      BY ZoneFields
  <2>3. {End(front), End(m), End(Zones[z])} \subseteq Nat
      BY <1>6, <1>8, <2>2, RegionEnds DEF End
  <2>4. Inside(front, Zones[z])
      BY <1>8, <2>1, <2>2, <2>3 DEF Inside
  <2> QED BY <1>6, <1>8, <1>10, <2>1, <2>4 DEF Usable
<1>12. \A x \in Taken : x.base # regions'[i].base
  <2>1. regions'[i].base = regions[i].base
      BY <1>8, <1>10 DEF m
  <2> QED BY <1>3, <2>1, FreeNotTaken DEF Inv, MemoryOK
<1>13. Taken' = Taken \cup {Ranged(regions'[i])}
  <2>1. TakenAre /\ TakenAre'
      BY TakenFrom, PTL
  <2>2. ASSUME NEW x \in Taken'
        PROVE  x \in Taken \cup {Ranged(regions'[i])}
    <3>1. PICK k \in 1..(n + 1) : regions'[k].type = Reserved /\ x = Ranged(regions'[k])
        BY <1>10, <2>1, <2>2 DEF TakenAre
    <3>2. CASE k \in 1..(i - 1)
      <4>1. k \in DOMAIN regions /\ regions[k].type = Reserved /\ x = Ranged(regions[k])
          BY <1>6, <1>10, <3>1, <3>2
      <4> QED BY <2>1, <4>1 DEF TakenAre
    <3>3. CASE k = i
        BY <3>1, <3>3
    <3>4. k # i + 1
        BY <1>8, <1>9, <1>10, <3>1 DEF Free, Reserved
    <3>5. CASE k \in (i + 2)..(n + 1)
      <4> DEFINE j == k - 1
      <4>1. j \in (i + 1)..n /\ j + 1 = k
          BY <1>6, <3>5
      <4> HIDE DEF j
      <4>2. regions'[j + 1] = regions[j]
          BY <1>10, <4>1
      <4>3. j \in DOMAIN regions /\ regions[j].type = Reserved /\ x = Ranged(regions[j])
          BY <1>6, <3>1, <4>1, <4>2
      <4> QED BY <2>1, <4>3 DEF TakenAre
    <3> QED BY <1>6, <3>2, <3>3, <3>4, <3>5
  <2>3. ASSUME NEW x \in Taken
        PROVE  x \in Taken'
    <3>1. PICK k \in 1..n : regions[k].type = Reserved /\ x = Ranged(regions[k])
        BY <1>6, <2>1, <2>3 DEF TakenAre
    <3>2. k # i
        BY <1>9, <3>1 DEF m, Free, Reserved
    <3>3. CASE k \in 1..(i - 1)
      <4>1. k \in DOMAIN regions' /\ regions'[k] = regions[k]
          BY <1>6, <1>10, <3>3
      <4> QED BY <2>1, <3>1, <4>1 DEF TakenAre
    <3>4. CASE k \in (i + 1)..n
      <4>1. k + 1 \in DOMAIN regions' /\ regions'[k + 1] = regions[k]
          BY <1>6, <1>10, <3>4
      <4> QED BY <2>1, <3>1, <4>1 DEF TakenAre
    <3> QED BY <1>6, <3>2, <3>3, <3>4
  <2>4. Ranged(regions'[i]) \in Taken'
      BY <1>11, <2>1 DEF TakenAre
  <2> QED BY <2>2, <2>3, <2>4
<1>14. Abstract!Next
    BY <1>11, <1>12, <1>13, TakesOne
<1> DEFINE r == Ranged(regions'[i])
<1>15. r.base = regions[i].base /\ r.size = top.size
    BY <1>8, <1>10 DEF Ranged, m
<1>16. Return(regions[i].base)
    BY <1>3, <1>4 DEF SplitReturns
<1> HIDE DEF r
<1> QED BY <1>3, <1>13, <1>14, <1>15, <1>16 DEF r

\* memory_release gives one range back.
LEMMA ReleaseGivesOne ==
    ASSUME Inv, ClientReleases
    PROVE  /\ Abstract!Next
           /\ \E g \in grants : /\ grants' = grants \ {g}
                               /\ \A x \in Taken' : x \in Taken /\ x.base # g.base
<1>1. PICK g \in grants : memory_release(g.base) /\ grants' = grants \ {g}
    BY DEF ClientReleases
<1>2. stack = <<>>
    BY DEF ClientReleases, Idle
<1> DEFINE i == First({j \in DOMAIN regions : regions[j].base = g.base})
           r == Ranged(regions[i])
<1>3. i \in DOMAIN regions /\ regions[i].type = Reserved /\ regions[i].base = g.base
    BY <1>2, GrantFound
<1>4. regions' = [regions EXCEPT ![i].type = Free]
    BY <1>1 DEF memory_release
<1> HIDE DEF i
<1>5. regions \in Seq(Region) /\ regions[i] \in Region
    BY <1>3 DEF Inv, MemoryOK, Sorted
<1>6. /\ DOMAIN regions' = DOMAIN regions
      /\ regions'[i] = [regions[i] EXCEPT !.type = Free]
      /\ \A j \in DOMAIN regions : j # i => regions'[j] = regions[j]
    BY <1>3, <1>4, <1>5
<1>7. regions'[i].type # Reserved
    BY <1>5, <1>6 DEF Region, Free, Reserved
<1>8. TakenAre /\ TakenAre'
    BY TakenFrom, PTL
<1>9. r \in Taken
    BY <1>3, <1>8 DEF TakenAre
<1>10. ASSUME NEW x \in Taken'
       PROVE  x \in Taken \ {r} /\ x.base # g.base
  <2>1. PICK j \in DOMAIN regions' : regions'[j].type = Reserved /\ x = Ranged(regions'[j])
      BY <1>8, <1>10 DEF TakenAre
  <2>2. j # i /\ j \in DOMAIN regions /\ regions'[j] = regions[j]
      BY <1>6, <1>7, <2>1
  <2>3. x \in Taken
      BY <1>8, <2>1, <2>2 DEF TakenAre
  <2>4. regions[j].base # regions[i].base
      BY <1>3, <2>2, SameBase DEF Inv, MemoryOK
  <2>5. x # r /\ x.base # g.base
      BY <1>3, <2>1, <2>2, <2>4 DEF Ranged
  <2> QED BY <2>3, <2>5
<1>11. ASSUME NEW x \in Taken \ {r}
       PROVE  x \in Taken'
  <2>1. PICK j \in DOMAIN regions : regions[j].type = Reserved /\ x = Ranged(regions[j])
      BY <1>8, <1>11 DEF TakenAre
  <2>2. j # i
      BY <1>11, <2>1
  <2> QED BY <1>6, <1>8, <2>1, <2>2 DEF TakenAre
<1>12. Taken' = Taken \ {r}
    BY <1>10, <1>11
<1>13. \A x \in Taken' : x \in Taken /\ x.base # g.base
    BY <1>10
<1> HIDE DEF r
<1> QED BY <1>1, <1>9, <1>12, <1>13, GivesOne

-----------------------------------------------------------------------------
(* The results.                                                            *)

\* Every step is one of the abstract specification, or one it does not see.
LEMMA StepsTake ==
    ASSUME Inv, Inv', [Next]_vars
    PROVE  Abstract!Next \/ Taken' = Taken
<1>1. ASSUME regions' # regions
      PROVE  SplitReturns \/ ReserveScan \/ ClientReleases
    BY <1>1 DEF Next, Kernel, vars, client, memory_init, ClientGets, AllocBlock,
                AllocExtendMetadata, AllocMetadataReserved, AllocReserve,
                AllocReserved, cache_extend, cache_new, ReserveExtendMap,
                ReserveMapReserved, ReserveAgain, memory_split, SplitReturns,
                NullSlab, StackOverflow, ClientReserves, ClientCreates,
                ClientAllocates, ClientFrees, ClientCall
<1>2. regions' = regions => Taken' = Taken
    BY DEF Taken, RegionsOf
<1>3. Sorted'
    BY DEF Inv, MemoryOK
<1> QED BY <1>1, <1>2, <1>3, ScanTakesOne, SplitTakesOne, ReleaseGivesOne

\* Everything stays well formed, and the regions tile the zones.
THEOREM AlwaysTiled == Spec => []Tiled
BY Always, Tiles, PTL

\* Slabs and granted ranges never overlap, and are reserved between calls.
THEOREM NeverShared == Spec => []NoSharing
BY Always, Shares, PTL

\* A reservation anywhere fails only if no free region is large enough.
THEOREM FailsOnlyThen == Spec => []FailsOnlyWhenFull
BY Always, FailsWhenFull, PTL

\* The reserved regions behave as Reservations says.
THEOREM Implements == Spec => ImplementsReservations
<1>1. Init => Abstract!Init
    BY StartsTaken
<1>2. Inv /\ Inv' /\ [Next]_vars => [Abstract!Next]_Taken
    BY StepsTake
<1> QED BY <1>1, <1>2, Always, PTL
           DEF Spec, ImplementsReservations, Abstract!Spec, Taken, Ranged

-----------------------------------------------------------------------------
(* Where the blocks are: each is on a freelist, in use, or on its way from *)
(* the one to the other.                                                   *)

\* The blocks stay while the slabs do.
LEMMA SlabsStay ==
    ASSUME DOMAIN cache' = DOMAIN cache,
           \A c \in DOMAIN cache : /\ cache'[c].base = cache[c].base
                                   /\ cache'[c].size = cache[c].size
                                   /\ cache'[c].bsize = cache[c].bsize
    PROVE  AllBlocks' = AllBlocks
<1>1. \A c \in DOMAIN cache : BlocksIn(c)' = BlocksIn(c)
    BY DEF BlocksIn
<1> QED BY <1>1 DEF AllBlocks

\* Whatever the stack does, the blocks are where they were.
LEMMA PlacedAsBefore ==
    ASSUME AllPlaced, UNCHANGED <<regions, cache, objects>>, Pending' = Pending
    PROVE  AllPlaced'
<1>1. AllBlocks' = AllBlocks
    BY SlabsStay
<1>2. Freelists' = Freelists /\ OfRegions' = OfRegions
    BY QuietCaches, QuietRegions
<1>3. OfObjects' = OfObjects
    BY DEF OfObjects
<1>4. metadata_cache' = metadata_cache
    BY BootCalls
<1> QED BY <1>1, <1>2, <1>3, <1>4 DEF AllPlaced, Placed

\* The frame called runs.
LEMMA AfterCall ==
    ASSUME StackOK, stack # <<>>, NEW f, NEW pc, Call(f, pc)
    PROVE  stack' # <<>> /\ top' = f
<1> DEFINE n == Len(stack)
           g == [stack[n] EXCEPT !.pc = pc]
           S == Frame \cup {g}
           s == [stack EXCEPT ![n] = g]
<1>1. n \in Nat \ {0} /\ stack \in Seq(S)
    BY DEF StackOK
<1>2. stack' = Append(s, f)
    BY DEF Call
<1>3. g \in S
    OBVIOUS
<1> HIDE DEF g, S
<1>4. s \in Seq(S) /\ Len(s) = n
    BY <1>1, <1>3
<1> HIDE DEF s
<1>5. Len(stack') = n + 1 /\ stack'[n + 1] = f
    BY <1>1, <1>2, <1>4
<1>6. stack' # <<>>
    BY <1>2, <1>4
<1> QED BY <1>5, <1>6 DEF top

\* So does the one that takes another's place.
LEMMA AfterTailCall ==
    ASSUME StackOK, stack # <<>>, NEW f, TailCall(f)
    PROVE  stack' # <<>> /\ top' = f
BY DEF StackOK, TailCall, top

\* f is a function that starts.
Begins(f) == f.pc \in {"start", "try"} /\ f.fn # "caller"

\* No block is on its way to it.
LEMMA ExpectsNothing ==
    ASSUME NEW f, top' = f, Begins(f)
    PROVE  Pending' = {}
BY DEF Begins, Pending, Expecting

\* The functions start at their beginning.
LEMMA Starts ==
    /\ \A c, ext : Begins(Alloc(c, ext))
    /\ \A c, p, size, bsize, ext : Begins(Extend(c, p, size, bsize, ext))
    /\ \A p, size : Begins(New(p, size)) /\ Begins(Split(p, size))
    /\ \A base, size, ext : Begins(Reserve(base, size, ext))
BY DEF Begins, Alloc, Extend, New, Reserve, Split

\* The steps that only call.
CallStep ==
    \/ AllocExtendMetadata \/ AllocMetadataReserved \/ AllocReserve \/ AllocReserved
    \/ Extends \/ Creates \/ SplitStarts
    \/ ReserveExtendMap \/ ReserveMapReserved \/ ReserveAgain

\* They call while no block is on its way.
LEMMA CallStepQuiet ==
    ASSUME StackOK, CallStep
    PROVE  /\ UNCHANGED <<regions, cache, objects>>
           /\ Pending = {} /\ Pending' = {}
<1>1. /\ UNCHANGED <<regions, cache, objects>> /\ stack # <<>>
      /\ top.fn # "caller" /\ top.pc # "got"
    BY DEF CallStep, AllocExtendMetadata, AllocMetadataReserved, AllocReserve,
           AllocReserved, Extends, Creates, SplitStarts, ReserveExtendMap,
           ReserveMapReserved, ReserveAgain, At, client
<1>2. Pending = {}
    BY <1>1 DEF Pending, Expecting
<1>3. \E f : Begins(f) /\ (TailCall(f) \/ \E pc : Call(f, pc))
  <2>1. CASE AllocExtendMetadata \/ AllocReserve \/ ReserveExtendMap
      BY <2>1, Starts DEF AllocExtendMetadata, AllocReserve, ReserveExtendMap
  <2>2. CASE AllocMetadataReserved \/ AllocReserved \/ ReserveMapReserved
      BY <2>2, Starts
         DEF AllocMetadataReserved, AllocReserved, ReserveMapReserved
  <2>3. CASE Extends \/ Creates \/ SplitStarts
      BY <2>3, Starts DEF Extends, Creates, SplitStarts
  <2>4. CASE ReserveAgain
      BY <2>4, Starts DEF ReserveAgain
  <2> QED BY <2>1, <2>2, <2>3, <2>4 DEF CallStep
<1>4. Pending' = {}
    BY <1>1, <1>3, AfterCall, AfterTailCall, ExpectsNothing
<1> QED BY <1>1, <1>2, <1>4

\* Only __cache_alloc returns a block.
LEMMA Delivered ==
    ASSUME StackOK, stack # <<>>, top.fn # "caller", NEW value, Return(value)
    PROVE  Pending' = IF top.fn = "__cache_alloc" THEN {value} ELSE {}
<1> DEFINE g == stack[Len(stack) - 1]
<1>1. stack' # <<>> /\ top' = g /\ <<top, g>> \in Links /\ ret' = value
    BY Returns
<1>2. top \in Frame /\ g \in Frame /\ Calls(top, g)
    BY <1>1 DEF Links
<1> HIDE DEF g
<1>3. /\ g.fn = "__cache_alloc" => g.pc # "got"
      /\ g.fn = "__memory_reserve_ex" => g.pc # "got"
      /\ g.fn = "caller" => g.pc # "got"
      /\ g.fn \in {"__cache_alloc", "cache_extend", "cache_new", "__memory_reserve_ex",
                   "memory_split", "caller"}
    BY <1>2, FrameKinds DEF AllocFrame, ReserveFrame, CallerFrame
<1>4. CASE top.fn = "__cache_alloc"
  <2>1. g.pc = "got" \/ (g.fn = "caller" /\ g.pc = "alloc")
      BY <1>2, <1>4, BlockFor
  <2> QED BY <1>1, <1>4, <2>1 DEF Pending, Expecting
<1>5. CASE top.fn # "__cache_alloc"
  <2>1. g.pc # "got" /\ ~(g.fn = "caller" /\ g.pc = "alloc")
      BY <1>2, <1>3, <1>5 DEF Calls
  <2> QED BY <1>1, <1>5, <2>1 DEF Pending, Expecting
<1> QED BY <1>4, <1>5

\* The elements of a list are its first and those of the rest.
LEMMA HeadAndTail ==
    ASSUME NEW S, NEW list \in Seq(S), list # <<>>
    PROVE  {list[k] : k \in DOMAIN list} =
              {Tail(list)[k] : k \in DOMAIN Tail(list)} \cup {Head(list)}
<1>1. /\ Len(list) \in Nat \ {0} /\ DOMAIN list = 1..Len(list)
      /\ DOMAIN Tail(list) = 1..(Len(list) - 1) /\ Head(list) = list[1]
      /\ \A k \in 1..(Len(list) - 1) : Tail(list)[k] = list[k + 1]
    OBVIOUS
<1>2. ASSUME NEW k \in DOMAIN list
      PROVE  list[k] \in {Tail(list)[j] : j \in DOMAIN Tail(list)} \cup {Head(list)}
  <2>1. CASE k = 1
      BY <1>1, <2>1
  <2>2. CASE k # 1
    <3>1. k - 1 \in DOMAIN Tail(list) /\ Tail(list)[k - 1] = list[k]
        BY <1>1, <2>2
    <3> QED BY <3>1
  <2> QED BY <2>1, <2>2
<1>3. ASSUME NEW k \in DOMAIN Tail(list)
      PROVE  Tail(list)[k] \in {list[j] : j \in DOMAIN list}
  <2>1. k + 1 \in DOMAIN list /\ Tail(list)[k] = list[k + 1]
      BY <1>1
  <2> QED BY <2>1
<1>4. Head(list) \in {list[j] : j \in DOMAIN list}
    BY <1>1
<1> QED BY <1>2, <1>3, <1>4

\* The blocks stay when a freelist changes.
LEMMA ChangedSlabsStay ==
    ASSUME CachesOK, NEW s \in DOMAIN cache, NEW list \in Seq(Nat), Changed(s, list)
    PROVE  AllBlocks' = AllBlocks /\ DOMAIN cache' = DOMAIN cache
<1>1. \A c \in DOMAIN cache : cache[c] \in CacheRec
    BY DEF CachesOK
<1>2. /\ DOMAIN cache' = DOMAIN cache
      /\ \A c \in DOMAIN cache : c # s => cache'[c] = cache[c]
      /\ cache'[s] = [cache[s] EXCEPT !.free = list]
    BY DEF Changed
<1>3. /\ cache'[s].base = cache[s].base /\ cache'[s].size = cache[s].size
      /\ cache'[s].bsize = cache[s].bsize
    BY <1>1, <1>2 DEF CacheRec
<1> QED BY <1>2, <1>3, SlabsStay

\* The blocks on the freelist of c.
FreeIn(c) == {cache[c].free[k] : k \in DOMAIN cache[c].free}

\* A step that puts a block on one freelist, or takes one off.
LEMMA OneFreelist ==
    ASSUME CachesOK, CachesOK', NEW s \in DOMAIN cache, NEW b, DOMAIN cache' = DOMAIN cache,
           \A c \in DOMAIN cache \ {s} : cache'[c].free = cache[c].free
    PROVE  /\ FreeIn(s) = FreeIn(s)' \cup {b} => Freelists = Freelists' \cup {b}
           /\ FreeIn(s)' = FreeIn(s) \cup {b} => Freelists' = Freelists \cup {b}
<1>1. \A c \in DOMAIN cache : cache[c].free \in Seq(Nat) /\ cache'[c].free \in Seq(Nat)
    BY DEF CachesOK, CacheRec
<1>2. \A c \in DOMAIN cache : FreeIn(c) \subseteq Nat /\ FreeIn(c)' \subseteq Nat
    BY <1>1 DEF FreeIn
<1>3. \A x : x \in Freelists <=> \E c \in DOMAIN cache : x \in FreeIn(c)
    BY <1>2 DEF Freelists, FreeIn
<1>4. \A x : x \in Freelists' <=> \E c \in DOMAIN cache : x \in FreeIn(c)'
    BY <1>2 DEF Freelists, FreeIn
<1>5. \A c \in DOMAIN cache \ {s} : FreeIn(c)' = FreeIn(c)
    BY DEF FreeIn
<1> QED BY <1>3, <1>4, <1>5

\* A block taken off a freelist is on its way.
LEMMA Placed_AllocBlock ==
    ASSUME Inv, Inv', AllPlaced, AllocBlock
    PROVE  AllPlaced'
<1>1. /\ stack # <<>> /\ top.fn = "__cache_alloc" /\ top.pc = "try" /\ NonEmpty(top.cache) # {}
      /\ UNCHANGED <<regions, objects>>
    BY DEF AllocBlock, At, client
<1>2. PICK s \in DOMAIN cache : /\ cache[s].free # <<>>
                               /\ cache' = [cache EXCEPT ![s].free = Tail(@)]
                               /\ Return(Head(cache[s].free))
    BY <1>1, Running, SlabFound DEF Inv, MemoryOK, AllocBlock
<1>3. PICK free, b : free = cache[s].free /\ b = Head(free)
    OBVIOUS
<1>4. free \in Seq(Nat) /\ Tail(free) \in Seq(Nat)
    BY <1>2, <1>3 DEF Inv, MemoryOK, CachesOK, CacheRec
<1>5. Changed(s, Tail(free))
    BY <1>2, <1>3 DEF Changed
<1>6. /\ SlabsKept /\ cache'[s].free = Tail(free)
      /\ \A c \in DOMAIN cache \ {s} : cache'[c].free = cache[c].free
    BY <1>2, <1>4, <1>5, FreelistChanged DEF Inv, MemoryOK
<1>7. AllBlocks' = AllBlocks /\ DOMAIN cache' = DOMAIN cache
    BY <1>2, <1>4, <1>5, ChangedSlabsStay DEF Inv, MemoryOK
<1>8. FreeIn(s) = FreeIn(s)' \cup {b}
  <2>1. /\ FreeIn(s) = {free[k] : k \in DOMAIN free}
        /\ FreeIn(s)' = {Tail(free)[k] : k \in DOMAIN Tail(free)}
      BY <1>6, <1>3 DEF FreeIn
  <2>2. free \in Seq(Nat) /\ free # <<>> /\ b = Head(free)
      BY <1>2, <1>3, <1>4
  <2>3. {free[k] : k \in DOMAIN free} =
           {Tail(free)[k] : k \in DOMAIN Tail(free)} \cup {Head(free)}
      BY <2>2, HeadAndTail
  <2> QED BY <2>1, <2>2, <2>3
<1>9. Freelists = Freelists' \cup {b}
  <2>1. CachesOK /\ CachesOK'
      BY DEF Inv, MemoryOK
  <2> QED BY <1>6, <1>7, <1>8, <2>1, OneFreelist
<1>10. Pending = {} /\ Pending' = {b}
  <2>1. Pending = {}
      BY <1>1 DEF Pending, Expecting
  <2>2. Pending' = {b}
      BY <1>1, <1>2, <1>3, Delivered DEF Inv
  <2> QED BY <2>1, <2>2
<1>11. OfRegions' = OfRegions /\ OfObjects' = OfObjects /\ metadata_cache' = metadata_cache
    BY <1>1, BootCalls DEF OfRegions, OfObjects
<1>12. Placed' = Placed
    BY <1>7, <1>9, <1>10, <1>11 DEF Placed
<1> QED BY <1>1, <1>7, <1>12 DEF AllPlaced

\* A block the client gives back is on a freelist again.
LEMMA Placed_ClientFrees ==
    ASSUME Inv, Inv', AllPlaced, ClientFrees
    PROVE  AllPlaced'
<1>1. PICK o \in objects : cache_free(o.cache, o.at) /\ objects' = objects \ {o}
    BY DEF ClientFrees
<1>2. stack = <<>> /\ stack' = <<>> /\ UNCHANGED regions
    BY DEF ClientFrees, Idle
<1>3. PICK c, p : c = o.cache /\ p = o.at
    OBVIOUS
<1>4. c \in DOMAIN cache /\ p \in Nat /\ p \in InCache(c)
    BY <1>3 DEF Inv, MemoryOK, BusyBlocks, InCache
<1> DEFINE holding == {i \in DOMAIN SlabsOf(c) : Holds(SlabsOf(c)[i], p)}
<1>5. PICK i \in DOMAIN SlabsOf(c) : InSlab(p, SlabsOf(c)[i])
    BY <1>4 DEF InCache
<1>6. /\ DOMAIN SlabsOf(c) \subseteq Nat
      /\ \A j \in DOMAIN SlabsOf(c) : SlabsOf(c)[j] \in DOMAIN cache
    BY <1>4, SlabsListed DEF AllListed, Listed, Inv, MemoryOK
<1>7. i \in holding /\ holding \in SUBSET Nat
    BY <1>4, <1>5, <1>6, InSlabIn DEF Holds, Inv, MemoryOK
<1>8. First(holding) \in holding
    BY <1>7, FirstIn
<1>9. PICK s \in DOMAIN cache : cache' = [cache EXCEPT ![s].free = InsertBefore(@, 1, p)]
    BY <1>1, <1>3, <1>6, <1>8 DEF cache_free
<1> HIDE DEF holding
<1>10. PICK free, list : free = cache[s].free /\ list = InsertBefore(free, 1, p)
    OBVIOUS
<1>11. free \in Seq(Nat)
    BY <1>9, <1>10 DEF Inv, MemoryOK, CachesOK, CacheRec
<1>12. PrependedTo(list, Nat, free, p)
    BY <1>4, <1>10, <1>11, Prepended
<1>13. list \in Seq(Nat)
    BY <1>12 DEF PrependedTo
<1>14. Changed(s, list)
    BY <1>9, <1>10 DEF Changed
<1>15. /\ cache'[s].free = list
       /\ \A d \in DOMAIN cache \ {s} : cache'[d].free = cache[d].free
    BY <1>9, <1>13, <1>14, FreelistChanged DEF Inv, MemoryOK
<1>16. AllBlocks' = AllBlocks /\ DOMAIN cache' = DOMAIN cache
    BY <1>9, <1>13, <1>14, ChangedSlabsStay DEF Inv, MemoryOK
<1>17. FreeIn(s)' = FreeIn(s) \cup {p}
  <2>1. FreeIn(s) = {free[k] : k \in DOMAIN free} /\ FreeIn(s)' = {list[k] : k \in DOMAIN list}
      BY <1>10, <1>15 DEF FreeIn
  <2>2. /\ DOMAIN list = 1..(Len(free) + 1) /\ list[1] = p
        /\ \A k \in 2..(Len(free) + 1) : k - 1 \in DOMAIN free /\ list[k] = free[k - 1]
      BY <1>12 DEF PrependedTo
  <2>3. DOMAIN free = 1..Len(free) /\ Len(free) \in Nat
      BY <1>11
  <2>4. ASSUME NEW k \in DOMAIN list
        PROVE  list[k] = p \/ list[k] \in FreeIn(s)
    <3>1. k = 1 \/ k \in 2..(Len(free) + 1)
        BY <2>2, <2>3
    <3>2. k \in 2..(Len(free) + 1) => k - 1 \in DOMAIN free /\ list[k] = free[k - 1]
        BY <2>2
    <3> QED BY <2>1, <2>2, <3>1, <3>2
  <2>5. ASSUME NEW k \in DOMAIN free
        PROVE  free[k] \in FreeIn(s)'
    <3>1. k + 1 \in 2..(Len(free) + 1) /\ k + 1 \in DOMAIN list /\ (k + 1) - 1 = k
        BY <2>2, <2>3
    <3>2. list[k + 1] = free[k]
        BY <2>2, <3>1
    <3> QED BY <2>1, <3>1, <3>2
  <2>6. p \in FreeIn(s)'
      BY <2>1, <2>2, <2>3
  <2> QED BY <2>1, <2>4, <2>5, <2>6
<1>18. Freelists' = Freelists \cup {p}
  <2>1. CachesOK /\ CachesOK'
      BY DEF Inv, MemoryOK
  <2> QED BY <1>15, <1>16, <1>17, <2>1, OneFreelist
<1>19. OfObjects = OfObjects' \cup {p}
    BY <1>1, <1>3 DEF OfObjects
<1>20. Pending = {} /\ Pending' = {}
    BY <1>2 DEF Pending, Expecting
<1>21. OfRegions' = OfRegions /\ metadata_cache' = metadata_cache
    BY <1>2, BootCalls DEF OfRegions
<1>22. Placed' = Placed
    BY <1>16, <1>18, <1>19, <1>20, <1>21 DEF Placed
<1>23. IsFiniteSet(objects')
    BY <1>1, FS_Subset DEF AllPlaced
<1> QED BY <1>16, <1>22, <1>23 DEF AllPlaced

\* The client keeps the block it got.
LEMMA Placed_ClientGets ==
    ASSUME Inv, AllPlaced, ClientGets
    PROVE  AllPlaced'
<1>1. stack # <<>> /\ top.fn = "caller" /\ stack' = <<>> /\ UNCHANGED <<regions, cache>>
    BY DEF ClientGets, At
<1>2. Pending' = {}
    BY <1>1 DEF Pending, Expecting
<1>3. CASE objects' = objects /\ top.pc \in {"reserve", "new"}
  <2>1. Pending = {}
      BY <1>3 DEF Pending, Expecting
  <2> QED BY <1>1, <1>2, <1>3, <2>1, PlacedAsBefore
<1>4. CASE objects' = objects \cup {[cache |-> top.arg, at |-> ret]} /\ top.pc = "alloc"
  <2>1. Pending = {ret}
      BY <1>1, <1>4 DEF Pending, Expecting
  <2>2. OfObjects' = OfObjects \cup {ret}
    <3> DEFINE o == [cache |-> top.arg, at |-> ret]
    <3>1. o.at = ret /\ objects' = objects \cup {o}
        BY <1>4
    <3> HIDE DEF o
    <3> QED BY <3>1 DEF OfObjects
  <2>3. AllBlocks' = AllBlocks
      BY <1>1, SlabsStay
  <2>4. Freelists' = Freelists /\ OfRegions' = OfRegions /\ metadata_cache' = metadata_cache
      BY <1>1, QuietCaches, QuietRegions, BootCalls
  <2>5. Placed' = Placed
      BY <1>1, <1>2, <2>1, <2>2, <2>4 DEF Placed
  <2>6. IsFiniteSet(objects')
      BY <1>4, FS_AddElement DEF AllPlaced
  <2> QED BY <1>1, <2>3, <2>5, <2>6 DEF AllPlaced
<1> QED BY <1>3, <1>4 DEF ClientGets, At

\* A region that is reserved or released keeps its struct memory_map.
LEMMA PlacedRetyped ==
    ASSUME Inv, AllPlaced, NEW i \in DOMAIN regions, NEW t,
           regions' = [regions EXCEPT ![i].type = t], UNCHANGED <<cache, objects>>,
           Pending' = Pending
    PROVE  AllPlaced'
<1>1. \A j \in DOMAIN regions : regions[j] \in Region
    BY DEF Inv, MemoryOK, Sorted
<1>2. DOMAIN regions' = DOMAIN regions /\ \A j \in DOMAIN regions : regions'[j].at = regions[j].at
  <2>1. [regions[i] EXCEPT !.type = t].at = regions[i].at
      BY <1>1 DEF Region
  <2> QED BY <2>1
<1>3. OfRegions' = OfRegions
    BY <1>2 DEF OfRegions
<1>4. AllBlocks' = AllBlocks /\ Freelists' = Freelists /\ OfObjects' = OfObjects
      /\ metadata_cache' = metadata_cache
    BY SlabsStay, QuietCaches, BootCalls DEF OfObjects
<1>5. Placed' = Placed
    BY <1>3, <1>4 DEF Placed
<1> QED BY <1>4, <1>5 DEF AllPlaced

\* Releases are of that kind.
LEMMA Placed_ClientReleases ==
    ASSUME Inv, AllPlaced, ClientReleases
    PROVE  AllPlaced'
<1>1. PICK g \in grants : memory_release(g.base)
    BY DEF ClientReleases
<1>2. stack = <<>> /\ stack' = <<>> /\ UNCHANGED <<cache, objects>>
    BY DEF ClientReleases, Idle
<1> DEFINE i == First({j \in DOMAIN regions : regions[j].base = g.base})
<1>3. i \in DOMAIN regions
    BY <1>2, GrantFound
<1>4. regions' = [regions EXCEPT ![i].type = Free]
    BY <1>1 DEF memory_release
<1>5. Pending' = Pending
    BY <1>2 DEF Pending, Expecting
<1> HIDE DEF i
<1> QED BY <1>2, <1>3, <1>4, <1>5, PlacedRetyped

\* So is a scan, unless it changes nothing.
LEMMA Placed_ReserveScan ==
    ASSUME Inv, AllPlaced, ReserveScan
    PROVE  AllPlaced'
<1> DEFINE hits == Hits(top.base, top.size)
           i == First(hits)
<1>1. /\ stack # <<>> /\ top.fn = "__memory_reserve_ex" /\ top.pc \in {"start", "scan"}
      /\ UNCHANGED <<cache, objects>>
    BY DEF ReserveScan, Scanning, At, client
<1>2. Pending = {}
    BY <1>1 DEF Pending, Expecting
<1>3. ASSUME NEW value, Return(value)
      PROVE  Pending' = {}
    BY <1>1, <1>3, Delivered DEF Inv
<1>4. ASSUME NEW f, Begins(f), TailCall(f) \/ \E pc : Call(f, pc)
      PROVE  Pending' = {}
    BY <1>1, <1>4, AfterCall, AfterTailCall, ExpectsNothing DEF Inv
<1>5. Pending' = {}
    BY <1>3, <1>4, Starts DEF ReserveScan
<1>6. CASE regions' = regions
    BY <1>1, <1>2, <1>5, <1>6, PlacedAsBefore
<1>7. CASE hits # {} /\ regions' = [regions EXCEPT ![i].type = Reserved]
  <2>1. i \in DOMAIN regions
      BY <1>7, FirstHit DEF ReserveScan, Inv, MemoryOK
  <2> HIDE DEF i
  <2> QED BY <1>1, <1>2, <1>5, <1>7, <2>1, PlacedRetyped
<1> QED BY <1>6, <1>7 DEF ReserveScan

\* The struct memory_map a split waited for is on the list.
LEMMA Placed_SplitReturns ==
    ASSUME Inv, AllPlaced, SplitReturns
    PROVE  AllPlaced'
<1>1. /\ stack # <<>> /\ top.fn = "memory_split" /\ top.pc = "got"
      /\ UNCHANGED <<cache, objects>>
    BY DEF SplitReturns, At, client
<1>2. top.size \in Nat \ {0} /\ Splittable(top)
    BY <1>1, Running
<1>3. PICK i \in DOMAIN regions : /\ regions[i].at = top.m /\ regions[i].type = Free
                                  /\ top.size < regions[i].size
    BY <1>2 DEF Splittable
<1>4. \A j \in DOMAIN regions : regions[j].at = top.m => j = i
    BY <1>3 DEF Inv, MemoryOK, Sorted
<1> DEFINE size == top.size
<1>5. /\ regions' = InsertBefore([regions EXCEPT ![i] = Rest(regions[i], size)],
                                 i, Front(ret, regions[i], size))
      /\ Return(regions[i].base)
    BY <1>3, <1>4 DEF SplitReturns
<1>6. ret \in Nat /\ ret \notin OfRegions
    BY <1>1 DEF Inv, Returned, Plain, Fresh
<1>7. OfRegions' = OfRegions \cup {ret}
  <2> HIDE DEF size
  <2> QED BY <1>2, <1>3, <1>5, <1>6, Cut DEF Inv, MemoryOK, size
<1>8. Pending = {ret} /\ Pending' = {}
  <2>1. Pending = {ret}
      BY <1>1 DEF Pending, Expecting
  <2>2. Pending' = {}
      BY <1>1, <1>5, Delivered DEF Inv
  <2> QED BY <2>1, <2>2
<1>9. AllBlocks' = AllBlocks /\ Freelists' = Freelists /\ OfObjects' = OfObjects
      /\ metadata_cache' = metadata_cache
    BY <1>1, SlabsStay, QuietCaches, BootCalls DEF OfObjects
<1>10. Placed' = Placed
    BY <1>1, <1>7, <1>8, <1>9 DEF Placed
<1> QED BY <1>1, <1>9, <1>10 DEF AllPlaced

\* A call from outside finds no block on its way, and sends none.
LEMMA Placed_Entered ==
    ASSUME AllPlaced, UNCHANGED <<regions, cache, objects>>, Pending = {},
           stack' = <<>> \/ \E g, f : Begins(f) /\ stack' = <<g, f>>
    PROVE  AllPlaced'
<1>1. CASE stack' = <<>>
    BY <1>1, PlacedAsBefore DEF Pending, Expecting
<1>2. CASE \E g, f : Begins(f) /\ stack' = <<g, f>>
  <2>1. PICK g, f : Begins(f) /\ stack' = <<g, f>>
      BY <1>2
  <2>2. top' = f
      BY <2>1 DEF top
  <2> QED BY <2>1, <2>2, ExpectsNothing, PlacedAsBefore
<1> QED BY <1>1, <1>2

\* The client's calls and those of memory_init.
LEMMA Placed_Calls ==
    ASSUME Inv, AllPlaced,
           memory_init \/ ClientReserves \/ ClientAllocates \/ ClientCreates
    PROVE  AllPlaced'
<1>1. UNCHANGED <<regions, cache, objects>>
    BY DEF memory_init, ClientReserves, ClientAllocates, ClientCreates,
           ClientCall, client
<1>2. CASE memory_init
  <2>1. stack # <<>> /\ top.fn = "caller" /\ top.pc = "boot"
      BY <1>2 DEF memory_init, At
  <2>2. Pending = {}
      BY <2>1 DEF Pending, Expecting
  <2>3. top = stack[1] /\ Booting
    <3>1. Len(stack) = 1
        BY <2>1, Bottom DEF Inv
    <3>2. top = stack[1]
        BY <3>1 DEF top
    <3> QED BY <2>1, <3>2 DEF Booting, Last
  <2>4. top.arg \in {<<>>, <<CachesCall>>, <<KernelCall, CachesCall>>}
      BY <2>3 DEF Inv, BootPhase, Last
  <2>5. top.arg # <<>> => Head(top.arg) \in {KernelCall, CachesCall}
      BY <2>4
  <2>6. Begins(KernelCall) /\ Begins(CachesCall)
      BY Starts DEF KernelCall, CachesCall
  <2>7. stack' = <<>> \/ \E g, f : Begins(f) /\ stack' = <<g, f>>
      BY <1>2, <2>5, <2>6 DEF memory_init
  <2> QED BY <1>1, <2>2, <2>7, Placed_Entered
<1>3. CASE ClientReserves \/ ClientAllocates \/ ClientCreates
  <2>1. stack = <<>>
      BY <1>3 DEF ClientReserves, ClientAllocates, ClientCreates, ClientCall,
                  Idle
  <2>2. Pending = {}
      BY <2>1 DEF Pending, Expecting
  <2>3. \E g, f : Begins(f) /\ stack' = <<g, f>>
      BY <1>3, Starts
         DEF ClientReserves, ClientAllocates, ClientCreates, ClientCall
  <2> QED BY <1>1, <2>2, <2>3, Placed_Entered
<1> QED BY <1>2, <1>3

\* Going wrong moves no block.
LEMMA Placed_Breaks ==
    ASSUME AllPlaced, Breaks
    PROVE  AllPlaced'
BY PlacedAsBefore DEF Breaks, Pending, Expecting, top, client

\* The blocks of a slab are those cache_initialize makes.
LEMMA SlabHas ==
    ASSUME NEW c \in DOMAIN cache, NEW p \in Nat, NEW size \in Nat \ {0},
           NEW bsize \in Nat \ {0}, cache[c].base = p, cache[c].size = size,
           cache[c].bsize = bsize, NEW list, list = Slab(p, size, bsize).free
    PROVE  BlocksIn(c) = {list[k] : k \in DOMAIN list}
<1> DEFINE q == size \div bsize
<1>1. q \in Nat
    OBVIOUS
<1>2. list = [i \in 1..q |-> p + (i - 1) * bsize]
    BY DEF Slab
<1>3. BlocksIn(c) = {p + i * bsize : i \in 0..(q - 1)}
    BY DEF BlocksIn
<1> HIDE DEF q
<1>4. {list[k] : k \in DOMAIN list} = {p + (i - 1) * bsize : i \in 1..q}
    BY <1>2
<1>5. \A i \in 0..(q - 1) : i + 1 \in 1..q /\ (i + 1) - 1 = i
    BY <1>1
<1>6. \A i \in 1..q : i - 1 \in 0..(q - 1)
    BY <1>1
<1>7. {p + i * bsize : i \in 0..(q - 1)} = {p + (i - 1) * bsize : i \in 1..q}
    BY <1>5, <1>6
<1> QED BY <1>3, <1>4, <1>7

\* The blocks of the slab of a new cache are the free ones it starts with.
NewBlocksAre ==
    \A r \in DOMAIN cache : \A p \in Nat, size \in Nat \ {0}, bsize \in Nat \ {0} :
       cache[r] = Slab(p, size, bsize) => BlocksIn(r) = FreeIn(r) /\ FreeIn(r) \subseteq Nat

\* Slab makes its freelist of them.
LEMMA NewBlocks == NewBlocksAre
<1> SUFFICES ASSUME NEW r \in DOMAIN cache, NEW p \in Nat, NEW size \in Nat \ {0},
                    NEW bsize \in Nat \ {0}, cache[r] = Slab(p, size, bsize)
             PROVE  BlocksIn(r) = FreeIn(r) /\ FreeIn(r) \subseteq Nat
    BY DEF NewBlocksAre
<1>1. /\ cache[r].base = p /\ cache[r].size = size /\ cache[r].bsize = bsize
      /\ cache[r].free = Slab(p, size, bsize).free
    BY DEF Slab
<1>2. BlocksIn(r) = FreeIn(r)
    BY <1>1, SlabHas DEF FreeIn
<1>3. Slab(p, size, bsize).free \in Seq(Nat)
    BY SlabMade DEF Blocks
<1> QED BY <1>1, <1>2, <1>3 DEF FreeIn

\* What is on a freelist is on the freelist of a cache.
FreelistsAre ==
    \A x : x \in Freelists <=> x \in Nat /\ \E c \in DOMAIN cache : x \in FreeIn(c)

\* It follows from what Freelists is.
LEMMA FreelistsFrom == FreelistsAre
BY DEF FreelistsAre, Freelists, FreeIn

\* A new slab: its blocks are free, and the block it waited for is its struct.
LEMMA PlacedAdded ==
    ASSUME Inv, Inv', AllPlaced, stack # <<>>,
           top.fn \in {"cache_extend", "cache_new"}, top.pc = "got",
           NEW r, r = ret, NEW p \in Nat, NEW size \in Nat \ {0}, NEW bsize \in Nat \ {0},
           Added(r, p, size, bsize), NEW value, Return(value),
           UNCHANGED <<regions, objects>>
    PROVE  AllPlaced'
<1> DEFINE new == FreeIn(r)'
<1>1. /\ DOMAIN cache' = DOMAIN cache \cup {r} /\ cache'[r] = Slab(p, size, bsize)
      /\ \A c \in DOMAIN cache :
            /\ cache'[c].base = cache[c].base /\ cache'[c].size = cache[c].size
            /\ cache'[c].bsize = cache[c].bsize /\ cache'[c].free = cache[c].free
    BY DEF Added
<1>2. r \in Fresh /\ r \notin DOMAIN cache /\ r # metadata_cache
    BY DEF Inv, Returned, Fresh, MemoryOK, CachesOK
<1>3. BlocksIn(r)' = new /\ new \subseteq Nat
  <2>1. NewBlocksAre'
      BY NewBlocks, PTL
  <2> QED BY <1>1, <2>1 DEF NewBlocksAre
<1>4. \A c \in DOMAIN cache : BlocksIn(c)' = BlocksIn(c) /\ FreeIn(c)' = FreeIn(c)
    BY <1>1 DEF BlocksIn, FreeIn
<1> HIDE DEF new
<1>5. AllBlocks' = AllBlocks \cup new
    BY <1>1, <1>3, <1>4 DEF AllBlocks
<1>6. Freelists' = Freelists \cup new
  <2>1. FreelistsAre /\ FreelistsAre'
      BY FreelistsFrom, PTL
  <2> QED BY <1>1, <1>3, <1>4, <2>1 DEF FreelistsAre, new
<1>7. Pending = {r} /\ Pending' = {}
  <2>1. Pending = {r}
      BY DEF Pending, Expecting
  <2>2. Pending' = {}
      BY Delivered DEF Inv
  <2> QED BY <2>1, <2>2
<1>8. OfRegions' = OfRegions /\ OfObjects' = OfObjects /\ metadata_cache' = metadata_cache
    BY BootCalls DEF OfRegions, OfObjects
<1>9. DOMAIN cache' \ {metadata_cache'} = (DOMAIN cache \ {metadata_cache}) \cup {r}
    BY <1>1, <1>2, <1>8
<1>10. Placed' = Placed \cup new
    BY <1>6, <1>7, <1>8, <1>9 DEF Placed
<1>11. IsFiniteSet(DOMAIN cache')
    BY <1>1, FS_AddElement DEF AllPlaced
<1> QED BY <1>5, <1>10, <1>11 DEF AllPlaced

\* That is what cache_extend and cache_new do.
LEMMA Placed_Adds ==
    ASSUME Inv, Inv', AllPlaced, ExtendReturns \/ NewReturns
    PROVE  AllPlaced'
<1>1. CASE ExtendReturns
  <2>1. /\ stack # <<>> /\ top.fn = "cache_extend" /\ top.pc = "got"
        /\ UNCHANGED <<regions, objects>> /\ Return(NULL)
      BY <1>1 DEF ExtendReturns, At, client
  <2>2. Added(ret, top.p, top.size, top.bsize)
      BY <1>1, ExtendAdds
  <2>3. PICK r, p, size, bsize : r = ret /\ p = top.p /\ size = top.size /\ bsize = top.bsize
      OBVIOUS
  <2>4. p \in Nat /\ size \in Nat \ {0} /\ bsize \in Nat \ {0}
      BY <2>1, <2>3, Running
  <2>5. Added(r, p, size, bsize)
      BY <2>2, <2>3
  <2> QED BY <2>1, <2>3, <2>4, <2>5, PlacedAdded
<1>2. CASE NewReturns
  <2>1. /\ stack # <<>> /\ top.fn = "cache_new" /\ top.pc = "got"
        /\ UNCHANGED <<regions, objects>> /\ Return(ret)
      BY <1>2 DEF NewReturns, At, client
  <2>2. Added(ret, top.p, top.size, BlockSize)
      BY <1>2, NewAdds
  <2>3. PICK r, p, size : r = ret /\ p = top.p /\ size = top.size
      OBVIOUS
  <2>4. p \in Nat /\ size \in Nat \ {0} /\ BlockSize \in Nat \ {0}
      BY <2>1, <2>3, Running, Constants
  <2>5. Added(r, p, size, BlockSize)
      BY <2>2, <2>3
  <2> QED BY <2>1, <2>3, <2>4, <2>5, PlacedAdded
<1> QED BY <1>1, <1>2

\* Every step leaves each block somewhere.
LEMMA PlacedStep ==
    ASSUME Inv, Inv', AllPlaced, [Next]_vars
    PROVE  AllPlaced'
<1>1. CASE memory_init \/ ClientReserves \/ ClientAllocates \/ ClientCreates
    BY <1>1, Placed_Calls
<1>2. CASE ClientGets \/ ClientReleases \/ ClientFrees
    BY <1>2, Placed_ClientGets, Placed_ClientReleases, Placed_ClientFrees
<1>3. CASE AllocBlock \/ ReserveScan
    BY <1>3, Placed_AllocBlock, Placed_ReserveScan
<1>4. CASE CallStep
  <2>1. /\ UNCHANGED <<regions, cache, objects>>
        /\ Pending = {} /\ Pending' = {}
      BY <1>4, CallStepQuiet DEF Inv
  <2> QED BY <2>1, PlacedAsBefore
<1>5. CASE ExtendReturns \/ NewReturns
    BY <1>5, Placed_Adds
<1>6. CASE SplitReturns
    BY <1>6, Placed_SplitReturns
<1>7. CASE NullSlab \/ StackOverflow \/ UNCHANGED vars
  <2>1. Breaks
      BY <1>7 DEF NullSlab, StackOverflow, vars, Breaks, Inv, Plain
  <2> QED BY <2>1, Placed_Breaks
<1>8. CASE cache_extend \/ cache_new \/ memory_split
  <2>1. CallStep \/ ExtendReturns \/ NewReturns \/ SplitReturns
      BY <1>8 DEF cache_extend, cache_new, memory_split, CallStep, Extends,
                  ExtendReturns, Creates, NewReturns, SplitStarts, SplitReturns
  <2> QED BY <2>1, <1>4, <1>5, <1>6
<1>9. CASE \/ AllocExtendMetadata \/ AllocMetadataReserved \/ AllocReserve \/ AllocReserved
           \/ ReserveExtendMap \/ ReserveMapReserved \/ ReserveAgain
  <2>1. CallStep
      BY <1>9 DEF CallStep
  <2> QED BY <2>1, <1>4
<1> QED BY <1>1, <1>2, <1>3, <1>7, <1>8, <1>9 DEF Next, Kernel

\* memory_init's two slabs: the blocks not used are on their freelists.
LEMMA PlacedAtFirst ==
    ASSUME Init
    PROVE  AllPlaced
<1> DEFINE n == Len(Zones)
<1>1. PICK a, b : Made(a, b, n)
    BY InitMakes
<1>2. CachesOK /\ CachesMade(a, b, n)
    BY <1>1, MadeCaches, MadeRegions
<1> HIDE DEF n
<1>3. /\ Nmemb \in Nat \ {0} /\ n \in Nat /\ n >= 3
      /\ DOMAIN cache = {metadata_cache, memory_map_cache}
      /\ metadata_cache # memory_map_cache
    BY <1>2, Constants DEF CachesMade
<1>4. /\ DOMAIN a = 1..Nmemb /\ a \in Seq(Nat) /\ a # <<>> /\ Head(a) = memory_map_cache
      /\ DOMAIN b = 1..(2 * n) /\ b \in Seq(Nat)
  <2>1. /\ DOMAIN a = 1..Nmemb /\ a \in Seq(Nat) /\ Len(a) = Nmemb
        /\ a[1] = metadata_cache + CacheSize
        /\ DOMAIN b = 1..(2 * n) /\ b \in Seq(Nat)
    <3>1. /\ Blocks(a, metadata_cache + CacheSize, SlabSize, CacheSize, Nmemb)
          /\ Blocks(b, MapSlab, MapSlabSize, MapSize, 2 * n)
        BY <1>1 DEF Made
    <3> QED BY <1>3, <3>1 DEF Blocks
  <2> QED BY <1>3, <2>1, Constants
<1>5. BlocksIn(metadata_cache) = {a[k] : k \in DOMAIN a}
  <2> DEFINE p == metadata_cache + CacheSize
  <2>1. p \in Nat /\ SlabSize \in Nat \ {0} /\ CacheSize \in Nat \ {0}
      BY Constants
  <2>2. cache[metadata_cache].base = p /\ cache[metadata_cache].size = SlabSize
        /\ cache[metadata_cache].bsize = CacheSize
      BY <1>2 DEF CachesOK
  <2>3. a = Slab(p, SlabSize, CacheSize).free
      BY <1>1 DEF Made
  <2> HIDE DEF p
  <2> QED BY <1>3, <2>1, <2>2, <2>3, SlabHas
<1>6. BlocksIn(memory_map_cache) = {b[k] : k \in DOMAIN b}
  <2>1. MapSlab \in Nat /\ MapSlabSize \in Nat \ {0} /\ MapSize \in Nat \ {0}
      BY Constants
  <2>2. cache[memory_map_cache].base = MapSlab /\ cache[memory_map_cache].size = MapSlabSize
        /\ cache[memory_map_cache].bsize = MapSize
      BY <1>2 DEF CachesMade
  <2>3. b = Slab(MapSlab, MapSlabSize, MapSize).free
      BY <1>1 DEF Made
  <2> QED BY <1>3, <2>1, <2>2, <2>3, SlabHas
<1>7. FreeIn(metadata_cache) \cup {memory_map_cache} = {a[k] : k \in DOMAIN a}
  <2>1. cache[metadata_cache].free = Tail(a)
      BY <1>2 DEF CachesMade
  <2>2. {a[k] : k \in DOMAIN a} = {Tail(a)[k] : k \in DOMAIN Tail(a)} \cup {Head(a)}
      BY <1>4, HeadAndTail
  <2> QED BY <1>4, <2>1, <2>2 DEF FreeIn
<1>8. FreeIn(memory_map_cache) \cup OfRegions = {b[k] : k \in DOMAIN b}
  <2>1. /\ DOMAIN cache[memory_map_cache].free = 1..n
        /\ \A k \in 1..n : cache[memory_map_cache].free[k] = b[n + k]
      BY <1>2 DEF CachesMade
  <2>2. DOMAIN regions = 1..n /\ \A k \in 1..n : regions[k].at = b[k]
      BY <1>1 DEF Made
  <2>3. /\ \A k \in 1..n : k \in 1..(2 * n) /\ n + k \in 1..(2 * n)
        /\ \A k \in 1..(2 * n) : k \in 1..n \/ (k - n \in 1..n /\ n + (k - n) = k)
      BY <1>3
  <2>4. FreeIn(memory_map_cache) = {b[n + k] : k \in 1..n}
      BY <2>1 DEF FreeIn
  <2>5. OfRegions = {b[k] : k \in 1..n}
      BY <2>2 DEF OfRegions
  <2>6. {b[n + k] : k \in 1..n} \cup {b[k] : k \in 1..n} = {b[k] : k \in 1..(2 * n)}
      BY <2>3
  <2> QED BY <1>4, <2>4, <2>5, <2>6
<1>9. Freelists = FreeIn(metadata_cache) \cup FreeIn(memory_map_cache)
  <2>1. \A c \in DOMAIN cache : cache[c].free \in Seq(Nat)
      BY <1>2 DEF CachesOK, CacheRec
  <2>2. \A c \in DOMAIN cache : FreeIn(c) \subseteq Nat
      BY <2>1 DEF FreeIn
  <2> QED BY <1>3, <2>2, FreelistsFrom DEF FreelistsAre
<1>10. Pending = {} /\ objects = {} /\ OfObjects = {}
  <2>1. Begins(LowMemoryCall) /\ top = LowMemoryCall
      BY Starts DEF Init, top, LowMemoryCall
  <2> QED BY <2>1 DEF Init, Begins, Pending, Expecting, OfObjects
<1>11. AllBlocks = Placed
    BY <1>3, <1>5, <1>6, <1>7, <1>8, <1>9, <1>10 DEF AllBlocks, Placed
<1>12. IsFiniteSet(DOMAIN cache) /\ IsFiniteSet(objects)
  <2>1. DOMAIN cache = {metadata_cache} \cup {memory_map_cache}
      BY <1>3
  <2>2. IsFiniteSet({metadata_cache})
      BY FS_Singleton
  <2>3. IsFiniteSet({metadata_cache} \cup {memory_map_cache})
      BY <2>2, FS_AddElement
  <2> QED BY <1>10, <2>1, <2>3, FS_EmptySet
<1> QED BY <1>11, <1>12 DEF AllPlaced

-----------------------------------------------------------------------------
(* None is lost: what BlocksConserved says of the states between calls.    *)

\* Different values of a function on 1..n are n.
LEMMA Counts ==
    ASSUME NEW n \in Nat, NEW f, DOMAIN f = 1..n, \A i, j \in 1..n : f[i] = f[j] => i = j,
           NEW S, \A x : x \in S <=> \E i \in 1..n : x = f[i]
    PROVE  IsFiniteSet(S) /\ Cardinality(S) = n
<1> DEFINE g == [i \in 1..n |-> f[i]]
<1>1. g \in Bijection(1..n, S)
    BY DEF Bijection, Injection, IsInjective, Surjection
<1>2. ExistsBijection(1..n, S)
    BY <1>1 DEF ExistsBijection
<1> QED BY <1>2, FS_NatBijection, FS_CountingElements

\* One struct memory_map for each region.
LEMMA StructsOfRegions ==
    ASSUME Sorted
    PROVE  IsFiniteSet(OfRegions) /\ Cardinality(OfRegions) = Len(regions)
           /\ Len(regions) \in Nat
<1> DEFINE f == [i \in 1..Len(regions) |-> regions[i].at]
<1>1. Len(regions) \in Nat /\ DOMAIN regions = 1..Len(regions)
    BY DEF Sorted
<1>2. \A i, j \in 1..Len(regions) : f[i] = f[j] => i = j
    BY <1>1 DEF Sorted
<1>3. \A x : x \in OfRegions <=> \E i \in 1..Len(regions) : x = f[i]
    BY <1>1 DEF OfRegions
<1>4. DOMAIN f = 1..Len(regions)
    OBVIOUS
<1> HIDE DEF f
<1> QED BY <1>1, <1>2, <1>3, <1>4, Counts

\* One block for each object.
LEMMA BlocksOfObjects ==
    ASSUME BusyBlocks, IsFiniteSet(objects)
    PROVE  IsFiniteSet(OfObjects) /\ Cardinality(OfObjects) = Cardinality(objects)
<1> DEFINE f == [o \in objects |-> o.at]
<1>1. \A o, p \in objects : f[o] = f[p] => o = p
    BY DEF BusyBlocks
<1>2. OfObjects = {f[o] : o \in objects}
    BY DEF OfObjects
<1>3. f \in Bijection(objects, OfObjects)
    BY <1>1, <1>2 DEF Bijection, Injection, IsInjective, Surjection
<1>4. ExistsBijection(objects, OfObjects)
    BY <1>3 DEF ExistsBijection
<1> QED BY <1>4, FS_Bijection

\* What is used is used once.
LEMMA UsedOnce ==
    ASSUME Inv, AllPlaced
    PROVE  Cardinality(Used) = Len(regions) + Cardinality(DOMAIN cache) - 1
                               + Cardinality(objects)
<1> DEFINE structs == DOMAIN cache \ {metadata_cache}
<1>1. Sorted /\ BusyBlocks /\ IsFiniteSet(objects) /\ IsFiniteSet(DOMAIN cache)
      /\ metadata_cache \in DOMAIN cache
    BY DEF Inv, MemoryOK, AllPlaced, CachesOK
<1>2. IsFiniteSet(OfRegions) /\ Cardinality(OfRegions) = Len(regions) /\ Len(regions) \in Nat
    BY <1>1, StructsOfRegions
<1>3. IsFiniteSet(OfObjects) /\ Cardinality(OfObjects) = Cardinality(objects)
    BY <1>1, BlocksOfObjects
<1>4. IsFiniteSet(structs) /\ Cardinality(structs) = Cardinality(DOMAIN cache) - 1
    BY <1>1, FS_RemoveElement
<1>5. /\ OfRegions \cap structs = {}
      /\ (OfRegions \cup structs) \cap OfObjects = {}
    BY <1>1 DEF BusyBlocks
<1>6. Used = (OfRegions \cup structs) \cup OfObjects
    BY DEF Used, OfRegions, OfObjects
<1>7. /\ Cardinality(OfRegions) \in Nat /\ Cardinality(OfObjects) \in Nat
      /\ Cardinality(structs) \in Nat /\ Cardinality(DOMAIN cache) \in Nat
    BY <1>1, <1>2, <1>3, <1>4, FS_CardinalityType
<1> HIDE DEF structs
<1>8. /\ IsFiniteSet(OfRegions \cup structs)
      /\ Cardinality(OfRegions \cup structs) = Cardinality(OfRegions) + Cardinality(structs)
  <2>1. /\ IsFiniteSet(OfRegions \cup structs)
        /\ Cardinality(OfRegions \cup structs) =
              Cardinality(OfRegions) + Cardinality(structs) - Cardinality(OfRegions \cap structs)
      BY <1>2, <1>4, FS_Union
  <2> QED BY <1>5, <1>7, <2>1, FS_EmptySet
<1>9. Cardinality(Used) = Cardinality(OfRegions \cup structs) + Cardinality(OfObjects)
  <2> DEFINE S == OfRegions \cup structs
  <2>1. Cardinality(S) \in Nat
      BY <1>8, FS_CardinalityType
  <2>2. Cardinality(S \cap OfObjects) = 0
      BY <1>5, FS_EmptySet
  <2>3. IsFiniteSet(S)
      BY <1>8
  <2> HIDE DEF S
  <2>4. Cardinality(S \cup OfObjects) =
           Cardinality(S) + Cardinality(OfObjects) - Cardinality(S \cap OfObjects)
      BY <1>3, <2>3, FS_Union
  <2>5. Used = S \cup OfObjects
      BY <1>6 DEF S
  <2> QED BY <1>7, <2>1, <2>2, <2>4, <2>5 DEF S
<1> QED BY <1>2, <1>3, <1>4, <1>7, <1>8, <1>9

\* A block of a slab lies in it.
LEMMA BlocksLie ==
    ASSUME CachesOK, NEW c \in DOMAIN cache, NEW b \in BlocksIn(c)
    PROVE  b \in Nat /\ cache[c].base <= b /\ b < cache[c].base + cache[c].size
<1>1. cache[c].base \in Nat /\ cache[c].size \in Nat \ {0} /\ cache[c].bsize \in Nat \ {0}
    BY DEF CachesOK, CacheRec
<1> DEFINE p == cache[c].base
           size == cache[c].size
           bsize == cache[c].bsize
           q == size \div bsize
<1>2. PICK i \in 0..(q - 1) : b = p + i * bsize
    BY DEF BlocksIn
<1>3. q \in Nat
    BY <1>1
<1> HIDE DEF p, size, bsize
<1>4. \A k \in 1..q : /\ p + (k - 1) * bsize \in Nat /\ p <= p + (k - 1) * bsize
                      /\ p + (k - 1) * bsize < p + size
    BY <1>1, SlabBlocks DEF p, size, bsize
<1> HIDE DEF q
<1>5. i + 1 \in 1..q /\ (i + 1) - 1 = i
    BY <1>3
<1>6. /\ p + ((i + 1) - 1) * bsize \in Nat /\ p <= p + ((i + 1) - 1) * bsize
      /\ p + ((i + 1) - 1) * bsize < p + size
    BY <1>4, <1>5
<1>7. p + ((i + 1) - 1) * bsize = b
    BY <1>2, <1>5
<1> QED BY <1>6, <1>7 DEF p, size

\* Between calls, each block of each slab is free or used.
LEMMA EachOnce ==
    ASSUME Inv, AllPlaced, Idle, NEW c \in DOMAIN cache
    PROVE  /\ Cardinality(FreeIn(c)) = Len(cache[c].free)
           /\ FreeIn(c) \cap Used = {}
           /\ BlocksIn(c) = FreeIn(c) \cup (Used \cap BlocksIn(c))
<1>1. /\ Sorted /\ CachesOK /\ FreeBlocks /\ BusyBlocks /\ Owned /\ stack = <<>>
    BY DEF Inv, MemoryOK, Idle
<1>2. BootRange
    BY <1>1 DEF Inv, Booted, Booting, BootRange
<1>3. cache[c].free \in Seq(Nat) /\ BlocksOf(cache[c].free, c)
    BY <1>1 DEF CachesOK, CacheRec, FreeBlocks
<1>4. FreeIn(c) \subseteq Nat /\ FreeIn(c) \subseteq Freelists
    BY <1>3 DEF FreeIn, Freelists
<1>5. Placed = Freelists \cup Used
    BY <1>1 DEF Placed, Used, OfRegions, OfObjects, Pending, Expecting
<1>6. Freelists \cap Used = {}
    BY <1>1 DEF BusyBlocks, Busy, Used, OfRegions, OfObjects
<1>7. Cardinality(FreeIn(c)) = Len(cache[c].free)
  <2> DEFINE f == cache[c].free
  <2>1. DOMAIN f = 1..Len(f) /\ Len(f) \in Nat
      BY <1>3
  <2>2. \A i, j \in 1..Len(f) : f[i] = f[j] => i = j
      BY <1>3, <2>1 DEF BlocksOf
  <2>3. \A x : x \in FreeIn(c) <=> \E i \in 1..Len(f) : x = f[i]
      BY <2>1 DEF FreeIn
  <2> HIDE DEF f
  <2>4. Cardinality(FreeIn(c)) = Len(f)
      BY <2>1, <2>2, <2>3, Counts
  <2> QED BY <2>4 DEF f
\* Two slabs share no address.
<1>8. ASSUME NEW d \in DOMAIN cache, NEW e \in DOMAIN cache, NEW b \in BlocksIn(d),
             b \in FreeIn(e)
      PROVE  d = e
  <2>1. b \in Nat /\ cache[d].base <= b /\ b < cache[d].base + cache[d].size
      BY <1>1, <1>8, BlocksLie
  <2>2. InSlab(b, e)
      BY <1>1, <1>8 DEF FreeIn, FreeBlocks, BlocksOf
  <2>3. cache[e].base <= b /\ b < cache[e].base + cache[e].size
      BY <1>1, <2>1, <2>2, InSlabIn
  <2> QED BY <1>1, <1>2, <2>1, <2>3, OneSlab
<1>9. FreeIn(c) \subseteq BlocksIn(c)
  <2> SUFFICES ASSUME NEW b \in FreeIn(c) PROVE b \in BlocksIn(c)
      OBVIOUS
  <2>1. b \in AllBlocks
      BY <1>4, <1>5 DEF AllPlaced
  <2>2. PICK d \in DOMAIN cache : b \in BlocksIn(d)
      BY <2>1 DEF AllBlocks
  <2> QED BY <2>2, <1>8
<1>10. ASSUME NEW b \in BlocksIn(c)
       PROVE  b \in FreeIn(c) \cup Used
  <2>1. b \in Freelists \cup Used
      BY <1>5, <1>10 DEF AllPlaced, AllBlocks
  <2>2. CASE b \in Freelists
    <3>1. PICK d \in DOMAIN cache : b \in FreeIn(d)
        BY <2>2, FreelistsFrom DEF FreelistsAre
    <3> QED BY <1>8, <1>10, <3>1
  <2> QED BY <2>1, <2>2
<1> QED BY <1>4, <1>6, <1>7, <1>9, <1>10

\* Between calls the blocks are conserved.
LEMMA Conserves ==
    ASSUME Inv, AllPlaced
    PROVE  BlocksConserved
<1> SUFFICES ASSUME Idle
             PROVE  /\ Cardinality(Used) = Len(regions) + Cardinality(DOMAIN cache) - 1
                                           + Cardinality(objects)
                    /\ \A c \in DOMAIN cache :
                          /\ Cardinality(FreeIn(c)) = Len(cache[c].free)
                          /\ FreeIn(c) \cap Used = {}
                          /\ BlocksIn(c) = FreeIn(c) \cup (Used \cap BlocksIn(c))
    BY DEF BlocksConserved, FreeIn, BlocksIn
<1> QED BY UsedOnce, EachOnce

\* Between calls each block of each slab is on that slab's freelist or in use for
\* one thing, once: no call hands a block out twice or loses one, whatever it
\* found out before it called another.
THEOREM NoneLost == Spec => []BlocksConserved
<1>1. Inv /\ Inv' /\ AllPlaced /\ [Next]_vars => AllPlaced'
    BY PlacedStep
<1> QED BY <1>1, PlacedAtFirst, Always, Conserves, PTL DEF Spec

-----------------------------------------------------------------------------
(* Whom the reserved ranges are for: no call keeps one to itself.          *)

\* The holders after a step.
LEMMA HeldAfter ==
    /\ \A c \in Grown' : InHands(Held', cache'[c].base, cache'[c].size)
    /\ \A g \in grants' : InHands(Held', g.base, g.size)
    /\ \A i \in DOMAIN stack' : HoldsRange(stack'[i]) =>
          InHands(Held', stack'[i].p, stack'[i].size)
<1>1. /\ \A c \in Grown' : <<"slab", c, cache'[c].base, cache'[c].size>> \in Held'
      /\ \A g \in grants' : <<"grant", 0, g.base, g.size>> \in Held'
      /\ \A i \in DOMAIN stack' : HoldsRange(stack'[i]) =>
            <<"frame", i, stack'[i].p, stack'[i].size>> \in Held'
    BY DEF Held
<1>2. ASSUME NEW k, NEW n, NEW b, NEW size, <<k, n, b, size>> \in Held'
      PROVE  InHands(Held', b, size)
    BY <1>2 DEF InHands
<1> QED BY <1>1, <1>2

\* A range stays in someone's hands if each holder keeps it or passes it on.
LEMMA StaysInHands ==
    ASSUME \A c \in Grown : InHands(Held', cache[c].base, cache[c].size),
           \A g \in grants : InHands(Held', g.base, g.size),
           \A i \in DOMAIN stack : HoldsRange(stack[i]) =>
              InHands(Held', stack[i].p, stack[i].size),
           NEW b, NEW size, InHands(Held, b, size)
    PROVE  InHands(Held', b, size)
<1>1. PICK h \in Held : h[3] = b /\ h[4] = size
    BY DEF InHands
<1>2. CASE \E c \in Grown : h = <<"slab", c, cache[c].base, cache[c].size>>
    BY <1>1, <1>2
<1>3. CASE \E g \in grants : h = <<"grant", 0, g.base, g.size>>
    BY <1>1, <1>3
<1>4. CASE \E i \in DOMAIN stack : /\ HoldsRange(stack[i])
                                   /\ h = <<"frame", i, stack[i].p, stack[i].size>>
    BY <1>1, <1>4
<1> QED BY <1>1, <1>2, <1>3, <1>4 DEF Held

\* The slabs there are stay slabs.
SlabsRemain ==
    \A c \in DOMAIN cache : /\ c \in DOMAIN cache'
                            /\ cache'[c].base = cache[c].base /\ cache'[c].size = cache[c].size

\* A slab that stays is a range still held.
LEMMA SlabsStayHeld ==
    ASSUME SlabsRemain
    PROVE  \A c \in Grown : InHands(Held', cache[c].base, cache[c].size)
<1> SUFFICES ASSUME NEW c \in Grown PROVE InHands(Held', cache[c].base, cache[c].size)
    OBVIOUS
<1>1. metadata_cache' = metadata_cache /\ memory_map_cache' = memory_map_cache
    BY BootCalls
<1>2. /\ c \in Grown' /\ cache'[c].base = cache[c].base /\ cache'[c].size = cache[c].size
    BY <1>1 DEF Grown, SlabsRemain
<1> QED BY <1>2, HeldAfter

\* The frames that hold a range go on holding it.
FramesRemain ==
    \A i \in DOMAIN stack : HoldsRange(stack[i]) =>
        /\ i \in DOMAIN stack' /\ HoldsRange(stack'[i])
        /\ stack'[i].p = stack[i].p /\ stack'[i].size = stack[i].size

\* A frame that stays holds the range it held.
LEMMA FramesStayHeld ==
    ASSUME FramesRemain
    PROVE  \A i \in DOMAIN stack : HoldsRange(stack[i]) =>
              InHands(Held', stack[i].p, stack[i].size)
<1> SUFFICES ASSUME NEW i \in DOMAIN stack, HoldsRange(stack[i])
             PROVE  InHands(Held', stack[i].p, stack[i].size)
    OBVIOUS
<1>1. /\ i \in DOMAIN stack' /\ HoldsRange(stack'[i])
      /\ stack'[i].p = stack[i].p /\ stack'[i].size = stack[i].size
    BY DEF FramesRemain
<1> QED BY <1>1, HeldAfter

\* What it was asked for it still is.
LEMMA StillAsked ==
    ASSUME NEW r, AskedFor(r),
           InHands(Held, r.base, r.size) => InHands(Held', r.base, r.size),
           Awaited /\ r.base = ret =>
              \/ Awaited' /\ ret' = ret
              \/ r.base = NULL \/ InHands(Held', r.base, r.size)
    PROVE  AskedFor(r)'
<1>1. metadata_cache' = metadata_cache
    BY BootCalls
<1>2. Reported(r)' = Reported(r) /\ End(r)' = End(r)
    BY DEF Reported, End
<1> QED BY <1>1, <1>2 DEF AskedFor

\* A step that reserves and takes away nothing.
LEMMA AllAsked ==
    ASSUME \A r \in Taken : AskedFor(r), Taken' \subseteq Taken,
           \A b, size : InHands(Held, b, size) => InHands(Held', b, size),
           Awaited => Awaited' /\ ret' = ret
    PROVE  (\A r \in Taken : AskedFor(r))'
<1> SUFFICES ASSUME NEW r \in Taken' PROVE AskedFor(r)'
    OBVIOUS
<1> QED BY StillAsked

\* A call, or a tail call of __memory_reserve_ex.  What cuts off the part in front
\* cuts it off at the address asked for.
Cuts(f, pc) == pc = "front_split" => top.base # NULL /\ CutsFront(f, top.base)
CallsOn(f) ==
    \/ \E pc \in Places(top.fn) : Call(f, pc) /\ Cuts(f, pc)
    \/ top.fn = "__memory_reserve_ex" /\ TailCall(f)
\* What is called asks for an address only if its caller did.
Asks(f) ==
    f.fn = "__memory_reserve_ex" =>
        /\ f.pc = "start"
        /\ f.base = NULL \/ (top.fn = "__memory_reserve_ex" /\ f.base = top.base)

\* The stack after it.
LEMMA StackAfter ==
    ASSUME StackOK, stack # <<>>, top.fn # "caller", NEW f \in Frame, CallsOn(f)
    PROVE  LET n == Len(stack)
           IN  /\ n \in Nat /\ n >= 2 /\ DOMAIN stack = 1..n /\ top = stack[n]
               /\ stack' # <<>> /\ top' = f /\ ret' = ret /\ Booting' = Booting
               /\ \A i \in 1..(n - 1) : stack'[i] = stack[i]
               /\ \/ /\ DOMAIN stack' = 1..(n + 1) /\ stack'[n + 1] = f
                     /\ Same(top, stack'[n]) /\ Cuts(f, stack'[n].pc)
                     /\ top \in Frame /\ stack'[n] \in Frame
                  \/ /\ DOMAIN stack' = 1..n /\ stack'[n] = f
                     /\ top.fn = "__memory_reserve_ex"
<1> DEFINE n == Len(stack)
<1>1. /\ n \in Nat /\ n >= 2 /\ DOMAIN stack = 1..n /\ top = stack[n]
      /\ stack \in Seq(Frame) /\ top \in Frame
    BY Bottom
<1>2. CASE \E pc \in Places(top.fn) : Call(f, pc) /\ Cuts(f, pc)
  <2>1. PICK pc \in Places(top.fn) : Call(f, pc) /\ Cuts(f, pc)
      BY <1>2
  <2> DEFINE g == [top EXCEPT !.pc = pc]
  <2>2. g \in Frame /\ Same(top, g) /\ g.pc = pc
      BY <1>1, <2>1, GoesOn
  <2>3. /\ stack' \in Seq(Frame) /\ Len(stack') = n + 1 /\ stack' # <<>>
        /\ stack'[n + 1] = f /\ top' = f /\ stack'[n] = g /\ Below /\ ret' = ret
      BY <1>1, <2>1, <2>2, CallEffect
  <2> HIDE DEF g, n
  <2>4. DOMAIN stack' = 1..(n + 1)
      BY <1>1, <2>3
  <2>5. \A i \in 1..(n - 1) : stack'[i] = stack[i]
      BY <2>3 DEF Below, n
  <2>6. Booting' = Booting
      BY <1>1, <2>3, <2>5 DEF Booting, Last
  <2> QED BY <1>1, <2>1, <2>2, <2>3, <2>4, <2>5, <2>6 DEF n
<1>3. CASE top.fn = "__memory_reserve_ex" /\ TailCall(f)
  <2>1. /\ stack' \in Seq(Frame) /\ Len(stack') = n /\ stack' # <<>>
        /\ stack'[n] = f /\ top' = f /\ Below /\ ret' = ret
      BY <1>1, <1>3, TailCallEffect
  <2> HIDE DEF n
  <2>2. DOMAIN stack' = 1..n
      BY <1>1, <2>1
  <2>3. \A i \in 1..(n - 1) : stack'[i] = stack[i]
      BY <2>1 DEF Below, n
  <2>4. Booting' = Booting
      BY <1>1, <2>1, <2>3 DEF Booting, Last
  <2> QED BY <1>1, <1>3, <2>1, <2>2, <2>3, <2>4 DEF n
<1> QED BY <1>2, <1>3 DEF CallsOn

\* It takes no range from a frame.
LEMMA FramesRemainOnCall ==
    ASSUME StackOK, stack # <<>>, top.fn # "caller", NEW f \in Frame, CallsOn(f)
    PROVE  FramesRemain
<1> DEFINE n == Len(stack)
<1>1. /\ n \in Nat /\ n >= 2 /\ DOMAIN stack = 1..n /\ top = stack[n]
      /\ \A i \in 1..(n - 1) : stack'[i] = stack[i]
      /\ \/ /\ DOMAIN stack' = 1..(n + 1) /\ Same(top, stack'[n])
            /\ top \in Frame /\ stack'[n] \in Frame
         \/ DOMAIN stack' = 1..n /\ top.fn = "__memory_reserve_ex"
    BY StackAfter
<1> HIDE DEF n
<1> SUFFICES ASSUME NEW i \in 1..n, HoldsRange(stack[i])
             PROVE  /\ i \in DOMAIN stack' /\ HoldsRange(stack'[i])
                    /\ stack'[i].p = stack[i].p /\ stack'[i].size = stack[i].size
    BY <1>1 DEF FramesRemain
<1>2. i \in DOMAIN stack'
    BY <1>1
<1>3. CASE i = n
    BY <1>1, <1>2, <1>3, SameIsAsGood DEF HoldsRange, Same
<1>4. CASE i \in 1..(n - 1)
    BY <1>1, <1>2, <1>4
<1> QED BY <1>1, <1>3, <1>4

\* Nor does it change what the frames ask for.
LEMMA FrontsOnCall ==
    ASSUME StackOK, stack # <<>>, top.fn # "caller", NEW f \in Frame, CallsOn(f), Asks(f),
           Fronts, UNCHANGED regions
    PROVE  Fronts'
<1> SUFFICES ASSUME ~Booting', NEW i \in DOMAIN stack' PROVE FrontOK(i)'
    BY DEF Fronts
<1> DEFINE n == Len(stack)
<1>1. /\ n \in Nat /\ n >= 2 /\ DOMAIN stack = 1..n /\ top = stack[n]
      /\ Booting' = Booting
      /\ \A j \in 1..(n - 1) : stack'[j] = stack[j]
      /\ \/ /\ DOMAIN stack' = 1..(n + 1) /\ stack'[n + 1] = f
            /\ Same(top, stack'[n]) /\ Cuts(f, stack'[n].pc)
         \/ /\ DOMAIN stack' = 1..n /\ stack'[n] = f
            /\ top.fn = "__memory_reserve_ex"
    BY StackAfter
<1> HIDE DEF n
<1>2. \A j \in 1..n : FrontOK(j)
    BY <1>1 DEF Fronts
<1>3. f.fn = "__memory_reserve_ex" => f.pc = "start" /\ f.base \in {NULL} \cup Bases
    BY <1>1, <1>2 DEF Asks, FrontOK
<1>4. CASE stack'[i] = f
    BY <1>3, <1>4 DEF FrontOK
<1>5. CASE i = n /\ i + 1 \in DOMAIN stack' /\ stack'[i + 1] = f
           /\ Same(top, stack'[n]) /\ Cuts(f, stack'[n].pc)
  <2>1. FrontOK(n) /\ top.fn = stack'[n].fn
        /\ (top.fn = "__memory_reserve_ex" => stack'[n].base = top.base)
      BY <1>1, <1>2, <1>5 DEF Same
  <2>2. Cuts(f, stack'[n].pc) /\ stack'[n + 1] = f
      BY <1>5
  <2> QED BY <1>1, <1>5, <2>1, <2>2 DEF FrontOK, Cuts, CutsFront
<1>6. CASE i \in 1..(n - 1)
  <2>1. stack'[i] = stack[i] /\ i + 1 \in 1..n /\ FrontOK(i)
      BY <1>1, <1>2, <1>6
  <2>2. ASSUME stack[i].fn = "__memory_reserve_ex", stack[i].pc = "front_split"
        PROVE  stack'[i + 1].m = stack[i + 1].m /\ stack'[i + 1].size = stack[i + 1].size
    <3>1. <<stack[i + 1], stack[i]>> \in Links
        BY <1>1, <1>6, <2>1 DEF StackOK
    <3>2. stack[i + 1].fn = "memory_split"
        BY <2>2, <3>1 DEF Links, Calls
    <3>3. CASE i + 1 = n
        BY <1>1, <3>2, <3>3 DEF Same
    <3>4. CASE i + 1 \in 1..(n - 1)
        BY <1>1, <3>4
    <3> QED BY <1>1, <2>1, <3>3, <3>4
  <2> QED BY <1>1, <2>1, <2>2 DEF FrontOK, CutsFront
<1> QED BY <1>1, <1>4, <1>5, <1>6

\* What a call step calls, and that a range it waits for passes to it.
LEMMA CallStepCalls ==
    ASSUME Inv, CallStep
    PROVE  /\ stack # <<>> /\ top.fn # "caller" /\ UNCHANGED <<regions, cache, client>>
           /\ \E f \in Frame :
                 /\ CallsOn(f) /\ Asks(f)
                 /\ Awaited => HoldsRange(f) /\ f.p = ret /\ <<ret, f.size>> \in Ranges
<1>1. stack # <<>> /\ top.fn # "caller" /\ UNCHANGED <<regions, cache, client>>
    BY DEF CallStep, AllocExtendMetadata, AllocMetadataReserved, AllocReserve,
           AllocReserved, Extends, Creates, SplitStarts, ReserveExtendMap,
           ReserveMapReserved, ReserveAgain, At
<1>2. /\ CachesOK /\ SlabSize \in Nat \ {0} /\ CacheSize \in Nat \ {0} /\ ret \in Nat
      /\ \A c \in DOMAIN cache : cache[c].size \in Nat \ {0} /\ cache[c].bsize \in Nat \ {0}
      /\ metadata_cache \in DOMAIN cache /\ memory_map_cache \in DOMAIN cache
      /\ cache[metadata_cache].size = SlabSize /\ NULL \in Nat
    BY Constants, CacheFields DEF Inv, MemoryOK, CachesOK, Plain, NULL
<1>3. GoodFrames \subseteq Frame
    BY DEF GoodFrames
<1>4. CASE AllocExtendMetadata \/ AllocReserve \/ ReserveExtendMap
  <2>1. /\ top.fn \in {"__cache_alloc", "__memory_reserve_ex"} /\ ~Awaited
        /\ top.fn = "__cache_alloc" => top.cache \in DOMAIN cache
      BY <1>1, <1>4, Running
         DEF AllocExtendMetadata, AllocReserve, ReserveExtendMap, At, Awaited
  <2>2. \E size \in Nat \ {0}, ext \in BOOLEAN :
           /\ Reserve(NULL, size, ext) \in Frame
           /\ CallsOn(Reserve(NULL, size, ext))
    <3>1. CASE AllocExtendMetadata
      <4>1. /\ Call(Reserve(NULL, SlabSize, TRUE), "metadata_reserved")
            /\ top.fn = "__cache_alloc"
          BY <1>2, <3>1 DEF AllocExtendMetadata, At
      <4> QED BY <1>2, <1>3, <4>1, MadeFrames DEF CallsOn, Cuts, Places
    <3>2. CASE AllocReserve
      <4>1. /\ Call(Reserve(NULL, cache[top.cache].size, FALSE), "reserved")
            /\ top.fn = "__cache_alloc"
          BY <3>2 DEF AllocReserve, At
      <4>2. cache[top.cache].size \in Nat \ {0}
          BY <1>2, <2>1, <4>1
      <4> QED BY <1>2, <1>3, <4>1, <4>2, MadeFrames DEF CallsOn, Cuts, Places
    <3>3. CASE ReserveExtendMap
      <4>1. /\ Call(Reserve(NULL, SlabSize, TRUE), "map_reserved")
            /\ top.fn = "__memory_reserve_ex"
          BY <3>3 DEF ReserveExtendMap, At, SlabSize
      <4> QED BY <1>2, <1>3, <4>1, MadeFrames DEF CallsOn, Cuts, Places
    <3> QED BY <1>4, <3>1, <3>2, <3>3
  <2>3. \A size, ext : Asks(Reserve(NULL, size, ext))
      BY DEF Asks, Reserve
  <2> QED BY <1>1, <2>1, <2>2, <2>3
<1>5. CASE AllocMetadataReserved \/ AllocReserved \/ ReserveMapReserved
  <2>1. /\ ret # NULL /\ top.fn \in {"__cache_alloc", "__memory_reserve_ex"}
        /\ top.fn = "__cache_alloc" => top.cache \in DOMAIN cache
      BY <1>1, <1>5, Running
         DEF AllocMetadataReserved, AllocReserved, ReserveMapReserved, At
  <2>2. \E c \in DOMAIN cache, size \in Nat \ {0}, bsize \in Nat \ {0}, ext \in BOOLEAN :
           CallsOn(Extend(c, ret, size, bsize, ext)) /\ <<ret, size>> \in Ranges
    <3>1. CASE AllocMetadataReserved
      <4>1. /\ top.fn = "__cache_alloc" /\ top.pc = "metadata_reserved"
            /\ Call(Extend(metadata_cache, ret, SlabSize, cache[metadata_cache].bsize, TRUE),
                    "reserve")
          BY <1>2, <3>1 DEF AllocMetadataReserved, At
      <4>2. <<ret, SlabSize>> \in Ranges
          BY <1>1, <2>1, <4>1 DEF Inv, Returned, Unheld
      <4> QED BY <1>2, <4>1, <4>2 DEF CallsOn, Cuts, Places
    <3>2. CASE AllocReserved
      <4>1. /\ top.fn = "__cache_alloc" /\ top.pc = "reserved"
            /\ Call(Extend(top.cache, ret, cache[top.cache].size, cache[top.cache].bsize, FALSE),
                    "try")
          BY <3>2 DEF AllocReserved, At
      <4>2. <<ret, cache[top.cache].size>> \in Ranges
          BY <1>1, <2>1, <4>1 DEF Inv, Returned, Unheld
      <4>3. /\ top.cache \in DOMAIN cache /\ cache[top.cache].size \in Nat \ {0}
            /\ cache[top.cache].bsize \in Nat \ {0}
          BY <1>2, <2>1, <4>1
      <4> QED BY <4>1, <4>2, <4>3 DEF CallsOn, Cuts, Places
    <3>3. CASE ReserveMapReserved
      <4>1. /\ top.fn = "__memory_reserve_ex" /\ top.pc = "map_reserved"
            /\ Call(Extend(memory_map_cache, ret, SlabSize, CacheSize, FALSE), "scan")
          BY <3>3 DEF ReserveMapReserved, At, SlabSize
      <4>2. <<ret, SlabSize>> \in Ranges
          BY <1>1, <2>1, <4>1 DEF Inv, Returned, Unheld
      <4> QED BY <1>2, <4>1, <4>2 DEF CallsOn, Cuts, Places
    <3> QED BY <1>5, <3>1, <3>2, <3>3
  <2>3. PICK c \in DOMAIN cache, size \in Nat \ {0}, bsize \in Nat \ {0}, ext \in BOOLEAN :
           CallsOn(Extend(c, ret, size, bsize, ext)) /\ <<ret, size>> \in Ranges
      BY <2>2
  <2>4. Extend(c, ret, size, bsize, ext) \in Frame
      BY <1>2, <1>3, MadeFrames
  <2>5. /\ Extend(c, ret, size, bsize, ext).fn = "cache_extend"
        /\ Extend(c, ret, size, bsize, ext).p = ret
        /\ Extend(c, ret, size, bsize, ext).size = size
      BY DEF Extend
  <2> QED BY <1>1, <2>3, <2>4, <2>5 DEF Asks, HoldsRange
<1>6. CASE Extends \/ Creates \/ SplitStarts
  <2>1. /\ top.fn \in {"cache_extend", "cache_new", "memory_split"} /\ ~Awaited
        /\ top.fn = "cache_extend" => top.ext \in BOOLEAN
      BY <1>1, <1>6, Running DEF Extends, Creates, SplitStarts, At, Awaited
  <2>2. \E c \in DOMAIN cache, ext \in BOOLEAN : CallsOn(Alloc(c, ext))
    <3>1. "got" \in Places(top.fn) /\ \A f : Cuts(f, "got")
        BY <2>1 DEF Places, Cuts
    <3>2. \E c \in DOMAIN cache, ext \in BOOLEAN : Call(Alloc(c, ext), "got")
        BY <1>2, <1>6, <2>1 DEF Extends, Creates, SplitStarts, At
    <3> QED BY <3>1, <3>2 DEF CallsOn
  <2>3. \A c, ext : Asks(Alloc(c, ext))
      BY DEF Asks, Alloc
  <2> QED BY <1>1, <1>2, <1>3, <2>1, <2>2, <2>3, MadeFrames
<1>7. CASE ReserveAgain
  <2>1. /\ top.fn = "__memory_reserve_ex" /\ ~Awaited
        /\ TailCall(Reserve(top.base, top.size, FALSE))
      BY <1>7 DEF ReserveAgain, At, Awaited
  <2>2. top.base \in Nat /\ top.size \in Nat \ {0}
      BY <1>1, <2>1, Running
  <2> DEFINE f == Reserve(top.base, top.size, FALSE)
  <2>3. f \in Frame
      BY <1>2, <1>3, <2>2, MadeFrames
  <2>4. Asks(f)
      BY <2>1 DEF Asks, Reserve
  <2> QED BY <1>1, <2>1, <2>3, <2>4 DEF CallsOn
<1> QED BY <1>4, <1>5, <1>6, <1>7 DEF CallStep

\* What is reserved at an address is a range of its own.
LEMMA TakenAt ==
    ASSUME Sorted, NEW r \in Taken, NEW size, <<r.base, size>> \in Ranges
    PROVE  r.size = size
<1>1. PICK i \in DOMAIN regions : r = Ranged(regions[i])
    BY TakenFrom DEF TakenAre
<1>2. r.base = regions[i].base /\ r.size = regions[i].size
    BY <1>1 DEF Ranged
<1>3. PICK j \in DOMAIN regions : regions[j].base = r.base /\ regions[j].size = size
    BY DEF Ranges
<1> QED BY <1>2, <1>3, SameBase

\* A call hands on the range it was given.
LEMMA Asked_CallStep ==
    ASSUME Inv, Accounted, CallStep
    PROVE  Accounted'
<1>1. stack # <<>> /\ top.fn # "caller" /\ UNCHANGED <<regions, cache, client>>
    BY CallStepCalls
<1>2. PICK f \in Frame :
         /\ CallsOn(f) /\ Asks(f)
         /\ Awaited => HoldsRange(f) /\ f.p = ret /\ <<ret, f.size>> \in Ranges
    BY CallStepCalls
<1>3. Fronts'
    BY <1>1, <1>2, FrontsOnCall DEF Inv, Accounted
<1>4. ASSUME NEW b, NEW size, InHands(Held, b, size)
      PROVE  InHands(Held', b, size)
  <2>1. FramesRemain
      BY <1>1, <1>2, FramesRemainOnCall DEF Inv
  <2>2. SlabsRemain
      BY <1>1 DEF SlabsRemain
  <2>3. \A g \in grants : InHands(Held', g.base, g.size)
      BY <1>1, HeldAfter DEF client
  <2> QED BY <1>4, <2>1, <2>2, <2>3, SlabsStayHeld, FramesStayHeld, StaysInHands
<1>5. Taken' = Taken
    BY <1>1 DEF Taken, RegionsOf
<1>6. ASSUME NEW r \in Taken, Awaited, r.base = ret
      PROVE  InHands(Held', r.base, r.size)
  <2>1. HoldsRange(f) /\ f.p = r.base /\ f.size = r.size
      BY <1>2, <1>6, TakenAt DEF Inv, MemoryOK
  <2>2. \E i \in DOMAIN stack' : stack'[i] = f
      BY <1>1, <1>2, StackAfter DEF Inv
  <2> QED BY <2>1, <2>2, HeldAfter
<1>7. \A r \in Taken : AskedFor(r)'
    BY <1>4, <1>6, StillAsked DEF Accounted
<1> QED BY <1>3, <1>5, <1>7 DEF Accounted

\* A return: what the frames below ask for, when no split waits or the regions
\* stay as they are.
LEMMA FrontsOnReturn ==
    ASSUME StackOK, stack # <<>>, top.fn # "caller", NEW value, Return(value), Fronts,
           Splitting => UNCHANGED regions
    PROVE  Fronts'
<1> SUFFICES ASSUME ~Booting', NEW i \in DOMAIN stack' PROVE FrontOK(i)'
    BY DEF Fronts
<1> DEFINE n == Len(stack)
<1>1. /\ n \in Nat /\ n >= 2 /\ DOMAIN stack' = 1..(n - 1) /\ Booting' = Booting
      /\ \A j \in 1..(n - 1) : stack'[j] = stack[j]
    BY Returns DEF Below
<1>2. DOMAIN stack = 1..n
    BY Bottom
<1> HIDE DEF n
<1>3. stack'[i] = stack[i] /\ i \in DOMAIN stack /\ FrontOK(i)
    BY <1>1, <1>2 DEF Fronts
<1> SUFFICES ASSUME stack[i].fn = "__memory_reserve_ex", stack[i].pc = "front_split",
                    i + 1 \in DOMAIN stack'
             PROVE  CutsFront(stack[i + 1], stack[i].base)'
    BY <1>1, <1>3 DEF FrontOK, CutsFront
<1>4. i + 1 \in DOMAIN stack /\ i + 1 # n
    BY <1>1, <1>2
<1>5. stack[i + 1].fn = "memory_split"
  <2>1. <<stack[i + 1], stack[i]>> \in Links
      BY <1>3, <1>4 DEF StackOK
  <2> QED BY <2>1 DEF Links, Calls
<1>6. UNCHANGED regions
    BY <1>4, <1>5 DEF Splitting, n
<1> QED BY <1>1, <1>3, <1>4, <1>6 DEF FrontOK, CutsFront

\* A return takes no range away from the frames below, nor from slabs and grants.
LEMMA HandsAfterReturn ==
    ASSUME StackOK, stack # <<>>, top.fn # "caller", NEW value, Return(value),
           SlabsRemain, UNCHANGED grants,
           HoldsRange(top) => InHands(Held', top.p, top.size),
           NEW b, NEW size, InHands(Held, b, size)
    PROVE  InHands(Held', b, size)
<1> DEFINE n == Len(stack)
<1>1. /\ n \in Nat /\ n >= 2 /\ DOMAIN stack' = 1..(n - 1)
      /\ \A j \in 1..(n - 1) : stack'[j] = stack[j]
    BY Returns DEF Below
<1>2. DOMAIN stack = 1..n /\ top = stack[n]
    BY Bottom
<1> HIDE DEF n
<1>3. ASSUME NEW i \in DOMAIN stack, HoldsRange(stack[i])
      PROVE  InHands(Held', stack[i].p, stack[i].size)
  <2>1. CASE i = n
      BY <1>2, <1>3, <2>1
  <2>2. CASE i \in 1..(n - 1)
    <3>1. i \in DOMAIN stack' /\ stack'[i] = stack[i]
        BY <1>1, <2>2
    <3> QED BY <1>3, <3>1, HeldAfter
  <2> QED BY <1>1, <1>2, <1>3, <2>1, <2>2
<1>4. \A g \in grants : InHands(Held', g.base, g.size)
    BY HeldAfter
<1> QED BY <1>3, <1>4, SlabsStayHeld, StaysInHands

\* Whom a reserved range is returned to.
LEMMA AwaitedAfter ==
    ASSUME StackOK, stack # <<>>, NEW value, Return(value),
           top.fn \in {"__memory_reserve_ex", "memory_split"}
    PROVE  LET g == stack[Len(stack) - 1]
           IN  \/ Awaited' \/ Booting
               \/ /\ top.fn = "memory_split" /\ Len(stack) - 1 \in DOMAIN stack
                  /\ g.fn = "__memory_reserve_ex" /\ g.pc = "front_split"
<1> DEFINE n == Len(stack)
           g == stack[n - 1]
<1>1. /\ n \in Nat /\ n >= 2 /\ stack' # <<>> /\ top' = g /\ <<top, g>> \in Links
    BY Returns
<1>2. DOMAIN stack = 1..n /\ n - 1 \in 1..n
    BY <1>1, Bottom
<1>3. top \in Frame /\ g \in Frame /\ Calls(top, g)
    BY <1>1 DEF Links
<1>4. g.fn = "caller" => g = stack[1]
  <2>1. n - 1 = 1 \/ n - 1 \in 2..n
    <3> HIDE DEF n
    <3> QED BY <1>1
  <2>2. \A i \in 2..n : stack[i].fn # "caller"
      BY Bottom
  <2> QED BY <2>1, <2>2
<1> HIDE DEF g, n
<1>5. CASE g.fn = "__cache_alloc"
  <2>1. g.pc \in {"try", "metadata_reserved", "reserve", "reserved"}
      BY <1>3, <1>5, FrameKinds DEF AllocFrame
  <2>2. g.pc \notin {"try", "reserve"}
      BY <1>3, <1>5 DEF Calls
  <2> QED BY <1>1, <1>5, <2>1, <2>2 DEF Awaited
<1>6. CASE g.fn \in {"cache_extend", "cache_new", "memory_split"}
    BY <1>3, <1>6 DEF Calls
<1>7. CASE g.fn = "__memory_reserve_ex"
  <2>1. g.pc \in {"start", "map_reserved", "scan", "front_split"}
      BY <1>3, <1>7, FrameKinds DEF ReserveFrame
  <2>2. g.pc \notin {"start", "scan"} /\ (g.pc = "front_split" => top.fn = "memory_split")
      BY <1>3, <1>7 DEF Calls
  <2> QED BY <1>1, <1>2, <1>7, <2>1, <2>2 DEF Awaited, n, g
<1>8. CASE g.fn = "caller"
  <2>1. g.pc \in {"boot", "reserve", "new", "alloc"}
      BY <1>3, <1>8, FrameKinds DEF CallerFrame
  <2>2. g.pc \notin {"new", "alloc"}
      BY <1>3, <1>8 DEF Calls
  <2>3. g.pc = "boot" => Booting
      BY <1>4, <1>8 DEF Booting, Last
  <2> QED BY <1>1, <1>8, <2>1, <2>2, <2>3 DEF Awaited
<1> QED BY <1>3, <1>5, <1>6, <1>7, <1>8, FrameKinds DEF n, g

\* A return that leaves the regions alone.
LEMMA Asked_Returns ==
    ASSUME Inv, Accounted, stack # <<>>, top.fn # "caller", ~Awaited,
           NEW value, Return(value), SlabsRemain, UNCHANGED <<regions, grants>>,
           HoldsRange(top) => InHands(Held', top.p, top.size)
    PROVE  Accounted'
<1>1. Taken' = Taken
    BY DEF Taken, RegionsOf
<1>2. \A b, size : InHands(Held, b, size) => InHands(Held', b, size)
    BY HandsAfterReturn DEF Inv
<1>3. Fronts'
    BY FrontsOnReturn DEF Inv, Accounted
<1> QED BY <1>1, <1>2, <1>3, AllAsked DEF Accounted

\* Slabs whose blocks come and go stay slabs.
LEMMA KeptRemain ==
    ASSUME SlabsKept
    PROVE  SlabsRemain
BY DEF SlabsKept, SlabsRemain

\* A block returned is no range.
LEMMA Asked_AllocBlock ==
    ASSUME Inv, Accounted, AllocBlock
    PROVE  Accounted'
<1>1. /\ stack # <<>> /\ top.fn = "__cache_alloc" /\ top.pc = "try" /\ NonEmpty(top.cache) # {}
      /\ UNCHANGED <<regions, grants>>
    BY DEF AllocBlock, At, client
<1>2. PICK s \in DOMAIN cache : /\ cache[s].free # <<>>
                               /\ cache' = [cache EXCEPT ![s].free = Tail(@)]
                               /\ Return(Head(cache[s].free))
    BY <1>1, Running, SlabFound DEF Inv, MemoryOK, AllocBlock
<1>3. PICK free : free = cache[s].free
    OBVIOUS
<1>4. Tail(free) \in Seq(Nat) /\ Changed(s, Tail(free))
    BY <1>2, <1>3 DEF Inv, MemoryOK, CachesOK, CacheRec, Changed
<1>5. SlabsRemain
    BY <1>2, <1>4, FreelistChanged, KeptRemain DEF Inv, MemoryOK
<1>6. ~HoldsRange(top) /\ ~Awaited
    BY <1>1 DEF HoldsRange, Awaited
<1> QED BY <1>1, <1>2, <1>5, <1>6, Asked_Returns

\* The range of a slab that is made passes from the call to the slab.
LEMMA Asked_Adds ==
    ASSUME Inv, Accounted, ExtendReturns \/ NewReturns
    PROVE  Accounted'
<1>1. /\ stack # <<>> /\ top.fn \in {"cache_extend", "cache_new"} /\ top.pc = "got"
      /\ UNCHANGED <<regions, grants>> /\ \E value : Return(value)
    BY DEF ExtendReturns, NewReturns, At, client
<1>2. PICK r, p, size : r = ret /\ p = top.p /\ size = top.size
    OBVIOUS
<1>3. \E bsize : Added(r, p, size, bsize)
    BY <1>2, ExtendAdds, NewAdds
<1>4. /\ SlabsRemain /\ r \in DOMAIN cache' /\ r \notin DOMAIN cache
      /\ cache'[r].base = p /\ cache'[r].size = size
  <2>1. r \notin DOMAIN cache
      BY <1>1, <1>2 DEF Inv, Returned, Fresh
  <2> QED BY <1>3, <2>1 DEF Added, SlabsRemain, Slab
<1>5. r \in Grown'
  <2>1. metadata_cache \in DOMAIN cache /\ memory_map_cache \in DOMAIN cache
      BY DEF Inv, MemoryOK, CachesOK
  <2> QED BY <1>4, <2>1, BootCalls DEF Grown
<1>6. InHands(Held', top.p, top.size)
    BY <1>2, <1>4, <1>5, HeldAfter
<1>7. ~Awaited
    BY <1>1 DEF Awaited
<1> QED BY <1>1, <1>4, <1>6, <1>7, Asked_Returns

\* A call that splits a region cuts off the part in front at the address asked for.
LEMMA ScanCalls ==
    ASSUME Inv, Scanning, NEW i \in DOMAIN regions, regions[i].type = Free,
           NEW size \in Nat \ {0}, size < regions[i].size,
           \/ TailCall(Split(regions[i].at, size))
           \/ /\ Call(Split(regions[i].at, size), "front_split")
              /\ top.base # NULL /\ regions[i].base + size = top.base
    PROVE  \E f \in Frame : CallsOn(f) /\ Asks(f)
<1> DEFINE f == Split(regions[i].at, size)
<1>1. f \in Frame /\ f.fn = "memory_split" /\ f.m = regions[i].at /\ f.size = size
    BY SplitIsGood DEF Inv, MemoryOK, GoodFrames, Split
<1>2. top.fn = "__memory_reserve_ex"
    BY Scans
<1> HIDE DEF f
<1>3. Asks(f)
    BY <1>1 DEF Asks
<1>4. CASE TailCall(f)
    BY <1>1, <1>2, <1>3, <1>4 DEF CallsOn
<1>5. CASE Call(f, "front_split") /\ top.base # NULL /\ regions[i].base + size = top.base
  <2>1. Cuts(f, "front_split")
      BY <1>1, <1>5 DEF Cuts, CutsFront
  <2>2. "front_split" \in Places(top.fn)
      BY <1>2 DEF Places
  <2> QED BY <1>1, <1>3, <1>5, <2>1, <2>2 DEF CallsOn
<1> QED BY <1>4, <1>5 DEF f

\* What a scan does when it reserves nothing yet.
LEMMA ScanLooks ==
    ASSUME Inv, ReserveScan, regions' = regions
    PROVE  (\E value : Return(value)) \/ \E f \in Frame : CallsOn(f) /\ Asks(f)
<1> DEFINE hits == Hits(top.base, top.size)
           i == First(hits)
           m == regions[i]
<1>1. Scanning
    BY DEF ReserveScan
<1>2. top.base \in Nat /\ top.size \in Nat \ {0} /\ stack # <<>>
      /\ top.fn = "__memory_reserve_ex"
    BY <1>1, Scans
<1>3. hits # {} =>
         /\ i \in DOMAIN regions /\ m.type = Free /\ m.base \in Nat /\ m.size \in Nat
         /\ Fits(m, top.base, top.size) \/ Covers(m, top.base)
    BY FirstHit, RegionFields DEF Inv, MemoryOK
<1>4. hits # {} /\ top.base = NULL => Fits(m, top.base, top.size)
    BY <1>2, FitsAnywhere
<1>5. CASE /\ hits # {} /\ Fits(m, top.base, top.size) /\ m.size # top.size
           /\ TailCall(Split(m.at, top.size))
  <2> HIDE DEF i
  <2>1. top.size < m.size
      BY <1>2, <1>3, <1>5 DEF Fits
  <2> QED BY <1>1, <1>2, <1>3, <1>5, <2>1, ScanCalls
<1>6. CASE /\ hits # {} /\ ~Fits(m, top.base, top.size)
           /\ top.base + top.size < m.base + m.size /\ top.base = m.base
           /\ TailCall(Split(m.at, top.size))
  <2> HIDE DEF i
  <2>1. top.size < m.size
      BY <1>2, <1>3, <1>6
  <2> QED BY <1>1, <1>2, <1>3, <1>6, <2>1, ScanCalls
<1>7. CASE /\ hits # {} /\ ~Fits(m, top.base, top.size)
           /\ top.base + top.size < m.base + m.size /\ top.base # m.base
           /\ Call(Split(m.at, top.base - m.base), "front_split")
  <2> HIDE DEF i
  <2> DEFINE size == top.base - m.base
  <2>1. size \in Nat \ {0} /\ size < m.size /\ m.base + size = top.base
      BY <1>2, <1>3, <1>7 DEF Covers
  <2>2. top.base # NULL
      BY <1>4, <1>7 DEF i
  <2>3. Call(Split(m.at, size), "front_split")
      BY <1>7
  <2> HIDE DEF size
  <2> QED BY <1>1, <1>2, <1>3, <1>7, <2>1, <2>2, <2>3, ScanCalls
<1>8. CASE \E value : Return(value)
    BY <1>8
<1> QED BY <1>5, <1>6, <1>7, <1>8 DEF ReserveScan

\* The first reservation of memory_init takes low memory.
LEMMA LowTaken ==
    ASSUME Inv, stack # <<>>, top.fn = "__memory_reserve_ex", top.base = NULL, Booting,
           Hits(top.base, top.size) # {}
    PROVE  regions[First(Hits(top.base, top.size))].base = NULL
<1> DEFINE hits == Hits(top.base, top.size)
           i == First(hits)
<1>1. /\ i \in DOMAIN regions /\ \A j \in hits : i <= j
      /\ DOMAIN regions = 1..Len(regions) /\ Len(regions) \in Nat
    BY FirstHit, RegionFields DEF Inv, MemoryOK
<1>2. /\ regions[1].base = NULL /\ regions[1].type = Free
      /\ regions[1].size = top.size /\ top.size \in Nat
    BY BootLow, BootCalls, Running
<1> HIDE DEF i
<1>3. 1 \in DOMAIN regions
    BY <1>1
<1>4. 1 \in hits
    BY <1>2, <1>3 DEF Hits, Fits
<1>5. i = 1
    BY <1>1, <1>4
<1> QED BY <1>2, <1>5 DEF i

\* What a scan reserves is what its caller waits for.
LEMMA Asked_ReserveScan ==
    ASSUME Inv, Inv', Accounted, ReserveScan
    PROVE  Accounted'
<1>1. /\ Scanning /\ UNCHANGED <<cache, grants>>
      /\ stack # <<>> /\ top.fn = "__memory_reserve_ex" /\ top.pc \in {"start", "scan"}
    BY Scans DEF ReserveScan, client
<1>2. ~Awaited /\ ~HoldsRange(top) /\ SlabsRemain
    BY <1>1 DEF Awaited, HoldsRange, SlabsRemain
<1>3. CASE regions' = regions
  <2>1. CASE \E value : Return(value)
      BY <1>1, <1>2, <1>3, <2>1, Asked_Returns
  <2>2. CASE \E f \in Frame : CallsOn(f) /\ Asks(f)
    <3>1. PICK f \in Frame : CallsOn(f) /\ Asks(f)
        BY <2>2
    <3>2. Fronts' /\ FramesRemain
        BY <1>1, <1>3, <3>1, FrontsOnCall, FramesRemainOnCall DEF Inv, Accounted
    <3>3. \A b, size : InHands(Held, b, size) => InHands(Held', b, size)
        BY <1>1, <1>2, <3>2, SlabsStayHeld, FramesStayHeld, HeldAfter,
           StaysInHands
    <3>4. Taken' = Taken
        BY <1>3 DEF Taken, RegionsOf
    <3> QED BY <1>2, <3>2, <3>3, <3>4, AllAsked DEF Accounted
  <2> QED BY <1>3, <2>1, <2>2, ScanLooks
<1>4. CASE regions' # regions
  <2>1. PICK r : /\ Return(r.base) /\ Taken' = Taken \cup {r}
                 /\ r.base = regions[First(Hits(top.base, top.size))].base
      BY <1>4, ScanTakesOne DEF Inv, MemoryOK
  <2>2. /\ Hits(top.base, top.size) # {} /\ top.base = NULL
        /\ regions[First(Hits(top.base, top.size))].size = top.size
        /\ Fits(regions[First(Hits(top.base, top.size))], top.base, top.size)
      BY <1>4 DEF ReserveScan, Fits
  <2>3. ~Splitting
    <3>1. ASSUME TightFit, top.base = NULL, top.size = SlabSize
          PROVE  FALSE
        BY <2>2, <3>1 DEF TightFit, FirstFit
    <3> QED BY <1>1, <3>1, Scans
  <2>4. Fronts'
      BY <1>1, <2>1, <2>3, FrontsOnReturn DEF Inv, Accounted
  <2>5. \A b, size : InHands(Held, b, size) => InHands(Held', b, size)
      BY <1>1, <1>2, <2>1, HandsAfterReturn DEF Inv
  <2>6. AskedFor(r)'
    <3>1. Awaited' \/ Booting
        BY <1>1, <2>1, AwaitedAfter DEF Inv
    <3>2. ret' = r.base
        BY <2>1 DEF Return
    <3>3. Booting => r.base = NULL
        BY <1>1, <2>1, <2>2, LowTaken
    <3> QED BY <3>1, <3>2, <3>3 DEF AskedFor
  <2>7. \A x \in Taken : AskedFor(x)'
      BY <1>2, <2>5, StillAsked DEF Accounted
  <2> QED BY <2>1, <2>4, <2>6, <2>7 DEF Accounted
<1> QED BY <1>3, <1>4

\* What a split cuts off is what its caller waits for, or the part in front.
LEMMA Asked_SplitReturns ==
    ASSUME Inv, Inv', Accounted, SplitReturns
    PROVE  Accounted'
<1>1. /\ UNCHANGED <<cache, grants>>
      /\ stack # <<>> /\ top.fn = "memory_split" /\ top.pc = "got"
    BY DEF SplitReturns, At, client
<1>2. ~Awaited /\ ~HoldsRange(top) /\ SlabsRemain
    BY <1>1 DEF Awaited, HoldsRange, SlabsRemain
<1>3. PICK r : /\ Return(r.base) /\ Taken' = Taken \cup {r} /\ r.size = top.size
               /\ \E i \in DOMAIN regions : /\ regions[i].at = top.m
                                            /\ regions[i].base = r.base
    BY SplitTakesOne DEF Inv, MemoryOK
<1>4. ~Splitting
    BY <1>1, NotSplitting DEF Inv
<1>5. Fronts'
    BY <1>1, <1>3, <1>4, FrontsOnReturn DEF Inv, Accounted
<1>6. \A b, size : InHands(Held, b, size) => InHands(Held', b, size)
    BY <1>1, <1>2, <1>3, HandsAfterReturn DEF Inv
<1>7. \A j \in DOMAIN regions : regions[j].at = top.m => regions[j].base = r.base
    BY <1>3 DEF Inv, MemoryOK, Sorted
<1>8. AskedFor(r)'
  <2>1. CASE Awaited'
      BY <1>3, <2>1 DEF AskedFor, Return
  <2>2. CASE Booting
    <3>1. PICK call \in {KernelCall, CachesCall} : \E j \in DOMAIN regions :
              RoomAt(j, call.base) /\ top.m = regions[j].at
        BY <1>1, <2>2, BootCuts
    <3>2. r.base = call.base
        BY <1>7, <3>1 DEF RoomAt
    <3>3. r.base \in {KernelBase, metadata_cache}
        BY <3>2 DEF KernelCall, CachesCall, Reserve
    <3> QED BY <3>3, BootCalls DEF AskedFor
  <2>3. CASE ~Booting /\ ~Awaited'
    <3> DEFINE k == Len(stack) - 1
    <3>1. /\ k \in DOMAIN stack /\ stack[k].fn = "__memory_reserve_ex"
          /\ stack[k].pc = "front_split"
        BY <1>1, <1>3, <2>3, AwaitedAfter DEF Inv
    <3>2. k + 1 \in DOMAIN stack /\ stack[k + 1] = top
        BY <1>1, Bottom DEF Inv
    <3>3. FrontOK(k)
        BY <2>3, <3>1 DEF Accounted, Fronts
    <3> HIDE DEF k
    <3>4. CutsFront(top, stack[k].base) /\ stack[k].base \in Bases
        BY <3>1, <3>2, <3>3 DEF FrontOK
    <3>5. r.base + r.size \in Bases
        BY <1>3, <1>7, <3>4 DEF CutsFront
    <3> QED BY <3>5 DEF AskedFor, End
  <2> QED BY <2>1, <2>2, <2>3
<1>9. \A x \in Taken : AskedFor(x)'
    BY <1>2, <1>6, StillAsked DEF Accounted
<1> QED BY <1>3, <1>5, <1>8, <1>9 DEF Accounted

\* The stack after a call into the idle kernel: what the client asks for.
LEMMA FrontsEntered ==
    ASSUME NEW g, NEW f, g.fn = "caller", f.pc # "front_split", stack' = <<g, f>>,
           g.pc = "boot" \/ (f.fn = "__memory_reserve_ex" => f.base \in {NULL} \cup Bases)
    PROVE  Fronts'
<1>1. DOMAIN stack' = 1..2 /\ stack'[1] = g /\ stack'[2] = f /\ stack' # <<>>
    OBVIOUS
<1>2. FrontOK(1)'
    BY <1>1 DEF FrontOK
<1>3. ASSUME f.fn = "__memory_reserve_ex" => f.base \in {NULL} \cup Bases
      PROVE  FrontOK(2)'
    BY <1>1, <1>3 DEF FrontOK
<1> QED BY <1>1, <1>2, <1>3 DEF Fronts, Booting, Last

\* No frame holds a range when only the caller's is there.
LEMMA NoFrames ==
    ASSUME StackOK, stack = <<>> \/ top.fn = "caller"
    PROVE  FramesRemain
<1>1. CASE stack = <<>>
    BY <1>1 DEF FramesRemain
<1>2. CASE stack # <<>> /\ top.fn = "caller"
  <2>1. Len(stack) = 1 /\ DOMAIN stack = 1..Len(stack) /\ top = stack[Len(stack)]
      BY <1>2, Bottom
  <2>2. \A i \in DOMAIN stack : stack[i] = top
      BY <2>1
  <2> QED BY <1>2, <2>2 DEF FramesRemain, HoldsRange
<1> QED BY <1>1, <1>2

\* The client's calls and those of memory_init.
LEMMA Asked_Calls ==
    ASSUME Inv, Accounted, memory_init \/ ClientReserves \/ ClientAllocates
    PROVE  Accounted'
<1>1. /\ UNCHANGED <<regions, cache, ret, grants>>
      /\ stack = <<>> \/ (stack # <<>> /\ top.fn = "caller")
      /\ ~Awaited
    BY DEF memory_init, ClientReserves, ClientAllocates, ClientCall, Idle, At,
           client, Awaited
<1>2. FramesRemain /\ SlabsRemain
    BY <1>1, NoFrames DEF Inv, SlabsRemain
<1>3. \A b, size : InHands(Held, b, size) => InHands(Held', b, size)
    BY <1>1, <1>2, SlabsStayHeld, FramesStayHeld, HeldAfter, StaysInHands
<1>4. Taken' = Taken
    BY <1>1 DEF Taken, RegionsOf
<1>5. Fronts'
  <2>1. CASE stack' = <<>>
      BY <2>1 DEF Fronts
  <2>2. CASE memory_init /\ stack' # <<>>
    <3>1. top.arg # <<>> /\ stack' = <<Caller("boot", Tail(top.arg)), Head(top.arg)>>
        BY <2>2 DEF memory_init
    <3>2. Caller("boot", Tail(top.arg)).pc = "boot"
        BY DEF Caller
    <3>3. Booting'
        BY <3>1, <3>2 DEF Booting, Last
    <3> QED BY <3>3 DEF Fronts
  <2>3. CASE ClientReserves
    <3>1. PICK base \in Bases \cup {NULL}, size \in Sizes :
             stack' = <<Caller("reserve", [base |-> base, size |-> size]),
                        Reserve(base, size, FALSE)>>
        BY <2>3 DEF ClientReserves, ClientCall
    <3> DEFINE g == Caller("reserve", [base |-> base, size |-> size])
               f == Reserve(base, size, FALSE)
    <3>2. g.fn = "caller" /\ f.pc # "front_split" /\ f.base \in {NULL} \cup Bases
        BY DEF Caller, Reserve
    <3> HIDE DEF g
    <3> QED BY <3>1, <3>2, FrontsEntered DEF g
  <2>4. CASE ClientAllocates
    <3>1. PICK c : stack' = <<Caller("alloc", c), Alloc(c, FALSE)>>
        BY <2>4 DEF ClientAllocates, ClientCall
    <3>2. /\ Caller("alloc", c).fn = "caller"
          /\ Alloc(c, FALSE).fn = "__cache_alloc" /\ Alloc(c, FALSE).pc = "try"
        BY DEF Caller, Alloc
    <3> QED BY <3>1, <3>2, FrontsEntered
  <2> QED BY <2>1, <2>2, <2>3, <2>4
<1> QED BY <1>1, <1>3, <1>4, <1>5, AllAsked DEF Accounted

\* cache_new takes over the range the client gave it.
LEMMA Asked_ClientCreates ==
    ASSUME Inv, Accounted, ClientCreates
    PROVE  Accounted'
<1>1. PICK g \in grants : /\ stack' = <<Caller("new", g), New(g.base, g.size)>>
                          /\ grants' = grants \ {g}
    BY DEF ClientCreates
<1>2. stack = <<>> /\ UNCHANGED <<regions, cache>>
    BY DEF ClientCreates, Idle
<1>3. ~Awaited /\ SlabsRemain /\ FramesRemain
    BY <1>2 DEF Awaited, SlabsRemain, FramesRemain
<1> DEFINE f == New(g.base, g.size)
<1>4. f.fn = "cache_new" /\ f.pc = "start" /\ f.p = g.base /\ f.size = g.size
    BY DEF New
<1>5. Caller("new", g).fn = "caller"
    BY DEF Caller
<1>6. InHands(Held', g.base, g.size)
  <2>1. 2 \in DOMAIN stack' /\ stack'[2] = f
      BY <1>1
  <2> QED BY <1>4, <2>1, HeldAfter DEF HoldsRange
<1>7. \A h \in grants : InHands(Held', h.base, h.size)
    BY <1>1, <1>6, HeldAfter
<1>8. \A b, size : InHands(Held, b, size) => InHands(Held', b, size)
    BY <1>3, <1>7, SlabsStayHeld, FramesStayHeld, StaysInHands
<1>9. Fronts'
    BY <1>1, <1>4, <1>5, FrontsEntered
<1>10. Taken' = Taken
    BY <1>2 DEF Taken, RegionsOf
<1> QED BY <1>3, <1>8, <1>9, <1>10, AllAsked DEF Accounted

\* The client holds the range it waited for.
LEMMA Asked_ClientGets ==
    ASSUME Inv, Accounted, ClientGets
    PROVE  Accounted'
<1>1. /\ stack # <<>> /\ top.fn = "caller" /\ top.pc \in {"reserve", "new", "alloc"}
      /\ stack' = <<>> /\ UNCHANGED <<regions, cache, ret>>
    BY DEF ClientGets, At
<1>2. FramesRemain /\ SlabsRemain
    BY <1>1, NoFrames DEF Inv, SlabsRemain
<1>3. grants \subseteq grants'
    BY DEF ClientGets
<1>4. \A b, size : InHands(Held, b, size) => InHands(Held', b, size)
    BY <1>2, <1>3, SlabsStayHeld, FramesStayHeld, HeldAfter, StaysInHands
<1>5. ASSUME NEW r \in Taken, Awaited, r.base = ret
      PROVE  r.base = NULL \/ InHands(Held', r.base, r.size)
  <2>1. CASE top.pc = "reserve" /\ ret # NULL
    <3>1. <<r.base, top.arg.size>> \in Ranges
        BY <1>1, <1>5, <2>1 DEF Inv, Returned, Unheld
    <3>2. r.size = top.arg.size
        BY <3>1, TakenAt DEF Inv, MemoryOK
    <3>3. [base |-> r.base, size |-> r.size] \in grants'
        BY <1>5, <2>1, <3>2 DEF ClientGets, At
    <3> QED BY <3>3, HeldAfter
  <2> QED BY <1>1, <1>5, <2>1 DEF Awaited
<1>6. \A r \in Taken : AskedFor(r)'
    BY <1>4, <1>5, StillAsked DEF Accounted
<1>7. Taken' = Taken /\ Fronts'
    BY <1>1 DEF Taken, RegionsOf, Fronts
<1> QED BY <1>6, <1>7 DEF Accounted

\* What the client releases is nobody's, and no longer reserved.
LEMMA Asked_ClientReleases ==
    ASSUME Inv, Accounted, ClientReleases
    PROVE  Accounted'
<1>1. stack = <<>> /\ UNCHANGED <<cache, stack>>
    BY DEF ClientReleases, Idle
<1>2. PICK g \in grants : /\ grants' = grants \ {g}
                          /\ \A x \in Taken' : x \in Taken /\ x.base # g.base
    BY ReleaseGivesOne
<1>3. ~Awaited /\ SlabsRemain
    BY <1>1 DEF Awaited, SlabsRemain
<1>4. ASSUME NEW r \in Taken', InHands(Held, r.base, r.size)
      PROVE  InHands(Held', r.base, r.size)
  <2>1. PICK h \in Held : h[3] = r.base /\ h[4] = r.size
      BY <1>4 DEF InHands
  <2>2. CASE \E c \in Grown : h = <<"slab", c, cache[c].base, cache[c].size>>
      BY <1>3, <2>1, <2>2, SlabsStayHeld
  <2>3. CASE \E k \in grants : h = <<"grant", 0, k.base, k.size>>
    <3>1. PICK k \in grants : k.base = r.base /\ k.size = r.size
        BY <2>1, <2>3
    <3>2. k \in grants'
        BY <1>2, <3>1
    <3> QED BY <3>1, <3>2, HeldAfter
  <2> QED BY <1>1, <2>2, <2>3 DEF Held
<1>5. \A r \in Taken' : AskedFor(r)'
    BY <1>2, <1>3, <1>4, StillAsked DEF Accounted
<1>6. Fronts'
    BY <1>1 DEF Fronts
<1> QED BY <1>5, <1>6 DEF Accounted

\* A block the client frees is no range.
LEMMA Asked_ClientFrees ==
    ASSUME Inv, Accounted, ClientFrees
    PROVE  Accounted'
<1>1. PICK o \in objects : cache_free(o.cache, o.at) /\ objects' = objects \ {o}
    BY DEF ClientFrees
<1>2. stack = <<>> /\ UNCHANGED <<regions, stack, grants>>
    BY DEF ClientFrees, Idle
<1>3. o.at \in Nat /\ BootRange
    BY <1>2, ClientIdle DEF Inv, ClientOK
<1>4. SlabsKept
    BY <1>1, <1>2, <1>3, BlockGiven DEF Inv, MemoryOK
<1>5. ~Awaited /\ SlabsRemain /\ FramesRemain
    BY <1>2, <1>4, KeptRemain, NoFrames DEF Inv, Awaited
<1>6. \A b, size : InHands(Held, b, size) => InHands(Held', b, size)
    BY <1>2, <1>5, SlabsStayHeld, FramesStayHeld, HeldAfter, StaysInHands
<1>7. Taken' = Taken /\ Fronts'
    BY <1>2 DEF Taken, RegionsOf, Fronts
<1> QED BY <1>5, <1>6, <1>7, AllAsked DEF Accounted

\* Going wrong changes nothing of it.
LEMMA Asked_Breaks ==
    ASSUME Accounted, Breaks
    PROVE  Accounted'
<1>1. UNCHANGED <<regions, cache, stack, ret, grants>>
    BY DEF Breaks, client
<1>2. SlabsRemain /\ FramesRemain
    BY <1>1 DEF SlabsRemain, FramesRemain
<1>3. \A b, size : InHands(Held, b, size) => InHands(Held', b, size)
    BY <1>1, <1>2, SlabsStayHeld, FramesStayHeld, HeldAfter, StaysInHands
<1>4. Taken' = Taken /\ Awaited' = Awaited
    BY <1>1 DEF Taken, RegionsOf, Awaited, top
<1>5. Fronts'
    BY <1>1 DEF Accounted, Fronts, FrontOK, CutsFront, Booting, Last
<1> QED BY <1>1, <1>3, <1>4, <1>5, AllAsked DEF Accounted

\* Every step leaves each reserved range to somebody.
LEMMA AskedStep ==
    ASSUME Inv, Inv', Accounted, [Next]_vars
    PROVE  Accounted'
<1>1. CASE memory_init \/ ClientReserves \/ ClientAllocates \/ ClientCreates
    BY <1>1, Asked_Calls, Asked_ClientCreates
<1>2. CASE ClientGets \/ ClientReleases \/ ClientFrees
    BY <1>2, Asked_ClientGets, Asked_ClientReleases, Asked_ClientFrees
<1>3. CASE AllocBlock \/ ReserveScan
    BY <1>3, Asked_AllocBlock, Asked_ReserveScan
<1>4. CASE NullSlab \/ StackOverflow \/ UNCHANGED vars
  <2>1. Breaks
      BY <1>4 DEF NullSlab, StackOverflow, vars, Breaks, Inv, Plain
  <2> QED BY <2>1, Asked_Breaks
<1>5. CASE cache_extend \/ cache_new \/ memory_split
  <2>1. CallStep \/ ExtendReturns \/ NewReturns \/ SplitReturns
      BY <1>5 DEF cache_extend, cache_new, memory_split, CallStep, Extends,
                  ExtendReturns, Creates, NewReturns, SplitStarts, SplitReturns
  <2> QED BY <2>1, Asked_CallStep, Asked_Adds, Asked_SplitReturns
<1>6. CASE \/ AllocExtendMetadata \/ AllocMetadataReserved \/ AllocReserve \/ AllocReserved
           \/ ReserveExtendMap \/ ReserveMapReserved \/ ReserveAgain
  <2>1. CallStep
      BY <1>6 DEF CallStep
  <2> QED BY <2>1, Asked_CallStep
<1> QED BY <1>1, <1>2, <1>3, <1>4, <1>5, <1>6 DEF Next, Kernel

\* What is reserved before memory_init reserves anything, the boot loader reported.
LEMMA AskedAtFirst ==
    ASSUME Init
    PROVE  Accounted
<1>1. PICK a, b : Made(a, b, Len(Zones))
    BY InitMakes
<1>2. /\ Sorted
      /\ \A i \in DOMAIN Zones : /\ regions[i].base = Zones[i].base
                                 /\ regions[i].size = Zones[i].size
                                 /\ regions[i].type = Zones[i].type
    BY <1>1, MadeRegions
<1>3. DOMAIN regions = DOMAIN Zones
    BY DEF Init
<1>4. ASSUME NEW r \in Taken
      PROVE  AskedFor(r)
  <2>1. PICK i \in DOMAIN regions : regions[i].type = Reserved /\ r = Ranged(regions[i])
      BY TakenFrom DEF TakenAre
  <2>2. Reported(r)
      BY <1>2, <1>3, <2>1 DEF Reported, Ranged
  <2> QED BY <2>2 DEF AskedFor
<1>5. Booting
    BY DEF Init, Booting, Last, Caller
<1> QED BY <1>4, <1>5 DEF Accounted, Fronts

\* What NothingLeaks says of the states between calls.
LEMMA LeaksNothing ==
    ASSUME Inv, Accounted
    PROVE  NothingLeaks
<1> SUFFICES ASSUME Idle, NEW q \in RegionsOf(Reserved)
             PROVE  \/ q.base \in {Zones[1].base, KernelBase, metadata_cache}
                    \/ \E s \in Slabs \cup grants : s.base = q.base /\ s.size = q.size
                    \/ \E z \in DOMAIN Zones : /\ Zones[z].type = Reserved
                                               /\ Zones[z].base = q.base /\ Zones[z].size = q.size
                    \/ End(q) \in Bases
    BY DEF NothingLeaks
<1> DEFINE r == Ranged(q)
<1>1. r.base = q.base /\ r.size = q.size /\ r \in Taken
    BY DEF Taken, Ranged
<1> HIDE DEF r
<1>2. stack = <<>>
    BY DEF Idle
<1>3. \/ Reported(r) \/ InHands(Held, r.base, r.size)
      \/ r.base \in {NULL, KernelBase, metadata_cache} \/ End(r) \in Bases
    BY <1>1, <1>2 DEF Accounted, AskedFor, Awaited
<1>4. CASE Reported(r)
    BY <1>1, <1>4 DEF Reported
<1>5. CASE InHands(Held, r.base, r.size)
  <2>1. PICK h \in Held : h[3] = r.base /\ h[4] = r.size
      BY <1>5 DEF InHands
  <2>2. CASE \E c \in Grown : h = <<"slab", c, cache[c].base, cache[c].size>>
    <3>1. PICK c \in Grown : h = <<"slab", c, cache[c].base, cache[c].size>>
        BY <2>2
    <3>2. [base |-> cache[c].base, size |-> cache[c].size] \in Slabs
        BY DEF Slabs, Grown
    <3> QED BY <1>1, <2>1, <3>1, <3>2
  <2>3. CASE \E g \in grants : h = <<"grant", 0, g.base, g.size>>
      BY <1>1, <2>1, <2>3
  <2> QED BY <1>2, <2>2, <2>3 DEF Held
<1>6. CASE r.base \in {NULL, KernelBase, metadata_cache}
  <2>1. Zones[1].base = NULL
      BY BootAssumption
  <2> QED BY <1>1, <1>6, <2>1
<1>7. CASE End(r) \in Bases
    BY <1>1, <1>7 DEF End
<1> QED BY <1>3, <1>4, <1>5, <1>6, <1>7

\* Between calls what is reserved was asked for: the calls that make slabs, and
\* those that fail half way, keep no range to themselves but the part in front of
\* a reservation at an address.
THEOREM NoneLeaks == Spec => []NothingLeaks
<1>1. Inv /\ Inv' /\ Accounted /\ [Next]_vars => Accounted'
    BY AskedStep
<1> QED BY <1>1, AskedAtFirst, Always, LeaksNothing, PTL DEF Spec

=============================================================================
