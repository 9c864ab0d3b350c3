------------------------------- MODULE Malloc -------------------------------
(***************************************************************************)
(* The allocator of the ROMs, src/libs/libk/malloc.c as malloc-k.h builds  *)
(* it: one segment that sbrk extends, no mmap, no locks.  Lengths are in    *)
(* units of 8 bytes, MALLOC_ALIGNMENT, so that a chunk has at least 2.      *)
(*                                                                         *)
(* `heap' is malloc_state with the headers of the chunks: small[s] is a     *)
(* small bin from its front to its back, tree[i] a tree bin, a function     *)
(* from the path of a node, its turns left (0) and right (1), to the chain  *)
(* of the chunks of its size, in the order they are taken.  A bin's bit in  *)
(* the two maps is set when the bin holds something.                        *)
(***************************************************************************)
EXTENDS Integers, Sequences, FiniteSets, TLC
LOCAL INSTANCE FiniteSetsExt
LOCAL INSTANCE SequencesExt

CONSTANTS
    TreeShift,      \* small chunks have less than 2^TreeShift units
    NTreeBins,      \* tree bins, the last one for all sizes beyond
    WordBits,       \* bits of a length in units (29 in the program)
    Page,           \* granularity and page size
    Base, Limit,    \* where the break starts, and the kernel's bound on it
    TrimThreshold,
    Requests,       \* lengths in bytes that the program asks for
    Arrays,         \* pairs of number and length of elements given to calloc
    Alignments,     \* in units, that the program asks for
    Bundles,        \* lengths asked for together, sequences of bytes
    Pads,           \* units that the program wants kept when it trims
    MaxLive         \* bound: blocks the program holds at a time

VARIABLES
    heap,
    granted,        \* the program's blocks: chunk |-> bytes and alignment asked for
    refused         \* history: the length the last call asked for in vain, or 0

vars == <<heap, granted, refused>>

Null == -1
MinChunk == 2
MinLarge == 2^TreeShift
TopFoot == 5        \* a segment record and a last header
Padding == TopFoot + 1
WordSize == 8 * 2^WordBits
MaxRequest == WordSize - 64

Is_small(s) == s < MinLarge
AlignUp(s) == ((s + Page - 1) \div Page) * Page
\* The length in units for a request in bytes, with its word of overhead.
request2size(bytes) == IF bytes < 11 THEN MinChunk ELSE (bytes + 4 + 7) \div 8

(***************************************************************************)
(* Headers.  A length covers what headers there were inside it; what was   *)
(* the foot of a chunk is the program's when the chunk is.                 *)
(***************************************************************************)
Header(h, p) == IF p \in DOMAIN h.chunk THEN h.chunk[p]
                ELSE [foot |-> 0, size |-> 0, c |-> FALSE, p |-> FALSE]
Put(h, p, rec) ==
    [h EXCEPT !.chunk = [a \in (DOMAIN @ \ ((p + 1)..(p + rec.size - 1))) \cup {p} |->
                            IF a = p THEN rec ELSE @[a]]]
Head_(h, p, s, c, pin) ==
    Put(h, p, [foot |-> Header(h, p).foot, size |-> s, c |-> c, p |-> pin])

SetFree(h, p, s) ==
    LET g == Head_(h, p, s, FALSE, TRUE)
    IN  Put(g, p + s, [Header(g, p + s) EXCEPT !.foot = s])
SetFreeWithPinuse(h, p, s, n) == SetFree([h EXCEPT !.chunk[n].p = FALSE], p, s)
SetSizeOfInuse(h, p, s) == Head_(h, p, s, TRUE, TRUE)
SetInuse(h, p, s) ==
    LET g == Head_(h, p, s, TRUE, Header(h, p).p)
    IN  Put(g, p + s, [Header(g, p + s) EXCEPT !.p = TRUE, !.foot = 0])
SetInuseAndPinuse(h, p, s) == SetInuse(Head_(h, p, s, TRUE, TRUE), p, s)

init_top(h, p, s) ==
    Head_([h EXCEPT !.top = p, !.topsize = s, !.trim = TrimThreshold],
          p, s, FALSE, TRUE)

(***************************************************************************)
(* Bins.                                                                   *)
(***************************************************************************)
compute_tree_index(s) ==
    LET x == s \div MinLarge
        k == CHOOSE j \in 0..WordBits : 2^j <= x /\ x < 2^(j + 1)
    IN  IF x = 0 THEN 0
        ELSE IF x >= 2^(NTreeBins \div 2) THEN NTreeBins - 1
        ELSE 2 * k + ((s \div 2^(k + TreeShift - 1)) % 2)

\* The bits of a length that a bin does not fix, the highest first.
Bits(s, i) ==
    LET high == IF i = NTreeBins - 1 THEN WordBits - 1 ELSE (i \div 2) + TreeShift - 2
    IN  [d \in 1..(high + 1) |-> (s \div 2^(high + 1 - d)) % 2]

Prefixes_(b) == {SubSeq(b, 1, n) : n \in 0..Len(b)}
NodeSize(h, t, q) == h.chunk[t[q][1]].size

insert_large_chunk(h, p, s) ==
    LET i == compute_tree_index(s)
        t == h.tree[i]
        stops == {q \in Prefixes_(Bits(s, i)) : q \notin DOMAIN t \/ NodeSize(h, t, q) = s}
        q == CHOOSE r \in stops : \A o \in stops : Len(r) <= Len(o)
    IN  [h EXCEPT !.tree[i] = IF q \in DOMAIN t THEN [t EXCEPT ![q] = Append(@, p)]
                              ELSE (q :> <<p>>) @@ t]

\* The leaf reached from a node by turning right wherever there is a right.
RightmostLeaf(t, q) ==
    CHOOSE r \in DOMAIN t :
        /\ IsPrefix(q, r)
        /\ \A n \in (Len(q) + 1)..Len(r) :
              r[n] = 0 => SubSeq(r, 1, n - 1) \o <<1>> \notin DOMAIN t
        /\ \A b \in {0, 1} : Append(r, b) \notin DOMAIN t

\* The node q of a tree without the chunk p; a node left without chunks is
\* replaced by a leaf below it.
UnlinkAt(t, q, p) ==
    LET rest == SelectSeq(t[q], LAMBDA x : x # p)
    IN  IF rest # <<>> THEN [t EXCEPT ![q] = rest]
        ELSE [r \in DOMAIN t \ {RightmostLeaf(t, q)} |->
                 IF r = q THEN t[RightmostLeaf(t, q)] ELSE t[r]]
unlink_large_chunk(h, p) ==
    [h EXCEPT !.tree[compute_tree_index(h.chunk[p].size)] =
        UnlinkAt(@, CHOOSE r \in DOMAIN @ : p \in ToSet(@[r]), p)]

insert_chunk(h, p, s) ==
    IF Is_small(s) THEN [h EXCEPT !.small[s] = <<p>> \o @]
    ELSE insert_large_chunk(h, p, s)
unlink_chunk(h, p) ==
    IF Is_small(h.chunk[p].size)
    THEN [h EXCEPT !.small[h.chunk[p].size] = SelectSeq(@, LAMBDA x : x # p)]
    ELSE unlink_large_chunk(h, p)

BugReplaceDv(h, p, s) == [h EXCEPT !.dv = p, !.dvsize = s]
replace_dv(h, p, s) ==
    [(IF h.dvsize # 0 THEN insert_chunk(h, h.dv, h.dvsize) ELSE h)
        EXCEPT !.dv = p, !.dvsize = s]

(***************************************************************************)
(* Returning a chunk: with the free chunk before it and the one after it.  *)
(***************************************************************************)
MergeForward(h, p, all, isDv) ==
    IF isDv THEN [SetFree(h, p, all) EXCEPT !.dvsize = all]
    ELSE insert_chunk(SetFree(h, p, all), p, all)

\* p ends before next; what was before p has left its bin, unless it is dv.
DisposeBefore(h, p, next) ==
    LET s == next - p
        all == s + h.chunk[next].size
    IN  IF h.chunk[next].c
        THEN IF p = h.dv
             THEN [SetFreeWithPinuse(h, p, s, next) EXCEPT !.dvsize = s]
             ELSE insert_chunk(SetFreeWithPinuse(h, p, s, next), p, s)
        ELSE IF next = h.top
        THEN [Head_(h, p, all, FALSE, TRUE)
                EXCEPT !.top = p, !.topsize = all,
                       !.dv = IF p = @ THEN Null ELSE @,
                       !.dvsize = IF p = h.dv THEN 0 ELSE @]
        ELSE IF next = h.dv
        THEN [SetFree(h, p, all) EXCEPT !.dv = p, !.dvsize = all]
        ELSE MergeForward(unlink_chunk(h, next), p, all, p = h.dv)

dispose_chunk(h, p, s) ==
    LET before == p - h.chunk[p].foot
    IN  IF h.chunk[p].p THEN DisposeBefore(h, p, p + s)
        ELSE DisposeBefore(IF before = h.dv THEN h ELSE unlink_chunk(h, before),
                           before, p + s)

\* Gives whole pages at the end of top back to the kernel; when there are none,
\* it is not to be tried again.
sys_trim(h, pad) ==
    LET extra == ((h.topsize - pad - TopFoot + Page - 1) \div Page - 1) * Page
    IN  IF h.topsize > pad + TopFoot /\ extra > 0
        THEN [init_top(h, h.top, h.topsize - extra) EXCEPT !.end = @ - extra]
        ELSE [h EXCEPT !.trim = IF h.topsize > @ THEN Limit ELSE @]

(***************************************************************************)
(* Finding a chunk.                                                        *)
(***************************************************************************)
\* The nodes met when going down from a node, left wherever there is a left.
LeftmostPath(t, q) ==
    {r \in DOMAIN t :
        /\ IsPrefix(q, r)
        /\ \A n \in (Len(q) + 1)..Len(r) :
              r[n] = 1 => SubSeq(r, 1, n - 1) \o <<0>> \notin DOMAIN t}

Occupied(h) == {i \in DOMAIN h.tree : DOMAIN h.tree[i] # {}}

Smallest(h, t, nodes) ==
    t[CHOOSE q \in nodes : \A r \in nodes : NodeSize(h, t, q) <= NodeSize(h, t, r)][1]

\* tmalloc_large: down the path of nb in its own bin, then from the deepest
\* right turn not taken; if that bin has nothing, the next bin's smallest.
FoundInBin(h, nb) ==
    LET i == compute_tree_index(nb)
        t == h.tree[i]
        path == Prefixes_(Bits(nb, i)) \cap DOMAIN t
        untaken == {Append(q, 1) : q \in {r \in path :
                        Len(r) < Len(Bits(nb, i)) /\ Bits(nb, i)[Len(r) + 1] = 0}}
                        \cap DOMAIN t
        deepest == {q \in untaken : \A r \in untaken : Len(r) <= Len(q)}
        met == path \cup UNION {LeftmostPath(t, q) : q \in deepest}
    IN  {q \in met : NodeSize(h, t, q) >= nb}
BestLarge(h, nb) ==
    LET i == compute_tree_index(nb)
        above == {j \in Occupied(h) : j > i}
        next == Min(above)
    IN  IF FoundInBin(h, nb) # {} THEN {Smallest(h, h.tree[i], FoundInBin(h, nb))}
        ELSE IF above # {} THEN {Smallest(h, h.tree[next], LeftmostPath(h.tree[next], <<>>))}
        ELSE {}

Smallbits(h, nb, n) == {i \in nb..n : i < MinLarge /\ h.small[i] # <<>>}

(***************************************************************************)
(* Taking a chunk.  Each gives the heap after it and the chunk.            *)
(***************************************************************************)
Got(h, p) == [heap |-> h, chunk |-> p]

\* Cut nb off a chunk no longer in a bin; the rest, if it can be a chunk, is
\* kept in its bin, as a new dv, or as what is left of dv.
Carve(h, p, s, nb, keep) ==
    LET r == p + nb
        g == SetFree(SetSizeOfInuse(h, p, nb), r, s - nb)
    IN  Got(IF s - nb < MinChunk THEN SetInuseAndPinuse(h, p, s)
            ELSE IF keep = "bin" THEN insert_chunk(g, r, s - nb)
            ELSE IF keep = "new dv" THEN replace_dv(g, r, s - nb)
            ELSE [g EXCEPT !.dv = r, !.dvsize = s - nb],
            p)

SplitTop(h, nb) ==
    LET r == h.top + nb
        g == [h EXCEPT !.top = r, !.topsize = @ - nb]
    IN  Got(Head_(SetSizeOfInuse(g, h.top, nb), r, h.topsize - nb, FALSE, TRUE), h.top)

UseDv(h, nb) ==
    Carve([h EXCEPT !.dv = Null, !.dvsize = 0], h.dv, h.dvsize, nb, "rest of dv")

\* sbrk, a system call: the kernel moves the break within a bound.
CanGrow(h, s) == s < 2^(WordBits - 1) /\ h.end + s <= Limit

\* First what top lacks, which ends on a page; once that has failed, for ever
\* the whole request.
sys_alloc(h, nb) ==
    LET first == h.top = Null
        asize == AlignUp(nb + Padding)
        ssize == IF first THEN asize + AlignUp(h.end) - h.end
                 ELSE AlignUp(nb - h.topsize + Padding)
        contiguous == h.contiguous /\ CanGrow(h, ssize)
        size == IF contiguous THEN ssize ELSE asize
        g == [h EXCEPT !.contiguous = contiguous]
    IN  IF asize >= 2^WordBits THEN Got(h, Null)
        ELSE IF ~CanGrow(h, size) THEN Got(g, Null)
        ELSE SplitTop(IF first
                      THEN init_top([g EXCEPT !.end = @ + size], h.end, size - TopFoot)
                      ELSE init_top([g EXCEPT !.end = @ + size], h.top, h.topsize + size),
                      nb)

OutOf(h, p, nb, keep) == Carve(unlink_chunk(h, p), p, h.chunk[p].size, nb, keep)

FromDvTopOrSystem(h, nb) ==
    IF nb <= h.dvsize THEN UseDv(h, nb)
    ELSE IF nb < h.topsize THEN SplitTop(h, nb)
    ELSE sys_alloc(h, nb)

SmallMalloc(h, nb) ==
    LET fits == Smallbits(h, nb, MinLarge)
        first == Head(h.small[Min(fits)])
        lowest == h.tree[Min(Occupied(h))]
    IN  IF fits \cap {nb, nb + 1} # {} \/ (fits # {} /\ nb > h.dvsize)
        THEN OutOf(h, first, nb, "new dv")
        ELSE IF nb > h.dvsize /\ Occupied(h) # {}
        THEN OutOf(h, Smallest(h, lowest, LeftmostPath(lowest, <<>>)), nb, "new dv")
        ELSE FromDvTopOrSystem(h, nb)

\* dvsize - nb is unsigned: a dv that is too small is no better fit.
BugBetter(h, nb) == {v \in BestLarge(h, nb) : h.chunk[v].size < h.dvsize}
Better(h, nb) == {v \in BestLarge(h, nb) : nb > h.dvsize \/ h.chunk[v].size < h.dvsize}

LargeMalloc(h, nb) ==
    IF Better(h, nb) = {} THEN FromDvTopOrSystem(h, nb)
    ELSE OutOf(h, CHOOSE v \in Better(h, nb) : TRUE, nb, "bin")

dlmalloc(h, bytes) ==
    LET nb == request2size(bytes)
    IN  IF bytes >= MaxRequest THEN Got(h, Null)
        ELSE IF Is_small(nb) THEN SmallMalloc(h, nb)
        ELSE LargeMalloc(h, nb)

\* After a free: give pages back if top is now too large.
Trimmed(h) == IF h.topsize > h.trim THEN sys_trim(h, 0) ELSE h
Freed(h, topsize) == IF h.topsize > topsize THEN Trimmed(h) ELSE h
dlfree(h, p) == Freed(dispose_chunk(h, p, h.chunk[p].size), h.topsize)

(***************************************************************************)
(* realloc in place.                                                       *)
(***************************************************************************)
\* The end of a block in use is made a block and disposed of.
CutOff(h, p, s, nb) ==
    IF s - nb < MinChunk THEN (IF s = h.chunk[p].size THEN h ELSE SetInuse(h, p, s))
    ELSE dispose_chunk(SetInuse(SetInuse(h, p, nb), p + nb, s - nb), p + nb, s - nb)

IntoTop(h, p, nb) ==
    LET s == h.chunk[p].size + h.topsize - nb
    IN  [Head_(SetInuse(h, p, nb), p + nb, s, FALSE, TRUE)
            EXCEPT !.top = p + nb, !.topsize = s]

IntoDv(h, p, nb) ==
    LET s == h.chunk[p].size + h.dvsize - nb
        r == p + nb
    IN  IF s < MinChunk
        THEN [SetInuse(h, p, nb + s) EXCEPT !.dv = Null, !.dvsize = 0]
        ELSE [SetFreeWithPinuse(SetInuse(h, p, nb), r, s, r + s)
                EXCEPT !.dv = r, !.dvsize = s]

try_realloc_chunk(h, p, nb) ==
    LET s == h.chunk[p].size
        next == p + s
        room == s + h.chunk[next].size
    IN  IF s >= nb THEN Got(CutOff(h, p, s, nb), p)
        ELSE IF next = h.top THEN (IF room > nb THEN Got(IntoTop(h, p, nb), p)
                                   ELSE Got(h, Null))
        ELSE IF h.chunk[next].c \/ room < nb THEN Got(h, Null)
        ELSE IF next = h.dv THEN Got(IntoDv(h, p, nb), p)
        ELSE Got(CutOff(unlink_chunk(h, next), p, room, nb), p)

(***************************************************************************)
(* Blocks at an alignment, several blocks at a time.                       *)
(***************************************************************************)
PowerOfTwo(a) == Min({w \in {2^k : k \in 1..WordBits} : a <= w})
\* Where the block of a chunk starts: one unit on, behind foot and head.
Aligned(p, a) == (p + 1) % a = 0

\* The first aligned place that leaves room for a chunk before it.
Leader(p, a) == Min({q \in (p + MinChunk)..(p + MinChunk + a) : Aligned(q, a)})

\* A chunk in use is cut at a unit inside it; the part before goes back.
GiveLeader(h, p, q) ==
    dispose_chunk(SetInuse(SetInuse(h, q, p + h.chunk[p].size - q), p, q - p), p, q - p)
GiveRest(h, p, nb) ==
    LET s == h.chunk[p].size
    IN  IF s > nb + MinChunk
        THEN dispose_chunk(SetInuse(SetInuse(h, p, nb), p + nb, s - nb), p + nb, s - nb)
        ELSE h

\* What is asked of malloc to find room for an aligned block, in bytes.
AlignedRequest(a, bytes) == 8 * (request2size(bytes) + a + MinChunk) - 4

AlignIn(h, p, a, nb) ==
    IF p = Null THEN Got(h, Null)
    ELSE IF Aligned(p, a) THEN Got(GiveRest(h, p, nb), p)
    ELSE Got(GiveRest(GiveLeader(h, p, Leader(p, a)), Leader(p, a), nb), Leader(p, a))

internal_memalign(h, a, bytes) ==
    LET got == dlmalloc(h, AlignedRequest(a, bytes))
    IN  IF bytes >= MaxRequest - 8 * a THEN Got(h, Null)
        ELSE AlignIn(got.heap, got.chunk, a, request2size(bytes))

\* ialloc: one chunk cut into blocks in use, the last of which takes what is
\* left; it is the array of pointers, unless the caller has one.
BundleLengths(sizes, own) ==
    [i \in DOMAIN sizes |-> request2size(sizes[i])]
    \o (IF own THEN <<>> ELSE <<request2size(4 * Len(sizes))>>)
BundleRequest(sizes, own) == 8 * FoldLeft(+, 0, BundleLengths(sizes, own)) - 4
BundleStart(p, lengths, i) == p + FoldLeft(+, 0, SubSeq(lengths, 1, i - 1))

CutBundle(h, p, lengths) ==
    LET end == p + h.chunk[p].size
        start(i) == BundleStart(p, lengths, i)
        length(i) == IF i = Len(lengths) THEN end - start(i) ELSE lengths[i]
    IN  FoldLeft(LAMBDA g, i : Head_(g, start(i), length(i), TRUE, TRUE),
                 h, [i \in DOMAIN lengths |-> i])

\* Neighbours that follow one another in the array go back as one.
BulkStep(array, acc, i) ==
    LET p == IF acc.merged = Null THEN array[i] ELSE acc.merged
        s == acc.heap.chunk[p].size
    IN  IF i < Len(array) /\ array[i + 1] = p + s
        THEN [heap |-> SetInuse(acc.heap, p, s + acc.heap.chunk[p + s].size), merged |-> p]
        ELSE [heap |-> dispose_chunk(acc.heap, p, s), merged |-> Null]
internal_bulk_free(h, array) ==
    Trimmed(FoldLeft(LAMBDA acc, i : BulkStep(array, acc, i),
                     [heap |-> h, merged |-> Null], [i \in DOMAIN array |-> i]).heap)

-----------------------------------------------------------------------------
(* The program.                                                            *)

Init ==
    /\ heap = [chunk |-> <<>>, small |-> [s \in MinChunk..(MinLarge - 1) |-> <<>>],
               tree |-> [i \in 0..(NTreeBins - 1) |-> <<>>],
               dv |-> Null, dvsize |-> 0, top |-> Null, topsize |-> 0,
               end |-> Base, trim |-> 0, contiguous |-> TRUE]
    /\ granted = <<>>
    /\ refused = 0

Block(bytes, a) == [bytes |-> bytes, align |-> a]
Without(blocks) == [p \in DOMAIN granted \ blocks |-> granted[p]]
RoomFor(k) == Cardinality(DOMAIN granted) + k <= MaxLive

Returns(got, asked, without) ==
    /\ heap' = got.heap
    /\ refused' = IF got.chunk = Null THEN asked ELSE 0
    /\ granted' = IF got.chunk = Null THEN granted
                  ELSE (got.chunk :> Block(asked, 1)) @@ Without(without)

malloc(bytes) == RoomFor(1) /\ Returns(dlmalloc(heap, bytes), bytes, {})

\* The product of lengths below the root of the word is not tested.
BugArrayLength(n, size) == (n * size) % WordSize
ArrayLength(n, size) ==
    LET req == (n * size) % WordSize
    IN  IF n # 0 /\ (n * n >= WordSize \/ size * size >= WordSize)
        THEN IF req \div n # size THEN WordSize - 1 ELSE req
        ELSE req

calloc(n, size) ==
    RoomFor(1) /\ Returns(dlmalloc(heap, ArrayLength(n, size)), n * size, {})

free(p) ==
    /\ heap' = dlfree(heap, p)
    /\ granted' = Without({p})
    /\ refused' = 0

realloc(p, bytes) ==
    \E in_place \in {try_realloc_chunk(heap, p, request2size(bytes))} :
       IF bytes >= MaxRequest THEN Returns(Got(heap, Null), bytes, {})
       ELSE IF in_place.chunk # Null THEN Returns(in_place, bytes, {p})
       ELSE \E moved \in {dlmalloc(heap, bytes)} :
              Returns([moved EXCEPT !.heap = IF moved.chunk = Null THEN @ ELSE dlfree(@, p)],
                      bytes, {p})

\* A failure changes nothing: what it could not have is not looked for elsewhere.
realloc_in_place(p, bytes) ==
    \E got \in {try_realloc_chunk(heap, p, request2size(bytes))} :
       bytes < MaxRequest /\ got.chunk # Null /\ Returns(got, bytes, {p})

\* For an alignment that every chunk has, memalign is malloc.
memalign(a, bytes) ==
    /\ RoomFor(1) /\ a > 1
    /\ \E got \in {internal_memalign(heap, PowerOfTwo(a), bytes)} :
          /\ heap' = got.heap
          /\ refused' = IF got.chunk = Null
                        THEN AlignedRequest(PowerOfTwo(a), bytes) ELSE 0
          /\ granted' = IF got.chunk = Null THEN granted
                        ELSE (got.chunk :> Block(bytes, PowerOfTwo(a))) @@ granted

\* independent_calloc and independent_comalloc.  The sum of the lengths is not
\* tested for overflow: Bundles are of lengths whose sum is a length.
independent(sizes, own) ==
    LET lengths == BundleLengths(sizes, own)
        bytes(i) == IF i \in DOMAIN sizes THEN sizes[i] ELSE 4 * Len(sizes)
        blocks(p) == [q \in {BundleStart(p, lengths, i) : i \in DOMAIN lengths} |->
                         Block(bytes(CHOOSE i \in DOMAIN lengths :
                                         q = BundleStart(p, lengths, i)), 1)]
    IN  /\ sizes # <<>> /\ RoomFor(Len(lengths))
        /\ \E got \in {dlmalloc(heap, BundleRequest(sizes, own))} :
              IF got.chunk = Null
              THEN /\ heap' = got.heap /\ refused' = BundleRequest(sizes, own)
                   /\ UNCHANGED granted
              ELSE /\ heap' = CutBundle(got.heap, got.chunk, lengths) /\ refused' = 0
                   /\ granted' = blocks(got.chunk) @@ granted

bulk_free(array) ==
    /\ heap' = internal_bulk_free(heap, array)
    /\ granted' = Without(ToSet(array))
    /\ refused' = 0

malloc_trim(pad) ==
    /\ heap' = sys_trim(heap, pad)
    /\ refused' = 0
    /\ UNCHANGED granted

Next ==
    \/ \E bytes \in Requests : malloc(bytes)
    \/ \E a \in Alignments, bytes \in Requests : memalign(a, bytes)
    \/ \E sizes \in Bundles, own \in BOOLEAN : independent(sizes, own)
    \/ \E blocks \in SUBSET DOMAIN granted :
          \E array \in SetToSeqs(blocks) : array # <<>> /\ bulk_free(array)
    \/ \E p \in DOMAIN granted, bytes \in Requests : realloc_in_place(p, bytes)
    \/ \E pad \in Pads : malloc_trim(pad)
    \/ \E a \in Arrays : calloc(a[1], a[2])
    \/ \E p \in DOMAIN granted : free(p)
    \/ \E p \in DOMAIN granted, bytes \in Requests : realloc(p, bytes)

Spec == Init /\ [][Next]_vars

-----------------------------------------------------------------------------
Chunks == DOMAIN heap.chunk \ {heap.top}
Following(p) == p + heap.chunk[p].size
Unused == {p \in Chunks : ~heap.chunk[p].c}
Nodes == UNION {{i} \X DOMAIN heap.tree[i] : i \in DOMAIN heap.tree}

\* The chunks cover the segment, each where the one before it ends.
Tiled ==
    heap.top # Null =>
        /\ DOMAIN heap.chunk = {Base} \cup {Following(p) : p \in Chunks}
        /\ heap.chunk[heap.top].size = heap.topsize
        /\ Following(heap.top) = heap.end - TopFoot
        /\ heap.chunk[heap.top].p

\* What a chunk says of the one before it is true, and no free chunk is next
\* to another or to top.
TagsTrue ==
    \A p \in Chunks :
        LET next == heap.chunk[Following(p)]
        IN  /\ heap.chunk[p].size >= MinChunk
            /\ next.p = heap.chunk[p].c
            /\ p \in Unused => /\ heap.chunk[p].p /\ next.c
                             /\ next.foot = heap.chunk[p].size

\* Every free chunk is in the one bin, or at the node, of its size, or it is dv.
Binned ==
    LET lists == [s \in DOMAIN heap.small |-> heap.small[s]]
        chain(n) == heap.tree[n[1]][n[2]]
        held == ({heap.dv} \ {Null})
                \cup UNION {ToSet(lists[s]) : s \in DOMAIN lists}
                \cup UNION {ToSet(chain(n)) : n \in Nodes}
    IN  /\ held = Unused
        /\ heap.dv # Null => heap.dvsize = heap.chunk[heap.dv].size
        /\ heap.dv = Null => heap.dvsize = 0
        /\ \A s \in DOMAIN lists : \A p \in ToSet(lists[s]) :
              heap.chunk[p].size = s /\ p # heap.dv
        /\ \A n \in Nodes : \A p \in ToSet(chain(n)) :
              LET s == heap.chunk[p].size
              IN  /\ p # heap.dv /\ ~Is_small(s) /\ compute_tree_index(s) = n[1]
                  /\ IsPrefix(n[2], Bits(s, n[1]))
                  /\ s = heap.chunk[Head(chain(n))].size
        /\ \A n, o \in Nodes :
              n # o => heap.chunk[Head(chain(n))].size # heap.chunk[Head(chain(o))].size

\* What the program holds are the chunks in use, each as large as it asked and
\* at the alignment it asked for.
Kept ==
    /\ DOMAIN granted = Chunks \ Unused
    /\ \A p \in DOMAIN granted :
          /\ 8 * heap.chunk[p].size - 4 >= granted[p].bytes
          /\ Aligned(p, granted[p].align)

HeapSound == Tiled /\ TagsTrue /\ Binned /\ Kept

\* A request fails only if no free chunk, not even top, is large enough, and
\* the kernel has not the pages for the whole of it.
NoFitMissed ==
    [][refused' \in 1..(MaxRequest - 1) =>
         LET nb == request2size(refused')
         IN  /\ \A p \in Unused : heap.chunk[p].size < nb
             /\ heap.topsize <= nb
             /\ ~CanGrow(heap, AlignUp(nb + Padding))]_vars
=============================================================================
