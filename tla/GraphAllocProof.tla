--------------------------- MODULE GraphAllocProof ---------------------------
(***************************************************************************)
(* Proofs about GraphAlloc.  Disjoint: while a graph is planned, no byte   *)
(* is handed out twice, for any graph, sizes, number of chunks and chunk   *)
(* size.  The operators of the allocator are taken one by one, from the    *)
(* free list to the loops of alloc_graph_impl(), each with a lemma that    *)
(* says what it keeps apart.  WithinBuffer: every tensor that is computed  *)
(* lies within the buffer of its chunk, also when the buffers are older    *)
(* than the plan or the plan is older than the graph.  max_size of a chunk *)
(* bounds what was ever handed out of it, the buffers are at least as      *)
(* large when a plan is made, and a plan that is kept has room for every   *)
(* tensor of the new graph.  SourcesIntact: whenever a node is computed    *)
(* its sources are where they were put, which needs the counters of the    *)
(* planner to be never below the uses to come, the plan to outlive the     *)
(* planner, and the memory to follow the plan.  NothingLeaks: free blocks  *)
(* and tensors tile every chunk from its begin to its end, and the last    *)
(* chunk there may be never runs out of room.                              *)
(***************************************************************************)
EXTENDS GraphAlloc, FiniteSetTheorems, TLAPS

-----------------------------------------------------------------------------
(* What the plan is made of.  h stands for hash, cs for chunks, T for the  *)
(* tensors of the graph and sz for their sizes.                            *)

Positive == Nat \ {0}
Address == [chunk : Nat, off : Nat]
FreeBlock == [off : Nat, size : Positive]
Chunk == [free : SUBSET FreeBlock, max_size : Nat, cap : Nat]

\* The counters of an entry are of no importance here.
IsEntry(x) ==
    /\ x = [children |-> x.children, views |-> x.views,
            allocated |-> x.allocated, addr |-> x.addr]
    /\ x.allocated \in BOOLEAN
    /\ x.addr \in Address

Typed(T, h, cs) ==
    /\ h = [t \in T |-> h[t]]
    /\ \A t \in T : IsEntry(h[t])
    /\ cs \in Seq(Chunk)
    /\ \A t \in T : h[t].allocated => h[t].addr.chunk \in DOMAIN cs

Held(T, h, c) == {t \in T : h[t].allocated /\ h[t].addr.chunk = c}
Span(h, sz, t) == Block(h[t].addr.off, sz[t])

FreeApart(cs) ==
    \A c \in DOMAIN cs : \A a, b \in cs[c].free : a # b => Apart(a, b)
HeldApart(T, sz, h, cs) ==
    \A c \in DOMAIN cs : \A t \in Held(T, h, c), b \in cs[c].free : Apart(Span(h, sz, t), b)
SpansApart(T, sz, h, cs) ==
    \A c \in DOMAIN cs : \A t, u \in Held(T, h, c) :
        t # u => Apart(Span(h, sz, t), Span(h, sz, u))

Good(T, sz, h, cs) ==
    /\ Typed(T, h, cs)
    /\ FreeApart(cs)
    /\ HeldApart(T, sz, h, cs)
    /\ SpansApart(T, sz, h, cs)

\* A region of chunk c that is neither free nor held.
Loose(T, sz, h, cs, c, x) ==
    /\ \A b \in cs[c].free : Apart(x, b)
    /\ \A t \in Held(T, h, c) : Apart(x, Span(h, sz, t))

\* An entry with another flag.
LEMMA EntryFlag ==
    ASSUME NEW x, IsEntry(x), NEW a \in BOOLEAN
    PROVE  LET y == [x EXCEPT !.allocated = a]
           IN  IsEntry(y) /\ y.allocated = a /\ y.addr = x.addr
  <1> DEFINE y == [x EXCEPT !.allocated = a]
             r == [children |-> x.children, views |-> x.views,
                   allocated |-> x.allocated, addr |-> x.addr]
  <1>1. x = r
    BY DEF IsEntry
  <1>2. y = [r EXCEPT !.allocated = a]
    <2> HIDE DEF r
    <2> QED BY <1>1, Zenon
  <1>3. y = [children |-> x.children, views |-> x.views, allocated |-> a, addr |-> x.addr]
    <2>1. [r EXCEPT !.allocated = a] =
            [children |-> x.children, views |-> x.views, allocated |-> a, addr |-> x.addr]
      OBVIOUS
    <2> HIDE DEF r, y
    <2> QED BY <1>2, <2>1
  <1> HIDE DEF y
  <1>4. y.children = x.children /\ y.views = x.views /\ y.allocated = a /\ y.addr = x.addr
    BY <1>3
  <1> QED BY <1>3, <1>4 DEF IsEntry, y

\* An entry with another address.
LEMMA EntryAddress ==
    ASSUME NEW x, IsEntry(x), NEW d \in Address
    PROVE  LET y == [x EXCEPT !.addr = d]
           IN  IsEntry(y) /\ y.allocated = x.allocated /\ y.addr = d
  <1> DEFINE y == [x EXCEPT !.addr = d]
             r == [children |-> x.children, views |-> x.views,
                   allocated |-> x.allocated, addr |-> x.addr]
  <1>1. x = r
    BY DEF IsEntry
  <1>2. y = [r EXCEPT !.addr = d]
    <2> HIDE DEF r
    <2> QED BY <1>1, Zenon
  <1>3. y = [children |-> x.children, views |-> x.views, allocated |-> x.allocated, addr |-> d]
    <2>1. [r EXCEPT !.addr = d] =
            [children |-> x.children, views |-> x.views, allocated |-> x.allocated, addr |-> d]
      OBVIOUS
    <2> HIDE DEF r, y
    <2> QED BY <1>2, <2>1
  <1> HIDE DEF y
  <1>4. y.children = x.children /\ y.views = x.views /\ y.allocated = x.allocated /\ y.addr = d
    BY <1>3
  <1> QED BY <1>3, <1>4 DEF IsEntry, y

\* An entry that gets memory.
LEMMA EntryTaken ==
    ASSUME NEW x, IsEntry(x), NEW d \in Address
    PROVE  LET y == [x EXCEPT !.allocated = TRUE, !.addr = d]
           IN  IsEntry(y) /\ y.allocated = TRUE /\ y.addr = d
  <1> DEFINE w == [x EXCEPT !.allocated = TRUE]
             y == [x EXCEPT !.allocated = TRUE, !.addr = d]
  <1>1. IsEntry(w) /\ w.allocated = TRUE
    <2>1. TRUE \in BOOLEAN
      OBVIOUS
    <2> QED BY <2>1, EntryFlag, Zenon
  <1>2. y = [w EXCEPT !.addr = d]
    OBVIOUS
  <1> HIDE DEF w
  <1>3. LET v == [w EXCEPT !.addr = d]
        IN  IsEntry(v) /\ v.allocated = w.allocated /\ v.addr = d
    BY <1>1, EntryAddress
  <1> QED BY <1>1, <1>2, <1>3

-----------------------------------------------------------------------------
(* ggml_dyn_tallocr                                                        *)

\* The larger of two numbers is a number.
LEMMA MaxOfTwo ==
    ASSUME NEW a \in Nat, NEW b \in Nat
    PROVE  Max({a, b}) \in Nat
  <1>1. \E x \in {a, b} : \A y \in {a, b} : x >= y
    OBVIOUS
  <1>2. Max({a, b}) \in {a, b}
    BY <1>1 DEF Max
  <1> QED BY <1>2

\* new_chunk(): what is new is free.
LEMMA NewChunkGood ==
    ASSUME AllocOK, NEW T, NEW sz, NEW h, NEW cs, NEW size \in Positive,
           Good(T, sz, h, cs)
    PROVE  Good(T, sz, h, NewChunk(cs, size))
  <1> DEFINE cap == IF Len(cs) = MaxChunks - 1 THEN Huge ELSE Max({size, MaxChunkSize})
             new == [free |-> {Block(0, cap)}, max_size |-> 0, cap |-> cap]
             ds == Append(cs, new)
  <1>1. MaxChunkSize \in Positive /\ size \in Positive
    BY DEF AllocOK, Positive
  <1>2. Max({size, MaxChunkSize}) \in Positive
    <2>1. \E x \in {size, MaxChunkSize} : \A y \in {size, MaxChunkSize} : x >= y
      BY <1>1 DEF Positive
    <2>2. Max({size, MaxChunkSize}) \in {size, MaxChunkSize}
      BY <2>1 DEF Max
    <2> QED BY <1>1, <2>2
  <1>3. cap \in Positive
    BY <1>2 DEF Huge, Positive
  <1> HIDE DEF cap
  <1>4. Block(0, cap) \in FreeBlock /\ {Block(0, cap)} \in SUBSET FreeBlock
    BY <1>3 DEF Block, FreeBlock
  <1>5. new \in Chunk
    BY <1>3, <1>4 DEF Chunk, Positive
  <1>6. cs \in Seq(Chunk)
    BY DEF Good, Typed
  <1> HIDE DEF new
  <1>7. /\ ds \in Seq(Chunk)
        /\ DOMAIN ds = 1 .. Len(cs) + 1
        /\ \A c \in DOMAIN cs : ds[c] = cs[c]
        /\ ds[Len(cs) + 1] = new
        /\ DOMAIN cs = 1 .. Len(cs)
        /\ Len(cs) \in Nat
    BY <1>5, <1>6
  <1> HIDE DEF ds
  <1>8. Typed(T, h, ds)
    BY <1>7 DEF Good, Typed
  <1>9. Held(T, h, Len(cs) + 1) = {}
    BY <1>7 DEF Good, Typed, Held
  <1>10. new.free = {Block(0, cap)}
    BY DEF new
  <1>11. FreeApart(ds)
    BY <1>7, <1>10 DEF Good, FreeApart
  <1>12. HeldApart(T, sz, h, ds)
    BY <1>7, <1>9 DEF Good, HeldApart
  <1>13. SpansApart(T, sz, h, ds)
    BY <1>7, <1>9 DEF Good, SpansApart
  <1>14. ds = NewChunk(cs, size)
    BY DEF ds, new, cap, NewChunk
  <1> QED BY <1>8, <1>11, <1>12, <1>13, <1>14 DEF Good

\* The front of a free block: what is left of the block, and the front.
LEMMA CutBlock ==
    ASSUME NEW free \in SUBSET FreeBlock, NEW b \in free, NEW size \in Positive,
           b.size >= size, \A x, y \in free : x # y => Apart(x, y)
    PROVE  LET cut == (free \ {b}) \cup
                      ({Block(b.off + size, b.size - size)} \ {Block(b.off + size, 0)})
           IN  /\ cut \in SUBSET FreeBlock
               /\ \A x, y \in cut : x # y => Apart(x, y)
               /\ \A x \in cut : Apart(Block(b.off, size), x)
               /\ \A z \in FreeBlock : Apart(z, b) =>
                     (\A x \in cut : x \in free \/ Apart(z, x)) /\ Apart(z, Block(b.off, size))
  <1> DEFINE rest == Block(b.off + size, b.size - size)
             cut == (free \ {b}) \cup ({rest} \ {Block(b.off + size, 0)})
  <1>1. b \in FreeBlock /\ b.off \in Nat /\ b.size \in Nat /\ size \in Nat /\ size > 0
    BY DEF FreeBlock, Positive
  <1>2. rest.off = b.off + size /\ rest.size = b.size - size
    BY DEF Block
  <1>3. rest \in cut => rest.size # 0
    <2>1. ASSUME rest.size = 0 PROVE rest = Block(b.off + size, 0)
      BY <2>1, <1>2 DEF Block
    <2>2. ASSUME rest \in free \ {b}, rest.size = 0 PROVE FALSE
      BY <2>2 DEF FreeBlock, Positive
    <2> QED BY <2>1, <2>2
  <1>4. ASSUME rest \in cut PROVE rest \in FreeBlock
    <2>1. b.off + size \in Nat /\ b.size - size \in Positive
      BY <1>1, <1>2, <1>3, <1>4 DEF Positive
    <2> QED BY <2>1 DEF Block, FreeBlock
  <1>5. \A x \in cut : (x \in free /\ x # b) \/ x = rest
    OBVIOUS
  <1>6. \A x \in cut : x \in FreeBlock
    BY <1>4, <1>5
  <1>7. \A z \in FreeBlock : z.off \in Nat /\ z.size \in Nat /\ z.size > 0
    BY DEF FreeBlock, Positive
  <1>8. \A z \in FreeBlock : Apart(z, b) => Apart(z, rest) /\ Apart(rest, z) /\
            Apart(z, Block(b.off, size)) /\ Apart(Block(b.off, size), z)
    BY <1>1, <1>2, <1>7 DEF Apart, Block
  <1>9. Apart(Block(b.off, size), rest)
    BY <1>1, <1>2 DEF Apart, Block
  <1>10. \A x \in cut : x = rest \/ Apart(x, b)
    BY <1>5
  <1>11. \A x \in cut : Apart(Block(b.off, size), x)
    BY <1>6, <1>8, <1>9, <1>10
  <1>12. \A x, y \in cut : x # y => Apart(x, y)
    BY <1>5, <1>6, <1>8
  <1> HIDE DEF rest
  <1>13. \A z \in FreeBlock : Apart(z, b) => \A x \in cut : x \in free \/ Apart(z, x)
    BY <1>5, <1>8
  <1> QED BY <1>6, <1>8, <1>11, <1>12, <1>13 DEF rest

\* ggml_dyn_tallocr_alloc() for t, once it has found a block.
LEMMA CutGood ==
    ASSUME NEW T, NEW sz \in [T -> Positive], NEW h, NEW cs, Good(T, sz, h, cs),
           NEW t \in T, ~h[t].allocated,
           NEW place \in Blocks(cs), place[2].size >= sz[t]
    PROVE  LET taken == CutAt(cs, place, sz[t])
           IN  Good(T, sz, [h EXCEPT ![t].allocated = TRUE, ![t].addr = taken.addr],
                    taken.chunks)
  <1> DEFINE c == place[1]
             b == place[2]
             taken == CutAt(cs, place, sz[t])
             addr == [chunk |-> c, off |-> b.off]
             ds == taken.chunks
             k == [h EXCEPT ![t].allocated = TRUE, ![t].addr = addr]
             cut == (cs[c].free \ {b}) \cup
                    ({Block(b.off + sz[t], b.size - sz[t])} \ {Block(b.off + sz[t], 0)})
  <1>1. c \in DOMAIN cs /\ b \in cs[c].free
    BY DEF Blocks
  <1>2. /\ cs \in Seq(Chunk) /\ DOMAIN cs = 1 .. Len(cs) /\ Len(cs) \in Nat
        /\ cs[c] \in Chunk /\ c \in Nat
    BY <1>1 DEF Good, Typed
  <1>3. cs[c].free \in SUBSET FreeBlock /\ cs[c].max_size \in Nat
    BY <1>2 DEF Chunk
  <1>4. \A x, y \in cs[c].free : x # y => Apart(x, y)
    BY <1>1 DEF Good, FreeApart
  <1>5. sz[t] \in Positive /\ sz[t] \in Nat
    BY DEF Positive
  <1>6. /\ cut \in SUBSET FreeBlock
        /\ \A x, y \in cut : x # y => Apart(x, y)
        /\ \A x \in cut : Apart(Block(b.off, sz[t]), x)
        /\ \A z \in FreeBlock : Apart(z, b) =>
              (\A x \in cut : x \in cs[c].free \/ Apart(z, x)) /\ Apart(z, Block(b.off, sz[t]))
    BY <1>1, <1>3, <1>4, <1>5, CutBlock
  <1>7. b.off \in Nat
    BY <1>1, <1>3 DEF FreeBlock
  <1> HIDE DEF c, b, cut
  <1>8. /\ ds = [cs EXCEPT ![c] = Cut(cs[c], b, sz[t])]
        /\ taken.addr = addr
    BY DEF CutAt, c, b
  <1>9. Max({cs[c].max_size, b.off + sz[t]}) \in Nat
    BY <1>3, <1>5, <1>7, MaxOfTwo
  <1>10. Cut(cs[c], b, sz[t]) \in Chunk /\ Cut(cs[c], b, sz[t]).free = cut
    BY <1>2, <1>6, <1>9 DEF Cut, Chunk, cut
  <1>11. /\ ds \in Seq(Chunk)
         /\ DOMAIN ds = DOMAIN cs
         /\ ds[c].free = cut
         /\ \A d \in DOMAIN cs : d # c => ds[d] = cs[d]
    BY <1>1, <1>2, <1>8, <1>10
  <1> HIDE DEF ds, taken
  <1>12. /\ k = [u \in T |-> k[u]]
         /\ \A u \in T : u # t => k[u] = h[u]
         /\ k[t].allocated = TRUE
         /\ k[t].addr = addr
         /\ \A u \in T : IsEntry(k[u])
    <2>1. h = [u \in T |-> h[u]] /\ \A u \in T : IsEntry(h[u])
      BY DEF Good, Typed
    <2>2. k = [u \in T |-> IF u = t THEN [h[t] EXCEPT !.allocated = TRUE, !.addr = addr]
                           ELSE h[u]]
      BY <2>1
    <2>3. addr \in Address
      BY <1>2, <1>7 DEF Address
    <2> HIDE DEF k, addr
    <2> DEFINE y == [h[t] EXCEPT !.allocated = TRUE, !.addr = addr]
    <2>4. IsEntry(y) /\ y.allocated = TRUE /\ y.addr = addr
      <3>1. IsEntry(h[t])
        BY <2>1
      <3> QED BY <2>3, <3>1, EntryTaken, Zenon
    <2> HIDE DEF y
    <2>5. k = [u \in T |-> IF u = t THEN y ELSE h[u]]
      BY <2>2 DEF y
    <2> QED BY <2>1, <2>4, <2>5
  <1> HIDE DEF k
  <1>13. Typed(T, k, ds)
    <2>1. \A u \in T : h[u].allocated => h[u].addr.chunk \in DOMAIN cs
      BY DEF Good, Typed
    <2> QED BY <1>1, <1>11, <1>12, <2>1 DEF Typed
  <1>14. \A d \in DOMAIN cs : d # c => Held(T, k, d) = Held(T, h, d)
    BY <1>12 DEF Held
  <1>15. \A u \in Held(T, k, c) : u = t \/ u \in Held(T, h, c)
    BY <1>12 DEF Held
  <1>16. /\ Span(k, sz, t) = Block(b.off, sz[t])
         /\ \A u \in T : u # t => Span(k, sz, u) = Span(h, sz, u)
    BY <1>12 DEF Span
  <1>17. \A u \in T : Span(h, sz, u) \in FreeBlock
    <2>1. \A u \in T : h[u].addr.off \in Nat
      BY DEF Good, Typed, IsEntry, Address
    <2> QED BY <2>1 DEF Span, Block, FreeBlock
  <1>18. t \notin Held(T, h, c)
    BY DEF Held
  <1>19. \A u \in Held(T, h, c) : u \in T /\ Apart(Span(h, sz, u), b)
    BY <1>1 DEF Good, HeldApart, Held, b
  <1>20. \A u \in Held(T, h, c) :
            /\ \A x \in cut : Apart(Span(h, sz, u), x)
            /\ Apart(Span(h, sz, u), Block(b.off, sz[t]))
    <2>1. \A u \in Held(T, h, c), x \in cs[c].free : Apart(Span(h, sz, u), x)
      BY <1>1 DEF Good, HeldApart
    <2> QED BY <1>6, <1>17, <1>19, <2>1
  <1>21. FreeApart(ds)
    BY <1>6, <1>11 DEF Good, FreeApart
  <1>22. HeldApart(T, sz, k, ds)
    <2>1. ASSUME NEW d \in DOMAIN cs, d # c, NEW u \in Held(T, k, d), NEW x \in ds[d].free
          PROVE  Apart(Span(k, sz, u), x)
      <3>1. u \in Held(T, h, d) /\ x \in cs[d].free
        BY <1>11, <1>14, <2>1
      <3>2. u # t
        BY <3>1 DEF Held
      <3>3. Apart(Span(h, sz, u), x) /\ u \in T
        BY <3>1 DEF Good, HeldApart, Held
      <3> QED BY <1>16, <3>2, <3>3
    <2>2. ASSUME NEW u \in Held(T, k, c), NEW x \in ds[c].free
          PROVE  Apart(Span(k, sz, u), x)
      BY <1>6, <1>11, <1>15, <1>16, <1>18, <1>19, <1>20
    <2> QED BY <2>1, <2>2, <1>11 DEF HeldApart
  <1>23. SpansApart(T, sz, k, ds)
    <2>1. ASSUME NEW d \in DOMAIN cs, d # c, NEW u \in Held(T, k, d), NEW v \in Held(T, k, d),
                 u # v
          PROVE  Apart(Span(k, sz, u), Span(k, sz, v))
      <3>1. u \in Held(T, h, d) /\ v \in Held(T, h, d)
        BY <1>14, <2>1
      <3>2. u # t /\ v # t
        BY <3>1 DEF Held
      <3>3. Apart(Span(h, sz, u), Span(h, sz, v)) /\ u \in T /\ v \in T
        BY <2>1, <3>1 DEF Good, SpansApart, Held
      <3> QED BY <1>16, <3>2, <3>3
    <2>2. ASSUME NEW u \in Held(T, k, c), NEW v \in Held(T, k, c), u # v
          PROVE  Apart(Span(k, sz, u), Span(k, sz, v))
      <3>1. \A x, y \in FreeBlock : Apart(x, y) => Apart(y, x)
        BY DEF Apart
      <3>2. Span(k, sz, t) \in FreeBlock
        BY <1>5, <1>7, <1>16 DEF Block, FreeBlock
      <3>3. CASE u # t /\ v # t
        <4>1. Apart(Span(h, sz, u), Span(h, sz, v)) /\ u \in T /\ v \in T
          BY <1>1, <1>15, <2>2, <3>3 DEF Good, SpansApart, Held
        <4> QED BY <1>16, <3>3, <4>1
      <3>4. CASE u = t
        BY <1>15, <1>16, <1>17, <1>19, <1>20, <2>2, <3>1, <3>2, <3>4
      <3>5. CASE v = t
        BY <1>15, <1>16, <1>19, <1>20, <2>2, <3>5
      <3> QED BY <3>3, <3>4, <3>5
    <2> QED BY <2>1, <2>2, <1>11 DEF SpansApart
  <1> QED BY <1>8, <1>13, <1>21, <1>22, <1>23 DEF Good, k, ds, taken

\* free_bytes(): the region and what touches it become one block, apart from all
\* that was apart from the region and the free blocks.
LEMMA MergedBlock ==
    ASSUME NEW free \in SUBSET FreeBlock, NEW off \in Nat, NEW size \in Positive,
           \A x, y \in free : x # y => Apart(x, y),
           \A x \in free : Apart(Block(off, size), x)
    PROVE  /\ Merged(free, off, off + size) \in SUBSET FreeBlock
           /\ \A x, y \in Merged(free, off, off + size) : x # y => Apart(x, y)
           /\ \A z \in FreeBlock : Apart(Block(off, size), z) /\ (\A x \in free : Apart(z, x))
                 => \A x \in Merged(free, off, off + size) : Apart(z, x)
  <1> DEFINE end == off + size
             before == Before(free, off)
             after == After(free, end)
             lo == IF before # {} THEN (CHOOSE b \in before : TRUE).off ELSE off
             hi == IF after # {} THEN end + (CHOOSE b \in after : TRUE).size ELSE end
             new == Block(lo, hi - lo)
             others == free \ (before \cup after)
  <1>1. \A z \in FreeBlock : z.off \in Nat /\ z.size \in Nat /\ z.size > 0
    BY DEF FreeBlock, Positive
  <1>2. size \in Nat /\ size > 0 /\ end \in Nat /\ end = off + size
    BY DEF Positive
  <1>3. /\ \A b \in before : b \in free /\ b.off + b.size = off
        /\ \A b \in after : b \in free /\ b.off = end
    BY DEF Before, After
  <1> DEFINE Left == \/ before = {} /\ lo = off
                     \/ \E b \in before : lo = b.off /\ b.off + b.size = off
             Right == \/ after = {} /\ hi = end
                      \/ \E b \in after : hi = end + b.size /\ b.off = end
  <1>5. Left
    <2>1. CASE before # {}
      <3>1. (CHOOSE b \in before : TRUE) \in before
        BY <2>1
      <3> QED BY <1>3, <2>1, <3>1
    <2> QED BY <2>1
  <1>6. Right
    <2>1. CASE after # {}
      <3>1. (CHOOSE b \in after : TRUE) \in after
        BY <2>1
      <3> QED BY <1>3, <2>1, <3>1
    <2> QED BY <2>1
  <1> HIDE DEF lo, hi
  <1>7. lo \in Nat /\ hi \in Nat /\ lo <= off /\ end <= hi
    BY <1>1, <1>2, <1>3, <1>5, <1>6
  <1>8. new \in FreeBlock
    BY <1>2, <1>7 DEF Block, FreeBlock, Positive
  <1>9. ASSUME NEW z \in FreeBlock, Apart(Block(off, size), z),
               \A b \in before \cup after : Apart(z, b)
        PROVE  Apart(z, new) /\ Apart(new, z)
    <2>1. z.off + z.size <= off \/ end <= z.off
      BY <1>1, <1>2, <1>9 DEF Apart, Block
    <2>2. z.off + z.size <= off => z.off + z.size <= lo
      <3>1. CASE before = {} /\ lo = off
        BY <3>1
      <3>2. ASSUME NEW b \in before, lo = b.off, b.off + b.size = off, z.off + z.size <= off
            PROVE  z.off + z.size <= lo
        <4>1. z.off + z.size <= b.off \/ b.off + b.size <= z.off
          BY <1>9 DEF Apart
        <4> QED BY <1>1, <3>2, <4>1
      <3> QED BY <1>5, <3>1, <3>2
    <2>3. end <= z.off => hi <= z.off
      <3>1. CASE after = {} /\ hi = end
        BY <3>1
      <3>2. ASSUME NEW b \in after, hi = end + b.size, b.off = end, end <= z.off
            PROVE  hi <= z.off
        <4>1. z.off + z.size <= b.off \/ b.off + b.size <= z.off
          BY <1>9 DEF Apart
        <4>2. b.off \in Nat /\ b.size \in Nat
          BY <1>1, <1>3
        <4> QED BY <1>1, <1>2, <3>2, <4>1, <4>2
      <3> QED BY <1>6, <3>1, <3>2
    <2>4. new.off = lo /\ new.off + new.size = hi
      BY <1>7 DEF Block
    <2> QED BY <2>1, <2>2, <2>3, <2>4 DEF Apart
  <1> HIDE DEF new
  <1>10. Merged(free, off, end) = others \cup {new}
    BY DEF Merged, new, lo, hi
  <1>11. \A z \in others : z \in FreeBlock /\ Apart(z, new) /\ Apart(new, z)
    <2>1. \A z \in others, b \in before \cup after : Apart(z, b)
      BY <1>3
    <2> QED BY <1>9, <2>1
  <1>12. \A x \in Merged(free, off, end) : x = new \/ (x \in free /\ x \in others)
    BY <1>10
  <1>13. Merged(free, off, end) \in SUBSET FreeBlock
    BY <1>8, <1>12
  <1>14. \A x, y \in Merged(free, off, end) : x # y => Apart(x, y)
    BY <1>11, <1>12
  <1>15. ASSUME NEW z \in FreeBlock, Apart(Block(off, size), z), \A x \in free : Apart(z, x)
         PROVE  \A x \in Merged(free, off, end) : Apart(z, x)
    BY <1>3, <1>9, <1>12, <1>15
  <1> QED BY <1>13, <1>14, <1>15

\* free_bytes(): a region that nobody has may be given back.
LEMMA FreeBytesGood ==
    ASSUME NEW T, NEW sz \in [T -> Positive], NEW h, NEW cs, Good(T, sz, h, cs),
           NEW addr \in Address, addr.chunk \in DOMAIN cs, NEW size \in Positive,
           Loose(T, sz, h, cs, addr.chunk, Block(addr.off, size))
    PROVE  Good(T, sz, h, FreeBytes(cs, addr, size))
  <1> DEFINE c == addr.chunk
             ds == FreeBytes(cs, addr, size)
             merged == Merged(cs[c].free, addr.off, addr.off + size)
  <1>1. /\ cs \in Seq(Chunk) /\ DOMAIN cs = 1 .. Len(cs) /\ Len(cs) \in Nat
        /\ cs[c] \in Chunk /\ cs[c].free \in SUBSET FreeBlock
    <2>1. cs \in Seq(Chunk)
      BY DEF Good, Typed
    <2>2. cs[c] \in Chunk
      BY <2>1
    <2> QED BY <2>1, <2>2 DEF Chunk
  <1>2. addr.off \in Nat
    BY DEF Address
  <1>3. /\ \A x, y \in cs[c].free : x # y => Apart(x, y)
        /\ \A x \in cs[c].free : Apart(Block(addr.off, size), x)
    BY DEF Good, FreeApart, Loose
  <1>4. /\ merged \in SUBSET FreeBlock
        /\ \A x, y \in merged : x # y => Apart(x, y)
        /\ \A z \in FreeBlock :
              Apart(Block(addr.off, size), z) /\ (\A x \in cs[c].free : Apart(z, x))
                 => \A x \in merged : Apart(z, x)
    BY <1>1, <1>2, <1>3, MergedBlock
  <1> HIDE DEF merged
  <1>5. ds = [cs EXCEPT ![c] = [cs[c] EXCEPT !.free = merged]]
    BY <1>1 DEF FreeBytes, merged
  <1>6. [cs[c] EXCEPT !.free = merged] \in Chunk /\ [cs[c] EXCEPT !.free = merged].free = merged
    BY <1>1, <1>4 DEF Chunk
  <1>7. /\ ds \in Seq(Chunk)
        /\ DOMAIN ds = DOMAIN cs
        /\ ds[c].free = merged
        /\ \A d \in DOMAIN cs : d # c => ds[d] = cs[d]
    BY <1>1, <1>5, <1>6
  <1> HIDE DEF ds, c
  <1>8. Typed(T, h, ds)
    BY <1>7 DEF Good, Typed
  <1>9. FreeApart(ds)
    BY <1>4, <1>7 DEF Good, FreeApart
  <1>10. SpansApart(T, sz, h, ds)
    BY <1>7 DEF Good, SpansApart
  <1>11. HeldApart(T, sz, h, ds)
    <2>1. \A u \in T : Span(h, sz, u) \in FreeBlock
      <3>1. \A u \in T : h[u].addr.off \in Nat
        BY DEF Good, Typed, IsEntry, Address
      <3> QED BY <3>1 DEF Span, Block, FreeBlock
    <2>2. ASSUME NEW u \in Held(T, h, c) PROVE \A x \in merged : Apart(Span(h, sz, u), x)
      <3>1. u \in T /\ Apart(Block(addr.off, size), Span(h, sz, u))
        BY DEF Loose, Held, c
      <3>2. \A x \in cs[c].free : Apart(Span(h, sz, u), x)
        BY DEF Good, HeldApart, c
      <3> QED BY <1>4, <2>1, <3>1, <3>2
    <2> QED BY <1>7, <2>2 DEF Good, HeldApart
  <1> QED BY <1>8, <1>9, <1>10, <1>11 DEF Good, ds

-----------------------------------------------------------------------------
(* Tables of entries                                                       *)

\* Fewer tensors hold memory, those that do hold the same.
LEMMA FewerHeld ==
    ASSUME NEW T, NEW sz \in [T -> Positive], NEW h, NEW cs, Good(T, sz, h, cs),
           NEW k, k = [u \in T |-> k[u]], \A u \in T : IsEntry(k[u]),
           \A u \in T : k[u].allocated => h[u].allocated /\ k[u].addr = h[u].addr
    PROVE  Good(T, sz, k, cs)
  <1>1. Typed(T, k, cs)
    BY DEF Good, Typed
  <1>2. \A c \in DOMAIN cs : \A u \in Held(T, k, c) :
            u \in Held(T, h, c) /\ Span(k, sz, u) = Span(h, sz, u)
    BY DEF Held, Span
  <1>3. HeldApart(T, sz, k, cs)
    BY <1>2 DEF Good, HeldApart
  <1>4. SpansApart(T, sz, k, cs)
    BY <1>2 DEF Good, SpansApart
  <1> QED BY <1>1, <1>3, <1>4 DEF Good

\* free_node(): t gives its memory back.
LEMMA ReleaseGood ==
    ASSUME NEW T, NEW sz \in [T -> Positive], NEW h, NEW cs, Good(T, sz, h, cs),
           NEW t \in T, h[t].allocated
    PROVE  Good(T, sz, [h EXCEPT ![t].allocated = FALSE], FreeBytes(cs, h[t].addr, sz[t]))
  <1> DEFINE k == [h EXCEPT ![t].allocated = FALSE]
             y == [h[t] EXCEPT !.allocated = FALSE]
             c == h[t].addr.chunk
  <1>1. h = [u \in T |-> h[u]] /\ \A u \in T : IsEntry(h[u])
    BY DEF Good, Typed
  <1>2. IsEntry(y) /\ y.allocated = FALSE /\ y.addr = h[t].addr
    <2>1. IsEntry(h[t]) /\ FALSE \in BOOLEAN
      BY <1>1
    <2> QED BY <2>1, EntryFlag, Zenon
  <1>3. k = [u \in T |-> IF u = t THEN y ELSE h[u]]
    BY <1>1
  <1> HIDE DEF k, y
  <1>4. /\ k = [u \in T |-> k[u]]
        /\ \A u \in T : IsEntry(k[u])
        /\ ~k[t].allocated
        /\ \A u \in T : u # t => k[u] = h[u]
    BY <1>1, <1>2, <1>3
  <1>5. Good(T, sz, k, cs)
    BY <1>4, FewerHeld
  <1>6. h[t].addr \in Address /\ c \in DOMAIN cs /\ sz[t] \in Positive
    BY <1>1 DEF Good, Typed, IsEntry
  <1>7. Loose(T, sz, k, cs, c, Block(h[t].addr.off, sz[t]))
    <2>1. t \in Held(T, h, c) /\ Span(h, sz, t) = Block(h[t].addr.off, sz[t])
      BY DEF Held, Span
    <2>2. \A b \in cs[c].free : Apart(Span(h, sz, t), b)
      BY <1>6, <2>1 DEF Good, HeldApart
    <2>3. \A u \in Held(T, k, c) : u \in Held(T, h, c) /\ u # t /\ Span(k, sz, u) = Span(h, sz, u)
      BY <1>4 DEF Held, Span
    <2>4. \A u \in Held(T, h, c) : u # t => Apart(Span(h, sz, t), Span(h, sz, u))
      BY <1>6, <2>1 DEF Good, SpansApart
    <2> QED BY <2>1, <2>2, <2>3, <2>4 DEF Loose
  <1> QED BY <1>5, <1>6, <1>7, FreeBytesGood DEF k

\* The memory of s becomes that of t, which is not larger; s holds nothing any more,
\* and what t does not need of it is loose.
LEMMA HandOverGood ==
    ASSUME NEW T, NEW sz \in [T -> Positive], NEW h, NEW cs, Good(T, sz, h, cs),
           NEW t \in T, NEW s \in T, s # t, h[s].allocated, ~h[t].allocated, sz[t] <= sz[s]
    PROVE  LET k == [h EXCEPT ![t].allocated = TRUE, ![t].addr = h[s].addr,
                              ![s].allocated = FALSE]
           IN  /\ Good(T, sz, k, cs)
               /\ Loose(T, sz, k, cs, h[s].addr.chunk,
                        Block(h[s].addr.off + sz[t], sz[s] - sz[t]))
  <1> DEFINE k == [h EXCEPT ![t].allocated = TRUE, ![t].addr = h[s].addr,
                            ![s].allocated = FALSE]
             y == [h[t] EXCEPT !.allocated = TRUE, !.addr = h[s].addr]
             x == [h[s] EXCEPT !.allocated = FALSE]
             c == h[s].addr.chunk
             tail == Block(h[s].addr.off + sz[t], sz[s] - sz[t])
  <1>1. h = [u \in T |-> h[u]] /\ \A u \in T : IsEntry(h[u])
    BY DEF Good, Typed
  <1>2. h[s].addr \in Address /\ h[s].addr.off \in Nat /\ c \in DOMAIN cs
    BY <1>1 DEF Good, Typed, IsEntry, Address
  <1>3. IsEntry(y) /\ y.allocated = TRUE /\ y.addr = h[s].addr
    <2>1. IsEntry(h[t]) /\ h[s].addr \in Address
      BY <1>1, <1>2
    <2> QED BY <2>1, EntryTaken, Zenon
  <1>4. IsEntry(x) /\ x.allocated = FALSE /\ x.addr = h[s].addr
    <2>1. IsEntry(h[s]) /\ FALSE \in BOOLEAN
      BY <1>1
    <2> QED BY <2>1, EntryFlag, Zenon
  <1>5. k = [u \in T |-> IF u = t THEN y ELSE IF u = s THEN x ELSE h[u]]
    BY <1>1
  <1> HIDE DEF k, y, x
  <1>6. /\ k = [u \in T |-> k[u]]
        /\ \A u \in T : IsEntry(k[u])
        /\ k[t].allocated /\ k[t].addr = h[s].addr
        /\ ~k[s].allocated
        /\ \A u \in T : u # t /\ u # s => k[u] = h[u]
    BY <1>1, <1>3, <1>4, <1>5
  <1>7. sz[s] \in Nat /\ sz[t] \in Nat /\ sz[t] > 0 /\ \A u \in T : sz[u] \in Nat /\ sz[u] > 0
    BY DEF Positive
  <1>8. \A u \in T : h[u].addr.off \in Nat
    BY <1>1 DEF IsEntry, Address
  <1>9. s \in Held(T, h, c)
    BY DEF Held
  <1>10. ASSUME NEW z, z.off \in Int, z.size \in Int, Apart(Span(h, sz, s), z)
         PROVE  Apart(Span(k, sz, t), z) /\ Apart(z, Span(k, sz, t)) /\ Apart(tail, z)
    BY <1>2, <1>6, <1>7, <1>10 DEF Apart, Span, Block
  <1>11. \A d \in DOMAIN cs : \A u \in Held(T, k, d) :
            \/ u = t /\ d = c
            \/ u # t /\ u # s /\ u \in Held(T, h, d) /\ Span(k, sz, u) = Span(h, sz, u)
    BY <1>6 DEF Held, Span
  <1>12. \A d \in DOMAIN cs : \A b \in cs[d].free : b.off \in Int /\ b.size \in Int
    <2>1. \A d \in DOMAIN cs : cs[d] \in Chunk
      BY DEF Good, Typed
    <2> QED BY <2>1 DEF Chunk, FreeBlock, Positive
  <1>13. \A u \in T : Span(h, sz, u).off \in Int /\ Span(h, sz, u).size \in Int
    BY <1>7, <1>8 DEF Span, Block
  <1> HIDE DEF tail
  <1>14. Typed(T, k, cs)
    <2>1. \A u \in T : h[u].allocated => h[u].addr.chunk \in DOMAIN cs
      BY DEF Good, Typed
    <2> QED BY <1>2, <1>6, <2>1 DEF Good, Typed
  <1>15. HeldApart(T, sz, k, cs)
    <2>1. ASSUME NEW d \in DOMAIN cs, NEW u \in Held(T, k, d), NEW b \in cs[d].free
          PROVE  Apart(Span(k, sz, u), b)
      <3>1. CASE u = t /\ d = c
        <4>1. Apart(Span(h, sz, s), b)
          BY <1>9, <3>1 DEF Good, HeldApart
        <4> QED BY <1>10, <1>12, <3>1, <4>1
      <3>2. CASE u \in Held(T, h, d) /\ Span(k, sz, u) = Span(h, sz, u)
        BY <3>2 DEF Good, HeldApart
      <3> QED BY <1>11, <3>1, <3>2
    <2> QED BY <2>1 DEF HeldApart
  <1>16. \A u \in Held(T, h, c) : u # s => Apart(Span(h, sz, s), Span(h, sz, u)) /\ u \in T
    BY <1>2, <1>9 DEF Good, SpansApart, Held
  <1>17. \A u \in Held(T, h, c) : u # s =>
            Apart(Span(k, sz, t), Span(h, sz, u)) /\ Apart(Span(h, sz, u), Span(k, sz, t))
            /\ Apart(tail, Span(h, sz, u))
    BY <1>10, <1>13, <1>16
  <1>18. SpansApart(T, sz, k, cs)
    <2>1. ASSUME NEW d \in DOMAIN cs, NEW u \in Held(T, k, d), NEW v \in Held(T, k, d), u # v
          PROVE  Apart(Span(k, sz, u), Span(k, sz, v))
      <3>1. CASE u # t /\ v # t
        BY <1>11, <2>1, <3>1 DEF Good, SpansApart
      <3>2. CASE u = t
        BY <1>11, <1>17, <2>1, <3>2
      <3>3. CASE v = t
        BY <1>11, <1>17, <2>1, <3>3
      <3> QED BY <3>1, <3>2, <3>3
    <2> QED BY <2>1 DEF SpansApart
  <1>19. Good(T, sz, k, cs)
    BY <1>14, <1>15, <1>18 DEF Good
  <1>20. Loose(T, sz, k, cs, c, tail)
    <2>1. \A b \in cs[c].free : Apart(tail, b)
      <3>1. \A b \in cs[c].free : Apart(Span(h, sz, s), b)
        BY <1>2, <1>9 DEF Good, HeldApart
      <3> QED BY <1>2, <1>10, <1>12, <3>1
    <2>2. Apart(tail, Span(k, sz, t))
      BY <1>2, <1>6, <1>7 DEF Apart, Span, Block, tail
    <2> QED BY <1>2, <1>11, <1>17, <2>1, <2>2 DEF Loose
  <1> QED BY <1>19, <1>20 DEF k, tail

-----------------------------------------------------------------------------
(* Graphs: a node comes after its sources and after what it is a view of.  *)

OpKinds == {"add", "mul_mat", "scratch", "view"}
NodeRecord == [kind : OpKinds, src : Seq(Nat), layout : Layouts, out : BOOLEAN, view : Nat]

GraphOK(g) ==
    /\ g \in Seq(NodeRecord)
    /\ \A k \in DOMAIN g :
        /\ \A j \in DOMAIN g[k].src : g[k].src[j] \in 1 .. Len(leafs) + k - 1
        /\ g[k].kind = "view" => g[k].view \in 1 .. Len(leafs) + k - 1

LeafsOK ==
    /\ leafs \in Seq([layout : Layouts, ext : BOOLEAN])
    /\ leafs # <<>>

Sz(g) == [t \in Tensors(g) |-> AllocSize(g, t)]

\* What a well-formed graph says of its tensors.
LEMMA GraphFacts ==
    ASSUME AllocOK, LeafsOK, NEW g, GraphOK(g)
    PROVE  /\ Len(leafs) \in Nat /\ DOMAIN leafs = 1 .. Len(leafs)
           /\ Len(g) \in Nat /\ DOMAIN g = 1 .. Len(g)
           /\ \A t \in Tensors(g) : t \in Nat /\ (~IsLeaf(t) => t - Len(leafs) \in DOMAIN g)
           /\ \A t \in Tensors(g) : ~IsLeaf(t) =>
                \A j \in DOMAIN Node(g, t).src :
                    Node(g, t).src[j] \in Tensors(g) /\ Node(g, t).src[j] < t
           /\ \A t \in Tensors(g) : Root(g, t) \in Tensors(g) /\ Layout(g, t) \in Layouts
           /\ \A x \in Layouts : LayoutSize[x] \in Positive
           /\ Extra \in Nat
  <1>1. /\ Len(leafs) \in Nat /\ DOMAIN leafs = 1 .. Len(leafs)
        /\ Len(g) \in Nat /\ DOMAIN g = 1 .. Len(g)
    BY DEF LeafsOK, GraphOK
  <1>2. \A t \in Tensors(g) : t \in Nat /\ (~IsLeaf(t) => t - Len(leafs) \in DOMAIN g)
    BY <1>1 DEF Tensors, IsLeaf
  <1>3. ASSUME NEW t \in Tensors(g), ~IsLeaf(t)
        PROVE  /\ \A j \in DOMAIN Node(g, t).src :
                    Node(g, t).src[j] \in Tensors(g) /\ Node(g, t).src[j] < t
               /\ Node(g, t).kind = "view" => Node(g, t).view \in Tensors(g)
    <2>1. PICK k \in DOMAIN g : k = t - Len(leafs)
      BY <1>2, <1>3
    <2>2. Node(g, t) = g[k]
      BY <2>1 DEF Node
    <2>3. \A n \in 1 .. Len(leafs) + k - 1 : n \in Tensors(g) /\ n < t
      BY <1>1, <1>2, <2>1 DEF Tensors
    <2> QED BY <2>2, <2>3 DEF GraphOK
  <1>4. ASSUME NEW t \in Tensors(g)
        PROVE  Root(g, t) \in Tensors(g) /\ Layout(g, t) \in Layouts
    <2>1. Root(g, t) \in Tensors(g)
      BY <1>3 DEF Root, IsView
    <2>2. CASE IsLeaf(t)
      <3> DEFINE L == [layout : Layouts, ext : BOOLEAN]
      <3>1. leafs \in Seq(L)
        BY DEF LeafsOK
      <3> HIDE DEF L
      <3>2. leafs[t] \in L
        BY <2>2, <3>1 DEF IsLeaf
      <3> QED BY <2>1, <2>2, <3>2 DEF Layout, L
    <2>3. CASE ~IsLeaf(t)
      <3>1. Node(g, t) \in NodeRecord
        BY <1>2, <2>3 DEF GraphOK, Node
      <3> QED BY <2>1, <2>3, <3>1 DEF Layout, NodeRecord
    <2> QED BY <2>2, <2>3
  <1>5. (\A x \in Layouts : LayoutSize[x] \in Positive) /\ Extra \in Nat
    BY DEF AllocOK, Positive
  <1> QED BY <1>1, <1>2, <1>3, <1>4, <1>5

\* A result in place is not larger than the source it replaces.
LEMMA SizeFacts ==
    ASSUME AllocOK, LeafsOK, NEW g, GraphOK(g)
    PROVE  /\ Sz(g) \in [Tensors(g) -> Positive]
           /\ \A t \in Tensors(g) : Sz(g)[t] = AllocSize(g, t)
           /\ \A t, s \in Tensors(g) :
                ~IsLeaf(t) /\ Node(g, t).kind = "add" /\ Layout(g, s) = Layout(g, t)
                    => Sz(g)[t] <= Sz(g)[s]
  <1>1. \A t \in Tensors(g) : Size(g, t) \in Positive
    BY GraphFacts DEF Size
  <1>2. Extra \in Nat
    BY GraphFacts
  <1>3. \A t \in Tensors(g) :
            AllocSize(g, t) \in Positive /\ AllocSize(g, t) \in Nat /\ AllocSize(g, t) >= Size(g, t)
    BY <1>1, <1>2 DEF AllocSize, Positive
  <1>4. \A t \in Tensors(g) :
            ~IsLeaf(t) /\ Node(g, t).kind = "add" => AllocSize(g, t) = Size(g, t)
    BY <1>1 DEF AllocSize, Positive
  <1>5. \A t \in Tensors(g) : Sz(g)[t] = AllocSize(g, t)
    BY DEF Sz
  <1>6. Sz(g) \in [Tensors(g) -> Positive]
    BY <1>3 DEF Sz
  <1>7. \A t, s \in Tensors(g) : Layout(g, s) = Layout(g, t) => Size(g, s) = Size(g, t)
    BY DEF Size
  <1>8. \A t \in Tensors(g) : Size(g, t) \in Nat
    BY <1>1 DEF Positive
  <1>9. ASSUME NEW t \in Tensors(g), NEW s \in Tensors(g),
               ~IsLeaf(t) /\ Node(g, t).kind = "add" /\ Layout(g, s) = Layout(g, t)
        PROVE  Sz(g)[t] <= Sz(g)[s]
    <2>1. Sz(g)[t] = Size(g, t) /\ Sz(g)[s] >= Size(g, s) /\ Size(g, s) = Size(g, t)
      BY <1>3, <1>4, <1>5, <1>7, <1>9
    <2> QED BY <1>3, <1>5, <1>8, <2>1
  <1> QED BY <1>5, <1>6, <1>9

-----------------------------------------------------------------------------
(* ggml_gallocr: a planner is a record of hash and chunks.                 *)

PlannerOK(g, p) ==
    /\ p = [hash |-> p.hash, chunks |-> p.chunks]
    /\ Good(Tensors(g), Sz(g), p.hash, p.chunks)

\* ggml_dyn_tallocr_alloc() for t, with a new chunk when there is no room.
LEMMA AllocGood ==
    ASSUME AllocOK, NEW T, NEW sz \in [T -> Positive], NEW h, NEW cs, Good(T, sz, h, cs),
           NEW t \in T, ~h[t].allocated, NEW taken \in Alloc(cs, sz[t])
    PROVE  Good(T, sz, [h EXCEPT ![t].allocated = TRUE, ![t].addr = taken.addr], taken.chunks)
  <1> DEFINE ds == WithRoom(cs, sz[t])
  <1>1. Good(T, sz, h, ds)
    BY NewChunkGood DEF WithRoom
  <1>2. PICK x \in Places(ds, sz[t]) : taken = CutAt(ds, x, sz[t])
    BY DEF Alloc
  <1> HIDE DEF ds
  <1>3. x \in Blocks(ds) /\ x[2].size >= sz[t]
    BY <1>2 DEF Places, BestFits, BestLasts, Fitting, LastOnes
  <1> QED BY <1>1, <1>2, <1>3, CutGood, Zenon

\* t takes the memory of its source; what it does not need is freed.
LEMMA InPlaceGood ==
    ASSUME AllocOK, LeafsOK, NEW g, GraphOK(g), NEW p, PlannerOK(g, p),
           NEW t \in Tensors(g), ~p.hash[t].allocated, ~IsLeaf(t), Node(g, t).kind = "add",
           NEW j \in DOMAIN Node(g, t).src, Reusable(g, p, t, Node(g, t).src[j])
    PROVE  PlannerOK(g, InPlace(g, p, t, Node(g, t).src[j]))
  <1> DEFINE T == Tensors(g)
             sz == Sz(g)
             s == Node(g, t).src[j]
             k == [p.hash EXCEPT ![t].allocated = TRUE, ![t].addr = p.hash[s].addr,
                                 ![s].allocated = FALSE]
             addr == p.hash[s].addr
             behind == [addr EXCEPT !.off = @ + AllocSize(g, t)]
  <1>1. s \in T /\ s < t /\ t \in Nat
    BY GraphFacts
  <1>2. s # t
    BY <1>1
  <1>3. p.hash[s].allocated /\ Layout(g, s) = Layout(g, t)
    BY DEF Reusable
  <1>4. /\ sz \in [T -> Positive] /\ sz[t] <= sz[s]
        /\ sz[t] = AllocSize(g, t) /\ sz[s] = AllocSize(g, s)
    BY <1>1, <1>3, SizeFacts
  <1>5. Good(T, sz, p.hash, p.chunks)
    BY DEF PlannerOK
  <1> HIDE DEF T, sz, s
  <1>6. /\ Good(T, sz, k, p.chunks)
        /\ Loose(T, sz, k, p.chunks, addr.chunk, Block(addr.off + sz[t], sz[s] - sz[t]))
    <2>1. t \in T
      BY DEF T
    <2> QED BY <1>1, <1>2, <1>3, <1>4, <1>5, <2>1, HandOverGood
  <1>7. addr \in Address /\ addr.chunk \in DOMAIN p.chunks
    BY <1>1, <1>3, <1>5 DEF Good, Typed, IsEntry
  <1>8. sz[t] \in Nat /\ sz[s] \in Nat
    <2>1. t \in T
      BY DEF T
    <2> QED BY <1>1, <1>4, <2>1 DEF Positive
  <1> HIDE DEF k, addr
  <1>9. behind \in Address /\ behind.chunk = addr.chunk /\ behind.off = addr.off + sz[t]
    <2>1. addr.off \in Nat /\ addr.off + AllocSize(g, t) \in Nat
      BY <1>4, <1>7, <1>8 DEF Address
    <2>2. behind = [chunk |-> addr.chunk, off |-> addr.off + AllocSize(g, t)]
      BY <1>7 DEF Address
    <2> QED BY <1>4, <1>7, <2>1, <2>2 DEF Address
  <1> HIDE DEF behind
  <1>10. CASE sz[s] > sz[t]
    <2>1. FreeExtra(g, p.chunks, addr, s, t) = FreeBytes(p.chunks, behind, sz[s] - sz[t])
      BY <1>4, <1>10 DEF FreeExtra, behind
    <2>2. sz[s] - sz[t] \in Positive
      BY <1>8, <1>10 DEF Positive
    <2>3. Loose(T, sz, k, p.chunks, behind.chunk, Block(behind.off, sz[s] - sz[t]))
      BY <1>6, <1>9
    <2>4. Good(T, sz, k, FreeBytes(p.chunks, behind, sz[s] - sz[t]))
      BY <1>4, <1>6, <1>7, <1>9, <2>2, <2>3, FreeBytesGood
    <2> QED BY <2>1, <2>4 DEF InPlace, PlannerOK, T, sz, k, addr, s
  <1>11. CASE ~(sz[s] > sz[t])
    <2>1. FreeExtra(g, p.chunks, addr, s, t) = p.chunks
      BY <1>4, <1>11 DEF FreeExtra
    <2> QED BY <1>6, <2>1 DEF InPlace, PlannerOK, T, sz, k, addr, s
  <1> QED BY <1>10, <1>11

\* ggml_gallocr_allocate_node()
LEMMA AllocateNodeGood ==
    ASSUME AllocOK, LeafsOK, NEW g, GraphOK(g), NEW p, PlannerOK(g, p),
           NEW t \in Tensors(g), NEW q \in AllocateNode(g, p, t)
    PROVE  PlannerOK(g, q)
  <1>1. CASE External(t) \/ p.hash[t].allocated \/ IsView(g, t)
    <2>1. q = p
      BY <1>1 DEF AllocateNode
    <2> QED BY <2>1
  <1>2. CASE ~(External(t) \/ p.hash[t].allocated \/ IsView(g, t)) /\ ReusableSources(g, p, t) # {}
    <2>1. PICK j \in FirstOf(ReusableSources(g, p, t)) : q = InPlace(g, p, t, Node(g, t).src[j])
      BY <1>2 DEF AllocateNode
    <2>2. j \in ReusableSources(g, p, t)
      BY <2>1 DEF FirstOf
    <2>3. /\ ~IsLeaf(t) /\ Node(g, t).kind = "add"
          /\ j \in DOMAIN Node(g, t).src /\ Reusable(g, p, t, Node(g, t).src[j])
      BY <2>2 DEF ReusableSources
    <2> QED BY <1>2, <2>1, <2>3, InPlaceGood
  <1>3. CASE ~(External(t) \/ p.hash[t].allocated \/ IsView(g, t)) /\ ReusableSources(g, p, t) = {}
    <2>1. PICK taken \in Alloc(p.chunks, AllocSize(g, t)) : q = FromBuffer(p, t, taken)
      BY <1>3 DEF AllocateNode
    <2>2. Sz(g) \in [Tensors(g) -> Positive] /\ Sz(g)[t] = AllocSize(g, t)
      BY SizeFacts
    <2>3. Good(Tensors(g), Sz(g), p.hash, p.chunks)
      BY DEF PlannerOK
    <2>4. Good(Tensors(g), Sz(g),
               [p.hash EXCEPT ![t].allocated = TRUE, ![t].addr = taken.addr], taken.chunks)
      BY <1>3, <2>1, <2>2, <2>3, AllocGood
    <2> QED BY <2>1, <2>4 DEF FromBuffer, PlannerOK
  <1> QED BY <1>1, <1>2, <1>3

\* The counters of an entry change.
LEMMA EntryCounted ==
    ASSUME NEW x, IsEntry(x), NEW n
    PROVE  /\ LET y == [x EXCEPT !.children = n]
              IN  IsEntry(y) /\ y.allocated = x.allocated /\ y.addr = x.addr
           /\ LET y == [x EXCEPT !.views = n]
              IN  IsEntry(y) /\ y.allocated = x.allocated /\ y.addr = x.addr
  <1> DEFINE y == [x EXCEPT !.children = n]
             z == [x EXCEPT !.views = n]
             r == [children |-> x.children, views |-> x.views,
                   allocated |-> x.allocated, addr |-> x.addr]
  <1>1. x = r
    BY DEF IsEntry
  <1>2. y = [r EXCEPT !.children = n] /\ z = [r EXCEPT !.views = n]
    <2> HIDE DEF r
    <2> QED BY <1>1, Zenon
  <1>3. y = [children |-> n, views |-> x.views, allocated |-> x.allocated, addr |-> x.addr]
    <2>1. [r EXCEPT !.children = n] =
            [children |-> n, views |-> x.views, allocated |-> x.allocated, addr |-> x.addr]
      OBVIOUS
    <2> HIDE DEF r, y
    <2> QED BY <1>2, <2>1
  <1>4. z = [children |-> x.children, views |-> n, allocated |-> x.allocated, addr |-> x.addr]
    <2>1. [r EXCEPT !.views = n] =
            [children |-> x.children, views |-> n, allocated |-> x.allocated, addr |-> x.addr]
      OBVIOUS
    <2> HIDE DEF r, z
    <2> QED BY <1>2, <2>1
  <1> HIDE DEF y, z
  <1>5. /\ y.children = n /\ y.views = x.views /\ y.allocated = x.allocated /\ y.addr = x.addr
        /\ z.children = x.children /\ z.views = n /\ z.allocated = x.allocated /\ z.addr = x.addr
    BY <1>3, <1>4
  <1> QED BY <1>3, <1>4, <1>5 DEF IsEntry, y, z

\* The hash of a planner changes.
LEMMA PlannerHash ==
    ASSUME NEW p, p = [hash |-> p.hash, chunks |-> p.chunks], NEW c
    PROVE  [p EXCEPT !.hash = c] = [hash |-> c, chunks |-> p.chunks]
  <1> DEFINE r == [hash |-> p.hash, chunks |-> p.chunks]
  <1>1. [r EXCEPT !.hash = c] = [hash |-> c, chunks |-> p.chunks]
    OBVIOUS
  <1>2. p = r
    OBVIOUS
  <1> HIDE DEF r
  <1>3. [p EXCEPT !.hash = c] = [r EXCEPT !.hash = c]
    BY <1>2, Zenon
  <1> QED BY <1>1, <1>3, Zenon

\* "n_children -= 1", "n_views -= 1"
LEMMA DropGood ==
    ASSUME AllocOK, LeafsOK, NEW g, GraphOK(g), NEW p, PlannerOK(g, p), NEW t \in Tensors(g)
    PROVE  PlannerOK(g, DropChild(p, t)) /\ PlannerOK(g, DropView(p, t))
  <1> DEFINE T == Tensors(g)
             x == [p.hash[t] EXCEPT !.children = p.hash[t].children - 1]
             y == [p.hash[t] EXCEPT !.views = p.hash[t].views - 1]
  <1>1. /\ Good(T, Sz(g), p.hash, p.chunks) /\ p = [hash |-> p.hash, chunks |-> p.chunks]
        /\ p.hash = [u \in T |-> p.hash[u]] /\ \A u \in T : IsEntry(p.hash[u])
    BY DEF PlannerOK, Good, Typed
  <1>2. /\ IsEntry(x) /\ x.allocated = p.hash[t].allocated /\ x.addr = p.hash[t].addr
        /\ IsEntry(y) /\ y.allocated = p.hash[t].allocated /\ y.addr = p.hash[t].addr
    <2>1. IsEntry(p.hash[t])
      BY <1>1
    <2> QED BY <2>1, EntryCounted, Zenon
  <1> HIDE DEF x, y
  <1>3. ASSUME NEW e, IsEntry(e), e.allocated = p.hash[t].allocated, e.addr = p.hash[t].addr
        PROVE  Good(T, Sz(g), [p.hash EXCEPT ![t] = e], p.chunks)
    <2> DEFINE k == [p.hash EXCEPT ![t] = e]
    <2>1. k = [u \in T |-> IF u = t THEN e ELSE p.hash[u]]
      BY <1>1
    <2> HIDE DEF k
    <2>2. /\ k = [u \in T |-> k[u]] /\ \A u \in T : IsEntry(k[u])
          /\ \A u \in T : k[u].allocated => p.hash[u].allocated /\ k[u].addr = p.hash[u].addr
      BY <1>1, <1>3, <2>1
    <2>3. Sz(g) \in [T -> Positive]
      BY SizeFacts
    <2>4. Good(T, Sz(g), k, p.chunks)
      BY <1>1, <2>2, <2>3, FewerHeld
    <2> QED BY <2>4 DEF k
  <1>4. /\ Good(T, Sz(g), [p.hash EXCEPT ![t] = x], p.chunks)
        /\ Good(T, Sz(g), [p.hash EXCEPT ![t] = y], p.chunks)
    BY <1>2, <1>3
  <1>5. /\ DropChild(p, t) = [hash |-> [p.hash EXCEPT ![t] = x], chunks |-> p.chunks]
        /\ DropView(p, t) = [hash |-> [p.hash EXCEPT ![t] = y], chunks |-> p.chunks]
    <2>1. p.hash = [u \in T |-> p.hash[u]] /\ p = [hash |-> p.hash, chunks |-> p.chunks]
      BY <1>1
    <2>2. /\ DropChild(p, t) = [p EXCEPT !.hash = [p.hash EXCEPT ![t] = x]]
          /\ DropView(p, t) = [p EXCEPT !.hash = [p.hash EXCEPT ![t] = y]]
      BY DEF DropChild, DropView, x, y
    <2> QED BY <2>1, <2>2, PlannerHash
  <1> QED BY <1>4, <1>5 DEF PlannerOK

\* free_node() of a tensor that nobody needs.
LEMMA FreeUnneededGood ==
    ASSUME AllocOK, LeafsOK, NEW g, GraphOK(g), NEW p, PlannerOK(g, p), NEW t \in Tensors(g)
    PROVE  PlannerOK(g, FreeUnneeded(g, p, t))
  <1>1. CASE Unneeded(p, t) /\ p.hash[t].allocated /\ ~IsOutput(g, t)
    <2>1. Sz(g) \in [Tensors(g) -> Positive] /\ Sz(g)[t] = AllocSize(g, t)
      BY SizeFacts
    <2>2. Good(Tensors(g), Sz(g), p.hash, p.chunks)
      BY DEF PlannerOK
    <2>3. Good(Tensors(g), Sz(g), [p.hash EXCEPT ![t].allocated = FALSE],
               FreeBytes(p.chunks, p.hash[t].addr, Sz(g)[t]))
      BY <1>1, <2>1, <2>2, ReleaseGood
    <2> QED BY <1>1, <2>1, <2>3 DEF FreeUnneeded, FreeNode, PlannerOK
  <1>2. CASE ~(Unneeded(p, t) /\ p.hash[t].allocated /\ ~IsOutput(g, t))
    BY <1>2 DEF FreeUnneeded, FreeNode
  <1> QED BY <1>1, <1>2

\* "update parents"
LEMMA UpdateParentGood ==
    ASSUME AllocOK, LeafsOK, NEW g, GraphOK(g), NEW p, PlannerOK(g, p), NEW s \in Tensors(g)
    PROVE  PlannerOK(g, UpdateParent(g, p, s))
  <1>1. PlannerOK(g, DropChild(p, s))
    BY DropGood
  <1>2. Root(g, s) \in Tensors(g)
    BY GraphFacts
  <1>3. ASSUME NEW q, PlannerOK(g, q)
        PROVE  PlannerOK(g, AfterChild(g, q, s))
    <2>1. PlannerOK(g, FreeUnneeded(g, q, s))
      BY <1>3, FreeUnneededGood
    <2>2. PlannerOK(g, DropView(q, Root(g, s)))
      BY <1>2, <1>3, DropGood
    <2>3. PlannerOK(g, FreeUnneeded(g, DropView(q, Root(g, s)), Root(g, s)))
      BY <1>2, <2>2, FreeUnneededGood
    <2> QED BY <2>1, <2>3 DEF AfterChild
  <1> QED BY <1>1, <1>3 DEF UpdateParent

\* The planner before the first leaf.
LEMMA CountedGood ==
    ASSUME AllocOK, LeafsOK, NEW g, GraphOK(g)
    PROVE  PlannerOK(g, [hash |-> Counted(g), chunks |-> <<>>])
  <1> DEFINE h == Counted(g)
             T == Tensors(g)
  <1>1. NoAddr \in Address
    BY DEF NoAddr, Address
  <1>2. h = [t \in T |-> h[t]] /\ \A t \in T :
            h[t] = [children |-> h[t].children, views |-> h[t].views,
                    allocated |-> FALSE, addr |-> NoAddr]
    BY DEF Counted
  <1> HIDE DEF h
  <1>3. \A t \in T : h[t].allocated = FALSE /\ h[t].addr = NoAddr
    BY <1>2
  <1>4. \A t \in T : IsEntry(h[t])
    BY <1>1, <1>2, <1>3 DEF IsEntry
  <1>5. Typed(T, h, <<>>)
    BY <1>2, <1>3, <1>4 DEF Typed
  <1>6. DOMAIN <<>> = {}
    OBVIOUS
  <1>7. FreeApart(<<>>) /\ HeldApart(T, Sz(g), h, <<>>) /\ SpansApart(T, Sz(g), h, <<>>)
    BY <1>6 DEF FreeApart, HeldApart, SpansApart
  <1>8. Good(T, Sz(g), h, <<>>)
    BY <1>5, <1>7 DEF Good
  <1> QED BY <1>8 DEF PlannerOK, h

-----------------------------------------------------------------------------
(* The specification.                                                      *)

\* An operation is on tensors that there are.
LEMMA OperationsOK ==
    ASSUME AllocOK, LeafsOK, NEW g, GraphOK(g), NEW op \in Operations(g)
    PROVE  /\ op \in NodeRecord
           /\ \A j \in DOMAIN op.src : op.src[j] \in Tensors(g)
           /\ op.kind = "view" => op.view \in Tensors(g)
  <1> DEFINE T == Tensors(g)
             Op(kind, src, layout) ==
                [kind |-> kind, src |-> src, layout |-> layout, out |-> FALSE,
                 view |-> IF kind = "view" THEN Root(g, src[1]) ELSE 0]
             Sourced == {<<t>> : t \in T} \cup (T \X T)
  <1>1. \A t \in T : t \in Nat /\ Root(g, t) \in T /\ Layout(g, t) \in Layouts
    BY GraphFacts
  <1>2. PICK kind \in OpKinds, s \in Sourced, x \in Layouts : op = Op(kind, s, x)
    <2>1. \A s \in Sourced : s[1] \in T
      OBVIOUS
    <2>2. \A t \in T : <<t>> \in Sourced /\ <<t>>[1] = t
      OBVIOUS
    <2> HIDE DEF Op
    <2>3. \/ \E s \in Sourced : op = Op("add", s, Layout(g, s[1]))
          \/ \E s \in {r \in T \X T : r[1] <= r[2]}, x \in Layouts : op = Op("mul_mat", s, x)
          \/ \E t \in T : op = Op("scratch", <<t>>, Layout(g, t))
          \/ \E t \in T : op = Op("view", <<t>>, Layout(g, t))
      BY DEF Operations, Op
    <2> HIDE DEF T
    <2>4. CASE \E s \in Sourced : op = Op("add", s, Layout(g, s[1]))
      BY <1>1, <2>1, <2>4 DEF OpKinds
    <2>5. CASE \E s \in {r \in T \X T : r[1] <= r[2]}, x \in Layouts : op = Op("mul_mat", s, x)
      BY <2>5 DEF OpKinds
    <2>6. CASE \E t \in T : op = Op("scratch", <<t>>, Layout(g, t))
      BY <1>1, <2>2, <2>6 DEF OpKinds
    <2>7. CASE \E t \in T : op = Op("view", <<t>>, Layout(g, t))
      BY <1>1, <2>2, <2>7 DEF OpKinds
    <2> QED BY <2>3, <2>4, <2>5, <2>6, <2>7
  <1> HIDE DEF T
  <1>3. s \in Seq(T) /\ s \in Seq(Nat) /\ s[1] \in T /\ \A j \in DOMAIN s : s[j] \in T
    <2>1. CASE s \in {<<t>> : t \in T}
      <3>1. PICK t \in T : s = <<t>>
        BY <2>1
      <3> QED BY <1>1, <3>1
    <2>2. CASE s \in T \X T
      <3>1. PICK t \in T, u \in T : s = <<t, u>>
        BY <2>2
      <3>2. t \in Nat /\ u \in Nat
        BY <1>1
      <3> QED BY <3>1, <3>2
    <2> QED BY <1>2, <2>1, <2>2
  <1>4. op.kind = kind /\ op.src = s /\ op.view = IF kind = "view" THEN Root(g, s[1]) ELSE 0
    BY <1>2
  <1>5. op.view \in Nat /\ (kind = "view" => op.view \in T)
    BY <1>1, <1>3, <1>4
  <1>6. op \in NodeRecord
    BY <1>2, <1>3, <1>5 DEF NodeRecord, OpKinds
  <1> QED BY <1>3, <1>4, <1>5, <1>6 DEF T

\* A graph grows by an operation.
LEMMA AppendOK ==
    ASSUME AllocOK, LeafsOK, NEW g, GraphOK(g), NEW op \in Operations(g)
    PROVE  GraphOK(Append(g, op))
  <1> DEFINE h == Append(g, op)
  <1>1. /\ op \in NodeRecord
        /\ \A j \in DOMAIN op.src : op.src[j] \in Tensors(g)
        /\ op.kind = "view" => op.view \in Tensors(g)
    BY OperationsOK
  <1>2. g \in Seq(NodeRecord) /\ Len(g) \in Nat /\ Len(leafs) \in Nat /\ DOMAIN g = 1 .. Len(g)
    BY DEF GraphOK, LeafsOK
  <1>3. /\ h \in Seq(NodeRecord) /\ DOMAIN h = 1 .. Len(g) + 1
        /\ h[Len(g) + 1] = op /\ \A k \in DOMAIN g : h[k] = g[k]
    <2> HIDE DEF NodeRecord
    <2> QED BY <1>1, <1>2
  <1> HIDE DEF h
  <1>4. Tensors(g) = 1 .. Len(leafs) + (Len(g) + 1) - 1
    BY <1>2 DEF Tensors
  <1>5. ASSUME NEW k \in DOMAIN h
        PROVE  /\ \A j \in DOMAIN h[k].src : h[k].src[j] \in 1 .. Len(leafs) + k - 1
               /\ h[k].kind = "view" => h[k].view \in 1 .. Len(leafs) + k - 1
    <2>1. CASE k \in DOMAIN g
      BY <1>3, <2>1 DEF GraphOK
    <2>2. CASE k = Len(g) + 1
      BY <1>1, <1>3, <1>4, <2>2
    <2> QED BY <1>2, <1>3, <2>1, <2>2
  <1>6. GraphOK(h)
    BY <1>3, <1>5 DEF GraphOK
  <1> QED BY <1>6 DEF h

\* Marking outputs changes nothing else.
LEMMA MarkedOK ==
    ASSUME LeafsOK, NEW g, GraphOK(g), NEW outs
    PROVE  GraphOK(Marked(g, outs))
  <1> DEFINE h == Marked(g, outs)
  <1>1. g \in Seq(NodeRecord) /\ Len(g) \in Nat /\ DOMAIN g = 1 .. Len(g)
    BY DEF GraphOK
  <1>2. \A n \in NodeRecord : \A b \in BOOLEAN :
            /\ [n EXCEPT !.out = b] \in NodeRecord
            /\ [n EXCEPT !.out = b].src = n.src
            /\ [n EXCEPT !.out = b].kind = n.kind
            /\ [n EXCEPT !.out = b].view = n.view
    BY DEF NodeRecord
  <1>3. h = [k \in 1 .. Len(g) |-> [g[k] EXCEPT !.out = k \in outs]]
    BY <1>1 DEF Marked
  <1>4. \A k \in DOMAIN g : g[k] \in NodeRecord /\ (k \in outs) \in BOOLEAN
    <2> HIDE DEF NodeRecord
    <2> QED BY <1>1
  <1>5. \A k \in 1 .. Len(g) :
            /\ h[k] \in NodeRecord /\ h[k].src = g[k].src
            /\ h[k].kind = g[k].kind /\ h[k].view = g[k].view
    <2> TAKE k \in 1 .. Len(g)
    <2> DEFINE b == k \in outs
    <2>1. h[k] = [g[k] EXCEPT !.out = b]
      BY <1>3
    <2>2. b \in BOOLEAN /\ g[k] \in NodeRecord
      BY <1>1, <1>4
    <2> HIDE DEF b
    <2>3. LET n == [g[k] EXCEPT !.out = b]
          IN  n \in NodeRecord /\ n.src = g[k].src /\ n.kind = g[k].kind /\ n.view = g[k].view
      BY <1>2, <2>2, Zenon
    <2> HIDE DEF h
    <2> QED BY <2>1, <2>3
  <1>6. h = [k \in 1 .. Len(g) |-> h[k]]
    BY <1>3
  <1> HIDE DEF h
  <1>7. h \in Seq(NodeRecord) /\ DOMAIN h = DOMAIN g
    BY <1>1, <1>5, <1>6
  <1>8. GraphOK(h)
    BY <1>1, <1>5, <1>7 DEF GraphOK
  <1> QED BY <1>8 DEF h

-----------------------------------------------------------------------------
(* The inductive invariant: the graph is well formed and, while it is      *)
(* planned, the planner keeps everything apart and its loops are on        *)
(* tensors of the graph.                                                   *)

Position ==
    /\ next \in Nat /\ step \in Positive
    /\ next = 0 => step <= Len(leafs)
    /\ next \in DOMAIN graph => step <= 2 * Sources + 1

Inv ==
    /\ LeafsOK
    /\ GraphOK(graph)
    /\ phase = "plan" => PlannerOK(graph, Planner) /\ Position

\* While the leafs stay, the next state's invariant is that of its graph.
LEMMA LeafsStay ==
    ASSUME leafs' = leafs
    PROVE  /\ LeafsOK => LeafsOK'
           /\ GraphOK(graph') => GraphOK(graph)'
           /\ PlannerOK(graph', Planner') => PlannerOK(graph, Planner)'
  <1>1. LeafsOK => LeafsOK'
    BY DEF LeafsOK
  <1>2. GraphOK(graph') => GraphOK(graph)'
    BY DEF GraphOK
  <1>3. Tensors(graph') = Tensors(graph)'
    BY DEF Tensors
  <1>4. Sz(graph') = Sz(graph)'
    BY Zenon DEF Sz, Tensors, AllocSize, Size, Layout, IsLeaf, Node
  <1>5. PlannerOK(graph', Planner') => PlannerOK(graph, Planner)'
    BY <1>3, <1>4, Zenon DEF PlannerOK, Planner
  <1> QED BY <1>1, <1>2, <1>5

\* The loops go on within their bounds.
LEMMA AdvancePosition ==
    ASSUME LeafsOK, GraphOK(graph), Position, NEW last \in Nat, step <= last, Advance(last),
           next = 0 => last = Len(leafs),
           next \in DOMAIN graph => last = 2 * Sources + 1
    PROVE  Position'
  <1>1. /\ Len(leafs) \in Nat /\ Len(leafs) > 0
        /\ next \in Nat /\ step \in Nat /\ step > 0
        /\ leafs' = leafs /\ graph' = graph
        /\ DOMAIN graph = 1 .. Len(graph) /\ Len(graph) \in Nat
    BY DEF LeafsOK, GraphOK, Position, Positive, Advance
  <1>2. \A k \in DOMAIN graph : Len(graph[k].src) \in Nat
    BY DEF GraphOK, NodeRecord
  <1>3. CASE step = last
    <2>1. next' = next + 1 /\ step' = 1
      BY <1>3 DEF Advance
    <2> QED BY <1>1, <1>2, <2>1 DEF Position, Positive, Sources
  <1>4. CASE step # last
    <2>1. next' = next /\ step' = step + 1 /\ step + 1 <= last
      BY <1>1, <1>4 DEF Advance
    <2> QED BY <1>1, <2>1 DEF Position, Positive, Sources
  <1> QED BY <1>3, <1>4

\* A step of the planner that becomes p.
LEMMA PlannerStep ==
    ASSUME Inv, NEW p, PlannerOK(graph, p), Becomes(p), phase' = "plan",
           leafs' = leafs, graph' = graph, Position'
    PROVE  Inv'
  <1>1. Planner' = p
    BY DEF Planner, Becomes, PlannerOK
  <1>2. LeafsOK' /\ GraphOK(graph)' /\ PlannerOK(graph, Planner)'
    BY <1>1, LeafsStay DEF Inv
  <1> QED BY <1>2 DEF Inv

\* A leaf is planned.
LEMMA PlanLeafInv == ASSUME AllocOK, Inv, PlanLeaf PROVE Inv'
  <1>1. /\ LeafsOK /\ GraphOK(graph) /\ PlannerOK(graph, Planner) /\ Position
        /\ next = 0 /\ step <= Len(leafs) /\ step \in Positive
        /\ leafs' = leafs /\ graph' = graph /\ phase' = "plan"
    BY DEF PlanLeaf, Inv, Position, Advance
  <1>2. Len(leafs) \in Nat /\ Len(graph) \in Nat
    BY <1>1 DEF LeafsOK, GraphOK
  <1>3. step \in Tensors(graph)
    BY <1>1, <1>2 DEF Tensors, Positive
  <1>4. PICK p \in AllocateNode(graph, Planner, step) : Becomes(p)
    BY DEF PlanLeaf
  <1>5. PlannerOK(graph, p)
    BY <1>1, <1>3, <1>4, AllocateNodeGood
  <1>6. next \notin DOMAIN graph
    BY <1>1 DEF GraphOK
  <1>7. Position'
    BY <1>1, <1>2, <1>6, AdvancePosition DEF PlanLeaf
  <1> QED BY <1>1, <1>4, <1>5, <1>7, PlannerStep

\* The node whose turn it is.
LEMMA NextNode ==
    ASSUME LeafsOK, GraphOK(graph), next \in DOMAIN graph
    PROVE  /\ Len(leafs) \in Nat /\ Len(graph) \in Nat /\ next \in 1 .. Len(graph)
           /\ graph[next].src \in Seq(Nat)
  <1>1. Len(leafs) \in Nat /\ Len(graph) \in Nat /\ next \in 1 .. Len(graph)
    BY DEF LeafsOK, GraphOK
  <1>2. graph[next] \in NodeRecord
    BY DEF GraphOK
  <1> QED BY <1>1, <1>2 DEF NodeRecord

\* Its sources are tensors of the graph, and so is the node itself.
LEMMA NextSource ==
    ASSUME LeafsOK, GraphOK(graph), next \in DOMAIN graph
    PROVE  /\ Sources \in Nat
           /\ \A j \in 1 .. Sources : graph[next].src[j] \in Tensors(graph)
           /\ NodeTensor(next) \in Tensors(graph)
  <1>1. /\ Len(leafs) \in Nat /\ Len(graph) \in Nat /\ next \in 1 .. Len(graph)
        /\ graph[next].src \in Seq(Nat)
    BY NextNode
  <1>2. DOMAIN graph[next].src = 1 .. Sources /\ Sources \in Nat
    BY <1>1 DEF Sources
  <1>3. \A j \in DOMAIN graph[next].src : graph[next].src[j] \in 1 .. Len(leafs) + next - 1
    BY DEF GraphOK
  <1>4. \A t \in 1 .. Len(leafs) + next - 1 : t \in Tensors(graph)
    BY <1>1 DEF Tensors
  <1>5. NodeTensor(next) \in Tensors(graph)
    BY <1>1 DEF Tensors, NodeTensor
  <1> QED BY <1>2, <1>3, <1>4, <1>5

\* A node, or one of its sources, is planned.
LEMMA PlanNodeInv == ASSUME AllocOK, Inv, PlanNode PROVE Inv'
  <1> DEFINE t == IF step <= Sources THEN graph[next].src[step] ELSE NodeTensor(next)
  <1>1. /\ LeafsOK /\ GraphOK(graph) /\ PlannerOK(graph, Planner) /\ Position
        /\ next \in DOMAIN graph /\ step \in Positive /\ step <= 2 * Sources + 1
        /\ leafs' = leafs /\ graph' = graph /\ phase' = "plan"
    BY DEF PlanNode, Inv, Position, Advance
  <1>2. /\ Sources \in Nat /\ NodeTensor(next) \in Tensors(graph)
        /\ \A j \in 1 .. Sources : graph[next].src[j] \in Tensors(graph)
    BY <1>1, NextSource
  <1>3. t \in Tensors(graph)
    <2>1. CASE step <= Sources
      <3>1. step \in 1 .. Sources
        BY <1>1, <1>2, <2>1 DEF Positive
      <3> QED BY <1>2, <2>1, <3>1
    <2>2. CASE ~(step <= Sources)
      BY <1>2, <2>2
    <2> QED BY <2>1, <2>2
  <1>4. PICK p \in AllocateNode(graph, Planner, t) : Becomes(p)
    BY DEF PlanNode
  <1>5. PlannerOK(graph, p)
    BY <1>1, <1>3, <1>4, AllocateNodeGood
  <1>6. Sources \in Nat /\ 2 * Sources + 1 \in Nat /\ next # 0
    BY <1>1, <1>2, NextNode
  <1>7. Position'
    BY <1>1, <1>6, AdvancePosition DEF PlanNode
  <1> QED BY <1>1, <1>4, <1>5, <1>7, PlannerStep

\* A source of the node is updated.
LEMMA PlanParentInv == ASSUME AllocOK, Inv, PlanParent PROVE Inv'
  <1> DEFINE j == step - Sources - 1
             p == UpdateParent(graph, Planner, graph[next].src[j])
  <1>1. /\ LeafsOK /\ GraphOK(graph) /\ PlannerOK(graph, Planner) /\ Position
        /\ next \in DOMAIN graph /\ step \in Positive /\ step <= 2 * Sources + 1
        /\ leafs' = leafs /\ graph' = graph /\ phase' = "plan" /\ step > Sources + 1
    BY DEF PlanParent, Inv, Position, Advance
  <1>2. /\ Sources \in Nat
        /\ \A k \in 1 .. Sources : graph[next].src[k] \in Tensors(graph)
    BY <1>1, NextSource
  <1>3. j \in 1 .. Sources
    BY <1>1, <1>2 DEF Positive
  <1>4. next # 0
    BY <1>1, NextNode
  <1>5. graph[next].src[j] \in Tensors(graph)
    <2> HIDE DEF j
    <2> QED BY <1>2, <1>3
  <1>6. PlannerOK(graph, p)
    BY <1>1, <1>5, UpdateParentGood
  <1>7. Becomes(p)
    BY DEF PlanParent
  <1>8. Sources \in Nat /\ 2 * Sources + 1 \in Nat /\ next # 0
    BY <1>2, <1>4
  <1>9. Position'
    BY <1>1, <1>8, AdvancePosition DEF PlanParent
  <1> QED BY <1>1, <1>6, <1>7, <1>9, PlannerStep

\* A plan is started, or an old one is kept.
LEMMA AllocGraphInv == ASSUME AllocOK, Inv, AllocGraph PROVE Inv'
  <1>1. LeafsOK /\ GraphOK(graph)
    BY DEF Inv
  <1>2. PICK outs : LET g == Marked(graph, outs)
                    IN  \/ StartPlan(g)
                        \/ \E pl \in plan : Bind(g, pl, buffers) /\ leafs' = leafs
    BY DEF AllocGraph
  <1> DEFINE g == Marked(graph, outs)
  <1>3. GraphOK(g)
    BY <1>1, MarkedOK
  <1> HIDE DEF g
  <1>4. CASE StartPlan(g)
    <2>1. leafs' = leafs /\ graph' = g /\ next' = 0 /\ step' = 1
      BY <1>4 DEF StartPlan
    <2>2. Planner' = [hash |-> Counted(g), chunks |-> <<>>]
      BY <1>4 DEF StartPlan, Planner
    <2>3. PlannerOK(graph, Planner)'
      BY <1>1, <1>3, <2>1, <2>2, CountedGood, LeafsStay
    <2>4. Len(leafs) \in Nat /\ Len(leafs) >= 1 /\ 0 \notin DOMAIN g
      BY <1>1, <1>3 DEF LeafsOK, GraphOK
    <2>5. Position'
      BY <2>1, <2>4 DEF Position, Positive
    <2> QED BY <1>1, <1>3, <2>1, <2>3, <2>5, LeafsStay DEF Inv
  <1>5. CASE \E pl \in plan : Bind(g, pl, buffers) /\ leafs' = leafs
    <2>1. leafs' = leafs /\ graph' = g /\ phase' = "compute"
      BY <1>5 DEF Bind
    <2> QED BY <1>1, <1>3, <2>1, LeafsStay DEF Inv
  <1> QED BY <1>2, <1>4, <1>5 DEF g

\* The invariant holds at first.
LEMMA InitInv == ASSUME AllocOK, Init PROVE Inv
  <1>1. LeafsOK
    BY DEF Init, AllocOK, LeafsOK
  <1>2. GraphOK(<<>>)
    BY DEF GraphOK
  <1> QED BY <1>1, <1>2 DEF Init, Inv

\* A graph is started, over other leafs perhaps.
LEMMA NewGraphInv ==
    ASSUME AllocOK, NewGraph
    PROVE  Inv' /\ graph' = <<>> /\ phase' = "build"
  <1>1. graph' = <<>> /\ phase' = "build" /\ leafs' \in LeafSets
    BY DEF NewGraph
  <1>2. LeafsOK'
    BY <1>1 DEF AllocOK, LeafsOK
  <1>3. GraphOK(graph)'
    BY <1>1 DEF GraphOK
  <1> QED BY <1>1, <1>2, <1>3 DEF Inv

\* The invariant is kept by every step.
LEMMA NextInv == ASSUME AllocOK, Inv, [Next]_vars PROVE Inv'
  <1> USE DEF Inv
  <1>1. CASE AddNode
    <2>1. leafs' = leafs /\ phase' = "build" /\ GraphOK(graph')
      BY <1>1, AppendOK DEF AddNode
    <2> QED BY <2>1, LeafsStay
  <1>2. CASE AllocGraph
    BY <1>2, AllocGraphInv
  <1>3. CASE PlanLeaf
    BY <1>3, PlanLeafInv
  <1>4. CASE PlanNode
    BY <1>4, PlanNodeInv
  <1>5. CASE PlanParent
    BY <1>5, PlanParentInv
  <1>6. CASE Commit
    <2>1. CASE NewGraph
      BY <2>1, NewGraphInv
    <2>2. CASE ~NewGraph
      <3>1. leafs' = leafs /\ phase' = "compute" /\ graph' = graph
        BY <1>6, <2>2 DEF Commit, Bind
      <3> QED BY <3>1, LeafsStay
    <2> QED BY <2>1, <2>2
  <1>7. CASE ComputeNode
    <2>1. leafs' = leafs /\ phase' \in {"compute", "read"} /\ graph' = graph
      BY <1>7 DEF ComputeNode
    <2> QED BY <2>1, LeafsStay
  <1>8. CASE NextGraph
    BY <1>8, NewGraphInv DEF NextGraph
  <1>9. CASE UNCHANGED vars
    <2>1. leafs' = leafs /\ graph' = graph /\ Planner' = Planner /\ phase' = phase
          /\ next' = next /\ step' = step
      BY <1>9 DEF vars, Planner
    <2>2. Position => Position'
      BY <2>1 DEF Position, Sources
    <2> QED BY <2>1, <2>2, LeafsStay
  <1> QED BY <1>1, <1>2, <1>3, <1>4, <1>5, <1>6, <1>7, <1>8, <1>9 DEF Next

\* What is live while a graph is planned is what the planner holds.
LEMMA InvDisjoint == ASSUME AllocOK, Inv, phase = "plan" PROVE Disjoint
  <1> DEFINE T == Tensors(graph)
  <1>1. LeafsOK /\ GraphOK(graph) /\ Good(T, Sz(graph), hash, chunks)
    BY DEF Inv, PlannerOK, Planner
  <1>2. DOMAIN hash = T
    BY <1>1 DEF Good, Typed
  <1>3. \A c : Live(c) = Held(T, hash, c)
    BY <1>2 DEF Live, Held
  <1>4. \A t \in T : Taken(t) = Span(hash, Sz(graph), t)
    BY <1>1, SizeFacts DEF Taken, Span
  <1> HIDE DEF T
  <1>5. \A c : \A t \in Live(c) : t \in T
    BY <1>2 DEF Live
  <1>6. \A c \in DOMAIN chunks : \A a, b \in chunks[c].free : a # b => Apart(a, b)
    BY <1>1 DEF Good, FreeApart
  <1>7. ASSUME NEW c \in DOMAIN chunks, NEW t \in Live(c), NEW b \in chunks[c].free
        PROVE  Apart(Taken(t), b)
    <2>1. t \in Held(T, hash, c) /\ t \in T
      BY <1>3, <1>5
    <2>2. Apart(Span(hash, Sz(graph), t), b)
      BY <1>1, <2>1 DEF Good, HeldApart
    <2> QED BY <1>4, <2>1, <2>2
  <1>8. ASSUME NEW c \in DOMAIN chunks, NEW t \in Live(c), NEW u \in Live(c), t # u
        PROVE  Apart(Taken(t), Taken(u))
    <2>1. t \in Held(T, hash, c) /\ t \in T /\ u \in Held(T, hash, c) /\ u \in T
      BY <1>3, <1>5
    <2>2. Apart(Span(hash, Sz(graph), t), Span(hash, Sz(graph), u))
      BY <1>1, <1>8, <2>1 DEF Good, SpansApart
    <2> QED BY <1>4, <2>1, <2>2
  <1> QED BY <1>6, <1>7, <1>8 DEF Disjoint

(* Whatever graph is planned, no byte of a chunk is handed out twice: its   *)
(* free blocks and the tensors that live in it stay apart.                  *)
THEOREM NoByteTwice == Spec => []Disjoint
  <1>1. Init => Inv
    BY AllocOK, InitInv
  <1>2. Inv /\ [Next]_vars => Inv'
    BY AllocOK, NextInv
  <1>3. Inv => Disjoint
    BY AllocOK, InvDisjoint DEF Disjoint
  <1> QED BY <1>1, <1>2, <1>3, PTL DEF Spec

-----------------------------------------------------------------------------
(* max_size only grows, and what is handed out lies below it.              *)

Grown(cs, ds) == \A c \in DOMAIN cs : c \in DOMAIN ds /\ cs[c].max_size <= ds[c].max_size
InChunk(cs, addr, n) == addr.chunk \in DOMAIN cs /\ addr.off + n <= cs[addr.chunk].max_size

\* The sizes of chunks are numbers.
LEMMA ChunkNat ==
    ASSUME NEW cs \in Seq(Chunk)
    PROVE  \A c \in DOMAIN cs : cs[c] \in Chunk /\ cs[c].max_size \in Nat /\ c \in Nat /\ c > 0
  <1>1. \A c \in DOMAIN cs : cs[c] \in Chunk /\ c \in Nat /\ c > 0
    <2> HIDE DEF Chunk
    <2> QED OBVIOUS
  <1> QED BY <1>1 DEF Chunk

\* What lies in a chunk still does when the chunk has grown.
LEMMA InChunkStays ==
    ASSUME NEW cs \in Seq(Chunk), NEW ds \in Seq(Chunk), Grown(cs, ds),
           NEW addr \in Address, NEW n \in Nat, InChunk(cs, addr, n)
    PROVE  InChunk(ds, addr, n)
  <1>1. addr.off \in Nat
    BY DEF Address
  <1>2. addr.chunk \in DOMAIN cs /\ addr.chunk \in DOMAIN ds
        /\ addr.off + n <= cs[addr.chunk].max_size
        /\ cs[addr.chunk].max_size <= ds[addr.chunk].max_size
    BY DEF InChunk, Grown
  <1>3. cs[addr.chunk].max_size \in Nat /\ ds[addr.chunk].max_size \in Nat
    BY <1>2, ChunkNat
  <1> QED BY <1>1, <1>2, <1>3 DEF InChunk

\* The larger of two numbers is not below either.
LEMMA MaxBounds ==
    ASSUME NEW a \in Nat, NEW b \in Nat
    PROVE  a <= Max({a, b}) /\ b <= Max({a, b})
  <1>1. \E x \in {a, b} : \A y \in {a, b} : x >= y
    OBVIOUS
  <1>2. Max({a, b}) \in {a, b} /\ \A y \in {a, b} : Max({a, b}) >= y
    BY <1>1 DEF Max
  <1> QED BY <1>2

\* What is cut off a block lies below max_size.
LEMMA CutGrown ==
    ASSUME NEW cs \in Seq(Chunk), NEW place \in Blocks(cs), NEW n \in Positive
    PROVE  LET taken == CutAt(cs, place, n)
           IN  /\ Grown(cs, taken.chunks)
               /\ InChunk(taken.chunks, taken.addr, n)
               /\ taken.addr \in Address
  <1> DEFINE c == place[1]
             b == place[2]
             taken == CutAt(cs, place, n)
             new == Cut(cs[c], b, n)
  <1>1. c \in DOMAIN cs /\ b \in cs[c].free
    BY DEF Blocks
  <1>2. cs[c] \in Chunk /\ cs[c].max_size \in Nat /\ c \in Nat
    BY <1>1, ChunkNat
  <1>3. b.off \in Nat /\ n \in Nat
    BY <1>1, <1>2 DEF Chunk, FreeBlock, Positive
  <1>4. taken.chunks = [cs EXCEPT ![c] = new] /\ taken.addr = [chunk |-> c, off |-> b.off]
    BY DEF CutAt
  <1>5. new.max_size = Max({cs[c].max_size, b.off + n})
    BY <1>2 DEF Cut, Chunk
  <1>6. cs[c].max_size <= new.max_size /\ b.off + n <= new.max_size
    <2> DEFINE a == cs[c].max_size
               e == b.off + n
    <2>1. a \in Nat /\ e \in Nat /\ new.max_size = Max({a, e})
      BY <1>2, <1>3, <1>5
    <2> HIDE DEF a, e, new
    <2>2. a <= new.max_size /\ e <= new.max_size
      BY <2>1, MaxBounds
    <2> QED BY <2>2 DEF a, e
  <1> HIDE DEF new, c, b
  <1>7. /\ DOMAIN taken.chunks = DOMAIN cs
        /\ taken.chunks[c] = new
        /\ \A d \in DOMAIN cs : d # c => taken.chunks[d] = cs[d]
    BY <1>1, <1>4
  <1>8. Grown(cs, taken.chunks)
    <2>1. \A d \in DOMAIN cs : cs[d].max_size \in Nat
      BY ChunkNat
    <2> QED BY <1>6, <1>7, <2>1 DEF Grown
  <1>9. InChunk(taken.chunks, taken.addr, n)
    BY <1>1, <1>4, <1>6, <1>7 DEF InChunk
  <1>10. taken.addr \in Address
    BY <1>2, <1>3, <1>4 DEF Address
  <1> QED BY <1>8, <1>9, <1>10

\* ggml_dyn_tallocr_alloc()
LEMMA AllocGrown ==
    ASSUME AllocOK, NEW T, NEW sz, NEW h, NEW cs, Good(T, sz, h, cs),
           NEW n \in Positive, NEW taken \in Alloc(cs, n)
    PROVE  Grown(cs, taken.chunks) /\ InChunk(taken.chunks, taken.addr, n) /\ taken.addr \in Address
  <1> DEFINE ds == WithRoom(cs, n)
  <1>1. Good(T, sz, h, ds)
    BY NewChunkGood DEF WithRoom
  <1>2. cs \in Seq(Chunk) /\ ds \in Seq(Chunk)
    BY <1>1 DEF Good, Typed
  <1>3. \A c \in DOMAIN cs : c \in DOMAIN ds /\ ds[c] = cs[c]
    <2>1. CASE ds = cs
      BY <2>1
    <2>2. CASE ds = NewChunk(cs, n)
      <3>1. PICK x : NewChunk(cs, n) = Append(cs, x)
        BY DEF NewChunk
      <3> HIDE DEF Chunk, ds
      <3> QED BY <1>2, <2>2, <3>1
    <2> QED BY <2>1, <2>2 DEF WithRoom
  <1>4. PICK x \in Places(ds, n) : taken = CutAt(ds, x, n)
    BY DEF Alloc
  <1> HIDE DEF ds
  <1>5. x \in Blocks(ds)
    BY DEF Places, BestFits, BestLasts, Fitting, LastOnes
  <1>6. Grown(ds, taken.chunks) /\ InChunk(taken.chunks, taken.addr, n) /\ taken.addr \in Address
    BY <1>2, <1>4, <1>5, CutGrown
  <1>7. Grown(cs, taken.chunks)
    BY <1>3, <1>6 DEF Grown
  <1> QED BY <1>6, <1>7

\* ggml_dyn_tallocr_free_bytes() leaves max_size as it is.
LEMMA FreeBytesGrown ==
    ASSUME NEW cs \in Seq(Chunk), NEW addr, NEW n
    PROVE  Grown(cs, FreeBytes(cs, addr, n))
  <1> DEFINE c == addr.chunk
             free == Merged(cs[c].free, addr.off, addr.off + n)
             ds == FreeBytes(cs, addr, n)
  <1>1. ds = [cs EXCEPT ![c] = [cs[c] EXCEPT !.free = free]]
    BY DEF FreeBytes
  <1>2. \A d \in DOMAIN cs : cs[d] \in Chunk /\ cs[d].max_size \in Nat
    BY ChunkNat
  <1> HIDE DEF free, ds
  <1>3. c \in DOMAIN cs => [cs[c] EXCEPT !.free = free].max_size = cs[c].max_size
    BY <1>2 DEF Chunk
  <1> HIDE DEF c
  <1>4. \A d \in DOMAIN cs : d \in DOMAIN ds /\ ds[d].max_size = cs[d].max_size
    BY <1>1, <1>3
  <1>5. Grown(cs, ds)
    BY <1>2, <1>4 DEF Grown
  <1> QED BY <1>5 DEF ds

-----------------------------------------------------------------------------
(* The planner: what holds memory, and the tensors D that have got their   *)
(* address, lie within their chunk.                                        *)

Placed(g, p, D) ==
    \A t \in Tensors(g) : p.hash[t].allocated \/ t \in D =>
        InChunk(p.chunks, p.hash[t].addr, Sz(g)[t])

\* What a planner says of addresses and sizes.
LEMMA PlannerFacts ==
    ASSUME AllocOK, LeafsOK, NEW g, GraphOK(g), NEW p, PlannerOK(g, p)
    PROVE  /\ p.chunks \in Seq(Chunk)
           /\ \A t \in Tensors(g) : IsEntry(p.hash[t]) /\ p.hash[t].addr \in Address
           /\ \A t \in Tensors(g) : Sz(g)[t] \in Positive /\ Sz(g)[t] \in Nat
           /\ p.hash = [t \in Tensors(g) |-> p.hash[t]]
  <1>1. Sz(g) \in [Tensors(g) -> Positive]
    BY SizeFacts
  <1> QED BY <1>1 DEF PlannerOK, Good, Typed, IsEntry, Positive

\* Only one entry changes; when it gets another address, it lies within its chunk.
LEMMA PlacedStays ==
    ASSUME AllocOK, LeafsOK, NEW g, GraphOK(g), NEW p, PlannerOK(g, p), NEW q, PlannerOK(g, q),
           NEW D, Placed(g, p, D), Grown(p.chunks, q.chunks), NEW t,
           \A u \in Tensors(g) : u # t =>
                q.hash[u].addr = p.hash[u].addr /\ (q.hash[u].allocated => p.hash[u].allocated),
           t \in Tensors(g) => InChunk(q.chunks, q.hash[t].addr, Sz(g)[t])
    PROVE  Placed(g, q, D \cup {t})
  <1> SUFFICES ASSUME NEW u \in Tensors(g), q.hash[u].allocated \/ u \in D, u # t
               PROVE  InChunk(q.chunks, q.hash[u].addr, Sz(g)[u])
    BY DEF Placed
  <1>1. InChunk(p.chunks, p.hash[u].addr, Sz(g)[u]) /\ q.hash[u].addr = p.hash[u].addr
    BY DEF Placed
  <1>2. p.chunks \in Seq(Chunk) /\ q.chunks \in Seq(Chunk)
        /\ p.hash[u].addr \in Address /\ Sz(g)[u] \in Nat
    BY PlannerFacts
  <1>3. InChunk(q.chunks, p.hash[u].addr, Sz(g)[u])
    BY <1>1, <1>2, InChunkStays
  <1> QED BY <1>1, <1>3

\* The same with no entry that gets another address.
LEMMA PlacedKept ==
    ASSUME AllocOK, LeafsOK, NEW g, GraphOK(g), NEW p, PlannerOK(g, p), NEW q, PlannerOK(g, q),
           NEW D, Placed(g, p, D), Grown(p.chunks, q.chunks),
           \A u \in Tensors(g) :
                q.hash[u].addr = p.hash[u].addr /\ (q.hash[u].allocated => p.hash[u].allocated)
    PROVE  Placed(g, q, D)
  <1> SUFFICES ASSUME NEW u \in Tensors(g), q.hash[u].allocated \/ u \in D
               PROVE  InChunk(q.chunks, q.hash[u].addr, Sz(g)[u])
    BY DEF Placed
  <1>1. InChunk(p.chunks, p.hash[u].addr, Sz(g)[u]) /\ q.hash[u].addr = p.hash[u].addr
    BY DEF Placed
  <1>2. p.chunks \in Seq(Chunk) /\ q.chunks \in Seq(Chunk)
        /\ p.hash[u].addr \in Address /\ Sz(g)[u] \in Nat
    BY PlannerFacts
  <1>3. InChunk(q.chunks, p.hash[u].addr, Sz(g)[u])
    BY <1>1, <1>2, InChunkStays
  <1> QED BY <1>1, <1>3

\* Nothing is placed at the start.
LEMMA CountedPlaced ==
    ASSUME NEW g
    PROVE  Placed(g, [hash |-> Counted(g), chunks |-> <<>>], {})
  <1>1. \A t \in Tensors(g) : Counted(g)[t].allocated = FALSE
    BY DEF Counted
  <1> QED BY <1>1 DEF Placed

\* ggml_gallocr_allocate_node(): what is not a view has its address afterwards.
LEMMA AllocateNodePlaced ==
    ASSUME AllocOK, LeafsOK, NEW g, GraphOK(g), NEW p, PlannerOK(g, p), NEW D, Placed(g, p, D),
           NEW t \in Tensors(g), NEW q \in AllocateNode(g, p, t)
    PROVE  /\ Placed(g, q, D)
           /\ Own(g, t) => Placed(g, q, D \cup {t})
  <1> DEFINE T == Tensors(g)
  <1>1. PlannerOK(g, q)
    BY AllocateNodeGood
  <1>2. /\ p.chunks \in Seq(Chunk) /\ q.chunks \in Seq(Chunk)
        /\ \A u \in T : IsEntry(p.hash[u]) /\ p.hash[u].addr \in Address
        /\ p.hash = [u \in T |-> p.hash[u]]
    BY <1>1, PlannerFacts
  <1>3. Sz(g)[t] \in Positive /\ Sz(g)[t] \in Nat /\ Sz(g)[t] = AllocSize(g, t)
    BY PlannerFacts, SizeFacts
  <1>4. ASSUME Placed(g, q, D \cup {t}) PROVE Placed(g, q, D)
    BY <1>4 DEF Placed
  <1>5. CASE External(t) \/ p.hash[t].allocated \/ IsView(g, t)
    <2>1. q = p
      BY <1>5 DEF AllocateNode
    <2>2. Own(g, t) => p.hash[t].allocated
      BY <1>5 DEF Own
    <2> QED BY <2>1, <2>2 DEF Placed
  <1>6. CASE ~(External(t) \/ p.hash[t].allocated \/ IsView(g, t)) /\ ReusableSources(g, p, t) # {}
    <2>1. PICK j \in FirstOf(ReusableSources(g, p, t)) : q = InPlace(g, p, t, Node(g, t).src[j])
      BY <1>6 DEF AllocateNode
    <2>2. j \in ReusableSources(g, p, t)
      BY <2>1 DEF FirstOf
    <2>3. /\ ~IsLeaf(t) /\ Node(g, t).kind = "add"
          /\ j \in DOMAIN Node(g, t).src /\ Reusable(g, p, t, Node(g, t).src[j])
      BY <2>2 DEF ReusableSources
    <2> DEFINE s == Node(g, t).src[j]
               addr == p.hash[s].addr
               w == [p.hash[t] EXCEPT !.allocated = TRUE, !.addr = addr]
               x == [p.hash[s] EXCEPT !.allocated = FALSE]
    <2>4. s \in T /\ s < t /\ t \in Nat
      BY <2>3, GraphFacts
    <2>5. s # t /\ p.hash[s].allocated /\ Layout(g, s) = Layout(g, t)
      BY <2>3, <2>4 DEF Reusable
    <2>6. Sz(g)[t] <= Sz(g)[s] /\ Sz(g)[s] \in Nat
      BY <2>3, <2>4, <2>5, SizeFacts, PlannerFacts
    <2>7. q.chunks = FreeExtra(g, p.chunks, addr, s, t)
          /\ q.hash = [p.hash EXCEPT ![t].allocated = TRUE, ![t].addr = p.hash[s].addr,
                                     ![s].allocated = FALSE]
      BY <2>1 DEF InPlace
    <2> HIDE DEF s
    <2>8. addr \in Address
      BY <1>2, <2>4
    <2>9. w.addr = addr
      <3>1. IsEntry(p.hash[t])
        BY <1>2
      <3> HIDE DEF addr
      <3> QED BY <2>8, <3>1, EntryTaken, Zenon
    <2>10. x.allocated = FALSE /\ x.addr = addr
      <3>1. IsEntry(p.hash[s]) /\ FALSE \in BOOLEAN
        BY <1>2, <2>4
      <3> QED BY <3>1, EntryFlag, Zenon
    <2>11. q.hash = [u \in T |-> IF u = t THEN w ELSE IF u = s THEN x ELSE p.hash[u]]
      BY <1>2, <2>5, <2>7
    <2> HIDE DEF w, x
    <2>12. /\ q.hash[t].addr = addr
           /\ \A u \in T : u # t =>
                q.hash[u].addr = p.hash[u].addr /\ (q.hash[u].allocated => p.hash[u].allocated)
      BY <2>5, <2>9, <2>10, <2>11
    <2>13. Grown(p.chunks, q.chunks)
      <3>1. Grown(p.chunks, p.chunks)
        BY <1>2, ChunkNat DEF Grown
      <3> QED BY <1>2, <2>7, <3>1, FreeBytesGrown DEF FreeExtra
    <2>14. InChunk(p.chunks, addr, Sz(g)[s])
      BY <2>4, <2>5 DEF Placed
    <2>15. InChunk(p.chunks, addr, Sz(g)[t])
      <3>1. p.chunks[addr.chunk].max_size \in Nat /\ addr.off \in Nat
        BY <1>2, <2>8, <2>14, ChunkNat DEF InChunk, Address
      <3> HIDE DEF addr
      <3> QED BY <1>3, <2>6, <2>14, <3>1 DEF InChunk
    <2>16. InChunk(q.chunks, q.hash[t].addr, Sz(g)[t])
      BY <1>2, <1>3, <2>8, <2>12, <2>13, <2>15, InChunkStays
    <2>17. Placed(g, q, D \cup {t})
      BY <1>1, <2>12, <2>13, <2>16, PlacedStays
    <2> QED BY <1>4, <2>17
  <1>7. CASE ~(External(t) \/ p.hash[t].allocated \/ IsView(g, t)) /\ ReusableSources(g, p, t) = {}
    <2>1. PICK taken \in Alloc(p.chunks, AllocSize(g, t)) : q = FromBuffer(p, t, taken)
      BY <1>7 DEF AllocateNode
    <2>2. Good(Tensors(g), Sz(g), p.hash, p.chunks)
      BY DEF PlannerOK
    <2>3. /\ Grown(p.chunks, taken.chunks) /\ InChunk(taken.chunks, taken.addr, Sz(g)[t])
          /\ taken.addr \in Address
      BY <1>3, <2>1, <2>2, AllocGrown
    <2> DEFINE w == [p.hash[t] EXCEPT !.allocated = TRUE, !.addr = taken.addr]
    <2>4. w.addr = taken.addr
      <3>1. IsEntry(p.hash[t])
        BY <1>2
      <3> QED BY <2>3, <3>1, EntryTaken, Zenon
    <2>5. q.chunks = taken.chunks
          /\ q.hash = [p.hash EXCEPT ![t].allocated = TRUE, ![t].addr = taken.addr]
      BY <2>1 DEF FromBuffer
    <2>6. q.hash = [u \in T |-> IF u = t THEN w ELSE p.hash[u]]
      BY <1>2, <2>5
    <2> HIDE DEF w
    <2>7. q.hash[t].addr = taken.addr /\ \A u \in T : u # t => q.hash[u] = p.hash[u]
      BY <2>4, <2>6
    <2>8. \A u \in Tensors(g) : u # t =>
            q.hash[u].addr = p.hash[u].addr /\ (q.hash[u].allocated => p.hash[u].allocated)
      BY <2>7
    <2>9. Grown(p.chunks, q.chunks) /\ InChunk(q.chunks, q.hash[t].addr, Sz(g)[t])
      BY <2>3, <2>5, <2>7
    <2> HIDE DEF T
    <2>10. Placed(g, q, D \cup {t})
      BY <1>1, <2>8, <2>9, PlacedStays
    <2> QED BY <1>4, <2>10
  <1> QED BY <1>5, <1>6, <1>7

\* free_node() keeps the address.
LEMMA FreeUnneededPlaced ==
    ASSUME AllocOK, LeafsOK, NEW g, GraphOK(g), NEW p, PlannerOK(g, p), NEW D, Placed(g, p, D),
           NEW t \in Tensors(g)
    PROVE  Placed(g, FreeUnneeded(g, p, t), D)
  <1> DEFINE T == Tensors(g)
             q == FreeUnneeded(g, p, t)
  <1>1. CASE q = p
    BY <1>1
  <1>2. CASE q = [hash |-> [p.hash EXCEPT ![t].allocated = FALSE],
                  chunks |-> FreeBytes(p.chunks, p.hash[t].addr, AllocSize(g, t))]
    <2> DEFINE x == [p.hash[t] EXCEPT !.allocated = FALSE]
    <2>1. PlannerOK(g, q)
      BY FreeUnneededGood
    <2>2. p.chunks \in Seq(Chunk) /\ IsEntry(p.hash[t]) /\ p.hash = [u \in T |-> p.hash[u]]
      BY PlannerFacts
    <2>3. x.allocated = FALSE /\ x.addr = p.hash[t].addr
      <3>1. FALSE \in BOOLEAN
        OBVIOUS
      <3> QED BY <2>2, <3>1, EntryFlag, Zenon
    <2> HIDE DEF q
    <2>4. q.hash = [u \in T |-> IF u = t THEN x ELSE p.hash[u]]
      BY <1>2, <2>2
    <2> HIDE DEF x
    <2>5. \A u \in T :
            q.hash[u].addr = p.hash[u].addr /\ (q.hash[u].allocated => p.hash[u].allocated)
      BY <2>3, <2>4
    <2>6. Grown(p.chunks, q.chunks)
      BY <1>2, <2>2, FreeBytesGrown
    <2>7. Placed(g, q, D)
      BY <2>1, <2>5, <2>6, PlacedKept
    <2> QED BY <2>7 DEF q
  <1> QED BY <1>1, <1>2 DEF FreeUnneeded, FreeNode

\* Counting down changes no address.
LEMMA DropPlaced ==
    ASSUME AllocOK, LeafsOK, NEW g, GraphOK(g), NEW p, PlannerOK(g, p), NEW D, Placed(g, p, D),
           NEW t \in Tensors(g)
    PROVE  Placed(g, DropChild(p, t), D) /\ Placed(g, DropView(p, t), D)
  <1> DEFINE T == Tensors(g)
             x == [p.hash[t] EXCEPT !.children = p.hash[t].children - 1]
             y == [p.hash[t] EXCEPT !.views = p.hash[t].views - 1]
  <1>1. /\ p.chunks \in Seq(Chunk) /\ IsEntry(p.hash[t]) /\ p.hash = [u \in T |-> p.hash[u]]
        /\ p = [hash |-> p.hash, chunks |-> p.chunks]
    BY PlannerFacts DEF PlannerOK
  <1>2. /\ x.allocated = p.hash[t].allocated /\ x.addr = p.hash[t].addr
        /\ y.allocated = p.hash[t].allocated /\ y.addr = p.hash[t].addr
    BY <1>1, EntryCounted, Zenon
  <1>3. /\ DropChild(p, t) = [hash |-> [p.hash EXCEPT ![t] = x], chunks |-> p.chunks]
        /\ DropView(p, t) = [hash |-> [p.hash EXCEPT ![t] = y], chunks |-> p.chunks]
    <2>1. /\ DropChild(p, t) = [p EXCEPT !.hash = [p.hash EXCEPT ![t] = x]]
          /\ DropView(p, t) = [p EXCEPT !.hash = [p.hash EXCEPT ![t] = y]]
      BY DEF DropChild, DropView
    <2> QED BY <1>1, <2>1, PlannerHash
  <1>4. PlannerOK(g, DropChild(p, t)) /\ PlannerOK(g, DropView(p, t))
    BY DropGood
  <1> HIDE DEF x, y
  <1>5. Grown(p.chunks, p.chunks)
    BY <1>1, ChunkNat DEF Grown
  <1>6. ASSUME NEW e, e.allocated = p.hash[t].allocated, e.addr = p.hash[t].addr,
               NEW q, q = [hash |-> [p.hash EXCEPT ![t] = e], chunks |-> p.chunks], PlannerOK(g, q)
        PROVE  Placed(g, q, D)
    <2>1. q.hash = [p.hash EXCEPT ![t] = e] /\ q.chunks = p.chunks
      BY <1>6
    <2>2. q.hash = [u \in T |-> IF u = t THEN e ELSE p.hash[u]]
      BY <1>1, <2>1
    <2>3. \A u \in T :
            q.hash[u].addr = p.hash[u].addr /\ (q.hash[u].allocated => p.hash[u].allocated)
      BY <1>6, <2>2
    <2> QED BY <1>5, <1>6, <2>1, <2>3, PlacedKept
  <1> QED BY <1>2, <1>3, <1>4, <1>6

\* "update parents"
LEMMA UpdateParentPlaced ==
    ASSUME AllocOK, LeafsOK, NEW g, GraphOK(g), NEW p, PlannerOK(g, p), NEW D, Placed(g, p, D),
           NEW s \in Tensors(g)
    PROVE  Placed(g, UpdateParent(g, p, s), D)
  <1>1. PlannerOK(g, DropChild(p, s)) /\ Placed(g, DropChild(p, s), D)
    BY DropGood, DropPlaced
  <1>2. Root(g, s) \in Tensors(g)
    BY GraphFacts
  <1>3. ASSUME NEW q, PlannerOK(g, q), Placed(g, q, D)
        PROVE  Placed(g, AfterChild(g, q, s), D)
    <2>1. Placed(g, FreeUnneeded(g, q, s), D)
      BY <1>3, FreeUnneededPlaced
    <2>2. PlannerOK(g, DropView(q, Root(g, s))) /\ Placed(g, DropView(q, Root(g, s)), D)
      BY <1>2, <1>3, DropGood, DropPlaced
    <2>3. Placed(g, FreeUnneeded(g, DropView(q, Root(g, s)), Root(g, s)), D)
      BY <1>2, <2>2, FreeUnneededPlaced
    <2> QED BY <2>1, <2>3 DEF AfterChild
  <1> QED BY <1>1, <1>3 DEF UpdateParent

-----------------------------------------------------------------------------
(* Buffers and plans                                                       *)

TensorAllocs == [addr : Address, size_max : Nat]
InBuffer(bufs, addr, n) == addr.chunk \in DOMAIN bufs /\ addr.off + n <= bufs[addr.chunk]

\* The addresses of a plan, where there are any, and what was planned there; which leafs
\* the graph has that is built next does not matter.
AllocsOK(bufs, allocs) ==
    /\ allocs \in Seq(TensorAllocs)
    /\ \A k \in DOMAIN allocs :
          allocs[k].addr # NoAddr => InBuffer(bufs, allocs[k].addr, allocs[k].size_max)
PlanOK(bufs, pl) == AllocsOK(bufs, pl.dst) /\ AllocsOK(bufs, pl.leaf)

\* A plan has room for the nodes of g and for its leafs.
Suits(g, pl) ==
    /\ \A k \in DOMAIN g : k \in DOMAIN pl.dst /\ Fits(g, NodeTensor(k), pl.dst[k])
    /\ \A t \in DOMAIN leafs : t \in DOMAIN pl.leaf /\ Fits(g, t, pl.leaf[t])

Bounded(g, d, bufs) == \A t \in DOMAIN d : InBuffer(bufs, d[t], AllocSize(g, t))

\* reserve_n_impl(): the buffers are at least as large as what was handed out.
LEMMA BuffersSuffice ==
    ASSUME buffers \in Seq(Nat), NEW cs \in Seq(Chunk)
    PROVE  /\ NewBuffers(cs) \in Seq(Nat)
           /\ \A addr \in Address, n \in Positive :
                InChunk(cs, addr, n) => InBuffer(NewBuffers(cs), addr, n)
  <1>1. \A c \in DOMAIN cs : cs[c].max_size \in Nat
    BY ChunkNat
  <1>2. DOMAIN cs = 1 .. Len(cs) /\ Len(cs) \in Nat
    <2> HIDE DEF Chunk
    <2> QED OBVIOUS
  <1> DEFINE new == [c \in DOMAIN cs |-> cs[c].max_size]
             larger == buffers = <<>> \/ \E c \in DOMAIN cs :
                cs[c].max_size > IF c \in DOMAIN buffers THEN buffers[c] ELSE 0
  <1>3. NewBuffers(cs) = IF larger THEN new ELSE buffers
    BY DEF NewBuffers
  <1>4. new \in Seq(Nat)
    BY <1>1, <1>2
  <1>5. \A addr \in Address, n \in Positive :
            InChunk(cs, addr, n) => InBuffer(new, addr, n)
    BY DEF InChunk, InBuffer
  <1>6. ASSUME ~larger, NEW addr \in Address, NEW n \in Positive, InChunk(cs, addr, n)
        PROVE  InBuffer(buffers, addr, n)
    <2>1. addr.off \in Nat /\ n \in Nat /\ n > 0
      BY DEF Address, Positive
    <2>2. /\ addr.chunk \in DOMAIN cs /\ cs[addr.chunk].max_size \in Nat
          /\ addr.off + n <= cs[addr.chunk].max_size
      BY <1>1, <1>6 DEF InChunk
    <2>3. ~(cs[addr.chunk].max_size >
                IF addr.chunk \in DOMAIN buffers THEN buffers[addr.chunk] ELSE 0)
      BY <1>6, <2>2
    <2>4. CASE addr.chunk \in DOMAIN buffers
      <3>1. buffers[addr.chunk] \in Nat
        BY <2>4
      <3> QED BY <2>1, <2>2, <2>3, <2>4, <3>1 DEF InBuffer
    <2>5. CASE addr.chunk \notin DOMAIN buffers
      BY <2>1, <2>2, <2>3, <2>5
    <2> QED BY <2>4, <2>5
  <1> HIDE DEF new, larger
  <1> QED BY <1>3, <1>4, <1>5, <1>6

\* What a plan binds lies within the buffers when it has room for the nodes.
LEMMA BoundBounded ==
    ASSUME AllocOK, LeafsOK, NEW g, GraphOK(g), NEW bufs \in Seq(Nat), NEW pl,
           PlanOK(bufs, pl), Suits(g, pl)
    PROVE  Bounded(g, Bound(g, pl), bufs)
  <1> DEFINE d == Bound(g, pl)
  <1>1. DOMAIN d = {x \in Tensors(g) : Own(g, x)}
    BY DEF Bound
  <1>2. \A t \in Tensors(g) : t \in Nat /\ AllocSize(g, t) \in Nat
    <2>1. Sz(g) \in [Tensors(g) -> Positive]
      BY SizeFacts
    <2>2. \A t \in Tensors(g) : Sz(g)[t] = AllocSize(g, t)
      BY SizeFacts
    <2>3. \A t \in Tensors(g) : t \in Nat
      BY GraphFacts
    <2> QED BY <2>1, <2>2, <2>3 DEF Positive
  <1>3. ASSUME NEW allocs, AllocsOK(bufs, allocs), NEW k \in DOMAIN allocs,
               NEW t \in Tensors(g), Own(g, t), Fits(g, t, allocs[k])
        PROVE  InBuffer(bufs, allocs[k].addr, AllocSize(g, t))
    <2>1. allocs[k].addr # NoAddr /\ allocs[k].size_max >= AllocSize(g, t)
      BY <1>3 DEF Fits
    <2>2. InBuffer(bufs, allocs[k].addr, allocs[k].size_max) /\ allocs[k] \in TensorAllocs
      BY <1>3, <2>1 DEF AllocsOK
    <2>3. allocs[k].addr.off \in Nat /\ allocs[k].size_max \in Nat
      BY <2>2 DEF TensorAllocs, Address
    <2>4. /\ allocs[k].addr.chunk \in DOMAIN bufs /\ bufs[allocs[k].addr.chunk] \in Nat
          /\ allocs[k].addr.off + allocs[k].size_max <= bufs[allocs[k].addr.chunk]
      BY <2>2 DEF InBuffer
    <2>5. AllocSize(g, t) \in Nat
      BY <1>2
    <2>6. allocs[k].addr.off + AllocSize(g, t) <= bufs[allocs[k].addr.chunk]
      <3>1. \A a, b, c, n \in Nat : a + b <= c /\ b >= n => a + n <= c
        OBVIOUS
      <3> QED BY <2>1, <2>3, <2>4, <2>5, <3>1, Zenon
    <2> QED BY <2>4, <2>6 DEF InBuffer
  <1>4. ASSUME NEW t \in DOMAIN d
        PROVE  InBuffer(bufs, d[t], AllocSize(g, t))
    <2>1. t \in Tensors(g) /\ Own(g, t)
      BY <1>1
    <2>2. CASE IsLeaf(t)
      <3>1. d[t] = pl.leaf[t].addr
        BY <2>1, <2>2 DEF Bound
      <3>2. t \in DOMAIN pl.leaf /\ Fits(g, t, pl.leaf[t])
        BY <2>2 DEF Suits, IsLeaf
      <3> HIDE DEF d
      <3> QED BY <1>3, <2>1, <3>1, <3>2 DEF PlanOK
    <2>3. CASE ~IsLeaf(t)
      <3> DEFINE k == t - Len(leafs)
      <3>1. d[t] = pl.dst[k].addr
        BY <2>1, <2>3 DEF Bound
      <3>2. k \in DOMAIN g /\ NodeTensor(k) = t
        <4>1. k \in DOMAIN g /\ t \in Nat /\ Len(leafs) \in Nat
          BY <2>1, <2>3, GraphFacts
        <4> QED BY <4>1 DEF NodeTensor
      <3> HIDE DEF k
      <3>3. k \in DOMAIN pl.dst /\ Fits(g, t, pl.dst[k])
        BY <3>2 DEF Suits
      <3> HIDE DEF d
      <3> QED BY <1>3, <2>1, <3>1, <3>3 DEF PlanOK
    <2> QED BY <2>2, <2>3
  <1> HIDE DEF d
  <1>5. Bounded(g, d, bufs)
    BY <1>4 DEF Bounded
  <1> QED BY <1>5 DEF d

\* The plan that is made of a planner with every tensor placed.
LEMMA PlanMade ==
    ASSUME AllocOK, LeafsOK, NEW g, GraphOK(g), NEW p, PlannerOK(g, p),
           Placed(g, p, {t \in Tensors(g) : Own(g, t)}), buffers \in Seq(Nat)
    PROVE  PlanOK(NewBuffers(p.chunks), PlanOf(g, p.hash)) /\ Suits(g, PlanOf(g, p.hash))
  <1> DEFINE bufs == NewBuffers(p.chunks)
             pl == PlanOf(g, p.hash)
  <1>1. /\ p.chunks \in Seq(Chunk)
        /\ \A t \in Tensors(g) : p.hash[t].addr \in Address /\ Sz(g)[t] \in Positive
        /\ \A t \in Tensors(g) : Sz(g)[t] = AllocSize(g, t)
    BY PlannerFacts, SizeFacts
  <1>2. \A t \in Tensors(g) : Own(g, t) =>
            /\ InChunk(p.chunks, p.hash[t].addr, AllocSize(g, t))
            /\ p.hash[t].addr # NoAddr
    <2>1. \A t \in Tensors(g) : Own(g, t) => InChunk(p.chunks, p.hash[t].addr, AllocSize(g, t))
      BY <1>1 DEF Placed
    <2>2. \A a : InChunk(p.chunks, NoAddr, a) => FALSE
      BY <1>1, ChunkNat DEF InChunk, NoAddr
    <2> QED BY <2>1, <2>2
  <1>3. \A t \in Tensors(g) : Own(g, t) => InBuffer(bufs, p.hash[t].addr, AllocSize(g, t))
    BY <1>1, <1>2, BuffersSuffice
  <1>4. \A t \in Tensors(g) : TensorAlloc(g, p.hash, t) \in TensorAllocs
    BY <1>1 DEF TensorAlloc, NoAlloc, NoAddr, TensorAllocs, Address, Positive
  <1>5. /\ Len(leafs) \in Nat /\ DOMAIN leafs = 1 .. Len(leafs)
        /\ Len(g) \in Nat /\ DOMAIN g = 1 .. Len(g)
    BY GraphFacts
  <1>6. \A k \in DOMAIN g : NodeTensor(k) \in Tensors(g) /\ ~IsLeaf(NodeTensor(k))
    BY <1>5 DEF NodeTensor, Tensors, IsLeaf
  <1>7. \A t \in DOMAIN leafs : t \in Tensors(g)
    BY <1>5 DEF Tensors
  <1>8. /\ pl.dst = [k \in 1 .. Len(g) |-> TensorAlloc(g, p.hash, NodeTensor(k))]
        /\ pl.leaf = [t \in DOMAIN leafs |-> TensorAlloc(g, p.hash, t)]
    BY <1>5 DEF PlanOf
  <1> HIDE DEF pl, bufs
  <1>9. /\ pl.dst \in Seq(TensorAllocs) /\ DOMAIN pl.dst = DOMAIN g
        /\ pl.leaf \in Seq(TensorAllocs) /\ DOMAIN pl.leaf = DOMAIN leafs
    <2> HIDE DEF TensorAllocs
    <2>1. /\ DOMAIN pl.dst = DOMAIN g /\ Len(g) \in Nat
          /\ pl.dst = [k \in 1 .. Len(g) |-> TensorAlloc(g, p.hash, NodeTensor(k))]
      BY <1>5, <1>8
    <2>2. \A k \in 1 .. Len(g) : TensorAlloc(g, p.hash, NodeTensor(k)) \in TensorAllocs
      BY <1>4, <1>5, <1>6
    <2>3. pl.dst \in Seq(TensorAllocs)
      BY <2>1, <2>2
    <2>4. /\ DOMAIN pl.leaf = DOMAIN leafs /\ Len(leafs) \in Nat
          /\ pl.leaf = [t \in 1 .. Len(leafs) |-> TensorAlloc(g, p.hash, t)]
      BY <1>5, <1>8
    <2>5. \A t \in 1 .. Len(leafs) : TensorAlloc(g, p.hash, t) \in TensorAllocs
      BY <1>4, <1>5, <1>7
    <2>6. pl.leaf \in Seq(TensorAllocs)
      BY <2>4, <2>5
    <2> QED BY <2>1, <2>3, <2>4, <2>6
  <1>10. ASSUME NEW t \in Tensors(g), NEW x, x = TensorAlloc(g, p.hash, t)
         PROVE  /\ x.addr # NoAddr => InBuffer(bufs, x.addr, x.size_max)
                /\ Fits(g, t, x)
    <2>1. CASE Own(g, t)
      <3>1. x.addr = p.hash[t].addr /\ x.size_max = AllocSize(g, t)
        BY <1>10, <2>1 DEF TensorAlloc
      <3>2. AllocSize(g, t) >= AllocSize(g, t)
        <4>1. AllocSize(g, t) \in Positive
          BY <1>1
        <4> QED BY <4>1 DEF Positive
      <3> QED BY <1>2, <1>3, <2>1, <3>1, <3>2 DEF Fits
    <2>2. CASE ~Own(g, t)
      BY <1>10, <2>2 DEF TensorAlloc, NoAlloc, Fits
    <2> QED BY <2>1, <2>2
  <1>11. \A k \in DOMAIN g :
            /\ pl.dst[k].addr # NoAddr => InBuffer(bufs, pl.dst[k].addr, pl.dst[k].size_max)
            /\ Fits(g, NodeTensor(k), pl.dst[k])
    <2>1. \A k \in DOMAIN g : NodeTensor(k) \in Tensors(g) /\ pl.dst[k] = TensorAlloc(g, p.hash, NodeTensor(k))
      BY <1>5, <1>6, <1>8
    <2> QED BY <1>10, <2>1
  <1>12. \A t \in DOMAIN leafs :
            /\ pl.leaf[t].addr # NoAddr => InBuffer(bufs, pl.leaf[t].addr, pl.leaf[t].size_max)
            /\ Fits(g, t, pl.leaf[t])
    <2>1. \A t \in DOMAIN leafs : t \in Tensors(g) /\ pl.leaf[t] = TensorAlloc(g, p.hash, t)
      BY <1>7, <1>8
    <2> QED BY <1>10, <2>1
  <1>13. PlanOK(bufs, pl) /\ Suits(g, pl)
    BY <1>9, <1>11, <1>12 DEF PlanOK, AllocsOK, Suits
  <1> QED BY <1>13 DEF bufs, pl

\* A plan that is kept has room for the new graph.
LEMMA KeptSuits ==
    ASSUME LeafsOK, NEW g, GraphOK(g), ~NeedsRealloc(g), NEW pl \in plan, PlanOK(buffers, pl),
           "leafs" \in Common, Alike(g, pl)
    PROVE  Suits(g, pl)
  <1>1. /\ Len(pl.dst) = Len(g) /\ Len(pl.leaf) = Len(leafs)
        /\ \A k \in DOMAIN g : Fits(g, NodeTensor(k), pl.dst[k])
    BY DEF NeedsRealloc
  <1>2. DOMAIN pl.dst = DOMAIN g /\ DOMAIN pl.leaf = DOMAIN leafs
    <2>1. /\ pl.dst \in Seq(TensorAllocs) /\ pl.leaf \in Seq(TensorAllocs)
          /\ g \in Seq(NodeRecord) /\ leafs \in Seq([layout : Layouts, ext : BOOLEAN])
      BY DEF PlanOK, AllocsOK, GraphOK, LeafsOK
    <2> HIDE DEF TensorAllocs, NodeRecord
    <2>2. /\ DOMAIN pl.dst = 1 .. Len(pl.dst) /\ DOMAIN g = 1 .. Len(g)
          /\ DOMAIN pl.leaf = 1 .. Len(pl.leaf) /\ DOMAIN leafs = 1 .. Len(leafs)
      BY <2>1
    <2> QED BY <1>1, <2>2
  <1>3. \A t \in DOMAIN leafs : Fits(g, t, pl.leaf[t])
    BY DEF Alike
  <1> QED BY <1>1, <1>2, <1>3 DEF Suits

-----------------------------------------------------------------------------
(* The inductive invariant: the one of GraphAllocProof; while a graph is   *)
(* planned, the tensors that were reached are placed; a plan that is kept  *)
(* lies within the buffers, and so does every graph that is computed.      *)

Passed(t) ==
    IF next = 0 THEN t < step
    ELSE t < NodeTensor(next) \/ (t = NodeTensor(next) /\ step > Sources + 1)
Done == {t \in Tensors(graph) : Own(graph, t) /\ Passed(t)}

BufferInv ==
    /\ Inv
    /\ buffers \in Seq(Nat)
    /\ \A pl \in plan : PlanOK(buffers, pl)
    /\ phase = "plan" => Placed(graph, Planner, Done)
    /\ phase \in {"compute", "read"} => Bounded(graph, data, buffers)

\* While the leafs stay, the next state's facts are about its graph.
LEMMA LeafsStayPlaced ==
    ASSUME leafs' = leafs
    PROVE  /\ \A D : Placed(graph', Planner', D) /\ Done' \subseteq D => Placed(graph, Planner, Done)'
           /\ Bounded(graph', data', buffers') => Bounded(graph, data, buffers)'
  <1>1. Tensors(graph') = Tensors(graph)'
    BY DEF Tensors
  <1>2. Sz(graph') = Sz(graph)'
    BY Zenon DEF Sz, Tensors, AllocSize, Size, Layout, IsLeaf, Node
  <1>3. \A D : Placed(graph', Planner', D) /\ Done' \subseteq D => Placed(graph, Planner, Done)'
    BY <1>1, <1>2 DEF Placed, Planner
  <1>4. \A t : AllocSize(graph', t) = AllocSize(graph, t)'
    BY Zenon DEF AllocSize, Size, Layout, IsLeaf, Node
  <1>5. Bounded(graph', data', buffers') => Bounded(graph, data, buffers)'
    BY <1>4 DEF Bounded, InBuffer
  <1> QED BY <1>3, <1>5

\* The plans there are stay good as long as plan and buffers do not change.
LEMMA PlansStay ==
    ASSUME BufferInv, buffers' = buffers, plan' = plan
    PROVE  buffers' \in Seq(Nat) /\ (\A pl \in plan : PlanOK(buffers, pl))'
  BY DEF BufferInv, PlanOK

\* A step that is not one of planning or computing.
LEMMA OtherStep ==
    ASSUME AllocOK, BufferInv, [Next]_vars, buffers' = buffers, plan' = plan,
           phase' \notin {"plan", "compute", "read"}
    PROVE  BufferInv'
  <1>1. Inv'
    BY NextInv DEF BufferInv
  <1> QED BY <1>1, PlansStay DEF BufferInv

\* Which tensors a step of the planner has passed: one more at most.
LEMMA DoneAfter ==
    ASSUME LeafsOK, GraphOK(graph), Position, phase' = phase, leafs' = leafs, graph' = graph,
           NEW last \in Nat, Advance(last),
           \/ next = 0 /\ last = Len(leafs)
           \/ next \in DOMAIN graph /\ last = 2 * Sources + 1 /\ step <= last
    PROVE  \A t \in Done' :
                \/ t \in Done
                \/ Own(graph, t) /\ t = (IF next = 0 THEN step ELSE NodeTensor(next))
                     /\ (next # 0 => step = Sources + 1)
  <1>1. /\ Len(leafs) \in Nat /\ Len(leafs) > 0
        /\ next \in Nat /\ step \in Nat /\ step > 0
        /\ DOMAIN graph = 1 .. Len(graph) /\ Len(graph) \in Nat
    BY DEF LeafsOK, GraphOK, Position, Positive
  <1>2. \A k \in DOMAIN graph : Len(graph[k].src) \in Nat
    <2>1. \A k \in DOMAIN graph : graph[k] \in NodeRecord
      BY DEF GraphOK
    <2> QED BY <2>1 DEF NodeRecord
  <1>3. \A t : Own(graph, t)' <=> Own(graph, t)
    BY DEF Own, External, IsView, IsLeaf, Node
  <1>4. Tensors(graph)' = Tensors(graph)
    BY DEF Tensors
  <1>5. SUFFICES ASSUME NEW t \in Done', t \notin Done
                 PROVE  Own(graph, t) /\ t = (IF next = 0 THEN step ELSE NodeTensor(next))
                          /\ (next # 0 => step = Sources + 1)
    OBVIOUS
  <1>6. t \in Tensors(graph) /\ Own(graph, t) /\ Passed(t)' /\ ~Passed(t)
    BY <1>3, <1>4, <1>5 DEF Done
  <1>7. t \in Nat /\ t >= 1 /\ t <= Len(leafs) + Len(graph)
    BY <1>1, <1>6 DEF Tensors
  <1>8. NodeTensor(next)' = Len(leafs) + next' /\ NodeTensor(next) = Len(leafs) + next
    BY DEF NodeTensor
  <1>9. Passed(t)' <=> IF next' = 0 THEN t < step'
                       ELSE t < Len(leafs) + next' \/
                            (t = Len(leafs) + next' /\ step' > Len(graph[next'].src) + 1)
    BY <1>8 DEF Passed, Sources
  <1>10. Passed(t) <=> IF next = 0 THEN t < step
                       ELSE t < Len(leafs) + next \/
                            (t = Len(leafs) + next /\ step > Len(graph[next].src) + 1)
    BY <1>8 DEF Passed, Sources
  <1>11. /\ next' = IF step = last THEN next + 1 ELSE next
         /\ step' = IF step = last THEN 1 ELSE step + 1
    BY DEF Advance
  <1>12. ASSUME t = Len(leafs) + next' PROVE next' > 0 => next' \in DOMAIN graph
    BY <1>1, <1>7, <1>11, <1>12
  <1>13. CASE next = 0 /\ last = Len(leafs)
    <2>1. CASE step = last
      <3>1. next' = 1 /\ step' = 1
        BY <1>11, <1>13, <2>1
      <3>2. ~(t = Len(leafs) + next' /\ step' > Len(graph[next'].src) + 1)
        BY <1>2, <1>12, <3>1
      <3>3. t < Len(leafs) + 1
        BY <1>6, <1>9, <3>1, <3>2
      <3> QED BY <1>1, <1>6, <1>7, <1>10, <1>13, <2>1, <3>3
    <2>2. CASE step # last
      BY <1>1, <1>6, <1>7, <1>9, <1>10, <1>11, <1>13, <2>2
    <2> QED BY <2>1, <2>2
  <1>14. CASE next \in DOMAIN graph /\ last = 2 * Sources + 1 /\ step <= last
    <2>1. Sources \in Nat /\ Sources = Len(graph[next].src) /\ next # 0 /\ next > 0
      BY <1>1, <1>2, <1>14 DEF Sources
    <2>2. CASE step = last
      <3>1. next' = next + 1 /\ step' = 1
        BY <1>11, <2>2
      <3>2. ~(t = Len(leafs) + next' /\ step' > Len(graph[next'].src) + 1)
        BY <1>1, <1>2, <1>12, <3>1
      <3>3. t < Len(leafs) + next + 1
        BY <1>1, <1>6, <1>9, <3>1, <3>2
      <3>4. t = Len(leafs) + next /\ ~(step > Sources + 1)
        BY <1>1, <1>6, <1>7, <1>10, <2>1, <3>3
      <3>5. step = Sources + 1
        BY <1>1, <1>14, <2>1, <2>2, <3>4
      <3> QED BY <1>6, <1>8, <2>1, <3>4, <3>5
    <2>3. CASE step # last
      <3>1. next' = next /\ step' = step + 1
        BY <1>11, <2>3
      <3>2. t = Len(leafs) + next /\ ~(step > Sources + 1) /\ step + 1 > Sources + 1
        BY <1>1, <1>6, <1>7, <1>9, <1>10, <2>1, <3>1
      <3>3. step = Sources + 1
        BY <1>1, <2>1, <3>2
      <3> QED BY <1>6, <1>8, <2>1, <3>2, <3>3
    <2> QED BY <2>2, <2>3
  <1> QED BY <1>13, <1>14

\* A step of the planner that becomes p and passes what p has placed.
LEMMA PlannerStepPlaced ==
    ASSUME AllocOK, BufferInv, [Next]_vars, NEW p, p = [hash |-> p.hash, chunks |-> p.chunks],
           Becomes(p), phase' = "plan",
           leafs' = leafs, graph' = graph, buffers' = buffers, plan' = plan,
           NEW D, Placed(graph, p, D), Done' \subseteq D
    PROVE  BufferInv'
  <1>1. Inv'
    BY NextInv DEF BufferInv
  <1>2. Planner' = p
    BY DEF Planner, Becomes
  <1>3. Placed(graph, Planner, Done)'
    BY <1>2, LeafsStayPlaced
  <1> QED BY <1>1, <1>3, PlansStay DEF BufferInv

\* A leaf is planned: it has its address, unless it has data of its own.
LEMMA PlanLeafBuffer == ASSUME AllocOK, BufferInv, PlanLeaf PROVE BufferInv'
  <1>1. /\ Inv /\ LeafsOK /\ GraphOK(graph) /\ PlannerOK(graph, Planner) /\ Position
        /\ Placed(graph, Planner, Done)
        /\ next = 0 /\ step <= Len(leafs) /\ step \in Positive
        /\ leafs' = leafs /\ graph' = graph /\ phase' = "plan" /\ phase = "plan"
        /\ buffers' = buffers /\ plan' = plan
    BY DEF PlanLeaf, BufferInv, Inv, Position, Advance
  <1>2. Len(leafs) \in Nat /\ Len(graph) \in Nat
    BY <1>1 DEF LeafsOK, GraphOK
  <1>3. step \in Tensors(graph)
    BY <1>1, <1>2 DEF Tensors, Positive
  <1>4. PICK p \in AllocateNode(graph, Planner, step) : Becomes(p)
    BY DEF PlanLeaf
  <1>5. PlannerOK(graph, p)
    BY <1>1, <1>3, <1>4, AllocateNodeGood
  <1>6. /\ Placed(graph, p, Done)
        /\ Own(graph, step) => Placed(graph, p, Done \cup {step})
    BY <1>1, <1>3, <1>4, AllocateNodePlaced
  <1>7. \A t \in Done' : t \in Done \/ (Own(graph, step) /\ t = step)
    BY <1>1, <1>2, DoneAfter DEF PlanLeaf
  <1>8. PICK D : Placed(graph, p, D) /\ Done' \subseteq D
    <2>1. CASE Own(graph, step)
      BY <1>6, <1>7, <2>1
    <2>2. CASE ~Own(graph, step)
      BY <1>6, <1>7, <2>2
    <2> QED BY <2>1, <2>2
  <1>9. [Next]_vars
    BY DEF Next
  <1> QED BY <1>1, <1>4, <1>5, <1>8, <1>9, PlannerStepPlaced DEF PlannerOK

\* A node, or one of its sources, is planned: it has its address, unless it is a view.
LEMMA PlanNodeBuffer == ASSUME AllocOK, BufferInv, PlanNode PROVE BufferInv'
  <1> DEFINE s == IF step <= Sources THEN graph[next].src[step] ELSE NodeTensor(next)
  <1>1. /\ Inv /\ LeafsOK /\ GraphOK(graph) /\ PlannerOK(graph, Planner) /\ Position
        /\ Placed(graph, Planner, Done)
        /\ next \in DOMAIN graph /\ step \in Positive /\ step <= 2 * Sources + 1
        /\ leafs' = leafs /\ graph' = graph /\ phase' = "plan" /\ phase = "plan"
        /\ buffers' = buffers /\ plan' = plan
    BY DEF PlanNode, BufferInv, Inv, Position, Advance
  <1>2. /\ Sources \in Nat /\ NodeTensor(next) \in Tensors(graph)
        /\ \A j \in 1 .. Sources : graph[next].src[j] \in Tensors(graph)
    BY <1>1, NextSource
  <1>3. s \in Tensors(graph)
    <2>1. CASE step <= Sources
      <3>1. step \in 1 .. Sources
        BY <1>1, <1>2, <2>1 DEF Positive
      <3> QED BY <1>2, <2>1, <3>1
    <2>2. CASE ~(step <= Sources)
      BY <1>2, <2>2
    <2> QED BY <2>1, <2>2
  <1>4. PICK p \in AllocateNode(graph, Planner, s) : Becomes(p)
    BY DEF PlanNode
  <1>5. PlannerOK(graph, p)
    BY <1>1, <1>3, <1>4, AllocateNodeGood
  <1>6. /\ Placed(graph, p, Done)
        /\ Own(graph, s) => Placed(graph, p, Done \cup {s})
    BY <1>1, <1>3, <1>4, AllocateNodePlaced
  <1>7. Sources \in Nat /\ 2 * Sources + 1 \in Nat /\ next # 0
    BY <1>1, <1>2, NextNode
  <1>8. \A t \in Done' : t \in Done \/ (Own(graph, t) /\ t = NodeTensor(next) /\ step = Sources + 1)
    BY <1>1, <1>7, DoneAfter DEF PlanNode
  <1>9. step = Sources + 1 => s = NodeTensor(next)
    BY <1>7
  <1>10. PICK D : Placed(graph, p, D) /\ Done' \subseteq D
    <2> HIDE DEF s
    <2>1. CASE Own(graph, s)
      BY <1>6, <1>8, <1>9, <2>1
    <2>2. CASE ~Own(graph, s)
      BY <1>6, <1>8, <1>9, <2>2
    <2> QED BY <2>1, <2>2
  <1>11. [Next]_vars
    BY DEF Next
  <1> QED BY <1>1, <1>4, <1>5, <1>10, <1>11, PlannerStepPlaced DEF PlannerOK

\* A source of the node is updated.
LEMMA PlanParentBuffer == ASSUME AllocOK, BufferInv, PlanParent PROVE BufferInv'
  <1> DEFINE j == step - Sources - 1
             p == UpdateParent(graph, Planner, graph[next].src[j])
  <1>1. /\ Inv /\ LeafsOK /\ GraphOK(graph) /\ PlannerOK(graph, Planner) /\ Position
        /\ Placed(graph, Planner, Done)
        /\ next \in DOMAIN graph /\ step \in Positive /\ step <= 2 * Sources + 1
        /\ leafs' = leafs /\ graph' = graph /\ phase' = "plan" /\ phase = "plan"
        /\ buffers' = buffers /\ plan' = plan /\ step > Sources + 1
    BY DEF PlanParent, BufferInv, Inv, Position, Advance
  <1>2. /\ Sources \in Nat
        /\ \A k \in 1 .. Sources : graph[next].src[k] \in Tensors(graph)
    BY <1>1, NextSource
  <1>3. j \in 1 .. Sources
    BY <1>1, <1>2 DEF Positive
  <1>4. next # 0
    BY <1>1, NextNode
  <1>5. graph[next].src[j] \in Tensors(graph)
    <2> HIDE DEF j
    <2> QED BY <1>2, <1>3
  <1>6. PlannerOK(graph, p) /\ Placed(graph, p, Done)
    BY <1>1, <1>5, UpdateParentGood, UpdateParentPlaced
  <1>7. Becomes(p)
    BY DEF PlanParent
  <1>8. Sources \in Nat /\ 2 * Sources + 1 \in Nat /\ next # 0 /\ step # Sources + 1
    BY <1>1, <1>2, <1>4 DEF Positive
  <1>9. Done' \subseteq Done
    BY <1>1, <1>8, DoneAfter DEF PlanParent
  <1>10. [Next]_vars
    BY DEF Next
  <1> HIDE DEF p
  <1> QED BY <1>1, <1>6, <1>7, <1>9, <1>10, PlannerStepPlaced DEF PlannerOK

\* What is bound when a graph is to be computed.
LEMMA BindBuffer ==
    ASSUME AllocOK, Inv, Inv', NEW g, GraphOK(g), NEW bufs \in Seq(Nat), NEW pl,
           PlanOK(bufs, pl), Suits(g, pl), Bind(g, pl, bufs), buffers' = bufs, leafs' = leafs,
           (\A x \in plan : PlanOK(buffers, x))'
    PROVE  BufferInv'
  <1>1. Bounded(g, Bound(g, pl), bufs)
    BY BoundBounded DEF Inv
  <1>2. phase' = "compute" /\ graph' = g /\ data' = Bound(g, pl)
    BY DEF Bind
  <1>3. Bounded(graph, data, buffers)'
    BY <1>1, <1>2, LeafsStayPlaced
  <1> QED BY <1>2, <1>3 DEF BufferInv

\* A plan is started, with nothing placed, or an old one is kept that has room.
LEMMA AllocGraphBuffer ==
    ASSUME AllocOK, "leafs" \in Common, BufferInv, AllocGraph PROVE BufferInv'
  <1>1. Inv /\ LeafsOK /\ GraphOK(graph) /\ buffers \in Seq(Nat)
    BY DEF BufferInv, Inv
  <1>2. Inv'
    BY <1>1, AllocGraphInv
  <1>3. PICK outs : LET g == Marked(graph, outs)
                    IN  \/ StartPlan(g)
                        \/ /\ ~NeedsRealloc(g)
                           /\ \E pl \in plan : Alike(g, pl) /\ Bind(g, pl, buffers)
                           /\ leafs' = leafs /\ buffers' = buffers /\ plan' = plan
    BY DEF AllocGraph
  <1> DEFINE g == Marked(graph, outs)
  <1>4. GraphOK(g)
    BY <1>1, MarkedOK
  <1> HIDE DEF g
  <1>5. CASE StartPlan(g)
    <2>1. /\ leafs' = leafs /\ graph' = g /\ next' = 0 /\ step' = 1 /\ phase' = "plan"
          /\ buffers' = buffers /\ plan' = plan
      BY <1>5 DEF StartPlan
    <2>2. Planner' = [hash |-> Counted(g), chunks |-> <<>>]
      BY <1>5 DEF StartPlan, Planner
    <2>3. Done' \subseteq {}
      <3>1. Tensors(graph)' = 1 .. Len(leafs) + Len(g)
        BY <2>1 DEF Tensors
      <3>2. \A t \in Tensors(graph)' : ~(t < 1)
        BY <1>1, <1>4, <3>1 DEF LeafsOK, GraphOK
      <3>3. \A t : Passed(t)' <=> t < 1
        BY <2>1 DEF Passed
      <3> QED BY <3>2, <3>3 DEF Done
    <2>4. Placed(graph, Planner, Done)'
      BY <2>1, <2>2, <2>3, CountedPlaced, LeafsStayPlaced
    <2> QED BY <1>2, <2>1, <2>4, PlansStay DEF BufferInv
  <1>6. CASE /\ ~NeedsRealloc(g)
             /\ \E pl \in plan : Alike(g, pl) /\ Bind(g, pl, buffers)
             /\ leafs' = leafs /\ buffers' = buffers /\ plan' = plan
    <2>1. PICK pl \in plan : Alike(g, pl) /\ Bind(g, pl, buffers)
      BY <1>6
    <2>2. PlanOK(buffers, pl) /\ Suits(g, pl)
      BY <1>1, <1>4, <1>6, <2>1, KeptSuits DEF BufferInv
    <2> QED BY <1>1, <1>2, <1>4, <1>6, <2>1, <2>2, BindBuffer, PlansStay
  <1> QED BY <1>3, <1>5, <1>6 DEF g

\* reserve_n_impl() ends: the new plan lies within the new buffers.
LEMMA CommitBuffer == ASSUME AllocOK, BufferInv, Commit PROVE BufferInv'
  <1>1. /\ Inv /\ LeafsOK /\ GraphOK(graph) /\ PlannerOK(graph, Planner) /\ Position
        /\ Placed(graph, Planner, Done) /\ buffers \in Seq(Nat)
        /\ next > Len(graph)
    BY DEF Commit, BufferInv, Inv
  <1>2. Inv'
    BY <1>1, NextInv DEF Next
  <1> DEFINE pl == PlanOf(graph, hash)
  <1>3. Planner.hash = hash /\ Planner.chunks = chunks
    BY DEF Planner
  <1>4. Placed(graph, Planner, {t \in Tensors(graph) : Own(graph, t)})
    <2>1. Len(leafs) \in Nat /\ Len(graph) \in Nat /\ next \in Nat
      BY <1>1 DEF LeafsOK, GraphOK, Position
    <2>2. \A t \in Tensors(graph) : Passed(t)
      BY <1>1, <2>1 DEF Passed, NodeTensor, Tensors
    <2> QED BY <1>1, <2>2 DEF Placed, Done
  <1>5. PlanOK(NewBuffers(chunks), pl) /\ Suits(graph, pl)
    BY <1>1, <1>3, <1>4, PlanMade
  <1>6. NewBuffers(chunks) \in Seq(Nat)
    BY <1>1, <1>3, PlannerFacts, BuffersSuffice
  <1>7. buffers' = NewBuffers(chunks) /\ plan' = {pl}
    BY DEF Commit
  <1> HIDE DEF pl
  <1>8. (\A x \in plan : PlanOK(buffers, x))'
    BY <1>1, <1>5, <1>7 DEF PlanOK
  <1>9. CASE Bind(graph, pl, buffers') /\ leafs' = leafs
    BY <1>1, <1>2, <1>5, <1>6, <1>7, <1>8, <1>9, BindBuffer
  <1>10. CASE phase' = "build"
    BY <1>2, <1>6, <1>7, <1>8, <1>10 DEF BufferInv
  <1> QED BY <1>9, <1>10 DEF Commit, NewGraph, pl

\* The invariant is kept by every step.
LEMMA NextBuffer ==
    ASSUME AllocOK, "leafs" \in Common, BufferInv, [Next]_vars PROVE BufferInv'
  <1>1. CASE AddNode \/ NextGraph
    <2>1. buffers' = buffers /\ plan' = plan /\ phase' = "build"
      BY <1>1 DEF AddNode, NextGraph, NewGraph
    <2> QED BY <2>1, OtherStep
  <1>2. CASE AllocGraph
    BY <1>2, AllocGraphBuffer
  <1>3. CASE PlanLeaf
    BY <1>3, PlanLeafBuffer
  <1>4. CASE PlanNode
    BY <1>4, PlanNodeBuffer
  <1>5. CASE PlanParent
    BY <1>5, PlanParentBuffer
  <1>6. CASE Commit
    BY <1>6, CommitBuffer
  <1>7. CASE ComputeNode
    <2>1. /\ leafs' = leafs /\ buffers' = buffers /\ plan' = plan /\ graph' = graph /\ data' = data
          /\ phase = "compute" /\ phase' \in {"compute", "read"}
      BY <1>7 DEF ComputeNode
    <2>2. Inv'
      BY NextInv DEF BufferInv
    <2>3. Bounded(graph, data, buffers)'
      BY <2>1, LeafsStayPlaced DEF BufferInv
    <2> QED BY <2>1, <2>2, <2>3, PlansStay DEF BufferInv
  <1>8. CASE UNCHANGED vars
    <2>1. /\ leafs' = leafs /\ buffers' = buffers /\ plan' = plan /\ graph' = graph /\ data' = data
          /\ phase = phase' /\ next' = next /\ step' = step /\ hash' = hash /\ chunks' = chunks
      BY <1>8 DEF vars
    <2>2. Inv'
      BY NextInv DEF BufferInv
    <2>3. Bounded(graph, data, buffers) => Bounded(graph, data, buffers)'
      BY <2>1, LeafsStayPlaced
    <2>4. Done' = Done
      BY <2>1 DEF Done, Tensors, Own, External, IsView, IsLeaf, Node, Passed, NodeTensor, Sources
    <2>5. Planner' = Planner
      BY <2>1 DEF Planner
    <2>6. Placed(graph, Planner, Done) => Placed(graph, Planner, Done)'
      BY <2>1, <2>4, <2>5, LeafsStayPlaced
    <2> QED BY <2>1, <2>2, <2>3, <2>6, PlansStay DEF BufferInv
  <1> QED BY <1>1, <1>2, <1>3, <1>4, <1>5, <1>6, <1>7, <1>8 DEF Next

\* Every tensor of a graph that is computed lies within the buffer of its chunk, however
\* many graphs and leafs came after those the plan and the buffers were made for; provided
\* that each leaf fits where the plan has one of its index, "leafs" \in Common, which
\* needs_realloc() does not check: it compares their number.
THEOREM AllWithinBuffer == "leafs" \in Common => (Spec => []WithinBuffer)
  <1> SUFFICES ASSUME "leafs" \in Common PROVE Spec => []WithinBuffer
    OBVIOUS
  <1>1. Init => BufferInv
    <2> SUFFICES ASSUME Init PROVE BufferInv
      OBVIOUS
    <2>1. Inv
      BY AllocOK, InitInv
    <2>2. buffers \in Seq(Nat) /\ plan = {} /\ phase = "build"
      BY DEF Init
    <2> QED BY <2>1, <2>2 DEF BufferInv
  <1>2. BufferInv /\ [Next]_vars => BufferInv'
    BY AllocOK, NextBuffer
  <1>3. BufferInv => WithinBuffer
    BY DEF BufferInv, WithinBuffer, Bounded, InBuffer
  <1> QED BY <1>1, <1>2, <1>3, PTL DEF Spec

-----------------------------------------------------------------------------
(* What the operations of the planner do to the table of entries.          *)

\* The counters of an entry: a child less, a view less, and when its memory changes.
LEMMA EntryChildren ==
    ASSUME NEW x, IsEntry(x), NEW n
    PROVE  LET y == [x EXCEPT !.children = n]
           IN  y.children = n /\ y.views = x.views
  <1> DEFINE r == [children |-> x.children, views |-> x.views,
                   allocated |-> x.allocated, addr |-> x.addr]
             y == [r EXCEPT !.children = n]
  <1>1. x = r
    BY DEF IsEntry
  <1>2. y.children = n /\ y.views = x.views
    OBVIOUS
  <1> HIDE DEF r
  <1> QED BY <1>1, <1>2, Zenon

\* A view less.
LEMMA EntryViews ==
    ASSUME NEW x, IsEntry(x), NEW n
    PROVE  LET y == [x EXCEPT !.views = n]
           IN  y.views = n /\ y.children = x.children
  <1> DEFINE r == [children |-> x.children, views |-> x.views,
                   allocated |-> x.allocated, addr |-> x.addr]
             y == [r EXCEPT !.views = n]
  <1>1. x = r
    BY DEF IsEntry
  <1>2. y.views = n /\ y.children = x.children
    OBVIOUS
  <1> HIDE DEF r
  <1> QED BY <1>1, <1>2, Zenon

\* Its memory is given back.
LEMMA EntryFlagged ==
    ASSUME NEW x, IsEntry(x), NEW n
    PROVE  LET y == [x EXCEPT !.allocated = n]
           IN  y.children = x.children /\ y.views = x.views
  <1> DEFINE r == [children |-> x.children, views |-> x.views,
                   allocated |-> x.allocated, addr |-> x.addr]
             y == [r EXCEPT !.allocated = n]
  <1>1. x = r
    BY DEF IsEntry
  <1>2. y.children = x.children /\ y.views = x.views
    OBVIOUS
  <1> HIDE DEF r
  <1> QED BY <1>1, <1>2, Zenon

\* It gets memory.
LEMMA EntryMoved ==
    ASSUME NEW x, IsEntry(x), NEW d \in Address
    PROVE  LET y == [x EXCEPT !.allocated = TRUE, !.addr = d]
           IN  y.children = x.children /\ y.views = x.views
  <1> DEFINE r == [children |-> x.children, views |-> x.views,
                   allocated |-> x.allocated, addr |-> x.addr]
             y == [r EXCEPT !.allocated = TRUE, !.addr = d]
  <1>1. x = r
    BY DEF IsEntry
  <1>2. y.children = x.children /\ y.views = x.views
    OBVIOUS
  <1> HIDE DEF r
  <1> QED BY <1>1, <1>2, Zenon

\* Which fields of two tables agree.
SameCounts(g, h, k) ==
    \A u \in Tensors(g) : k[u].children = h[u].children /\ k[u].views = h[u].views
SameMemory(g, h, k) ==
    \A u \in Tensors(g) : k[u].allocated = h[u].allocated /\ k[u].addr = h[u].addr

\* What counting down a child or a view, and freeing, do.
ChildDropped(g, p, q, t) ==
    /\ q.chunks = p.chunks
    /\ SameMemory(g, p.hash, q.hash)
    /\ \A u \in Tensors(g) :
          /\ q.hash[u].views = p.hash[u].views
          /\ q.hash[u].children = IF u = t THEN p.hash[t].children - 1 ELSE p.hash[u].children
ViewDropped(g, p, q, t) ==
    /\ q.chunks = p.chunks
    /\ SameMemory(g, p.hash, q.hash)
    /\ \A u \in Tensors(g) :
          /\ q.hash[u].children = p.hash[u].children
          /\ q.hash[u].views = IF u = t THEN p.hash[t].views - 1 ELSE p.hash[u].views
Freed(g, p, t) == Unneeded(p, t) /\ p.hash[t].allocated /\ ~IsOutput(g, t)
FreedFrom(g, p, q, t) ==
    /\ SameCounts(g, p.hash, q.hash)
    /\ \A u \in Tensors(g) : q.hash[u].addr = p.hash[u].addr
    /\ \A u \in Tensors(g) : u # t => q.hash[u].allocated = p.hash[u].allocated
    /\ q.hash[t].allocated = (p.hash[t].allocated /\ ~Freed(g, p, t))
    /\ q.chunks = IF Freed(g, p, t) THEN FreeBytes(p.chunks, p.hash[t].addr, AllocSize(g, t))
                  ELSE p.chunks

\* "n_children -= 1"
LEMMA DropChildEffect ==
    ASSUME AllocOK, LeafsOK, NEW g, GraphOK(g), NEW p, PlannerOK(g, p), NEW t \in Tensors(g)
    PROVE  ChildDropped(g, p, DropChild(p, t), t)
  <1> DEFINE T == Tensors(g)
             n == p.hash[t].children - 1
             x == [p.hash[t] EXCEPT !.children = n]
             q == DropChild(p, t)
  <1>1. /\ IsEntry(p.hash[t]) /\ p.hash = [u \in T |-> p.hash[u]]
        /\ p = [hash |-> p.hash, chunks |-> p.chunks]
    BY PlannerFacts DEF PlannerOK
  <1>2. x.allocated = p.hash[t].allocated /\ x.addr = p.hash[t].addr
    BY <1>1, EntryCounted, Zenon
  <1>3. x.children = n /\ x.views = p.hash[t].views
    BY <1>1, EntryChildren, Zenon
  <1>4. q = [hash |-> [p.hash EXCEPT ![t] = x], chunks |-> p.chunks]
    <2>1. q = [p EXCEPT !.hash = [p.hash EXCEPT ![t] = x]]
      BY DEF DropChild
    <2> QED BY <1>1, <2>1, PlannerHash
  <1> HIDE DEF x, q
  <1>5. q.hash = [u \in T |-> IF u = t THEN x ELSE p.hash[u]] /\ q.chunks = p.chunks
    <2>1. q.hash = [p.hash EXCEPT ![t] = x] /\ q.chunks = p.chunks
      BY <1>4
    <2> QED BY <1>1, <2>1
  <1>6. SameMemory(g, p.hash, q.hash)
    BY <1>2, <1>5 DEF SameMemory
  <1> QED BY <1>3, <1>5, <1>6 DEF q, ChildDropped

\* "n_views -= 1"
LEMMA DropViewEffect ==
    ASSUME AllocOK, LeafsOK, NEW g, GraphOK(g), NEW p, PlannerOK(g, p), NEW t \in Tensors(g)
    PROVE  ViewDropped(g, p, DropView(p, t), t)
  <1> DEFINE T == Tensors(g)
             n == p.hash[t].views - 1
             x == [p.hash[t] EXCEPT !.views = n]
             q == DropView(p, t)
  <1>1. /\ IsEntry(p.hash[t]) /\ p.hash = [u \in T |-> p.hash[u]]
        /\ p = [hash |-> p.hash, chunks |-> p.chunks]
    BY PlannerFacts DEF PlannerOK
  <1>2. x.allocated = p.hash[t].allocated /\ x.addr = p.hash[t].addr
    BY <1>1, EntryCounted, Zenon
  <1>3. x.views = n /\ x.children = p.hash[t].children
    BY <1>1, EntryViews, Zenon
  <1>4. q = [hash |-> [p.hash EXCEPT ![t] = x], chunks |-> p.chunks]
    <2>1. q = [p EXCEPT !.hash = [p.hash EXCEPT ![t] = x]]
      BY DEF DropView
    <2> QED BY <1>1, <2>1, PlannerHash
  <1> HIDE DEF x, q
  <1>5. q.hash = [u \in T |-> IF u = t THEN x ELSE p.hash[u]] /\ q.chunks = p.chunks
    <2>1. q.hash = [p.hash EXCEPT ![t] = x] /\ q.chunks = p.chunks
      BY <1>4
    <2> QED BY <1>1, <2>1
  <1>6. SameMemory(g, p.hash, q.hash)
    BY <1>2, <1>5 DEF SameMemory
  <1> QED BY <1>3, <1>5, <1>6 DEF q, ViewDropped

\* free_node(), when nobody needs the tensor and it is not an output.
LEMMA FreeEffect ==
    ASSUME AllocOK, LeafsOK, NEW g, GraphOK(g), NEW p, PlannerOK(g, p), NEW t \in Tensors(g)
    PROVE  FreedFrom(g, p, FreeUnneeded(g, p, t), t)
  <1> DEFINE T == Tensors(g)
             q == FreeUnneeded(g, p, t)
             x == [p.hash[t] EXCEPT !.allocated = FALSE]
  <1>1. /\ IsEntry(p.hash[t]) /\ p.hash = [u \in T |-> p.hash[u]]
        /\ p.hash[t].allocated \in BOOLEAN
    <2>1. IsEntry(p.hash[t]) /\ p.hash = [u \in T |-> p.hash[u]]
      BY PlannerFacts
    <2> QED BY <2>1 DEF IsEntry
  <1>2. x.allocated = FALSE /\ x.addr = p.hash[t].addr
    <2>1. FALSE \in BOOLEAN
      OBVIOUS
    <2> QED BY <1>1, <2>1, EntryFlag, Zenon
  <1>3. x.children = p.hash[t].children /\ x.views = p.hash[t].views
    BY <1>1, EntryFlagged, Zenon
  <1>4. CASE Freed(g, p, t)
    <2>1. /\ q.hash = [p.hash EXCEPT ![t] = x]
          /\ q.chunks = FreeBytes(p.chunks, p.hash[t].addr, AllocSize(g, t))
      BY <1>4 DEF FreeUnneeded, FreeNode, Freed
    <2> HIDE DEF x, q
    <2>2. q.hash = [u \in T |-> IF u = t THEN x ELSE p.hash[u]]
      BY <1>1, <2>1
    <2>3. SameCounts(g, p.hash, q.hash)
      BY <1>3, <2>2 DEF SameCounts
    <2> QED BY <1>2, <1>4, <2>1, <2>2, <2>3 DEF q, FreedFrom, Freed
  <1>5. CASE ~Freed(g, p, t)
    <2>1. q = p
      BY <1>5 DEF FreeUnneeded, FreeNode, Freed
    <2> QED BY <1>1, <1>5, <2>1 DEF SameCounts, FreedFrom
  <1> QED BY <1>4, <1>5

\* allocate_node(), which gives t memory, that of a source or some of the chunks.
TakenFrom(g, p, q, t, s) ==
    /\ ~IsLeaf(t) /\ Node(g, t).kind = "add"
    /\ \E j \in DOMAIN Node(g, t).src : Node(g, t).src[j] = s
    /\ Reusable(g, p, t, s)
    /\ q.hash[t].addr = p.hash[s].addr /\ ~q.hash[s].allocated
    /\ \A u \in Tensors(g) : u # t /\ u # s => q.hash[u].allocated = p.hash[u].allocated
    /\ q.chunks = FreeExtra(g, p.chunks, p.hash[s].addr, s, t)
TakenFresh(g, p, q, t) ==
    /\ \A u \in Tensors(g) : u # t => q.hash[u].allocated = p.hash[u].allocated
    /\ \E taken \in Alloc(p.chunks, AllocSize(g, t)) :
          q.chunks = taken.chunks /\ q.hash[t].addr = taken.addr

Settled(g, p, t) == External(t) \/ p.hash[t].allocated \/ IsView(g, t)

Allocated(g, p, q, t) ==
    /\ SameCounts(g, p.hash, q.hash)
    /\ \A u \in Tensors(g) : u # t => q.hash[u].addr = p.hash[u].addr
    /\ Settled(g, p, t) => q = p
    /\ ~Settled(g, p, t) =>
          /\ q.hash[t].allocated = TRUE
          /\ \/ \E s \in Tensors(g) : s # t /\ TakenFrom(g, p, q, t, s)
             \/ TakenFresh(g, p, q, t)

\* allocate_node() takes the memory of a source or memory that was free, or there is
\* nothing to allocate.
LEMMA AllocateEffect ==
    ASSUME AllocOK, LeafsOK, NEW g, GraphOK(g), NEW p, PlannerOK(g, p), NEW t \in Tensors(g),
           NEW q \in AllocateNode(g, p, t)
    PROVE  Allocated(g, p, q, t)
  <1> USE DEF Allocated
  <1> DEFINE T == Tensors(g)
  <1>1. /\ \A u \in T : IsEntry(p.hash[u]) /\ p.hash[u].addr \in Address
        /\ p.hash = [u \in T |-> p.hash[u]] /\ p.chunks \in Seq(Chunk)
    BY PlannerFacts
  <1>2. Sz(g)[t] \in Positive /\ Sz(g)[t] \in Nat /\ Sz(g)[t] = AllocSize(g, t)
    BY PlannerFacts, SizeFacts
  <1>3. CASE Settled(g, p, t)
    BY <1>3 DEF AllocateNode, SameCounts, Settled
  <1>4. CASE ~Settled(g, p, t) /\ ReusableSources(g, p, t) # {}
    <2>1. PICK j \in FirstOf(ReusableSources(g, p, t)) : q = InPlace(g, p, t, Node(g, t).src[j])
      BY <1>4 DEF AllocateNode, Settled
    <2>2. /\ ~IsLeaf(t) /\ Node(g, t).kind = "add"
          /\ j \in DOMAIN Node(g, t).src /\ Reusable(g, p, t, Node(g, t).src[j])
      BY <2>1 DEF FirstOf, ReusableSources
    <2> DEFINE s == Node(g, t).src[j]
               addr == p.hash[s].addr
               w == [p.hash[t] EXCEPT !.allocated = TRUE, !.addr = addr]
               x == [p.hash[s] EXCEPT !.allocated = FALSE]
    <2>3. s \in T /\ s # t
      <3>1. s \in T /\ s < t /\ t \in Nat
        BY <2>2, GraphFacts
      <3> HIDE DEF s
      <3> QED BY <3>1
    <2>4. q.chunks = FreeExtra(g, p.chunks, addr, s, t)
          /\ q.hash = [p.hash EXCEPT ![t].allocated = TRUE, ![t].addr = p.hash[s].addr,
                                     ![s].allocated = FALSE]
      BY <2>1 DEF InPlace
    <2>5. \E i \in DOMAIN Node(g, t).src : Node(g, t).src[i] = s
      BY <2>2
    <2>6. Reusable(g, p, t, s)
      BY <2>2
    <2> HIDE DEF s
    <2>7. w.allocated = TRUE /\ w.addr = addr /\ w.children = p.hash[t].children
          /\ w.views = p.hash[t].views
      <3>1. IsEntry(p.hash[t]) /\ addr \in Address
        BY <1>1, <2>3
      <3> HIDE DEF addr
      <3>2. w.allocated = TRUE /\ w.addr = addr
        BY <3>1, EntryTaken, Zenon
      <3>3. w.children = p.hash[t].children /\ w.views = p.hash[t].views
        BY <3>1, EntryMoved, Zenon
      <3> QED BY <3>2, <3>3
    <2>8. x.allocated = FALSE /\ x.addr = addr /\ x.children = p.hash[s].children
          /\ x.views = p.hash[s].views
      <3>1. IsEntry(p.hash[s]) /\ FALSE \in BOOLEAN
        BY <1>1, <2>3
      <3>2. x.allocated = FALSE /\ x.addr = addr
        BY <3>1, EntryFlag, Zenon
      <3>3. x.children = p.hash[s].children /\ x.views = p.hash[s].views
        BY <3>1, EntryFlagged, Zenon
      <3> QED BY <3>2, <3>3
    <2>9. q.hash = [u \in T |-> IF u = t THEN w ELSE IF u = s THEN x ELSE p.hash[u]]
      BY <1>1, <2>3, <2>4
    <2> HIDE DEF w, x
    <2>10. SameCounts(g, p.hash, q.hash)
      BY <2>7, <2>8, <2>9 DEF SameCounts
    <2>11. \A u \in T : u # t => q.hash[u].addr = p.hash[u].addr
      BY <2>8, <2>9
    <2>12. q.hash[t].allocated = TRUE /\ q.hash[t].addr = addr /\ q.hash[s].allocated = FALSE
           /\ \A u \in T : u # t /\ u # s => q.hash[u].allocated = p.hash[u].allocated
      BY <2>3, <2>7, <2>8, <2>9
    <2>13. TakenFrom(g, p, q, t, s)
      BY <2>2, <2>4, <2>5, <2>6, <2>12 DEF TakenFrom
    <2> QED BY <1>4, <2>3, <2>10, <2>11, <2>12, <2>13
  <1>5. CASE ~Settled(g, p, t) /\ ReusableSources(g, p, t) = {}
    <2>1. PICK taken \in Alloc(p.chunks, AllocSize(g, t)) : q = FromBuffer(p, t, taken)
      BY <1>5 DEF AllocateNode, Settled
    <2>2. taken.addr \in Address
      BY <1>2, <2>1, AllocGrown DEF PlannerOK
    <2> DEFINE w == [p.hash[t] EXCEPT !.allocated = TRUE, !.addr = taken.addr]
    <2>3. w.allocated = TRUE /\ w.addr = taken.addr /\ w.children = p.hash[t].children
          /\ w.views = p.hash[t].views
      <3>1. IsEntry(p.hash[t])
        BY <1>1
      <3>2. w.allocated = TRUE /\ w.addr = taken.addr
        BY <2>2, <3>1, EntryTaken, Zenon
      <3>3. w.children = p.hash[t].children /\ w.views = p.hash[t].views
        BY <2>2, <3>1, EntryMoved, Zenon
      <3> QED BY <3>2, <3>3
    <2>4. q.chunks = taken.chunks
          /\ q.hash = [p.hash EXCEPT ![t].allocated = TRUE, ![t].addr = taken.addr]
      BY <2>1 DEF FromBuffer
    <2>5. q.hash = [u \in T |-> IF u = t THEN w ELSE p.hash[u]]
      BY <1>1, <2>4
    <2> HIDE DEF w
    <2>6. SameCounts(g, p.hash, q.hash)
      BY <2>3, <2>5 DEF SameCounts
    <2>7. /\ q.hash[t].allocated = TRUE /\ q.hash[t].addr = taken.addr
          /\ \A u \in T : u # t => q.hash[u] = p.hash[u]
      BY <2>3, <2>5
    <2>8. TakenFresh(g, p, q, t)
      BY <2>1, <2>4, <2>7 DEF TakenFresh
    <2> QED BY <1>5, <2>6, <2>7, <2>8
  <1> QED BY <1>3, <1>4, <1>5

-----------------------------------------------------------------------------
(* Counting: the counters of an entry are not below the uses that are left.*)
(* W stands for the uses, <<node, source>>, that are still to come.        *)

AtMost(S, n) == n \in Int /\ IsFiniteSet(S) /\ Cardinality(S) <= n

\* What is known of a set that is counted.
LEMMA AtMostLess ==
    ASSUME NEW S, NEW n, AtMost(S, n), NEW x \in S, NEW R, R \subseteq S \ {x}
    PROVE  AtMost(R, n - 1)
  <1>1. n \in Int /\ IsFiniteSet(S) /\ Cardinality(S) <= n
    BY DEF AtMost
  <1>2. IsFiniteSet(S \ {x}) /\ Cardinality(S \ {x}) = Cardinality(S) - 1
    BY <1>1, FS_RemoveElement
  <1>3. IsFiniteSet(R) /\ Cardinality(R) <= Cardinality(S \ {x})
    BY <1>2, FS_Subset
  <1>4. Cardinality(R) \in Nat /\ Cardinality(S) \in Nat
    BY <1>1, <1>3, FS_CardinalityType
  <1> QED BY <1>1, <1>2, <1>3, <1>4 DEF AtMost

\* Fewer are bounded by the same number.
LEMMA AtMostFewer ==
    ASSUME NEW S, NEW n, AtMost(S, n), NEW R, R \subseteq S
    PROVE  AtMost(R, n)
  <1>1. n \in Int /\ IsFiniteSet(S) /\ Cardinality(S) <= n
    BY DEF AtMost
  <1>2. IsFiniteSet(R) /\ Cardinality(R) <= Cardinality(S)
    BY <1>1, FS_Subset
  <1>3. Cardinality(R) \in Nat /\ Cardinality(S) \in Nat
    BY <1>1, <1>2, FS_CardinalityType
  <1> QED BY <1>1, <1>2, <1>3 DEF AtMost

\* A counter that is 0 counts nothing.
LEMMA AtMostNone ==
    ASSUME NEW S, AtMost(S, 0)
    PROVE  S = {}
  <1>1. IsFiniteSet(S) /\ Cardinality(S) <= 0 /\ Cardinality(S) \in Nat
    BY FS_CardinalityType DEF AtMost
  <1>2. Cardinality(S) = 0
    BY <1>1
  <1> QED BY <1>1, <1>2, FS_EmptySet

\* A counter that is 1 counts one only.
LEMMA AtMostOne ==
    ASSUME NEW S, AtMost(S, 1), NEW x \in S
    PROVE  \A y \in S : y = x
  <1>1. AtMost(S \ {x}, 1 - 1)
    <2>1. S \ {x} \subseteq S \ {x}
      OBVIOUS
    <2> QED BY <2>1, AtMostLess
  <1>2. S \ {x} = {}
    BY <1>1, AtMostNone
  <1> QED BY <1>2

UsesIn(g, t, W) == UsesOf(g, t) \cap W
ViewsIn(g, t, W) ==
    {k \in DOMAIN g : g[k].kind = "view" /\ g[k].view = t /\ UsesIn(g, NodeTensor(k), W) # {}}

Counting(g, h, W) ==
    \A t \in Tensors(g) :
        AtMost(UsesIn(g, t, W), h[t].children) /\ AtMost(ViewsIn(g, t, W), h[t].views)

\* A use is a node and one of its sources.
LEMMA UseIs ==
    ASSUME NEW g, NEW t, NEW k, NEW j
    PROVE  <<k, j>> \in UsesOf(g, t) <=>
                k \in DOMAIN g /\ j \in DOMAIN g[k].src /\ g[k].src[j] = t
  <1>1. <<k, j>> \in UsesOf(g, t) <=> \E i \in DOMAIN g : <<k, j>> \in {i} \X Uses(g[i], t)
    BY DEF UsesOf
  <1>2. \A i \in DOMAIN g : <<k, j>> \in {i} \X Uses(g[i], t) <=> k = i /\ j \in Uses(g[i], t)
    OBVIOUS
  <1> QED BY <1>1, <1>2 DEF Uses

\* A tensor without views that have uses left is read as itself.
ReadAsItself(g, u, W) ==
    \A k \in DOMAIN g : \A j \in DOMAIN g[k].src :
        <<k, j>> \in W /\ Root(g, g[k].src[j]) = u => g[k].src[j] = u

\* A counter of views that is 0 says so.
LEMMA ReadItself ==
    ASSUME AllocOK, LeafsOK, NEW g, GraphOK(g), NEW u, NEW W, ViewsIn(g, u, W) = {}
    PROVE  ReadAsItself(g, u, W)
  <1> SUFFICES ASSUME NEW k \in DOMAIN g, NEW j \in DOMAIN g[k].src, <<k, j>> \in W,
                      Root(g, g[k].src[j]) = u
               PROVE  g[k].src[j] = u
    BY DEF ReadAsItself
  <1> DEFINE s == g[k].src[j]
  <1>1. <<k, j>> \in UsesIn(g, s, W)
    BY UseIs DEF UsesIn
  <1>2. s \in Tensors(g)
    <2>1. s \in 1 .. Len(leafs) + k - 1 /\ k \in 1 .. Len(g)
      BY GraphFacts DEF GraphOK
    <2>2. Len(leafs) \in Nat /\ Len(g) \in Nat
      BY GraphFacts
    <2> HIDE DEF s
    <2> QED BY <2>1, <2>2 DEF Tensors
  <1>3. Root(g, s) = u
    OBVIOUS
  <1> HIDE DEF s
  <1>4. CASE IsView(g, s)
    <2> DEFINE i == s - Len(leafs)
    <2>1. ~IsLeaf(s) /\ i \in DOMAIN g /\ g[i].kind = "view" /\ Root(g, s) = g[i].view
      BY <1>2, <1>4, GraphFacts DEF IsView, Root, Node
    <2>2. NodeTensor(i) = s
      <3>1. s \in Nat /\ Len(leafs) \in Nat
        BY <1>2, GraphFacts
      <3> QED BY <3>1 DEF NodeTensor
    <2>3. UsesIn(g, NodeTensor(i), W) # {}
      BY <1>1, <2>2
    <2> HIDE DEF i
    <2>4. i \in ViewsIn(g, u, W)
      BY <1>3, <2>1, <2>3 DEF ViewsIn
    <2> QED BY <2>4
  <1>5. CASE ~IsView(g, s)
    BY <1>3, <1>5 DEF Root, s
  <1> QED BY <1>4, <1>5

\* A tensor that has neither uses nor views with uses left is not read any more.
LEMMA NotRead ==
    ASSUME AllocOK, LeafsOK, NEW g, GraphOK(g), NEW u, NEW W,
           UsesIn(g, u, W) = {}, ViewsIn(g, u, W) = {}
    PROVE  \A k \in DOMAIN g : \A j \in DOMAIN g[k].src :
              <<k, j>> \in W => Root(g, g[k].src[j]) # u
  <1> SUFFICES ASSUME NEW k \in DOMAIN g, NEW j \in DOMAIN g[k].src, <<k, j>> \in W,
                      Root(g, g[k].src[j]) = u
               PROVE  FALSE
    OBVIOUS
  <1>1. g[k].src[j] = u
    <2>1. ReadAsItself(g, u, W)
      BY ReadItself
    <2> QED BY <2>1 DEF ReadAsItself
  <1>2. <<k, j>> \in UsesIn(g, u, W)
    BY <1>1, UseIs DEF UsesIn
  <1> QED BY <1>2

\* alloc_graph_impl() counts children and views before the first node.
LEMMA CountedCounts ==
    ASSUME AllocOK, LeafsOK, NEW g, GraphOK(g), NEW W
    PROVE  Counting(g, Counted(g), W)
  <1>1. DOMAIN g = 1 .. Len(g) /\ Len(g) \in Nat
    BY GraphFacts
  <1>2. IsFiniteSet(DOMAIN g)
    BY <1>1, FS_Interval
  <1>3. ASSUME NEW t PROVE IsFiniteSet(UsesOf(g, t))
    <2>1. ASSUME NEW k \in DOMAIN g PROVE IsFiniteSet({k} \X Uses(g[k], t))
      <3>1. g[k] \in NodeRecord
        BY DEF GraphOK
      <3>2. DOMAIN g[k].src = 1 .. Len(g[k].src) /\ Len(g[k].src) \in Nat
        BY <3>1 DEF NodeRecord
      <3>3. IsFiniteSet(DOMAIN g[k].src)
        <4> DEFINE n == Len(g[k].src)
        <4>1. n \in Nat /\ DOMAIN g[k].src = 1 .. n
          BY <3>2
        <4> HIDE DEF n
        <4>2. IsFiniteSet(1 .. n)
          BY <4>1, FS_Interval
        <4> QED BY <4>1, <4>2
      <3>4. IsFiniteSet(Uses(g[k], t))
        <4>1. Uses(g[k], t) \in SUBSET DOMAIN g[k].src
          BY DEF Uses
        <4> QED BY <3>3, <4>1, FS_Subset
      <3>5. IsFiniteSet({k})
        BY FS_Singleton
      <3> QED BY <3>4, <3>5, FS_Product
    <2> DEFINE f == [k \in DOMAIN g |-> {k} \X Uses(g[k], t)]
               S == {f[k] : k \in DOMAIN g}
    <2>2. IsFiniteSet(S)
      <3>1. f \in [DOMAIN g -> S] /\ \A x \in S : \E k \in DOMAIN g : f[k] = x
        OBVIOUS
      <3> HIDE DEF f, S
      <3>2. f \in Surjection(DOMAIN g, S)
        BY <3>1 DEF Surjection
      <3> QED BY <1>2, <3>2, FS_Surjection
    <2>3. \A x \in S : IsFiniteSet(x)
      <3> TAKE x \in S
      <3>1. PICK k \in DOMAIN g : x = {k} \X Uses(g[k], t)
        OBVIOUS
      <3> QED BY <2>1, <3>1
    <2>4. UsesOf(g, t) = UNION S
      BY DEF UsesOf
    <2> HIDE DEF S
    <2> QED BY <2>2, <2>3, <2>4, FS_UNION
  <1>4. ASSUME NEW t \in Tensors(g)
        PROVE  AtMost(UsesIn(g, t, W), Counted(g)[t].children)
    <2>1. Counted(g)[t].children = Cardinality(UsesOf(g, t))
      BY DEF Counted
    <2>2. AtMost(UsesOf(g, t), Cardinality(UsesOf(g, t)))
      BY <1>3, FS_CardinalityType DEF AtMost
    <2>3. UsesIn(g, t, W) \subseteq UsesOf(g, t)
      BY DEF UsesIn
    <2> QED BY <2>1, <2>2, <2>3, AtMostFewer
  <1>5. ASSUME NEW t \in Tensors(g)
        PROVE  AtMost(ViewsIn(g, t, W), Counted(g)[t].views)
    <2> DEFINE V == {k \in DOMAIN g : g[k].kind = "view" /\ g[k].view = t}
    <2>1. Counted(g)[t].views = Cardinality(V)
      BY DEF Counted
    <2>2. IsFiniteSet(V)
      <3>1. V \in SUBSET DOMAIN g
        OBVIOUS
      <3> HIDE DEF V
      <3> QED BY <1>2, <3>1, FS_Subset
    <2>3. ViewsIn(g, t, W) \subseteq V
      BY DEF ViewsIn
    <2> HIDE DEF V
    <2>4. AtMost(V, Cardinality(V))
      BY <2>2, FS_CardinalityType DEF AtMost
    <2> QED BY <2>1, <2>3, <2>4, AtMostFewer
  <1> QED BY <1>4, <1>5 DEF Counting

\* Fewer uses are left, the counters stay.
LEMMA FewerUses ==
    ASSUME NEW g, NEW h, NEW k, NEW W, NEW V, V \subseteq W, SameCounts(g, h, k),
           Counting(g, h, W)
    PROVE  Counting(g, k, V)
  <1> SUFFICES ASSUME NEW t \in Tensors(g)
               PROVE  AtMost(UsesIn(g, t, V), k[t].children) /\ AtMost(ViewsIn(g, t, V), k[t].views)
    BY DEF Counting
  <1>1. AtMost(UsesIn(g, t, W), k[t].children) /\ AtMost(ViewsIn(g, t, W), k[t].views)
    BY DEF Counting, SameCounts
  <1>2. UsesIn(g, t, V) \subseteq UsesIn(g, t, W) /\ ViewsIn(g, t, V) \subseteq ViewsIn(g, t, W)
    BY DEF UsesIn, ViewsIn
  <1> QED BY <1>1, <1>2, AtMostFewer

\* A use is over: the counter of its tensor, and of what that is a view of when it was
\* the last one.
Updated(g, p, q, V) ==
    /\ Counting(g, q.hash, V)
    /\ \A u \in Tensors(g) :
          /\ q.hash[u].addr = p.hash[u].addr
          /\ q.hash[u].allocated => p.hash[u].allocated
          /\ p.hash[u].allocated /\ ~q.hash[u].allocated =>
                ~IsOutput(g, u) /\ UsesIn(g, u, V) = {} /\ ViewsIn(g, u, V) = {}

\* update_parent() leaves the counters right for the uses that remain, and gives memory
\* back only when there are none.
LEMMA UpdateParentCounts ==
    ASSUME AllocOK, LeafsOK, NEW g, GraphOK(g), NEW p, PlannerOK(g, p), NEW s \in Tensors(g),
           NEW W, Counting(g, p.hash, W), NEW x \in UsesIn(g, s, W), NEW V, V \subseteq W \ {x}
    PROVE  Updated(g, p, UpdateParent(g, p, s), V)
  <1> DEFINE T == Tensors(g)
             r == Root(g, s)
             p1 == DropChild(p, s)
             p2 == DropView(p1, r)
             q == UpdateParent(g, p, s)
  <1>1. PlannerOK(g, p1) /\ r \in T
    BY DropGood, GraphFacts
  <1>2. /\ SameMemory(g, p.hash, p1.hash)
        /\ \A u \in T : /\ p1.hash[u].views = p.hash[u].views
                        /\ p1.hash[u].children = IF u = s THEN p.hash[s].children - 1
                                                 ELSE p.hash[u].children
    <2>1. ChildDropped(g, p, p1, s)
      BY DropChildEffect
    <2> HIDE DEF p1
    <2> QED BY <2>1 DEF ChildDropped
  <1> HIDE DEF p1
  <1>3. Counting(g, p1.hash, V)
    <2> SUFFICES ASSUME NEW u \in T
                 PROVE  /\ AtMost(UsesIn(g, u, V), p1.hash[u].children)
                        /\ AtMost(ViewsIn(g, u, V), p1.hash[u].views)
      BY DEF Counting
    <2>1. AtMost(UsesIn(g, u, W), p.hash[u].children) /\ AtMost(ViewsIn(g, u, W), p.hash[u].views)
      BY DEF Counting
    <2>2. /\ UsesIn(g, u, V) \subseteq UsesIn(g, u, W) \ {x}
          /\ UsesIn(g, u, V) \subseteq UsesIn(g, u, W)
          /\ ViewsIn(g, u, V) \subseteq ViewsIn(g, u, W)
      BY DEF UsesIn, ViewsIn
    <2>3. AtMost(ViewsIn(g, u, V), p1.hash[u].views)
      BY <1>2, <2>1, <2>2, AtMostFewer
    <2>4. CASE u = s
      <3>1. AtMost(UsesIn(g, u, V), p.hash[u].children - 1)
        BY <2>1, <2>2, <2>4, AtMostLess
      <3> QED BY <1>2, <2>3, <2>4, <3>1
    <2>5. CASE u # s
      <3>1. AtMost(UsesIn(g, u, V), p.hash[u].children)
        BY <2>1, <2>2, AtMostFewer
      <3> QED BY <1>2, <2>3, <2>5, <3>1
    <2> QED BY <2>4, <2>5
  <1>4. ASSUME NEW p0, PlannerOK(g, p0), SameMemory(g, p.hash, p0.hash), Counting(g, p0.hash, V),
               NEW t \in T, q = FreeUnneeded(g, p0, t)
        PROVE  Updated(g, p, q, V)
    <2>1. /\ SameCounts(g, p0.hash, q.hash)
          /\ \A u \in T : q.hash[u].addr = p0.hash[u].addr
          /\ \A u \in T : u # t => q.hash[u].allocated = p0.hash[u].allocated
          /\ q.hash[t].allocated = (p0.hash[t].allocated /\ ~Freed(g, p0, t))
      <3>1. FreedFrom(g, p0, q, t)
        BY <1>4, FreeEffect
      <3> HIDE DEF q
      <3> QED BY <3>1 DEF FreedFrom
    <2> HIDE DEF q
    <2>2. Counting(g, q.hash, V)
      BY <1>4, <2>1, FewerUses
    <2>3. Freed(g, p0, t) => ~IsOutput(g, t) /\ UsesIn(g, t, V) = {} /\ ViewsIn(g, t, V) = {}
      <3>1. AtMost(UsesIn(g, t, V), p0.hash[t].children) /\ AtMost(ViewsIn(g, t, V), p0.hash[t].views)
        BY <1>4 DEF Counting
      <3>2. Freed(g, p0, t) =>
                ~IsOutput(g, t) /\ p0.hash[t].children = 0 /\ p0.hash[t].views = 0
        BY DEF Freed, Unneeded
      <3> QED BY <3>1, <3>2, AtMostNone
    <2>4. \A u \in T : p0.hash[u].addr = p.hash[u].addr /\ p0.hash[u].allocated = p.hash[u].allocated
      BY <1>4 DEF SameMemory
    <2> QED BY <2>1, <2>2, <2>3, <2>4 DEF Updated
  <1>5. CASE Unneeded(p1, s) /\ IsView(g, s)
    <2>1. q = FreeUnneeded(g, p2, r)
      BY <1>5 DEF UpdateParent, AfterChild, p1
    <2>2. PlannerOK(g, p2)
      BY <1>1, DropGood
    <2>3. /\ SameMemory(g, p1.hash, p2.hash)
          /\ \A u \in T : /\ p2.hash[u].children = p1.hash[u].children
                          /\ p2.hash[u].views = IF u = r THEN p1.hash[r].views - 1
                                                ELSE p1.hash[u].views
      <3>1. ViewDropped(g, p1, p2, r)
        BY <1>1, DropViewEffect
      <3> HIDE DEF p2
      <3> QED BY <3>1 DEF ViewDropped
    <2> DEFINE k == s - Len(leafs)
    <2>4. k \in DOMAIN g /\ g[k].kind = "view" /\ g[k].view = r /\ NodeTensor(k) = s
      <3>1. s \in Nat /\ Len(leafs) \in Nat
        BY GraphFacts
      <3>2. ~IsLeaf(s) /\ k \in DOMAIN g
        BY <1>5, GraphFacts DEF IsView
      <3>3. g[k].kind = "view" /\ Root(g, s) = g[k].view
        BY <1>5 DEF IsView, Root, Node
      <3> QED BY <3>1, <3>2, <3>3 DEF NodeTensor
    <2> HIDE DEF k, r, p2
    <2>5. UsesIn(g, s, V) = {}
      <3>1. AtMost(UsesIn(g, s, V), p1.hash[s].children) /\ p1.hash[s].children = 0
        BY <1>3, <1>5 DEF Counting, Unneeded
      <3> QED BY <3>1, AtMostNone
    <2>6. k \in ViewsIn(g, r, W) /\ k \notin ViewsIn(g, r, V)
      BY <2>4, <2>5 DEF ViewsIn
    <2>7. AtMost(ViewsIn(g, r, V), p1.hash[r].views - 1)
      <3>1. AtMost(ViewsIn(g, r, W), p1.hash[r].views)
        BY <1>1, <1>2 DEF Counting
      <3>2. ViewsIn(g, r, V) \subseteq ViewsIn(g, r, W) \ {k}
        <4>1. ViewsIn(g, r, V) \subseteq ViewsIn(g, r, W)
          BY DEF ViewsIn, UsesIn
        <4> QED BY <2>6, <4>1
      <3> QED BY <2>6, <3>1, <3>2, AtMostLess
    <2>8. Counting(g, p2.hash, V)
      <3> SUFFICES ASSUME NEW u \in T
                   PROVE  /\ AtMost(UsesIn(g, u, V), p2.hash[u].children)
                          /\ AtMost(ViewsIn(g, u, V), p2.hash[u].views)
        BY DEF Counting
      <3>1. AtMost(UsesIn(g, u, V), p1.hash[u].children) /\ AtMost(ViewsIn(g, u, V), p1.hash[u].views)
        BY <1>3 DEF Counting
      <3>2. CASE u = r
        BY <2>3, <2>7, <3>1, <3>2
      <3>3. CASE u # r
        BY <2>3, <3>1, <3>3
      <3> QED BY <3>2, <3>3
    <2>9. SameMemory(g, p.hash, p2.hash)
      BY <1>2, <2>3 DEF SameMemory
    <2> QED BY <1>1, <1>4, <2>1, <2>2, <2>8, <2>9
  <1>6. CASE ~(Unneeded(p1, s) /\ IsView(g, s))
    <2>1. q = FreeUnneeded(g, p1, s)
      BY <1>6 DEF UpdateParent, AfterChild, p1
    <2> QED BY <1>1, <1>2, <1>3, <1>4, <2>1
  <1> QED BY <1>5, <1>6

-----------------------------------------------------------------------------
(* Who needs what: a tensor is needed from node m on when it is an output, *)
(* or when a node from m on reads it or a view of it.                      *)

ReadAt(g, t, k) == \E j \in DOMAIN g[k].src : Root(g, g[k].src[j]) = t
NeededFrom(g, t, m) == IsOutput(g, t) \/ \E k \in DOMAIN g : k >= m /\ ReadAt(g, t, k)
Time(t) == IF IsLeaf(t) THEN 0 ELSE t - Len(leafs)

\* All uses of the nodes from m on are left.
AllFrom(W, m) == \A k, j \in Nat : k >= m => <<k, j>> \in W

\* While a graph is planned, what is needed has its memory, and only a tensor that
\* was planned has any.
KeepsNeeded(g, h, D, m) ==
    /\ \A t \in D : NeededFrom(g, t, m) => h[t].allocated
    /\ \A t \in Tensors(g) : h[t].allocated => t \in D

\* The addresses a that tensors D of the sizes z get: a tensor that is needed when a
\* later one is written lies elsewhere, or this is the last time it is read, by a
\* node that works in its place.
Away(a, z, t, u) ==
    \/ a[t].chunk # a[u].chunk
    \/ Apart(Block(a[t].off, z[t]), Block(a[u].off, z[u]))
TakesOver(g, a, u, t) ==
    /\ ~IsLeaf(u) /\ Node(g, u).kind = "add" /\ a[u] = a[t] /\ Layout(g, u) = Layout(g, t)
    /\ ~NeededFrom(g, t, Time(u) + 1)
    /\ \E j \in DOMAIN Node(g, u).src : Node(g, u).src[j] = t
    /\ \A j \in DOMAIN Node(g, u).src : Root(g, Node(g, u).src[j]) = t => Node(g, u).src[j] = t
Spaced(g, D, a, z) ==
    \A t, u \in D : t < u /\ NeededFrom(g, t, Time(u)) => Away(a, z, t, u) \/ TakesOver(g, a, u, t)

Addrs(g, h) == [t \in Tensors(g) |-> h[t].addr]

\* Nodes and uses are numbers.
LEMMA NodeFacts ==
    ASSUME AllocOK, LeafsOK, NEW g, GraphOK(g)
    PROVE  /\ \A k \in DOMAIN g : k \in Nat /\ k >= 1 /\ \A j \in DOMAIN g[k].src : j \in Nat
           /\ \A t \in Tensors(g) : Time(t) \in Nat /\ (~IsLeaf(t) => Time(t) \in DOMAIN g)
           /\ \A t \in Tensors(g) : ~IsLeaf(t) => Node(g, t) = g[Time(t)]
  <1>1. \A k \in DOMAIN g : k \in Nat /\ k >= 1
    <2>1. DOMAIN g = 1 .. Len(g) /\ Len(g) \in Nat
      BY GraphFacts
    <2> QED BY <2>1
  <1>2. ASSUME NEW k \in DOMAIN g PROVE \A j \in DOMAIN g[k].src : j \in Nat
    <2>1. g[k] \in NodeRecord
      BY DEF GraphOK
    <2>2. g[k].src \in Seq(Nat)
      BY <2>1 DEF NodeRecord
    <2> QED BY <2>2
  <1>3. \A t \in Tensors(g) : ~IsLeaf(t) => Time(t) \in DOMAIN g /\ Node(g, t) = g[Time(t)]
    BY GraphFacts DEF Time, Node
  <1>4. \A t \in Tensors(g) : IsLeaf(t) => Time(t) = 0
    BY DEF Time
  <1>5. \A t \in Tensors(g) : Time(t) \in Nat
    BY <1>1, <1>3, <1>4
  <1> QED BY <1>1, <1>2, <1>3, <1>5

\* What is not read in the uses left, and no output, is not needed.
LEMMA NotNeeded ==
    ASSUME AllocOK, LeafsOK, NEW g, GraphOK(g), NEW u, NEW W, NEW m \in Nat, AllFrom(W, m),
           ~IsOutput(g, u), UsesIn(g, u, W) = {}, ViewsIn(g, u, W) = {}
    PROVE  ~NeededFrom(g, u, m)
  <1> SUFFICES ASSUME NEW k \in DOMAIN g, k >= m, NEW j \in DOMAIN g[k].src,
                      Root(g, g[k].src[j]) = u
               PROVE  FALSE
    BY DEF NeededFrom, ReadAt
  <1>1. <<k, j>> \in W
    BY NodeFacts DEF AllFrom
  <1> QED BY <1>1, NotRead

\* The more is over, the less is needed.
LEMMA NeededLater ==
    ASSUME AllocOK, LeafsOK, NEW g, GraphOK(g), NEW u, NEW m \in Nat, NEW n \in Nat, m <= n,
           NeededFrom(g, u, n)
    PROVE  NeededFrom(g, u, m)
  <1>1. \A k \in DOMAIN g : k \in Nat
    BY NodeFacts
  <1> QED BY <1>1 DEF NeededFrom

\* A source that is reused is read by this node for the last time, and not as a view.
GivenUp(g, s, t) ==
    /\ ~NeededFrom(g, s, Time(t) + 1)
    /\ \A i \in DOMAIN Node(g, t).src : Root(g, Node(g, t).src[i]) = s => Node(g, t).src[i] = s

\* The guards of the reuse in place are enough for it.
LEMMA ReusableGivesUp ==
    ASSUME AllocOK, LeafsOK, NEW g, GraphOK(g), NEW p, NEW W, Counting(g, p.hash, W),
           NEW t \in Tensors(g), ~IsLeaf(t), AllFrom(W, Time(t)),
           NEW s \in Tensors(g), NEW j \in DOMAIN Node(g, t).src, Node(g, t).src[j] = s,
           Reusable(g, p, t, s)
    PROVE  GivenUp(g, s, t)
  <1> DEFINE k == Time(t)
             V == W \ {<<k, j>>}
  <1>1. k \in Nat /\ k \in DOMAIN g /\ Node(g, t) = g[k]
        /\ \A i \in DOMAIN g[k].src : i \in Nat
    BY NodeFacts
  <1>2. AtMost(UsesIn(g, s, W), 1) /\ AtMost(ViewsIn(g, s, W), 0) /\ ~IsOutput(g, s)
    BY DEF Counting, Reusable
  <1> HIDE DEF k
  <1>3. <<k, j>> \in UsesIn(g, s, W)
    <2>1. <<k, j>> \in UsesOf(g, s)
      BY <1>1, UseIs
    <2>2. <<k, j>> \in W
      <3>1. AllFrom(W, k)
        BY DEF k
      <3> QED BY <1>1, <3>1 DEF AllFrom
    <2> QED BY <2>1, <2>2 DEF UsesIn
  <1>4. \A y \in UsesIn(g, s, W) : y = <<k, j>>
    BY <1>2, <1>3, AtMostOne
  <1>5. ViewsIn(g, s, W) = {}
    BY <1>2, AtMostNone
  <1>6. UsesIn(g, s, V) = {}
    BY <1>4 DEF UsesIn
  <1>7. ViewsIn(g, s, V) = {}
    BY <1>5 DEF ViewsIn, UsesIn
  <1>8. AllFrom(W, k)
    BY DEF k
  <1>9. AllFrom(V, k + 1)
    <2> SUFFICES ASSUME NEW i \in Nat, NEW l \in Nat, i >= k + 1 PROVE <<i, l>> \in V
      BY DEF AllFrom
    <2>1. <<i, l>> \in W /\ i # k
      BY <1>1, <1>8 DEF AllFrom
    <2> QED BY <2>1
  <1> HIDE DEF V
  <1>10. ~NeededFrom(g, s, k + 1)
    <2>1. k + 1 \in Nat
      BY <1>1
    <2> QED BY <1>2, <1>6, <1>7, <1>9, <2>1, NotNeeded
  <1>11. ASSUME NEW i \in DOMAIN g[k].src, Root(g, g[k].src[i]) = s PROVE g[k].src[i] = s
    <2>1. <<k, i>> \in W
      BY <1>1, <1>8 DEF AllFrom
    <2>2. ReadAsItself(g, s, W)
      BY <1>5, ReadItself
    <2> QED BY <1>1, <1>11, <2>1, <2>2 DEF ReadAsItself
  <1> QED BY <1>1, <1>10, <1>11 DEF k, GivenUp

\* One more tensor gets an address.
LEMMA SpacedMore ==
    ASSUME NEW g, NEW D, NEW a, NEW z, Spaced(g, D, a, z), NEW t \in Nat, NEW b,
           \A u \in D : u \in Nat /\ u < t /\ b[u] = a[u],
           \A u \in D : NeededFrom(g, u, Time(t)) => Away(b, z, u, t) \/ TakesOver(g, b, t, u)
    PROVE  Spaced(g, D \cup {t}, b, z)
  <1> SUFFICES ASSUME NEW u \in D \cup {t}, NEW v \in D \cup {t}, u < v,
                      NeededFrom(g, u, Time(v))
               PROVE  Away(b, z, u, v) \/ TakesOver(g, b, v, u)
    BY DEF Spaced
  <1>1. u \in D
    <2>1. u = t /\ v \in D => v < t /\ v \in Nat
      OBVIOUS
    <2>2. u = t => v \in D
      OBVIOUS
    <2> QED BY <2>1, <2>2
  <1>2. CASE v = t
    BY <1>1, <1>2
  <1>3. CASE v \in D
    <2>1. b[u] = a[u] /\ b[v] = a[v]
      BY <1>1, <1>3
    <2>2. Away(a, z, u, v) \/ TakesOver(g, a, v, u)
      BY <1>1, <1>3 DEF Spaced
    <2> QED BY <2>1, <2>2 DEF Away, TakesOver
  <1> QED BY <1>2, <1>3

\* What a planner keeps: the counters, what is needed, and the distances.
Keeps(g, p, D, W, m) ==
    /\ Counting(g, p.hash, W)
    /\ KeepsNeeded(g, p.hash, D, m)
    /\ Spaced(g, D, Addrs(g, p.hash), Sz(g))

\* Two tensors that have memory at the same time are apart.
LEMMA BothHeld ==
    ASSUME NEW g, NEW p, PlannerOK(g, p), NEW t \in Tensors(g), NEW u \in Tensors(g), t # u,
           p.hash[t].allocated, p.hash[u].allocated
    PROVE  Away(Addrs(g, p.hash), Sz(g), t, u)
  <1> DEFINE T == Tensors(g)
             c == p.hash[t].addr.chunk
             h == p.hash
  <1>1. Typed(T, h, p.chunks) /\ SpansApart(T, Sz(g), h, p.chunks)
    BY DEF PlannerOK, Good
  <1>2. c \in DOMAIN p.chunks
    BY <1>1 DEF Typed
  <1>3. CASE p.hash[u].addr.chunk = c
    <2>1. t \in Held(T, h, c) /\ u \in Held(T, h, c)
      BY <1>3 DEF Held
    <2>2. Apart(Span(h, Sz(g), t), Span(h, Sz(g), u))
      BY <1>1, <1>2, <2>1 DEF SpansApart
    <2> QED BY <2>2 DEF Away, Addrs, Span
  <1>4. CASE p.hash[u].addr.chunk # c
    BY <1>4 DEF Away, Addrs
  <1> QED BY <1>3, <1>4

\* ggml_gallocr_allocate_node() for the tensor whose turn it is.
LEMMA AllocateKeeps ==
    ASSUME AllocOK, LeafsOK, NEW g, GraphOK(g), NEW p, PlannerOK(g, p), NEW D, NEW W, NEW m \in Nat,
           Keeps(g, p, D, W, m), AllFrom(W, m),
           NEW t \in Tensors(g), Time(t) = m, D \subseteq Tensors(g), \A u \in D : u < t,
           Own(g, t), NEW q \in AllocateNode(g, p, t)
    PROVE  Keeps(g, q, D \cup {t}, W, m + 1)
  <1> DEFINE T == Tensors(g)
             a == Addrs(g, p.hash)
             b == Addrs(g, q.hash)
             z == Sz(g)
  <1>1. /\ Counting(g, p.hash, W) /\ Spaced(g, D, a, z)
        /\ \A u \in D : NeededFrom(g, u, m) => p.hash[u].allocated
        /\ \A u \in T : p.hash[u].allocated => u \in D
    BY DEF Keeps, KeepsNeeded
  <1>2. t \in Nat /\ \A u \in D : u \in Nat /\ u # t /\ u \in T
    <2>1. \A u \in T : u \in Nat
      BY GraphFacts
    <2> QED BY <2>1
  <1>3. ~Settled(g, p, t)
    BY <1>1, <1>2 DEF Settled, Own
  <1>4. PlannerOK(g, q)
    BY AllocateNodeGood
  <1>5. /\ SameCounts(g, p.hash, q.hash)
        /\ \A u \in T : u # t => q.hash[u].addr = p.hash[u].addr
        /\ q.hash[t].allocated = TRUE
        /\ (\E s \in T : s # t /\ TakenFrom(g, p, q, t, s)) \/ TakenFresh(g, p, q, t)
    <2>1. Allocated(g, p, q, t)
      BY AllocateEffect
    <2> QED BY <1>3, <2>1 DEF Allocated
  <1>6. \A u \in D : a[u] = b[u]
    BY <1>2, <1>5 DEF Addrs
  <1>7. Counting(g, q.hash, W)
    BY <1>1, <1>5, FewerUses
  <1>8. \A u : NeededFrom(g, u, m + 1) => NeededFrom(g, u, m)
    <2>1. m + 1 \in Nat /\ m <= m + 1
      OBVIOUS
    <2> QED BY <2>1, NeededLater
  <1> HIDE DEF a, b, z
  <1>9. CASE TakenFresh(g, p, q, t)
    <2>1. \A u \in T : u # t => q.hash[u].allocated = p.hash[u].allocated
      BY <1>9 DEF TakenFresh
    <2>2. KeepsNeeded(g, q.hash, D \cup {t}, m + 1)
      BY <1>1, <1>2, <1>5, <1>8, <2>1 DEF KeepsNeeded
    <2>3. ASSUME NEW u \in D, NeededFrom(g, u, Time(t)) PROVE Away(b, z, u, t)
      <3>1. q.hash[u].allocated
        BY <1>1, <1>2, <2>1, <2>3
      <3> QED BY <1>2, <1>4, <1>5, <3>1, BothHeld DEF b, z
    <2>4. Spaced(g, D \cup {t}, b, z)
      BY <1>1, <1>2, <1>6, <2>3, SpacedMore
    <2> QED BY <1>7, <2>2, <2>4 DEF Keeps, b, z
  <1>10. ASSUME NEW s \in T, s # t, TakenFrom(g, p, q, t, s)
         PROVE  Keeps(g, q, D \cup {t}, W, m + 1)
    <2>1. /\ ~IsLeaf(t) /\ Node(g, t).kind = "add" /\ Reusable(g, p, t, s)
          /\ q.hash[t].addr = p.hash[s].addr /\ ~q.hash[s].allocated
          /\ \A u \in T : u # t /\ u # s => q.hash[u].allocated = p.hash[u].allocated
      BY <1>10 DEF TakenFrom
    <2>2. PICK j \in DOMAIN Node(g, t).src : Node(g, t).src[j] = s
      BY <1>10 DEF TakenFrom
    <2>3. GivenUp(g, s, t)
      BY <1>1, <2>1, <2>2, ReusableGivesUp
    <2>4. p.hash[s].allocated /\ Layout(g, s) = Layout(g, t)
      BY <2>1 DEF Reusable
    <2>5. s \in D
      BY <1>1, <2>4
    <2>6. KeepsNeeded(g, q.hash, D \cup {t}, m + 1)
      BY <1>1, <1>2, <1>5, <1>8, <2>1, <2>3 DEF KeepsNeeded, GivenUp
    <2>7. ASSUME NEW u \in D, NeededFrom(g, u, Time(t)), u # s PROVE Away(b, z, u, t)
      <3>1. q.hash[u].allocated
        BY <1>1, <1>2, <2>1, <2>7
      <3> QED BY <1>2, <1>4, <1>5, <3>1, BothHeld DEF b, z
    <2>8. TakesOver(g, b, t, s)
      <3>1. b[t] = b[s]
        BY <1>5, <1>10, <2>1 DEF b, Addrs
      <3> QED BY <2>1, <2>2, <2>3, <2>4, <3>1 DEF TakesOver, GivenUp
    <2>9. Spaced(g, D \cup {t}, b, z)
      BY <1>1, <1>2, <1>6, <2>7, <2>8, SpacedMore
    <2> QED BY <1>7, <2>6, <2>9 DEF Keeps, b, z
  <1> QED BY <1>5, <1>9, <1>10

\* A tensor without memory of its own needs no planning, and one that is needed has it
\* already.
LEMMA AllocateSettled ==
    ASSUME AllocOK, LeafsOK, NEW g, GraphOK(g), NEW p, PlannerOK(g, p),
           NEW t \in Tensors(g), ~Own(g, t) \/ p.hash[t].allocated, NEW q \in AllocateNode(g, p, t)
    PROVE  q = p
  BY DEF AllocateNode, Own

\* With fewer uses left, and later, no more is needed.
LEMMA KeepsFewer ==
    ASSUME NEW g, NEW p, NEW D, NEW W, NEW m, Keeps(g, p, D, W, m), NEW V, V \subseteq W
    PROVE  Keeps(g, p, D, V, m)
  <1>1. Counting(g, p.hash, V)
    BY FewerUses DEF Keeps, SameCounts
  <1> QED BY <1>1 DEF Keeps

\* At a later node no more is needed.
LEMMA KeepsLater ==
    ASSUME AllocOK, LeafsOK, NEW g, GraphOK(g), NEW p, NEW D, NEW W, NEW m \in Nat,
           Keeps(g, p, D, W, m)
    PROVE  Keeps(g, p, D, W, m + 1)
  <1>1. m + 1 \in Nat /\ m <= m + 1
    OBVIOUS
  <1>2. KeepsNeeded(g, p.hash, D, m + 1)
    BY <1>1, NeededLater DEF Keeps, KeepsNeeded
  <1> QED BY <1>2 DEF Keeps

\* The first node is number 1.
LEMMA KeepsFirst ==
    ASSUME AllocOK, LeafsOK, NEW g, GraphOK(g), NEW p, NEW D, NEW W, Keeps(g, p, D, W, 1)
    PROVE  Keeps(g, p, D, W, 0)
  <1>1. \A u : NeededFrom(g, u, 0) => NeededFrom(g, u, 1)
    BY NodeFacts DEF NeededFrom
  <1> QED BY <1>1 DEF Keeps, KeepsNeeded

\* A source of the node is updated: what it frees is not needed any more.
LEMMA UpdateParentKeeps ==
    ASSUME AllocOK, LeafsOK, NEW g, GraphOK(g), NEW p, PlannerOK(g, p), NEW D, NEW W, NEW m \in Nat,
           D \subseteq Tensors(g), Keeps(g, p, D, W, m), NEW s \in Tensors(g),
           NEW x \in UsesIn(g, s, W), NEW V, V \subseteq W \ {x}, AllFrom(V, m)
    PROVE  Keeps(g, UpdateParent(g, p, s), D, V, m)
  <1> DEFINE T == Tensors(g)
             q == UpdateParent(g, p, s)
  <1>1. Counting(g, p.hash, W)
    BY DEF Keeps
  <1>2. /\ Counting(g, q.hash, V)
        /\ \A u \in Tensors(g) :
              /\ q.hash[u].addr = p.hash[u].addr
              /\ q.hash[u].allocated => p.hash[u].allocated
              /\ p.hash[u].allocated /\ ~q.hash[u].allocated =>
                    ~IsOutput(g, u) /\ UsesIn(g, u, V) = {} /\ ViewsIn(g, u, V) = {}
    <2>1. Updated(g, p, q, V)
      BY <1>1, UpdateParentCounts
    <2> HIDE DEF q
    <2> QED BY <2>1 DEF Updated
  <1> HIDE DEF q
  <1>3. \A u \in T : p.hash[u].allocated /\ ~q.hash[u].allocated => ~NeededFrom(g, u, m)
    BY <1>2, NotNeeded
  <1>4. KeepsNeeded(g, q.hash, D, m)
    BY <1>2, <1>3 DEF Keeps, KeepsNeeded
  <1>5. Addrs(g, q.hash) = Addrs(g, p.hash)
    BY <1>2 DEF Addrs
  <1> QED BY <1>2, <1>4, <1>5 DEF Keeps, q

\* Before the first tensor.
LEMMA CountedKeeps ==
    ASSUME AllocOK, LeafsOK, NEW g, GraphOK(g), NEW W
    PROVE  Keeps(g, [hash |-> Counted(g), chunks |-> <<>>], {}, W, 0)
  <1>1. Counting(g, Counted(g), W)
    BY CountedCounts
  <1>2. \A t \in Tensors(g) : Counted(g)[t].allocated = FALSE
    BY DEF Counted
  <1> QED BY <1>1, <1>2 DEF Keeps, KeepsNeeded, Spaced

-----------------------------------------------------------------------------
(* The loops of alloc_graph_impl(): which uses are still to come, and from *)
(* which node on a tensor must be needed to keep its memory.               *)

UsesLeft(n, d) == {x \in Nat \X Nat : x[1] > n \/ (x[1] = n /\ x[2] > d)}
Pending == UsesLeft(next, IF next \in DOMAIN graph THEN step - Sources - 2 ELSE -1)
Now == IF next \in DOMAIN graph /\ step > Sources + 1 THEN next + 1 ELSE next

PlanKept == Keeps(graph, Planner, Done, Pending, Now)

\* The uses of the nodes that are needed are still to come.
LEMMA PendingAll ==
    ASSUME LeafsOK, GraphOK(graph), Position
    PROVE  AllFrom(Pending, Now) /\ Now \in Nat
  <1>1. next \in Nat /\ step \in Nat
    BY DEF Position, Positive
  <1>2. next \in DOMAIN graph => Sources \in Nat
    BY NextSource
  <1> DEFINE d == IF next \in DOMAIN graph THEN step - Sources - 2 ELSE -1
  <1>3. \A k, j \in Nat : k >= Now => k > next \/ (k = next /\ j > d)
    BY <1>1, <1>2 DEF Now
  <1> HIDE DEF d
  <1>4. \A k, j \in Nat : k >= Now => <<k, j>> \in UsesLeft(next, d)
    BY <1>3 DEF UsesLeft
  <1> QED BY <1>1, <1>4 DEF AllFrom, Pending, Now, d

\* What a step of the loops makes of it.
LEMMA AdvancePending ==
    ASSUME LeafsOK, GraphOK(graph), Position, leafs' = leafs, graph' = graph,
           NEW last \in Nat, Advance(last),
           \/ next = 0 /\ last = Len(leafs)
           \/ next \in DOMAIN graph /\ last = 2 * Sources + 1 /\ step <= last
    PROVE  /\ Pending' \subseteq Pending
           /\ next \in DOMAIN graph /\ step > Sources + 1 =>
                <<next, step - Sources - 1>> \notin Pending'
           /\ Now' = IF next = 0 THEN next'
                     ELSE IF step > Sources THEN next + 1 ELSE next
           /\ next = 0 => Now = 0 /\ next' \in {0, 1}
           /\ next \in DOMAIN graph => Now = IF step > Sources + 1 THEN next + 1 ELSE next
  <1> DEFINE d == IF next \in DOMAIN graph THEN step - Sources - 2 ELSE -1
             e == IF next' \in DOMAIN graph THEN step' - Sources' - 2 ELSE -1
  <1>1. /\ next \in Nat /\ step \in Nat /\ step > 0
        /\ DOMAIN graph = 1 .. Len(graph) /\ Len(graph) \in Nat
    BY DEF Position, Positive, GraphOK
  <1>2. \A k \in DOMAIN graph : Len(graph[k].src) \in Nat
    <2>1. \A k \in DOMAIN graph : graph[k] \in NodeRecord
      BY DEF GraphOK
    <2> QED BY <2>1 DEF NodeRecord
  <1>3. /\ next' = IF step = last THEN next + 1 ELSE next
        /\ step' = IF step = last THEN 1 ELSE step + 1
    BY DEF Advance
  <1>4. /\ next \in DOMAIN graph => Sources \in Nat /\ Sources = Len(graph[next].src)
        /\ next' \in DOMAIN graph => Sources' \in Nat /\ Sources' = Len(graph[next'].src)
    BY <1>2 DEF Sources
  <1>5. Pending = UsesLeft(next, d) /\ Pending' = UsesLeft(next', e)
    BY DEF Pending, UsesLeft
  <1>6. Now' = IF next' \in DOMAIN graph /\ step' > Sources' + 1 THEN next' + 1 ELSE next'
    BY DEF Now
  <1>7. CASE next = 0 /\ last = Len(leafs)
    <2>1. d = -1 /\ next' \in {0, 1}
      BY <1>1, <1>3, <1>7
    <2>2. next' = 1 => step' = 1
      BY <1>3, <1>7
    <2>3. next' = 0 => e = -1
      BY <1>1
    <2>4. \A k, j \in Nat : (k > next' \/ (k = next' /\ j > e)) => k > next \/ (k = next /\ j > d)
      BY <1>7, <2>1, <2>3
    <2> HIDE DEF d, e
    <2>5. Pending' \subseteq Pending
      BY <1>5, <2>4 DEF UsesLeft
    <2>6. Now' = next' /\ Now = 0
      <3>1. Now = 0
        BY <1>1, <1>7 DEF Now
      <3>2. CASE next' = 0
        BY <1>1, <1>6, <3>1, <3>2
      <3>3. CASE next' = 1
        <4>1. next' \in DOMAIN graph => ~(step' > Sources' + 1)
          BY <1>4, <2>2, <3>3
        <4> QED BY <1>6, <3>1, <3>3, <4>1
      <3> QED BY <2>1, <3>1, <3>2, <3>3
    <2> QED BY <1>1, <1>7, <2>1, <2>5, <2>6
  <1>8. CASE next \in DOMAIN graph /\ last = 2 * Sources + 1 /\ step <= last
    <2>1. CASE step = last
      <3>1. next' = next + 1 /\ step' = 1 /\ d = Sources - 1
        BY <1>1, <1>3, <1>4, <1>8, <2>1
      <3>2. Now' = next'
        BY <1>4, <1>6, <3>1
      <3>3. \A k, j \in Nat : (k > next' \/ (k = next' /\ j > e)) => k > next
        BY <1>1, <3>1
      <3> HIDE DEF d, e
      <3>4. Pending' \subseteq Pending /\ \A x \in Pending' : x[1] > next
        BY <1>1, <1>5, <3>3 DEF UsesLeft
      <3>5. <<next, step - Sources - 1>> \notin Pending'
        BY <1>1, <3>4
      <3>6. step > Sources
        BY <1>4, <1>8, <2>1
      <3> QED BY <1>1, <1>8, <3>1, <3>2, <3>4, <3>5, <3>6 DEF Now
    <2>2. CASE step # last
      <3>1. next' = next /\ step' = step + 1 /\ Sources' = Sources
        BY <1>3, <2>2 DEF Sources
      <3>2. e = d + 1 /\ d = step - Sources - 2 /\ d \in Int
        BY <1>1, <1>4, <1>8, <3>1
      <3>3. Now' = IF step > Sources THEN next + 1 ELSE next
        BY <1>1, <1>4, <1>6, <1>8, <3>1
      <3> HIDE DEF d, e
      <3>4. Pending' \subseteq Pending
        BY <1>1, <1>5, <3>1, <3>2 DEF UsesLeft
      <3>5. \A x \in Pending' : x[1] = next => x[2] > e
        BY <1>1, <1>5, <3>1 DEF UsesLeft
      <3>6. step - Sources - 1 = e
        BY <1>1, <1>4, <1>8, <3>2
      <3>7. <<next, step - Sources - 1>> \notin Pending'
        <4>1. e \in Int
          BY <3>2
        <4> QED BY <3>5, <3>6, <4>1
      <3> QED BY <1>1, <1>8, <3>3, <3>4, <3>7 DEF Now
    <2> QED BY <2>1, <2>2
  <1> QED BY <1>7, <1>8

\* What has got its address afterwards.
Current == IF next = 0 THEN step ELSE NodeTensor(next)
Turn == Own(graph, Current) /\ (next # 0 => step = Sources + 1)

\* A step of a loop puts the tensor whose turn it is behind those that are done.
LEMMA AdvanceDone ==
    ASSUME LeafsOK, GraphOK(graph), Position, phase' = phase, leafs' = leafs, graph' = graph,
           NEW last \in Nat, Advance(last),
           \/ next = 0 /\ last = Len(leafs) /\ step <= last
           \/ next \in DOMAIN graph /\ last = 2 * Sources + 1 /\ step <= last
    PROVE  /\ Done' = IF Turn THEN Done \cup {Current} ELSE Done
           /\ Turn => \A u \in Done : u < Current
  <1> DEFINE t == Current
             turn == Turn
  <1>1. /\ next \in Nat /\ step \in Nat /\ step > 0
        /\ DOMAIN graph = 1 .. Len(graph) /\ Len(graph) \in Nat
        /\ Len(leafs) \in Nat /\ Len(leafs) > 0
    BY DEF Position, Positive, GraphOK, LeafsOK
  <1>2. \A k \in DOMAIN graph : Len(graph[k].src) \in Nat
    <2>1. \A k \in DOMAIN graph : graph[k] \in NodeRecord
      BY DEF GraphOK
    <2> QED BY <2>1 DEF NodeRecord
  <1>3. /\ next' = IF step = last THEN next + 1 ELSE next
        /\ step' = IF step = last THEN 1 ELSE step + 1
    BY DEF Advance
  <1>4. (\A u : Own(graph, u)' <=> Own(graph, u)) /\ Tensors(graph)' = Tensors(graph)
    BY DEF Own, External, IsView, IsLeaf, Node, Tensors
  <1>5. Tensors(graph) = 1 .. Len(leafs) + Len(graph)
    BY DEF Tensors
  <1>6. NodeTensor(next)' = Len(leafs) + next' /\ NodeTensor(next) = Len(leafs) + next
    BY DEF NodeTensor
  <1>7. t \in Tensors(graph)
    BY <1>1, <1>5, <1>6 DEF Current
  <1>8. /\ next \in DOMAIN graph => Sources \in Nat
        /\ next' \in DOMAIN graph => Sources' \in Nat
        /\ next' = next => Sources' = Sources
    BY <1>2 DEF Sources
  <1>9. \A u \in Tensors(graph) :
            Passed(u) <=> IF next = 0 THEN u < step
                          ELSE u < Len(leafs) + next \/ (u = Len(leafs) + next /\ step > Sources + 1)
    BY <1>6 DEF Passed
  <1>10. \A u \in Tensors(graph) :
            Passed(u)' <=> IF next' = 0 THEN u < step'
                           ELSE u < Len(leafs) + next'
                                \/ (u = Len(leafs) + next' /\ step' > Sources' + 1)
    BY <1>6 DEF Passed
  <1>11. \A u \in Tensors(graph) :
            Passed(u)' <=> Passed(u) \/ (u = t /\ (next # 0 => step = Sources + 1))
    <2>1. CASE next = 0 /\ last = Len(leafs) /\ step <= last
      <3>1. CASE step = last
        <4>1. next' = 1 /\ step' = 1
          BY <1>3, <2>1, <3>1
        <4>2. \A u \in Tensors(graph) : ~(u = Len(leafs) + next' /\ step' > Sources' + 1)
          BY <1>1, <1>5, <1>8, <4>1
        <4>3. \A u \in Tensors(graph) : Passed(u)' <=> u < Len(leafs) + 1
          BY <1>10, <4>1, <4>2
        <4> QED BY <1>1, <1>5, <1>9, <2>1, <3>1, <4>3 DEF Current
      <3>2. CASE step # last
        BY <1>1, <1>3, <1>5, <1>9, <1>10, <2>1, <3>2 DEF Current
      <3> QED BY <3>1, <3>2
    <2>2. CASE next \in DOMAIN graph /\ last = 2 * Sources + 1 /\ step <= last
      <3>1. Sources \in Nat /\ next > 0
        BY <1>1, <1>8, <2>2
      <3>2. t = Len(leafs) + next
        BY <1>6, <3>1 DEF Current
      <3>3. CASE step = last
        <4>1. next' = next + 1 /\ step' = 1
          BY <1>3, <3>3
        <4>2. \A u \in Tensors(graph) : ~(u = Len(leafs) + next' /\ step' > Sources' + 1)
          BY <1>1, <1>5, <1>8, <4>1
        <4>3. \A u \in Tensors(graph) : Passed(u)' <=> u < Len(leafs) + next + 1
          BY <1>1, <1>10, <3>1, <4>1, <4>2
        <4>4. step > Sources + 1 \/ step = Sources + 1
          BY <1>1, <2>2, <3>1, <3>3
        <4> HIDE DEF t
        <4> QED BY <1>1, <1>5, <1>9, <3>1, <3>2, <4>3, <4>4
      <3>4. CASE step # last
        <4>1. next' = next /\ step' = step + 1 /\ Sources' = Sources
          BY <1>3, <1>8, <3>4
        <4> HIDE DEF t
        <4> QED BY <1>1, <1>5, <1>9, <1>10, <3>1, <3>2, <4>1
      <3> QED BY <3>3, <3>4
    <2> QED BY <2>1, <2>2
  <1>12. Done' = IF turn THEN Done \cup {t} ELSE Done
    BY <1>4, <1>7, <1>11 DEF Done, Turn
  <1>13. Turn => \A u \in Done : u < t
    <2>1. CASE next = 0
      BY <1>1, <1>5, <1>9, <2>1 DEF Done, Current, t
    <2>2. CASE next # 0 /\ step = Sources + 1
      <3>1. next \in DOMAIN graph => Sources \in Nat
        BY <1>8
      <3>2. next \in DOMAIN graph
        BY <2>2
      <3>3. t = Len(leafs) + next
        BY <1>6, <2>2 DEF Current, t
      <3>4. Sources \in Nat /\ ~(step > Sources + 1)
        BY <2>2, <3>1, <3>2
      <3>5. \A u \in Tensors(graph) : Passed(u) => u < Len(leafs) + next
        BY <1>9, <2>2, <3>4
      <3> QED BY <3>3, <3>5 DEF Done
    <2> QED BY <2>1, <2>2 DEF Turn
  <1> QED BY <1>12, <1>13 DEF t

\* A step of the planner that becomes p and keeps what is to be kept.
LEMMA PlannerStepKept ==
    ASSUME leafs' = leafs, graph' = graph, NEW p, p = [hash |-> p.hash, chunks |-> p.chunks],
           Becomes(p), Keeps(graph, p, Done', Pending', Now')
    PROVE  PlanKept'
  <1>1. Planner' = p
    BY DEF Planner, Becomes
  <1>2. \A t, u : /\ Root(graph, t)' = Root(graph, t) /\ IsOutput(graph, t)' = IsOutput(graph, t)
                 /\ Layout(graph, t)' = Layout(graph, t) /\ IsLeaf(t)' = IsLeaf(t)
                 /\ Node(graph, t)' = Node(graph, t) /\ Time(t)' = Time(t)
                 /\ NodeTensor(t)' = NodeTensor(t)
    BY DEF Root, IsView, IsOutput, Layout, IsLeaf, Node, Time, NodeTensor
  <1>3. Tensors(graph)' = Tensors(graph) /\ Sz(graph)' = Sz(graph)
    <2>1. Tensors(graph)' = Tensors(graph)
      BY DEF Tensors
    <2>2. \A t : AllocSize(graph, t)' = AllocSize(graph, t)
      BY DEF AllocSize, Size, Layout, IsLeaf, Node
    <2> QED BY <2>1, <2>2 DEF Sz
  <1>4. Counting(graph, p.hash, Pending') => Counting(graph, Planner.hash, Pending)'
    <2>1. \A t : UsesIn(graph, t, Pending)' = UsesIn(graph, t, Pending')
      BY DEF UsesIn, UsesOf, Uses
    <2>2. \A k : UsesIn(graph, NodeTensor(k), Pending)' = UsesIn(graph, NodeTensor(k), Pending')
      BY DEF UsesIn, UsesOf, Uses, NodeTensor
    <2>3. \A t : ViewsIn(graph, t, Pending)' = ViewsIn(graph, t, Pending')
      BY <2>2 DEF ViewsIn
    <2>4. \A S, n : AtMost(S, n)' <=> AtMost(S, n)
      BY DEF AtMost
    <2> QED BY <1>1, <1>3, <2>1, <2>3, <2>4 DEF Counting
  <1>5. \A t, m : NeededFrom(graph, t, m)' <=> NeededFrom(graph, t, m)
    BY <1>2 DEF NeededFrom, ReadAt
  <1>6. KeepsNeeded(graph, p.hash, Done', Now') => KeepsNeeded(graph, Planner.hash, Done, Now)'
    BY <1>1, <1>3, <1>5 DEF KeepsNeeded
  <1>7. Addrs(graph, p.hash) = Addrs(graph, Planner.hash)'
    BY <1>1, <1>3 DEF Addrs
  <1>8. \A a, t, u : TakesOver(graph, a, u, t)' <=> TakesOver(graph, a, u, t)
    BY <1>2, <1>5 DEF TakesOver
  <1>9. Spaced(graph, Done', Addrs(graph, p.hash), Sz(graph))
            => Spaced(graph, Done, Addrs(graph, Planner.hash), Sz(graph))'
    BY <1>2, <1>3, <1>5, <1>7, <1>8 DEF Spaced, Away
  <1> QED BY <1>4, <1>6, <1>9 DEF PlanKept, Keeps

\* What the loops are about, for the steps that follow.
LEMMA LoopFacts ==
    ASSUME Inv, phase = "plan"
    PROVE  /\ LeafsOK /\ GraphOK(graph) /\ PlannerOK(graph, Planner) /\ Position
           /\ Done \subseteq Tensors(graph)
           /\ next \in Nat /\ step \in Nat /\ step > 0
           /\ Len(leafs) \in Nat /\ Len(leafs) > 0 /\ Len(graph) \in Nat /\ DOMAIN graph = 1 .. Len(graph)
           /\ next \in DOMAIN graph => Sources \in Nat /\ 2 * Sources + 1 \in Nat /\ next > 0
  <1>1. LeafsOK /\ GraphOK(graph) /\ PlannerOK(graph, Planner) /\ Position
    BY DEF Inv
  <1>2. Done \subseteq Tensors(graph)
    BY DEF Done
  <1>3. next \in DOMAIN graph => Sources \in Nat /\ next > 0
    BY <1>1, NextSource, NextNode
  <1>4. next \in DOMAIN graph => 2 * Sources + 1 \in Nat
    BY <1>3
  <1> QED BY <1>1, <1>2, <1>3, <1>4 DEF Position, Positive, LeafsOK, GraphOK

\* A leaf is planned.
LEMMA PlanLeafKept == ASSUME AllocOK, Inv, PlanKept, PlanLeaf PROVE PlanKept'
  <1>1. /\ phase = "plan" /\ next = 0 /\ Advance(Len(leafs)) /\ leafs' = leafs /\ graph' = graph
        /\ phase' = phase
    BY DEF PlanLeaf, Advance
  <1>2. /\ LeafsOK /\ GraphOK(graph) /\ PlannerOK(graph, Planner) /\ Position
        /\ Done \subseteq Tensors(graph) /\ step \in Nat /\ step > 0
        /\ Len(leafs) \in Nat /\ Len(graph) \in Nat
    BY <1>1, LoopFacts
  <1>3. step <= Len(leafs) /\ step \in Tensors(graph)
    BY <1>1, <1>2 DEF Position, Tensors
  <1>4. PICK p \in AllocateNode(graph, Planner, step) : Becomes(p)
    BY DEF PlanLeaf
  <1>5. PlannerOK(graph, p)
    BY <1>2, <1>3, <1>4, AllocateNodeGood
  <1>6. Pending' \subseteq Pending /\ Now' = next' /\ Now = 0 /\ next' \in {0, 1}
    BY <1>1, <1>2, AdvancePending
  <1>7. /\ Done' = IF Turn THEN Done \cup {Current} ELSE Done
        /\ Turn => \A u \in Done : u < Current
    BY <1>1, <1>2, <1>3, AdvanceDone
  <1>8. Current = step /\ (Turn <=> Own(graph, step))
    BY <1>1 DEF Current, Turn
  <1>9. Time(step) = 0
    BY <1>2, <1>3 DEF Time, IsLeaf, LeafsOK
  <1>10. AllFrom(Pending, 0)
    BY <1>2, <1>6, PendingAll
  <1>11. Keeps(graph, p, Done', Pending, 0) /\ Keeps(graph, p, Done', Pending, 1)
    <2>1. CASE Own(graph, step)
      <3>1. Now \in Nat /\ Time(step) = Now /\ AllFrom(Pending, Now)
        BY <1>2, <1>6, <1>9, PendingAll
      <3>2. \A u \in Done : u < step
        BY <1>7, <1>8, <2>1
      <3>3. Keeps(graph, Planner, Done, Pending, Now)
        BY DEF PlanKept
      <3>4. Keeps(graph, p, Done \cup {step}, Pending, Now + 1)
        BY <1>2, <1>3, <1>4, <2>1, <3>1, <3>2, <3>3, AllocateKeeps
      <3>5. Done' = Done \cup {step} /\ Now + 1 = 1
        BY <1>6, <1>7, <1>8, <2>1
      <3>6. Keeps(graph, p, Done', Pending, 1)
        BY <3>4, <3>5
      <3> QED BY <1>2, <3>6, KeepsFirst
    <2>2. CASE ~Own(graph, step)
      <3>1. p = Planner /\ Done' = Done
        BY <1>2, <1>3, <1>4, <1>7, <1>8, <2>2, AllocateSettled
      <3>2. Keeps(graph, p, Done', Pending, Now)
        BY <3>1 DEF PlanKept
      <3>3. Now \in Nat /\ Now + 1 = 1
        BY <1>6
      <3>4. Keeps(graph, p, Done', Pending, Now + 1)
        BY <1>2, <3>2, <3>3, KeepsLater
      <3> QED BY <1>6, <3>2, <3>3, <3>4
    <2> QED BY <2>1, <2>2
  <1>12. Keeps(graph, p, Done', Pending', Now')
    <2>1. Keeps(graph, p, Done', Pending, next')
      BY <1>6, <1>11
    <2>2. Keeps(graph, p, Done', Pending', next')
      BY <1>6, <2>1, KeepsFewer
    <2> QED BY <1>6, <2>2
  <1> QED BY <1>1, <1>4, <1>5, <1>12, PlannerStepKept DEF PlannerOK

\* Where a node is planned.
LEMMA PlanNodeFacts ==
    ASSUME AllocOK, Inv, PlanNode
    PROVE  /\ LeafsOK /\ GraphOK(graph) /\ PlannerOK(graph, Planner) /\ Position
           /\ next \in DOMAIN graph /\ next \in Nat /\ next > 0 /\ step \in Nat /\ step > 0
           /\ Len(leafs) \in Nat /\ Len(leafs) > 0 /\ Len(graph) \in Nat
           /\ DOMAIN graph = 1 .. Len(graph) /\ Sources \in Nat /\ step <= 2 * Sources + 1
           /\ NodeTensor(next) \in Tensors(graph) /\ Time(NodeTensor(next)) = next
           /\ NodeTensor(next) = Len(leafs) + next
           /\ Now = next
  <1>1. phase = "plan" /\ next \in DOMAIN graph /\ step <= Sources + 1
    BY DEF PlanNode
  <1>2. /\ LeafsOK /\ GraphOK(graph) /\ PlannerOK(graph, Planner) /\ Position
        /\ step \in Nat /\ step > 0 /\ next \in Nat /\ next > 0
        /\ Len(leafs) \in Nat /\ Len(leafs) > 0 /\ Len(graph) \in Nat
        /\ DOMAIN graph = 1 .. Len(graph) /\ Sources \in Nat
    BY <1>1, LoopFacts
  <1>3. NodeTensor(next) = Len(leafs) + next /\ ~IsLeaf(NodeTensor(next))
    BY <1>2 DEF NodeTensor, IsLeaf, LeafsOK
  <1>4. NodeTensor(next) \in Tensors(graph) /\ Time(NodeTensor(next)) = next
    BY <1>1, <1>2, <1>3, NextSource DEF Time
  <1>5. ~(step > Sources + 1) /\ step <= 2 * Sources + 1
    BY <1>1, <1>2
  <1> QED BY <1>1, <1>2, <1>3, <1>4, <1>5 DEF Now

\* A source of the node has its memory already.
LEMMA SourceSettled ==
    ASSUME AllocOK, Inv, PlanKept, PlanNode, step <= Sources,
           NEW p \in AllocateNode(graph, Planner, graph[next].src[step])
    PROVE  p = Planner
  <1> DEFINE s == graph[next].src[step]
  <1>1. /\ LeafsOK /\ GraphOK(graph) /\ PlannerOK(graph, Planner) /\ next \in DOMAIN graph
        /\ next \in Nat /\ next > 0 /\ step \in Nat /\ step > 0
        /\ Len(leafs) \in Nat /\ Len(graph) \in Nat /\ DOMAIN graph = 1 .. Len(graph)
        /\ NodeTensor(next) = Len(leafs) + next /\ Now = next
    BY PlanNodeFacts
  <1>2. step \in DOMAIN graph[next].src
    <2>1. graph[next].src \in Seq(Nat)
      BY <1>1, NextNode
    <2> QED BY <1>1, <2>1 DEF Sources
  <1>3. s \in 1 .. Len(leafs) + next - 1
    BY <1>1, <1>2 DEF GraphOK
  <1>4. s \in Tensors(graph) /\ s \in Nat /\ s < NodeTensor(next)
    <2> HIDE DEF s
    <2> QED BY <1>1, <1>3 DEF Tensors
  <1>5. Own(graph, s) => hash[s].allocated
    <2> SUFFICES ASSUME Own(graph, s) PROVE hash[s].allocated
      OBVIOUS
    <2>1. s \in Done
      BY <1>1, <1>4 DEF Done, Passed
    <2>2. Root(graph, s) = s
      BY DEF Own, Root
    <2>3. ReadAt(graph, s, next)
      BY <1>2, <2>2 DEF ReadAt
    <2>4. NeededFrom(graph, s, next)
      BY <1>1, <2>3 DEF NeededFrom
    <2>5. Keeps(graph, Planner, Done, Pending, next)
      BY <1>1 DEF PlanKept
    <2> QED BY <2>1, <2>4, <2>5 DEF Keeps, KeepsNeeded, Planner
  <1> HIDE DEF s
  <1>6. p \in AllocateNode(graph, Planner, s)
    BY DEF s
  <1> QED BY <1>1, <1>4, <1>5, <1>6, AllocateSettled DEF Planner

\* A source of the node has its memory already; the node itself gets it.
LEMMA PlanNodeKept == ASSUME AllocOK, Inv, PlanKept, PlanNode PROVE PlanKept'
  <1>1. /\ phase = "plan" /\ next \in DOMAIN graph /\ step <= Sources + 1
        /\ Advance(2 * Sources + 1) /\ leafs' = leafs /\ graph' = graph /\ phase' = phase
    BY DEF PlanNode, Advance
  <1>2. /\ LeafsOK /\ GraphOK(graph) /\ PlannerOK(graph, Planner) /\ Position
        /\ Done \subseteq Tensors(graph) /\ step \in Nat /\ step > 0 /\ next \in Nat /\ next > 0
        /\ Len(leafs) \in Nat /\ Len(leafs) > 0 /\ Len(graph) \in Nat /\ DOMAIN graph = 1 .. Len(graph)
        /\ Sources \in Nat /\ 2 * Sources + 1 \in Nat
    BY <1>1, LoopFacts
  <1>3. NodeTensor(next) \in Tensors(graph) /\ Time(NodeTensor(next)) = next
        /\ NodeTensor(next) = Len(leafs) + next
    BY PlanNodeFacts
  <1>4. step <= 2 * Sources + 1
    BY <1>1, <1>2
  <1>5. /\ Pending' \subseteq Pending
        /\ Now' = IF step > Sources THEN next + 1 ELSE next
        /\ Now = next
    <2>1. /\ Pending' \subseteq Pending
          /\ Now' = IF next = 0 THEN next' ELSE IF step > Sources THEN next + 1 ELSE next
          /\ Now = IF step > Sources + 1 THEN next + 1 ELSE next
      BY <1>1, <1>2, <1>4, AdvancePending
    <2> QED BY <1>1, <1>2, <2>1
  <1>6. /\ Done' = IF Turn THEN Done \cup {Current} ELSE Done
        /\ Turn => \A u \in Done : u < Current
    BY <1>1, <1>2, <1>4, AdvanceDone
  <1>7. Current = NodeTensor(next) /\ (Turn <=> Own(graph, NodeTensor(next)) /\ step = Sources + 1)
    BY <1>2 DEF Current, Turn
  <1>8. AllFrom(Pending, next)
    BY <1>2, <1>5, PendingAll
  <1>9. Keeps(graph, Planner, Done, Pending, next)
    BY <1>5 DEF PlanKept
  <1>10. CASE step <= Sources
    <2> DEFINE s == graph[next].src[step]
    <2>1. PICK p \in AllocateNode(graph, Planner, s) : Becomes(p)
      BY <1>10 DEF PlanNode
    <2>2. p = Planner
      BY <1>10, <2>1, SourceSettled
    <2>3. Done' = Done /\ Now' = next
      BY <1>2, <1>5, <1>6, <1>7, <1>10
    <2>4. Keeps(graph, p, Done', Pending', Now')
      BY <1>5, <1>9, <2>2, <2>3, KeepsFewer
    <2> QED BY <1>1, <1>2, <2>1, <2>2, <2>4, PlannerStepKept DEF PlannerOK
  <1>11. CASE step = Sources + 1
    <2> DEFINE t == NodeTensor(next)
    <2>1. PICK p \in AllocateNode(graph, Planner, t) : Becomes(p)
      BY <1>2, <1>11 DEF PlanNode
    <2>2. PlannerOK(graph, p)
      BY <1>2, <1>3, <2>1, AllocateNodeGood
    <2>3. Now' = next + 1 /\ next + 1 \in Nat
      BY <1>2, <1>5, <1>11
    <2>4. Keeps(graph, p, Done', Pending, next + 1)
      <3>1. CASE Own(graph, t)
        <4>1. Keeps(graph, p, Done \cup {t}, Pending, next + 1)
          BY <1>2, <1>3, <1>6, <1>7, <1>8, <1>9, <1>11, <2>1, <3>1, AllocateKeeps
        <4> QED BY <1>6, <1>7, <1>11, <3>1, <4>1
      <3>2. CASE ~Own(graph, t)
        <4>1. p = Planner /\ Done' = Done
          BY <1>2, <1>3, <1>6, <1>7, <2>1, <3>2, AllocateSettled
        <4>2. Keeps(graph, Planner, Done, Pending, next + 1)
          BY <1>2, <1>9, KeepsLater
        <4> QED BY <4>1, <4>2
      <3> QED BY <3>1, <3>2
    <2>5. Keeps(graph, p, Done', Pending', Now')
      BY <1>5, <2>3, <2>4, KeepsFewer
    <2> QED BY <1>1, <2>1, <2>2, <2>5, PlannerStepKept DEF PlannerOK
  <1> QED BY <1>1, <1>2, <1>10, <1>11

\* A source of the node is updated.
LEMMA PlanParentKept == ASSUME AllocOK, Inv, PlanKept, PlanParent PROVE PlanKept'
  <1> DEFINE j == step - Sources - 1
             s == graph[next].src[j]
             p == UpdateParent(graph, Planner, s)
  <1>1. /\ phase = "plan" /\ next \in DOMAIN graph /\ step > Sources + 1
        /\ Advance(2 * Sources + 1) /\ leafs' = leafs /\ graph' = graph /\ phase' = phase
        /\ Becomes(p)
    BY DEF PlanParent, Advance
  <1>2. /\ LeafsOK /\ GraphOK(graph) /\ PlannerOK(graph, Planner) /\ Position
        /\ Done \subseteq Tensors(graph) /\ step \in Nat /\ step > 0 /\ next \in Nat /\ next > 0
        /\ Sources \in Nat /\ 2 * Sources + 1 \in Nat
    BY <1>1, LoopFacts
  <1>3. step <= 2 * Sources + 1
    BY <1>1, <1>2 DEF Position
  <1>4. j \in 1 .. Sources /\ j \in Nat
    BY <1>1, <1>2, <1>3
  <1>5. s \in Tensors(graph) /\ j \in DOMAIN graph[next].src
    <2>1. graph[next].src \in Seq(Nat)
      BY <1>1, <1>2, NextNode
    <2>2. \A i \in 1 .. Sources : graph[next].src[i] \in Tensors(graph)
      BY <1>1, <1>2, NextSource
    <2>3. DOMAIN graph[next].src = 1 .. Sources
      BY <2>1 DEF Sources
    <2> HIDE DEF j
    <2> QED BY <1>4, <2>2, <2>3
  <1>6. /\ Pending' \subseteq Pending /\ <<next, j>> \notin Pending'
        /\ Now' = next + 1 /\ Now = next + 1
    BY <1>1, <1>2, <1>3, AdvancePending
  <1>7. Done' = Done
    <2>1. ~Turn
      BY <1>1, <1>2 DEF Turn
    <2> QED BY <1>1, <1>2, <1>3, <2>1, AdvanceDone
  <1>8. AllFrom(Pending', next + 1) /\ next + 1 \in Nat
    <2>1. \A k, i \in Nat : k > next => <<k, i>> \in Pending'
      <3>1. Pending' = UsesLeft(next', IF next' \in DOMAIN graph THEN step' - Sources' - 2 ELSE -1)
        BY <1>1 DEF Pending, UsesLeft
      <3>2. /\ next' = IF step = 2 * Sources + 1 THEN next + 1 ELSE next
            /\ step' = IF step = 2 * Sources + 1 THEN 1 ELSE step + 1
        BY <1>1 DEF Advance
      <3>3. next' \in DOMAIN graph => Sources' \in Nat
        <4>1. \A k \in DOMAIN graph : graph[k] \in NodeRecord
          BY <1>2 DEF GraphOK
        <4>2. \A k \in DOMAIN graph : Len(graph[k].src) \in Nat
          BY <4>1 DEF NodeRecord
        <4> QED BY <1>1, <4>2 DEF Sources
      <3> DEFINE e == IF next' \in DOMAIN graph THEN step' - Sources' - 2 ELSE -1
      <3>4. CASE step = 2 * Sources + 1
        <4>1. next' = next + 1 /\ \A i \in Nat : i > e
          BY <1>2, <3>2, <3>3, <3>4
        <4> HIDE DEF e
        <4> QED BY <1>2, <3>1, <4>1 DEF UsesLeft, e
      <3>5. CASE step # 2 * Sources + 1
        <4>1. next' = next
          BY <3>2, <3>5
        <4> HIDE DEF e
        <4> QED BY <1>2, <3>1, <4>1 DEF UsesLeft, e
      <3> QED BY <3>4, <3>5
    <2> QED BY <1>2, <2>1 DEF AllFrom
  <1>9. <<next, j>> \in UsesIn(graph, s, Pending)
    <2>1. <<next, j>> \in UsesOf(graph, s)
      BY <1>1, <1>5, UseIs
    <2>2. <<next, j>> \in Pending
      <3>1. j > step - Sources - 2
        BY <1>1, <1>2
      <3> HIDE DEF j
      <3> QED BY <1>1, <1>2, <1>4, <3>1 DEF Pending, UsesLeft
    <2> QED BY <2>1, <2>2 DEF UsesIn
  <1>10. Pending' \subseteq Pending \ {<<next, j>>}
    BY <1>6
  <1>11. PlannerOK(graph, p)
    BY <1>2, <1>5, UpdateParentGood
  <1>12. Keeps(graph, p, Done', Pending', Now')
    <2> HIDE DEF j, s
    <2> QED BY <1>2, <1>5, <1>6, <1>7, <1>8, <1>9, <1>10, UpdateParentKeeps DEF PlanKept
  <1> HIDE DEF p
  <1> QED BY <1>1, <1>11, <1>12, PlannerStepKept DEF PlannerOK

-----------------------------------------------------------------------------
(* From the planner to the plan, and from a plan to a graph it is kept for.*)

Owns(g) == {t \in Tensors(g) : Own(g, t)}
ViewsOK(g) == \A k \in DOMAIN g : g[k].kind = "view" => ~IsView(g, g[k].view)

\* What a plan says of tensor t, and the tensors that it gives an address; nothing here
\* depends on more of the leafs than how many they are.
Entry(pl, t) == IF IsLeaf(t) THEN pl.leaf[t] ELSE pl.dst[t - Len(leafs)]
Addressed(pl) == {t \in Tensors(pl.graph) : Entry(pl, t).addr # NoAddr}
PlanAddrs(pl) == [t \in Addressed(pl) |-> Entry(pl, t).addr]
PlanSizes(pl) == [t \in Addressed(pl) |-> Entry(pl, t).size_max]

\* In the plan u works in the place of t, one of its sources, for the last time t is read.
WorksIn(pl, u, t) ==
    /\ ~IsLeaf(u) /\ Node(pl.graph, u).kind = "add" /\ Entry(pl, u).addr = Entry(pl, t).addr
    /\ ~NeededFrom(pl.graph, t, Time(u) + 1)
    /\ \E j \in DOMAIN Node(pl.graph, u).src \cap DOMAIN pl.src[Time(u)] :
          Node(pl.graph, u).src[j] = t /\ pl.src[Time(u)][j].addr = Entry(pl, t).addr
    /\ \A j \in DOMAIN Node(pl.graph, u).src :
          Root(pl.graph, Node(pl.graph, u).src[j]) = t => Node(pl.graph, u).src[j] = t

PlanSpaced(pl) ==
    \A t, u \in Addressed(pl) : t < u /\ NeededFrom(pl.graph, t, Time(u)) =>
        Away(PlanAddrs(pl), PlanSizes(pl), t, u) \/ WorksIn(pl, u, t)

PlanSound(pl) ==
    /\ GraphOK(pl.graph) /\ Len(pl.dst) = Len(pl.graph)
    /\ \A t \in Addressed(pl) : Entry(pl, t) \in TensorAllocs
    /\ PlanSpaced(pl)

\* Distances are about the addresses of the tensors they are about.
LEMMA SpacedSame ==
    ASSUME NEW g, NEW D, NEW a, NEW z, Spaced(g, D, a, z), NEW b, \A t \in D : b[t] = a[t]
    PROVE  Spaced(g, D, b, z)
  BY DEF Spaced, Away, TakesOver

\* What is planned is what is handed to the tensors.
LEMMA PlanOfSound ==
    ASSUME AllocOK, LeafsOK, NEW g, GraphOK(g), NEW p, PlannerOK(g, p), NEW W, NEW m,
           Keeps(g, p, Owns(g), W, m)
    PROVE  /\ PlanSound(PlanOf(g, p.hash)) /\ Len(PlanOf(g, p.hash).leaf) = Len(leafs)
           /\ \A t \in Owns(g) : Bound(g, PlanOf(g, p.hash))[t] \in Address
           /\ Spaced(g, Owns(g), Bound(g, PlanOf(g, p.hash)), Sz(g))
  <1> DEFINE pl == PlanOf(g, p.hash)
             a == Addrs(g, p.hash)
  <1>1. /\ Len(leafs) \in Nat /\ DOMAIN leafs = 1 .. Len(leafs)
        /\ Len(g) \in Nat /\ DOMAIN g = 1 .. Len(g)
        /\ \A t \in Tensors(g) : t \in Nat /\ (~IsLeaf(t) => t - Len(leafs) \in DOMAIN g)
    BY GraphFacts
  <1>2. /\ pl.graph = g
        /\ pl.dst = [k \in DOMAIN g |-> TensorAlloc(g, p.hash, NodeTensor(k))]
        /\ pl.src = [k \in DOMAIN g |->
                       [j \in DOMAIN g[k].src |-> TensorAlloc(g, p.hash, g[k].src[j])]]
        /\ pl.leaf = [t \in DOMAIN leafs |-> TensorAlloc(g, p.hash, t)]
    BY DEF PlanOf
  <1>3. Len(pl.dst) = Len(g) /\ Len(pl.leaf) = Len(leafs)
    <2> HIDE DEF pl
    <2> QED BY <1>1, <1>2
  <1> HIDE DEF pl
  <1>4. ASSUME NEW t \in Tensors(g) PROVE Entry(pl, t) = TensorAlloc(g, p.hash, t)
    <2>1. CASE IsLeaf(t)
      BY <1>2, <2>1 DEF Entry, IsLeaf
    <2>2. CASE ~IsLeaf(t)
      <3>1. t - Len(leafs) \in DOMAIN g /\ NodeTensor(t - Len(leafs)) = t
        BY <1>1, <2>2 DEF NodeTensor
      <3> QED BY <1>2, <2>2, <3>1 DEF Entry
    <2> QED BY <2>1, <2>2
  <1>5. \A t \in Addressed(pl) : t \in Owns(g)
    <2>1. \A t \in Addressed(pl) : t \in Tensors(g) /\ TensorAlloc(g, p.hash, t).addr # NoAddr
      BY <1>2, <1>4 DEF Addressed
    <2> QED BY <2>1 DEF TensorAlloc, NoAlloc, Owns
  <1>6. ASSUME NEW t \in Owns(g)
        PROVE  /\ t \in Tensors(g) /\ Own(g, t)
               /\ Entry(pl, t) = [addr |-> a[t], size_max |-> Sz(g)[t]]
               /\ a[t] \in Address /\ Sz(g)[t] \in Nat
               /\ Bound(g, pl)[t] = a[t]
    <2>1. t \in Tensors(g) /\ Own(g, t)
      BY DEF Owns
    <2>2. a[t] = p.hash[t].addr /\ p.hash[t].addr \in Address
      BY <2>1, PlannerFacts DEF Addrs
    <2>3. Sz(g)[t] = AllocSize(g, t) /\ Sz(g)[t] \in Nat
      BY <2>1, SizeFacts, PlannerFacts
    <2>4. Entry(pl, t) = [addr |-> a[t], size_max |-> Sz(g)[t]]
      BY <1>4, <2>1, <2>2, <2>3 DEF TensorAlloc
    <2>5. Bound(g, pl)[t] = Entry(pl, t).addr
      BY <2>1 DEF Bound, Entry
    <2> QED BY <2>1, <2>2, <2>3, <2>4, <2>5
  <1> HIDE DEF a
  <1>7. Spaced(g, Owns(g), a, Sz(g))
    BY DEF Keeps, a
  <1>8. Spaced(g, Owns(g), Bound(g, pl), Sz(g))
    BY <1>6, <1>7, SpacedSame
  <1>9. ASSUME NEW t \in Addressed(pl), NEW u \in Addressed(pl), t < u,
               NeededFrom(g, t, Time(u))
        PROVE  Away(PlanAddrs(pl), PlanSizes(pl), t, u) \/ WorksIn(pl, u, t)
    <2>1. t \in Owns(g) /\ u \in Owns(g)
      BY <1>5
    <2>2. /\ PlanAddrs(pl)[t] = a[t] /\ PlanSizes(pl)[t] = Sz(g)[t]
          /\ PlanAddrs(pl)[u] = a[u] /\ PlanSizes(pl)[u] = Sz(g)[u]
      BY <1>6, <2>1 DEF PlanAddrs, PlanSizes
    <2>3. Away(a, Sz(g), t, u) => Away(PlanAddrs(pl), PlanSizes(pl), t, u)
      BY <2>2 DEF Away
    <2>4. ASSUME TakesOver(g, a, u, t) PROVE WorksIn(pl, u, t)
      <3>1. ~IsLeaf(u) /\ u \in Tensors(g)
        BY <1>6, <2>1, <2>4 DEF TakesOver
      <3>2. Node(g, u) = g[Time(u)] /\ Time(u) \in DOMAIN g
        BY <3>1, NodeFacts
      <3>3. PICK j \in DOMAIN g[Time(u)].src : g[Time(u)].src[j] = t
        BY <2>4, <3>2 DEF TakesOver
      <3>4. j \in DOMAIN pl.src[Time(u)] /\ pl.src[Time(u)][j] = TensorAlloc(g, p.hash, t)
        BY <1>2, <3>2, <3>3
      <3>5. pl.src[Time(u)][j].addr = Entry(pl, t).addr
        BY <1>4, <1>6, <2>1, <3>4
      <3>6. Entry(pl, u).addr = Entry(pl, t).addr
        BY <1>6, <2>1, <2>4 DEF TakesOver
      <3> QED BY <1>2, <2>4, <3>2, <3>3, <3>4, <3>5, <3>6 DEF TakesOver, WorksIn
    <2> QED BY <1>7, <1>9, <2>1, <2>3, <2>4 DEF Spaced
  <1>10. PlanSound(pl)
    <2>1. PlanSpaced(pl)
      BY <1>2, <1>9 DEF PlanSpaced
    <2>2. \A t \in Addressed(pl) : Entry(pl, t) \in TensorAllocs
      BY <1>5, <1>6 DEF TensorAllocs
    <2> QED BY <1>2, <1>3, <2>1, <2>2 DEF PlanSound
  <1>11. \A t \in Owns(g) : Bound(g, pl)[t] \in Address
    BY <1>6
  <1> QED BY <1>3, <1>8, <1>10, <1>11 DEF pl

\* Graphs of the same operations on the same tensors need them at the same time.
LEMMA AlikeSame ==
    ASSUME AllocOK, LeafsOK, NEW g, GraphOK(g), NEW h, GraphOK(h), Len(g) = Len(h),
           \A k \in DOMAIN g : /\ g[k].kind = h[k].kind /\ g[k].src = h[k].src
                               /\ g[k].view = h[k].view /\ g[k].out = h[k].out
    PROVE  /\ Tensors(g) = Tensors(h)
           /\ \A t \in Tensors(g) : Root(g, t) = Root(h, t)
           /\ \A t \in Tensors(g) : \A m : NeededFrom(g, t, m) <=> NeededFrom(h, t, m)
  <1>1. DOMAIN g = DOMAIN h
    BY GraphFacts
  <1>2. Tensors(g) = Tensors(h)
    BY DEF Tensors
  <1>3. \A t \in Tensors(g) : ~IsLeaf(t) => t - Len(leafs) \in DOMAIN g
    BY GraphFacts
  <1>4. \A t \in Tensors(g) : IsView(g, t) <=> IsView(h, t)
    BY <1>3 DEF IsView, Node
  <1>5. \A t \in Tensors(g) : IsOutput(g, t) <=> IsOutput(h, t)
    BY <1>3 DEF IsOutput, Node
  <1>6. \A t \in Tensors(g) : Root(g, t) = Root(h, t)
    BY <1>3, <1>4 DEF Root, IsView, Node
  <1>7. \A k \in DOMAIN g : \A j \in DOMAIN g[k].src : g[k].src[j] \in Tensors(g)
    <2>1. \A k \in DOMAIN g : \A j \in DOMAIN g[k].src : g[k].src[j] \in 1 .. Len(leafs) + k - 1
      BY DEF GraphOK
    <2>2. \A k \in DOMAIN g : \A s \in 1 .. Len(leafs) + k - 1 : s \in Tensors(g)
      BY GraphFacts DEF Tensors
    <2> QED BY <2>1, <2>2
  <1>8. \A t : \A k \in DOMAIN g : ReadAt(g, t, k) <=> ReadAt(h, t, k)
    BY <1>6, <1>7 DEF ReadAt
  <1>9. \A t \in Tensors(g) : \A m : NeededFrom(g, t, m) <=> NeededFrom(h, t, m)
    BY <1>1, <1>5, <1>8 DEF NeededFrom
  <1> QED BY <1>2, <1>6, <1>9

\* Smaller tensors at the same addresses are apart, too.
LEMMA AwaySmaller ==
    ASSUME NEW a, NEW z, NEW y, NEW t, NEW u, a[t] \in Address, a[u] \in Address,
           z[t] \in Nat, z[u] \in Nat, y[t] \in Nat, y[u] \in Nat, y[t] <= z[t], y[u] <= z[u],
           Away(a, z, t, u)
    PROVE  Away(a, y, t, u)
  <1>1. a[t].off \in Nat /\ a[u].off \in Nat
    BY DEF Address
  <1> QED BY <1>1 DEF Away, Apart, Block

\* A tensor is not smaller than what it holds.
LEMMA OwnSizes ==
    ASSUME AllocOK, LeafsOK, NEW g, GraphOK(g), NEW t \in Owns(g)
    PROVE  /\ t \in Tensors(g) /\ t \in Nat /\ Own(g, t)
           /\ Sz(g)[t] = AllocSize(g, t) /\ Sz(g)[t] \in Nat
           /\ Size(g, t) \in Nat /\ Size(g, t) <= Sz(g)[t]
           /\ IsLeaf(t) => Size(g, t) = Sz(g)[t] /\ Size(g, t) = LayoutSize[leafs[t].layout]
  <1>1. t \in Tensors(g) /\ Own(g, t)
    BY DEF Owns
  <1>2. t \in Nat /\ Size(g, t) \in Nat
    BY <1>1, GraphFacts DEF Size, Positive
  <1>3. Sz(g)[t] = AllocSize(g, t) /\ Sz(g)[t] \in Nat
    BY <1>1, SizeFacts DEF Positive
  <1>4. Extra \in Nat
    BY GraphFacts
  <1>5. AllocSize(g, t) >= Size(g, t) /\ (IsLeaf(t) => AllocSize(g, t) = Size(g, t))
    BY <1>2, <1>4 DEF AllocSize
  <1> QED BY <1>1, <1>2, <1>3, <1>5 DEF Size, Layout

\* A plan that is kept for a graph like its own keeps the distances: no tensor is larger
\* than planned, and what works in place has the layout of its source.
LEMMA KeptSpaced ==
    ASSUME AllocOK, LeafsOK, Common = {"leafs", "sources", "layouts"},
           NEW g, GraphOK(g), NEW pl, PlanSound(pl), Len(pl.dst) = Len(g), Suits(g, pl), Alike(g, pl)
    PROVE  /\ Spaced(g, Owns(g), Bound(g, pl), Sz(g))
           /\ \A t \in Owns(g) : Bound(g, pl)[t] \in Address
  <1> DEFINE h == pl.graph
             a == Bound(g, pl)
  <1>1. /\ GraphOK(h) /\ Len(g) = Len(h) /\ DOMAIN g = DOMAIN h
        /\ \A t \in Addressed(pl) : Entry(pl, t) \in TensorAllocs
        /\ PlanSpaced(pl)
    BY GraphFacts DEF PlanSound
  <1>2. /\ \A k \in DOMAIN g : /\ g[k].kind = h[k].kind /\ g[k].src = h[k].src
                                /\ g[k].view = h[k].view /\ g[k].out = h[k].out
        /\ \A k \in DOMAIN g : \A j \in DOMAIN g[k].src \cap DOMAIN pl.src[k] :
              pl.src[k][j].addr \in {pl.dst[k].addr} \ {NoAddr}
                  => Layout(g, g[k].src[j]) = g[k].layout
    BY DEF Alike
  <1>3. /\ Tensors(g) = Tensors(h)
        /\ \A t \in Tensors(g) : Root(g, t) = Root(h, t)
        /\ \A t \in Tensors(g) : \A m : NeededFrom(g, t, m) <=> NeededFrom(h, t, m)
    BY <1>1, <1>2, AlikeSame
  <1>4. ASSUME NEW t \in Owns(g)
        PROVE  /\ t \in Tensors(g) /\ t \in Addressed(pl) /\ a[t] = Entry(pl, t).addr
               /\ Entry(pl, t) \in TensorAllocs
               /\ Sz(g)[t] \in Nat /\ Sz(g)[t] <= Entry(pl, t).size_max
    <2>1. t \in Tensors(g) /\ Own(g, t) /\ Sz(g)[t] = AllocSize(g, t) /\ Sz(g)[t] \in Nat
      BY OwnSizes
    <2>2. Fits(g, t, Entry(pl, t))
      <3>1. CASE IsLeaf(t)
        BY <3>1 DEF Suits, Entry, IsLeaf
      <3>2. CASE ~IsLeaf(t)
        <4>1. t - Len(leafs) \in DOMAIN g /\ NodeTensor(t - Len(leafs)) = t
          <5>1. t - Len(leafs) \in DOMAIN g
            BY <2>1, <3>2, GraphFacts
          <5>2. Len(leafs) \in Nat /\ t \in Nat
            BY <2>1, GraphFacts
          <5> QED BY <5>1, <5>2 DEF NodeTensor
        <4> QED BY <3>2, <4>1 DEF Suits, Entry
      <3> QED BY <3>1, <3>2
    <2>3. Entry(pl, t).addr # NoAddr /\ Entry(pl, t).size_max >= AllocSize(g, t)
      BY <2>1, <2>2 DEF Fits
    <2>4. t \in Addressed(pl) /\ Entry(pl, t) \in TensorAllocs
      BY <1>1, <1>3, <2>1, <2>3 DEF Addressed
    <2>5. a[t] = Entry(pl, t).addr
      BY <2>1 DEF Bound, Entry
    <2>6. Entry(pl, t).size_max \in Nat
      BY <2>4 DEF TensorAllocs
    <2>7. Sz(g)[t] <= Entry(pl, t).size_max
      BY <2>1, <2>3, <2>6
    <2> QED BY <2>1, <2>4, <2>5, <2>7
  <1> HIDE DEF h, a
  <1>5. \A t \in Owns(g) : a[t] \in Address
    BY <1>4 DEF TensorAllocs
  <1>6. ASSUME NEW t \in Owns(g), NEW u \in Owns(g), t < u, NeededFrom(g, t, Time(u))
        PROVE  Away(a, Sz(g), t, u) \/ TakesOver(g, a, u, t)
    <2>1. /\ t \in Addressed(pl) /\ u \in Addressed(pl)
          /\ t \in Tensors(g) /\ u \in Tensors(g)
      BY <1>4
    <2>2. Away(PlanAddrs(pl), PlanSizes(pl), t, u) \/ WorksIn(pl, u, t)
      BY <1>1, <1>3, <1>6, <2>1 DEF PlanSpaced, h
    <2>3. ASSUME Away(PlanAddrs(pl), PlanSizes(pl), t, u) PROVE Away(a, Sz(g), t, u)
      <3>1. /\ PlanAddrs(pl)[t] = a[t] /\ PlanSizes(pl)[t] = Entry(pl, t).size_max
            /\ PlanAddrs(pl)[u] = a[u] /\ PlanSizes(pl)[u] = Entry(pl, u).size_max
        BY <1>4, <2>1 DEF PlanAddrs, PlanSizes
      <3>2. Entry(pl, t).size_max \in Nat /\ Entry(pl, u).size_max \in Nat
        BY <1>4 DEF TensorAllocs
      <3>3. Away(PlanAddrs(pl), Sz(g), t, u)
        BY <1>4, <1>5, <2>3, <3>1, <3>2, AwaySmaller
      <3> QED BY <3>1, <3>3 DEF Away
    <2>4. ASSUME WorksIn(pl, u, t) PROVE TakesOver(g, a, u, t)
      <3>1. ~IsLeaf(u) /\ Time(u) = u - Len(leafs)
        BY <2>4 DEF WorksIn, Time
      <3>2. Node(g, u) = g[Time(u)] /\ Node(h, u) = h[Time(u)] /\ Time(u) \in DOMAIN g
        BY <1>1, <1>3, <2>1, <3>1, NodeFacts
      <3>3. PICK j \in DOMAIN h[Time(u)].src \cap DOMAIN pl.src[Time(u)] :
                h[Time(u)].src[j] = t /\ pl.src[Time(u)][j].addr = Entry(pl, t).addr
        BY <2>4, <3>2 DEF WorksIn, h
      <3>4. j \in DOMAIN g[Time(u)].src \cap DOMAIN pl.src[Time(u)] /\ g[Time(u)].src[j] = t
        BY <1>2, <3>2, <3>3
      <3>5. pl.src[Time(u)][j].addr \in {pl.dst[Time(u)].addr} \ {NoAddr}
        <4>1. Entry(pl, u) = pl.dst[Time(u)] /\ Entry(pl, u).addr = Entry(pl, t).addr
          BY <2>4, <3>1 DEF WorksIn, Entry
        <4>2. Entry(pl, t).addr # NoAddr
          BY <2>1 DEF Addressed
        <4> QED BY <3>3, <4>1, <4>2
      <3>6. Layout(g, t) = g[Time(u)].layout
        BY <1>2, <3>2, <3>4, <3>5
      <3>7. Layout(g, u) = Layout(g, t)
        BY <3>1, <3>2, <3>6 DEF Layout
      <3>8. a[u] = a[t] /\ g[Time(u)].kind = "add"
        BY <1>2, <1>4, <2>4, <3>2 DEF WorksIn, h
      <3>9. ~NeededFrom(g, t, Time(u) + 1)
        BY <1>3, <2>1, <2>4 DEF WorksIn, h
      <3>10. \A i \in DOMAIN g[Time(u)].src :
                Root(g, g[Time(u)].src[i]) = t => g[Time(u)].src[i] = t
        <4>1. \A i \in DOMAIN g[Time(u)].src : g[Time(u)].src[i] \in Tensors(g)
          BY <2>1, <3>1, <3>2, GraphFacts
        <4> QED BY <1>2, <1>3, <2>4, <3>2, <4>1 DEF WorksIn, h
      <3> QED BY <3>1, <3>2, <3>4, <3>7, <3>8, <3>9, <3>10 DEF TakesOver
    <2> QED BY <2>2, <2>3, <2>4
  <1> QED BY <1>5, <1>6 DEF Spaced, a

-----------------------------------------------------------------------------
(* The memory while a graph is computed: every tensor that was computed    *)
(* and is still needed is in its cells.                                    *)

Kept(g, d, m, t) == \A x \in Cells(d[t], Size(g, t)) : x \in DOMAIN m /\ m[x] = t

MemoryOK(bufs, g, d, m, n) ==
    /\ DOMAIN d = Owns(g) /\ DOMAIN m = AllCells(bufs)
    /\ \A t \in Owns(g) : d[t] \in Address
    /\ Spaced(g, Owns(g), d, Sz(g))
    /\ n \in Nat \ {0}
    /\ \A t \in Owns(g) : Time(t) < n /\ NeededFrom(g, t, n) => Kept(g, d, m, t)

\* What is away from another shares no cell with it.
LEMMA AwayCells ==
    ASSUME NEW a, NEW z, NEW t, NEW u, a[t] \in Address, a[u] \in Address,
           z[t] \in Nat, z[u] \in Nat, Away(a, z, t, u)
    PROVE  Cells(a[t], z[t]) \cap Cells(a[u], z[u]) = {}
  <1>1. a[t].off \in Nat /\ a[u].off \in Nat
    BY DEF Address
  <1>2. SUFFICES ASSUME NEW x, x \in Cells(a[t], z[t]), x \in Cells(a[u], z[u]) PROVE FALSE
    OBVIOUS
  <1>3. PICK o \in a[t].off .. a[t].off + z[t] - 1 : x = <<a[t].chunk, o>>
    BY <1>2 DEF Cells
  <1>4. PICK q \in a[u].off .. a[u].off + z[u] - 1 : x = <<a[u].chunk, q>>
    BY <1>2 DEF Cells
  <1>5. a[t].chunk = a[u].chunk /\ o = q
    BY <1>3, <1>4
  <1>6. a[t].off + z[t] <= a[u].off \/ a[u].off + z[u] <= a[t].off
    BY <1>5 DEF Away, Apart, Block
  <1> QED BY <1>1, <1>3, <1>4, <1>5, <1>6

\* The front of a region is part of it.
LEMMA FewerCells ==
    ASSUME NEW addr \in Address, NEW n \in Nat, NEW m \in Nat, n <= m
    PROVE  Cells(addr, n) \subseteq Cells(addr, m)
  <1>1. addr.off \in Nat
    BY DEF Address
  <1>2. addr.off .. addr.off + n - 1 \subseteq addr.off .. addr.off + m - 1
    BY <1>1
  <1> QED BY <1>2 DEF Cells

\* What lies within a buffer has its cells there.
LEMMA CellsInBuffer ==
    ASSUME NEW addr \in Address, NEW n \in Nat, NEW bufs \in Seq(Nat), InBuffer(bufs, addr, n)
    PROVE  Cells(addr, n) \subseteq AllCells(bufs)
  <1>1. addr.off \in Nat /\ addr.chunk \in DOMAIN bufs /\ addr.off + n <= bufs[addr.chunk]
    BY DEF Address, InBuffer
  <1>2. bufs[addr.chunk] \in Nat
    BY <1>1
  <1>3. addr.off .. addr.off + n - 1 \subseteq 0 .. bufs[addr.chunk] - 1
    BY <1>1, <1>2
  <1> QED BY <1>1, <1>3 DEF Cells, AllCells

\* The caller has written the leafs: those that are needed are there.
LEMMA FilledMemory ==
    ASSUME AllocOK, LeafsOK, NEW g, GraphOK(g), NEW bufs \in Seq(Nat), NEW d,
           DOMAIN d = Owns(g), \A t \in Owns(g) : d[t] \in Address,
           Spaced(g, Owns(g), d, Sz(g)), Bounded(g, d, bufs)
    PROVE  MemoryOK(bufs, g, d, Filled(bufs, d), 1)
  <1> DEFINE m == Filled(bufs, d)
             Writers(x) == {t \in DOMAIN leafs :
                              t \in DOMAIN d /\ x \in Cells(d[t], LayoutSize[leafs[t].layout])}
  <1>1. DOMAIN m = AllCells(bufs) /\ \A x \in AllCells(bufs) : m[x] = Max({0} \cup Writers(x))
    BY DEF Filled
  <1> HIDE DEF m
  <1>2. ASSUME NEW t \in Owns(g), Time(t) < 1, NeededFrom(g, t, 1) PROVE Kept(g, d, m, t)
    <2>1. /\ t \in Tensors(g) /\ t \in Nat /\ Sz(g)[t] = AllocSize(g, t) /\ Sz(g)[t] \in Nat
      BY OwnSizes
    <2>2. IsLeaf(t)
      <3>1. ~IsLeaf(t) => Time(t) \in DOMAIN g
        BY <2>1, NodeFacts
      <3>2. \A k \in DOMAIN g : k \in Nat /\ k >= 1
        BY NodeFacts
      <3> QED BY <1>2, <3>1, <3>2
    <2>3. Size(g, t) = Sz(g)[t] /\ Size(g, t) = LayoutSize[leafs[t].layout]
      BY <2>2, OwnSizes
    <2>4. Time(t) = 0 /\ NeededFrom(g, t, 0)
      <3>1. Time(t) = 0
        BY <2>2 DEF Time
      <3>2. \A k : k >= 1 /\ k \in Nat => k >= 0
        OBVIOUS
      <3> QED BY <1>2, <3>1, <3>2, NodeFacts DEF NeededFrom
    <2>5. ASSUME NEW x \in Cells(d[t], Size(g, t)) PROVE x \in DOMAIN m /\ m[x] = t
      <3>1. x \in AllCells(bufs)
        <4>1. InBuffer(bufs, d[t], Sz(g)[t]) /\ d[t] \in Address
          BY <2>1 DEF Bounded
        <4> QED BY <2>1, <2>3, <2>5, <4>1, CellsInBuffer
      <3>2. t \in Writers(x)
        BY <2>2, <2>3, <2>5 DEF IsLeaf
      <3>3. ASSUME NEW u \in Writers(x) PROVE u \in Nat /\ u <= t
        <4>1. u \in Owns(g) /\ IsLeaf(u) /\ x \in Cells(d[u], LayoutSize[leafs[u].layout])
          BY DEF IsLeaf
        <4>2. /\ u \in Nat /\ Sz(g)[u] \in Nat
              /\ LayoutSize[leafs[u].layout] = Sz(g)[u]
          <5> HIDE DEF Writers
          <5>1. u \in Owns(g)
            BY <4>1
          <5>2. /\ u \in Nat /\ Sz(g)[u] \in Nat
                /\ IsLeaf(u) => Size(g, u) = Sz(g)[u] /\ Size(g, u) = LayoutSize[leafs[u].layout]
            BY <5>1, OwnSizes
          <5> QED BY <4>1, <5>2
        <4>3. CASE t < u
          <5>1. Time(u) = 0
            BY <4>1 DEF Time
          <5>2. Away(d, Sz(g), t, u) \/ TakesOver(g, d, u, t)
            BY <2>4, <4>1, <4>3, <5>1 DEF Spaced
          <5>3. Away(d, Sz(g), t, u)
            BY <4>1, <5>2 DEF TakesOver
          <5>4. d[t] \in Address /\ d[u] \in Address
            BY <4>1
          <5>5. Cells(d[t], Sz(g)[t]) \cap Cells(d[u], Sz(g)[u]) = {}
            BY <2>1, <4>2, <5>3, <5>4, AwayCells
          <5> QED BY <2>3, <2>5, <4>1, <4>2, <5>5
        <4> QED BY <2>1, <4>2, <4>3
      <3> HIDE DEF Writers
      <3>4. t \in {0} \cup Writers(x) /\ \A y \in {0} \cup Writers(x) : y \in Nat /\ t >= y
        BY <2>1, <3>2, <3>3
      <3>5. \A r \in {0} \cup Writers(x) : (\A y \in {0} \cup Writers(x) : r >= y) => r = t
        BY <3>4
      <3>6. Max({0} \cup Writers(x)) = t
        BY <3>4, <3>5 DEF Max
      <3> QED BY <1>1, <3>1, <3>6
    <2> QED BY <2>5 DEF Kept
  <1> QED BY <1>1, <1>2 DEF MemoryOK, m

\* A node is computed: it is in its cells, and none that is needed later was there.
Written(g, d, m, t) ==
    IF IsView(g, t) THEN m
    ELSE [x \in DOMAIN m |-> IF x \in Cells(d[t], AllocSize(g, t)) THEN t ELSE m[x]]

\* What is needed from the next node on is still in its cells.
LEMMA WrittenMemory ==
    ASSUME AllocOK, LeafsOK, NEW g, GraphOK(g), NEW bufs \in Seq(Nat), NEW d, NEW m, NEW n \in DOMAIN g,
           MemoryOK(bufs, g, d, m, n), Bounded(g, d, bufs)
    PROVE  MemoryOK(bufs, g, d, Written(g, d, m, NodeTensor(n)), n + 1)
  <1> DEFINE t == NodeTensor(n)
             w == Written(g, d, m, t)
  <1>1. /\ DOMAIN d = Owns(g) /\ DOMAIN m = AllCells(bufs)
        /\ \A u \in Owns(g) : d[u] \in Address
        /\ Spaced(g, Owns(g), d, Sz(g))
        /\ \A u \in Owns(g) : Time(u) < n /\ NeededFrom(g, u, n) => Kept(g, d, m, u)
    BY DEF MemoryOK
  <1>2. /\ Len(leafs) \in Nat /\ DOMAIN leafs = 1 .. Len(leafs)
        /\ Len(g) \in Nat /\ DOMAIN g = 1 .. Len(g)
    BY GraphFacts
  <1>3. n \in Nat /\ n > 0 /\ n + 1 \in Nat \ {0}
    BY <1>2
  <1>4. t \in Tensors(g) /\ t \in Nat /\ ~IsLeaf(t) /\ t = Len(leafs) + n /\ Time(t) = n
    <2>1. t = Len(leafs) + n
      BY DEF NodeTensor
    <2>2. t \in Tensors(g) /\ t \in Nat /\ ~IsLeaf(t)
      BY <1>2, <2>1 DEF Tensors, IsLeaf
    <2>3. Time(t) = t - Len(leafs)
      BY <2>2 DEF Time
    <2> QED BY <1>2, <1>3, <2>1, <2>2, <2>3
  <1> HIDE DEF t
  <1>5. DOMAIN w = AllCells(bufs)
    BY <1>1 DEF Written
  <1>6. ASSUME NEW u \in Owns(g), Time(u) < n + 1, NeededFrom(g, u, n + 1)
        PROVE  Kept(g, d, w, u)
    <2>1. /\ u \in Tensors(g) /\ u \in Nat /\ Own(g, u) /\ Sz(g)[u] = AllocSize(g, u)
          /\ Sz(g)[u] \in Nat /\ Size(g, u) \in Nat /\ Size(g, u) <= Sz(g)[u]
      BY OwnSizes
    <2>2. d[u] \in Address /\ InBuffer(bufs, d[u], Sz(g)[u])
      BY <1>1, <2>1 DEF Bounded
    <2>3. CASE u = t
      <3>1. ~IsView(g, t)
        BY <2>1, <2>3 DEF Own
      <3>2. Cells(d[t], Size(g, t)) \subseteq Cells(d[t], AllocSize(g, t))
        BY <2>1, <2>2, <2>3, FewerCells
      <3>3. Cells(d[t], AllocSize(g, t)) \subseteq AllCells(bufs)
        BY <2>1, <2>2, <2>3, CellsInBuffer
      <3>4. w = [x \in DOMAIN m |-> IF x \in Cells(d[t], AllocSize(g, t)) THEN t ELSE m[x]]
        BY <3>1 DEF Written
      <3> HIDE DEF w
      <3>5. \A x \in Cells(d[t], Size(g, t)) : x \in DOMAIN w /\ w[x] = t
        BY <1>1, <3>2, <3>3, <3>4
      <3> QED BY <2>3, <3>5 DEF Kept
    <2>4. CASE u # t
      <3>1. Time(u) < n /\ Time(u) \in Nat /\ u < t
        <4>1. CASE IsLeaf(u)
          <5>1. u <= Len(leafs) /\ Time(u) = 0
            BY <1>2, <4>1 DEF IsLeaf, Time
          <5>2. 0 < n /\ Len(leafs) < t
            BY <1>2, <1>3, <1>4
          <5> QED BY <1>2, <1>4, <2>1, <5>1, <5>2
        <4>2. CASE ~IsLeaf(u)
          <5>1. Time(u) = u - Len(leafs) /\ Time(u) \in Nat
            <6>1. Time(u) = u - Len(leafs)
              BY <4>2 DEF Time
            <6>2. Time(u) \in Nat
              BY <2>1, NodeFacts
            <6> QED BY <6>1, <6>2
          <5>2. Time(u) <= n
            BY <1>3, <1>6, <5>1
          <5>3. u = Len(leafs) + Time(u)
            BY <1>2, <2>1, <5>1
          <5>4. Time(u) # n
            BY <1>4, <2>4, <5>3
          <5> QED BY <1>2, <1>3, <1>4, <5>1, <5>2, <5>3, <5>4
        <4> QED BY <4>1, <4>2
      <3>2. NeededFrom(g, u, n)
        <4>1. \A k \in DOMAIN g : k >= n + 1 => k >= n
          BY <1>2, <1>3
        <4> QED BY <1>6, <4>1 DEF NeededFrom
      <3>3. Kept(g, d, m, u)
        BY <1>1, <3>1, <3>2
      <3>4. CASE IsView(g, t)
        BY <3>3, <3>4 DEF Written
      <3>5. CASE ~IsView(g, t)
        <4>1. t \in Owns(g)
          BY <1>4, <3>5 DEF Owns, Own, External
        <4>2. Sz(g)[t] = AllocSize(g, t) /\ Sz(g)[t] \in Nat /\ d[t] \in Address
          BY <1>1, <4>1, OwnSizes
        <4>3. Away(d, Sz(g), u, t) \/ TakesOver(g, d, t, u)
          BY <1>1, <1>4, <3>1, <3>2, <4>1 DEF Spaced
        <4>4. Away(d, Sz(g), u, t)
          BY <1>4, <1>6, <4>3 DEF TakesOver
        <4>5. Cells(d[u], Sz(g)[u]) \cap Cells(d[t], Sz(g)[t]) = {}
          BY <2>1, <2>2, <4>2, <4>4, AwayCells
        <4>6. Cells(d[u], Size(g, u)) \subseteq Cells(d[u], Sz(g)[u])
          BY <2>1, <2>2, FewerCells
        <4>7. w = [x \in DOMAIN m |-> IF x \in Cells(d[t], AllocSize(g, t)) THEN t ELSE m[x]]
          BY <3>5 DEF Written
        <4> HIDE DEF w
        <4>8. \A x \in Cells(d[u], Size(g, u)) : x \in DOMAIN w /\ w[x] = u
          BY <3>3, <4>2, <4>5, <4>6, <4>7 DEF Kept
        <4> QED BY <4>8 DEF Kept
      <3> QED BY <3>4, <3>5
    <2> QED BY <2>3, <2>4
  <1> QED BY <1>1, <1>3, <1>5, <1>6 DEF MemoryOK, t

-----------------------------------------------------------------------------
(* Views are views of tensors that are none.                               *)

\* A view of a view becomes a view of what that one is a view of.
LEMMA RootIsNoView ==
    ASSUME AllocOK, LeafsOK, NEW g, GraphOK(g), ViewsOK(g), NEW t \in Tensors(g)
    PROVE  ~IsView(g, Root(g, t))
  <1>1. CASE IsView(g, t)
    <2>1. ~IsLeaf(t) /\ t - Len(leafs) \in DOMAIN g
      BY <1>1, GraphFacts DEF IsView
    <2>2. g[t - Len(leafs)].kind = "view" /\ Root(g, t) = g[t - Len(leafs)].view
      BY <1>1 DEF IsView, Root, Node
    <2> QED BY <2>1, <2>2 DEF ViewsOK
  <1>2. CASE ~IsView(g, t)
    BY <1>2 DEF Root
  <1> QED BY <1>1, <1>2

\* Another operation.
LEMMA AppendViews ==
    ASSUME AllocOK, LeafsOK, NEW g, GraphOK(g), ViewsOK(g), NEW op \in Operations(g)
    PROVE  ViewsOK(Append(g, op))
  <1> DEFINE h == Append(g, op)
             T == Tensors(g)
             Op(kind, src, layout) ==
                [kind |-> kind, src |-> src, layout |-> layout, out |-> FALSE,
                 view |-> IF kind = "view" THEN Root(g, src[1]) ELSE 0]
  <1>1. op.kind = "view" => \E t \in T : op.view = Root(g, t)
    <2> HIDE DEF Op, T
    <2>1. \/ \E s \in {<<t>> : t \in T} \cup (T \X T) : op = Op("add", s, Layout(g, s[1]))
          \/ \E s \in {r \in T \X T : r[1] <= r[2]}, x \in Layouts : op = Op("mul_mat", s, x)
          \/ \E t \in T : op = Op("scratch", <<t>>, Layout(g, t))
          \/ \E t \in T : op = Op("view", <<t>>, Layout(g, t))
      BY DEF Operations, Op, T
    <2>2. \A kind, s, x : Op(kind, s, x).kind = kind
      BY DEF Op
    <2>3. \A s, x : Op("view", s, x).view = Root(g, s[1])
      BY DEF Op
    <2>4. op.kind = "view" => \E t \in T : op = Op("view", <<t>>, Layout(g, t))
      <3>1. ASSUME NEW s, op = Op("add", s, Layout(g, s[1])) PROVE op.kind # "view"
        BY <2>2, <3>1
      <3>2. ASSUME NEW s, NEW x, op = Op("mul_mat", s, x) PROVE op.kind # "view"
        BY <2>2, <3>2
      <3>3. ASSUME NEW t, op = Op("scratch", <<t>>, Layout(g, t)) PROVE op.kind # "view"
        BY <2>2, <3>3
      <3> QED BY <2>1, <3>1, <3>2, <3>3
    <2> QED BY <2>3, <2>4
  <1>2. /\ Len(g) \in Nat /\ DOMAIN g = 1 .. Len(g) /\ Len(leafs) \in Nat
        /\ DOMAIN leafs = 1 .. Len(leafs)
    BY GraphFacts
  <1>3. DOMAIN h = 1 .. Len(g) + 1 /\ h[Len(g) + 1] = op /\ \A k \in DOMAIN g : h[k] = g[k]
    <2>1. op \in NodeRecord /\ g \in Seq(NodeRecord)
      BY OperationsOK DEF GraphOK
    <2> HIDE DEF NodeRecord
    <2> QED BY <1>2, <2>1
  <1> HIDE DEF h
  <1>4. \A t \in T : IsView(h, t) <=> IsView(g, t)
    <2>1. \A t \in T : ~IsLeaf(t) => t - Len(leafs) \in DOMAIN g
      BY GraphFacts
    <2> QED BY <1>3, <2>1 DEF IsView, Node
  <1>5. ASSUME NEW k \in DOMAIN h, h[k].kind = "view" PROVE ~IsView(h, h[k].view)
    <2>1. CASE k \in DOMAIN g
      <3>1. g[k].kind = "view" /\ h[k].view = g[k].view
        BY <1>3, <1>5, <2>1
      <3>2. g[k].view \in T
        <4>1. g[k].view \in 1 .. Len(leafs) + k - 1
          BY <2>1, <3>1 DEF GraphOK
        <4> QED BY <1>2, <2>1, <4>1 DEF Tensors
      <3>3. ~IsView(g, g[k].view)
        BY <2>1, <3>1 DEF ViewsOK
      <3> QED BY <1>4, <3>1, <3>2, <3>3
    <2>2. CASE k = Len(g) + 1
      <3>1. PICK t \in T : h[k].view = Root(g, t)
        BY <1>1, <1>3, <1>5, <2>2
      <3>2. Root(g, t) \in T
        BY GraphFacts
      <3>3. ~IsView(g, Root(g, t))
        BY RootIsNoView
      <3> QED BY <1>4, <3>1, <3>2, <3>3
    <2> QED BY <1>2, <1>3, <1>5, <2>1, <2>2
  <1>6. ViewsOK(h)
    BY <1>5 DEF ViewsOK
  <1> QED BY <1>6 DEF h

\* Marking outputs.
LEMMA MarkedViews ==
    ASSUME AllocOK, LeafsOK, NEW g, GraphOK(g), ViewsOK(g), NEW outs
    PROVE  ViewsOK(Marked(g, outs)) /\ DOMAIN Marked(g, outs) = DOMAIN g
  <1> DEFINE h == Marked(g, outs)
  <1>1. DOMAIN h = DOMAIN g /\ \A k \in DOMAIN g : h[k] = [g[k] EXCEPT !.out = k \in outs]
    BY DEF Marked
  <1>2. \A k \in DOMAIN g : g[k] \in NodeRecord
    BY DEF GraphOK
  <1> HIDE DEF h
  <1>3. \A k \in DOMAIN g : h[k].kind = g[k].kind /\ h[k].view = g[k].view
    <2> TAKE k \in DOMAIN g
    <2>1. g[k] = [kind |-> g[k].kind, src |-> g[k].src, layout |-> g[k].layout,
                  out |-> g[k].out, view |-> g[k].view]
      BY <1>2 DEF NodeRecord
    <2>2. h[k] = [kind |-> g[k].kind, src |-> g[k].src, layout |-> g[k].layout,
                  out |-> (k \in outs), view |-> g[k].view]
      BY <1>1, <2>1
    <2> QED BY <2>2
  <1>4. \A k \in DOMAIN g : g[k].kind = "view" => g[k].view \in Tensors(g)
    <2>1. Len(g) \in Nat /\ DOMAIN g = 1 .. Len(g) /\ Len(leafs) \in Nat
      BY GraphFacts
    <2>2. \A k \in DOMAIN g : g[k].kind = "view" => g[k].view \in 1 .. Len(leafs) + k - 1
      BY DEF GraphOK
    <2> QED BY <2>1, <2>2 DEF Tensors
  <1>5. \A t \in Tensors(g) : IsView(h, t) <=> IsView(g, t)
    <2>1. \A t \in Tensors(g) : ~IsLeaf(t) => t - Len(leafs) \in DOMAIN g
      BY GraphFacts
    <2> QED BY <1>3, <2>1 DEF IsView, Node
  <1>6. ViewsOK(h) /\ DOMAIN h = DOMAIN g
    BY <1>1, <1>3, <1>4, <1>5 DEF ViewsOK
  <1> QED BY <1>6 DEF h

-----------------------------------------------------------------------------
(* The inductive invariant                                                 *)

\* A plan for another number of leafs is never kept: nothing has to be known of it.
PlansOK == \A pl \in plan : Len(pl.leaf) = Len(leafs) => PlanSound(pl)

SoundInv ==
    /\ BufferInv
    /\ ViewsOK(graph)
    /\ PlansOK
    /\ phase \in {"compute", "read"} => \A pl \in plan : Len(pl.leaf) = Len(leafs)
    /\ phase = "plan" => PlanKept /\ 1 \in DOMAIN graph
    /\ phase \in {"compute", "read"} => MemoryOK(buffers, graph, data, memory, next)
    /\ phase = "compute" => next \in DOMAIN graph
    /\ phase = "read" => next > Len(graph)

\* As many leafs: a plan that was sound still is, whatever the leafs are.
LEMMA PlanSoundSame ==
    ASSUME DOMAIN leafs' = DOMAIN leafs, Len(leafs') = Len(leafs), NEW pl, PlanSound(pl)
    PROVE  PlanSound(pl)'
  <1>1. \A g, t : /\ IsLeaf(t)' = IsLeaf(t) /\ Node(g, t)' = Node(g, t) /\ Time(t)' = Time(t)
                  /\ IsView(g, t)' = IsView(g, t) /\ Root(g, t)' = Root(g, t)
                  /\ IsOutput(g, t)' = IsOutput(g, t)
    BY DEF Root, IsView, IsOutput, IsLeaf, Node, Time
  <1>2. \A g : Tensors(g)' = Tensors(g)
    BY DEF Tensors
  <1>3. \A g, t, m : NeededFrom(g, t, m)' <=> NeededFrom(g, t, m)
    BY <1>1 DEF NeededFrom, ReadAt
  <1>4. \A t : Entry(pl, t)' = Entry(pl, t)
    BY <1>1 DEF Entry
  <1>5. Addressed(pl)' = Addressed(pl)
    BY <1>2, <1>4 DEF Addressed
  <1>6. PlanAddrs(pl)' = PlanAddrs(pl) /\ PlanSizes(pl)' = PlanSizes(pl)
    BY <1>4, <1>5 DEF PlanAddrs, PlanSizes
  <1>7. \A t, u : WorksIn(pl, u, t)' <=> WorksIn(pl, u, t)
    BY <1>1, <1>3, <1>4 DEF WorksIn
  <1>8. PlanSpaced(pl)'
    <2>1. PlanSpaced(pl)
      BY DEF PlanSound
    <2>2. \A t, u : NeededFrom(pl.graph, t, Time(u))' <=> NeededFrom(pl.graph, t, Time(u))
      BY <1>1, <1>3
    <2>3. \A t, u : Away(PlanAddrs(pl), PlanSizes(pl), t, u)' <=> Away(PlanAddrs(pl), PlanSizes(pl), t, u)
      BY <1>6 DEF Away
    <2> QED BY <1>5, <1>7, <2>1, <2>2, <2>3 DEF PlanSpaced
  <1>9. GraphOK(pl.graph)'
    BY DEF PlanSound, GraphOK
  <1> QED BY <1>4, <1>5, <1>8, <1>9 DEF PlanSound

\* The same for what the invariant says of the graph of the next state.
LEMMA GraphSame ==
    ASSUME leafs' = leafs
    PROVE  /\ Tensors(graph)' = Tensors(graph') /\ Sz(graph)' = Sz(graph')
           /\ Owns(graph)' = Owns(graph')
           /\ \A t : /\ IsView(graph, t)' = IsView(graph', t) /\ Node(graph, t)' = Node(graph', t)
                     /\ Layout(graph, t)' = Layout(graph', t) /\ Size(graph, t)' = Size(graph', t)
                     /\ IsLeaf(t)' = IsLeaf(t) /\ Time(t)' = Time(t)
                     /\ NodeTensor(t)' = NodeTensor(t)
           /\ \A t, m : NeededFrom(graph, t, m)' <=> NeededFrom(graph', t, m)
           /\ \A a, t, u : TakesOver(graph, a, u, t)' <=> TakesOver(graph', a, u, t)
  <1>1. \A t : /\ Root(graph, t)' = Root(graph', t) /\ IsOutput(graph, t)' = IsOutput(graph', t)
               /\ Layout(graph, t)' = Layout(graph', t) /\ IsLeaf(t)' = IsLeaf(t)
               /\ Node(graph, t)' = Node(graph', t) /\ Time(t)' = Time(t)
               /\ NodeTensor(t)' = NodeTensor(t) /\ IsView(graph, t)' = IsView(graph', t)
               /\ Own(graph, t)' = Own(graph', t) /\ Size(graph, t)' = Size(graph', t)
    BY DEF Root, IsView, IsOutput, Layout, IsLeaf, Node, Time, NodeTensor, Own, External, Size
  <1>2. Tensors(graph)' = Tensors(graph')
    BY DEF Tensors
  <1>3. \A t : AllocSize(graph, t)' = AllocSize(graph', t)
    BY <1>1 DEF AllocSize
  <1>4. Sz(graph)' = Sz(graph') /\ Owns(graph)' = Owns(graph')
    BY <1>1, <1>2, <1>3 DEF Sz, Owns
  <1>5. \A t, m : NeededFrom(graph, t, m)' <=> NeededFrom(graph', t, m)
    BY <1>1 DEF NeededFrom, ReadAt
  <1>6. \A a, t, u : TakesOver(graph, a, u, t)' <=> TakesOver(graph', a, u, t)
    BY <1>1, <1>5 DEF TakesOver
  <1> QED BY <1>1, <1>2, <1>4, <1>5, <1>6

\* So each part of the invariant is one of the graph of the next state.
LEMMA SoundSame ==
    ASSUME leafs' = leafs
    PROVE  /\ ViewsOK(graph') => ViewsOK(graph)'
           /\ MemoryOK(buffers', graph', data', memory', next')
                => MemoryOK(buffers, graph, data, memory, next)'
  <1>1. ViewsOK(graph') => ViewsOK(graph)'
    BY GraphSame DEF ViewsOK
  <1>2. MemoryOK(buffers', graph', data', memory', next')
            => MemoryOK(buffers, graph, data, memory, next)'
    <2>1. Spaced(graph', Owns(graph'), data', Sz(graph'))
            => Spaced(graph, Owns(graph), data, Sz(graph))'
      BY GraphSame DEF Spaced, Away
    <2>2. \A t : Kept(graph', data', memory', t) => Kept(graph, data, memory, t)'
      BY GraphSame DEF Kept, Cells
    <2>3. AllCells(buffers') = AllCells(buffers)'
      BY DEF AllCells
    <2>4. /\ Owns(graph)' = Owns(graph')
          /\ \A t, m : NeededFrom(graph, t, m)' <=> NeededFrom(graph', t, m)
          /\ \A t : Time(t)' = Time(t)
      BY GraphSame
    <2>5. \A t : NeededFrom(graph, t, next)' <=> NeededFrom(graph', t, next')
      BY <2>4
    <2> QED BY <2>1, <2>2, <2>3, <2>4, <2>5 DEF MemoryOK
  <1> QED BY <1>1, <1>2

\* The planner of the next state.
LEMMA KeptSame ==
    ASSUME leafs' = leafs, Keeps(graph', Planner', Done', Pending', Now')
    PROVE  PlanKept'
  <1>1. Tensors(graph)' = Tensors(graph') /\ Sz(graph)' = Sz(graph')
    BY GraphSame
  <1>2. Counting(graph', Planner'.hash, Pending') => Counting(graph, Planner.hash, Pending)'
    <2>1. \A t : UsesIn(graph, t, Pending)' = UsesIn(graph', t, Pending')
      BY DEF UsesIn, UsesOf, Uses
    <2>2. \A k : UsesIn(graph, NodeTensor(k), Pending)' = UsesIn(graph', NodeTensor(k), Pending')
      BY DEF UsesIn, UsesOf, Uses, NodeTensor
    <2>3. \A t : ViewsIn(graph, t, Pending)' = ViewsIn(graph', t, Pending')
      BY <2>2 DEF ViewsIn
    <2>4. \A S, n : AtMost(S, n)' <=> AtMost(S, n)
      BY DEF AtMost
    <2> QED BY <1>1, <2>1, <2>3, <2>4 DEF Counting
  <1>3. \A t, m : NeededFrom(graph, t, m)' <=> NeededFrom(graph', t, m)
    BY GraphSame
  <1>4. KeepsNeeded(graph', Planner'.hash, Done', Now') => KeepsNeeded(graph, Planner.hash, Done, Now)'
    BY <1>1, <1>3 DEF KeepsNeeded
  <1>5. Addrs(graph', Planner'.hash) = Addrs(graph, Planner.hash)'
    BY <1>1 DEF Addrs
  <1>6. Spaced(graph', Done', Addrs(graph', Planner'.hash), Sz(graph'))
            => Spaced(graph, Done, Addrs(graph, Planner.hash), Sz(graph))'
    BY <1>1, <1>5, GraphSame DEF Spaced, Away
  <1> QED BY <1>2, <1>4, <1>6 DEF PlanKept, Keeps

\* A plan is started.
LEMMA StartKept ==
    ASSUME AllocOK, LeafsOK, NEW g, GraphOK(g), StartPlan(g)
    PROVE  PlanKept'
  <1>1. leafs' = leafs /\ graph' = g /\ next' = 0 /\ step' = 1
    BY DEF StartPlan
  <1>2. Planner' = [hash |-> Counted(g), chunks |-> <<>>]
    BY DEF StartPlan, Planner
  <1>3. Done' = {}
    <2>1. Tensors(graph)' = 1 .. Len(leafs) + Len(g)
      BY <1>1 DEF Tensors
    <2>2. \A t \in Tensors(graph)' : ~(t < 1)
      BY <2>1 DEF LeafsOK, GraphOK
    <2>3. \A t : Passed(t)' <=> t < 1
      BY <1>1 DEF Passed
    <2> QED BY <2>2, <2>3 DEF Done
  <1>4. Now' = 0
    <2>1. 0 \notin DOMAIN g
      <3>1. \A k \in DOMAIN g : k \in Nat /\ k >= 1
        BY NodeFacts
      <3> QED BY <3>1
    <2> QED BY <1>1, <2>1 DEF Now
  <1>5. Keeps(graph', Planner', Done', Pending', Now')
    <2>1. \A W : Keeps(g, [hash |-> Counted(g), chunks |-> <<>>], {}, W, 0)
      BY CountedKeeps
    <2> QED BY <1>1, <1>2, <1>3, <1>4, <2>1
  <1> QED BY <1>1, <1>5, KeptSame

\* Nothing happens.
LEMMA StutterKept == ASSUME PlanKept, UNCHANGED vars PROVE PlanKept'
  <1>1. leafs' = leafs /\ graph' = graph /\ next' = next /\ step' = step /\ hash' = hash
        /\ chunks' = chunks
    BY DEF vars
  <1>2. Done' = Done
    BY <1>1 DEF Done, Tensors, Own, External, IsView, IsLeaf, Node, Passed, NodeTensor, Sources
  <1>3. Planner' = Planner /\ Pending' = Pending /\ Now' = Now
    BY <1>1 DEF Planner, Pending, UsesLeft, Now, Sources
  <1>4. Keeps(graph', Planner', Done', Pending', Now')
    BY <1>1, <1>2, <1>3 DEF PlanKept
  <1> QED BY <1>1, <1>4, KeptSame

\* What is bound when a graph is to be computed.
LEMMA BindSound ==
    ASSUME AllocOK, LeafsOK, BufferInv', NEW g, GraphOK(g), ViewsOK(g), 1 \in DOMAIN g,
           NEW bufs \in Seq(Nat), NEW pl, PlanOK(bufs, pl), Suits(g, pl),
           Spaced(g, Owns(g), Bound(g, pl), Sz(g)), \A t \in Owns(g) : Bound(g, pl)[t] \in Address,
           Bind(g, pl, bufs), buffers' = bufs, leafs' = leafs, PlansOK',
           \A x \in plan' : Len(x.leaf) = Len(leafs)
    PROVE  SoundInv'
  <1>1. phase' = "compute" /\ graph' = g /\ next' = 1 /\ data' = Bound(g, pl)
        /\ memory' = Filled(bufs, data')
    BY DEF Bind
  <1>2. DOMAIN Bound(g, pl) = Owns(g) /\ Bounded(g, Bound(g, pl), bufs)
    BY BoundBounded DEF Bound, Owns
  <1>3. MemoryOK(bufs, g, Bound(g, pl), Filled(bufs, Bound(g, pl)), 1)
    BY <1>2, FilledMemory
  <1>4. memory' = Filled(bufs, Bound(g, pl))
    BY <1>1
  <1>5. MemoryOK(buffers', graph', data', memory', next')
    BY <1>1, <1>3, <1>4
  <1> QED BY <1>1, <1>5, SoundSame DEF SoundInv

\* The plans there are stay sound.
LEMMA PlansSound ==
    ASSUME SoundInv, leafs' = leafs, plan' = plan
    PROVE  /\ PlansOK'
           /\ (\A pl \in plan : Len(pl.leaf) = Len(leafs))
                => (\A pl \in plan : Len(pl.leaf) = Len(leafs))'
  BY PlanSoundSame DEF SoundInv, PlansOK

\* A graph is started over other leafs: what can be kept for it is a plan for as many.
LEMMA NewGraphSound ==
    ASSUME AllocOK, LeafsOK, NewGraph, BufferInv',
           \A pl \in plan' : Len(pl.leaf) = Len(leafs) /\ PlanSound(pl)
    PROVE  SoundInv'
  <1>1. graph' = <<>> /\ phase' = "build" /\ LeafsOK'
    BY NewGraphInv DEF Inv
  <1>2. PlansOK'
    <2>1. SUFFICES ASSUME NEW pl \in plan', Len(pl.leaf) = Len(leafs') PROVE PlanSound(pl)'
      BY DEF PlansOK
    <2>2. Len(leafs') = Len(leafs)
      BY <2>1
    <2>3. DOMAIN leafs = 1 .. Len(leafs) /\ DOMAIN leafs' = 1 .. Len(leafs')
      BY <1>1 DEF LeafsOK
    <2> QED BY <2>2, <2>3, PlanSoundSame
  <1>3. ViewsOK(graph)'
    BY <1>1 DEF ViewsOK
  <1> QED BY <1>1, <1>2, <1>3 DEF SoundInv

\* A plan is started, or an old one is kept that is for a graph like this one.
LEMMA AllocGraphSound ==
    ASSUME AllocOK, Common = {"leafs", "sources", "layouts"}, SoundInv, AllocGraph
    PROVE  SoundInv'
  <1>1. BufferInv /\ Inv /\ LeafsOK /\ GraphOK(graph) /\ ViewsOK(graph) /\ buffers \in Seq(Nat)
    BY DEF SoundInv, BufferInv, Inv
  <1>2. BufferInv'
    BY <1>1, AllocGraphBuffer
  <1>3. PICK outs : LET g == Marked(graph, outs)
                    IN  \/ StartPlan(g)
                        \/ /\ ~NeedsRealloc(g)
                           /\ \E pl \in plan : Alike(g, pl) /\ Bind(g, pl, buffers)
                           /\ leafs' = leafs /\ buffers' = buffers /\ plan' = plan
    BY DEF AllocGraph
  <1> DEFINE g == Marked(graph, outs)
  <1>4. 1 \in DOMAIN graph
    <2>1. graph # <<>>
      BY DEF AllocGraph, Complete
    <2>2. graph \in Seq(NodeRecord)
      BY <1>1 DEF GraphOK
    <2> HIDE DEF NodeRecord
    <2> QED BY <2>1, <2>2
  <1>5. GraphOK(g) /\ ViewsOK(g) /\ 1 \in DOMAIN g
    BY <1>1, <1>4, MarkedOK, MarkedViews
  <1> HIDE DEF g
  <1>6. CASE StartPlan(g)
    <2>1. /\ leafs' = leafs /\ graph' = g /\ next' = 0 /\ step' = 1 /\ phase' = "plan"
          /\ buffers' = buffers /\ plan' = plan
      BY <1>6 DEF StartPlan
    <2>2. PlanKept' /\ ViewsOK(graph)'
      BY <1>1, <1>5, <1>6, <2>1, StartKept, SoundSame
    <2> QED BY <1>2, <1>5, <2>1, <2>2, PlansSound DEF SoundInv
  <1>7. CASE /\ ~NeedsRealloc(g)
             /\ \E pl \in plan : Alike(g, pl) /\ Bind(g, pl, buffers)
             /\ leafs' = leafs /\ buffers' = buffers /\ plan' = plan
    <2>1. PICK pl \in plan : Alike(g, pl) /\ Bind(g, pl, buffers)
      BY <1>7
    <2>2. /\ Len(pl.dst) = Len(g)
          /\ \A x \in plan : Len(x.leaf) = Len(leafs)
      BY <1>7 DEF NeedsRealloc
    <2>3. PlanOK(buffers, pl) /\ PlanSound(pl) /\ Suits(g, pl)
      BY <1>1, <1>5, <1>7, <2>1, <2>2, KeptSuits DEF SoundInv, BufferInv, PlansOK
    <2>4. /\ Spaced(g, Owns(g), Bound(g, pl), Sz(g))
          /\ \A t \in Owns(g) : Bound(g, pl)[t] \in Address
      BY <1>1, <1>5, <2>1, <2>2, <2>3, KeptSpaced
    <2>5. PlansOK' /\ \A x \in plan' : Len(x.leaf) = Len(leafs)
      BY <1>7, <2>2, PlansSound
    <2> QED BY <1>1, <1>2, <1>5, <1>7, <2>1, <2>2, <2>3, <2>4, <2>5, BindSound
  <1> QED BY <1>3, <1>6, <1>7 DEF g

\* reserve_n_impl() ends: the plan is what the planner has kept.
LEMMA CommitSound ==
    ASSUME AllocOK, "leafs" \in Common, SoundInv, Commit PROVE SoundInv'
  <1>1. /\ BufferInv /\ Inv /\ LeafsOK /\ GraphOK(graph) /\ ViewsOK(graph)
        /\ PlannerOK(graph, Planner) /\ Position /\ Placed(graph, Planner, Done)
        /\ PlanKept /\ 1 \in DOMAIN graph /\ buffers \in Seq(Nat)
        /\ next > Len(graph)
    BY DEF Commit, SoundInv, BufferInv, Inv
  <1>2. BufferInv'
    BY <1>1, CommitBuffer
  <1> DEFINE pl == PlanOf(graph, hash)
  <1>3. Planner.hash = hash /\ Planner.chunks = chunks
    BY DEF Planner
  <1>4. Done = Owns(graph)
    <2>1. Len(leafs) \in Nat /\ Len(graph) \in Nat /\ next \in Nat
      BY <1>1 DEF LeafsOK, GraphOK, Position
    <2>2. \A t \in Tensors(graph) : Passed(t)
      BY <1>1, <2>1 DEF Passed, NodeTensor, Tensors
    <2> QED BY <2>2 DEF Done, Owns
  <1>5. /\ PlanSound(pl) /\ Len(pl.leaf) = Len(leafs)
        /\ Spaced(graph, Owns(graph), Bound(graph, pl), Sz(graph))
        /\ \A t \in Owns(graph) : Bound(graph, pl)[t] \in Address
    <2>1. Keeps(graph, Planner, Owns(graph), Pending, Now)
      BY <1>1, <1>4 DEF PlanKept
    <2> QED BY <1>1, <1>3, <2>1, PlanOfSound
  <1>6. PlanOK(NewBuffers(chunks), pl) /\ Suits(graph, pl) /\ NewBuffers(chunks) \in Seq(Nat)
    <2>1. Owns(graph) = {t \in Tensors(graph) : Own(graph, t)}
      BY DEF Owns
    <2>2. Placed(graph, Planner, {t \in Tensors(graph) : Own(graph, t)})
      BY <1>1, <1>4, <2>1
    <2> QED BY <1>1, <1>3, <2>2, PlanMade, PlannerFacts, BuffersSuffice
  <1>7. buffers' = NewBuffers(chunks) /\ plan' = {pl}
    BY DEF Commit
  <1> HIDE DEF pl
  <1>8. \A x \in plan' : Len(x.leaf) = Len(leafs) /\ PlanSound(x)
    BY <1>5, <1>7
  <1>9. CASE Bind(graph, pl, buffers') /\ leafs' = leafs
    <2>1. PlansOK'
      BY <1>8, <1>9, PlanSoundSame DEF PlansOK
    <2> QED BY <1>1, <1>2, <1>5, <1>6, <1>7, <1>8, <1>9, <2>1, BindSound
  <1>10. CASE NewGraph
    BY <1>1, <1>2, <1>8, <1>10, NewGraphSound
  <1> QED BY <1>9, <1>10 DEF Commit, pl

\* A node is computed.
LEMMA ComputeSound ==
    ASSUME AllocOK, "leafs" \in Common, SoundInv, ComputeNode PROVE SoundInv'
  <1>1. /\ BufferInv /\ LeafsOK /\ GraphOK(graph) /\ ViewsOK(graph) /\ buffers \in Seq(Nat)
        /\ MemoryOK(buffers, graph, data, memory, next) /\ Bounded(graph, data, buffers)
        /\ next \in DOMAIN graph /\ phase = "compute"
    BY DEF ComputeNode, SoundInv, BufferInv, Inv
  <1>2. /\ leafs' = leafs /\ graph' = graph /\ data' = data /\ buffers' = buffers /\ plan' = plan
        /\ next' = next + 1 /\ phase' = IF next = Len(graph) THEN "read" ELSE phase
        /\ memory' = Written(graph, data, memory, NodeTensor(next))
    BY DEF ComputeNode, Written
  <1>3. BufferInv'
    BY <1>1, NextBuffer DEF Next
  <1>4. MemoryOK(buffers, graph, data, Written(graph, data, memory, NodeTensor(next)), next + 1)
    BY <1>1, WrittenMemory
  <1>5. MemoryOK(buffers', graph', data', memory', next')
    BY <1>2, <1>4
  <1>6. MemoryOK(buffers, graph, data, memory, next)' /\ ViewsOK(graph)'
    BY <1>1, <1>2, <1>5, SoundSame
  <1>7. /\ phase' = "compute" => next' \in DOMAIN graph'
        /\ phase' = "read" => next' > Len(graph')
        /\ phase' # "plan"
    <2>1. Len(graph) \in Nat /\ DOMAIN graph = 1 .. Len(graph)
      BY <1>1, GraphFacts
    <2> QED BY <1>1, <1>2, <2>1
  <1>8. \A pl \in plan : Len(pl.leaf) = Len(leafs)
    BY <1>1 DEF SoundInv
  <1> QED BY <1>2, <1>3, <1>6, <1>7, <1>8, PlansSound DEF SoundInv

\* A step of the planner.
LEMMA PlannerSound ==
    ASSUME AllocOK, "leafs" \in Common, SoundInv, PlanLeaf \/ PlanNode \/ PlanParent
    PROVE  SoundInv'
  <1>1. BufferInv /\ Inv /\ phase = "plan" /\ PlanKept /\ 1 \in DOMAIN graph /\ ViewsOK(graph)
    BY DEF SoundInv, BufferInv, PlanLeaf, PlanNode, PlanParent
  <1>2. leafs' = leafs /\ graph' = graph /\ plan' = plan /\ phase' = phase
    BY DEF PlanLeaf, PlanNode, PlanParent, Advance
  <1>3. BufferInv'
    BY <1>1, NextBuffer DEF Next
  <1>4. PlanKept'
    BY <1>1, PlanLeafKept, PlanNodeKept, PlanParentKept
  <1>5. ViewsOK(graph)'
    BY <1>1, <1>2, SoundSame
  <1> QED BY <1>1, <1>2, <1>3, <1>4, <1>5, PlansSound DEF SoundInv

\* The invariant is kept by every step.
LEMMA NextSound ==
    ASSUME AllocOK, Common = {"leafs", "sources", "layouts"}, SoundInv, [Next]_vars
    PROVE  SoundInv'
  <1>1. BufferInv'
    BY NextBuffer DEF SoundInv
  <1>2. CASE AddNode
    <2>1. LeafsOK /\ GraphOK(graph) /\ ViewsOK(graph)
      BY DEF SoundInv, BufferInv, Inv
    <2>2. leafs' = leafs /\ plan' = plan /\ phase' = "build"
      BY <1>2 DEF AddNode
    <2>3. PICK op \in Operations(graph) : graph' = Append(graph, op)
      BY <1>2 DEF AddNode
    <2>4. ViewsOK(graph')
      BY <2>1, <2>3, AppendViews
    <2> QED BY <1>1, <2>2, <2>4, SoundSame, PlansSound DEF SoundInv
  <1>3. CASE NextGraph
    <2>1. plan' = plan /\ phase = "read" /\ NewGraph
      BY <1>3 DEF NextGraph
    <2>2. LeafsOK /\ \A pl \in plan' : Len(pl.leaf) = Len(leafs) /\ PlanSound(pl)
      BY <2>1 DEF SoundInv, BufferInv, Inv, PlansOK
    <2> QED BY <1>1, <2>1, <2>2, NewGraphSound
  <1>4. CASE AllocGraph
    BY <1>4, AllocGraphSound
  <1>5. CASE PlanLeaf \/ PlanNode \/ PlanParent
    BY <1>5, PlannerSound
  <1>6. CASE Commit
    BY <1>6, CommitSound
  <1>7. CASE ComputeNode
    BY <1>7, ComputeSound
  <1>8. CASE UNCHANGED vars
    <2>1. /\ leafs' = leafs /\ graph' = graph /\ plan' = plan /\ phase' = phase /\ next' = next
          /\ step' = step /\ hash' = hash /\ chunks' = chunks /\ buffers' = buffers
          /\ data' = data /\ memory' = memory
      BY <1>8 DEF vars
    <2>2. PlanKept => PlanKept'
      BY <1>8, StutterKept
    <2>3. ViewsOK(graph) => ViewsOK(graph)'
      BY <2>1, SoundSame
    <2>4. MemoryOK(buffers, graph, data, memory, next) => MemoryOK(buffers, graph, data, memory, next)'
      BY <2>1, SoundSame
    <2> QED BY <1>1, <2>1, <2>2, <2>3, <2>4, PlansSound DEF SoundInv
  <1> QED BY <1>2, <1>3, <1>4, <1>5, <1>6, <1>7, <1>8 DEF Next

\* What is kept is what the nodes and the caller read.
LEMMA SoundIntact == ASSUME AllocOK, SoundInv PROVE SourcesIntact
  <1>1. LeafsOK /\ GraphOK(graph) /\ ViewsOK(graph)
    BY DEF SoundInv, BufferInv, Inv
  <1>2. /\ Len(leafs) \in Nat /\ DOMAIN leafs = 1 .. Len(leafs)
        /\ Len(graph) \in Nat /\ DOMAIN graph = 1 .. Len(graph)
    BY <1>1, GraphFacts
  <1>3. ASSUME phase \in {"compute", "read"}
        PROVE  /\ DOMAIN data = Owns(graph) /\ \A u \in Owns(graph) : data[u] \in Address
               /\ Spaced(graph, Owns(graph), data, Sz(graph))
               /\ next \in Nat \ {0}
               /\ \A u \in Owns(graph) : Time(u) < next /\ NeededFrom(graph, u, next) => Holds(u)
    <2>1. MemoryOK(buffers, graph, data, memory, next)
      BY <1>3 DEF SoundInv
    <2>2. \A u : Kept(graph, data, memory, u) <=> Holds(u)
      BY DEF Kept, Holds
    <2> QED BY <2>1, <2>2 DEF MemoryOK
  <1>4. ASSUME phase = "compute", NEW s \in ToSet(graph[next].src)
        PROVE  /\ External(Root(graph, s)) \/ Holds(Root(graph, s))
               /\ IsView(graph, NodeTensor(next)) \/ WritesApart(NodeTensor(next), s)
    <2> DEFINE r == Root(graph, s)
               t == NodeTensor(next)
    <2>1. next \in DOMAIN graph /\ next \in Nat /\ next > 0
      BY <1>2, <1>4 DEF SoundInv
    <2>2. t = Len(leafs) + next /\ t \in Tensors(graph) /\ t \in Nat /\ ~IsLeaf(t)
      <3>1. t = Len(leafs) + next
        BY DEF NodeTensor
      <3> QED BY <1>2, <2>1, <3>1 DEF Tensors, IsLeaf
    <2>3. Time(t) = next /\ Node(graph, t) = graph[next]
      <3>1. Time(t) = t - Len(leafs) /\ Node(graph, t) = graph[t - Len(leafs)]
        BY <2>2 DEF Time, Node
      <3>2. t - Len(leafs) = next
        BY <1>2, <2>1, <2>2
      <3> QED BY <3>1, <3>2
    <2> HIDE DEF t
    <2>4. PICK j \in DOMAIN graph[next].src : graph[next].src[j] = s
      BY <1>4 DEF ToSet
    <2>5. s \in Tensors(graph) /\ s < t /\ s \in Nat
      BY <1>1, <2>2, <2>3, <2>4, GraphFacts
    <2>6. r \in Tensors(graph) /\ ~IsView(graph, r)
      BY <1>1, <2>5, GraphFacts, RootIsNoView
    <2>7. r < t /\ r \in Nat
      <3>1. CASE IsView(graph, s)
        <4>1. ~IsLeaf(s) /\ s - Len(leafs) \in DOMAIN graph
          BY <1>1, <2>5, <3>1, GraphFacts DEF IsView
        <4>2. r = graph[s - Len(leafs)].view /\ graph[s - Len(leafs)].kind = "view"
          BY <3>1 DEF IsView, Root, Node
        <4>3. r \in 1 .. Len(leafs) + (s - Len(leafs)) - 1
          BY <1>1, <4>1, <4>2 DEF GraphOK
        <4> QED BY <1>2, <2>2, <2>5, <4>3
      <3>2. CASE ~IsView(graph, s)
        <4>1. r = s
          BY <3>2 DEF Root
        <4> QED BY <2>5, <4>1
      <3> QED BY <3>1, <3>2
    <2>8. NeededFrom(graph, r, next) /\ NeededFrom(graph, r, Time(t))
      <3>1. ReadAt(graph, r, next)
        BY <2>4 DEF ReadAt
      <3> QED BY <2>1, <2>3, <3>1 DEF NeededFrom
    <2> HIDE DEF r
    <2>9. CASE External(r)
      BY <2>9 DEF WritesApart, r
    <2>10. CASE ~External(r)
      <3>1. r \in Owns(graph)
        BY <2>6, <2>10 DEF Owns, Own
      <3>2. Time(r) < next
        <4>1. CASE IsLeaf(r)
          BY <2>1, <4>1 DEF Time
        <4>2. CASE ~IsLeaf(r)
          <5>1. Time(r) = r - Len(leafs)
            BY <4>2 DEF Time
          <5> QED BY <1>2, <2>1, <2>2, <2>7, <5>1
        <4> QED BY <4>1, <4>2
      <3>3. Holds(r)
        BY <1>3, <1>4, <2>8, <3>1, <3>2
      <3>4. ASSUME ~IsView(graph, t) PROVE WritesApart(t, s)
        <4>1. t \in Owns(graph)
          BY <2>2, <3>4 DEF Owns, Own, External
        <4>2. /\ Spaced(graph, Owns(graph), data, Sz(graph))
              /\ data[r] \in Address /\ data[t] \in Address
          BY <1>3, <1>4, <3>1, <4>1
        <4>3. Away(data, Sz(graph), r, t) \/ TakesOver(graph, data, t, r)
          BY <2>7, <2>8, <3>1, <4>1, <4>2 DEF Spaced
        <4>4. CASE Away(data, Sz(graph), r, t)
          <5>1. /\ Sz(graph)[r] \in Nat /\ Size(graph, r) \in Nat /\ Size(graph, r) <= Sz(graph)[r]
                /\ Sz(graph)[t] \in Nat /\ Sz(graph)[t] = AllocSize(graph, t)
            BY <1>1, <3>1, <4>1, OwnSizes
          <5>2. Cells(data[r], Sz(graph)[r]) \cap Cells(data[t], Sz(graph)[t]) = {}
            BY <4>2, <4>4, <5>1, AwayCells
          <5>3. Cells(data[r], Size(graph, r)) \subseteq Cells(data[r], Sz(graph)[r])
            BY <4>2, <5>1, FewerCells
          <5>4. Cells(data[t], AllocSize(graph, t)) \cap Cells(data[r], Size(graph, r)) = {}
            BY <5>1, <5>2, <5>3
          <5> QED BY <5>4 DEF WritesApart, r
        <4>5. CASE TakesOver(graph, data, t, r)
          <5>1. s = r
            BY <2>3, <2>4, <4>5 DEF TakesOver, r
          <5>2. Node(graph, t).kind = "add" /\ data[t] = data[r] /\ Layout(graph, t) = Layout(graph, r)
            BY <4>5 DEF TakesOver
          <5> QED BY <5>1, <5>2 DEF WritesApart, r
        <4> QED BY <4>3, <4>4, <4>5
      <3> QED BY <3>3, <3>4 DEF r, t
    <2> QED BY <2>9, <2>10 DEF r, t
  <1>5. ASSUME phase = "read", NEW t \in Tensors(graph), IsOutput(graph, t), Own(graph, t)
        PROVE  Holds(t)
    <2>1. t \in Owns(graph) /\ NeededFrom(graph, t, next)
      BY <1>5 DEF Owns, NeededFrom
    <2>2. next > Len(graph) /\ next \in Nat
      BY <1>3, <1>5 DEF SoundInv
    <2>3. Time(t) \in Nat /\ (~IsLeaf(t) => Time(t) \in DOMAIN graph)
      BY <1>1, NodeFacts
    <2>4. IsLeaf(t) => Time(t) = 0
      BY DEF Time
    <2>5. Time(t) < next
      BY <1>2, <2>2, <2>3, <2>4
    <2> QED BY <1>3, <1>5, <2>1, <2>5
  <1> QED BY <1>4, <1>5 DEF SourcesIntact

\* The data of every source is where it was put when a node is computed, and an in-place
\* operation is the only one that writes where it reads; the outputs that are no views are
\* intact at the end.  That is so when a plan is kept for graphs only that have in common
\* with the planned one what needs_realloc() does not compare, see Alike: leafs that fit
\* where the plan has them, the same operations on the same sources, and results in place
\* that have the layout of the source whose place they take.  The code does not check any
\* of the three.
THEOREM SourcesAlwaysIntact == Common = {"leafs", "sources", "layouts"} => (Spec => []SourcesIntact)
  <1> SUFFICES ASSUME Common = {"leafs", "sources", "layouts"} PROVE Spec => []SourcesIntact
    OBVIOUS
  <1>1. Init => SoundInv
    <2> SUFFICES ASSUME Init PROVE SoundInv
      OBVIOUS
    <2>1. Inv
      BY AllocOK, InitInv
    <2>2. buffers \in Seq(Nat) /\ plan = {} /\ phase = "build" /\ graph = <<>>
      BY DEF Init
    <2>3. ViewsOK(graph)
      BY <2>2 DEF ViewsOK
    <2> QED BY <2>1, <2>2, <2>3 DEF SoundInv, BufferInv, PlansOK
  <1>2. SoundInv /\ [Next]_vars => SoundInv'
    BY AllocOK, NextSound
  <1>3. SoundInv => SourcesIntact
    BY AllocOK, SoundIntact
  <1> QED BY <1>1, <1>2, <1>3, PTL DEF Spec

-----------------------------------------------------------------------------
(* A chunk is tiled: its free blocks F and the spans S of its tensors      *)
(* follow one another from its begin to its end cap, and no two free       *)
(* blocks touch.                                                           *)

End(a) == a.off + a.size
Tiled(F, S, cap) ==
    /\ F \subseteq FreeBlock /\ S \subseteq FreeBlock /\ cap \in Nat /\ F \cap S = {}
    /\ \A a, b \in F \cup S : a # b => Apart(a, b)
    /\ \E a \in F \cup S : a.off = 0
    /\ \A a \in F \cup S : End(a) = cap \/ \E b \in F \cup S : b.off = End(a)
    /\ \A a \in F \cup S : End(a) <= cap
    /\ \A a, b \in F : a.off # End(b)

\* Tiles are regions.
LEMMA TileNat ==
    ASSUME NEW a \in FreeBlock
    PROVE  /\ a.off \in Nat /\ a.size \in Nat /\ a.size > 0 /\ End(a) \in Nat /\ End(a) > a.off
           /\ a = Block(a.off, a.size)
  <1>1. a.off \in Nat /\ a.size \in Nat /\ a.size > 0 /\ a = [off |-> a.off, size |-> a.size]
    BY DEF FreeBlock, Positive
  <1> QED BY <1>1 DEF End, Block

\* A region is a tile.
LEMMA TileBlock ==
    ASSUME NEW o \in Nat, NEW n \in Nat, n > 0
    PROVE  /\ Block(o, n) \in FreeBlock /\ Block(o, n).off = o /\ Block(o, n).size = n
           /\ End(Block(o, n)) = o + n
  BY DEF Block, FreeBlock, Positive, End

\* A free block becomes a span.
LEMMA TileTaken ==
    ASSUME NEW F, NEW S, NEW cap, Tiled(F, S, cap), NEW b \in F
    PROVE  Tiled(F \ {b}, S \cup {b}, cap)
  <1>1. (F \ {b}) \cup (S \cup {b}) = F \cup S
    OBVIOUS
  <1>2. F \ {b} \subseteq F /\ (F \ {b}) \cap (S \cup {b}) = {} /\ b \in FreeBlock
    BY DEF Tiled
  <1> QED BY <1>1, <1>2 DEF Tiled

\* A span becomes free that no free block touches.
LEMMA TileGiven ==
    ASSUME NEW F, NEW S, NEW cap, Tiled(F, S, cap), NEW x \in S,
           \A y \in F : y.off # End(x) /\ x.off # End(y)
    PROVE  Tiled(F \cup {x}, S \ {x}, cap)
  <1>1. (F \cup {x}) \cup (S \ {x}) = F \cup S
    OBVIOUS
  <1>2. (F \cup {x}) \cap (S \ {x}) = {} /\ x \in FreeBlock
    BY DEF Tiled
  <1>3. x.off # End(x)
    BY <1>2, TileNat
  <1> QED BY <1>1, <1>2, <1>3 DEF Tiled

\* A span is split in two.
LEMMA TileSplit ==
    ASSUME NEW F, NEW S, NEW cap, Tiled(F, S, cap), NEW x \in S, NEW n \in Nat, n > 0, n < x.size
    PROVE  LET a == Block(x.off, n)
               b == Block(x.off + n, x.size - n)
           IN  Tiled(F, (S \ {x}) \cup {a, b}, cap) /\ a \notin S /\ b \notin S /\ a \notin F /\ b \notin F
  <1> DEFINE a == Block(x.off, n)
             b == Block(x.off + n, x.size - n)
             P == F \cup S
             Q == F \cup ((S \ {x}) \cup {a, b})
  <1>1. /\ x \in FreeBlock /\ P \subseteq FreeBlock /\ cap \in Nat /\ F \cap S = {}
        /\ \A y, z \in P : y # z => Apart(y, z)
        /\ \E y \in P : y.off = 0
        /\ \A y \in P : End(y) = cap \/ \E z \in P : z.off = End(y)
        /\ \A y \in P : End(y) <= cap
        /\ \A y, z \in F : y.off # End(z)
    BY DEF Tiled
  <1>2. x.off \in Nat /\ x.size \in Nat /\ End(x) \in Nat /\ End(x) = x.off + x.size
    BY <1>1, TileNat DEF End
  <1>3. /\ a \in FreeBlock /\ a.off = x.off /\ End(a) = x.off + n /\ a.size = n
        /\ b \in FreeBlock /\ b.off = x.off + n /\ End(b) = End(x) /\ b.size = x.size - n
    <2>1. x.off + n \in Nat /\ x.size - n \in Nat /\ x.size - n > 0
      BY <1>2
    <2>2. a \in FreeBlock /\ a.off = x.off /\ End(a) = x.off + n /\ a.size = n
      BY <1>2, TileBlock
    <2>3. /\ b \in FreeBlock /\ b.off = x.off + n /\ b.size = x.size - n
          /\ End(b) = (x.off + n) + (x.size - n)
      BY <2>1, TileBlock
    <2>4. (x.off + n) + (x.size - n) = End(x)
      BY <1>2
    <2> QED BY <2>2, <2>3, <2>4
  <1> HIDE DEF a, b
  <1>4. ASSUME NEW y \in P, y # x
        PROVE  /\ Apart(a, y) /\ Apart(y, a) /\ Apart(b, y) /\ Apart(y, b) /\ y # a /\ y # b
    <2>1. Apart(x, y) /\ y \in FreeBlock
      BY <1>1, <1>4
    <2>2. y.off \in Nat /\ y.size \in Nat /\ y.size > 0
      BY <2>1, TileNat
    <2>3. Apart(a, y) /\ Apart(y, a) /\ Apart(b, y) /\ Apart(y, b)
      BY <1>2, <1>3, <2>1, <2>2 DEF Apart
    <2> QED BY <1>2, <1>3, <2>2, <2>3 DEF Apart
  <1>5. a # x /\ b # x /\ Apart(a, b) /\ Apart(b, a) /\ x \notin F /\ x \in P
    BY <1>1, <1>2, <1>3 DEF Apart
  <1>6. \A y \in Q : (y \in P /\ y # x) \/ y = a \/ y = b
    BY <1>5
  <1>7. \A y \in P : y # x => y \in Q
    OBVIOUS
  <1>8. a \in Q /\ b \in Q
    OBVIOUS
  <1>9. a \notin S /\ b \notin S /\ a \notin F /\ b \notin F
    BY <1>4, <1>5
  <1>10. \A y, z \in Q : y # z => Apart(y, z)
    BY <1>1, <1>4, <1>5, <1>6
  <1>11. \E y \in Q : y.off = 0
    BY <1>1, <1>3, <1>7, <1>8
  <1>12. \A y \in P : \E z \in Q : z.off = y.off
    BY <1>3, <1>7, <1>8
  <1>13. \A y \in Q : End(y) = cap \/ \E z \in Q : z.off = End(y)
    <2>1. \A y \in P : End(y) = cap \/ \E z \in Q : z.off = End(y)
      BY <1>1, <1>12
    <2>2. End(b) = cap \/ \E z \in Q : z.off = End(b)
      BY <1>3, <1>5, <2>1
    <2>3. b.off = End(a)
      BY <1>3
    <2> QED BY <1>6, <1>8, <2>1, <2>2, <2>3
  <1>14. \A y \in Q : End(y) <= cap
    <2>1. End(a) <= cap /\ End(b) <= cap
      BY <1>1, <1>2, <1>3, <1>5
    <2> QED BY <1>1, <1>6, <2>1
  <1> HIDE DEF P
  <1>15. Tiled(F, (S \ {x}) \cup {a, b}, cap)
    <2>1. F \subseteq FreeBlock /\ (S \ {x}) \cup {a, b} \subseteq FreeBlock
      BY <1>3 DEF Tiled
    <2>2. F \cap ((S \ {x}) \cup {a, b}) = {}
      BY <1>1, <1>9
    <2> QED BY <1>1, <1>10, <1>11, <1>13, <1>14, <2>1, <2>2 DEF Tiled
  <1> QED BY <1>9, <1>15 DEF a, b

\* Two spans become one.
LEMMA TileJoined ==
    ASSUME NEW F, NEW S, NEW cap, Tiled(F, S, cap), NEW a \in S, NEW b \in S, b.off = End(a)
    PROVE  LET m == Block(a.off, a.size + b.size)
           IN  /\ Tiled(F, (S \ {a, b}) \cup {m}, cap)
               /\ m.off = a.off /\ End(m) = End(b) /\ m \notin S \ {a, b}
  <1> DEFINE m == Block(a.off, a.size + b.size)
             P == F \cup S
             Q == F \cup ((S \ {a, b}) \cup {m})
  <1>1. /\ a \in FreeBlock /\ b \in FreeBlock /\ P \subseteq FreeBlock /\ cap \in Nat /\ F \cap S = {}
        /\ \A y, z \in P : y # z => Apart(y, z)
        /\ \E y \in P : y.off = 0
        /\ \A y \in P : End(y) = cap \/ \E z \in P : z.off = End(y)
        /\ \A y \in P : End(y) <= cap
        /\ \A y, z \in F : y.off # End(z)
    BY DEF Tiled
  <1>2. /\ a.off \in Nat /\ a.size \in Nat /\ a.size > 0 /\ End(a) = a.off + a.size
        /\ b.off \in Nat /\ b.size \in Nat /\ b.size > 0 /\ End(b) = b.off + b.size
        /\ b.off = a.off + a.size /\ a # b
    BY <1>1, TileNat DEF End
  <1>3. m \in FreeBlock /\ m.off = a.off /\ End(m) = End(b) /\ m.size = a.size + b.size
    <2>1. a.size + b.size \in Nat /\ a.size + b.size > 0
      BY <1>2
    <2>2. m \in FreeBlock /\ m.off = a.off /\ m.size = a.size + b.size
          /\ End(m) = a.off + (a.size + b.size)
      BY <1>2, <2>1, TileBlock
    <2> QED BY <1>2, <2>2
  <1> HIDE DEF m
  <1>4. ASSUME NEW y \in P, y # a, y # b PROVE Apart(m, y) /\ Apart(y, m) /\ y # m
    <2>1. Apart(a, y) /\ Apart(b, y) /\ y \in FreeBlock
      BY <1>1, <1>4
    <2>2. y.off \in Nat /\ y.size \in Nat /\ y.size > 0
      BY <2>1, TileNat
    <2>3. Apart(m, y) /\ Apart(y, m)
      BY <1>2, <1>3, <2>1, <2>2 DEF Apart
    <2> QED BY <1>2, <1>3, <2>2, <2>3 DEF Apart
  <1>5. a \notin F /\ b \notin F /\ a \in P /\ b \in P
    BY <1>1
  <1>6. \A y \in Q : (y \in P /\ y # a /\ y # b) \/ y = m
    BY <1>5
  <1>7. \A y \in P : y # a /\ y # b => y \in Q
    OBVIOUS
  <1>8. m \in Q
    OBVIOUS
  <1>9. \A y, z \in Q : y # z => Apart(y, z)
    BY <1>1, <1>4, <1>6
  <1>10. \E y \in Q : y.off = 0
    BY <1>1, <1>2, <1>3, <1>7, <1>8
  <1>11. ASSUME NEW y \in P, y # a PROVE End(y) = cap \/ \E z \in Q : z.off = End(y)
    <2>1. CASE End(y) = cap
      BY <2>1
    <2>2. ASSUME NEW z \in P, z.off = End(y) PROVE \E w \in Q : w.off = End(y)
      <3>1. CASE z = b
        <4>1. End(y) = End(a) /\ Apart(y, a) /\ y \in FreeBlock
          BY <1>1, <1>5, <1>11, <2>2, <3>1
        <4>2. y.off \in Nat /\ y.size \in Nat /\ y.size > 0 /\ End(y) = y.off + y.size
          BY <4>1, TileNat DEF End
        <4> QED BY <1>2, <4>1, <4>2 DEF Apart
      <3>2. CASE z = a
        BY <1>3, <1>8, <2>2, <3>2
      <3>3. CASE z # a /\ z # b
        BY <1>7, <2>2, <3>3
      <3> QED BY <3>1, <3>2, <3>3
    <2> QED BY <1>1, <2>1, <2>2
  <1>12. \A y \in Q : End(y) = cap \/ \E z \in Q : z.off = End(y)
    <2>1. End(m) = cap \/ \E z \in Q : z.off = End(m)
      BY <1>2, <1>3, <1>5, <1>11
    <2> QED BY <1>6, <1>11, <2>1
  <1>13. \A y \in Q : End(y) <= cap
    BY <1>1, <1>3, <1>5, <1>6
  <1>14. m \notin F /\ m \notin S \ {a, b}
    BY <1>4, <1>5
  <1> HIDE DEF P
  <1>15. Tiled(F, (S \ {a, b}) \cup {m}, cap)
    <2>1. F \subseteq FreeBlock /\ (S \ {a, b}) \cup {m} \subseteq FreeBlock
      BY <1>3 DEF Tiled
    <2>2. F \cap ((S \ {a, b}) \cup {m}) = {}
      BY <1>1, <1>14
    <2> QED BY <1>1, <1>9, <1>10, <1>12, <1>13, <2>1, <2>2 DEF Tiled
  <1> QED BY <1>3, <1>14, <1>15 DEF m

\* The front of a free block is taken.
LEMMA TiledCut ==
    ASSUME NEW F, NEW S, NEW cap, Tiled(F, S, cap), NEW b \in F, NEW n \in Nat, n > 0, n <= b.size
    PROVE  LET rest == Block(b.off + n, b.size - n)
               G == (F \ {b}) \cup ({rest} \ {Block(b.off + n, 0)})
           IN  Tiled(G, S \cup {Block(b.off, n)}, cap)
  <1> DEFINE front == Block(b.off, n)
             rest == Block(b.off + n, b.size - n)
             G == (F \ {b}) \cup ({rest} \ {Block(b.off + n, 0)})
             R == S \cup {b}
  <1>1. Tiled(F \ {b}, R, cap)
    BY TileTaken
  <1>2. /\ b \in FreeBlock /\ F \cap S = {} /\ F \subseteq FreeBlock
        /\ \A y, z \in F : (y # z => Apart(y, z)) /\ y.off # End(z)
    BY DEF Tiled
  <1>3. /\ b.off \in Nat /\ b.size \in Nat /\ End(b) = b.off + b.size
        /\ b = Block(b.off, b.size)
    BY <1>2, TileNat DEF End
  <1>4. CASE n = b.size
    <2>1. rest = Block(b.off + n, 0)
      BY <1>3, <1>4
    <2>2. G = F \ {b} /\ front = b
      BY <1>3, <1>4, <2>1
    <2> QED BY <1>1, <2>2
  <1>5. CASE n < b.size
    <2>1. rest # Block(b.off + n, 0)
      BY <1>3, <1>5 DEF Block
    <2>2. G = (F \ {b}) \cup {rest}
      BY <2>1
    <2>3. /\ Tiled(F \ {b}, (R \ {b}) \cup {front, rest}, cap)
          /\ front \notin R /\ rest \notin R
      BY <1>1, <1>5, TileSplit
    <2>4. /\ front.off = b.off /\ front.size = n /\ rest.off = b.off + n /\ End(rest) = End(b)
          /\ rest.off # front.off
      <3>1. b.off + n \in Nat /\ b.size - n \in Nat /\ b.size - n > 0
        BY <1>3, <1>5
      <3>2. front.off = b.off /\ front.size = n
        BY <1>3, TileBlock
      <3>3. rest.off = b.off + n /\ End(rest) = (b.off + n) + (b.size - n)
        BY <3>1, TileBlock
      <3>4. (b.off + n) + (b.size - n) = End(b) /\ b.off + n # b.off
        BY <1>3, <1>5
      <3> QED BY <3>2, <3>3, <3>4
    <2> HIDE DEF front, rest
    <2>5. ASSUME NEW y \in F \ {b} PROVE y.off # End(rest) /\ rest.off # End(y)
      <3>1. Apart(y, b) /\ y.off # End(b) /\ y \in FreeBlock
        BY <1>2
      <3>2. y.off \in Nat /\ y.size \in Nat /\ y.size > 0 /\ End(y) = y.off + y.size
        BY <3>1, TileNat DEF End
      <3> QED BY <1>3, <1>5, <2>4, <3>1, <3>2 DEF Apart
    <2>6. (R \ {b}) \cup {front, rest} = S \cup {front, rest} /\ rest \notin S /\ rest # front
      BY <1>2, <2>3, <2>4
    <2>7. rest \in S \cup {front, rest} /\ Tiled(F \ {b}, S \cup {front, rest}, cap)
      BY <2>3, <2>6
    <2>8. Tiled((F \ {b}) \cup {rest}, (S \cup {front, rest}) \ {rest}, cap)
      BY <2>5, <2>7, TileGiven
    <2>9. (S \cup {front, rest}) \ {rest} = S \cup {front}
      BY <2>6
    <2>10. Tiled(G, S \cup {front}, cap)
      BY <2>2, <2>8, <2>9
    <2> QED BY <2>10 DEF front, rest
  <1> QED BY <1>3, <1>4, <1>5

\* Instead of span x there is one from lo to hi.
Extended(F, S, cap, x, lo, hi) ==
    \E m : /\ Tiled(F, (S \ {x}) \cup {m}, cap)
           /\ m.off = lo /\ End(m) = hi /\ m \notin S \ {x}

\* A span grows by the free block before it or behind it.
LEMMA TileBefore ==
    ASSUME NEW F, NEW S, NEW cap, Tiled(F, S, cap), NEW x \in S, NEW a \in F, x.off = End(a)
    PROVE  Extended(F \ {a}, S, cap, x, a.off, End(x))
  <1> DEFINE m == Block(a.off, a.size + x.size)
             R == S \cup {a}
  <1>1. Tiled(F \ {a}, R, cap) /\ a \in R /\ x \in R
    BY TileTaken
  <1>2. a \notin S
    BY DEF Tiled
  <1> HIDE DEF R
  <1>3. /\ Tiled(F \ {a}, (R \ {a, x}) \cup {m}, cap)
        /\ m.off = a.off /\ End(m) = End(x) /\ m \notin R \ {a, x}
    BY <1>1, TileJoined
  <1>4. R \ {a, x} = S \ {x}
    BY <1>2 DEF R
  <1> QED BY <1>3, <1>4 DEF Extended

\* And by the free block behind it.
LEMMA TileAfter ==
    ASSUME NEW F, NEW S, NEW cap, Tiled(F, S, cap), NEW x \in S, NEW b \in F, b.off = End(x)
    PROVE  Extended(F \ {b}, S, cap, x, x.off, End(b))
  <1> DEFINE m == Block(x.off, x.size + b.size)
             R == S \cup {b}
  <1>1. Tiled(F \ {b}, R, cap) /\ b \in R /\ x \in R
    BY TileTaken
  <1>2. b \notin S
    BY DEF Tiled
  <1> HIDE DEF R
  <1>3. /\ Tiled(F \ {b}, (R \ {x, b}) \cup {m}, cap)
        /\ m.off = x.off /\ End(m) = End(b) /\ m \notin R \ {x, b}
    BY <1>1, TileJoined
  <1>4. R \ {x, b} = S \ {x}
    BY <1>2 DEF R
  <1> QED BY <1>3, <1>4 DEF Extended

\* What is free stays free, as part of a larger block perhaps.
Covers(F, G) == \A b \in F : \E d \in G : d.off <= b.off /\ End(b) <= End(d)

\* free_bytes(): a span becomes free, with the blocks that touch it.
LEMMA TiledMerged ==
    ASSUME NEW F, NEW S, NEW cap, Tiled(F, S, cap), NEW x \in S
    PROVE  /\ Tiled(Merged(F, x.off, End(x)), S \ {x}, cap)
           /\ Covers(F, Merged(F, x.off, End(x)))
  <1> DEFINE before == Before(F, x.off)
             after == After(F, End(x))
             lo == IF before # {} THEN (CHOOSE b \in before : TRUE).off ELSE x.off
             hi == IF after # {} THEN End(x) + (CHOOSE b \in after : TRUE).size ELSE End(x)
             new == Block(lo, hi - lo)
             D == F \ before
             E == D \ after
  <1>1. /\ F \subseteq FreeBlock /\ x \in FreeBlock /\ F \cap S = {}
        /\ \A y, z \in F : y # z => Apart(y, z)
        /\ \A y, z \in F : y.off # End(z)
        /\ \A y \in F : y # x => Apart(x, y)
    BY DEF Tiled
  <1>2. x.off \in Nat /\ x.size \in Nat /\ x.size > 0 /\ End(x) = x.off + x.size /\ End(x) \in Nat
    BY <1>1, TileNat DEF End
  <1>3. \A y \in F : y.off \in Nat /\ y.size \in Nat /\ y.size > 0 /\ End(y) = y.off + y.size
    BY <1>1, TileNat DEF End
  <1>4. /\ \A y \in F : y \in before <=> End(y) = x.off
        /\ \A y \in F : y \in after <=> y.off = End(x)
        /\ before \subseteq F /\ after \subseteq F
    BY DEF Before, After, End
  <1> HIDE DEF before, after
  <1>5. ASSUME NEW y \in F, NEW z \in F,
               (y \in before /\ z \in before) \/ (y \in after /\ z \in after)
        PROVE  y = z
    <2>1. y # z => Apart(y, z)
      BY <1>1
    <2>2. End(y) = End(z) \/ y.off = z.off
      BY <1>4, <1>5
    <2> QED BY <1>3, <2>1, <2>2 DEF Apart
  <1>6. Extended(D, S, cap, x, lo, End(x))
    <2>1. CASE before = {}
      <3>1. D = F /\ (S \ {x}) \cup {x} = S /\ lo = x.off
        BY <2>1
      <3> HIDE DEF D, lo
      <3>2. Tiled(F, (S \ {x}) \cup {x}, cap) /\ x \notin S \ {x}
        BY <3>1
      <3> QED BY <3>1, <3>2 DEF Extended
    <2>2. CASE before # {}
      <3> DEFINE a == CHOOSE b \in before : TRUE
      <3>1. a \in before /\ lo = a.off
        BY <2>2
      <3> HIDE DEF a, lo
      <3>2. a \in F /\ x.off = End(a) /\ before = {a}
        BY <1>4, <1>5, <3>1
      <3>3. Extended(F \ {a}, S, cap, x, a.off, End(x))
        BY <3>2, TileBefore
      <3>4. D = F \ {a}
        BY <3>2
      <3> HIDE DEF D
      <3> QED BY <3>1, <3>3, <3>4
    <2> QED BY <2>1, <2>2
  <1>7. PICK m : /\ Tiled(D, (S \ {x}) \cup {m}, cap)
                 /\ m.off = lo /\ End(m) = End(x) /\ m \notin S \ {x}
    BY <1>6 DEF Extended
  <1>8. Extended(E, S, cap, x, lo, hi)
    <2> DEFINE R == (S \ {x}) \cup {m}
    <2>1. CASE after = {}
      <3>1. E = D /\ hi = End(x)
        BY <2>1
      <3> HIDE DEF E, hi, D, lo
      <3> QED BY <1>7, <3>1 DEF Extended
    <2>2. CASE after # {}
      <3> DEFINE b == CHOOSE c \in after : TRUE
      <3>1. b \in after /\ hi = End(x) + b.size
        BY <2>2
      <3> HIDE DEF b, hi, lo
      <3>2. b \in F /\ b.off = End(x) /\ after = {b}
        BY <1>4, <1>5, <3>1
      <3>3. b \notin before
        <4>1. End(b) > End(x) /\ End(x) > x.off
          BY <1>2, <1>3, <3>2
        <4> QED BY <1>2, <1>3, <1>4, <3>2, <4>1
      <3>4. b \in D /\ b.off = End(m) /\ m \in R /\ R \ {m} = S \ {x} /\ Tiled(D, R, cap)
        BY <1>7, <3>2, <3>3
      <3> HIDE DEF D, R
      <3>5. Extended(D \ {b}, R, cap, m, m.off, End(b))
        BY <3>4, TileAfter
      <3>6. End(b) = hi /\ E = D \ {b}
        BY <1>3, <3>1, <3>2
      <3> HIDE DEF E
      <3> QED BY <1>7, <3>4, <3>5, <3>6 DEF Extended
    <2> QED BY <2>1, <2>2
  <1>9. PICK w : /\ Tiled(E, (S \ {x}) \cup {w}, cap)
                 /\ w.off = lo /\ End(w) = hi /\ w \notin S \ {x}
    BY <1>8 DEF Extended
  <1>10. /\ (before = {} /\ lo = x.off) \/ (\E a \in before : before = {a} /\ lo = a.off)
         /\ (after = {} /\ hi = End(x)) \/ (\E b \in after : after = {b} /\ hi = End(b))
    <2>1. before # {} => (CHOOSE b \in before : TRUE) \in before
      OBVIOUS
    <2>2. after # {} => (CHOOSE b \in after : TRUE) \in after
      OBVIOUS
    <2>3. \A y \in before, z \in before : y = z
      BY <1>4, <1>5
    <2>4. \A y \in after, z \in after : y = z
      BY <1>4, <1>5
    <2>5. \A b \in after : End(x) + b.size = End(b)
      BY <1>3, <1>4
    <2> QED BY <2>1, <2>2, <2>3, <2>4, <2>5
  <1> HIDE DEF lo, hi
  <1>11. w = new
    <2>1. w \in FreeBlock
      BY <1>9 DEF Tiled
    <2>2. w = Block(w.off, w.size) /\ w.off \in Nat /\ w.size \in Nat /\ End(w) = w.off + w.size
      BY <2>1, TileNat DEF End
    <2>3. w.size = hi - lo
      BY <1>9, <2>2
    <2> QED BY <1>9, <2>2, <2>3
  <1>12. \A y \in E : y.off # End(w) /\ w.off # End(y)
    <2> TAKE y \in E
    <2>1. y \in F /\ y \notin before /\ y \notin after
      OBVIOUS
    <2>2. w.off # End(y)
      BY <1>1, <1>4, <1>9, <1>10, <2>1
    <2>3. y.off # End(w)
      BY <1>1, <1>4, <1>9, <1>10, <2>1
    <2> QED BY <2>2, <2>3
  <1> HIDE DEF E
  <1>13. Tiled(E \cup {w}, ((S \ {x}) \cup {w}) \ {w}, cap)
    <2>1. w \in (S \ {x}) \cup {w}
      OBVIOUS
    <2> QED BY <1>9, <1>12, <2>1, TileGiven
  <1>14. ((S \ {x}) \cup {w}) \ {w} = S \ {x}
    BY <1>9
  <1>15. Merged(F, x.off, End(x)) = E \cup {w}
    <2>1. Merged(F, x.off, End(x)) = (F \ (before \cup after)) \cup {new}
      BY DEF Merged, before, after, lo, hi
    <2> QED BY <1>11, <2>1 DEF E
  <1>16. Covers(F, E \cup {w})
    <2>1. lo \in Nat /\ hi \in Nat /\ lo <= x.off /\ hi >= End(x)
      <3>1. lo \in Nat /\ lo <= x.off
        BY <1>2, <1>3, <1>4, <1>10
      <3>2. hi \in Nat /\ hi >= End(x)
        BY <1>2, <1>3, <1>4, <1>10
      <3> QED BY <3>1, <3>2
    <2>2. \A b \in before : w.off <= b.off /\ End(b) <= End(w)
      <3> TAKE b \in before
      <3>1. lo = b.off /\ End(b) = x.off /\ b \in F
        BY <1>4, <1>10
      <3> QED BY <1>2, <1>3, <1>9, <2>1, <3>1
    <2>3. \A b \in after : w.off <= b.off /\ End(b) <= End(w)
      <3> TAKE b \in after
      <3>1. hi = End(b) /\ b.off = End(x) /\ b \in F
        BY <1>4, <1>10
      <3> QED BY <1>2, <1>3, <1>9, <2>1, <3>1
    <2>4. \A b \in E : b.off <= b.off /\ End(b) <= End(b)
      BY <1>3 DEF E
    <2>5. \A b \in F : b \in before \/ b \in after \/ b \in E
      BY DEF E
    <2> QED BY <2>2, <2>3, <2>4, <2>5 DEF Covers
  <1> QED BY <1>13, <1>14, <1>15, <1>16

-----------------------------------------------------------------------------
(* All chunks of a planner are tiled, and the last chunk there may be has  *)
(* room behind offset top.                                                 *)

Spans(T, sz, h, c) == {Span(h, sz, t) : t \in Held(T, h, c)}
Full(T, sz, h, cs) ==
    \A c \in DOMAIN cs : Tiled(cs[c].free, Spans(T, sz, h, c), cs[c].cap)

Spacious(chunk, top) ==
    chunk.cap = Huge /\ \E b \in chunk.free : End(b) = Huge /\ b.off <= top
Roomy(cs, top) ==
    /\ Len(cs) <= MaxChunks
    /\ MaxChunks \in DOMAIN cs => Spacious(cs[MaxChunks], top)
Laid(T, sz, h, cs, top) == Full(T, sz, h, cs) /\ Roomy(cs, top)

\* How a table of entries becomes k: t gets memory, gives it back, takes that of s.
Stay(T, h, k, t) ==
    \A u \in T : u # t => k[u].allocated = h[u].allocated /\ k[u].addr = h[u].addr
Gets(T, h, k, t, addr) ==
    ~h[t].allocated /\ k[t].allocated /\ k[t].addr = addr /\ Stay(T, h, k, t)
Gives(T, h, k, t) == h[t].allocated /\ ~k[t].allocated /\ Stay(T, h, k, t)
Takes(T, h, k, t, s) ==
    /\ s # t /\ h[s].allocated /\ ~h[t].allocated
    /\ k[t].allocated /\ ~k[s].allocated /\ k[t].addr = h[s].addr
    /\ \A u \in T : u # t => k[u].addr = h[u].addr
    /\ \A u \in T : u # t /\ u # s => k[u].allocated = h[u].allocated

\* The same tensors hold the same memory.
LEMMA FullSame ==
    ASSUME NEW T, NEW sz, NEW h, NEW cs, Full(T, sz, h, cs), NEW k,
           \A t \in T : k[t].allocated = h[t].allocated /\ k[t].addr = h[t].addr
    PROVE  Full(T, sz, k, cs)
  <1>1. \A c : Held(T, k, c) = Held(T, h, c)
    BY DEF Held
  <1>2. \A c : \A t \in Held(T, h, c) : Span(k, sz, t) = Span(h, sz, t)
    BY DEF Held, Span
  <1>3. \A c : Spans(T, sz, k, c) = Spans(T, sz, h, c)
    BY <1>1, <1>2 DEF Spans
  <1> QED BY <1>3 DEF Full

\* One tensor more has memory.
OneMore(T, sz, h, k, t) ==
    \A c : Spans(T, sz, k, c) =
              IF c = k[t].addr.chunk THEN Spans(T, sz, h, c) \cup {Span(k, sz, t)}
              ELSE Spans(T, sz, h, c)

\* No other span changes.
LEMMA SpansMore ==
    ASSUME NEW T, NEW sz, NEW h, NEW k, NEW t \in T, ~h[t].allocated, k[t].allocated,
           \A u \in T : u # t => k[u].allocated = h[u].allocated /\ k[u].addr = h[u].addr
    PROVE  OneMore(T, sz, h, k, t)
  <1> SUFFICES ASSUME NEW c
               PROVE  Spans(T, sz, k, c) =
                        IF c = k[t].addr.chunk THEN Spans(T, sz, h, c) \cup {Span(k, sz, t)}
                        ELSE Spans(T, sz, h, c)
    BY DEF OneMore
  <1>1. Held(T, k, c) = IF c = k[t].addr.chunk THEN Held(T, h, c) \cup {t} ELSE Held(T, h, c)
    BY DEF Held
  <1>2. \A u \in Held(T, h, c) : Span(k, sz, u) = Span(h, sz, u)
    BY DEF Held, Span
  <1> QED BY <1>1, <1>2 DEF Spans

\* Tensors of a chunk have different spans.
LEMMA SpansDiffer ==
    ASSUME NEW T, NEW sz \in [T -> Positive], NEW h, NEW cs, Good(T, sz, h, cs),
           NEW c \in DOMAIN cs, NEW t \in Held(T, h, c), NEW u \in Held(T, h, c), t # u
    PROVE  Span(h, sz, t) # Span(h, sz, u)
  <1>1. Apart(Span(h, sz, t), Span(h, sz, u))
    BY DEF Good, SpansApart
  <1>2. t \in T /\ IsEntry(h[t])
    BY DEF Held, Good, Typed
  <1>3. h[t].addr.off \in Nat /\ sz[t] \in Nat /\ sz[t] > 0
    BY <1>2 DEF IsEntry, Address, Positive
  <1>4. SUFFICES ASSUME Span(h, sz, t) = Span(h, sz, u) PROVE FALSE
    OBVIOUS
  <1>5. Apart(Span(h, sz, t), Span(h, sz, t))
    BY <1>1, <1>4
  <1> QED BY <1>3, <1>5 DEF Apart, Span, Block

\* A tensor has memory no more.
LEMMA SpansLess ==
    ASSUME NEW T, NEW sz \in [T -> Positive], NEW h, NEW cs, Good(T, sz, h, cs),
           NEW k, NEW t \in T, h[t].allocated, ~k[t].allocated,
           \A u \in T : u # t => k[u].allocated = h[u].allocated /\ k[u].addr = h[u].addr,
           NEW c \in DOMAIN cs
    PROVE  Spans(T, sz, k, c) = IF c = h[t].addr.chunk THEN Spans(T, sz, h, c) \ {Span(h, sz, t)}
                                ELSE Spans(T, sz, h, c)
  <1>1. Held(T, k, c) = Held(T, h, c) \ {t} /\ (c = h[t].addr.chunk <=> t \in Held(T, h, c))
    BY DEF Held
  <1>2. \A u \in Held(T, k, c) : Span(k, sz, u) = Span(h, sz, u)
    BY DEF Held, Span
  <1>3. t \in Held(T, h, c) =>
            \A u \in Held(T, h, c) : u # t => Span(h, sz, u) # Span(h, sz, t)
    BY SpansDiffer
  <1> QED BY <1>1, <1>2, <1>3 DEF Spans

\* A tensor takes the memory of another one.
LEMMA SpansMoved ==
    ASSUME NEW T, NEW sz \in [T -> Positive], NEW h, NEW cs, Good(T, sz, h, cs),
           NEW k, NEW t \in T, NEW s \in T, s # t, h[s].allocated, ~h[t].allocated,
           k[t].allocated, ~k[s].allocated, k[t].addr = h[s].addr,
           \A u \in T : u # t => k[u].addr = h[u].addr,
           \A u \in T : u # t /\ u # s => k[u].allocated = h[u].allocated,
           NEW c \in DOMAIN cs
    PROVE  Spans(T, sz, k, c) = IF c = h[s].addr.chunk
                                THEN (Spans(T, sz, h, c) \ {Span(h, sz, s)}) \cup {Span(k, sz, t)}
                                ELSE Spans(T, sz, h, c)
  <1>1. /\ c = h[s].addr.chunk => s \in Held(T, h, c) /\ Held(T, k, c) = (Held(T, h, c) \ {s}) \cup {t}
        /\ c # h[s].addr.chunk => s \notin Held(T, h, c) /\ Held(T, k, c) = Held(T, h, c)
        /\ t \notin Held(T, h, c)
    BY DEF Held
  <1>2. \A u \in Held(T, h, c) \ {s} : Span(k, sz, u) = Span(h, sz, u)
    BY <1>1 DEF Held, Span
  <1>3. s \in Held(T, h, c) =>
            \A u \in Held(T, h, c) : u # s => Span(h, sz, u) # Span(h, sz, s)
    BY SpansDiffer
  <1>4. CASE c = h[s].addr.chunk
    BY <1>1, <1>2, <1>3, <1>4 DEF Spans
  <1>5. CASE c # h[s].addr.chunk
    BY <1>1, <1>2, <1>5 DEF Spans
  <1> QED BY <1>4, <1>5

\* free_bytes() of a span.
LEMMA FreeBytesIs ==
    ASSUME NEW cs \in Seq(Chunk), NEW addr, addr.chunk \in DOMAIN cs, NEW size
    PROVE  LET ds == FreeBytes(cs, addr, size)
               d == addr.chunk
           IN  /\ DOMAIN ds = DOMAIN cs /\ Len(ds) = Len(cs)
               /\ \A c \in DOMAIN cs : c # d => ds[c] = cs[c]
               /\ ds[d].cap = cs[d].cap
               /\ ds[d].free = Merged(cs[d].free, addr.off, addr.off + size)
  <1> DEFINE d == addr.chunk
             m == Merged(cs[d].free, addr.off, addr.off + size)
             ds == FreeBytes(cs, addr, size)
  <1>1. ds = [cs EXCEPT ![d] = [cs[d] EXCEPT !.free = m]]
    BY DEF FreeBytes
  <1>2. cs[d] = [free |-> cs[d].free, max_size |-> cs[d].max_size, cap |-> cs[d].cap]
    <2>1. cs[d] \in Chunk
      OBVIOUS
    <2> QED BY <2>1 DEF Chunk
  <1>3. [cs[d] EXCEPT !.free = m] = [free |-> m, max_size |-> cs[d].max_size, cap |-> cs[d].cap]
    BY <1>2
  <1> HIDE DEF ds, m
  <1>4. DOMAIN ds = DOMAIN cs /\ Len(ds) = Len(cs)
    <2>1. DOMAIN ds = DOMAIN cs
      BY <1>1
    <2>2. DOMAIN cs = 1 .. Len(cs) /\ Len(cs) \in Nat
      OBVIOUS
    <2> QED BY <2>1, <2>2, <1>1
  <1>5. \A c \in DOMAIN cs : c # d => ds[c] = cs[c]
    BY <1>1
  <1>6. ds[d] = [free |-> m, max_size |-> cs[d].max_size, cap |-> cs[d].cap]
    BY <1>1, <1>3
  <1> QED BY <1>4, <1>5, <1>6 DEF ds, m

\* free_bytes() leaves the chunk tiled and nothing that was free taken.
LEMMA TiledFreed ==
    ASSUME NEW cs \in Seq(Chunk), NEW addr \in Address, addr.chunk \in DOMAIN cs,
           NEW size \in Positive, NEW S, Tiled(cs[addr.chunk].free, S, cs[addr.chunk].cap),
           Block(addr.off, size) \in S
    PROVE  LET ds == FreeBytes(cs, addr, size)
               d == addr.chunk
           IN  /\ Tiled(ds[d].free, S \ {Block(addr.off, size)}, ds[d].cap)
               /\ Covers(cs[d].free, ds[d].free)
  <1> DEFINE ds == FreeBytes(cs, addr, size)
             d == addr.chunk
             x == Block(addr.off, size)
             F == cs[d].free
  <1>1. addr.off \in Nat /\ size \in Nat /\ size > 0
    BY DEF Address, Positive
  <1>2. x.off = addr.off /\ End(x) = addr.off + size
    BY <1>1, TileBlock
  <1>3. ds[d].cap = cs[d].cap /\ ds[d].free = Merged(F, addr.off, addr.off + size)
    BY FreeBytesIs
  <1>4. x \in S /\ Tiled(F, S, cs[d].cap)
    OBVIOUS
  <1> HIDE DEF ds, x, F
  <1>5. Tiled(Merged(F, x.off, End(x)), S \ {x}, cs[d].cap)
    BY <1>4, TiledMerged
  <1>6. Covers(F, Merged(F, x.off, End(x)))
    BY <1>4, TiledMerged
  <1>7. Tiled(ds[d].free, S \ {x}, ds[d].cap)
    BY <1>2, <1>3, <1>5
  <1>8. Covers(F, ds[d].free)
    BY <1>2, <1>3, <1>6
  <1> QED BY <1>7, <1>8 DEF ds, x, F

\* The room at the end stays.
LEMMA RoomyFreed ==
    ASSUME AllocOK, NEW cs \in Seq(Chunk), NEW addr \in Address, addr.chunk \in DOMAIN cs,
           NEW size \in Positive, NEW S, Tiled(cs[addr.chunk].free, S, cs[addr.chunk].cap),
           Block(addr.off, size) \in S, NEW top \in Nat, Roomy(cs, top)
    PROVE  Roomy(FreeBytes(cs, addr, size), top)
  <1> DEFINE ds == FreeBytes(cs, addr, size)
             d == addr.chunk
             R == S \ {Block(addr.off, size)}
  <1>1. /\ DOMAIN ds = DOMAIN cs /\ Len(ds) = Len(cs)
        /\ \A c \in DOMAIN cs : c # d => ds[c] = cs[c]
        /\ ds[d].cap = cs[d].cap
    BY FreeBytesIs
  <1>2. Tiled(ds[d].free, R, ds[d].cap) /\ Covers(cs[d].free, ds[d].free)
    BY TiledFreed
  <1> HIDE DEF ds, R
  <1>3. ASSUME MaxChunks \in DOMAIN ds PROVE Spacious(ds[MaxChunks], top)
    <2>1. Spacious(cs[MaxChunks], top)
      BY <1>1, <1>3 DEF Roomy
    <2>2. CASE MaxChunks # d
      BY <1>1, <1>3, <2>1, <2>2
    <2>3. CASE MaxChunks = d
      <3>1. PICK b \in cs[d].free : End(b) = Huge /\ b.off <= top
        BY <2>1, <2>3 DEF Spacious
      <3>2. PICK e \in ds[d].free : e.off <= b.off /\ End(b) <= End(e)
        BY <1>2 DEF Covers
      <3>3. ds[d].cap = Huge
        BY <1>1, <2>1, <2>3 DEF Spacious
      <3>4. End(e) <= Huge /\ e \in FreeBlock
        BY <1>2, <3>3 DEF Tiled
      <3>5. b \in FreeBlock
        BY DEF Tiled
      <3>6. e.off \in Nat /\ End(e) \in Nat /\ b.off \in Nat
        BY <3>4, <3>5, TileNat
      <3>7. Huge \in Nat
        BY DEF Huge
      <3>8. End(e) = Huge /\ e.off <= top
        BY <3>1, <3>2, <3>4, <3>6, <3>7
      <3> QED BY <2>3, <3>3, <3>8 DEF Spacious
    <2> QED BY <2>2, <2>3
  <1> QED BY <1>1, <1>3 DEF Roomy, ds

\* A tensor gives its memory back.
LEMMA ReleaseFull ==
    ASSUME AllocOK, NEW T, NEW sz \in [T -> Positive], NEW h, NEW cs, Good(T, sz, h, cs),
           NEW top \in Nat, Laid(T, sz, h, cs, top),
           NEW k, NEW t \in T, Gives(T, h, k, t)
    PROVE  Laid(T, sz, k, FreeBytes(cs, h[t].addr, sz[t]), top)
  <1> USE DEF Laid, Gives, Stay
  <1> DEFINE addr == h[t].addr
             d == addr.chunk
             ds == FreeBytes(cs, addr, sz[t])
             S == Spans(T, sz, h, d)
             x == Block(addr.off, sz[t])
  <1>1. cs \in Seq(Chunk) /\ addr \in Address /\ d \in DOMAIN cs /\ sz[t] \in Positive
    BY DEF Good, Typed, IsEntry
  <1>2. x = Span(h, sz, t) /\ x \in S
    BY DEF Span, Spans, Held
  <1>3. \A c \in DOMAIN cs : Spans(T, sz, k, c) = IF c = d THEN S \ {x} ELSE Spans(T, sz, h, c)
    <2> TAKE c \in DOMAIN cs
    <2>1. Spans(T, sz, k, c) = IF c = h[t].addr.chunk THEN Spans(T, sz, h, c) \ {Span(h, sz, t)}
                               ELSE Spans(T, sz, h, c)
      BY SpansLess
    <2> HIDE DEF x
    <2> QED BY <1>2, <2>1
  <1>4. Tiled(cs[d].free, S, cs[d].cap)
    BY <1>1 DEF Full
  <1> HIDE DEF addr, S
  <1>5. Roomy(ds, top)
    BY <1>1, <1>2, <1>4, RoomyFreed
  <1>6. Tiled(ds[d].free, S \ {x}, ds[d].cap)
    BY <1>1, <1>2, <1>4, TiledFreed
  <1>7. DOMAIN ds = DOMAIN cs /\ \A c \in DOMAIN cs : c # d => ds[c] = cs[c]
    BY <1>1, FreeBytesIs
  <1> HIDE DEF ds, x
  <1>8. Full(T, sz, k, ds)
    BY <1>1, <1>3, <1>6, <1>7 DEF Full
  <1> QED BY <1>5, <1>8 DEF ds, addr

\* A tensor takes the memory of a source; what it does not need is given back.
LEMMA HandOverFull ==
    ASSUME AllocOK, NEW T, NEW sz \in [T -> Positive], NEW h, NEW cs, Good(T, sz, h, cs),
           NEW top \in Nat, Laid(T, sz, h, cs, top),
           NEW k, NEW t \in T, NEW s \in T, Takes(T, h, k, t, s),
           NEW ds,
           \/ sz[s] = sz[t] /\ ds = cs
           \/ /\ sz[s] > sz[t]
              /\ ds = FreeBytes(cs, [h[s].addr EXCEPT !.off = @ + sz[t]], sz[s] - sz[t])
    PROVE  Laid(T, sz, k, ds, top)
  <1> USE DEF Laid, Takes
  <1> DEFINE addr == h[s].addr
             d == addr.chunk
             S == Spans(T, sz, h, d)
             x == Span(h, sz, s)
             a == Span(k, sz, t)
             m == sz[t]
             n == sz[s]
  <1>1. cs \in Seq(Chunk) /\ addr \in Address /\ d \in DOMAIN cs
    BY DEF Good, Typed, IsEntry
  <1>2. x = Block(addr.off, n) /\ a = Block(addr.off, m) /\ x \in S /\ x \in FreeBlock
    <2>1. x = Block(addr.off, n) /\ a = Block(addr.off, m) /\ x \in S
      BY DEF Span, Spans, Held
    <2>2. Tiled(cs[d].free, S, cs[d].cap)
      BY <1>1 DEF Full
    <2> QED BY <2>1, <2>2 DEF Tiled
  <1>3. \A c \in DOMAIN cs : Spans(T, sz, k, c) = IF c = d THEN (S \ {x}) \cup {a}
                                                  ELSE Spans(T, sz, h, c)
    BY SpansMoved
  <1>4. Tiled(cs[d].free, S, cs[d].cap)
    BY <1>1 DEF Full
  <1>5. m \in Nat /\ m > 0 /\ n \in Nat /\ addr.off \in Nat /\ addr.chunk \in Nat
    BY <1>1 DEF Address, Positive
  <1>6. CASE n = m /\ ds = cs
    <2>1. (S \ {x}) \cup {a} = S
      BY <1>2, <1>6
    <2> HIDE DEF S, x, a, addr
    <2>2. \A c \in DOMAIN cs : Spans(T, sz, k, c) = Spans(T, sz, h, c)
      BY <1>3, <2>1 DEF S
    <2> QED BY <1>6, <2>2 DEF Full
  <1>7. CASE n > m /\ ds = FreeBytes(cs, [addr EXCEPT !.off = @ + m], n - m)
    <2> DEFINE b == Block(addr.off + m, n - m)
               R == (S \ {x}) \cup {a, b}
               behind == [addr EXCEPT !.off = @ + m]
    <2>1. behind = [chunk |-> d, off |-> addr.off + m] /\ behind \in Address
      <3>1. addr = [chunk |-> addr.chunk, off |-> addr.off]
        BY <1>1 DEF Address
      <3> HIDE DEF addr, m
      <3>2. addr.off + m \in Nat
        BY <1>5
      <3>3. behind = [chunk |-> d, off |-> addr.off + m]
        BY <3>1
      <3> QED BY <1>5, <3>2, <3>3 DEF Address
    <2>2. n - m \in Positive
      BY <1>5, <1>7 DEF Positive
    <2>3. x.off = addr.off /\ x.size = n
      BY <1>2 DEF Block
    <2> HIDE DEF addr, m, n, S, x, a
    <2>4. Tiled(cs[d].free, R, cs[d].cap) /\ b \notin S
      <3>1. a = Block(x.off, m) /\ b = Block(x.off + m, x.size - m)
        BY <1>2, <2>3
      <3>2. m < x.size
        BY <1>5, <1>7, <2>3
      <3>3. LET v == Block(x.off, m)
                w == Block(x.off + m, x.size - m)
            IN  Tiled(cs[d].free, (S \ {x}) \cup {v, w}, cs[d].cap) /\ w \notin S
        BY <1>2, <1>4, <1>5, <3>2, TileSplit
      <3> QED BY <3>1, <3>3
    <2>5. b = Block(behind.off, n - m) /\ b \in R /\ behind.chunk = d
      BY <2>1
    <2>6. R \ {b} = (S \ {x}) \cup {a}
      <3>1. a # b
        BY <1>2, <1>5 DEF Block
      <3> HIDE DEF b
      <3> QED BY <2>4, <3>1
    <2> HIDE DEF R, b, behind
    <2>7. ds = FreeBytes(cs, behind, n - m)
      BY <1>7 DEF behind
    <2>8. Roomy(ds, top)
      BY <1>1, <2>1, <2>2, <2>4, <2>5, <2>7, RoomyFreed
    <2>9. Tiled(ds[d].free, R \ {b}, ds[d].cap)
      BY <1>1, <2>1, <2>2, <2>4, <2>5, <2>7, TiledFreed
    <2>10. DOMAIN ds = DOMAIN cs /\ \A c \in DOMAIN cs : c # d => ds[c] = cs[c]
      BY <1>1, <2>1, <2>5, <2>7, FreeBytesIs
    <2>11. Full(T, sz, k, ds)
      BY <1>1, <1>3, <2>6, <2>9, <2>10 DEF Full
    <2> QED BY <2>8, <2>11
  <1> QED BY <1>6, <1>7

\* Chunk c and offset that memory is taken from, what is left of the block.
CutOff(cs, ds, c, b, n) ==
    /\ DOMAIN ds = DOMAIN cs /\ Len(ds) = Len(cs)
    /\ \A e \in DOMAIN cs : e # c => ds[e] = cs[e]
    /\ ds[c].cap = cs[c].cap
    /\ ds[c].free = (cs[c].free \ {b}) \cup
                    ({Block(b.off + n, b.size - n)} \ {Block(b.off + n, 0)})

\* Memory is taken from the begin of a block.
LEMMA CutIs ==
    ASSUME NEW cs \in Seq(Chunk), NEW place \in Blocks(cs), NEW n
    PROVE  LET taken == CutAt(cs, place, n)
           IN  /\ CutOff(cs, taken.chunks, place[1], place[2], n)
               /\ taken.addr.chunk = place[1] /\ taken.addr.off = place[2].off
               /\ place[1] \in DOMAIN cs /\ place[2] \in cs[place[1]].free
  <1> DEFINE c == place[1]
             b == place[2]
             taken == CutAt(cs, place, n)
             ds == taken.chunks
             cut == (cs[c].free \ {b}) \cup
                    ({Block(b.off + n, b.size - n)} \ {Block(b.off + n, 0)})
             high == Max({cs[c].max_size, b.off + n})
  <1>1. c \in DOMAIN cs /\ b \in cs[c].free
    BY DEF Blocks
  <1>2. ds = [cs EXCEPT ![c] = Cut(cs[c], b, n)] /\ taken.addr = [chunk |-> c, off |-> b.off]
    BY DEF CutAt
  <1>3. cs[c] = [free |-> cs[c].free, max_size |-> cs[c].max_size, cap |-> cs[c].cap]
    <2>1. cs[c] \in Chunk
      BY <1>1
    <2> QED BY <2>1 DEF Chunk
  <1>4. Cut(cs[c], b, n) = [cs[c] EXCEPT !.free = cut, !.max_size = high]
    BY DEF Cut
  <1> HIDE DEF cut, high, ds
  <1>5. Cut(cs[c], b, n) = [free |-> cut, max_size |-> high, cap |-> cs[c].cap]
    BY <1>3, <1>4
  <1>6. DOMAIN ds = DOMAIN cs /\ Len(ds) = Len(cs)
    <2>1. DOMAIN ds = DOMAIN cs
      BY <1>2
    <2>2. DOMAIN cs = 1 .. Len(cs) /\ Len(cs) \in Nat
      OBVIOUS
    <2> QED BY <2>1, <2>2, <1>2
  <1>7. \A e \in DOMAIN cs : e # c => ds[e] = cs[e]
    BY <1>2
  <1>8. ds[c] = [free |-> cut, max_size |-> high, cap |-> cs[c].cap]
    BY <1>1, <1>2, <1>5
  <1>9. ds[c].cap = cs[c].cap /\ ds[c].free = cut
    BY <1>8
  <1>10. CutOff(cs, ds, c, b, n)
    BY <1>6, <1>7, <1>9 DEF CutOff, cut
  <1> QED BY <1>1, <1>2, <1>10 DEF ds

\* What is left of a block that ends at h.
LEMMA RestOfBlock ==
    ASSUME NEW o \in Nat, NEW k \in Nat, NEW n \in Nat, NEW top \in Nat, NEW h \in Nat,
           o + k = h, o <= top, top + n < h
    PROVE  /\ o + n \in Nat /\ k - n \in Nat /\ k - n > 0
           /\ (o + n) + (k - n) = h /\ o + n <= top + n
  <1>1. k - n = h - o - n /\ o + n < h
    OBVIOUS
  <1>2. k - n > 0
    BY <1>1
  <1> QED BY <1>1, <1>2

\* The room that is left at the end when n units of some block are taken.
LEMMA RoomyTaken ==
    ASSUME AllocOK, NEW cs \in Seq(Chunk), NEW top \in Nat, Roomy(cs, top),
           NEW c \in DOMAIN cs, NEW b \in cs[c].free, NEW n \in Positive, top + n < Huge,
           NEW ds, CutOff(cs, ds, c, b, n)
    PROVE  Roomy(ds, top + n)
  <1>1. /\ DOMAIN ds = DOMAIN cs /\ Len(ds) = Len(cs)
        /\ \A e \in DOMAIN cs : e # c => ds[e] = cs[e]
        /\ ds[c].cap = cs[c].cap
        /\ ds[c].free = (cs[c].free \ {b}) \cup
                    ({Block(b.off + n, b.size - n)} \ {Block(b.off + n, 0)})
    BY DEF CutOff
  <1>2. n \in Nat /\ n > 0 /\ Huge \in Nat
    BY DEF Positive, Huge
  <1>3. ASSUME MaxChunks \in DOMAIN ds PROVE Spacious(ds[MaxChunks], top + n)
    <2>1. Spacious(cs[MaxChunks], top)
      BY <1>1, <1>3 DEF Roomy
    <2>2. PICK e \in cs[MaxChunks].free : End(e) = Huge /\ e.off <= top
      BY <2>1 DEF Spacious
    <2>3. cs[MaxChunks].cap = Huge
      BY <2>1 DEF Spacious
    <2>4. e \in FreeBlock
      <3>1. cs[MaxChunks] \in Chunk
        BY <1>1, <1>3
      <3> QED BY <3>1 DEF Chunk
    <2>5. e.off \in Nat /\ e.size \in Nat /\ e.off + e.size = Huge
      BY <2>2, <2>4, TileNat DEF End
    <2>6. e.off <= top + n
      BY <1>2, <2>2, <2>5
    <2>7. CASE e \in ds[MaxChunks].free /\ ds[MaxChunks].cap = Huge
      BY <2>2, <2>6, <2>7 DEF Spacious
    <2>8. CASE MaxChunks # c
      <3>1. ds[MaxChunks] = cs[MaxChunks]
        BY <1>1, <1>3, <2>8
      <3> QED BY <2>3, <2>7, <3>1
    <2>9. CASE MaxChunks = c /\ e # b
      BY <1>1, <2>3, <2>7, <2>9
    <2>10. CASE MaxChunks = c /\ e = b
      <3> DEFINE rest == Block(b.off + n, b.size - n)
      <3>1. b.off + n \in Nat /\ b.size - n \in Nat /\ b.size - n > 0
            /\ (b.off + n) + (b.size - n) = Huge /\ b.off + n <= top + n
        <4>1. b.off \in Nat /\ b.size \in Nat /\ b.off + b.size = Huge /\ b.off <= top
          BY <2>2, <2>5, <2>10
        <4> HIDE DEF rest
        <4> HIDE DEF Huge
        <4>2. top + n < Huge
          OBVIOUS
        <4>3. \A o, k \in Nat :
                 o + k = Huge /\ o <= top =>
                    /\ o + n \in Nat /\ k - n \in Nat /\ k - n > 0
                    /\ (o + n) + (k - n) = Huge /\ o + n <= top + n
          BY <1>2, <4>2, RestOfBlock
        <4> QED BY <4>1, <4>3
      <3>2. rest.off = b.off + n /\ End(rest) = (b.off + n) + (b.size - n)
        <4>1. rest.off = b.off + n /\ rest.size = b.size - n
          BY DEF Block
        <4> HIDE DEF rest
        <4> QED BY <4>1 DEF End
      <3>3. rest # Block(b.off + n, 0)
        BY <3>1 DEF Block
      <3>4. rest \in ds[c].free
        BY <1>1, <3>3
      <3> HIDE DEF rest
      <3> QED BY <1>1, <2>3, <2>10, <3>1, <3>2, <3>4 DEF Spacious
    <2> QED BY <2>8, <2>9, <2>10
  <1> QED BY <1>1, <1>3 DEF Roomy

\* A new chunk is tiled, and it is made only while there may be another one.
LEMMA WithRoomFull ==
    ASSUME AllocOK, NEW T, NEW sz, NEW h, NEW cs, Good(T, sz, h, cs), Full(T, sz, h, cs),
           NEW top \in Nat, Roomy(cs, top), NEW n \in Positive, top + n < Huge
    PROVE  Full(T, sz, h, WithRoom(cs, n)) /\ Roomy(WithRoom(cs, n), top)
  <1>1. CASE Fitting(cs, n) \cup LastOnes(cs, n) # {}
    BY <1>1 DEF WithRoom
  <1>2. CASE Fitting(cs, n) \cup LastOnes(cs, n) = {}
    <2> DEFINE cap == IF Len(cs) = MaxChunks - 1 THEN Huge ELSE Max({n, MaxChunkSize})
               b == Block(0, cap)
               new == [free |-> {b}, max_size |-> 0, cap |-> cap]
               ds == Append(cs, new)
    <2>1. WithRoom(cs, n) = ds
      BY <1>2 DEF WithRoom, NewChunk
    <2>2. /\ cs \in Seq(Chunk) /\ Len(cs) \in Nat /\ DOMAIN cs = 1 .. Len(cs)
          /\ MaxChunks \in Nat /\ MaxChunks > 0 /\ n \in Nat /\ n > 0 /\ Huge \in Nat
      BY DEF Good, Typed, AllocOK, Positive, Huge
    <2>3. cap \in Nat /\ cap > 0
      <3>1. MaxChunkSize \in Nat /\ MaxChunkSize > 0
        BY DEF AllocOK
      <3>2. Max({n, MaxChunkSize}) \in {n, MaxChunkSize}
        <4>1. \E x \in {n, MaxChunkSize} : \A y \in {n, MaxChunkSize} : x >= y
          BY <2>2, <3>1
        <4> QED BY <4>1 DEF Max
      <3> QED BY <2>2, <3>1, <3>2 DEF Huge
    <2>4. Len(cs) < MaxChunks
      <3>0. Len(cs) <= MaxChunks
        BY DEF Roomy
      <3> HIDE DEF cap, b, new, ds
      <3> SUFFICES Len(cs) # MaxChunks
        <4>1. Len(cs) \in Nat /\ MaxChunks \in Nat
          BY <2>2
        <4> QED BY <3>0, <4>1
      <3> SUFFICES ASSUME Len(cs) = MaxChunks PROVE FALSE
        OBVIOUS
      <3>1. MaxChunks \in DOMAIN cs
        BY <2>2
      <3>2. PICK e \in cs[MaxChunks].free : End(e) = Huge /\ e.off <= top
        BY <3>1 DEF Roomy, Spacious
      <3>3. e \in FreeBlock
        <4>1. cs[MaxChunks] \in Chunk
          BY <2>2, <3>1
        <4> QED BY <4>1 DEF Chunk
      <3>4. e.off \in Nat /\ e.size \in Nat /\ e.off + e.size = Huge
        BY <3>2, <3>3, TileNat DEF End
      <3>5. e.size >= n
        BY <2>2, <3>2, <3>4
      <3>6. <<MaxChunks, e>> \in Blocks(cs)
        BY <3>1 DEF Blocks
      <3> QED BY <1>2, <3>5, <3>6 DEF Fitting, LastOnes
    <2>5. b \in FreeBlock /\ b.off = 0 /\ End(b) = cap
      <3>1. 0 + cap = cap
        BY <2>3
      <3> QED BY <2>3, <3>1, TileBlock
    <2> HIDE DEF cap, b
    <2>6. new.free = {b} /\ new.cap = cap
      OBVIOUS
    <2>7. new \in Chunk
      BY <2>3, <2>5 DEF Chunk
    <2> HIDE DEF new
    <2>8. /\ DOMAIN ds = 1 .. Len(cs) + 1 /\ Len(ds) = Len(cs) + 1
          /\ \A c \in DOMAIN cs : ds[c] = cs[c]
          /\ ds[Len(cs) + 1] = new
      BY <2>2, <2>7
    <2> HIDE DEF ds
    <2>9. Spans(T, sz, h, Len(cs) + 1) = {}
      BY <2>2 DEF Good, Typed, Held, Spans
    <2>10. Tiled({b}, {}, cap)
      <3>1. b.off # End(b)
        BY <2>5, TileNat
      <3> QED BY <2>3, <2>5, <3>1 DEF Tiled
    <2>11. Full(T, sz, h, ds)
      <3> SUFFICES ASSUME NEW c \in DOMAIN ds
                   PROVE  Tiled(ds[c].free, Spans(T, sz, h, c), ds[c].cap)
        BY DEF Full
      <3>1. CASE c \in DOMAIN cs
        BY <2>8, <3>1 DEF Full
      <3>2. CASE c = Len(cs) + 1
        BY <2>6, <2>8, <2>9, <2>10, <3>2
      <3> QED BY <2>2, <2>8, <3>1, <3>2
    <2>12. ASSUME MaxChunks \in DOMAIN ds PROVE Spacious(ds[MaxChunks], top)
      <3>1. MaxChunks = Len(cs) + 1 /\ Len(cs) = MaxChunks - 1
        BY <2>2, <2>4, <2>8, <2>12
      <3>2. cap = Huge
        BY <3>1 DEF cap
      <3>3. 0 <= top
        OBVIOUS
      <3> QED BY <2>5, <2>6, <2>8, <3>1, <3>2, <3>3 DEF Spacious
    <2>13. Roomy(ds, top)
      BY <2>2, <2>4, <2>8, <2>12 DEF Roomy
    <2> QED BY <2>1, <2>11, <2>13
  <1> QED BY <1>1, <1>2

\* ggml_dyn_tallocr_alloc(): a tensor gets the front of a free block.
LEMMA AllocFull ==
    ASSUME AllocOK, NEW T, NEW sz \in [T -> Positive], NEW h, NEW cs, Good(T, sz, h, cs),
           NEW top \in Nat, Laid(T, sz, h, cs, top), NEW t \in T, top + sz[t] < Huge,
           NEW taken \in Alloc(cs, sz[t]), NEW k, Gets(T, h, k, t, taken.addr)
    PROVE  Laid(T, sz, k, taken.chunks, top + sz[t])
  <1> USE DEF Laid, Gets, Stay
  <1> DEFINE ds == WithRoom(cs, sz[t])
             es == taken.chunks
             n == sz[t]
  <1>0. OneMore(T, sz, h, k, t)
    BY SpansMore
  <1>1. Good(T, sz, h, ds)
    BY NewChunkGood DEF WithRoom
  <1>2. n \in Positive /\ n \in Nat /\ n > 0
    BY DEF Positive
  <1>3. Full(T, sz, h, ds) /\ Roomy(ds, top)
    BY <1>2, WithRoomFull
  <1>4. PICK x \in Places(ds, n) : taken = CutAt(ds, x, n)
    BY DEF Alloc
  <1> HIDE DEF ds, n
  <1>5. x \in Blocks(ds) /\ x[2].size >= n
    BY DEF Places, BestFits, BestLasts, Fitting, LastOnes
  <1>6. ds \in Seq(Chunk)
    BY <1>1 DEF Good, Typed
  <1> DEFINE c == x[1]
             b == x[2]
             front == Block(b.off, n)
  <1>7. /\ CutOff(ds, es, c, b, n) /\ taken.addr.chunk = c /\ taken.addr.off = b.off
        /\ c \in DOMAIN ds /\ b \in ds[c].free
    BY <1>4, <1>5, <1>6, CutIs
  <1> HIDE DEF c, b, es
  <1>8. Roomy(es, top + n)
    BY <1>2, <1>3, <1>6, <1>7, RoomyTaken DEF n
  <1>9. \A e : Spans(T, sz, k, e) = IF e = c THEN Spans(T, sz, h, e) \cup {front}
                                    ELSE Spans(T, sz, h, e)
    <2>1. Span(k, sz, t) = front /\ k[t].addr.chunk = c
      BY <1>7 DEF Span, n
    <2> HIDE DEF front
    <2> QED BY <1>0, <2>1 DEF OneMore
  <1>10. Tiled(es[c].free, Spans(T, sz, h, c) \cup {front}, es[c].cap)
    <2>1. Tiled(ds[c].free, Spans(T, sz, h, c), ds[c].cap)
      BY <1>3, <1>7 DEF Full
    <2>2. n <= b.size
      <3>1. b \in FreeBlock
        BY <1>7, <2>1 DEF Tiled
      <3> QED BY <1>2, <1>5, <3>1, TileNat DEF b
    <2>3. Tiled((ds[c].free \ {b}) \cup ({Block(b.off + n, b.size - n)} \ {Block(b.off + n, 0)}),
                Spans(T, sz, h, c) \cup {front}, ds[c].cap)
      BY <1>2, <1>7, <2>1, <2>2, TiledCut
    <2> QED BY <1>7, <2>3 DEF CutOff
  <1>11. Full(T, sz, k, es)
    <2> SUFFICES ASSUME NEW e \in DOMAIN es
                 PROVE  Tiled(es[e].free, Spans(T, sz, k, e), es[e].cap)
      BY DEF Full
    <2>1. CASE e = c
      BY <1>9, <1>10, <2>1
    <2>2. CASE e # c
      BY <1>3, <1>7, <1>9, <2>2 DEF Full, CutOff
    <2> QED BY <2>1, <2>2
  <1> QED BY <1>8, <1>11 DEF es, n

\* What the chunks of a planner are like.
Tiling(g, p, top) == Laid(Tensors(g), Sz(g), p.hash, p.chunks, top)

\* The room may be stated less exactly.
LEMMA RoomyMore ==
    ASSUME NEW cs \in Seq(Chunk), NEW top \in Nat, NEW n \in Nat, Roomy(cs, top)
    PROVE  Roomy(cs, top + n)
  <1> SUFFICES ASSUME MaxChunks \in DOMAIN cs PROVE Spacious(cs[MaxChunks], top + n)
    BY DEF Roomy
  <1>1. Spacious(cs[MaxChunks], top)
    BY DEF Roomy
  <1>2. PICK b \in cs[MaxChunks].free : End(b) = Huge /\ b.off <= top
    BY <1>1 DEF Spacious
  <1>3. b.off \in Nat
    <2>1. cs[MaxChunks] \in Chunk
      OBVIOUS
    <2>2. b \in FreeBlock
      BY <2>1 DEF Chunk
    <2> QED BY <2>2, TileNat
  <1>4. b.off <= top + n
    BY <1>2, <1>3
  <1> QED BY <1>1, <1>2, <1>4 DEF Spacious

\* ggml_gallocr_allocate_node()
LEMMA AllocateTiling ==
    ASSUME AllocOK, LeafsOK, NEW g, GraphOK(g), NEW p, PlannerOK(g, p), NEW top \in Nat,
           Tiling(g, p, top), NEW t \in Tensors(g), NEW n \in Nat, AllocSize(g, t) <= n,
           top + n < Huge, NEW q \in AllocateNode(g, p, t)
    PROVE  Tiling(g, q, top + n)
  <1> DEFINE T == Tensors(g)
             z == Sz(g)
  <1>1. /\ Good(T, z, p.hash, p.chunks) /\ p.chunks \in Seq(Chunk)
        /\ Laid(T, z, p.hash, p.chunks, top) /\ Roomy(p.chunks, top)
        /\ Full(T, z, p.hash, p.chunks)
    BY DEF PlannerOK, Good, Typed, Tiling, Laid
  <1>2. /\ z \in [T -> Positive] /\ \A u \in T : z[u] = AllocSize(g, u)
        /\ \A u, s \in T : ~IsLeaf(u) /\ Node(g, u).kind = "add" /\ Layout(g, s) = Layout(g, u)
                                => z[u] <= z[s]
    BY SizeFacts
  <1>3. z[t] \in Nat /\ z[t] <= n
    BY <1>2 DEF Positive
  <1>4. Allocated(g, p, q, t)
    BY AllocateEffect
  <1>5. CASE Settled(g, p, t)
    <2>1. q = p
      BY <1>4, <1>5 DEF Allocated
    <2> QED BY <1>1, <2>1, RoomyMore DEF Tiling, Laid
  <1>6. CASE ~Settled(g, p, t)
    <2>1. /\ q.hash[t].allocated = TRUE /\ ~p.hash[t].allocated
          /\ \A u \in T : u # t => q.hash[u].addr = p.hash[u].addr
          /\ (\E s \in T : s # t /\ TakenFrom(g, p, q, t, s)) \/ TakenFresh(g, p, q, t)
      BY <1>4, <1>6 DEF Allocated, Settled
    <2>2. ASSUME NEW s \in T, s # t, TakenFrom(g, p, q, t, s) PROVE Tiling(g, q, top + n)
      <3>1. /\ ~IsLeaf(t) /\ Node(g, t).kind = "add" /\ Reusable(g, p, t, s)
            /\ q.hash[t].addr = p.hash[s].addr /\ ~q.hash[s].allocated
            /\ \A u \in T : u # t /\ u # s => q.hash[u].allocated = p.hash[u].allocated
            /\ q.chunks = FreeExtra(g, p.chunks, p.hash[s].addr, s, t)
        BY <2>2 DEF TakenFrom
      <3>2. p.hash[s].allocated /\ Layout(g, s) = Layout(g, t)
        BY <3>1 DEF Reusable
      <3>3. z[t] <= z[s] /\ z[s] \in Nat /\ z[t] = AllocSize(g, t) /\ z[s] = AllocSize(g, s)
        BY <1>2, <3>1, <3>2 DEF Positive
      <3> HIDE DEF z, T
      <3>4. \/ z[s] = z[t] /\ q.chunks = p.chunks
            \/ /\ z[s] > z[t]
               /\ q.chunks = FreeBytes(p.chunks, [p.hash[s].addr EXCEPT !.off = @ + z[t]],
                                       z[s] - z[t])
        <4>1. CASE z[s] > z[t]
          BY <3>1, <3>3, <4>1 DEF FreeExtra
        <4>2. CASE ~(z[s] > z[t])
          <5>1. z[s] = z[t]
            BY <1>3, <3>3, <4>2
          <5>2. q.chunks = p.chunks
            BY <3>1, <3>3, <4>2 DEF FreeExtra
          <5> QED BY <5>1, <5>2
        <4> QED BY <4>1, <4>2
      <3>5. t \in T
        BY DEF T
      <3>6. Laid(T, z, q.hash, q.chunks, top)
        <4>1. Takes(T, p.hash, q.hash, t, s)
          BY <2>1, <2>2, <3>1, <3>2 DEF Takes
        <4>2. z \in [T -> Positive]
          BY <1>2
        <4> QED BY <1>1, <4>1, <4>2, <3>4, <3>5, HandOverFull
      <3>7. q.chunks \in Seq(Chunk)
        BY AllocateNodeGood DEF PlannerOK, Good, Typed
      <3>8. Roomy(q.chunks, top + n)
        BY <3>6, <3>7, RoomyMore DEF Laid
      <3> QED BY <3>6, <3>8 DEF Tiling, Laid, T, z
    <2>3. ASSUME TakenFresh(g, p, q, t) PROVE Tiling(g, q, top + n)
      <3>1. PICK taken \in Alloc(p.chunks, AllocSize(g, t)) :
                q.chunks = taken.chunks /\ q.hash[t].addr = taken.addr
        BY <2>3 DEF TakenFresh
      <3>2. \A u \in T : u # t => q.hash[u].allocated = p.hash[u].allocated
        BY <2>3 DEF TakenFresh
      <3>3. taken \in Alloc(p.chunks, z[t])
        BY <1>2, <3>1
      <3>4. t \in T
        OBVIOUS
      <3> HIDE DEF z, T
      <3>5. top + z[t] < Huge
        <4>1. Huge \in Nat
          BY DEF Huge
        <4> QED BY <1>3, <4>1
      <3>6. Laid(T, z, q.hash, taken.chunks, top + z[t])
        <4>1. Gets(T, p.hash, q.hash, t, taken.addr)
          BY <2>1, <3>1, <3>2 DEF Gets, Stay
        <4>2. z \in [T -> Positive]
          BY <1>2
        <4> QED BY <1>1, <4>1, <4>2, <3>3, <3>4, <3>5, AllocFull
      <3>7. q.chunks \in Seq(Chunk)
        BY AllocateNodeGood DEF PlannerOK, Good, Typed
      <3>8. Roomy(q.chunks, top + n)
        <4>1. top + z[t] \in Nat /\ n - z[t] \in Nat /\ (top + z[t]) + (n - z[t]) = top + n
          BY <1>3
        <4>2. Roomy(q.chunks, (top + z[t]) + (n - z[t]))
          BY <3>1, <3>6, <3>7, <4>1, RoomyMore DEF Laid
        <4> QED BY <4>1, <4>2
      <3> QED BY <3>1, <3>6, <3>8 DEF Tiling, Laid, T, z
    <2> QED BY <2>1, <2>2, <2>3
  <1> QED BY <1>5, <1>6

\* ggml_gallocr_free_node(), when the tensor is not needed.
LEMMA FreeTiling ==
    ASSUME AllocOK, LeafsOK, NEW g, GraphOK(g), NEW p, PlannerOK(g, p), NEW top \in Nat,
           Tiling(g, p, top), NEW t \in Tensors(g)
    PROVE  Tiling(g, FreeUnneeded(g, p, t), top)
  <1> DEFINE T == Tensors(g)
             z == Sz(g)
             q == FreeUnneeded(g, p, t)
  <1>1. FreedFrom(g, p, q, t)
    BY FreeEffect
  <1> HIDE DEF q
  <1>2. /\ \A u \in T : q.hash[u].addr = p.hash[u].addr
        /\ \A u \in T : u # t => q.hash[u].allocated = p.hash[u].allocated
        /\ q.hash[t].allocated = (p.hash[t].allocated /\ ~Freed(g, p, t))
    BY <1>1 DEF FreedFrom
  <1>3. /\ Good(T, z, p.hash, p.chunks)
        /\ Laid(T, z, p.hash, p.chunks, top)
    BY DEF PlannerOK, Tiling
  <1>4. z \in [T -> Positive] /\ z[t] = AllocSize(g, t)
    BY SizeFacts
  <1>5. CASE Freed(g, p, t)
    <2>1. p.hash[t].allocated /\ ~q.hash[t].allocated
      BY <1>2, <1>5 DEF Freed
    <2>2. q.chunks = FreeBytes(p.chunks, p.hash[t].addr, z[t])
      BY <1>1, <1>4, <1>5 DEF FreedFrom
    <2>3. t \in T
      OBVIOUS
    <2> HIDE DEF z, T
    <2>4. Laid(T, z, q.hash, FreeBytes(p.chunks, p.hash[t].addr, z[t]), top)
      <3>1. Gives(T, p.hash, q.hash, t)
        BY <1>2, <2>1 DEF Gives, Stay
      <3>2. z \in [T -> Positive]
        BY <1>4
      <3> QED BY <1>3, <2>3, <3>1, <3>2, ReleaseFull
    <2> QED BY <2>2, <2>4 DEF Tiling, T, z, q
  <1>6. CASE ~Freed(g, p, t)
    <2>1. q.chunks = p.chunks
      BY <1>1, <1>6 DEF FreedFrom
    <2>2. p.hash[t].allocated \in BOOLEAN
      BY PlannerFacts DEF IsEntry
    <2>3. \A u \in T : q.hash[u].allocated = p.hash[u].allocated /\ q.hash[u].addr = p.hash[u].addr
      BY <1>2, <1>6, <2>2
    <2> HIDE DEF z, T
    <2>4. Full(T, z, q.hash, p.chunks)
      BY <1>3, <2>3, FullSame DEF Laid
    <2> QED BY <1>3, <2>1, <2>4 DEF Tiling, Laid, T, z, q
  <1> QED BY <1>5, <1>6

\* The counters say nothing about the memory.
LEMMA DropTiling ==
    ASSUME AllocOK, LeafsOK, NEW g, GraphOK(g), NEW p, PlannerOK(g, p), NEW top \in Nat,
           Tiling(g, p, top), NEW t \in Tensors(g)
    PROVE  Tiling(g, DropChild(p, t), top) /\ Tiling(g, DropView(p, t), top)
  <1>1. ChildDropped(g, p, DropChild(p, t), t) /\ ViewDropped(g, p, DropView(p, t), t)
    BY DropChildEffect, DropViewEffect
  <1>2. ASSUME NEW q, q.chunks = p.chunks, SameMemory(g, p.hash, q.hash)
        PROVE  Tiling(g, q, top)
    BY <1>2, FullSame DEF Tiling, Laid, SameMemory
  <1> QED BY <1>1, <1>2 DEF ChildDropped, ViewDropped

\* A parent is updated.
LEMMA UpdateTiling ==
    ASSUME AllocOK, LeafsOK, NEW g, GraphOK(g), NEW p, PlannerOK(g, p), NEW top \in Nat,
           Tiling(g, p, top), NEW s \in Tensors(g)
    PROVE  Tiling(g, UpdateParent(g, p, s), top)
  <1> DEFINE p1 == DropChild(p, s)
             r == Root(g, s)
             p2 == DropView(p1, r)
  <1>1. PlannerOK(g, p1) /\ Tiling(g, p1, top)
    BY DropGood, DropTiling
  <1>2. r \in Tensors(g)
    BY GraphFacts
  <1> HIDE DEF p1, r
  <1>3. PlannerOK(g, p2) /\ Tiling(g, p2, top)
    BY <1>1, <1>2, DropGood, DropTiling
  <1> HIDE DEF p2
  <1>4. Tiling(g, FreeUnneeded(g, p2, r), top) /\ Tiling(g, FreeUnneeded(g, p1, s), top)
    BY <1>1, <1>2, <1>3, FreeTiling
  <1> QED BY <1>4 DEF UpdateParent, AfterChild, p1, p2, r

\* Before the first tensor.
LEMMA CountedTiling ==
    ASSUME AllocOK, NEW g, NEW top
    PROVE  Tiling(g, [hash |-> Counted(g), chunks |-> <<>>], top)
  BY DEF AllocOK, Tiling, Laid, Full, Roomy

-----------------------------------------------------------------------------
(* The loops of alloc_graph_impl() keep the chunks tiled.  A tensor gets   *)
(* memory once, Unit at most, which bounds what is taken of the last chunk.*)

Unit == (Huge - 1) \div (Len(leafs) + MaxNodes)

KeptInv == Inv /\ (phase = "plan" => PlanKept)
LeakInv ==
    /\ KeptInv
    /\ leafs \in LeafSets
    /\ left \in Nat /\ Len(graph) + left <= MaxNodes
    /\ phase = "plan" => Tiling(graph, Planner, Cardinality(Done) * Unit)

\* Division, and the multiples of what it yields.
LEMMA Quotient ==
    ASSUME NEW h \in Nat, NEW m \in Nat, m > 0, h > 0
    PROVE  LET q == (h - 1) \div m IN q \in Nat /\ m * q < h /\ \A s \in Nat : m * s < h => s <= q
  <1> DEFINE q == (h - 1) \div m
  <1>1. q \in Int /\ q >= 0
    OBVIOUS
  <1>2. m * q <= h - 1 /\ h - 1 < m * (q + 1)
    OBVIOUS
  <1> HIDE DEF q
  <1>3. ASSUME NEW s \in Nat, m * s < h PROVE s <= q
    <2> SUFFICES ASSUME s >= q + 1 PROVE FALSE
      BY <1>1
    <2>1. m * s >= m * (q + 1)
      BY <1>1
    <2> QED BY <1>1, <1>2, <1>3, <2>1
  <1> QED BY <1>1, <1>2, <1>3 DEF q

\* One times more.
LEMMA OneTimesMore ==
    ASSUME NEW a \in Nat, NEW b \in Nat, NEW n \in Nat, a + 1 <= b
    PROVE  a * n \in Nat /\ (a + 1) * n = a * n + n /\ a * n + n <= b * n
  OBVIOUS

\* The unit is as large as the tensors, and as many as there may be have room.
LEMMA UnitFits ==
    ASSUME AllocOK, HugeOK, LeafsOK, leafs \in LeafSets, NEW g, GraphOK(g)
    PROVE  /\ Unit \in Nat /\ Len(leafs) + MaxNodes \in Nat /\ (Len(leafs) + MaxNodes) * Unit < Huge
           /\ \A t \in Tensors(g) : AllocSize(g, t) <= Unit
  <1> DEFINE m == Len(leafs) + MaxNodes
  <1>1. m \in Nat /\ m > 0
    BY DEF LeafsOK, AllocOK
  <1>2. Huge \in Nat /\ Huge > 0
    BY DEF Huge
  <1> HIDE DEF m
  <1>3. /\ Unit \in Nat /\ m * Unit < Huge
        /\ \A s \in Nat : m * s < Huge => s <= Unit
    BY <1>1, <1>2, Quotient DEF Unit, m
  <1>4. \A x \in Layouts : m * (LayoutSize[x] + Extra) < Huge
    BY DEF HugeOK, m
  <1>5. ASSUME NEW t \in Tensors(g) PROVE AllocSize(g, t) <= Unit
    <2> DEFINE x == Layout(g, t)
    <2>1. x \in Layouts /\ LayoutSize[x] \in Nat /\ Extra \in Nat
      BY GraphFacts DEF Positive
    <2>2. AllocSize(g, t) = LayoutSize[x] \/ AllocSize(g, t) = LayoutSize[x] + Extra
      BY <2>1 DEF AllocSize, Size
    <2> HIDE DEF x
    <2>3. LayoutSize[x] + Extra \in Nat
      BY <2>1
    <2>4. LayoutSize[x] + Extra <= Unit
      BY <1>3, <1>4, <2>1, <2>3
    <2> QED BY <1>3, <2>1, <2>2, <2>4
  <1> QED BY <1>1, <1>3, <1>5 DEF m

\* One more tensor is planned: there is room for it.
LEMMA OneMorePlanned ==
    ASSUME AllocOK, HugeOK, LeakInv, phase = "plan", NEW t \in Tensors(graph), t \notin Done
    PROVE  /\ Cardinality(Done) * Unit \in Nat /\ Unit \in Nat /\ AllocSize(graph, t) <= Unit
           /\ Cardinality(Done) * Unit + Unit < Huge
           /\ Cardinality(Done \cup {t}) * Unit = Cardinality(Done) * Unit + Unit
  <1>1. LeafsOK /\ GraphOK(graph) /\ leafs \in LeafSets
    BY DEF LeakInv, KeptInv, Inv
  <1>2. /\ Unit \in Nat /\ Len(leafs) + MaxNodes \in Nat /\ (Len(leafs) + MaxNodes) * Unit < Huge
        /\ AllocSize(graph, t) <= Unit
    BY <1>1, UnitFits
  <1>3. Len(leafs) \in Nat /\ Len(graph) \in Nat /\ MaxNodes \in Nat /\ left \in Nat
        /\ Len(graph) + left <= MaxNodes
    BY <1>1, GraphFacts DEF LeakInv, AllocOK
  <1>4. IsFiniteSet(Tensors(graph)) /\ Cardinality(Tensors(graph)) = Len(leafs) + Len(graph)
    <2>1. 1 \in Int /\ Len(leafs) + Len(graph) \in Int /\ Len(leafs) + Len(graph) >= 0
      BY <1>3
    <2> DEFINE m == Len(leafs) + Len(graph)
    <2>2. Tensors(graph) = 1 .. m
      BY DEF Tensors
    <2> HIDE DEF m
    <2>3. IsFiniteSet(1 .. m) /\ Cardinality(1 .. m) = IF 1 > m THEN 0 ELSE m - 1 + 1
      BY <2>1, FS_Interval DEF m
    <2>4. m \in Nat
      BY <2>1 DEF m
    <2> QED BY <2>2, <2>3, <2>4 DEF m
  <1>5. Done \cup {t} \subseteq Tensors(graph)
    BY DEF Done
  <1>6. IsFiniteSet(Done) /\ IsFiniteSet(Done \cup {t})
    BY <1>4, <1>5, FS_Subset
  <1>7. Cardinality(Done \cup {t}) <= Cardinality(Tensors(graph))
    BY <1>4, <1>5, FS_Subset
  <1>8. Cardinality(Done) \in Nat /\ Cardinality(Done \cup {t}) = Cardinality(Done) + 1
    BY <1>6, FS_CardinalityType, FS_AddElement
  <1> DEFINE a == Cardinality(Done)
             b == Len(leafs) + MaxNodes
  <1>9. a \in Nat /\ b \in Nat /\ a + 1 <= b /\ Cardinality(Done \cup {t}) = a + 1
    BY <1>2, <1>3, <1>4, <1>7, <1>8
  <1> HIDE DEF a, b
  <1>10. a * Unit \in Nat /\ (a + 1) * Unit = a * Unit + Unit /\ a * Unit + Unit <= b * Unit
    BY <1>2, <1>9, OneTimesMore
  <1>11. b * Unit < Huge /\ b * Unit \in Nat /\ Huge \in Nat
    BY <1>2, <1>9 DEF b, Huge
  <1>12. a * Unit + Unit < Huge
    BY <1>2, <1>10, <1>11
  <1> QED BY <1>2, <1>9, <1>10, <1>12 DEF a

\* What a step of the loops that gives memory does: the tensor whose turn it is gets
\* it, and all the others have it already.
Turned(p) ==
    /\ Becomes(p)
    /\ Turn => /\ Current \in Tensors(graph) /\ Current \notin Done
               /\ p \in AllocateNode(graph, Planner, Current)
               /\ Done' = Done \cup {Current}
    /\ ~Turn => p = Planner /\ Done' = Done

\* The step of the loop over the leafs.
LEMMA LeafTurned == ASSUME AllocOK, Inv, PlanKept, PlanLeaf PROVE \E p : Turned(p)
  <1>1. /\ phase = "plan" /\ next = 0 /\ Advance(Len(leafs)) /\ leafs' = leafs /\ graph' = graph
        /\ phase' = phase
    BY DEF PlanLeaf, Advance
  <1>2. /\ LeafsOK /\ GraphOK(graph) /\ PlannerOK(graph, Planner) /\ Position
        /\ Done \subseteq Tensors(graph) /\ step \in Nat /\ step > 0
        /\ Len(leafs) \in Nat /\ Len(graph) \in Nat
    BY <1>1, LoopFacts
  <1>3. step <= Len(leafs) /\ step \in Tensors(graph)
    BY <1>1, <1>2 DEF Position, Tensors
  <1>4. PICK p \in AllocateNode(graph, Planner, step) : Becomes(p)
    BY DEF PlanLeaf
  <1>5. /\ Done' = IF Turn THEN Done \cup {Current} ELSE Done
        /\ Turn => \A u \in Done : u < Current
    BY <1>1, <1>2, <1>3, AdvanceDone
  <1>6. Current = step /\ (Turn <=> Own(graph, step))
    BY <1>1 DEF Current, Turn
  <1>7. Turn => Current \notin Done
    BY <1>2, <1>5, <1>6
  <1>8. ~Turn => p = Planner
    BY <1>2, <1>3, <1>4, <1>6, AllocateSettled
  <1>9. Turned(p)
    BY <1>3, <1>4, <1>5, <1>6, <1>7, <1>8 DEF Turned
  <1> QED BY <1>9

\* For a node, it has its turn after its sources.
LEMMA NodeTurned == ASSUME AllocOK, Inv, PlanKept, PlanNode PROVE \E p : Turned(p)
  <1>1. /\ phase = "plan" /\ next \in DOMAIN graph /\ step <= Sources + 1
        /\ Advance(2 * Sources + 1) /\ leafs' = leafs /\ graph' = graph /\ phase' = phase
    BY DEF PlanNode, Advance
  <1>2. /\ LeafsOK /\ GraphOK(graph) /\ PlannerOK(graph, Planner) /\ Position
        /\ step \in Nat /\ step > 0 /\ next \in Nat /\ next > 0
        /\ Len(leafs) \in Nat /\ Sources \in Nat /\ step <= 2 * Sources + 1
        /\ 2 * Sources + 1 \in Nat
        /\ NodeTensor(next) \in Tensors(graph) /\ NodeTensor(next) = Len(leafs) + next
    BY <1>1, PlanNodeFacts, LoopFacts
  <1>3. /\ Done' = IF Turn THEN Done \cup {Current} ELSE Done
        /\ Turn => \A u \in Done : u < Current
    BY <1>1, <1>2, AdvanceDone
  <1>4. Current = NodeTensor(next) /\ (Turn <=> Own(graph, NodeTensor(next)) /\ step = Sources + 1)
    BY <1>2 DEF Current, Turn
  <1>5. Turn => Current \notin Done
    <2>1. ~(Current < Current)
      BY <1>2, <1>4
    <2> QED BY <1>3, <2>1
  <1>6. CASE step <= Sources
    <2>1. PICK p \in AllocateNode(graph, Planner, graph[next].src[step]) : Becomes(p)
      BY <1>6 DEF PlanNode
    <2>2. p = Planner
      BY <1>6, <2>1, SourceSettled
    <2>3. ~Turn
      BY <1>2, <1>4, <1>6
    <2>4. Turned(p)
      BY <1>3, <2>1, <2>2, <2>3 DEF Turned
    <2> QED BY <2>4
  <1>7. CASE step = Sources + 1
    <2>1. PICK p \in AllocateNode(graph, Planner, NodeTensor(next)) : Becomes(p)
      BY <1>2, <1>7 DEF PlanNode
    <2>2. ~Turn => p = Planner
      BY <1>2, <1>4, <1>7, <2>1, AllocateSettled
    <2>3. Turned(p)
      BY <1>2, <1>3, <1>4, <1>5, <2>1, <2>2 DEF Turned
    <2> QED BY <2>3
  <1> QED BY <1>1, <1>2, <1>6, <1>7

\* Either way the chunks stay tiled.
LEMMA TurnedTiling ==
    ASSUME AllocOK, HugeOK, LeakInv, phase = "plan", NEW p, Turned(p)
    PROVE  Tiling(graph, p, Cardinality(Done') * Unit)
  <1>1. /\ LeafsOK /\ GraphOK(graph) /\ PlannerOK(graph, Planner)
        /\ Tiling(graph, Planner, Cardinality(Done) * Unit)
    BY DEF LeakInv, KeptInv, Inv
  <1>2. CASE ~Turn
    BY <1>1, <1>2 DEF Turned
  <1>3. CASE Turn
    <2>1. /\ Current \in Tensors(graph) /\ Current \notin Done
          /\ p \in AllocateNode(graph, Planner, Current)
          /\ Done' = Done \cup {Current}
      BY <1>3 DEF Turned
    <2> DEFINE a == Cardinality(Done) * Unit
    <2>2. /\ a \in Nat /\ Unit \in Nat /\ AllocSize(graph, Current) <= Unit /\ a + Unit < Huge
          /\ Cardinality(Done \cup {Current}) * Unit = a + Unit
      BY <2>1, OneMorePlanned
    <2> HIDE DEF a
    <2>3. Tiling(graph, p, a + Unit)
      BY <1>1, <2>1, <2>2, AllocateTiling DEF a
    <2> QED BY <2>1, <2>2, <2>3
  <1> QED BY <1>2, <1>3

\* A source is updated.
LEMMA ParentTiling ==
    ASSUME AllocOK, HugeOK, LeakInv, PlanParent
    PROVE  /\ Done' = Done
           /\ \E p : Becomes(p) /\ Tiling(graph, p, Cardinality(Done) * Unit)
  <1> DEFINE j == step - Sources - 1
             s == graph[next].src[j]
             p == UpdateParent(graph, Planner, s)
  <1>1. /\ phase = "plan" /\ next \in DOMAIN graph /\ step > Sources + 1
        /\ Advance(2 * Sources + 1) /\ leafs' = leafs /\ graph' = graph /\ phase' = phase
        /\ Becomes(p)
    BY DEF PlanParent, Advance
  <1>2. /\ LeafsOK /\ GraphOK(graph) /\ PlannerOK(graph, Planner) /\ Position
        /\ step \in Nat /\ step > 0 /\ next \in Nat /\ next > 0
        /\ Sources \in Nat /\ 2 * Sources + 1 \in Nat
    BY <1>1, LoopFacts DEF LeakInv, KeptInv
  <1>3. step <= 2 * Sources + 1
    BY <1>1, <1>2 DEF Position
  <1>4. s \in Tensors(graph)
    <2>1. j \in 1 .. Sources
      BY <1>1, <1>2, <1>3
    <2> HIDE DEF j
    <2> QED BY <1>1, <1>2, <2>1, NextSource
  <1>5. Done' = Done
    <2>1. ~Turn
      BY <1>1, <1>2 DEF Turn
    <2> QED BY <1>1, <1>2, <1>3, <2>1, AdvanceDone
  <1> DEFINE a == Cardinality(Done) * Unit
  <1>6. Tiling(graph, Planner, a)
    BY <1>1 DEF LeakInv
  <1>7. a \in Nat
    <2>1. IsFiniteSet(Tensors(graph))
      <3>1. Len(leafs) + Len(graph) \in Int /\ 1 \in Int
        BY <1>2, GraphFacts
      <3> QED BY <3>1, FS_Interval DEF Tensors
    <2>2. Done \subseteq Tensors(graph)
      BY DEF Done
    <2>3. Cardinality(Done) \in Nat
      BY <2>1, <2>2, FS_Subset, FS_CardinalityType
    <2>4. Unit \in Nat
      BY <1>2, UnitFits DEF LeakInv
    <2> QED BY <2>3, <2>4
  <1> HIDE DEF a, s
  <1>8. Tiling(graph, p, a)
    BY <1>2, <1>4, <1>6, <1>7, UpdateTiling
  <1> HIDE DEF p
  <1> QED BY <1>1, <1>5, <1>8 DEF a

\* What is needed has its memory, whatever plans are kept.
LEMMA NextKept == ASSUME AllocOK, KeptInv, [Next]_vars PROVE KeptInv'
  <1>1. Inv /\ Inv'
    BY NextInv DEF KeptInv
  <1>2. CASE AllocGraph
    <2>1. PICK outs : LET g == Marked(graph, outs)
                      IN  \/ StartPlan(g)
                          \/ \E pl \in plan : Bind(g, pl, buffers)
      BY <1>2 DEF AllocGraph
    <2> DEFINE g == Marked(graph, outs)
    <2>2. LeafsOK /\ GraphOK(g)
      BY <1>1, MarkedOK DEF Inv
    <2> HIDE DEF g
    <2>3. CASE StartPlan(g)
      BY <1>1, <2>2, <2>3, StartKept DEF KeptInv
    <2>4. CASE \E pl \in plan : Bind(g, pl, buffers)
      BY <1>1, <2>4 DEF KeptInv, Bind
    <2> QED BY <2>1, <2>3, <2>4 DEF g
  <1>3. CASE PlanLeaf \/ PlanNode \/ PlanParent
    <2>1. PlanKept
      BY <1>3 DEF KeptInv, PlanLeaf, PlanNode, PlanParent
    <2> QED BY <1>1, <1>3, <2>1, PlanLeafKept, PlanNodeKept, PlanParentKept DEF KeptInv
  <1>4. CASE Commit
    BY <1>1, <1>4 DEF KeptInv, Commit, Bind, NewGraph
  <1>5. CASE AddNode \/ ComputeNode \/ NextGraph
    BY <1>1, <1>5 DEF KeptInv, AddNode, ComputeNode, NextGraph, NewGraph
  <1>6. CASE UNCHANGED vars
    <2>1. phase' = phase
      BY <1>6 DEF vars
    <2> QED BY <1>1, <1>6, <2>1, StutterKept DEF KeptInv
  <1> QED BY <1>2, <1>3, <1>4, <1>5, <1>6 DEF Next

\* The planner of the next state is tiled.
LEMMA TilingSame ==
    ASSUME leafs' = leafs, Tiling(graph', Planner', Cardinality(Done') * Unit)
    PROVE  Tiling(graph, Planner, Cardinality(Done) * Unit)'
  <1>1. Tensors(graph)' = Tensors(graph') /\ Sz(graph)' = Sz(graph') /\ Unit' = Unit
    BY GraphSame DEF Unit
  <1>2. Laid(Tensors(graph'), Sz(graph'), Planner'.hash, Planner'.chunks, Cardinality(Done') * Unit)
    BY DEF Tiling
  <1> QED BY <1>1, <1>2 DEF Tiling

\* The nodes there are and those that may still be built.
LEMMA NodesLeft ==
    ASSUME AllocOK, LeakInv, Next
    PROVE  /\ leafs' \in LeafSets /\ (phase' = "plan" => leafs' = leafs)
           /\ left' \in Nat /\ Len(graph') + left' <= MaxNodes
  <1>1. /\ left \in Nat /\ Len(graph) + left <= MaxNodes /\ MaxNodes \in Nat /\ LeafsOK /\ GraphOK(graph)
        /\ graph \in Seq(NodeRecord) /\ Len(graph) \in Nat /\ leafs \in LeafSets
    BY DEF LeakInv, KeptInv, Inv, AllocOK, GraphOK
  <1>2. CASE AddNode
    <2>1. PICK op \in Operations(graph) : graph' = Append(graph, op)
      BY <1>2 DEF AddNode
    <2>2. op \in NodeRecord
      BY <1>1, OperationsOK
    <2>3. Len(graph') = Len(graph) + 1
      <3> HIDE DEF NodeRecord
      <3> QED BY <1>1, <2>1, <2>2
    <2>4. left > 0 /\ left' = left - 1 /\ leafs' = leafs
      BY <1>2 DEF AddNode
    <2> QED BY <1>1, <2>3, <2>4
  <1>3. CASE AllocGraph
    <2>1. leafs' = leafs /\ left' = left /\ \E outs : graph' = Marked(graph, outs)
      BY <1>3 DEF AllocGraph, StartPlan, Bind
    <2>2. \A outs : Len(Marked(graph, outs)) = Len(graph)
      BY <1>1 DEF Marked
    <2> QED BY <1>1, <2>1, <2>2
  <1>4. CASE PlanLeaf \/ PlanNode \/ PlanParent
    BY <1>1, <1>4 DEF PlanLeaf, PlanNode, PlanParent, Advance
  <1>5. CASE Commit
    <2>1. /\ leafs' = leafs \/ leafs' \in LeafSets
          /\ left' = left /\ phase' # "plan" /\ (graph' = graph \/ graph' = <<>>)
      BY <1>5 DEF Commit, Bind, NewGraph
    <2>2. Len(<<>>) = 0
      OBVIOUS
    <2> QED BY <1>1, <2>1, <2>2
  <1>6. CASE ComputeNode
    BY <1>1, <1>6 DEF ComputeNode
  <1>7. CASE NextGraph
    <2>1. leafs' \in LeafSets /\ left' = left /\ graph' = <<>> /\ phase' # "plan"
      BY <1>7 DEF NextGraph, NewGraph
    <2>2. Len(<<>>) = 0
      OBVIOUS
    <2> QED BY <1>1, <2>1, <2>2
  <1> QED BY <1>2, <1>3, <1>4, <1>5, <1>6, <1>7 DEF Next

\* The invariant is kept by every step.
LEMMA NextLeak == ASSUME AllocOK, HugeOK, LeakInv, [Next]_vars PROVE LeakInv'
  <1>1. KeptInv'
    BY NextKept DEF LeakInv
  <1>2. /\ leafs' \in LeafSets /\ (phase' = "plan" => leafs' = leafs)
        /\ left' \in Nat /\ Len(graph') + left' <= MaxNodes
    <2>1. CASE Next
      BY <2>1, NodesLeft
    <2>2. CASE UNCHANGED vars
      BY <2>2 DEF vars, LeakInv
    <2> QED BY <2>1, <2>2
  <1>3. (leafs \in LeafSets)' /\ (left \in Nat /\ Len(graph) + left <= MaxNodes)'
    BY <1>2 DEF LeakInv
  <1>4. ASSUME phase' = "plan" PROVE Tiling(graph, Planner, Cardinality(Done) * Unit)'
    <2>1. SUFFICES Tiling(graph', Planner', Cardinality(Done') * Unit)
      BY <1>2, <1>4, TilingSame
    <2>2. CASE AllocGraph
      <3>1. PICK outs : LET g == Marked(graph, outs)
                        IN  \/ StartPlan(g)
                            \/ \E pl \in plan : Bind(g, pl, buffers)
        BY <2>2 DEF AllocGraph
      <3> DEFINE g == Marked(graph, outs)
      <3> HIDE DEF g
      <3>2. StartPlan(g)
        BY <1>4, <3>1 DEF Bind, g
      <3>3. graph' = g /\ Planner' = [hash |-> Counted(g), chunks |-> <<>>]
        BY <3>2 DEF StartPlan, Planner
      <3> QED BY <3>3, CountedTiling
    <2>3. CASE PlanLeaf \/ PlanNode
      <3>1. phase = "plan" /\ PlanKept /\ Inv /\ graph' = graph
        BY <2>3 DEF PlanLeaf, PlanNode, Advance, LeakInv, KeptInv
      <3>2. PICK p : Turned(p)
        BY <2>3, <3>1, LeafTurned, NodeTurned
      <3>3. Tiling(graph, p, Cardinality(Done') * Unit)
        BY <3>1, <3>2, TurnedTiling
      <3>4. Planner'.hash = p.hash /\ Planner'.chunks = p.chunks
        BY <3>2 DEF Turned, Becomes, Planner
      <3> QED BY <3>1, <3>3, <3>4 DEF Tiling
    <2>4. CASE PlanParent
      <3>1. graph' = graph
        BY <2>4 DEF PlanParent, Advance
      <3>2. Done' = Done
        BY <2>4, ParentTiling
      <3>3. PICK p : Becomes(p) /\ Tiling(graph, p, Cardinality(Done) * Unit)
        BY <2>4, ParentTiling
      <3>4. Planner'.hash = p.hash /\ Planner'.chunks = p.chunks
        BY <3>3 DEF Becomes, Planner
      <3> QED BY <3>1, <3>2, <3>3, <3>4 DEF Tiling
    <2>5. CASE UNCHANGED vars
      <3>1. graph' = graph /\ hash' = hash /\ chunks' = chunks /\ leafs' = leafs /\ next' = next
            /\ step' = step /\ phase' = phase
        BY <2>5 DEF vars
      <3>2. Done' = Done
        BY <3>1 DEF Done, Tensors, Own, External, IsView, IsLeaf, Node, Passed, NodeTensor, Sources
      <3>3. Planner' = Planner
        BY <3>1 DEF Planner
      <3> QED BY <1>4, <3>1, <3>2, <3>3 DEF LeakInv
    <2>6. CASE AddNode \/ Commit \/ ComputeNode \/ NextGraph
      BY <1>4, <2>6 DEF AddNode, Commit, Bind, ComputeNode, NextGraph, NewGraph
    <2> QED BY <2>2, <2>3, <2>4, <2>5, <2>6 DEF Next
  <1> QED BY <1>1, <1>3, <1>4 DEF LeakInv

\* What is tiled leaks nothing.
LEMMA LeakNothing == ASSUME AllocOK, LeakInv PROVE NothingLeaks
  <1> SUFFICES ASSUME phase = "plan"
               PROVE  /\ Len(chunks) <= MaxChunks
                      /\ \A c \in DOMAIN chunks :
                          /\ \E a \in Pieces(c) : a.off = 0
                          /\ \A a \in Pieces(c) : \/ a.off + a.size = chunks[c].cap
                                                  \/ \E b \in Pieces(c) : b.off = a.off + a.size
                          /\ \A a, b \in chunks[c].free : a.off # b.off + b.size
    BY DEF NothingLeaks
  <1>1. LeafsOK /\ GraphOK(graph) /\ PlannerOK(graph, Planner)
        /\ Tiling(graph, Planner, Cardinality(Done) * Unit)
    BY DEF LeakInv, KeptInv, Inv
  <1>2. Full(Tensors(graph), Sz(graph), hash, chunks) /\ Len(chunks) <= MaxChunks
    BY <1>1 DEF Tiling, Laid, Roomy, Planner
  <1>3. DOMAIN hash = Tensors(graph)
    <2>1. hash = [t \in Tensors(graph) |-> hash[t]]
      BY <1>1 DEF PlannerOK, Good, Typed, Planner
    <2> QED BY <2>1
  <1>4. ASSUME NEW c \in DOMAIN chunks
        PROVE  Pieces(c) = chunks[c].free \cup Spans(Tensors(graph), Sz(graph), hash, c)
    <2>1. Live(c) = Held(Tensors(graph), hash, c)
      BY <1>3 DEF Live, Held
    <2>2. \A t \in Tensors(graph) : Sz(graph)[t] = AllocSize(graph, t)
      BY <1>1, SizeFacts
    <2>3. \A t \in Held(Tensors(graph), hash, c) : Taken(t) = Span(hash, Sz(graph), t)
      BY <2>2 DEF Held, Taken, Span
    <2> QED BY <2>1, <2>3 DEF Pieces, Spans
  <1>5. ASSUME NEW c \in DOMAIN chunks
        PROVE  /\ \E a \in Pieces(c) : a.off = 0
               /\ \A a \in Pieces(c) : \/ a.off + a.size = chunks[c].cap
                                       \/ \E b \in Pieces(c) : b.off = a.off + a.size
               /\ \A a, b \in chunks[c].free : a.off # b.off + b.size
    <2> DEFINE S == Spans(Tensors(graph), Sz(graph), hash, c)
    <2>1. Tiled(chunks[c].free, S, chunks[c].cap)
      BY <1>2 DEF Full
    <2>2. Pieces(c) = chunks[c].free \cup S
      BY <1>4
    <2> HIDE DEF S
    <2> QED BY <2>1, <2>2 DEF Tiled, End
  <1> QED BY <1>2, <1>5

\* While a graph is planned no byte is lost, and there is always room in the chunks.
THEOREM NothingEverLeaks == Spec => []NothingLeaks
  <1>1. Init => LeakInv
    <2> SUFFICES ASSUME Init PROVE LeakInv
      OBVIOUS
    <2>1. Inv /\ phase = "build"
      BY AllocOK, InitInv DEF Init
    <2>2. leafs \in LeafSets /\ left = MaxNodes /\ graph = <<>> /\ MaxNodes \in Nat
      BY AllocOK DEF Init, AllocOK
    <2>3. Len(graph) + left <= MaxNodes
      BY <2>2
    <2> QED BY <2>1, <2>2, <2>3 DEF LeakInv, KeptInv
  <1>2. LeakInv /\ [Next]_vars => LeakInv'
    BY AllocOK, HugeOK, NextLeak
  <1>3. LeakInv => NothingLeaks
    BY AllocOK, LeakNothing
  <1> QED BY <1>1, <1>2, <1>3, PTL DEF Spec
=============================================================================
