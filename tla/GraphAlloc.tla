------------------------------ MODULE GraphAlloc ------------------------------
(***************************************************************************)
(* The graph allocator (ggml/src/ggml-alloc.c): it plans for every tensor  *)
(* of a compute graph an address in a buffer, such that tensors which are  *)
(* not needed at the same time share memory, and keeps the plan for the    *)
(* graphs that follow.  The plan is made node by node, with a list of free *)
(* blocks for every chunk of the buffer; an operation that can work in     *)
(* place takes the address of a source nobody else needs.                  *)
(*                                                                         *)
(* One buffer type; sizes are counted in units of its alignment.  What the *)
(* memory holds while the graph is computed is part of the model: a cell   *)
(* holds the number of the tensor that was written last.                   *)
(***************************************************************************)
EXTENDS Integers, Sequences, FiniteSets, FiniteSetsExt, SequencesExt

CONSTANTS
    LeafSets,     \* the leafs a caller may use: sequences of [layout, ext], where ext
                  \* says that the tensor has data of its own
    LayoutSize,   \* layout -> size of a tensor of that layout
    Extra,        \* fleeting data that a "scratch" operation needs behind its result
    MaxChunkSize, \* size of a chunk, unless one tensor needs more
    MaxChunks,    \* GGML_VBUFFER_MAX_CHUNKS
    MaxNodes,     \* bound: nodes of all graphs together
    Common        \* what a graph that a plan is kept for has in common with the planned
                  \* one, besides what needs_realloc() compares: see Alike

Layouts == DOMAIN LayoutSize

ASSUME AllocOK ==
    /\ \A x \in Layouts : LayoutSize[x] \in Nat \ {0}
    /\ \A l \in LeafSets : l \in Seq([layout : Layouts, ext : BOOLEAN]) /\ l # <<>>
    /\ {Extra, MaxChunkSize, MaxChunks, MaxNodes} \subseteq Nat \ {0}
    /\ Common \subseteq {"leafs", "sources", "layouts"}

VARIABLES
    phase,    \* "build", "plan", "compute" or "read"
    leafs,    \* the leafs of the graph
    graph,    \* the nodes of the graph: [kind, src, view, layout, out]
    next,     \* the node that is planned or computed next, 0 for the leafs
    step,     \* how far the planning of that node is
    hash,     \* hash_values: tensor -> [children, views, allocated, addr]
    chunks,   \* the ggml_dyn_tallocr: [free, max_size, cap] of each chunk
    plan,     \* node_allocs and leaf_allocs, or {} before the first plan
    buffers,  \* sizes of the chunks that are allocated
    data,     \* tensor -> the address it is bound to
    memory,   \* chunk and offset -> the tensor written there last
    left      \* nodes that may still be built

vars == <<phase, leafs, graph, next, step, hash, chunks, plan, buffers, data, memory, left>>

----------------------------------------------------------------------------
(* Tensors: the leafs come first, the k-th node is tensor Len(leafs) + k.  *)

NodeTensor(k) == Len(leafs) + k
Tensors(g) == 1 .. Len(leafs) + Len(g)
IsLeaf(t) == t \in DOMAIN leafs
Node(g, t) == g[t - Len(leafs)]

Layout(g, t) == IF IsLeaf(t) THEN leafs[t].layout ELSE Node(g, t).layout
IsView(g, t) == ~IsLeaf(t) /\ Node(g, t).kind = "view"
Root(g, t) == IF IsView(g, t) THEN Node(g, t).view ELSE t       \* view_src
External(t) == IsLeaf(t) /\ leafs[t].ext                        \* data is set
IsOutput(g, t) == ~IsLeaf(t) /\ Node(g, t).out
Own(g, t) == ~External(t) /\ ~IsView(g, t)
Size(g, t) == LayoutSize[Layout(g, t)]

\* ggml_backend_buft_get_alloc_size()
AllocSize(g, t) ==
    Size(g, t) + IF ~IsLeaf(t) /\ Node(g, t).kind = "scratch" THEN Extra ELSE 0

Uses(node, t) == {j \in DOMAIN node.src : node.src[j] = t}
UsesOf(g, t) == UNION {{k} \X Uses(g[k], t) : k \in DOMAIN g}

----------------------------------------------------------------------------
(* ggml_dyn_tallocr.  A free list is the set of its blocks, [off, size];    *)
(* the code keeps it sorted by offset, "the last block" is the highest.    *)

Huge == 1000                                                   \* SIZE_MAX/2

\* "virtually endless memory": more than all tensors of a graph can need.
ASSUME HugeOK ==
    \A l \in LeafSets, x \in Layouts : (Len(l) + MaxNodes) * (LayoutSize[x] + Extra) < Huge

Block(off, size) == [off |-> off, size |-> size]
Blocks(cs) == UNION {{c} \X cs[c].free : c \in DOMAIN cs}
IsLast(free, b) == b \in free /\ \A x \in free : x.off <= b.off

\* new_chunk()
NewChunk(cs, size) ==
    LET cap == IF Len(cs) = MaxChunks - 1 THEN Huge ELSE Max({size, MaxChunkSize})
    IN  Append(cs, [free |-> {Block(0, cap)}, max_size |-> 0, cap |-> cap])

\* The best fit besides the last block of every chunk; a later chunk wins over an
\* earlier one, a later block over an equal one.  A place is a chunk and a block.
Fitting(cs, size) ==
    {x \in Blocks(cs) : x[2].size >= size /\ ~IsLast(cs[x[1]].free, x[2])}
BetterFit(x, y) ==
    \/ x[1] > y[1]
    \/ x[1] = y[1] /\ x[2].size < y[2].size
    \/ x[1] = y[1] /\ x[2].size = y[2].size /\ x[2].off >= y[2].off
BestFits(cs, size) ==
    {x \in Fitting(cs, size) : \A y \in Fitting(cs, size) : BetterFit(x, y)}

\* Else the last block that leaves the least of what is allocated unused or, when
\* all must grow, grows the least; the first chunk among equals.
LastOnes(cs, size) ==
    {x \in Blocks(cs) : x[2].size >= size /\ IsLast(cs[x[1]].free, x[2])}
Reuse(cs, size, x) == cs[x[1]].max_size - x[2].off - size
BetterReuse(a, b) == IF b < 0 THEN a > b ELSE a >= 0 /\ a < b
BestLasts(cs, size) ==
    {x \in LastOnes(cs, size) : \A y \in LastOnes(cs, size) :
        \/ BetterReuse(Reuse(cs, size, x), Reuse(cs, size, y))
        \/ /\ Reuse(cs, size, x) = Reuse(cs, size, y)
           /\ x[1] <= y[1]}

\* Where size bytes can be cut: there is one such place, unless a new chunk is needed.
Places(cs, size) ==
    IF Fitting(cs, size) # {} THEN BestFits(cs, size) ELSE BestLasts(cs, size)

\* The front of block b is taken.
Cut(chunk, b, size) ==
    [chunk EXCEPT
        !.free = (@ \ {b}) \cup ({Block(b.off + size, b.size - size)} \ {Block(b.off + size, 0)}),
        !.max_size = Max({@, b.off + size})]

CutAt(cs, place, size) ==
    [chunks |-> [cs EXCEPT ![place[1]] = Cut(@, place[2], size)],
     addr   |-> [chunk |-> place[1], off |-> place[2].off]]

\* ggml_dyn_tallocr_alloc()
WithRoom(cs, size) ==
    IF Fitting(cs, size) \cup LastOnes(cs, size) = {} THEN NewChunk(cs, size) ELSE cs
Alloc(cs, size) ==
    {CutAt(WithRoom(cs, size), x, size) : x \in Places(WithRoom(cs, size), size)}

Before(free, off) == {b \in free : b.off + b.size = off}
After(free, end) == {b \in free : b.off = end}

\* A bug of the kind free_bytes() could have: only one neighbour is merged.
Merged_Once(free, off, end) ==
    LET before == Before(free, off)
        after  == IF before # {} THEN {} ELSE After(free, end)
        lo     == IF before # {} THEN (CHOOSE b \in before : TRUE).off ELSE off
        hi     == IF after # {} THEN end + (CHOOSE b \in after : TRUE).size ELSE end
    IN  (free \ (before \cup after)) \cup {Block(lo, hi - lo)}

\* The freed bytes and the blocks that touch them become one.
Merged(free, off, end) ==
    LET before == Before(free, off)
        after  == After(free, end)
        lo     == IF before # {} THEN (CHOOSE b \in before : TRUE).off ELSE off
        hi     == IF after # {} THEN end + (CHOOSE b \in after : TRUE).size ELSE end
    IN  (free \ (before \cup after)) \cup {Block(lo, hi - lo)}

\* ggml_dyn_tallocr_free_bytes()
FreeBytes(cs, addr, size) ==
    [cs EXCEPT ![addr.chunk].free = Merged(@, addr.off, addr.off + size)]

----------------------------------------------------------------------------
(* ggml_gallocr: planning.  A planner is a record of hash and chunks.       *)

NoAddr == [chunk |-> 0, off |-> 0]

\* A bug of the kind allocate_node() could have: views of the parent are ignored.
Reusable_Viewed(g, p, t, s) ==
    /\ p.hash[s].allocated
    /\ ~IsOutput(g, s)
    /\ Layout(g, s) = Layout(g, t)
    /\ p.hash[s].children = 1

\* Source s gives its memory to t.  A view is never allocated, so the branch for
\* views of allocate_node() is not taken.
Reusable(g, p, t, s) ==
    /\ p.hash[s].allocated
    /\ ~IsOutput(g, s)
    /\ Layout(g, s) = Layout(g, t)
    /\ p.hash[s].children = 1
    /\ p.hash[s].views = 0

ReusableSources(g, p, t) ==
    IF IsLeaf(t) \/ Node(g, t).kind # "add" THEN {}             \* ggml_op_can_inplace()
    ELSE {j \in DOMAIN Node(g, t).src : Reusable(g, p, t, Node(g, t).src[j])}

\* free_extra_space()
FreeExtra(g, cs, addr, s, t) ==
    IF AllocSize(g, s) > AllocSize(g, t)
    THEN FreeBytes(cs, [addr EXCEPT !.off = @ + AllocSize(g, t)],
                   AllocSize(g, s) - AllocSize(g, t))
    ELSE cs

\* A bug of the kind allocate_node() could have: the parent keeps its memory too.
InPlace_Kept(g, p, t, s) ==
    [hash   |-> [p.hash EXCEPT ![t].allocated = TRUE, ![t].addr = p.hash[s].addr],
     chunks |-> FreeExtra(g, p.chunks, p.hash[s].addr, s, t)]

\* t works in place; "avoid freeing the parent".
InPlace(g, p, t, s) ==
    [hash   |-> [p.hash EXCEPT ![t].allocated = TRUE, ![t].addr = p.hash[s].addr,
                               ![s].allocated = FALSE],
     chunks |-> FreeExtra(g, p.chunks, p.hash[s].addr, s, t)]

FromBuffer(p, t, taken) ==
    [hash   |-> [p.hash EXCEPT ![t].allocated = TRUE, ![t].addr = taken.addr],
     chunks |-> taken.chunks]

FirstOf(js) == {j \in js : \A i \in js : j <= i}

\* ggml_gallocr_allocate_node(): the set of its only outcome.
AllocateNode(g, p, t) ==
    IF External(t) \/ p.hash[t].allocated \/ IsView(g, t) THEN {p}
    ELSE IF ReusableSources(g, p, t) # {}
    THEN {InPlace(g, p, t, Node(g, t).src[j]) : j \in FirstOf(ReusableSources(g, p, t))}
    ELSE {FromBuffer(p, t, taken) : taken \in Alloc(p.chunks, AllocSize(g, t))}

\* ggml_gallocr_free_node(): "graph outputs are never freed"
FreeNode(g, p, t) ==
    IF IsOutput(g, t) THEN p
    ELSE [hash   |-> [p.hash EXCEPT ![t].allocated = FALSE],
          chunks |-> FreeBytes(p.chunks, p.hash[t].addr, AllocSize(g, t))]

Unneeded(p, t) == p.hash[t].children = 0 /\ p.hash[t].views = 0
FreeUnneeded(g, p, t) ==
    IF Unneeded(p, t) /\ p.hash[t].allocated THEN FreeNode(g, p, t) ELSE p
DropView(p, t) == [p EXCEPT !.hash[t].views = @ - 1]
DropChild(p, s) == [p EXCEPT !.hash[s].children = @ - 1]

\* The part of alloc_graph_impl() that updates a parent, its child counted down.
AfterChild(g, p, s) ==
    IF Unneeded(p, s) /\ IsView(g, s)
    THEN FreeUnneeded(g, DropView(p, Root(g, s)), Root(g, s))
    ELSE FreeUnneeded(g, p, s)
UpdateParent(g, p, s) == AfterChild(g, DropChild(p, s), s)

\* alloc_graph_impl() before the first node: hash tables cleared, children and
\* views counted.
Counted(g) ==
    [t \in Tensors(g) |->
        [children  |-> Cardinality(UsesOf(g, t)),
         views     |-> Cardinality({k \in DOMAIN g : g[k].kind = "view" /\ g[k].view = t}),
         allocated |-> FALSE,
         addr      |-> NoAddr]]

----------------------------------------------------------------------------
(* ggml_gallocr: the plan and when it is kept                              *)

NoAlloc == [addr |-> NoAddr, size_max |-> 0]
TensorAlloc(g, h, t) ==
    IF Own(g, t) THEN [addr |-> h[t].addr, size_max |-> AllocSize(g, t)] ELSE NoAlloc

\* reserve_n_impl(): "set the node_allocs from the hash table"
PlanOf(g, h) ==
    [dst   |-> [k \in DOMAIN g |-> TensorAlloc(g, h, NodeTensor(k))],
     src   |-> [k \in DOMAIN g |->
                   [j \in DOMAIN g[k].src |-> TensorAlloc(g, h, g[k].src[j])]],
     leaf  |-> [t \in DOMAIN leafs |-> TensorAlloc(g, h, t)],
     graph |-> g]                                    \* what it was made for (ghost)

\* A bug of the kind reserve_n_impl() could have: only the first chunk counts.
NewBuffers_First(cs) ==
    IF buffers = <<>> \/ Len(buffers) < Len(cs) \/ cs[1].max_size > buffers[1]
    THEN [c \in DOMAIN cs |-> cs[c].max_size] ELSE buffers

\* "reallocate buffers if needed"
NewBuffers(cs) ==
    IF buffers = <<>> \/ \E c \in DOMAIN cs :
          cs[c].max_size > IF c \in DOMAIN buffers THEN buffers[c] ELSE 0
    THEN [c \in DOMAIN cs |-> cs[c].max_size] ELSE buffers

\* node_needs_realloc(), which answers whether the planned size will do.
Fits(g, t, alloc) ==
    Own(g, t) => alloc.addr # NoAddr /\ alloc.size_max >= AllocSize(g, t)

\* ggml_gallocr_needs_realloc()
NeedsRealloc(g) ==
    \/ plan = {}
    \/ \E pl \in plan :
        \/ Len(pl.dst) # Len(g) \/ Len(pl.leaf) # Len(leafs)
        \/ \E k \in DOMAIN g :
            \/ ~Fits(g, NodeTensor(k), pl.dst[k])
            \/ \E j \in DOMAIN g[k].src :
                  ~Fits(g, g[k].src[j], IF j \in DOMAIN pl.src[k] THEN pl.src[k][j]
                                        ELSE NoAlloc)

\* init_tensor() of the leafs and nodes: their addresses in a plan.
Bound(g, pl) ==
    [t \in {x \in Tensors(g) : Own(g, x)} |->
        IF IsLeaf(t) THEN pl.leaf[t].addr ELSE pl.dst[t - Len(leafs)].addr]

Cells(addr, n) == {<<addr.chunk, o>> : o \in addr.off .. addr.off + n - 1}
AllCells(bufs) == UNION {{<<c, o>> : o \in 0 .. bufs[c] - 1} : c \in DOMAIN bufs}

\* The caller writes the leafs, one after the other.
Filled(bufs, d) ==
    [x \in AllCells(bufs) |->
        Max({0} \cup {t \in DOMAIN leafs :
                         t \in DOMAIN d /\ x \in Cells(d[t], LayoutSize[leafs[t].layout])})]

\* What needs_realloc() does not compare: whether each leaf, which is bound by its
\* index, has an address and fits there; which operation a node is, and on which
\* tensors; and whether a source has the layout of the result where the plan works in
\* place (a second source may have become smaller, to be broadcast).
Alike(g, pl) ==
    /\ "leafs" \in Common => \A t \in DOMAIN leafs : Fits(g, t, pl.leaf[t])
    /\ "sources" \in Common =>
          \A k \in DOMAIN g : /\ g[k].kind = pl.graph[k].kind /\ g[k].src = pl.graph[k].src
                              /\ g[k].view = pl.graph[k].view /\ g[k].out = pl.graph[k].out
    /\ "layouts" \in Common =>
          \A k \in DOMAIN g : \A j \in DOMAIN g[k].src \cap DOMAIN pl.src[k] :
              pl.src[k][j].addr \in {pl.dst[k].addr} \ {NoAddr}
                  => Layout(g, g[k].src[j]) = g[k].layout

----------------------------------------------------------------------------
(* Actions                                                                 *)

\* The operations on the tensors there are: in place or not, with fleeting data
\* or not, a view of a tensor; the layout of an in-place result is that of its
\* first source.
Operations(g) ==
    LET T == Tensors(g)
        Op(kind, src, layout) ==
            [kind |-> kind, src |-> src, layout |-> layout, out |-> FALSE,
             view |-> IF kind = "view" THEN Root(g, src[1]) ELSE 0]
    IN  {Op("add", s, Layout(g, s[1])) : s \in {<<t>> : t \in T} \cup (T \X T)}
        \cup {Op("mul_mat", s, x) : s \in {r \in T \X T : r[1] <= r[2]}, x \in Layouts}
        \cup {Op("scratch", <<t>>, Layout(g, t)) : t \in T}
        \cup {Op("view", <<t>>, Layout(g, t)) : t \in T}

Unused(g) == {k \in DOMAIN g : UsesOf(g, NodeTensor(k)) = {}}

\* The caller builds a graph; a node can use up two results nobody used before.
AddNode ==
    /\ phase = "build" /\ left > 0
    /\ \E op \in Operations(graph) :
        /\ graph' = Append(graph, op)
        /\ Cardinality(Unused(graph')) <= left
    /\ left' = left - 1
    /\ UNCHANGED <<phase, leafs, next, step, hash, chunks, plan, buffers, data, memory>>

\* ggml_set_output() of the last node and perhaps of others, all the others used.
Marked(g, outs) == [k \in DOMAIN g |-> [g[k] EXCEPT !.out = k \in outs]]
Complete(g) == g # <<>> /\ Unused(g) = {Len(g)} /\ g[Len(g)].kind # "view"

StartPlan(g) ==
    /\ phase' = "plan"
    /\ graph' = g
    /\ next' = 0 /\ step' = 1
    /\ hash' = Counted(g)
    /\ chunks' = <<>>
    /\ UNCHANGED <<leafs, plan, buffers, data, memory, left>>

Bind(g, pl, bufs) ==
    /\ phase' = "compute"
    /\ graph' = g
    /\ next' = 1
    /\ data' = Bound(g, pl)
    /\ memory' = Filled(bufs, data')

\* ggml_gallocr_alloc_graph(): the plan is kept, or a new one is made.
AllocGraph ==
    /\ phase = "build" /\ Complete(graph)
    /\ \E outs \in {{Len(graph)}} \cup {{k, Len(graph)} : k \in DOMAIN graph} :
        LET g == Marked(graph, outs)
        IN  IF NeedsRealloc(g) THEN StartPlan(g)
            ELSE /\ \E pl \in plan : Alike(g, pl) /\ Bind(g, pl, buffers)
                 /\ UNCHANGED <<leafs, step, hash, chunks, plan, buffers, left>>

\* The loops of alloc_graph_impl(): the leafs are allocated; then for every node
\* its parents, the node, and its parents are updated.
Sources == Len(graph[next].src)
Planner == [hash |-> hash, chunks |-> chunks]

Advance(last) ==
    /\ next' = IF step = last THEN next + 1 ELSE next
    /\ step' = IF step = last THEN 1 ELSE step + 1
    /\ UNCHANGED <<phase, leafs, graph, plan, buffers, data, memory, left>>

Becomes(p) == hash' = p.hash /\ chunks' = p.chunks

PlanLeaf ==
    /\ phase = "plan" /\ next = 0
    /\ \E p \in AllocateNode(graph, Planner, step) : Becomes(p)
    /\ Advance(Len(leafs))

PlanNode ==
    /\ phase = "plan" /\ next \in DOMAIN graph
    /\ step <= Sources + 1
    /\ \E p \in AllocateNode(graph, Planner, IF step <= Sources THEN graph[next].src[step]
                                                ELSE NodeTensor(next)) : Becomes(p)
    /\ Advance(2 * Sources + 1)

PlanParent ==
    /\ phase = "plan" /\ next \in DOMAIN graph
    /\ step > Sources + 1
    /\ Becomes(UpdateParent(graph, Planner, graph[next].src[step - Sources - 1]))
    /\ Advance(2 * Sources + 1)

\* The caller starts a graph, over leafs of any kind.
NewGraph ==
    /\ phase' = "build" /\ graph' = <<>> /\ next' = 1
    /\ leafs' \in LeafSets

\* The rest of reserve_n_impl(); alloc_graph() goes on, reserve() returns.
Commit ==
    /\ phase = "plan" /\ next > Len(graph)
    /\ plan' = {PlanOf(graph, hash)}
    /\ buffers' = NewBuffers(chunks)
    /\ hash' = <<>> /\ chunks' = <<>>
    /\ \/ Bind(graph, PlanOf(graph, hash), buffers') /\ UNCHANGED leafs
       \/ NewGraph /\ UNCHANGED <<data, memory>>
    /\ UNCHANGED <<step, left>>

\* The backend computes a node; a view computes nothing.
ComputeNode ==
    /\ phase = "compute" /\ next <= Len(graph)
    /\ LET t == NodeTensor(next)
       IN  memory' = IF IsView(graph, t) THEN memory
                     ELSE [x \in DOMAIN memory |->
                              IF x \in Cells(data[t], AllocSize(graph, t)) THEN t
                              ELSE memory[x]]
    /\ next' = next + 1
    /\ phase' = IF next = Len(graph) THEN "read" ELSE phase
    /\ UNCHANGED <<leafs, graph, step, hash, chunks, plan, buffers, data, left>>

\* The caller has read the outputs and builds the next graph.
NextGraph ==
    /\ phase = "read" /\ left > 0
    /\ NewGraph
    /\ data' = <<>> /\ memory' = <<>>
    /\ UNCHANGED <<step, hash, chunks, plan, buffers, left>>

Init ==
    /\ leafs \in LeafSets
    /\ phase = "build" /\ graph = <<>> /\ next = 1 /\ step = 1
    /\ hash = <<>> /\ chunks = <<>>
    /\ plan = {} /\ buffers = <<>>
    /\ data = <<>> /\ memory = <<>>
    /\ left = MaxNodes

Next ==
    \/ AddNode \/ AllocGraph
    \/ PlanLeaf \/ PlanNode \/ PlanParent \/ Commit
    \/ ComputeNode \/ NextGraph

Spec == Init /\ [][Next]_vars

----------------------------------------------------------------------------
(* Properties                                                              *)

\* The result of t is in its memory, all of it.
Holds(t) ==
    \A x \in Cells(data[t], Size(graph, t)) : x \in DOMAIN memory /\ memory[x] = t

\* t may write while source s is read: elsewhere, or exactly in its place.
WritesApart(t, s) ==
    LET r == Root(graph, s) IN
    \/ External(r)
    \/ Cells(data[t], AllocSize(graph, t)) \cap Cells(data[r], Size(graph, r)) = {}
    \/ /\ Node(graph, t).kind = "add" /\ s = r
       /\ data[t] = data[r] /\ Layout(graph, t) = Layout(graph, r)

\* What a node reads is what its sources have computed, no tensor planned at the
\* same address in between, and it overwrites none of them unless it works in place;
\* and what the caller reads at the end are the outputs.
SourcesIntact ==
    /\ phase = "compute" =>
        \A s \in ToSet(graph[next].src) :
            /\ External(Root(graph, s)) \/ Holds(Root(graph, s))
            /\ IsView(graph, NodeTensor(next)) \/ WritesApart(NodeTensor(next), s)
    /\ phase = "read" =>
        \A t \in Tensors(graph) : IsOutput(graph, t) /\ Own(graph, t) => Holds(t)

\* While the plan is made, no byte is handed out twice: the free blocks of a chunk
\* and the tensors that live in it are apart, whatever was cut, merged, reused in
\* place or freed before.
Live(c) == {t \in DOMAIN hash : hash[t].allocated /\ hash[t].addr.chunk = c}
Taken(t) == Block(hash[t].addr.off, AllocSize(graph, t))
Apart(a, b) == a.off + a.size <= b.off \/ b.off + b.size <= a.off
Disjoint ==
    phase = "plan" => \A c \in DOMAIN chunks :
        /\ \A a, b \in chunks[c].free : a # b => Apart(a, b)
        /\ \A t \in Live(c), b \in chunks[c].free : Apart(Taken(t), b)
        /\ \A t, u \in Live(c) : t # u => Apart(Taken(t), Taken(u))

\* And no byte is lost: the free blocks and the live tensors of a chunk follow one
\* another from its begin to its end, and free blocks that touch are merged, so that a
\* request finds them.  The last of the chunks has "virtually endless memory", so that
\* no more are needed.
Pieces(c) == chunks[c].free \cup {Taken(t) : t \in Live(c)}
NothingLeaks ==
    phase = "plan" =>
        /\ Len(chunks) <= MaxChunks
        /\ \A c \in DOMAIN chunks :
            /\ \E a \in Pieces(c) : a.off = 0
            /\ \A a \in Pieces(c) : \/ a.off + a.size = chunks[c].cap
                                    \/ \E b \in Pieces(c) : b.off = a.off + a.size
            /\ \A a, b \in chunks[c].free : a.off # b.off + b.size

\* Every tensor lies within the buffer of its chunk, also when the buffers are
\* older than the plan or the plan is older than the graph and its leafs.  (A leaf is
\* not compared with its planned size: without "leafs" in Common it may not.)
WithinBuffer ==
    phase \in {"compute", "read"} => \A t \in DOMAIN data :
        /\ data[t].chunk \in DOMAIN buffers
        /\ data[t].off + AllocSize(graph, t) <= buffers[data[t].chunk]

\* "output tensors are never freed and never overwritten" (ggml-alloc.h), views
\* of other tensors too.  It does not hold: the flag of a view protects nothing.
OutputsKept ==
    phase = "read" =>
        \A t \in Tensors(graph) :
            IsOutput(graph, t) => External(Root(graph, t)) \/ Holds(Root(graph, t))

\* "automatic reallocation if the topology changes when using a single buffer"
\* (ggml-alloc.h): a plan is kept for graphs of the same topology only.  It does not
\* hold without "sources" in Common: only numbers and sizes are compared.
ReplansOnTopology ==
    phase = "compute" =>
        \A pl \in plan : \A k \in DOMAIN graph : graph[k].src = pl.graph[k].src
=============================================================================
