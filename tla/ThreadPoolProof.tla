--------------------------- MODULE ThreadPoolProof ---------------------------
(***************************************************************************)
(* Proofs about the thread pool, for all numbers of threads, graphs and    *)
(* chunks, and for any wrapping of the graph counter: the nodes are        *)
(* computed in order (NodesInOrder), a chunk is computed once              *)
(* (ChunksOnce), nobody is in the graph when thread 0 prepares the next    *)
(* one (NoWorkerInGraph), and an abort stops all threads at one node       *)
(* (AbortIsClean).                                                         *)
(***************************************************************************)
EXTENDS ThreadPool, FiniteSetTheorems, TLAPS

-----------------------------------------------------------------------------
(* Types *)

Pcs == Polling \cup Barrier \cup InGraph \cup Driving
Counted == [count : 0 .. Wrap - 1, threads : 0 .. NThreads]

(* The graph that is kicked off is one of Graphs. *)
Types ==
    /\ TypeOK
    /\ pc[0] = "kick" => graph > 0

(* Thread 0 calls ggml_graph_compute() and is no worker.                     *)
LEMMA ThreadZero == 0 \in Threads /\ Threads \subseteq Nat /\ 0 \notin Workers
BY PoolOK DEF Threads, Workers

(* The graph that is computed has at least one thread.                       *)
LEMMA NodesType ==
    ASSUME Types, graph > 0
    PROVE  /\ Graphs[graph] \in [threads : 1 .. NThreads, nodes : Seq(Kinds)]
           /\ Nodes \in Seq(Kinds) /\ Len(Nodes) \in Nat
<1> DEFINE G == [threads : 1 .. NThreads, nodes : Seq(Kinds)]
<1>1. Graphs \in Seq(G)
  BY PoolOK
<1>2. graph \in 1 .. Len(Graphs)
  <2>1. Len(Graphs) \in Nat
    BY <1>1
  <2> QED
    BY <2>1 DEF Types, TypeOK
<1>3. Graphs[graph] \in G
  <2> HIDE DEF G
  <2> QED
    BY <1>1, <1>2
<1>4. Nodes \in Seq(Kinds)
  BY <1>3 DEF Nodes
<1> QED
  BY <1>3, <1>4

(* The variables have their types at first.                                  *)
LEMMA InitTypes == Init => Types
<1> SUFFICES ASSUME Init PROVE Types
  OBVIOUS
<1>1. n_graph \in Counted
  BY PoolOK DEF Init, Counted
<1>2. pc \in [Threads -> Pcs] /\ pc[0] = "idle"
  BY ThreadZero DEF Init, Pcs, Polling, Driving
<1>3. last_graph \in [Threads -> Counted]
  BY <1>1 DEF Init
<1>4. pause \in BOOLEAN /\ stop \in BOOLEAN
  BY PoolOK DEF Init
<1>5. graph \in 0 .. Len(Graphs)
  BY PoolOK DEF Init
<1>6. /\ node \in [Threads -> Nat] /\ n_passed \in [Threads -> Nat]
      /\ mine \in [Threads -> Nat] /\ cond \in SUBSET Workers
      /\ return \in [Threads -> {"node", "chunk", "top", "idle"}]
      /\ work \in SUBSET (Nat \X (0 .. NChunks + 1) \X Threads)
      /\ n_barrier \in Nat /\ n_barrier_passed \in Nat /\ current_chunk \in Nat
      /\ abort \in Nat
  BY DEF Init
<1> QED
  BY <1>1, <1>2, <1>3, <1>4, <1>5, <1>6 DEF Types, TypeOK, Pcs, Counted

(* A step after which thread t is at another label, and that leaves alone    *)
(* what only thread 0 changes, outside the graph.                           *)
LEMMA TypesFrame ==
    ASSUME Types, UNCHANGED <<graph, n_graph, stop, pause>>,
           NEW t \in Threads, NEW l \in Pcs \ {"kick"}, pc' = [pc EXCEPT ![t] = l],
           n_barrier' \in Nat, n_barrier_passed' \in Nat, current_chunk' \in Nat,
           abort' \in Nat, cond' \in SUBSET Workers,
           last_graph' \in [Threads -> Counted], node' \in [Threads -> Nat],
           n_passed' \in [Threads -> Nat], mine' \in [Threads -> Nat],
           return' \in [Threads -> {"node", "chunk", "top", "idle"}],
           work' \in SUBSET (Nat \X (0 .. NChunks + 1) \X Threads)
    PROVE  Types'
<1>1. pc \in [Threads -> Pcs]
  BY DEF Types, TypeOK, Pcs
<1>2. pc' \in [Threads -> Pcs] /\ (pc'[0] = "kick" => pc[0] = "kick")
  BY <1>1, ThreadZero
<1> QED
  BY <1>2 DEF Types, TypeOK, Pcs, Counted

(* The types of the variables, one by one *)
LEMMA EachType ==
    ASSUME Types
    PROVE  /\ graph \in Nat /\ n_graph \in Counted /\ n_graph.threads \in Nat
           /\ n_graph.threads <= NThreads
           /\ n_barrier \in Nat /\ n_barrier_passed \in Nat /\ current_chunk \in Nat
           /\ abort \in Nat /\ cond \in SUBSET Workers
           /\ last_graph \in [Threads -> Counted] /\ node \in [Threads -> Nat]
           /\ n_passed \in [Threads -> Nat] /\ mine \in [Threads -> Nat]
           /\ return \in [Threads -> {"node", "chunk", "top", "idle"}]
           /\ work \in SUBSET (Nat \X (0 .. NChunks + 1) \X Threads)
           /\ pc \in [Threads -> Pcs]
<1>1. Len(Graphs) \in Nat
  BY PoolOK
<1>2. n_graph.threads \in 0 .. NThreads /\ NThreads \in Nat
  BY PoolOK DEF Types, TypeOK
<1> QED
  BY <1>1, <1>2 DEF Types, TypeOK, Pcs, Counted

(* The steps of the barrier keep the types, ...                              *)
LEMMA BarrierTypes ==
    ASSUME Types, NEW t \in Threads, BarrierStep(t)
    PROVE  Types'
<1>1. /\ UNCHANGED <<graph, n_graph, abort, stop, pause, last_graph, node, work,
                     current_chunk, cond, mine, return>>
      /\ n_barrier' \in Nat /\ n_barrier_passed' \in Nat
      /\ n_passed' \in [Threads -> Nat]
  BY EachType DEF BarrierStep, EnterBarrier, Arrive, ResetBarrier, Release, Spin, Goto,
              poolVars, opVars, barrierVars
<1>2. \E l \in Pcs \ {"kick"} : pc' = [pc EXCEPT ![t] = l]
  BY EachType DEF BarrierStep, EnterBarrier, Arrive, ResetBarrier, Release, Spin, Goto,
              Pcs, Polling, Barrier, InGraph, Driving
<1> QED
  BY <1>1, <1>2, EachType, TypesFrame

(* What a thread adds to the history *)
LEMMA WorkTypes ==
    ASSUME Types, NEW t \in Threads
    PROVE  /\ work \cup {<<node[t], Wdata, t>>} \in SUBSET (Nat \X (0 .. NChunks + 1) \X Threads)
           /\ work \cup {<<node[t], Share, t>>} \in SUBSET (Nat \X (0 .. NChunks + 1) \X Threads)
           /\ mine[t] < NChunks =>
                work \cup {<<node[t], mine[t], t>>}
                    \in SUBSET (Nat \X (0 .. NChunks + 1) \X Threads)
<1>1. /\ Wdata \in 0 .. NChunks + 1 /\ Share \in 0 .. NChunks + 1
      /\ mine[t] < NChunks => mine[t] \in 0 .. NChunks + 1
  BY EachType, PoolOK DEF Wdata, Share
<1> QED
  BY <1>1, EachType

(* ... the steps in the graph do, ...                                        *)
LEMMA GraphTypes ==
    ASSUME Types, NEW t \in Threads, GraphStep(t)
    PROVE  Types'
<1> USE EachType, ThreadZero
<1> USE DEF Pcs, Polling, Barrier, InGraph, Driving, Goto
<1>1. UNCHANGED <<graph, n_graph, stop, pause, cond, n_barrier, n_barrier_passed, n_passed,
                  last_graph>>
  BY DEF GraphStep, NextNode, FinishGraph, Quantize, Chunk, FetchChunk, AfterNode,
         poolVars, barrierVars
<1>2. CASE NextNode(t)
  <2>1. UNCHANGED <<current_chunk, mine, abort, return>>
    BY <1>2 DEF NextNode
  <2>2. /\ node' \in [Threads -> Nat]
        /\ work' \in SUBSET (Nat \X (0 .. NChunks + 1) \X Threads)
        /\ \E l \in Pcs \ {"kick"} : pc' = [pc EXCEPT ![t] = l]
    BY <1>2, WorkTypes DEF NextNode
  <2> QED
    BY <1>1, <2>1, <2>2, TypesFrame
<1>3. CASE FinishGraph(t)
  <2>1. /\ UNCHANGED <<opVars, abort, node>>
        /\ return' \in [Threads -> {"node", "chunk", "top", "idle"}]
        /\ pc' = [pc EXCEPT ![t] = "enter"]
    BY <1>3 DEF FinishGraph, LeaveGraph, CallBarrier, Home
  <2> QED
    BY <1>1, <2>1, TypesFrame DEF opVars
<1>4. CASE Quantize(t)
  <2>1. /\ UNCHANGED <<work, abort, node>>
        /\ current_chunk' \in Nat
        /\ mine' \in [Threads -> Nat]
        /\ return' \in [Threads -> {"node", "chunk", "top", "idle"}]
        /\ pc' = [pc EXCEPT ![t] = "enter"]
    BY <1>4 DEF Quantize, CallBarrier, FirstChunk
  <2> QED
    BY <1>1, <2>1, TypesFrame
<1>5. CASE Chunk(t)
  <2>1. UNCHANGED <<current_chunk, mine, abort, node, return>>
    BY <1>5 DEF Chunk
  <2>2. /\ work' \in SUBSET (Nat \X (0 .. NChunks + 1) \X Threads)
        /\ \E l \in Pcs \ {"kick"} : pc' = [pc EXCEPT ![t] = l]
    BY <1>5, WorkTypes DEF Chunk
  <2> QED
    BY <1>1, <2>1, <2>2, TypesFrame
<1>6. CASE FetchChunk(t)
  <2>1. /\ UNCHANGED <<work, abort, node, return>>
        /\ current_chunk' \in Nat
        /\ mine' \in [Threads -> Nat]
        /\ pc' = [pc EXCEPT ![t] = "chunk"]
    BY <1>6 DEF FetchChunk
  <2> QED
    BY <1>1, <2>1, TypesFrame
<1>7. CASE AfterNode(t)
  <2>1. UNCHANGED <<current_chunk, mine, work>> /\ node' \in [Threads -> Nat]
    <3>1. UNCHANGED <<current_chunk, mine, work>> /\ node' = [node EXCEPT ![t] = @ + 1]
      BY <1>7 DEF AfterNode, opVars
    <3>2. node \in [Threads -> Nat] /\ node[t] + 1 \in Nat
      BY EachType
    <3> QED
      BY <3>1, <3>2
  <2>2. abort' \in Nat
    BY <1>7 DEF AfterNode, AbortAt
  <2>3. /\ return' \in [Threads -> {"node", "chunk", "top", "idle"}]
        /\ \E l \in Pcs \ {"kick"} : pc' = [pc EXCEPT ![t] = l]
    <3>1. \/ pc' = [pc EXCEPT ![t] = "enter"] /\ return' = [return EXCEPT ![t] = "node"]
          \/ pc' = [pc EXCEPT ![t] = "node"] /\ return' = return
      BY <1>7 DEF AfterNode, CallBarrier
    <3> QED
      BY <3>1
  <2> QED
    BY <1>1, <2>1, <2>2, <2>3, TypesFrame
<1> QED
  BY <1>2, <1>3, <1>4, <1>5, <1>6, <1>7 DEF GraphStep

(* ... and the steps of a worker that polls or sleeps.                       *)
LEMMA WorkerTypes ==
    ASSUME Types, NEW t \in Workers, WorkerStep(t)
    PROVE  Types'
<1> USE EachType, ThreadZero
<1>0. t \in Threads
  BY DEF Workers
<1>1. UNCHANGED <<graph, n_graph, stop, pause, n_barrier, n_barrier_passed, n_passed,
                  current_chunk, mine, work, abort, return>>
  BY DEF WorkerStep, CheckPause, SleepPaused, CheckStop, Poll, CheckForWork, WakeUp,
         poolVars, barrierVars, opVars
<1>2. /\ last_graph' \in [Threads -> Counted] /\ node' \in [Threads -> Nat]
      /\ \E l \in Pcs \ {"kick"} : pc' = [pc EXCEPT ![t] = l]
  BY DEF WorkerStep, CheckPause, SleepPaused, CheckStop, Poll, CheckForWork, WakeUp,
         SeesGraph, WaitForWork, Goto, Pcs, Polling, Asleep, InGraph
<1>3. cond' \in SUBSET Workers
  BY DEF WorkerStep, CheckPause, SleepPaused, CheckStop, Poll, CheckForWork, WakeUp,
         WaitForWork, poolVars
<1> QED
  BY <1>0, <1>1, <1>2, <1>3, TypesFrame

(* What thread 0 does outside the graph, and spurious wake-ups *)
LEMMA CallerTypes ==
    ASSUME Types, Caller \/ Kickoff \/ Join \/ Spurious
    PROVE  Types'
<1> USE EachType, ThreadZero
<1>1. \A l \in Pcs : [pc EXCEPT ![0] = l] \in [Threads -> Pcs]
  OBVIOUS
<1>2. {"idle", "kick", "node", "joining", "freed"} \subseteq Pcs
  BY DEF Pcs, Driving, InGraph
<1>3. CASE Reset
  <2>1. graph' \in 0 .. Len(Graphs) /\ graph' > 0
    <3>1. Len(Graphs) \in Nat /\ graph \in Nat /\ graph < Len(Graphs) /\ graph' = graph + 1
      BY <1>3, PoolOK DEF Reset
    <3> QED
      BY ONLY <3>1
  <2>2. pc' \in [Threads -> Pcs]
    BY <1>1, <1>2, <1>3 DEF Reset, Goto
  <2> QED
    BY <1>3, <2>1, <2>2 DEF Reset, Types, TypeOK, Pcs, barrierVars
<1>4. CASE Kickoff
  <2>1. n_graph' \in Counted
    <3>1. Graphs[graph].threads \in 1 .. NThreads /\ NThreads \in Nat
      BY <1>4, NodesType, PoolOK DEF Types, Kickoff
    <3>2. n_graph.count \in Nat
      BY DEF Counted
    <3>3. (n_graph.count + 1) % Wrap \in 0 .. Wrap - 1
      BY ONLY <3>2, PoolOK
    <3> QED
      BY <1>4, <3>1, <3>3 DEF Kickoff, NewGraph, Counted
  <2>2. pc' \in [Threads -> Pcs] /\ pc'[0] = "node" /\ node' \in [Threads -> Nat]
    BY <1>1, <1>2, <1>4 DEF Kickoff, Goto
  <2>3. UNCHANGED <<graph, stop, n_barrier, n_barrier_passed, n_passed, current_chunk, mine,
                    work, abort, last_graph, return>> /\ pause' = FALSE /\ cond' = {}
    BY <1>4 DEF Kickoff, barrierVars, opVars, Broadcast
  <2> QED
    BY <2>1, <2>2, <2>3 DEF Types, TypeOK, Pcs, Counted
<1>5. CASE TogglePause
  BY <1>5 DEF TogglePause, Types, TypeOK, Broadcast, barrierVars, opVars
<1>6. CASE Free
  <2>1. pc' \in [Threads -> Pcs] /\ pc'[0] = "joining"
    BY <1>1, <1>2, <1>6 DEF Free, Goto
  <2> QED
    BY <1>6, <2>1 DEF Free, Types, TypeOK, Pcs, Broadcast, PauseAfterStop, barrierVars, opVars
<1>7. CASE Join
  <2>1. pc' \in [Threads -> Pcs] /\ pc'[0] = "freed"
    BY <1>1, <1>2, <1>7 DEF Join, Goto
  <2> QED
    BY <1>7, <2>1 DEF Join, Types, TypeOK, Pcs, poolVars, barrierVars, opVars
<1>8. CASE Spurious
  BY <1>8 DEF Spurious, Types, TypeOK, barrierVars, opVars
<1> QED
  BY <1>3, <1>4, <1>5, <1>6, <1>7, <1>8 DEF Caller
-----------------------------------------------------------------------------
(* The invariant                                                            *)
(*                                                                          *)
(* Where a thread is, when one that spins although its barrier is over      *)
(* counts as gone on.                                                       *)
At(t) ==
    IF pc[t] = "spin" /\ n_passed[t] # n_barrier_passed THEN return[t] ELSE pc[t]

Held(t) == At(t) \in Barrier
Spinning == {t \in Active : At(t) = "spin"}

(* The barrier counts who spins; the last thread resets it when all others  *)
(* spin.                                                                    *)
BarrierOK ==
    /\ \A t \in Threads : n_passed[t] <= n_barrier_passed
    /\ \A t \in Active :
         /\ At(t) = "arrive" => n_passed[t] = n_barrier_passed
         /\ At(t) \in {"reset", "release"} => Spinning = Active \ {t}
         /\ At(t) = "release" => n_barrier = 0
    /\ (\A t \in Active : At(t) \notin {"reset", "release"}) =>
         n_barrier = Cardinality(Spinning)

(* Between two barriers the threads walk over empty nodes, up to the first  *)
(* one that is not.                                                         *)
Gap(i, j) == \A k \in i .. j - 1 : Nodes[k] = "empty"
First(b, k) == k \in b .. Len(Nodes) /\ Nodes[k] # "empty" /\ Gap(b, k)

(* Thread t has done its part what of node k, the first one from b on.      *)
Did(t, b, k, kind, what) ==
    First(b, k) /\ Nodes[k] = kind /\ <<k, what, t>> \in work /\ abort # b

(* The places of a thread that has passed the last barrier at node b        *)
Unstarted(t, b)  == b = 1 /\ t # 0 /\ At(t) \in Polling
Walking(t, b)    == /\ At(t) = "node" /\ node[t] \in b .. Len(Nodes) + 1
                    /\ Gap(b, node[t]) /\ (abort = b => node[t] = b)
Quantizing(t, b) == At(t) = "quantize" /\ Did(t, b, node[t], "mul_mat", Wdata)
Quantized(t, b)  == /\ Held(t) /\ return[t] = "chunk" /\ Did(t, b, node[t], "mul_mat", Wdata)
                    /\ mine[t] = t /\ (t = 0 => current_chunk = n_graph.threads)
Sharing(t, b)    == At(t) = "after" /\ Did(t, b, node[t], "other", Share)
Shared(t, b)     == /\ Held(t) /\ return[t] = "node" /\ node[t] <= Len(Nodes)
                    /\ Did(t, b, node[t] - 1, "other", Share)
PastLast(t, b)   == /\ At(t) = "node" /\ node[t] = Len(Nodes) + 1
                    /\ Did(t, b, Len(Nodes), "other", Share)
Leaving(t, b)    == /\ Held(t) /\ return[t] = Home(t)
                    /\ \/ abort = b /\ node[t] = b
                       \/ /\ abort # b /\ node[t] = Len(Nodes) + 1
                          /\ Gap(b, node[t]) \/ Did(t, b, Len(Nodes), "other", Share)

InNode(t, b) ==
    \/ Unstarted(t, b) \/ Walking(t, b) \/ Quantizing(t, b) \/ Quantized(t, b)
    \/ Sharing(t, b) \/ Shared(t, b) \/ PastLast(t, b) \/ Leaving(t, b)

(* ... and of one that multiplies at node b                                 *)
Multiplied(t, b) == Held(t) /\ return[t] = "node" /\ node[t] = b + 1 /\ b < Len(Nodes)
LastNode(t, b)   == At(t) = "node" /\ node[t] = b + 1 /\ b = Len(Nodes)
LastLeft(t, b)   == Held(t) /\ return[t] = Home(t) /\ node[t] = b + 1 /\ b = Len(Nodes)

InChunk(t, b) ==
    \/ At(t) \in {"chunk", "fetch", "after"} /\ node[t] = b
    \/ Multiplied(t, b) \/ LastNode(t, b) \/ LastLeft(t, b)

Before(b) == \A k \in 1 .. b - 1 : Complete(k)

(* Who is in the graph has seen it.                                         *)
Seen == \A t \in Active : t # 0 /\ At(t) \notin Polling => last_graph[t] = n_graph

AbortAfter(b) == \E k \in b .. Len(Nodes) : First(b, k) /\ Nodes[k] = "other" /\ abort = k + 1

NodeStage(b) ==
    /\ n_graph.threads > 0 /\ b \in 1 .. Len(Nodes) + 1
    /\ \A t \in Active : InNode(t, b)
    /\ Seen
    /\ Before(b)
    /\ \A w \in work : w[1] < b \/ (First(b, w[1]) /\ abort # b /\ w[2] \notin Chunks)
    /\ abort \in {0, b} \/ AbortAfter(b)

(* The chunks: who holds which, which are done.                             *)
Takers == {t \in Active : At(t) = "chunk"}

ChunksShared(b) ==
    /\ current_chunk >= n_graph.threads
    /\ \A t \in Takers :
         /\ mine[t] < current_chunk
         /\ mine[t] < n_graph.threads => mine[t] = t
         /\ mine[t] >= n_graph.threads /\ mine[t] < NChunks =>
              \A w \in work : w[1] = b => w[2] # mine[t]
    /\ \A t, u \in Takers : mine[t] = mine[u] => t = u
    /\ \A w \in work : w[1] = b /\ w[2] \in Chunks =>
         w[2] < current_chunk /\ (w[2] < n_graph.threads => w[3] = w[2])
    /\ \A c \in Chunks : c < current_chunk =>
         \/ \E t \in Active : <<b, c, t>> \in work
         \/ \E t \in Takers : mine[t] = c
    /\ \A t \in Active : At(t) \notin {"chunk", "fetch"} =>
         n_graph.threads >= NChunks \/ current_chunk >= NChunks

ChunkStage(b) ==
    /\ n_graph.threads > 0 /\ b \in 1 .. Len(Nodes)
    /\ Nodes[b] = "mul_mat"
    /\ \A t \in Active : InChunk(t, b)
    /\ Seen
    /\ Before(b)
    /\ \A w \in work : w[1] <= b
    /\ \A t \in Active : <<b, Wdata, t>> \in work
    /\ abort \in {0, b + 1}
    /\ ChunksShared(b)

(* Nobody is in the graph, and what was computed is complete.               *)
Computed ==
    /\ abort # 0 => \A w \in work : w[1] < abort
    /\ graph > 0 => \A k \in 1 .. Len(Nodes) : abort = 0 \/ k < abort => Complete(k)

Outside ==
    /\ At(0) \in Driving
    /\ \A t \in Active : t # 0 => At(t) \in Polling /\ last_graph[t] = n_graph
    /\ IF At(0) = "kick" THEN work = {} /\ abort = 0 ELSE Computed

Stage ==
    \/ Outside
    \/ graph > 0 /\ \E b \in 1 .. Len(Nodes) + 1 : NodeStage(b) \/ ChunkStage(b)

(* Workers the graph has no use for poll or sleep.                          *)
OthersPoll == \A t \in Workers : t \notin Active => At(t) \in Polling

Inv ==
    /\ Types
    /\ BarrierOK
    /\ OthersPoll
    /\ ChunksOnce
    /\ Stage
-----------------------------------------------------------------------------
(* How the parts of the invariant are kept                                  *)

(* A thread moves to another label that is not inside the barrier's wait.   *)
LEMMA AtMoves ==
    ASSUME Types, NEW t \in Threads, NEW l, l # "spin", pc' = [pc EXCEPT ![t] = l],
           UNCHANGED <<n_barrier_passed, n_passed>>,
           \A u \in Threads : u # t => return'[u] = return[u]
    PROVE  /\ At(t)' = l
           /\ \A u \in Threads : u # t => At(u)' = At(u)
<1>1. pc'[t] = l /\ \A u \in Threads : u # t => pc'[u] = pc[u]
  BY EachType
<1> QED
  BY <1>1 DEF At

(* The active threads are the first n_graph.threads ones, thread 0 among     *)
(* them.                                                                     *)
LEMMA ActiveType ==
    ASSUME Types
    PROVE  /\ Active \subseteq Threads
           /\ n_graph.threads > 0 => 0 \in Active
           /\ \A t \in Active : t < n_graph.threads
           /\ Active = 0 .. n_graph.threads - 1
           /\ IsFiniteSet(Active) /\ Cardinality(Active) = n_graph.threads
<1>1. Active = 0 .. n_graph.threads - 1
  <2>1. n_graph.threads \in Nat /\ NThreads \in Nat /\ n_graph.threads <= NThreads
    BY EachType, PoolOK
  <2>2. \A t \in Int : t \in Active <=> t \in 0 .. n_graph.threads - 1
    BY <2>1 DEF Active, Threads
  <2>3. Active \subseteq Int /\ 0 .. n_graph.threads - 1 \subseteq Int
    BY DEF Active, Threads
  <2> QED
    BY <2>2, <2>3
<1>2. IsFiniteSet(Active) /\ Cardinality(Active) = n_graph.threads
  <2>1. n_graph.threads \in Nat
    BY EachType
  <2>2. n_graph.threads - 1 \in Int /\ 0 \in Int
    BY <2>1
  <2>3. /\ IsFiniteSet(0 .. n_graph.threads - 1)
        /\ Cardinality(0 .. n_graph.threads - 1) =
             IF 0 > n_graph.threads - 1 THEN 0 ELSE n_graph.threads - 1 - 0 + 1
    BY <2>2, FS_Interval
  <2> QED
    BY <1>1, <2>1, <2>3
<1> QED
  BY <1>1, <1>2, EachType, ThreadZero DEF Active

(* A step outside the barrier keeps its bookkeeping.                         *)
Counting == {"arrive", "spin", "reset", "release"}

LEMMA BarrierFrame ==
    ASSUME Types, BarrierOK, UNCHANGED <<n_graph, n_barrier, n_barrier_passed, n_passed>>,
           \A t \in Active : At(t)' = At(t) \/ (At(t) \notin Counting /\ At(t)' \notin Counting)
    PROVE  BarrierOK'
<1>1. Active' = Active /\ Spinning' = Spinning
  BY DEF Active, Spinning, Counting
<1> QED
  BY <1>1 DEF BarrierOK, Counting

(* The first node that is not empty is unique.                               *)
LEMMA FirstIsUnique ==
    ASSUME Types, graph > 0, NEW b \in 1 .. Len(Nodes) + 1, NEW k, First(b, k)
    PROVE  /\ \A j : First(b, j) => j = k
           /\ ~Gap(b, Len(Nodes) + 1)
           /\ k \in b .. Len(Nodes) /\ k \in Nat /\ b \in Nat
<1>1. Len(Nodes) \in Nat
  BY NodesType
<1>2. k \in b .. Len(Nodes) /\ Nodes[k] # "empty" /\ Gap(b, k)
  BY DEF First
<1>3. ASSUME NEW j, First(b, j) PROVE j = k
  <2>1. j \in b .. Len(Nodes) /\ Nodes[j] # "empty" /\ Gap(b, j)
    BY <1>3 DEF First
  <2> QED
    BY <1>1, <1>2, <2>1 DEF Gap
<1> QED
  BY <1>1, <1>2, <1>3 DEF Gap

(* What is complete stays complete.                                          *)
LEMMA CompleteStays ==
    ASSUME work \subseteq work', UNCHANGED <<graph, n_graph>>
    PROVE  /\ \A k : Complete(k) => Complete(k)'
           /\ \A b : Before(b) => Before(b)'
           /\ Nodes' = Nodes /\ Active' = Active
BY DEF Complete, Before, Nodes, Active

(* The abort does not concern the stage that starts at node b.               *)
AbortApart(b) == abort' = abort \/ (abort # b /\ abort' # b)

(* A thread that stays where it is keeps its place in the stage.             *)
LEMMA InNodeStays ==
    ASSUME NEW u, NEW b, InNode(u, b), AbortApart(b), work \subseteq work',
           UNCHANGED <<graph, n_graph>>, At(u)' = At(u),
           node'[u] = node[u], return'[u] = return[u], mine'[u] = mine[u],
           u = 0 => current_chunk' = current_chunk
    PROVE  InNode(u, b)'
<1>1. Nodes' = Nodes
  BY DEF Nodes
<1>2. \A k, kind, what : Did(u, b, k, kind, what) => Did(u, b, k, kind, what)'
  BY <1>1 DEF Did, First, Gap, AbortApart
<1>3. \A i, j : Gap(i, j) => Gap(i, j)'
  BY <1>1 DEF Gap
<1>4. Held(u)' = Held(u)
  BY DEF Held
<1> QED
  BY <1>1, <1>2, <1>3, <1>4 DEF InNode, Unstarted, Walking, Quantizing, Quantized, Sharing,
     Shared, PastLast, Leaving, AbortApart
LEMMA InChunkStays ==
    ASSUME NEW u, NEW b, InChunk(u, b), UNCHANGED <<graph, n_graph>>,
           At(u)' = At(u), node'[u] = node[u], return'[u] = return[u]
    PROVE  InChunk(u, b)'
<1>1. Nodes' = Nodes /\ Held(u)' = Held(u)
  BY DEF Nodes, Held
<1> QED
  BY <1>1 DEF InChunk, Multiplied, LastNode, LastLeft

(* A step of one thread within a stage                                       *)
Others(t) ==
    \A u \in Threads : u # t =>
        /\ At(u)' = At(u) /\ node'[u] = node[u] /\ return'[u] = return[u]
        /\ mine'[u] = mine[u] /\ last_graph'[u] = last_graph[u]

(* Only a worker that sees the new graph enters it.                          *)
LEMMA SeenStays ==
    ASSUME Types, Seen, NEW t \in Threads, Others(t), UNCHANGED n_graph,
           t # 0 /\ At(t)' \notin Polling => last_graph'[t] = n_graph
    PROVE  Seen'
<1>1. Active' = Active
  BY DEF Active
<1> QED
  BY <1>1, ActiveType DEF Seen, Others

(* The stage of a node lasts while one thread moves within it ...            *)
LEMMA NodeStageStays ==
    ASSUME Types, NEW b, NodeStage(b), NEW t \in Threads, Others(t),
           UNCHANGED <<graph, n_graph>>, work \subseteq work', AbortApart(b),
           t # 0 => current_chunk' = current_chunk,
           t \in Active => InNode(t, b)',
           t # 0 /\ At(t)' \notin Polling => last_graph'[t] = n_graph,
           \A w \in work' : w \in work \/ (First(b, w[1]) /\ abort' # b /\ w[2] \notin Chunks),
           abort' = abort \/ AbortAfter(b)'
    PROVE  NodeStage(b)'
<1>1. Nodes' = Nodes /\ Active' = Active /\ Before(b)'
  BY CompleteStays DEF NodeStage
<1>2. \A u \in Active : InNode(u, b)'
  <2> SUFFICES ASSUME NEW u \in Active, u # t PROVE InNode(u, b)'
    OBVIOUS
  <2>1. u \in Threads /\ InNode(u, b)
    BY ActiveType DEF NodeStage
  <2>2. At(u)' = At(u) /\ node'[u] = node[u] /\ return'[u] = return[u] /\ mine'[u] = mine[u]
    BY <2>1 DEF Others
  <2>3. u = 0 => current_chunk' = current_chunk
    OBVIOUS
  <2> QED
    BY <2>1, <2>2, <2>3, InNodeStays
<1>3. Seen'
  BY SeenStays DEF NodeStage
<1>4. \A k : First(b, k)' <=> First(b, k)
  BY <1>1 DEF First, Gap
<1>5. \A w \in work' : w[1] < b \/ (First(b, w[1])' /\ abort' # b /\ w[2] \notin Chunks)
  BY <1>4 DEF NodeStage, AbortApart
<1>6. abort' \in {0, b} \/ AbortAfter(b)'
  BY <1>1, <1>4 DEF NodeStage, AbortAfter
<1> QED
  BY <1>1, <1>2, <1>3, <1>5, <1>6 DEF NodeStage

(* ... and so does the stage of its chunks.                                  *)
LEMMA ChunkStageStays ==
    ASSUME Types, NEW b, ChunkStage(b), NEW t \in Threads, Others(t),
           UNCHANGED <<graph, n_graph>>, work \subseteq work',
           t \in Active => InChunk(t, b)',
           t # 0 /\ At(t)' \notin Polling => last_graph'[t] = n_graph,
           \A w \in work' : w \in work \/ w[1] = b,
           abort' \in {0, b + 1},
           ChunksShared(b)'
    PROVE  ChunkStage(b)'
<1>1. Nodes' = Nodes /\ Active' = Active /\ Before(b)'
  BY CompleteStays DEF ChunkStage
<1>2. \A u \in Active : InChunk(u, b)'
  <2> SUFFICES ASSUME NEW u \in Active, u # t PROVE InChunk(u, b)'
    OBVIOUS
  <2>1. u \in Threads /\ InChunk(u, b)
    BY ActiveType DEF ChunkStage
  <2> QED
    BY <2>1, InChunkStays DEF Others
<1>3. Seen'
  BY SeenStays DEF ChunkStage
<1>4. \A w \in work' : w[1] <= b
  <2>1. b \in Int
    BY DEF ChunkStage
  <2> QED
    BY <2>1 DEF ChunkStage
<1> QED
  BY <1>1, <1>2, <1>3, <1>4 DEF ChunkStage

(* The chunks are not concerned by a step that leaves the takers alone.      *)
LEMMA ChunksStay ==
    ASSUME Types, NEW b, ChunksShared(b), NEW t \in Threads, Others(t),
           UNCHANGED <<n_graph, work, current_chunk>>,
           At(t) # "chunk", At(t)' # "chunk",
           At(t)' \in {"fetch"} \/ At(t) # "fetch"
    PROVE  ChunksShared(b)'
<1>1. Active' = Active /\ Active \subseteq Threads
  BY ActiveType DEF Active
<1>2. Takers' = Takers /\ \A u \in Takers : mine'[u] = mine[u]
  BY <1>1 DEF Takers, Others
<1>3. \A u \in Active : At(u)' \notin {"chunk", "fetch"} => At(u) \notin {"chunk", "fetch"}
  BY <1>1 DEF Others
<1> QED
  BY <1>1, <1>2, <1>3 DEF ChunksShared
-----------------------------------------------------------------------------
(* The end of a barrier: all active threads go on together, to the next      *)
(* stage.                                                                    *)
GoOn ==
    /\ \A u \in Active : Held(u) /\ At(u)' = return[u]
    /\ UNCHANGED <<graph, n_graph, work, abort, node, return, mine, current_chunk, last_graph>>

(* The places of a thread that waits at the barrier                          *)
LEMMA HeldPlaces ==
    ASSUME NEW u, NEW b, Held(u), InNode(u, b)
    PROVE  Quantized(u, b) \/ Shared(u, b) \/ Leaving(u, b)
<1>1. At(u) \in Barrier
  BY DEF Held
<1>2. At(u) \notin Polling /\ At(u) \notin {"node", "quantize", "after"}
  BY <1>1 DEF Barrier, Polling, Asleep
<1> QED
  BY <1>2 DEF InNode, Unstarted, Walking, Quantizing, Sharing, PastLast

(* ... after the chunks                                                      *)
LEMMA HeldChunkPlaces ==
    ASSUME NEW u, NEW b, Held(u), InChunk(u, b)
    PROVE  Multiplied(u, b) \/ LastLeft(u, b)
BY DEF InChunk, LastNode, Held, Barrier

(* Who goes on is at the label it asked for.                                 *)
LEMMA GoOnFrame ==
    ASSUME Types, GoOn
    PROVE  /\ Nodes' = Nodes /\ Active' = Active
           /\ \A b : Before(b)' <=> Before(b)
           /\ \A k : Complete(k)' <=> Complete(k)
           /\ \A i, j : Gap(i, j)' <=> Gap(i, j)
           /\ \A i, j : First(i, j)' <=> First(i, j)
<1>1. UNCHANGED <<graph, n_graph, work>>
  BY DEF GoOn
<1> QED
  BY <1>1 DEF Nodes, Active, Complete, Before, Gap, First

(* The nodes up to the first one from b on are complete when it is.          *)
LEMMA BeforeNext ==
    ASSUME NEW b \in Nat, NEW k \in Nat, Before(b), b <= k, Gap(b, k)
    PROVE  /\ Before(k)
           /\ Complete(k) => Before(k + 1)
<1>1. \A i \in b .. k - 1 : Complete(i)
  BY DEF Gap, Complete
<1>2. \A i \in 1 .. k - 1 : i \in 1 .. b - 1 \/ i \in b .. k - 1
  OBVIOUS
<1>3. Before(k)
  BY <1>1, <1>2 DEF Before
<1>4. \A i \in 1 .. (k + 1) - 1 : i \in 1 .. k - 1 \/ i = k
  OBVIOUS
<1> QED
  BY <1>3, <1>4 DEF Before

(* From the quantized matrix to its multiplication                           *)
LEMMA GoOnToChunks ==
    ASSUME Types, graph > 0, NEW b \in 1 .. Len(Nodes) + 1, NodeStage(b), GoOn,
           Quantized(0, b), NEW k, k = node[0]
    PROVE  ChunkStage(k)'
<1>1. First(b, k) /\ Nodes[k] = "mul_mat" /\ abort # b
  BY DEF Quantized, Did
<1>2. /\ k \in b .. Len(Nodes) /\ k \in Nat /\ b \in Nat /\ Len(Nodes) \in Nat
      /\ \A j : First(b, j) => j = k
      /\ ~Gap(b, Len(Nodes) + 1)
  BY <1>1, FirstIsUnique, NodesType
<1>3. ASSUME NEW u \in Active
      PROVE  Quantized(u, b) /\ node[u] = k
  <2>1. Quantized(u, b) \/ Shared(u, b) \/ Leaving(u, b)
    BY HeldPlaces DEF GoOn, NodeStage
  <2>2. ~Shared(u, b)
    BY <1>1, <1>2 DEF Shared, Did
  <2>3. ~Leaving(u, b)
    BY <1>1, <1>2 DEF Leaving, Did
  <2> QED
    BY <2>1, <2>2, <2>3, <1>2 DEF Quantized, Did
<1>4. \A u \in Active : At(u)' = "chunk"
  BY <1>3 DEF GoOn, Quantized
<1>5. \A u \in Active : mine[u] = u /\ <<k, Wdata, u>> \in work
  BY <1>3 DEF Quantized, Did
<1>6. 0 \in Active /\ current_chunk = n_graph.threads
  BY <1>3, ActiveType DEF NodeStage, Quantized
<1>7. Before(k)
  BY <1>1, <1>2, BeforeNext DEF First, NodeStage
<1>8. \A w \in work : w[1] <= k /\ (w[1] = k => w[2] \notin Chunks)
  <2>1. \A w \in work : w[1] \in Nat
    BY EachType
  <2> QED
    BY <1>2, <2>1 DEF NodeStage
<1>9. abort = 0
  BY <1>1, <1>2 DEF NodeStage, AbortAfter
<1>10. ChunksShared(k)'
  <2>1. Takers' = Active
    BY <1>4, GoOnFrame DEF Takers
  <2>2. \A c \in Chunks : c < n_graph.threads => c \in Active
    BY ActiveType, EachType, PoolOK DEF Chunks
  <2>3. \A u \in Active : u < n_graph.threads /\ u \in Nat /\ n_graph.threads \in Nat
    BY ActiveType, EachType, ThreadZero
  <2>4. UNCHANGED <<n_graph, work, mine, current_chunk>> /\ Active' = Active
    BY GoOnFrame DEF GoOn
  <2>5. ChunksShared(k)' <=>
          /\ current_chunk >= n_graph.threads
          /\ \A t \in Active :
               /\ mine[t] < current_chunk
               /\ mine[t] < n_graph.threads => mine[t] = t
               /\ mine[t] >= n_graph.threads /\ mine[t] < NChunks =>
                    \A w \in work : w[1] = k => w[2] # mine[t]
          /\ \A t, u \in Active : mine[t] = mine[u] => t = u
          /\ \A w \in work : w[1] = k /\ w[2] \in Chunks =>
               w[2] < current_chunk /\ (w[2] < n_graph.threads => w[3] = w[2])
          /\ \A c \in Chunks : c < current_chunk =>
               \/ \E t \in Active : <<k, c, t>> \in work
               \/ \E t \in Active : mine[t] = c
          /\ \A t \in Active : At(t)' \notin {"chunk", "fetch"} =>
               n_graph.threads >= NChunks \/ current_chunk >= NChunks
    BY <2>1, <2>4 DEF ChunksShared, GoOn
  <2>6. ASSUME NEW t \in Active
        PROVE  mine[t] < n_graph.threads /\ ~(mine[t] >= n_graph.threads)
    <3>1. mine[t] = t
      BY <1>5
    <3>2. t \in Nat /\ n_graph.threads \in Nat /\ t < n_graph.threads
      BY <2>3
    <3> QED
      BY <3>1, <3>2
  <2>7. \A c \in Chunks : c < n_graph.threads => \E t \in Active : mine[t] = c
    BY <1>5, <2>2
  <2>8. \A t \in Active : At(t)' \in {"chunk", "fetch"}
    BY <1>4
  <2>9. current_chunk >= n_graph.threads
    BY <1>6, <2>3
  <2> QED
    BY <1>5, <1>6, <1>8, <2>5, <2>6, <2>7, <2>8, <2>9
<1>11. \A u \in Active : InChunk(u, k)' /\ <<k, Wdata, u>> \in work'
  BY <1>3, <1>4, <1>5 DEF InChunk, GoOn
<1>12. Seen'
  <2>1. \A u \in Active : u # 0 => At(u) \notin Polling
    BY DEF GoOn, Held, Barrier, Polling, Asleep
  <2> QED
    BY <2>1, GoOnFrame DEF Seen, NodeStage, GoOn
<1>13. /\ Nodes' = Nodes /\ Active' = Active /\ Before(k)'
       /\ UNCHANGED <<n_graph, work, abort>>
  BY <1>7, GoOnFrame DEF GoOn
<1>14. n_graph.threads > 0 /\ k \in 1 .. Len(Nodes)
  BY <1>2 DEF NodeStage
<1> QED
  BY <1>1, <1>8, <1>9, <1>10, <1>11, <1>12, <1>13, <1>14 DEF ChunkStage

(* Whoever goes on has seen the graph.                                       *)
LEMMA GoOnSeen ==
    ASSUME Types, Seen, GoOn
    PROVE  /\ Seen'
           /\ \A u \in Active : u # 0 => last_graph'[u] = n_graph'
<1>1. \A u \in Active : At(u) \notin Polling
  BY DEF GoOn, Held, Barrier, Polling, Asleep
<1>2. \A u \in Active : u # 0 => last_graph'[u] = n_graph'
  BY <1>1 DEF Seen, GoOn
<1> QED
  BY <1>2, GoOnFrame DEF Seen

(* From a node that is done to the next one                                  *)
LEMMA GoOnToNode ==
    ASSUME Types, graph > 0, NEW b \in 1 .. Len(Nodes) + 1, NodeStage(b), GoOn,
           Shared(0, b), NEW k, node[0] = k
    PROVE  k \in 1 .. Len(Nodes) + 1 /\ NodeStage(k)'
<1> DEFINE j == k - 1
<1>1. First(b, j) /\ Nodes[j] = "other" /\ abort # b /\ k <= Len(Nodes)
  BY DEF Shared, Did
<1>2. /\ j \in b .. Len(Nodes) /\ j \in Nat /\ b \in Nat /\ Len(Nodes) \in Nat
      /\ \A i : First(b, i) => i = j
      /\ ~Gap(b, Len(Nodes) + 1)
  BY <1>1, FirstIsUnique, NodesType
<1>3. k \in Nat /\ k = j + 1 /\ 0 \in Active
  <2>1. node[0] \in Nat
    BY EachType, ThreadZero
  <2>2. 0 \in Active
    BY ActiveType DEF NodeStage
  <2> QED
    BY <2>1, <2>2
<1>4. ASSUME NEW u \in Active
      PROVE  Shared(u, b) /\ node[u] = k
  <2>1. Quantized(u, b) \/ Shared(u, b) \/ Leaving(u, b)
    BY HeldPlaces DEF GoOn, NodeStage
  <2>2. ~Quantized(u, b)
    BY <1>1, <1>2 DEF Quantized, Did
  <2>3. ~Leaving(u, b)
    <3>1. SUFFICES ASSUME Did(u, b, Len(Nodes), "other", Share) PROVE FALSE
      BY <1>1, <1>2 DEF Leaving
    <3>2. Len(Nodes) = j
      BY <3>1, <1>2 DEF Did
    <3> QED
      BY <3>2, <1>1, <1>2, <1>3
  <2>4. node[u] \in Nat
    BY ActiveType, EachType
  <2>5. Shared(u, b)
    BY <2>1, <2>2, <2>3
  <2>6. node[u] - 1 = j
    BY <2>5, <1>2 DEF Shared, Did
  <2> QED
    BY <2>4, <2>5, <2>6, <1>3
<1>5. \A u \in Active : At(u)' = "node" /\ node'[u] = k
  BY <1>4 DEF GoOn, Shared
<1>6. \A u \in Active : <<j, Share, u>> \in work
  BY <1>4 DEF Shared, Did
<1>7. Before(k)
  <2>1. Complete(j)
    BY <1>1, <1>6 DEF Complete
  <2> QED
    BY <1>1, <1>2, <1>3, <2>1, BeforeNext DEF First, NodeStage
<1>8. \A w \in work : w[1] < k
  <2>1. \A w \in work : w[1] \in Nat
    BY EachType
  <2> QED
    BY <1>2, <1>3, <2>1 DEF NodeStage
<1>9. abort \in {0, k}
  BY <1>1, <1>2, <1>3 DEF NodeStage, AbortAfter
<1>10. /\ Nodes' = Nodes /\ Active' = Active /\ Before(k)' /\ Seen'
       /\ UNCHANGED <<n_graph, work, abort>>
  BY <1>7, GoOnFrame, GoOnSeen DEF GoOn, NodeStage
<1>11. \A u \in Active : InNode(u, k)'
  <2>1. Gap(k, k)'
    BY <1>3 DEF Gap
  <2> QED
    BY <1>1, <1>2, <1>3, <1>5, <1>10, <2>1 DEF InNode, Walking
<1>12. n_graph.threads > 0 /\ k \in 1 .. Len(Nodes) + 1
  BY <1>1, <1>2, <1>3 DEF NodeStage
<1> QED
  BY <1>8, <1>9, <1>10, <1>11, <1>12 DEF NodeStage

(* From the multiplication to the next node                                  *)
LEMMA ChunksComplete ==
    ASSUME Types, NEW b, ChunkStage(b), \A u \in Active : At(u) \notin {"chunk", "fetch"}
    PROVE  b \in Nat /\ Complete(b) /\ Before(b + 1)
<1>1. b \in Nat /\ Nodes[b] = "mul_mat" /\ 0 \in Active /\ ChunksShared(b) /\ Before(b)
  BY ActiveType DEF ChunkStage
<1>2. n_graph.threads >= NChunks \/ current_chunk >= NChunks
  BY <1>1 DEF ChunksShared
<1>3. \A c \in Chunks : c < current_chunk
  BY <1>1, <1>2, EachType, PoolOK DEF ChunksShared, Chunks
<1>4. \A c \in Chunks : \E t \in Active : <<b, c, t>> \in work
  BY <1>1, <1>3 DEF ChunksShared, Takers
<1>5. Complete(b)
  BY <1>1, <1>4, ActiveType DEF Complete
<1>6. Gap(b, b)
  BY <1>1 DEF Gap
<1> QED
  BY <1>1, <1>5, <1>6, BeforeNext

(* From the chunks to the next node                                          *)
LEMMA GoOnFromChunks ==
    ASSUME Types, graph > 0, NEW b \in 1 .. Len(Nodes), ChunkStage(b), GoOn,
           Multiplied(0, b)
    PROVE  b + 1 \in 1 .. Len(Nodes) + 1 /\ NodeStage(b + 1)'
<1>1. b \in Nat /\ Len(Nodes) \in Nat /\ b < Len(Nodes)
  BY NodesType DEF Multiplied
<1>2. ASSUME NEW u \in Active
      PROVE  Multiplied(u, b)
  BY <1>1, HeldChunkPlaces DEF GoOn, ChunkStage, LastLeft
<1>3. \A u \in Active : At(u)' = "node" /\ node'[u] = b + 1
  BY <1>2 DEF GoOn, Multiplied
<1>4. \A u \in Active : At(u) \notin {"chunk", "fetch"}
  BY DEF GoOn, Held, Barrier
<1>5. Before(b + 1)
  BY <1>4, ChunksComplete
<1>6. \A w \in work : w[1] < b + 1
  <2>1. \A w \in work : w[1] \in Nat
    BY EachType
  <2> QED
    BY <1>1, <2>1 DEF ChunkStage
<1>7. /\ Nodes' = Nodes /\ Active' = Active /\ Before(b + 1)' /\ Seen'
      /\ UNCHANGED <<n_graph, work, abort>>
  BY <1>5, GoOnFrame, GoOnSeen DEF GoOn, ChunkStage
<1>8. \A u \in Active : InNode(u, b + 1)'
  <2>1. Gap(b + 1, b + 1)'
    BY <1>1 DEF Gap
  <2> QED
    BY <1>1, <1>3, <1>7, <2>1 DEF InNode, Walking
<1>9. n_graph.threads > 0 /\ b + 1 \in 1 .. Len(Nodes) + 1 /\ abort \in {0, b + 1}
  BY <1>1 DEF ChunkStage
<1> QED
  BY <1>6, <1>7, <1>8, <1>9 DEF NodeStage

(* From the last barrier home                                                *)
LEMMA HomeIsOutside ==
    ASSUME Types, n_graph.threads > 0, Seen, GoOn, \A u \in Active : return[u] = Home(u),
           Computed
    PROVE  Outside'
<1>1. Active' = Active /\ 0 \in Active
  BY ActiveType, GoOnFrame
<1>2. \A u \in Active : At(u)' = Home(u)
  BY DEF GoOn
<1>3. At(0)' = "idle"
  BY <1>1, <1>2 DEF Home
<1>4. \A u \in Active : u # 0 => At(u)' \in Polling /\ last_graph'[u] = n_graph'
  BY <1>2, GoOnSeen DEF Home, Polling
<1>5. Computed'
  <2>1. UNCHANGED <<graph, n_graph, abort, work>>
    BY DEF GoOn
  <2> QED
    BY <2>1, GoOnFrame DEF Computed
<1> QED
  BY <1>1, <1>3, <1>4, <1>5 DEF Outside, Driving

(* From the last node out of the graph                                       *)
LEMMA GoOnHome ==
    ASSUME Types, graph > 0, NEW b \in 1 .. Len(Nodes) + 1, NodeStage(b), GoOn,
           Leaving(0, b)
    PROVE  Outside'
<1>1. 0 \in Active /\ b \in Nat /\ Len(Nodes) \in Nat /\ Before(b)
  BY ActiveType, NodesType DEF NodeStage
<1>2. ASSUME NEW k, First(b, k), abort # b
      PROVE  k = Len(Nodes) /\ Nodes[k] = "other" /\ Did(0, b, k, "other", Share)
  <2>1. (\A j : First(b, j) => j = k) /\ ~Gap(b, Len(Nodes) + 1)
    BY <1>2, FirstIsUnique
  <2>2. Did(0, b, Len(Nodes), "other", Share)
    BY <1>2, <2>1 DEF Leaving
  <2> QED
    BY <2>1, <2>2 DEF Did
<1>3. ASSUME NEW u \in Active
      PROVE  Leaving(u, b)
  <2>1. Quantized(u, b) \/ Shared(u, b) \/ Leaving(u, b)
    BY HeldPlaces DEF GoOn, NodeStage
  <2>2. ~Quantized(u, b)
    <3>1. SUFFICES ASSUME Quantized(u, b) PROVE FALSE
      OBVIOUS
    <3> QED
      BY <3>1, <1>2 DEF Quantized, Did
  <2>3. ~Shared(u, b)
    <3>1. SUFFICES ASSUME Shared(u, b) PROVE FALSE
      OBVIOUS
    <3>2. node[u] - 1 = Len(Nodes) /\ node[u] <= Len(Nodes) /\ node[u] \in Nat
      BY <3>1, <1>2, ActiveType, EachType DEF Shared, Did
    <3> QED
      BY <3>2, <1>1
  <2> QED
    BY <2>1, <2>2, <2>3
<1>4. \A w \in work : w[1] \in Nat
  BY EachType
<1>5. abort \in Nat
  BY EachType
<1>6. CASE abort = b
  <2>1. \A w \in work : w[1] < abort
    BY <1>6 DEF NodeStage
  <2>2. \A k \in 1 .. Len(Nodes) : k < abort => Complete(k)
    BY <1>1, <1>6 DEF Before
  <2>3. abort # 0
    BY <1>6
  <2>4. Computed
    BY <2>1, <2>2, <2>3 DEF Computed
  <2> QED
    BY <1>3, <2>4, HomeIsOutside DEF NodeStage, Leaving
<1>7. CASE abort # b /\ Gap(b, Len(Nodes) + 1)
  <2>1. ~ \E k : First(b, k)
    BY <1>7, FirstIsUnique
  <2>2. abort = 0
    BY <1>7, <2>1 DEF NodeStage, AbortAfter
  <2>3. Before(Len(Nodes) + 1)
    BY <1>1, <1>7, BeforeNext
  <2>4. Computed
    BY <1>1, <2>2, <2>3 DEF Computed, Before
  <2> QED
    BY <1>3, <2>4, HomeIsOutside DEF NodeStage, Leaving
<1>8. CASE abort # b /\ Did(0, b, Len(Nodes), "other", Share)
  <2> DEFINE k == Len(Nodes)
  <2>1. First(b, k) /\ Nodes[k] = "other" /\ k \in Nat
    BY <1>1, <1>8 DEF Did
  <2>2. /\ b <= k /\ Gap(b, k) /\ ~Gap(b, k + 1)
        /\ \A j : First(b, j) => j = k
    BY <2>1, <1>1, FirstIsUnique DEF First
  <2>3. \A u \in Active : <<k, Share, u>> \in work
    BY <1>3, <1>8, <2>2 DEF Leaving, Did
  <2>4. Complete(k)
    BY <2>1, <2>3 DEF Complete
  <2>5. Before(k + 1)
    BY <1>1, <2>1, <2>2, <2>4, BeforeNext
  <2>6. abort = 0 \/ abort = k + 1
    BY <1>8, <2>2 DEF NodeStage, AbortAfter
  <2>7. \A w \in work : w[1] < k + 1
    BY <1>1, <1>4, <2>1, <2>2 DEF NodeStage
  <2>8. Computed
    BY <1>1, <2>1, <2>5, <2>6, <2>7 DEF Computed, Before
  <2> QED
    BY <1>3, <2>8, HomeIsOutside DEF NodeStage, Leaving
<1> QED
  BY <1>6, <1>7, <1>8 DEF Leaving

(* From the last chunks out of the graph                                     *)
LEMMA GoOnHomeFromChunks ==
    ASSUME Types, graph > 0, NEW b \in 1 .. Len(Nodes), ChunkStage(b), GoOn,
           LastLeft(0, b)
    PROVE  Outside'
<1>1. b \in Nat /\ Len(Nodes) \in Nat /\ b = Len(Nodes)
  BY NodesType DEF LastLeft
<1>2. \A u \in Active : LastLeft(u, b)
  BY <1>1, HeldChunkPlaces DEF GoOn, ChunkStage, Multiplied
<1>3. Before(b + 1)
  <2>1. \A u \in Active : At(u) \notin {"chunk", "fetch"}
    BY DEF GoOn, Held, Barrier
  <2> QED
    BY <2>1, ChunksComplete
<1>4. \A w \in work : w[1] < b + 1
  <2>1. \A w \in work : w[1] \in Nat
    BY EachType
  <2> QED
    BY <1>1, <2>1 DEF ChunkStage
<1>5. Computed
  BY <1>1, <1>3, <1>4 DEF ChunkStage, Computed, Before
<1> QED
  BY <1>2, <1>5, HomeIsOutside DEF ChunkStage, LastLeft

(* All four together                                                         *)
LEMMA StageGoesOn ==
    ASSUME Types, Stage, ~Outside, GoOn
    PROVE  Stage'
<1>1. graph > 0 /\ Len(Nodes) \in Nat
  BY NodesType DEF Stage
<1>2. PICK b \in 1 .. Len(Nodes) + 1 : NodeStage(b) \/ ChunkStage(b)
  BY DEF Stage
<1>3. graph' > 0 /\ Nodes' = Nodes
  BY <1>1, GoOnFrame DEF GoOn
<1>4. 0 \in Active
  BY <1>2, ActiveType DEF NodeStage, ChunkStage
<1>5. CASE NodeStage(b)
  <2>1. Quantized(0, b) \/ Shared(0, b) \/ Leaving(0, b)
    BY <1>4, <1>5, HeldPlaces DEF GoOn, NodeStage
  <2>2. CASE Quantized(0, b)
    <3>1. PICK k : k = node[0]
      OBVIOUS
    <3>2. ChunkStage(k)'
      BY <1>1, <1>5, <2>2, <3>1, GoOnToChunks
    <3>3. k \in 1 .. Len(Nodes) + 1
      BY <1>1, <1>3, <3>2 DEF ChunkStage
    <3> QED
      BY <1>3, <3>2, <3>3 DEF Stage
  <2>3. CASE Shared(0, b)
    <3>1. PICK k : k = node[0]
      OBVIOUS
    <3>2. k \in 1 .. Len(Nodes) + 1 /\ NodeStage(k)'
      BY <1>1, <1>5, <2>3, <3>1, GoOnToNode
    <3> QED
      BY <1>3, <3>2 DEF Stage
  <2>4. CASE Leaving(0, b)
    BY <1>1, <1>5, <2>4, GoOnHome DEF Stage
  <2> QED
    BY <2>1, <2>2, <2>3, <2>4
<1>6. CASE ChunkStage(b)
  <2>1. Multiplied(0, b) \/ LastLeft(0, b)
    BY <1>4, <1>6, HeldChunkPlaces DEF GoOn, ChunkStage
  <2>2. b \in 1 .. Len(Nodes)
    BY <1>6 DEF ChunkStage
  <2>3. CASE Multiplied(0, b)
    <3>1. b + 1 \in 1 .. Len(Nodes) + 1 /\ NodeStage(b + 1)'
      BY <1>1, <1>6, <2>2, <2>3, GoOnFromChunks
    <3> QED
      BY <1>3, <3>1 DEF Stage
  <2>4. CASE LastLeft(0, b)
    BY <1>1, <1>6, <2>2, <2>4, GoOnHomeFromChunks DEF Stage
  <2> QED
    BY <2>1, <2>3, <2>4
<1> QED
  BY <1>2, <1>5, <1>6
-----------------------------------------------------------------------------
(* The steps of the barrier                                                  *)

(* Who is in the graph or at the barrier is active, and the graph is being   *)
(* computed.                                                                 *)
LEMMA WhoIsInside ==
    ASSUME Inv, NEW t \in Threads, At(t) \in Barrier \cup InGraph
    PROVE  t \in Active /\ ~Outside /\ graph > 0
<1>1. At(t) \notin Polling /\ At(t) \notin Driving
  BY DEF Barrier, InGraph, Polling, Driving, Asleep
<1>2. ~Outside
  <2>1. SUFFICES ASSUME Outside PROVE FALSE
    OBVIOUS
  <2>2. t # 0 /\ t \in Workers
    BY <1>1, <2>1 DEF Outside, Workers
  <2> QED
    BY <1>1, <2>1, <2>2 DEF Outside, Inv, OthersPoll
<1>3. graph > 0 /\ \E b \in 1 .. Len(Nodes) + 1 : NodeStage(b) \/ ChunkStage(b)
  BY <1>2 DEF Inv, Stage
<1>4. 0 \in Active
  BY <1>3, ActiveType DEF NodeStage, ChunkStage, Inv
<1>5. t \in Active
  BY <1>1, <1>4 DEF Inv, OthersPoll, Workers
<1> QED
  BY <1>2, <1>3, <1>5

(* A step that moves nobody                                                  *)
LEMMA NobodyMoves ==
    ASSUME Inv, \A u \in Threads : At(u)' = At(u),
           UNCHANGED <<graph, n_graph, n_barrier, n_barrier_passed, n_passed, current_chunk,
                       mine, work, abort, last_graph, node, return>>
    PROVE  BarrierOK' /\ OthersPoll' /\ ChunksOnce' /\ Stage'
<1>1. Types /\ 0 \in Threads /\ Active \subseteq Threads
  BY ThreadZero, ActiveType DEF Inv
<1>2. Active' = Active /\ Nodes' = Nodes
  BY DEF Active, Nodes
<1>3. BarrierOK'
  BY <1>1, BarrierFrame DEF Inv
<1>4. OthersPoll'
  BY <1>2 DEF Inv, OthersPoll, Workers
<1>5. ChunksOnce'
  BY DEF Inv, ChunksOnce
<1>6. Others(0)
  BY DEF Others
<1>7. ASSUME NEW b \in 1 .. Len(Nodes) + 1, NodeStage(b)
      PROVE  NodeStage(b)'
  <2>1. 0 \in Active => InNode(0, b)'
    <3>1. SUFFICES ASSUME 0 \in Active PROVE InNode(0, b)'
      OBVIOUS
    <3> QED
      BY <1>1, <1>7, <3>1, InNodeStays DEF NodeStage, AbortApart
  <2> QED
    BY <1>1, <1>6, <1>7, <2>1, NodeStageStays DEF AbortApart
<1>8. ASSUME NEW b \in 1 .. Len(Nodes) + 1, ChunkStage(b)
      PROVE  ChunkStage(b)'
  <2>1. 0 \in Active => InChunk(0, b)'
    BY <1>1, <1>8, InChunkStays DEF ChunkStage
  <2>2. ChunksShared(b)'
    <3>1. Takers' = Takers
      BY <1>1, <1>2 DEF Takers
    <3>2. \A u \in Active : At(u)' = At(u)
      BY <1>1
    <3>3. ChunksShared(b)
      BY <1>8 DEF ChunkStage
    <3>4. UNCHANGED <<mine, work, current_chunk, n_graph>>
      OBVIOUS
    <3> QED
      BY <1>2, <3>1, <3>2, <3>3, <3>4 DEF ChunksShared
  <2> QED
    BY <1>1, <1>6, <1>8, <2>1, <2>2, ChunkStageStays DEF ChunkStage
<1>9. Outside => Outside'
  <2>1. Computed => Computed'
    <3>1. \A k : Complete(k) => Complete(k)'
      BY CompleteStays
    <3> QED
      BY <1>2, <3>1 DEF Computed
  <2> QED
    BY <1>1, <1>2, <2>1 DEF Outside
<1> QED
  BY <1>2, <1>3, <1>4, <1>5, <1>7, <1>8, <1>9 DEF Inv, Stage

(* A step of one thread between the labels of the barrier                    *)
LEMMA StaysHeld ==
    ASSUME Inv, NEW t \in Threads, Held(t), Held(t)', Others(t),
           UNCHANGED <<graph, n_graph, current_chunk, mine, work, abort, last_graph, node,
                       return>>
    PROVE  OthersPoll' /\ ChunksOnce' /\ Stage'
<1>1. Types /\ t \in Active /\ ~Outside /\ graph > 0
  BY WhoIsInside DEF Held, Inv
<1>2. Active' = Active /\ Nodes' = Nodes
  BY DEF Active, Nodes
<1>3. OthersPoll'
  BY <1>1, <1>2 DEF Inv, OthersPoll, Others, Workers
<1>4. ChunksOnce'
  BY DEF Inv, ChunksOnce
<1>5. t # 0 => last_graph[t] = n_graph
  BY <1>1 DEF Inv, Stage, NodeStage, ChunkStage, Seen, Held, Barrier, Polling, Asleep
<1>6. ASSUME NEW b \in 1 .. Len(Nodes) + 1, NodeStage(b)
      PROVE  NodeStage(b)'
  <2>1. Quantized(t, b) \/ Shared(t, b) \/ Leaving(t, b)
    BY <1>1, <1>6, HeldPlaces DEF NodeStage
  <2>2. InNode(t, b)'
    BY <1>2, <2>1 DEF InNode, Quantized, Shared, Leaving, Did, First, Gap
  <2> QED
    BY <1>1, <1>5, <1>6, <2>2, NodeStageStays DEF AbortApart
<1>7. ASSUME NEW b \in 1 .. Len(Nodes) + 1, ChunkStage(b)
      PROVE  ChunkStage(b)'
  <2>1. Multiplied(t, b) \/ LastLeft(t, b)
    BY <1>1, <1>7, HeldChunkPlaces DEF ChunkStage
  <2>2. InChunk(t, b)'
    BY <1>2, <2>1 DEF InChunk, Multiplied, LastLeft
  <2>3. At(t) \notin {"chunk", "fetch"} /\ At(t)' # "chunk"
    BY DEF Held, Barrier
  <2>4. ChunksShared(b)'
    BY <1>1, <1>7, <2>3, ChunksStay DEF ChunkStage
  <2> QED
    BY <1>1, <1>5, <1>7, <2>2, <2>4, ChunkStageStays DEF ChunkStage
<1> QED
  BY <1>1, <1>2, <1>3, <1>4, <1>6, <1>7 DEF Inv, Stage

(* A thread enters the barrier; a single one goes on at once.                *)
LEMMA EnterStep ==
    ASSUME Inv, NEW t \in Threads, EnterBarrier(t)
    PROVE  BarrierOK' /\ OthersPoll' /\ ChunksOnce' /\ Stage'
<1>1. /\ pc[t] = "enter" /\ At(t) = "enter"
      /\ UNCHANGED <<graph, n_graph, n_barrier, n_barrier_passed, current_chunk, mine, work,
                     abort, last_graph, node, return>>
  BY DEF EnterBarrier, At, poolVars, opVars
<1>2. Types /\ t \in Active /\ ~Outside /\ graph > 0 /\ Active' = Active /\ BarrierOK
  BY <1>1, WhoIsInside DEF Barrier, Inv, Active
<1>3. return[t] \in {"node", "chunk", "top", "idle"} /\ Active \subseteq Threads
  BY <1>2, EachType, ActiveType
<1>4. CASE n_graph.threads = 1
  <2>1. pc' = [pc EXCEPT ![t] = return[t]] /\ n_passed' = n_passed
    BY <1>4 DEF EnterBarrier, Goto
  <2>2. At(t)' = return[t] /\ \A u \in Threads : u # t => At(u)' = At(u)
    BY <1>1, <1>2, <1>3, <2>1, AtMoves
  <2>3. Active = {t}
    BY <1>2, <1>4, ActiveType
  <2>4. GoOn
    BY <1>1, <2>2, <2>3 DEF GoOn, Held, Barrier
  <2>5. Stage'
    BY <1>2, <2>4, StageGoesOn DEF Inv
  <2>6. BarrierOK'
    BY <1>1, <1>2, <1>3, <2>1, <2>2, BarrierFrame DEF Counting
  <2>7. OthersPoll'
    BY <1>2, <2>2 DEF Inv, OthersPoll, Workers
  <2>8. ChunksOnce'
    BY <1>1 DEF Inv, ChunksOnce
  <2> QED
    BY <2>5, <2>6, <2>7, <2>8
<1>5. CASE n_graph.threads # 1
  <2>1. /\ pc' = [pc EXCEPT ![t] = "arrive"]
        /\ n_passed' = [n_passed EXCEPT ![t] = n_barrier_passed]
    BY <1>5 DEF EnterBarrier, Goto
  <2>2. /\ pc'[t] = "arrive" /\ n_passed'[t] = n_barrier_passed
        /\ \A u \in Threads : u # t => pc'[u] = pc[u] /\ n_passed'[u] = n_passed[u]
    BY <1>2, <2>1, EachType
  <2>3. At(t)' = "arrive" /\ \A u \in Threads : u # t => At(u)' = At(u)
    BY <1>1, <2>2 DEF At
  <2>4. Held(t) /\ Held(t)' /\ Others(t)
    BY <1>1, <2>3 DEF Held, Barrier, Others
  <2>5. OthersPoll' /\ ChunksOnce' /\ Stage'
    BY <1>1, <2>4, StaysHeld
  <2>6. Spinning' = Spinning
    BY <1>1, <1>2, <1>3, <2>3 DEF Spinning
  <2>7. \A u \in Threads : n_passed'[u] <= n_barrier_passed'
    BY <1>1, <1>2, <2>2, EachType DEF BarrierOK
  <2>8. BarrierOK'
    BY <1>1, <1>2, <1>3, <2>2, <2>3, <2>6, <2>7 DEF BarrierOK
  <2> QED
    BY <2>5, <2>8
<1> QED
  BY <1>4, <1>5

(* A thread is counted; the last one finds all others spinning.              *)
LEMMA ArriveStep ==
    ASSUME Inv, NEW t \in Threads, Arrive(t)
    PROVE  BarrierOK' /\ OthersPoll' /\ ChunksOnce' /\ Stage'
<1>1. /\ pc[t] = "arrive" /\ At(t) = "arrive" /\ n_barrier' = n_barrier + 1
      /\ UNCHANGED <<graph, n_graph, n_barrier_passed, n_passed, current_chunk, mine, work,
                     abort, last_graph, node, return>>
      /\ pc' = [pc EXCEPT ![t] = IF IsLast THEN "reset" ELSE "spin"]
  BY DEF Arrive, At, poolVars, opVars, Goto
<1>2. Types /\ t \in Active /\ Active' = Active /\ BarrierOK /\ Active \subseteq Threads
  BY <1>1, WhoIsInside, ActiveType DEF Barrier, Inv, Active
<1>3. n_passed[t] = n_barrier_passed
  BY <1>1, <1>2 DEF BarrierOK
<1>4. /\ pc'[t] = IF IsLast THEN "reset" ELSE "spin"
      /\ \A u \in Threads : u # t => pc'[u] = pc[u]
  BY <1>1, <1>2, EachType
<1>5. /\ At(t)' = IF IsLast THEN "reset" ELSE "spin"
      /\ \A u \in Threads : u # t => At(u)' = At(u)
  BY <1>1, <1>3, <1>4 DEF At
<1>6. Held(t) /\ Held(t)' /\ Others(t)
  BY <1>1, <1>5 DEF Held, Barrier, Others
<1>7. OthersPoll' /\ ChunksOnce' /\ Stage'
  BY <1>1, <1>6, StaysHeld
<1>8. t \notin Spinning /\ Spinning \subseteq Active \ {t}
  BY <1>1 DEF Spinning
<1>9. \A u \in Active : At(u) \notin {"reset", "release"}
  BY <1>1, <1>2, <1>8 DEF BarrierOK
<1>10. n_barrier = Cardinality(Spinning)
  BY <1>2, <1>9 DEF BarrierOK
<1>11. /\ IsFiniteSet(Active) /\ Cardinality(Active) = n_graph.threads
       /\ IsFiniteSet(Spinning) /\ IsFiniteSet(Active \ {t})
       /\ Cardinality(Active \ {t}) = n_graph.threads - 1
  <2>1. IsFiniteSet(Active) /\ Cardinality(Active) = n_graph.threads
    BY <1>2, ActiveType
  <2> QED
    BY <1>2, <1>8, <2>1, FS_RemoveElement, FS_Subset
<1>12. CASE IsLast
  <2>1. Spinning = Active \ {t}
    BY <1>8, <1>10, <1>11, <1>12, FS_Subset DEF IsLast
  <2>2. At(t)' = "reset" /\ Spinning' = Spinning
    BY <1>2, <1>5, <1>8, <1>12 DEF Spinning
  <2>3. \A u \in Active : u # t => At(u)' = "spin"
    BY <1>2, <1>5, <2>1 DEF Spinning
  <2>4. BarrierOK'
    BY <1>1, <1>2, <2>1, <2>2, <2>3 DEF BarrierOK
  <2> QED
    BY <1>7, <2>4
<1>13. CASE ~IsLast
  <2>1. At(t)' = "spin"
    BY <1>5, <1>13
  <2>2. Spinning' = Spinning \cup {t}
    BY <1>2, <1>5, <2>1 DEF Spinning
  <2>3. Cardinality(Spinning') = Cardinality(Spinning) + 1
    BY <1>8, <1>11, <2>2, FS_AddElement
  <2>4. \A u \in Active : At(u)' \notin {"reset", "release"}
    BY <1>2, <1>5, <1>9, <2>1
  <2>5. \A u \in Active : At(u)' = "arrive" => n_passed'[u] = n_barrier_passed'
    BY <1>1, <1>2, <1>5, <2>1 DEF BarrierOK
  <2>6. \A u \in Threads : n_passed'[u] <= n_barrier_passed'
    BY <1>1, <1>2 DEF BarrierOK
  <2>7. BarrierOK'
    BY <1>1, <1>2, <1>10, <2>3, <2>4, <2>5, <2>6 DEF BarrierOK
  <2> QED
    BY <1>7, <2>7
<1> QED
  BY <1>12, <1>13

(* The last thread empties the barrier before it lets the others go ...      *)
LEMMA ResetStep ==
    ASSUME Inv, NEW t \in Threads, ResetBarrier(t)
    PROVE  BarrierOK' /\ OthersPoll' /\ ChunksOnce' /\ Stage'
<1>1. /\ pc[t] = "reset" /\ At(t) = "reset" /\ n_barrier' = 0
      /\ UNCHANGED <<graph, n_graph, n_barrier_passed, n_passed, current_chunk, mine, work,
                     abort, last_graph, node, return>>
      /\ pc' = [pc EXCEPT ![t] = "release"]
  BY DEF ResetBarrier, At, poolVars, opVars, Goto
<1>2. Types /\ t \in Active /\ Active' = Active /\ BarrierOK /\ Active \subseteq Threads
  BY <1>1, WhoIsInside, ActiveType DEF Barrier, Inv, Active
<1>3. At(t)' = "release" /\ \A u \in Threads : u # t => At(u)' = At(u)
  BY <1>1, <1>2, AtMoves
<1>4. Held(t) /\ Held(t)' /\ Others(t)
  BY <1>1, <1>3 DEF Held, Barrier, Others
<1>5. OthersPoll' /\ ChunksOnce' /\ Stage'
  BY <1>1, <1>4, StaysHeld
<1>6. Spinning = Active \ {t}
  BY <1>1, <1>2 DEF BarrierOK
<1>7. Spinning' = Spinning
  BY <1>1, <1>2, <1>3 DEF Spinning
<1>8. \A u \in Active : u # t => At(u)' = "spin"
  BY <1>2, <1>3, <1>6 DEF Spinning
<1>9. BarrierOK'
  BY <1>1, <1>2, <1>3, <1>6, <1>7, <1>8 DEF BarrierOK
<1> QED
  BY <1>5, <1>9

(* ... and with n_barrier_passed all of them go on at once.                  *)
LEMMA ReleaseStep ==
    ASSUME Inv, NEW t \in Threads, Release(t)
    PROVE  BarrierOK' /\ OthersPoll' /\ ChunksOnce' /\ Stage'
<1>1. /\ pc[t] = "release" /\ At(t) = "release" /\ n_barrier_passed' = n_barrier_passed + 1
      /\ UNCHANGED <<graph, n_graph, n_barrier, n_passed, current_chunk, mine, work,
                     abort, last_graph, node, return>>
      /\ pc' = [pc EXCEPT ![t] = return[t]]
  BY DEF Release, At, poolVars, opVars, Goto
<1>2. Types /\ t \in Active /\ Active' = Active /\ BarrierOK /\ Active \subseteq Threads
      /\ ~Outside
  BY <1>1, WhoIsInside, ActiveType DEF Barrier, Inv, Active
<1>3. /\ pc'[t] = return[t] /\ \A u \in Threads : u # t => pc'[u] = pc[u]
      /\ \A u \in Threads : return[u] \in {"node", "chunk", "top", "idle"}
      /\ \A u \in Threads : n_passed[u] \in Nat /\ n_passed[u] <= n_barrier_passed
      /\ n_barrier_passed \in Nat
  BY <1>1, <1>2, EachType DEF BarrierOK
<1>4. Spinning = Active \ {t} /\ n_barrier = 0
  BY <1>1, <1>2 DEF BarrierOK
<1>5. At(t)' = return[t]
  BY <1>1, <1>3 DEF At
<1>6. ASSUME NEW u \in Active, u # t
      PROVE  At(u) = "spin" /\ At(u)' = return[u]
  <2>1. At(u) = "spin" /\ u \in Threads
    BY <1>2, <1>4, <1>6 DEF Spinning
  <2>2. pc[u] = "spin"
    BY <1>3, <2>1 DEF At
  <2>3. n_passed[u] # n_barrier_passed'
    BY <1>1, <1>3, <2>1
  <2> QED
    BY <1>1, <1>3, <1>6, <2>1, <2>2, <2>3 DEF At
<1>7. GoOn
  BY <1>1, <1>5, <1>6 DEF GoOn, Held, Barrier
<1>8. Stage'
  BY <1>2, <1>7, StageGoesOn DEF Inv
<1>9. OthersPoll'
  <2>1. SUFFICES ASSUME NEW u \in Workers, u \notin Active PROVE At(u)' \in Polling
    BY <1>2 DEF OthersPoll
  <2>2. At(u) \in Polling /\ u \in Threads /\ u # t
    BY <1>2, <2>1 DEF Inv, OthersPoll, Workers
  <2>3. CASE pc[u] = "spin"
    <3>1. n_passed[u] # n_barrier_passed /\ At(u) = return[u]
      BY <2>2, <2>3 DEF At, Polling, Asleep
    <3>2. n_passed[u] # n_barrier_passed'
      BY <1>1, <1>3, <2>2
    <3> QED
      BY <1>1, <1>3, <2>2, <2>3, <3>1, <3>2 DEF At
  <2>4. CASE pc[u] # "spin"
    BY <1>3, <2>2, <2>4 DEF At
  <2> QED
    BY <2>3, <2>4
<1>10. ChunksOnce'
  BY <1>1 DEF Inv, ChunksOnce
<1>11. BarrierOK'
  <2>1. \A u \in Active : At(u)' \in {"node", "chunk", "top", "idle"}
    BY <1>2, <1>3, <1>5, <1>6
  <2>2. Spinning' = {}
    BY <1>2, <2>1 DEF Spinning
  <2>3. \A u \in Threads : n_passed'[u] <= n_barrier_passed'
    BY <1>1, <1>3
  <2>4. Cardinality({}) = 0
    BY FS_EmptySet
  <2> QED
    BY <1>1, <1>2, <1>4, <2>1, <2>2, <2>3, <2>4 DEF BarrierOK
<1> QED
  BY <1>8, <1>9, <1>10, <1>11

(* A thread that finds the barrier passed went on when it was released.      *)
LEMMA SpinStep ==
    ASSUME Inv, NEW t \in Threads, Spin(t)
    PROVE  BarrierOK' /\ OthersPoll' /\ ChunksOnce' /\ Stage'
<1>1. /\ pc[t] = "spin" /\ At(t) = return[t] /\ pc' = [pc EXCEPT ![t] = return[t]]
      /\ UNCHANGED <<graph, n_graph, n_barrier, n_barrier_passed, n_passed, current_chunk,
                     mine, work, abort, last_graph, node, return>>
  BY DEF Spin, At, poolVars, barrierVars, opVars, Goto
<1>2. Types /\ return[t] # "spin"
  BY EachType DEF Inv
<1>3. \A u \in Threads : At(u)' = At(u)
  BY <1>1, <1>2, AtMoves
<1> QED
  BY <1>1, <1>3, NobodyMoves
-----------------------------------------------------------------------------
(* The steps in the graph                                                    *)

(* What every step of ggml_graph_compute_thread() leaves alone               *)
LEMMA GraphStepFrame ==
    ASSUME Types, NEW t \in Threads, GraphStep(t)
    PROVE  /\ UNCHANGED <<graph, n_graph, n_barrier, n_barrier_passed, n_passed, last_graph>>
           /\ pc[t] \in InGraph /\ At(t) = pc[t]
           /\ \A u \in Threads : u # t =>
                return'[u] = return[u] /\ node'[u] = node[u] /\ mine'[u] = mine[u]
           /\ \E l \in InGraph \cup {"enter"} :
                pc' = [pc EXCEPT ![t] = l] \/ (pc' = pc /\ l = pc[t])
<1> USE EachType DEF InGraph, At, poolVars, barrierVars, opVars, Goto, CallBarrier
<1>1. CASE NextNode(t)
  BY <1>1 DEF NextNode
<1>2. CASE FinishGraph(t)
  BY <1>2 DEF FinishGraph, LeaveGraph
<1>3. CASE Quantize(t)
  BY <1>3 DEF Quantize
<1>4. CASE Chunk(t)
  BY <1>4 DEF Chunk
<1>5. CASE FetchChunk(t)
  BY <1>5 DEF FetchChunk
<1>6. CASE AfterNode(t)
  BY <1>6 DEF AfterNode
<1> QED
  BY <1>1, <1>2, <1>3, <1>4, <1>5, <1>6 DEF GraphStep

(* A step in the graph is one of an active thread, and leaves the barrier    *)
(* alone.                                                                    *)
LEMMA GraphStepRest ==
    ASSUME Inv, NEW t \in Threads, GraphStep(t)
    PROVE  /\ Types /\ t \in Active /\ ~Outside /\ graph > 0 /\ Len(Nodes) \in Nat
           /\ Active' = Active /\ Nodes' = Nodes
           /\ Others(t) /\ At(t) = pc[t] /\ At(t)' = pc'[t]
           /\ t # 0 => last_graph'[t] = n_graph
           /\ node[t] \in Nat /\ mine[t] \in Nat
           /\ BarrierOK' /\ OthersPoll'
<1>1. /\ UNCHANGED <<graph, n_graph, n_barrier, n_barrier_passed, n_passed, last_graph>>
      /\ pc[t] \in InGraph /\ At(t) = pc[t]
  BY GraphStepFrame DEF Inv
<1>2. Types /\ t \in Active /\ ~Outside /\ graph > 0
  BY <1>1, WhoIsInside DEF Inv
<1>3. Active' = Active /\ Nodes' = Nodes
  BY <1>1 DEF Active, Nodes
<1>4. PICK l \in InGraph \cup {"enter"} : pc' = [pc EXCEPT ![t] = l]
  <2>1. pc = [pc EXCEPT ![t] = pc[t]]
    BY <1>2, EachType
  <2> QED
    BY <1>2, <2>1, GraphStepFrame
<1>5. /\ At(t)' = l /\ pc'[t] = l
      /\ \A u \in Threads : u # t => At(u)' = At(u)
  <2>1. l # "spin"
    BY <1>4 DEF InGraph
  <2>2. \A u \in Threads : u # t => return'[u] = return[u]
    BY <1>2, GraphStepFrame
  <2> QED
    BY <1>1, <1>2, <1>4, <2>1, <2>2, AtMoves, EachType
<1>6. Others(t)
  BY <1>1, <1>2, <1>5, GraphStepFrame DEF Others
<1>7. t # 0 => last_graph'[t] = n_graph
  BY <1>1, <1>2 DEF Inv, Stage, NodeStage, ChunkStage, Seen, InGraph, Polling, Asleep
<1>8. BarrierOK'
  <2>1. At(t) \notin Counting /\ At(t)' \notin Counting
    BY <1>1, <1>4, <1>5 DEF Counting, InGraph
  <2> QED
    BY <1>1, <1>2, <1>5, <2>1, BarrierFrame, ActiveType DEF Inv
<1>9. OthersPoll'
  BY <1>2, <1>3, <1>5 DEF Inv, OthersPoll, Workers
<1> QED
  BY <1>1, <1>2, <1>3, <1>5, <1>6, <1>7, <1>8, <1>9, EachType, NodesType

(* A step within a stage that starts at node b                               *)
LEMMA StepInNodeStage ==
    ASSUME Inv, NEW t \in Threads, GraphStep(t),
           NEW b \in 1 .. Len(Nodes) + 1, NodeStage(b),
           t # 0 => current_chunk' = current_chunk,
           abort' = abort \/ (AbortAfter(b)' /\ abort # b),
           work' = work \/ \E k, what : /\ work' = work \cup {<<k, what, t>>}
                                        /\ First(b, k) /\ abort' # b /\ what \notin Chunks,
           InNode(t, b)'
    PROVE  ChunksOnce' /\ Stage'
<1>1. /\ Types /\ graph > 0 /\ Others(t) /\ UNCHANGED <<graph, n_graph>>
      /\ Nodes' = Nodes /\ b \in Nat
      /\ t # 0 => last_graph'[t] = n_graph
  BY GraphStepRest, GraphStepFrame
<1>2. AbortApart(b)
  BY <1>1 DEF AbortApart, AbortAfter, First
<1>3. /\ work \subseteq work'
      /\ \A w \in work' : w \in work \/ (First(b, w[1]) /\ abort' # b /\ w[2] \notin Chunks)
  OBVIOUS
<1>4. NodeStage(b)'
  BY <1>1, <1>2, <1>3, NodeStageStays
<1>5. ChunksOnce'
  <2>1. Chunks' = Chunks
    BY DEF Chunks
  <2> QED
    BY <1>3, <2>1 DEF Inv, ChunksOnce
<1> QED
  BY <1>1, <1>4, <1>5 DEF Stage

(* Where a thread in the graph stands                                        *)
LEMMA PlaceInNode ==
    ASSUME NEW t, NEW b, At(t) \in InGraph, InNode(t, b)
    PROVE  /\ At(t) = "node" => Walking(t, b) \/ PastLast(t, b)
           /\ At(t) = "quantize" => Quantizing(t, b)
           /\ At(t) = "after" => Sharing(t, b)
           /\ At(t) \notin {"chunk", "fetch"}
<1>1. At(t) \notin Polling /\ ~Held(t)
  BY DEF InGraph, Polling, Asleep, Held, Barrier
<1> QED
  BY <1>1 DEF InNode, Unstarted, Walking, Quantizing, Quantized, Sharing, Shared, PastLast,
     Leaving

(* ... and in the stage of its chunks                                        *)
LEMMA PlaceInChunk ==
    ASSUME NEW t, NEW b, At(t) \in InGraph, InChunk(t, b)
    PROVE  /\ At(t) = "node" => LastNode(t, b)
           /\ At(t) # "quantize"
           /\ At(t) \in {"chunk", "fetch", "after"} => node[t] = b
<1>1. ~Held(t)
  BY DEF InGraph, Held, Barrier
<1> QED
  BY <1>1 DEF InChunk, Multiplied, LastNode, LastLeft

(* A thread skips an empty node, or does its share of another.               *)
LEMMA NextNodeStep ==
    ASSUME Inv, NEW t \in Threads, NextNode(t)
    PROVE  ChunksOnce' /\ Stage'
<1> DEFINE k == node[t]
<1>1. /\ GraphStep(t) /\ pc[t] = "node" /\ ~AtEnd(t) /\ At(t) \in InGraph
      /\ UNCHANGED <<current_chunk, mine, abort, return, graph>>
  BY GraphStepRest DEF GraphStep, NextNode, InGraph, poolVars
<1>2. /\ Types /\ t \in Active /\ ~Outside /\ graph > 0 /\ Len(Nodes) \in Nat /\ k \in Nat
      /\ Nodes' = Nodes /\ At(t) = pc[t] /\ At(t)' = pc'[t]
  BY <1>1, GraphStepRest
<1>3. k <= Len(Nodes) /\ abort # k
  BY <1>1, <1>2 DEF AtEnd
<1>4. PICK b \in 1 .. Len(Nodes) + 1 : NodeStage(b) \/ ChunkStage(b)
  BY <1>2 DEF Inv, Stage
<1>5. ~ChunkStage(b)
  <2>1. SUFFICES ASSUME ChunkStage(b) PROVE FALSE
    OBVIOUS
  <2>2. LastNode(t, b)
    BY <1>1, <1>2, <2>1, PlaceInChunk DEF ChunkStage
  <2> QED
    BY <1>2, <1>3, <2>2 DEF LastNode
<1>6. NodeStage(b) /\ InNode(t, b)
  BY <1>2, <1>4, <1>5 DEF NodeStage
<1>7. Walking(t, b)
  BY <1>1, <1>2, <1>3, <1>6, PlaceInNode DEF PastLast
<1>8. k \in b .. Len(Nodes) + 1 /\ Gap(b, k) /\ abort # b
  BY <1>3, <1>7 DEF Walking
<1>9. CASE Nodes[k] = "empty"
  <2>1. node' = [node EXCEPT ![t] = k + 1] /\ UNCHANGED <<work, pc>>
    BY <1>9 DEF NextNode
  <2>2. node'[t] = k + 1
    BY <1>2, <2>1, EachType
  <2>3. k + 1 \in b .. Len(Nodes) + 1
    BY <1>2, <1>3, <1>8
  <2>4. Gap(b, k + 1)
    BY <1>2, <1>8, <1>9 DEF Gap
  <2>5. InNode(t, b)'
    BY <1>1, <1>2, <1>8, <2>1, <2>2, <2>3, <2>4 DEF InNode, Walking, Gap
  <2> QED
    BY <1>1, <1>6, <2>1, <2>5, StepInNodeStage
<1>10. CASE Nodes[k] = "mul_mat"
  <2>1. /\ work' = work \cup {<<k, Wdata, t>>} /\ pc' = [pc EXCEPT ![t] = "quantize"]
        /\ node' = node
    BY <1>10 DEF NextNode, Goto
  <2>2. First(b, k)
    BY <1>2, <1>3, <1>8, <1>10 DEF First
  <2>3. At(t)' = "quantize"
    BY <1>2, <2>1, EachType
  <2>4. InNode(t, b)'
    BY <1>1, <1>2, <1>8, <1>10, <2>1, <2>2, <2>3 DEF InNode, Quantizing, Did, First, Gap
  <2>5. Wdata \notin Chunks
    BY PoolOK DEF Wdata, Chunks
  <2> QED
    BY <1>1, <1>6, <1>8, <2>1, <2>2, <2>4, <2>5, StepInNodeStage
<1>11. CASE Nodes[k] \notin {"empty", "mul_mat"}
  <2>1. /\ work' = work \cup {<<k, Share, t>>} /\ pc' = [pc EXCEPT ![t] = "after"]
        /\ node' = node
    BY <1>11 DEF NextNode, Goto
  <2>2. First(b, k)
    BY <1>2, <1>3, <1>8, <1>11 DEF First
  <2>3. At(t)' = "after"
    BY <1>2, <2>1, EachType
  <2>4. Nodes[k] = "other"
    <3>1. Nodes \in Seq(Kinds) /\ k \in 1 .. Len(Nodes)
      BY <1>2, <1>3, <1>8, NodesType
    <3> QED
      BY <1>11, <3>1 DEF Kinds
  <2>5. InNode(t, b)'
    BY <1>1, <1>2, <1>8, <2>1, <2>2, <2>3, <2>4 DEF InNode, Sharing, Did, First, Gap
  <2>6. Share \notin Chunks
    BY PoolOK DEF Share, Chunks
  <2> QED
    BY <1>1, <1>6, <1>8, <2>1, <2>2, <2>5, <2>6, StepInNodeStage
<1> QED
  BY <1>9, <1>10, <1>11

(* A thread has quantized its share and waits for the others.                *)
LEMMA QuantizeStep ==
    ASSUME Inv, NEW t \in Threads, Quantize(t)
    PROVE  ChunksOnce' /\ Stage'
<1> DEFINE k == node[t]
<1>1. /\ GraphStep(t) /\ pc[t] = "quantize" /\ At(t) \in InGraph
      /\ current_chunk' = IF t = 0 THEN n_graph.threads ELSE current_chunk
      /\ mine' = [mine EXCEPT ![t] = t]
      /\ pc' = [pc EXCEPT ![t] = "enter"] /\ return' = [return EXCEPT ![t] = "chunk"]
      /\ UNCHANGED <<work, abort, node, graph, n_graph>>
  BY GraphStepRest DEF GraphStep, Quantize, InGraph, poolVars, CallBarrier, Goto, FirstChunk
<1>2. /\ Types /\ t \in Active /\ ~Outside /\ graph > 0
      /\ Nodes' = Nodes /\ At(t) = pc[t] /\ At(t)' = pc'[t]
  BY <1>1, GraphStepRest
<1>3. PICK b \in 1 .. Len(Nodes) + 1 : NodeStage(b) \/ ChunkStage(b)
  BY <1>2 DEF Inv, Stage
<1>4. NodeStage(b) /\ Quantizing(t, b)
  BY <1>1, <1>2, <1>3, PlaceInNode, PlaceInChunk DEF NodeStage, ChunkStage
<1>5. At(t)' = "enter" /\ return'[t] = "chunk" /\ mine'[t] = t
  BY <1>1, <1>2, EachType
<1>6. InNode(t, b)'
  <2>1. Did(t, b, k, "mul_mat", Wdata)
    BY <1>4 DEF Quantizing
  <2>2. Did(t, b, node[t], "mul_mat", Wdata)'
    BY <1>1, <1>2, <2>1 DEF Did, First, Gap
  <2>3. Held(t)'
    BY <1>5 DEF Held, Barrier
  <2> QED
    BY <1>1, <1>5, <2>2, <2>3 DEF InNode, Quantized
<1> QED
  BY <1>1, <1>4, <1>6, StepInNodeStage

(* A step within the multiplication at node b                                *)
LEMMA StepInChunkStage ==
    ASSUME Inv, NEW t \in Threads, GraphStep(t),
           NEW b \in 1 .. Len(Nodes) + 1, ChunkStage(b),
           work \subseteq work', \A w \in work' : w \in work \/ w[1] = b,
           abort' \in {0, b + 1}, InChunk(t, b)', ChunksShared(b)'
    PROVE  Stage'
<1>1. /\ Types /\ graph > 0 /\ Others(t) /\ UNCHANGED <<graph, n_graph>>
      /\ Nodes' = Nodes
      /\ t # 0 => last_graph'[t] = n_graph
  BY GraphStepRest, GraphStepFrame
<1>2. ChunkStage(b)'
  BY <1>1, ChunkStageStays
<1> QED
  BY <1>1, <1>2 DEF Stage

(* A thread is through with the graph.                                       *)
LEMMA FinishStep ==
    ASSUME Inv, NEW t \in Threads, FinishGraph(t)
    PROVE  ChunksOnce' /\ Stage'
<1>1. /\ GraphStep(t) /\ pc[t] = "node" /\ AtEnd(t) /\ At(t) \in InGraph
      /\ pc' = [pc EXCEPT ![t] = "enter"] /\ return' = [return EXCEPT ![t] = Home(t)]
      /\ UNCHANGED <<current_chunk, mine, work, abort, node, graph, n_graph>>
  BY GraphStepRest DEF GraphStep, FinishGraph, InGraph, poolVars, opVars, LeaveGraph,
     CallBarrier, Goto
<1>2. /\ Types /\ t \in Active /\ ~Outside /\ graph > 0 /\ Len(Nodes) \in Nat
      /\ node[t] \in Nat /\ Others(t)
      /\ Nodes' = Nodes /\ At(t) = pc[t] /\ At(t)' = pc'[t]
  BY <1>1, GraphStepRest
<1>3. PICK b \in 1 .. Len(Nodes) + 1 : NodeStage(b) \/ ChunkStage(b)
  BY <1>2 DEF Inv, Stage
<1>4. Held(t)' /\ At(t)' = "enter" /\ return'[t] = Home(t) /\ Home(t) = Home(t)'
  BY <1>1, <1>2, EachType DEF Held, Barrier, Home
<1>5. CASE NodeStage(b)
  <2>1. Walking(t, b) \/ PastLast(t, b)
    BY <1>1, <1>2, <1>5, PlaceInNode DEF NodeStage
  <2>2. \/ abort = b /\ node[t] = b
        \/ /\ abort # b /\ node[t] = Len(Nodes) + 1
           /\ Gap(b, node[t]) \/ Did(t, b, Len(Nodes), "other", Share)
    <3>1. CASE PastLast(t, b)
      BY <3>1 DEF PastLast, Did
    <3>2. CASE Walking(t, b) /\ abort = b
      BY <3>2 DEF Walking
    <3>3. CASE Walking(t, b) /\ abort # b
      <4>1. node[t] \in b .. Len(Nodes) + 1 /\ Gap(b, node[t])
        BY <3>3 DEF Walking
      <4>2. SUFFICES ASSUME node[t] # Len(Nodes) + 1 PROVE FALSE
        BY <3>3, <4>1
      <4>3. abort = node[t]
        BY <1>1, <1>2, <4>1, <4>2 DEF AtEnd
      <4>4. PICK k \in b .. Len(Nodes) : First(b, k) /\ abort = k + 1
        BY <1>5, <3>3, <4>1, <4>3 DEF NodeStage, AbortAfter
      <4> QED
        BY <4>1, <4>3, <4>4 DEF First, Gap
    <3> QED
      BY <2>1, <3>1, <3>2, <3>3
  <2>3. InNode(t, b)'
    BY <1>1, <1>2, <1>4, <2>2 DEF InNode, Leaving, Did, First, Gap
  <2> QED
    BY <1>1, <1>5, <2>3, StepInNodeStage
<1>6. CASE ChunkStage(b)
  <2>1. LastNode(t, b)
    BY <1>1, <1>2, <1>6, PlaceInChunk DEF ChunkStage
  <2>2. InChunk(t, b)'
    BY <1>1, <1>2, <1>4, <2>1 DEF InChunk, LastNode, LastLeft
  <2>3. ChunksShared(b)'
    BY <1>1, <1>2, <1>4, <1>6, ChunksStay DEF ChunkStage
  <2>4. ChunksOnce'
    BY <1>1 DEF Inv, ChunksOnce
  <2> QED
    BY <1>1, <1>6, <2>2, <2>3, <2>4, StepInChunkStage DEF ChunkStage
<1> QED
  BY <1>3, <1>5, <1>6

(* A thread is through with a node; thread 0 may ask for an abort.           *)
LEMMA AfterStep ==
    ASSUME Inv, NEW t \in Threads, AfterNode(t)
    PROVE  ChunksOnce' /\ Stage'
<1>0. PICK k : k = node[t]
  OBVIOUS
<1>1. /\ GraphStep(t) /\ pc[t] = "after" /\ At(t) \in InGraph
      /\ node' = [node EXCEPT ![t] = k + 1]
      /\ abort' = abort \/ abort' = k + 1
      /\ UNCHANGED <<current_chunk, mine, work, graph, n_graph>>
  BY <1>0, GraphStepRest DEF GraphStep, AfterNode, InGraph, poolVars, opVars, AbortAt
<1>2. /\ Types /\ t \in Active /\ ~Outside /\ graph > 0 /\ Len(Nodes) \in Nat
      /\ k \in Nat /\ Others(t)
      /\ Nodes' = Nodes /\ At(t) = pc[t] /\ At(t)' = pc'[t]
  BY <1>0, <1>1, GraphStepRest
<1>3. /\ k < Len(Nodes) => pc' = [pc EXCEPT ![t] = "enter"] /\ return' = [return EXCEPT ![t] = "node"]
      /\ ~(k < Len(Nodes)) => pc' = [pc EXCEPT ![t] = "node"]
  BY <1>0 DEF AfterNode, CallBarrier, Goto
<1>4. /\ node'[t] = k + 1
      /\ k < Len(Nodes) => At(t)' = "enter" /\ Held(t)' /\ return'[t] = "node"
      /\ ~(k < Len(Nodes)) => At(t)' = "node"
  BY <1>1, <1>2, <1>3, EachType DEF Held, Barrier
<1>5. PICK b \in 1 .. Len(Nodes) + 1 : NodeStage(b) \/ ChunkStage(b)
  BY <1>2 DEF Inv, Stage
<1>6. CASE NodeStage(b)
  <2>1. Did(t, b, k, "other", Share)
    BY <1>0, <1>1, <1>2, <1>6, PlaceInNode DEF NodeStage, Sharing
  <2>2. First(b, k) /\ k \in b .. Len(Nodes) /\ Nodes[k] = "other" /\ abort # b
    BY <2>1 DEF Did, First
  <2>3. abort' # b
    BY <1>1, <1>2, <2>2
  <2>4. First(b, k)' /\ Did(t, b, k, "other", Share)'
    BY <1>1, <1>2, <2>1, <2>3 DEF Did, First, Gap
  <2>5. abort' = abort \/ AbortAfter(b)'
    BY <1>1, <1>2, <2>2, <2>4 DEF AbortAfter
  <2>6. InNode(t, b)'
    <3>1. CASE k < Len(Nodes)
      <4>1. node'[t] - 1 = k /\ node'[t] <= Len(Nodes)
        BY <1>2, <1>4, <3>1
      <4> QED
        BY <1>2, <1>4, <2>4, <3>1, <4>1 DEF InNode, Shared
    <3>2. CASE ~(k < Len(Nodes))
      <4>1. k = Len(Nodes)
        BY <1>2, <2>2, <3>2
      <4> QED
        BY <1>2, <1>4, <2>4, <3>2, <4>1 DEF InNode, PastLast
    <3> QED
      BY <3>1, <3>2
  <2> QED
    BY <1>1, <1>6, <2>2, <2>5, <2>6, StepInNodeStage
<1>7. CASE ChunkStage(b)
  <2>1. k = b /\ b <= Len(Nodes)
    BY <1>0, <1>1, <1>2, <1>7, PlaceInChunk DEF ChunkStage
  <2>2. InChunk(t, b)'
    BY <1>2, <1>4, <2>1 DEF InChunk, Multiplied, LastNode
  <2>3. At(t)' \notin {"chunk", "fetch"}
    BY <1>4
  <2>4. ChunksShared(b)'
    BY <1>1, <1>2, <1>7, <2>3, ChunksStay DEF ChunkStage
  <2>5. ChunksOnce'
    BY <1>1 DEF Inv, ChunksOnce
  <2>6. abort' \in {0, b + 1}
    BY <1>1, <1>7, <2>1 DEF ChunkStage
  <2> QED
    BY <1>1, <1>7, <2>2, <2>4, <2>5, <2>6, StepInChunkStage
<1> QED
  BY <1>5, <1>6, <1>7

(* A chunk is computed, and nobody else holds it or has computed it.         *)
LEMMA ComputeChunk ==
    ASSUME Types, NEW b, ChunkStage(b), ChunksOnce, NEW t \in Takers, mine[t] < NChunks, Others(t),
           work' = work \cup {<<b, mine[t], t>>}, UNCHANGED <<n_graph, current_chunk, mine>>,
           At(t)' = IF n_graph.threads >= NChunks THEN "after" ELSE "fetch"
    PROVE  ChunksShared(b)' /\ ChunksOnce'
<1>0. PICK c : c = mine[t]
  OBVIOUS
<1>1. /\ t \in Active /\ Active \subseteq Threads /\ Active' = Active
      /\ c \in Nat /\ n_graph.threads \in Nat /\ current_chunk \in Nat /\ NChunks \in Nat
  BY <1>0, ActiveType, EachType, PoolOK DEF Takers, Active
<1>2. ChunksShared(b)
  BY DEF ChunkStage
<1>3. Takers' = Takers \ {t}
  BY <1>1 DEF Takers, Others
<1>4. c \in Chunks /\ c < current_chunk /\ (c < n_graph.threads => c = t)
  BY <1>0, <1>1, <1>2 DEF ChunksShared, Chunks
<1>5. \A w \in work : w[1] = b /\ w[2] = c => w[3] = t
  BY <1>0, <1>1, <1>2, <1>4 DEF ChunksShared
<1>6. ChunksOnce'
  <2>1. SUFFICES ASSUME NEW v \in work', NEW w \in work', v[1] = w[1], v[2] = w[2], v[2] \in Chunks
                 PROVE  v[3] = w[3]
    BY DEF ChunksOnce, Chunks
  <2>2. \A x \in work' : x \in work \/ x = <<b, c, t>>
    BY <1>0
  <2>3. CASE v \in work /\ w \in work
    BY <2>1, <2>3 DEF ChunksOnce
  <2>4. CASE v = <<b, c, t>> /\ w \in work
    BY <2>1, <2>4, <1>5
  <2>5. CASE v \in work /\ w = <<b, c, t>>
    BY <2>1, <2>5, <1>5
  <2> QED
    BY <2>2, <2>3, <2>4, <2>5
<1>7. \A u \in Takers : u # t => mine[u] # c
  BY <1>0, <1>2 DEF ChunksShared
<1>8. ASSUME NEW u \in Takers'
      PROVE  /\ mine[u] < current_chunk
             /\ mine[u] < n_graph.threads => mine[u] = u
             /\ mine[u] >= n_graph.threads /\ mine[u] < NChunks =>
                  \A w \in work' : w[1] = b => w[2] # mine[u]
  <2>1. u \in Takers /\ mine[u] # c
    BY <1>3, <1>7
  <2>2. \A w \in work' : w \in work \/ (w[2] = c)
    BY <1>0
  <2> QED
    BY <1>2, <2>1, <2>2 DEF ChunksShared
<1>9. \A w \in work' : w[1] = b /\ w[2] \in Chunks =>
         w[2] < current_chunk /\ (w[2] < n_graph.threads => w[3] = w[2])
  <2>1. \A w \in work' : w \in work \/ (w[2] = c /\ w[3] = t)
    BY <1>0
  <2> QED
    BY <1>2, <1>4, <2>1 DEF ChunksShared
<1>10. ASSUME NEW d \in Chunks, d < current_chunk
       PROVE  \/ \E u \in Active : <<b, d, u>> \in work'
              \/ \E u \in Takers' : mine[u] = d
  <2>1. CASE d = c
    BY <1>0, <1>1, <2>1
  <2>2. CASE d # c
    <3>1. CASE \E u \in Active : <<b, d, u>> \in work
      BY <3>1
    <3>2. CASE \E u \in Takers : mine[u] = d
      BY <1>0, <1>3, <2>2, <3>2
    <3> QED
      BY <1>2, <1>10, <3>1, <3>2 DEF ChunksShared
  <2> QED
    BY <2>1, <2>2
<1>11. ASSUME NEW u \in Active, At(u)' \notin {"chunk", "fetch"}
       PROVE  n_graph.threads >= NChunks \/ current_chunk >= NChunks
  <2>1. CASE u = t
    BY <1>11, <2>1
  <2>2. CASE u # t
    BY <1>1, <1>2, <1>11, <2>2 DEF ChunksShared, Others
  <2> QED
    BY <2>1, <2>2
<1>12. \A u, v \in Takers' : mine[u] = mine[v] => u = v
  BY <1>2, <1>3 DEF ChunksShared
<1>13. ChunksShared(b)'
  <2>1. Chunks' = Chunks /\ current_chunk >= n_graph.threads
    BY <1>2 DEF Chunks, ChunksShared
  <2> QED
    BY <1>1, <1>8, <1>9, <1>10, <1>11, <1>12, <2>1 DEF ChunksShared
<1> QED
  BY <1>6, <1>13

(* A thread whose chunk number is beyond the last one is done.               *)
LEMMA NoChunkLeft ==
    ASSUME Types, NEW b, ChunkStage(b), NEW t \in Takers, ~(mine[t] < NChunks), Others(t),
           UNCHANGED <<n_graph, current_chunk, mine, work>>, At(t)' = "after"
    PROVE  ChunksShared(b)'
<1>1. /\ t \in Active /\ Active \subseteq Threads /\ Active' = Active
      /\ mine[t] \in Nat /\ n_graph.threads \in Nat /\ current_chunk \in Nat /\ NChunks \in Nat
  BY ActiveType, EachType, PoolOK DEF Takers, Active
<1>2. ChunksShared(b)
  BY DEF ChunkStage
<1>3. Takers' = Takers \ {t}
  BY <1>1 DEF Takers, Others
<1>4. current_chunk >= NChunks
  BY <1>1, <1>2 DEF ChunksShared
<1>5. \A d \in Chunks : mine[t] # d
  BY <1>1 DEF Chunks
<1> QED
  BY <1>1, <1>2, <1>3, <1>4, <1>5 DEF ChunksShared, Chunks

(* A thread computes its chunk, or finds that none is left.                  *)
LEMMA ChunkStep ==
    ASSUME Inv, NEW t \in Threads, Chunk(t)
    PROVE  ChunksOnce' /\ Stage'
<1>1. /\ GraphStep(t) /\ pc[t] = "chunk" /\ At(t) \in InGraph
      /\ UNCHANGED <<current_chunk, mine, abort, node, return, graph, n_graph>>
  BY GraphStepRest DEF GraphStep, Chunk, InGraph, poolVars
<1>2. /\ Types /\ t \in Active /\ ~Outside /\ graph > 0 /\ Others(t)
      /\ Nodes' = Nodes /\ At(t) = pc[t] /\ At(t)' = pc'[t]
  BY <1>1, GraphStepRest
<1>3. PICK b \in 1 .. Len(Nodes) + 1 : NodeStage(b) \/ ChunkStage(b)
  BY <1>2 DEF Inv, Stage
<1>4. ChunkStage(b) /\ node[t] = b
  BY <1>1, <1>2, <1>3, PlaceInNode, PlaceInChunk DEF NodeStage, ChunkStage
<1>5. t \in Takers
  BY <1>1, <1>2 DEF Takers
<1>6. CASE mine[t] < NChunks
  <2>1. /\ work' = work \cup {<<b, mine[t], t>>}
        /\ pc' = [pc EXCEPT ![t] = IF n_graph.threads >= NChunks THEN "after" ELSE "fetch"]
    BY <1>4, <1>6 DEF Chunk, Goto
  <2>2. At(t)' = IF n_graph.threads >= NChunks THEN "after" ELSE "fetch"
    BY <1>2, <2>1, EachType
  <2>3. ChunksShared(b)' /\ ChunksOnce'
    BY <1>1, <1>2, <1>4, <1>5, <1>6, <2>1, <2>2, ComputeChunk DEF Inv
  <2>4. InChunk(t, b)'
    BY <1>1, <1>4, <2>2 DEF InChunk
  <2> QED
    BY <1>1, <1>4, <2>1, <2>3, <2>4, StepInChunkStage DEF ChunkStage
<1>7. CASE ~(mine[t] < NChunks)
  <2>1. work' = work /\ pc' = [pc EXCEPT ![t] = "after"]
    BY <1>7 DEF Chunk, Goto
  <2>2. At(t)' = "after"
    BY <1>2, <2>1, EachType
  <2>3. ChunksShared(b)' /\ ChunksOnce'
    BY <1>1, <1>2, <1>4, <1>5, <1>7, <2>1, <2>2, NoChunkLeft DEF Inv, ChunksOnce, Chunks
  <2>4. InChunk(t, b)'
    BY <1>1, <1>4, <2>2 DEF InChunk
  <2> QED
    BY <1>1, <1>4, <2>1, <2>3, <2>4, StepInChunkStage DEF ChunkStage
<1> QED
  BY <1>6, <1>7

(* A thread takes the next chunk, which nobody else holds.                   *)
LEMMA FetchStep ==
    ASSUME Inv, NEW t \in Threads, FetchChunk(t)
    PROVE  ChunksOnce' /\ Stage'
<1>1. /\ GraphStep(t) /\ pc[t] = "fetch" /\ At(t) \in InGraph
      /\ mine' = [mine EXCEPT ![t] = current_chunk] /\ current_chunk' = current_chunk + 1
      /\ pc' = [pc EXCEPT ![t] = "chunk"]
      /\ UNCHANGED <<work, abort, node, return, graph, n_graph>>
  BY GraphStepRest DEF GraphStep, FetchChunk, InGraph, poolVars, Goto
<1>2. /\ Types /\ t \in Active /\ ~Outside /\ graph > 0 /\ Others(t)
      /\ Nodes' = Nodes /\ Active' = Active /\ At(t) = pc[t] /\ At(t)' = pc'[t]
  BY <1>1, GraphStepRest
<1>3. PICK b \in 1 .. Len(Nodes) + 1 : NodeStage(b) \/ ChunkStage(b)
  BY <1>2 DEF Inv, Stage
<1>4. ChunkStage(b) /\ node[t] = b
  BY <1>1, <1>2, <1>3, PlaceInNode, PlaceInChunk DEF NodeStage, ChunkStage
<1>5. At(t)' = "chunk" /\ mine'[t] = current_chunk
  BY <1>1, <1>2, EachType
<1>6. /\ current_chunk \in Nat /\ n_graph.threads \in Nat /\ NChunks \in Nat
      /\ \A u \in Threads : mine[u] \in Nat
      /\ Active \subseteq Threads
  BY <1>2, EachType, PoolOK, ActiveType
<1>7. ChunksShared(b)
  BY <1>4 DEF ChunkStage
<1>8. Takers' = Takers \cup {t} /\ \A u \in Takers : u # t /\ u \in Threads
  BY <1>1, <1>2, <1>5, <1>6 DEF Takers, Others
<1>9. /\ \A u \in Takers : mine'[u] = mine[u] /\ mine[u] < current_chunk
      /\ Chunks' = Chunks
  BY <1>2, <1>7, <1>8 DEF Others, ChunksShared, Chunks
<1>10. \A w \in work : w[1] = b /\ current_chunk < NChunks => w[2] # current_chunk
  BY <1>6, <1>7 DEF ChunksShared, Chunks
<1>11. ASSUME NEW u \in Takers'
       PROVE  /\ mine'[u] < current_chunk'
              /\ mine'[u] < n_graph.threads => mine'[u] = u
              /\ mine'[u] >= n_graph.threads /\ mine'[u] < NChunks =>
                   \A w \in work : w[1] = b => w[2] # mine'[u]
  <2>1. CASE u = t
    BY <1>1, <1>5, <1>6, <1>7, <1>10, <2>1 DEF ChunksShared
  <2>2. CASE u # t
    <3>1. u \in Takers /\ mine'[u] = mine[u] /\ mine[u] \in Nat /\ mine[u] < current_chunk
      BY <1>6, <1>8, <1>9, <2>2
    <3> QED
      BY <1>1, <1>6, <1>7, <3>1 DEF ChunksShared
  <2> QED
    BY <2>1, <2>2
<1>12. \A u, v \in Takers' : mine'[u] = mine'[v] => u = v
  <2>1. \A u \in Takers : mine'[u] # mine'[t]
    BY <1>5, <1>6, <1>8, <1>9
  <2> QED
    BY <1>7, <1>8, <1>9, <2>1 DEF ChunksShared
<1>13. ASSUME NEW w \in work, w[1] = b, w[2] \in Chunks
       PROVE  w[2] < current_chunk' /\ (w[2] < n_graph.threads => w[3] = w[2])
  <2>1. w[2] < current_chunk /\ (w[2] < n_graph.threads => w[3] = w[2]) /\ w[2] \in Nat
    BY <1>6, <1>7, <1>13 DEF ChunksShared, Chunks
  <2> QED
    BY <1>1, <1>6, <2>1
<1>14. ASSUME NEW d \in Chunks, d < current_chunk'
       PROVE  \/ \E u \in Active : <<b, d, u>> \in work
              \/ \E u \in Takers' : mine'[u] = d
  <2>1. d \in Nat
    BY <1>6 DEF Chunks
  <2>2. CASE d = current_chunk
    BY <1>5, <1>8, <2>2
  <2>3. CASE d < current_chunk
    BY <1>7, <1>8, <1>9, <2>3 DEF ChunksShared
  <2> QED
    BY <1>1, <1>6, <1>14, <2>1, <2>2, <2>3
<1>15. ASSUME NEW u \in Active, At(u)' \notin {"chunk", "fetch"}
       PROVE  n_graph.threads >= NChunks \/ current_chunk' >= NChunks
  <2>1. u # t /\ At(u) \notin {"chunk", "fetch"}
    BY <1>2, <1>5, <1>6, <1>15 DEF Others
  <2> QED
    BY <1>1, <1>6, <1>7, <2>1 DEF ChunksShared
<1>16. ChunksShared(b)'
  <2>1. current_chunk' >= n_graph.threads
    BY <1>1, <1>6, <1>7 DEF ChunksShared
  <2>2. UNCHANGED <<work, n_graph>>
    BY <1>1
  <2> QED
    BY <1>2, <1>9, <1>11, <1>12, <1>13, <1>14, <1>15, <2>1, <2>2 DEF ChunksShared
<1>17. InChunk(t, b)'
  BY <1>1, <1>4, <1>5 DEF InChunk
<1>18. ChunksOnce'
  BY <1>1 DEF Inv, ChunksOnce, Chunks
<1> QED
  BY <1>1, <1>4, <1>16, <1>17, <1>18, StepInChunkStage DEF ChunkStage

-----------------------------------------------------------------------------
(* The steps of the workers that poll and sleep                              *)

(* Only workers poll and sleep, and only an active one that sees a new       *)
(* graph enters it.                                                          *)
LEMMA PollingSteps ==
    ASSUME Inv, NEW t \in Threads, WorkerStep(t)
    PROVE  /\ Types /\ t \in Workers /\ At(t) = pc[t] /\ At(t) \in Polling
           /\ UNCHANGED <<graph, n_graph, n_barrier, n_barrier_passed, n_passed, current_chunk,
                          mine, work, abort, return>>
           /\ Others(t)
           /\ \/ At(t)' \in Polling /\ (last_graph'[t] = last_graph[t] \/ last_graph'[t] = n_graph)
              \/ /\ t \in Active /\ n_graph # last_graph[t] /\ last_graph'[t] = n_graph
                 /\ At(t)' = "node" /\ node'[t] = 1
<1>1. pc[t] \in Polling
  BY DEF WorkerStep, CheckPause, SleepPaused, CheckStop, Poll, CheckForWork, WakeUp, Polling,
     Asleep
<1>2. Types /\ At(t) = pc[t]
  BY <1>1 DEF Inv, At, Polling, Asleep
<1>3. t # 0
  <2>1. SUFFICES ASSUME t = 0 PROVE FALSE
    OBVIOUS
  <2>2. At(0) \in Polling /\ At(0) \notin Driving
    BY <1>1, <1>2, <2>1 DEF Polling, Asleep, Driving
  <2>3. PICK b \in 1 .. Len(Nodes) + 1 : NodeStage(b) \/ ChunkStage(b)
    BY <2>2 DEF Inv, Stage, Outside
  <2>4. InNode(0, b) \/ InChunk(0, b)
    BY <1>2, <2>3, ActiveType DEF NodeStage, ChunkStage
  <2> QED
    BY <2>2, <2>4 DEF InNode, Unstarted, Walking, Quantizing, Quantized, Sharing, Shared,
       PastLast, Leaving, InChunk, Multiplied, LastNode, LastLeft, Held, Barrier, Polling, Asleep
<1>4. /\ UNCHANGED <<graph, n_graph, n_barrier, n_barrier_passed, n_passed, current_chunk,
                     mine, work, abort, return>>
      /\ \A u \in Threads : u # t => node'[u] = node[u] /\ last_graph'[u] = last_graph[u]
  BY <1>2, EachType DEF WorkerStep, CheckPause, SleepPaused, CheckStop, Poll, CheckForWork,
     WakeUp, SeesGraph, WaitForWork, Goto, poolVars, barrierVars, opVars
<1>5. \/ \E l \in Polling : pc' = [pc EXCEPT ![t] = l]
                            /\ (last_graph'[t] = last_graph[t] \/ last_graph'[t] = n_graph)
      \/ /\ t < n_graph.threads /\ n_graph # last_graph[t] /\ last_graph'[t] = n_graph
         /\ pc' = [pc EXCEPT ![t] = "node"] /\ node'[t] = 1
  <2>1. CASE CheckPause(t) \/ SleepPaused(t) \/ CheckStop(t) \/ WakeUp(t)
    BY <2>1 DEF CheckPause, SleepPaused, CheckStop, WakeUp, Goto, Polling, Asleep
  <2>2. ASSUME NEW l \in Polling, SeesGraph(t, l)
        PROVE  \/ pc' = [pc EXCEPT ![t] = l] /\ last_graph'[t] = n_graph
               \/ /\ t < n_graph.threads /\ n_graph # last_graph[t] /\ last_graph'[t] = n_graph
                  /\ pc' = [pc EXCEPT ![t] = "node"] /\ node'[t] = 1
    BY <1>2, <2>2, EachType DEF SeesGraph, Goto
  <2>3. CASE Poll(t)
    BY <2>2, <2>3 DEF Poll, Goto, Polling
  <2>4. CASE CheckForWork(t)
    BY <2>2, <2>4 DEF CheckForWork, WaitForWork, Goto, Polling, Asleep
  <2> QED
    BY <2>1, <2>3, <2>4 DEF WorkerStep
<1>6. ASSUME NEW l, l # "spin", pc' = [pc EXCEPT ![t] = l]
      PROVE  At(t)' = l /\ Others(t)
  <2>1. At(t)' = l /\ \A u \in Threads : u # t => At(u)' = At(u)
    BY <1>2, <1>4, <1>6, AtMoves
  <2> QED
    BY <1>4, <2>1 DEF Others
<1>7. \A l \in Polling : l # "spin"
  BY DEF Polling, Asleep
<1> QED
  BY <1>1, <1>2, <1>3, <1>4, <1>5, <1>6, <1>7 DEF Workers, Active

(* The stage lasts while workers poll, sleep and wake up.                    *)
LEMMA WorkerKeeps ==
    ASSUME Inv, NEW t \in Threads, WorkerStep(t)
    PROVE  BarrierOK' /\ OthersPoll' /\ ChunksOnce' /\ Stage'
<1>1. /\ Types /\ t \in Workers /\ t # 0 /\ At(t) \in Polling /\ Others(t)
      /\ UNCHANGED <<graph, n_graph, n_barrier, n_barrier_passed, n_passed, current_chunk,
                     mine, work, abort, return>>
      /\ Active' = Active /\ Nodes' = Nodes /\ Active \subseteq Threads
  BY PollingSteps, ActiveType, ThreadZero DEF Active, Nodes
<1>2. \/ At(t)' \in Polling /\ (last_graph'[t] = last_graph[t] \/ last_graph'[t] = n_graph)
      \/ /\ t \in Active /\ n_graph # last_graph[t] /\ last_graph'[t] = n_graph
         /\ At(t)' = "node" /\ node'[t] = 1
  BY PollingSteps
<1>3. BarrierOK'
  <2>1. At(t) \notin Counting /\ At(t)' \notin Counting
    BY <1>1, <1>2 DEF Counting, Polling, Asleep
  <2> QED
    BY <1>1, <2>1, BarrierFrame DEF Inv, Others
<1>4. OthersPoll'
  BY <1>1, <1>2 DEF Inv, OthersPoll, Others, Workers
<1>5. ChunksOnce'
  BY <1>1 DEF Inv, ChunksOnce, Chunks
<1>6. At(t) \notin Barrier \cup InGraph
  BY <1>1 DEF Polling, Asleep, Barrier, InGraph
<1>7. At(t)' \notin Polling => last_graph'[t] = n_graph
  BY <1>2
<1>8. CASE Outside
  <2>1. t \in Active => last_graph[t] = n_graph
    BY <1>1, <1>8 DEF Outside
  <2>2. At(t)' \in Polling /\ (t \in Active => last_graph'[t] = n_graph)
    BY <1>2, <2>1
  <2>3. At(0)' = At(0) /\ \A u \in Active : u # t => At(u)' = At(u) /\ last_graph'[u] = last_graph[u]
    BY <1>1, ThreadZero DEF Others
  <2>4. Computed => Computed'
    <3>1. \A k : Complete(k) => Complete(k)'
      BY <1>1, CompleteStays
    <3> QED
      BY <1>1, <3>1 DEF Computed
  <2>5. Outside'
    BY <1>1, <1>8, <2>2, <2>3, <2>4 DEF Outside
  <2> QED
    BY <1>3, <1>4, <1>5, <2>5 DEF Stage
<1>9. ASSUME graph > 0, NEW b \in 1 .. Len(Nodes) + 1, NodeStage(b)
      PROVE  NodeStage(b)'
  <2>1. InNode(t, b)' \/ t \notin Active
    <3>1. SUFFICES ASSUME t \in Active PROVE InNode(t, b)'
      OBVIOUS
    <3>2. Unstarted(t, b)
      BY <1>6, <1>9, <3>1 DEF NodeStage, InNode, Walking, Quantizing, Quantized, Sharing, Shared,
         PastLast, Leaving, Held, InGraph
    <3>3. CASE At(t)' \in Polling
      BY <3>2, <3>3 DEF InNode, Unstarted
    <3>4. CASE At(t)' = "node" /\ node'[t] = 1
      <4>1. b = 1 /\ Gap(b, 1)' /\ 1 \in 1 .. Len(Nodes) + 1
        BY <1>9, <3>2, NodesType, <1>1 DEF Unstarted, Gap
      <4> QED
        BY <1>1, <3>4, <4>1 DEF InNode, Walking
    <3> QED
      BY <1>2, <3>3, <3>4
  <2> QED
    BY <1>1, <1>7, <1>9, <2>1, NodeStageStays DEF AbortApart
<1>10. ASSUME NEW b \in 1 .. Len(Nodes) + 1, ChunkStage(b)
       PROVE  ChunkStage(b)'
  <2>1. t \notin Active
    BY <1>6, <1>10 DEF ChunkStage, InChunk, Multiplied, LastNode, LastLeft, Held, InGraph
  <2>2. At(t) \notin {"chunk", "fetch"} /\ At(t)' # "chunk"
    BY <1>2, <1>6 DEF InGraph, Polling, Asleep
  <2>3. ChunksShared(b)'
    BY <1>1, <1>10, <2>2, ChunksStay DEF ChunkStage
  <2> QED
    BY <1>1, <1>7, <1>10, <2>1, <2>3, ChunkStageStays DEF ChunkStage
<1> QED
  BY <1>1, <1>3, <1>4, <1>5, <1>8, <1>9, <1>10 DEF Inv, Stage

-----------------------------------------------------------------------------
(* The steps of thread 0 outside the graph                                   *)

(* Thread 0 is outside the graph exactly when nobody is in it.               *)
LEMMA DriverIsOutside ==
    ASSUME Inv, pc[0] \in Driving
    PROVE  Types /\ Outside /\ At(0) = pc[0]
<1>1. Types /\ At(0) = pc[0] /\ At(0) \notin Polling /\ ~Held(0) /\ At(0) \notin InGraph
  BY DEF Inv, At, Driving, Polling, Asleep, Held, Barrier, InGraph
<1>2. ASSUME NEW b, NodeStage(b) \/ ChunkStage(b)
      PROVE  FALSE
  <2>1. InNode(0, b) \/ InChunk(0, b)
    BY <1>1, <1>2, ActiveType DEF NodeStage, ChunkStage
  <2> QED
    BY <1>1, <2>1 DEF InNode, Unstarted, Walking, Quantizing, Quantized, Sharing, Shared,
       PastLast, Leaving, InChunk, Multiplied, LastNode, LastLeft, InGraph
<1> QED
  BY <1>1, <1>2 DEF Inv, Stage

(* Thread 0 goes from one label outside the graph to another.                *)
LEMMA DriverMoves ==
    ASSUME Inv, pc[0] \in Driving, NEW l \in Driving \ {"kick"}, pc[0] # "kick",
           pc' = [pc EXCEPT ![0] = l],
           UNCHANGED <<graph, n_graph, n_barrier, n_barrier_passed, n_passed, current_chunk,
                       mine, work, abort, last_graph, node, return>>
    PROVE  BarrierOK' /\ OthersPoll' /\ ChunksOnce' /\ Stage'
<1>1. Types /\ Outside /\ At(0) = pc[0] /\ 0 \in Threads
  BY DriverIsOutside, ThreadZero
<1>2. l # "spin"
  BY DEF Driving
<1>3. At(0)' = l /\ \A u \in Threads : u # 0 => At(u)' = At(u)
  BY <1>1, <1>2, AtMoves
<1>4. Active' = Active /\ Nodes' = Nodes /\ Active \subseteq Threads
  BY <1>1, ActiveType DEF Active, Nodes
<1>5. BarrierOK'
  <2>1. At(0) \notin Counting /\ At(0)' \notin Counting
    BY <1>1, <1>3 DEF Counting, Driving
  <2> QED
    BY <1>1, <1>3, <1>4, <2>1, BarrierFrame DEF Inv
<1>6. OthersPoll'
  BY <1>3, <1>4 DEF Inv, OthersPoll, Workers
<1>7. ChunksOnce'
  BY DEF Inv, ChunksOnce, Chunks
<1>8. Outside'
  <2>1. Computed => Computed'
    <3>1. \A k : Complete(k) => Complete(k)'
      BY CompleteStays
    <3> QED
      BY <1>4, <3>1 DEF Computed
  <2> QED
    BY <1>1, <1>3, <1>4, <2>1 DEF Outside
<1> QED
  BY <1>5, <1>6, <1>7, <1>8 DEF Stage

(* ggml_graph_compute() prepares the graph while nobody is in it.            *)
LEMMA ResetGraphStep ==
    ASSUME Inv, Reset
    PROVE  BarrierOK' /\ OthersPoll' /\ ChunksOnce' /\ Stage'
<1>1. /\ pc[0] = "idle" /\ pc' = [pc EXCEPT ![0] = "kick"]
      /\ work' = {} /\ abort' = 0
      /\ UNCHANGED <<n_graph, n_barrier, n_barrier_passed, n_passed, last_graph, node, return>>
  BY DEF Reset, Goto, barrierVars
<1>2. Types /\ Outside /\ At(0) = pc[0] /\ 0 \in Threads
  BY <1>1, DriverIsOutside, ThreadZero DEF Driving
<1>3. At(0)' = "kick" /\ \A u \in Threads : u # 0 => At(u)' = At(u)
  BY <1>1, <1>2, AtMoves
<1>4. Active' = Active /\ Active \subseteq Threads
  BY <1>1, <1>2, ActiveType DEF Active
<1>5. BarrierOK'
  <2>1. At(0) \notin Counting /\ At(0)' \notin Counting
    BY <1>1, <1>2, <1>3 DEF Counting
  <2> QED
    BY <1>1, <1>2, <1>3, <1>4, <2>1, BarrierFrame DEF Inv
<1>6. OthersPoll'
  BY <1>3, <1>4 DEF Inv, OthersPoll, Workers
<1>7. ChunksOnce'
  BY <1>1 DEF ChunksOnce
<1>8. Outside'
  BY <1>1, <1>2, <1>3, <1>4 DEF Outside, Driving
<1> QED
  BY <1>5, <1>6, <1>7, <1>8 DEF Stage

(* The kickoff starts the first stage.                                       *)
LEMMA KickoffStep ==
    ASSUME Inv, Kickoff
    PROVE  BarrierOK' /\ OthersPoll' /\ ChunksOnce' /\ Stage'
<1>1. /\ pc[0] = "kick" /\ pc' = [pc EXCEPT ![0] = "node"]
      /\ n_graph' = NewGraph /\ node' = [node EXCEPT ![0] = 1]
      /\ UNCHANGED <<graph, n_barrier, n_barrier_passed, n_passed, current_chunk, mine, work,
                     abort, last_graph, return>>
  BY DEF Kickoff, Goto, barrierVars, opVars
<1>2. Types /\ Outside /\ At(0) = pc[0] /\ 0 \in Threads
  BY <1>1, DriverIsOutside, ThreadZero DEF Driving
<1>3. At(0)' = "node" /\ \A u \in Threads : u # 0 => At(u)' = At(u)
  BY <1>1, <1>2, AtMoves
<1>4. graph > 0 /\ work = {} /\ abort = 0 /\ Len(Nodes) \in Nat /\ Nodes' = Nodes
  BY <1>1, <1>2, NodesType DEF Outside, Types, Nodes
<1>5. Types'
  BY <1>2, CallerTypes, Kickoff
<1>6. n_graph'.threads > 0 /\ n_graph'.threads \in Nat
  <2>1. Graphs[graph].threads \in 1 .. NThreads /\ NThreads \in Nat
    BY <1>2, <1>4, NodesType, PoolOK
  <2> QED
    BY <1>1, <2>1 DEF NewGraph
<1>7. \A u \in Workers : At(u) \in Polling /\ At(u)' \in Polling
  BY <1>2, <1>3 DEF Outside, Inv, OthersPoll, Workers
<1>8. Active \subseteq Threads /\ Active' \subseteq Threads /\ 0 \in Active'
  BY <1>2, <1>5, <1>6, ActiveType, ThreadZero DEF Active
<1>9. \A u \in Threads : /\ At(u) \in Polling \cup {"kick"}
                         /\ At(u)' \in Polling \cup {"node"}
  BY <1>1, <1>2, <1>3, <1>7 DEF Workers
<1>10. BarrierOK'
  <2>1. \A u \in Threads : At(u) \notin Counting /\ At(u)' \notin Counting
    BY <1>9 DEF Polling, Asleep, Counting
  <2>2. Spinning = {} /\ Spinning' = {}
    BY <1>8, <2>1 DEF Spinning, Counting
  <2>3. n_barrier = Cardinality({})
    BY <1>8, <2>1, <2>2 DEF Inv, BarrierOK, Counting
  <2>4. \A u \in Threads : n_passed'[u] <= n_barrier_passed'
    BY <1>1 DEF Inv, BarrierOK
  <2> QED
    BY <1>1, <1>8, <2>1, <2>2, <2>3, <2>4 DEF BarrierOK, Counting
<1>11. OthersPoll'
  BY <1>7 DEF OthersPoll
<1>12. ChunksOnce'
  BY <1>1, <1>4 DEF ChunksOnce
<1>13. NodeStage(1)'
  <2>1. \A u \in Active' : InNode(u, 1)'
    <3>1. SUFFICES ASSUME NEW u \in Active' PROVE InNode(u, 1)'
      OBVIOUS
    <3>2. CASE u = 0
      <4>1. node'[u] = 1 /\ Gap(1, 1)' /\ 1 \in 1 .. Len(Nodes) + 1
        BY <1>1, <1>2, <1>4, <3>2, EachType DEF Gap
      <4> QED
        BY <1>1, <1>3, <1>4, <3>2, <4>1 DEF InNode, Walking
    <3>3. CASE u # 0
      BY <1>7, <1>8, <3>1, <3>3 DEF InNode, Unstarted, Workers
    <3> QED
      BY <3>2, <3>3
  <2>2. Seen'
    BY <1>7, <1>8 DEF Seen, Workers
  <2>3. Before(1)'
    BY DEF Before
  <2>4. 1 \in 1 .. Len(Nodes) + 1
    BY <1>4
  <2> QED
    BY <1>1, <1>4, <1>6, <2>1, <2>2, <2>3, <2>4 DEF NodeStage
<1> QED
  BY <1>1, <1>4, <1>10, <1>11, <1>12, <1>13 DEF Stage

-----------------------------------------------------------------------------
(* The invariant holds                                                       *)

(* The invariant holds at first.                                             *)
LEMMA InitInv == Init => Inv
<1> SUFFICES ASSUME Init PROVE Inv
  OBVIOUS
<1>1. Types /\ 0 \in Threads
  BY InitTypes, ThreadZero
<1>2. Active = {} /\ Spinning = {}
  <2>1. n_graph.threads = 0
    BY DEF Init
  <2> QED
    BY <1>1, <2>1, ActiveType DEF Spinning
<1>3. \A t \in Threads : At(t) = IF t = 0 THEN "idle" ELSE "top"
  BY DEF Init, At
<1>4. BarrierOK
  <2>1. Cardinality({}) = 0
    BY FS_EmptySet
  <2> QED
    BY <1>2, <2>1 DEF Init, BarrierOK
<1>5. OthersPoll
  BY <1>3 DEF OthersPoll, Workers, Polling
<1>6. ChunksOnce
  BY DEF Init, ChunksOnce
<1>7. Outside
  BY <1>1, <1>2, <1>3 DEF Init, Outside, Computed, Driving
<1> QED
  BY <1>1, <1>4, <1>5, <1>6, <1>7 DEF Inv, Stage

(* Every step of a thread keeps it, ...                                      *)
LEMMA ThreadStepInv ==
    ASSUME Inv, NEW t \in Threads, ThreadStep(t)
    PROVE  Inv'
<1>1. Types
  BY DEF Inv
<1>2. CASE BarrierStep(t)
  <2>1. Types'
    BY <1>1, <1>2, BarrierTypes
  <2>2. BarrierOK' /\ OthersPoll' /\ ChunksOnce' /\ Stage'
    BY <1>2, EnterStep, ArriveStep, ResetStep, ReleaseStep, SpinStep DEF BarrierStep
  <2> QED
    BY <2>1, <2>2 DEF Inv
<1>3. CASE GraphStep(t)
  <2>1. Types' /\ BarrierOK' /\ OthersPoll'
    BY <1>1, <1>3, GraphTypes, GraphStepRest
  <2>2. ChunksOnce' /\ Stage'
    BY <1>3, NextNodeStep, FinishStep, QuantizeStep, ChunkStep, FetchStep, AfterStep
       DEF GraphStep
  <2> QED
    BY <2>1, <2>2 DEF Inv
<1>4. CASE WorkerStep(t)
  <2>1. Types'
    BY <1>1, <1>4, PollingSteps, WorkerTypes
  <2> QED
    BY <1>4, <2>1, WorkerKeeps DEF Inv
<1> QED
  BY <1>2, <1>3, <1>4 DEF ThreadStep

(* ... and so does every other step.                                         *)
LEMMA NextInv == Inv /\ [Next]_vars => Inv'
<1> SUFFICES ASSUME Inv, [Next]_vars PROVE Inv'
  OBVIOUS
<1>1. Types /\ 0 \in Threads
  BY ThreadZero DEF Inv
<1>2. CASE Caller \/ Kickoff \/ Join \/ Spurious
  <2>1. Types'
    BY <1>1, <1>2, CallerTypes
  <2>2. BarrierOK' /\ OthersPoll' /\ ChunksOnce' /\ Stage'
    <3>1. CASE Reset
      BY <3>1, ResetGraphStep
    <3>2. CASE Kickoff
      BY <3>2, KickoffStep
    <3>3. CASE TogglePause \/ Spurious
      <4>1. UNCHANGED <<graph, n_graph, n_barrier, n_barrier_passed, n_passed, current_chunk,
                        mine, work, abort, last_graph, node, return, pc>>
        BY <3>3 DEF TogglePause, Spurious, barrierVars, opVars
      <4> QED
        BY <4>1, NobodyMoves DEF At
    <3>4. CASE Free
      BY <3>4, DriverMoves DEF Free, Goto, Driving, barrierVars, opVars
    <3>5. CASE Join
      BY <3>5, DriverMoves DEF Join, Goto, Driving, poolVars, barrierVars, opVars
    <3> QED
      BY <1>2, <3>1, <3>2, <3>3, <3>4, <3>5 DEF Caller
  <2> QED
    BY <2>1, <2>2 DEF Inv
<1>3. CASE \E t \in Threads : ThreadStep(t)
  BY <1>3, ThreadStepInv
<1>4. CASE UNCHANGED vars
  <2>1. Types'
    BY <1>1, <1>4 DEF vars, poolVars, barrierVars, opVars, Types, TypeOK
  <2>2. \A u \in Threads : At(u)' = At(u)
    BY <1>4 DEF vars, barrierVars, At
  <2> QED
    BY <1>4, <2>1, <2>2, NobodyMoves DEF vars, poolVars, barrierVars, opVars, Inv
<1> QED
  BY <1>2, <1>3, <1>4 DEF Next

(* The invariant holds in every behaviour.                                   *)
LEMMA InvHolds == Spec => []Inv
BY InitInv, NextInv, PTL DEF Spec

-----------------------------------------------------------------------------
(* What it says of the pool                                                  *)

(* The variables keep their types.                                           *)
THEOREM TypeCorrect == Spec => []TypeOK
<1>1. Inv => TypeOK
  BY DEF Inv, Types
<1> QED
  BY <1>1, InvHolds, PTL

(* The barrier keeps the nodes apart: a thread that computes a node finds    *)
(* every node before it complete, and one that multiplies finds all of the   *)
(* quantized matrix (ggml_graph_compute_thread(), ggml_barrier()).           *)
THEOREM NodesAreInOrder == Spec => []NodesInOrder
<1>1. ASSUME Inv PROVE NodesInOrder
  <2> SUFFICES ASSUME NEW t \in Active, pc[t] \in InGraph
               PROVE  /\ node[t] <= Len(Nodes) => Before(node[t])
                      /\ pc[t] \in {"chunk", "fetch"} =>
                           \A u \in Active : <<node[t], Wdata, u>> \in work
    BY DEF NodesInOrder, Before, InGraph
  <2>1. Types /\ t \in Threads /\ At(t) = pc[t] /\ At(t) \in InGraph
    BY <1>1, ActiveType DEF Inv, At, InGraph
  <2>2. graph > 0 /\ ~Outside /\ node[t] \in Nat /\ Len(Nodes) \in Nat
    BY <1>1, <2>1, WhoIsInside, EachType, NodesType
  <2>3. PICK b \in 1 .. Len(Nodes) + 1 : NodeStage(b) \/ ChunkStage(b)
    BY <1>1, <2>2 DEF Inv, Stage
  <2>4. b \in Nat
    BY <2>2
  <2>5. CASE NodeStage(b)
    <3>1. InNode(t, b) /\ Before(b) /\ pc[t] \notin {"chunk", "fetch"}
      BY <2>1, <2>5, PlaceInNode DEF NodeStage
    <3>2. node[t] <= Len(Nodes) => b <= node[t] /\ Gap(b, node[t])
      <4>1. \/ Walking(t, b) \/ PastLast(t, b) \/ Quantizing(t, b) \/ Sharing(t, b)
        BY <2>1, <3>1, PlaceInNode DEF InGraph
      <4> QED
        BY <2>2, <2>4, <4>1 DEF Walking, PastLast, Quantizing, Sharing, Did, First
    <3> QED
      BY <2>2, <2>4, <3>1, <3>2, BeforeNext
  <2>6. CASE ChunkStage(b)
    <3>1. InChunk(t, b) /\ Before(b) /\ \A u \in Active : <<b, Wdata, u>> \in work
      BY <2>6 DEF ChunkStage
    <3>2. node[t] = b \/ (pc[t] = "node" /\ node[t] = Len(Nodes) + 1)
      BY <2>1, <3>1, PlaceInChunk DEF InGraph, LastNode
    <3> QED
      BY <2>2, <3>1, <3>2
  <2> QED
    BY <2>3, <2>5, <2>6
<1> QED
  BY <1>1, InvHolds, PTL

(* No chunk of a matrix multiplication is computed by two threads: each      *)
(* begins with the chunk of its number, and the counter starts behind these  *)
(* (ggml_compute_forward_mul_mat()).                                         *)
THEOREM ChunksAreComputedOnce == Spec => []ChunksOnce
<1>1. Inv => ChunksOnce
  BY DEF Inv
<1> QED
  BY <1>1, InvHolds, PTL

(* When thread 0 is not in the graph no worker is: what                      *)
(* ggml_graph_compute() resets, nobody uses.                                 *)
THEOREM ResetIsAlone == Spec => []NoWorkerInGraph
<1>1. ASSUME Inv PROVE NoWorkerInGraph
  <2> SUFFICES ASSUME pc[0] \in {"idle", "kick", "joining"}, NEW t \in Workers
               PROVE  pc[t] \in Polling \/ (pc[t] = "spin" /\ n_passed[t] # n_barrier_passed)
    BY DEF NoWorkerInGraph
  <2>1. Outside
    BY <1>1, DriverIsOutside DEF Driving
  <2>2. At(t) \in Polling
    BY <1>1, <2>1 DEF Outside, Inv, OthersPoll, Workers
  <2> QED
    BY <2>2 DEF At
<1> QED
  BY <1>1, InvHolds, PTL

(* An abort stops all threads at one node: nothing of that node or behind it *)
(* is computed, and everything before it is complete                         *)
(* (ggml_graph_compute_thread()).                                            *)
THEOREM AbortStopsAllAtOneNode == Spec => []AbortIsClean
<1>1. ASSUME Inv PROVE AbortIsClean
  <2>1. Types /\ \A w \in work : w[1] \in Nat
    BY <1>1, EachType DEF Inv
  <2>2. ASSUME abort # 0 PROVE \A w \in work : w[1] < abort
    <3>1. CASE Outside
      BY <2>2, <3>1 DEF Outside, Computed
    <3>2. ASSUME graph > 0, NEW b \in 1 .. Len(Nodes) + 1, NodeStage(b)
          PROVE  \A w \in work : w[1] < abort
      <4>1. b \in Nat /\ Len(Nodes) \in Nat
        BY <2>1, <3>2, NodesType
      <4>2. CASE abort = b
        BY <3>2, <4>2 DEF NodeStage
      <4>3. CASE AbortAfter(b)
        <5>1. PICK k \in b .. Len(Nodes) : First(b, k) /\ abort = k + 1
          BY <4>3 DEF AbortAfter
        <5>2. \A w \in work : w[1] < b \/ w[1] = k
          BY <2>1, <3>2, <5>1, FirstIsUnique DEF NodeStage
        <5> QED
          BY <2>1, <4>1, <5>1, <5>2
      <4> QED
        BY <2>2, <3>2, <4>2, <4>3 DEF NodeStage
    <3>3. ASSUME graph > 0, NEW b \in 1 .. Len(Nodes) + 1, ChunkStage(b)
          PROVE  \A w \in work : w[1] < abort
      <4>1. b \in Nat
        BY <2>1, <3>3, NodesType
      <4> QED
        BY <2>1, <2>2, <3>3, <4>1 DEF ChunkStage
    <3> QED
      BY <1>1, <3>1, <3>2, <3>3 DEF Inv, Stage
  <2>3. ASSUME pc[0] = "idle", graph > 0
        PROVE  \A n \in 1 .. Len(Nodes) : abort = 0 \/ n < abort => Complete(n)
    BY <1>1, <2>3, DriverIsOutside DEF Outside, Computed, Driving
  <2> QED
    BY <2>2, <2>3 DEF AbortIsClean
<1> QED
  BY <1>1, InvHolds, PTL
=============================================================================
