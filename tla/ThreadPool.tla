----------------------------- MODULE ThreadPool -----------------------------
(***************************************************************************)
(* The thread pool of the CPU backend (ggml-cpu.c, built without OpenMP):  *)
(* thread 0 calls ggml_graph_compute(), the others poll for work and then  *)
(* sleep on a condition variable; all of them walk the nodes of the graph  *)
(* and meet in ggml_barrier() between two of them.                         *)
(*                                                                         *)
(* A step is one atomic operation, or one critical section of the mutex.   *)
(* The operations are taken in one order for all threads (the barrier's    *)
(* are seq_cst; what is relaxed is ordered by them).                       *)
(***************************************************************************)
EXTENDS Naturals, Sequences, FiniteSets

CONSTANTS
    NThreads,   \* the size of the pool
    Graphs,     \* what is computed: [threads : number, nodes : sequence of Kinds]
    NChunks,    \* chunks of a matrix multiplication
    Wrap,       \* the graph counter in the upper bits of n_graph wraps here
    MayAbort,   \* abort_callback may return true
    MayPause    \* ggml_threadpool_pause() and _resume() are called

Threads == 0 .. NThreads - 1
Workers == Threads \ {0}
Kinds   == {"empty", "mul_mat", "other"}
Chunks  == 0 .. NChunks - 1

ASSUME PoolOK ==
    /\ NThreads \in Nat \ {0} /\ NChunks \in Nat /\ Wrap \in Nat \ {0}
    /\ Graphs \in Seq([threads : 1 .. NThreads, nodes : Seq(Kinds)])
    /\ MayAbort \in BOOLEAN /\ MayPause \in BOOLEAN

VARIABLES
    graph,      \* the number of calls of ggml_graph_compute()
    n_graph,    \* the graph counter and the number of active threads
    n_barrier, n_barrier_passed,
    current_chunk,
    abort,      \* the node at which the threads stop, 0 for none
    stop, pause,
    cond,       \* the threads that sleep on the condition variable
    pc,
    last_graph, \* the n_graph that a worker saw last
    node,       \* the node that a thread is at
    n_passed,   \* n_barrier_passed when a thread entered the barrier
    return,     \* where a thread goes on after the barrier
    mine,       \* the chunk that a thread computes
    work        \* history: which thread has done what of the graph

poolVars    == <<graph, n_graph, stop, pause, cond>>
barrierVars == <<n_barrier, n_barrier_passed, n_passed>>
opVars      == <<current_chunk, mine, work>>
vars == <<poolVars, barrierVars, opVars, abort, pc, last_graph, node, return>>

Nodes == Graphs[graph].nodes
Active == {t \in Threads : t < n_graph.threads}

\* What a thread does: write its share of the quantized matrix, its share of
\* another operation, or a chunk.
Wdata == NChunks
Share == NChunks + 1

Asleep  == {"pause_wait", "work_wait"}
Polling == {"top", "stop_check", "pause_lock", "poll", "work_lock", "exited"} \cup Asleep
Barrier == {"enter", "arrive", "reset", "release", "spin"}
InGraph == {"node", "quantize", "chunk", "fetch", "after"}
Driving == {"idle", "kick", "joining", "freed"}

TypeOK ==
    /\ graph \in 0 .. Len(Graphs)
    /\ n_graph \in [count : 0 .. Wrap - 1, threads : 0 .. NThreads]
    /\ n_barrier \in Nat
    /\ n_barrier_passed \in Nat
    /\ current_chunk \in Nat
    /\ abort \in Nat
    /\ stop \in BOOLEAN /\ pause \in BOOLEAN
    /\ cond \in SUBSET Workers
    /\ pc \in [Threads -> Polling \cup Barrier \cup InGraph \cup Driving]
    /\ last_graph \in [Threads -> [count : 0 .. Wrap - 1, threads : 0 .. NThreads]]
    /\ node \in [Threads -> Nat]
    /\ n_passed \in [Threads -> Nat]
    /\ return \in [Threads -> {"node", "chunk", "top", "idle"}]
    /\ mine \in [Threads -> Nat]
    /\ work \in SUBSET (Nat \X (0 .. NChunks + 1) \X Threads)

Init ==
    /\ graph = 0
    /\ n_graph = [count |-> 0, threads |-> 0]
    /\ n_barrier = 0 /\ n_barrier_passed = 0
    /\ current_chunk = 0
    /\ abort = 0
    /\ stop = FALSE
    /\ pause \in {FALSE, MayPause}
    /\ cond = {}
    /\ pc = [t \in Threads |-> IF t = 0 THEN "idle" ELSE "top"]
    /\ last_graph = [t \in Threads |-> n_graph]
    /\ node = [t \in Threads |-> 0]
    /\ n_passed = [t \in Threads |-> 0]
    /\ return = [t \in Threads |-> "node"]
    /\ mine = [t \in Threads |-> 0]
    /\ work = {}

Goto(t, label) == pc' = [pc EXCEPT ![t] = label]

-----------------------------------------------------------------------------
\* ggml_barrier(): a thread goes on at label when all active threads are here.
CallBarrier(t, label) ==
    /\ Goto(t, "enter")
    /\ return' = [return EXCEPT ![t] = label]

EnterBarrier(t) ==
    /\ pc[t] = "enter"
    /\ IF n_graph.threads = 1
         THEN Goto(t, return[t]) /\ UNCHANGED n_passed
         ELSE Goto(t, "arrive") /\ n_passed' = [n_passed EXCEPT ![t] = n_barrier_passed]
    /\ UNCHANGED <<poolVars, n_barrier, n_barrier_passed, opVars, abort, last_graph, node, return>>

IsLast_Early == n_barrier + 2 >= n_graph.threads
IsLast == n_barrier = n_graph.threads - 1

Arrive(t) ==
    /\ pc[t] = "arrive"
    /\ n_barrier' = n_barrier + 1
    /\ Goto(t, IF IsLast THEN "reset" ELSE "spin")
    /\ UNCHANGED <<poolVars, n_barrier_passed, n_passed, opVars, abort, last_graph, node, return>>

\* The last thread empties the barrier, then lets the others go on.
ResetBarrier(t) ==
    /\ pc[t] = "reset"
    /\ n_barrier' = 0
    /\ Goto(t, "release")
    /\ UNCHANGED <<poolVars, n_barrier_passed, n_passed, opVars, abort, last_graph, node, return>>

Release(t) ==
    /\ pc[t] = "release"
    /\ n_barrier_passed' = n_barrier_passed + 1
    /\ Goto(t, return[t])
    /\ UNCHANGED <<poolVars, n_barrier, n_passed, opVars, abort, last_graph, node, return>>

Spin(t) ==
    /\ pc[t] = "spin"
    /\ n_barrier_passed # n_passed[t]
    /\ Goto(t, return[t])
    /\ UNCHANGED <<poolVars, barrierVars, opVars, abort, last_graph, node, return>>

BarrierStep(t) == EnterBarrier(t) \/ Arrive(t) \/ ResetBarrier(t) \/ Release(t) \/ Spin(t)

-----------------------------------------------------------------------------
\* ggml_graph_compute_thread(): the next node, or the barrier at the end.
AtEnd(t) == node[t] > Len(Nodes) \/ abort = node[t]

NextNode(t) ==
    /\ pc[t] = "node"
    /\ ~AtEnd(t)
    /\ CASE Nodes[node[t]] = "empty"   -> /\ node' = [node EXCEPT ![t] = @ + 1]
                                          /\ UNCHANGED <<work, pc>>
         [] Nodes[node[t]] = "mul_mat" -> /\ work' = work \cup {<<node[t], Wdata, t>>}
                                          /\ Goto(t, "quantize")
                                          /\ UNCHANGED node
         [] OTHER                      -> /\ work' = work \cup {<<node[t], Share, t>>}
                                          /\ Goto(t, "after")
                                          /\ UNCHANGED node
    /\ UNCHANGED <<poolVars, barrierVars, current_chunk, mine, abort, last_graph, return>>

Home(t) == IF t = 0 THEN "idle" ELSE "top"
LeaveGraph_NoBarrier(t) == Goto(t, Home(t)) /\ UNCHANGED return
LeaveGraph(t) == CallBarrier(t, Home(t))

FinishGraph(t) ==
    /\ pc[t] = "node"
    /\ AtEnd(t)
    /\ LeaveGraph(t)
    /\ UNCHANGED <<poolVars, barrierVars, opVars, abort, last_graph, node>>

\* A matrix multiplication: every thread begins with the chunk of its number,
\* so that the first chunk to take is the number of threads.
FirstChunk_Zero == 0
FirstChunk == n_graph.threads

Quantize(t) ==
    /\ pc[t] = "quantize"
    /\ current_chunk' = IF t = 0 THEN FirstChunk ELSE current_chunk
    /\ mine' = [mine EXCEPT ![t] = t]
    /\ CallBarrier(t, "chunk")
    /\ UNCHANGED <<poolVars, barrierVars, work, abort, last_graph, node>>

Chunk(t) ==
    /\ pc[t] = "chunk"
    /\ IF mine[t] < NChunks
         THEN /\ work' = work \cup {<<node[t], mine[t], t>>}
              /\ Goto(t, IF n_graph.threads >= NChunks THEN "after" ELSE "fetch")
         ELSE /\ Goto(t, "after")
              /\ UNCHANGED work
    /\ UNCHANGED <<poolVars, barrierVars, current_chunk, mine, abort, last_graph, node, return>>

FetchChunk(t) ==
    /\ pc[t] = "fetch"
    /\ mine' = [mine EXCEPT ![t] = current_chunk]
    /\ current_chunk' = current_chunk + 1
    /\ Goto(t, "chunk")
    /\ UNCHANGED <<poolVars, barrierVars, work, abort, last_graph, node, return>>

\* After a node thread 0 may ask for an abort at the next one.
AbortAt_Node == node[0]
AbortAt == node[0] + 1

AfterNode(t) ==
    /\ pc[t] = "after"
    /\ \/ UNCHANGED abort
       \/ MayAbort /\ t = 0 /\ abort' = AbortAt
    /\ node' = [node EXCEPT ![t] = @ + 1]
    /\ IF node[t] < Len(Nodes)
         THEN CallBarrier(t, "node")
         ELSE Goto(t, "node") /\ UNCHANGED return
    /\ UNCHANGED <<poolVars, barrierVars, opVars, last_graph>>

GraphStep(t) ==
    NextNode(t) \/ FinishGraph(t) \/ Quantize(t) \/ Chunk(t) \/ FetchChunk(t) \/ AfterNode(t)

-----------------------------------------------------------------------------
\* ggml_graph_compute_secondary_thread()
CheckPause(t) ==
    /\ pc[t] = "top"
    /\ Goto(t, IF pause THEN "pause_lock" ELSE "stop_check")
    /\ UNCHANGED <<poolVars, barrierVars, opVars, abort, last_graph, node, return>>

SleepPaused(t) ==
    /\ pc[t] = "pause_lock"
    /\ IF pause
         THEN Goto(t, "pause_wait") /\ cond' = cond \cup {t}
         ELSE Goto(t, "top") /\ UNCHANGED cond
    /\ UNCHANGED <<graph, n_graph, stop, pause, barrierVars, opVars, abort, last_graph, node, return>>

CheckStop(t) ==
    /\ pc[t] = "stop_check"
    /\ Goto(t, IF stop THEN "exited" ELSE "poll")
    /\ UNCHANGED <<poolVars, barrierVars, opVars, abort, last_graph, node, return>>

\* ggml_graph_compute_thread_ready(): a new n_graph; the worker begins if it is
\* one of the active threads, and goes to label if not.
SeesGraph(t, label) ==
    /\ n_graph # last_graph[t]
    /\ last_graph' = [last_graph EXCEPT ![t] = n_graph]
    /\ IF t < n_graph.threads
         THEN Goto(t, "node") /\ node' = [node EXCEPT ![t] = 1]
         ELSE Goto(t, label) /\ UNCHANGED node

\* Polling reads stop, pause and n_graph one after the other, and gives up
\* after some rounds.
Poll(t) ==
    /\ pc[t] = "poll"
    /\ \/ SeesGraph(t, "work_lock")
       \/ Goto(t, "work_lock") /\ UNCHANGED <<last_graph, node>>
    /\ UNCHANGED <<poolVars, barrierVars, opVars, abort, return>>

\* Under the mutex nothing changes between the checks.
WaitForWork_NoCheck(t) == Goto(t, "work_wait") /\ cond' = cond \cup {t}
WaitForWork(t) ==
    /\ n_graph = last_graph[t]
    /\ Goto(t, "work_wait")
    /\ cond' = cond \cup {t}

CheckForWork(t) ==
    /\ pc[t] = "work_lock"
    /\ \/ /\ stop \/ pause
          /\ Goto(t, "top")
          /\ UNCHANGED <<cond, last_graph, node>>
       \/ /\ ~stop /\ ~pause
          /\ SeesGraph(t, "top")
          /\ UNCHANGED cond
       \/ /\ ~stop /\ ~pause
          /\ WaitForWork(t)
          /\ UNCHANGED <<last_graph, node>>
    /\ UNCHANGED <<graph, n_graph, stop, pause, barrierVars, opVars, abort, return>>

WakeUp(t) ==
    /\ pc[t] \in Asleep
    /\ t \notin cond
    /\ Goto(t, IF pc[t] = "pause_wait" THEN "top" ELSE "work_lock")
    /\ UNCHANGED <<poolVars, barrierVars, opVars, abort, last_graph, node, return>>

\* A condition variable may wake a thread without a signal.
Spurious ==
    /\ \E t \in cond : cond' = cond \ {t}
    /\ UNCHANGED <<graph, n_graph, stop, pause, barrierVars, opVars, abort, pc, last_graph, node, return>>

WorkerStep(t) ==
    CheckPause(t) \/ SleepPaused(t) \/ CheckStop(t) \/ Poll(t) \/ CheckForWork(t) \/ WakeUp(t)

-----------------------------------------------------------------------------
Broadcast == cond' = {}

\* ggml_graph_compute(): "No worker threads should be accessing the parameters
\* below at this stage".
Reset ==
    /\ pc[0] = "idle"
    /\ graph < Len(Graphs)
    /\ graph' = graph + 1
    /\ current_chunk' = 0
    /\ abort' = 0
    /\ work' = {}
    /\ Goto(0, "kick")
    /\ UNCHANGED <<n_graph, stop, pause, cond, barrierVars, mine, last_graph, node, return>>

\* ggml_graph_compute_kickoff(); thread 0 begins at the first node.
NewGraph == [count |-> (n_graph.count + 1) % Wrap, threads |-> Graphs[graph].threads]

Kickoff ==
    /\ pc[0] = "kick"
    /\ n_graph' = NewGraph
    /\ pause' = FALSE
    /\ Broadcast
    /\ node' = [node EXCEPT ![0] = 1]
    /\ Goto(0, "node")
    /\ UNCHANGED <<graph, stop, barrierVars, opVars, abort, last_graph, return>>

\* ggml_threadpool_pause() and ggml_threadpool_resume()
TogglePause ==
    /\ MayPause
    /\ pc[0] = "idle"
    /\ pause' = ~pause
    /\ Broadcast
    /\ UNCHANGED <<graph, n_graph, stop, barrierVars, opVars, abort, pc, last_graph, node, return>>

\* ggml_threadpool_free(): stop the workers and join them.
PauseAfterStop_Kept == pause
PauseAfterStop == FALSE

Free ==
    /\ pc[0] = "idle"
    /\ stop' = TRUE
    /\ pause' = PauseAfterStop
    /\ Broadcast
    /\ Goto(0, "joining")
    /\ UNCHANGED <<graph, n_graph, barrierVars, opVars, abort, last_graph, node, return>>

Join ==
    /\ pc[0] = "joining"
    /\ \A t \in Workers : pc[t] = "exited"
    /\ Goto(0, "freed")
    /\ UNCHANGED <<poolVars, barrierVars, opVars, abort, last_graph, node, return>>

Caller == Reset \/ TogglePause \/ Free

ThreadStep(t) == BarrierStep(t) \/ GraphStep(t) \/ WorkerStep(t)

Next == Caller \/ Kickoff \/ Join \/ Spurious \/ \E t \in Threads : ThreadStep(t)

Spec == Init /\ [][Next]_vars

\* The operating system schedules every thread; nobody has to call the pool.
FairSpec ==
    Spec /\ WF_vars(Kickoff \/ Join) /\ \A t \in Threads : WF_vars(ThreadStep(t))

-----------------------------------------------------------------------------
Complete(n) ==
    CASE Nodes[n] = "mul_mat" -> \A c \in Chunks : \E t \in Threads : <<n, c, t>> \in work
      [] Nodes[n] = "other"   -> \A t \in Active : <<n, Share, t>> \in work
      [] OTHER                -> TRUE

\* The barrier separates the nodes: who computes a node finds every node
\* before it complete, and who multiplies finds the whole quantized matrix.
NodesInOrder ==
    \A t \in Active :
        /\ pc[t] \in InGraph /\ node[t] <= Len(Nodes) => \A n \in 1 .. node[t] - 1 : Complete(n)
        /\ pc[t] \in {"chunk", "fetch"} => \A u \in Active : <<node[t], Wdata, u>> \in work

\* Two threads never compute the same chunk (ggml_compute_forward_mul_mat()).
ChunksOnce ==
    \A v, w \in work : v[1] = w[1] /\ v[2] = w[2] /\ v[2] \in Chunks => v[3] = w[3]

\* What ggml_graph_compute() assumes where it resets the pool: no worker is in
\* the graph, nor has a barrier ahead of it.
NoWorkerInGraph ==
    pc[0] \in {"idle", "kick", "joining"} =>
        \A t \in Workers : pc[t] \in Polling \/ (pc[t] = "spin" /\ n_passed[t] # n_barrier_passed)

\* An abort stops all threads at the same node, with everything before it done.
AbortIsClean ==
    /\ abort # 0 => \A w \in work : w[1] < abort
    /\ pc[0] = "idle" /\ graph > 0 =>
          \A n \in 1 .. Len(Nodes) : abort = 0 \/ n < abort => Complete(n)

\* ggml_graph_compute() returns.
GraphsReturn == pc[0] = "kick" ~> pc[0] = "idle"

\* ggml_threadpool_free() returns: no worker sleeps through the stop.
FreeReturns == pc[0] = "joining" ~> pc[0] = "freed"
=============================================================================
