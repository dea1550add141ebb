---------------------------- MODULE XdnaInflight ----------------------------
(***************************************************************************)
(* Deferred host work of the XDNA backend (ggml-xdna.cpp, "Phase 9").      *)
(*                                                                         *)
(* ggml_backend_xdna_graph_compute walks the nodes of a graph in order.    *)
(* An INT4 GEMV or SwiGLU starts a run on the NPU with a buffer of its     *)
(* kernel's ring and leaves the completion (it writes the result to the    *)
(* destination tensor) in ctx->inflight.  A few other NPU operations wait  *)
(* for the producer of their input, the rest reads it as it is.  Nodes for *)
(* the CPU are collected and executed before the next NPU operation.       *)
(*                                                                         *)
(* An address is a tensor's data pointer and a value the number of the     *)
(* node that computed it: `memory' is what the addresses hold, `meaning'   *)
(* what they would hold if every node were executed at once.               *)
(***************************************************************************)
EXTENDS Integers, FiniteSets

CONSTANTS Address,
          NoAddress,    \* nullptr
          Kernels,      \* kernel entries with a ring of buffers
          RingSize,     \* XDNA_PHASE9_RING_SIZE
          QMax,         \* XDNA_PHASE9_QMAX
          MaxNodes      \* bound on the nodes of a graph

ASSUME XdnaOK ==
    /\ NoAddress \notin Address
    /\ RingSize \in Nat \ {0} /\ QMax \in Nat \ {0} /\ MaxNodes \in Nat

VARIABLES
    phase,      \* walking the nodes, on the CPU, returned
    n,          \* nodes walked
    cpuRun,     \* the collected CPU nodes
    queue,      \* inflight.q: an entry's id is its node, the oldest is in front
    nextSlot, slotActive, slotDst,  \* [Kernels], [Kernels \X Slots]
    buffer,     \* [Kernels \X Slots] the value of the run that has the buffer
    memory, meaning,
    live,       \* addresses whose value has readers left
    unwaited    \* an operation that does not wait has read a pending address

ring == <<nextSlot, slotActive, slotDst, buffer>>
vars == <<phase, n, cpuRun, queue, ring, memory, meaning, live, unwaited>>

Slots == 0 .. RingSize - 1
Wrong == -1

Pending(a) == \E e \in queue : e.dst = a

-----------------------------------------------------------------------------
(* The tracker *)

\* The deferred work of `done' in the order of the queue, with the buffers as
\* they are then: the last entry that writes an address prevails.
Last(done, a) ==
    CHOOSE e \in done : e.dst = a /\ \A f \in done : f.dst = a => f.id <= e.id

After(mem, done, buf) ==
    [a \in Address |-> IF \E e \in done : e.dst = a THEN buf[Last(done, a).slot]
                                                   ELSE mem[a]]

\* mutant: the deferred work leaves its slot active
Cleared_Kept(active, done) == active

Cleared(active, done) ==
    [s \in Kernels \X Slots |-> active[s] /\ \A e \in done : e.slot # s]

\* wait_for(a)
Producers(a) == {e \in queue : e.dst = a}

\* submit() makes room: the front, while the queue is full.
Oldest(q) == {e \in q : \A f \in q : e.id <= f.id}
Excess(q) == IF Cardinality(q) >= QMax THEN Oldest(q) ELSE {}

-----------------------------------------------------------------------------
(* Nodes *)

\* What node n + 1 computes from src when `mem' holds the data.
Computed(mem, src) == IF mem[src] = meaning[src] THEN n + 1 ELSE Wrong

\* A node reads src, for the last time or not, and writes to an address that
\* nobody reads any more; only some operations may work in place.
Step(src, dst, keep, inPlace) ==
    /\ phase = "walk" /\ n < MaxNodes
    /\ src \in live /\ dst \notin live \ (IF inPlace /\ ~keep THEN {src} ELSE {})
    /\ n' = n + 1
    /\ meaning' = [meaning EXCEPT ![dst] = n + 1]
    /\ live' = (IF keep THEN live ELSE live \ {src}) \cup {dst}

\* The code executes the collected CPU nodes before it dispatches to the NPU.
Flushed == cpuRun = {}

\* What is completed because slot s is taken again
SlotOwner(s) == IF slotActive[s] THEN Producers(slotDst[s]) ELSE {}

\* mutant: a consumer does not wait
InputOwners_Unwaited(src) == {}

InputOwners(src) == Producers(src)

Following(i) == (i + 1) % RingSize

\* mul_mat_gemv_int4 and mul_mat_swiglu_int4
Deferred(k, src, dst, keep) ==
    LET s     == <<k, nextSlot[k]>>
        done  == SlotOwner(s) \cup InputOwners(src)
        early == After(memory, done, buffer)
        more  == Excess(queue \ done)
    IN  /\ Flushed /\ Step(src, dst, keep, FALSE)
        /\ nextSlot' = [nextSlot EXCEPT ![k] = Following(@)]
        /\ buffer' = [buffer EXCEPT ![s] = Computed(early, src)]
        /\ memory' = After(early, more, buffer')
        /\ slotDst' = [slotDst EXCEPT ![s] = dst]
        /\ slotActive' = Cleared([Cleared(slotActive, done) EXCEPT ![s] = TRUE], more)
        /\ queue' = (queue \ (done \cup more))
                      \cup {[id |-> n + 1, dst |-> dst, slot |-> s]}
        /\ UNCHANGED <<phase, cpuRun, unwaited>>

\* mul_mat_gemv_int4_batched and mul_mat_qkv_int4_fused: they wait for the
\* producer of the input and for their own run.
Waiting(src, dst, keep) ==
    LET done  == InputOwners(src)
        early == After(memory, done, buffer)
    IN  /\ Flushed /\ Step(src, dst, keep, FALSE)
        /\ memory' = [early EXCEPT ![dst] = Computed(early, src)]
        /\ slotActive' = Cleared(slotActive, done)
        /\ queue' = queue \ done
        /\ UNCHANGED <<phase, cpuRun, nextSlot, slotDst, buffer, unwaited>>

\* rms_norm, mul_mat_gemm, the bf16 mul_mat_gemv and mul_mat_swiglu: they read
\* the input as it is.
Plain(src, dst, keep) ==
    /\ Flushed /\ Step(src, dst, keep, TRUE)
    /\ memory' = [memory EXCEPT ![dst] = Computed(memory, src)]
    /\ unwaited' = (unwaited \/ Pending(src))
    /\ UNCHANGED <<phase, cpuRun, queue, ring>>

\* A node for the CPU is collected, with the value it should read.
Collect(src, dst, keep) ==
    /\ Step(src, dst, keep, TRUE)
    /\ cpuRun' = cpuRun \cup {[id |-> n + 1, src |-> src, dst |-> dst,
                               read |-> meaning[src]]}
    /\ UNCHANGED <<phase, queue, ring, memory, unwaited>>

\* inflight.drain()
Drain ==
    /\ memory' = After(memory, queue, buffer)
    /\ slotActive' = Cleared(slotActive, queue)
    /\ queue' = {}
    /\ UNCHANGED <<nextSlot, slotDst, buffer>>

\* mutant: the CPU starts with work pending
BeforeCpu_Pending == UNCHANGED <<queue, ring, memory>>

BeforeCpu == Drain

\* xdna_delegate_range: drain, then the CPU backend executes the nodes.
Delegate ==
    /\ phase = "walk" /\ cpuRun # {}
    /\ phase' = "cpu"
    /\ BeforeCpu
    /\ UNCHANGED <<n, cpuRun, meaning, live, unwaited>>

CpuNode ==
    \E c \in cpuRun :
        /\ phase = "cpu" /\ \A d \in cpuRun : c.id <= d.id
        /\ memory' = [memory EXCEPT ![c.dst] =
                        IF memory[c.src] = c.read THEN c.id ELSE Wrong]
        /\ cpuRun' = cpuRun \ {c}
        /\ phase' = IF cpuRun' = {} THEN "walk" ELSE "cpu"
        /\ UNCHANGED <<n, queue, ring, meaning, live, unwaited>>

\* The CPU backend fails: graph_compute returns at once.
CpuFails ==
    /\ phase = "cpu"
    /\ phase' = "failed"
    /\ UNCHANGED <<n, cpuRun, queue, ring, memory, meaning, live, unwaited>>

\* The end of graph_compute
Return ==
    /\ phase = "walk" /\ Flushed /\ n > 0
    /\ phase' = "returned"
    /\ Drain
    /\ UNCHANGED <<n, cpuRun, meaning, live, unwaited>>

\* A graph starts with its inputs at some addresses.  The rings are where the
\* graphs before have left them, with nothing pending (GraphIsValid).
Init ==
    /\ phase = "walk" /\ n = 0 /\ cpuRun = {} /\ queue = {}
    /\ nextSlot \in [Kernels -> Slots]
    /\ slotActive = [s \in Kernels \X Slots |-> FALSE]
    /\ slotDst = [s \in Kernels \X Slots |-> NoAddress]
    /\ buffer = [s \in Kernels \X Slots |-> Wrong]
    /\ memory = [a \in Address |-> 0] /\ meaning = [a \in Address |-> 0]
    /\ live \in SUBSET Address \ {{}}
    /\ unwaited = FALSE

Next ==
    \/ \E src, dst \in Address, keep \in BOOLEAN :
         \/ \E k \in Kernels : Deferred(k, src, dst, keep)
         \/ Waiting(src, dst, keep) \/ Plain(src, dst, keep)
         \/ Collect(src, dst, keep)
    \/ Delegate \/ CpuNode \/ CpuFails \/ Return

Spec == Init /\ [][Next]_vars

-----------------------------------------------------------------------------
AllSlots == Kernels \X Slots

(* The types of the variables.  What `memory' holds is left open: Last has  *)
(* a value only because the entries of an address have a maximum.           *)
TypeOK ==
    /\ phase \in {"walk", "cpu", "failed", "returned"}
    /\ n \in Nat
    /\ cpuRun \subseteq [id : 1 .. n, src : Address, dst : Address, read : 0 .. n]
    /\ queue \subseteq [id : 1 .. n, dst : Address, slot : AllSlots]
    /\ nextSlot \in [Kernels -> Slots]
    /\ slotActive \in [AllSlots -> BOOLEAN]
    /\ slotDst \in [AllSlots -> Address \cup {NoAddress}]
    /\ buffer \in [AllSlots -> Int]
    /\ memory = [a \in Address |-> memory[a]]
    /\ meaning \in [Address -> 0 .. n]
    /\ live \subseteq Address
    /\ unwaited \in BOOLEAN

(* A slot of a ring is active exactly while its run is in the queue, and it *)
(* belongs to one run, whose destination it records: a buffer that the NPU  *)
(* or the deferred work still reads is never overwritten.                   *)
RingIntact ==
    /\ \A e, f \in queue : e.slot = f.slot => e = f
    /\ \A e \in queue : slotActive[e.slot] /\ slotDst[e.slot] = e.dst
    /\ \A s \in Kernels \X Slots : slotActive[s] => \E e \in queue : e.slot = s

(* Deferred work never lands on a newer value: what is pending for an       *)
(* address is its latest value (but for CPU nodes that are collected and    *)
(* not executed), although the allocator has reused the addresses since.    *)
PendingIsLatest ==
    ~unwaited /\ cpuRun = {} => \A e \in queue : e.dst \in live /\ meaning[e.dst] = e.id

(* "dst tensor->data buffers are valid when the caller reads them": when    *)
(* graph_compute returns, nothing is pending, also after a failure, and     *)
(* every tensor that is still needed has the value it has in the sequential *)
(* meaning of the graph.                                                    *)
GraphIsValid ==
    /\ phase \in {"returned", "failed"} => queue = {}
    /\ phase = "returned" /\ ~unwaited => \A a \in live : memory[a] = meaning[a]

(* "consumers call inflight.wait_for(tensor->data) before reading" *)
ConsumersWait == ~unwaited
=============================================================================
