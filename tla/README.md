# Verification of llama.cpp-xdna

This directory holds TLA+ specifications of this repository's concurrent and
stateful code, the TLC instances that check them, and theorems proved with
TLAPS.  They cover the request pipeline of llama-server, sleeping, the model
router, the logger, the CPU thread pool, the deferred work of the XDNA backend,
the KV cache and the graph allocator.  The reference is the source; line numbers below are those of
the files under `tools/server/` unless another path is given.

## 1. Inventory

| Component | State it keeps | Operations | What is hard |
|---|---|---|---|
| `server_queue` (`server-queue.cpp/.h`) | `queue_tasks`, `queue_tasks_deferred`, `running`, `sleeping`, `req_stop_sleeping`, one mutex and one condition variable | `post`, `defer`, `pop_deferred_task`, `cleanup_pending_task`, `start_loop`, `wait_until_no_sleep`, `terminate` | posted to by HTTP threads while the main thread moves tasks between two queues and its own hands; the condition variable has two kinds of waiters |
| `server_response` (same files) | `waiting_task_ids`, `queue_results` | `add_waiting_task_ids`, `send`, `recv_with_timeout`, `remove_waiting_task_id(s)` | results for ids that are no longer waited for; two removal functions, of which one does not purge results |
| `server_response_reader` | `id_tasks`, `received_count`, `cancelled` | `post_tasks`, `next`, `stop` | cancels what is unfinished while the main thread works on it |
| `server_context_impl` (`server-context.cpp`) | the slots (`slot_state`, task, `n_decoded`), the batch, `n_empty_consecutive` | `process_single_task`, `launch_slot_with_task`, `launch_slots_with_parent_task`, `update_slots`, `server_slot::release` | slots in different states share a batch; a parent and its children start together; failures in the middle of a batch |
| sleeping (`server-queue.cpp`, `handle_sleeping_state`) | `sleeping`, the model pointers | fall asleep when idle, wake up on request, destroy and reload the model | HTTP threads race the main thread across three critical sections |
| process life cycle (`server.cpp`) | signal handler, monitor thread | `terminate` | a signal may come before, during and after the loop |
| model router (`server-models.cpp`) | `mapping`, `stopping_models`, child processes, two condition variables | `load`, `unload`, `unload_lru`, `ensure_model_ready`, `proxy_request`, the monitoring threads | statuses written by three threads per instance, waits for an exact status |
| logging (`common/log.cpp`) | ring of entries, worker thread | `add`, `pause`, `resume`, `set_file` | ring at its limit, pause against add |
| XDNA deferred work (`ggml/src/ggml-xdna/ggml-xdna.cpp:590-651`) | the queue of in-flight entries, a ring of buffers per kernel | `submit`, `wait_for`, `drain` | a consumer that reads before the deferred work has run |
| KV cache (`src/llama-kv-cache.cpp`, `llama-kv-cells.h`) | cells, sequence sets, positions | `seq_rm/cp/keep/add/div`, `find_slot`, `apply_ubatch` | agreement of several redundant structures, roll-back |
| batch splitting (`src/llama-batch.cpp`), recurrent and hybrid memory | used tokens, cells with tails | `split_simple/equal/seq`, `find_slot` | every token in one ubatch, equal shares |
| ggml thread pool (`ggml/src/ggml-cpu/ggml-cpu.c`) | `n_graph`, barrier counters, `current_chunk`, `abort`, `pause`, `stop` | `ggml_barrier`, `ggml_graph_compute_kickoff`, `ggml_graph_compute`, pause, resume, free | lock-free counters that are used again, threads that poll and sleep |
| graph allocator (`ggml/src/ggml-alloc.c`) | free blocks per chunk, counters and address per tensor, the last plan, the buffers | `ggml_dyn_tallocr_alloc/free_bytes`, `ggml_gallocr_reserve`, `ggml_gallocr_alloc_graph` | tensors that share memory, plans and buffers that are kept for other graphs |
| backend scheduler (`ggml/src/ggml-backend.cpp`) | splits, copies of inputs, events | `split_graph`, `alloc_splits`, `compute_splits` | asynchronous copies, the graph's topology against the plan |
| everything else | - | text, numerics, device kernels, tools, conversion scripts, vendored code | listed in `PROJECT.json` with the reason why it is left out |

How the server's parts interact:

    HTTP thread --post--> server_queue --pop--> main thread: process_single_task
         ^                    ^  ^                       |  launch / defer
         |                    |  +--defer, NEXT_RESPONSE-+
         |                    +----- CANCEL ------+      v
         |                                        |   update_slots: build the
         +-- recv -- server_response <-- send ----+-- batch, decode, sample,
                                                      release (-> pop_deferred)

The main thread owns the slots; it shares the two queues with the HTTP threads
under `mutex_tasks` and the results under `mutex_results`.

What makes each component correct:

- queue and reader: a task is in one place, and is answered by exactly one stop
  result or was cancelled; a closed request leaves nothing behind; every
  request ends, or what leaves it deferred beside idle slots is known (the promise of
  `server-queue.h:40` does not hold, see section 3);
- slots: the main thread never sleeps while a slot has work; every slot is freed
  in the end; a parent's children are on slots when its prompt is done; a
  finished prompt is sampled;
- sleeping: the model is loaded whenever it is used; nobody waits for a wake-up
  that has happened; a request wakes the server;
- logging: while the log runs nothing is lost, duplicated or reordered, and
  after `pause()` everything is printed; `pause()` returns;
- router: never more processes than `--models-max`; the status of a model is what
  its process does; what was asked to stop stops; no process outlives the router;
- thread pool: nodes are computed in order and chunks once, nobody is in a graph
  when the next one is set up, no wake-up is lost;
- XDNA: the result is that of the sequential graph, although host work is
  deferred, buffers are a ring and addresses are reused;
- KV cache: the redundant structures agree, and attention finds what the caller
  believes it has put there;
- graph allocator: no byte is handed out twice or lost, every tensor lies within
  its buffer, and a node finds in memory what its sources have computed.

The hazards, each at its line, are in `PROJECT.json`.

## 2. Modules

| Module | Models | Lines of code it stands for |
|---|---|---|
| `ServerPipeline` | HTTP threads with their readers, the two queues, the results, the main loop, the slots and `update_slots` | `server-queue.cpp`, `server-context.cpp` 949-1061, 1108-1356, 1646-2966, `server-task.h` |
| `PipelineProperties` | what the pipeline promises | - |
| `RequestService` | abstract specification: what one request sees of the server | `server-queue.h` 117-159 |
| `ServerSleep` | falling asleep, waking up and terminating, with every critical section and the condition variable | `server-queue.cpp` 22-209, `server-context.cpp` 3050-3148 |
| `ServerModels` | the router: requests, child processes, monitoring, log and stopping threads, shutdown | `server-models.cpp` 440-850 |
| `CommonLog` | the ring of log entries, its growth, the worker thread, `pause`, `resume`, `set_file`, `common_log_flush` | `common/log.cpp` 61-321, 423-426 |
| `ThreadPool` | the barrier, kickoff, polling and sleeping, pause, abort, free, the chunks of a matrix multiplication | `ggml/src/ggml-cpu/ggml-cpu.c` 458-700, 1230-1430, 2640-3310 |
| `XdnaInflight` | the deferred host work and the walk over a graph | `ggml/src/ggml-xdna/ggml-xdna.cpp` 560-660, 3240-3400, 19900-24000 (parts) |
| `KVCache` | the cells and streams, the sequence operations, finding and filling slots, `decode` as it drives them, saving and restoring | `src/llama-kv-cells.h`, `src/llama-kv-cache.cpp`, `src/llama-batch.cpp` (`split_*`), `src/llama-context.cpp` (`decode`) |
| `GraphAlloc` | free blocks and chunks, planning a graph node by node, keeping plans and buffers, computing the graph in the planned memory | `ggml/src/ggml-alloc.c` 100-1100 |
| `MCPipeline`, `MCSleep`, `MCServerModels`, `MCThreadPool`, `MCXdnaInflight`, `MCKVCache`, `MCGraphAlloc` | the instances for TLC | - |
| `PipelineProof`, `ServerLifeProof` (of `ServerModels` and `ServerSleep`), `CommonLogProof`, `XdnaInflightProof`, `GraphAllocProof`, `ThreadPoolProof`, `KVCacheProof`, `KVCacheTokensProof` | proofs | - |

`PROJECT.json` maps every definition to its lines.

### ServerPipeline

State and code:

| Variable | Code |
|---|---|
| `queue`, `deferred` | `queue_tasks`, `queue_tasks_deferred`; entries are a task, a CANCEL or NEXT_RESPONSE |
| `waiting`, `inbox[r]` | `waiting_task_ids`, and the results in `queue_results` that belong to reader `r`, in order |
| `pc[r]`, `todo[r]`, `received[r]`, `got[r]` | where reader `r` is in `post_tasks`/`next`/`stop`, the ids `stop` has not reached, `received_count`, the tasks whose stop result was taken |
| `phase`, `cur`, `at`, `releasing` | where the main thread is, the task `process_single_task` holds, the slot the prompt loop is at, the slot whose `release()` is next |
| `state`, `task`, `decoded` | `slot_state`, the task of the slot, `n_decoded` |
| `batch`, `ready`, `nEmpty` | slots with tokens in the batch, slots with logits not yet sampled, `n_empty_consecutive` |

One action is one critical section of `mutex_tasks` or `mutex_results`, or a
stretch of the main thread between two of them.  `release()` calls
`pop_deferred_task()`, a critical section of its own, therefore it is a step
(`Release`) that has to follow before the main thread goes on.  `stop()` is
three kinds of steps, because the readers' ids are removed one critical section
at a time before the CANCEL tasks are posted.

Data that is abstracted: a prompt is `ok`, `empty`, `long` (refused by
`update_slots`) or `image` (a chunk that may fail); a result is `partial`,
`final` or `error`; tokens are counted up to `MaxTokens`.  Where the code
chooses by content (similar prompts, the least recently used slot, the token
that ends generation), the model chooses any.  `FailLaunch` names the tasks that
`launch_slot_with_task()` may refuse (invalid tokens, or an exception of the
sampler's initialisation, which can hit one member of a family alone).
`llama_decode()` succeeds, or fails for good when `DecodeMayFail`; the retry with
half the batch after a full KV cache is part of "succeeds".

Not in this module: slot actions with a multimodal projector (they are refused
at once), prompt cache, checkpoints, speculative drafts, tokenization by the
main thread for the CLI, progress results, and the shifting of one slot's prompt
over several batches beyond one partial step.  A prompt that cannot be split and does not
fit into the rest of the batch is skipped until the next batch (2472-2477): no instance
has two of them, in the model they fit.  `can_batch_with()` also compares LoRA adapters,
which are data here: requests of one type have the same ones.

### ServerSleep

`sleeping`, `reqStop`, `running`, `queue` are the members of `server_queue`; `cv`
is the set of threads blocked on `condition_tasks`; `mainAt` and `rd[r]` say where
the main thread and an HTTP thread are; `busy` are the requests on slots;
`signalled` says that `terminate()` was called.  `NotifyOne` and `NotifyAll` are
the condition variable's semantics, `Spurious` its spurious wake-ups.  Time is
left out: the main thread may find itself idle long enough whenever it is idle.

`SignalEarly` lets `terminate()` come before `start_loop()`.  It is `FALSE` in the
runs: with `TRUE`, `TerminateEnds` does not hold, because `start_loop()` begins with
`running = true` (`server-queue.cpp:126`).

### CommonLog

`entries`, `head`, `tail`, `running`, `file` and `cur` are the members of `common_log`;
`size` is `entries.size()`, which `Grow` doubles.  `worker` says where the worker
thread is (waiting, printing without the lock, ended, joined) and `caller` where
the thread is that calls `pause()`, `common_log_flush()` or `set_file()`: the header
says that these are not thread-safe, so there is one.  `Add` and `Discard` are
`add()` by any thread, whole critical sections.  A message is the number of its
call with the file that was set when it was logged; `PrintCur` records the file that
is open when it is printed.  `accepted` and `printed` are history.  The condition
variable has one waiter and every change of the ring notifies it under the lock,
so waiting is a guard.  `fopen` is assumed to succeed; prefix, colours and
timestamps are formatting.

### ServerModels

`status` and `stopping` are `meta.status` and `stopping_models`; `holder` is the `load()`
that holds the mutex while it joins the old monitoring thread, which is the one
blocking call under the mutex.  For every model there are two instances: the one
in `mapping`, and the one that `load()` is starting before it moves it there.  Of an
instance the model has the process (`child`), the lines of its stdout that are not
read (`out`), the exit command (`told`), the monitoring thread with its log thread
(`mon`) and the stopping thread (`stp`).  `pc`, `want`, `auto`, `victim` and `port` are the
local state of a request's handler.

`cv` is notified after every change of a status, so waiting on it is a guard.
`cv_stop` is modelled with its notifications (`Notified`), because its condition also
asks whether the child lives, and nobody notifies it of that.  A process that
ends closes its files before it can be waited for (`closing`, then `dead`).  Which
model is the least recently used is left open, so is the exit code; presets and
the model list are read once at start-up.

### ThreadPool

The build without OpenMP.  One step is one atomic operation or one critical
section.  `n_graph`, `n_barrier`, `n_barrier_passed`, `current_chunk`, `abort`, `stop` and
`pause` are the members of `ggml_threadpool`; `pc`, `node`, `last_graph`, `n_passed`, `mine` and
`return` are the registers of a thread.  A graph is a sequence of nodes of three
kinds: empty ones (skipped), matrix multiplications (quantize, barrier, chunks from
the shared counter) and others (every thread does its share).  `work` is history:
who computed what.  The operations are taken in one order for all threads: the
barrier's are `seq_cst`, the relaxed ones are ordered by them.

### XdnaInflight

`queue` is `inflight.q`, whose entries are a destination and a slot of a kernel's
ring; `nextSlot`, `slotActive`, `slotDst` and `buffer` are the rings.  An address is the data
pointer of a tensor.  A value is the number of the node that computed it: `memory` is
what the addresses hold and `meaning` what they would hold if every node were
executed at once.  `Deferred`, `Waiting` and `Plain` are the three kinds of operations on
the NPU (deferred; waiting for the producer of the input; reading it as it is),
`Collect`, `Delegate`, `CpuNode` the CPU nodes and their delayed execution.  The
allocator is any assignment of addresses that nobody reads any more; in place is
possible where the backend allows it.  `unwaited` notes that an operation of the third
kind has read an address with deferred work pending.

### KVCache

`cells` are the `llama_kv_cells` of every stream with all redundant fields (`pos`,
`shift`, `seq`, `used`, `has_shift`, `seq_pos`), `heads` the `v_heads`, `sc_info` the pending
copies.  `data` says which token's key a cell really holds and for which position it
is rotated, `mem` is a ghost: the tokens the caller believes each sequence to have.
`plan` are the micro batches that `decode` has still to compute.  A call is an action; `decode` is one
for the preparation and one for every micro batch, each of which may be aborted.

`mode` is how the cache was built: `unified`, `streams` (one per sequence) or
`swa` (a sliding window).  The callers are the server and the examples: positions
continue the sequence, tokens that sequences share are not shifted
(`MayShift`), a prompt is truncated to nothing when its window is no longer
complete (`Kept`).  `EagerState` allows to save and restore with updates pending,
`Lookahead` allows a batch of several micro batches with a sliding window; both are
`FALSE` in `kv`.  `kv_prepare` has `Lookahead = TRUE`: what `prepare()` purges while it
looks for the slots of such a batch is gone, and a token that the batch can still see may
be missing.  `RoomIsFound`, which asks for the slots only, is about every batch, and
without a window batches have as many micro batches as they need.

The model has no `RECURSIVE` operator.  A loop over cells, sequences or tokens is a fold of the
community modules (`FoldSet` where the order does not matter, `FoldLeft` and
`FoldRightDomain` where it does), and a list of cells in their order is `Ordered`.

### GraphAlloc

`chunks` are the `ggml_dyn_tallocr` (a free list is the set of its blocks), `hash` the
`hash_values` (children, views, allocated, address of every tensor), `plan` the
`node_allocs` and `leaf_allocs` of the last graph, `buffers` the sizes of the chunks
that are allocated, `data` the addresses `init_tensor()` has given.  Planning is
one step for every call of `ggml_gallocr_allocate_node()` and every parent that is
updated (`next` and `step` are where the loops are), so that the invariants hold
between them.  `memory` is a ghost: it says for every unit of the buffers which tensor was
written there last, so that a wrong plan shows as a node that reads something
else.

The graph is built by the caller from any operations on the tensors there are:
in place or not, with data behind the result that is needed while it is computed
(`scratch`), or a view.  The last node is an output and perhaps another one; a leaf may have data of
its own (a weight).  One buffer type; sizes are units of the alignment.  `Huge`
stands for `SIZE_MAX/2`.  Not modelled: several buffer types and a failing buffer
allocation.

Every graph has leafs of its own (`NewGraph`), any of `LeafSets`.  A plan is kept when
`needs_realloc()` finds the numbers of nodes and leafs and the sizes of nodes and sources to
fit (`NeedsRealloc`).  That is not enough for a graph of another shape, and `Alike` says what
graphs of the callers have in common with the planned one besides; the constant `Common`
names the parts of it that are assumed, none of which the code compares:

- `leafs`: each leaf has an address in the plan, if it needs one, and fits there.
  Only `n_leafs` is compared (`ggml-alloc.c:1015`) and leafs are bound by index (1076).  In a
  debug build the assertion of `ggml_gallocr_init_tensor()` fails otherwise; else the leaf may
  leave the buffer, which `ggml_backend_tensor_alloc()` refuses with a `GGML_ASSERT`, or
  lie over its neighbour.
- `sources`: the nodes have the operations, sources and output flags of the planned ones.
- `layouts`: where the plan works in place on a source, that source has the result's
  layout again.  A graph of the same topology may have a second source of an addition
  that is smaller now and is broadcast; it passes, and the result is written over it
  and over what lies behind it.

The runs assume the three; section 3 lists what fails without each of them.

### RequestService

For a request: it is opened (its ids are registered), answers arrive while it is
open, at most one stop result for a task, which is the task's last; answers are
taken in order; it is closed and its pending answers are dropped.
`ImplementsService` maps `pc`, `inbox` and `got` of the pipeline to it: every
step of the pipeline is a step of the service or leaves it unchanged.

## 3. Runs

| Run | Instance | Properties |
|---|---|---|
| `requests` | 4 requests on 2 slots: a completion, an embedding that asks for a slot by number, a slot action (its client may disconnect), GET /metrics; an empty prompt | `Served` |
| `family` | a streaming parent with a child that may disconnect, a single completion with an image that may fail; a launch or a prompt that may be refused, decode errors, context shift | `OnePlace`, `Conservation`, `FamilyTogether`, `OrphansAreCancelled`, `NothingLeftBehind`, `NeverWaitsWhileBusy`, `ImplementsService`, `SlotsFreed` |
| `sleep` | 3 HTTP threads, spurious wake-ups, a signal | `LoadedWhenUsed`, `NobodyLeftWaiting`, `AwakeServes`, `TerminateEnds` |
| `log` | a ring of 2 that grows to 8, 5 calls of `add`, one change of the file | `Lossless`, `PausedIsFlushed`, `AllPrinted` |
| `models` | 2 models, room for one, one loaded at the start; 2 handlers, 2 requests of any kind, one child that sleeps or crashes, shutdown | `WithinLimit`, `OldIsGone`, `RouterView`, `NoOrphans`, `UnloadEnds`, `ShutdownEnds` |
| `pool` | 3 threads; graphs for 3, 1 and 2 of them; 4 chunks; aborts, pauses, spurious wake-ups | `NodesInOrder`, `ChunksOnce`, `NoWorkerInGraph`, `AbortIsClean`, `GraphsReturn`, `FreeReturns` |
| `xdna` | graphs of up to 5 nodes over 3 addresses, 2 kernels with rings of 2, 3 deferred runs at most | `RingIntact`, `PendingIsLatest`, `GraphIsValid` |
| `kv` | the three kinds of cache with 6 cells, 2 sequences of at most 5 tokens, micro batches of 2, 4 calls of any kind | `Bookkeeping`, `Intact`, `NothingExtra`, `NoGaps`, `RoomIsFound` |
| `alloc` | graphs of together 3 nodes over two leafs, inputs or a weight and an input, other ones in the next graph; two sizes, chunks of 4, at most 3 chunks | `SourcesIntact`, `Disjoint`, `NothingLeaks`, `WithinBuffer` |

`Served` is the promise that every request ends, with the exception that the code makes: a
request may be `Stranded`, deferred while all slots are idle and nothing is queued that
asks for one, because `pop_deferred_task()` runs once per release and the task it moved took
no slot.  With four requests on two slots this happens in `requests`.  The second part of
`Served` says what alone brings a request there: a slot action that was done at once, a launch
that was refused, or a CANCEL that finds the moved task in `queue_tasks`.  So a request
that is not stranded ends, and losing a wake-up in any other way would be found.
`NothingLeftBehind` and `NeverWaitsWhileBusy` are checked with disconnects and decode errors in `family`, and
proved for all instances.

The type invariants of the pipeline, the log and the XDNA module are proved, and
have no run.  That a task's stop result is its last one, and comes once, is part of
`RequestService`.

The bounds, and why they are enough:

- Pipeline: two slots are the least for which batching, deferral with a free slot
  elsewhere, and a family beside another request exist; three requests for two
  slots make somebody wait, and a fourth can be stranded by a third; two tokens give a task a first and a last one, with a
  partial result between.  Larger instances repeat these patterns.
- Log: five calls of `add()` let a ring of two wrap, grow when it is wrapped, and grow
  again; `CommonLogProof` does not need the bound.
- Router: with room for one, every load of the other model goes through
  `unload_lru()`, and two handlers can race for the same model and for the room.  One
  crash or nap (`MaxTurns`) can fall between any two steps of the two requests.
- Pool: three threads are the least for which one may be last, one early and one
  late at a barrier; three graphs let a worker miss one that does not need it, and
  the counter of graphs wraps at 4.  Four chunks exceed the threads by one.
- XDNA: five nodes over three addresses reuse every address; rings of two and a
  limit of three make both the ring and the limit the first to bind, depending on
  the kernels used.  `XdnaInflightProof` does not need these bounds.
- KV cache: six cells for two sequences of five tokens fill up; a window of two and
  micro batches of two let a micro batch overwrite what the one before it has
  left; a stream has its own cells.  Four calls are the shortest histories in
  which a copy, a shift, a truncation and a decode come in any order.
  `KVCacheProof` and `KVCacheTokensProof` do not need these bounds.
- Graph allocator: two inputs of size 2 fill a chunk of 4, so that the nodes
  need blocks that were freed, merged ones, or new chunks, up to the last one of three.
  Three nodes make a graph in which a tensor is freed before another is placed, or
  two graphs, of which the second is computed with the plan of the first, over the same
  leafs or others, or planned with its buffers.  From one pair of leafs to another the one at an
  index grows, shrinks, or becomes one that needs an address; that every part of `Common` is
  needed for the properties in this instance shows that all of these occur.  `GraphAllocProof` does not need these bounds.

Deadlock is checked in the runs of the pipeline; the model may stop legitimately
when all readers are done and the main thread waits (`Rest` is that state's step).
`CHECK_DEADLOCK FALSE` where the program really stops: in `sleep` after the signal, in
`log` because `pause()` may hang (see `PauseReturns` below), in `pool` when the pool is
freed, in `models` when the router has exited or hangs as `models_exit` shows, in
`xdna` when the graph has returned, in `kv` after `MaxOps` calls, and in `alloc` when
`MaxNodes` nodes are used up.

Runs that show a disagreement between the code and what it says of itself (each
is a `finding` in `PROJECT.json`, with the quotation):

| Run | What TLC finds |
|---|---|
| `family_abort` | a family that the main thread holds when its CANCEL is posted is deferred afterwards and launched for a client that is gone; the parent's CANCEL then frees the parent alone, its child keeps `update_slots()` going with empty batches, and the fourth one aborts the process (`NeverAborts`) |
| `models_exit` | a child dies, its stopping thread looks once before the process can be waited for and is not notified again: the model keeps its status for ever, and `unload_lru()`, waiting requests and the shutdown hang with it (`ExitIsNoticed`; `UnloadEnds` and `ShutdownEnds` except this case as `Missed`) |
| `kv_prepare` | `prepare()` purges positions outside the slots it tries and restores the slots only: with a sliding window and a batch of several micro batches, visible tokens are gone (`PrepareRestores`) |

Other statements that are defined in the modules and do not hold.  The constants
named show it; they have no run of their own because each is a variant of the
above, a consequence of a known window, or a wish nothing in the code promises:

| Statement | What happens |
|---|---|
| `DeferredOnlyWhileBusy` (`requests`) | "defer until one slot is available" (`server-queue.h:40`): a deferred task stays deferred beside idle slots, until another request ends, because `pop_deferred_task()` runs once per release and the task it moved took no slot.  `Served` has this case as `Stranded` |
| `CancelFinds` (`requests`) | the single-task form of `family_abort`: a task in the main thread's hands is deferred after its CANCEL and later runs for nobody |
| `NeverAborts` with prompts `long` or `image` (`family`) | a parent that is refused leaves orphans until the HTTP thread cancels them, four empty batches may come first; after a failed image the inner `while` (2537) goes on with the slot that was just released.  `family` checks with both that slots are freed or the process has aborted |
| `FamilyTogether` without `pc # "done"`, with `Leavers = {"family", "single"}` (`family`) | what "all children slots should already launched" (2810) says: when the reader of a family is done, a CANCEL may have found the child on its slot and the parent's may still be queued behind `update_slots()`; the prompt is then decoded for the rest of the family.  `FamilyTogether` is about families that somebody waits for |
| `OrphansAreCancelled` and `NeverAborts` with `"empty"` among the prompts of a parent (`family`) | `update_slots()` answers an empty prompt at once and releases the slot (2216-2224); the children stay in `SLOT_STATE_WAIT_OTHER`, nobody cancels them, because the reader has got a final result and waits for the other ones, and the fourth empty batch aborts the process (2715-2720).  `server-common.cpp:781` only refuses an empty list of prompts; a tokenizer that adds a BOS token never gives an empty one |
| `PostWakesUp` (`sleep`) | a task posted by a thread that passed `wait_until_no_sleep()` just before the server fell asleep does not wake it; the same thread uses the vocabulary of an unloaded model (529-530 forbids it) |
| `TerminateEnds` with `SignalEarly = TRUE` | `start_loop()` begins with `running = true` (`server-queue.cpp:126`) and forgets a signal that came before |
| `PauseReturns` (`log`) | `pause()` with one free slot fills the ring, which then looks empty: the worker waits for ever and `pause()` waits for the worker |
| `LruReturns` (`models`) | another request reloads the victim of `unload_lru()` before the waiter gets the lock; it misses the status it waits for |
| `ConsumersWait` (`xdna`) | rms_norm, GEMM and the bf16 GEMV and SwiGLU do not wait for deferred work on their input; the default configuration does not combine them with it.  `PendingIsLatest` and `GraphIsValid` are about the graphs in which none of them meets a pending address |
| `Intact` with `EagerState = TRUE` (`kv`) | a sequence saved or restored with a copy or a shift pending has data that does not match its positions; the server saves idle slots, whose pending work the decode before has done |
| `NoGaps` and `Intact` with `Lookahead = TRUE` and a window (`kv`) | the consequence of `kv_prepare`: tokens that `prepare()` has purged are missing when the first micro batch reads |
| `OutputsKept` (`alloc`) | "output tensors are never freed and never overwritten" (`ggml-alloc.h:44`): the flag of an output that is a view protects nothing, its root is freed when no node needs it |
| `ReplansOnTopology`, and `SourcesIntact`, without `"sources"` in `Common` (`alloc`) | "automatic reallocation if the topology changes" (`ggml-alloc.h:70`): `needs_realloc()` compares numbers and sizes only; a graph of as many nodes with other sources is computed with a plan that frees too early.  The backend scheduler adds a comparison of the backends (`ggml-backend.cpp:1637`), not of the sources |
| `SourcesIntact` without `"layouts"` in `Common` (`alloc`) | the plan works in place on the second source of an addition; in the next graph, of the same topology, this source is smaller than the result, which is then written over it |
| `WithinBuffer` without `"leafs"` in `Common` (`alloc`) | a leaf that is larger than the one of its index in the plan, or that had no address there, is bound outside the buffer |

## 4. Fairness

`FairSpec` of the pipeline: weak fairness of the main thread as one process, and
of every reader as one process.  The operating system schedules threads; the main
thread is one loop that never blocks while a step of it is enabled, and a
reader polls (`recv_with_timeout`) until it has all its results.  A disconnect is
never forced: `Leave` is not fair.  `ServerSleep` likewise, and neither the
signal nor a spurious wake-up nor a new request is fair.  `CommonLog` has weak
fairness of the worker and of `thrd.join()`; nobody is forced to log, to pause or
to resume.  `ThreadPool` has weak fairness of every thread, and of thread 0 once it
has begun a call; nobody has to call the pool, and spurious wake-ups are not fair.
`ServerModels` has weak fairness of every handler and every thread, of a model's
loading and of the kernel's end of a process; nobody has to send a request, to
fall asleep, to crash, to obey the exit command, or to shut the router down.
`XdnaInflight`, `KVCache` and `GraphAlloc` are sequential and have safety properties only.

## 5. Proofs

`PipelineProof` (for every number of slots, readers and requests that satisfies
`ConstantsOK` and `RequestsOK`):

- `TypeCorrect`: `Spec => []TypeOK`, one lemma per group of actions (reader,
  loop, task, update), with lemmas about what sending, launching and removing
  from a queue do to the types.  It speaks of types only.
- `ReceivedIsExactAlways`: what the types do not say of `received_count`: it is the number
  of tasks whose stop result was taken, at most the number the reader has, and when
  `has_next()` is false all were answered and nothing is on its way.  It follows from `AnswerInv`
  (below).
- `NeverWaitsWhileBusyAlways`: `NeverWaitsWhileBusy` is not inductive.  The
  strengthening `NextIsQueued` says that whenever a slot is busy, the main thread
  is past the point where it posts NEXT_RESPONSE, or one is queued, or it holds
  one.  The delicate steps are the ones that take entries out of `queue_tasks`: a
  CANCEL's clean-up removes only the work of its task, and taking NEXT_RESPONSE
  from the queue leads to `update_slots()` before the loop waits.
- The other theorems rest on a chain of invariants, each proved inductive with the help
  of those before it:
  `ReaderInv` (a CANCEL is posted by the reader of its task, one reader at a time is in the
  loop that posts them, and it reaches each of its tasks; `waiting_task_ids` are the ids of the open
  requests); `BatchInv` (a slot in the batch is at work and is not released before it is
  decoded; a prompt that is done is sampled before the loop goes on); `PlaceInv` (a task has
  one entry at most, in one of three places; one that is on a slot has none, nor has its
  parent; the task of a failed launch is nowhere); `AnswerInv` (`received_count` counts
  the stop results taken, `queue_results` has for a task at most one that is not partial, behind the
  others, and a task that is still active has none); `CoverInv` (while a reader receives and
  no error is on its way, each of its tasks is active or has been answered; a failed launch is
  undone after its error was sent); `FamilyInv` (while the prompt of a parent is to be decoded
  its children wait, and one that waits is released only after a failed launch, when
  all slots fail, or by its CANCEL).
- A task is `Active` when it has an entry, travels in its parent's, or is on a slot that
  is not about to be released.  `MainAnswers` says of every step of the main thread that it
  sends nothing and ends no task that somebody waits for, or sends one of the answers of
  `RequestService` for one active task and ends no other (an error may end the family with it).
- `OnePlaceAlways` follows from `PlaceInv` by counting; `NothingLeftBehindAlways` from
  `AnswerInv`: a reader that does not cancel has counted as many stop results as it has tasks, hence
  taken all of them, hence no result of any of its tasks can be left.
- `ConservationAlways`: `AnswerInv` and `CoverInv` split the tasks of a reader into those it
  has counted, those whose stop result is in `queue_results`, and the active ones; the
  results in the queue correspond one to one to their tasks (`StopsCount`).
- `FamilyTogetherAlways` follows from `FamilyInv`.  `OrphansAreCancelledAlways` has the
  hypothesis `ParentsHavePrompts`, without which it is false (see the table in section 3);
  its invariant `WaitersAreLed` says that a child waits for a parent that is on the way to
  the decode, unless its reader has an error to take or receives no more.
- `ServiceImplemented`: `Spec => ImplementsService`.  `Answer` of the service needs that the task
  is not over, which is `ActiveIsOpen` of `AnswerInv`; `Close` and `Drop` are `stop()`; the
  other steps are stutters.

`ServerLifeProof`, sleeping (for every set of threads and every number of requests; the
names of `ServerSleep` differ from those of `ServerModels`, so that one module can extend
both):

- `SleepInvariant`: the inductive invariant relates `sleeping`, `reqStop`, the
  set `cv` and the state of the main thread: the main thread is asleep exactly
  while `sleeping` (or on its way out), a thread in `cv` other than main implies
  `sleeping`, and a server that sleeps has no busy slot.
- `LoadedWhenUsedAlways` and `NobodyLeftWaitingAlways` follow from it.

`CommonLogProof` (for every capacity, any number of messages and files):

- `LogInvariant`: `IInv` says for each phase (logging, stopping, paused) which part of
  `accepted` is printed, in the worker's hands and in the first positions of the
  ring (`Holds`), and where the end marker is.  `Lossless` alone is not inductive:
  it says nothing while `pause()` waits, nor of `is_end` in the entries.  Stopping has
  three cases: the marker is in the ring, the worker has ended, or `pause()` has met a
  full ring and hangs; in the last one nothing is promised.
- The index arithmetic is done once: `ModuloWrap` reduces `%` on values below `2 * n`
  to a subtraction, `Geometry` says where the used positions are, and `Advance` what
  adding one does to them.  `AddStep` has the growth, where the entries are copied
  from a ring that has wrapped.
- `TypeCorrect`, `FlushedWhenPaused` and `LosslessAlways` follow from it; the last one
  compares the two sequences element by element.

`XdnaInflightProof` (for every number of kernels, ring size, limit and graph):

- `Inv` says that a slot of a ring is active exactly while its run is queued
  (`RingIntact`), that what is pending for an address is the last thing computed for it
  (`PendingIsLatest`), that nothing is pending once the walk has ended (`Quiet`) and, as
  long as no operation has read a pending address (`~unwaited`), that every live address
  has its value, or a pending entry or a delayed CPU node that will put it there
  (`Faithful`).  The last one is the delicate part: every operation has a lemma that
  says which addresses it settles before it reads.
- `RingTheorem`, `LatestTheorem`, `GraphTheorem` and `TypeCorrect` follow.  `RingTheorem` is
  about every graph.  `LatestTheorem` and `GraphTheorem` say nothing of a graph in which an
  operation that does not wait has read a pending address (`ConsumersWait` of section 3):
  there the result may be wrong, and the properties exclude it (`~unwaited`).

`GraphAllocProof` (for every set of leafs and sizes, chunk size, number of chunks
and length of graphs; which graphs a plan may be kept for differs from theorem to theorem):

- `NoByteTwice`: `Spec => []Disjoint`, for any `Common`.  `Good` says of a table of entries and the chunks
  that free blocks are apart, tensors that hold memory are apart, and the two are
  apart of each other; `Loose` says of a region that nobody has it.  The lemmas
  follow the calls: a cut of a block (`CutGood`), a merge of a freed region that is
  loose with the blocks it touches (`MergedBlock`, `FreeBytesGood`), the release of a tensor
  (`ReleaseGood`), the hand-over of a source's memory to a result in place with the
  rest of it given back (`HandOverGood`), then `AllocateNodeGood` and `UpdateParentGood`
  for the functions of `ggml_gallocr`.  The counters of children and views play no part:
  a wrong count would break `SourcesIntact`, not `Disjoint`.  `Inv` adds that the graph
  is well formed (`GraphOK`: sources before results) and where the loops are (`Position`).
- `AllWithinBuffer`: `"leafs" \in Common => (Spec => []WithinBuffer)`.  `max_size` of a chunk bounds what was
  ever cut off it (`Grown`, `InChunk`); after its turn in the loops every tensor that needs
  memory has an address below `max_size` of its chunk, also when it was freed since
  (`Placed` of the tensors in `Done`; an address is set together with `allocated` and never
  taken back); `NewBuffers` are at least as large as every `max_size`
  (`BuffersSuffice`); and a plan that is kept has room for every node of the
  new graph, because `needs_realloc()` has compared it, and for every leaf, because of the
  hypothesis (`KeptSuits`).  Nothing is assumed of sources and layouts.  `BufferInv` is the conjunction of these.
- `SourcesAlwaysIntact`: `Common = {"leafs", "sources", "layouts"} => (Spec => []SourcesIntact)`.
  The hypothesis is about graphs that a plan is kept for; the code does not check it, and
  `ggml-alloc.h:70` promises to reallocate where it fails on `sources` (section 3 has what goes
  wrong without each part; run `alloc` assumes them too).  Outputs that are views are not
  included (`Own`), as `OutputsKept` does not hold.  The argument has three parts.
  While planning, `Counting` says that the counters of an entry are not below the uses
  that are left (`Pending`: pairs of a node and a source the loops have not come
  to), so that a tensor whose counter has come down to 0 is not read any more, and one
  that is reused in place is read for the last time; hence what is needed later holds its
  memory (`KeepsNeeded`), and the addresses of any two tensors are apart when the
  earlier one is needed at or after the time of the later one, up to the source that an
  operation works in place on (`Spaced`).  `PlanKept` is the conjunction.
  A plan keeps this (`PlanSound`, which speaks of a plan and a graph and of the leafs by
  their index only: `Entry`, `WorksIn`), also for another graph that is `Alike`
  (`PlanSoundSame`, `NewGraphSound`): there the tensors are no larger than planned, and what the
  plan works in place on is in the result's layout again.  While computing, `MemoryOK` says that every tensor that was written and is
  still needed is in its cells; a step of the computation preserves it because of
  `Spaced` and `WithinBuffer`.  `SoundInv` is the inductive invariant.
- `NothingEverLeaks`: `Spec => []NothingLeaks`, for any `Common`.  `Tiled` says that the free
  blocks and the spans of the live tensors follow one another from the begin of a
  chunk to its end, and that no two free blocks touch; a lemma for each of the ways a
  tiling changes (`TileTaken`, `TileJoined`, `TileBefore`, `TileAfter` ...) is used for the
  cut, the merge, the release and the hand-over.  That no more than `MaxChunks` chunks are
  needed is about the last one, which is as large as an offset may be (`SIZE_MAX/2`,
  `Huge`): `Spacious` says that its free space begins below `top` and reaches to the end,
  and `LeakInv` that `top` is a `Unit` for each tensor that has had its turn.
  A tensor has its turn once and takes no more than a unit, and as many units as there
  may be tensors fit in (`HugeOK`, the assumption behind the comment "virtually endless
  memory" in `ggml-alloc.c:253`).

`ThreadPoolProof` (for every number of threads and chunks, every sequence of graphs,
every wrapping of the graph counter, with and without abort and pause):

- The threads share no lock, so the invariant says where all of them are at once.
  `At(t)` is the label of a thread, where one that still spins although
  `n_barrier_passed` has moved counts as gone on; with it a barrier opens for everybody
  in one step.  `BarrierOK` is the barrier's own part: `n_barrier` counts who spins, and
  the thread that resets it is the last one.  `Stage` says that either nobody is in the
  graph (`Outside`) or all active threads are between the same two barriers, in one of
  two kinds of stages: `NodeStage(b)`, where they walk from node `b` over empty nodes to the
  first that is not, and `ChunkStage(b)`, where they compute the chunks of node `b`.  In
  a stage every thread has one of a few places (`InNode`, `InChunk`), each with what it has
  done so far, and everything before `b` is complete.
- `ChunksShared(b)` accounts for the chunks: those below `current_chunk` are done or in
  somebody's hands, those in hands differ, and the first ones belong to the threads of their
  number.
- `GoOnToNode`, `GoOnToChunks`, `GoOnHome` and their like take the whole pool from one
  stage to the next when the last thread leaves a barrier (`ReleaseStep`, or `EnterStep`
  with one thread); all other steps stay within a stage.
- `NodesAreInOrder`, `ChunksAreComputedOnce`, `ResetIsAlone`, `AbortStopsAllAtOneNode` and
  `TypeCorrect` follow.  Nothing is said of workers that sleep, hence
  nothing of `cond`: that no wake-up is lost is liveness.

`ServerLifeProof`, the router (for every finite set of models, any number of requests at a
time, any limit):

- `OverIsDead` (a monitor that is through has waited for its process), `StoppedIsOver` (a
  model that does not run has such a monitor) and `Beside` (while `load()` holds the mutex,
  its model does not run yet and the new monitor cannot have got beyond the end of the
  output) place every process; `Room` counts the models that run together with the one
  that is being started, which a limit on running models alone does not.
- `Reported` follows the lines from the child to the router: the last line not yet read, or
  the status when all are read, says what the child does; for an instance that is not yet in
  `mapping` the status is to be `loading`.  It needs that no log thread reports while
  `load()` holds the mutex.
- `ChildrenAreWithinLimit`, `OldProcessIsGone`, `StatusIsReported` and
  `NothingIsLeftBehind` follow.

`KVCacheProof` (for every number of sequences, cells and tokens, every window and size of
micro batches, with streams, one stream or a window, and for `Lookahead` and `EagerState`
either way):

- Folds.  What a fold computes needs an induction, and the library's induction theorems take a
  predicate, which the provers cannot instantiate.  The first section therefore proves
  induction for sets: a set that has 0 and with `n` also `n + 1` has every number
  (`Induct`, from the least element that `WFMin` gives), and a family of subsets of a
  finite set that has `{}` and is closed under adding the element that was picked
  has them all (`SubsetInduct`).  From it, for the functions on subsets that `FoldSet`,
  `FoldLeft` and their like are defined by: there is one (`FoldExists`), it is the only one
  (`SameFold`, `SameLeft`, `SameRight`), and it goes through its elements one after
  another (`LeftTrace`, `RightTrace`), so that an invariant of the body holds at the end.
- Operations.  `Good` is what `Bookkeeping` says of one stream.  `Turned(c, d, i, p, qs)` says
  that an operation of `llama_kv_cells` has made cell `i` hold position `p` and sequences
  `qs`, has left every other cell alone and has kept `Good`; `Rm`, `SeqRm`, `SeqAdd`, `SeqKeep`,
  `PosAdd`, `SetCell` have a lemma each, in which the counts in `seq_pos` are compared with the
  cells (`CountIs`).  `CellFold` lifts this to an operation on a set of cells:
  `seq_rm`, `seq_add`, `seq_cp` and `seq_keep` of a range (`SeqRmRangeIs`, `SeqAddRangeIs`,
  `ShareIs`, `KeepIs`).  `UnpurgedIs` and `PurgedIs` do so for a slot that is filled and then
  purged, `UndoneIs` and `WithdrawnIs` for the ways back.
- `BookkeepingAlways`: `Spec => []Bookkeeping`.  `Bookkeeping` alone is not inductive, because
  `ComputeUBatch` fills what `Decode` has planned.  `BooksInv` adds that the plan is a
  split of new tokens (`PlanOf`: every micro batch takes each sequence on from where the
  one before has left it, within the streams that there are, and its slot has a cell for
  each token), and that a saved sequence is an image of one.  That the two ways to split
  a batch give such plans is proved of `Simple` (`SimpleIs`) and `Equal` (`EqualIs`),
  the second by an induction over the splits: each takes something as long as there are
  tokens, so that as many splits as tokens are enough.
- `RoomIsAlwaysFound`: `Spec => []RoomIsFound`.  `Roomy` counts the cells that can be used; a slot
  of `n` tokens is found when there are `n` of them (the search goes round the
  whole cache once) and takes `n`, so that the next micro batch finds its own; with a
  window a cell that was overwritten can only make more of them usable.  The second
  attempt starts from what the first one has left, and is not needed when there is room.

`KVCacheTokensProof` (for the same constants):

- `NothingExtraAlways`: `ExtraInv` says that a position is in one cell of a sequence at most and
  below its length (`Held`), also in a saved image.  Most operations shrink what a sequence holds
  (`Shrinks`); filling adds the next positions only, which is where `PlanOf` is needed.
- `NoGapsAlways` and `IntactAlways` without a window: `WholeInv` says that every position below the
  length is in a cell, and that no slot of the pending plan has a cell that is in
  use or that another micro batch will take (`FreeSlots`), so that filling purges nothing
  and `prepare()` undoes what it did exactly.
- With a window, `WindowInv` says that no sequence lacks a position that its next token can see, nor
  one between two that it has.  A cell may be overwritten when its position is outside
  the window; apply_ubatch() then purges everything older, and `Windowed` and `Passed` say
  that neither `prepare()` and its undo nor the purge later touches what can be seen.  The undo
  restores the slots and not the purged cells, hence the hypothesis that a batch is one
  micro batch (`mode = "swa" => ~Lookahead`): otherwise both are false, as `kv_prepare` shows.
- `IntactAlways` needs the data as well: `RightInv` says that after the pending copies
  (`CopiesDone`, a fold over `sc_info`) the key in each cell of a sequence is the token's, rotated
  to the cell's position less its pending shift; that nothing is pending while a
  plan is (`Calm`: `Decode` has updated first); and that an image has the right
  data.  The last part is what `~EagerState` is for: `state_write()` with an update
  pending stores data that does not match.
- The hypotheses of the two are those of run `kv`, and the other values of the constants are the
  ones for which section 3 says what goes wrong.

The assumptions are those named in the modules (`ConstantsOK`, `RequestsOK`,
`SleepConstantsOK`, `CapacityOK`, `XdnaOK`, `AllocOK`, `HugeOK`, `PoolOK`, `RouterOK`, `KVAssumption`); TLC evaluates
them in the runs.

Model-checked only:

- the liveness properties (`Served`, `SlotsFreed`, `AwakeServes`, `TerminateEnds`,
  `AllPrinted`, `UnloadEnds`, `ShutdownEnds`, `GraphsReturn`, `FreeReturns`), which
  TLAPS's backends do not cover.

## 6. Plan

The pipeline, sleeping, the log, the router, the thread pool, the deferred work of
the XDNA backend, the KV cache and the graph allocator are done as far as their
sections say.  Left, in this order:

1. `DecodeLoop`: the chunks of a batch, the halved batch (with it `copy_state_to()`
   may come when the parent's prompt is not decoded to its end,
   `server-context.cpp:2800`), children copied from the parent, acceptance of
   speculative drafts.
2. `BackendSched`: splits, copies of inputs and events, on top of `GraphAlloc`.
3. `PromptCache`: checkpoints and saved prompts of the server, with their limits.
4. Recurrent and hybrid memory (`src/llama-memory-*.cpp`) with the splits of batches that
   they need.
5. Proofs: that `FirstSplit` and the second attempt of `init_batch()` agree with an abstract
   search for slots, once `DecodeLoop` retries with half of a batch.
