--------------------------- MODULE ServerPipeline ---------------------------
(***************************************************************************)
(* The request pipeline of llama-server (tools/server):                    *)
(*                                                                         *)
(*   HTTP threads    own one server_response_reader each: they register    *)
(*                   the ids of their tasks in server_response, post the   *)
(*                   tasks to server_queue, receive results, and cancel    *)
(*                   what is unfinished when they stop;                    *)
(*   the main thread runs server_queue::start_loop(): it drains the queue  *)
(*                   (process_single_task), runs update_slots() over the   *)
(*                   slots, and waits for new tasks.                       *)
(*                                                                         *)
(* One action is one critical section of mutex_tasks or mutex_results, or  *)
(* a stretch of the main thread between two of them.  Tokens, prompts and  *)
(* results are abstracted to what scheduling depends on.                   *)
(***************************************************************************)
EXTENDS Naturals, Sequences, FiniteSets

CONSTANTS
    Readers,        \* HTTP threads, each with one server_response_reader
    Tasks,          \* task ids given out by server_queue::get_new_id()
    NoTask,         \* id_parent = -1, and the task of an idle slot
    NSlots,         \* n_parallel
    Posted,         \* Posted[r]: the tasks reader r posts, in order
    Owner,          \* Owner[t]: the reader that waits for the results of t
    Parent,         \* Parent[t]: id_parent, NoTask for a top-level task
    Kind,           \* Kind[t]: what server_task::type makes of the task
    Want,           \* Want[t]: the slot asked for, 0 for id_slot = -1
    Prompt,         \* Prompt[t]: the ways update_slots() may find the prompt
    FailLaunch,     \* tasks that launch_slot_with_task() may refuse
    Stream,         \* readers of streaming requests: they get partial results
    Leavers,        \* readers whose client may disconnect
    MaxTokens,      \* n_predict: the most tokens a slot generates
    ContBatching,   \* params_base.cont_batching
    CtxShift,       \* params_base.ctx_shift
    DecodeMayFail   \* llama_decode() may return a fatal error

Slots == 1 .. NSlots
Kinds == {"cmpl", "embd", "slot", "metrics", "lora"}
Prompts == {"ok", "empty", "long", "image"}

TopTasks(r) == {Posted[r][i] : i \in DOMAIN Posted[r]}
TasksOf(r)  == {t \in Tasks : Owner[t] = r}
Children(t) == {c \in Tasks : Parent[c] = t}

\* handle_completions_impl() and the other handlers build the tasks: a child
\* belongs to the reader of its parent, names no slot, and is never posted by
\* itself; only completions have children (server_task::add_child).
ASSUME ConstantsOK ==
    /\ NSlots \in Nat \ {0}
    /\ MaxTokens \in Nat \ {0}
    /\ IsFiniteSet(Tasks)
    /\ NoTask \notin Tasks
    /\ Posted \in [Readers -> Seq(Tasks)]
    /\ Owner \in [Tasks -> Readers]
    /\ Parent \in [Tasks -> Tasks \cup {NoTask}]
    /\ Kind \in [Tasks -> Kinds]
    /\ Want \in [Tasks -> Nat]
    /\ Prompt \in [Tasks -> SUBSET Prompts]
    /\ FailLaunch \subseteq Tasks
    /\ Stream \subseteq Readers
    /\ Leavers \subseteq Readers
    /\ ContBatching \in BOOLEAN
    /\ CtxShift \in BOOLEAN
    /\ DecodeMayFail \in BOOLEAN

ASSUME RequestsOK ==
    /\ \A r \in Readers : TopTasks(r) = {t \in TasksOf(r) : Parent[t] = NoTask}
    /\ \A r \in Readers : \A i, j \in DOMAIN Posted[r] :
          Posted[r][i] = Posted[r][j] => i = j
    /\ \A t \in Tasks : Parent[t] # NoTask =>
          /\ Parent[Parent[t]] = NoTask
          /\ Owner[t] = Owner[Parent[t]]
          /\ Kind[t] = "cmpl" /\ Kind[Parent[t]] = "cmpl"
          /\ Want[t] = 0
    /\ \A t \in Tasks : Kind[t] = "slot" => Want[t] # 0

-----------------------------------------------------------------------------
VARIABLES
    queue,      \* queue_tasks
    deferred,   \* queue_tasks_deferred
    waiting,    \* waiting_task_ids
    inbox,      \* inbox[r]: the results of r's tasks in queue_results, in order
    pc,         \* pc[r]: where reader r is
    todo,       \* todo[r]: ids that the posting loop of stop() has not reached
    received,   \* received[r]: received_count
    got,        \* got[r]: tasks whose stop result r has taken
    phase,      \* where the main thread is in start_loop()
    cur,        \* the entry process_single_task() is working on
    state,      \* state[s]: slot_state of slot s
    task,       \* task[s]: the task of slot s
    decoded,    \* decoded[s]: n_decoded
    releasing,  \* the slot whose release() comes next, 0 if none
    at,         \* the prompt loop of update_slots() is at this slot
    batch,      \* slots with tokens in the batch
    ready,      \* slots whose logits are computed and not yet sampled
    nEmpty      \* n_empty_consecutive

queueVars  == <<queue, deferred>>
readerVars == <<pc, todo, received, got>>
slotVars   == <<state, task, decoded>>
batchVars  == <<at, batch, ready, nEmpty>>
mainVars   == <<phase, cur, releasing>>
vars == <<queueVars, waiting, inbox, readerVars, slotVars, batchVars, mainVars>>

\* Entries of queue_tasks.
Work(t)   == [type |-> "work",   task |-> t]
Cancel(t) == [type |-> "cancel", task |-> t]    \* task is id_target
NextResponse == [type |-> "next", task |-> NoTask]
NoEntry      == [type |-> "none", task |-> NoTask]

Entries == {Work(t) : t \in Tasks} \cup {Cancel(t) : t \in Tasks} \cup {NextResponse}

Outcomes == {"partial", "final", "error"}
Results  == [task : Tasks, kind : Outcomes]

SlotStates == {"IDLE", "WAIT_OTHER", "STARTED", "PROCESSING_PROMPT",
               "DONE_PROMPT", "GENERATING"}
ReaderStates == {"new", "post", "recv", "failed", "purge", "cancel", "done"}
Phases == {"drain", "task", "unlaunch", "update", "shift", "prompt", "decode",
           "sample", "fail", "wait", "aborted"}

TypeOK ==
    /\ queue \in Seq(Entries)
    /\ deferred \in Seq({Work(t) : t \in Tasks})
    /\ waiting \subseteq Tasks
    /\ inbox \in [Readers -> Seq(Results)]
    /\ pc \in [Readers -> ReaderStates]
    /\ todo \in [Readers -> SUBSET Tasks]
    /\ received \in [Readers -> Nat]
    /\ got \in [Readers -> SUBSET Tasks]
    /\ phase \in Phases
    /\ cur \in Entries \cup {NoEntry}
    /\ state \in [Slots -> SlotStates]
    /\ task \in [Slots -> Tasks \cup {NoTask}]
    /\ decoded \in [Slots -> Nat]
    /\ releasing \in Slots \cup {0}
    /\ at \in Nat
    /\ batch \subseteq Slots
    /\ ready \subseteq Slots
    /\ nEmpty \in Nat

Init ==
    /\ queue = <<>>
    /\ deferred = <<>>
    /\ waiting = {}
    /\ inbox = [r \in Readers |-> <<>>]
    /\ pc = [r \in Readers |-> "new"]
    /\ todo = [r \in Readers |-> {}]
    /\ received = [r \in Readers |-> 0]
    /\ got = [r \in Readers |-> {}]
    /\ phase = "drain"
    /\ cur = NoEntry
    /\ state = [s \in Slots |-> "IDLE"]
    /\ task = [s \in Slots |-> NoTask]
    /\ decoded = [s \in Slots |-> 0]
    /\ releasing = 0
    /\ at = 1
    /\ batch = {}
    /\ ready = {}
    /\ nEmpty = 0

-----------------------------------------------------------------------------
(* Building blocks.                                                        *)

\* The process is running: GGML_ABORT has not ended it.
Alive == phase # "aborted"

\* Definitions named X_Y are faulty variants of X: each stands for a bug that
\* the properties must expose.

QueueFree_NoLock == TRUE

\* mutex_tasks is free: no reader is inside the posting loop of stop().
QueueFree == \A r \in Readers : pc[r] # "cancel"

RemoveAt_Kept(seq, i) == SubSeq(seq, 1, i) \o SubSeq(seq, i + 1, Len(seq))
RemoveAt(seq, i) == SubSeq(seq, 1, i - 1) \o SubSeq(seq, i + 1, Len(seq))

\* cleanup_pending_task() on one of the two queues.  An id is queued at most
\* once (OnePlace), so erasing every match erases at most one.
Without(seq, t) ==
    IF \E i \in DOMAIN seq : seq[i] = Work(t)
    THEN RemoveAt(seq, CHOOSE i \in DOMAIN seq : seq[i] = Work(t))
    ELSE seq

SendAll_Front(t, kinds) ==
    inbox' = IF t \in waiting
             THEN [inbox EXCEPT ![Owner[t]] =
                      [i \in DOMAIN kinds |-> [task |-> t, kind |-> kinds[i]]] \o @]
             ELSE inbox

\* server_response::send(): the result is kept only if its id is waited for.
SendAll(t, kinds) ==
    inbox' = IF t \in waiting
             THEN [inbox EXCEPT ![Owner[t]] =
                      @ \o [i \in DOMAIN kinds |-> [task |-> t, kind |-> kinds[i]]]]
             ELSE inbox

Send(t, kind) == SendAll(t, <<kind>>)

\* The text of a token: a streaming request gets it as a partial result, unless
\* it ends inside a UTF-8 character.
Texts(t) == IF Owner[t] \in Stream THEN {<<>>, <<"partial">>} ELSE {<<>>}

Defer_Lost(t) == QueueFree /\ UNCHANGED deferred

\* server_queue::defer().
Defer(t) ==
    /\ QueueFree
    /\ deferred' = Append(deferred, Work(t))

Idle(s) == state[s] = "IDLE"
AllIdle == \A s \in Slots : Idle(s)

\* get_slot_by_id(): the id wraps around.
SlotOf(t) == ((Want[t] - 1) % NSlots) + 1

\* server_task::id_slot, which pop_deferred_task() compares: the slot of a
\* SLOT_SAVE, SLOT_RESTORE or SLOT_ERASE task is in slot_action, its id_slot
\* is -1.
IdSlot(t) == IF Kind[t] = "slot" THEN 0 ELSE Want[t]

HasMore(r) == received[r] < Cardinality(TasksOf(r))

-----------------------------------------------------------------------------
(* HTTP threads: server_response_reader.                                   *)

\* post_task() / post_tasks(), first half: add_waiting_task_ids().
Register(r) ==
    /\ Alive
    /\ pc[r] = "new"
    /\ waiting' = waiting \cup TasksOf(r)
    /\ pc' = [pc EXCEPT ![r] = "post"]
    /\ UNCHANGED <<queueVars, inbox, todo, received, got, slotVars, batchVars, mainVars>>

\* Second half: server_queue::post().  A METRICS task goes to the front; the
\* children of a parent travel inside its entry.
Post(r) ==
    /\ Alive
    /\ pc[r] = "post"
    /\ QueueFree
    /\ LET new == [i \in DOMAIN Posted[r] |-> Work(Posted[r][i])]
           front == \E t \in TopTasks(r) : Kind[t] = "metrics"
       IN queue' = IF front THEN new \o queue ELSE queue \o new
    /\ pc' = [pc EXCEPT ![r] = "recv"]
    /\ UNCHANGED <<deferred, waiting, inbox, todo, received, got, slotVars, batchVars, mainVars>>

\* next(): take the oldest result of one of our ids.  An error ends the
\* request, a stop result is counted.
Receive(r) ==
    /\ Alive
    /\ pc[r] = "recv"
    /\ HasMore(r)
    /\ inbox[r] # <<>>
    /\ LET res == Head(inbox[r]) IN
          /\ inbox' = [inbox EXCEPT ![r] = Tail(@)]
          /\ pc' = [pc EXCEPT ![r] = IF res.kind = "error" THEN "failed" ELSE @]
          /\ received' = [received EXCEPT ![r] = IF res.kind = "final" THEN @ + 1 ELSE @]
          /\ got' = [got EXCEPT ![r] = IF res.kind = "final" THEN @ \cup {res.task} ELSE @]
    /\ UNCHANGED <<queueVars, waiting, todo, slotVars, batchVars, mainVars>>

\* stop(): remove_waiting_task_ids(), then the choice between cancelling and
\* having nothing to cancel.
StopWaiting(r) ==
    /\ waiting' = waiting \ TasksOf(r)
    /\ pc' = [pc EXCEPT ![r] = IF HasMore(r) THEN "purge" ELSE "done"]
    /\ UNCHANGED <<queueVars, inbox, todo, received, got, slotVars, batchVars, mainVars>>

\* stop() after an error result, or from the destructor once all is received.
Finish(r) ==
    /\ Alive
    /\ pc[r] = "failed" \/ (pc[r] = "recv" /\ ~HasMore(r))
    /\ StopWaiting(r)

\* stop() because should_stop() was true or the response was destroyed: the
\* client is gone.
Leave(r) ==
    /\ Alive
    /\ r \in Leavers
    /\ pc[r] = "recv" /\ HasMore(r)
    /\ StopWaiting(r)

DropResults_None(r) == UNCHANGED inbox

\* remove_waiting_task_id() of each id drops the results of that id.
DropResults(r) == inbox' = [inbox EXCEPT ![r] = <<>>]

IdTasks_NoChildren(r) == TopTasks(r)

\* id_tasks: the ids of the tasks and of their children (get_list_id()).
IdTasks(r) == TasksOf(r)

\* stop() with something to cancel; then the multi-task post() takes
\* mutex_tasks.
Purge(r) ==
    /\ Alive
    /\ pc[r] = "purge"
    /\ QueueFree
    /\ DropResults(r)
    /\ pc' = [pc EXCEPT ![r] = "cancel"]
    /\ todo' = [todo EXCEPT ![r] = IdTasks(r)]
    /\ UNCHANGED <<queueVars, waiting, received, got, slotVars, batchVars, mainVars>>

\* post(tasks, front = true): one round of the loop, under mutex_tasks.
CancelOne(r) ==
    /\ Alive
    /\ pc[r] = "cancel"
    /\ \E t \in todo[r] :
          /\ queue' = <<Cancel(t)>> \o Without(queue, t)
          /\ deferred' = Without(deferred, t)
          /\ todo' = [todo EXCEPT ![r] = @ \ {t}]
    /\ UNCHANGED <<waiting, inbox, pc, received, got, slotVars, batchVars, mainVars>>

\* The loop is over: mutex_tasks is released.
CancelDone(r) ==
    /\ Alive
    /\ pc[r] = "cancel"
    /\ todo[r] = {}
    /\ pc' = [pc EXCEPT ![r] = "done"]
    /\ UNCHANGED <<queueVars, waiting, inbox, todo, received, got, slotVars, batchVars, mainVars>>

-----------------------------------------------------------------------------
(* Main thread: start_loop() and process_single_task().                    *)

\* The main thread is at p and owes no release().
At(p) == phase = p /\ releasing = 0

\* The deferred task that pop_deferred_task(s) picks: the first that names slot
\* s, or else the oldest.
NextDeferred_Named(s) == {i \in DOMAIN deferred : IdSlot(deferred[i].task) = s}
NextDeferred(s) ==
    LET named == {i \in DOMAIN deferred : IdSlot(deferred[i].task) = s}
    IN {i \in DOMAIN deferred : IF named = {} THEN i = 1
                                ELSE i \in named /\ \A j \in named : i <= j}

\* server_slot::release() and its callback pop_deferred_task(), which moves one
\* deferred task to the front of the queue.
Release ==
    /\ Alive
    /\ releasing # 0
    /\ QueueFree
    /\ state' = [state EXCEPT ![releasing] = "IDLE"]
    /\ task' = [task EXCEPT ![releasing] = NoTask]
    /\ \/ NextDeferred(releasing) = {} /\ UNCHANGED queueVars
       \/ \E i \in NextDeferred(releasing) :
             /\ queue' = <<deferred[i]>> \o queue
             /\ deferred' = RemoveAt(deferred, i)
    /\ releasing' = 0
    /\ UNCHANGED <<waiting, inbox, readerVars, decoded, batchVars, phase, cur>>

\* start_loop(): take the front of the queue ...
PopTask ==
    /\ At("drain")
    /\ QueueFree
    /\ queue # <<>>
    /\ cur' = Head(queue)
    /\ queue' = Tail(queue)
    /\ phase' = "task"
    /\ UNCHANGED <<deferred, waiting, inbox, readerVars, slotVars, batchVars, releasing>>

\* ... or, when it is empty, go on to update_slots().
Drained ==
    /\ At("drain")
    /\ QueueFree
    /\ queue = <<>>
    /\ phase' = "update"
    /\ UNCHANGED <<queueVars, waiting, inbox, readerVars, slotVars, batchVars, cur, releasing>>

Processing(types) == At("task") /\ cur.type \in types
TaskDone == phase' = "drain" /\ cur' = NoEntry

\* NEXT_RESPONSE does nothing.
ProcessNext ==
    /\ Processing({"next"})
    /\ TaskDone
    /\ UNCHANGED <<queueVars, waiting, inbox, readerVars, slotVars, batchVars, releasing>>

SlotsOf(t) == {s \in Slots : task[s] = t}

\* CANCEL releases the slot that works on the target, if there is one.
ProcessCancel ==
    /\ Processing({"cancel"})
    /\ \/ releasing' \in SlotsOf(cur.task)
       \/ SlotsOf(cur.task) = {} /\ releasing' = 0
    /\ TaskDone
    /\ UNCHANGED <<queueVars, waiting, inbox, readerVars, slotVars, batchVars>>

\* METRICS, GET_LORA and SET_LORA answer at once.
ProcessQuick ==
    /\ Processing({"work"})
    /\ Kind[cur.task] \in {"metrics", "lora"}
    /\ Send(cur.task, "final")
    /\ TaskDone
    /\ UNCHANGED <<queueVars, waiting, readerVars, slotVars, batchVars, releasing>>

\* SLOT_SAVE, SLOT_RESTORE and SLOT_ERASE act on an idle slot at once.
ProcessSlotAction ==
    /\ Processing({"work"})
    /\ Kind[cur.task] = "slot"
    /\ Idle(SlotOf(cur.task))
    /\ \E kind \in {"final", "error"} : Send(cur.task, kind)
    /\ TaskDone
    /\ UNCHANGED <<queueVars, waiting, readerVars, slotVars, batchVars, releasing>>

\* The slots a task of update_slots() may get: the one it names, or any idle
\* one (get_available_slot() prefers the longest common prefix, then LRU).
Candidates(t) == {s \in Slots : Idle(s) /\ (Want[t] # 0 => s = SlotOf(t))}

\* get_free_slots() finds a slot for every child besides the parent's own.
RoomForChildren(t, s) ==
    Cardinality({u \in Slots : Idle(u) /\ u # s}) >= Cardinality(Children(t))

\* Nothing can be launched now: defer.
ProcessDefer ==
    /\ Processing({"work"})
    /\ \/ Kind[cur.task] = "slot" /\ ~Idle(SlotOf(cur.task))
       \/ /\ Kind[cur.task] \in {"cmpl", "embd"}
          /\ \A s \in Candidates(cur.task) : ~RoomForChildren(cur.task, s)
    /\ Defer(cur.task)
    /\ TaskDone
    /\ UNCHANGED <<queue, waiting, inbox, readerVars, slotVars, batchVars, releasing>>

\* launch_slot_with_task() for the tasks that f maps slots to: a child waits
\* for its parent.  Every launch resets the empty-batch counter.
Launched(f) ==
    /\ task' = [s \in Slots |-> IF s \in DOMAIN f THEN f[s] ELSE task[s]]
    /\ state' = [s \in Slots |->
                    IF s \notin DOMAIN f THEN state[s]
                    ELSE IF Parent[f[s]] # NoTask THEN "WAIT_OTHER" ELSE "STARTED"]
    /\ decoded' = [s \in Slots |-> IF s \in DOMAIN f THEN 0 ELSE decoded[s]]
    /\ nEmpty' = IF DOMAIN f = {} THEN nEmpty ELSE 0

\* Ways to give the tasks of T distinct idle slots.
Placements(T) ==
    UNION {{f \in [S -> T] : \A t \in T : \E s \in S : f[s] = t} :
           S \in {S \in SUBSET {s \in Slots : Idle(s)} : Cardinality(S) = Cardinality(T)}}

\* A task, or a parent with all its children (launch_slots_with_parent_task()).
Launch ==
    /\ Processing({"work"})
    /\ Kind[cur.task] \in {"cmpl", "embd"}
    /\ LET family == {cur.task} \cup Children(cur.task) IN
          \E f \in Placements(family) :
             /\ \E s \in DOMAIN f : f[s] = cur.task /\ s \in Candidates(cur.task)
             /\ Launched(f)
    /\ TaskDone
    /\ UNCHANGED <<queueVars, waiting, inbox, readerVars, at, batch, ready, releasing>>

LaunchError(t) == Send(t, "error")

\* A launch fails: the error names the member that failed, the children that
\* were launched before it (all of them if it is the parent) are released and
\* the task is dropped.
LaunchFails ==
    /\ Processing({"work"})
    /\ Kind[cur.task] \in {"cmpl", "embd"}
    /\ \E s \in Candidates(cur.task) : RoomForChildren(cur.task, s)
    /\ \E bad \in ({cur.task} \cup Children(cur.task)) \cap FailLaunch :
       \E before \in SUBSET (Children(cur.task) \ {bad}) :
          /\ bad = cur.task => before = Children(cur.task)
          /\ \E f \in Placements(before) : Launched(f)
          /\ LaunchError(bad)
    /\ phase' = "unlaunch"
    /\ UNCHANGED <<queueVars, waiting, readerVars, at, batch, ready, cur, releasing>>

FamilySlots(t) ==
    {s \in Slots : task[s] # NoTask /\ t \in {task[s], Parent[task[s]]}}

\* release_slots(): release every slot of the family of cur.
Unlaunch ==
    /\ At("unlaunch")
    /\ releasing' \in FamilySlots(cur.task)
    /\ UNCHANGED <<queueVars, waiting, inbox, readerVars, slotVars, batchVars, phase, cur>>

Unlaunched ==
    /\ At("unlaunch")
    /\ FamilySlots(cur.task) = {}
    /\ TaskDone
    /\ UNCHANGED <<queueVars, waiting, inbox, readerVars, slotVars, batchVars, releasing>>

-----------------------------------------------------------------------------
(* Main thread: update_slots().                                            *)

\* Nothing to do when all slots are idle.
UpdateIdle ==
    /\ At("update")
    /\ AllIdle
    /\ phase' = "wait"
    /\ UNCHANGED <<queueVars, waiting, inbox, readerVars, slotVars, batchVars, cur, releasing>>

PostNext_Forgotten == UNCHANGED queue
PostNext == queue' = Append(queue, NextResponse)

\* Otherwise post NEXT_RESPONSE, so that the loop comes back.
UpdateBusy ==
    /\ At("update")
    /\ ~AllIdle
    /\ QueueFree
    /\ PostNext
    /\ phase' = "shift"
    /\ UNCHANGED <<deferred, waiting, inbox, readerVars, slotVars, batchVars, cur, releasing>>

\* The context of a slot is full: one that shares its prompt with a parent or
\* a child cannot be shifted, and fails.
ShiftFails ==
    /\ At("shift")
    /\ CtxShift
    /\ \E s \in Slots :
          /\ state[s] = "GENERATING"
          /\ Parent[task[s]] # NoTask \/ Children(task[s]) # {}
          /\ Send(task[s], "error")
          /\ releasing' = s
    /\ UNCHANGED <<queueVars, waiting, readerVars, slotVars, batchVars, phase, cur>>

\* can_batch_with(): the tasks have the same type.
CanBatch(S, s) == \A u \in S : Kind[task[u]] = Kind[task[s]]

\* First the sampled tokens of the generating slots that can be batched with
\* the first of them.
BatchSampled ==
    /\ At("shift")
    /\ LET gen == {s \in Slots : state[s] = "GENERATING"}
           first == {s \in gen : \A u \in gen : s <= u}
       IN batch' = {s \in gen : CanBatch(first, s)}
    /\ at' = IF ContBatching \/ batch' = {} THEN 1 ELSE NSlots + 1
    /\ phase' = "prompt"
    /\ UNCHANGED <<queueVars, waiting, inbox, readerVars, slotVars, ready, nEmpty, cur, releasing>>

InPrompt(s) == state[s] \in {"STARTED", "PROCESSING_PROMPT"}
AtSlot(s) == At("prompt") /\ s = at /\ s \in Slots

\* The prompt loop skips idle slots, those it cannot batch, children that wait
\* for their parent, and those that are generating.
SkipSlot ==
    /\ \E s \in Slots :
          /\ AtSlot(s)
          /\ InPrompt(s) => ~CanBatch(batch, s)
    /\ at' = at + 1
    /\ UNCHANGED <<queueVars, waiting, inbox, readerVars, slotVars, batch, ready, nEmpty, mainVars>>

\* A new prompt that is empty is answered at once, one that is too long for
\* the context is refused; either way the slot is released.
RejectPrompt ==
    /\ \E s \in Slots :
          /\ AtSlot(s)
          /\ state[s] = "STARTED"
          /\ CanBatch(batch, s)
          /\ \/ "empty" \in Prompt[task[s]] /\ Send(task[s], "final")
             \/ "long" \in Prompt[task[s]] /\ Send(task[s], "error")
          /\ releasing' = s
    /\ at' = at + 1
    /\ UNCHANGED <<queueVars, waiting, readerVars, slotVars, batch, ready, nEmpty, phase, cur>>

\* Add tokens of a prompt to the batch: part of them or all that is left (the
\* part is taken only once per prompt, a bound of the model).  A full batch
\* ends the loop.
BatchPrompt ==
    /\ \E s \in Slots :
          /\ AtSlot(s)
          /\ InPrompt(s)
          /\ CanBatch(batch, s)
          /\ state[s] = "STARTED" => Prompt[task[s]] \cap {"ok", "image"} # {}
          /\ \/ /\ state[s] = "STARTED"
                /\ state' = [state EXCEPT ![s] = "PROCESSING_PROMPT"]
             \/ state' = [state EXCEPT ![s] = "DONE_PROMPT"]
          /\ batch' = batch \cup {s}
    /\ at' \in {at + 1, NSlots + 1}
    /\ UNCHANGED <<queueVars, waiting, inbox, readerVars, task, decoded, ready, nEmpty, mainVars>>

\* process_chunk() fails on an image: the error is sent and the slot released,
\* but "continue" goes on with the inner loop, whose condition reads
\* slot.task->n_tokens() through the pointer that release() has reset.
ImageFails ==
    /\ \E s \in Slots :
          /\ AtSlot(s)
          /\ InPrompt(s)
          /\ CanBatch(batch, s)
          /\ "image" \in Prompt[task[s]]
          /\ Send(task[s], "error")
    /\ phase' = "aborted"
    /\ UNCHANGED <<queueVars, waiting, readerVars, slotVars, batchVars, cur, releasing>>

BatchBuilt ==
    /\ At("prompt")
    /\ at > NSlots
    /\ phase' = "decode"
    /\ UNCHANGED <<queueVars, waiting, inbox, readerVars, slotVars, batchVars, cur, releasing>>

\* An empty batch counts; the fourth in a row is GGML_ABORT.
EmptyBatch ==
    /\ At("decode")
    /\ batch = {}
    /\ nEmpty' = nEmpty + 1
    /\ phase' = IF nEmpty + 1 > 3 THEN "aborted" ELSE "wait"
    /\ UNCHANGED <<queueVars, waiting, inbox, readerVars, slotVars, at, batch, ready, cur, releasing>>

\* Children that get the state of their parent after a decode.
Joining ==
    {s \in Slots : /\ state[s] = "WAIT_OTHER"
                   /\ \E p \in Slots : /\ state[p] = "DONE_PROMPT"
                                       /\ Parent[task[s]] = task[p]}

Sampleable == {s \in batch : state[s] # "PROCESSING_PROMPT"}

\* llama_decode() succeeds: parents whose prompt is done copy their state to
\* their children, and what is in the batch can be sampled.
DecodeOK ==
    /\ At("decode")
    /\ batch # {}
    /\ nEmpty' = 0
    /\ state' = [s \in Slots |-> IF s \in Joining THEN "DONE_PROMPT" ELSE state[s]]
    /\ ready' = Sampleable \cup Joining
    /\ phase' = "sample"
    /\ UNCHANGED <<queueVars, waiting, inbox, readerVars, task, decoded, at, batch, cur, releasing>>

\* llama_decode() returns a fatal error, for the whole batch or for a chunk of
\* it after others were sampled.
DecodeFails ==
    /\ DecodeMayFail
    /\ \/ At("decode") /\ batch # {} /\ nEmpty' = 0
       \/ At("sample") /\ ready # {} /\ UNCHANGED nEmpty
    /\ ready' = {}
    /\ phase' = "fail"
    /\ UNCHANGED <<queueVars, waiting, inbox, readerVars, slotVars, at, batch, cur, releasing>>

\* An embedding or a rerank score is sent and ends its task.
SendEmbedding ==
    /\ At("sample")
    /\ \E s \in ready :
          /\ Kind[task[s]] = "embd"
          /\ Send(task[s], "final")
          /\ releasing' = s
          /\ ready' = ready \ {s}
    /\ UNCHANGED <<queueVars, waiting, readerVars, slotVars, at, batch, nEmpty, phase, cur>>

\* Sample a token: generation goes on while process_token() says so ...
SampleToken ==
    /\ At("sample")
    /\ \E s \in ready :
          /\ Kind[task[s]] = "cmpl"
          /\ decoded[s] + 1 < MaxTokens
          /\ state' = [state EXCEPT ![s] = "GENERATING"]
          /\ decoded' = [decoded EXCEPT ![s] = @ + 1]
          /\ \E text \in Texts(task[s]) : SendAll(task[s], text)
          /\ ready' = ready \ {s}
    /\ UNCHANGED <<queueVars, waiting, readerVars, task, at, batch, nEmpty, mainVars>>

\* ... and ends with the final response at a stop condition or the limit.
SampleLast ==
    /\ At("sample")
    /\ \E s \in ready :
          /\ Kind[task[s]] = "cmpl"
          /\ state' = [state EXCEPT ![s] = "GENERATING"]
          /\ decoded' = [decoded EXCEPT ![s] = @ + 1]
          /\ \E text \in Texts(task[s]) : SendAll(task[s], Append(text, "final"))
          /\ releasing' = s
          /\ ready' = ready \ {s}
    /\ UNCHANGED <<queueVars, waiting, readerVars, task, at, batch, nEmpty, phase, cur>>

Sampled ==
    /\ At("sample")
    /\ ready = {}
    /\ phase' = "wait"
    /\ UNCHANGED <<queueVars, waiting, inbox, readerVars, slotVars, batchVars, cur, releasing>>

\* After a fatal error every processing slot gets an error and is released.
FailSlot ==
    /\ At("fail")
    /\ \E s \in Slots :
          /\ ~Idle(s)
          /\ Send(task[s], "error")
          /\ releasing' = s
    /\ UNCHANGED <<queueVars, waiting, readerVars, slotVars, batchVars, phase, cur>>

Failed ==
    /\ At("fail")
    /\ AllIdle
    /\ phase' = "wait"
    /\ UNCHANGED <<queueVars, waiting, inbox, readerVars, slotVars, batchVars, cur, releasing>>

\* The waiting loop ends when the queue is not empty.
WakeUp ==
    /\ At("wait")
    /\ QueueFree
    /\ queue # <<>>
    /\ phase' = "drain"
    /\ UNCHANGED <<queueVars, waiting, inbox, readerVars, slotVars, batchVars, cur, releasing>>

-----------------------------------------------------------------------------
\* The steps of a reader that its own thread takes without the client.
ReaderStep(r) ==
    \/ Register(r) \/ Post(r) \/ Receive(r) \/ Finish(r)
    \/ Purge(r) \/ CancelOne(r) \/ CancelDone(r)

LoopStep == PopTask \/ Drained \/ WakeUp \/ Release

TaskStep ==
    \/ ProcessNext \/ ProcessCancel \/ ProcessQuick \/ ProcessSlotAction
    \/ ProcessDefer \/ Launch \/ LaunchFails \/ Unlaunch \/ Unlaunched

UpdateStep ==
    \/ UpdateIdle \/ UpdateBusy \/ ShiftFails \/ BatchSampled
    \/ SkipSlot \/ RejectPrompt \/ BatchPrompt \/ ImageFails \/ BatchBuilt
    \/ EmptyBatch \/ DecodeOK \/ DecodeFails
    \/ SendEmbedding \/ SampleToken \/ SampleLast \/ Sampled
    \/ FailSlot \/ Failed

MainStep == LoopStep \/ TaskStep \/ UpdateStep

\* The threads poll and find nothing: the main thread in its waiting loop,
\* every reader whose request is not over in recv_with_timeout().  And nothing
\* runs after an abort.
Rest ==
    /\ \/ ~Alive
       \/ /\ phase = "wait" /\ queue = <<>>
          /\ \A r \in Readers : pc[r] = "done" \/ (pc[r] = "recv" /\ inbox[r] = <<>>)
    /\ UNCHANGED vars

Next == MainStep \/ (\E r \in Readers : ReaderStep(r) \/ Leave(r)) \/ Rest

Spec == Init /\ [][Next]_vars

\* The operating system schedules both kinds of thread.
FairSpec == Spec /\ WF_vars(MainStep) /\ \A r \in Readers : WF_vars(ReaderStep(r))
=============================================================================
