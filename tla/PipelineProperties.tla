------------------------- MODULE PipelineProperties -------------------------
(***************************************************************************)
(* What the request pipeline of llama-server promises: see ServerPipeline. *)
(***************************************************************************)
EXTENDS ServerPipeline

\* The places of t's own entry, and of t itself counting the entry of the
\* parent it travels in.
EntryPlaces(t) ==
    Cardinality({i \in DOMAIN queue : queue[i] = Work(t)})
      + Cardinality({i \in DOMAIN deferred : deferred[i] = Work(t)})
      + (IF phase = "task" /\ cur = Work(t) THEN 1 ELSE 0)

Places(t) ==
    EntryPlaces(t) + Cardinality({s \in Slots : task[s] = t})
      + (IF Parent[t] # NoTask THEN EntryPlaces(Parent[t]) ELSE 0)

\* A task moves through the pipeline and is never copied: it is in
\* queue_tasks, in queue_tasks_deferred, in the hands of process_single_task(),
\* inside the entry of its parent, or on one slot, and in one of these only.
OnePlace == \A t \in Tasks : Places(t) <= 1

\* A task that still has to give its stop result.
Pending(t) == Places(t) > 0 /\ (releasing # 0 => task[releasing] # t)

Stops(r) == {i \in DOMAIN inbox[r] : inbox[r][i].kind = "final"}
HasError(r) == \E i \in DOMAIN inbox[r] : inbox[r][i].kind = "error"

\* No task is lost and none is answered twice.  While a reader receives, and
\* no error is on its way to it, each of its tasks is accounted for exactly
\* once: its stop result is counted in received_count, or it is in
\* queue_results, or the task is pending.
Conservation ==
    \A r \in Readers :
        (pc[r] = "recv" /\ ~HasError(r)) =>
            Cardinality(TasksOf(r)) =
                received[r] + Cardinality(Stops(r))
                  + Cardinality({t \in TasksOf(r) : Pending(t)})

\* A finished reader leaves nothing behind in server_response.  stop() drops
\* pending results only when it cancels; when it does not, none may be there,
\* since remove_waiting_task_ids() keeps them.
NothingLeftBehind ==
    \A r \in Readers :
        pc[r] = "done" => inbox[r] = <<>> /\ waiting \cap TasksOf(r) = {}

\* The main thread never waits for new tasks while a slot is processing: the
\* NEXT_RESPONSE that update_slots() posts survives every cancellation.
NeverWaitsWhileBusy == (At("wait") /\ queue = <<>>) => AllIdle

\* A deferred task waits for a slot that is processing: "defer until one slot
\* is available" (server-queue.h:40).  Otherwise nothing would move it back.
DeferredOnlyWhileBusy == (At("wait") /\ queue = <<>> /\ AllIdle) => deferred = <<>>

\* A cancellation finds its task wherever it is: once the reader is done and no
\* CANCEL for the task remains, the task is gone.
CancelFinds ==
    \A t \in Tasks :
        (/\ pc[Owner[t]] = "done"
         /\ ~ \E i \in DOMAIN queue : queue[i] = Cancel(t)
         /\ cur # Cancel(t) /\ releasing = 0)
        => Places(t) = 0

\* A child that waits for a parent that is no longer on a slot, while its reader
\* is still there, is about to be cancelled: the reader has an error to take or is
\* already cancelling, or the CANCEL is on its way.  (When the reader is gone the
\* CANCEL may have been lost: see NeverAborts.)
OrphansAreCancelled ==
    \A s \in Slots :
        (/\ phase \in {"update", "wait"} /\ releasing = 0
         /\ state[s] = "WAIT_OTHER"
         /\ pc[Owner[task[s]]] # "done"
         /\ \A p \in Slots : task[p] # Parent[task[s]])
        => LET t == task[s]  r == Owner[t] IN
           \/ pc[r] \in {"failed", "purge"} \/ t \in todo[r]
           \/ HasError(r) /\ pc[r] = "recv"
           \/ \E i \in DOMAIN queue : queue[i] = Cancel(t)

\* When the prompt of a parent is done, every child of it waits on a slot of
\* its own: "all children slots should already launched by
\* launch_slots_with_parent_task()" (server-context.cpp:2810).  A reader that is
\* done has cancelled, and its CANCELs take the slots of a family one by one.
FamilyTogether ==
    At("decode") =>
        \A p \in Slots : state[p] = "DONE_PROMPT" /\ pc[Owner[task[p]]] # "done" =>
            \A c \in Children(task[p]) :
                \E s \in Slots : task[s] = c /\ state[s] = "WAIT_OTHER"

\* GGML_ABORT, and the crash after a failed image, are never reached.
NeverAborts == phase # "aborted"

\* A task of r is deferred and nothing is left that would move it back: no slot is
\* busy, and no task is queued that asks for one.
AsksForSlot(e) == e.type = "work" /\ Kind[e.task] \in {"cmpl", "embd", "slot"}
Stranded(r) ==
    /\ \E i \in DOMAIN deferred : deferred[i].task \in TasksOf(r)
    /\ AllIdle
    /\ ~AsksForSlot(cur) /\ ~ \E i \in DOMAIN queue : AsksForSlot(queue[i])

\* A request that is posted ends, with all its results or an error, unless the process
\* aborts or the request is stranded: it may stay deferred beside idle slots until
\* another request ends, which "defer until one slot is available"
\* (server-queue.h:40) does not say.  Only three things strand it, each because
\* release() moves one deferred task, and that one takes no slot: a slot action, which
\* is done at once; a launch that is refused; a CANCEL that finds the moved task in
\* the queue.
Served ==
    /\ \A r \in Readers :
          pc[r] = "recv" ~> (pc[r] = "done" \/ phase = "aborted" \/ Stranded(r))
    /\ [][\A r \in Readers :
             Stranded(r)' => \/ Stranded(r) \/ ProcessSlotAction \/ Unlaunched
                             \/ \E q \in Readers : CancelOne(q)]_vars

\* No slot is lost: once every request is over, all slots become idle and stay
\* idle, unless the process has aborted.
SlotsFreed == <>[](phase = "aborted" \/ \A s \in Slots : task[s] = NoTask)

\* The pipeline implements the service of RequestService: the request of a
\* reader is open from the registration of its ids to their removal.
Service == INSTANCE RequestService WITH
    status <- [r \in Readers |->
                  CASE pc[r] = "new" -> "new"
                    [] pc[r] \in {"post", "recv", "failed"} -> "open"
                    [] OTHER -> "closed"],
    outbox <- inbox,
    taken <- got

ImplementsService == Service!Spec
=============================================================================
