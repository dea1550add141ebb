----------------------------- MODULE ServerSleep -----------------------------
(***************************************************************************)
(* How llama-server sleeps (--sleep-idle-seconds), wakes up and stops: the *)
(* loop of server_queue::start_loop() on the main thread, HTTP threads     *)
(* that call wait_until_no_sleep() and post tasks, and terminate(), which  *)
(* a signal handler calls.  They share mutex_tasks and one condition       *)
(* variable, condition_tasks.                                              *)
(*                                                                         *)
(* One action is one critical section of mutex_tasks; a wait on the        *)
(* condition variable ends its critical section.  Time is not modelled: an *)
(* idle main thread may find that idle_sleep_ms has passed or not.  Tasks  *)
(* are abstracted to the HTTP thread that posted them; ServerPipeline has  *)
(* what the tasks and the slots do.                                        *)
(***************************************************************************)
EXTENDS Naturals, FiniteSets

CONSTANTS
    Readers,      \* HTTP threads
    Main,         \* the main thread
    NextResponse, \* the task that update_slots() posts to itself
    Requests,     \* how many requests an HTTP thread serves (a bound)
    Signals,      \* a signal may call terminate()
    SignalEarly   \* ... even before start_loop() runs

ASSUME SleepConstantsOK ==
    /\ Main \notin Readers
    /\ NextResponse \notin Readers
    /\ Requests \in Nat
    /\ Signals \in BOOLEAN
    /\ SignalEarly \in BOOLEAN

VARIABLES
    running,    \* running
    sleeping,   \* sleeping: while it is TRUE the model is unloaded
    reqStop,    \* req_stop_sleeping
    queue,      \* queue_tasks, as a set
    busy,       \* HTTP threads whose task is on a slot
    mainAt,     \* where the main thread is
    rd,         \* rd[r]: where HTTP thread r is
    left,       \* left[r]: requests that r has still to begin
    cv,         \* threads blocked on condition_tasks
    signalled   \* terminate() has been called

serverVars == <<running, sleeping, reqStop, queue>>
readerVars == <<rd, left>>
sleepVars == <<serverVars, busy, mainAt, readerVars, cv, signalled>>

MainStates == {"start", "drain", "update", "decode", "idle", "nap", "asleep", "exit"}
ReaderStates == {"out", "blocked", "tokenize", "recv"}

SleepTypeOK ==
    /\ running \in BOOLEAN
    /\ sleeping \in BOOLEAN
    /\ reqStop \in BOOLEAN
    /\ queue \subseteq Readers \cup {NextResponse}
    /\ busy \subseteq Readers
    /\ mainAt \in MainStates
    /\ rd \in [Readers -> ReaderStates]
    /\ left \in [Readers -> Nat]
    /\ cv \subseteq Readers \cup {Main}
    /\ signalled \in BOOLEAN

SleepInit ==
    /\ running = FALSE
    /\ sleeping = FALSE
    /\ reqStop = FALSE
    /\ queue = {}
    /\ busy = {}
    /\ mainAt = "start"
    /\ rd = [r \in Readers |-> "out"]
    /\ left = [r \in Readers |-> Requests]
    /\ cv = {}
    /\ signalled = FALSE

-----------------------------------------------------------------------------
(* The condition variable.  Definitions named X_Y are faulty variants of X. *)

\* notify_one() unblocks some thread, if any is blocked: the possible
\* sets of threads that stay blocked.
AfterNotifyOne(S) == IF S = {} THEN {{}} ELSE {S \ {t} : t \in S}
NotifyOne == cv' \in AfterNotifyOne(cv)

NotifyAll_One == cv' \in AfterNotifyOne(cv)
NotifyAll == cv' = {}

\* A blocked thread may be unblocked for no reason.
Spurious ==
    /\ \E t \in cv : cv' = cv \ {t}
    /\ UNCHANGED <<serverVars, busy, mainAt, readerVars, signalled>>

-----------------------------------------------------------------------------
(* HTTP threads.                                                           *)

\* server_res_generator() calls wait_until_no_sleep(): it returns at once when
\* the server is awake, ...
Enter(r) ==
    /\ rd[r] = "out"
    /\ left[r] > 0
    /\ ~sleeping
    /\ rd' = [rd EXCEPT ![r] = "tokenize"]
    /\ left' = [left EXCEPT ![r] = @ - 1]
    /\ UNCHANGED <<serverVars, busy, mainAt, cv, signalled>>

\* ... otherwise it asks once to stop sleeping, and waits.
Block(r) ==
    /\ rd[r] = "out"
    /\ left[r] > 0
    /\ sleeping
    /\ reqStop' = TRUE
    /\ \E S \in (IF reqStop THEN {cv} ELSE AfterNotifyOne(cv)) : cv' = S \cup {r}
    /\ rd' = [rd EXCEPT ![r] = "blocked"]
    /\ left' = [left EXCEPT ![r] = @ - 1]
    /\ UNCHANGED <<running, sleeping, queue, busy, mainAt, signalled>>

\* An unblocked thread looks at "sleeping" again.
Recheck(r) ==
    /\ rd[r] = "blocked"
    /\ r \notin cv
    /\ rd' = [rd EXCEPT ![r] = IF sleeping THEN @ ELSE "tokenize"]
    /\ cv' = IF sleeping THEN cv \cup {r} ELSE cv
    /\ UNCHANGED <<serverVars, busy, mainAt, left, signalled>>

\* The handler has used the vocabulary of the model and posts its task.
Post(r) ==
    /\ rd[r] = "tokenize"
    /\ queue' = queue \cup {r}
    /\ NotifyOne
    /\ rd' = [rd EXCEPT ![r] = "recv"]
    /\ UNCHANGED <<running, sleeping, reqStop, busy, mainAt, left, signalled>>

\* terminate(), from the signal handler.
Terminate ==
    /\ Signals /\ ~signalled
    /\ SignalEarly \/ mainAt # "start"
    /\ running' = FALSE
    /\ NotifyAll
    /\ signalled' = TRUE
    /\ UNCHANGED <<sleeping, reqStop, queue, busy, mainAt, readerVars>>

-----------------------------------------------------------------------------
(* The main thread.                                                        *)

Start ==
    /\ mainAt = "start"
    /\ running' = TRUE
    /\ mainAt' = "drain"
    /\ UNCHANGED <<sleeping, reqStop, queue, busy, readerVars, cv, signalled>>

Stop ==
    /\ mainAt = "drain"
    /\ ~running
    /\ mainAt' = "exit"
    /\ UNCHANGED <<serverVars, busy, readerVars, cv, signalled>>

\* callback_new_task() puts the task of a reader on a slot.
Take ==
    /\ mainAt = "drain"
    /\ running
    /\ \E t \in queue :
          /\ queue' = queue \ {t}
          /\ busy' = IF t = NextResponse THEN busy ELSE busy \cup {t}
    /\ UNCHANGED <<running, sleeping, reqStop, mainAt, readerVars, cv, signalled>>

Drained ==
    /\ mainAt = "drain"
    /\ running
    /\ queue = {}
    /\ mainAt' = "update"
    /\ UNCHANGED <<serverVars, busy, readerVars, cv, signalled>>

\* callback_update_slots(): nothing to do when all slots are idle.
UpdateIdle ==
    /\ mainAt = "update"
    /\ busy = {}
    /\ mainAt' = "idle"
    /\ UNCHANGED <<serverVars, busy, readerVars, cv, signalled>>

PostNext_Forgotten == UNCHANGED <<queue, cv>>
PostNext == queue' = queue \cup {NextResponse} /\ NotifyOne

\* Otherwise update_slots() posts NEXT_RESPONSE ...
UpdateBusy ==
    /\ mainAt = "update"
    /\ busy # {}
    /\ PostNext
    /\ mainAt' = "decode"
    /\ UNCHANGED <<running, sleeping, reqStop, busy, readerVars, signalled>>

\* ... and computes: some of the tasks may be answered and free their slots.
Decode ==
    /\ mainAt = "decode"
    /\ \E answered \in SUBSET busy :
          /\ busy' = busy \ answered
          /\ rd' = [r \in Readers |-> IF r \in answered THEN "out" ELSE rd[r]]
    /\ mainAt' = "idle"
    /\ UNCHANGED <<serverVars, left, cv, signalled>>

MustDrain_NoQueue == ~running
MustDrain == ~running \/ queue # {}

\* The waiting loop: go back to the tasks, ...
Idle ==
    /\ mainAt = "idle"
    /\ MustDrain
    /\ mainAt' = "drain"
    /\ UNCHANGED <<serverVars, busy, readerVars, cv, signalled>>

\* ... or fall asleep: the model is unloaded, a request to stop sleeping that
\* is already there is dropped, and the thread blocks, ...
FallAsleep ==
    /\ mainAt = "idle"
    /\ ~MustDrain
    /\ sleeping' = TRUE
    /\ reqStop' = FALSE
    /\ cv' = cv \cup {Main}
    /\ mainAt' = "asleep"
    /\ UNCHANGED <<running, queue, busy, readerVars, signalled>>

\* ... or wait for tasks for max_wait_time.
Nap ==
    /\ mainAt = "idle"
    /\ ~MustDrain
    /\ cv' = cv \cup {Main}
    /\ mainAt' = "nap"
    /\ UNCHANGED <<serverVars, busy, readerVars, signalled>>

\* wait_for() returns at a timeout, whatever its predicate says, ...
NapTimeout ==
    /\ mainAt = "nap"
    /\ cv' = cv \ {Main}
    /\ mainAt' = IF MustDrain THEN "drain" ELSE "idle"
    /\ UNCHANGED <<serverVars, busy, readerVars, signalled>>

\* ... and, when it is notified, only if the predicate holds.
NapWoken ==
    /\ mainAt = "nap"
    /\ Main \notin cv
    /\ mainAt' = IF MustDrain THEN "drain" ELSE "nap"
    /\ cv' = IF MustDrain THEN cv ELSE cv \cup {Main}
    /\ UNCHANGED <<serverVars, busy, readerVars, signalled>>

SleepEnds_Request == reqStop
SleepEnds == ~running \/ reqStop

\* The sleeping thread is unblocked: it sleeps on, ...
SleepOn ==
    /\ mainAt = "asleep"
    /\ Main \notin cv
    /\ ~SleepEnds
    /\ cv' = cv \cup {Main}
    /\ UNCHANGED <<serverVars, busy, mainAt, readerVars, signalled>>

\* ... or leaves the loop because of terminate(), ...
StopAsleep ==
    /\ mainAt = "asleep"
    /\ Main \notin cv
    /\ SleepEnds
    /\ ~running
    /\ mainAt' = "drain"
    /\ UNCHANGED <<serverVars, busy, readerVars, cv, signalled>>

\* ... or loads the model again and tells every thread that waits for it.
WakeUp ==
    /\ mainAt = "asleep"
    /\ Main \notin cv
    /\ SleepEnds
    /\ running
    /\ sleeping' = FALSE
    /\ reqStop' = FALSE
    /\ NotifyAll
    /\ mainAt' = "drain"
    /\ UNCHANGED <<running, queue, busy, readerVars, signalled>>

ReaderStep(r) == Enter(r) \/ Block(r) \/ Recheck(r) \/ Post(r)

MainStep ==
    \/ Start \/ Stop \/ Take \/ Drained \/ UpdateIdle \/ UpdateBusy \/ Decode
    \/ Idle \/ FallAsleep \/ Nap \/ NapTimeout \/ NapWoken
    \/ SleepOn \/ StopAsleep \/ WakeUp

SleepNext == MainStep \/ (\E r \in Readers : ReaderStep(r)) \/ Terminate \/ Spurious

SleepSpec == SleepInit /\ [][SleepNext]_sleepVars

\* The operating system schedules every thread.
FairSleepSpec == SleepSpec /\ WF_sleepVars(MainStep) /\ \A r \in Readers : WF_sleepVars(ReaderStep(r))

-----------------------------------------------------------------------------
\* The model is in memory whenever the loop uses it: destroy() never runs while
\* a slot is processing, and while the model is unloaded the main thread is
\* asleep or on its way out.
LoadedWhenUsed ==
    sleeping => busy = {} /\ (mainAt = "asleep" \/ (mainAt \in {"drain", "exit"} /\ ~running))

\* When the server is awake no HTTP thread is blocked in wait_until_no_sleep().
NobodyLeftWaiting == ~sleeping => cv \cap Readers = {}

\* A task that is queued while the server is awake is taken from the queue,
\* unless the server is stopped.
AwakeServes ==
    \A r \in Readers :
        (r \in queue /\ ~sleeping) ~> (r \notin queue \/ signalled)

\* terminate() ends start_loop().
TerminateEnds == signalled ~> mainAt = "exit"

\* "Any new incoming task will automatically trigger the model to reload"
\* (tools/server/README.md:1725): a task posted to a sleeping server is taken.
PostWakesUp ==
    \A r \in Readers : (r \in queue /\ sleeping) ~> (r \notin queue \/ signalled)
=============================================================================
