---------------------------- MODULE ServerModels ----------------------------
(***************************************************************************)
(* The router (tools/server/server-models.cpp): HTTP threads that load,    *)
(* unload and use models, one child process per loaded model, and for      *)
(* every child a monitoring thread with a log thread (reads the child's    *)
(* output) and a stopping thread.                                          *)
(*                                                                         *)
(* One action is one critical section of server_models::mutex, or a step   *)
(* outside it.  load() is the only function that blocks while it holds the *)
(* mutex (it joins the old thread), so the holder is a variable.           *)
(*                                                                         *)
(* `cv' is notified after every change of a status, so waiting on it is a  *)
(* guard.  `cv_stop' is not: its condition also asks whether the child is  *)
(* alive, and nobody notifies it when the child dies.                      *)
(***************************************************************************)
EXTENDS Naturals, FiniteSets, Sequences

CONSTANTS Models, Requesters,
          ModelsMax,    \* --models-max, 0 is no limit
          Preloaded,    \* models that were loaded at start-up
          None,         \* no requester (the mutex is free), no model
          MaxOps,       \* bound on the requests to the router
          MaxTurns      \* bound on how often children fall asleep or crash

ASSUME RouterOK ==
    /\ ModelsMax \in Nat /\ MaxOps \in Nat /\ MaxTurns \in Nat
    /\ IsFiniteSet(Models) /\ Preloaded \subseteq Models
    /\ Cardinality(Preloaded) <= ModelsMax
    /\ None \notin Models \cup Requesters

VARIABLES
    status,     \* [Models] meta.status
    stopping,   \* stopping_models
    holder,     \* the load() that holds the mutex while it joins, or None
    child,      \* [Instances] the process
    out,        \* [Instances] the lines of its stdout not yet read
    told,       \* [Instances] the exit command is in its stdin
    mon,        \* [Instances] the monitoring thread (and its log thread)
    stp,        \* [Instances] its stopping thread
    pc, want, auto, victim, port,   \* [Requesters] the request being handled
    main,       \* the main thread: serving, joining, exited
    ops, turns

router == <<status, stopping>>
procs  == <<child, out, told>>
reqs   == <<pc, want, auto, victim, port>>
vars   == <<router, holder, procs, mon, stp, reqs, main, ops, turns>>

\* A model has the instance in `mapping' and the one load() is starting.
Instances == Models \X {"mapped", "fresh"}
Current(m) == <<m, "mapped">>
Fresh(m)   == <<m, "fresh">>

Running(m) == status[m] # "unloaded"
Active     == {m \in Models : Running(m)}
\* mutant: off by one
HasRoom_AtMost == ModelsMax = 0 \/ Cardinality(Active) <= ModelsMax
HasRoom    == ModelsMax = 0 \/ Cardinality(Active) < ModelsMax
Alive(i)   == child[i] \in {"loading", "ready", "sleeping", "closing"}
Unlocked   == holder = None

\* cv_stop.notify_all()
Notified == [i \in Instances |-> IF stp[i] = "waiting" THEN "start" ELSE stp[i]]

\* The end of a process: its files are closed before it can be waited for.
Ended(i) == child' = [child EXCEPT ![i] = "closing"]

\* The exit code is left out.
UpdateStatus(m, s) == status' = [status EXCEPT ![m] = s]

AtStart(here) ==
    [i \in Instances |-> IF i \in {Current(m) : m \in Preloaded} THEN here ELSE "none"]

Init ==
    /\ status = [m \in Models |-> IF m \in Preloaded THEN "loaded" ELSE "unloaded"]
    /\ stopping = {} /\ holder = None
    /\ child = AtStart("ready")
    /\ out = [i \in Instances |-> <<>>]
    /\ told = [i \in Instances |-> FALSE]
    /\ mon = AtStart("log")
    /\ stp = AtStart("waiting")
    /\ pc = [r \in Requesters |-> "idle"]
    /\ want = [r \in Requesters |-> None]
    /\ auto = [r \in Requesters |-> FALSE]
    /\ victim = [r \in Requesters |-> None]
    /\ port = [r \in Requesters |-> None]
    /\ main = "serving" /\ ops = 0 /\ turns = 0

-----------------------------------------------------------------------------
(* Requests *)

Goto(r, where) == pc' = [pc EXCEPT ![r] = where]

\* The handler answers.
Return(r) ==
    /\ Goto(r, "idle")
    /\ want' = [want EXCEPT ![r] = None]
    /\ auto' = [auto EXCEPT ![r] = FALSE]
    /\ victim' = [victim EXCEPT ![r] = None]

\* A handler is entered with model m.
Begin(r, m) ==
    /\ main = "serving" /\ pc[r] = "idle" /\ ops < MaxOps /\ Unlocked
    /\ ops' = ops + 1
    /\ want' = [want EXCEPT ![r] = m]

\* A request to be proxied, with autoload: ensure_model_ready up to load().
Ensure(r, m) ==
    /\ Begin(r, m)
    /\ auto' = [auto EXCEPT ![r] = TRUE]
    /\ Goto(r, CASE status[m] \in {"loaded", "sleeping"} -> "proxy"
                 [] status[m] = "unloaded" -> "lru"
                 [] status[m] = "loading" -> "wait")
    /\ UNCHANGED <<router, holder, procs, mon, stp, victim, port, main, turns>>

\* Without autoload a model that does not run is an error.
Direct(r, m) ==
    /\ Begin(r, m) /\ Running(m)
    /\ Goto(r, "proxy")
    /\ UNCHANGED <<router, holder, procs, mon, stp, auto, victim, port, main, turns>>

\* POST /models/load
PostLoad(r, m) ==
    /\ Begin(r, m) /\ ~Running(m)
    /\ Goto(r, "lru")
    /\ UNCHANGED <<router, holder, procs, mon, stp, auto, victim, port, main, turns>>

\* POST /models/unload, up to unload()
PostUnload(r, m) ==
    /\ Begin(r, m) /\ Running(m)
    /\ Goto(r, "unload")
    /\ UNCHANGED <<router, holder, procs, mon, stp, auto, victim, port, main, turns>>

\* unload_lru: last_used is left out, any running model may be the oldest,
\* and none is when all were used in this very millisecond.
UnloadLru(r) ==
    /\ pc[r] = "lru" /\ Unlocked
    /\ \/ /\ ~HasRoom
          /\ \E m \in Active : victim' = [victim EXCEPT ![r] = m]
          /\ Goto(r, "unload")
       \/ /\ victim' = [victim EXCEPT ![r] = None]
          /\ Goto(r, "load")
    /\ UNCHANGED <<router, holder, procs, mon, stp, want, auto, port, main, ops, turns>>

\* unload(): the victim of unload_lru, or the model of the request.
Unload(r) ==
    LET m == IF victim[r] = None THEN want[r] ELSE victim[r]
    IN  /\ pc[r] = "unload" /\ Unlocked
        /\ IF Running(m)
             THEN stopping' = stopping \cup {m} /\ stp' = Notified
             ELSE UNCHANGED <<stopping, stp>>
        /\ IF victim[r] = None
             THEN Return(r)
             ELSE Goto(r, "lruwait") /\ UNCHANGED <<want, auto, victim>>
        /\ UNCHANGED <<status, holder, procs, mon, port, main, ops, turns>>

\* unload_lru waits for the victim.
LruDone(r) ==
    /\ pc[r] = "lruwait" /\ Unlocked
    /\ ~Running(victim[r])
    /\ victim' = [victim EXCEPT ![r] = None]
    /\ Goto(r, "load")
    /\ UNCHANGED <<router, holder, procs, mon, stp, want, auto, port, main, ops, turns>>

\* load(): somebody else has started the model; or there is no room, or the
\* process cannot be started, which are exceptions.
LoadRefused(r) ==
    /\ pc[r] = "load" /\ Unlocked
    /\ IF Running(want[r]) /\ auto[r]
         THEN Goto(r, "wait") /\ UNCHANGED <<want, auto, victim>>
         ELSE Return(r)
    /\ UNCHANGED <<router, holder, procs, mon, stp, port, main, ops, turns>>

\* load(): the process and its threads are started, then the old process is
\* killed if it still lives.
LoadSpawn(r) ==
    LET m == want[r]
        old == Current(m)
        new == Fresh(m)
    IN  /\ pc[r] = "load" /\ Unlocked
        /\ ~Running(m) /\ HasRoom
        /\ holder' = r
        /\ child' = [child EXCEPT ![new] = "loading",
                                  ![old] = IF Alive(old) THEN "closing" ELSE @]
        /\ out' = [out EXCEPT ![new] = <<>>]
        /\ told' = [told EXCEPT ![new] = FALSE]
        /\ mon' = [mon EXCEPT ![new] = "log"]
        /\ stp' = [stp EXCEPT ![new] = "start"]
        /\ Goto(r, "join")
        /\ UNCHANGED <<router, want, auto, victim, port, main, ops, turns>>

\* load(): the old thread is joined, the instance is moved into `mapping';
\* nobody listens on the old port any more.
Moved(f, m, empty) == [f EXCEPT ![Current(m)] = f[Fresh(m)], ![Fresh(m)] = empty]

LoadJoin(r) ==
    LET m == want[r]
    IN  /\ pc[r] = "join" /\ mon[Current(m)] \in {"none", "done"}
        /\ mon' = Moved(mon, m, "none")
        /\ stp' = Moved(stp, m, "none")
        /\ child' = Moved(child, m, "none")
        /\ out' = Moved(out, m, <<>>)
        /\ told' = Moved(told, m, FALSE)
        /\ port' = [q \in Requesters |-> IF port[q] = m THEN None ELSE port[q]]
        /\ status' = [status EXCEPT ![m] = "loading"]
        /\ holder' = None
        /\ IF auto[r] THEN Goto(r, "wait") /\ UNCHANGED <<want, auto, victim>> ELSE Return(r)
        /\ UNCHANGED <<stopping, main, ops, turns>>

\* wait_until_loading_finished, and the status that is read after it
WaitOver(m) == status[m] # "loading"

WaitLoading(r) ==
    /\ pc[r] = "wait" /\ Unlocked /\ WaitOver(want[r])
    /\ Goto(r, "check")
    /\ UNCHANGED <<router, holder, procs, mon, stp, want, auto, victim, port,
                   main, ops, turns>>

CheckLoaded(r) ==
    /\ pc[r] = "check" /\ Unlocked
    /\ \/ ~Running(want[r]) /\ Return(r)    \* it failed
       \/ Goto(r, "proxy") /\ UNCHANGED <<want, auto, victim>>
    /\ UNCHANGED <<router, holder, procs, mon, stp, port, main, ops, turns>>

\* proxy_request: the port is read under the lock and used after it.
ProxyRead(r) ==
    /\ pc[r] = "proxy" /\ Unlocked
    /\ IF Running(want[r])
         THEN /\ port' = [port EXCEPT ![r] = want[r]]
              /\ Goto(r, "forward") /\ UNCHANGED <<want, auto, victim>>
         ELSE port' = port /\ Return(r)
    /\ UNCHANGED <<router, holder, procs, mon, stp, main, ops, turns>>

\* The child that listens there, if any, wakes up and says so.
Forward(r) ==
    /\ pc[r] = "forward"
    /\ IF port[r] # None /\ child[Current(port[r])] = "sleeping"
         THEN LET i == Current(port[r])
              IN  /\ child' = [child EXCEPT ![i] = "ready"]
                  /\ out' = [out EXCEPT ![i] = Append(@, "loaded")]
         ELSE UNCHANGED <<child, out>>
    /\ port' = [port EXCEPT ![r] = None]
    /\ Return(r)
    /\ UNCHANGED <<router, holder, told, mon, stp, main, ops, turns>>

-----------------------------------------------------------------------------
(* The child process *)

\* The model is loaded: setup_child_server writes READY.
ChildReady(i) ==
    /\ child[i] = "loading"
    /\ child' = [child EXCEPT ![i] = "ready"]
    /\ out' = [out EXCEPT ![i] = Append(@, "loaded")]
    /\ UNCHANGED <<router, holder, told, mon, stp, reqs, main, ops, turns>>

ChildSleeps(i) ==
    /\ child[i] = "ready" /\ turns < MaxTurns
    /\ turns' = turns + 1
    /\ child' = [child EXCEPT ![i] = "sleeping"]
    /\ out' = [out EXCEPT ![i] = Append(@, "sleeping")]
    /\ UNCHANGED <<router, holder, told, mon, stp, reqs, main, ops>>

\* Only a loaded child reads its stdin.
ChildObeys(i) ==
    /\ child[i] \in {"ready", "sleeping"} /\ told[i]
    /\ Ended(i)
    /\ UNCHANGED <<router, holder, out, told, mon, stp, reqs, main, ops, turns>>

\* Loading fails, or the process dies at any time.
ChildCrashes(i) ==
    /\ child[i] \in {"loading", "ready", "sleeping"} /\ turns < MaxTurns
    /\ turns' = turns + 1
    /\ Ended(i)
    /\ UNCHANGED <<router, holder, out, told, mon, stp, reqs, main, ops>>

ChildGone(i) ==
    /\ child[i] = "closing"
    /\ child' = [child EXCEPT ![i] = "dead"]
    /\ UNCHANGED <<router, holder, out, told, mon, stp, reqs, main, ops, turns>>

-----------------------------------------------------------------------------
(* The monitoring thread and its log thread *)

\* mutant: the status is set without the mutex
CanReport_NoLock(i) == mon[i] = "log" /\ out[i] # <<>>

CanReport(i) == mon[i] = "log" /\ out[i] # <<>> /\ Unlocked

LogLine(i) ==
    /\ CanReport(i)
    /\ UpdateStatus(i[1], Head(out[i]))
    /\ out' = [out EXCEPT ![i] = Tail(@)]
    /\ UNCHANGED <<stopping, holder, child, told, mon, stp, reqs, main, ops, turns>>

LogEof(i) ==
    /\ mon[i] = "log" /\ out[i] = <<>> /\ child[i] \in {"closing", "dead"}
    /\ mon' = [mon EXCEPT ![i] = "erase"]
    /\ UNCHANGED <<router, holder, procs, stp, reqs, main, ops, turns>>

EraseStop(i) ==
    /\ mon[i] = "erase" /\ Unlocked
    /\ stopping' = stopping \ {i[1]}
    /\ stp' = Notified
    /\ mon' = [mon EXCEPT ![i] = "join"]
    /\ UNCHANGED <<status, holder, procs, reqs, main, ops, turns>>

\* mutant: the process is not waited for
ReapReady_Unjoined(i) == mon[i] = "join" /\ stp[i] = "done"

\* stopping_thread.join(), subprocess_join(), update_status(): `ReapReady' is
\* what the monitor has waited for.
ReapReady(i) == mon[i] = "join" /\ stp[i] = "done" /\ child[i] = "dead"

SetUnloaded(i) ==
    /\ ReapReady(i) /\ Unlocked
    /\ UpdateStatus(i[1], "unloaded")
    /\ mon' = [mon EXCEPT ![i] = "ending"]
    /\ UNCHANGED <<stopping, holder, procs, stp, reqs, main, ops, turns>>

MonitorEnds(i) ==
    /\ mon[i] = "ending"
    /\ mon' = [mon EXCEPT ![i] = "done"]
    /\ UNCHANGED <<router, holder, procs, stp, reqs, main, ops, turns>>

-----------------------------------------------------------------------------
(* The stopping thread *)

\* mutant: the stop request is not looked at
ShouldWake_Dead(i) == ~Alive(i)

\* should_wake
ShouldWake(i) == i[1] \in stopping \/ ~Alive(i)

StopperWait(i) ==
    /\ stp[i] = "start" /\ Unlocked
    /\ stp' = [stp EXCEPT ![i] = IF ShouldWake(i) THEN "awake" ELSE "waiting"]
    /\ UNCHANGED <<router, holder, procs, mon, reqs, main, ops, turns>>

StopperTells(i) ==
    /\ stp[i] = "awake"
    /\ stp' = [stp EXCEPT ![i] = IF Alive(i) THEN "grace" ELSE "done"]
    /\ told' = [told EXCEPT ![i] = Alive(i)]
    /\ UNCHANGED <<router, holder, child, out, mon, reqs, main, ops, turns>>

\* The request is gone, or the time is over and the child is killed.
StopperLeaves(i) ==
    /\ stp[i] = "grace" /\ Unlocked
    /\ \/ /\ i[1] \notin stopping
          /\ UNCHANGED child
       \/ /\ i[1] \in stopping
          /\ IF child[i] \in {"loading", "ready", "sleeping"}
               THEN Ended(i)
               ELSE UNCHANGED child
    /\ stp' = [stp EXCEPT ![i] = "done"]
    /\ UNCHANGED <<router, holder, out, told, mon, reqs, main, ops, turns>>

-----------------------------------------------------------------------------
(* The main thread: the HTTP server stops when its threads have answered,   *)
(* then unload_all.                                                         *)

\* mutants: only loaded models are stopped, only the others are joined
ToStop_Loaded == {m \in Models : status[m] = "loaded"}
ToJoin_Others == Models \ Active

\* The models unload_all() stops, and the threads it joins.
ToStop == Active
ToJoin == Models

UnloadAll ==
    /\ main = "serving" /\ Unlocked
    /\ \A r \in Requesters : pc[r] = "idle"
    /\ stopping' = stopping \cup ToStop
    /\ stp' = IF ToStop = {} THEN stp ELSE Notified
    /\ main' = "joining"
    /\ UNCHANGED <<status, holder, procs, mon, reqs, ops, turns>>

JoinAll ==
    /\ main = "joining"
    /\ \A m \in ToJoin : mon[Current(m)] \in {"none", "done"}
    /\ main' = "exited"
    /\ UNCHANGED <<router, holder, procs, mon, stp, reqs, ops, turns>>

-----------------------------------------------------------------------------
RequestSteps(r) ==
    \/ UnloadLru(r) \/ Unload(r) \/ LruDone(r)
    \/ LoadRefused(r) \/ LoadSpawn(r) \/ LoadJoin(r)
    \/ WaitLoading(r) \/ CheckLoaded(r) \/ ProxyRead(r) \/ Forward(r)

Monitor(i) ==
    LogLine(i) \/ LogEof(i) \/ EraseStop(i) \/ SetUnloaded(i) \/ MonitorEnds(i)

Stopper(i) == StopperWait(i) \/ StopperTells(i) \/ StopperLeaves(i)

Next ==
    \/ \E r \in Requesters, m \in Models :
         Ensure(r, m) \/ Direct(r, m) \/ PostLoad(r, m) \/ PostUnload(r, m)
    \/ \E r \in Requesters : RequestSteps(r)
    \/ \E i \in Instances :
         \/ ChildReady(i) \/ ChildSleeps(i) \/ ChildObeys(i)
         \/ ChildCrashes(i) \/ ChildGone(i)
         \/ Monitor(i) \/ Stopper(i)
    \/ UnloadAll \/ JoinAll

\* Threads are scheduled, the kernel ends a process whose files it closed,
\* and a model is loaded in the end.  Nobody has to send a request, sleep,
\* crash or stop the server.
Fairness ==
    /\ \A r \in Requesters : WF_vars(RequestSteps(r))
    /\ \A i \in Instances :
         /\ WF_vars(Monitor(i)) /\ WF_vars(Stopper(i))
         /\ WF_vars(ChildReady(i)) /\ WF_vars(ChildGone(i))
    /\ WF_vars(JoinAll)

Spec == Init /\ [][Next]_vars /\ Fairness

-----------------------------------------------------------------------------
(* Types, and which places go together: an instance beside `mapping' exists *)
(* only while its load() holds the mutex, and a request has a model until it *)
(* is answered.                                                             *)
TypeOK ==
    /\ status \in [Models -> {"unloaded", "loading", "loaded", "sleeping"}]
    /\ stopping \subseteq Models
    /\ holder \in Requesters \cup {None}
    /\ child \in [Instances -> {"none", "loading", "ready", "sleeping",
                                "closing", "dead"}]
    /\ told \in [Instances -> BOOLEAN]
    /\ out \in [Instances -> Seq({"loaded", "sleeping"})]
    /\ mon \in [Instances -> {"none", "log", "erase", "join", "ending", "done"}]
    /\ stp \in [Instances -> {"none", "start", "waiting", "awake", "grace", "done"}]
    /\ pc \in [Requesters -> {"idle", "lru", "unload", "lruwait", "load", "join",
                              "wait", "check", "proxy", "forward"}]
    /\ want \in [Requesters -> Models \cup {None}]
    /\ victim \in [Requesters -> Models \cup {None}]
    /\ auto \in [Requesters -> BOOLEAN]
    /\ port \in [Requesters -> Models \cup {None}]
    /\ main \in {"serving", "joining", "exited"}
    /\ ops \in 0..MaxOps /\ turns \in 0..MaxTurns
    /\ \A r \in Requesters : /\ pc[r] = "idle" <=> want[r] = None
                             /\ pc[r] = "join" <=> holder = r
    /\ \A m \in Models :
         mon[Fresh(m)] # "none" => holder # None /\ want[holder] = m

(* There are never more child processes than --models-max, whatever loads   *)
(* race between unload_lru() and the critical section of load().            *)
WithinLimit ==
    ModelsMax > 0 => Cardinality({i \in Instances : Alive(i)}) <= ModelsMax

(* "old process should have exited already": when load() joins the old      *)
(* thread, which it does with the mutex held, that thread no longer needs   *)
(* the mutex and its process is gone.                                       *)
OldIsGone ==
    \A r \in Requesters : pc[r] = "join" =>
        /\ ~Alive(Current(want[r]))
        /\ mon[Current(want[r])] \in {"none", "ending", "done"}

(* When the log thread has read everything, the router's status of a model  *)
(* is what its process does, although the process starts and reports before *)
(* load() has put the instance into `mapping'.  (And every variable keeps    *)
(* its type.)                                                               *)
RouterView ==
    /\ TypeOK
    /\ \A m \in Models :
           LET i == Current(m)
           IN  mon[i] = "log" /\ out[i] = <<>> =>
                   /\ child[i] = "loading" => status[m] = "loading"
                   /\ child[i] = "ready" => status[m] = "loaded"
                   /\ child[i] = "sleeping" => status[m] = "sleeping"

(* When the router exits, no child process and no thread is left behind.    *)
NoOrphans ==
    main = "exited" =>
        \A i \in Instances : ~Alive(i) /\ mon[i] \in {"none", "done"}

(* The one way a model can hang: the monitor has seen the end of the output *)
(* and withdrawn the stop request, its stopping thread looked before the     *)
(* process could be waited for, and nothing else wakes it (ExitIsNoticed).   *)
Missed(m) == mon[Current(m)] = "join" /\ stp[Current(m)] = "waiting"

(* A model somebody asked to unload is unloaded in the end, even when it    *)
(* crashes, never finishes loading or ignores the command.                  *)
UnloadEnds ==
    \A m \in Models : (m \in stopping) ~> (status[m] = "unloaded" \/ Missed(m))

(* unload_all() joins every monitoring thread and returns. *)
ShutdownEnds ==
    (main = "joining") ~> (main = "exited" \/ \E m \in Models : Missed(m))

(* "thread to monitor stopping signal OR child crash": a child that has     *)
(* died is noticed, its model does not stay loading, loaded or sleeping.    *)
ExitIsNoticed ==
    \A m \in Models : (Running(m) /\ child[Current(m)] = "dead") ~> ~Running(m)

(* "wait for unload to complete": unload_lru() returns. *)
LruReturns == \A r \in Requesters : (pc[r] = "lruwait") ~> (pc[r] # "lruwait")
=============================================================================
