-------------------------- MODULE ServerLifeProof ---------------------------
(***************************************************************************)
(* Proofs about the processes of a server.                                 *)
(*                                                                         *)
(* The router (ServerModels), for all finite sets of models, any number of *)
(* requests at a time and any bounds: there are never more children than   *)
(* --models-max (WithinLimit), load() finds the old process gone           *)
(* (OldIsGone), the status of a model is what its process reported         *)
(* (RouterView), and nothing is left behind at the exit (NoOrphans).       *)
(*                                                                         *)
(* How one server sleeps (ServerSleep), for any number of HTTP threads and *)
(* requests: the model is loaded when it is used (LoadedWhenUsed), and no  *)
(* thread waits for a server that is awake (NobodyLeftWaiting).            *)
(***************************************************************************)
EXTENDS ServerModels, ServerSleep, FiniteSetTheorems, SequenceTheorems, TLAPS

-----------------------------------------------------------------------------
(* The router: the invariant                                                 *)

(* The monitor of an instance needs neither the mutex nor the process.       *)
Over == {"none", "ending", "done"}

(* A process that somebody may still need has a monitor that waits for it.   *)
OverIsDead == \A i \in Instances : mon[i] \in Over => ~Alive(i)

(* A model that does not run has no monitor that would still report.         *)
StoppedIsOver == \A m \in Models : ~Running(m) => mon[Current(m)] \in Over

(* While load() holds the mutex its new instance is beside `mapping': the    *)
(* model does not run yet, and the monitor cannot have got further than the  *)
(* end of the output.                                                        *)
Starting == IF holder = None THEN {} ELSE {want[holder]}
Beside ==
    \A m \in Starting : ~Running(m) /\ mon[Fresh(m)] \in {"log", "erase"}

(* The models that have or get a process are within the limit.               *)
Room == ModelsMax > 0 => Cardinality(Active \cup Starting) <= ModelsMax

(* What the router knows, or will know when it has read everything, is what  *)
(* the process does.  A new instance is `loading' as soon as it is in        *)
(* `mapping'.                                                                *)
Knows(i, s) ==
    /\ child[i] = "loading" => out[i] = <<>> /\ s = "loading"
    /\ child[i] \in {"ready", "sleeping"} =>
         LET says == IF out[i] = <<>> THEN s ELSE out[i][Len(out[i])]
         IN  says = IF child[i] = "ready" THEN "loaded" ELSE "sleeping"

Reported ==
    \A m \in Models : /\ mon[Current(m)] = "log" => Knows(Current(m), status[m])
                      /\ mon[Fresh(m)] = "log" => Knows(Fresh(m), "loading")

(* The server stops when its threads have answered, and joins every monitor. *)
Stopped ==
    /\ main # "serving" => \A r \in Requesters : pc[r] = "idle"
    /\ main = "exited" => \A m \in Models : mon[Current(m)] \in {"none", "done"}

Inv ==
    /\ TypeOK
    /\ OverIsDead /\ StoppedIsOver /\ Beside /\ Room
    /\ Reported
    /\ Stopped

-----------------------------------------------------------------------------
(* Types                                                                     *)

Statuses == {"unloaded", "loading", "loaded", "sleeping"}
Children == {"none", "loading", "ready", "sleeping", "closing", "dead"}
Monitors == {"none", "log", "erase", "join", "ending", "done"}
Stoppers == {"none", "start", "waiting", "awake", "grace", "done"}
Places   == {"idle", "lru", "unload", "lruwait", "load", "join", "wait", "check", "proxy",
             "forward"}
Lines    == Seq({"loaded", "sleeping"})

(* A model has two instances, which are not those of another model.          *)
LEMMA InstancesOfModels ==
    /\ \A m \in Models : /\ Current(m) \in Instances /\ Current(m)[1] = m
                         /\ Fresh(m) \in Instances /\ Fresh(m)[1] = m
    /\ \A m, n \in Models : /\ Current(m) # Fresh(n)
                            /\ Current(m) = Current(n) => m = n
                            /\ Fresh(m) = Fresh(n) => m = n
    /\ \A i \in Instances : i[1] \in Models /\ (i = Current(i[1]) \/ i = Fresh(i[1]))
BY DEF Instances, Current, Fresh

(* Which load() holds the mutex                                              *)
LEMMA HolderIsLoading ==
    ASSUME TypeOK
    PROVE  /\ Unlocked => /\ Starting = {}
                          /\ \A m \in Models : mon[Fresh(m)] = "none"
                          /\ \A r \in Requesters : pc[r] # "join"
           /\ \A r \in Requesters : pc[r] = "join" =>
                holder = r /\ Starting = {want[r]} /\ want[r] \in Models
           /\ Starting \subseteq Models
           /\ \A m \in Models : mon[Fresh(m)] # "none" => m \in Starting
BY RouterOK DEF TypeOK, Starting, Unlocked

(* The step of a request that is not within the critical section of load()  *)
LEMMA RequestTypes ==
    ASSUME TypeOK, NEW r \in Requesters, pc[r] # "join",
           NEW l \in Places \ {"join"}, pc' = [pc EXCEPT ![r] = l],
           NEW m \in Models \cup {None}, want' = [want EXCEPT ![r] = m],
           l = "idle" <=> m = None,
           UNCHANGED <<status, holder, told, mon, main, turns>>,
           stopping' \subseteq Models,
           child' \in [Instances -> Children], out' \in [Instances -> Lines],
           stp' \in [Instances -> Stoppers],
           victim' \in [Requesters -> Models \cup {None}],
           auto' \in [Requesters -> BOOLEAN], port' \in [Requesters -> Models \cup {None}],
           ops' \in 0 .. MaxOps
    PROVE  TypeOK'
<1>1. pc' \in [Requesters -> Places] /\ want' \in [Requesters -> Models \cup {None}]
  BY DEF TypeOK, Places
<1>2. \A q \in Requesters : /\ pc'[q] = "idle" <=> want'[q] = None
                            /\ pc'[q] = "join" <=> holder = q
  BY DEF TypeOK
<1>3. \A n \in Models : mon[Fresh(n)] # "none" => holder # None /\ want'[holder] = n
  BY DEF TypeOK
<1> QED
  BY <1>1, <1>2, <1>3 DEF TypeOK, Children, Lines, Stoppers, Places

(* A step of a process or of its threads                                     *)
LEMMA ProcessTypes ==
    ASSUME TypeOK, UNCHANGED <<holder, reqs, main, ops>>,
           status' \in [Models -> Statuses], stopping' \subseteq Models,
           child' \in [Instances -> Children], out' \in [Instances -> Lines],
           told' \in [Instances -> BOOLEAN], stp' \in [Instances -> Stoppers],
           turns' \in 0 .. MaxTurns,
           mon' \in [Instances -> Monitors],
           \A m \in Models : mon'[Fresh(m)] # "none" => mon[Fresh(m)] # "none"
    PROVE  TypeOK'
BY DEF TypeOK, reqs, Statuses, Children, Lines, Stoppers, Monitors

-----------------------------------------------------------------------------
(* Requests                                                                  *)

(* The invariant speaks of no other variables than these.                    *)
LEMMA NothingMoves ==
    ASSUME OverIsDead, StoppedIsOver, Beside, Room, Reported,
           UNCHANGED <<status, child, out, mon>>, Starting' = Starting
    PROVE  OverIsDead' /\ StoppedIsOver' /\ Beside' /\ Room' /\ Reported'
<1>1. \A i : Alive(i)' = Alive(i) /\ (\A s : Knows(i, s)' = Knows(i, s))
  BY DEF Alive, Knows
<1>2. Active' = Active /\ \A m : Running(m)' = Running(m)
  BY DEF Active, Running
<1> QED
  BY <1>1, <1>2 DEF OverIsDead, StoppedIsOver, Beside, Room, Reported

(* A handler that answers                                                    *)
LEMMA ReturnTypes ==
    ASSUME TypeOK, NEW r \in Requesters, Return(r)
    PROVE  /\ pc' = [pc EXCEPT ![r] = "idle"] /\ want' = [want EXCEPT ![r] = None]
           /\ auto' \in [Requesters -> BOOLEAN]
           /\ victim' \in [Requesters -> Models \cup {None}]
BY DEF Return, Goto, TypeOK

(* The steps of a request that only read the state of the models             *)
QuietSteps(r) ==
    \/ \E m \in Models : Ensure(r, m) \/ Direct(r, m) \/ PostLoad(r, m) \/ PostUnload(r, m)
    \/ UnloadLru(r) \/ Unload(r) \/ LruDone(r) \/ LoadRefused(r) \/ WaitLoading(r)
    \/ CheckLoaded(r) \/ ProxyRead(r)

LEMMA QuietFrame ==
    ASSUME TypeOK, NEW r \in Requesters, QuietSteps(r)
    PROVE  /\ Unlocked /\ UNCHANGED <<status, holder, child, out, told, mon, main, turns>>
           /\ pc[r] # "join"
           /\ \E l \in Places \ {"join"}, m \in Models \cup {None} :
                /\ pc' = [pc EXCEPT ![r] = l]
                /\ want' = [want EXCEPT ![r] = m]
                /\ l = "idle" <=> m = None
           /\ main = "serving" \/ pc[r] # "idle"
           /\ stopping' \subseteq Models /\ stp' \in [Instances -> Stoppers]
           /\ victim' \in [Requesters -> Models \cup {None}]
           /\ auto' \in [Requesters -> BOOLEAN]
           /\ port' \in [Requesters -> Models \cup {None}]
           /\ ops' \in 0 .. MaxOps
<1> USE DEF router, procs, reqs, Goto, Places
<1>1. /\ want \in [Requesters -> Models \cup {None}] /\ pc \in [Requesters -> Places]
      /\ want = [want EXCEPT ![r] = want[r]]
      /\ (pc[r] = "idle" <=> want[r] = None)
  BY DEF TypeOK
<1>2. /\ stopping \subseteq Models /\ stp \in [Instances -> Stoppers]
      /\ victim \in [Requesters -> Models \cup {None}]
      /\ auto \in [Requesters -> BOOLEAN]
      /\ port \in [Requesters -> Models \cup {None}]
      /\ ops \in 0 .. MaxOps /\ MaxOps \in Nat
      /\ status \in [Models -> Statuses]
  BY RouterOK DEF TypeOK, Stoppers, Statuses
<1>0. ASSUME NEW k \in Places \ {"join", "idle"}, pc' = [pc EXCEPT ![r] = k], want' = want,
             pc[r] # "idle"
      PROVE  \E l \in Places \ {"join"}, m \in Models \cup {None} :
               /\ pc' = [pc EXCEPT ![r] = l]
               /\ want' = [want EXCEPT ![r] = m]
               /\ l = "idle" <=> m = None
  <2>1. want[r] \in Models \cup {None} /\ want[r] # None
    BY <1>0, <1>1
  <2> QED
    BY <1>0, <1>1, <2>1
<1>3. ASSUME NEW m \in Models, Ensure(r, m) \/ Direct(r, m) \/ PostLoad(r, m) \/ PostUnload(r, m)
      PROVE  /\ Begin(r, m)
             /\ \E l \in {"proxy", "lru", "wait", "unload"} : pc' = [pc EXCEPT ![r] = l]
             /\ UNCHANGED <<router, holder, procs, mon, stp, victim, port, main, turns>>
             /\ auto' \in [Requesters -> BOOLEAN]
  <2>1. CASE Ensure(r, m)
    <3>1. status[m] \in {"loaded", "sleeping"} \/ status[m] = "unloaded" \/ status[m] = "loading"
      BY <1>2 DEF Statuses
    <3> QED
      BY <1>2, <2>1, <3>1 DEF Ensure
  <2>2. CASE Direct(r, m) \/ PostLoad(r, m) \/ PostUnload(r, m)
    BY <1>2, <2>2 DEF Direct, PostLoad, PostUnload
  <2> QED
    BY <1>3, <2>1, <2>2
<1>4. ASSUME NEW m \in Models, Begin(r, m)
      PROVE  /\ Unlocked /\ pc[r] = "idle" /\ main = "serving"
             /\ ops' \in 0 .. MaxOps /\ want' = [want EXCEPT ![r] = m] /\ m # None
  BY <1>2, <1>4, RouterOK DEF Begin
<1>5. CASE \E m \in Models : Ensure(r, m) \/ Direct(r, m) \/ PostLoad(r, m) \/ PostUnload(r, m)
  BY <1>2, <1>3, <1>4, <1>5
<1>6. CASE UnloadLru(r)
  BY <1>1, <1>2, <1>6 DEF UnloadLru, Active
<1>7. CASE Unload(r)
  <2>1. Notified \in [Instances -> Stoppers]
    BY <1>2 DEF Notified, Stoppers
  <2>2. (IF victim[r] = None THEN want[r] ELSE victim[r]) \in Models
    BY <1>1, <1>2, <1>7 DEF Unload
  <2>3. stopping' \subseteq Models /\ stp' \in [Instances -> Stoppers]
    BY <1>2, <1>7, <2>1, <2>2 DEF Unload
  <2>4. \/ Return(r)
        \/ pc' = [pc EXCEPT ![r] = "lruwait"] /\ UNCHANGED <<want, auto, victim>>
    BY <1>7 DEF Unload
  <2>5. UNCHANGED <<status, holder, procs, mon, port, main, ops, turns>>
        /\ pc[r] = "unload" /\ Unlocked
    BY <1>7 DEF Unload
  <2> QED
    BY <1>1, <1>2, <2>3, <2>4, <2>5, ReturnTypes
<1>8. CASE LruDone(r)
  <2>1. /\ pc[r] = "lruwait" /\ pc' = [pc EXCEPT ![r] = "load"] /\ want' = want
    BY <1>8 DEF LruDone
  <2> QED
    BY <1>0, <1>2, <1>8, <2>1 DEF LruDone
<1>9. CASE LoadRefused(r)
  BY <1>1, <1>2, <1>9, ReturnTypes DEF LoadRefused
<1>10. CASE WaitLoading(r)
  <2>1. /\ pc[r] = "wait" /\ pc' = [pc EXCEPT ![r] = "check"] /\ want' = want
    BY <1>10 DEF WaitLoading
  <2> QED
    BY <1>0, <1>2, <1>10, <2>1 DEF WaitLoading
<1>11. CASE CheckLoaded(r)
  BY <1>1, <1>2, <1>11, ReturnTypes DEF CheckLoaded
<1>12. CASE ProxyRead(r)
  BY <1>1, <1>2, <1>12, ReturnTypes DEF ProxyRead
<1> QED
  BY <1>5, <1>6, <1>7, <1>8, <1>9, <1>10, <1>11, <1>12 DEF QuietSteps

(* They keep the invariant: load() holds the mutex in none of them.          *)
LEMMA QuietKeeps ==
    ASSUME Inv, NEW r \in Requesters, QuietSteps(r)
    PROVE  Inv'
<1>1. TypeOK
  BY DEF Inv
<1>2. TypeOK'
  <2>1. child \in [Instances -> Children] /\ out \in [Instances -> Lines]
    BY <1>1 DEF TypeOK, Children, Lines
  <2> QED
    BY <1>1, <2>1, QuietFrame, RequestTypes
<1>3. Starting = {} /\ Starting' = {}
  BY <1>1, <1>2, QuietFrame, HolderIsLoading DEF Unlocked, Starting
<1>4. OverIsDead' /\ StoppedIsOver' /\ Beside' /\ Room' /\ Reported'
  BY <1>1, <1>3, QuietFrame, NothingMoves DEF Inv
<1>5. Stopped'
  BY <1>1, QuietFrame DEF Inv, Stopped
<1> QED
  BY <1>2, <1>4, <1>5 DEF Inv

-----------------------------------------------------------------------------
(* The child processes                                                       *)

(* A line that is written is the last one, ...                               *)
LEMMA LastLine ==
    ASSUME NEW o \in Lines, NEW x \in {"loaded", "sleeping"}
    PROVE  /\ Append(o, x) \in Lines /\ Append(o, x) # <<>>
           /\ Append(o, x)[Len(Append(o, x))] = x
BY DEF Lines

(* ... and stays it until it is read.                                        *)
LEMMA FirstLine ==
    ASSUME NEW o \in Lines, o # <<>>
    PROVE  /\ Head(o) \in {"loaded", "sleeping"} /\ Tail(o) \in Lines
           /\ Tail(o) = <<>> => Head(o) = o[Len(o)]
           /\ Tail(o) # <<>> => Tail(o)[Len(Tail(o))] = o[Len(o)]
<1>1. /\ Head(o) \in {"loaded", "sleeping"} /\ Tail(o) \in Lines
      /\ Len(Tail(o)) = Len(o) - 1
      /\ \A k \in 1 .. Len(Tail(o)) : Tail(o)[k] = o[k + 1]
  BY HeadTailProperties DEF Lines
<1>2. Head(o) = o[1] /\ Len(o) \in Nat
  BY LenProperties DEF Lines
<1>3. PICK n : n = Len(Tail(o))
  OBVIOUS
<1>4. n = Len(o) - 1 /\ n + 1 = Len(o)
  BY <1>1, <1>2, <1>3
<1>5. CASE Tail(o) = <<>>
  <2>1. n = 0
    BY <1>3, <1>5, EmptySeq
  <2> QED
    BY <1>1, <1>2, <1>4, <1>5, <2>1
<1>6. CASE Tail(o) # <<>>
  <2>1. n \in Nat \ {0}
    BY <1>1, <1>3, <1>6, EmptySeq DEF Lines
  <2>2. Tail(o)[n] = o[n + 1]
    BY <1>1, <1>3, <2>1
  <2> QED
    BY <1>1, <1>3, <1>4, <1>6, <2>2
<1> QED
  BY <1>5, <1>6

(* A process moves, and the router will know.                                *)
LEMMA ChildMoves ==
    ASSUME Inv, NEW i \in Instances, Alive(i), NEW c \in Children, NEW o \in Lines,
           child' = [child EXCEPT ![i] = c], out' = [out EXCEPT ![i] = o],
           UNCHANGED <<status, mon>>, Starting' = Starting,
           \A s : Knows(i, s) => Knows(i, s)'
    PROVE  /\ OverIsDead' /\ StoppedIsOver' /\ Beside' /\ Room' /\ Reported'
           /\ child' \in [Instances -> Children] /\ out' \in [Instances -> Lines]
<1>1. child \in [Instances -> Children] /\ out \in [Instances -> Lines]
  BY DEF Inv, TypeOK, Children, Lines
<1>2. /\ child' \in [Instances -> Children] /\ out' \in [Instances -> Lines]
      /\ child'[i] = c /\ out'[i] = o
      /\ \A j \in Instances : j # i => child'[j] = child[j] /\ out'[j] = out[j]
  BY <1>1
<1>3. \A j \in Instances : j # i => Alive(j)' = Alive(j) /\ \A s : Knows(j, s)' = Knows(j, s)
  BY <1>2 DEF Alive, Knows
<1>4. OverIsDead'
  BY <1>3 DEF Inv, OverIsDead
<1>5. Active' = Active /\ \A m : Running(m)' = Running(m)
  BY DEF Active, Running
<1>6. Reported'
  BY <1>3, InstancesOfModels DEF Inv, Reported
<1> QED
  BY <1>2, <1>4, <1>5, <1>6 DEF Inv, StoppedIsOver, Beside, Room

ChildTo(i, c, o) ==
    /\ child' = [child EXCEPT ![i] = c] /\ out' = [out EXCEPT ![i] = o]
    /\ \A s : Knows(i, s) => Knows(i, s)'

(* A process that says what it does now                                      *)
LEMMA ChildSays ==
    ASSUME NEW i \in Instances, NEW o \in Lines, NEW c \in {"ready", "sleeping"},
           child'[i] = c,
           out'[i] = Append(o, IF c = "ready" THEN "loaded" ELSE "sleeping")
    PROVE  \A s : Knows(i, s)'
BY LastLine DEF Knows

ChildSteps(i) ==
    ChildReady(i) \/ ChildSleeps(i) \/ ChildObeys(i) \/ ChildCrashes(i) \/ ChildGone(i)

(* Whatever the process does, the router will know.                          *)
LEMMA ChildKeeps ==
    ASSUME Inv, NEW i \in Instances, ChildSteps(i)
    PROVE  Inv'
<1>1. /\ UNCHANGED <<status, stopping, holder, told, mon, stp, reqs, main, ops>>
      /\ turns' \in 0 .. MaxTurns
  BY RouterOK DEF ChildSteps, ChildReady, ChildSleeps, ChildObeys, ChildCrashes, ChildGone,
     router, Inv, TypeOK
<1>2. Alive(i)
  BY DEF ChildSteps, ChildReady, ChildSleeps, ChildObeys, ChildCrashes, ChildGone, Alive
<1>3. /\ child \in [Instances -> Children] /\ out \in [Instances -> Lines]
      /\ out = [out EXCEPT ![i] = out[i]]
  BY DEF Inv, TypeOK, Children, Lines
<1>4. Starting' = Starting
  BY <1>1 DEF Starting, reqs
<1>5. \E c \in Children, o \in Lines : ChildTo(i, c, o)
  <2>1. ASSUME NEW c \in {"ready", "sleeping"}, NEW x \in {"loaded", "sleeping"},
               x = IF c = "ready" THEN "loaded" ELSE "sleeping",
               child' = [child EXCEPT ![i] = c], out' = [out EXCEPT ![i] = Append(out[i], x)]
        PROVE  \E d \in Children, o \in Lines : ChildTo(i, d, o)
    <3>1. c \in Children /\ Append(out[i], x) \in Lines
      BY <1>3, LastLine DEF Children
    <3>2. \A s : Knows(i, s)'
      BY <1>3, <2>1, ChildSays
    <3> QED
      BY <2>1, <3>1, <3>2 DEF ChildTo
  <2>2. ASSUME NEW c \in {"closing", "dead"}, child' = [child EXCEPT ![i] = c], out' = out
        PROVE  \E d \in Children, o \in Lines : ChildTo(i, d, o)
    <3>1. c \in Children /\ out[i] \in Lines /\ out' = [out EXCEPT ![i] = out[i]]
      BY <1>3, <2>2 DEF Children
    <3>2. \A s : Knows(i, s)'
      BY <1>3, <2>2 DEF Knows
    <3> QED
      BY <2>2, <3>1, <3>2 DEF ChildTo
  <2>3. CASE ChildReady(i) \/ ChildSleeps(i)
    BY <2>1, <2>3 DEF ChildReady, ChildSleeps
  <2>4. CASE ChildObeys(i) \/ ChildCrashes(i) \/ ChildGone(i)
    BY <2>2, <2>4 DEF ChildObeys, ChildCrashes, ChildGone, Ended
  <2> QED
    BY <2>3, <2>4 DEF ChildSteps
<1>6. /\ OverIsDead' /\ StoppedIsOver' /\ Beside' /\ Room' /\ Reported'
      /\ child' \in [Instances -> Children] /\ out' \in [Instances -> Lines]
  BY <1>1, <1>2, <1>4, <1>5, ChildMoves DEF ChildTo
<1>7. TypeOK'
  BY <1>1, <1>6, ProcessTypes DEF Inv, TypeOK, Statuses, Stoppers, Monitors
<1>8. Stopped'
  BY <1>1 DEF Inv, Stopped, reqs
<1> QED
  BY <1>6, <1>7, <1>8 DEF Inv

(* A request wakes up a child that sleeps.                                   *)
LEMMA ForwardKeeps ==
    ASSUME Inv, NEW r \in Requesters, Forward(r)
    PROVE  Inv'
<1>1. /\ pc[r] = "forward" /\ Return(r)
      /\ UNCHANGED <<status, stopping, holder, told, mon, stp, main, ops, turns>>
      /\ port' = [port EXCEPT ![r] = None]
  BY DEF Forward, router
<1>2. /\ TypeOK
      /\ child \in [Instances -> Children] /\ out \in [Instances -> Lines]
      /\ port \in [Requesters -> Models \cup {None}]
  BY DEF Inv, TypeOK, Children, Lines
<1>3. Starting' = Starting
  <2>1. holder \in Requesters \cup {None} /\ holder # r
    BY <1>1, <1>2 DEF TypeOK
  <2>2. want' = [want EXCEPT ![r] = None] /\ want \in [Requesters -> Models \cup {None}]
    BY <1>1, <1>2, ReturnTypes DEF TypeOK
  <2> QED
    BY <1>1, <2>1, <2>2 DEF Starting
<1>4. /\ OverIsDead' /\ StoppedIsOver' /\ Beside' /\ Room' /\ Reported'
      /\ child' \in [Instances -> Children] /\ out' \in [Instances -> Lines]
  <2>1. CASE port[r] # None /\ child[Current(port[r])] = "sleeping"
    <3>1. PICK i \in Instances : i = Current(port[r])
      BY <1>2, <2>1, InstancesOfModels
    <3>2. /\ Alive(i) /\ child' = [child EXCEPT ![i] = "ready"]
          /\ out' = [out EXCEPT ![i] = Append(out[i], "loaded")]
      BY <2>1, <3>1 DEF Forward, Alive
    <3>3. Append(out[i], "loaded") \in Lines /\ \A s : Knows(i, s)'
      BY <1>2, <3>2, LastLine, ChildSays
    <3> QED
      BY <1>1, <1>3, <3>2, <3>3, ChildMoves DEF Children
  <2>2. CASE ~(port[r] # None /\ child[Current(port[r])] = "sleeping")
    <3>1. UNCHANGED <<child, out>>
      BY <2>2 DEF Forward
    <3> QED
      BY <1>1, <1>2, <1>3, <3>1, NothingMoves DEF Inv
  <2> QED
    BY <2>1, <2>2
<1>5. TypeOK'
  <2>1. /\ pc' = [pc EXCEPT ![r] = "idle"] /\ want' = [want EXCEPT ![r] = None]
        /\ auto' \in [Requesters -> BOOLEAN]
        /\ victim' \in [Requesters -> Models \cup {None}]
    BY <1>1, <1>2, ReturnTypes
  <2>2. /\ "idle" \in Places \ {"join"} /\ pc[r] # "join"
        /\ port' \in [Requesters -> Models \cup {None}]
    BY <1>1, <1>2 DEF Places
  <2>3. /\ stopping' \subseteq Models /\ stp' \in [Instances -> Stoppers]
        /\ ops' \in 0 .. MaxOps
    BY <1>1, <1>2 DEF TypeOK, Stoppers
  <2> QED
    BY <1>1, <1>2, <1>4, <2>1, <2>2, <2>3, RequestTypes
<1>6. Stopped'
  BY <1>1 DEF Inv, Stopped
<1> QED
  BY <1>4, <1>5, <1>6 DEF Inv

-----------------------------------------------------------------------------
(* The threads of an instance                                                *)

(* A monitor goes on, without a report of the status.                        *)
LEMMA MonitorMoves ==
    ASSUME Inv, NEW i \in Instances, NEW l \in Monitors \ {"none", "log"},
           mon' = [mon EXCEPT ![i] = l],
           UNCHANGED <<child, out, told, holder, main, ops, turns>>, UNCHANGED reqs,
           stopping' \subseteq Models, stp' \in [Instances -> Stoppers],
           status' \in [Models -> Statuses],
           \A m \in Models : m # i[1] => status'[m] = status[m],
           mon[i] # "none", l \in Over => ~Alive(i),
           mon[i] # "done", mon[i] = "ending" => l = "done",
           Active' \subseteq Active,
           ~Running(i[1])' => i = Fresh(i[1]) \/ l \in Over,
           i = Fresh(i[1]) => l = "erase" /\ status' = status
    PROVE  Inv'
<1>1. /\ TypeOK /\ mon \in [Instances -> Monitors]
      /\ i[1] \in Models /\ (i = Current(i[1]) \/ i = Fresh(i[1]))
      /\ mon'[i] = l /\ \A j \in Instances : j # i => mon'[j] = mon[j]
  BY InstancesOfModels DEF Inv, TypeOK, Monitors
<1>2. TypeOK'
  BY <1>1, ProcessTypes, InstancesOfModels DEF TypeOK, Children, Lines
<1>3. Starting' = Starting
  BY DEF Starting, reqs
<1>4. \A j : Alive(j)' = Alive(j) /\ \A s : Knows(j, s)' = Knows(j, s)
  BY DEF Alive, Knows
<1>5. OverIsDead'
  BY <1>1, <1>4 DEF Inv, OverIsDead
<1>6. \A m \in Models : m # i[1] => Running(m)' = Running(m)
  BY DEF Running
<1>7. StoppedIsOver'
  <2> SUFFICES ASSUME NEW m \in Models, ~Running(m)' PROVE mon'[Current(m)] \in Over
    BY DEF StoppedIsOver
  <2>1. CASE i = Current(m)
    BY <1>1, <2>1, InstancesOfModels
  <2>2. CASE i = Fresh(m)
    <3>1. ~Running(m) /\ mon'[Current(m)] = mon[Current(m)]
      BY <1>1, <2>2, InstancesOfModels DEF Running
    <3> QED
      BY <3>1 DEF Inv, StoppedIsOver
  <2>3. CASE m # i[1]
    BY <1>1, <1>6, <2>3, InstancesOfModels DEF Inv, StoppedIsOver
  <2> QED
    BY <1>1, <2>1, <2>2, <2>3
<1>8. Beside'
  <2> SUFFICES ASSUME NEW m \in Starting
               PROVE  ~Running(m)' /\ mon'[Fresh(m)] \in {"log", "erase"}
    BY <1>3 DEF Beside
  <2>1. m \in Models /\ ~Running(m) /\ mon[Fresh(m)] \in {"log", "erase"}
    BY <1>1, HolderIsLoading DEF Inv, Beside
  <2>2. ~Running(m)'
    BY <2>1 DEF Active
  <2>3. CASE i = Fresh(m)
    BY <1>1, <2>1, <2>2, <2>3, InstancesOfModels
  <2>4. CASE i # Fresh(m)
    BY <1>1, <2>1, <2>2, <2>4, InstancesOfModels
  <2> QED
    BY <2>3, <2>4
<1>9. Room'
  <2>1. IsFiniteSet(Active \cup Starting) /\ Active' \cup Starting \subseteq Active \cup Starting
    <3>1. Active \cup Starting \subseteq Models
      BY <1>1, HolderIsLoading DEF Active
    <3> QED
      BY <3>1, FS_Subset, RouterOK
  <2>2. Cardinality(Active' \cup Starting) <= Cardinality(Active \cup Starting)
    BY <2>1, FS_Subset
  <2>3. Cardinality(Active' \cup Starting) \in Nat /\ Cardinality(Active \cup Starting) \in Nat
    BY <2>1, FS_Subset, FS_CardinalityType
  <2> QED
    BY <1>3, <2>2, <2>3, RouterOK DEF Inv, Room
<1>10. Reported'
  <2>1. \A j \in Instances : mon'[j] = "log" => j # i /\ mon[j] = "log"
    BY <1>1
  <2>2. ASSUME NEW m \in Models, mon'[Current(m)] = "log" PROVE Knows(Current(m), status[m])'
    <3>1. mon[Current(m)] = "log" /\ Current(m) # i
      BY <2>1, <2>2, InstancesOfModels
    <3>2. status'[m] = status[m]
      BY <1>1, <3>1
    <3> QED
      BY <1>4, <3>1, <3>2 DEF Inv, Reported, Knows
  <2>3. ASSUME NEW m \in Models, mon'[Fresh(m)] = "log" PROVE Knows(Fresh(m), "loading")'
    BY <1>4, <2>1, <2>3, InstancesOfModels DEF Inv, Reported
  <2> QED
    BY <2>2, <2>3 DEF Reported
<1>11. Stopped'
  BY <1>1, InstancesOfModels DEF Inv, Stopped, reqs
<1> QED
  BY <1>2, <1>5, <1>7, <1>8, <1>9, <1>10, <1>11 DEF Inv

(* The log thread reports a line: the instance is in `mapping' then, and     *)
(* its model runs.                                                           *)
LEMMA LogLineKeeps ==
    ASSUME Inv, NEW i \in Instances, LogLine(i)
    PROVE  Inv'
<1>1. /\ mon[i] = "log" /\ out[i] # <<>> /\ Unlocked
      /\ status' = [status EXCEPT ![i[1]] = Head(out[i])]
      /\ out' = [out EXCEPT ![i] = Tail(out[i])]
      /\ UNCHANGED <<stopping, holder, child, told, mon, stp, main, ops, turns>>
      /\ UNCHANGED reqs
  BY DEF LogLine, CanReport, UpdateStatus
<1>2. /\ TypeOK /\ out \in [Instances -> Lines] /\ status \in [Models -> Statuses]
      /\ child \in [Instances -> Children]
  BY DEF Inv, TypeOK, Lines, Statuses, Children
<1>3. PICK m \in Models : i = Current(m) /\ i[1] = m
  BY <1>1, <1>2, InstancesOfModels, HolderIsLoading
<1>4. Running(m)
  BY <1>1, <1>3 DEF Inv, StoppedIsOver, Over
<1>5. /\ Head(out[i]) \in {"loaded", "sleeping"} /\ Tail(out[i]) \in Lines
      /\ Tail(out[i]) = <<>> => Head(out[i]) = out[i][Len(out[i])]
      /\ Tail(out[i]) # <<>> => Tail(out[i])[Len(Tail(out[i]))] = out[i][Len(out[i])]
  BY <1>1, <1>2, FirstLine
<1>6. /\ status' \in [Models -> Statuses] /\ status'[m] = Head(out[i])
      /\ \A n \in Models : n # m => status'[n] = status[n]
      /\ out' \in [Instances -> Lines] /\ out'[i] = Tail(out[i])
      /\ \A j \in Instances : j # i => out'[j] = out[j]
  BY <1>1, <1>2, <1>3, <1>5 DEF Statuses
<1>7. TypeOK'
  BY <1>1, <1>2, <1>6, ProcessTypes DEF TypeOK, Stoppers, Monitors, Children
<1>8. (\A n \in Models : Running(n)' = Running(n)) /\ Active' = Active
  <2>1. \A n \in Models : Running(n)' = Running(n)
    BY <1>4, <1>5, <1>6 DEF Running
  <2> QED
    BY <2>1 DEF Active
<1>9. Starting' = Starting /\ Starting = {} /\ \A j : Alive(j)' = Alive(j)
  BY <1>1, <1>2, HolderIsLoading DEF Starting, Alive, reqs
<1>10. OverIsDead' /\ StoppedIsOver' /\ Beside' /\ Room'
  BY <1>1, <1>8, <1>9 DEF Inv, OverIsDead, StoppedIsOver, Beside, Room
<1>11. Reported'
  <2>1. ASSUME NEW n \in Models, mon'[Fresh(n)] = "log" PROVE FALSE
    BY <1>1, <1>2, <2>1, HolderIsLoading
  <2>2. ASSUME NEW n \in Models, n # m, mon'[Current(n)] = "log"
        PROVE  Knows(Current(n), status[n])'
    <3>1. Current(n) # i /\ Current(n) \in Instances /\ Knows(Current(n), status[n])
      BY <1>1, <1>3, <2>2, InstancesOfModels DEF Inv, Reported
    <3> QED
      BY <1>1, <1>6, <2>2, <3>1 DEF Knows
  <2>3. Knows(i, status[m])'
    <3>1. Knows(i, status[m])
      BY <1>1, <1>3 DEF Inv, Reported
    <3> QED
      BY <1>1, <1>5, <1>6, <3>1 DEF Knows
  <2> QED
    BY <1>3, <2>1, <2>2, <2>3 DEF Reported
<1>12. Stopped'
  BY <1>1 DEF Inv, Stopped, reqs
<1> QED
  BY <1>7, <1>10, <1>11, <1>12 DEF Inv

(* The monitor goes on; it sets `unloaded' when the process is dead.         *)
LEMMA MonitorKeeps ==
    ASSUME Inv, NEW i \in Instances, Monitor(i)
    PROVE  Inv'
<1>1. /\ TypeOK /\ status \in [Models -> Statuses] /\ stp \in [Instances -> Stoppers]
      /\ stopping \subseteq Models /\ mon \in [Instances -> Monitors]
      /\ i[1] \in Models /\ (i = Current(i[1]) \/ i = Fresh(i[1]))
  BY InstancesOfModels DEF Inv, TypeOK, Statuses, Stoppers, Monitors
<1>2. i = Fresh(i[1]) /\ mon[i] # "none" => ~Unlocked /\ mon[i] \in {"log", "erase"}
  BY <1>1, HolderIsLoading DEF Inv, Beside
<1>3. ~Running(i[1]) => i # Current(i[1]) \/ mon[i] \in Over
  BY <1>1 DEF Inv, StoppedIsOver
<1>4. mon[i] \in Over => ~Alive(i)
  BY DEF Inv, OverIsDead
<1>5. Notified \in [Instances -> Stoppers]
  BY <1>1 DEF Notified, Stoppers
<1>6. CASE LogEof(i)
  <2>1. /\ mon[i] = "log" /\ mon' = [mon EXCEPT ![i] = "erase"]
        /\ UNCHANGED <<status, stopping, holder, child, out, told, stp, main, ops, turns>>
        /\ UNCHANGED reqs
    BY <1>6 DEF LogEof, router, procs
  <2>2. "erase" \in Monitors \ {"none", "log"} /\ "erase" \notin Over
    BY DEF Monitors, Over
  <2>3. Active' = Active /\ Running(i[1])' = Running(i[1])
    BY <2>1 DEF Active, Running
  <2>4. ~Running(i[1])' => i = Fresh(i[1])
    BY <1>1, <1>3, <2>1, <2>3 DEF Over
  <2> QED
    BY <1>1, <2>1, <2>2, <2>3, <2>4, MonitorMoves
<1>7. CASE EraseStop(i)
  <2>1. /\ mon[i] = "erase" /\ Unlocked /\ mon' = [mon EXCEPT ![i] = "join"]
        /\ stopping' = stopping \ {i[1]} /\ stp' = Notified
        /\ UNCHANGED <<status, holder, child, out, told, main, ops, turns>>
        /\ UNCHANGED reqs
    BY <1>7 DEF EraseStop, procs
  <2>2. "join" \in Monitors \ {"none", "log"} /\ "join" \notin Over
    BY DEF Monitors, Over
  <2>3. Active' = Active /\ Running(i[1])' = Running(i[1])
    BY <2>1 DEF Active, Running
  <2>4. Running(i[1]) /\ i # Fresh(i[1])
    BY <1>1, <1>2, <1>3, <2>1 DEF Over
  <2>5. stopping' \subseteq Models /\ stp' \in [Instances -> Stoppers]
    BY <1>1, <1>5, <2>1
  <2> QED
    BY <1>1, <2>1, <2>2, <2>3, <2>4, <2>5, MonitorMoves
<1>8. CASE SetUnloaded(i)
  <2>1. /\ mon[i] = "join" /\ child[i] = "dead" /\ Unlocked
        /\ mon' = [mon EXCEPT ![i] = "ending"]
        /\ status' = [status EXCEPT ![i[1]] = "unloaded"]
        /\ UNCHANGED <<stopping, holder, child, out, told, stp, main, ops, turns>>
        /\ UNCHANGED reqs
    BY <1>8 DEF SetUnloaded, ReapReady, UpdateStatus, procs
  <2>2. /\ "ending" \in Monitors \ {"none", "log"} /\ "ending" \in Over
    BY DEF Monitors, Over
  <2>3. Active' \subseteq Active
    BY <1>1, <2>1 DEF Active, Running
  <2>4. i = Current(i[1]) /\ i # Fresh(i[1]) /\ ~Alive(i)
    BY <1>1, <1>2, <2>1 DEF Alive
  <2>5. /\ status' \in [Models -> Statuses]
        /\ \A m \in Models : m # i[1] => status'[m] = status[m]
    BY <1>1, <2>1 DEF Statuses
  <2> QED
    BY <1>1, <2>1, <2>2, <2>3, <2>4, <2>5, MonitorMoves
<1>9. CASE MonitorEnds(i)
  <2>1. /\ mon[i] = "ending" /\ mon' = [mon EXCEPT ![i] = "done"]
        /\ UNCHANGED <<status, stopping, holder, child, out, told, stp, main, ops, turns>>
        /\ UNCHANGED reqs
    BY <1>9 DEF MonitorEnds, router, procs
  <2>2. "done" \in Monitors \ {"none", "log"} /\ "done" \in Over
    BY DEF Monitors, Over
  <2>3. Active' = Active
    BY <2>1 DEF Active, Running
  <2>4. i = Current(i[1]) /\ i # Fresh(i[1]) /\ ~Alive(i)
    BY <1>1, <1>2, <1>4, <2>1 DEF Over
  <2> QED
    BY <1>1, <2>1, <2>2, <2>3, <2>4, MonitorMoves
<1> QED
  BY <1>6, <1>7, <1>8, <1>9, LogLineKeeps DEF Monitor

(* The stopping thread may kill the process.                                 *)
LEMMA StopperKeeps ==
    ASSUME Inv, NEW i \in Instances, Stopper(i)
    PROVE  Inv'
<1>1. /\ TypeOK /\ stp \in [Instances -> Stoppers] /\ told \in [Instances -> BOOLEAN]
      /\ child \in [Instances -> Children] /\ out \in [Instances -> Lines]
  BY DEF Inv, TypeOK, Stoppers, Children, Lines
<1>2. /\ UNCHANGED <<status, stopping, holder, out, mon, main, ops, turns>> /\ UNCHANGED reqs
      /\ stp' \in [Instances -> Stoppers] /\ told' \in [Instances -> BOOLEAN]
      /\ child' = child \/ (Alive(i) /\ child' = [child EXCEPT ![i] = "closing"])
  <2> USE DEF Stoppers, router, procs
  <2>1. CASE StopperWait(i)
    BY <1>1, <2>1 DEF StopperWait
  <2>2. CASE StopperTells(i)
    <3>1. Alive(i) \in BOOLEAN
      BY DEF Alive
    <3> QED
      BY <1>1, <2>2, <3>1 DEF StopperTells
  <2>3. CASE StopperLeaves(i)
    BY <1>1, <2>3 DEF StopperLeaves, Ended, Alive
  <2> QED
    BY <2>1, <2>2, <2>3 DEF Stopper
<1>3. Starting' = Starting
  BY <1>2 DEF Starting, reqs
<1>4. /\ OverIsDead' /\ StoppedIsOver' /\ Beside' /\ Room' /\ Reported'
      /\ child' \in [Instances -> Children] /\ out' \in [Instances -> Lines]
  <2>1. CASE child' = child
    BY <1>1, <1>2, <1>3, <2>1, NothingMoves DEF Inv
  <2>2. CASE Alive(i) /\ child' = [child EXCEPT ![i] = "closing"]
    <3>1. "closing" \in Children /\ out[i] \in Lines /\ out' = [out EXCEPT ![i] = out[i]]
      BY <1>1, <1>2 DEF Children
    <3>2. \A s : Knows(i, s) => Knows(i, s)'
      BY <1>1, <2>2 DEF Knows
    <3> QED
      BY <1>2, <1>3, <2>2, <3>1, <3>2, ChildMoves
  <2> QED
    BY <1>2, <2>1, <2>2
<1>5. TypeOK'
  BY <1>1, <1>2, <1>4, ProcessTypes DEF TypeOK, Statuses, Monitors
<1>6. Stopped'
  BY <1>2 DEF Inv, Stopped, reqs
<1> QED
  BY <1>4, <1>5, <1>6 DEF Inv

-----------------------------------------------------------------------------
(* load()                                                                    *)

(* What the router knows of an instance it knows of a model.                 *)
LEMMA KnowsStatus ==
    ASSUME NEW i, NEW n, NEW s, Knows(i, s)', status'[n] = s
    PROVE  Knows(i, status[n])'
BY DEF Knows

(* load() starts a process: it has room, and the old process is gone.        *)
LEMMA SpawnKeeps ==
    ASSUME Inv, NEW r \in Requesters, LoadSpawn(r)
    PROVE  Inv'
<1>1. PICK m : m = want[r]
  OBVIOUS
<1>2. /\ pc[r] = "load" /\ Unlocked /\ ~Running(m) /\ HasRoom /\ holder' = r
      /\ child' = [child EXCEPT ![Fresh(m)] = "loading",
                                ![Current(m)] = IF Alive(Current(m)) THEN "closing" ELSE @]
      /\ out' = [out EXCEPT ![Fresh(m)] = <<>>]
      /\ told' = [told EXCEPT ![Fresh(m)] = FALSE]
      /\ mon' = [mon EXCEPT ![Fresh(m)] = "log"]
      /\ stp' = [stp EXCEPT ![Fresh(m)] = "start"]
      /\ pc' = [pc EXCEPT ![r] = "join"]
      /\ UNCHANGED <<status, stopping, want, auto, victim, port, main, ops, turns>>
  BY <1>1 DEF LoadSpawn, Goto, router
<1>3. /\ TypeOK /\ child \in [Instances -> Children] /\ out \in [Instances -> Lines]
      /\ told \in [Instances -> BOOLEAN] /\ mon \in [Instances -> Monitors]
      /\ stp \in [Instances -> Stoppers] /\ pc \in [Requesters -> Places]
  BY DEF Inv, TypeOK, Children, Lines, Monitors, Stoppers, Places
<1>4. m \in Models /\ r # None /\ r \in Requesters
  BY <1>1, <1>2, <1>3, RouterOK DEF TypeOK
<1>5. /\ Fresh(m) \in Instances /\ Current(m) \in Instances /\ Fresh(m) # Current(m)
      /\ \A n \in Models : /\ Current(n) \in Instances /\ Fresh(n) \in Instances
                           /\ Current(n) # Fresh(m) /\ (Fresh(n) = Fresh(m) => n = m)
  BY <1>4, InstancesOfModels
<1>6. ~Alive(Current(m))
  BY <1>2, <1>4, <1>5 DEF Inv, StoppedIsOver, OverIsDead
<1>7. /\ Starting = {} /\ \A n \in Models : mon[Fresh(n)] = "none"
      /\ \A q \in Requesters : pc[q] # "join"
  BY <1>2, <1>3, HolderIsLoading
<1>8. Starting' = {m}
  BY <1>1, <1>2, <1>4 DEF Starting
<1>9. /\ child' \in [Instances -> Children] /\ child'[Fresh(m)] = "loading"
      /\ \A i \in Instances : i # Fresh(m) => child'[i] = child[i]
  BY <1>2, <1>3, <1>5, <1>6 DEF Children
<1>10. /\ out' \in [Instances -> Lines] /\ out'[Fresh(m)] = <<>>
       /\ \A i \in Instances : i # Fresh(m) => out'[i] = out[i]
  BY <1>2, <1>3, <1>5 DEF Lines
<1>11. /\ mon' \in [Instances -> Monitors] /\ mon'[Fresh(m)] = "log"
       /\ \A i \in Instances : i # Fresh(m) => mon'[i] = mon[i]
  BY <1>2, <1>3, <1>5 DEF Monitors
<1>12. TypeOK'
  <2>1. /\ told' \in [Instances -> BOOLEAN] /\ stp' \in [Instances -> Stoppers]
        /\ pc' \in [Requesters -> Places] /\ pc'[r] = "join"
        /\ \A q \in Requesters : q # r => pc'[q] = pc[q]
    BY <1>2, <1>3, <1>5 DEF Stoppers, Places
  <2>2. \A q \in Requesters : /\ pc'[q] = "idle" <=> want[q] = None
                              /\ pc'[q] = "join" <=> r = q
    BY <1>2, <1>3, <1>7, <2>1 DEF TypeOK
  <2>3. \A n \in Models : mon'[Fresh(n)] # "none" => r # None /\ want[r] = n
    BY <1>1, <1>4, <1>5, <1>7, <1>11
  <2> QED
    BY <1>2, <1>3, <1>9, <1>10, <1>11, <2>1, <2>2, <2>3
       DEF TypeOK, Children, Lines, Monitors, Stoppers, Places
<1>13. \A i \in Instances : i # Fresh(m) =>
         Alive(i)' = Alive(i) /\ \A s : Knows(i, s)' = Knows(i, s)
  BY <1>9, <1>10 DEF Alive, Knows
<1>14. OverIsDead' /\ StoppedIsOver' /\ Beside'
  BY <1>2, <1>4, <1>5, <1>8, <1>11, <1>13
     DEF Inv, OverIsDead, StoppedIsOver, Beside, Running, Over
<1>15. Room'
  <2>1. Active' = Active /\ Active \subseteq Models /\ m \notin Active
    BY <1>2 DEF Active, Running
  <2>2. IsFiniteSet(Active) /\ Cardinality(Active) \in Nat
    BY <2>1, FS_Subset, FS_CardinalityType, RouterOK
  <2>3. Cardinality(Active \cup {m}) = Cardinality(Active) + 1
    BY <2>1, <2>2, FS_AddElement
  <2> QED
    BY <1>2, <1>8, <2>1, <2>2, <2>3, RouterOK DEF Room, HasRoom
<1>16. Reported'
  <2>1. Knows(Fresh(m), "loading")'
    BY <1>9, <1>10 DEF Knows
  <2>2. \A n \in Models : mon'[Current(n)] = "log" => Knows(Current(n), status[n])'
    BY <1>2, <1>5, <1>11, <1>13, KnowsStatus DEF Inv, Reported
  <2>3. \A n \in Models : mon'[Fresh(n)] = "log" => n = m
    BY <1>5, <1>7, <1>11
  <2> QED
    BY <2>1, <2>2, <2>3 DEF Reported
<1>17. Stopped'
  BY <1>2, <1>3, <1>5, <1>11 DEF Inv, Stopped
<1> QED
  BY <1>12, <1>14, <1>15, <1>16, <1>17 DEF Inv

(* load() moves the new instance into `mapping'.                             *)
LEMMA JoinKeeps ==
    ASSUME Inv, NEW r \in Requesters, LoadJoin(r)
    PROVE  Inv'
<1>1. PICK m : m = want[r]
  OBVIOUS
<1>2. /\ pc[r] = "join" /\ mon[Current(m)] \in {"none", "done"} /\ holder' = None
      /\ mon' = Moved(mon, m, "none") /\ stp' = Moved(stp, m, "none")
      /\ child' = Moved(child, m, "none") /\ out' = Moved(out, m, <<>>)
      /\ told' = Moved(told, m, FALSE)
      /\ port' = [q \in Requesters |-> IF port[q] = m THEN None ELSE port[q]]
      /\ status' = [status EXCEPT ![m] = "loading"]
      /\ \/ pc' = [pc EXCEPT ![r] = "wait"] /\ UNCHANGED <<want, auto, victim>>
         \/ Return(r)
      /\ UNCHANGED <<stopping, main, ops, turns>>
  BY <1>1 DEF LoadJoin, Goto
<1>3. /\ TypeOK /\ child \in [Instances -> Children] /\ out \in [Instances -> Lines]
      /\ told \in [Instances -> BOOLEAN] /\ mon \in [Instances -> Monitors]
      /\ stp \in [Instances -> Stoppers] /\ pc \in [Requesters -> Places]
      /\ status \in [Models -> Statuses]
      /\ want \in [Requesters -> Models \cup {None}]
      /\ port \in [Requesters -> Models \cup {None}]
      /\ auto \in [Requesters -> BOOLEAN] /\ victim \in [Requesters -> Models \cup {None}]
  BY DEF Inv, TypeOK, Children, Lines, Monitors, Stoppers, Places, Statuses
<1>4. m \in Models /\ holder = r /\ Starting = {m}
  BY <1>1, <1>2, <1>3, HolderIsLoading
<1>5. /\ Fresh(m) \in Instances /\ Current(m) \in Instances /\ Fresh(m) # Current(m)
      /\ \A n \in Models :
           /\ Current(n) \in Instances /\ Fresh(n) \in Instances
           /\ Current(n) # Fresh(m) /\ Fresh(n) # Current(m)
           /\ n # m => Fresh(n) # Fresh(m) /\ Current(n) # Current(m)
  BY <1>4, InstancesOfModels
<1>6. ~Running(m) /\ mon[Fresh(m)] \in {"log", "erase"}
  BY <1>4 DEF Inv, Beside
<1>7. /\ mon' \in [Instances -> Monitors]
      /\ mon'[Current(m)] = mon[Fresh(m)] /\ mon'[Fresh(m)] = "none"
      /\ \A i \in Instances \ {Current(m), Fresh(m)} : mon'[i] = mon[i]
  BY <1>2, <1>3, <1>5 DEF Moved, Monitors
<1>8. /\ child' \in [Instances -> Children]
      /\ child'[Current(m)] = child[Fresh(m)] /\ child'[Fresh(m)] = "none"
      /\ \A i \in Instances \ {Current(m), Fresh(m)} : child'[i] = child[i]
  BY <1>2, <1>3, <1>5 DEF Moved, Children
<1>9. /\ out' \in [Instances -> Lines]
       /\ out'[Current(m)] = out[Fresh(m)] /\ out'[Fresh(m)] = <<>>
       /\ \A i \in Instances \ {Current(m), Fresh(m)} : out'[i] = out[i]
  <2>1. <<>> \in Lines
    BY DEF Lines
  <2> QED
    BY <1>2, <1>3, <1>5, <2>1 DEF Moved
<1>10. /\ told' \in [Instances -> BOOLEAN] /\ stp' \in [Instances -> Stoppers]
  BY <1>2, <1>3, <1>5 DEF Moved, Stoppers
<1>11. /\ status' \in [Models -> Statuses] /\ status'[m] = "loading"
       /\ \A n \in Models : n # m => status'[n] = status[n]
  BY <1>2, <1>3, <1>4 DEF Statuses
<1>12. \A n \in Models : mon'[Fresh(n)] = "none"
  <2>1. \A n \in Models : n # m => mon[Fresh(n)] = "none"
    BY <1>3, <1>4, HolderIsLoading
  <2> QED
    BY <1>5, <1>7, <2>1
<1>13. TypeOK'
  <2>1. PICK l \in {"wait", "idle"}, n \in Models \cup {None} :
          /\ pc' = [pc EXCEPT ![r] = l] /\ want' = [want EXCEPT ![r] = n]
          /\ l = "idle" <=> n = None
    <3>1. CASE Return(r)
      BY <1>3, <3>1, ReturnTypes
    <3>2. CASE pc' = [pc EXCEPT ![r] = "wait"] /\ want' = want
      <4>1. want' = [want EXCEPT ![r] = m] /\ m # None
        BY <1>1, <1>3, <1>4, <3>2, RouterOK
      <4> QED
        BY <1>4, <3>2, <4>1
    <3> QED
      BY <1>2, <3>1, <3>2
  <2>2. /\ pc' \in [Requesters -> Places] /\ want' \in [Requesters -> Models \cup {None}]
    BY <1>3, <2>1 DEF Places
  <2>3. \A q \in Requesters : /\ pc'[q] = "idle" <=> want'[q] = None
                              /\ pc'[q] = "join" <=> None = q
    BY <1>3, <1>4, <2>1, RouterOK DEF TypeOK
  <2>4. auto' \in [Requesters -> BOOLEAN] /\ victim' \in [Requesters -> Models \cup {None}]
    BY <1>2, <1>3, ReturnTypes
  <2>5. port' \in [Requesters -> Models \cup {None}]
    BY <1>2, <1>3
  <2>6. /\ holder' = None /\ stopping' \subseteq Models
        /\ main' \in {"serving", "joining", "exited"}
        /\ ops' \in 0 .. MaxOps /\ turns' \in 0 .. MaxTurns
    BY <1>2, <1>3 DEF TypeOK
  <2> QED
    BY <1>7, <1>8, <1>9, <1>10, <1>11, <1>12, <2>2, <2>3, <2>4, <2>5, <2>6
       DEF TypeOK, Children, Lines, Monitors, Stoppers, Places, Statuses
<1>14. /\ Alive(Current(m))' = Alive(Fresh(m)) /\ ~Alive(Fresh(m))'
       /\ \A s : Knows(Current(m), s)' = Knows(Fresh(m), s)
       /\ \A i \in Instances \ {Current(m), Fresh(m)} :
            Alive(i)' = Alive(i) /\ \A s : Knows(i, s)' = Knows(i, s)
  BY <1>8, <1>9 DEF Alive, Knows
<1>15. OverIsDead'
  BY <1>5, <1>7, <1>14 DEF Inv, OverIsDead
<1>16. (\A n \in Models : n # m => Running(n)' = Running(n)) /\ Running(m)'
  BY <1>11 DEF Running
<1>17. StoppedIsOver'
  BY <1>4, <1>5, <1>7, <1>16 DEF Inv, StoppedIsOver
<1>18. Starting' = {} /\ Active' = Active \cup {m}
  BY <1>2, <1>4, <1>16 DEF Starting, Active
<1>19. Beside' /\ Room'
  BY <1>4, <1>18 DEF Inv, Beside, Room
<1>20. Reported'
  <2>1. mon'[Current(m)] = "log" => Knows(Current(m), status[m])'
    BY <1>4, <1>7, <1>11, <1>14, KnowsStatus DEF Inv, Reported
  <2>2. \A n \in Models : n # m /\ mon'[Current(n)] = "log" => Knows(Current(n), status[n])'
    BY <1>5, <1>7, <1>11, <1>14, KnowsStatus DEF Inv, Reported
  <2> QED
    BY <1>12, <2>1, <2>2 DEF Reported
<1>21. Stopped'
  BY <1>2, <1>3 DEF Inv, Stopped
<1> QED
  BY <1>13, <1>15, <1>17, <1>19, <1>20, <1>21 DEF Inv

-----------------------------------------------------------------------------
(* The main thread, and the invariant                                        *)

(* unload_all() stops the models and joins their monitors.                   *)
LEMMA MainKeeps ==
    ASSUME Inv, UnloadAll \/ JoinAll
    PROVE  Inv'
<1>1. UNCHANGED <<status, holder, child, out, told, mon, turns, ops>> /\ UNCHANGED reqs
  BY DEF UnloadAll, JoinAll, router, procs
<1>2. Starting' = Starting
  BY <1>1 DEF Starting, reqs
<1>3. OverIsDead' /\ StoppedIsOver' /\ Beside' /\ Room' /\ Reported'
  BY <1>1, <1>2, NothingMoves DEF Inv
<1>4. TypeOK'
  <2>1. TypeOK
    BY DEF Inv
  <2>2. Notified \in [Instances -> Stoppers]
    BY <2>1 DEF Notified, Stoppers, TypeOK
  <2>3. stopping' \subseteq Models /\ stp' \in [Instances -> Stoppers]
    BY <2>1, <2>2 DEF UnloadAll, JoinAll, ToStop, Active, router, TypeOK, Stoppers
  <2>4. main' \in {"serving", "joining", "exited"}
    BY DEF UnloadAll, JoinAll
  <2> QED
    BY <1>1, <2>1, <2>3, <2>4 DEF TypeOK, reqs, Stoppers
<1>5. Stopped'
  BY <1>1 DEF Inv, Stopped, UnloadAll, JoinAll, ToJoin, reqs
<1> QED
  BY <1>3, <1>4, <1>5 DEF Inv

(* The invariant holds after the start-up, ...                               *)
LEMMA InitInv == Init => Inv
<1> SUFFICES ASSUME Init PROVE Inv
  OBVIOUS
<1> DEFINE Loaded == {Current(m) : m \in Preloaded}
<1>1. /\ \A m \in Models : Current(m) \in Loaded <=> m \in Preloaded
      /\ \A m \in Models : Fresh(m) \notin Loaded
  BY InstancesOfModels, RouterOK
<1>2. /\ child = [i \in Instances |-> IF i \in Loaded THEN "ready" ELSE "none"]
      /\ mon = [i \in Instances |-> IF i \in Loaded THEN "log" ELSE "none"]
      /\ stp = [i \in Instances |-> IF i \in Loaded THEN "waiting" ELSE "none"]
      /\ out = [i \in Instances |-> <<>>]
      /\ status = [m \in Models |-> IF m \in Preloaded THEN "loaded" ELSE "unloaded"]
  BY DEF Init, AtStart
<1> HIDE DEF Loaded
<1>3. /\ child \in [Instances -> Children] /\ mon \in [Instances -> Monitors]
      /\ stp \in [Instances -> Stoppers] /\ out \in [Instances -> Lines]
      /\ status \in [Models -> Statuses]
  BY <1>2 DEF Children, Monitors, Stoppers, Lines, Statuses
<1>4. \A m \in Models : mon[Fresh(m)] = "none"
  BY <1>1, <1>2, InstancesOfModels
<1>5. TypeOK
  <2>1. ops \in 0 .. MaxOps /\ turns \in 0 .. MaxTurns
    BY RouterOK DEF Init
  <2> QED
    BY <1>3, <1>4, <2>1, RouterOK
       DEF Init, TypeOK, Children, Monitors, Stoppers, Lines, Statuses
<1>6. OverIsDead
  BY <1>2 DEF OverIsDead, Over, Alive
<1>7. StoppedIsOver
  BY <1>1, <1>2, InstancesOfModels DEF StoppedIsOver, Over, Running
<1>8. Starting = {} /\ Active = Preloaded
  BY <1>2, RouterOK DEF Init, Starting, Active, Running
<1>9. Beside /\ Room
  BY <1>8, RouterOK DEF Beside, Room
<1>10. Reported
  BY <1>1, <1>2, <1>4, InstancesOfModels DEF Reported, Knows
<1>11. Stopped
  BY DEF Init, Stopped
<1> QED
  BY <1>5, <1>6, <1>7, <1>9, <1>10, <1>11 DEF Inv

(* ... every step keeps it, ...                                              *)
LEMMA NextInv == Inv /\ [Next]_vars => Inv'
<1> SUFFICES ASSUME Inv, [Next]_vars PROVE Inv'
  OBVIOUS
<1>1. CASE \E r \in Requesters, m \in Models :
             Ensure(r, m) \/ Direct(r, m) \/ PostLoad(r, m) \/ PostUnload(r, m)
  BY <1>1, QuietKeeps DEF QuietSteps
<1>2. CASE \E r \in Requesters : RequestSteps(r)
  BY <1>2, QuietKeeps, ForwardKeeps, SpawnKeeps, JoinKeeps DEF QuietSteps, RequestSteps
<1>3. CASE \E i \in Instances :
             \/ ChildReady(i) \/ ChildSleeps(i) \/ ChildObeys(i)
             \/ ChildCrashes(i) \/ ChildGone(i)
             \/ Monitor(i) \/ Stopper(i)
  BY <1>3, ChildKeeps, MonitorKeeps, StopperKeeps DEF ChildSteps
<1>4. CASE UnloadAll \/ JoinAll
  BY <1>4, MainKeeps
<1>5. CASE UNCHANGED vars
  <2>1. UNCHANGED <<status, stopping, holder, child, out, told, mon, stp, pc, want, auto,
                    victim, port, main, ops, turns>>
    BY <1>5 DEF vars, router, procs, reqs
  <2>2. Starting' = Starting
    BY <2>1 DEF Starting
  <2>3. OverIsDead' /\ StoppedIsOver' /\ Beside' /\ Room' /\ Reported'
    BY <2>1, <2>2, NothingMoves DEF Inv
  <2>4. TypeOK' /\ Stopped'
    BY <2>1 DEF Inv, TypeOK, Stopped
  <2> QED
    BY <2>3, <2>4 DEF Inv
<1> QED
  BY <1>1, <1>2, <1>3, <1>4, <1>5 DEF Next

(* ... and so it holds always.                                               *)
LEMMA InvHolds == Spec => []Inv
BY InitInv, NextInv, PTL DEF Spec

-----------------------------------------------------------------------------
(* What it says of the router                                                *)

(* The children never exceed --models-max: load() counts again with the      *)
(* mutex held, and every child belongs to a model that runs or to the one    *)
(* that load() is starting.                                                  *)
THEOREM ChildrenAreWithinLimit == Spec => []WithinLimit
<1>1. ASSUME Inv PROVE WithinLimit
  <2> DEFINE InstanceOf(m) == IF Running(m) THEN Current(m) ELSE Fresh(m)
             S == Active \cup Starting
             T == {InstanceOf(m) : m \in S}
             Living == {i \in Instances : Alive(i)}
  <2>1. TypeOK /\ S \subseteq Models
    BY <1>1, HolderIsLoading DEF Inv, Active
  <2>2. IsFiniteSet(S) /\ Cardinality(S) \in Nat
    BY <2>1, FS_Subset, FS_CardinalityType, RouterOK
  <2>3. IsFiniteSet(T) /\ Cardinality(T) <= Cardinality(S)
    <3> DEFINE f == [m \in S |-> InstanceOf(m)]
    <3>1. f \in Surjection(S, T)
      BY DEF Surjection
    <3> HIDE DEF f, S, T
    <3> QED
      BY <2>2, <3>1, FS_Surjection
  <2>4. Living \subseteq T
    <3> SUFFICES ASSUME NEW i \in Instances, Alive(i) PROVE i \in T
      OBVIOUS
    <3>1. PICK m \in Models : i = Current(m) \/ i = Fresh(m)
      BY InstancesOfModels
    <3>2. mon[i] \notin Over
      BY <1>1 DEF Inv, OverIsDead
    <3>3. CASE i = Current(m)
      <4>1. Running(m)
        BY <1>1, <3>2, <3>3 DEF Inv, StoppedIsOver
      <4> QED
        BY <3>3, <4>1 DEF Active
    <3>4. CASE i = Fresh(m)
      <4>1. m \in Starting
        BY <2>1, <3>2, <3>4, HolderIsLoading DEF Over
      <4>2. ~Running(m)
        BY <1>1, <4>1 DEF Inv, Beside
      <4> QED
        BY <3>4, <4>1, <4>2
    <3> QED
      BY <3>1, <3>3, <3>4
  <2> HIDE DEF S, T, Living
  <2>5. Cardinality(Living) <= Cardinality(T) /\ Cardinality(T) \in Nat
        /\ Cardinality(Living) \in Nat
    BY <2>3, <2>4, FS_Subset, FS_CardinalityType
  <2>6. ModelsMax > 0 => Cardinality(S) <= ModelsMax
    BY <1>1 DEF Inv, Room, S
  <2>7. ModelsMax > 0 => Cardinality(Living) <= ModelsMax
    BY <2>2, <2>3, <2>5, <2>6, RouterOK
  <2> QED
    BY <2>7 DEF WithinLimit, Living
<1> QED
  BY <1>1, InvHolds, PTL

(* "old process should have exited already": load() never finds it alive,    *)
(* and its join of the old thread cannot block on the mutex it holds.        *)
THEOREM OldProcessIsGone == Spec => []OldIsGone
<1>1. ASSUME Inv PROVE OldIsGone
  <2> SUFFICES ASSUME NEW r \in Requesters, pc[r] = "join"
               PROVE  /\ ~Alive(Current(want[r]))
                      /\ mon[Current(want[r])] \in {"none", "ending", "done"}
    BY DEF OldIsGone
  <2>1. want[r] \in Models /\ want[r] \in Starting
    BY <1>1, HolderIsLoading DEF Inv
  <2>2. mon[Current(want[r])] \in Over
    BY <1>1, <2>1 DEF Inv, Beside, StoppedIsOver
  <2> QED
    BY <1>1, <2>1, <2>2, InstancesOfModels DEF Inv, OverIsDead, Over
<1> QED
  BY <1>1, InvHolds, PTL

(* The status of a model is what its process does once the log thread has    *)
(* read everything: no report is lost or applied to another instance.        *)
THEOREM StatusIsReported == Spec => []RouterView
<1>1. ASSUME Inv PROVE RouterView
  <2>1. ASSUME NEW m \in Models, mon[Current(m)] = "log", out[Current(m)] = <<>>
        PROVE  /\ child[Current(m)] = "loading" => status[m] = "loading"
               /\ child[Current(m)] = "ready" => status[m] = "loaded"
               /\ child[Current(m)] = "sleeping" => status[m] = "sleeping"
    BY <1>1, <2>1 DEF Inv, Reported, Knows
  <2> QED
    BY <1>1, <2>1 DEF RouterView, Inv
<1> QED
  BY <1>1, InvHolds, PTL

(* unload_all() leaves no process and no thread behind.                      *)
THEOREM NothingIsLeftBehind == Spec => []NoOrphans
<1>1. ASSUME Inv PROVE NoOrphans
  <2> SUFFICES ASSUME main = "exited", NEW i \in Instances
               PROVE  ~Alive(i) /\ mon[i] \in {"none", "done"}
    BY DEF NoOrphans
  <2>1. Unlocked
    BY <1>1 DEF Inv, Stopped, TypeOK, Unlocked
  <2>2. mon[i] \in {"none", "done"}
    BY <1>1, <2>1, InstancesOfModels, HolderIsLoading DEF Inv, Stopped
  <2> QED
    BY <1>1, <2>2 DEF Inv, OverIsDead, Over
<1> QED
  BY <1>1, InvHolds, PTL

-----------------------------------------------------------------------------
(* Falling asleep and waking up                                              *)

\* While the main thread is in update_slots() or waits, the NEXT_RESPONSE of a
\* busy server is in the queue: nothing but the drain loop takes it out.
BusyIsQueued == (busy # {} /\ mainAt \in {"decode", "idle", "nap"}) => NextResponse \in queue

\* The thread that sleeps has said so.
AsleepIsSleeping == mainAt = "asleep" => sleeping

\* The inductive invariant.
SleepInv ==
    /\ SleepTypeOK
    /\ LoadedWhenUsed
    /\ NobodyLeftWaiting
    /\ BusyIsQueued
    /\ AsleepIsSleeping

\* notify_one() never blocks a thread.
LEMMA NotifyShrinks == ASSUME NEW S, NEW T \in AfterNotifyOne(S) PROVE T \subseteq S
  BY DEF AfterNotifyOne

\* No action breaks the types.
LEMMA SleepTypeStep == SleepInv /\ [SleepNext]_sleepVars => SleepTypeOK'
  <1> SUFFICES ASSUME SleepInv, [SleepNext]_sleepVars PROVE SleepTypeOK'
    OBVIOUS
  <1> USE SleepConstantsOK DEF SleepInv, SleepTypeOK, serverVars, readerVars
  <1>1. CASE UNCHANGED sleepVars
    BY <1>1 DEF sleepVars
  <1>2. ASSUME NEW r \in Readers, ReaderStep(r) PROVE SleepTypeOK'
    <2>1. CASE Enter(r)
      <3>1. left' \in [Readers -> Nat]
        BY <2>1 DEF Enter
      <3> QED BY <2>1, <3>1 DEF Enter, ReaderStates
    <2>2. CASE Block(r)
      <3>1. cv' \subseteq Readers \cup {Main}
        BY <2>2, NotifyShrinks DEF Block
      <3>2. left' \in [Readers -> Nat]
        BY <2>2 DEF Block
      <3> QED BY <2>2, <3>1, <3>2 DEF Block, ReaderStates
    <2>3. CASE Recheck(r)
      BY <2>3 DEF Recheck, ReaderStates
    <2>4. CASE Post(r)
      <3>1. cv' \subseteq Readers \cup {Main}
        BY <2>4, NotifyShrinks DEF Post, NotifyOne
      <3> QED BY <2>4, <3>1 DEF Post, ReaderStates
    <2> QED BY <1>2, <2>1, <2>2, <2>3, <2>4 DEF ReaderStep
  <1>3. CASE MainStep
    <2> USE DEF MainStates
    <2>1. CASE UpdateBusy
      <3>1. cv' \subseteq Readers \cup {Main}
        BY <2>1, NotifyShrinks DEF UpdateBusy, PostNext, NotifyOne
      <3> QED BY <2>1, <3>1 DEF UpdateBusy, PostNext
    <2>2. CASE Decode
      BY <2>2 DEF Decode, ReaderStates
    <2>3. CASE Take
      BY <2>3 DEF Take
    <2>4. CASE Start \/ Stop \/ Drained \/ UpdateIdle \/ Idle
      BY <2>4 DEF Start, Stop, Drained, UpdateIdle, Idle
    <2>5. CASE FallAsleep \/ Nap \/ NapTimeout \/ NapWoken
      BY <2>5 DEF FallAsleep, Nap, NapTimeout, NapWoken
    <2>6. CASE SleepOn \/ StopAsleep \/ WakeUp
      BY <2>6 DEF SleepOn, StopAsleep, WakeUp, NotifyAll
    <2> QED BY <1>3, <2>1, <2>2, <2>3, <2>4, <2>5, <2>6 DEF MainStep
  <1>4. CASE Terminate
    BY <1>4 DEF Terminate, NotifyAll
  <1>5. CASE Spurious
    BY <1>5 DEF Spurious
  <1> QED BY <1>1, <1>2, <1>3, <1>4, <1>5 DEF SleepNext

\* No action breaks the other parts.
LEMMA SleepSafetyStep ==
    SleepInv /\ [SleepNext]_sleepVars =>
        LoadedWhenUsed' /\ NobodyLeftWaiting' /\ BusyIsQueued' /\ AsleepIsSleeping'
  <1> SUFFICES ASSUME SleepInv, [SleepNext]_sleepVars
               PROVE  /\ LoadedWhenUsed' /\ NobodyLeftWaiting'
                      /\ BusyIsQueued' /\ AsleepIsSleeping'
    OBVIOUS
  <1> USE SleepConstantsOK DEF SleepInv, SleepTypeOK, serverVars, readerVars, LoadedWhenUsed,
                               NobodyLeftWaiting, BusyIsQueued, AsleepIsSleeping
  <1>1. CASE UNCHANGED sleepVars
    BY <1>1 DEF sleepVars
  <1>2. ASSUME NEW r \in Readers, ReaderStep(r)
        PROVE  /\ LoadedWhenUsed' /\ NobodyLeftWaiting'
               /\ BusyIsQueued' /\ AsleepIsSleeping'
    <2>1. CASE Enter(r)
      BY <2>1 DEF Enter
    <2>2. CASE Block(r)
      BY <2>2 DEF Block
    <2>3. CASE Recheck(r)
      BY <2>3 DEF Recheck
    <2>4. CASE Post(r)
      BY <2>4, NotifyShrinks DEF Post, NotifyOne
    <2> QED BY <1>2, <2>1, <2>2, <2>3, <2>4 DEF ReaderStep
  <1>3. CASE MainStep
    <2>1. CASE UpdateBusy
      BY <2>1, NotifyShrinks DEF UpdateBusy, PostNext, NotifyOne
    <2>2. CASE Decode
      BY <2>2 DEF Decode
    <2>3. CASE Take
      BY <2>3 DEF Take
    <2>4. CASE Start \/ Stop \/ Drained \/ UpdateIdle \/ Idle
      BY <2>4 DEF Start, Stop, Drained, UpdateIdle, Idle, MustDrain
    <2>5. CASE FallAsleep
      \* The queue is empty, so no slot is busy.
      BY <2>5 DEF FallAsleep, MustDrain
    <2>6. CASE Nap \/ NapTimeout \/ NapWoken
      BY <2>6 DEF Nap, NapTimeout, NapWoken, MustDrain
    <2>7. CASE SleepOn \/ StopAsleep \/ WakeUp
      BY <2>7 DEF SleepOn, StopAsleep, WakeUp, NotifyAll
    <2> QED BY <1>3, <2>1, <2>2, <2>3, <2>4, <2>5, <2>6, <2>7 DEF MainStep
  <1>4. CASE Terminate
    BY <1>4 DEF Terminate, NotifyAll
  <1>5. CASE Spurious
    BY <1>5 DEF Spurious
  <1> QED BY <1>1, <1>2, <1>3, <1>4, <1>5 DEF SleepNext

\* The inductive invariant holds in every reachable state.
THEOREM SleepInvariant == SleepSpec => []SleepInv
  <1>1. SleepInit => SleepInv
    BY SleepConstantsOK DEF SleepInit, SleepInv, SleepTypeOK, LoadedWhenUsed, NobodyLeftWaiting,
                            BusyIsQueued, AsleepIsSleeping, MainStates, ReaderStates
  <1>2. SleepInv /\ [SleepNext]_sleepVars => SleepInv'
    BY SleepTypeStep, SleepSafetyStep DEF SleepInv
  <1> QED BY <1>1, <1>2, PTL DEF SleepSpec

\* start_loop() never unloads the model under a slot that is processing, and
\* runs no task and no update while the model is unloaded.
THEOREM LoadedWhenUsedAlways == SleepSpec => []LoadedWhenUsed
  <1>1. SleepInv => LoadedWhenUsed
    BY DEF SleepInv
  <1> QED BY <1>1, SleepInvariant, PTL

\* notify_all() at the end of the sleep frees every thread that is blocked in
\* wait_until_no_sleep(), and none blocks while the server is awake.
THEOREM NobodyLeftWaitingAlways == SleepSpec => []NobodyLeftWaiting
  <1>1. SleepInv => NobodyLeftWaiting
    BY DEF SleepInv
  <1> QED BY <1>1, SleepInvariant, PTL
=============================================================================
