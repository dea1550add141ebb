--------------------------- MODULE PipelineProof ---------------------------
(***************************************************************************)
(* Proofs about ServerPipeline, for any requests and any number of HTTP    *)
(* threads and slots: the types; the main thread never waits for tasks     *)
(* while a slot is processing; a task is in one place, none is lost and    *)
(* none is answered twice; a finished reader leaves nothing behind; a      *)
(* family stays together, and orphans are cancelled; and the pipeline      *)
(* implements the service of RequestService.                               *)
(***************************************************************************)
EXTENDS PipelineProperties, SequenceTheorems, FiniteSetTheorems, TLAPS

-----------------------------------------------------------------------------
(* Sequences.                                                              *)

\* The elements m to n of a sequence.
LEMMA PartProperties ==
    ASSUME NEW S, NEW seq \in Seq(S),
           NEW m \in 1 .. Len(seq) + 1, NEW n \in m - 1 .. Len(seq)
    PROVE  /\ SubSeq(seq, m, n) \in Seq(S)
           /\ Len(SubSeq(seq, m, n)) = n - m + 1
           /\ \A k \in 1 .. n - m + 1 : SubSeq(seq, m, n)[k] = seq[m + k - 1]
  <1>1. m \in Int /\ n \in Int /\ \A k \in m .. n : seq[k] \in S
    OBVIOUS
  <1>2. /\ SubSeq(seq, m, n) \in Seq(S)
        /\ Len(SubSeq(seq, m, n)) = IF m <= n THEN n - m + 1 ELSE 0
        /\ \A k \in 1 .. n - m + 1 : SubSeq(seq, m, n)[k] = seq[m + k - 1]
    BY <1>1, SubSeqProperties
  <1>3. (IF m <= n THEN n - m + 1 ELSE 0) = n - m + 1
    OBVIOUS
  <1> QED BY <1>2, <1>3

\* The elements of a concatenation.
LEMMA ConcatElements ==
    ASSUME NEW S, NEW s \in Seq(S), NEW t \in Seq(S)
    PROVE  /\ s \o t \in Seq(S)
           /\ \A i \in DOMAIN s : i \in DOMAIN (s \o t) /\ (s \o t)[i] = s[i]
           /\ \A i \in DOMAIN t : \E k \in DOMAIN (s \o t) : (s \o t)[k] = t[i]
  <1>1. /\ s \o t \in Seq(S)
        /\ Len(s \o t) = Len(s) + Len(t)
        /\ \A i \in 1 .. Len(s) + Len(t) : (s \o t)[i] =
              IF i <= Len(s) THEN s[i] ELSE t[i - Len(s)]
    BY ConcatProperties
  <1>2. DOMAIN (s \o t) = 1 .. Len(s) + Len(t) /\ DOMAIN s = 1 .. Len(s) /\ DOMAIN t = 1 .. Len(t)
    BY <1>1
  <1>3. Len(s) \in Nat /\ Len(t) \in Nat
    OBVIOUS
  <1> HIDE <1>1
  <1>4. ASSUME NEW i \in 1 .. Len(s) PROVE i \in 1 .. Len(s) + Len(t) /\ (s \o t)[i] = s[i]
    <2>1. i \in 1 .. Len(s) + Len(t) /\ i <= Len(s)
      BY <1>3
    <2> QED BY <1>1, <2>1, Zenon
  <1>5. ASSUME NEW i \in 1 .. Len(t)
        PROVE  \E k \in 1 .. Len(s) + Len(t) : (s \o t)[k] = t[i]
    <2>1. PICK k \in 1 .. Len(s) + Len(t) : k = Len(s) + i
      BY <1>3
    <2>2. ~(k <= Len(s)) /\ k - Len(s) = i
      BY <1>3, <2>1
    <2>3. (s \o t)[k] = t[k - Len(s)]
      BY <1>1, <2>2, Zenon
    <2> QED BY <2>1, <2>2, <2>3
  <1> QED BY <1>1, <1>2, <1>4, <1>5, Zenon

Occurs(x, s) == \E k \in DOMAIN s : s[k] = x

\* The elements of the second of two sequences occur in both together.
LEMMA ConcatSecond ==
    ASSUME NEW S, NEW s \in Seq(S), NEW t \in Seq(S), NEW i \in DOMAIN t
    PROVE  Occurs(t[i], s \o t)
  <1> DEFINE joined == s \o t
             found(j) == \E k \in DOMAIN joined : joined[k] = t[j]
  <1>1. \A j \in DOMAIN t : found(j)
    BY ConcatElements
  <1> HIDE DEF joined, found
  <1>2. found(i)
    BY <1>1, Zenon
  <1> QED BY <1>2 DEF found, joined, Occurs

\* An element of a sequence other than the one removed is still there.
LEMMA RemoveAtProperties ==
    ASSUME NEW S, NEW seq \in Seq(S), NEW i \in DOMAIN seq
    PROVE  /\ RemoveAt(seq, i) \in Seq(S)
           /\ \A j \in DOMAIN seq : j # i =>
                 \E k \in DOMAIN RemoveAt(seq, i) : RemoveAt(seq, i)[k] = seq[j]
  <1> DEFINE front == SubSeq(seq, 1, i - 1)
             back  == SubSeq(seq, i + 1, Len(seq))
  <1>1. i \in 1 .. Len(seq) /\ DOMAIN seq = 1 .. Len(seq) /\ Len(seq) \in Nat
    OBVIOUS
  <1>2. /\ front \in Seq(S) /\ Len(front) = i - 1
        /\ \A k \in 1 .. i - 1 : front[k] = seq[k]
    <2>1. 1 \in 1 .. Len(seq) + 1 /\ i - 1 \in 1 - 1 .. Len(seq)
      BY <1>1
    <2> QED BY <1>1, <2>1, PartProperties
  <1>3. /\ back \in Seq(S) /\ Len(back) = Len(seq) - i
        /\ \A k \in 1 .. Len(seq) - i : back[k] = seq[i + k]
    <2>1. i + 1 \in 1 .. Len(seq) + 1 /\ Len(seq) \in i + 1 - 1 .. Len(seq)
      BY <1>1
    <2> QED BY <1>1, <2>1, PartProperties
  <1> HIDE DEF front, back
  <1>4. DOMAIN front = 1 .. i - 1 /\ DOMAIN back = 1 .. Len(seq) - i
    BY <1>2, <1>3
  <1>5. /\ front \o back \in Seq(S)
        /\ \A m \in DOMAIN front : m \in DOMAIN (front \o back) /\ (front \o back)[m] = front[m]
        /\ \A m \in DOMAIN back : \E k \in DOMAIN (front \o back) : (front \o back)[k] = back[m]
    <2>1. front \in Seq(S) /\ back \in Seq(S)
      BY <1>2, <1>3
    <2>2. front \o back \in Seq(S)
      BY <2>1, ConcatElements
    <2>3. \A m \in DOMAIN front : m \in DOMAIN (front \o back) /\ (front \o back)[m] = front[m]
      BY <2>1, ConcatElements, Zenon
    <2>4. ASSUME NEW m \in DOMAIN back
          PROVE  \E k \in DOMAIN (front \o back) : (front \o back)[k] = back[m]
      <3>1. Occurs(back[m], front \o back)
        BY <2>1, ConcatSecond
      <3> QED BY <3>1 DEF Occurs
    <2> QED BY <2>2, <2>3, <2>4
  <1>6. ASSUME NEW j \in DOMAIN seq, j # i
        PROVE  \E k \in DOMAIN (front \o back) : (front \o back)[k] = seq[j]
    <2>1. CASE j < i
      <3>1. j \in DOMAIN front /\ front[j] = seq[j]
        BY <1>1, <1>2, <1>4, <2>1
      <3> QED BY <1>5, <3>1
    <2>2. CASE j > i
      <3>1. j - i \in DOMAIN back
        BY <1>1, <1>4, <2>2
      <3>2. back[j - i] = seq[j]
        BY <1>1, <1>3, <1>4, <3>1
      <3> QED BY <1>5, <3>1, <3>2
    <2> QED BY <1>1, <1>6, <2>1, <2>2
  <1> QED BY <1>5, <1>6 DEF RemoveAt, front, back

\* NEXT_RESPONSE is in sequence seq.
HasNext(seq) == \E i \in DOMAIN seq : seq[i] = NextResponse

\* cleanup_pending_task() removes no NEXT_RESPONSE.
LEMMA WithoutProperties ==
    ASSUME NEW S, NEW seq \in Seq(S), NEW t
    PROVE  /\ Without(seq, t) \in Seq(S)
           /\ HasNext(seq) => HasNext(Without(seq, t))
  <1>1. CASE \E i \in DOMAIN seq : seq[i] = Work(t)
    <2> DEFINE i == CHOOSE i \in DOMAIN seq : seq[i] = Work(t)
    <2>1. i \in DOMAIN seq /\ seq[i] = Work(t)
      BY <1>1
    <2> HIDE DEF i
    <2>2. Without(seq, t) = RemoveAt(seq, i)
      BY <1>1 DEF Without, i
    <2>3. Work(t) # NextResponse
      BY DEF Work, NextResponse
    <2>4. \A j \in DOMAIN seq : seq[j] = NextResponse => j # i
      BY <2>1, <2>3
    <2> QED BY <2>1, <2>2, <2>4, RemoveAtProperties DEF HasNext
  <1>2. CASE ~ \E i \in DOMAIN seq : seq[i] = Work(t)
    BY <1>2 DEF Without
  <1> QED BY <1>1, <1>2

\* Nothing that is put before or behind a sequence takes NEXT_RESPONSE out.
LEMMA HasNextConcat ==
    ASSUME NEW S, NEW seq \in Seq(S), NEW other \in Seq(S), HasNext(seq)
    PROVE  HasNext(seq \o other) /\ HasNext(other \o seq)
  <1>1. PICK i \in DOMAIN seq : seq[i] = NextResponse
    BY DEF HasNext
  <1>2. HasNext(seq \o other)
    BY <1>1, ConcatElements DEF HasNext
  <1>3. HasNext(other \o seq)
    <2>1. PICK k \in DOMAIN (other \o seq) : (other \o seq)[k] = seq[i]
      BY ConcatElements
    <2> QED BY <1>1, <2>1 DEF HasNext
  <1> QED BY <1>2, <1>3

-----------------------------------------------------------------------------
(* Types.                                                                  *)

\* What the main thread works on: the entry of a task, or its cancellation.
LEMMA CurType ==
    ASSUME TypeOK
    PROVE  /\ cur.type \in {"work", "cancel"} => cur.task \in Tasks
           /\ cur.type = "work" => cur = Work(cur.task)
  BY DEF TypeOK, Entries, Work, Cancel, NextResponse, NoEntry

\* send() keeps the results well-formed.
LEMMA SendType ==
    ASSUME ConstantsOK, TypeOK, NEW t, NEW kinds \in Seq(Outcomes), SendAll(t, kinds)
    PROVE  inbox' \in [Readers -> Seq(Results)]
  <1>1. CASE t \notin waiting
    BY <1>1 DEF SendAll, TypeOK
  <1>2. CASE t \in waiting
    <2> DEFINE new == [i \in DOMAIN kinds |-> [task |-> t, kind |-> kinds[i]]]
    <2>1. t \in Tasks /\ Owner[t] \in Readers
      BY <1>2 DEF TypeOK, ConstantsOK
    <2>2. new \in Seq(Results)
      <3>1. DOMAIN kinds = 1 .. Len(kinds) /\ Len(kinds) \in Nat
        OBVIOUS
      <3>2. \A i \in DOMAIN kinds : [task |-> t, kind |-> kinds[i]] \in Results
        BY <2>1 DEF Results
      <3> QED BY <3>1, <3>2
    <2> HIDE DEF new
    <2>3. inbox[Owner[t]] \o new \in Seq(Results)
      <3>1. inbox[Owner[t]] \in Seq(Results)
        BY <2>1 DEF TypeOK
      <3> QED BY <2>2, <3>1, ConcatProperties
    <2>4. inbox' = [inbox EXCEPT ![Owner[t]] = inbox[Owner[t]] \o new]
      BY <1>2 DEF SendAll, new
    <2> QED BY <2>1, <2>3, <2>4 DEF TypeOK
  <1> QED BY <1>1, <1>2

\* One result.
LEMMA SendOneType ==
    ASSUME ConstantsOK, TypeOK, NEW t, NEW kind \in Outcomes, Send(t, kind)
    PROVE  inbox' \in [Readers -> Seq(Results)]
  <1>1. <<kind>> \in Seq(Outcomes)
    OBVIOUS
  <1> QED BY <1>1, SendType DEF Send

\* The text of a token, alone or before a final result.
LEMMA TextsType ==
    ASSUME NEW t, NEW text \in Texts(t)
    PROVE  text \in Seq(Outcomes) /\ Append(text, "final") \in Seq(Outcomes)
  <1>1. text \in Seq(Outcomes)
    <2>1. CASE text = <<>>
      BY <2>1
    <2>2. CASE text = <<"partial">>
      <3>1. "partial" \in Outcomes
        BY DEF Outcomes
      <3> QED BY <2>2, <3>1
    <2>3. text = <<>> \/ text = <<"partial">>
      BY Zenon DEF Texts
    <2> QED BY <2>1, <2>2, <2>3
  <1>2. "final" \in Outcomes
    BY DEF Outcomes
  <1> QED BY <1>1, <1>2, AppendProperties

\* Launched slots have tasks of the family.
LEMMA LaunchedType ==
    ASSUME ConstantsOK, TypeOK, NEW T, T \subseteq Tasks, NEW f \in Placements(T), Launched(f)
    PROVE  /\ task' \in [Slots -> Tasks \cup {NoTask}]
           /\ state' \in [Slots -> SlotStates]
           /\ decoded' \in [Slots -> Nat]
           /\ nEmpty' \in Nat
  <1>1. \A s \in DOMAIN f : f[s] \in Tasks
    BY DEF Placements
  <1> QED BY <1>1 DEF Launched, TypeOK, SlotStates

\* The members of a family are tasks.
LEMMA FamilyType == ASSUME NEW t \in Tasks PROVE {t} \cup Children(t) \subseteq Tasks
  BY DEF Children

\* The steps of an HTTP thread.
LEMMA ReaderTypeStep ==
    ASSUME ConstantsOK, TypeOK, NEW r \in Readers, ReaderStep(r) \/ Leave(r)
    PROVE  TypeOK'
  <1> USE DEF queueVars, readerVars, slotVars, batchVars, mainVars
  <1>1. CASE Register(r)
    <2>1. TasksOf(r) \subseteq Tasks
      BY DEF TasksOf
    <2> QED BY <1>1, <2>1 DEF Register, TypeOK, ReaderStates
  <1>2. CASE Post(r)
    <2> DEFINE new == [i \in DOMAIN Posted[r] |-> Work(Posted[r][i])]
    <2>1. Posted[r] \in Seq(Tasks)
      BY DEF ConstantsOK
    <2>2. new \in Seq(Entries)
      <3>1. DOMAIN Posted[r] = 1 .. Len(Posted[r]) /\ Len(Posted[r]) \in Nat
        BY <2>1
      <3>2. \A i \in DOMAIN Posted[r] : Work(Posted[r][i]) \in Entries
        BY <2>1 DEF Entries
      <3> QED BY <3>1, <3>2
    <2> HIDE DEF new
    <2>3. new \o queue \in Seq(Entries) /\ queue \o new \in Seq(Entries)
      BY <2>2, ConcatProperties DEF TypeOK
    <2>4. queue' \in {new \o queue, queue \o new}
      BY <1>2 DEF Post, new
    <2> QED BY <1>2, <2>3, <2>4 DEF Post, TypeOK, ReaderStates
  <1>3. CASE Receive(r)
    <2> DEFINE res == Head(inbox[r])
    <2>1. res \in Results /\ Tail(inbox[r]) \in Seq(Results)
      BY <1>3, HeadTailProperties DEF Receive, TypeOK
    <2>2. res.task \in Tasks
      BY <2>1 DEF Results
    <2> HIDE DEF res
    <2>3. /\ inbox' = [inbox EXCEPT ![r] = Tail(@)]
          /\ pc' = [pc EXCEPT ![r] = IF res.kind = "error" THEN "failed" ELSE @]
          /\ received' = [received EXCEPT ![r] = IF res.kind = "final" THEN @ + 1 ELSE @]
          /\ got' = [got EXCEPT ![r] = IF res.kind = "final" THEN @ \cup {res.task} ELSE @]
      BY <1>3 DEF Receive, res
    <2>4. inbox' \in [Readers -> Seq(Results)]
      BY <2>1, <2>3 DEF TypeOK
    <2>5. pc' \in [Readers -> ReaderStates] /\ received' \in [Readers -> Nat]
      BY <2>3 DEF TypeOK, ReaderStates
    <2>6. got' \in [Readers -> SUBSET Tasks]
      BY <2>2, <2>3 DEF TypeOK
    <2> QED BY <1>3, <2>4, <2>5, <2>6 DEF Receive, TypeOK
  <1>4. CASE Finish(r) \/ Leave(r)
    BY <1>4 DEF Finish, Leave, StopWaiting, TypeOK, ReaderStates
  <1>5. CASE Purge(r)
    <2>1. IdTasks(r) \subseteq Tasks
      BY DEF IdTasks, TasksOf
    <2>2. inbox' \in [Readers -> Seq(Results)]
      <3>1. <<>> \in Seq(Results)
        OBVIOUS
      <3> QED BY <1>5, <3>1 DEF Purge, DropResults, TypeOK
    <2> QED BY <1>5, <2>1, <2>2 DEF Purge, TypeOK, ReaderStates
  <1>6. CASE CancelOne(r)
    <2>1. PICK t \in todo[r] : /\ queue' = <<Cancel(t)>> \o Without(queue, t)
                               /\ deferred' = Without(deferred, t)
                               /\ todo' = [todo EXCEPT ![r] = @ \ {t}]
      BY <1>6 DEF CancelOne
    <2>2. t \in Tasks
      BY <2>1 DEF TypeOK
    <2>3. queue' \in Seq(Entries)
      <3>1. Without(queue, t) \in Seq(Entries)
        BY WithoutProperties DEF TypeOK
      <3>2. <<Cancel(t)>> \in Seq(Entries)
        BY <2>2 DEF Entries
      <3> QED BY <2>1, <3>1, <3>2, ConcatProperties
    <2>4. deferred' \in Seq({Work(u) : u \in Tasks})
      BY <2>1, WithoutProperties DEF TypeOK
    <2>5. todo' \in [Readers -> SUBSET Tasks]
      BY <2>1 DEF TypeOK
    <2> QED BY <1>6, <2>3, <2>4, <2>5 DEF CancelOne, TypeOK
  <1>7. CASE CancelDone(r)
    BY <1>7 DEF CancelDone, TypeOK, ReaderStates
  <1> QED BY <1>1, <1>2, <1>3, <1>4, <1>5, <1>6, <1>7 DEF ReaderStep

\* The steps of start_loop().
LEMMA LoopTypeStep == ASSUME ConstantsOK, TypeOK, LoopStep PROVE TypeOK'
  <1> USE DEF queueVars, readerVars, slotVars, batchVars, mainVars, At
  <1>1. CASE PopTask
    <2>1. Head(queue) \in Entries /\ Tail(queue) \in Seq(Entries)
      BY <1>1, HeadTailProperties DEF PopTask, TypeOK
    <2> QED BY <1>1, <2>1 DEF PopTask, TypeOK, Phases
  <1>2. CASE Drained \/ WakeUp
    BY <1>2 DEF Drained, WakeUp, TypeOK, Phases
  <1>3. CASE Release
    <2>1. releasing \in Slots
      BY <1>3 DEF Release, TypeOK
    <2>2. state' \in [Slots -> SlotStates] /\ task' \in [Slots -> Tasks \cup {NoTask}]
      BY <1>3, <2>1 DEF Release, TypeOK, SlotStates
    <2>3. queue' \in Seq(Entries) /\ deferred' \in Seq({Work(t) : t \in Tasks})
      <3>1. CASE UNCHANGED queueVars
        BY <3>1 DEF TypeOK
      <3>2. CASE \E i \in NextDeferred(releasing) :
                    /\ queue' = <<deferred[i]>> \o queue
                    /\ deferred' = RemoveAt(deferred, i)
        <4>1. PICK i \in NextDeferred(releasing) :
                    /\ queue' = <<deferred[i]>> \o queue
                    /\ deferred' = RemoveAt(deferred, i)
          BY <3>2
        <4>2. i \in DOMAIN deferred
          BY DEF NextDeferred
        <4>3. deferred[i] \in Entries
          BY <4>2 DEF TypeOK, Entries
        <4>4. <<deferred[i]>> \in Seq(Entries)
          BY <4>3
        <4>5. queue' \in Seq(Entries)
          BY <4>1, <4>4, ConcatProperties DEF TypeOK
        <4>6. deferred' \in Seq({Work(t) : t \in Tasks})
          BY <4>1, <4>2, RemoveAtProperties DEF TypeOK
        <4> QED BY <4>5, <4>6
      <3> QED BY <1>3, <3>1, <3>2 DEF Release
    <2> QED BY <1>3, <2>2, <2>3 DEF Release, TypeOK
  <1> QED BY <1>1, <1>2, <1>3 DEF LoopStep

\* The steps of process_single_task().
LEMMA TaskTypeStep == ASSUME ConstantsOK, TypeOK, TaskStep PROVE TypeOK'
  <1> USE DEF queueVars, readerVars, slotVars, batchVars, mainVars, At, Processing, TaskDone
  <1>1. CASE ProcessNext \/ Unlaunched
    BY <1>1 DEF ProcessNext, Unlaunched, TypeOK, Phases
  <1>2. CASE ProcessCancel
    BY <1>2 DEF ProcessCancel, SlotsOf, TypeOK, Phases
  <1>3. CASE ProcessQuick
    <2>1. inbox' \in [Readers -> Seq(Results)]
      BY <1>3, SendOneType DEF ProcessQuick, Outcomes
    <2> QED BY <1>3, <2>1 DEF ProcessQuick, TypeOK, Phases
  <1>4. CASE ProcessSlotAction
    <2>1. inbox' \in [Readers -> Seq(Results)]
      BY <1>4, SendOneType DEF ProcessSlotAction, Outcomes
    <2> QED BY <1>4, <2>1 DEF ProcessSlotAction, TypeOK, Phases
  <1>5. CASE ProcessDefer
    <2>1. Work(cur.task) \in {Work(t) : t \in Tasks}
      BY <1>5, CurType DEF ProcessDefer
    <2>2. deferred' \in Seq({Work(t) : t \in Tasks})
      BY <1>5, <2>1, AppendProperties DEF ProcessDefer, Defer, TypeOK
    <2> QED BY <1>5, <2>2 DEF ProcessDefer, TypeOK, Phases
  <1>6. CASE Launch
    <2> DEFINE family == {cur.task} \cup Children(cur.task)
    <2>1. family \subseteq Tasks
      BY <1>6, CurType, FamilyType DEF Launch
    <2>2. PICK f \in Placements(family) : Launched(f)
      BY <1>6 DEF Launch
    <2> HIDE DEF family
    <2>3. /\ task' \in [Slots -> Tasks \cup {NoTask}] /\ state' \in [Slots -> SlotStates]
          /\ decoded' \in [Slots -> Nat] /\ nEmpty' \in Nat
      BY <2>1, <2>2, LaunchedType
    <2> QED BY <1>6, <2>3 DEF Launch, TypeOK, Phases
  <1>7. CASE LaunchFails
    <2>1. PICK bad \in ({cur.task} \cup Children(cur.task)) \cap FailLaunch :
             \E before \in SUBSET (Children(cur.task) \ {bad}) :
                /\ \E f \in Placements(before) : Launched(f)
                /\ LaunchError(bad)
      BY <1>7 DEF LaunchFails
    <2>2. PICK before \in SUBSET Tasks :
             /\ \E f \in Placements(before) : Launched(f)
             /\ LaunchError(bad)
      BY <2>1 DEF Children
    <2>3. /\ task' \in [Slots -> Tasks \cup {NoTask}] /\ state' \in [Slots -> SlotStates]
          /\ decoded' \in [Slots -> Nat] /\ nEmpty' \in Nat
      BY <2>2, LaunchedType
    <2>4. inbox' \in [Readers -> Seq(Results)]
      BY <2>2, SendOneType DEF LaunchError, Outcomes
    <2> QED BY <1>7, <2>3, <2>4 DEF LaunchFails, TypeOK, Phases
  <1>8. CASE Unlaunch
    BY <1>8 DEF Unlaunch, FamilySlots, TypeOK
  <1> QED BY <1>1, <1>2, <1>3, <1>4, <1>5, <1>6, <1>7, <1>8 DEF TaskStep

\* The steps of update_slots().
LEMMA UpdateTypeStep == ASSUME ConstantsOK, TypeOK, UpdateStep PROVE TypeOK'
  <1> USE DEF queueVars, readerVars, slotVars, batchVars, mainVars, At
  <1>1. CASE UpdateIdle \/ BatchBuilt \/ Sampled \/ Failed
    BY <1>1 DEF UpdateIdle, BatchBuilt, Sampled, Failed, TypeOK, Phases
  <1>2. CASE UpdateBusy
    <2>1. queue' \in Seq(Entries)
      <3>1. NextResponse \in Entries
        BY DEF Entries
      <3> QED BY <1>2, <3>1, AppendProperties DEF UpdateBusy, PostNext, TypeOK
    <2> QED BY <1>2, <2>1 DEF UpdateBusy, TypeOK, Phases
  <1>3. CASE ShiftFails
    <2>1. inbox' \in [Readers -> Seq(Results)]
      BY <1>3, SendOneType DEF ShiftFails, Outcomes
    <2> QED BY <1>3, <2>1 DEF ShiftFails, TypeOK
  <1>4. CASE BatchSampled
    BY <1>4 DEF BatchSampled, ConstantsOK, Slots, TypeOK, Phases
  <1>5. CASE SkipSlot
    BY <1>5 DEF SkipSlot, TypeOK
  <1>6. CASE RejectPrompt
    <2>1. inbox' \in [Readers -> Seq(Results)]
      BY <1>6, SendOneType DEF RejectPrompt, Outcomes
    <2> QED BY <1>6, <2>1 DEF RejectPrompt, TypeOK
  <1>7. CASE BatchPrompt
    <2>1. PICK s \in Slots :
             /\ \/ state' = [state EXCEPT ![s] = "PROCESSING_PROMPT"]
                \/ state' = [state EXCEPT ![s] = "DONE_PROMPT"]
             /\ batch' = batch \cup {s}
      BY <1>7 DEF BatchPrompt
    <2>2. state' \in [Slots -> SlotStates] /\ batch' \subseteq Slots
      BY <2>1 DEF TypeOK, SlotStates
    <2>3. at' \in Nat
      BY <1>7 DEF BatchPrompt, ConstantsOK, TypeOK
    <2> QED BY <1>7, <2>2, <2>3 DEF BatchPrompt, TypeOK
  <1>8. CASE ImageFails
    <2>1. inbox' \in [Readers -> Seq(Results)]
      BY <1>8, SendOneType DEF ImageFails, Outcomes
    <2> QED BY <1>8, <2>1 DEF ImageFails, TypeOK, Phases
  <1>9. CASE EmptyBatch
    BY <1>9 DEF EmptyBatch, TypeOK, Phases
  <1>10. CASE DecodeOK
    <2>1. state' \in [Slots -> SlotStates] /\ ready' \subseteq Slots
      BY <1>10 DEF DecodeOK, Joining, Sampleable, TypeOK, SlotStates
    <2> QED BY <1>10, <2>1 DEF DecodeOK, TypeOK, Phases
  <1>11. CASE DecodeFails
    BY <1>11 DEF DecodeFails, TypeOK, Phases
  <1>12. CASE SendEmbedding
    <2>1. inbox' \in [Readers -> Seq(Results)]
      BY <1>12, SendOneType DEF SendEmbedding, Outcomes
    <2> QED BY <1>12, <2>1 DEF SendEmbedding, TypeOK
  <1>13. CASE SampleToken
    <2>1. PICK s \in ready :
             /\ state' = [state EXCEPT ![s] = "GENERATING"]
             /\ decoded' = [decoded EXCEPT ![s] = @ + 1]
             /\ \E text \in Texts(task[s]) : SendAll(task[s], text)
             /\ ready' = ready \ {s}
      BY <1>13 DEF SampleToken
    <2>2. inbox' \in [Readers -> Seq(Results)]
      BY <2>1, TextsType, SendType
    <2>3. /\ state' \in [Slots -> SlotStates] /\ decoded' \in [Slots -> Nat]
          /\ ready' \subseteq Slots
      BY <2>1 DEF TypeOK, SlotStates
    <2> QED BY <1>13, <2>2, <2>3 DEF SampleToken, TypeOK
  <1>14. CASE SampleLast
    <2>1. PICK s \in ready :
             /\ state' = [state EXCEPT ![s] = "GENERATING"]
             /\ decoded' = [decoded EXCEPT ![s] = @ + 1]
             /\ \E text \in Texts(task[s]) : SendAll(task[s], Append(text, "final"))
             /\ releasing' = s
             /\ ready' = ready \ {s}
      BY <1>14 DEF SampleLast
    <2>2. inbox' \in [Readers -> Seq(Results)]
      BY <2>1, TextsType, SendType
    <2>3. /\ state' \in [Slots -> SlotStates] /\ decoded' \in [Slots -> Nat]
          /\ ready' \subseteq Slots /\ releasing' \in Slots
      BY <2>1 DEF TypeOK, SlotStates
    <2> QED BY <1>14, <2>2, <2>3 DEF SampleLast, TypeOK
  <1>15. CASE FailSlot
    <2>1. inbox' \in [Readers -> Seq(Results)]
      BY <1>15, SendOneType DEF FailSlot, Outcomes
    <2> QED BY <1>15, <2>1 DEF FailSlot, TypeOK
  <1> QED BY <1>1, <1>2, <1>3, <1>4, <1>5, <1>6, <1>7, <1>8, <1>9, <1>10,
             <1>11, <1>12, <1>13, <1>14, <1>15 DEF UpdateStep

\* Every variable keeps its type.
THEOREM TypeCorrect == Spec => []TypeOK
  <1>1. Init => TypeOK
    <2> SUFFICES ASSUME Init PROVE TypeOK
      OBVIOUS
    <2>1. <<>> \in Seq(Entries) /\ <<>> \in Seq(Results) /\ <<>> \in Seq({Work(t) : t \in Tasks})
      OBVIOUS
    <2> QED BY <2>1 DEF Init, TypeOK, ReaderStates, Phases, SlotStates
  <1>2. TypeOK /\ [Next]_vars => TypeOK'
    <2> SUFFICES ASSUME TypeOK, [Next]_vars PROVE TypeOK'
      OBVIOUS
    <2>1. CASE MainStep
      BY <2>1, ConstantsOK, LoopTypeStep, TaskTypeStep, UpdateTypeStep DEF MainStep
    <2>2. ASSUME NEW r \in Readers, ReaderStep(r) \/ Leave(r) PROVE TypeOK'
      BY <2>2, ConstantsOK, ReaderTypeStep
    <2>3. CASE UNCHANGED vars
      BY <2>3 DEF vars, queueVars, readerVars, slotVars, batchVars, mainVars, TypeOK
    <2>4. CASE Rest
      BY <2>3, <2>4 DEF Rest
    <2> QED BY <2>1, <2>2, <2>3, <2>4 DEF Next
  <1> QED BY <1>1, <1>2, PTL DEF Spec

-----------------------------------------------------------------------------
(* The main thread does not wait while a slot is processing.               *)

\* The strengthening that makes NeverWaitsWhileBusy inductive: from the time
\* update_slots() has seen a busy slot until the loop goes back to the tasks,
\* NEXT_RESPONSE is in the queue.
NextIsQueued ==
    /\ phase \in {"shift", "prompt", "decode", "sample", "fail"} => HasNext(queue)
    /\ phase = "wait" => HasNext(queue) \/ AllIdle

\* An HTTP thread may post and cancel what it likes.
LEMMA ReaderKeepsNext ==
    ASSUME ConstantsOK, TypeOK, NextIsQueued, NEW r \in Readers, ReaderStep(r) \/ Leave(r)
    PROVE  NextIsQueued'
  <1> USE DEF queueVars, readerVars, slotVars, batchVars, mainVars
  <1>1. UNCHANGED <<phase, state>>
    BY DEF ReaderStep, Register, Post, Receive, Finish, Leave, StopWaiting, Purge,
           CancelOne, CancelDone
  <1>2. HasNext(queue) => HasNext(queue')
    <2>1. CASE Post(r)
      <3> DEFINE new == [i \in DOMAIN Posted[r] |-> Work(Posted[r][i])]
      <3>1. Posted[r] \in Seq(Tasks)
        BY DEF ConstantsOK
      <3>2. new \in Seq(Entries)
        <4>1. DOMAIN Posted[r] = 1 .. Len(Posted[r]) /\ Len(Posted[r]) \in Nat
          BY <3>1
        <4>2. \A i \in DOMAIN Posted[r] : Work(Posted[r][i]) \in Entries
          BY <3>1 DEF Entries
        <4> QED BY <4>1, <4>2
      <3>3. queue' \in {new \o queue, queue \o new}
        BY <2>1 DEF Post
      <3> HIDE DEF new
      <3>4. queue \in Seq(Entries)
        BY DEF TypeOK
      <3>5. HasNext(queue) => HasNext(new \o queue) /\ HasNext(queue \o new)
        BY <3>2, <3>4, HasNextConcat
      <3> QED BY <3>3, <3>5
    <2>2. CASE CancelOne(r)
      <3>1. PICK t \in todo[r] : queue' = <<Cancel(t)>> \o Without(queue, t)
        BY <2>2 DEF CancelOne
      <3>2. /\ Without(queue, t) \in Seq(Entries)
            /\ HasNext(queue) => HasNext(Without(queue, t))
        BY WithoutProperties DEF TypeOK
      <3>3. <<Cancel(t)>> \in Seq(Entries)
        BY DEF Entries, TypeOK
      <3> QED BY <3>1, <3>2, <3>3, HasNextConcat
    <2>3. CASE ~Post(r) /\ ~CancelOne(r)
      BY <2>3 DEF ReaderStep, Register, Receive, Finish, Leave, StopWaiting, Purge, CancelDone
    <2> QED BY <2>1, <2>2, <2>3
  <1> QED BY <1>1, <1>2 DEF NextIsQueued, AllIdle, Idle

\* The main thread posts NEXT_RESPONSE before it leaves the phase "update" with
\* a busy slot, and takes it out only when it drains the queue.
LEMMA MainKeepsNext ==
    ASSUME ConstantsOK, TypeOK, NextIsQueued, MainStep
    PROVE  NextIsQueued'
  <1> USE DEF queueVars, readerVars, slotVars, batchVars, mainVars, At
  <1>1. CASE Release
    <2>1. UNCHANGED phase /\ state' = [state EXCEPT ![releasing] = "IDLE"]
      BY <1>1 DEF Release
    <2>2. HasNext(queue) => HasNext(queue')
      <3>1. CASE UNCHANGED queueVars
        BY <3>1
      <3>2. CASE \E i \in NextDeferred(releasing) : queue' = <<deferred[i]>> \o queue
        <4>1. PICK i \in NextDeferred(releasing) : queue' = <<deferred[i]>> \o queue
          BY <3>2
        <4>2. i \in DOMAIN deferred
          BY DEF NextDeferred
        <4>3. deferred[i] \in Entries
          BY <4>2 DEF TypeOK, Entries
        <4>4. <<deferred[i]>> \in Seq(Entries)
          BY <4>3
        <4> QED BY <4>1, <4>4, HasNextConcat DEF TypeOK
      <3> QED BY <1>1, <3>1, <3>2 DEF Release
    <2>3. AllIdle => AllIdle'
      BY <2>1 DEF AllIdle, Idle, TypeOK
    <2> QED BY <2>1, <2>2, <2>3 DEF NextIsQueued
  <1>2. CASE PopTask \/ Drained \/ WakeUp
    BY <1>2 DEF PopTask, Drained, WakeUp, NextIsQueued
  <1>3. CASE TaskStep
    <2>1. phase' \in {"drain", "unlaunch"}
      BY <1>3 DEF TaskStep, ProcessNext, ProcessCancel, ProcessQuick, ProcessSlotAction,
                  ProcessDefer, Launch, LaunchFails, Unlaunch, Unlaunched, TaskDone
    <2> QED BY <2>1 DEF NextIsQueued
  <1>4. CASE UpdateIdle
    BY <1>4 DEF UpdateIdle, NextIsQueued, AllIdle, Idle
  <1>5. CASE UpdateBusy
    <2>1. NextResponse \in Entries
      BY DEF Entries
    <2>2. queue' = Append(queue, NextResponse)
      BY <1>5 DEF UpdateBusy, PostNext
    <2>3. Len(queue) + 1 \in DOMAIN queue' /\ queue'[Len(queue) + 1] = NextResponse
      BY <2>1, <2>2, AppendProperties DEF TypeOK
    <2> QED BY <1>5, <2>3 DEF UpdateBusy, NextIsQueued, HasNext
  <1>6. CASE UpdateStep /\ ~UpdateIdle /\ ~UpdateBusy
    <2>1. phase \in {"shift", "prompt", "decode", "sample", "fail"} /\ UNCHANGED queue
      BY <1>6 DEF UpdateStep, ShiftFails, BatchSampled, SkipSlot, AtSlot, RejectPrompt,
                  BatchPrompt, ImageFails, BatchBuilt, EmptyBatch, DecodeOK, DecodeFails,
                  SendEmbedding, SampleToken, SampleLast, Sampled, FailSlot, Failed
    <2> QED BY <2>1 DEF NextIsQueued
  <1> QED BY <1>1, <1>2, <1>3, <1>4, <1>5, <1>6 DEF MainStep, LoopStep

\* The main thread never waits for new tasks while a slot is processing: no
\* interleaving of posts, cancellations and releases takes the NEXT_RESPONSE of
\* update_slots() out of the queue before the loop has seen it.
THEOREM NeverWaitsWhileBusyAlways == Spec => []NeverWaitsWhileBusy
  <1>1. Init => NextIsQueued
    BY DEF Init, NextIsQueued
  <1>2. TypeOK /\ NextIsQueued /\ [Next]_vars => NextIsQueued'
    <2> SUFFICES ASSUME TypeOK, NextIsQueued, [Next]_vars PROVE NextIsQueued'
      OBVIOUS
    <2>1. CASE MainStep
      BY <2>1, ConstantsOK, MainKeepsNext
    <2>2. ASSUME NEW r \in Readers, ReaderStep(r) \/ Leave(r) PROVE NextIsQueued'
      BY <2>2, ConstantsOK, ReaderKeepsNext
    <2>3. CASE UNCHANGED vars
      BY <2>3 DEF vars, queueVars, slotVars, mainVars, NextIsQueued, AllIdle, Idle
    <2>4. CASE Rest
      BY <2>3, <2>4 DEF Rest
    <2> QED BY <2>1, <2>2, <2>3, <2>4 DEF Next
  <1>3. NextIsQueued => NeverWaitsWhileBusy
    BY DEF NextIsQueued, NeverWaitsWhileBusy, HasNext, At
  <1> QED BY <1>1, <1>2, <1>3, TypeCorrect, PTL DEF Spec

-----------------------------------------------------------------------------
(* Where an entry is in a sequence.                                        *)

Has(seq, e)    == \E i \in DOMAIN seq : seq[i] = e
Single(seq, e) == \A i, j \in DOMAIN seq : seq[i] = e /\ seq[j] = e => i = j

\* A concatenation, element by element.
LEMMA ConcatIndex ==
    ASSUME NEW S, NEW s \in Seq(S), NEW t \in Seq(S)
    PROVE  /\ Len(s) \in Nat /\ Len(t) \in Nat
           /\ DOMAIN s = 1 .. Len(s) /\ DOMAIN t = 1 .. Len(t)
           /\ DOMAIN (s \o t) = 1 .. Len(s) + Len(t)
           /\ \A i \in 1 .. Len(s) + Len(t) : (s \o t)[i] =
                 IF i <= Len(s) THEN s[i] ELSE t[i - Len(s)]
  <1>1. /\ s \o t \in Seq(S)
        /\ Len(s \o t) = Len(s) + Len(t)
        /\ \A i \in 1 .. Len(s) + Len(t) : (s \o t)[i] =
              IF i <= Len(s) THEN s[i] ELSE t[i - Len(s)]
    BY ConcatProperties
  <1>2. DOMAIN (s \o t) = 1 .. Len(s \o t)
    BY <1>1, LenProperties
  <1> QED BY <1>1, <1>2

\* An entry is in a concatenation when it is in one of the parts.
LEMMA HasConcat ==
    ASSUME NEW S, NEW s \in Seq(S), NEW t \in Seq(S), NEW e
    PROVE  Has(s \o t, e) <=> Has(s, e) \/ Has(t, e)
  <1> DEFINE m == Len(s)
             n == Len(t)
             st == s \o t
  <1>1. /\ m \in Nat /\ n \in Nat /\ DOMAIN s = 1 .. m /\ DOMAIN t = 1 .. n
        /\ DOMAIN st = 1 .. m + n
        /\ \A i \in 1 .. m + n : st[i] = IF i <= m THEN s[i] ELSE t[i - m]
    BY ConcatIndex
  <1> HIDE DEF m, n, st
  <1>2. ASSUME Has(st, e) PROVE Has(s, e) \/ Has(t, e)
    <2>1. PICK i \in 1 .. m + n : st[i] = e
      BY <1>1, <1>2 DEF Has
    <2>2. CASE i <= m
      <3>1. i \in 1 .. m /\ s[i] = e
        BY <1>1, <2>1, <2>2
      <3> QED BY <1>1, <3>1 DEF Has
    <2>3. CASE ~(i <= m)
      <3>1. i - m \in 1 .. n /\ t[i - m] = e
        BY <1>1, <2>1, <2>3
      <3> QED BY <1>1, <3>1 DEF Has
    <2> QED BY <2>2, <2>3
  <1>3. ASSUME Has(s, e) PROVE Has(st, e)
    <2>1. PICK i \in 1 .. m : s[i] = e
      BY <1>1, <1>3 DEF Has
    <2>2. i \in 1 .. m + n /\ st[i] = e
      BY <1>1, <2>1
    <2> QED BY <1>1, <2>2 DEF Has
  <1>4. ASSUME Has(t, e) PROVE Has(st, e)
    <2>1. PICK i \in 1 .. n : t[i] = e
      BY <1>1, <1>4 DEF Has
    <2>2. m + i \in 1 .. m + n /\ ~(m + i <= m) /\ m + i - m = i
      BY <1>1, <2>1
    <2>3. st[m + i] = e
      BY <1>1, <2>1, <2>2
    <2> QED BY <1>1, <2>2, <2>3 DEF Has
  <1> QED BY <1>2, <1>3, <1>4 DEF st

\* It is there once when it is once in one part and not in the other.
LEMMA SingleConcat ==
    ASSUME NEW S, NEW s \in Seq(S), NEW t \in Seq(S), NEW e,
           Single(s, e), Single(t, e), ~(Has(s, e) /\ Has(t, e))
    PROVE  Single(s \o t, e)
  <1> DEFINE m == Len(s)
             n == Len(t)
             st == s \o t
  <1>1. /\ m \in Nat /\ n \in Nat /\ DOMAIN s = 1 .. m /\ DOMAIN t = 1 .. n
        /\ DOMAIN st = 1 .. m + n
        /\ \A i \in 1 .. m + n : st[i] = IF i <= m THEN s[i] ELSE t[i - m]
    BY ConcatIndex
  <1> HIDE DEF m, n, st
  <1>2. SUFFICES ASSUME NEW i \in 1 .. m + n, NEW j \in 1 .. m + n, st[i] = e, st[j] = e
                 PROVE  i = j
    BY <1>1 DEF Single, st
  <1>3. CASE i <= m /\ j <= m
    <2>1. i \in 1 .. m /\ j \in 1 .. m /\ s[i] = e /\ s[j] = e
      BY <1>1, <1>2, <1>3
    <2> QED BY <1>1, <2>1 DEF Single
  <1>4. CASE ~(i <= m) /\ ~(j <= m)
    <2>1. i - m \in 1 .. n /\ j - m \in 1 .. n /\ t[i - m] = e /\ t[j - m] = e
      BY <1>1, <1>2, <1>4
    <2>2. i - m = j - m
      BY <1>1, <2>1 DEF Single
    <2> QED BY <1>1, <2>2
  <1>5. CASE (i <= m) # (j <= m)
    <2>1. PICK x \in 1 .. m + n, y \in 1 .. m + n :
             x <= m /\ ~(y <= m) /\ st[x] = e /\ st[y] = e
      BY <1>2, <1>5
    <2>2. x \in 1 .. m /\ s[x] = e /\ y - m \in 1 .. n /\ t[y - m] = e
      BY <1>1, <2>1
    <2> QED BY <1>1, <2>2 DEF Has
  <1> QED BY <1>3, <1>4, <1>5

\* A sequence of one entry.
LEMMA HasOne ==
    ASSUME NEW x, NEW e
    PROVE  (Has(<<x>>, e) <=> x = e) /\ Single(<<x>>, e)
  <1>1. DOMAIN <<x>> = {1} /\ <<x>>[1] = x
    OBVIOUS
  <1> QED BY <1>1 DEF Has, Single

\* The empty sequence.
LEMMA HasNone == ASSUME NEW e PROVE ~Has(<<>>, e) /\ Single(<<>>, e)
  <1>1. DOMAIN <<>> = {}
    OBVIOUS
  <1> QED BY <1>1 DEF Has, Single

\* The front of a sequence and what is behind it.
LEMMA HasHeadTail ==
    ASSUME NEW S, NEW seq \in Seq(S), seq # <<>>, NEW e
    PROVE  /\ Has(seq, e) <=> Head(seq) = e \/ Has(Tail(seq), e)
           /\ Single(seq, e) => /\ Single(Tail(seq), e)
                                /\ Head(seq) = e => ~Has(Tail(seq), e)
  <1> DEFINE n == Len(seq)
             tl == Tail(seq)
             hd == Head(seq)
  <1>1. /\ n \in Nat /\ n > 0 /\ DOMAIN seq = 1 .. n /\ DOMAIN tl = 1 .. n - 1
        /\ hd = seq[1] /\ \A i \in 1 .. n - 1 : tl[i] = seq[i + 1]
    BY HeadTailProperties, EmptySeq, LenProperties
  <1> HIDE DEF n, tl, hd
  <1>2. ASSUME Has(seq, e) PROVE hd = e \/ Has(tl, e)
    <2>1. PICK i \in 1 .. n : seq[i] = e
      BY <1>1, <1>2 DEF Has
    <2>2. CASE i = 1
      BY <1>1, <2>1, <2>2
    <2>3. CASE i # 1
      <3>1. i - 1 \in 1 .. n - 1 /\ tl[i - 1] = e
        BY <1>1, <2>1, <2>3
      <3> QED BY <1>1, <3>1 DEF Has
    <2> QED BY <2>2, <2>3
  <1>3. ASSUME hd = e \/ Has(tl, e) PROVE Has(seq, e)
    <2>1. CASE hd = e
      <3>1. 1 \in 1 .. n /\ seq[1] = e
        BY <1>1, <2>1
      <3> QED BY <1>1, <3>1 DEF Has
    <2>2. CASE Has(tl, e)
      <3>1. PICK i \in 1 .. n - 1 : tl[i] = e
        BY <1>1, <2>2 DEF Has
      <3>2. i + 1 \in 1 .. n /\ seq[i + 1] = e
        BY <1>1, <3>1
      <3> QED BY <1>1, <3>2 DEF Has
    <2> QED BY <1>3, <2>1, <2>2
  <1>4. ASSUME Single(seq, e) PROVE Single(tl, e) /\ (hd = e => ~Has(tl, e))
    <2>1. ASSUME NEW i \in 1 .. n - 1, NEW j \in 1 .. n - 1, tl[i] = e, tl[j] = e
          PROVE  i = j
      <3>1. i + 1 \in 1 .. n /\ j + 1 \in 1 .. n /\ seq[i + 1] = e /\ seq[j + 1] = e
        BY <1>1, <2>1
      <3>2. i + 1 = j + 1
        BY <1>1, <1>4, <3>1 DEF Single
      <3> QED BY <3>2
    <2>2. ASSUME hd = e, NEW i \in 1 .. n - 1, tl[i] = e PROVE FALSE
      <3>1. 1 \in 1 .. n /\ i + 1 \in 1 .. n /\ seq[1] = e /\ seq[i + 1] = e
        BY <1>1, <2>2
      <3>2. 1 = i + 1
        BY <1>1, <1>4, <3>1 DEF Single
      <3> QED BY <3>2
    <2> QED BY <1>1, <2>1, <2>2 DEF Single, Has
  <1> QED BY <1>2, <1>3, <1>4 DEF tl, hd

\* Taking the element at i out of a sequence.
LEMMA HasRemoveAt ==
    ASSUME NEW S, NEW seq \in Seq(S), NEW i \in DOMAIN seq, NEW e
    PROVE  /\ Has(RemoveAt(seq, i), e) => Has(seq, e)
           /\ e # seq[i] => (Has(seq, e) => Has(RemoveAt(seq, i), e))
           /\ Single(seq, e) => Single(RemoveAt(seq, i), e)
           /\ Single(seq, e) /\ e = seq[i] => ~Has(RemoveAt(seq, i), e)
  <1> DEFINE n == Len(seq)
             rest == RemoveAt(seq, i)
  <1>1. /\ DOMAIN rest = 1 .. n - 1
        /\ \A k \in 1 .. n - 1 : rest[k] = IF k < i THEN seq[k] ELSE seq[k + 1]
        /\ n \in Nat /\ i \in 1 .. n /\ DOMAIN seq = 1 .. n
    <2> DEFINE front == SubSeq(seq, 1, i - 1)
               back  == SubSeq(seq, i + 1, n)
    <2>1. i \in 1 .. n /\ DOMAIN seq = 1 .. n /\ n \in Nat
      OBVIOUS
    <2>2. /\ front \in Seq(S) /\ Len(front) = i - 1
          /\ \A k \in 1 .. i - 1 : front[k] = seq[k]
      <3>1. 1 \in 1 .. n + 1 /\ i - 1 \in 1 - 1 .. n
        BY <2>1
      <3> QED BY <2>1, <3>1, PartProperties
    <2>3. /\ back \in Seq(S) /\ Len(back) = n - i
          /\ \A k \in 1 .. n - i : back[k] = seq[i + k]
      <3>1. i + 1 \in 1 .. n + 1 /\ n \in i + 1 - 1 .. n
        BY <2>1
      <3> QED BY <2>1, <3>1, PartProperties
    <2>4. rest = front \o back
      BY DEF RemoveAt
    <2> HIDE DEF front, back, rest, n
    <2>5. /\ DOMAIN rest = 1 .. (i - 1) + (n - i)
          /\ \A k \in 1 .. (i - 1) + (n - i) : rest[k] =
                IF k <= i - 1 THEN front[k] ELSE back[k - (i - 1)]
      BY <2>2, <2>3, <2>4, ConcatIndex
    <2>6. (i - 1) + (n - i) = n - 1
      BY <2>1
    <2>7. ASSUME NEW k \in 1 .. n - 1
          PROVE  rest[k] = IF k < i THEN seq[k] ELSE seq[k + 1]
      <3>1. CASE k < i
        BY <2>1, <2>2, <2>5, <2>6, <3>1
      <3>2. CASE ~(k < i)
        <4>1. ~(k <= i - 1) /\ k - (i - 1) \in 1 .. n - i /\ i + (k - (i - 1)) = k + 1
          BY <2>1, <3>2
        <4> QED BY <2>3, <2>5, <2>6, <3>2, <4>1
      <3> QED BY <3>1, <3>2
    <2> QED BY <2>1, <2>5, <2>6, <2>7
  <1> HIDE DEF n, rest
  <1>2. ASSUME NEW k \in 1 .. n - 1
        PROVE  \E m \in 1 .. n : m # i /\ rest[k] = seq[m] /\ m = IF k < i THEN k ELSE k + 1
    BY <1>1
  <1>3. Has(rest, e) => Has(seq, e)
    BY <1>1, <1>2 DEF Has
  <1>4. ASSUME e # seq[i], Has(seq, e) PROVE Has(rest, e)
    <2>1. PICK m \in 1 .. n : seq[m] = e
      BY <1>1, <1>4 DEF Has
    <2>2. m # i
      BY <1>4, <2>1
    <2>3. CASE m < i
      <3>1. m \in 1 .. n - 1 /\ rest[m] = e
        BY <1>1, <2>1, <2>3
      <3> QED BY <1>1, <3>1 DEF Has
    <2>4. CASE m > i
      <3>1. m - 1 \in 1 .. n - 1 /\ rest[m - 1] = e
        BY <1>1, <2>1, <2>4
      <3> QED BY <1>1, <3>1 DEF Has
    <2> QED BY <1>1, <2>2, <2>3, <2>4
  <1>5. ASSUME Single(seq, e) PROVE Single(rest, e)
    <2>1. SUFFICES ASSUME NEW k \in 1 .. n - 1, NEW l \in 1 .. n - 1, rest[k] = e, rest[l] = e
                   PROVE  k = l
      BY <1>1 DEF Single
    <2>2. PICK kk \in 1 .. n : rest[k] = seq[kk] /\ kk = IF k < i THEN k ELSE k + 1
      BY <1>2
    <2>3. PICK ll \in 1 .. n : rest[l] = seq[ll] /\ ll = IF l < i THEN l ELSE l + 1
      BY <1>2
    <2>4. kk = ll
      BY <1>1, <1>5, <2>1, <2>2, <2>3 DEF Single
    <2> QED BY <1>1, <2>2, <2>3, <2>4
  <1>6. ASSUME Single(seq, e), e = seq[i] PROVE ~Has(rest, e)
    <2>1. SUFFICES ASSUME NEW k \in 1 .. n - 1, rest[k] = e PROVE FALSE
      BY <1>1 DEF Has
    <2>2. PICK m \in 1 .. n : m # i /\ rest[k] = seq[m]
      BY <1>2
    <2> QED BY <1>1, <1>6, <2>1, <2>2 DEF Single
  <1> QED BY <1>3, <1>4, <1>5, <1>6 DEF rest

\* cleanup_pending_task() takes out the entry of task t and no other.
LEMMA HasWithout ==
    ASSUME NEW S, NEW seq \in Seq(S), NEW t, NEW e
    PROVE  /\ Has(Without(seq, t), e) => Has(seq, e)
           /\ e # Work(t) => (Has(seq, e) => Has(Without(seq, t), e))
           /\ Single(seq, e) => Single(Without(seq, t), e)
           /\ Single(seq, Work(t)) => ~Has(Without(seq, t), Work(t))
  <1>1. CASE Has(seq, Work(t))
    <2> DEFINE i == CHOOSE i \in DOMAIN seq : seq[i] = Work(t)
    <2>1. i \in DOMAIN seq /\ seq[i] = Work(t)
      BY <1>1 DEF Has
    <2>2. Without(seq, t) = RemoveAt(seq, i)
      BY <1>1 DEF Without, Has
    <2> HIDE DEF i
    <2> QED BY <2>1, <2>2, HasRemoveAt
  <1>2. CASE ~Has(seq, Work(t))
    <2>1. Without(seq, t) = seq
      BY <1>2 DEF Without, Has
    <2> QED BY <1>2, <2>1
  <1> QED BY <1>1, <1>2

-----------------------------------------------------------------------------
(* Which step changes what.                                                *)

\* Entries of different kinds or of different tasks differ.
LEMMA EntryNames ==
    ASSUME NEW t, NEW u
    PROVE  /\ Work(t) = Work(u) <=> t = u
           /\ Cancel(t) = Cancel(u) <=> t = u
           /\ Work(t) # Cancel(u) /\ Work(t) # NextResponse /\ Cancel(t) # NextResponse
           /\ NoEntry # Work(t) /\ NoEntry # Cancel(t)
           /\ Work(t).type = "work" /\ Work(t).task = t
           /\ Cancel(t).type = "cancel" /\ Cancel(t).task = t
           /\ NextResponse.type = "next" /\ NoEntry.type = "none"
  BY DEF Work, Cancel, NextResponse, NoEntry

\* An entry names its task.
LEMMA WorkNames == \A t, u : Work(t) = Work(u) <=> t = u
  BY EntryNames

\* A sequence of one entry has that entry.
LEMMA OneEntry ==
    ASSUME NEW t, NEW u
    PROVE  /\ Has(<<Work(t)>>, Work(u)) <=> u = t
           /\ Has(<<Cancel(t)>>, Cancel(u)) <=> u = t
           /\ ~Has(<<Work(t)>>, Cancel(u)) /\ ~Has(<<Cancel(t)>>, Work(u))
           /\ ~Has(<<NextResponse>>, Work(u)) /\ ~Has(<<NextResponse>>, Cancel(u))
           /\ Single(<<Work(t)>>, Work(u)) /\ Single(<<Cancel(t)>>, Work(u))
           /\ Single(<<NextResponse>>, Work(u))
  <1>1. /\ Has(<<Work(t)>>, Work(u)) <=> Work(t) = Work(u)
        /\ Has(<<Cancel(t)>>, Cancel(u)) <=> Cancel(t) = Cancel(u)
        /\ Has(<<Work(t)>>, Cancel(u)) <=> Work(t) = Cancel(u)
        /\ Has(<<Cancel(t)>>, Work(u)) <=> Cancel(t) = Work(u)
        /\ Has(<<NextResponse>>, Work(u)) <=> NextResponse = Work(u)
        /\ Has(<<NextResponse>>, Cancel(u)) <=> NextResponse = Cancel(u)
    BY HasOne, Zenon
  <1>2. /\ Single(<<Work(t)>>, Work(u)) /\ Single(<<Cancel(t)>>, Work(u))
        /\ Single(<<NextResponse>>, Work(u))
    BY HasOne, Zenon
  <1> QED BY <1>1, <1>2, EntryNames, Zenon

\* The main thread leaves the state of the HTTP threads alone, and few of its
\* steps touch the queues and the slots.
LEMMA MainFrame ==
    ASSUME MainStep
    PROVE  /\ UNCHANGED <<pc, todo, received, got, waiting>>
           /\ Release \/ PopTask \/ UpdateBusy \/ UNCHANGED queue
           /\ Release \/ ProcessDefer \/ UNCHANGED deferred
           /\ Release \/ Launch \/ LaunchFails \/ UNCHANGED task
           /\ PopTask \/ cur' = NoEntry \/ UNCHANGED cur
  <1> USE DEF queueVars, readerVars, slotVars, batchVars, mainVars
  <1>1. CASE LoopStep
    BY <1>1 DEF LoopStep, PopTask, Drained, WakeUp, Release
  <1>2. CASE TaskStep
    BY <1>2 DEF TaskStep, ProcessNext, ProcessCancel, ProcessQuick, ProcessSlotAction,
                ProcessDefer, Launch, LaunchFails, Unlaunch, Unlaunched, TaskDone, Defer
  <1>3. CASE UpdateStep
    BY <1>3 DEF UpdateStep, UpdateIdle, UpdateBusy, ShiftFails, BatchSampled, SkipSlot,
                RejectPrompt, BatchPrompt, ImageFails, BatchBuilt, EmptyBatch, DecodeOK,
                DecodeFails, SendEmbedding, SampleToken, SampleLast, Sampled, FailSlot, Failed
  <1> QED BY <1>1, <1>2, <1>3 DEF MainStep

\* An HTTP thread leaves the main thread and the slots alone, and touches the
\* queues only when it posts and when it cancels.
LEMMA ReaderFrame ==
    ASSUME NEW r, ReaderStep(r) \/ Leave(r)
    PROVE  /\ UNCHANGED <<phase, cur, releasing, state, task, decoded, at, batch, ready, nEmpty>>
           /\ Post(r) \/ CancelOne(r) \/ UNCHANGED <<queue, deferred>>
  BY DEF ReaderStep, Register, Post, Receive, Finish, Leave, StopWaiting, Purge, CancelOne,
         CancelDone, queueVars, readerVars, slotVars, batchVars, mainVars

\* The entries that a reader posts.
NewEntries(r) == [i \in DOMAIN Posted[r] |-> Work(Posted[r][i])]

\* They are one for each task it posts.
LEMMA NewEntriesHas ==
    ASSUME ConstantsOK, RequestsOK, NEW r \in Readers, NEW t
    PROVE  /\ NewEntries(r) \in Seq(Entries)
           /\ Has(NewEntries(r), Work(t)) <=> t \in TopTasks(r)
           /\ Single(NewEntries(r), Work(t))
           /\ ~Has(NewEntries(r), Cancel(t))
  <1>1. Posted[r] \in Seq(Tasks)
    BY DEF ConstantsOK
  <1>2. NewEntries(r) \in Seq(Entries)
    <2>1. DOMAIN Posted[r] = 1 .. Len(Posted[r]) /\ Len(Posted[r]) \in Nat
      BY <1>1
    <2>2. \A i \in DOMAIN Posted[r] : Work(Posted[r][i]) \in Entries
      BY <1>1 DEF Entries
    <2> QED BY <2>1, <2>2 DEF NewEntries
  <1>3. /\ DOMAIN NewEntries(r) = DOMAIN Posted[r]
        /\ \A i \in DOMAIN Posted[r] : NewEntries(r)[i] = Work(Posted[r][i])
    BY DEF NewEntries
  <1>4. Has(NewEntries(r), Work(t)) <=> t \in TopTasks(r)
    <2>1. \A i \in DOMAIN Posted[r] : NewEntries(r)[i] = Work(t) <=> Posted[r][i] = t
      BY <1>3, WorkNames
    <2>2. Has(NewEntries(r), Work(t)) <=> \E i \in DOMAIN Posted[r] : Posted[r][i] = t
      BY <1>3, <2>1 DEF Has
    <2>3. t \in TopTasks(r) <=> \E i \in DOMAIN Posted[r] : Posted[r][i] = t
      BY DEF TopTasks
    <2> QED BY <2>2, <2>3
  <1>5. Single(NewEntries(r), Work(t))
    <2>1. \A i, j \in DOMAIN Posted[r] : Posted[r][i] = Posted[r][j] => i = j
      BY DEF RequestsOK
    <2>2. \A i \in DOMAIN Posted[r] : NewEntries(r)[i] = Work(t) <=> Posted[r][i] = t
      BY <1>3, WorkNames
    <2> QED BY <1>3, <2>1, <2>2 DEF Single
  <1>6. ~Has(NewEntries(r), Cancel(t))
    BY <1>3, EntryNames DEF Has
  <1> QED BY <1>2, <1>4, <1>5, <1>6

\* What post() does to the queue.
LEMMA PostHas ==
    ASSUME ConstantsOK, RequestsOK, TypeOK, NEW r \in Readers, Post(r), NEW t
    PROVE  /\ Has(queue', Work(t)) <=> Has(queue, Work(t)) \/ t \in TopTasks(r)
           /\ Single(queue, Work(t)) /\ ~(Has(queue, Work(t)) /\ t \in TopTasks(r))
                 => Single(queue', Work(t))
           /\ Has(queue', Cancel(t)) <=> Has(queue, Cancel(t))
           /\ UNCHANGED deferred
  <1>1. queue' \in {NewEntries(r) \o queue, queue \o NewEntries(r)} /\ UNCHANGED deferred
    BY DEF Post, NewEntries
  <1>2. queue \in Seq(Entries)
    BY DEF TypeOK
  <1> DEFINE new == NewEntries(r)
  <1>3. /\ new \in Seq(Entries)
        /\ Has(new, Work(t)) <=> t \in TopTasks(r)
        /\ Single(new, Work(t))
        /\ ~Has(new, Cancel(t))
    BY NewEntriesHas
  <1> HIDE DEF new
  <1>4. \A e : /\ Has(new \o queue, e) <=> Has(new, e) \/ Has(queue, e)
               /\ Has(queue \o new, e) <=> Has(new, e) \/ Has(queue, e)
    BY <1>2, <1>3, HasConcat
  <1>5. Single(queue, Work(t)) /\ ~(Has(queue, Work(t)) /\ Has(new, Work(t)))
           => Single(new \o queue, Work(t)) /\ Single(queue \o new, Work(t))
    BY <1>2, <1>3, SingleConcat
  <1>6. queue' = new \o queue \/ queue' = queue \o new
    BY <1>1 DEF new
  <1>7. \A e : Has(queue', e) <=> Has(new, e) \/ Has(queue, e)
    <2>1. CASE queue' = new \o queue
      BY <1>4, <2>1, Zenon
    <2>2. CASE queue' = queue \o new
      BY <1>4, <2>2, Zenon
    <2> QED BY <1>6, <2>1, <2>2
  <1>8. Single(queue, Work(t)) /\ ~(Has(queue, Work(t)) /\ Has(new, Work(t)))
           => Single(queue', Work(t))
    BY <1>5, <1>6
  <1> QED BY <1>1, <1>3, <1>7, <1>8

\* What one round of the posting loop of stop() does to the queues.
LEMMA CancelHas ==
    ASSUME ConstantsOK, TypeOK, NEW t \in Tasks, NEW u \in Tasks,
           queue' = <<Cancel(t)>> \o Without(queue, t),
           deferred' = Without(deferred, t)
    PROVE  /\ Has(queue', Work(u)) => Has(queue, Work(u))
           /\ Has(deferred', Work(u)) => Has(deferred, Work(u))
           /\ u # t /\ Has(queue, Work(u)) => Has(queue', Work(u))
           /\ u # t /\ Has(deferred, Work(u)) => Has(deferred', Work(u))
           /\ Single(queue, Work(u)) => Single(queue', Work(u))
           /\ Single(deferred, Work(u)) => Single(deferred', Work(u))
           /\ Has(queue', Cancel(u)) <=> u = t \/ Has(queue, Cancel(u))
  <1>1. queue \in Seq(Entries) /\ deferred \in Seq({Work(x) : x \in Tasks})
    BY DEF TypeOK
  <1>2. Without(queue, t) \in Seq(Entries)
    BY <1>1, WithoutProperties
  <1>3. <<Cancel(t)>> \in Seq(Entries)
    BY DEF Entries
  <1>4. ~Has(<<Cancel(t)>>, Work(u)) /\ (Has(<<Cancel(t)>>, Cancel(u)) <=> u = t)
        /\ Single(<<Cancel(t)>>, Work(u))
    BY OneEntry
  <1>5. /\ Has(queue', Work(u)) <=> Has(Without(queue, t), Work(u))
        /\ Has(queue', Cancel(u)) <=> u = t \/ Has(Without(queue, t), Cancel(u))
        /\ Single(Without(queue, t), Work(u)) => Single(queue', Work(u))
    BY <1>2, <1>3, <1>4, HasConcat, SingleConcat
  <1>6. /\ Has(Without(queue, t), Work(u)) => Has(queue, Work(u))
        /\ u # t /\ Has(queue, Work(u)) => Has(Without(queue, t), Work(u))
        /\ Single(queue, Work(u)) => Single(Without(queue, t), Work(u))
        /\ Has(Without(queue, t), Cancel(u)) <=> Has(queue, Cancel(u))
    BY <1>1, HasWithout, EntryNames
  <1>7. /\ Has(deferred', Work(u)) => Has(deferred, Work(u))
        /\ u # t /\ Has(deferred, Work(u)) => Has(deferred', Work(u))
        /\ Single(deferred, Work(u)) => Single(deferred', Work(u))
    BY <1>1, HasWithout, EntryNames
  <1> QED BY <1>5, <1>6, <1>7

\* What pop_deferred_task() does to the queues, when it finds a task.
LEMMA PopDeferredHas ==
    ASSUME ConstantsOK, TypeOK, NEW i \in DOMAIN deferred, NEW u \in Tasks,
           queue' = <<deferred[i]>> \o queue,
           deferred' = RemoveAt(deferred, i)
    PROVE  \E t \in Tasks :
              /\ deferred[i] = Work(t) /\ Has(deferred, Work(t))
              /\ Has(queue', Work(u)) <=> u = t \/ Has(queue, Work(u))
              /\ Has(deferred', Work(u)) => Has(deferred, Work(u))
              /\ u # t /\ Has(deferred, Work(u)) => Has(deferred', Work(u))
              /\ Single(deferred, Work(u)) => Single(deferred', Work(u))
              /\ Single(deferred, Work(u)) /\ u = t => ~Has(deferred', Work(u))
              /\ Single(queue, Work(u)) /\ ~(u = t /\ Has(queue, Work(u))) => Single(queue', Work(u))
              /\ Has(queue', Cancel(u)) <=> Has(queue, Cancel(u))
  <1>1. queue \in Seq(Entries) /\ deferred \in Seq({Work(x) : x \in Tasks})
    BY DEF TypeOK
  <1>2. PICK t \in Tasks : deferred[i] = Work(t)
    BY <1>1
  <1>3. <<Work(t)>> \in Seq(Entries)
    BY DEF Entries
  <1>4. (Has(<<Work(t)>>, Work(u)) <=> u = t) /\ ~Has(<<Work(t)>>, Cancel(u))
        /\ Single(<<Work(t)>>, Work(u))
    BY OneEntry
  <1>5. /\ Has(queue', Work(u)) <=> u = t \/ Has(queue, Work(u))
        /\ Has(queue', Cancel(u)) <=> Has(queue, Cancel(u))
        /\ Single(queue, Work(u)) /\ ~(u = t /\ Has(queue, Work(u))) => Single(queue', Work(u))
    BY <1>1, <1>2, <1>3, <1>4, HasConcat, SingleConcat
  <1>6. /\ Has(deferred', Work(u)) => Has(deferred, Work(u))
        /\ u # t /\ Has(deferred, Work(u)) => Has(deferred', Work(u))
        /\ Single(deferred, Work(u)) => Single(deferred', Work(u))
        /\ Single(deferred, Work(u)) /\ u = t => ~Has(deferred', Work(u))
    <2>1. u = t <=> Work(u) = deferred[i]
      BY <1>2, WorkNames
    <2> QED BY <1>1, <2>1, HasRemoveAt
  <1>7. Has(deferred, Work(t))
    BY <1>2 DEF Has
  <1> QED BY <1>2, <1>5, <1>6, <1>7

\* What taking the front of the queue does.
LEMMA PopHas ==
    ASSUME ConstantsOK, TypeOK, PopTask, NEW u \in Tasks
    PROVE  /\ Has(queue, Work(u)) <=> cur' = Work(u) \/ Has(queue', Work(u))
           /\ Single(queue, Work(u)) => /\ Single(queue', Work(u))
                                        /\ cur' = Work(u) => ~Has(queue', Work(u))
           /\ Has(queue, Cancel(u)) <=> cur' = Cancel(u) \/ Has(queue', Cancel(u))
  <1>1. queue \in Seq(Entries)
    BY DEF TypeOK
  <1>2. queue # <<>> /\ cur' = Head(queue) /\ queue' = Tail(queue)
    BY DEF PopTask
  <1> QED BY <1>1, <1>2, HasHeadTail

\* What defer() does.
LEMMA DeferHas ==
    ASSUME ConstantsOK, TypeOK, NEW t \in Tasks, Defer(t), NEW u \in Tasks
    PROVE  /\ Has(deferred', Work(u)) <=> u = t \/ Has(deferred, Work(u))
           /\ Single(deferred, Work(u)) /\ ~(u = t /\ Has(deferred, Work(u))) => Single(deferred', Work(u))
  <1>1. deferred \in Seq({Work(x) : x \in Tasks})
    BY DEF TypeOK
  <1>2. deferred' = deferred \o <<Work(t)>>
    BY <1>1, AppendProperties, ConcatProperties DEF Defer
  <1>3. <<Work(t)>> \in Seq({Work(x) : x \in Tasks})
    OBVIOUS
  <1>4. (Has(<<Work(t)>>, Work(u)) <=> u = t) /\ Single(<<Work(t)>>, Work(u))
    BY OneEntry
  <1> QED BY <1>1, <1>2, <1>3, <1>4, HasConcat, SingleConcat

\* What posting NEXT_RESPONSE does.
LEMMA PostNextHas ==
    ASSUME ConstantsOK, TypeOK, UpdateBusy, NEW u \in Tasks
    PROVE  /\ Has(queue', Work(u)) <=> Has(queue, Work(u))
           /\ Has(queue', Cancel(u)) <=> Has(queue, Cancel(u))
           /\ Single(queue, Work(u)) => Single(queue', Work(u))
  <1>1. queue \in Seq(Entries) /\ NextResponse \in Entries
    BY DEF TypeOK, Entries
  <1>2. queue' = queue \o <<NextResponse>>
    BY <1>1, AppendProperties, ConcatProperties DEF UpdateBusy, PostNext
  <1>3. <<NextResponse>> \in Seq(Entries)
    BY <1>1
  <1>4. /\ ~Has(<<NextResponse>>, Work(u)) /\ Single(<<NextResponse>>, Work(u))
        /\ ~Has(<<NextResponse>>, Cancel(u))
    BY OneEntry
  <1> QED BY <1>1, <1>2, <1>3, <1>4, HasConcat, SingleConcat

-----------------------------------------------------------------------------
(* The HTTP threads: who waits, and who cancels.                           *)

\* A CANCEL is posted by the reader of its task, and processed when that reader
\* is done.
CancelsFromOwner ==
    /\ \A t \in Tasks : Has(queue, Cancel(t)) => pc[Owner[t]] \in {"cancel", "done"}
    /\ \A t \in Tasks : cur = Cancel(t) => pc[Owner[t]] = "done"

\* One reader at a time is in the posting loop of stop(), and it reaches each of
\* its tasks.
OneCanceller == \A r, q \in Readers : pc[r] = "cancel" /\ pc[q] = "cancel" => r = q
CancelsAll ==
    \A r \in Readers :
        /\ todo[r] \subseteq TasksOf(r)
        /\ todo[r] # {} => pc[r] = "cancel"
        /\ pc[r] = "cancel" => \A t \in TasksOf(r) : t \in todo[r] \/ Has(queue, Cancel(t))

\* waiting_task_ids are the ids of the open requests.
WaitingIsOpen == waiting = {t \in Tasks : pc[Owner[t]] \in {"post", "recv", "failed"}}

ReaderInv == CancelsFromOwner /\ OneCanceller /\ CancelsAll /\ WaitingIsOpen

\* Steps of the main thread.
LEMMA ReaderInvMain ==
    ASSUME ConstantsOK, TypeOK, ReaderInv, MainStep
    PROVE  ReaderInv'
  <1>1. /\ UNCHANGED <<pc, todo, waiting>>
        /\ Release \/ PopTask \/ UpdateBusy \/ UNCHANGED queue
        /\ PopTask \/ cur' = NoEntry \/ UNCHANGED cur
    BY MainFrame
  <1>2. ASSUME NEW t \in Tasks
        PROVE  /\ Has(queue', Cancel(t)) => Has(queue, Cancel(t))
               /\ ~PopTask => (Has(queue, Cancel(t)) => Has(queue', Cancel(t)))
    <2>1. CASE Release
      <3>1. CASE UNCHANGED queue
        BY <3>1
      <3>2. CASE \E i \in NextDeferred(releasing) :
                    /\ queue' = <<deferred[i]>> \o queue
                    /\ deferred' = RemoveAt(deferred, i)
        <4>1. PICK i \in DOMAIN deferred : /\ queue' = <<deferred[i]>> \o queue
                                           /\ deferred' = RemoveAt(deferred, i)
          BY <3>2 DEF NextDeferred
        <4> QED BY <4>1, PopDeferredHas
      <3> QED BY <2>1, <3>1, <3>2 DEF Release, queueVars
    <2>2. CASE PopTask
      BY <2>2, PopHas
    <2>3. CASE UpdateBusy
      BY <2>3, PostNextHas
    <2> QED BY <1>1, <2>1, <2>2, <2>3
  <1>3. CancelsFromOwner'
    <2>1. ASSUME NEW t \in Tasks, Has(queue', Cancel(t)) PROVE pc'[Owner[t]] \in {"cancel", "done"}
      BY <1>1, <1>2, <2>1 DEF ReaderInv, CancelsFromOwner
    <2>2. ASSUME NEW t \in Tasks, cur' = Cancel(t) PROVE pc'[Owner[t]] = "done"
      <3>1. CASE PopTask
        <4>1. Has(queue, Cancel(t))
          BY <2>2, <3>1, PopHas
        <4>2. pc[Owner[t]] # "cancel"
          BY <3>1 DEF PopTask, QueueFree, ConstantsOK
        <4> QED BY <1>1, <4>1, <4>2 DEF ReaderInv, CancelsFromOwner
      <3>2. CASE cur' = NoEntry
        BY <2>2, <3>2, EntryNames
      <3>3. CASE UNCHANGED cur
        BY <1>1, <2>2, <3>3 DEF ReaderInv, CancelsFromOwner
      <3> QED BY <1>1, <3>1, <3>2, <3>3
    <2> QED BY <2>1, <2>2 DEF CancelsFromOwner, Cancel
  <1>4. CancelsAll'
    <2>1. ASSUME NEW r \in Readers, pc'[r] = "cancel", NEW t \in TasksOf(r), t \notin todo'[r]
          PROVE  Has(queue', Cancel(t))
      <3>1. t \in Tasks /\ Has(queue, Cancel(t))
        BY <1>1, <2>1 DEF ReaderInv, CancelsAll, TasksOf
      <3>2. ~PopTask
        BY <1>1, <2>1 DEF PopTask, QueueFree
      <3> QED BY <1>2, <3>1, <3>2
    <2> QED BY <1>1, <2>1 DEF ReaderInv, CancelsAll
  <1>5. OneCanceller' /\ WaitingIsOpen'
    BY <1>1 DEF ReaderInv, OneCanceller, WaitingIsOpen
  <1> QED BY <1>3, <1>4, <1>5 DEF ReaderInv

\* Steps of a reader.
LEMMA ReaderInvReader ==
    ASSUME ConstantsOK, RequestsOK, TypeOK, ReaderInv, NEW r \in Readers, ReaderStep(r) \/ Leave(r)
    PROVE  ReaderInv'
  <1> USE DEF queueVars, readerVars
  <1>1. UNCHANGED cur
    BY ReaderFrame
  <1>2. /\ CancelsFromOwner /\ OneCanceller /\ CancelsAll /\ WaitingIsOpen
        /\ Owner \in [Tasks -> Readers]
        /\ pc \in [Readers -> ReaderStates] /\ todo \in [Readers -> SUBSET Tasks]
    BY DEF ReaderInv, ConstantsOK, TypeOK
  <1>3. \A t \in Tasks, q \in Readers : t \in TasksOf(q) <=> Owner[t] = q
    BY DEF TasksOf
  <1>4. CASE \E to \in ReaderStates \ {"cancel"} :
                /\ pc' = [pc EXCEPT ![r] = to]
                /\ pc[r] \notin {"cancel", "done"} /\ UNCHANGED todo
                /\ waiting' = IF to \in {"post", "recv", "failed"} THEN waiting \cup TasksOf(r)
                              ELSE waiting \ TasksOf(r)
                /\ \A t \in Tasks : Has(queue', Cancel(t)) <=> Has(queue, Cancel(t))
    <2>1. PICK to \in ReaderStates \ {"cancel"} :
                /\ pc' = [pc EXCEPT ![r] = to]
                /\ pc[r] \notin {"cancel", "done"} /\ UNCHANGED todo
                /\ waiting' = IF to \in {"post", "recv", "failed"} THEN waiting \cup TasksOf(r)
                              ELSE waiting \ TasksOf(r)
                /\ \A t \in Tasks : Has(queue', Cancel(t)) <=> Has(queue, Cancel(t))
      BY <1>4
    <2>2. CancelsFromOwner'
      <3>1. ASSUME NEW t \in Tasks, pc[Owner[t]] \in {"cancel", "done"} PROVE pc'[Owner[t]] = pc[Owner[t]]
        BY <1>2, <2>1, <3>1
      <3> QED BY <1>1, <1>2, <2>1, <3>1 DEF CancelsFromOwner, Cancel
    <2>3. OneCanceller' /\ CancelsAll'
      BY <1>2, <1>3, <2>1 DEF OneCanceller, CancelsAll, TasksOf
    <2>4. WaitingIsOpen'
      <3>1. \A t \in Tasks : pc'[Owner[t]] = IF Owner[t] = r THEN to ELSE pc[Owner[t]]
        BY <1>2, <2>1
      <3>2. waiting \subseteq Tasks /\ TasksOf(r) \subseteq Tasks
        BY DEF TypeOK, TasksOf
      <3>3. waiting' \subseteq Tasks
        BY <2>1, <3>2
      <3>4. ASSUME NEW t \in Tasks
            PROVE  t \in waiting' <=> pc'[Owner[t]] \in {"post", "recv", "failed"}
        <4>1. t \in waiting <=> pc[Owner[t]] \in {"post", "recv", "failed"}
          BY <1>2 DEF WaitingIsOpen
        <4>2. t \in waiting' <=> IF to \in {"post", "recv", "failed"} THEN t \in waiting \/ t \in TasksOf(r)
                                 ELSE t \in waiting /\ t \notin TasksOf(r)
          BY <2>1
        <4> QED BY <1>3, <3>1, <4>1, <4>2
      <3> QED BY <3>3, <3>4 DEF WaitingIsOpen
    <2> QED BY <2>2, <2>3, <2>4 DEF ReaderInv
  <1>5. CASE Register(r)
    BY <1>4, <1>5 DEF Register, ReaderStates
  <1>6. TasksOf(r) \subseteq Tasks
    BY DEF TasksOf
  <1>7. CASE Post(r)
    <2>1. TasksOf(r) \subseteq waiting
      BY <1>2, <1>3, <1>6, <1>7 DEF Post, WaitingIsOpen
    <2>2. \A t \in Tasks : Has(queue', Cancel(t)) <=> Has(queue, Cancel(t))
      BY <1>7, PostHas
    <2> QED BY <1>4, <1>7, <2>1, <2>2 DEF Post, ReaderStates
  <1>8. CASE Receive(r)
    <2>1. TasksOf(r) \subseteq waiting
      BY <1>2, <1>3, <1>6, <1>8 DEF Receive, WaitingIsOpen
    <2>2. \E to \in {"failed", "recv"} : pc' = [pc EXCEPT ![r] = to]
      BY <1>8 DEF Receive
    <2> QED BY <1>4, <1>8, <2>1, <2>2 DEF Receive, ReaderStates
  <1>9. CASE Finish(r) \/ Leave(r)
    <2>1. \E to \in {"purge", "done"} : pc' = [pc EXCEPT ![r] = to]
      BY <1>9 DEF Finish, Leave, StopWaiting
    <2> QED BY <1>4, <1>9, <2>1 DEF Finish, Leave, StopWaiting, ReaderStates
  <1>10. CASE Purge(r)
    <2>1. /\ pc' = [pc EXCEPT ![r] = "cancel"] /\ todo' = [todo EXCEPT ![r] = TasksOf(r)]
          /\ pc[r] = "purge" /\ UNCHANGED <<queue, waiting>>
          /\ \A q \in Readers : pc[q] # "cancel"
      BY <1>10 DEF Purge, IdTasks, QueueFree
    <2>2. CancelsFromOwner'
      <3>1. ASSUME NEW t \in Tasks, pc[Owner[t]] \in {"cancel", "done"} PROVE pc'[Owner[t]] = pc[Owner[t]]
        BY <1>2, <2>1, <3>1
      <3> QED BY <1>1, <1>2, <2>1, <3>1 DEF CancelsFromOwner, Cancel
    <2>3. OneCanceller' /\ CancelsAll'
      BY <1>2, <1>3, <2>1 DEF OneCanceller, CancelsAll, TasksOf
    <2>4. WaitingIsOpen'
      <3>1. \A t \in Tasks : pc'[Owner[t]] = IF Owner[t] = r THEN "cancel" ELSE pc[Owner[t]]
        BY <1>2, <2>1
      <3> QED BY <1>2, <1>3, <2>1, <3>1 DEF WaitingIsOpen
    <2> QED BY <2>2, <2>3, <2>4 DEF ReaderInv
  <1>11. CASE CancelOne(r)
    <2>1. PICK t \in todo[r] : /\ queue' = <<Cancel(t)>> \o Without(queue, t)
                               /\ deferred' = Without(deferred, t)
                               /\ todo' = [todo EXCEPT ![r] = @ \ {t}]
      BY <1>11 DEF CancelOne
    <2>2. t \in Tasks /\ t \in TasksOf(r) /\ Owner[t] = r
      BY <1>2, <1>3, <2>1 DEF CancelsAll
    <2>3. \A u \in Tasks : Has(queue', Cancel(u)) <=> u = t \/ Has(queue, Cancel(u))
      BY <2>1, <2>2, CancelHas
    <2>4. pc[r] = "cancel" /\ UNCHANGED <<pc, waiting>>
      BY <1>11 DEF CancelOne
    <2>5. CancelsFromOwner'
      BY <1>1, <1>2, <2>2, <2>3, <2>4 DEF CancelsFromOwner, Cancel
    <2>6. CancelsAll'
      <3>1. todo'[r] = todo[r] \ {t} /\ \A q \in Readers : q # r => todo'[q] = todo[q]
        BY <1>2, <2>1
      <3>2. \A q \in Readers : todo'[q] \subseteq todo[q]
        BY <3>1
      <3>3. \A q \in Readers : /\ todo'[q] \subseteq TasksOf(q)
                               /\ todo'[q] # {} => pc'[q] = "cancel"
        BY <1>2, <2>4, <3>2 DEF CancelsAll
      <3>4. ASSUME NEW q \in Readers, pc'[q] = "cancel", NEW u \in TasksOf(q)
            PROVE  u \in todo'[q] \/ Has(queue', Cancel(u))
        <4>1. u \in Tasks /\ pc[q] = "cancel"
          BY <2>4, <3>4 DEF TasksOf
        <4>2. u \in todo[q] \/ Has(queue, Cancel(u))
          BY <1>2, <3>4, <4>1 DEF CancelsAll
        <4>3. u \in todo'[q] \/ u = t \/ Has(queue, Cancel(u))
          BY <3>1, <4>2
        <4> QED BY <2>3, <4>1, <4>3
      <3> QED BY <3>3, <3>4 DEF CancelsAll, TasksOf
    <2>7. OneCanceller' /\ WaitingIsOpen'
      BY <1>2, <2>4 DEF OneCanceller, WaitingIsOpen
    <2> QED BY <2>5, <2>6, <2>7 DEF ReaderInv
  <1>12. CASE CancelDone(r)
    <2>1. /\ pc' = [pc EXCEPT ![r] = "done"] /\ UNCHANGED <<queue, waiting, todo>>
          /\ pc[r] = "cancel" /\ todo[r] = {}
      BY <1>12 DEF CancelDone
    <2>2. CancelsFromOwner'
      <3>1. ASSUME NEW t \in Tasks, pc[Owner[t]] \in {"cancel", "done"}
            PROVE  /\ pc'[Owner[t]] \in {"cancel", "done"}
                   /\ pc[Owner[t]] = "done" => pc'[Owner[t]] = "done"
        BY <1>2, <2>1, <3>1
      <3> QED BY <1>1, <1>2, <2>1, <3>1 DEF CancelsFromOwner, Cancel
    <2>3. OneCanceller' /\ CancelsAll'
      BY <1>2, <1>3, <2>1 DEF OneCanceller, CancelsAll, TasksOf
    <2>4. WaitingIsOpen'
      <3>1. \A t \in Tasks : pc'[Owner[t]] = IF Owner[t] = r THEN "done" ELSE pc[Owner[t]]
        BY <1>2, <2>1
      <3> QED BY <1>2, <1>3, <2>1, <3>1 DEF WaitingIsOpen
    <2> QED BY <2>2, <2>3, <2>4 DEF ReaderInv
  <1> QED BY <1>5, <1>7, <1>8, <1>9, <1>10, <1>11, <1>12 DEF ReaderStep

\* ReaderInv holds.
LEMMA ReaderInvHolds == Spec => []ReaderInv
  <1>1. Init => ReaderInv
    <2> SUFFICES ASSUME Init PROVE ReaderInv
      OBVIOUS
    <2>1. \A t \in Tasks : ~Has(queue, Cancel(t)) /\ cur # Cancel(t)
      BY HasNone, EntryNames DEF Init
    <2> QED BY <2>1, ConstantsOK DEF Init, ReaderInv, CancelsFromOwner, OneCanceller, CancelsAll,
               WaitingIsOpen, ConstantsOK
  <1>2. TypeOK /\ ReaderInv /\ [Next]_vars => ReaderInv'
    <2> SUFFICES ASSUME TypeOK, ReaderInv, [Next]_vars PROVE ReaderInv'
      OBVIOUS
    <2>1. CASE MainStep
      BY <2>1, ConstantsOK, ReaderInvMain
    <2>2. ASSUME NEW r \in Readers, ReaderStep(r) \/ Leave(r) PROVE ReaderInv'
      BY <2>2, ConstantsOK, RequestsOK, ReaderInvReader
    <2>3. CASE UNCHANGED vars
      BY <2>3 DEF vars, queueVars, readerVars, mainVars, ReaderInv, CancelsFromOwner,
                  OneCanceller, CancelsAll, WaitingIsOpen, Cancel, Has
    <2>4. CASE Rest
      BY <2>3, <2>4 DEF Rest
    <2> QED BY <2>1, <2>2, <2>3, <2>4 DEF Next
  <1> QED BY <1>1, <1>2, TypeCorrect, PTL DEF Spec

-----------------------------------------------------------------------------
(* The slots in the batch are at work.                                     *)

\* A slot in the batch has a task, and is not released before the batch is
\* decoded; a slot to be sampled is not released before it is sampled.
BatchIsAtWork ==
    /\ phase \in {"prompt", "decode"} =>
          /\ \A s \in batch : state[s] \in {"PROCESSING_PROMPT", "DONE_PROMPT", "GENERATING"}
          /\ releasing \notin batch
    /\ phase = "sample" => \A s \in ready : state[s] \in {"DONE_PROMPT", "GENERATING"} /\ s # releasing

\* A prompt that is done is sampled before the main thread goes on.
DoneIsSampled ==
    \A s \in Slots : state[s] = "DONE_PROMPT" =>
        \/ phase \in {"prompt", "decode"} /\ s \in batch
        \/ phase = "sample" /\ (s \in ready \/ s = releasing)
        \/ phase \in {"fail", "aborted"}

BatchInv == BatchIsAtWork /\ DoneIsSampled

\* The slots of f have the tasks of T, one each, and the others have not changed.
LaunchedOn(f, T) ==
    /\ DOMAIN f \subseteq Slots
    /\ \A s \in DOMAIN f : Idle(s) /\ f[s] \in T
    /\ \A s, u \in DOMAIN f : f[s] = f[u] => s = u
    /\ \A t \in T : \E s \in DOMAIN f : f[s] = t
    /\ \A s \in Slots : s \notin DOMAIN f => task'[s] = task[s] /\ state'[s] = state[s]
    /\ \A s \in DOMAIN f :
          /\ task'[s] = f[s]
          /\ state'[s] = IF Parent[f[s]] # NoTask THEN "WAIT_OTHER" ELSE "STARTED"

\* What launching does to the slots.
LEMMA LaunchedSlots ==
    ASSUME ConstantsOK, TypeOK, NEW T, T \subseteq Tasks, NEW f \in Placements(T), Launched(f)
    PROVE  LaunchedOn(f, T)
  <1>1. PICK S \in SUBSET {s \in Slots : Idle(s)} :
           /\ Cardinality(S) = Cardinality(T)
           /\ f \in [S -> T] /\ \A t \in T : \E s \in S : f[s] = t
    BY DEF Placements
  <1>2. \A s, u \in S : f[s] = f[u] => s = u
    <2>1. IsFiniteSet(S)
      <3>1. IsFiniteSet(Slots)
        <4>1. 1 \in Int /\ NSlots \in Int
          BY DEF ConstantsOK
        <4> QED BY <4>1, FS_Interval DEF Slots
      <3>2. S \in SUBSET Slots
        BY <1>1
      <3> QED BY <3>1, <3>2, FS_Subset
    <2>2. f \in Surjection(S, T)
      BY <1>1 DEF Surjection
    <2>3. f \in Injection(S, T)
      BY <1>1, <2>1, <2>2, FS_SurjSameCardinalityImpliesInj
    <2> QED BY <2>3 DEF Injection, IsInjective
  <1>3. DOMAIN f = S
    BY <1>1
  <1>4. /\ \A s \in Slots : s \notin DOMAIN f => task'[s] = task[s] /\ state'[s] = state[s]
        /\ \A s \in DOMAIN f :
              /\ task'[s] = f[s]
              /\ state'[s] = IF Parent[f[s]] # NoTask THEN "WAIT_OTHER" ELSE "STARTED"
    BY <1>1, <1>3 DEF Launched
  <1> QED BY <1>1, <1>2, <1>3, <1>4 DEF LaunchedOn

\* The steps of the main thread keep the batch in order.
LEMMA BatchInvMain ==
    ASSUME ConstantsOK, TypeOK, BatchInv, MainStep
    PROVE  BatchInv'
  <1> USE DEF batchVars, slotVars, mainVars, At
  <1>1. CASE Release
    <2>1. /\ UNCHANGED <<phase, batch, ready>> /\ releasing \in Slots /\ releasing' = 0
          /\ state' = [state EXCEPT ![releasing] = "IDLE"]
      BY <1>1 DEF Release, TypeOK
    <2>2. 0 \notin Slots
      BY DEF Slots
    <2> QED BY <2>1, <2>2 DEF BatchInv, BatchIsAtWork, DoneIsSampled, TypeOK
  <1>2. CASE PopTask \/ Drained \/ WakeUp
    BY <1>2 DEF PopTask, Drained, WakeUp, BatchInv, BatchIsAtWork, DoneIsSampled
  <1>3. CASE TaskStep
    <2>1. phase \in {"task", "unlaunch"} /\ phase' \in {"drain", "unlaunch"}
      BY <1>3 DEF TaskStep, ProcessNext, ProcessCancel, ProcessQuick, ProcessSlotAction,
                  ProcessDefer, Launch, LaunchFails, Unlaunch, Unlaunched, TaskDone, Processing
    <2>2. ASSUME NEW s \in Slots, state'[s] = "DONE_PROMPT" PROVE state[s] = "DONE_PROMPT"
      <3>1. CASE Launch
        <4>1. PICK f \in Placements({cur.task} \cup Children(cur.task)) : Launched(f)
          BY <3>1 DEF Launch
        <4> QED BY <2>2, <4>1 DEF Launched
      <3>2. CASE LaunchFails
        <4>1. PICK before : \E f \in Placements(before) : Launched(f)
          BY <3>2 DEF LaunchFails
        <4>2. PICK f \in Placements(before) : Launched(f)
          BY <4>1
        <4> QED BY <2>2, <4>2 DEF Launched
      <3>3. CASE ~Launch /\ ~LaunchFails
        <4>1. UNCHANGED state
          BY <1>3, <3>3 DEF TaskStep, ProcessNext, ProcessCancel, ProcessQuick, ProcessSlotAction,
                            ProcessDefer, Unlaunch, Unlaunched
        <4> QED BY <2>2, <4>1
      <3> QED BY <3>1, <3>2, <3>3
    <2> QED BY <2>1, <2>2 DEF BatchInv, BatchIsAtWork, DoneIsSampled
  <1>4. CASE UpdateIdle \/ UpdateBusy \/ ShiftFails \/ BatchBuilt
    BY <1>4 DEF UpdateIdle, UpdateBusy, ShiftFails, BatchBuilt, BatchInv, BatchIsAtWork,
                DoneIsSampled, TypeOK, Slots
  <1>5. CASE BatchSampled
    <2>1. batch' \subseteq {s \in Slots : state[s] = "GENERATING"}
      BY <1>5 DEF BatchSampled
    <2>2. 0 \notin Slots
      BY DEF Slots
    <2> QED BY <1>5, <2>1, <2>2 DEF BatchSampled, BatchInv, BatchIsAtWork, DoneIsSampled
  <1>6. CASE SkipSlot
    BY <1>6 DEF SkipSlot, AtSlot, BatchInv, BatchIsAtWork, DoneIsSampled
  <1>7. CASE RejectPrompt
    BY <1>7 DEF RejectPrompt, AtSlot, BatchInv, BatchIsAtWork, DoneIsSampled
  <1>8. CASE BatchPrompt
    <2>1. PICK s \in Slots :
             /\ \/ state' = [state EXCEPT ![s] = "PROCESSING_PROMPT"]
                \/ state' = [state EXCEPT ![s] = "DONE_PROMPT"]
             /\ batch' = batch \cup {s}
      BY <1>8 DEF BatchPrompt
    <2>2. UNCHANGED <<phase, releasing>> /\ phase = "prompt" /\ releasing = 0
      BY <1>8 DEF BatchPrompt, AtSlot
    <2>3. 0 \notin Slots
      BY DEF Slots
    <2> QED BY <2>1, <2>2, <2>3 DEF BatchInv, BatchIsAtWork, DoneIsSampled, TypeOK
  <1>9. CASE ImageFails
    BY <1>9 DEF ImageFails, AtSlot, BatchInv, BatchIsAtWork, DoneIsSampled
  <1>10. CASE EmptyBatch
    BY <1>10 DEF EmptyBatch, BatchInv, BatchIsAtWork, DoneIsSampled
  <1>11. CASE DecodeOK
    <2>1. /\ phase = "decode" /\ phase' = "sample" /\ ready' = Sampleable \cup Joining
          /\ UNCHANGED <<releasing>> /\ releasing = 0
          /\ state' = [s \in Slots |-> IF s \in Joining THEN "DONE_PROMPT" ELSE state[s]]
      BY <1>11 DEF DecodeOK
    <2>2. \A s \in Sampleable : s \in Slots /\ state[s] \in {"DONE_PROMPT", "GENERATING"}
      BY <2>1 DEF Sampleable, BatchInv, BatchIsAtWork, TypeOK
    <2>3. Joining \subseteq Slots /\ 0 \notin Slots
      BY DEF Joining, Slots
    <2>4. ASSUME NEW s \in Slots, state'[s] = "DONE_PROMPT" PROVE s \in ready'
      <3>1. CASE s \in Joining
        BY <2>1, <3>1
      <3>2. CASE s \notin Joining
        <4>1. state[s] = "DONE_PROMPT"
          BY <2>1, <2>4, <3>2
        <4> QED BY <2>1, <4>1 DEF BatchInv, DoneIsSampled, Sampleable
      <3> QED BY <3>1, <3>2
    <2>5. ASSUME NEW s \in ready' PROVE state'[s] \in {"DONE_PROMPT", "GENERATING"} /\ s # 0
      BY <2>1, <2>2, <2>3, <2>5
    <2> QED BY <2>1, <2>4, <2>5 DEF BatchInv, BatchIsAtWork, DoneIsSampled
  <1>12. CASE DecodeFails
    BY <1>12 DEF DecodeFails, BatchInv, BatchIsAtWork, DoneIsSampled
  <1>13. CASE SendEmbedding
    <2>1. PICK s \in ready : ready' = ready \ {s} /\ releasing' = s
      BY <1>13 DEF SendEmbedding
    <2>2. phase = "sample" /\ UNCHANGED <<phase, state>> /\ releasing = 0 /\ 0 \notin Slots
      BY <1>13 DEF SendEmbedding, Slots
    <2> QED BY <2>1, <2>2 DEF BatchInv, BatchIsAtWork, DoneIsSampled
  <1>14. CASE SampleToken \/ SampleLast
    <2>1. PICK s \in ready : /\ state' = [state EXCEPT ![s] = "GENERATING"]
                             /\ ready' = ready \ {s}
                             /\ releasing' \in {0, s}
      BY <1>14 DEF SampleToken, SampleLast
    <2>2. phase = "sample" /\ phase' = "sample" /\ releasing = 0 /\ 0 \notin Slots
      BY <1>14 DEF SampleToken, SampleLast, Slots
    <2>3. s \in Slots /\ state'[s] = "GENERATING" /\ \A u \in Slots : u # s => state'[u] = state[u]
      BY <2>1 DEF TypeOK
    <2>4. ready \subseteq Slots
      BY DEF TypeOK
    <2>5. BatchIsAtWork'
      BY <2>1, <2>2, <2>3, <2>4 DEF BatchInv, BatchIsAtWork
    <2>6. DoneIsSampled'
      BY <2>1, <2>2, <2>3 DEF BatchInv, DoneIsSampled
    <2> QED BY <2>5, <2>6 DEF BatchInv
  <1>15. CASE Sampled
    BY <1>15 DEF Sampled, BatchInv, BatchIsAtWork, DoneIsSampled, Slots
  <1>16. CASE FailSlot
    BY <1>16 DEF FailSlot, BatchInv, BatchIsAtWork, DoneIsSampled
  <1>17. CASE Failed
    BY <1>17 DEF Failed, AllIdle, Idle, BatchInv, BatchIsAtWork, DoneIsSampled
  <1> QED BY <1>1, <1>2, <1>3, <1>4, <1>5, <1>6, <1>7, <1>8, <1>9, <1>10, <1>11, <1>12,
             <1>13, <1>14, <1>15, <1>16, <1>17 DEF MainStep, LoopStep, UpdateStep

\* BatchInv holds.
LEMMA BatchInvHolds == Spec => []BatchInv
  <1>1. Init => BatchInv
    BY DEF Init, BatchInv, BatchIsAtWork, DoneIsSampled
  <1>2. TypeOK /\ BatchInv /\ [Next]_vars => BatchInv'
    <2> SUFFICES ASSUME TypeOK, BatchInv, [Next]_vars PROVE BatchInv'
      OBVIOUS
    <2>1. CASE MainStep
      BY <2>1, ConstantsOK, BatchInvMain
    <2>2. ASSUME NEW r \in Readers, ReaderStep(r) \/ Leave(r) PROVE BatchInv'
      <3>1. UNCHANGED <<phase, state, batch, ready, releasing>>
        BY <2>2, ReaderFrame
      <3> QED BY <3>1 DEF BatchInv, BatchIsAtWork, DoneIsSampled
    <2>3. CASE UNCHANGED vars
      BY <2>3 DEF vars, slotVars, batchVars, mainVars, BatchInv, BatchIsAtWork, DoneIsSampled
    <2>4. CASE Rest
      BY <2>3, <2>4 DEF Rest
    <2> QED BY <2>1, <2>2, <2>3, <2>4 DEF Next
  <1> QED BY <1>1, <1>2, TypeCorrect, PTL DEF Spec

-----------------------------------------------------------------------------
(* Every task is in one place.                                             *)

\* process_single_task() has t in its hands.
InHand(t) == phase = "task" /\ cur = Work(t)

\* t has an entry in one of the queues or in process_single_task().
Entry(t) == Has(queue, Work(t)) \/ Has(deferred, Work(t)) \/ InHand(t)

\* The reader of t has posted it.
IsPosted(t) == pc[Owner[t]] \notin {"new", "post"}

\* A task has one entry at most.
EntriesApart ==
    \A t \in Tasks :
        /\ Single(queue, Work(t)) /\ Single(deferred, Work(t))
        /\ Has(queue, Work(t)) => ~Has(deferred, Work(t))
        /\ InHand(t) => ~Has(queue, Work(t)) /\ ~Has(deferred, Work(t))

\* What has an entry has been posted, and is no child.
EntriesArePosted == \A t \in Tasks : Entry(t) => IsPosted(t) /\ Parent[t] = NoTask

\* A task is on one slot at most, and then neither it nor its parent has an entry.
SlotsApart ==
    /\ \A s \in Slots : state[s] = "IDLE" <=> task[s] = NoTask
    /\ \A t \in Tasks : \A s \in Slots : task[s] = t =>
          /\ IsPosted(t) /\ ~Entry(t)
          /\ Parent[t] # NoTask => ~Entry(Parent[t])
          /\ \A u \in Slots : task[u] = t => u = s

\* While a failed launch is undone, the task that was refused is nowhere.
UnlaunchIsOfNobody ==
    phase = "unlaunch" =>
        \E t \in Tasks : /\ cur = Work(t) /\ ~Entry(t) /\ IsPosted(t)
                         /\ \A s \in Slots : task[s] # t

PlaceInv == EntriesApart /\ EntriesArePosted /\ SlotsApart /\ UnlaunchIsOfNobody

\* A step that gives no task a new entry or a slot, and posts nothing.
LEMMA PlacesFewer ==
    ASSUME ConstantsOK, TypeOK, PlaceInv, EntriesApart',
           \A t \in Tasks : Entry(t)' => Entry(t),
           \A r \in Readers : pc'[r] \in {"new", "post"} => pc[r] \in {"new", "post"},
           \A s \in Slots : /\ task'[s] \in {task[s], NoTask}
                            /\ state'[s] = "IDLE" <=> task'[s] = NoTask,
           phase' = "unlaunch" => phase = "unlaunch" /\ cur' = cur
    PROVE  PlaceInv'
  <1>1. \A t \in Tasks : Owner[t] \in Readers /\ t # NoTask /\ Parent[t] \in Tasks \cup {NoTask}
    BY DEF ConstantsOK
  <1>2. \A t \in Tasks : IsPosted(t) => IsPosted(t)'
    BY <1>1 DEF IsPosted
  <1>3. EntriesArePosted'
    BY <1>2 DEF PlaceInv, EntriesArePosted
  <1>4. SlotsApart'
    <2>1. ASSUME NEW t \in Tasks, NEW s \in Slots, task'[s] = t
          PROVE  /\ IsPosted(t)' /\ ~Entry(t)'
                 /\ Parent[t] # NoTask => ~Entry(Parent[t])'
                 /\ \A u \in Slots : task'[u] = t => u = s
      <3>1. \A u \in Slots : task'[u] = t => task[u] = t
        BY <1>1
      <3>2. /\ IsPosted(t) /\ ~Entry(t)
            /\ Parent[t] # NoTask => ~Entry(Parent[t])
            /\ \A u \in Slots : task[u] = t => u = s
        BY <2>1, <3>1 DEF PlaceInv, SlotsApart
      <3> QED BY <1>1, <1>2, <3>1, <3>2
    <2> QED BY <2>1 DEF SlotsApart
  <1>5. UnlaunchIsOfNobody'
    <2>1. SUFFICES ASSUME phase' = "unlaunch"
                   PROVE  \E t \in Tasks : /\ cur' = Work(t) /\ ~Entry(t)' /\ IsPosted(t)'
                                           /\ \A s \in Slots : task'[s] # t
      BY DEF UnlaunchIsOfNobody, Work
    <2>2. PICK t \in Tasks : /\ cur = Work(t) /\ ~Entry(t) /\ IsPosted(t)
                             /\ \A s \in Slots : task[s] # t
      BY <2>1 DEF PlaceInv, UnlaunchIsOfNobody
    <2> QED BY <1>1, <1>2, <2>1, <2>2
  <1> QED BY <1>3, <1>4, <1>5 DEF PlaceInv

\* A step that takes entries away or leaves them where they are.
LEMMA EntriesFewer ==
    ASSUME EntriesApart,
           \A t \in Tasks : /\ Has(queue', Work(t)) => Has(queue, Work(t))
                            /\ Has(deferred', Work(t)) => Has(deferred, Work(t))
                            /\ phase' = "task" /\ cur' = Work(t) => InHand(t)
                            /\ Single(queue, Work(t)) => Single(queue', Work(t))
                            /\ Single(deferred, Work(t)) => Single(deferred', Work(t))
    PROVE  EntriesApart' /\ \A t \in Tasks : Entry(t)' => Entry(t)
  <1>1. ASSUME NEW t \in Tasks PROVE InHand(t)' => InHand(t)
    BY DEF InHand, Work
  <1> QED BY <1>1 DEF EntriesApart, Entry, Work

\* The steps of an HTTP thread.
LEMMA PlaceInvReader ==
    ASSUME ConstantsOK, RequestsOK, TypeOK, ReaderInv, PlaceInv,
           NEW r \in Readers, ReaderStep(r) \/ Leave(r)
    PROVE  PlaceInv'
  <1> USE DEF queueVars, readerVars
  <1>1. UNCHANGED <<phase, cur, state, task>>
    BY ReaderFrame
  <1>2. pc \in [Readers -> ReaderStates]
    BY DEF TypeOK
  <1>3. \A s \in Slots : task'[s] \in {task[s], NoTask} /\ (state'[s] = "IDLE" <=> task'[s] = NoTask)
    BY <1>1 DEF PlaceInv, SlotsApart
  <1>4. CASE CancelOne(r)
    <2>1. PICK t \in todo[r] : /\ queue' = <<Cancel(t)>> \o Without(queue, t)
                               /\ deferred' = Without(deferred, t)
      BY <1>4 DEF CancelOne
    <2>2. t \in Tasks
      BY <2>1 DEF TypeOK
    <2>3. EntriesApart' /\ \A u \in Tasks : Entry(u)' => Entry(u)
      <3>1. \A u \in Tasks : /\ Has(queue', Work(u)) => Has(queue, Work(u))
                             /\ Has(deferred', Work(u)) => Has(deferred, Work(u))
                             /\ Single(queue, Work(u)) => Single(queue', Work(u))
                             /\ Single(deferred, Work(u)) => Single(deferred', Work(u))
        BY <2>1, <2>2, CancelHas
      <3>2. \A u \in Tasks : phase' = "task" /\ cur' = Work(u) => InHand(u)
        BY <1>1 DEF InHand
      <3> QED BY <3>1, <3>2, EntriesFewer DEF PlaceInv
    <2>4. UNCHANGED pc
      BY <1>4 DEF CancelOne
    <2> QED BY <1>1, <1>3, <2>3, <2>4, PlacesFewer
  <1>5. CASE Post(r)
    <2>1. pc[r] = "post" /\ pc' = [pc EXCEPT ![r] = "recv"]
      BY <1>5 DEF Post
    <2>2. \A t \in Tasks : /\ Has(queue', Work(t)) <=> Has(queue, Work(t)) \/ t \in TopTasks(r)
                           /\ Single(queue, Work(t)) /\ ~(Has(queue, Work(t)) /\ t \in TopTasks(r))
                                 => Single(queue', Work(t))
                           /\ UNCHANGED deferred
      BY <1>5, PostHas
    <2>3. \A t \in Tasks : t \in TopTasks(r) <=> Owner[t] = r /\ Parent[t] = NoTask
      BY DEF RequestsOK, TasksOf
    <2>4. ASSUME NEW t \in Tasks
          PROVE  /\ Owner[t] = r => ~IsPosted(t)
                 /\ IsPosted(t)' <=> IsPosted(t) \/ Owner[t] = r
                 /\ Entry(t)' <=> Entry(t) \/ t \in TopTasks(r)
                 /\ InHand(t)' <=> InHand(t)
      <3>1. InHand(t)' <=> InHand(t)
        BY <1>1 DEF InHand, Work
      <3>2. Entry(t)' <=> Entry(t) \/ t \in TopTasks(r)
        BY <2>2, <3>1 DEF Entry, Work
      <3>3. Owner[t] \in Readers
        BY DEF ConstantsOK
      <3> QED BY <1>2, <2>1, <3>1, <3>2, <3>3 DEF IsPosted
    <2>5. EntriesApart'
      <3>1. ASSUME NEW t \in Tasks
            PROVE  /\ Single(queue', Work(t)) /\ Single(deferred', Work(t))
                   /\ Has(queue', Work(t)) => ~Has(deferred', Work(t))
                   /\ InHand(t)' => ~Has(queue', Work(t)) /\ ~Has(deferred', Work(t))
        <4>1. t \in TopTasks(r) => ~Has(queue, Work(t)) /\ ~Has(deferred, Work(t)) /\ ~InHand(t)
          BY <2>3, <2>4 DEF PlaceInv, EntriesArePosted, Entry
        <4> QED BY <2>2, <2>4, <4>1 DEF PlaceInv, EntriesApart
      <3> QED BY <3>1 DEF EntriesApart, Work
    <2>6. EntriesArePosted'
      BY <2>3, <2>4 DEF PlaceInv, EntriesArePosted
    <2>7. SlotsApart'
      <3>1. ASSUME NEW t \in Tasks, NEW s \in Slots, task[s] = t
            PROVE  /\ IsPosted(t)' /\ ~Entry(t)'
                   /\ Parent[t] # NoTask => ~Entry(Parent[t])'
                   /\ \A u \in Slots : task[u] = t => u = s
        <4>1. /\ IsPosted(t) /\ ~Entry(t)
              /\ Parent[t] # NoTask => ~Entry(Parent[t])
              /\ \A u \in Slots : task[u] = t => u = s
          BY <3>1 DEF PlaceInv, SlotsApart
        <4>2. t \notin TopTasks(r)
          BY <2>3, <2>4, <4>1
        <4>3. ASSUME Parent[t] # NoTask PROVE ~Entry(Parent[t])'
          <5>1. Parent[t] \in Tasks /\ Owner[Parent[t]] = Owner[t]
            BY <4>3 DEF ConstantsOK, RequestsOK
          <5>2. Parent[t] \notin TopTasks(r)
            BY <2>3, <2>4, <4>1, <5>1
          <5> QED BY <2>4, <4>1, <4>3, <5>1, <5>2
        <4> QED BY <2>4, <4>1, <4>2, <4>3
      <3> QED BY <1>1, <3>1 DEF PlaceInv, SlotsApart
    <2>8. UnlaunchIsOfNobody'
      <3>1. SUFFICES ASSUME phase = "unlaunch"
                     PROVE  \E t \in Tasks : /\ cur = Work(t) /\ ~Entry(t)' /\ IsPosted(t)'
                                             /\ \A s \in Slots : task[s] # t
        BY <1>1 DEF UnlaunchIsOfNobody, Work
      <3>2. PICK t \in Tasks : /\ cur = Work(t) /\ ~Entry(t) /\ IsPosted(t)
                               /\ \A s \in Slots : task[s] # t
        BY <3>1 DEF PlaceInv, UnlaunchIsOfNobody
      <3>3. t \notin TopTasks(r)
        BY <2>3, <2>4, <3>2
      <3> QED BY <2>4, <3>2, <3>3
    <2> QED BY <2>5, <2>6, <2>7, <2>8 DEF PlaceInv
  <1>6. CASE ~CancelOne(r) /\ ~Post(r)
    <2>1. UNCHANGED <<queue, deferred>>
      BY <1>6, ReaderFrame
    <2>2. EntriesApart' /\ \A t \in Tasks : Entry(t)' => Entry(t)
      <3>1. \A u \in Tasks : phase' = "task" /\ cur' = Work(u) => InHand(u)
        BY <1>1 DEF InHand
      <3> QED BY <2>1, <3>1, EntriesFewer DEF PlaceInv
    <2>3. \A q \in Readers : pc'[q] \in {"new", "post"} => pc[q] \in {"new", "post"}
      BY <1>2, <1>6 DEF ReaderStep, Register, Receive, Finish, Leave, StopWaiting, Purge, CancelDone
    <2> QED BY <1>1, <1>3, <2>2, <2>3, PlacesFewer
  <1> QED BY <1>4, <1>5, <1>6

\* A launch, of a whole family or of the children that a failed launch has
\* reached.
LEMMA PlaceInvLaunched ==
    ASSUME ConstantsOK, RequestsOK, TypeOK, PlaceInv,
           NEW c \in Tasks, cur = Work(c), phase = "task",
           NEW T, T \subseteq {c} \cup Children(c), NEW f \in Placements(T), Launched(f),
           UNCHANGED <<queue, deferred, pc>>,
           \/ phase' = "drain"
           \/ phase' = "unlaunch" /\ UNCHANGED cur /\ c \notin T
    PROVE  PlaceInv'
  <1>1. T \subseteq Tasks /\ \A t \in T : t = c \/ Parent[t] = c
    BY DEF Children
  <1>2. LaunchedOn(f, T)
    BY <1>1, LaunchedSlots
  <1> DEFINE here(u) == u \in DOMAIN f
  <1>3. ASSUME NEW u \in Slots
        PROVE  /\ here(u) => task'[u] \in T /\ state'[u] # "IDLE"
               /\ ~here(u) => task'[u] = task[u] /\ state'[u] = state[u]
    BY <1>2 DEF LaunchedOn
  <1>4. \A u, s \in Slots : here(u) /\ here(s) /\ task'[u] = task'[s] => u = s
    BY <1>2 DEF LaunchedOn
  <1> HIDE DEF here
  <1>5. \A t \in Tasks : IsPosted(t)' <=> IsPosted(t)
    BY DEF IsPosted
  <1>6. \A t \in Tasks : ~InHand(t)'
    BY DEF InHand
  <1>7. \A t \in Tasks : Entry(t)' => Entry(t) /\ t # c
    <2>1. InHand(c) /\ ~Has(queue, Work(c)) /\ ~Has(deferred, Work(c))
      BY DEF PlaceInv, EntriesApart, InHand
    <2> QED BY <1>6, <2>1 DEF Entry, Work
  <1>8. Entry(c) /\ IsPosted(c) /\ Parent[c] = NoTask
    BY DEF InHand, Entry, PlaceInv, EntriesArePosted
  <1>9. \A t \in T : /\ t \in Tasks /\ t # NoTask /\ IsPosted(t)
                     /\ Parent[t] # NoTask => Parent[t] = c /\ t # c
    BY <1>1, <1>8 DEF RequestsOK, IsPosted, ConstantsOK
  <1>10. \A s \in Slots : task[s] \notin T
    <2>1. SUFFICES ASSUME NEW s \in Slots, task[s] \in T PROVE FALSE
      OBVIOUS
    <2>2. /\ ~Entry(task[s])
          /\ Parent[task[s]] # NoTask => ~Entry(Parent[task[s]])
      BY <1>1, <2>1 DEF PlaceInv, SlotsApart
    <2> QED BY <1>1, <1>8, <1>9, <2>1, <2>2
  <1>11. EntriesApart'
    <2>1. \A t \in Tasks : phase' = "task" /\ cur' = Work(t) => InHand(t)
      OBVIOUS
    <2> QED BY <2>1, EntriesFewer DEF PlaceInv
  <1>12. EntriesArePosted'
    BY <1>5, <1>7 DEF PlaceInv, EntriesArePosted
  <1>13. SlotsApart'
    <2>1. ASSUME NEW s \in Slots PROVE state'[s] = "IDLE" <=> task'[s] = NoTask
      <3>1. CASE here(s)
        BY <1>3, <1>9, <3>1
      <3>2. CASE ~here(s)
        BY <1>3, <3>2 DEF PlaceInv, SlotsApart
      <3> QED BY <3>1, <3>2
    <2>2. ASSUME NEW t \in Tasks, NEW s \in Slots, task'[s] = t
          PROVE  /\ IsPosted(t)' /\ ~Entry(t)'
                 /\ Parent[t] # NoTask => ~Entry(Parent[t])'
                 /\ \A u \in Slots : task'[u] = t => u = s
      <3>1. CASE t \in T
        <4>1. Parent[t] \in Tasks \cup {NoTask}
          BY DEF ConstantsOK
        <4>2. IsPosted(t)' /\ ~Entry(t)' /\ (Parent[t] # NoTask => ~Entry(Parent[t])')
          <5>1. t # c => Parent[t] = c
            BY <1>1, <3>1
          <5>2. ~Entry(t)'
            <6>1. CASE t = c
              BY <1>7, <6>1
            <6>2. CASE t # c
              BY <1>7, <5>1, <6>2 DEF PlaceInv, EntriesArePosted, ConstantsOK
            <6> QED BY <6>1, <6>2
          <5>3. Parent[t] # NoTask => ~Entry(Parent[t])'
            BY <1>7, <1>9, <3>1, <4>1
          <5> QED BY <1>5, <1>9, <3>1, <5>2, <5>3
        <4>3. ASSUME NEW u \in Slots, task'[u] = t PROVE here(u)
          BY <1>3, <1>10, <3>1, <4>3
        <4> QED BY <1>4, <2>2, <4>2, <4>3
      <3>2. CASE t \notin T
        <4>1. \A u \in Slots : task'[u] = t => task[u] = t
          BY <1>3, <3>2
        <4>2. /\ IsPosted(t) /\ ~Entry(t)
              /\ Parent[t] # NoTask => ~Entry(Parent[t])
              /\ \A u \in Slots : task[u] = t => u = s
          BY <2>2, <4>1 DEF PlaceInv, SlotsApart
        <4>3. Parent[t] \in Tasks \cup {NoTask}
          BY DEF ConstantsOK
        <4> QED BY <1>5, <1>7, <4>1, <4>2, <4>3
      <3> QED BY <3>1, <3>2
    <2> QED BY <2>1, <2>2 DEF SlotsApart
  <1>14. UnlaunchIsOfNobody'
    <2>1. SUFFICES ASSUME phase' = "unlaunch"
                   PROVE  \E t \in Tasks : /\ cur' = Work(t) /\ ~Entry(t)' /\ IsPosted(t)'
                                           /\ \A s \in Slots : task'[s] # t
      BY DEF UnlaunchIsOfNobody, Work
    <2>2. cur' = Work(c) /\ c \notin T
      BY <2>1
    <2>3. \A s \in Slots : task'[s] # c
      <3>1. \A s \in Slots : task[s] # c
        BY <1>8 DEF PlaceInv, SlotsApart
      <3> QED BY <1>3, <2>2, <3>1
    <2> QED BY <1>5, <1>7, <1>8, <2>2, <2>3
  <1> QED BY <1>11, <1>12, <1>13, <1>14 DEF PlaceInv

\* The task that process_single_task() launches.
LEMMA WorkInHand ==
    ASSUME TypeOK, Processing({"work"})
    PROVE  cur.task \in Tasks /\ cur = Work(cur.task) /\ InHand(cur.task) /\ phase = "task"
  BY CurType DEF Processing, At, InHand

\* The steps of the main thread that move a task between the queues and
\* process_single_task().
LEMMA PlaceInvMoves ==
    ASSUME ConstantsOK, RequestsOK, TypeOK, PlaceInv, MainStep, Release \/ PopTask \/ ProcessDefer
    PROVE  PlaceInv'
  <1> USE DEF queueVars, readerVars, slotVars, batchVars, mainVars, At
  <1>1. UNCHANGED pc
    BY MainFrame
  <1>2. CASE Release
    <2>1. /\ releasing \in Slots /\ UNCHANGED <<phase, cur>>
          /\ state' = [state EXCEPT ![releasing] = "IDLE"]
          /\ task' = [task EXCEPT ![releasing] = NoTask]
      BY <1>2 DEF Release, TypeOK
    <2>2. \A s \in Slots : /\ task'[s] \in {task[s], NoTask}
                           /\ state'[s] = "IDLE" <=> task'[s] = NoTask
      BY <2>1 DEF TypeOK, PlaceInv, SlotsApart
    <2>3. \A t \in Tasks : InHand(t)' <=> InHand(t)
      BY <2>1 DEF InHand, Work
    <2>4. CASE UNCHANGED queueVars
      <3>1. EntriesApart' /\ \A t \in Tasks : Entry(t)' => Entry(t)
        <4>1. \A t \in Tasks : phase' = "task" /\ cur' = Work(t) => InHand(t)
          BY <2>1 DEF InHand
        <4> QED BY <2>4, <4>1, EntriesFewer DEF PlaceInv
      <3> QED BY <1>1, <2>1, <2>2, <3>1, PlacesFewer
    <2>5. CASE \E i \in NextDeferred(releasing) :
                  /\ queue' = <<deferred[i]>> \o queue
                  /\ deferred' = RemoveAt(deferred, i)
      <3>1. PICK i \in DOMAIN deferred : /\ queue' = <<deferred[i]>> \o queue
                                         /\ deferred' = RemoveAt(deferred, i)
        BY <2>5 DEF NextDeferred
      <3>2. ASSUME NEW u \in Tasks
            PROVE  /\ Single(queue', Work(u)) /\ Single(deferred', Work(u))
                   /\ Has(queue', Work(u)) => ~Has(deferred', Work(u))
                   /\ InHand(u)' => ~Has(queue', Work(u)) /\ ~Has(deferred', Work(u))
                   /\ Entry(u)' => Entry(u)
        <4>1. PICK t \in Tasks :
                  /\ Has(deferred, Work(t))
                  /\ Has(queue', Work(u)) <=> u = t \/ Has(queue, Work(u))
                  /\ Has(deferred', Work(u)) => Has(deferred, Work(u))
                  /\ Single(deferred, Work(u)) => Single(deferred', Work(u))
                  /\ Single(deferred, Work(u)) /\ u = t => ~Has(deferred', Work(u))
                  /\ Single(queue, Work(u)) /\ ~(u = t /\ Has(queue, Work(u))) => Single(queue', Work(u))
          BY <3>1, PopDeferredHas
        <4>2. /\ Single(queue, Work(u)) /\ Single(deferred, Work(u))
              /\ Has(queue, Work(u)) => ~Has(deferred, Work(u))
              /\ InHand(u) => ~Has(queue, Work(u)) /\ ~Has(deferred, Work(u))
          BY DEF PlaceInv, EntriesApart
        <4>3. Entry(u)' <=> Has(queue', Work(u)) \/ Has(deferred', Work(u)) \/ InHand(u)
          BY <2>3 DEF Entry, Work
        <4> QED BY <2>3, <4>1, <4>2, <4>3 DEF Entry
      <3>3. EntriesApart' /\ \A t \in Tasks : Entry(t)' => Entry(t)
        BY <3>2 DEF EntriesApart, Work
      <3> QED BY <1>1, <2>1, <2>2, <3>3, PlacesFewer
    <2> QED BY <1>2, <2>4, <2>5 DEF Release
  <1>3. ASSUME UNCHANGED <<state, task>>
        PROVE  \A s \in Slots : /\ task'[s] \in {task[s], NoTask}
                                /\ state'[s] = "IDLE" <=> task'[s] = NoTask
    BY <1>3 DEF PlaceInv, SlotsApart
  <1>4. CASE PopTask
    <2>1. phase = "drain" /\ phase' = "task" /\ UNCHANGED <<deferred, state, task>>
      BY <1>4 DEF PopTask
    <2>2. ASSUME NEW u \in Tasks
          PROVE  /\ Single(queue', Work(u)) /\ Single(deferred', Work(u))
                 /\ Has(queue', Work(u)) => ~Has(deferred', Work(u))
                 /\ InHand(u)' => ~Has(queue', Work(u)) /\ ~Has(deferred', Work(u))
                 /\ Entry(u)' => Entry(u)
      <3>1. /\ Has(queue, Work(u)) <=> cur' = Work(u) \/ Has(queue', Work(u))
            /\ Single(queue, Work(u)) => /\ Single(queue', Work(u))
                                         /\ cur' = Work(u) => ~Has(queue', Work(u))
        BY <1>4, PopHas
      <3>2. InHand(u)' <=> cur' = Work(u)
        BY <2>1 DEF InHand, Work
      <3>3. Entry(u)' <=> Has(queue', Work(u)) \/ Has(deferred, Work(u)) \/ InHand(u)'
        BY <2>1 DEF Entry, Work
      <3> QED BY <2>1, <3>1, <3>2, <3>3 DEF PlaceInv, EntriesApart, Entry
    <2>3. EntriesApart' /\ \A t \in Tasks : Entry(t)' => Entry(t)
      BY <2>2 DEF EntriesApart, Work
    <2> QED BY <1>1, <1>3, <2>1, <2>3, PlacesFewer
  <1>5. CASE ProcessDefer
    <2>1. PICK t \in Tasks : t = cur.task /\ cur = Work(t) /\ InHand(t) /\ Defer(t)
      BY <1>5, WorkInHand DEF ProcessDefer
    <2>2. phase' = "drain" /\ UNCHANGED <<queue, state, task>>
      BY <1>5 DEF ProcessDefer, TaskDone
    <2>3. ASSUME NEW u \in Tasks
          PROVE  /\ Single(queue', Work(u)) /\ Single(deferred', Work(u))
                 /\ Has(queue', Work(u)) => ~Has(deferred', Work(u))
                 /\ InHand(u)' => ~Has(queue', Work(u)) /\ ~Has(deferred', Work(u))
                 /\ Entry(u)' => Entry(u)
      <3>1. /\ Has(deferred', Work(u)) <=> u = t \/ Has(deferred, Work(u))
            /\ Single(deferred, Work(u)) /\ ~(u = t /\ Has(deferred, Work(u))) => Single(deferred', Work(u))
        BY <2>1, DeferHas
      <3>2. ~InHand(u)'
        BY <2>2 DEF InHand
      <3>3. Entry(u)' <=> Has(queue, Work(u)) \/ Has(deferred', Work(u))
        BY <2>2, <3>2 DEF Entry, Work
      <3> QED BY <2>1, <2>2, <3>1, <3>2, <3>3 DEF PlaceInv, EntriesApart, Entry
    <2>4. EntriesApart' /\ \A u \in Tasks : Entry(u)' => Entry(u)
      BY <2>3 DEF EntriesApart, Work
    <2> QED BY <1>1, <1>3, <2>2, <2>4, PlacesFewer
  <1> QED BY <1>2, <1>4, <1>5

\* The steps of the main thread.
LEMMA PlaceInvMain ==
    ASSUME ConstantsOK, RequestsOK, TypeOK, BatchInv, PlaceInv, MainStep
    PROVE  PlaceInv'
  <1> USE DEF queueVars, readerVars, slotVars, batchVars, mainVars, At
  <1>1. UNCHANGED pc
    BY MainFrame
  <1>2. CASE Release \/ PopTask \/ ProcessDefer
    BY <1>2, PlaceInvMoves
  <1>3. CASE Launch
    <2>1. PICK c \in Tasks : c = cur.task /\ cur = Work(c) /\ phase = "task"
      BY <1>3, WorkInHand DEF Launch
    <2>2. PICK f \in Placements({c} \cup Children(c)) : Launched(f)
      BY <1>3, <2>1 DEF Launch
    <2>3. phase' = "drain" /\ UNCHANGED <<queue, deferred>>
      BY <1>3 DEF Launch, TaskDone
    <2> QED BY <1>1, <2>1, <2>2, <2>3, PlaceInvLaunched
  <1>4. CASE LaunchFails
    <2>1. PICK c \in Tasks : c = cur.task /\ cur = Work(c) /\ phase = "task"
      BY <1>4, WorkInHand DEF LaunchFails
    <2>2. PICK before \in SUBSET Children(c) : \E f \in Placements(before) : Launched(f)
      BY <1>4, <2>1 DEF LaunchFails
    <2>3. PICK f \in Placements(before) : Launched(f)
      BY <2>2
    <2>4. phase' = "unlaunch" /\ UNCHANGED <<queue, deferred, cur>>
      BY <1>4 DEF LaunchFails
    <2>5. Parent[c] = NoTask
      BY <1>4, <2>1, WorkInHand DEF LaunchFails, PlaceInv, EntriesArePosted, Entry
    <2>6. c \notin before /\ before \subseteq {c} \cup Children(c)
      BY <2>2, <2>5 DEF Children, ConstantsOK
    <2> QED BY <1>1, <2>1, <2>3, <2>4, <2>6, PlaceInvLaunched
  <1>5. CASE ~(Release \/ PopTask \/ ProcessDefer) /\ ~Launch /\ ~LaunchFails
    <2>1. UNCHANGED <<deferred, task>> /\ (UpdateBusy \/ UNCHANGED queue)
      BY <1>5, MainFrame
    <2>2. /\ phase' # "task"
          /\ phase' = "unlaunch" => phase = "unlaunch" /\ UNCHANGED cur
      BY <1>5 DEF MainStep, LoopStep, TaskStep, UpdateStep, Drained, WakeUp,
           ProcessNext, ProcessCancel, ProcessQuick, ProcessSlotAction, Unlaunch, Unlaunched, TaskDone,
           UpdateIdle, UpdateBusy, ShiftFails, BatchSampled, SkipSlot, AtSlot,
           RejectPrompt, BatchPrompt, ImageFails, BatchBuilt, EmptyBatch, DecodeOK,
           DecodeFails, SendEmbedding, SampleToken, SampleLast, Sampled, FailSlot, Failed
    <2>3. \A t \in Tasks : /\ Has(queue', Work(t)) => Has(queue, Work(t))
                           /\ Single(queue, Work(t)) => Single(queue', Work(t))
      BY <2>1, PostNextHas
    <2>4. EntriesApart' /\ \A t \in Tasks : Entry(t)' => Entry(t)
      BY <2>1, <2>2, <2>3, EntriesFewer DEF PlaceInv
    <2>5. \A s \in Slots : state'[s] = "IDLE" <=> state[s] = "IDLE"
      <3>1. CASE BatchPrompt
        <4>1. PICK s \in Slots :
                 /\ InPrompt(s)
                 /\ \/ state' = [state EXCEPT ![s] = "PROCESSING_PROMPT"]
                    \/ state' = [state EXCEPT ![s] = "DONE_PROMPT"]
          BY <3>1 DEF BatchPrompt
        <4> QED BY <4>1 DEF InPrompt, TypeOK
      <3>2. CASE DecodeOK
        BY <3>2 DEF DecodeOK, Joining
      <3>3. CASE SampleToken \/ SampleLast
        <4>1. PICK s \in ready : state' = [state EXCEPT ![s] = "GENERATING"]
          BY <3>3 DEF SampleToken, SampleLast
        <4>2. state[s] # "IDLE"
          BY <3>3 DEF SampleToken, SampleLast, BatchInv, BatchIsAtWork
        <4> QED BY <4>1, <4>2 DEF TypeOK
      <3>4. CASE ~BatchPrompt /\ ~DecodeOK /\ ~SampleToken /\ ~SampleLast
        BY <1>5, <3>4 DEF MainStep, LoopStep, TaskStep, UpdateStep, Drained, WakeUp,
           ProcessNext, ProcessCancel, ProcessQuick, ProcessSlotAction, Unlaunch, Unlaunched,
           UpdateIdle, UpdateBusy, ShiftFails, BatchSampled, SkipSlot,
           RejectPrompt, ImageFails, BatchBuilt, EmptyBatch,
           DecodeFails, SendEmbedding, Sampled, FailSlot, Failed
      <3> QED BY <3>1, <3>2, <3>3, <3>4
    <2>6. \A s \in Slots : /\ task'[s] \in {task[s], NoTask}
                           /\ state'[s] = "IDLE" <=> task'[s] = NoTask
      BY <2>1, <2>5 DEF PlaceInv, SlotsApart
    <2> QED BY <1>1, <2>2, <2>4, <2>6, PlacesFewer
  <1> QED BY <1>2, <1>3, <1>4, <1>5

\* PlaceInv holds.
LEMMA PlaceInvHolds == Spec => []PlaceInv
  <1>1. Init => PlaceInv
    <2> SUFFICES ASSUME Init PROVE PlaceInv
      OBVIOUS
    <2>1. \A t \in Tasks : /\ ~Has(queue, Work(t)) /\ Single(queue, Work(t))
                           /\ ~Has(deferred, Work(t)) /\ Single(deferred, Work(t))
      BY HasNone DEF Init
    <2>2. \A t \in Tasks : ~InHand(t) /\ ~Entry(t)
      BY <2>1 DEF Init, InHand, Entry
    <2>3. \A s \in Slots : state[s] = "IDLE" /\ task[s] = NoTask
      BY DEF Init
    <2>4. NoTask \notin Tasks /\ phase # "unlaunch"
      BY ConstantsOK DEF ConstantsOK, Init
    <2> QED BY <2>1, <2>2, <2>3, <2>4 DEF PlaceInv, EntriesApart, EntriesArePosted, SlotsApart,
               UnlaunchIsOfNobody
  <1>2. TypeOK /\ ReaderInv /\ BatchInv /\ PlaceInv /\ [Next]_vars => PlaceInv'
    <2> SUFFICES ASSUME TypeOK, ReaderInv, BatchInv, PlaceInv, [Next]_vars PROVE PlaceInv'
      OBVIOUS
    <2>1. CASE MainStep
      BY <2>1, ConstantsOK, RequestsOK, PlaceInvMain
    <2>2. ASSUME NEW r \in Readers, ReaderStep(r) \/ Leave(r) PROVE PlaceInv'
      BY <2>2, ConstantsOK, RequestsOK, PlaceInvReader
    <2>3. CASE UNCHANGED vars
      BY <2>3 DEF vars, queueVars, readerVars, slotVars, mainVars, PlaceInv, EntriesApart,
                  EntriesArePosted, SlotsApart, UnlaunchIsOfNobody, Entry, InHand, IsPosted, Has, Single, Work
    <2>4. CASE Rest
      BY <2>3, <2>4 DEF Rest
    <2> QED BY <2>1, <2>2, <2>3, <2>4 DEF Next
  <1> QED BY <1>1, <1>2, TypeCorrect, ReaderInvHolds, BatchInvHolds, PTL DEF Spec

\* t has an entry, travels in that of its parent, or has a slot.
IsPlaced(t) ==
    \/ Entry(t)
    \/ Parent[t] # NoTask /\ Entry(Parent[t])
    \/ \E s \in Slots : task[s] = t

\* The positions of an entry that is there once.
LEMMA CountHas ==
    ASSUME NEW seq, NEW e, Single(seq, e)
    PROVE  Cardinality({i \in DOMAIN seq : seq[i] = e}) = IF Has(seq, e) THEN 1 ELSE 0
  <1>1. CASE Has(seq, e)
    <2>1. PICK i \in DOMAIN seq : seq[i] = e
      BY <1>1 DEF Has
    <2>2. {j \in DOMAIN seq : seq[j] = e} = {i}
      BY <2>1 DEF Single
    <2> QED BY <1>1, <2>2, FS_Singleton
  <1>2. CASE ~Has(seq, e)
    <2>1. {j \in DOMAIN seq : seq[j] = e} = {}
      BY <1>2 DEF Has
    <2> QED BY <1>2, <2>1, FS_EmptySet
  <1> QED BY <1>1, <1>2

\* The number of its places says whether a task is in one.
LEMMA PlacesCount ==
    ASSUME ConstantsOK, TypeOK, PlaceInv, NEW t \in Tasks
    PROVE  Places(t) = IF IsPlaced(t) THEN 1 ELSE 0
  <1>1. ASSUME NEW u \in Tasks PROVE EntryPlaces(u) = IF Entry(u) THEN 1 ELSE 0
    <2>1. /\ Single(queue, Work(u)) /\ Single(deferred, Work(u))
          /\ Has(queue, Work(u)) => ~Has(deferred, Work(u))
          /\ InHand(u) => ~Has(queue, Work(u)) /\ ~Has(deferred, Work(u))
      BY DEF PlaceInv, EntriesApart
    <2>2. /\ Cardinality({i \in DOMAIN queue : queue[i] = Work(u)})
                = IF Has(queue, Work(u)) THEN 1 ELSE 0
          /\ Cardinality({i \in DOMAIN deferred : deferred[i] = Work(u)})
                = IF Has(deferred, Work(u)) THEN 1 ELSE 0
      BY <2>1, CountHas
    <2>3. (IF phase = "task" /\ cur = Work(u) THEN 1 ELSE 0) = IF InHand(u) THEN 1 ELSE 0
      BY DEF InHand
    <2> HIDE DEF InHand
    <2> QED BY <2>1, <2>2, <2>3 DEF EntryPlaces, Entry
  <1>2. Cardinality({s \in Slots : task[s] = t}) = IF \E s \in Slots : task[s] = t THEN 1 ELSE 0
    <2>1. CASE \E s \in Slots : task[s] = t
      <3>1. PICK s \in Slots : task[s] = t
        BY <2>1
      <3>2. {u \in Slots : task[u] = t} = {s}
        BY <3>1 DEF PlaceInv, SlotsApart
      <3> QED BY <2>1, <3>2, FS_Singleton
    <2>2. CASE ~ \E s \in Slots : task[s] = t
      <3>1. {u \in Slots : task[u] = t} = {}
        BY <2>2
      <3> QED BY <2>2, <3>1, FS_EmptySet
    <2> QED BY <2>1, <2>2
  <1>3. Parent[t] # NoTask => Parent[t] \in Tasks
    BY DEF ConstantsOK
  <1>4. (\E s \in Slots : task[s] = t) => ~Entry(t) /\ (Parent[t] # NoTask => ~Entry(Parent[t]))
    BY DEF PlaceInv, SlotsApart
  <1>5. Entry(t) => Parent[t] = NoTask
    BY DEF PlaceInv, EntriesArePosted
  <1>6. (IF Parent[t] # NoTask THEN EntryPlaces(Parent[t]) ELSE 0)
           = IF Parent[t] # NoTask /\ Entry(Parent[t]) THEN 1 ELSE 0
    BY <1>1, <1>3
  <1> QED BY <1>1, <1>2, <1>4, <1>5, <1>6 DEF Places, IsPlaced

\* A task is never in two places, whatever the interleaving of posts, pops,
\* deferrals, launches that succeed or fail, releases and cancellations.
THEOREM OnePlaceAlways == Spec => []OnePlace
  <1>1. TypeOK /\ PlaceInv => OnePlace
    <2> SUFFICES ASSUME TypeOK, PlaceInv, NEW t \in Tasks PROVE Places(t) <= 1
      BY DEF OnePlace
    <2>1. Places(t) = IF IsPlaced(t) THEN 1 ELSE 0
      BY ConstantsOK, PlacesCount
    <2> QED BY <2>1
  <1> QED BY <1>1, TypeCorrect, PlaceInvHolds, PTL

-----------------------------------------------------------------------------
(* Which tasks are still to be answered.                                   *)

\* t is placed and not about to leave its slot.
Active(t) ==
    \/ Entry(t)
    \/ Parent[t] # NoTask /\ Entry(Parent[t])
    \/ \E s \in Slots : task[s] = t /\ s # releasing

\* The same, of the next state.
LEMMA ActiveNext ==
    ASSUME NEW t
    PROVE  /\ Entry(t)' <=> \/ Has(queue', Work(t)) \/ Has(deferred', Work(t))
                            \/ phase' = "task" /\ cur' = Work(t)
           /\ Active(t)' <=> \/ Entry(t)'
                             \/ Parent[t] # NoTask /\ Entry(Parent[t])'
                             \/ \E s \in Slots : task'[s] = t /\ s # releasing'
  BY DEF Entry, InHand, Active, Work

\* A slot that is to be released is that of no active task.
LEMMA ReleasedIsInactive ==
    ASSUME ConstantsOK, PlaceInv, NEW t \in Tasks, NEW s \in Slots, task[s] = t
    PROVE  Active(t) <=> s # releasing
  BY DEF Active, PlaceInv, SlotsApart

\* Steps that do not touch the entries and the tasks of the slots.
LEMMA ActiveStays ==
    ASSUME ConstantsOK, PlaceInv, TypeOK, NEW t \in Tasks,
           \A u \in Tasks : Entry(u)' <=> Entry(u),
           UNCHANGED task,
           \/ releasing' = releasing
           \/ releasing = 0 /\ releasing' \in Slots
    PROVE  /\ Active(t)' => Active(t)
           /\ Active(t) => \/ Active(t)'
                           \/ releasing = 0 /\ releasing' \in Slots /\ task[releasing'] = t
           /\ releasing = 0 /\ releasing' \in Slots /\ task[releasing'] = t => ~Active(t)'
  <1>1. Parent[t] # NoTask => Parent[t] \in Tasks
    BY DEF ConstantsOK
  <1>2. 0 \notin Slots
    BY DEF Slots
  <1>3. Entry(t)' <=> Entry(t)
    OBVIOUS
  <1>4. Parent[t] # NoTask => (Entry(Parent[t])' <=> Entry(Parent[t]))
    BY <1>1
  <1>5. \A s, u \in Slots : task[s] = t /\ task[u] = t => s = u
    BY DEF PlaceInv, SlotsApart
  <1>6. \A s \in Slots : task[s] = t => ~Entry(t) /\ (Parent[t] # NoTask => ~Entry(Parent[t]))
    BY DEF PlaceInv, SlotsApart
  <1> QED BY <1>2, <1>3, <1>4, <1>5, <1>6, ActiveNext DEF Active

\* Entries that only move.
LEMMA EntriesMoveMain ==
    ASSUME ConstantsOK, TypeOK, PlaceInv, NEW t \in Tasks,
           Release \/ PopTask \/ ProcessDefer
    PROVE  Entry(t)' <=> Entry(t)
  <1> USE DEF queueVars, readerVars, slotVars, batchVars, mainVars, At
  <1>1. CASE Release
    <2>1. UNCHANGED <<phase, cur>>
      BY <1>1 DEF Release
    <2>2. CASE UNCHANGED queueVars
      BY <2>1, <2>2, ActiveNext DEF Entry, InHand
    <2>3. CASE \E i \in NextDeferred(releasing) :
                  /\ queue' = <<deferred[i]>> \o queue
                  /\ deferred' = RemoveAt(deferred, i)
      <3>1. PICK i \in DOMAIN deferred : /\ queue' = <<deferred[i]>> \o queue
                                         /\ deferred' = RemoveAt(deferred, i)
        BY <2>3 DEF NextDeferred
      <3>2. PICK u \in Tasks :
                /\ Has(deferred, Work(u))
                /\ Has(queue', Work(t)) <=> t = u \/ Has(queue, Work(t))
                /\ Has(deferred', Work(t)) => Has(deferred, Work(t))
                /\ t # u /\ Has(deferred, Work(t)) => Has(deferred', Work(t))
        BY <3>1, PopDeferredHas
      <3> QED BY <2>1, <3>2, ActiveNext DEF Entry, InHand
    <2> QED BY <1>1, <2>2, <2>3 DEF Release
  <1>2. CASE PopTask
    <2>1. phase = "drain" /\ phase' = "task" /\ UNCHANGED deferred
      BY <1>2 DEF PopTask
    <2>2. Has(queue, Work(t)) <=> cur' = Work(t) \/ Has(queue', Work(t))
      BY <1>2, PopHas
    <2> QED BY <2>1, <2>2, ActiveNext DEF Entry, InHand
  <1>3. CASE ProcessDefer
    <2>1. PICK u \in Tasks : cur = Work(u) /\ InHand(u) /\ Defer(u)
      BY <1>3, WorkInHand DEF ProcessDefer
    <2>2. phase' = "drain" /\ UNCHANGED queue
      BY <1>3 DEF ProcessDefer, TaskDone
    <2>3. Has(deferred', Work(t)) <=> t = u \/ Has(deferred, Work(t))
      BY <2>1, DeferHas
    <2>4. InHand(t) <=> t = u
      BY <2>1, WorkNames DEF InHand
    <2> QED BY <2>2, <2>3, <2>4, ActiveNext DEF Entry
  <1> QED BY <1>1, <1>2, <1>3

\* A launch: the tasks of T have a slot, and if that is the whole family all are
\* still active.
LEMMA ActiveLaunched ==
    ASSUME ConstantsOK, RequestsOK, TypeOK, PlaceInv,
           NEW c \in Tasks, cur = Work(c), phase = "task", releasing = 0, releasing' = 0,
           NEW T, T \subseteq {c} \cup Children(c), NEW f \in Placements(T), Launched(f),
           UNCHANGED <<queue, deferred>>, phase' # "task", NEW t \in Tasks
    PROVE  Active(t)' <=> Active(t) /\ (t \in {c} \cup Children(c) => t \in T)
  <1>1. T \subseteq Tasks
    BY DEF Children
  <1>2. LaunchedOn(f, T)
    BY <1>1, LaunchedSlots
  <1>3. \A u \in Tasks : Entry(u)' <=> Entry(u) /\ u # c
    <2>1. InHand(c) /\ ~Has(queue, Work(c)) /\ ~Has(deferred, Work(c))
      BY DEF PlaceInv, EntriesApart, InHand
    <2>2. ASSUME NEW u \in Tasks PROVE InHand(u) <=> u = c
      BY WorkNames DEF InHand
    <2> QED BY <2>1, <2>2, ActiveNext DEF Entry
  <1>4. Entry(c) /\ Parent[c] = NoTask
    BY DEF InHand, Entry, PlaceInv, EntriesArePosted
  <1>5. 0 \notin Slots
    BY DEF Slots
  <1>6. Parent[t] # NoTask => Parent[t] \in Tasks
    BY DEF ConstantsOK
  <1>7. t \in Children(c) <=> Parent[t] = c
    BY DEF Children
  <1>8. CASE t \in T
    <2>1. PICK s \in DOMAIN f : f[s] = t
      BY <1>2, <1>8 DEF LaunchedOn
    <2>2. s \in Slots /\ task'[s] = t
      BY <1>2, <2>1 DEF LaunchedOn
    <2>3. Active(t)'
      BY <1>5, <2>2, ActiveNext
    <2>4. Active(t)
      BY <1>4, <1>7, <1>8 DEF Active, ConstantsOK
    <2> QED BY <1>8, <2>3, <2>4
  <1>9. CASE t \notin T
    <2>1. \A s \in Slots : task'[s] = t <=> task[s] = t
      <3>1. SUFFICES ASSUME NEW s \in Slots PROVE task'[s] = t <=> task[s] = t
        OBVIOUS
      <3>2. CASE s \in DOMAIN f
        <4>1. task'[s] \in T /\ Idle(s)
          BY <1>2, <3>2 DEF LaunchedOn
        <4>2. task[s] = NoTask
          BY <4>1 DEF Idle, PlaceInv, SlotsApart
        <4> QED BY <1>9, <4>1, <4>2 DEF ConstantsOK
      <3>3. CASE s \notin DOMAIN f
        BY <1>2, <3>3 DEF LaunchedOn
      <3> QED BY <3>2, <3>3
    <2>2. CASE t \in {c} \cup Children(c)
      <3>1. \A s \in Slots : task[s] # t
        BY <1>4, <1>7, <2>2 DEF PlaceInv, SlotsApart, ConstantsOK
      <3>2. ~Entry(t)' /\ (Parent[t] # NoTask => ~Entry(Parent[t])')
        <4>1. CASE t = c
          BY <1>3, <1>4, <4>1
        <4>2. CASE t # c
          <5>1. Parent[t] = c /\ c # NoTask
            BY <1>7, <2>2, <4>2 DEF ConstantsOK
          <5>2. ~Entry(t)
            BY <5>1 DEF PlaceInv, EntriesArePosted
          <5> QED BY <1>3, <5>1, <5>2
        <4> QED BY <4>1, <4>2
      <3>3. ~Active(t)'
        BY <2>1, <3>1, <3>2, ActiveNext
      <3> QED BY <1>9, <2>2, <3>3
    <2>3. CASE t \notin {c} \cup Children(c)
      <3>1. t # c /\ Parent[t] # c
        BY <1>7, <2>3
      <3>2. Active(t)' <=> Active(t)
        BY <1>3, <1>6, <2>1, <3>1, ActiveNext DEF Active
      <3> QED BY <2>3, <3>2
    <2> QED BY <2>2, <2>3
  <1> QED BY <1>8, <1>9

\* The task in the hands of process_single_task() has been dealt with.
LEMMA ActiveQuick ==
    ASSUME ConstantsOK, RequestsOK, TypeOK, PlaceInv, ProcessQuick \/ ProcessSlotAction,
           NEW t \in Tasks
    PROVE  Active(t)' <=> Active(t) /\ t # cur.task
  <1> USE DEF queueVars, readerVars, slotVars, batchVars, mainVars, At
  <1>1. PICK c \in Tasks : c = cur.task /\ cur = Work(c) /\ InHand(c)
    BY WorkInHand DEF ProcessQuick, ProcessSlotAction
  <1>2. phase' = "drain" /\ UNCHANGED <<queue, deferred, task, releasing>>
    BY DEF ProcessQuick, ProcessSlotAction, TaskDone
  <1>3. ~Has(queue, Work(c)) /\ ~Has(deferred, Work(c)) /\ Entry(c) /\ Parent[c] = NoTask
    BY <1>1 DEF PlaceInv, EntriesApart, EntriesArePosted, Entry
  <1>4. \A u \in Tasks : Entry(u)' <=> Entry(u) /\ u # c
    <2>1. ASSUME NEW u \in Tasks PROVE InHand(u) <=> u = c
      BY <1>1, WorkNames DEF InHand
    <2> QED BY <1>2, <1>3, <2>1, ActiveNext DEF Entry
  <1>5. \A u \in Tasks : Parent[u] # c
    <2>1. Kind[c] # "cmpl" /\ c # NoTask
      BY <1>1 DEF ProcessQuick, ProcessSlotAction, ConstantsOK
    <2> QED BY <2>1 DEF RequestsOK
  <1>6. \A s \in Slots : task[s] # c
    BY <1>3 DEF PlaceInv, SlotsApart
  <1>7. Parent[t] # NoTask => Parent[t] \in Tasks
    BY DEF ConstantsOK
  <1>8. CASE t = c
    BY <1>1, <1>2, <1>3, <1>4, <1>6, <1>8, ActiveNext
  <1>9. CASE t # c
    <2>1. Entry(t)' <=> Entry(t)
      BY <1>4, <1>9
    <2>2. Parent[t] # NoTask => (Entry(Parent[t])' <=> Entry(Parent[t]))
      BY <1>4, <1>5, <1>7
    <2> QED BY <1>1, <1>2, <1>9, <2>1, <2>2, ActiveNext DEF Active
  <1> QED BY <1>8, <1>9

\* The other steps of the main thread leave every entry where it is.
LEMMA EntriesStayMain ==
    ASSUME ConstantsOK, TypeOK, PlaceInv, MainStep,
           ~Release, ~PopTask, ~ProcessDefer, ~Launch, ~LaunchFails, ~ProcessQuick,
           ~ProcessSlotAction
    PROVE  /\ \A t \in Tasks : Entry(t)' <=> Entry(t)
           /\ UNCHANGED task
           /\ \/ releasing' = releasing
              \/ releasing = 0 /\ releasing' \in Slots
  <1> USE DEF queueVars, readerVars, slotVars, batchVars, mainVars, At
  <1>1. UNCHANGED <<deferred, task>> /\ (UpdateBusy \/ UNCHANGED queue)
    BY MainFrame
  <1>2. /\ phase' # "task"
        /\ phase = "task" => cur.type # "work"
        /\ \/ releasing' = releasing
           \/ releasing = 0 /\ releasing' \in Slots
    <2>1. CASE LoopStep
      BY <2>1 DEF LoopStep, Drained, WakeUp
    <2>2. CASE TaskStep
      BY <2>2 DEF TaskStep, Processing, SlotsOf, FamilySlots, ProcessNext, ProcessCancel,
                  Unlaunch, Unlaunched, TaskDone
    <2>3. CASE UpdateStep
      <3>1. ready \subseteq Slots
        BY DEF TypeOK
      <3> QED BY <2>3, <3>1
              DEF UpdateStep, UpdateIdle, UpdateBusy, ShiftFails, BatchSampled, SkipSlot, AtSlot,
                  RejectPrompt, BatchPrompt, ImageFails, BatchBuilt, EmptyBatch, DecodeOK,
                  DecodeFails, SendEmbedding, SampleToken, SampleLast, Sampled, FailSlot, Failed
    <2> QED BY <2>1, <2>2, <2>3 DEF MainStep
  <1>3. ASSUME NEW t \in Tasks PROVE Entry(t)' <=> Entry(t)
    <2>1. Has(queue', Work(t)) <=> Has(queue, Work(t))
      BY <1>1, PostNextHas
    <2>2. ~InHand(t)
      BY <1>2, EntryNames DEF InHand
    <2> QED BY <1>1, <1>2, <2>1, <2>2, ActiveNext DEF Entry
  <1> QED BY <1>1, <1>2, <1>3

\* A family has one reader.
LEMMA FamilyOwner ==
    ASSUME ConstantsOK, RequestsOK, NEW c \in Tasks, NEW t \in {c} \cup Children(c)
    PROVE  t \in Tasks /\ Owner[t] = Owner[c]
  BY DEF RequestsOK, ConstantsOK, Children

\* An active task has been posted.
LEMMA ActiveIsPosted ==
    ASSUME ConstantsOK, RequestsOK, PlaceInv, NEW t \in Tasks, Active(t)
    PROVE  IsPosted(t)
  <1>1. CASE Entry(t)
    BY <1>1 DEF PlaceInv, EntriesArePosted
  <1>2. CASE Parent[t] # NoTask /\ Entry(Parent[t])
    <2>1. Parent[t] \in Tasks /\ Owner[t] = Owner[Parent[t]]
      BY <1>2 DEF ConstantsOK, RequestsOK
    <2>2. IsPosted(Parent[t])
      BY <1>2, <2>1 DEF PlaceInv, EntriesArePosted
    <2> QED BY <2>1, <2>2 DEF IsPosted
  <1>3. CASE \E s \in Slots : task[s] = t
    BY <1>3 DEF PlaceInv, SlotsApart
  <1> QED BY <1>1, <1>2, <1>3 DEF Active

\* A slot that is not idle has an active task, unless it is to be released.
LEMMA BusyIsActive ==
    ASSUME ConstantsOK, TypeOK, PlaceInv, releasing = 0, NEW s \in Slots, state[s] # "IDLE"
    PROVE  task[s] \in Tasks /\ Active(task[s])
  <1>1. task[s] \in Tasks
    BY DEF TypeOK, PlaceInv, SlotsApart
  <1>2. s # releasing
    BY DEF Slots
  <1> QED BY <1>1, <1>2 DEF Active

\* release() moves an entry and frees a slot that no active task has.
LEMMA ActiveRelease ==
    ASSUME ConstantsOK, TypeOK, PlaceInv, Release, NEW t \in Tasks
    PROVE  Active(t)' <=> Active(t)
  <1>1. \A u \in Tasks : Entry(u)' <=> Entry(u)
    BY EntriesMoveMain
  <1>2. Parent[t] # NoTask => Parent[t] \in Tasks
    BY DEF ConstantsOK
  <1>3. \A s \in Slots : (task'[s] = t /\ s # releasing') <=> (task[s] = t /\ s # releasing)
    <2>1. releasing \in Slots /\ releasing' = 0 /\ task' = [task EXCEPT ![releasing] = NoTask]
      BY DEF Release, TypeOK
    <2>2. 0 \notin Slots
      BY DEF Slots
    <2> QED BY <2>1, <2>2 DEF TypeOK, ConstantsOK
  <1> QED BY <1>1, <1>2, <1>3, ActiveNext DEF Active

\* The active tasks of a launch, from whose hands they come.
LEMMA ActiveLaunch ==
    ASSUME ConstantsOK, RequestsOK, TypeOK, PlaceInv, Launch, NEW t \in Tasks
    PROVE  Active(t)' <=> Active(t)
  <1>1. PICK c \in Tasks : c = cur.task /\ cur = Work(c)
    BY WorkInHand DEF Launch
  <1>2. PICK T : T = {c} \cup Children(c)
    OBVIOUS
  <1>3. PICK f \in Placements(T) : Launched(f)
    BY <1>1, <1>2 DEF Launch
  <1>4. /\ phase = "task" /\ releasing = 0 /\ releasing' = 0 /\ phase' # "task"
        /\ UNCHANGED <<queue, deferred>>
    BY DEF Launch, Processing, At, TaskDone, queueVars
  <1>5. T \subseteq {c} \cup Children(c)
    BY <1>2
  <1>6. \A u \in Tasks : Active(u)' <=> Active(u) /\ (u \in {c} \cup Children(c) => u \in T)
    BY <1>1, <1>3, <1>4, <1>5, ActiveLaunched
  <1> QED BY <1>6, <1>2

\* A launch that fails ends the task it names in the error.
LEMMA ActiveLaunchFails ==
    ASSUME ConstantsOK, RequestsOK, TypeOK, PlaceInv, LaunchFails
    PROVE  \E c \in Tasks : \E bad \in {c} \cup Children(c) :
              /\ cur = Work(c) /\ Send(bad, "error")
              /\ Active(bad) /\ ~Active(bad)'
              /\ \A t \in Tasks : Active(t)' => Active(t)
              /\ \A t \in Tasks : Active(t) /\ ~Active(t)' => t \in {c} \cup Children(c)
  <1>1. PICK c \in Tasks : c = cur.task /\ cur = Work(c) /\ InHand(c)
    BY WorkInHand DEF LaunchFails
  <1>2. PICK bad \in {c} \cup Children(c) : \E before \in SUBSET (Children(c) \ {bad}) :
           (\E f \in Placements(before) : Launched(f)) /\ Send(bad, "error")
    BY <1>1 DEF LaunchFails, LaunchError
  <1>3. PICK before \in SUBSET (Children(c) \ {bad}) :
           (\E f \in Placements(before) : Launched(f)) /\ Send(bad, "error")
    BY <1>2
  <1>4. PICK f \in Placements(before) : Launched(f)
    BY <1>3
  <1>5. /\ phase = "task" /\ releasing = 0 /\ releasing' = 0 /\ phase' # "task"
        /\ UNCHANGED <<queue, deferred>>
    BY DEF LaunchFails, Processing, At, queueVars
  <1>6. before \subseteq {c} \cup Children(c) /\ bad \notin before
    BY <1>3
  <1>7. \A t \in Tasks : Active(t)' <=> Active(t) /\ (t \in {c} \cup Children(c) => t \in before)
    BY <1>1, <1>4, <1>5, <1>6, ActiveLaunched
  <1>8. bad \in Tasks /\ Active(bad)
    BY <1>1 DEF Children, Active, Entry, ConstantsOK
  <1> QED BY <1>1, <1>3, <1>6, <1>7, <1>8

\* A token that gives no text sends nothing.
LEMMA SendNothing ==
    ASSUME ConstantsOK, TypeOK, NEW t, SendAll(t, <<>>)
    PROVE  UNCHANGED inbox
  <1> DEFINE new == [i \in DOMAIN <<>> |-> [task |-> t, kind |-> <<>>[i]]]
  <1>1. new = <<>>
    OBVIOUS
  <1>2. CASE t \in waiting
    <2>1. Owner[t] \in Readers /\ inbox[Owner[t]] \in Seq(Results)
      BY <1>2 DEF TypeOK, ConstantsOK
    <2>2. inbox[Owner[t]] \o <<>> = inbox[Owner[t]]
      BY <2>1, ConcatEmptySeq
    <2>3. inbox' = [inbox EXCEPT ![Owner[t]] = inbox[Owner[t]] \o new]
      BY <1>2 DEF SendAll
    <2> HIDE DEF new
    <2> QED BY <1>1, <2>1, <2>2, <2>3 DEF TypeOK
  <1>3. CASE t \notin waiting
    BY <1>3 DEF SendAll
  <1> QED BY <1>2, <1>3

-----------------------------------------------------------------------------
(* What the main thread sends, and which tasks it ends.                    *)

\* The main thread sends results of t: partial ones, or the last ones and t is
\* over; with an error others of the request may be over too.
Answering(t, kinds) ==
    /\ SendAll(t, kinds)
    /\ Active(t)
    /\ \/ kinds = <<"partial">>
       \/ ~Active(t)'
       \/ kinds = <<"error">> /\ phase' = "aborted"
    /\ \A u \in Tasks : Active(u) /\ ~Active(u)' =>
          \/ u = t /\ kinds # <<"partial">>
          \/ kinds = <<"error">> /\ Owner[u] = Owner[t]

\* The main thread sends nothing: a task is over because its reader is done, or
\* because a failed launch, whose error is sent, is undone.
Silent ==
    /\ UNCHANGED inbox
    /\ \A u \in Tasks : Active(u) /\ ~Active(u)' =>
          \/ pc[Owner[u]] = "done"
          \/ phase = "unlaunch" /\ Owner[u] = Owner[cur.task]

OnlyFewerActive == \A t \in Tasks : Active(t)' => Active(t)

\* The steps outside update_slots().
LEMMA LoopAnswers ==
    ASSUME ConstantsOK, RequestsOK, TypeOK, ReaderInv, PlaceInv, LoopStep \/ TaskStep
    PROVE  /\ OnlyFewerActive
           /\ Silent \/ \E t \in Tasks, kinds \in Service!Answers : Answering(t, kinds)
  <1> USE DEF queueVars, readerVars, slotVars, batchVars, mainVars, At
  <1>1. CASE Release
    BY <1>1, ActiveRelease DEF OnlyFewerActive, Silent, Release
  <1>2. CASE Launch
    BY <1>2, ActiveLaunch DEF OnlyFewerActive, Silent, Launch
  <1>3. CASE LaunchFails
    <2>1. PICK c \in Tasks : \E bad \in {c} \cup Children(c) :
              /\ Send(bad, "error")
              /\ Active(bad) /\ ~Active(bad)'
              /\ \A t \in Tasks : Active(t)' => Active(t)
              /\ \A t \in Tasks : Active(t) /\ ~Active(t)' => t \in {c} \cup Children(c)
      BY <1>3, ActiveLaunchFails
    <2>2. PICK bad \in {c} \cup Children(c) :
              /\ Send(bad, "error")
              /\ Active(bad) /\ ~Active(bad)'
              /\ \A t \in Tasks : Active(t)' => Active(t)
              /\ \A t \in Tasks : Active(t) /\ ~Active(t)' => t \in {c} \cup Children(c)
      BY <2>1
    <2>3. bad \in Tasks /\ \A t \in {c} \cup Children(c) : Owner[t] = Owner[bad]
      BY <2>2, FamilyOwner
    <2>4. Answering(bad, <<"error">>)
      BY <2>3, <2>2 DEF Answering, Send
    <2> QED BY <2>3, <2>4, <2>2 DEF OnlyFewerActive, Service!Answers
  <1>4. CASE ProcessQuick \/ ProcessSlotAction
    <2>1. PICK c \in Tasks : c = cur.task /\ cur = Work(c) /\ InHand(c)
      BY <1>4, WorkInHand DEF ProcessQuick, ProcessSlotAction
    <2>2. \A t \in Tasks : Active(t)' <=> Active(t) /\ t # c
      BY <1>4, <2>1, ActiveQuick
    <2>3. PICK kind \in {"final", "error"} : Send(c, kind)
      BY <1>4, <2>1 DEF ProcessQuick, ProcessSlotAction
    <2>4. Active(c)
      BY <2>1 DEF Active, Entry
    <2>5. <<kind>> \in Service!Answers /\ <<kind>> # <<"partial">>
      BY <2>3 DEF Service!Answers
    <2>6. Answering(c, <<kind>>)
      BY <2>2, <2>3, <2>4, <2>5 DEF Answering, Send
    <2> QED BY <2>2, <2>5, <2>6 DEF OnlyFewerActive
  <1>5. CASE PopTask \/ ProcessDefer
    <2>1. \A t \in Tasks : Entry(t)' <=> Entry(t)
      BY <1>5, EntriesMoveMain
    <2>2. UNCHANGED <<inbox, task, releasing>>
      BY <1>5 DEF PopTask, ProcessDefer
    <2>3. \A t \in Tasks : Active(t)' <=> Active(t)
      <3>1. \A t \in Tasks : Parent[t] # NoTask => Parent[t] \in Tasks
        BY DEF ConstantsOK
      <3> QED BY <2>1, <2>2, <3>1, ActiveNext DEF Active
    <2> QED BY <2>2, <2>3 DEF OnlyFewerActive, Silent
  <1>6. CASE Drained \/ WakeUp \/ ProcessNext \/ ProcessCancel \/ Unlaunch \/ Unlaunched
    <2>1. /\ UNCHANGED inbox
          /\ ~Release /\ ~PopTask /\ ~ProcessDefer /\ ~Launch /\ ~LaunchFails
          /\ ~ProcessQuick /\ ~ProcessSlotAction
      <3>1. releasing = 0
        BY <1>6 DEF Drained, WakeUp, ProcessNext, ProcessCancel, Unlaunch, Unlaunched, Processing
      <3>2. ~Release
        BY <3>1 DEF Release
      <3>3. ~PopTask /\ UNCHANGED inbox
        BY <1>6 DEF PopTask, Drained, WakeUp, ProcessNext, ProcessCancel, Unlaunch, Unlaunched,
                    Processing
      <3>4. ~(phase = "task" /\ cur.type = "work")
        BY <1>6 DEF Drained, WakeUp, ProcessNext, ProcessCancel, Unlaunch, Unlaunched, Processing
      <3> QED BY <3>2, <3>3, <3>4 DEF ProcessDefer, Launch, LaunchFails, ProcessQuick,
                                      ProcessSlotAction, Processing
    <2>2. /\ \A t \in Tasks : Entry(t)' <=> Entry(t)
          /\ UNCHANGED task
          /\ \/ releasing' = releasing
             \/ releasing = 0 /\ releasing' \in Slots
      <3>1. MainStep
        BY <1>6 DEF MainStep, LoopStep, TaskStep
      <3> QED BY <2>1, <3>1, EntriesStayMain
    <2>3. ASSUME NEW t \in Tasks
          PROVE  /\ Active(t)' => Active(t)
                 /\ Active(t) /\ ~Active(t)' =>
                       releasing = 0 /\ releasing' \in Slots /\ task[releasing'] = t
      BY <2>2, ActiveStays
    <2>4. ASSUME NEW u \in Tasks, Active(u), ~Active(u)'
          PROVE  \/ pc[Owner[u]] = "done"
                 \/ phase = "unlaunch" /\ Owner[u] = Owner[cur.task]
      <3>1. releasing = 0 /\ releasing' \in Slots /\ task[releasing'] = u /\ releasing' # 0
        BY <2>3, <2>4 DEF Slots
      <3>2. CASE ProcessCancel
        <4>1. u = cur.task
          BY <3>1, <3>2 DEF ProcessCancel, SlotsOf
        <4>2. cur = Cancel(u)
          BY <3>2, <4>1 DEF ProcessCancel, Processing, TypeOK, Entries, Work, Cancel, NextResponse,
                            NoEntry
        <4> QED BY <4>2 DEF ReaderInv, CancelsFromOwner
      <3>3. CASE Unlaunch
        <4>1. phase = "unlaunch" /\ cur.task \in {u, Parent[u]} /\ u # NoTask
          BY <3>1, <3>3 DEF Unlaunch, FamilySlots
        <4>2. cur.task \in Tasks
          <5>1. PICK c \in Tasks : cur = Work(c)
            BY <4>1 DEF PlaceInv, UnlaunchIsOfNobody
          <5> QED BY <5>1 DEF Work
        <4>3. u \in {cur.task} \cup Children(cur.task)
          BY <4>1 DEF Children
        <4> QED BY <4>1, <4>2, <4>3, FamilyOwner
      <3>4. CASE ~ProcessCancel /\ ~Unlaunch
        BY <1>6, <3>1, <3>4 DEF Drained, WakeUp, ProcessNext, Unlaunched
      <3> QED BY <3>2, <3>3, <3>4
    <2> QED BY <2>1, <2>3, <2>4 DEF OnlyFewerActive, Silent
  <1> QED BY <1>1, <1>2, <1>3, <1>4, <1>5, <1>6 DEF LoopStep, TaskStep

\* update_slots(): a slot that answers is at work.
LEMMA UpdateAnswers ==
    ASSUME ConstantsOK, RequestsOK, TypeOK, ReaderInv, BatchInv, PlaceInv, UpdateStep
    PROVE  /\ OnlyFewerActive
           /\ Silent \/ \E t \in Tasks, kinds \in Service!Answers : Answering(t, kinds)
  <1> USE DEF queueVars, readerVars, slotVars, batchVars, mainVars, At
  <1>1. phase \notin {"task", "drain"} /\ releasing = 0
    BY DEF UpdateStep, UpdateIdle, UpdateBusy, ShiftFails, BatchSampled, SkipSlot, AtSlot,
           RejectPrompt, BatchPrompt, ImageFails, BatchBuilt, EmptyBatch, DecodeOK,
           DecodeFails, SendEmbedding, SampleToken, SampleLast, Sampled, FailSlot, Failed
  <1>2. /\ \A t \in Tasks : Entry(t)' <=> Entry(t)
        /\ UNCHANGED task
        /\ \/ releasing' = releasing
           \/ releasing = 0 /\ releasing' \in Slots
    <2>1. /\ ~Release /\ ~PopTask /\ ~ProcessDefer /\ ~Launch /\ ~LaunchFails
          /\ ~ProcessQuick /\ ~ProcessSlotAction
      BY <1>1 DEF Release, PopTask, ProcessDefer, Launch, LaunchFails, ProcessQuick,
                  ProcessSlotAction, Processing
    <2> QED BY <2>1, EntriesStayMain DEF MainStep
  <1>3. ASSUME NEW t \in Tasks
        PROVE  /\ Active(t)' => Active(t)
               /\ Active(t) /\ ~Active(t)' => releasing' \in Slots /\ task[releasing'] = t
               /\ releasing' \in Slots /\ task[releasing'] = t => ~Active(t)'
    BY <1>1, <1>2, ActiveStays
  <1>4. OnlyFewerActive /\ 0 \notin Slots
    BY <1>3 DEF OnlyFewerActive, Slots
  <1>5. CASE UNCHANGED <<inbox, releasing>>
    BY <1>1, <1>3, <1>4, <1>5 DEF Silent
  <1>6. CASE \E s \in Slots : \E kinds \in Service!Answers :
                /\ state[s] # "IDLE"
                /\ SendAll(task[s], kinds)
                /\ \/ releasing' = s /\ kinds # <<"partial">>
                   \/ UNCHANGED releasing /\ kinds = <<"partial">>
                   \/ UNCHANGED releasing /\ kinds = <<"error">> /\ phase' = "aborted"
    <2>1. PICK s \in Slots, kinds \in Service!Answers :
                /\ state[s] # "IDLE"
                /\ SendAll(task[s], kinds)
                /\ \/ releasing' = s /\ kinds # <<"partial">>
                   \/ UNCHANGED releasing /\ kinds = <<"partial">>
                   \/ UNCHANGED releasing /\ kinds = <<"error">> /\ phase' = "aborted"
      BY <1>6
    <2>2. task[s] \in Tasks /\ Active(task[s])
      BY <1>1, <2>1, BusyIsActive
    <2>3. PICK t \in Tasks : t = task[s]
      BY <2>2
    <2>4. /\ \/ kinds = <<"partial">>
             \/ ~Active(t)'
             \/ kinds = <<"error">> /\ phase' = "aborted"
          /\ \A u \in Tasks : Active(u) /\ ~Active(u)' => u = t /\ kinds # <<"partial">>
      BY <1>1, <1>3, <1>4, <2>1, <2>3
    <2>5. Answering(t, kinds)
      BY <2>1, <2>2, <2>3, <2>4 DEF Answering
    <2> QED BY <1>4, <2>5
  <1>7. CASE ShiftFails \/ RejectPrompt \/ ImageFails \/ FailSlot
    <2>1. <<"error">> \in Service!Answers /\ <<"final">> \in Service!Answers
          /\ <<"error">> # <<"partial">> /\ <<"final">> # <<"partial">>
      BY DEF Service!Answers
    <2>2. CASE ShiftFails
      <3>1. PICK s \in Slots : state[s] = "GENERATING" /\ Send(task[s], "error") /\ releasing' = s
        BY <2>2 DEF ShiftFails
      <3> QED BY <1>6, <2>1, <3>1 DEF Send
    <2>3. CASE RejectPrompt
      <3>1. PICK s \in Slots : /\ state[s] = "STARTED" /\ releasing' = s
                               /\ Send(task[s], "final") \/ Send(task[s], "error")
        BY <2>3 DEF RejectPrompt
      <3> QED BY <1>6, <2>1, <3>1 DEF Send
    <2>4. CASE ImageFails
      <3>1. PICK s \in Slots : InPrompt(s) /\ Send(task[s], "error")
        BY <2>4 DEF ImageFails
      <3>2. phase' = "aborted" /\ UNCHANGED releasing
        BY <2>4 DEF ImageFails
      <3>3. state[s] # "IDLE"
        BY <3>1 DEF InPrompt
      <3> QED BY <1>6, <2>1, <3>1, <3>2, <3>3 DEF Send
    <2>5. CASE FailSlot
      <3>1. PICK s \in Slots : state[s] # "IDLE" /\ Send(task[s], "error") /\ releasing' = s
        BY <2>5 DEF FailSlot, Idle
      <3> QED BY <1>6, <2>1, <3>1 DEF Send
    <2> QED BY <1>7, <2>2, <2>3, <2>4, <2>5
  <1>8. CASE SendEmbedding \/ SampleToken \/ SampleLast
    <2>1. phase = "sample" /\ \A s \in ready : s \in Slots /\ state[s] # "IDLE"
      BY <1>8 DEF SendEmbedding, SampleToken, SampleLast, TypeOK, BatchInv, BatchIsAtWork
    <2>2. CASE SendEmbedding
      <3>1. PICK s \in ready : Send(task[s], "final") /\ releasing' = s
        BY <2>2 DEF SendEmbedding
      <3>2. <<"final">> \in Service!Answers /\ <<"final">> # <<"partial">>
        BY DEF Service!Answers
      <3> QED BY <1>6, <2>1, <3>1, <3>2 DEF Send
    <2>3. CASE SampleToken
      <3>1. PICK s \in ready : \E text \in Texts(task[s]) : SendAll(task[s], text)
        BY <2>3 DEF SampleToken
      <3>2. PICK text \in Texts(task[s]) : SendAll(task[s], text)
        BY <3>1
      <3>3. UNCHANGED releasing
        BY <2>3 DEF SampleToken
      <3>4. CASE text = <<>>
        <4>1. UNCHANGED inbox
          BY <3>4, <3>2, SendNothing
        <4> QED BY <1>5, <3>3, <4>1
      <3>5. CASE text = <<"partial">>
        BY <1>6, <2>1, <3>3, <3>5, <3>2 DEF Service!Answers
      <3> QED BY <3>4, <3>5 DEF Texts
    <2>4. CASE SampleLast
      <3>1. PICK s \in ready : \E text \in Texts(task[s]) : /\ SendAll(task[s], Append(text, "final"))
                                                        /\ releasing' = s
        BY <2>4 DEF SampleLast
      <3>2. PICK text \in Texts(task[s]) : /\ SendAll(task[s], Append(text, "final"))
                                           /\ releasing' = s
        BY <3>1
      <3>3. Append(text, "final") \in {<<"final">>, <<"partial", "final">>}
        <4>1. Append(<<>>, "final") = <<"final">>
          OBVIOUS
        <4>2. Append(<<"partial">>, "final") = <<"partial", "final">>
          <5>1. <<"partial">> \in Seq(Outcomes) /\ "final" \in Outcomes
            BY DEF Outcomes
          <5>2. /\ Append(<<"partial">>, "final") \in Seq(Outcomes)
                /\ Len(Append(<<"partial">>, "final")) = 2
                /\ Append(<<"partial">>, "final")[1] = "partial"
                /\ Append(<<"partial">>, "final")[2] = "final"
            BY <5>1, AppendProperties
          <5>3. <<"partial", "final">> \in Seq(Outcomes) /\ Len(<<"partial", "final">>) = 2
            BY DEF Outcomes
          <5>4. PICK a, b \in Seq(Outcomes) : /\ a = Append(<<"partial">>, "final")
                                              /\ b = <<"partial", "final">>
            BY <5>2, <5>3
          <5>5. b[1] = "partial" /\ b[2] = "final" /\ \A i \in 1 .. 2 : i = 1 \/ i = 2
            BY <5>4
          <5>6. Len(a) = 2 /\ Len(b) = 2 /\ \A i \in 1 .. 2 : a[i] = b[i]
            BY <5>2, <5>3, <5>4, <5>5
          <5>7. \A i \in 1 .. Len(a) : a[i] = b[i]
            BY <5>6
          <5>8. Len(a) = Len(b)
            BY <5>6
          <5>9. a = b
            BY <5>7, <5>8, SeqEqual
          <5> QED BY <5>4, <5>9
        <4> QED BY <4>1, <4>2 DEF Texts
      <3>4. /\ <<"final">> # <<"partial">> /\ <<"partial", "final">> # <<"partial">>
            /\ {<<"final">>, <<"partial", "final">>} \subseteq Service!Answers
        BY DEF Service!Answers
      <3> QED BY <1>6, <2>1, <3>3, <3>4, <3>2
    <2> QED BY <1>8, <2>2, <2>3, <2>4
  <1> QED BY <1>5, <1>7, <1>8 DEF UpdateStep, UpdateIdle, UpdateBusy, BatchSampled, SkipSlot,
             BatchPrompt, BatchBuilt, EmptyBatch, DecodeOK, DecodeFails, Sampled, Failed

-----------------------------------------------------------------------------
(* Results on their way to a reader.                                       *)

\* Only partial results of t are in box.
StillOpen(box, t) == \A i \in DOMAIN box : box[i].task = t => box[i].kind = "partial"

\* A stop result or an error is the last result of its task.
InOrder(box) ==
    \A i, j \in DOMAIN box : i < j /\ box[i].task = box[j].task => box[i].kind = "partial"

OfTasks(box, T) == \A i \in DOMAIN box : box[i].task \in T

\* Taking the oldest result.
LEMMA TakeOldest ==
    ASSUME NEW box \in Seq(Results), box # <<>>
    PROVE  /\ Head(box) \in Results /\ Head(box) = box[1] /\ 1 \in DOMAIN box
           /\ InOrder(box) => InOrder(Tail(box))
           /\ InOrder(box) /\ Head(box).kind # "partial" =>
                 \A i \in DOMAIN Tail(box) : Tail(box)[i].task # Head(box).task
           /\ \A T : OfTasks(box, T) => OfTasks(Tail(box), T)
           /\ \A t : StillOpen(box, t) => StillOpen(Tail(box), t)
           /\ \A i \in DOMAIN Tail(box) : \E k \in DOMAIN box : box[k] = Tail(box)[i]
           /\ \A k \in DOMAIN box : k = 1 \/ \E i \in DOMAIN Tail(box) : Tail(box)[i] = box[k]
  <1>1. /\ Tail(box) \in Seq(Results) /\ Len(Tail(box)) = Len(box) - 1 /\ Head(box) \in Results
        /\ \A i \in 1 .. Len(Tail(box)) : Tail(box)[i] = box[i + 1]
    BY HeadTailProperties
  <1>2. /\ DOMAIN box = 1 .. Len(box) /\ Len(box) \in Nat /\ Len(box) # 0
        /\ DOMAIN Tail(box) = 1 .. Len(box) - 1 /\ Head(box) = box[1]
    BY <1>1, EmptySeq
  <1>3. \A i \in DOMAIN Tail(box) : i + 1 \in DOMAIN box /\ Tail(box)[i] = box[i + 1] /\ 1 < i + 1
    BY <1>1, <1>2
  <1>4. 1 \in DOMAIN box
    BY <1>2
  <1>5. \A i \in DOMAIN Tail(box) : \A j \in DOMAIN Tail(box) : i < j => i + 1 < j + 1
    BY <1>2
  <1>6. \A k \in DOMAIN box : k = 1 \/ (k - 1 \in DOMAIN Tail(box) /\ Tail(box)[k - 1] = box[k])
    <2>1. ASSUME NEW k \in 1 .. Len(box), k # 1
          PROVE  k - 1 \in 1 .. Len(box) - 1 /\ k - 1 + 1 = k
      BY <1>2, <2>1
    <2> QED BY <1>1, <1>2, <2>1
  <1>7. InOrder(box) => InOrder(Tail(box))
    BY <1>3, <1>5 DEF InOrder
  <1>8. InOrder(box) /\ Head(box).kind # "partial" =>
           \A i \in DOMAIN Tail(box) : Tail(box)[i].task # Head(box).task
    BY <1>2, <1>3, <1>4 DEF InOrder
  <1>9. /\ \A T : OfTasks(box, T) => OfTasks(Tail(box), T)
        /\ \A t : StillOpen(box, t) => StillOpen(Tail(box), t)
    BY <1>3 DEF OfTasks, StillOpen
  <1> QED BY <1>1, <1>2, <1>3, <1>4, <1>6, <1>7, <1>8, <1>9

\* Sending results of t behind those that are on their way.
LEMMA SendBehind ==
    ASSUME NEW box \in Seq(Results), NEW new \in Seq(Results), NEW t,
           \A i \in DOMAIN new : new[i].task = t, InOrder(new)
    PROVE  /\ InOrder(box) /\ StillOpen(box, t) => InOrder(box \o new)
           /\ \A T : OfTasks(box, T) /\ t \in T => OfTasks(box \o new, T)
           /\ \A u : u # t /\ StillOpen(box, u) => StillOpen(box \o new, u)
           /\ StillOpen(box, t) /\ StillOpen(new, t) => StillOpen(box \o new, t)
  <1>1. ASSUME NEW k \in DOMAIN (box \o new)
        PROVE  \/ k \in DOMAIN box /\ (box \o new)[k] = box[k]
               \/ /\ k > Len(box) /\ k - Len(box) \in DOMAIN new
                  /\ (box \o new)[k] = new[k - Len(box)]
    <2>1. /\ Len(box \o new) = Len(box) + Len(new) /\ box \o new \in Seq(Results)
          /\ \A i \in 1 .. Len(box) + Len(new) : (box \o new)[i] =
                IF i <= Len(box) THEN box[i] ELSE new[i - Len(box)]
      BY ConcatProperties
    <2>2. Len(box) \in Nat /\ Len(new) \in Nat /\ k \in 1 .. Len(box) + Len(new)
      BY <2>1
    <2>3. DOMAIN box = 1 .. Len(box) /\ DOMAIN new = 1 .. Len(new)
      OBVIOUS
    <2>4. (box \o new)[k] = IF k <= Len(box) THEN box[k] ELSE new[k - Len(box)]
      BY <2>1, <2>2, Zenon
    <2>5. k <= Len(box) => k \in 1 .. Len(box)
      BY <2>2
    <2>6. ~(k <= Len(box)) => k > Len(box) /\ k - Len(box) \in 1 .. Len(new)
      BY <2>2
    <2> QED BY <2>3, <2>4, <2>5, <2>6, Zenon
  <1>2. PICK all : all = box \o new
    OBVIOUS
  <1>3. \A k \in DOMAIN all :
           \/ k \in DOMAIN box /\ all[k] = box[k]
           \/ k > Len(box) /\ k - Len(box) \in DOMAIN new /\ all[k] = new[k - Len(box)]
    BY <1>1, <1>2
  <1>4. /\ \A T : OfTasks(box, T) /\ t \in T => OfTasks(all, T)
        /\ \A u : u # t /\ StillOpen(box, u) => StillOpen(all, u)
        /\ StillOpen(box, t) /\ StillOpen(new, t) => StillOpen(all, t)
    BY <1>3 DEF OfTasks, StillOpen
  <1>5. ASSUME InOrder(box), StillOpen(box, t) PROVE InOrder(all)
    <2>1. SUFFICES ASSUME NEW i \in DOMAIN all, NEW j \in DOMAIN all, i < j,
                          all[i].task = all[j].task
                   PROVE  all[i].kind = "partial"
      BY DEF InOrder
    <2>2. DOMAIN box = 1 .. Len(box) /\ Len(box) \in Nat /\ DOMAIN new = 1 .. Len(new)
          /\ Len(new) \in Nat
      OBVIOUS
    <2>3. DOMAIN all \subseteq Nat
      <3>1. all \in Seq(Results)
        BY <1>2, ConcatProperties
      <3> QED BY <3>1
    <2>4. CASE i \in DOMAIN box /\ j \in DOMAIN box
      <3>1. all[i] = box[i] /\ all[j] = box[j]
        BY <1>3, <2>2, <2>4
      <3> QED BY <1>5, <2>1, <2>4, <3>1 DEF InOrder
    <2>5. CASE i \in DOMAIN box /\ j \notin DOMAIN box
      <3>1. all[i] = box[i]
        BY <1>3, <2>2, <2>5
      <3>2. all[j].task = t
        BY <1>3, <2>5
      <3> QED BY <1>5, <2>1, <2>5, <3>1, <3>2 DEF StillOpen
    <2>6. CASE i \notin DOMAIN box
      <3>1. i > Len(box) /\ j > Len(box) /\ j \notin DOMAIN box
        BY <1>3, <2>1, <2>2, <2>3, <2>6
      <3>2. /\ i - Len(box) \in DOMAIN new /\ all[i] = new[i - Len(box)]
            /\ j - Len(box) \in DOMAIN new /\ all[j] = new[j - Len(box)]
        BY <1>3, <2>6, <3>1
      <3>3. i - Len(box) < j - Len(box)
        BY <2>1, <2>2, <2>3
      <3> QED BY <2>1, <3>2, <3>3 DEF InOrder
    <2> QED BY <2>4, <2>5, <2>6
  <1> QED BY <1>2, <1>4, <1>5

\* An error is in box.
Fails(box) == \E i \in DOMAIN box : box[i].kind = "error"

\* The stop result of t.
Stop(t) == [task |-> t, kind |-> "final"]

\* What is in a part of a sequence of results is in the whole.
LEMMA ResultsConcat ==
    ASSUME NEW box \in Seq(Results), NEW new \in Seq(Results)
    PROVE  /\ Fails(box \o new) <=> Fails(box) \/ Fails(new)
           /\ \A e : Has(box \o new, e) <=> Has(box, e) \/ Has(new, e)
  <1>1. PICK all : all = box \o new
    OBVIOUS
  <1>2. \A e : Has(all, e) <=> Has(box, e) \/ Has(new, e)
    BY <1>1, HasConcat
  <1>3. \A b : Fails(b) <=> \E e : Has(b, e) /\ e.kind = "error"
    BY DEF Fails, Has
  <1> QED BY <1>1, <1>2, <1>3

\* What send() adds for one of the answers of the service.
LEMMA AnswerResults ==
    ASSUME NEW t \in Tasks, NEW kinds \in Service!Answers, NEW new,
           new = [i \in DOMAIN kinds |-> [task |-> t, kind |-> kinds[i]]]
    PROVE  /\ new \in Seq(Results) /\ \A i \in DOMAIN new : new[i].task = t
           /\ InOrder(new)
           /\ kinds = <<"partial">> => StillOpen(new, t)
           /\ kinds = <<"error">> => Fails(new)
           /\ kinds \notin {<<"partial">>, <<"error">>} => Has(new, Stop(t))
  <1>1. kinds \in Seq(Outcomes)
    BY DEF Service!Answers, Outcomes
  <1>2. /\ DOMAIN kinds = 1 .. Len(kinds) /\ Len(kinds) \in Nat
        /\ \A i \in DOMAIN kinds : kinds[i] \in Outcomes
    BY <1>1
  <1>3. /\ DOMAIN new = DOMAIN kinds
        /\ \A i \in DOMAIN kinds : new[i] = [task |-> t, kind |-> kinds[i]]
    OBVIOUS
  <1>4. new \in Seq(Results)
    <2>1. \A i \in DOMAIN kinds : [task |-> t, kind |-> kinds[i]] \in Results
      BY <1>2 DEF Results
    <2> QED BY <1>2, <2>1
  <1>5. CASE kinds \in {<<"partial">>, <<"final">>, <<"error">>}
    <2>1. DOMAIN new = {1} /\ new[1] = [task |-> t, kind |-> kinds[1]]
      BY <1>3, <1>5
    <2>2. InOrder(new)
      BY <2>1 DEF InOrder
    <2> QED BY <1>3, <1>4, <1>5, <2>1, <2>2 DEF StillOpen, Fails, Has, Stop
  <1>6. CASE kinds = <<"partial", "final">>
    <2>1. /\ DOMAIN new = {1, 2} /\ new[1] = [task |-> t, kind |-> "partial"]
          /\ new[2] = [task |-> t, kind |-> "final"]
      BY <1>3, <1>6
    <2>2. InOrder(new)
      BY <2>1 DEF InOrder
    <2>3. kinds # <<"partial">> /\ kinds # <<"error">>
      BY <1>6
    <2> QED BY <1>3, <1>4, <2>1, <2>2, <2>3 DEF Has, Stop
  <1> QED BY <1>5, <1>6 DEF Service!Answers

-----------------------------------------------------------------------------
(* The tasks that the steps of an HTTP thread make active and end.         *)

\* Posting makes the tasks of the reader active, cancelling ends some of them.
LEMMA ReaderActive ==
    ASSUME ConstantsOK, RequestsOK, TypeOK, ReaderInv, NEW r \in Readers, ReaderStep(r) \/ Leave(r),
           NEW t \in Tasks
    PROVE  /\ Active(t)' => Active(t) \/ (Post(r) /\ Owner[t] = r)
           /\ Active(t) => Active(t)' \/ (CancelOne(r) /\ Owner[t] = r)
           /\ Post(r) /\ Owner[t] = r => Active(t)'
  <1>1. UNCHANGED <<phase, cur, task, releasing>>
    BY ReaderFrame
  <1>2. Parent[t] # NoTask => Parent[t] \in Tasks /\ Owner[Parent[t]] = Owner[t]
                              /\ Parent[Parent[t]] = NoTask
    BY DEF ConstantsOK, RequestsOK
  <1>3. \A u \in Tasks : InHand(u)' <=> InHand(u)
    BY <1>1 DEF InHand, Work
  <1>4. CASE Post(r)
    <2>1. \A u \in Tasks : Entry(u)' <=> Entry(u) \/ u \in TopTasks(r)
      <3>1. \A u \in Tasks : /\ Has(queue', Work(u)) <=> Has(queue, Work(u)) \/ u \in TopTasks(r)
                             /\ UNCHANGED deferred
        BY <1>4, PostHas
      <3> QED BY <1>3, <3>1 DEF Entry, Work
    <2>2. \A u \in Tasks : u \in TopTasks(r) <=> Owner[u] = r /\ Parent[u] = NoTask
      BY DEF RequestsOK, TasksOf
    <2> QED BY <1>1, <1>2, <1>4, <2>1, <2>2 DEF Active
  <1>5. CASE CancelOne(r)
    <2>1. PICK c \in todo[r] : /\ queue' = <<Cancel(c)>> \o Without(queue, c)
                               /\ deferred' = Without(deferred, c)
      BY <1>5 DEF CancelOne
    <2>2. c \in Tasks /\ Owner[c] = r
      BY <2>1 DEF ReaderInv, CancelsAll, TasksOf
    <2>3. \A u \in Tasks : /\ Entry(u)' => Entry(u)
                           /\ Entry(u) => Entry(u)' \/ u = c
      <3>1. \A u \in Tasks : /\ Has(queue', Work(u)) => Has(queue, Work(u))
                             /\ Has(deferred', Work(u)) => Has(deferred, Work(u))
                             /\ u # c /\ Has(queue, Work(u)) => Has(queue', Work(u))
                             /\ u # c /\ Has(deferred, Work(u)) => Has(deferred', Work(u))
        BY <2>1, <2>2, CancelHas
      <3> QED BY <1>3, <3>1 DEF Entry, Work
    <2>4. ~Post(r)
      BY <1>5 DEF CancelOne, Post
    <2> QED BY <1>1, <1>2, <1>5, <2>2, <2>3, <2>4 DEF Active
  <1>6. CASE ~CancelOne(r) /\ ~Post(r)
    <2>1. UNCHANGED <<queue, deferred>>
      BY <1>6, ReaderFrame
    <2>2. \A u \in Tasks : Entry(u)' <=> Entry(u)
      BY <1>3, <2>1 DEF Entry, Work
    <2> QED BY <1>1, <1>2, <1>6, <2>2 DEF Active
  <1> QED BY <1>4, <1>5, <1>6

-----------------------------------------------------------------------------
(* What a reader has got and what is on its way to it.                     *)

\* received_count counts the stop results that a reader has taken.
CountsStops == \A r \in Readers : got[r] \subseteq TasksOf(r) /\ received[r] = Cardinality(got[r])

\* Nothing is on its way for a task whose stop result has been taken, and
\* nothing follows a stop result or an error.
InboxInOrder == \A r \in Readers : OfTasks(inbox[r], TasksOf(r) \ got[r]) /\ InOrder(inbox[r])

\* Neither a stop result nor an error of t has been sent.
IsOpen(t) == t \notin got[Owner[t]] /\ StillOpen(inbox[Owner[t]], t)

\* (When a failed image ends the process, the slot it was on is not released.)
ActiveIsOpen ==
    \A t \in Tasks : Active(t) /\ (Alive \/ ~HasError(Owner[t])) => IsOpen(t)

\* Where a reader is says what it may have received.
InboxByState ==
    \A r \in Readers :
        /\ pc[r] \in {"new", "post"} => inbox[r] = <<>> /\ got[r] = {}
        /\ pc[r] \in {"cancel", "done"} => inbox[r] = <<>>
        /\ pc[r] = "failed" => HasMore(r)

AnswerInv == CountsStops /\ InboxInOrder /\ ActiveIsOpen /\ InboxByState

\* The main thread does nothing after an abort.
LEMMA MainAlive == MainStep => Alive
  BY DEF MainStep, LoopStep, TaskStep, UpdateStep, Alive, At, Processing, AtSlot, Release, PopTask,
         Drained, WakeUp, ProcessNext, ProcessCancel, ProcessQuick, ProcessSlotAction,
         ProcessDefer, Launch, LaunchFails, Unlaunch, Unlaunched, UpdateIdle, UpdateBusy,
         ShiftFails, BatchSampled, SkipSlot, RejectPrompt, BatchPrompt, ImageFails, BatchBuilt,
         EmptyBatch, DecodeOK, DecodeFails, SendEmbedding, SampleToken, SampleLast, Sampled,
         FailSlot, Failed

\* What a step of the main thread sends.
LEMMA MainAnswers ==
    ASSUME ConstantsOK, RequestsOK, TypeOK, ReaderInv, BatchInv, PlaceInv, MainStep
    PROVE  /\ OnlyFewerActive
           /\ Silent \/ \E t \in Tasks, kinds \in Service!Answers : Answering(t, kinds)
  BY LoopAnswers, UpdateAnswers DEF MainStep

\* An answer reaches the reader of its task, if the request is open.
LEMMA AnsweringSends ==
    ASSUME ConstantsOK, RequestsOK, TypeOK, ReaderInv, PlaceInv,
           NEW t \in Tasks, NEW kinds \in Service!Answers, Answering(t, kinds)
    PROVE  \/ UNCHANGED inbox /\ pc[Owner[t]] \notin {"post", "recv", "failed"}
           \/ \E new :
                 /\ new = [i \in DOMAIN kinds |-> [task |-> t, kind |-> kinds[i]]]
                 /\ inbox' = [inbox EXCEPT ![Owner[t]] = inbox[Owner[t]] \o new]
                 /\ pc[Owner[t]] \in {"recv", "failed"}
  <1>1. CASE t \in waiting
    <2>1. PICK new : new = [i \in DOMAIN kinds |-> [task |-> t, kind |-> kinds[i]]]
      OBVIOUS
    <2>2. inbox' = [inbox EXCEPT ![Owner[t]] = inbox[Owner[t]] \o new]
      BY <1>1, <2>1 DEF Answering, SendAll
    <2>3. pc[Owner[t]] \in {"recv", "failed"}
      <3>1. IsPosted(t)
        BY ActiveIsPosted DEF Answering
      <3> QED BY <1>1, <3>1 DEF ReaderInv, WaitingIsOpen, IsPosted
    <2> QED BY <2>1, <2>2, <2>3
  <1>2. CASE t \notin waiting
    BY <1>2 DEF Answering, SendAll, ReaderInv, WaitingIsOpen
  <1> QED BY <1>1, <1>2

\* The steps of the main thread.
LEMMA AnswerInvMain ==
    ASSUME ConstantsOK, RequestsOK, TypeOK, ReaderInv, BatchInv, PlaceInv, AnswerInv, MainStep
    PROVE  AnswerInv'
  <1>1. UNCHANGED <<pc, received, got>>
    BY MainFrame
  <1>2. Alive /\ \A t \in Tasks : Active(t)' => Active(t)
    BY MainAlive, MainAnswers DEF OnlyFewerActive
  <1>3. CountsStops' /\ \A r \in Readers : HasMore(r)' <=> HasMore(r)
    BY <1>1 DEF AnswerInv, CountsStops, HasMore
  <1>4. ASSUME UNCHANGED inbox PROVE AnswerInv'
    <2>1. InboxInOrder'
      BY <1>1, <1>4 DEF AnswerInv, InboxInOrder
    <2>2. ActiveIsOpen'
      BY <1>1, <1>2, <1>4 DEF AnswerInv, ActiveIsOpen, IsOpen, StillOpen
    <2>3. InboxByState'
      BY <1>1, <1>3, <1>4 DEF AnswerInv, InboxByState
    <2> QED BY <1>3, <2>1, <2>2, <2>3 DEF AnswerInv
  <1>5. ASSUME NEW t \in Tasks, NEW kinds \in Service!Answers, Answering(t, kinds), NEW new,
               new = [i \in DOMAIN kinds |-> [task |-> t, kind |-> kinds[i]]],
               inbox' = [inbox EXCEPT ![Owner[t]] = inbox[Owner[t]] \o new],
               pc[Owner[t]] \in {"recv", "failed"}
        PROVE  AnswerInv'
    <2>1. /\ new \in Seq(Results) /\ \A i \in DOMAIN new : new[i].task = t
          /\ InOrder(new)
          /\ kinds = <<"partial">> => StillOpen(new, t)
          /\ kinds = <<"error">> => Fails(new)
      BY <1>5, AnswerResults
    <2>2. PICK q \in Readers : q = Owner[t]
      BY DEF ConstantsOK
    <2>3. PICK box \in Seq(Results) : box = inbox[q]
      BY <2>2 DEF TypeOK
    <2>4. inbox'[q] = box \o new /\ \A r \in Readers : r # q => inbox'[r] = inbox[r]
      BY <1>5, <2>2, <2>3 DEF TypeOK
    <2>5. IsOpen(t)
      BY <1>2, <1>5 DEF Answering, AnswerInv, ActiveIsOpen
    <2>6. t \in TasksOf(q) \ got[q] /\ StillOpen(box, t)
      BY <2>2, <2>3, <2>5 DEF IsOpen, TasksOf
    <2>7. OfTasks(box, TasksOf(q) \ got[q]) /\ InOrder(box)
      BY <2>3 DEF AnswerInv, InboxInOrder
    <2>8. PICK all : all = box \o new
      OBVIOUS
    <2>9. /\ InOrder(all) /\ OfTasks(all, TasksOf(q) \ got[q])
          /\ \A u : u # t /\ StillOpen(box, u) => StillOpen(all, u)
          /\ StillOpen(new, t) => StillOpen(all, t)
      <3>1. PICK T : T = TasksOf(q) \ got[q]
        OBVIOUS
      <3>2. InOrder(all) /\ OfTasks(all, T)
        BY <2>1, <2>6, <2>7, <2>8, <3>1, SendBehind
      <3>3. /\ \A u : u # t /\ StillOpen(box, u) => StillOpen(all, u)
            /\ StillOpen(new, t) => StillOpen(all, t)
        BY <2>1, <2>6, <2>8, SendBehind
      <3> QED BY <3>1, <3>2, <3>3
    <2>10. inbox'[q] = all
      BY <2>4, <2>8
    <2>11. InboxInOrder'
      <3>1. ASSUME NEW r \in Readers
            PROVE  OfTasks(inbox'[r], TasksOf(r) \ got[r]) /\ InOrder(inbox'[r])
        BY <2>4, <2>9, <2>10 DEF AnswerInv, InboxInOrder
      <3> QED BY <1>1, <3>1 DEF InboxInOrder, OfTasks, InOrder, TasksOf
    <2>12. ASSUME NEW u \in Tasks, Active(u)', Alive' \/ ~HasError(Owner[u])' PROVE IsOpen(u)'
      <3>1. u \notin got[Owner[u]] /\ StillOpen(inbox[Owner[u]], u)
        BY <1>2, <2>12 DEF AnswerInv, ActiveIsOpen, IsOpen
      <3>2. StillOpen(inbox'[Owner[u]], u)
        <4>1. CASE Owner[u] # q
          BY <2>4, <3>1, <4>1 DEF ConstantsOK
        <4>2. CASE u # t /\ Owner[u] = q
          <5>1. StillOpen(box, u)
            BY <2>3, <3>1, <4>2
          <5>2. StillOpen(all, u)
            BY <2>9, <4>2, <5>1
          <5>3. inbox'[Owner[u]] = all
            BY <2>10, <4>2
          <5> QED BY <5>2, <5>3
        <4>3. CASE u = t
          <5>1. kinds = <<"partial">>
            <6>1. kinds = <<"error">> => HasError(Owner[u])'
              <7>1. Fails(new) => Fails(all)
                BY <2>1, <2>8, ResultsConcat
              <7>2. Fails(all) => HasError(Owner[u])'
                BY <2>2, <2>10, <4>3 DEF HasError, Fails
              <7> QED BY <2>1, <7>1, <7>2
            <6>2. ~(kinds = <<"error">> /\ phase' = "aborted")
              BY <2>12, <6>1 DEF Alive
            <6> QED BY <1>5, <2>12, <4>3, <6>2 DEF Answering
          <5>2. StillOpen(all, u)
            BY <2>1, <2>9, <4>3, <5>1
          <5>3. inbox'[Owner[u]] = all
            BY <2>2, <2>10, <4>3
          <5> QED BY <5>2, <5>3
        <4> QED BY <4>1, <4>2, <4>3
      <3> QED BY <1>1, <3>1, <3>2 DEF IsOpen, StillOpen
    <2>13. InboxByState'
      BY <1>1, <1>3, <1>5, <2>2, <2>4 DEF AnswerInv, InboxByState
    <2> QED BY <1>3, <2>11, <2>12, <2>13 DEF AnswerInv, ActiveIsOpen
  <1>6. CASE Silent
    BY <1>4, <1>6 DEF Silent
  <1>7. CASE \E t \in Tasks, kinds \in Service!Answers : Answering(t, kinds)
    <2>1. PICK t \in Tasks, kinds \in Service!Answers : Answering(t, kinds)
      BY <1>7
    <2>2. CASE UNCHANGED inbox
      BY <1>4, <2>2
    <2>3. CASE ~UNCHANGED inbox
      <3>1. PICK new :
                 /\ new = [i \in DOMAIN kinds |-> [task |-> t, kind |-> kinds[i]]]
                 /\ inbox' = [inbox EXCEPT ![Owner[t]] = inbox[Owner[t]] \o new]
                 /\ pc[Owner[t]] \in {"recv", "failed"}
        BY <2>1, <2>3, AnsweringSends
      <3> QED BY <1>5, <2>1, <3>1
    <2> QED BY <2>2, <2>3
  <1> QED BY <1>6, <1>7, MainAnswers

\* next(): the reader takes a result.
LEMMA AnswerInvReceive ==
    ASSUME ConstantsOK, RequestsOK, TypeOK, ReaderInv, PlaceInv, AnswerInv,
           NEW r \in Readers, Receive(r)
    PROVE  AnswerInv'
  <1>1. PICK box \in Seq(Results) : box = inbox[r]
    BY DEF TypeOK
  <1>2. PICK res \in Results : res = Head(box)
    BY <1>1, TakeOldest DEF Receive
  <1>3. /\ box # <<>> /\ pc[r] = "recv" /\ HasMore(r)
        /\ inbox' = [inbox EXCEPT ![r] = Tail(box)]
        /\ pc' = [pc EXCEPT ![r] = IF res.kind = "error" THEN "failed" ELSE pc[r]]
        /\ received' = [received EXCEPT ![r] = IF res.kind = "final" THEN received[r] + 1 ELSE received[r]]
        /\ got' = [got EXCEPT ![r] = IF res.kind = "final" THEN got[r] \cup {res.task} ELSE got[r]]
    BY <1>1, <1>2 DEF Receive
  <1>4. /\ res = box[1] /\ 1 \in DOMAIN box
        /\ InOrder(Tail(box))
        /\ res.kind # "partial" => \A i \in DOMAIN Tail(box) : Tail(box)[i].task # res.task
        /\ OfTasks(Tail(box), TasksOf(r) \ got[r]) /\ res.task \in TasksOf(r) \ got[r]
        /\ \A t : StillOpen(box, t) => StillOpen(Tail(box), t)
    <2>1. InOrder(box) /\ OfTasks(box, TasksOf(r) \ got[r])
      BY <1>1 DEF AnswerInv, InboxInOrder
    <2>2. res = box[1] /\ 1 \in DOMAIN box
      BY <1>2, <1>3, TakeOldest
    <2>3. res.task \in TasksOf(r) \ got[r]
      BY <2>1, <2>2 DEF OfTasks
    <2>4. /\ InOrder(Tail(box))
          /\ Head(box).kind # "partial" => \A i \in DOMAIN Tail(box) : Tail(box)[i].task # Head(box).task
          /\ \A t : StillOpen(box, t) => StillOpen(Tail(box), t)
      BY <1>3, <2>1, TakeOldest
    <2>5. \A T : OfTasks(box, T) => OfTasks(Tail(box), T)
      BY <1>3, TakeOldest
    <2>6. OfTasks(Tail(box), TasksOf(r) \ got[r])
      BY <2>1, <2>5
    <2> QED BY <1>2, <2>2, <2>3, <2>4, <2>6
  <1>5. /\ inbox'[r] = Tail(box)
        /\ pc'[r] = IF res.kind = "error" THEN "failed" ELSE "recv"
        /\ received'[r] = IF res.kind = "final" THEN received[r] + 1 ELSE received[r]
        /\ got'[r] = IF res.kind = "final" THEN got[r] \cup {res.task} ELSE got[r]
        /\ \A q \in Readers : q # r => /\ inbox'[q] = inbox[q] /\ pc'[q] = pc[q]
                                       /\ received'[q] = received[q] /\ got'[q] = got[q]
    BY <1>3 DEF TypeOK
  <1>6. IsFiniteSet(TasksOf(r)) /\ IsFiniteSet(got[r]) /\ got[r] \subseteq TasksOf(r)
    <2>1. IsFiniteSet(Tasks) /\ TasksOf(r) \in SUBSET Tasks /\ got[r] \in SUBSET Tasks
      BY DEF ConstantsOK, TasksOf, TypeOK
    <2> QED BY <2>1, FS_Subset DEF AnswerInv, CountsStops
  <1>7. CountsStops'
    <2>1. res.task \notin got[r] => Cardinality(got[r] \cup {res.task}) = Cardinality(got[r]) + 1
      BY <1>6, FS_AddElement
    <2>2. got'[r] \subseteq TasksOf(r) /\ received'[r] = Cardinality(got'[r])
      <3>1. received[r] = Cardinality(got[r])
        BY DEF AnswerInv, CountsStops
      <3>2. CASE res.kind = "final"
        BY <1>4, <1>5, <1>6, <2>1, <3>1, <3>2
      <3>3. CASE res.kind # "final"
        BY <1>5, <1>6, <3>1, <3>3
      <3> QED BY <3>2, <3>3
    <2>3. ASSUME NEW q \in Readers PROVE got'[q] \subseteq TasksOf(q) /\ received'[q] = Cardinality(got'[q])
      BY <1>5, <2>2 DEF AnswerInv, CountsStops
    <2> QED BY <2>3 DEF CountsStops, TasksOf
  <1>8. InboxInOrder'
    <2>1. OfTasks(Tail(box), TasksOf(r) \ got'[r])
      BY <1>4, <1>5 DEF OfTasks
    <2>2. ASSUME NEW q \in Readers
          PROVE  OfTasks(inbox'[q], TasksOf(q) \ got'[q]) /\ InOrder(inbox'[q])
      <3>1. CASE q = r
        BY <1>4, <1>5, <2>1, <3>1
      <3>2. CASE q # r
        BY <1>5, <3>2 DEF AnswerInv, InboxInOrder
      <3> QED BY <3>1, <3>2
    <2> QED BY <2>2 DEF InboxInOrder, OfTasks, InOrder, TasksOf
  <1>9. ActiveIsOpen'
    <2>1. SUFFICES ASSUME NEW t \in Tasks, Active(t)' PROVE IsOpen(t)'
      BY DEF ActiveIsOpen
    <2>2. Alive /\ Active(t)
      <3>1. ~Post(r)
        BY <1>3 DEF Post
      <3>2. Active(t)
        BY <2>1, <3>1, ReaderActive DEF ReaderStep
      <3> QED BY <3>2 DEF Receive
    <2>3. IsOpen(t) /\ Owner[t] \in Readers
      BY <2>2 DEF AnswerInv, ActiveIsOpen, ConstantsOK
    <2>4. CASE Owner[t] # r
      BY <1>5, <2>3, <2>4 DEF IsOpen, StillOpen
    <2>5. CASE Owner[t] = r
      <3>1. t \notin got[r] /\ StillOpen(box, t)
        BY <1>1, <2>3, <2>5 DEF IsOpen
      <3>2. res.kind = "final" => res.task # t
        BY <1>4, <3>1 DEF StillOpen
      <3>3. StillOpen(Tail(box), t)
        BY <1>4, <3>1
      <3>4. t \notin got'[r] /\ StillOpen(inbox'[r], t)
        BY <1>5, <3>1, <3>2, <3>3
      <3> QED BY <2>5, <3>4 DEF IsOpen, StillOpen
    <2> QED BY <2>4, <2>5
  <1>10. InboxByState'
    <2>1. pc'[r] = "failed" => HasMore(r)'
      BY <1>3, <1>5 DEF HasMore, TasksOf
    <2>2. \A q \in Readers : q # r => (HasMore(q)' <=> HasMore(q))
      BY <1>5 DEF HasMore, TasksOf
    <2> QED BY <1>5, <2>1, <2>2 DEF AnswerInv, InboxByState
  <1> QED BY <1>7, <1>8, <1>9, <1>10 DEF AnswerInv

\* A reader that has all its stop results has nothing else on its way.
LEMMA AllReceived ==
    ASSUME ConstantsOK, TypeOK, AnswerInv, NEW r \in Readers, ~HasMore(r)
    PROVE  inbox[r] = <<>>
  <1>1. IsFiniteSet(TasksOf(r)) /\ got[r] \in SUBSET TasksOf(r) /\ received[r] = Cardinality(got[r])
    <2>1. IsFiniteSet(Tasks) /\ TasksOf(r) \in SUBSET Tasks
      BY DEF ConstantsOK, TasksOf
    <2> QED BY <2>1, FS_Subset DEF AnswerInv, CountsStops
  <1>2. /\ Cardinality(TasksOf(r)) \in Nat /\ Cardinality(got[r]) \in Nat
        /\ Cardinality(got[r]) <= Cardinality(TasksOf(r))
    BY <1>1, FS_Subset, FS_CardinalityType
  <1>3. Cardinality(TasksOf(r)) = Cardinality(got[r])
    BY <1>1, <1>2 DEF HasMore
  <1>4. got[r] = TasksOf(r)
    BY <1>1, <1>3, FS_Subset
  <1>5. PICK box \in Seq(Results) : box = inbox[r]
    BY DEF TypeOK
  <1>6. OfTasks(box, TasksOf(r) \ got[r])
    BY <1>5 DEF AnswerInv, InboxInOrder
  <1>7. \A i \in DOMAIN box : box[i].task \in TasksOf(r) \ got[r]
    BY <1>6 DEF OfTasks
  <1>8. DOMAIN box = {}
    BY <1>4, <1>7
  <1>9. Len(box) = 0
    <2>1. Len(box) \in Nat /\ DOMAIN box = 1 .. Len(box)
      OBVIOUS
    <2> QED BY <1>8, <2>1
  <1> QED BY <1>5, <1>9, EmptySeq

\* The steps of a reader.
LEMMA AnswerInvReader ==
    ASSUME ConstantsOK, RequestsOK, TypeOK, ReaderInv, PlaceInv, AnswerInv,
           NEW r \in Readers, ReaderStep(r) \/ Leave(r)
    PROVE  AnswerInv'
  <1> USE DEF queueVars, readerVars
  <1>1. CASE Receive(r)
    BY <1>1, AnswerInvReceive
  <1>2. CASE ~Receive(r)
    <2>1. UNCHANGED <<received, got>> /\ Alive
      BY <1>2 DEF ReaderStep, Register, Post, Finish, Leave, StopWaiting, Purge, CancelOne, CancelDone
    <2>2. CountsStops' /\ \A q \in Readers : HasMore(q)' <=> HasMore(q)
      BY <2>1 DEF AnswerInv, CountsStops, HasMore
    <2>3. UNCHANGED inbox \/ (Purge(r) /\ inbox' = [inbox EXCEPT ![r] = <<>>])
      BY <1>2 DEF ReaderStep, Register, Post, Finish, Leave, StopWaiting, Purge, DropResults,
                  CancelOne, CancelDone
    <2>4. \A q \in Readers : inbox'[q] = inbox[q] \/ (Purge(r) /\ q = r /\ inbox'[q] = <<>>)
      BY <2>3 DEF TypeOK
    <2>5. /\ \A T : OfTasks(<<>>, T)
          /\ InOrder(<<>>) /\ \A t : StillOpen(<<>>, t)
      BY DEF OfTasks, InOrder, StillOpen
    <2>6. InboxInOrder'
      <3>1. ASSUME NEW q \in Readers
            PROVE  OfTasks(inbox'[q], TasksOf(q) \ got[q]) /\ InOrder(inbox'[q])
        <4>1. OfTasks(inbox[q], TasksOf(q) \ got[q]) /\ InOrder(inbox[q])
          BY DEF AnswerInv, InboxInOrder
        <4>2. CASE inbox'[q] = inbox[q]
          BY <4>1, <4>2
        <4>3. CASE inbox'[q] = <<>>
          BY <2>5, <4>3
        <4> QED BY <2>4, <4>2, <4>3
      <3> QED BY <2>1, <3>1 DEF InboxInOrder, OfTasks, InOrder, TasksOf
    <2>7. ActiveIsOpen'
      <3>1. SUFFICES ASSUME NEW t \in Tasks, Active(t)' PROVE IsOpen(t)'
        BY DEF ActiveIsOpen
      <3>2. Owner[t] \in Readers
        BY DEF ConstantsOK
      <3>3. CASE Active(t)
        <4>1. t \notin got[Owner[t]] /\ StillOpen(inbox[Owner[t]], t)
          BY <2>1, <3>3 DEF AnswerInv, ActiveIsOpen, IsOpen
        <4>2. StillOpen(inbox'[Owner[t]], t)
          <5>1. CASE inbox'[Owner[t]] = inbox[Owner[t]]
            BY <4>1, <5>1
          <5>2. CASE inbox'[Owner[t]] = <<>>
            BY <2>5, <5>2
          <5> QED BY <2>4, <3>2, <5>1, <5>2
        <4> QED BY <2>1, <4>1, <4>2 DEF IsOpen, StillOpen
      <3>4. CASE ~Active(t)
        <4>1. Post(r) /\ Owner[t] = r
          BY <3>1, <3>4, ReaderActive
        <4>2. inbox[r] = <<>> /\ got[r] = {}
          BY <4>1 DEF Post, AnswerInv, InboxByState
        <4>3. inbox'[r] = <<>>
          BY <2>4, <4>2
        <4>4. StillOpen(inbox'[Owner[t]], t)
          BY <2>5, <4>1, <4>3
        <4> QED BY <2>1, <4>1, <4>2, <4>4 DEF IsOpen, StillOpen
      <3> QED BY <3>3, <3>4
    <2>8. InboxByState'
      <3>1. ASSUME NEW q \in Readers, q # r PROVE pc'[q] = pc[q]
        BY <1>2, <3>1 DEF ReaderStep, Register, Post, Finish, Leave, StopWaiting, Purge, CancelOne,
                          CancelDone, TypeOK
      <3>2. CASE Register(r) \/ Post(r) \/ CancelOne(r) \/ CancelDone(r)
        <4>1. /\ UNCHANGED inbox /\ pc'[r] # "failed"
              /\ pc'[r] \in {"new", "post"} => pc[r] \in {"new", "post"}
              /\ pc'[r] \in {"cancel", "done"} => pc[r] \in {"cancel", "done"}
          BY <3>2 DEF Register, Post, CancelOne, CancelDone, TypeOK
        <4> QED BY <2>1, <2>2, <3>1, <4>1 DEF AnswerInv, InboxByState
      <3>3. CASE Finish(r) \/ Leave(r)
        <4>1. /\ UNCHANGED inbox
              /\ pc'[r] = IF HasMore(r) THEN "purge" ELSE "done"
          BY <3>3 DEF Finish, Leave, StopWaiting, TypeOK
        <4>2. ~HasMore(r) => inbox[r] = <<>>
          BY AllReceived
        <4> QED BY <2>1, <2>2, <3>1, <4>1, <4>2 DEF AnswerInv, InboxByState
      <3>4. CASE Purge(r)
        <4>1. inbox'[r] = <<>> /\ pc'[r] = "cancel"
          BY <3>4 DEF Purge, DropResults, TypeOK
        <4>2. \A q \in Readers : q # r => inbox'[q] = inbox[q]
          BY <2>4
        <4> QED BY <2>1, <2>2, <3>1, <4>1, <4>2 DEF AnswerInv, InboxByState
      <3> QED BY <1>2, <3>2, <3>3, <3>4 DEF ReaderStep
    <2> QED BY <2>2, <2>6, <2>7, <2>8 DEF AnswerInv
  <1> QED BY <1>1, <1>2

\* AnswerInv holds.
LEMMA AnswerInvHolds == Spec => []AnswerInv
  <1>1. Init => AnswerInv
    <2> SUFFICES ASSUME Init PROVE AnswerInv
      OBVIOUS
    <2>1. \A r \in Readers : /\ pc[r] = "new" /\ inbox[r] = <<>> /\ got[r] = {} /\ received[r] = 0
      BY DEF Init
    <2>2. \A t \in Tasks : ~Active(t)
      <3>1. \A t : ~Has(queue, Work(t)) /\ ~Has(deferred, Work(t)) /\ ~InHand(t)
        BY HasNone DEF Init, InHand
      <3>2. \A t \in Tasks : \A s \in Slots : task[s] # t
        BY ConstantsOK DEF Init, ConstantsOK
      <3> QED BY <3>1, <3>2, ConstantsOK DEF Active, Entry
    <2>3. CountsStops
      BY <2>1, FS_EmptySet DEF CountsStops
    <2>4. InboxInOrder
      BY <2>1 DEF InboxInOrder, OfTasks, InOrder
    <2>5. ActiveIsOpen /\ InboxByState
      BY <2>1, <2>2 DEF ActiveIsOpen, InboxByState
    <2> QED BY <2>3, <2>4, <2>5 DEF AnswerInv
  <1>2. TypeOK /\ ReaderInv /\ BatchInv /\ PlaceInv /\ AnswerInv /\ [Next]_vars => AnswerInv'
    <2> SUFFICES ASSUME TypeOK, ReaderInv, BatchInv, PlaceInv, AnswerInv, [Next]_vars
                 PROVE  AnswerInv'
      OBVIOUS
    <2>1. CASE MainStep
      BY <2>1, ConstantsOK, RequestsOK, AnswerInvMain
    <2>2. ASSUME NEW r \in Readers, ReaderStep(r) \/ Leave(r) PROVE AnswerInv'
      BY <2>2, ConstantsOK, RequestsOK, AnswerInvReader
    <2>3. CASE UNCHANGED vars
      <3>1. \A t \in Tasks : Active(t)' <=> Active(t)
        BY <2>3 DEF vars, queueVars, slotVars, mainVars, Active, Entry, InHand, Work
      <3> QED BY <2>3, <3>1 DEF vars, readerVars, mainVars, AnswerInv, CountsStops, InboxInOrder,
                  ActiveIsOpen, IsOpen, InboxByState, HasMore, HasError, Alive
    <2>4. CASE Rest
      BY <2>3, <2>4 DEF Rest
    <2> QED BY <2>1, <2>2, <2>3, <2>4 DEF Next
  <1> QED BY <1>1, <1>2, TypeCorrect, ReaderInvHolds, BatchInvHolds, PlaceInvHolds, PTL DEF Spec

\* received_count is exact: it counts the tasks whose stop result was taken, each once,
\* never exceeds the number of the reader's tasks, and when has_next() says that nothing
\* is left to receive, every task was answered and no result is on its way.
ReceivedIsExact ==
    \A r \in Readers :
        /\ received[r] = Cardinality(got[r])
        /\ received[r] <= Cardinality(TasksOf(r))
        /\ ~HasMore(r) => got[r] = TasksOf(r) /\ inbox[r] = <<>>

\* A reader of any request counts exactly: next() and stop() rely on it.
THEOREM ReceivedIsExactAlways == Spec => []ReceivedIsExact
  <1>1. TypeOK /\ AnswerInv => ReceivedIsExact
    <2> SUFFICES ASSUME TypeOK, AnswerInv, NEW r \in Readers
                 PROVE  /\ received[r] = Cardinality(got[r])
                        /\ received[r] <= Cardinality(TasksOf(r))
                        /\ ~HasMore(r) => got[r] = TasksOf(r) /\ inbox[r] = <<>>
      BY DEF ReceivedIsExact
    <2>1. IsFiniteSet(TasksOf(r)) /\ got[r] \in SUBSET TasksOf(r)
      <3>1. IsFiniteSet(Tasks) /\ TasksOf(r) \in SUBSET Tasks
        BY ConstantsOK DEF ConstantsOK, TasksOf
      <3> QED BY <3>1, FS_Subset DEF AnswerInv, CountsStops
    <2>2. received[r] = Cardinality(got[r])
      BY DEF AnswerInv, CountsStops
    <2>3. /\ Cardinality(got[r]) \in Nat /\ Cardinality(TasksOf(r)) \in Nat
          /\ Cardinality(got[r]) <= Cardinality(TasksOf(r))
          /\ Cardinality(got[r]) = Cardinality(TasksOf(r)) => got[r] = TasksOf(r)
      BY <2>1, FS_Subset, FS_CardinalityType
    <2>4. ~HasMore(r) => got[r] = TasksOf(r)
      BY <2>2, <2>3 DEF HasMore
    <2>5. ~HasMore(r) => inbox[r] = <<>>
      BY ConstantsOK, AllReceived
    <2> QED BY <2>2, <2>3, <2>4, <2>5
  <1> QED BY <1>1, TypeCorrect, AnswerInvHolds, PTL

\* A finished reader has no result left in server_response and no id in
\* waiting_task_ids, whether it has received everything or has cancelled.
THEOREM NothingLeftBehindAlways == Spec => []NothingLeftBehind
  <1>1. ReaderInv /\ AnswerInv => NothingLeftBehind
    BY DEF ReaderInv, WaitingIsOpen, AnswerInv, InboxByState, NothingLeftBehind, TasksOf
  <1> QED BY <1>1, ReaderInvHolds, AnswerInvHolds, PTL

-----------------------------------------------------------------------------
(* No task is lost.                                                        *)

\* The stop result of t has been sent.
Ended(t) == t \in got[Owner[t]] \/ Has(inbox[Owner[t]], Stop(t))

\* While a reader receives and no error is on its way, each of its tasks is
\* active or has been answered.
TasksAreCovered ==
    \A t \in Tasks : pc[Owner[t]] = "recv" /\ ~Fails(inbox[Owner[t]]) => Active(t) \/ Ended(t)

\* A failed launch is undone after its error has been sent.
UnlaunchIsReported ==
    phase = "unlaunch" /\ pc[Owner[cur.task]] = "recv" => Fails(inbox[Owner[cur.task]])

CoverInv == TasksAreCovered /\ UnlaunchIsReported

\* While a failed launch is undone, cur is the task that was refused.
LEMMA UnlaunchTask ==
    ASSUME PlaceInv, phase = "unlaunch"
    PROVE  cur.task \in Tasks /\ IsPosted(cur.task)
  <1>1. PICK t \in Tasks : cur = Work(t) /\ IsPosted(t)
    BY DEF PlaceInv, UnlaunchIsOfNobody
  <1> QED BY <1>1 DEF Work

\* The main thread takes nothing out of server_response.
LEMMA MainOnlySends ==
    ASSUME ConstantsOK, RequestsOK, TypeOK, ReaderInv, BatchInv, PlaceInv, MainStep,
           NEW r \in Readers
    PROVE  /\ Fails(inbox[r]) => Fails(inbox'[r])
           /\ \A e : Has(inbox[r], e) => Has(inbox'[r], e)
  <1>1. CASE UNCHANGED inbox
    BY <1>1
  <1>2. CASE ~UNCHANGED inbox
    <2>1. PICK t \in Tasks, kinds \in Service!Answers : Answering(t, kinds)
      BY <1>2, MainAnswers DEF Silent
    <2>2. PICK new : /\ new = [i \in DOMAIN kinds |-> [task |-> t, kind |-> kinds[i]]]
                     /\ inbox' = [inbox EXCEPT ![Owner[t]] = inbox[Owner[t]] \o new]
                     /\ pc[Owner[t]] \in {"recv", "failed"}
      BY <1>2, <2>1, AnsweringSends
    <2>3. new \in Seq(Results)
      BY <2>2, AnswerResults
    <2>4. PICK box \in Seq(Results) : box = inbox[r]
      BY DEF TypeOK
    <2>5. inbox'[r] = box \/ inbox'[r] = box \o new
      BY <2>2, <2>4 DEF TypeOK
    <2>6. CASE inbox'[r] = box
      BY <2>4, <2>6
    <2>7. CASE inbox'[r] = box \o new
      <3>1. PICK all : all = box \o new
        OBVIOUS
      <3>2. (Fails(box) => Fails(all)) /\ \A e : Has(box, e) => Has(all, e)
        BY <2>3, <3>1, ResultsConcat
      <3> QED BY <2>4, <2>7, <3>1, <3>2
    <2> QED BY <2>5, <2>6, <2>7
  <1> QED BY <1>1, <1>2

\* An error that is sent reaches a reader that receives.
LEMMA ErrorArrives ==
    ASSUME ConstantsOK, TypeOK, ReaderInv, NEW t \in Tasks, Send(t, "error"), pc[Owner[t]] = "recv"
    PROVE  Fails(inbox'[Owner[t]])
  <1>1. t \in waiting /\ Owner[t] \in Readers
    BY DEF ReaderInv, WaitingIsOpen, ConstantsOK
  <1>2. PICK kinds \in Service!Answers : kinds = <<"error">>
    BY DEF Service!Answers
  <1>3. PICK new : new = [i \in DOMAIN kinds |-> [task |-> t, kind |-> kinds[i]]]
    OBVIOUS
  <1>4. PICK box \in Seq(Results) : box = inbox[Owner[t]]
    BY <1>1 DEF TypeOK
  <1>5. PICK all : all = box \o new
    OBVIOUS
  <1>6. inbox'[Owner[t]] = all
    BY <1>1, <1>2, <1>3, <1>4, <1>5 DEF Send, SendAll, TypeOK
  <1>7. new \in Seq(Results) /\ Fails(new)
    <2>1. new \in Seq(Results) /\ (kinds = <<"error">> => Fails(new))
      BY <1>3, AnswerResults
    <2> QED BY <1>2, <2>1
  <1>8. Fails(all)
    BY <1>5, <1>7, ResultsConcat
  <1> QED BY <1>6, <1>8

\* The steps of the main thread.
LEMMA CoverInvMain ==
    ASSUME ConstantsOK, RequestsOK, TypeOK, ReaderInv, BatchInv, PlaceInv, CoverInv, MainStep
    PROVE  CoverInv'
  <1>1. UNCHANGED <<pc, got>>
    BY MainFrame
  <1>2. \A t \in Tasks : /\ Owner[t] \in Readers
                         /\ Fails(inbox[Owner[t]]) => Fails(inbox'[Owner[t]])
                         /\ \A e : Has(inbox[Owner[t]], e) => Has(inbox'[Owner[t]], e)
    BY MainOnlySends DEF ConstantsOK
  <1>3. ASSUME NEW t \in Tasks, NEW kinds \in Service!Answers, Answering(t, kinds),
               pc[Owner[t]] = "recv"
        PROVE  /\ kinds = <<"error">> => Fails(inbox'[Owner[t]])
               /\ kinds \notin {<<"partial">>, <<"error">>} => Has(inbox'[Owner[t]], Stop(t))
    <2>1. PICK new : /\ new = [i \in DOMAIN kinds |-> [task |-> t, kind |-> kinds[i]]]
                     /\ inbox' = [inbox EXCEPT ![Owner[t]] = inbox[Owner[t]] \o new]
                     /\ pc[Owner[t]] \in {"recv", "failed"}
      BY <1>3, AnsweringSends
    <2>2. /\ new \in Seq(Results)
          /\ kinds = <<"error">> => Fails(new)
          /\ kinds \notin {<<"partial">>, <<"error">>} => Has(new, Stop(t))
      BY <2>1, AnswerResults
    <2>3. PICK box \in Seq(Results) : box = inbox[Owner[t]]
      BY <1>2 DEF TypeOK
    <2>4. PICK all : all = box \o new
      OBVIOUS
    <2>5. inbox'[Owner[t]] = all
      BY <1>2, <2>1, <2>3, <2>4 DEF TypeOK
    <2>6. (Fails(new) => Fails(all)) /\ \A e : Has(new, e) => Has(all, e)
      BY <2>2, <2>4, ResultsConcat
    <2> QED BY <2>2, <2>5, <2>6
  <1>4. TasksAreCovered'
    <2>1. ASSUME NEW u \in Tasks, pc[Owner[u]] = "recv", ~Fails(inbox'[Owner[u]])
          PROVE  Active(u)' \/ u \in got[Owner[u]] \/ Has(inbox'[Owner[u]], Stop(u))
      <3>1. ~Fails(inbox[Owner[u]])
        BY <1>2, <2>1
      <3>2. Active(u) \/ u \in got[Owner[u]] \/ Has(inbox[Owner[u]], Stop(u))
        BY <2>1, <3>1 DEF CoverInv, TasksAreCovered, Ended
      <3>3. CASE ~Active(u)
        BY <1>2, <3>2, <3>3
      <3>4. CASE Active(u)'
        BY <3>4
      <3>5. CASE Active(u) /\ ~Active(u)' /\ Silent
        <4>1. phase = "unlaunch" /\ Owner[u] = Owner[cur.task]
          BY <2>1, <3>5 DEF Silent
        <4>2. Fails(inbox[Owner[cur.task]])
          BY <2>1, <4>1 DEF CoverInv, UnlaunchIsReported
        <4> QED BY <3>1, <4>1, <4>2
      <3>6. CASE Active(u) /\ ~Active(u)' /\ ~Silent
        <4>1. PICK t \in Tasks, kinds \in Service!Answers : Answering(t, kinds)
          BY <3>6, MainAnswers
        <4>2. \/ u = t /\ kinds # <<"partial">>
              \/ kinds = <<"error">> /\ Owner[u] = Owner[t]
          BY <3>6, <4>1 DEF Answering
        <4>3. Owner[u] = Owner[t] /\ kinds # <<"error">>
          BY <1>3, <2>1, <4>1, <4>2
        <4> QED BY <1>3, <2>1, <4>1, <4>2, <4>3
      <3> QED BY <3>3, <3>4, <3>5, <3>6
    <2> QED BY <1>1, <2>1 DEF TasksAreCovered, Ended, Fails, Has, Stop
  <1>5. UnlaunchIsReported'
    <2>1. ASSUME phase' = "unlaunch", pc[Owner[cur'.task]] = "recv"
          PROVE  Fails(inbox'[Owner[cur'.task]])
      <3>1. CASE LaunchFails
        <4>1. PICK c \in Tasks : \E bad \in {c} \cup Children(c) : /\ cur = Work(c) /\ Send(bad, "error")
                                                                   /\ Active(bad) /\ ~Active(bad)'
          BY <3>1, ActiveLaunchFails
        <4>2. PICK bad \in {c} \cup Children(c) : /\ cur = Work(c) /\ Send(bad, "error")
                                                  /\ Active(bad) /\ ~Active(bad)'
          BY <4>1
        <4>3. cur'.task = c /\ bad \in Tasks /\ Owner[bad] = Owner[c]
          BY <3>1, <4>2, FamilyOwner DEF LaunchFails, Work
        <4>4. Fails(inbox'[Owner[bad]])
          BY <2>1, <4>2, <4>3, ErrorArrives
        <4> QED BY <4>3, <4>4
      <3>2. CASE ~LaunchFails
        <4>1. phase = "unlaunch" /\ UNCHANGED cur
          BY <2>1, <3>2
             DEF MainStep, LoopStep, TaskStep, UpdateStep, At, Processing, AtSlot, Release, PopTask,
                 Drained, WakeUp, ProcessNext, ProcessCancel, ProcessQuick, ProcessSlotAction,
                 ProcessDefer, Launch, Unlaunch, Unlaunched, TaskDone, UpdateIdle, UpdateBusy,
                 ShiftFails, BatchSampled, SkipSlot, RejectPrompt, BatchPrompt, ImageFails,
                 BatchBuilt, EmptyBatch, DecodeOK, DecodeFails, SendEmbedding, SampleToken,
                 SampleLast, Sampled, FailSlot, Failed, mainVars
        <4>2. Fails(inbox[Owner[cur.task]]) /\ cur.task \in Tasks
          BY <2>1, <4>1, UnlaunchTask DEF CoverInv, UnlaunchIsReported
        <4> QED BY <1>2, <4>1, <4>2
      <3> QED BY <3>1, <3>2
    <2> QED BY <1>1, <2>1 DEF UnlaunchIsReported, Fails
  <1> QED BY <1>4, <1>5 DEF CoverInv

\* What a reader that still receives, or one that has not been taking a step,
\* sees of the step of reader r.
LEMMA CoverReceive ==
    ASSUME ConstantsOK, TypeOK, AnswerInv, NEW r \in Readers, Receive(r), pc'[r] = "recv"
    PROVE  /\ Fails(inbox[r]) => Fails(inbox'[r])
           /\ Fails(inbox'[r]) => Fails(inbox[r])
           /\ \A t \in Tasks : Has(inbox[r], Stop(t)) => t \in got'[r] \/ Has(inbox'[r], Stop(t))
           /\ got[r] \subseteq got'[r]
  <1>1. PICK box \in Seq(Results) : box = inbox[r]
    BY DEF TypeOK
  <1>2. /\ box # <<>> /\ inbox'[r] = Tail(box)
        /\ Head(box).kind # "error"
        /\ got'[r] = IF Head(box).kind = "final" THEN got[r] \cup {Head(box).task} ELSE got[r]
    BY <1>1 DEF Receive, TypeOK
  <1>3. /\ Head(box) = box[1] /\ 1 \in DOMAIN box
        /\ \A i \in DOMAIN Tail(box) : \E k \in DOMAIN box : box[k] = Tail(box)[i]
        /\ \A k \in DOMAIN box : k = 1 \/ \E i \in DOMAIN Tail(box) : Tail(box)[i] = box[k]
    BY <1>2, TakeOldest
  <1>4. Fails(box) <=> Fails(Tail(box))
    <2>1. box[1].kind # "error"
      BY <1>2, <1>3
    <2>2. \A k \in DOMAIN box : box[k].kind = "error" => \E i \in DOMAIN Tail(box) : Tail(box)[i] = box[k]
      BY <1>3, <2>1
    <2> QED BY <1>3, <2>2 DEF Fails
  <1>5. ASSUME NEW t \in Tasks, Has(box, Stop(t)) PROVE t \in got'[r] \/ Has(Tail(box), Stop(t))
    <2>1. PICK k \in DOMAIN box : box[k] = Stop(t)
      BY <1>5 DEF Has
    <2>2. CASE k = 1
      BY <1>2, <1>3, <2>1, <2>2 DEF Stop
    <2>3. CASE k # 1
      BY <1>3, <2>1, <2>3 DEF Has
    <2> QED BY <2>2, <2>3
  <1> QED BY <1>1, <1>2, <1>4, <1>5

\* The steps of a reader.
LEMMA CoverInvReader ==
    ASSUME ConstantsOK, RequestsOK, TypeOK, ReaderInv, PlaceInv, AnswerInv, CoverInv,
           NEW r \in Readers, ReaderStep(r) \/ Leave(r)
    PROVE  CoverInv'
  <1> USE DEF queueVars, readerVars
  <1>1. UNCHANGED <<phase, cur>>
    BY ReaderFrame
  <1>2. ASSUME NEW q \in Readers, q # r
        PROVE  pc'[q] = pc[q] /\ inbox'[q] = inbox[q] /\ got'[q] = got[q]
    BY <1>2 DEF ReaderStep, Register, Post, Receive, Finish, Leave, StopWaiting, Purge, DropResults,
                CancelOne, CancelDone, TypeOK
  <1>3. CASE pc'[r] # "recv"
    <2>1. ASSUME NEW t \in Tasks, pc'[Owner[t]] = "recv", ~Fails(inbox'[Owner[t]])
          PROVE  Active(t)' \/ t \in got'[Owner[t]] \/ Has(inbox'[Owner[t]], Stop(t))
      <3>1. Owner[t] \in Readers /\ Owner[t] # r
        BY <1>3, <2>1 DEF ConstantsOK
      <3>2. Active(t) \/ t \in got[Owner[t]] \/ Has(inbox[Owner[t]], Stop(t))
        BY <1>2, <2>1, <3>1 DEF CoverInv, TasksAreCovered, Ended
      <3>3. Active(t) => Active(t)'
        BY <3>1, ReaderActive
      <3> QED BY <1>2, <3>1, <3>2, <3>3
    <2>2. ASSUME phase = "unlaunch", pc'[Owner[cur.task]] = "recv"
          PROVE  Fails(inbox'[Owner[cur.task]])
      <3>1. cur.task \in Tasks
        BY <2>2, UnlaunchTask
      <3>2. Owner[cur.task] \in Readers /\ Owner[cur.task] # r
        BY <1>3, <2>2, <3>1 DEF ConstantsOK
      <3> QED BY <1>2, <2>2, <3>2 DEF CoverInv, UnlaunchIsReported
    <2>3. TasksAreCovered'
      BY <2>1 DEF TasksAreCovered, Ended, Fails, Has, Stop
    <2>4. UnlaunchIsReported'
      BY <1>1, <2>2 DEF UnlaunchIsReported, Fails
    <2> QED BY <2>3, <2>4 DEF CoverInv
  <1>4. CASE pc'[r] = "recv"
    <2>1. Post(r) \/ Receive(r)
      BY <1>4 DEF ReaderStep, Register, Post, Receive, Finish, Leave, StopWaiting, Purge,
                  CancelOne, CancelDone, TypeOK
    <2>2. ~CancelOne(r)
      BY <2>1 DEF Post, Receive, CancelOne
    <2>3. ASSUME NEW t \in Tasks, pc'[Owner[t]] = "recv", ~Fails(inbox'[Owner[t]])
          PROVE  Active(t)' \/ t \in got'[Owner[t]] \/ Has(inbox'[Owner[t]], Stop(t))
      <3>1. Owner[t] \in Readers
        BY DEF ConstantsOK
      <3>2. CASE Post(r) /\ Owner[t] = r
        BY <3>2, ReaderActive
      <3>3. CASE Receive(r) /\ Owner[t] = r
        <4>1. /\ ~Fails(inbox[r]) /\ got[r] \subseteq got'[r]
              /\ Has(inbox[r], Stop(t)) => t \in got'[r] \/ Has(inbox'[r], Stop(t))
          BY <1>4, <2>3, <3>3, CoverReceive
        <4>2. Active(t) \/ t \in got[r] \/ Has(inbox[r], Stop(t))
          BY <3>3, <4>1 DEF Receive, CoverInv, TasksAreCovered, Ended
        <4>3. Active(t) => Active(t)'
          BY <2>2, ReaderActive
        <4> QED BY <3>3, <4>1, <4>2, <4>3
      <3>4. CASE Owner[t] # r
        <4>1. Active(t) \/ t \in got[Owner[t]] \/ Has(inbox[Owner[t]], Stop(t))
          BY <1>2, <2>3, <3>1, <3>4 DEF CoverInv, TasksAreCovered, Ended
        <4>2. Active(t) => Active(t)'
          BY <2>2, ReaderActive
        <4> QED BY <1>2, <3>1, <3>4, <4>1, <4>2
      <3> QED BY <2>1, <3>2, <3>3, <3>4
    <2>4. ASSUME phase = "unlaunch", pc'[Owner[cur.task]] = "recv"
          PROVE  Fails(inbox'[Owner[cur.task]])
      <3>1. cur.task \in Tasks /\ IsPosted(cur.task)
        BY <2>4, UnlaunchTask
      <3>2. Owner[cur.task] \in Readers
        BY <3>1 DEF ConstantsOK
      <3>3. CASE Owner[cur.task] # r
        BY <1>2, <2>4, <3>2, <3>3 DEF CoverInv, UnlaunchIsReported
      <3>4. CASE Owner[cur.task] = r
        <4>1. Receive(r) /\ pc[r] = "recv"
          BY <2>1, <3>1, <3>4 DEF Post, Receive, IsPosted
        <4>2. Fails(inbox[r])
          BY <2>4, <3>4, <4>1 DEF CoverInv, UnlaunchIsReported
        <4> QED BY <1>4, <3>4, <4>1, <4>2, CoverReceive
      <3> QED BY <3>3, <3>4
    <2>5. TasksAreCovered'
      BY <2>3 DEF TasksAreCovered, Ended, Fails, Has, Stop
    <2>6. UnlaunchIsReported'
      BY <1>1, <2>4 DEF UnlaunchIsReported, Fails
    <2> QED BY <2>5, <2>6 DEF CoverInv
  <1> QED BY <1>3, <1>4

\* CoverInv holds.
LEMMA CoverInvHolds == Spec => []CoverInv
  <1>1. Init => CoverInv
    BY ConstantsOK DEF Init, CoverInv, TasksAreCovered, UnlaunchIsReported, ConstantsOK
  <1>2. /\ TypeOK /\ ReaderInv /\ BatchInv /\ PlaceInv /\ AnswerInv /\ CoverInv
        /\ [Next]_vars
        => CoverInv'
    <2> SUFFICES ASSUME TypeOK, ReaderInv, BatchInv, PlaceInv, AnswerInv, CoverInv, [Next]_vars
                 PROVE  CoverInv'
      OBVIOUS
    <2>1. CASE MainStep
      BY <2>1, ConstantsOK, RequestsOK, CoverInvMain
    <2>2. ASSUME NEW r \in Readers, ReaderStep(r) \/ Leave(r) PROVE CoverInv'
      BY <2>2, ConstantsOK, RequestsOK, CoverInvReader
    <2>3. CASE UNCHANGED vars
      <3>1. \A t \in Tasks : Active(t)' <=> Active(t)
        BY <2>3 DEF vars, queueVars, slotVars, mainVars, Active, Entry, InHand, Work
      <3> QED BY <2>3, <3>1 DEF vars, readerVars, mainVars, CoverInv, TasksAreCovered, Ended,
                                UnlaunchIsReported, Fails, Has, Stop
    <2>4. CASE Rest
      BY <2>3, <2>4 DEF Rest
    <2> QED BY <2>1, <2>2, <2>3, <2>4 DEF Next
  <1> QED BY <1>1, <1>2, TypeCorrect, ReaderInvHolds, BatchInvHolds, PlaceInvHolds, AnswerInvHolds,
             PTL DEF Spec

\* A task that is placed and not about to leave its slot is active.
LEMMA PendingIsActive ==
    ASSUME ConstantsOK, TypeOK, PlaceInv, NEW t \in Tasks
    PROVE  Pending(t) <=> Active(t)
  <1>1. Places(t) > 0 <=> IsPlaced(t)
    BY PlacesCount
  <1>2. \A s \in Slots : task[s] = t =>
           ~Entry(t) /\ (Parent[t] # NoTask => ~Entry(Parent[t])) /\ \A u \in Slots : task[u] = t => u = s
    BY DEF PlaceInv, SlotsApart
  <1>3. releasing \in Slots \cup {0} /\ 0 \notin Slots
    BY DEF TypeOK, Slots
  <1> QED BY <1>1, <1>2, <1>3 DEF Pending, IsPlaced, Active

\* Each stop result in queue_results is that of another task.
LEMMA StopsCount ==
    ASSUME TypeOK, AnswerInv, NEW r \in Readers,
           NEW E, E = {t \in TasksOf(r) : Has(inbox[r], Stop(t))}
    PROVE  Cardinality(Stops(r)) = Cardinality(E)
  <1>1. PICK box \in Seq(Results) : box = inbox[r]
    BY DEF TypeOK
  <1>2. InOrder(box) /\ \A i \in DOMAIN box : box[i].task \in TasksOf(r)
    BY <1>1 DEF AnswerInv, InboxInOrder, OfTasks
  <1>3. PICK S : S = {i \in DOMAIN box : box[i].kind = "final"}
    OBVIOUS
  <1>4. Stops(r) = S
    BY <1>1, <1>3 DEF Stops
  <1>5. /\ DOMAIN box = 1 .. Len(box) /\ Len(box) \in Nat
        /\ \A i \in DOMAIN box : box[i] \in Results
    OBVIOUS
  <1>6. IsFiniteSet(S)
    <2>1. IsFiniteSet(1 .. Len(box))
      <3>1. 1 \in Int /\ Len(box) \in Int
        BY <1>5
      <3> QED BY <3>1, FS_Interval
    <2>2. S \in SUBSET (1 .. Len(box))
      BY <1>3, <1>5
    <2> QED BY <2>1, <2>2, FS_Subset
  <1>7. PICK f : f = [i \in S |-> box[i].task]
    OBVIOUS
  <1>8. \A i \in S : i \in DOMAIN box /\ box[i] = Stop(box[i].task)
    BY <1>3, <1>5 DEF Stop, Results
  <1>9. f \in Surjection(S, E)
    <2>1. \A i \in S : f[i] \in E
      BY <1>1, <1>2, <1>7, <1>8 DEF Has
    <2>2. ASSUME NEW t \in E PROVE \E i \in S : f[i] = t
      <3>1. PICK i \in DOMAIN box : box[i] = Stop(t)
        BY <1>1 DEF Has
      <3> QED BY <1>3, <1>7, <3>1 DEF Stop
    <2> QED BY <1>7, <2>1, <2>2 DEF Surjection
  <1>10. f \in Injection(S, E)
    <2>1. ASSUME NEW i \in S, NEW j \in S, f[i] = f[j] PROVE i = j
      <3>1. i \in Nat /\ j \in Nat /\ box[i].kind = "final" /\ box[j].kind = "final"
        BY <1>3, <1>5
      <3>2. ~(i < j) /\ ~(j < i)
        BY <1>2, <1>3, <1>7, <2>1, <3>1 DEF InOrder
      <3> QED BY <3>1, <3>2
    <2>2. f \in [S -> E]
      BY <1>9 DEF Surjection
    <2> QED BY <2>1, <2>2 DEF Injection, IsInjective
  <1> QED BY <1>4, <1>6, <1>9, <1>10, FS_Surjection

\* No task is lost and none is answered twice: while a reader receives and no
\* error is on its way, the stop results it has counted, those in queue_results
\* and the tasks that are still in the pipeline make up its tasks.
THEOREM ConservationAlways == Spec => []Conservation
  <1>1. TypeOK /\ PlaceInv /\ AnswerInv /\ CoverInv => Conservation
    <2> SUFFICES ASSUME TypeOK, PlaceInv, AnswerInv, CoverInv,
                        NEW r \in Readers, pc[r] = "recv", ~HasError(r)
                 PROVE  Cardinality(TasksOf(r)) =
                          received[r] + Cardinality(Stops(r))
                            + Cardinality({t \in TasksOf(r) : Pending(t)})
      BY DEF Conservation
    <2>1. PICK G, E, A : /\ G = got[r]
                         /\ E = {t \in TasksOf(r) : Has(inbox[r], Stop(t))}
                         /\ A = {t \in TasksOf(r) : Active(t)}
      OBVIOUS
    <2>2. \A t \in TasksOf(r) : t \in Tasks /\ Owner[t] = r
      BY DEF TasksOf
    <2>3. {t \in TasksOf(r) : Pending(t)} = A
      BY <2>1, <2>2, ConstantsOK, PendingIsActive
    <2>4. G \cup E \cup A = TasksOf(r)
      <3>1. ~Fails(inbox[r])
        BY DEF HasError, Fails
      <3>2. \A t \in TasksOf(r) : Active(t) \/ t \in G \/ t \in E
        BY <2>1, <2>2, <3>1 DEF CoverInv, TasksAreCovered, Ended
      <3>3. G \subseteq TasksOf(r)
        BY <2>1 DEF AnswerInv, CountsStops
      <3> QED BY <2>1, <3>2, <3>3
    <2>5. G \cap E = {}
      <3>1. \A i \in DOMAIN inbox[r] : inbox[r][i].task \notin got[r]
        BY DEF AnswerInv, InboxInOrder, OfTasks
      <3> QED BY <2>1, <3>1 DEF Has, Stop
    <2>6. (G \cup E) \cap A = {}
      <3>1. ASSUME NEW t \in A PROVE t \notin got[r] /\ ~Has(inbox[r], Stop(t))
        <4>1. IsOpen(t) /\ Owner[t] = r
          BY <2>1, <2>2 DEF AnswerInv, ActiveIsOpen
        <4> QED BY <4>1 DEF IsOpen, StillOpen, Has, Stop
      <3> QED BY <2>1, <3>1
    <2>7. /\ IsFiniteSet(G) /\ IsFiniteSet(E) /\ IsFiniteSet(A)
      <3>1. IsFiniteSet(TasksOf(r))
        <4>1. IsFiniteSet(Tasks) /\ TasksOf(r) \in SUBSET Tasks
          BY ConstantsOK DEF ConstantsOK, TasksOf
        <4> QED BY <4>1, FS_Subset
      <3>2. G \in SUBSET TasksOf(r) /\ E \in SUBSET TasksOf(r) /\ A \in SUBSET TasksOf(r)
        BY <2>4
      <3> QED BY <3>1, <3>2, FS_Subset
    <2>8. /\ IsFiniteSet(G \cup E)
          /\ Cardinality(G \cup E) = Cardinality(G) + Cardinality(E)
      <3>1. /\ IsFiniteSet(G \cup E)
            /\ Cardinality(G \cup E) = Cardinality(G) + Cardinality(E) - Cardinality(G \cap E)
        BY <2>7, FS_Union
      <3>2. Cardinality(G) \in Nat /\ Cardinality(E) \in Nat /\ Cardinality(G \cap E) = 0
        BY <2>5, <2>7, FS_CardinalityType, FS_EmptySet
      <3> QED BY <3>1, <3>2
    <2>9. Cardinality(TasksOf(r)) = Cardinality(G) + Cardinality(E) + Cardinality(A)
      <3>1. Cardinality((G \cup E) \cup A) =
               Cardinality(G \cup E) + Cardinality(A) - Cardinality((G \cup E) \cap A)
        BY <2>7, <2>8, FS_Union
      <3>2. /\ Cardinality(G) \in Nat /\ Cardinality(E) \in Nat /\ Cardinality(A) \in Nat
            /\ Cardinality((G \cup E) \cap A) = 0
        BY <2>6, <2>7, FS_CardinalityType, FS_EmptySet
      <3>3. Cardinality(TasksOf(r)) = Cardinality((G \cup E) \cup A)
        BY <2>4
      <3> QED BY <2>8, <3>1, <3>2, <3>3
    <2>10. Cardinality(Stops(r)) = Cardinality(E)
      BY <2>1, StopsCount
    <2>11. received[r] = Cardinality(G)
      BY <2>1 DEF AnswerInv, CountsStops
    <2> QED BY <2>3, <2>9, <2>10, <2>11
  <1> QED BY <1>1, TypeCorrect, PlaceInvHolds, AnswerInvHolds, CoverInvHolds, PTL

-----------------------------------------------------------------------------
(* The pipeline implements the service.                                    *)

\* The status of a request in the service.
Status(p) ==
    CASE p = "new" -> "new"
      [] p \in {"post", "recv", "failed"} -> "open"
      [] OTHER -> "closed"

\* A step that changes neither the results nor the status of a request is a
\* stutter of the service.
LEMMA ServiceStutter ==
    ASSUME UNCHANGED <<inbox, got>>, \A r \in Readers : Status(pc'[r]) = Status(pc[r])
    PROVE  UNCHANGED Service!vars
  BY DEF Service!vars, Status

\* The steps of the main thread.
LEMMA ServiceMain ==
    ASSUME ConstantsOK, RequestsOK, TypeOK, ReaderInv, BatchInv, PlaceInv, AnswerInv, MainStep
    PROVE  [Service!Next]_(Service!vars)
  <1>1. UNCHANGED <<pc, got>>
    BY MainFrame
  <1>2. CASE UNCHANGED inbox
    BY <1>1, <1>2, ServiceStutter
  <1>3. CASE ~UNCHANGED inbox
    <2>1. PICK t \in Tasks, kinds \in Service!Answers : Answering(t, kinds)
      BY <1>3, MainAnswers DEF Silent
    <2>2. PICK new : /\ new = [i \in DOMAIN kinds |-> [task |-> t, kind |-> kinds[i]]]
                     /\ inbox' = [inbox EXCEPT ![Owner[t]] = inbox[Owner[t]] \o new]
                     /\ pc[Owner[t]] \in {"recv", "failed"}
      BY <1>3, <2>1, AnsweringSends
    <2>3. IsOpen(t)
      BY <2>1, MainAlive DEF Answering, AnswerInv, ActiveIsOpen
    <2>4. ~Service!Over(t)
      BY <2>3 DEF Service!Over, IsOpen, StillOpen
    <2>5. Owner[t] \in Readers
      BY DEF ConstantsOK
    <2>6. Service!Answer(t, kinds)
      BY <1>1, <2>2, <2>4, <2>5 DEF Service!Answer
    <2> QED BY <2>1, <2>6 DEF Service!Next
  <1> QED BY <1>2, <1>3

\* The steps of a reader.
LEMMA ServiceReader ==
    ASSUME ConstantsOK, TypeOK, NEW r \in Readers, ReaderStep(r) \/ Leave(r)
    PROVE  [Service!Next]_(Service!vars)
  <1>1. CASE Register(r)
    <2>1. Service!Open(r)
      BY <1>1 DEF Register, Service!Open, TypeOK
    <2> QED BY <2>1 DEF Service!Next
  <1>2. CASE Receive(r)
    <2>1. Service!Take(r)
      BY <1>2 DEF Receive, Service!Take, TypeOK
    <2> QED BY <2>1 DEF Service!Next
  <1>3. CASE Finish(r) \/ Leave(r)
    <2>1. Service!Close(r)
      BY <1>3 DEF Finish, Leave, StopWaiting, Service!Close, TypeOK
    <2> QED BY <2>1 DEF Service!Next
  <1>4. CASE Purge(r)
    <2>1. Service!Drop(r)
      BY <1>4 DEF Purge, DropResults, Service!Drop, TypeOK
    <2> QED BY <2>1 DEF Service!Next
  <1>5. CASE Post(r) \/ CancelOne(r) \/ CancelDone(r)
    <2>1. UNCHANGED <<inbox, got>>
      BY <1>5 DEF Post, CancelOne, CancelDone
    <2>2. ASSUME NEW q \in Readers PROVE Status(pc'[q]) = Status(pc[q])
      BY <1>5 DEF Post, CancelOne, CancelDone, Status, TypeOK
    <2> QED BY <2>1, <2>2, ServiceStutter
  <1> QED BY <1>1, <1>2, <1>3, <1>4, <1>5 DEF ReaderStep

\* Whatever the queues and the slots do, a request that is open gets its results
\* in order, at most one stop result or error of each task and that one last,
\* and none once it is closed.
THEOREM ServiceImplemented == Spec => ImplementsService
  <1>1. Init => Service!Init
    BY DEF Init, Service!Init
  <1>2. /\ TypeOK /\ ReaderInv /\ BatchInv /\ PlaceInv /\ AnswerInv
        /\ [Next]_vars
        => [Service!Next]_(Service!vars)
    <2> SUFFICES ASSUME TypeOK, ReaderInv, BatchInv, PlaceInv, AnswerInv, [Next]_vars
                 PROVE  [Service!Next]_(Service!vars)
      OBVIOUS
    <2>1. CASE MainStep
      BY <2>1, ConstantsOK, RequestsOK, ServiceMain
    <2>2. ASSUME NEW r \in Readers, ReaderStep(r) \/ Leave(r)
          PROVE  [Service!Next]_(Service!vars)
      BY <2>2, ConstantsOK, ServiceReader
    <2>3. CASE UNCHANGED vars
      BY <2>3, ServiceStutter DEF vars, readerVars
    <2>4. CASE Rest
      BY <2>3, <2>4 DEF Rest
    <2> QED BY <2>1, <2>2, <2>3, <2>4 DEF Next
  <1> QED BY <1>1, <1>2, TypeCorrect, ReaderInvHolds, BatchInvHolds, PlaceInvHolds, AnswerInvHolds,
             PTL DEF Spec, ImplementsService, Service!Spec

-----------------------------------------------------------------------------
(* A family stays together.                                                *)

\* The prompt of slot p is still to be decoded.
Fresh(p) ==
    \/ state[p] \in {"STARTED", "PROCESSING_PROMPT"}
    \/ state[p] = "DONE_PROMPT" /\ phase \in {"prompt", "decode"}

\* t waits on a slot for its parent.
Waits(t) == \E s \in Slots : task[s] = t /\ state[s] = "WAIT_OTHER"

\* While the prompt of a parent is to be decoded its children wait, unless the
\* family is being cancelled.
ChildrenWait ==
    \A p \in Slots :
        Fresh(p) /\ p # releasing /\ phase # "fail" /\ pc[Owner[task[p]]] # "done"
        => \A c \in Children(task[p]) : Waits(c)

\* A child leaves its slot while it waits only after a failed launch, when all
\* slots fail, or when it is cancelled.
WaitersAreKept ==
    releasing # 0 /\ state[releasing] = "WAIT_OTHER" =>
        \/ phase = "unlaunch" /\ Parent[task[releasing]] = cur.task
        \/ phase = "fail"
        \/ pc[Owner[task[releasing]]] = "done"

FamilyInv == ChildrenWait /\ WaitersAreKept

\* The task of a slot, and the slot of a task.
LEMMA SlotTask ==
    ASSUME ConstantsOK, RequestsOK, TypeOK, PlaceInv, NEW p \in Slots, state[p] # "IDLE"
    PROVE  /\ task[p] \in Tasks /\ Owner[task[p]] \in Readers
           /\ \A s \in Slots : task[s] = task[p] => s = p
           /\ \A c \in Children(task[p]) : /\ c \in Tasks /\ Parent[c] = task[p]
                                           /\ Owner[c] = Owner[task[p]]
  <1>1. task[p] \in Tasks
    BY DEF PlaceInv, SlotsApart, TypeOK
  <1>2. \A c \in Children(task[p]) : c \in Tasks /\ Parent[c] = task[p] /\ Owner[c] = Owner[task[p]]
    BY <1>1 DEF Children, RequestsOK, ConstantsOK
  <1> QED BY <1>1, <1>2 DEF PlaceInv, SlotsApart, ConstantsOK

\* A prompt becomes fresh only when it is launched, or when all slots are idle.
LEMMA FreshBefore ==
    ASSUME ConstantsOK, TypeOK, BatchInv, MainStep, ~Launch, ~LaunchFails, ~Release
    PROVE  \A p \in Slots : Fresh(p)' /\ phase' # "fail" => Fresh(p) /\ phase # "fail"
  <1> USE DEF Fresh, At
  <1>1. CASE LoopStep \/ TaskStep
    <2>1. UNCHANGED state /\ phase \notin {"prompt", "decode", "fail"} /\ phase' \notin {"prompt", "decode"}
      BY <1>1 DEF LoopStep, TaskStep, PopTask, Drained, WakeUp, ProcessNext, ProcessCancel,
                  ProcessQuick, ProcessSlotAction, ProcessDefer, Unlaunch, Unlaunched, Processing,
                  TaskDone, slotVars
    <2> QED BY <2>1
  <1>2. CASE UpdateIdle \/ UpdateBusy \/ ShiftFails \/ Sampled \/ EmptyBatch \/ SendEmbedding
    BY <1>2 DEF UpdateIdle, UpdateBusy, ShiftFails, Sampled, EmptyBatch, SendEmbedding, slotVars
  <1>3. CASE BatchSampled
    <2>1. UNCHANGED state /\ phase = "shift" /\ \A s \in Slots : state[s] # "DONE_PROMPT"
      BY <1>3 DEF BatchSampled, slotVars, BatchInv, DoneIsSampled
    <2> QED BY <2>1
  <1>4. CASE SkipSlot \/ RejectPrompt \/ ImageFails \/ BatchBuilt
    BY <1>4 DEF SkipSlot, RejectPrompt, ImageFails, BatchBuilt, AtSlot, slotVars, mainVars
  <1>5. CASE BatchPrompt
    <2>1. PICK s \in Slots : /\ InPrompt(s)
                             /\ \/ state' = [state EXCEPT ![s] = "PROCESSING_PROMPT"]
                                \/ state' = [state EXCEPT ![s] = "DONE_PROMPT"]
      BY <1>5 DEF BatchPrompt
    <2>2. phase = "prompt" /\ UNCHANGED phase
      BY <1>5 DEF BatchPrompt, AtSlot, mainVars
    <2> QED BY <2>1, <2>2 DEF InPrompt, TypeOK
  <1>6. CASE DecodeOK
    BY <1>6 DEF DecodeOK
  <1>7. CASE DecodeFails
    BY <1>7 DEF DecodeFails
  <1>8. CASE SampleToken \/ SampleLast
    <2>1. PICK s \in ready : state' = [state EXCEPT ![s] = "GENERATING"]
      BY <1>8 DEF SampleToken, SampleLast
    <2>2. phase = "sample" /\ UNCHANGED phase
      BY <1>8 DEF SampleToken, SampleLast, mainVars
    <2> QED BY <2>1, <2>2 DEF TypeOK
  <1>9. CASE FailSlot \/ Failed
    BY <1>9 DEF FailSlot, Failed, AllIdle, Idle, slotVars
  <1> QED BY <1>1, <1>2, <1>3, <1>4, <1>5, <1>6, <1>7, <1>8, <1>9 DEF MainStep, UpdateStep

\* A child waits on, unless its parent has been decoded.
LEMMA WaiterAfter ==
    ASSUME ConstantsOK, TypeOK, BatchInv, PlaceInv, MainStep, ~Launch, ~LaunchFails, ~Release,
           NEW s \in Slots, state[s] = "WAIT_OTHER"
    PROVE  \/ state'[s] = "WAIT_OTHER"
           \/ DecodeOK /\ \E p \in Slots : state[p] = "DONE_PROMPT" /\ Parent[task[s]] = task[p]
  <1>1. CASE BatchPrompt
    <2>1. PICK u \in Slots : /\ InPrompt(u)
                             /\ \/ state' = [state EXCEPT ![u] = "PROCESSING_PROMPT"]
                                \/ state' = [state EXCEPT ![u] = "DONE_PROMPT"]
      BY <1>1 DEF BatchPrompt
    <2> QED BY <2>1 DEF InPrompt, TypeOK
  <1>2. CASE DecodeOK
    BY <1>2 DEF DecodeOK, Joining
  <1>3. CASE SampleToken \/ SampleLast
    <2>1. PICK u \in ready : state' = [state EXCEPT ![u] = "GENERATING"]
      BY <1>3 DEF SampleToken, SampleLast
    <2>2. state[u] # "WAIT_OTHER"
      BY <1>3 DEF SampleToken, SampleLast, At, BatchInv, BatchIsAtWork
    <2> QED BY <2>1, <2>2 DEF TypeOK
  <1>4. CASE ~BatchPrompt /\ ~DecodeOK /\ ~SampleToken /\ ~SampleLast
    <2>1. UNCHANGED state
      BY <1>4 DEF MainStep, LoopStep, TaskStep, UpdateStep, PopTask, Drained, WakeUp,
           ProcessNext, ProcessCancel, ProcessQuick, ProcessSlotAction, ProcessDefer, Unlaunch, Unlaunched,
           UpdateIdle, UpdateBusy, ShiftFails, BatchSampled, SkipSlot,
           RejectPrompt, ImageFails, BatchBuilt, EmptyBatch,
           DecodeFails, SendEmbedding, Sampled, FailSlot, Failed, slotVars, mainVars
    <2> QED BY <2>1
  <1> QED BY <1>1, <1>2, <1>3, <1>4

\* Only a launch makes a slot wait.
LEMMA WaiterBefore ==
    ASSUME TypeOK, MainStep, ~Launch, ~LaunchFails, NEW s \in Slots, state'[s] = "WAIT_OTHER"
    PROVE  state[s] = "WAIT_OTHER"
  <1>1. CASE Release
    <2>1. state' = [state EXCEPT ![releasing] = "IDLE"]
      BY <1>1 DEF Release
    <2> QED BY <2>1 DEF TypeOK
  <1>2. CASE BatchPrompt
    <2>1. PICK u \in Slots : \/ state' = [state EXCEPT ![u] = "PROCESSING_PROMPT"]
                            \/ state' = [state EXCEPT ![u] = "DONE_PROMPT"]
      BY <1>2 DEF BatchPrompt
    <2> QED BY <2>1 DEF TypeOK
  <1>3. CASE DecodeOK
    BY <1>3 DEF DecodeOK
  <1>4. CASE SampleToken \/ SampleLast
    <2>1. PICK u \in ready : state' = [state EXCEPT ![u] = "GENERATING"]
      BY <1>4 DEF SampleToken, SampleLast
    <2> QED BY <2>1 DEF TypeOK
  <1>5. CASE ~Release /\ ~BatchPrompt /\ ~DecodeOK /\ ~SampleToken /\ ~SampleLast
    <2>1. UNCHANGED state
      BY <1>5 DEF MainStep, LoopStep, TaskStep, UpdateStep, PopTask, Drained, WakeUp,
           ProcessNext, ProcessCancel, ProcessQuick, ProcessSlotAction, ProcessDefer, Unlaunch, Unlaunched,
           UpdateIdle, UpdateBusy, ShiftFails, BatchSampled, SkipSlot,
           RejectPrompt, ImageFails, BatchBuilt, EmptyBatch,
           DecodeFails, SendEmbedding, Sampled, FailSlot, Failed, slotVars, mainVars
    <2> QED BY <2>1
  <1> QED BY <1>1, <1>2, <1>3, <1>4, <1>5

\* Which slot the main thread decides to release.
LEMMA ReleasedNext ==
    ASSUME ConstantsOK, TypeOK, ReaderInv, BatchInv, PlaceInv, MainStep, ~Release
    PROVE  /\ releasing = 0
           /\ releasing' # 0 /\ state'[releasing'] = "WAIT_OTHER" =>
                 \/ phase' = "unlaunch" /\ Parent[task'[releasing']] = cur'.task
                 \/ phase' = "fail"
                 \/ pc[Owner[task'[releasing']]] = "done"
  <1> USE DEF At, slotVars, mainVars, batchVars
  <1>1. releasing = 0
    BY DEF MainStep, LoopStep, TaskStep, UpdateStep, PopTask, Drained, WakeUp,
           ProcessNext, ProcessCancel, ProcessQuick, ProcessSlotAction, ProcessDefer, Launch, LaunchFails,
           Unlaunch, Unlaunched, Processing, UpdateIdle, UpdateBusy, ShiftFails, BatchSampled, SkipSlot,
           RejectPrompt, BatchPrompt, ImageFails, BatchBuilt, EmptyBatch, DecodeOK, AtSlot,
           DecodeFails, SendEmbedding, SampleToken, SampleLast, Sampled, FailSlot, Failed
  <1>2. SUFFICES ASSUME releasing' # 0, state'[releasing'] = "WAIT_OTHER"
                 PROVE  \/ phase' = "unlaunch" /\ Parent[task'[releasing']] = cur'.task
                        \/ phase' = "fail"
                        \/ pc[Owner[task'[releasing']]] = "done"
    BY <1>1
  <1>3. CASE ProcessCancel
    <2>1. /\ cur.type = "cancel" /\ cur \in Entries \cup {NoEntry}
          /\ releasing' \in SlotsOf(cur.task) /\ UNCHANGED task
      BY <1>2, <1>3 DEF ProcessCancel, Processing, TypeOK
    <2>2. task[releasing'] = cur.task
      BY <2>1 DEF SlotsOf
    <2>3. cur.task \in Tasks /\ cur = Cancel(cur.task)
      BY <2>1 DEF Entries, NoEntry, NextResponse, Work, Cancel
    <2> QED BY <2>1, <2>2, <2>3 DEF ReaderInv, CancelsFromOwner
  <1>4. CASE Unlaunch
    <2>1. /\ phase = "unlaunch" /\ UNCHANGED <<phase, cur, task>>
          /\ releasing' \in FamilySlots(cur.task)
      BY <1>4 DEF Unlaunch
    <2>2. /\ task[releasing'] # cur.task
          /\ cur.task \in {task[releasing'], Parent[task[releasing']]}
      BY <2>1 DEF FamilySlots, PlaceInv, UnlaunchIsOfNobody, Work
    <2> QED BY <2>1, <2>2
  <1>5. CASE ShiftFails \/ RejectPrompt
    BY <1>2, <1>5 DEF ShiftFails, RejectPrompt
  <1>6. CASE SendEmbedding
    BY <1>2, <1>6 DEF SendEmbedding, BatchInv, BatchIsAtWork
  <1>7. CASE SampleLast
    <2>1. PICK s \in ready : state' = [state EXCEPT ![s] = "GENERATING"] /\ releasing' = s
      BY <1>7 DEF SampleLast
    <2> QED BY <1>2, <2>1 DEF TypeOK
  <1>8. CASE FailSlot
    BY <1>8 DEF FailSlot
  <1>9. CASE ~ProcessCancel /\ ~Unlaunch /\ ~ShiftFails /\ ~RejectPrompt /\ ~SendEmbedding
             /\ ~SampleLast /\ ~FailSlot
    <2>1. UNCHANGED releasing
      BY <1>9 DEF MainStep, LoopStep, TaskStep, UpdateStep, PopTask, Drained, WakeUp,
           ProcessNext, ProcessQuick, ProcessSlotAction, ProcessDefer, Launch, LaunchFails,
           Unlaunched, UpdateIdle, UpdateBusy, BatchSampled, SkipSlot,
           BatchPrompt, ImageFails, BatchBuilt, EmptyBatch, DecodeOK,
           DecodeFails, SampleToken, Sampled, Failed
    <2> QED BY <1>1, <1>2, <2>1
  <1> QED BY <1>3, <1>4, <1>5, <1>6, <1>7, <1>8, <1>9

\* A launch places whole families, or only children.
LEMMA FamilyLaunched ==
    ASSUME ConstantsOK, RequestsOK, TypeOK, PlaceInv, FamilyInv,
           NEW c \in Tasks, NEW T, T \subseteq {c} \cup Children(c), c \in T => Children(c) \subseteq T,
           NEW f \in Placements(T), Launched(f), Parent[c] = NoTask,
           phase = "task", phase' \in {"drain", "unlaunch"}, UNCHANGED <<releasing, pc>>, releasing = 0
    PROVE  FamilyInv'
  <1>1. T \subseteq Tasks
    BY DEF Children
  <1>2. LaunchedOn(f, T)
    BY <1>1, LaunchedSlots
  <1>3. ASSUME NEW p \in Slots, Fresh(p)', pc[Owner[task'[p]]] # "done", NEW k \in Children(task'[p])
        PROVE  \E s \in Slots : task'[s] = k /\ state'[s] = "WAIT_OTHER"
    <2>1. CASE p \in DOMAIN f
      <3>1. /\ task'[p] = f[p] /\ f[p] \in T
            /\ state'[p] = IF Parent[f[p]] # NoTask THEN "WAIT_OTHER" ELSE "STARTED"
        BY <1>2, <2>1 DEF LaunchedOn
      <3>2. Parent[f[p]] = NoTask
        BY <1>3, <3>1 DEF Fresh
      <3>3. f[p] = c
        BY <3>1, <3>2 DEF Children, ConstantsOK
      <3>4. k \in T /\ Parent[k] # NoTask
        BY <1>3, <3>1, <3>3 DEF Children, ConstantsOK
      <3>5. PICK s \in DOMAIN f : f[s] = k
        BY <1>2, <3>4 DEF LaunchedOn
      <3>6. s \in Slots /\ task'[s] = k /\ state'[s] = "WAIT_OTHER"
        BY <1>2, <3>4, <3>5 DEF LaunchedOn
      <3> QED BY <3>6
    <2>2. CASE p \notin DOMAIN f
      <3>1. task'[p] = task[p] /\ state'[p] = state[p]
        BY <1>2, <2>2 DEF LaunchedOn
      <3>2. Fresh(p) /\ p # releasing
        BY <1>3, <3>1 DEF Fresh, Slots
      <3>3. k \in Children(task[p]) /\ pc[Owner[task[p]]] # "done"
        BY <1>3, <3>1
      <3>4. Waits(k)
        BY <3>2, <3>3 DEF FamilyInv, ChildrenWait
      <3>5. PICK s \in Slots : task[s] = k /\ state[s] = "WAIT_OTHER"
        BY <3>4 DEF Waits
      <3>6. s \notin DOMAIN f
        BY <1>2, <3>5 DEF LaunchedOn, Idle
      <3>7. task'[s] = task[s] /\ state'[s] = state[s]
        BY <1>2, <3>6 DEF LaunchedOn
      <3> QED BY <3>5, <3>7
    <2> QED BY <2>1, <2>2
  <1>4. ChildrenWait'
    BY <1>3 DEF ChildrenWait, Waits
  <1> QED BY <1>4 DEF FamilyInv, WaitersAreKept

\* The steps of the main thread.
LEMMA FamilyInvMain ==
    ASSUME ConstantsOK, RequestsOK, TypeOK, ReaderInv, BatchInv, PlaceInv, FamilyInv, MainStep
    PROVE  FamilyInv'
  <1>1. UNCHANGED pc
    BY MainFrame
  <1>2. CASE Launch
    <2>1. PICK c \in Tasks : c = cur.task /\ InHand(c) /\ phase = "task"
      BY <1>2, WorkInHand DEF Launch
    <2>2. PICK f \in Placements({c} \cup Children(c)) : Launched(f)
      BY <1>2, <2>1 DEF Launch
    <2>3. phase' = "drain" /\ UNCHANGED releasing /\ releasing = 0
      BY <1>2 DEF Launch, TaskDone, Processing, At
    <2>4. Parent[c] = NoTask
      BY <2>1 DEF PlaceInv, EntriesArePosted, Entry
    <2> QED BY <1>1, <2>1, <2>2, <2>3, <2>4, FamilyLaunched
  <1>3. CASE LaunchFails
    <2>1. PICK c \in Tasks : c = cur.task /\ InHand(c) /\ phase = "task"
      BY <1>3, WorkInHand DEF LaunchFails
    <2>2. PICK before \in SUBSET Children(c) : \E f \in Placements(before) : Launched(f)
      BY <1>3, <2>1 DEF LaunchFails
    <2>3. PICK f \in Placements(before) : Launched(f)
      BY <2>2
    <2>4. phase' = "unlaunch" /\ UNCHANGED releasing /\ releasing = 0
      BY <1>3 DEF LaunchFails, Processing, At
    <2>5. Parent[c] = NoTask
      BY <2>1 DEF PlaceInv, EntriesArePosted, Entry
    <2>6. before \subseteq {c} \cup Children(c) /\ c \notin before
      BY <2>2, <2>5 DEF Children, ConstantsOK
    <2> QED BY <1>1, <2>1, <2>3, <2>4, <2>5, <2>6, FamilyLaunched
  <1>4. CASE Release
    <2>1. /\ releasing \in Slots /\ releasing' = 0 /\ UNCHANGED <<phase, cur>> /\ 0 \notin Slots
          /\ state' = [state EXCEPT ![releasing] = "IDLE"]
          /\ task' = [task EXCEPT ![releasing] = NoTask]
      BY <1>4 DEF Release, TypeOK, Slots
    <2>2. ASSUME NEW p \in Slots, Fresh(p)', phase # "fail", pc[Owner[task'[p]]] # "done",
                 NEW k \in Children(task'[p])
          PROVE  \E s \in Slots : task'[s] = k /\ state'[s] = "WAIT_OTHER"
      <3>1. p # releasing /\ task'[p] = task[p] /\ state'[p] = state[p]
        BY <2>1, <2>2 DEF Fresh, TypeOK
      <3>2. Fresh(p) /\ state[p] # "IDLE"
        BY <2>1, <2>2, <3>1 DEF Fresh
      <3>3. k \in Children(task[p]) /\ pc[Owner[task[p]]] # "done"
        BY <2>2, <3>1
      <3>4. Waits(k)
        BY <2>2, <3>1, <3>2, <3>3 DEF FamilyInv, ChildrenWait
      <3>5. PICK s \in Slots : task[s] = k /\ state[s] = "WAIT_OTHER"
        BY <3>4 DEF Waits
      <3>6. /\ task[p] \in Tasks /\ Parent[k] = task[p] /\ Owner[k] = Owner[task[p]]
        BY <2>2, <3>1, <3>2, SlotTask
      <3>7. s # releasing
        <4>1. SUFFICES ASSUME s = releasing PROVE FALSE
          OBVIOUS
        <4>2. phase = "unlaunch" /\ task[p] = cur.task
          BY <2>1, <2>2, <3>1, <3>5, <3>6, <4>1 DEF FamilyInv, WaitersAreKept
        <4> QED BY <4>2 DEF PlaceInv, UnlaunchIsOfNobody, Work
      <3> QED BY <2>1, <3>5, <3>7 DEF TypeOK
    <2>3. ChildrenWait'
      BY <1>1, <2>1, <2>2 DEF ChildrenWait, Waits
    <2> QED BY <2>1, <2>3 DEF FamilyInv, WaitersAreKept
  <1>5. CASE ~Launch /\ ~LaunchFails /\ ~Release
    <2>1. UNCHANGED task /\ releasing = 0
      BY <1>5, MainFrame, ReleasedNext
    <2>2. ASSUME NEW p \in Slots, Fresh(p)', phase' # "fail", pc[Owner[task'[p]]] # "done",
                 NEW k \in Children(task'[p])
          PROVE  \E s \in Slots : task'[s] = k /\ state'[s] = "WAIT_OTHER"
      <3>1. Fresh(p) /\ phase # "fail"
        BY <1>5, <2>2, FreshBefore
      <3>2. Fresh(p) /\ phase # "fail" /\ p # releasing /\ state[p] # "IDLE"
        BY <2>1, <3>1 DEF Fresh, Slots
      <3>3. k \in Children(task[p]) /\ pc[Owner[task[p]]] # "done"
        BY <2>1, <2>2
      <3>4. Waits(k)
        BY <2>2, <3>2, <3>3 DEF FamilyInv, ChildrenWait
      <3>5. PICK s \in Slots : task[s] = k /\ state[s] = "WAIT_OTHER"
        BY <3>4 DEF Waits
      <3>6. /\ Parent[k] = task[p]
            /\ \A u \in Slots : task[u] = task[p] => u = p
        BY <3>2, <3>3, SlotTask
      <3>7. CASE state'[s] = "WAIT_OTHER"
        BY <2>1, <3>5, <3>7
      <3>8. CASE state'[s] # "WAIT_OTHER"
        <4>1. DecodeOK /\ state[p] = "DONE_PROMPT"
          BY <1>5, <3>5, <3>6, <3>8, WaiterAfter
        <4>2. phase' = "sample" /\ state'[p] = "DONE_PROMPT"
          BY <4>1 DEF DecodeOK
        <4> QED BY <2>2, <4>2 DEF Fresh
      <3> QED BY <3>7, <3>8
    <2>3. ChildrenWait'
      BY <1>1, <2>1, <2>2 DEF ChildrenWait, Waits
    <2>4. WaitersAreKept'
      BY <1>1, <1>5, ReleasedNext DEF WaitersAreKept
    <2> QED BY <2>3, <2>4 DEF FamilyInv
  <1> QED BY <1>2, <1>3, <1>4, <1>5

\* FamilyInv holds.
LEMMA FamilyInvHolds == Spec => []FamilyInv
  <1>1. Init => FamilyInv
    BY DEF Init, FamilyInv, ChildrenWait, WaitersAreKept, Fresh
  <1>2. TypeOK /\ ReaderInv /\ BatchInv /\ PlaceInv /\ FamilyInv /\ [Next]_vars => FamilyInv'
    <2> SUFFICES ASSUME TypeOK, ReaderInv, BatchInv, PlaceInv, FamilyInv, [Next]_vars
                 PROVE  FamilyInv'
      OBVIOUS
    <2>1. CASE MainStep
      BY <2>1, ConstantsOK, RequestsOK, FamilyInvMain
    <2>2. ASSUME NEW r \in Readers, ReaderStep(r) \/ Leave(r) PROVE FamilyInv'
      <3>1. UNCHANGED <<phase, cur, releasing, state, task>>
        BY <2>2, ReaderFrame
      <3>2. \A q \in Readers : pc[q] = "done" => pc'[q] = "done"
        BY <2>2 DEF ReaderStep, Register, Post, Receive, Finish, Leave, StopWaiting, Purge,
                    CancelOne, CancelDone, TypeOK
      <3>3. \A s \in Slots : state[s] # "IDLE" => Owner[task[s]] \in Readers
        BY ConstantsOK, RequestsOK, SlotTask
      <3>4. \A s \in Slots : /\ Fresh(s)' <=> Fresh(s)
                             /\ Fresh(s) => state[s] # "IDLE"
        BY <3>1 DEF Fresh
      <3>5. ChildrenWait'
        <4>1. ASSUME NEW p \in Slots, Fresh(p), p # releasing, phase # "fail",
                     pc'[Owner[task[p]]] # "done"
              PROVE  \A k \in Children(task[p]) : Waits(k)
          BY <3>2, <3>3, <3>4, <4>1 DEF FamilyInv, ChildrenWait
        <4> QED BY <3>1, <3>4, <4>1 DEF ChildrenWait, Waits
      <3>6. WaitersAreKept'
        BY <3>1, <3>2, <3>3 DEF FamilyInv, WaitersAreKept, TypeOK
      <3> QED BY <3>5, <3>6 DEF FamilyInv
    <2>3. CASE UNCHANGED vars
      BY <2>3 DEF vars, slotVars, mainVars, readerVars, FamilyInv, ChildrenWait, WaitersAreKept, Fresh, Waits
    <2>4. CASE Rest
      BY <2>3, <2>4 DEF Rest
    <2> QED BY <2>1, <2>2, <2>3, <2>4 DEF Next
  <1> QED BY <1>1, <1>2, TypeCorrect, ReaderInvHolds, BatchInvHolds, PlaceInvHolds, PTL DEF Spec

\* When the prompt of a parent is done, every child of it waits on a slot of its
\* own, unless the family is being cancelled: the copies of
\* update_slots() after a decode reach all the children.
THEOREM FamilyTogetherAlways == Spec => []FamilyTogether
  <1>1. FamilyInv => FamilyTogether
    BY DEF FamilyInv, ChildrenWait, Waits, Fresh, FamilyTogether, At, Slots
  <1> QED BY <1>1, FamilyInvHolds, PTL

-----------------------------------------------------------------------------
(* Children whose parent has gone.                                         *)

\* Slot p is on its way to the decode that activates the children of its task.
Leads(p) ==
    \/ state[p] \in {"STARTED", "PROCESSING_PROMPT"}
    \/ state[p] = "DONE_PROMPT" /\ phase \in {"prompt", "decode", "fail", "aborted"}

\* The parent of t is on such a slot.
IsLed(t) == \E p \in Slots : task[p] = Parent[t] /\ p # releasing /\ Leads(p)

\* A child waits for its parent, or its reader has an error to take, or has
\* stopped receiving.
WaitersAreLed ==
    \A s \in Slots :
        /\ state[s] = "WAIT_OTHER" /\ s # releasing
        /\ pc[Owner[task[s]]] = "recv" /\ ~Fails(inbox[Owner[task[s]]])
        => IsLed(task[s])

\* A parent has a prompt: update_slots() answers a task with an empty one at
\* once and releases its slot, and nobody tells the children.
ParentsHavePrompts == \A t \in Tasks : Children(t) # {} => "empty" \notin Prompt[t]

\* A slot leads until its prompt has been decoded, unless it is released.
LEMMA LeaderAfter ==
    ASSUME ConstantsOK, TypeOK, BatchInv, MainStep, ~Launch, ~LaunchFails, ~Release,
           NEW p \in Slots, Leads(p)
    PROVE  Leads(p)' \/ (DecodeOK /\ state[p] = "DONE_PROMPT")
  <1> USE DEF Leads, At
  <1>1. CASE LoopStep \/ TaskStep
    <2>1. UNCHANGED state /\ phase \notin {"prompt", "decode", "fail", "aborted"}
      BY <1>1 DEF LoopStep, TaskStep, PopTask, Drained, WakeUp, ProcessNext, ProcessCancel,
                  ProcessQuick, ProcessSlotAction, ProcessDefer, Unlaunch, Unlaunched, Processing,
                  slotVars
    <2> QED BY <2>1
  <1>2. CASE UpdateIdle \/ UpdateBusy \/ ShiftFails \/ BatchSampled \/ Sampled \/ SendEmbedding
    BY <1>2 DEF UpdateIdle, UpdateBusy, ShiftFails, BatchSampled, Sampled, SendEmbedding, slotVars
  <1>3. CASE SkipSlot \/ RejectPrompt \/ ImageFails \/ BatchBuilt \/ FailSlot
    BY <1>3 DEF SkipSlot, RejectPrompt, ImageFails, BatchBuilt, FailSlot, AtSlot, slotVars, mainVars
  <1>4. CASE BatchPrompt
    <2>1. PICK s \in Slots : /\ InPrompt(s)
                             /\ \/ state' = [state EXCEPT ![s] = "PROCESSING_PROMPT"]
                                \/ state' = [state EXCEPT ![s] = "DONE_PROMPT"]
      BY <1>4 DEF BatchPrompt
    <2>2. phase = "prompt" /\ UNCHANGED phase
      BY <1>4 DEF BatchPrompt, AtSlot, mainVars
    <2> QED BY <2>1, <2>2 DEF InPrompt, TypeOK
  <1>5. CASE EmptyBatch
    <2>1. phase = "decode" /\ batch = {} /\ UNCHANGED state
      BY <1>5 DEF EmptyBatch, slotVars
    <2> QED BY <2>1 DEF BatchInv, DoneIsSampled
  <1>6. CASE DecodeOK
    BY <1>6 DEF DecodeOK, Joining
  <1>7. CASE DecodeFails
    BY <1>7 DEF DecodeFails, slotVars
  <1>8. CASE SampleToken \/ SampleLast
    <2>1. PICK s \in ready : state' = [state EXCEPT ![s] = "GENERATING"]
      BY <1>8 DEF SampleToken, SampleLast
    <2>2. phase = "sample" /\ state[s] \in {"DONE_PROMPT", "GENERATING"}
      BY <1>8 DEF SampleToken, SampleLast, BatchInv, BatchIsAtWork
    <2> QED BY <2>1, <2>2 DEF TypeOK
  <1>9. CASE Failed
    BY <1>9 DEF Failed, AllIdle, Idle
  <1> QED BY <1>1, <1>2, <1>3, <1>4, <1>5, <1>6, <1>7, <1>8, <1>9 DEF MainStep, UpdateStep

\* A parent that leads is not released, unless its reader is done or an error is
\* sent to it.
LEMMA LeaderReleased ==
    ASSUME ConstantsOK, RequestsOK, TypeOK, ReaderInv, BatchInv, PlaceInv, ParentsHavePrompts,
           MainStep, ~Release, NEW p \in Slots, Leads(p), releasing' = p, Children(task[p]) # {}
    PROVE  pc[Owner[task[p]]] = "done" \/ Send(task[p], "error")
  <1> USE DEF At
  <1>1. releasing = 0 /\ p # 0
    BY ReleasedNext DEF Slots
  <1>2. task[p] \in Tasks
    BY SlotTask DEF Leads
  <1>3. CASE ProcessCancel
    <2>1. cur.type = "cancel" /\ cur \in Entries \cup {NoEntry} /\ p \in SlotsOf(cur.task)
      BY <1>1, <1>3 DEF ProcessCancel, Processing, TypeOK
    <2>2. task[p] = cur.task
      BY <2>1 DEF SlotsOf
    <2>3. cur.task \in Tasks /\ cur = Cancel(cur.task)
      BY <2>1 DEF Entries, NoEntry, NextResponse, Work, Cancel
    <2> QED BY <2>2, <2>3 DEF ReaderInv, CancelsFromOwner
  <1>4. CASE Unlaunch
    <2>1. phase = "unlaunch" /\ p \in FamilySlots(cur.task)
      BY <1>4 DEF Unlaunch
    <2>2. PICK c \in Tasks : cur = Work(c) /\ task[p] # c
      BY <2>1 DEF PlaceInv, UnlaunchIsOfNobody
    <2>3. Parent[task[p]] = c /\ c # NoTask
      BY <2>1, <2>2 DEF FamilySlots, Work, ConstantsOK
    <2>4. PICK k \in Tasks : Parent[k] = task[p]
      BY DEF Children
    <2>5. Parent[task[p]] = NoTask
      BY <1>2, <2>4 DEF RequestsOK, ConstantsOK
    <2> QED BY <2>3, <2>5
  <1>5. CASE RejectPrompt
    <2>1. PICK s \in Slots : /\ releasing' = s
                             /\ \/ "empty" \in Prompt[task[s]]
                                \/ Send(task[s], "error")
      BY <1>5 DEF RejectPrompt
    <2> QED BY <1>2, <2>1 DEF ParentsHavePrompts
  <1>6. CASE ShiftFails
    BY <1>6 DEF ShiftFails
  <1>7. CASE SendEmbedding \/ SampleLast
    BY <1>7 DEF SendEmbedding, SampleLast, BatchInv, BatchIsAtWork, Leads
  <1>8. CASE FailSlot
    BY <1>8 DEF FailSlot
  <1>9. CASE ~ProcessCancel /\ ~Unlaunch /\ ~ShiftFails /\ ~RejectPrompt /\ ~SendEmbedding
             /\ ~SampleLast /\ ~FailSlot
    <2>1. UNCHANGED releasing
      BY <1>9 DEF MainStep, LoopStep, TaskStep, UpdateStep, PopTask, Drained, WakeUp,
           ProcessNext, ProcessQuick, ProcessSlotAction, ProcessDefer, Launch, LaunchFails,
           Unlaunched, UpdateIdle, UpdateBusy, BatchSampled, SkipSlot,
           BatchPrompt, ImageFails, BatchBuilt, EmptyBatch, DecodeOK,
           DecodeFails, SampleToken, Sampled, Failed, mainVars
    <2> QED BY <1>1, <2>1
  <1> QED BY <1>3, <1>4, <1>5, <1>6, <1>7, <1>8, <1>9

\* The steps of the main thread.
LEMMA LedMain ==
    ASSUME ConstantsOK, RequestsOK, TypeOK, ReaderInv, BatchInv, PlaceInv, AnswerInv, CoverInv,
           CoverInv', WaitersAreLed, ParentsHavePrompts, MainStep
    PROVE  WaitersAreLed'
  <1>1. UNCHANGED pc
    BY MainFrame
  <1>2. \A t \in Tasks : Owner[t] \in Readers /\ (Fails(inbox[Owner[t]]) => Fails(inbox'[Owner[t]]))
    BY MainOnlySends DEF ConstantsOK
  <1>3. ASSUME NEW s \in Slots, state[s] = "WAIT_OTHER", s # releasing,
               pc[Owner[task[s]]] = "recv", ~Fails(inbox'[Owner[task[s]]])
        PROVE  \E p \in Slots : /\ task[p] = Parent[task[s]] /\ p # releasing /\ Leads(p)
                                /\ task[p] \in Tasks /\ task[s] \in Children(task[p])
                                /\ Owner[task[p]] = Owner[task[s]]
    <2>1. task[s] \in Tasks
      BY <1>3, SlotTask
    <2>2. IsLed(task[s])
      BY <1>2, <1>3, <2>1 DEF WaitersAreLed
    <2>3. PICK p \in Slots : task[p] = Parent[task[s]] /\ p # releasing /\ Leads(p)
      BY <2>2 DEF IsLed
    <2>4. task[p] \in Tasks
      BY <2>3, SlotTask DEF Leads
    <2>5. task[s] \in Children(task[p]) /\ Owner[task[p]] = Owner[task[s]]
      BY <2>1, <2>3, <2>4 DEF Children, ConstantsOK, RequestsOK
    <2> QED BY <2>3, <2>4, <2>5
  <1>4. CASE Launch \/ LaunchFails
    <2>1. PICK c \in Tasks : c = cur.task /\ InHand(c) /\ phase = "task" /\ releasing = 0
      BY <1>4, WorkInHand DEF Launch, LaunchFails, Processing, At
    <2>2. PICK T \in SUBSET ({c} \cup Children(c)) :
             /\ Launch => c \in T
             /\ \E f \in Placements(T) : Launched(f)
      BY <1>4, <2>1 DEF Launch, LaunchFails
    <2>3. PICK f \in Placements(T) : Launched(f)
      BY <2>2
    <2>4. LaunchedOn(f, T)
      BY <2>2, <2>3, LaunchedSlots DEF Children
    <2>5. UNCHANGED releasing /\ (LaunchFails => phase' = "unlaunch" /\ UNCHANGED cur)
      BY <1>4 DEF Launch, LaunchFails
    <2>6. Parent[c] = NoTask
      BY <2>1 DEF PlaceInv, EntriesArePosted, Entry
    <2>7. ASSUME NEW s \in Slots, state'[s] = "WAIT_OTHER", s # releasing',
                 pc[Owner[task'[s]]] = "recv", ~Fails(inbox'[Owner[task'[s]]])
          PROVE  \E p \in Slots : task'[p] = Parent[task'[s]] /\ p # releasing' /\ Leads(p)'
      <3>1. CASE s \in DOMAIN f
        <4>1. task'[s] = f[s] /\ f[s] \in T /\ Parent[f[s]] # NoTask
          BY <2>4, <2>7, <3>1 DEF LaunchedOn
        <4>2. Parent[f[s]] = c /\ Owner[f[s]] = Owner[c]
          BY <2>2, <2>6, <4>1 DEF Children, ConstantsOK, RequestsOK
        <4>3. CASE Launch
          <5>1. PICK p \in DOMAIN f : f[p] = c
            BY <2>2, <2>4, <4>3 DEF LaunchedOn
          <5>2. p \in Slots /\ task'[p] = c /\ state'[p] = "STARTED"
            BY <2>4, <2>6, <5>1 DEF LaunchedOn
          <5>3. p # releasing'
            BY <2>1, <2>5, <5>2 DEF Slots
          <5> QED BY <4>1, <4>2, <5>2, <5>3 DEF Leads
        <4>4. CASE LaunchFails
          <5>1. Fails(inbox'[Owner[c]])
            BY <1>1, <2>1, <2>5, <2>7, <4>1, <4>2, <4>4 DEF CoverInv, UnlaunchIsReported, Fails
          <5> QED BY <2>7, <4>1, <4>2, <5>1
        <4> QED BY <1>4, <4>3, <4>4
      <3>2. CASE s \notin DOMAIN f
        <4>1. task'[s] = task[s] /\ state'[s] = state[s]
          BY <2>4, <3>2 DEF LaunchedOn
        <4>2. /\ state[s] = "WAIT_OTHER" /\ s # releasing
              /\ pc[Owner[task[s]]] = "recv" /\ ~Fails(inbox'[Owner[task[s]]])
          BY <2>5, <2>7, <4>1 DEF Fails
        <4>3. PICK p \in Slots : /\ task[p] = Parent[task[s]] /\ p # releasing /\ Leads(p)
                                 /\ task[p] \in Tasks /\ task[s] \in Children(task[p])
                                 /\ Owner[task[p]] = Owner[task[s]]
          BY <1>3, <4>2
        <4>4. state[p] \in {"STARTED", "PROCESSING_PROMPT"}
          BY <2>1, <4>3 DEF Leads
        <4>5. task'[p] = task[p] /\ state'[p] = state[p]
          BY <2>4, <4>4 DEF LaunchedOn, Idle
        <4> QED BY <2>5, <4>1, <4>3, <4>4, <4>5 DEF Leads
      <3> QED BY <3>1, <3>2
    <2> QED BY <1>1, <2>7 DEF WaitersAreLed, IsLed, Fails
  <1>5. CASE Release
    <2>1. /\ releasing \in Slots /\ releasing' = 0 /\ UNCHANGED phase /\ 0 \notin Slots
          /\ state' = [state EXCEPT ![releasing] = "IDLE"]
          /\ task' = [task EXCEPT ![releasing] = NoTask]
      BY <1>5 DEF Release, TypeOK, Slots
    <2>2. \A s \in Slots : s # releasing => task'[s] = task[s] /\ state'[s] = state[s]
      BY <2>1 DEF TypeOK
    <2>3. ASSUME NEW s \in Slots, state'[s] = "WAIT_OTHER", s # releasing',
                 pc[Owner[task'[s]]] = "recv", ~Fails(inbox'[Owner[task'[s]]])
          PROVE  \E p \in Slots : task'[p] = Parent[task'[s]] /\ p # releasing' /\ Leads(p)'
      <3>1. s # releasing
        BY <2>1, <2>3 DEF TypeOK
      <3>2. task'[s] = task[s] /\ state'[s] = state[s]
        BY <2>2, <3>1
      <3>3. /\ state[s] = "WAIT_OTHER" /\ s # releasing
            /\ pc[Owner[task[s]]] = "recv" /\ ~Fails(inbox'[Owner[task[s]]])
        BY <2>3, <3>1, <3>2 DEF Fails
      <3>4. PICK p \in Slots : /\ task[p] = Parent[task[s]] /\ p # releasing /\ Leads(p)
                               /\ task[p] \in Tasks /\ task[s] \in Children(task[p])
                               /\ Owner[task[p]] = Owner[task[s]]
        BY <1>3, <3>3
      <3> QED BY <2>1, <2>2, <3>2, <3>4 DEF Leads
    <2> QED BY <1>1, <2>3 DEF WaitersAreLed, IsLed, Fails
  <1>6. CASE ~Launch /\ ~LaunchFails /\ ~Release
    <2>1. UNCHANGED task /\ releasing = 0 /\ 0 \notin Slots
      BY <1>6, MainFrame, ReleasedNext DEF Slots
    <2>2. ASSUME NEW s \in Slots, state'[s] = "WAIT_OTHER", s # releasing',
                 pc[Owner[task'[s]]] = "recv", ~Fails(inbox'[Owner[task'[s]]])
          PROVE  \E p \in Slots : task'[p] = Parent[task'[s]] /\ p # releasing' /\ Leads(p)'
      <3>1. state[s] = "WAIT_OTHER"
        BY <1>6, <2>2, WaiterBefore
      <3>2. pc[Owner[task[s]]] = "recv" /\ ~Fails(inbox'[Owner[task[s]]])
        BY <2>1, <2>2 DEF Fails
      <3>3. PICK p \in Slots : /\ task[p] = Parent[task[s]] /\ p # releasing /\ Leads(p)
                               /\ task[p] \in Tasks /\ task[s] \in Children(task[p])
                               /\ Owner[task[p]] = Owner[task[s]]
        BY <1>3, <2>1, <3>1, <3>2
      <3>4. p # releasing'
        <4>1. SUFFICES ASSUME releasing' = p PROVE FALSE
          OBVIOUS
        <4>2. pc[Owner[task[p]]] = "done" \/ Send(task[p], "error")
          BY <1>6, <3>3, <4>1, LeaderReleased
        <4>3. Fails(inbox'[Owner[task[p]]])
          BY <3>2, <3>3, <4>2, ErrorArrives
        <4> QED BY <3>2, <3>3, <4>3
      <3>5. ~(DecodeOK /\ state[p] = "DONE_PROMPT")
        <4>1. SUFFICES ASSUME DecodeOK, state[p] = "DONE_PROMPT" PROVE FALSE
          OBVIOUS
        <4>2. s \in Joining
          BY <3>1, <3>3, <4>1 DEF Joining
        <4> QED BY <2>2, <4>1, <4>2 DEF DecodeOK
      <3>6. Leads(p)'
        BY <1>6, <3>3, <3>5, LeaderAfter
      <3> QED BY <2>1, <3>3, <3>4, <3>6
    <2> QED BY <1>1, <2>1, <2>2 DEF WaitersAreLed, IsLed, Fails
  <1> QED BY <1>4, <1>5, <1>6

\* The steps of a reader.
LEMMA LedReader ==
    ASSUME ConstantsOK, RequestsOK, TypeOK, PlaceInv, AnswerInv, WaitersAreLed,
           NEW r \in Readers, ReaderStep(r) \/ Leave(r)
    PROVE  WaitersAreLed'
  <1>1. UNCHANGED <<phase, releasing, state, task>>
    BY ReaderFrame
  <1>2. ASSUME NEW s \in Slots, state[s] = "WAIT_OTHER", s # releasing,
               pc'[Owner[task[s]]] = "recv", ~Fails(inbox'[Owner[task[s]]])
        PROVE  IsLed(task[s])
    <2>1. task[s] \in Tasks /\ Owner[task[s]] \in Readers
      BY <1>2, SlotTask
    <2>2. pc[Owner[task[s]]] \notin {"new", "post"}
      BY <2>1 DEF PlaceInv, SlotsApart, IsPosted
    <2>3. CASE Owner[task[s]] # r
      <3>1. pc'[Owner[task[s]]] = pc[Owner[task[s]]] /\ inbox'[Owner[task[s]]] = inbox[Owner[task[s]]]
        BY <2>1, <2>3 DEF ReaderStep, Register, Post, Receive, Finish, Leave, StopWaiting, Purge,
                DropResults, CancelOne, CancelDone, TypeOK
      <3>2. ~Fails(inbox[Owner[task[s]]])
        BY <1>2, <3>1 DEF Fails
      <3> QED BY <1>2, <3>1, <3>2 DEF WaitersAreLed
    <2>4. CASE Owner[task[s]] = r
      <3>1. Receive(r)
        BY <1>2, <2>1, <2>2, <2>4 DEF ReaderStep, Register, Post, Receive, Finish, Leave, StopWaiting,
                Purge, CancelOne, CancelDone, TypeOK
      <3>2. pc[r] = "recv" /\ pc'[r] = "recv" /\ ~Fails(inbox'[r])
        BY <1>2, <2>4, <3>1 DEF Receive
      <3>3. ~Fails(inbox[r])
        BY <3>1, <3>2, CoverReceive
      <3> QED BY <1>2, <2>4, <3>2, <3>3 DEF WaitersAreLed
    <2> QED BY <2>3, <2>4
  <1>3. \A s \in Slots : IsLed(task[s]) => IsLed(task[s])'
    BY <1>1 DEF IsLed, Leads
  <1>4. ASSUME NEW s \in Slots, state'[s] = "WAIT_OTHER", s # releasing',
               pc'[Owner[task'[s]]] = "recv", ~Fails(inbox'[Owner[task'[s]]])
        PROVE  IsLed(task[s])'
    <2>1. pc'[Owner[task[s]]] = "recv" /\ ~Fails(inbox'[Owner[task[s]]])
      BY <1>1, <1>4 DEF Fails
    <2> QED BY <1>1, <1>2, <1>3, <1>4, <2>1
  <1>5. \A s \in Slots : (state[s] = "WAIT_OTHER" /\ s # releasing /\ pc[Owner[task[s]]] = "recv"
                         /\ ~Fails(inbox[Owner[task[s]]]))' => IsLed(task[s])'
    BY <1>4 DEF Fails
  <1> QED BY <1>5 DEF WaitersAreLed

\* WaitersAreLed holds, when parents have prompts.
LEMMA WaitersAreLedHolds ==
    ASSUME ParentsHavePrompts
    PROVE  Spec => []WaitersAreLed
  <1>1. Init => WaitersAreLed
    BY DEF Init, WaitersAreLed
  <1>2. /\ TypeOK /\ ReaderInv /\ BatchInv /\ PlaceInv /\ AnswerInv /\ CoverInv /\ CoverInv'
        /\ WaitersAreLed /\ [Next]_vars
        => WaitersAreLed'
    <2> SUFFICES ASSUME TypeOK, ReaderInv, BatchInv, PlaceInv, AnswerInv, CoverInv, CoverInv',
                        WaitersAreLed, [Next]_vars
                 PROVE  WaitersAreLed'
      OBVIOUS
    <2>1. CASE MainStep
      BY <2>1, ConstantsOK, RequestsOK, LedMain
    <2>2. ASSUME NEW r \in Readers, ReaderStep(r) \/ Leave(r) PROVE WaitersAreLed'
      BY <2>2, ConstantsOK, RequestsOK, LedReader
    <2>3. CASE UNCHANGED vars
      BY <2>3 DEF vars, slotVars, mainVars, readerVars, WaitersAreLed, IsLed, Leads, Fails
    <2>4. CASE Rest
      BY <2>3, <2>4 DEF Rest
    <2> QED BY <2>1, <2>2, <2>3, <2>4 DEF Next
  <1> QED BY <1>1, <1>2, TypeCorrect, ReaderInvHolds, BatchInvHolds, PlaceInvHolds, AnswerInvHolds,
             CoverInvHolds, PTL DEF Spec

\* A child that waits for a parent that is gone is about to be cancelled, when
\* parents have prompts: its reader has an error to take or is cancelling.
THEOREM OrphansAreCancelledAlways ==
    ASSUME ParentsHavePrompts
    PROVE  Spec => []OrphansAreCancelled
  <1>1. TypeOK /\ ReaderInv /\ PlaceInv /\ WaitersAreLed => OrphansAreCancelled
    <2> SUFFICES ASSUME TypeOK, ReaderInv, PlaceInv, WaitersAreLed, NEW s \in Slots,
                        releasing = 0, state[s] = "WAIT_OTHER", pc[Owner[task[s]]] # "done",
                        \A p \in Slots : task[p] # Parent[task[s]],
                        ~(HasError(Owner[task[s]]) /\ pc[Owner[task[s]]] = "recv")
                 PROVE  \/ pc[Owner[task[s]]] \in {"failed", "purge"}
                        \/ task[s] \in todo[Owner[task[s]]]
                        \/ \E i \in DOMAIN queue : queue[i] = Cancel(task[s])
      BY DEF OrphansAreCancelled
    <2>1. task[s] \in Tasks /\ Owner[task[s]] \in Readers
      BY ConstantsOK, RequestsOK, SlotTask
    <2>2. pc[Owner[task[s]]] \in ReaderStates \ {"new", "post"}
      BY <2>1 DEF PlaceInv, SlotsApart, IsPosted, TypeOK
    <2>3. pc[Owner[task[s]]] # "recv"
      <3>1. SUFFICES ASSUME pc[Owner[task[s]]] = "recv" PROVE FALSE
        OBVIOUS
      <3>2. ~Fails(inbox[Owner[task[s]]])
        BY <3>1 DEF HasError, Fails
      <3>3. IsLed(task[s])
        BY <3>1, <3>2 DEF WaitersAreLed, Slots
      <3> QED BY <3>3 DEF IsLed
    <2>4. CASE pc[Owner[task[s]]] = "cancel"
      BY <2>1, <2>4 DEF ReaderInv, CancelsAll, TasksOf, Has
    <2> QED BY <2>2, <2>3, <2>4 DEF ReaderStates
  <1> QED BY <1>1, TypeCorrect, ReaderInvHolds, PlaceInvHolds, WaitersAreLedHolds, PTL
=============================================================================
