------------------------- MODULE XdnaInflightProof -------------------------
(***************************************************************************)
(* Proofs about the deferred work of the XDNA backend, for all addresses,  *)
(* rings, ring sizes, queue limits and graphs: the rings are intact        *)
(* (RingIntact), deferred work never lands on a newer value                *)
(* (PendingIsLatest), and a graph whose operations wait for what they read *)
(* returns with every live tensor valid (GraphIsValid).                    *)
(***************************************************************************)
EXTENDS XdnaInflight, TLAPS

(* Outside the walk nothing is pending. *)
Quiet ==
    /\ phase # "walk" => queue = {}
    /\ phase = "returned" => cpuRun = {}

(* What is due at address a, if the deferred work in q is done, is v. *)
DueIn(mem, q, a, v) ==
    IF \E e \in q : e.dst = a THEN \E e \in q : e.dst = a /\ e.id = v
                              ELSE mem[a] = v

(* At most one entry for an address, and its buffer has its value. *)
Single(q, buf) ==
    /\ \A e, f \in q : e.dst = f.dst => e = f
    /\ \A e \in q : buf[e.slot] = e.id

(* The collected node that writes a before node i, if there is one, writes  *)
(* v, and otherwise v is due.                                               *)
Writers(a, i) == {d \in cpuRun : d.dst = a /\ d.id < i}

Reads(a, i, v) ==
    \/ Writers(a, i) = {} /\ DueIn(memory, queue, a, v)
    \/ \E d \in Writers(a, i) : d.id = v /\ \A f \in Writers(a, i) : f.id <= d.id

Faithful ==
    /\ Single(queue, buffer)
    /\ \A c, d \in cpuRun : c.id = d.id => c = d
    /\ \A c \in cpuRun : Reads(c.src, c.id, c.read)
    /\ \A a \in live : Reads(a, n + 1, meaning[a])

Inv ==
    /\ TypeOK
    /\ Quiet
    /\ RingIntact
    /\ PendingIsLatest
    /\ ~unwaited => Faithful

-----------------------------------------------------------------------------
(* Completing a part of the queue *)

Entries == [id : Nat, dst : Address, slot : AllSlots]

(* The deferred work of an entry writes the entry's own value. *)
LEMMA EntryIsWritten ==
    ASSUME NEW mem, NEW buf, NEW done \in SUBSET Entries, Single(done, buf),
           NEW e \in done
    PROVE  After(mem, done, buf)[e.dst] = e.id
<1>1. e.dst \in Address /\ e.id \in Nat
  BY DEF Entries
<1>2. \A f \in done : f.dst = e.dst => f = e
  BY DEF Single
<1>3. Last(done, e.dst) = e
  BY <1>1, <1>2 DEF Last
<1> QED
  BY <1>1, <1>3 DEF After, Single

(* Addresses no entry is for keep what they hold. *)
LEMMA OthersAreKept ==
    ASSUME NEW mem, NEW buf, NEW done, NEW a \in Address, \A e \in done : e.dst # a
    PROVE  After(mem, done, buf)[a] = mem[a]
BY DEF After

(* What is due at an address does not depend on when the work is done. *)
LEMMA CompletionKeepsDue ==
    ASSUME NEW mem, NEW buf, NEW q \in SUBSET Entries, Single(q, buf),
           NEW done \in SUBSET q, NEW a \in Address, NEW v
    PROVE  DueIn(After(mem, done, buf), q \ done, a, v) <=> DueIn(mem, q, a, v)
<1> DEFINE mem2 == After(mem, done, buf)
<1>1. Single(done, buf) /\ done \in SUBSET Entries
  BY DEF Single
<1>2. CASE \E e \in done : e.dst = a
  <2>1. PICK e \in done : e.dst = a
    BY <1>2
  <2>2. mem2[a] = e.id
    BY <1>1, <2>1, EntryIsWritten
  <2>3. \A f \in q : f.dst = a => f = e
    BY <2>1 DEF Single
  <2> QED
    BY <2>1, <2>2, <2>3 DEF DueIn
<1>3. CASE ~ \E e \in done : e.dst = a
  <2>1. mem2[a] = mem[a]
    BY <1>3, OthersAreKept
  <2>2. \A e \in q : e.dst = a <=> e \in q /\ e.dst = a /\ e \notin done
    BY <1>3
  <2> QED
    BY <2>1, <2>2 DEF DueIn
<1> QED
  BY <1>2, <1>3

-----------------------------------------------------------------------------
(* TypeOK *)

LEMMA InitTypes == Init => TypeOK
<1> SUFFICES ASSUME Init PROVE TypeOK
  OBVIOUS
<1>1. n \in Nat /\ cpuRun = {} /\ queue = {} /\ live \subseteq Address
  BY DEF Init
<1>2. memory = [a \in Address |-> memory[a]]
  BY DEF Init
<1>3. meaning \in [Address -> 0 .. n]
  BY DEF Init
<1>4. buffer \in [AllSlots -> Int] /\ slotActive \in [AllSlots -> BOOLEAN]
      /\ slotDst \in [AllSlots -> Address \cup {NoAddress}]
  BY DEF Init, AllSlots, Wrong
<1> QED
  BY <1>1, <1>2, <1>3, <1>4 DEF Init, TypeOK

(* What a node changes besides its own data *)
LEMMA StepTypes ==
    ASSUME TypeOK, NEW src \in Address, NEW dst \in Address, NEW keep \in BOOLEAN,
           NEW inPlace \in BOOLEAN, Step(src, dst, keep, inPlace)
    PROVE  /\ n' = n + 1 /\ n' \in Nat
           /\ meaning' \in [Address -> 0 .. n']
           /\ live' \subseteq Address
           /\ src \in live /\ dst \in live' /\ live' \subseteq live \cup {dst}
           /\ \A e : e \in 1 .. n => e \in 1 .. n'
           /\ \A e : e \in 0 .. n => e \in 0 .. n'
           /\ n + 1 \in 1 .. n'
           /\ \A a \in Address : meaning'[a] = IF a = dst THEN n + 1 ELSE meaning[a]
BY DEF TypeOK, Step

LEMMA AfterIsFunction ==
    ASSUME NEW mem, NEW done, NEW buf
    PROVE  After(mem, done, buf) = [a \in Address |-> After(mem, done, buf)[a]]
BY DEF After

LEMMA DeferredTypes ==
    ASSUME TypeOK, NEW k \in Kernels, NEW src \in Address, NEW dst \in Address,
           NEW keep \in BOOLEAN, Deferred(k, src, dst, keep)
    PROVE  TypeOK'
<1> DEFINE s == <<k, nextSlot[k]>>
           done == SlotOwner(s) \cup InputOwners(src)
           early == After(memory, done, buffer)
           more == Excess(queue \ done)
<1>1. Step(src, dst, keep, FALSE)
  BY DEF Deferred
<1>2. /\ n' = n + 1 /\ n' \in Nat /\ meaning' \in [Address -> 0 .. n']
      /\ live' \subseteq Address
      /\ \A e : e \in 1 .. n => e \in 1 .. n'
      /\ \A e : e \in 0 .. n => e \in 0 .. n'
      /\ n + 1 \in 1 .. n'
  BY <1>1, StepTypes
<1>3. s \in AllSlots
  BY DEF TypeOK, AllSlots
<1>4. nextSlot' \in [Kernels -> Slots]
  <2>1. \A i \in Slots : Following(i) \in Slots
    BY XdnaOK DEF Following, Slots
  <2> QED
    BY <2>1 DEF Deferred, TypeOK
<1>5. buffer' \in [AllSlots -> Int]
  <2>1. Computed(early, src) \in Int
    BY DEF Computed, TypeOK, Wrong
  <2> QED
    BY <1>3, <2>1 DEF Deferred, TypeOK
<1>6. memory' = [a \in Address |-> memory'[a]]
  <2>1. memory' = After(early, more, buffer')
    BY DEF Deferred
  <2> HIDE DEF early, more
  <2> QED
    BY <2>1 DEF After
<1>7. slotDst' \in [AllSlots -> Address \cup {NoAddress}]
  BY <1>3 DEF Deferred, TypeOK
<1>8. slotActive' \in [AllSlots -> BOOLEAN]
  <2>1. \A act \in [AllSlots -> BOOLEAN] : \A d : Cleared(act, d) \in [AllSlots -> BOOLEAN]
    BY DEF Cleared, AllSlots
  <2>2. [Cleared(slotActive, done) EXCEPT ![s] = TRUE] \in [AllSlots -> BOOLEAN]
    BY <1>3, <2>1 DEF TypeOK
  <2> QED
    BY <2>1, <2>2 DEF Deferred
<1>9. queue' \subseteq [id : 1 .. n', dst : Address, slot : AllSlots]
  <2>1. [id |-> n + 1, dst |-> dst, slot |-> s]
          \in [id : 1 .. n', dst : Address, slot : AllSlots]
    BY <1>2, <1>3
  <2>2. \A e \in queue : e \in [id : 1 .. n', dst : Address, slot : AllSlots]
    BY <1>2 DEF TypeOK
  <2> QED
    BY <2>1, <2>2 DEF Deferred
<1>10. cpuRun' \subseteq [id : 1 .. n', src : Address, dst : Address, read : 0 .. n']
  BY <1>2 DEF TypeOK, Deferred
<1> QED
  BY <1>2, <1>4, <1>5, <1>6, <1>7, <1>8, <1>9, <1>10 DEF TypeOK, Deferred

LEMMA WaitingTypes ==
    ASSUME TypeOK, NEW src \in Address, NEW dst \in Address, NEW keep \in BOOLEAN,
           Waiting(src, dst, keep)
    PROVE  TypeOK'
<1> DEFINE done == InputOwners(src)
           early == After(memory, done, buffer)
<1>1. Step(src, dst, keep, FALSE)
  BY DEF Waiting
<1>2. /\ n' = n + 1 /\ n' \in Nat /\ meaning' \in [Address -> 0 .. n']
      /\ live' \subseteq Address
      /\ \A e : e \in 1 .. n => e \in 1 .. n'
      /\ \A e : e \in 0 .. n => e \in 0 .. n'
  BY <1>1, StepTypes
<1>3. memory' = [a \in Address |-> memory'[a]]
  BY AfterIsFunction DEF Waiting, After
<1>4. slotActive' \in [AllSlots -> BOOLEAN]
  BY DEF Waiting, Cleared, TypeOK, AllSlots
<1>5. queue' \subseteq [id : 1 .. n', dst : Address, slot : AllSlots]
  BY <1>2 DEF TypeOK, Waiting
<1>6. cpuRun' \subseteq [id : 1 .. n', src : Address, dst : Address, read : 0 .. n']
  BY <1>2 DEF TypeOK, Waiting
<1> QED
  BY <1>2, <1>3, <1>4, <1>5, <1>6 DEF TypeOK, Waiting

LEMMA PlainTypes ==
    ASSUME TypeOK, NEW src \in Address, NEW dst \in Address, NEW keep \in BOOLEAN,
           Plain(src, dst, keep)
    PROVE  TypeOK'
<1>1. Step(src, dst, keep, TRUE)
  BY DEF Plain
<1>2. /\ n' = n + 1 /\ n' \in Nat /\ meaning' \in [Address -> 0 .. n']
      /\ live' \subseteq Address
      /\ \A e : e \in 1 .. n => e \in 1 .. n'
      /\ \A e : e \in 0 .. n => e \in 0 .. n'
  BY <1>1, StepTypes
<1>3. memory' = [a \in Address |-> memory'[a]]
  BY DEF Plain, TypeOK
<1>4. unwaited' \in BOOLEAN
  BY DEF Plain, TypeOK, Pending
<1>5. queue' \subseteq [id : 1 .. n', dst : Address, slot : AllSlots]
  BY <1>2 DEF TypeOK, Plain
<1>6. cpuRun' \subseteq [id : 1 .. n', src : Address, dst : Address, read : 0 .. n']
  BY <1>2 DEF TypeOK, Plain
<1> QED
  BY <1>2, <1>3, <1>4, <1>5, <1>6 DEF TypeOK, Plain, ring

LEMMA CollectTypes ==
    ASSUME TypeOK, NEW src \in Address, NEW dst \in Address, NEW keep \in BOOLEAN,
           Collect(src, dst, keep)
    PROVE  TypeOK'
<1>1. Step(src, dst, keep, TRUE)
  BY DEF Collect
<1>2. /\ n' = n + 1 /\ n' \in Nat /\ meaning' \in [Address -> 0 .. n']
      /\ live' \subseteq Address
      /\ \A e : e \in 1 .. n => e \in 1 .. n'
      /\ \A e : e \in 0 .. n => e \in 0 .. n'
      /\ n + 1 \in 1 .. n'
  BY <1>1, StepTypes
<1>3. queue' \subseteq [id : 1 .. n', dst : Address, slot : AllSlots]
  BY <1>2 DEF TypeOK, Collect
<1>4. cpuRun' \subseteq [id : 1 .. n', src : Address, dst : Address, read : 0 .. n']
  <2>1. meaning[src] \in 0 .. n'
    BY <1>2 DEF TypeOK
  <2>2. [id |-> n + 1, src |-> src, dst |-> dst, read |-> meaning[src]]
          \in [id : 1 .. n', src : Address, dst : Address, read : 0 .. n']
    BY <1>2, <2>1
  <2>3. \A c \in cpuRun : c \in [id : 1 .. n', src : Address, dst : Address, read : 0 .. n']
    BY <1>2 DEF TypeOK
  <2> QED
    BY <2>2, <2>3 DEF Collect
<1> QED
  BY <1>2, <1>3, <1>4 DEF TypeOK, Collect, ring

LEMMA DrainTypes ==
    ASSUME TypeOK, Drain
    PROVE  /\ queue' = {} /\ memory' = [a \in Address |-> memory'[a]]
           /\ slotActive' \in [AllSlots -> BOOLEAN]
           /\ nextSlot' = nextSlot /\ slotDst' = slotDst /\ buffer' = buffer
<1>1. memory' = [a \in Address |-> memory'[a]]
  BY AfterIsFunction DEF Drain
<1>2. slotActive' \in [AllSlots -> BOOLEAN]
  BY DEF Drain, Cleared, TypeOK, AllSlots
<1> QED
  BY <1>1, <1>2 DEF Drain

(* The type invariant is preserved. *)
LEMMA NextTypes == TypeOK /\ [Next]_vars => TypeOK'
<1> SUFFICES ASSUME TypeOK, [Next]_vars PROVE TypeOK'
  OBVIOUS
<1>1. ASSUME NEW k \in Kernels, NEW src \in Address, NEW dst \in Address,
             NEW keep \in BOOLEAN, Deferred(k, src, dst, keep)
      PROVE  TypeOK'
  BY <1>1, DeferredTypes
<1>2. ASSUME NEW src \in Address, NEW dst \in Address, NEW keep \in BOOLEAN,
             Waiting(src, dst, keep) \/ Plain(src, dst, keep) \/ Collect(src, dst, keep)
      PROVE  TypeOK'
  BY <1>2, WaitingTypes, PlainTypes, CollectTypes
<1>3. CASE Delegate
  BY <1>3, DrainTypes DEF Delegate, BeforeCpu, TypeOK
<1>4. CASE CpuNode
  <2>1. PICK c \in cpuRun :
          memory' = [memory EXCEPT ![c.dst] = IF memory[c.src] = c.read THEN c.id ELSE Wrong]
    BY <1>4 DEF CpuNode
  <2>2. memory' = [a \in Address |-> memory'[a]]
    BY <2>1 DEF TypeOK
  <2>3. cpuRun' \subseteq cpuRun /\ phase' \in {"walk", "cpu"}
    BY <1>4 DEF CpuNode
  <2>4. UNCHANGED <<n, queue, ring, meaning, live, unwaited>>
    BY <1>4 DEF CpuNode
  <2> QED
    BY <2>2, <2>3, <2>4 DEF TypeOK, ring
<1>5. CASE CpuFails
  BY <1>5 DEF CpuFails, TypeOK, ring
<1>6. CASE Return
  BY <1>6, DrainTypes DEF Return, TypeOK
<1>7. CASE UNCHANGED vars
  BY <1>7 DEF vars, ring, TypeOK
<1> QED
  BY <1>1, <1>2, <1>3, <1>4, <1>5, <1>6, <1>7 DEF Next

-----------------------------------------------------------------------------
(* The rings *)

LEMMA InitRing == Init => RingIntact
BY DEF Init, RingIntact

(* Completing a part of the queue frees the slots of that part only. *)
LEMMA CompletionKeepsRing ==
    ASSUME RingIntact, TypeOK, NEW done \in SUBSET queue
    PROVE  LET act == Cleared(slotActive, done)
           IN  /\ \A e \in queue \ done : act[e.slot]
               /\ \A s \in AllSlots :
                    act[s] => \E e \in queue \ done : e.slot = s
<1>1. \A e \in queue : e.slot \in AllSlots
  BY DEF TypeOK
<1> QED
  BY <1>1 DEF RingIntact, Cleared, AllSlots

LEMMA DeferredRing ==
    ASSUME TypeOK, RingIntact, NEW k \in Kernels, NEW src \in Address,
           NEW dst \in Address, NEW keep \in BOOLEAN, Deferred(k, src, dst, keep)
    PROVE  RingIntact'
<1> DEFINE s == <<k, nextSlot[k]>>
           done == SlotOwner(s) \cup InputOwners(src)
           more == Excess(queue \ done)
           new == [id |-> n + 1, dst |-> dst, slot |-> s]
           kept == queue \ (done \cup more)
           act == [Cleared(slotActive, done) EXCEPT ![s] = TRUE]
<1>1. s \in AllSlots
  BY DEF TypeOK, AllSlots
<1>2. more \subseteq queue \ done /\ done \subseteq queue
  BY DEF Excess, Oldest, SlotOwner, InputOwners, Producers
<1>3. \A e \in queue : e.slot \in AllSlots
  BY DEF TypeOK
<1>4. \A e \in queue \ done : e.slot # s
  BY DEF RingIntact, SlotOwner, Producers
<1>5. /\ queue' = kept \cup {new}
      /\ slotDst' = [slotDst EXCEPT ![s] = dst]
      /\ slotActive' = Cleared(act, more)
  BY DEF Deferred
<1>6. new.slot = s /\ new.dst = dst
  OBVIOUS
<1>7. \A t \in AllSlots : act[t] <=> t = s \/ Cleared(slotActive, done)[t]
  BY <1>1 DEF Cleared, AllSlots
<1>8. \A t \in AllSlots : slotActive'[t] <=> act[t] /\ \A e \in more : e.slot # t
  BY <1>5 DEF Cleared, AllSlots
<1>9. /\ \A e \in queue \ done : Cleared(slotActive, done)[e.slot]
      /\ \A t \in AllSlots :
            Cleared(slotActive, done)[t] => \E e \in queue \ done : e.slot = t
  BY <1>2, CompletionKeepsRing
<1>10. \A e, f \in queue : e.slot = f.slot => e = f
  BY DEF RingIntact
<1> HIDE DEF s, done, more, new, act
<1>11. \A e, f \in queue' : e.slot = f.slot => e = f
  BY <1>4, <1>5, <1>6, <1>10
<1>12. \A e \in queue' : slotActive'[e.slot] /\ slotDst'[e.slot] = e.dst
  <2>1. slotActive'[new.slot] /\ slotDst'[new.slot] = new.dst
    BY <1>1, <1>2, <1>4, <1>5, <1>6, <1>7, <1>8 DEF TypeOK
  <2>2. ASSUME NEW e \in kept
        PROVE  slotActive'[e.slot] /\ slotDst'[e.slot] = e.dst
    <3>1. e \in queue /\ e \notin done /\ e \notin more /\ e.slot \in AllSlots /\ e.slot # s
      BY <1>3, <1>4
    <3>2. \A f \in more : f.slot # e.slot
      BY <1>2, <1>10, <3>1
    <3>3. slotActive'[e.slot]
      BY <1>7, <1>8, <1>9, <3>1, <3>2
    <3>4. slotDst'[e.slot] = slotDst[e.slot]
      BY <1>1, <1>5, <3>1 DEF TypeOK
    <3> QED
      BY <3>1, <3>3, <3>4 DEF RingIntact
  <2> QED
    BY <1>5, <2>1, <2>2
<1>13. \A t \in AllSlots : slotActive'[t] => \E e \in queue' : e.slot = t
  BY <1>5, <1>6, <1>7, <1>8, <1>9
<1> QED
  BY <1>11, <1>12, <1>13 DEF RingIntact, AllSlots, Slots

LEMMA WaitingRing ==
    ASSUME TypeOK, RingIntact, NEW src \in Address, NEW dst \in Address,
           NEW keep \in BOOLEAN, Waiting(src, dst, keep)
    PROVE  RingIntact'
<1> DEFINE done == InputOwners(src)
<1>1. done \subseteq queue
  BY DEF InputOwners, Producers
<1>2. queue' = queue \ done /\ slotActive' = Cleared(slotActive, done) /\ slotDst' = slotDst
  BY DEF Waiting
<1> HIDE DEF done
<1>3. /\ \A e \in queue' : slotActive'[e.slot]
      /\ \A s \in AllSlots : slotActive'[s] => \E e \in queue' : e.slot = s
  BY <1>1, <1>2, CompletionKeepsRing
<1> QED
  BY <1>2, <1>3 DEF RingIntact, AllSlots, Slots

LEMMA DrainRing ==
    ASSUME TypeOK, RingIntact, Drain
    PROVE  RingIntact'
BY CompletionKeepsRing DEF RingIntact, Drain, AllSlots, Slots

LEMMA NextRing == TypeOK /\ RingIntact /\ [Next]_vars => RingIntact'
<1> SUFFICES ASSUME TypeOK, RingIntact, [Next]_vars PROVE RingIntact'
  OBVIOUS
<1>1. ASSUME NEW k \in Kernels, NEW src \in Address, NEW dst \in Address,
             NEW keep \in BOOLEAN, Deferred(k, src, dst, keep)
      PROVE  RingIntact'
  BY <1>1, DeferredRing
<1>2. ASSUME NEW src \in Address, NEW dst \in Address, NEW keep \in BOOLEAN,
             Waiting(src, dst, keep)
      PROVE  RingIntact'
  BY <1>2, WaitingRing
<1>3. CASE Delegate \/ Return
  BY <1>3, DrainRing DEF Delegate, BeforeCpu, Return
<1>4. ASSUME UNCHANGED <<queue, ring>>
      PROVE  RingIntact'
  BY <1>4 DEF ring, RingIntact, Slots
<1>5. CASE CpuNode \/ CpuFails \/ UNCHANGED vars
  BY <1>4, <1>5 DEF CpuNode, CpuFails, vars
<1>6. ASSUME NEW src \in Address, NEW dst \in Address, NEW keep \in BOOLEAN,
             Plain(src, dst, keep) \/ Collect(src, dst, keep)
      PROVE  RingIntact'
  BY <1>4, <1>6 DEF Plain, Collect
<1> QED
  BY <1>1, <1>2, <1>3, <1>5, <1>6 DEF Next

(* A buffer the NPU or the deferred work still uses is never overwritten.  *)
THEOREM RingTheorem == Spec => []RingIntact
<1>1. Init => TypeOK /\ RingIntact
  BY InitTypes, InitRing
<1>2. TypeOK /\ RingIntact /\ [Next]_vars => (TypeOK /\ RingIntact)'
  BY NextTypes, NextRing
<1> QED
  BY <1>1, <1>2, PTL DEF Spec

-----------------------------------------------------------------------------
(* Pending work and the newest values *)

(* Quiet is stated for the phases, PendingIsLatest for the walk. *)
Settled == Quiet /\ PendingIsLatest

LEMMA InitSettled == Init => Settled
BY DEF Init, Settled, Quiet, PendingIsLatest

LEMMA DeferredSettled ==
    ASSUME TypeOK, Settled, NEW k \in Kernels, NEW src \in Address,
           NEW dst \in Address, NEW keep \in BOOLEAN, Deferred(k, src, dst, keep)
    PROVE  Settled'
<1> DEFINE new == [id |-> n + 1, dst |-> dst, slot |-> <<k, nextSlot[k]>>]
<1>1. /\ phase = "walk" /\ cpuRun = {} /\ phase' = phase /\ cpuRun' = cpuRun
      /\ unwaited' = unwaited /\ src \in live /\ dst \notin live
      /\ live' = (IF keep THEN live ELSE live \ {src}) \cup {dst}
      /\ meaning' = [meaning EXCEPT ![dst] = n + 1]
  BY DEF Deferred, Step, Flushed
<1>2. \A e \in queue' : e = new \/ (e \in queue /\ e.dst # src)
  BY DEF Deferred, InputOwners, Producers
<1>3. new.dst = dst /\ new.id = n + 1
  OBVIOUS
<1> HIDE DEF new
<1>4. ASSUME ~unwaited, NEW e \in queue'
      PROVE  e.dst \in live' /\ meaning'[e.dst] = e.id
  <2>1. CASE e = new
    BY <1>1, <1>3, <2>1 DEF TypeOK
  <2>2. CASE e \in queue /\ e.dst # src
    BY <1>1, <1>4, <2>2 DEF Settled, PendingIsLatest, TypeOK
  <2> QED
    BY <1>2, <2>1, <2>2
<1> QED
  BY <1>1, <1>4 DEF Settled, Quiet, PendingIsLatest

LEMMA WaitingSettled ==
    ASSUME TypeOK, Settled, NEW src \in Address, NEW dst \in Address,
           NEW keep \in BOOLEAN, Waiting(src, dst, keep)
    PROVE  Settled'
<1>1. /\ phase = "walk" /\ cpuRun = {} /\ phase' = phase /\ cpuRun' = cpuRun
      /\ unwaited' = unwaited /\ src \in live /\ dst \notin live
      /\ live' = (IF keep THEN live ELSE live \ {src}) \cup {dst}
      /\ meaning' = [meaning EXCEPT ![dst] = n + 1]
  BY DEF Waiting, Step, Flushed
<1>2. \A e \in queue' : e \in queue /\ e.dst # src
  BY DEF Waiting, InputOwners, Producers
<1>3. ASSUME ~unwaited, NEW e \in queue'
      PROVE  e.dst \in live' /\ meaning'[e.dst] = e.id
  BY <1>1, <1>2, <1>3 DEF Settled, PendingIsLatest, TypeOK
<1> QED
  BY <1>1, <1>3 DEF Settled, Quiet, PendingIsLatest

(* An operation that does not wait may reuse the address of its input, but  *)
(* then the input is pending and the operation counts as unwaited.          *)
LEMMA PlainSettled ==
    ASSUME TypeOK, Settled, NEW src \in Address, NEW dst \in Address,
           NEW keep \in BOOLEAN, Plain(src, dst, keep)
    PROVE  Settled'
<1>1. /\ phase = "walk" /\ cpuRun = {} /\ phase' = phase /\ cpuRun' = cpuRun
      /\ queue' = queue /\ unwaited' = (unwaited \/ Pending(src))
      /\ dst \notin live \ {src}
      /\ live' = (IF keep THEN live ELSE live \ {src}) \cup {dst}
      /\ meaning' = [meaning EXCEPT ![dst] = n + 1]
  BY DEF Plain, Step, Flushed
<1>2. ASSUME ~unwaited', NEW e \in queue'
      PROVE  e.dst \in live' /\ meaning'[e.dst] = e.id
  <2>1. e \in queue /\ e.dst # src /\ ~unwaited
    BY <1>1, <1>2 DEF Pending
  <2> QED
    BY <1>1, <2>1 DEF Settled, PendingIsLatest, TypeOK
<1> QED
  BY <1>1, <1>2 DEF Settled, Quiet, PendingIsLatest

LEMMA NextSettled == TypeOK /\ Settled /\ [Next]_vars => Settled'
<1> SUFFICES ASSUME TypeOK, Settled, [Next]_vars PROVE Settled'
  OBVIOUS
<1>1. ASSUME NEW k \in Kernels, NEW src \in Address, NEW dst \in Address,
             NEW keep \in BOOLEAN, Deferred(k, src, dst, keep)
      PROVE  Settled'
  BY <1>1, DeferredSettled
<1>2. ASSUME NEW src \in Address, NEW dst \in Address, NEW keep \in BOOLEAN,
             Waiting(src, dst, keep) \/ Plain(src, dst, keep)
      PROVE  Settled'
  BY <1>2, WaitingSettled, PlainSettled
<1>3. ASSUME NEW src \in Address, NEW dst \in Address, NEW keep \in BOOLEAN,
             Collect(src, dst, keep)
      PROVE  Settled'
  BY <1>3 DEF Collect, Step, Settled, Quiet, PendingIsLatest
<1>4. CASE Delegate \/ Return
  BY <1>4 DEF Delegate, BeforeCpu, Return, Drain, Flushed, Settled, Quiet, PendingIsLatest
<1>5. CASE CpuNode
  BY <1>5 DEF CpuNode, Settled, Quiet, PendingIsLatest
<1>6. CASE CpuFails
  BY <1>6 DEF CpuFails, Settled, Quiet, PendingIsLatest
<1>7. CASE UNCHANGED vars
  BY <1>7 DEF vars, Settled, Quiet, PendingIsLatest
<1> QED
  BY <1>1, <1>2, <1>3, <1>4, <1>5, <1>6, <1>7 DEF Next

(* Deferred work never lands on a newer value. *)
THEOREM LatestTheorem == Spec => []PendingIsLatest
<1>1. Init => TypeOK /\ Settled
  BY InitTypes, InitSettled
<1>2. TypeOK /\ Settled /\ [Next]_vars => (TypeOK /\ Settled)'
  BY NextTypes, NextSettled
<1>3. Settled => PendingIsLatest
  BY DEF Settled
<1> QED
  BY <1>1, <1>2, <1>3, PTL DEF Spec

-----------------------------------------------------------------------------
(* What the nodes compute *)

LEMMA QueueIsEntries == TypeOK => queue \in SUBSET Entries
BY DEF TypeOK, Entries

LEMMA InitFaithful == Init => Faithful
BY DEF Init, Faithful, Single, Reads, Writers, DueIn

(* With no collected CPU nodes, what is read is what is due. *)
LEMMA ReadsDue ==
    ASSUME cpuRun = {}, NEW a, NEW i, NEW v
    PROVE  Reads(a, i, v) <=> DueIn(memory, queue, a, v)
BY DEF Reads, Writers

LEMMA DeferredFaithful ==
    ASSUME Inv, NEW k \in Kernels, NEW src \in Address, NEW dst \in Address,
           NEW keep \in BOOLEAN, Deferred(k, src, dst, keep), ~unwaited
    PROVE  Faithful'
<1> DEFINE s == <<k, nextSlot[k]>>
           done == SlotOwner(s) \cup InputOwners(src)
           early == After(memory, done, buffer)
           left == queue \ done
           more == Excess(left)
           new == [id |-> n + 1, dst |-> dst, slot |-> s]
<1>1. /\ cpuRun = {} /\ cpuRun' = {} /\ src \in live /\ dst \notin live
      /\ live' \subseteq live \cup {dst} /\ n \in Nat
      /\ \A a \in Address : meaning'[a] = IF a = dst THEN n + 1 ELSE meaning[a]
  BY DEF Inv, TypeOK, Deferred, Step, Flushed
<1>2. s \in AllSlots /\ \A e \in queue : e.slot \in AllSlots /\ e.dst \in live
  BY <1>1 DEF Inv, TypeOK, AllSlots, PendingIsLatest
<1>3. done \subseteq queue /\ more \subseteq left
  BY DEF Excess, Oldest, SlotOwner, InputOwners, Producers
<1>4. \A e \in left : e.slot # s /\ e.dst # src
  BY DEF Inv, RingIntact, SlotOwner, InputOwners, Producers
<1>5. /\ queue' = (left \ more) \cup {new}
      /\ memory' = After(early, more, buffer')
      /\ buffer' = [buffer EXCEPT ![s] = Computed(early, src)]
  BY <1>3 DEF Deferred
<1>6. new.slot = s /\ new.dst = dst /\ new.id = n + 1
  OBVIOUS
<1>7. queue \in SUBSET Entries /\ Single(queue, buffer) /\ buffer \in [AllSlots -> Int]
  BY QueueIsEntries DEF Inv, TypeOK, Faithful
<1>8. \A a \in live : DueIn(memory, queue, a, meaning[a])
  BY <1>1, ReadsDue DEF Inv, Faithful
<1>9. \A a \in live : DueIn(early, left, a, meaning[a])
  BY <1>3, <1>7, <1>8, CompletionKeepsDue DEF Inv, TypeOK
<1> HIDE DEF s, done, early, left, more, new
<1>10. Computed(early, src) = n + 1
  BY <1>1, <1>4, <1>9 DEF Computed, DueIn
<1>11. Single(left, buffer') /\ left \in SUBSET Entries
  <2>1. left \subseteq queue
    BY DEF left
  <2> QED
    BY <1>2, <1>4, <1>5, <1>7, <2>1 DEF Single
<1>12. \A a \in live : DueIn(memory', left \ more, a, meaning[a])
  BY <1>3, <1>5, <1>9, <1>11, CompletionKeepsDue DEF Inv, TypeOK
<1>13. Single(queue', buffer')
  <2>1. \A e \in left : e.dst # dst
    BY <1>1, <1>2 DEF left
  <2>2. buffer'[s] = n + 1
    BY <1>2, <1>5, <1>7, <1>10
  <2> QED
    BY <1>5, <1>6, <1>11, <2>1, <2>2 DEF Single
<1>14. \A a \in live' : DueIn(memory', queue', a, meaning'[a])
  <2>1. DueIn(memory', queue', dst, meaning'[dst])
    BY <1>1, <1>5, <1>6 DEF DueIn
  <2>2. ASSUME NEW a \in live, a # dst
        PROVE  DueIn(memory', queue', a, meaning'[a])
    <3>1. DueIn(memory', left \ more, a, meaning[a]) /\ meaning'[a] = meaning[a]
      BY <1>1, <1>12, <2>2 DEF Inv, TypeOK
    <3>2. \A e \in queue' : e.dst = a <=> e \in left \ more /\ e.dst = a
      BY <1>5, <1>6, <2>2
    <3>3. left \ more \subseteq queue'
      BY <1>5
    <3> QED
      BY <3>1, <3>2, <3>3 DEF DueIn
  <2> QED
    BY <1>1, <2>1, <2>2
<1> QED
  BY <1>1, <1>13, <1>14 DEF Faithful, Reads, Writers

LEMMA WaitingFaithful ==
    ASSUME Inv, NEW src \in Address, NEW dst \in Address, NEW keep \in BOOLEAN,
           Waiting(src, dst, keep), ~unwaited
    PROVE  Faithful'
<1> DEFINE done == InputOwners(src)
           early == After(memory, done, buffer)
<1>1. /\ cpuRun = {} /\ cpuRun' = {} /\ src \in live /\ dst \notin live
      /\ live' \subseteq live \cup {dst} /\ n \in Nat
      /\ \A a \in Address : meaning'[a] = IF a = dst THEN n + 1 ELSE meaning[a]
  BY DEF Inv, TypeOK, Waiting, Step, Flushed
<1>2. \A e \in queue : e.dst \in live
  BY <1>1 DEF Inv, PendingIsLatest
<1>3. done \subseteq queue /\ \A e \in queue \ done : e.dst # src
  BY DEF InputOwners, Producers
<1>4. /\ queue' = queue \ done /\ buffer' = buffer
      /\ memory' = [early EXCEPT ![dst] = Computed(early, src)]
  BY DEF Waiting
<1>5. queue \in SUBSET Entries /\ Single(queue, buffer)
  BY QueueIsEntries DEF Inv, Faithful
<1>6. \A a \in live : DueIn(memory, queue, a, meaning[a])
  BY <1>1, ReadsDue DEF Inv, Faithful
<1>7. \A a \in live : DueIn(early, queue \ done, a, meaning[a])
  BY <1>3, <1>5, <1>6, CompletionKeepsDue DEF Inv, TypeOK
<1>8. early = [a \in Address |-> early[a]]
  BY AfterIsFunction
<1> HIDE DEF done, early
<1>9. Computed(early, src) = n + 1
  BY <1>1, <1>3, <1>7 DEF Computed, DueIn
<1>10. \A a \in live' : DueIn(memory', queue', a, meaning'[a])
  <2>1. \A a \in Address : memory'[a] = IF a = dst THEN n + 1 ELSE early[a]
    BY <1>4, <1>8, <1>9
  <2>2. DueIn(memory', queue', dst, meaning'[dst])
    BY <1>1, <1>2, <1>4, <2>1 DEF DueIn
  <2>3. ASSUME NEW a \in live, a # dst
        PROVE  DueIn(memory', queue', a, meaning'[a])
    BY <1>1, <1>4, <1>7, <2>1, <2>3 DEF DueIn, Inv, TypeOK
  <2> QED
    BY <1>1, <2>2, <2>3
<1>11. Single(queue', buffer')
  BY <1>4, <1>5 DEF Single
<1> QED
  BY <1>1, <1>10, <1>11 DEF Faithful, Reads, Writers

LEMMA PlainFaithful ==
    ASSUME Inv, NEW src \in Address, NEW dst \in Address, NEW keep \in BOOLEAN,
           Plain(src, dst, keep), ~unwaited'
    PROVE  Faithful'
<1>1. /\ cpuRun = {} /\ cpuRun' = {} /\ src \in live /\ dst \notin live \ {src}
      /\ live' = (IF keep THEN live ELSE live \ {src}) \cup {dst} /\ n \in Nat
      /\ \A a \in Address : meaning'[a] = IF a = dst THEN n + 1 ELSE meaning[a]
  BY DEF Inv, TypeOK, Plain, Step, Flushed
<1>2. /\ queue' = queue /\ buffer' = buffer /\ ~unwaited
      /\ memory' = [memory EXCEPT ![dst] = Computed(memory, src)]
      /\ \A e \in queue : e.dst # src
  BY DEF Plain, ring, Pending
<1>3. \A e \in queue : e.dst \in live
  BY <1>1, <1>2 DEF Inv, PendingIsLatest
<1>4. \A a \in live : DueIn(memory, queue, a, meaning[a])
  BY <1>1, <1>2, ReadsDue DEF Inv, Faithful
<1>5. Computed(memory, src) = n + 1
  BY <1>1, <1>2, <1>4 DEF Computed, DueIn
<1>6. \A a \in Address : memory'[a] = IF a = dst THEN n + 1 ELSE memory[a]
  BY <1>2, <1>5 DEF Inv, TypeOK
<1>7. DueIn(memory', queue', dst, meaning'[dst])
  BY <1>1, <1>2, <1>3, <1>6 DEF DueIn
<1>8. ASSUME NEW a \in live, a # dst
      PROVE  DueIn(memory', queue', a, meaning'[a])
  BY <1>1, <1>2, <1>4, <1>6, <1>8 DEF DueIn, Inv, TypeOK
<1>9. Single(queue', buffer')
  BY <1>2 DEF Inv, Faithful
<1> QED
  BY <1>1, <1>7, <1>8, <1>9 DEF Faithful, Reads, Writers

(* A collected node reads what the nodes before it will have written. *)
LEMMA CollectFaithful ==
    ASSUME Inv, NEW src \in Address, NEW dst \in Address, NEW keep \in BOOLEAN,
           Collect(src, dst, keep), ~unwaited
    PROVE  Faithful'
<1> DEFINE new == [id |-> n + 1, src |-> src, dst |-> dst, read |-> meaning[src]]
<1>1. /\ src \in live /\ n' = n + 1 /\ n \in Nat /\ live \subseteq Address
      /\ live' \subseteq live \cup {dst}
      /\ \A a \in Address : meaning'[a] = IF a = dst THEN n + 1 ELSE meaning[a]
      /\ \A c \in cpuRun : c.id \in 1 .. n
  BY DEF Inv, TypeOK, Collect, Step
<1>2. /\ cpuRun' = cpuRun \cup {new} /\ queue' = queue /\ memory' = memory
      /\ buffer' = buffer
  BY DEF Collect, ring
<1>3. new.id = n + 1 /\ new.src = src /\ new.dst = dst /\ new.read = meaning[src]
  OBVIOUS
<1> HIDE DEF new
<1>4. ASSUME NEW a, NEW i \in Int, i <= n + 1
      PROVE  Writers(a, i)' = Writers(a, i)
  BY <1>1, <1>2, <1>3, <1>4 DEF Writers
<1>5. ASSUME NEW a, NEW i \in Int, i <= n + 1, NEW v, Reads(a, i, v)
      PROVE  Reads(a, i, v)'
  BY <1>2, <1>4, <1>5 DEF Reads
<1>6. ASSUME NEW c \in cpuRun'
      PROVE  Reads(c.src, c.id, c.read)'
  <2>1. CASE c \in cpuRun
    BY <1>1, <1>5, <2>1 DEF Inv, Faithful
  <2>2. CASE c = new
    <3>1. Reads(c.src, c.id, c.read)
      BY <1>1, <1>3, <2>2 DEF Inv, Faithful
    <3> QED
      BY <1>1, <1>3, <1>5, <2>2, <3>1
  <2> QED
    BY <1>2, <2>1, <2>2
<1>7. ASSUME NEW a \in live', NEW i \in Int, i = n' + 1, NEW v, v = meaning'[a]
      PROVE  Reads(a, i, v)'
  <2>1. CASE a = dst
    <3>1. new \in Writers(a, i)' /\ new.id = v
      BY <1>1, <1>2, <1>3, <1>7, <2>1 DEF Writers
    <3>2. \A f \in Writers(a, i)' : f.id <= new.id
      BY <1>1, <1>2, <1>3 DEF Writers
    <3> QED
      BY <3>1, <3>2 DEF Reads
  <2>2. CASE a # dst
    <3>1. a \in live /\ v = meaning[a]
      BY <1>1, <1>7, <2>2
    <3>2. Reads(a, n + 1, v)
      BY <3>1 DEF Inv, Faithful
    <3>3. Writers(a, i)' = Writers(a, n + 1)
      BY <1>1, <1>2, <1>3, <1>7, <2>2 DEF Writers
    <3> QED
      BY <1>2, <3>2, <3>3 DEF Reads
  <2> QED
    BY <2>1, <2>2
<1>8. \A a \in live' : Reads(a, n + 1, meaning[a])'
  <2> SUFFICES ASSUME NEW a \in live' PROVE Reads(a, n + 1, meaning[a])'
    OBVIOUS
  <2>1. PICK i : i = n' + 1
    OBVIOUS
  <2>2. PICK v : v = meaning'[a]
    OBVIOUS
  <2>3. i \in Int
    BY <1>1, <2>1
  <2>4. Reads(a, i, v)'
    BY <1>7, <2>1, <2>2, <2>3
  <2> QED
    BY <2>1, <2>2, <2>4 DEF Reads, Writers
<1>9. \A c, d \in cpuRun' : c.id = d.id => c = d
  BY <1>1, <1>2, <1>3 DEF Inv, Faithful
<1>10. Single(queue', buffer')
  BY <1>2 DEF Inv, Faithful
<1> QED
  BY <1>6, <1>8, <1>9, <1>10 DEF Faithful

(* The CPU starts, or graph_compute returns, when all that was pending is   *)
(* done.                                                                    *)
LEMMA DrainFaithful ==
    ASSUME Inv, ~unwaited, Drain, UNCHANGED <<n, cpuRun, meaning, live>>
    PROVE  Faithful'
<1>1. /\ memory' = After(memory, queue, buffer) /\ queue' = {} /\ buffer' = buffer
      /\ queue \in SUBSET Entries /\ Single(queue, buffer)
  BY QueueIsEntries DEF Drain, Inv, Faithful
<1>2. ASSUME NEW a \in Address, NEW i, NEW v, Reads(a, i, v)
      PROVE  Reads(a, i, v)'
  <2>1. Writers(a, i)' = Writers(a, i)
    BY DEF Writers
  <2>2. DueIn(memory', queue \ queue, a, v) <=> DueIn(memory, queue, a, v)
    BY <1>1, CompletionKeepsDue
  <2>3. queue \ queue = {}
    OBVIOUS
  <2> QED
    BY <1>1, <1>2, <2>1, <2>2, <2>3 DEF Reads
<1>3. \A c \in cpuRun' : Reads(c.src, c.id, c.read)'
  BY <1>2 DEF Inv, TypeOK, Faithful
<1>4. \A a \in live' : Reads(a, n + 1, meaning[a])'
  <2> SUFFICES ASSUME NEW a \in live' PROVE Reads(a, n + 1, meaning[a])'
    OBVIOUS
  <2>1. PICK i : i = n + 1
    OBVIOUS
  <2>2. PICK v : v = meaning[a]
    OBVIOUS
  <2>3. Reads(a, i, v) /\ a \in Address
    BY <2>1, <2>2 DEF Inv, Faithful, TypeOK
  <2>4. Reads(a, i, v)'
    BY <1>2, <2>3
  <2> QED
    BY <2>1, <2>2, <2>4 DEF Reads, Writers
<1> QED
  BY <1>1, <1>3, <1>4 DEF Faithful, Single, Inv

(* The first of the collected nodes finds what it should read. *)
LEMMA CpuNodeFaithful ==
    ASSUME Inv, ~unwaited, CpuNode
    PROVE  Faithful'
<1>1. PICK c \in cpuRun :
        /\ \A d \in cpuRun : c.id <= d.id
        /\ memory' = [memory EXCEPT ![c.dst] =
                        IF memory[c.src] = c.read THEN c.id ELSE Wrong]
        /\ cpuRun' = cpuRun \ {c}
        /\ phase = "cpu"
  BY DEF CpuNode
<1>2. UNCHANGED <<n, queue, buffer, meaning, live>>
  BY DEF CpuNode, ring
<1>3. queue = {} /\ queue' = {}
  BY <1>1, <1>2 DEF Inv, Quiet
<1>4. /\ c.id \in Int /\ c.src \in Address /\ c.dst \in Address /\ n \in Nat
      /\ live \subseteq Address /\ c.id < n + 1
      /\ \A d \in cpuRun : d.id \in Int /\ d.src \in Address
  BY DEF Inv, TypeOK
<1>5. Writers(c.src, c.id) = {}
  BY <1>1, <1>4 DEF Writers
<1>6. memory[c.src] = c.read
  <2>1. Reads(c.src, c.id, c.read)
    BY DEF Inv, Faithful
  <2> QED
    BY <1>3, <1>5, <2>1 DEF Reads, DueIn
<1>7. \A a \in Address : memory'[a] = IF a = c.dst THEN c.id ELSE memory[a]
  BY <1>1, <1>6 DEF Inv, TypeOK
<1>8. \A d \in cpuRun' : c.id < d.id
  BY <1>1, <1>4 DEF Inv, Faithful
<1>9. ASSUME NEW a \in Address, NEW i \in Int, NEW v, Reads(a, i, v), c.id < i
      PROVE  Reads(a, i, v)'
  <2>1. Writers(a, i)' = Writers(a, i) \ {c}
    BY <1>1 DEF Writers
  <2>2. CASE Writers(a, i)' = {} /\ a = c.dst
    <3>1. c \in Writers(a, i)
      BY <1>9, <2>2 DEF Writers
    <3>2. v = c.id
      BY <2>1, <2>2, <1>9, <3>1 DEF Reads
    <3> QED
      BY <1>3, <1>7, <2>2, <3>2 DEF Reads, DueIn
  <2>3. CASE Writers(a, i)' = {} /\ a # c.dst
    <3>1. Writers(a, i) = {}
      BY <2>1, <2>3 DEF Writers
    <3>2. memory[a] = v
      BY <1>3, <1>9, <3>1 DEF Reads, DueIn
    <3> QED
      BY <1>3, <1>7, <2>3, <3>2 DEF Reads, DueIn
  <2>4. CASE Writers(a, i)' # {}
    <3>1. PICK g \in Writers(a, i)' : TRUE
      BY <2>4
    <3>2. PICK d \in Writers(a, i) : d.id = v /\ \A f \in Writers(a, i) : f.id <= d.id
      BY <1>9, <2>1, <3>1 DEF Reads
    <3>3. g \in cpuRun' /\ g \in Writers(a, i)
      BY <2>1, <3>1 DEF Writers
    <3>4. d # c
      BY <1>4, <1>8, <3>2, <3>3, <1>1
    <3> QED
      BY <2>1, <3>2, <3>4 DEF Reads
  <2> QED
    BY <2>2, <2>3, <2>4
<1>10. \A d \in cpuRun' : Reads(d.src, d.id, d.read)'
  BY <1>1, <1>4, <1>8, <1>9 DEF Inv, Faithful
<1>11. \A a \in live' : Reads(a, n + 1, meaning[a])'
  <2> SUFFICES ASSUME NEW a \in live' PROVE Reads(a, n + 1, meaning[a])'
    OBVIOUS
  <2>1. PICK i : i = n + 1
    OBVIOUS
  <2>2. PICK v : v = meaning[a]
    OBVIOUS
  <2>3. Reads(a, i, v) /\ a \in Address /\ i \in Int /\ c.id < i
    BY <1>2, <1>4, <2>1, <2>2 DEF Inv, Faithful
  <2>4. Reads(a, i, v)'
    BY <1>9, <2>3
  <2> QED
    BY <1>2, <2>1, <2>2, <2>4 DEF Reads, Writers
<1> QED
  BY <1>1, <1>2, <1>3, <1>10, <1>11 DEF Faithful, Single, Inv

LEMMA NextInv == Inv /\ [Next]_vars => Inv'
<1> SUFFICES ASSUME Inv, [Next]_vars PROVE Inv'
  OBVIOUS
<1>1. TypeOK' /\ RingIntact' /\ Settled'
  BY NextTypes, NextRing, NextSettled DEF Inv, Settled
<1> SUFFICES ASSUME ~unwaited' PROVE Faithful'
  BY <1>1 DEF Inv, Settled
<1>2. ~unwaited
  <2>1. ASSUME NEW src \in Address, NEW dst \in Address, NEW keep \in BOOLEAN,
               Plain(src, dst, keep)
        PROVE  ~unwaited
    BY <2>1 DEF Plain
  <2>2. ASSUME unwaited' = unwaited
        PROVE  ~unwaited
    BY <2>2
  <2>3. ASSUME NEW src \in Address, NEW dst \in Address, NEW keep \in BOOLEAN,
               \/ \E k \in Kernels : Deferred(k, src, dst, keep)
               \/ Waiting(src, dst, keep) \/ Collect(src, dst, keep)
        PROVE  unwaited' = unwaited
    BY <2>3 DEF Deferred, Waiting, Collect
  <2>4. ASSUME Delegate \/ CpuNode \/ CpuFails \/ Return \/ UNCHANGED vars
        PROVE  unwaited' = unwaited
    BY <2>4 DEF Delegate, CpuNode, CpuFails, Return, vars
  <2> QED
    BY <2>1, <2>2, <2>3, <2>4 DEF Next
<1>3. ASSUME NEW k \in Kernels, NEW src \in Address, NEW dst \in Address,
             NEW keep \in BOOLEAN, Deferred(k, src, dst, keep)
      PROVE  Faithful'
  BY <1>2, <1>3, DeferredFaithful
<1>4. ASSUME NEW src \in Address, NEW dst \in Address, NEW keep \in BOOLEAN,
             Waiting(src, dst, keep) \/ Plain(src, dst, keep) \/ Collect(src, dst, keep)
      PROVE  Faithful'
  BY <1>2, <1>4, WaitingFaithful, PlainFaithful, CollectFaithful
<1>5. CASE Delegate \/ Return
  BY <1>2, <1>5, DrainFaithful DEF Delegate, BeforeCpu, Return
<1>6. CASE CpuNode
  BY <1>2, <1>6, CpuNodeFaithful
<1>7. CASE CpuFails \/ UNCHANGED vars
  BY <1>2, <1>7 DEF CpuFails, vars, ring, Inv, Faithful, Single, Reads, Writers
<1> QED
  BY <1>3, <1>4, <1>5, <1>6, <1>7 DEF Next

(* When graph_compute returns nothing is pending, and if every operation    *)
(* has waited for what it reads, every live tensor has its value.           *)
THEOREM GraphTheorem == Spec => []GraphIsValid
<1>1. Init => Inv
  BY InitTypes, InitRing, InitSettled, InitFaithful DEF Inv, Settled
<1>2. Inv => GraphIsValid
  <2> SUFFICES ASSUME Inv PROVE GraphIsValid
    OBVIOUS
  <2>1. phase \in {"returned", "failed"} => queue = {}
    BY DEF Inv, Quiet
  <2>2. ASSUME phase = "returned", ~unwaited, NEW a \in live
        PROVE  memory[a] = meaning[a]
    <3>1. cpuRun = {} /\ queue = {}
      BY <2>2 DEF Inv, Quiet
    <3>2. Reads(a, n + 1, meaning[a])
      BY <2>2 DEF Inv, Faithful
    <3> QED
      BY <3>1, <3>2 DEF Reads, Writers, DueIn
  <2> QED
    BY <2>1, <2>2 DEF GraphIsValid
<1> QED
  BY <1>1, <1>2, NextInv, PTL DEF Spec

(* Every variable keeps its type. *)
THEOREM TypeCorrect == Spec => []TypeOK
<1>1. Init => Inv
  BY InitTypes, InitRing, InitSettled, InitFaithful DEF Inv, Settled
<1>2. Inv => TypeOK
  BY DEF Inv
<1> QED
  BY <1>1, <1>2, NextInv, PTL DEF Spec

=============================================================================
