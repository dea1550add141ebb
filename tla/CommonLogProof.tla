--------------------------- MODULE CommonLogProof ---------------------------
(***************************************************************************)
(* Proofs about CommonLog, for every capacity of the ring: nothing that is *)
(* logged is lost, duplicated or reordered while the log runs, and all of  *)
(* it is printed when pause() returns.                                     *)
(***************************************************************************)
EXTENDS CommonLog, SequenceTheorems, TLAPS

\* Positions of the ring without division.
Wrap(i)  == IF i < size THEN i ELSE i - size
UsedSlots == IF tail >= head THEN tail - head ELSE tail + size - head

\* a % n for an a below 2n.
LEMMA ModuloWrap ==
    ASSUME NEW n \in Nat \ {0}, NEW a \in 0 .. 2 * n - 1
    PROVE  a % n = IF a < n THEN a ELSE a - n
  <1> DEFINE q == a \div n
             r == a % n
  <1>1. q \in Int /\ r \in 0 .. n - 1 /\ a = n * q + r
    OBVIOUS
  <1> HIDE DEF q, r
  <1>2. q = 0 \/ q = 1
    <2>1. CASE q >= 2
      <3>1. n * q >= n * 2
        BY <1>1, <2>1
      <3> QED BY <1>1, <3>1
    <2>2. CASE q <= 0 - 1
      <3>1. n * q <= n * (0 - 1)
        BY <1>1, <2>2
      <3> QED BY <1>1, <3>1
    <2> QED BY <1>1, <2>1, <2>2
  <1>3. a % n = r
    BY DEF r
  <1> QED BY <1>1, <1>2, <1>3

LEMMA SuccIs ==
    ASSUME TypeOK, NEW i \in 0 .. size - 1
    PROVE  /\ Succ(i) = IF i + 1 = size THEN 0 ELSE i + 1
           /\ Succ(i) \in 0 .. size - 1
  <1> DEFINE a == i + 1
  <1>1. size \in Nat \ {0} /\ a \in 0 .. 2 * size - 1 /\ i \in Int
    BY DEF TypeOK
  <1> HIDE DEF a
  <1>2. a % size = IF a < size THEN a ELSE a - size
    BY <1>1, ModuloWrap
  <1> QED BY <1>1, <1>2 DEF Succ, a

\* Moved() copies from positions that Wrap() gives.
LEMMA WrapIs ==
    ASSUME TypeOK, NEW i \in 0 .. size - 1
    PROVE  /\ (head + i) % size = Wrap(head + i)
           /\ Wrap(head + i) \in 0 .. size - 1
  <1> DEFINE a == head + i
  <1>1. size \in Nat \ {0} /\ head \in 0 .. size - 1 /\ a \in 0 .. 2 * size - 1
    BY DEF TypeOK
  <1> HIDE DEF a
  <1>2. a % size = IF a < size THEN a ELSE a - size
    BY <1>1, ModuloWrap
  <1> QED BY <1>1, <1>2 DEF Wrap, a

LEMMA UsedIs == ASSUME TypeOK PROVE Used = UsedSlots /\ Used \in 0 .. size - 1
  <1> DEFINE a == tail + size - head
  <1>1. /\ size \in Nat \ {0} /\ a \in 0 .. 2 * size - 1
        /\ head \in 0 .. size - 1 /\ tail \in 0 .. size - 1
    BY DEF TypeOK
  <1> HIDE DEF a
  <1>2. a % size = IF a < size THEN a ELSE a - size
    BY <1>1, ModuloWrap
  <1> QED BY <1>1, <1>2 DEF Used, UsedSlots, a

-----------------------------------------------------------------------------
Held == IF worker = "print" THEN 1 ELSE 0

\* The first m entries of the ring are messages, and with the one that the
\* worker holds they are what was accepted and is not printed yet; all of that
\* is for the file that is open.
Holds(m) ==
    /\ Len(accepted) = Len(printed) + Held + m
    /\ \A i \in 1 .. Len(printed) : printed[i] = accepted[i]
    /\ worker = "print" => cur.msg = accepted[Len(printed) + 1]
    /\ \A i \in 0 .. m - 1 :
          /\ entries[Wrap(head + i)].msg = accepted[Len(printed) + Held + i + 1]
          /\ ~entries[Wrap(head + i)].is_end
    /\ \A i \in Len(printed) + 1 .. Len(accepted) : accepted[i].file = file

Logging == running /\ caller = "out" /\ worker \in {"wait", "print"} /\ Holds(UsedSlots)

Paused == ~running /\ caller \in {"out", "resume"} /\ worker = "none"
          /\ head = tail /\ printed = accepted

\* pause() waits for the worker, which has the messages and the end marker
\* before it, or has ended, or sees a ring that pause() has made look empty.
Stopping ==
    /\ ~running
    /\ caller \in {"pause", "flush", "file"}
    /\ \/ /\ worker \in {"wait", "print"}
          /\ head # tail
          /\ Holds(UsedSlots - 1)
          /\ entries[Wrap(head + UsedSlots - 1)].is_end
       \/ worker = "ended" /\ head = tail /\ printed = accepted
       \/ worker \in {"wait", "print"} /\ head = tail
          /\ (worker = "print" => cur.msg \in Messages /\ cur.msg.file = file)

IInv == TypeOK /\ (Logging \/ Paused \/ Stopping)

LEMMA InitInv == ASSUME CapacityOK, Init PROVE IInv
  <1>1. TypeOK
    BY DEF CapacityOK, Init, TypeOK, Entries, Blank
  <1>2. Logging
    BY <1>1 DEF CapacityOK, Init, Logging, Holds, UsedSlots, Held
  <1> QED BY <1>1, <1>2 DEF IInv

\* The used positions of the ring go from head up to tail.
LEMMA Geometry ==
    ASSUME TypeOK
    PROVE  /\ UsedSlots \in 0 .. size - 1
           /\ UsedSlots = 0 <=> head = tail
           /\ Wrap(head + UsedSlots) = tail
           /\ \A i \in 0 .. UsedSlots - 1 :
                 Wrap(head + i) \in 0 .. size - 1 /\ Wrap(head + i) # tail
           /\ Succ(tail) = head <=> UsedSlots = size - 1
           /\ UsedSlots > 0 => Wrap(head) = head
  <1>1. /\ size \in Nat \ {0} /\ head \in 0 .. size - 1 /\ tail \in 0 .. size - 1
        /\ Succ(tail) = IF tail + 1 = size THEN 0 ELSE tail + 1
    BY SuccIs DEF TypeOK
  <1> QED BY <1>1 DEF UsedSlots, Wrap

\* Writing at tail and advancing it, in a ring with room.
LEMMA Advance ==
    ASSUME TypeOK, Succ(tail) # head, tail' = Succ(tail), size' = size, head' = head
    PROVE  /\ UsedSlots' = UsedSlots + 1
           /\ tail' \in 0 .. size - 1
           /\ \A i \in Int : (Wrap(i))' = Wrap(i)
  <1>1. /\ size \in Nat \ {0} /\ head \in 0 .. size - 1 /\ tail \in 0 .. size - 1
        /\ Succ(tail) = IF tail + 1 = size THEN 0 ELSE tail + 1
    BY SuccIs DEF TypeOK
  <1> QED BY <1>1 DEF UsedSlots, Wrap

\* What the invariant says of the message that add() is about to append.
LEMMA AddStep == ASSUME IInv, Add PROVE IInv'
  <1> DEFINE m == [call |-> calls + 1, file |-> file]
             e == [entries EXCEPT ![tail] = Logged(m)]
  <1>1. TypeOK /\ Logging
    BY DEF IInv, Add, Paused, Stopping
  <1>2. /\ m \in Messages /\ calls' = calls + 1 /\ calls' \in 0 .. MaxCalls
        /\ accepted' = Append(accepted, m)
        /\ UNCHANGED <<running, file, worker, cur, caller, printed>>
    <2>1. calls < MaxCalls /\ calls' = calls + 1 /\ accepted' = Append(accepted, m)
          /\ UNCHANGED <<running, file, worker, cur, caller, printed>>
      BY DEF Add
    <2> HIDE DEF m, e
    <2>2. calls \in Nat /\ calls + 1 \in 1 .. MaxCalls /\ file \in 0 .. MaxFiles
      BY <1>1, <2>1, CapacityOK DEF TypeOK
    <2>3. m \in Messages
      BY <2>2 DEF m, Messages
    <2> QED BY <2>1, <2>2, <2>3
  <1>3. /\ accepted' \in Seq(Messages) /\ Len(accepted') = Len(accepted) + 1
        /\ \A i \in 1 .. Len(accepted) : accepted'[i] = accepted[i]
        /\ accepted'[Len(accepted) + 1] = m
    BY <1>1, <1>2, AppendProperties DEF TypeOK
  <1>4. /\ e \in [0 .. size - 1 -> Entries]
        /\ e[tail] = [msg |-> m, is_end |-> FALSE]
        /\ \A i \in 0 .. size - 1 : i # tail => e[i] = entries[i]
    BY <1>1, <1>2 DEF TypeOK, Logged, Entries
  <1> HIDE DEF m, e
  <1>5. /\ Len(accepted) \in Nat /\ Len(printed) \in Nat /\ Held \in {0, 1} /\ Held' = Held
    BY <1>1, <1>2 DEF TypeOK, Held
  <1>6. m.file = file
    BY DEF m
  \* What the first UsedSlots + 1 entries after the step must be.
  <1>7. ASSUME TypeOK', UsedSlots' = UsedSlots + 1,
               \A i \in 0 .. UsedSlots : (entries[Wrap(head + i)])' = e[Wrap(head + i)]
        PROVE  IInv'
    <2>1. \A i \in 0 .. UsedSlots - 1 :
             /\ (entries[Wrap(head + i)])' = entries[Wrap(head + i)]
      BY <1>1, <1>4, <1>7, Geometry
    <2>2. PICK u \in Nat : u = UsedSlots /\ u \in 0 .. u /\ Wrap(head + u) = tail
      BY <1>1, Geometry
    <2>3. (entries[Wrap(head + u)])' = [msg |-> m, is_end |-> FALSE]
      <3>1. (entries[Wrap(head + u)])' = e[Wrap(head + u)]
        BY <1>7, <2>2
      <3> QED BY <1>4, <2>2, <3>1
    <2>4. Len(accepted') = Len(printed') + Held' + UsedSlots'
      BY <1>1, <1>2, <1>3, <1>5, <1>7, <2>2 DEF Logging, Holds
    <2>5. \A i \in 1 .. Len(printed') : printed'[i] = accepted'[i]
      BY <1>1, <1>2, <1>3, <1>5, <2>2 DEF Logging, Holds
    <2>6. worker' = "print" => cur'.msg = accepted'[Len(printed') + 1]
      BY <1>1, <1>2, <1>3, <1>5, <2>2 DEF Logging, Holds, Held
    <2>7. \A i \in 0 .. UsedSlots' - 1 :
             /\ (entries[Wrap(head + i)])'.msg = accepted'[Len(printed') + Held' + i + 1]
             /\ ~(entries[Wrap(head + i)])'.is_end
      <3> TAKE i \in 0 .. UsedSlots' - 1
      <3>1. CASE i = u
        <4>1. Len(printed') + Held' + i + 1 = Len(accepted) + 1
          BY <1>1, <1>2, <1>5, <2>2, <3>1 DEF Logging, Holds
        <4>2. (entries[Wrap(head + i)])' = [msg |-> m, is_end |-> FALSE]
          BY <2>2, <2>3, <3>1
        <4> QED BY <1>3, <4>1, <4>2
      <3>2. CASE i < u
        <4>1. i \in 0 .. UsedSlots - 1
          BY <1>7, <2>2, <3>2
        <4>2. Len(printed) + Held + i + 1 \in 1 .. Len(accepted)
          BY <1>1, <1>5, <2>2, <4>1 DEF Logging, Holds
        <4> QED BY <1>1, <1>2, <1>3, <1>5, <2>1, <4>1, <4>2 DEF Logging, Holds
      <3> QED BY <1>7, <2>2, <3>1, <3>2
    <2>8. \A i \in Len(printed') + 1 .. Len(accepted') : accepted'[i].file = file'
      BY <1>1, <1>2, <1>3, <1>5, <1>6, <2>2 DEF Logging, Holds
    <2> QED BY <1>1, <1>2, <1>7, <2>4, <2>5, <2>6, <2>7, <2>8 DEF IInv, Logging, Holds
  <1>8. CASE Succ(tail) # head
    <2>1. entries' = e /\ tail' = Succ(tail) /\ size' = size /\ head' = head
      BY <1>8 DEF Add, m, e
    <2>2. UsedSlots' = UsedSlots + 1 /\ tail' \in 0 .. size - 1
      BY <1>1, <1>8, <2>1, Advance
    <2>3. TypeOK'
      BY <1>1, <1>2, <1>3, <1>4, <2>1, <2>2 DEF TypeOK
    <2>4. \A i \in 0 .. UsedSlots : (entries[Wrap(head + i)])' = e[Wrap(head + i)]
      BY <2>1 DEF Wrap
    <2> QED BY <1>7, <2>2, <2>3, <2>4
  <1>9. CASE Succ(tail) = head
    <2>1. entries' = Moved(e) /\ tail' = size /\ size' = 2 * size /\ head' = 0
      BY <1>9 DEF Add, Grow, m, e
    <2>2. UsedSlots = size - 1 /\ size \in Nat \ {0}
      BY <1>1, <1>9, Geometry DEF TypeOK
    <2>3. \A i \in 0 .. size - 1 : Moved(e)[i] = e[Wrap(head + i)]
      BY <1>1, <2>2, WrapIs DEF Moved
    <2>4. Moved(e) \in [0 .. 2 * size - 1 -> Entries]
      <3>1. ASSUME NEW i \in 0 .. size - 1 PROVE e[(head + i) % size] \in Entries
        BY <1>1, <1>4, WrapIs
      <3>2. Blank \in Entries
        BY DEF Blank, Entries
      <3> QED BY <2>2, <3>1, <3>2 DEF Moved
    <2>5. TypeOK'
      BY <1>1, <1>2, <1>3, <2>1, <2>2, <2>4 DEF TypeOK
    <2>6. UsedSlots' = UsedSlots + 1
      BY <2>1, <2>2 DEF UsedSlots
    <2>7. \A i \in 0 .. UsedSlots : (entries[Wrap(head + i)])' = e[Wrap(head + i)]
      BY <2>1, <2>2, <2>3 DEF Wrap
    <2> QED BY <1>7, <2>5, <2>6, <2>7
  <1> QED BY <1>8, <1>9

LEMMA TakeStep == ASSUME IInv, Take PROVE IInv'
  <1>1. /\ TypeOK
        /\ worker = "wait" /\ head # tail
        /\ cur' = entries[head] /\ head' = Succ(head)
        /\ worker' = IF entries[head].is_end THEN "ended" ELSE "print"
        /\ UNCHANGED <<size, entries, tail, running, file, caller, calls, accepted, printed>>
    BY DEF IInv, Take, history
  <1>2. PICK u \in Nat \ {0} : u = UsedSlots /\ Wrap(head) = head /\ Wrap(head + 0) = head
    BY <1>1, Geometry DEF TypeOK
  <1>3. /\ UsedSlots' = u - 1 /\ head' \in 0 .. size - 1
        /\ \A i \in 0 .. u - 2 : (Wrap(head + i))' = Wrap(head + i + 1)
        /\ head' = tail' <=> u = 1
    <2>1. /\ size \in Nat \ {0} /\ head \in 0 .. size - 1 /\ tail \in 0 .. size - 1
          /\ Succ(head) = IF head + 1 = size THEN 0 ELSE head + 1
      BY <1>1, SuccIs DEF TypeOK
    <2> QED BY <1>1, <1>2, <2>1 DEF UsedSlots, Wrap
  <1>4. TypeOK'
    <2>1. entries[head] \in Entries
      BY <1>1 DEF TypeOK
    <2> QED BY <1>1, <1>3, <2>1 DEF TypeOK
  <1>5. Len(accepted) \in Nat /\ Len(printed) \in Nat /\ Held = 0
    BY <1>1 DEF TypeOK, Held
  \* The first of n messages of the ring goes to the worker's hands.
  <1>6. ASSUME NEW n \in Nat \ {0}, n <= u, Holds(n)
        PROVE  worker' = "print" /\ Holds(n - 1)'
    <2>1. ~entries[head].is_end /\ entries[head].msg = accepted[Len(printed) + 1]
      BY <1>2, <1>5, <1>6 DEF Holds
    <2>2. worker' = "print" /\ Held' = 1
      BY <1>1, <2>1 DEF Held
    <2>3. ASSUME NEW i \in 0 .. n - 2
          PROVE  /\ (entries[Wrap(head + i)])'.msg = accepted'[Len(printed') + Held' + i + 1]
                 /\ ~(entries[Wrap(head + i)])'.is_end
      <3>1. i \in 0 .. u - 2 /\ i + 1 \in 0 .. n - 1 /\ head + i + 1 = head + (i + 1)
        BY <1>1, <1>6 DEF TypeOK
      <3>2. (entries[Wrap(head + i)])' = entries[Wrap(head + (i + 1))]
        BY <1>1, <1>3, <3>1
      <3>3. Len(printed) + Held + (i + 1) + 1 = Len(printed') + Held' + i + 1
        BY <1>1, <1>5, <2>2
      <3> QED BY <1>1, <1>6, <3>1, <3>2, <3>3 DEF Holds
    <2> QED BY <1>1, <1>5, <1>6, <2>1, <2>2, <2>3 DEF Holds
  <1>7. CASE Logging
    BY <1>1, <1>2, <1>3, <1>4, <1>6, <1>7 DEF IInv, Logging
  <1>8. CASE Stopping
    <2>1. Holds(u - 1) /\ entries[Wrap(head + (u - 1))].is_end
      BY <1>1, <1>2, <1>8 DEF Stopping
    <2>2. CASE u = 1
      <3>1. worker' = "ended" /\ head' = tail'
        BY <1>1, <1>2, <1>3, <2>1, <2>2
      <3>2. printed = accepted
        <4>1. Len(accepted) = Len(printed) /\ \A i \in 1 .. Len(printed) : printed[i] = accepted[i]
          BY <1>5, <2>1, <2>2 DEF Holds
        <4> QED BY <1>1, <4>1, SeqEqual DEF TypeOK
      <3> QED BY <1>1, <1>4, <1>8, <3>1, <3>2 DEF IInv, Stopping
    <2>3. CASE u > 1
      <3>1. worker' = "print" /\ Holds(u - 1 - 1)' /\ head' # tail'
        BY <1>2, <1>3, <1>6, <2>1, <2>3
      <3>2. (entries[Wrap(head + (u - 2))])'.is_end
        <4>1. u - 2 \in 0 .. u - 2 /\ head + (u - 2) + 1 = head + (u - 1)
          BY <1>1, <2>3 DEF TypeOK
        <4> QED BY <1>1, <1>3, <2>1, <4>1
      <3>3. UsedSlots' - 1 = u - 2 /\ u - 1 - 1 = u - 2
        BY <1>3
      <3>4. Holds(UsedSlots - 1)' /\ (entries[Wrap(head + UsedSlots - 1)])'.is_end
        <4>1. head' + UsedSlots' - 1 = head' + (u - 2)
          BY <1>3, <1>4 DEF TypeOK
        <4> QED BY <3>1, <3>2, <3>3, <4>1 DEF Holds
      <3> QED BY <1>1, <1>4, <1>8, <3>1, <3>4 DEF IInv, Stopping
    <2> QED BY <2>2, <2>3
  <1> QED BY <1>1, <1>7, <1>8 DEF IInv, Paused

LEMMA PrintStep == ASSUME IInv, PrintCur PROVE IInv'
  <1> DEFINE msg == [cur.msg EXCEPT !.file = file]
  <1>1. /\ TypeOK
        /\ worker = "print" /\ worker' = "wait"
        /\ printed' = Append(printed, msg)
        /\ UNCHANGED <<size, entries, head, tail, running, file, cur, caller, calls, accepted>>
    BY DEF IInv, PrintCur, ring, history
  <1>2. /\ Len(accepted) \in Nat /\ Len(printed) \in Nat /\ Held = 1 /\ Held' = 0
        /\ UsedSlots \in Nat
        /\ (head # tail => UsedSlots - 1 \in Nat)
    BY <1>1, Geometry DEF TypeOK, Held
  <1>3. cur.msg \in Messages /\ cur.msg.file = file
    <2>1. ASSUME NEW n \in Nat, Holds(n) PROVE cur.msg \in Messages /\ cur.msg.file = file
      <3>1. Len(printed) + 1 \in 1 .. Len(accepted)
        BY <1>1, <1>2, <2>1 DEF Holds
      <3>2. cur.msg = accepted[Len(printed) + 1] /\ accepted[Len(printed) + 1].file = file
        BY <1>1, <1>2, <2>1, <3>1 DEF Holds
      <3> QED BY <1>1, <3>1, <3>2 DEF TypeOK
    <2>2. ASSUME NEW n, n \in Nat, Holds(n) PROVE cur.msg \in Messages /\ cur.msg.file = file
      BY <2>1, <2>2
    <2>3. CASE Logging
      <3>1. Holds(UsedSlots)
        BY <2>3 DEF Logging
      <3> QED BY <1>2, <2>2, <3>1
    <2>4. CASE Stopping /\ head # tail
      <3>1. Holds(UsedSlots - 1)
        BY <1>1, <2>4 DEF Stopping
      <3>2. UsedSlots - 1 \in Nat
        BY <1>2, <2>4
      <3> QED BY <2>2, <3>1, <3>2
    <2>5. CASE Stopping /\ head = tail
      BY <1>1, <2>5 DEF Stopping
    <2> QED BY <1>1, <2>3, <2>4, <2>5 DEF IInv, Paused
  <1>4. msg = cur.msg
    BY <1>3 DEF Messages
  <1> HIDE DEF msg
  <1>5. /\ printed' \in Seq(Messages) /\ Len(printed') = Len(printed) + 1
        /\ \A i \in 1 .. Len(printed) : printed'[i] = printed[i]
        /\ printed'[Len(printed) + 1] = cur.msg
    BY <1>1, <1>3, <1>4, AppendProperties DEF TypeOK
  <1>6. TypeOK'
    BY <1>1, <1>5 DEF TypeOK
  <1>7. ASSUME NEW n \in Nat, Holds(n) PROVE Holds(n)'
    <2>1. Len(accepted') = Len(printed') + Held' + n
      BY <1>1, <1>2, <1>5, <1>7 DEF Holds
    <2>2. \A i \in 1 .. Len(printed') : printed'[i] = accepted'[i]
      BY <1>1, <1>2, <1>5, <1>7 DEF Holds
    <2>3. \A i \in 0 .. n - 1 :
             /\ (entries[Wrap(head + i)])' = entries[Wrap(head + i)]
             /\ Len(printed) + Held + i + 1 = Len(printed') + Held' + i + 1
      BY <1>1, <1>2, <1>5 DEF Wrap
    <2>4. \A i \in Len(printed') + 1 .. Len(accepted') : accepted'[i].file = file'
      BY <1>1, <1>2, <1>5, <1>7 DEF Holds
    <2> QED BY <1>1, <1>7, <2>1, <2>2, <2>3, <2>4 DEF Holds
  <1>8. UsedSlots' = UsedSlots /\ (entries[Wrap(head + UsedSlots - 1)])' = entries[Wrap(head + UsedSlots - 1)]
    BY <1>1 DEF UsedSlots, Wrap
  <1>9. CASE Logging
    <2>1. PICK n \in Nat : n = UsedSlots
      BY <1>2
    <2>2. Holds(n)
      BY <1>9, <2>1 DEF Logging
    <2>3. Holds(n)' /\ UsedSlots' = n
      BY <1>7, <1>8, <2>1, <2>2
    <2>4. Holds(UsedSlots)'
      BY <2>3 DEF Holds
    <2> QED BY <1>1, <1>6, <1>9, <2>4 DEF IInv, Logging
  <1>10. CASE Stopping
    <2>1. CASE head = tail
      BY <1>1, <1>6, <1>10, <2>1 DEF IInv, Stopping
    <2>2. CASE head # tail
      <3>1. PICK n \in Nat : n = UsedSlots - 1
        BY <1>2, <2>2
      <3>2. Holds(n) /\ entries[Wrap(head + UsedSlots - 1)].is_end
        BY <1>1, <1>10, <2>2, <3>1 DEF Stopping, Holds
      <3>3. Holds(n)' /\ UsedSlots' - 1 = n
        BY <1>7, <1>8, <3>1, <3>2
      <3>4. Holds(UsedSlots - 1)'
        BY <3>3 DEF Holds
      <3> QED BY <1>1, <1>6, <1>8, <1>10, <2>2, <3>2, <3>4 DEF IInv, Stopping
    <2> QED BY <2>1, <2>2
  <1> QED BY <1>1, <1>9, <1>10 DEF IInv, Paused

LEMMA PauseStep == ASSUME IInv, Pause PROVE IInv'
  <1> DEFINE e == [entries EXCEPT ![tail].is_end = TRUE]
  <1>1. /\ TypeOK /\ Logging
        /\ running' = FALSE /\ entries' = e /\ tail' = Succ(tail)
        /\ caller' \in {"pause", "flush", "file"}
        /\ UNCHANGED <<size, head, file, worker, cur, calls, accepted, printed>>
    BY DEF IInv, Pause, Paused, Stopping, history
  <1>2. /\ tail \in 0 .. size - 1 /\ Succ(tail) \in 0 .. size - 1
        /\ e \in [0 .. size - 1 -> Entries] /\ e[tail].is_end
        /\ \A i \in 0 .. size - 1 : i # tail => e[i] = entries[i]
    BY <1>1, SuccIs DEF TypeOK, Entries
  <1> HIDE DEF e
  <1>3. TypeOK'
    BY <1>1, <1>2 DEF TypeOK
  <1>4. Len(accepted) \in Nat /\ Len(printed) \in Nat /\ Held \in {0, 1} /\ Held' = Held
    BY <1>1 DEF TypeOK, Held
  <1>5. PICK u \in Nat : /\ u = UsedSlots /\ Wrap(head + u) = tail
                         /\ \A i \in 0 .. u - 1 : Wrap(head + i) \in 0 .. size - 1
                                                  /\ Wrap(head + i) # tail
    BY <1>1, Geometry
  <1>6. CASE Succ(tail) = head
    <2>1. worker = "print" => cur.msg \in Messages /\ cur.msg.file = file
      <3>1. HAVE worker = "print"
      <3>2. Len(printed) + 1 \in 1 .. Len(accepted)
        BY <1>1, <1>4, <1>5, <3>1 DEF Logging, Holds, Held
      <3>3. cur.msg = accepted[Len(printed) + 1] /\ accepted[Len(printed) + 1].file = file
        BY <1>1, <1>4, <3>1, <3>2 DEF Logging, Holds
      <3> QED BY <1>1, <3>2, <3>3 DEF TypeOK
    <2> QED BY <1>1, <1>3, <1>6, <2>1 DEF IInv, Logging, Stopping
  <1>7. CASE Succ(tail) # head
    <2>1. UsedSlots' = u + 1 /\ head' # tail'
      BY <1>1, <1>5, <1>7, Advance
    <2>2. \A i \in 0 .. u - 1 : (entries[Wrap(head + i)])' = entries[Wrap(head + i)]
      BY <1>1, <1>2, <1>5 DEF Wrap
    <2>3. (entries[Wrap(head + u)])'.is_end
      BY <1>1, <1>2, <1>5 DEF Wrap
    <2>4. Holds(u)'
      BY <1>1, <1>4, <1>5, <2>2 DEF Logging, Holds
    <2>5. UsedSlots' - 1 = u /\ head' + UsedSlots' - 1 = head' + u
      BY <1>3, <2>1 DEF TypeOK
    <2>6. Holds(UsedSlots - 1)' /\ (entries[Wrap(head + UsedSlots - 1)])'.is_end
      BY <2>3, <2>4, <2>5 DEF Holds
    <2> QED BY <1>1, <1>3, <2>1, <2>6 DEF IInv, Logging, Stopping
  <1> QED BY <1>6, <1>7

\* Nothing is in the ring when the log is paused: it can start again.
LEMMA ResumeStep == ASSUME IInv, Resume PROVE IInv'
  <1>1. /\ TypeOK /\ Paused
        /\ running' = TRUE /\ worker' = "wait" /\ caller' = "out"
        /\ UNCHANGED <<size, entries, head, tail, file, cur, calls, accepted, printed>>
    BY DEF IInv, Resume, Logging, Stopping, ring, history
  <1>2. TypeOK'
    BY <1>1 DEF TypeOK
  <1>3. UsedSlots' = 0 /\ Held' = 0 /\ Len(accepted) \in Nat
    BY <1>1, <1>2, Geometry DEF Paused, UsedSlots, Held, TypeOK
  <1>4. Holds(0)'
    BY <1>1, <1>3 DEF Holds, Paused
  <1>5. Holds(UsedSlots)'
    BY <1>3, <1>4 DEF Holds
  <1> QED BY <1>1, <1>2, <1>5 DEF IInv, Logging

LEMMA NextInv == ASSUME IInv, [Next]_vars PROVE IInv'
  <1>1. CASE UNCHANGED vars
    BY <1>1 DEF vars, ring, history, IInv, TypeOK, Logging, Paused, Stopping,
                Holds, Held, UsedSlots, Wrap
  <1>2. CASE Discard
    <2>1. UNCHANGED <<size, entries, head, tail, running, file, worker, cur, caller, accepted, printed>>
      BY <1>2 DEF Discard, ring
    <2>2. calls' \in 0 .. MaxCalls
      BY <1>2, CapacityOK DEF Discard, IInv, TypeOK
    <2>3. TypeOK'
      BY <2>1, <2>2 DEF IInv, TypeOK
    <2> QED BY <2>1, <2>3 DEF IInv, Logging, Paused, Stopping, Holds, Held, UsedSlots, Wrap
  <1>3. CASE Join
    <2>1. /\ TypeOK /\ Stopping /\ worker = "ended"
          /\ worker' = "none" /\ caller' \in {"out", "resume"} /\ file' \in 0 .. MaxFiles
          /\ UNCHANGED <<size, entries, head, tail, running, cur, calls, accepted, printed>>
      BY <1>3, CapacityOK DEF IInv, Join, Stopped, Logging, Paused, Stopping, ring, history, TypeOK
    <2>2. TypeOK'
      BY <2>1 DEF TypeOK
    <2> QED BY <2>1, <2>2 DEF IInv, Stopping, Paused
  <1>4. CASE Reopen
    <2>1. /\ TypeOK /\ Paused /\ caller' = "resume" /\ file' \in 0 .. MaxFiles
          /\ UNCHANGED <<size, entries, head, tail, running, worker, cur, calls, accepted, printed>>
      BY <1>4, CapacityOK DEF IInv, Reopen, Logging, Stopping, ring, history, TypeOK
    <2>2. TypeOK'
      BY <2>1 DEF TypeOK
    <2> QED BY <2>1, <2>2 DEF IInv, Paused
  <1> QED BY <1>1, <1>2, <1>3, <1>4, AddStep, TakeStep, PrintStep, PauseStep, ResumeStep
          DEF Next, Worker, Caller

THEOREM LogInvariant == Spec => []IInv
  <1>1. Init => IInv
    BY InitInv, CapacityOK
  <1>2. IInv /\ [Next]_vars => IInv'
    BY NextInv
  <1> QED BY <1>1, <1>2, PTL DEF Spec

-----------------------------------------------------------------------------
\* The ring, head and tail stay what common/log.cpp indexes with, at every size
\* that add() has grown the ring to.
THEOREM TypeCorrect == Spec => []TypeOK
  <1>1. IInv => TypeOK
    BY DEF IInv
  <1> QED BY <1>1, LogInvariant, PTL

\* When pause() has returned, everything that add() accepted is printed: what
\* common_log_flush() promises of "all pending log messages".
THEOREM FlushedWhenPaused == Spec => []PausedIsFlushed
  <1>1. IInv => PausedIsFlushed
    BY DEF IInv, Logging, Paused, Stopping, PausedIsFlushed
  <1> QED BY <1>1, LogInvariant, PTL

LEMMA Concatenation ==
    ASSUME NEW T, NEW s \in Seq(T), NEW t \in Seq(T)
    PROVE  /\ s \o t \in Seq(T) /\ Len(s \o t) = Len(s) + Len(t)
           /\ \A i \in 1 .. Len(s) : (s \o t)[i] = s[i]
           /\ \A i \in 1 .. Len(t) : (s \o t)[Len(s) + i] = t[i]
  <1>1. Len(s) \in Nat /\ Len(t) \in Nat
    OBVIOUS
  <1>2. ASSUME NEW i \in 1 .. Len(t) PROVE (s \o t)[Len(s) + i] = t[i]
    <2>1. Len(s) + i \in 1 .. Len(s) + Len(t) /\ ~(Len(s) + i <= Len(s))
          /\ Len(s) + i - Len(s) = i
      BY <1>1
    <2> QED BY <2>1, ConcatProperties
  <1> QED BY <1>1, <1>2, ConcatProperties

\* While the log runs, what add() accepted is what the worker has printed, then
\* what it holds, then the ring, in the order of the calls.
THEOREM LosslessAlways == Spec => []Lossless
  <1> DEFINE T == Messages \cup {NoMessage}
             all == printed \o InHand \o Pending
  <1>1. ASSUME IInv, running PROVE accepted = all
    <2>1. TypeOK /\ worker \in {"wait", "print"}
      BY <1>1 DEF IInv, Logging, Paused, Stopping
    <2>2. PICK u \in Nat : u = UsedSlots /\ u = Used /\ u \in 0 .. size - 1
      BY <2>1, UsedIs
    <2>3. Holds(u)
      BY <1>1, <2>2 DEF IInv, Logging, Paused, Stopping
    <2>4. PICK p \in Nat, h \in {0, 1} : /\ p = Len(printed) /\ h = Held
                                         /\ Len(accepted) = p + h + u
      BY <2>1, <2>3 DEF TypeOK, Held, Holds
    <2>5. accepted \in Seq(T) /\ printed \in Seq(T)
      BY <2>1 DEF TypeOK
    <2>6. cur.msg \in T
      BY <2>1 DEF TypeOK, Entries
    <2>7. ASSUME NEW i \in 1 .. u
          PROVE  /\ entries[(head + i - 1) % size].msg = entries[Wrap(head + (i - 1))].msg
                 /\ entries[(head + i - 1) % size].msg \in T
      <3>1. PICK j \in 0 .. size - 1 : j = i - 1 /\ head + i - 1 = head + j
        BY <2>1, <2>2 DEF TypeOK
      <3>2. (head + j) % size = Wrap(head + j) /\ Wrap(head + j) \in 0 .. size - 1
        BY <2>1, WrapIs
      <3>3. entries[Wrap(head + j)].msg \in T
        BY <2>1, <3>2 DEF TypeOK, Entries
      <3> QED BY <3>1, <3>2, <3>3
    <2> HIDE DEF T
    <2>8. /\ Pending \in Seq(T) /\ Len(Pending) = u
          /\ \A i \in 1 .. u : Pending[i] = entries[Wrap(head + (i - 1))].msg
      <3>1. Pending = [i \in 1 .. u |-> entries[(head + i - 1) % size].msg]
        BY <2>2 DEF Pending
      <3>2. Pending \in Seq(T) /\ Len(Pending) = u
        BY <2>7, <3>1
      <3> QED BY <2>7, <3>1, <3>2
    <2>9. InHand \in Seq(T) /\ Len(InHand) = h /\ (h = 1 => InHand[1] = cur.msg)
      <3>1. CASE worker = "print"
        <4>1. InHand = <<cur.msg>> /\ h = 1
          BY <2>4, <3>1 DEF InHand, Held
        <4> QED BY <2>6, <4>1
      <3>2. CASE worker # "print"
        <4>1. InHand = <<>> /\ h = 0
          BY <2>4, <3>2 DEF InHand, Held
        <4> QED BY <4>1
      <3> QED BY <3>1, <3>2
    <2>10. /\ printed \o InHand \in Seq(T) /\ Len(printed \o InHand) = p + h
           /\ \A i \in 1 .. p : (printed \o InHand)[i] = printed[i]
           /\ h = 1 => (printed \o InHand)[p + 1] = cur.msg
      <3>1. /\ printed \o InHand \in Seq(T) /\ Len(printed \o InHand) = Len(printed) + Len(InHand)
            /\ \A i \in 1 .. Len(printed) : (printed \o InHand)[i] = printed[i]
            /\ \A i \in 1 .. Len(InHand) : (printed \o InHand)[Len(printed) + i] = InHand[i]
        BY <2>5, <2>9, Concatenation
      <3> QED BY <2>4, <2>9, <3>1
    <2>11. /\ all \in Seq(T) /\ Len(all) = p + h + u
           /\ \A i \in 1 .. p + h : all[i] = (printed \o InHand)[i]
           /\ \A i \in 1 .. u : all[p + h + i] = Pending[i]
      <3>1. PICK f \in Seq(T) : f = printed \o InHand
        BY <2>10
      <3>2. PICK r \in Seq(T) : r = Pending
        BY <2>8
      <3>3. /\ f \o r \in Seq(T) /\ Len(f \o r) = Len(f) + Len(r)
            /\ \A i \in 1 .. Len(f) : (f \o r)[i] = f[i]
            /\ \A i \in 1 .. Len(r) : (f \o r)[Len(f) + i] = r[i]
        BY Concatenation
      <3>4. all = f \o r /\ Len(f) = p + h /\ Len(r) = u
        BY <2>8, <2>10, <3>1, <3>2
      <3> QED BY <3>1, <3>2, <3>3, <3>4
    <2> HIDE DEF all
    <2>12. ASSUME NEW i \in 1 .. p + h + u PROVE accepted[i] = all[i]
      <3>1. CASE i <= p
        <4>1. i \in 1 .. p /\ i \in 1 .. p + h
          BY <3>1
        <4> QED BY <2>3, <2>4, <2>10, <2>11, <4>1 DEF Holds
      <3>2. CASE p < i /\ i <= p + h
        <4>1. h = 1 /\ i = p + 1 /\ i \in 1 .. p + h
          BY <3>2
        <4>2. worker = "print"
          BY <2>4, <4>1 DEF Held
        <4> QED BY <2>3, <2>4, <2>10, <2>11, <4>1, <4>2 DEF Holds
      <3>3. CASE p + h < i
        <4>1. PICK j \in 0 .. u - 1 : i = p + h + (j + 1) /\ p + h + j + 1 = i
          <5> DEFINE k == i - (p + h) - 1
          <5>1. k \in 0 .. u - 1 /\ i = p + h + (k + 1) /\ p + h + k + 1 = i
            BY <3>3
          <5> HIDE DEF k
          <5> QED BY <5>1
        <4>2. all[i] = Pending[j + 1] /\ j + 1 \in 1 .. u
          BY <2>11, <4>1
        <4>3. Pending[j + 1] = entries[Wrap(head + j)].msg
          BY <2>8, <4>1, <4>2
        <4>4. entries[Wrap(head + j)].msg = accepted[p + h + j + 1]
          BY <2>3, <2>4, <4>1 DEF Holds
        <4> QED BY <4>1, <4>2, <4>3, <4>4
      <3> QED BY <3>1, <3>2, <3>3
    <2> QED BY <2>4, <2>5, <2>11, <2>12, SeqEqual
  <1>2. IInv => Lossless
    BY <1>1 DEF Lossless
  <1> QED BY <1>2, LogInvariant, PTL
=============================================================================
